----------------------------- MODULE Priorities -----------------------------
(***************************************************************************)
(* The data that ranks vulnerabilities (pkg/tools/ingest/prioritize.go): a *)
(* KEV catalog, EPSS scores and VEX statements become rows of custom data, *)
(* one storage call each, while OSV records are ingested and reports read  *)
(* the rows.  One request stores at a time; it may stop after any row.     *)
(*                                                                         *)
(* The vulnerability under report has the names of its OSV record in that  *)
(* order.  VEX documents are about one product.                            *)
(***************************************************************************)
EXTENDS Naturals, Sequences, FiniteSets, SequencesExt, FiniteSetsExt

CONSTANTS
    CVEs,       \* names that KEV and EPSS data may have
    VulnNames,  \* the names of the vulnerability under report: a sequence
    EPSSFiles,  \* what the files say: CVE -> score, by number
    Documents   \* the names of the vulnerability in each VEX document

VARIABLES
    recorded, \* the CVEs that OSV records in the graph name
    kev,      \* the CVEs with an entry row
    epss,     \* the score row of each CVE, 0 for none
    vex,      \* the document whose statement is stored under each name, or 0
    store,    \* the request: rows left to write, or at = "none"
    listed,   \* the CVEs of the KEV catalogs that were stored with success
    scored,   \* the file of the last EPSS request that succeeded, and the
    due,      \* CVEs that were recorded when it began
    stated    \* the VEX documents in order, 0 for one that has not succeeded

rowsOf == <<kev, epss, vex>>
ghosts == <<listed, scored, due, stated>>
vars == <<recorded, rowsOf, store, ghosts>>

NoRequest == [at |-> "none"]

Init ==
    /\ recorded = {} /\ kev = {} /\ listed = {} /\ due = {} /\ scored = 0 /\ stated = <<>>
    /\ epss = [c \in CVEs |-> 0]
    /\ vex = [k \in DOMAIN VulnNames |-> 0]
    /\ store = NoRequest

IngestOSV(c) ==
    /\ recorded' = recorded \cup {c}
    /\ UNCHANGED <<rowsOf, store, ghosts>>

(* KEV stores all entries, also of CVEs that no record names.              *)
KEV(catalog) ==
    /\ store = NoRequest
    /\ store' = [at |-> "kev", catalog |-> catalog, left |-> catalog]
    /\ UNCHANGED <<recorded, rowsOf, ghosts>>

StoreEntry(c) ==
    /\ store.at = "kev" /\ c \in store.left
    /\ kev' = kev \cup {c}
    /\ store' = [store EXCEPT !.left = @ \ {c}]
    /\ UNCHANGED <<recorded, epss, vex, ghosts>>

(* Mutant of CVEsInGraph: every CVE is taken for known.                    *)
MutantCVEsInGraph == CVEs

(* The CVEs among the names of the vulnerability nodes.                    *)
CVEsInGraph == recorded

(* EPSS reads them first, and stores the scores of these only.             *)
EPSS(file) ==
    /\ store = NoRequest
    /\ store' = [at |-> "epss", file |-> file, known |-> CVEsInGraph,
                 left |-> CVEsInGraph \cap DOMAIN EPSSFiles[file]]
    /\ UNCHANGED <<recorded, rowsOf, ghosts>>

StoreScore(c) ==
    /\ store.at = "epss" /\ c \in store.left
    /\ epss' = [epss EXCEPT ![c] = EPSSFiles[store.file][c]]
    /\ store' = [store EXCEPT !.left = @ \ {c}]
    /\ scored' = 0 \* the older file counts no more
    /\ UNCHANGED <<recorded, kev, vex, listed, due, stated>>

(* VEX writes one row for each name, in the order of the document.         *)
VEX(d) ==
    /\ store = NoRequest
    /\ Len(stated) < Cardinality(DOMAIN Documents)  \* bound
    /\ store' = [at |-> "vex", doc |-> d, left |-> Documents[d]]
    /\ stated' = Append(stated, 0)
    /\ UNCHANGED <<recorded, rowsOf, listed, scored, due>>

(* Mutant of StoreStatement: the document's name alone is used.            *)
MutantStoreStatement ==
    /\ store.at = "vex" /\ store.left # <<>>
    /\ vex' = [k \in DOMAIN vex |-> IF VulnNames[k] = Head(store.left) THEN store.doc ELSE vex[k]]
    /\ store' = [store EXCEPT !.left = <<>>]
    /\ UNCHANGED <<recorded, kev, epss, ghosts>>

StoreStatement ==
    /\ store.at = "vex" /\ store.left # <<>>
    /\ vex' = [k \in DOMAIN vex |-> IF VulnNames[k] = Head(store.left) THEN store.doc ELSE vex[k]]
    /\ store' = [store EXCEPT !.left = Tail(@)]
    /\ UNCHANGED <<recorded, kev, epss, ghosts>>

Succeed ==
    /\ store # NoRequest
    /\ store.left = (IF store.at = "vex" THEN <<>> ELSE {})
    /\ store' = NoRequest
    /\ CASE store.at = "kev" -> /\ listed' = listed \cup store.catalog
                                /\ UNCHANGED <<scored, due, stated>>
         [] store.at = "epss" -> /\ scored' = store.file /\ due' = store.known
                                 /\ UNCHANGED <<listed, stated>>
         [] store.at = "vex" -> /\ stated' = [stated EXCEPT ![Len(stated)] = store.doc]
                                /\ UNCHANGED <<listed, scored, due>>
    /\ UNCHANGED <<recorded, rowsOf>>

(* The document is refused, a row in it is, or a storage call fails.       *)
Fail ==
    /\ store # NoRequest
    /\ store' = NoRequest
    /\ UNCHANGED <<recorded, rowsOf, ghosts>>

Next ==
    \/ \E c \in CVEs : IngestOSV(c) \/ StoreEntry(c) \/ StoreScore(c)
    \/ \E catalog \in SUBSET CVEs : KEV(catalog)
    \/ \E file \in DOMAIN EPSSFiles : EPSS(file)
    \/ \E d \in DOMAIN Documents : VEX(d)
    \/ StoreStatement \/ Succeed \/ Fail

Spec == Init /\ [][Next]_vars

-----------------------------------------------------------------------------
(* What a report finds for the vulnerability: in KEV by any of its CVEs,   *)
(* the highest of their scores, and the statement under the last name that *)
(* has one.                                                                *)
NamedCVEs == ToSet(VulnNames) \cap CVEs
InKEV == NamedCVEs \cap kev # {}
Score == Max({epss[c] : c \in NamedCVEs} \cup {0})
Statement == LET told == {k \in DOMAIN vex : vex[k] # 0}
             IN  IF told = {} THEN 0 ELSE vex[Max(told)]

(* The scores of a file that was ingested with success are those of the    *)
(* report, for the CVEs that were recorded when the request began; a CVE   *)
(* that no record names has no score, so that one that is recorded later   *)
(* has none until scores are ingested again.  KEV entries are there in     *)
(* whatever order catalogs and records came.                               *)
ScoresFollowRecords ==
    /\ NamedCVEs \cap listed # {} => InKEV
    /\ \A c \in CVEs : epss[c] # 0 => c \in recorded
    /\ scored # 0 /\ store.at # "epss" =>
          \A c \in due \cap DOMAIN EPSSFiles[scored] :
              /\ epss[c] = EPSSFiles[scored][c]
              /\ c \in NamedCVEs => Score >= EPSSFiles[scored][c]

(* The report goes by the last VEX document that was ingested, if all      *)
(* documents name the vulnerability by all of its names and none failed;   *)
(* nothing else orders statements, not their timestamps either.            *)
LastStatementCounts ==
    /\ stated # <<>> /\ store.at # "vex" /\ 0 \notin ToSet(stated)
    /\ \A d \in ToSet(stated) : ToSet(VulnNames) \subseteq ToSet(Documents[d])
    => Statement = Last(stated)
=============================================================================
