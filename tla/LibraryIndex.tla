---------------------------- MODULE LibraryIndex ----------------------------
(***************************************************************************)
(* The library index of the service: what links vulnerabilities to the     *)
(* libraries they affect (api/v1/service.go, pkg/tools/ingest/vuln.go).    *)
(*                                                                         *)
(* The first vulnerability ingest reads the graph once and keeps an index  *)
(* of its libraries for the next ones; adding nodes drops the index.  A    *)
(* mutex guards the index, but not the storage that the index is read      *)
(* from.  What the single storage calls of a save or a link do to rows is  *)
(* the matter of module GraphStore.                                        *)
(***************************************************************************)
EXTENDS Naturals

CONSTANTS
    Clients,    \* each has at most one request in flight
    Libraries,  \* the library nodes that clients may add
    Records,    \* the OSV records that clients may ingest
    Affected,   \* record -> the libraries it affects (isPackageAffected)
    None,       \* no index; nobody
    MayFail     \* storage calls may fail, the server may crash

ASSUME AffectedAssumption == Affected \in [Records -> SUBSET Libraries]
ASSUME NoneAssumption == None \notin Clients /\ \A S \in SUBSET Libraries : S # None
ASSUME MayFailAssumption == MayFail \in BOOLEAN

VARIABLES
    stored,      \* the libraries in the storage
    linked,      \* <<r, l>>: the edge from library l to record r was saved
    libraries,   \* the index in memory: the libraries it holds, or None
    librariesMu, \* the client whose request holds the mutex, or None
    req,         \* the requests in flight
    answered     \* history: the libraries saved by requests that have ended

vars == <<stored, linked, libraries, librariesMu, req, answered>>

Idle == [at |-> "idle"]
Request ==
    {Idle} \cup
    [at : {"Save", "Invalidate"}, left : SUBSET Libraries, saved : SUBSET Libraries] \cup
    [at : {"Lock", "ReadKeys"}, record : Records, due : SUBSET Libraries] \cup
    [at : {"ReadNodes"}, record : Records, due : SUBSET Libraries,
     keys : SUBSET Libraries] \cup
    [at : {"Link"}, record : Records, due : SUBSET Libraries, todo : SUBSET Libraries]

Goto(p, r) == req' = [req EXCEPT ![p] = r]

Init ==
    /\ stored = {}
    /\ linked = {}
    /\ libraries = None
    /\ librariesMu = None
    /\ req = [p \in Clients |-> Idle]
    /\ answered = {}

-----------------------------------------------------------------------------
(* Service.AddNode (one library) and Service.IngestSBOM (those of the      *)
(* document, one after the other).                                         *)
AddLibraries(p, S) ==
    /\ req[p] = Idle
    /\ Goto(p, [at |-> "Save", left |-> S, saved |-> {}])
    /\ UNCHANGED <<stored, linked, libraries, librariesMu, answered>>

(* A library that is stored already is left as it is.                      *)
Save(p) ==
    /\ req[p].at = "Save"
    /\ \/ \E l \in req[p].left :
            /\ stored' = stored \cup {l}
            /\ Goto(p, [req[p] EXCEPT !.left = @ \ {l}, !.saved = @ \cup {l}])
       \/ /\ req[p].left = {}
          /\ Goto(p, [req[p] EXCEPT !.at = "Invalidate"])
          /\ UNCHANGED stored
    /\ UNCHANGED <<linked, libraries, librariesMu, answered>>

(* The rest of the document is given up; the last library may have been    *)
(* stored before the call that failed.  The index is dropped all the same. *)
SaveFails(p) ==
    /\ MayFail
    /\ req[p].at = "Save"
    /\ \E S \in {{}} \cup {{l} : l \in req[p].left} :
          /\ stored' = stored \cup S
          /\ Goto(p, [req[p] EXCEPT !.at = "Invalidate", !.saved = @ \cup S])
    /\ UNCHANGED <<linked, libraries, librariesMu, answered>>

(* Mutant of Invalidate: the index is kept.                                *)
MutantInvalidate(p) ==
    /\ req[p].at = "Invalidate"
    /\ librariesMu = None
    /\ answered' = answered \cup req[p].saved
    /\ Goto(p, Idle)
    /\ UNCHANGED <<stored, linked, libraries, librariesMu>>

(* invalidateLibraries, then the answer to the client.                     *)
Invalidate(p) ==
    /\ req[p].at = "Invalidate"
    /\ librariesMu = None
    /\ libraries' = None
    /\ answered' = answered \cup req[p].saved
    /\ Goto(p, Idle)
    /\ UNCHANGED <<stored, linked, librariesMu>>

-----------------------------------------------------------------------------
(* Service.IngestVulnerability.  due is history: the libraries whose       *)
(* requests had ended when this one came in.                               *)
IngestVulnerability(p, r) ==
    /\ req[p] = Idle
    /\ Goto(p, [at |-> "Lock", record |-> r, due |-> answered])
    /\ UNCHANGED <<stored, linked, libraries, librariesMu, answered>>

Candidates(r, index) == index \cap Affected[r]

LinkRequest(q, index) ==
    [at |-> "Link", record |-> q.record, due |-> q.due,
     todo |-> Candidates(q.record, index)]

(* Mutant of Lock: the index is looked at without the mutex.               *)
MutantLock(p) ==
    /\ req[p].at = "Lock"
    /\ Goto(p, IF libraries = None THEN [req[p] EXCEPT !.at = "ReadKeys"]
                                   ELSE LinkRequest(req[p], libraries))
    /\ UNCHANGED <<stored, linked, libraries, librariesMu, answered>>

Lock(p) ==
    /\ req[p].at = "Lock"
    /\ librariesMu = None
    /\ librariesMu' = p
    /\ Goto(p, IF libraries = None THEN [req[p] EXCEPT !.at = "ReadKeys"]
                                   ELSE LinkRequest(req[p], libraries))
    /\ UNCHANGED <<stored, linked, libraries, answered>>

(* BuildLibraryIndex: the keys, then their rows.                           *)
ReadKeys(p) ==
    /\ req[p].at = "ReadKeys"
    /\ Goto(p, [at |-> "ReadNodes", record |-> req[p].record, due |-> req[p].due,
                keys |-> stored])
    /\ UNCHANGED <<stored, linked, libraries, librariesMu, answered>>

ReadNodes(p) ==
    /\ req[p].at = "ReadNodes"
    /\ libraries' = req[p].keys
    /\ Goto(p, LinkRequest(req[p], req[p].keys))
    /\ UNCHANGED <<stored, linked, librariesMu, answered>>

(* Mutant of Link: the vulnerability depends on the library.               *)
MutantLink(p) ==
    /\ req[p].at = "Link"
    /\ \E l \in req[p].todo :
          /\ linked' = linked \cup {<<l, req[p].record>>}
          /\ Goto(p, [req[p] EXCEPT !.todo = @ \ {l}])
    /\ UNCHANGED <<stored, libraries, librariesMu, answered>>

(* One turn of the loop of VulnerabilitiesWithIndex: the record becomes a  *)
(* node unless it is one, the library is read again, the edge is saved.    *)
Link(p) ==
    /\ req[p].at = "Link"
    /\ \E l \in req[p].todo :
          /\ linked' = linked \cup {<<req[p].record, l>>}
          /\ Goto(p, [req[p] EXCEPT !.todo = @ \ {l}])
    /\ UNCHANGED <<stored, libraries, librariesMu, answered>>

(* The mutex is released as the request ends.                              *)
Release(p) ==
    /\ librariesMu' = None
    /\ Goto(p, Idle)
    /\ UNCHANGED <<stored, linked, libraries, answered>>

Unlock(p) ==
    /\ req[p].at = "Link"
    /\ req[p].todo = {}
    /\ Release(p)

(* Mutant of IngestFails: the error is returned with the mutex held.       *)
MutantIngestFails(p) ==
    /\ MayFail
    /\ req[p].at \in {"ReadKeys", "ReadNodes", "Link"}
    /\ Goto(p, Idle)
    /\ UNCHANGED <<stored, linked, libraries, librariesMu, answered>>

(* A storage call fails: what is linked stays, the index too.              *)
IngestFails(p) ==
    /\ MayFail
    /\ req[p].at \in {"ReadKeys", "ReadNodes", "Link"}
    /\ Release(p)

-----------------------------------------------------------------------------
(* The server stops and starts again: every request ends where it is, the  *)
(* index and the mutex are new.                                            *)
Crash ==
    /\ MayFail
    /\ libraries' = None
    /\ librariesMu' = None
    /\ req' = [p \in Clients |-> Idle]
    /\ answered' = stored
    /\ UNCHANGED <<stored, linked>>

Start(p) ==
    \/ \E S \in SUBSET Libraries : AddLibraries(p, S)
    \/ \E r \in Records : IngestVulnerability(p, r)

Continue(p) ==
    \/ Save(p)
    \/ ReadKeys(p) \/ ReadNodes(p) \/ Link(p) \/ Unlock(p)

Acquire(p) == Invalidate(p) \/ Lock(p)

Fail(p) == SaveFails(p) \/ IngestFails(p)

Next == Crash \/ \E p \in Clients : Start(p) \/ Continue(p) \/ Acquire(p) \/ Fail(p)

Spec == Init /\ [][Next]_vars

(* Goroutines are scheduled, and a sync.Mutex passes nobody over for ever: *)
(* it is handed to who has waited for more than a millisecond.             *)
Fairness == \A p \in Clients : WF_vars(Continue(p)) /\ SF_vars(Acquire(p))

FairSpec == Spec /\ Fairness

-----------------------------------------------------------------------------
TypeOK ==
    /\ stored \in SUBSET Libraries
    /\ linked \in SUBSET (Records \X Libraries)
    /\ libraries = None \/ libraries \in SUBSET Libraries
    /\ librariesMu \in Clients \cup {None}
    /\ req \in [Clients -> Request]
    /\ answered \in SUBSET Libraries

(* The index in memory is never older than an answer: it holds every       *)
(* library whose request has ended, also while requests that read, drop    *)
(* and use it overlap, when they fail half-way, and after a crash.         *)
AnsweredLibrariesAreIndexed == libraries # None => answered \subseteq libraries

(* An ingest that comes to its end has linked the record to every affected *)
(* library whose request had ended when the ingest came in.                *)
AnsweredLibrariesAreLinked ==
    \A p \in Clients : req[p].at = "Link" /\ req[p].todo = {} =>
        \A l \in Candidates(req[p].record, req[p].due) :
            <<req[p].record, l>> \in linked

(* Nobody waits for the mutex for ever, whoever failed before.             *)
RequestsEnd == \A p \in Clients : req[p] # Idle ~> req[p] = Idle
=============================================================================
