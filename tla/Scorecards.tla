----------------------------- MODULE Scorecards -----------------------------
(***************************************************************************)
(* Scorecards of pkg/tools/ingest/scorecard.go: the results of one request *)
(* become nodes that libraries depend on.  The libraries are changed in a  *)
(* snapshot of the graph that the request reads at its start, while other  *)
(* requests go on.  Libraries and results are given by their purls.        *)
(***************************************************************************)
EXTENDS Versions

CONSTANTS
    LibraryPurls, \* of the library nodes, all there from the start
    ResultPurls,  \* of the successful results in the data
    Other         \* what other requests make a library depend on

VARIABLES
    children,  \* of each library: results, and Other
    parents,   \* of each result
    ingest,    \* the request
    copies,    \* its nodes: the children of each library
    answered,  \* a request has succeeded
    settled    \* libraries that had the edge of another before the request

edges == <<children, parents>>
vars == <<edges, ingest, copies, answered, settled>>

Ready == [at |-> "ready"]

(* Results are found by the name in their purl alone, libraries look with  *)
(* the name that OSV uses, which contains the namespace.  Then the version *)
(* is compared, and nothing else.                                          *)
Matches(library, result) ==
    /\ PURLToPackage(library).name = <<result.name>>
    /\ PURLToPackage(library).version = PURLToPackage(result).version

Init ==
    /\ children = [l \in LibraryPurls |-> {}]
    /\ parents = [r \in ResultPurls |-> {}]
    /\ ingest = Ready /\ copies = children
    /\ answered = FALSE /\ settled = {}

(* Another request adds a dependency to a library.                         *)
OtherEdge(l) ==
    /\ children' = [children EXCEPT ![l] = @ \cup {Other}]
    /\ UNCHANGED <<parents, ingest, copies, answered, settled>>

Snapshot ==
    /\ ingest.at = "ready"
    /\ copies' = children
    /\ settled' = {l \in LibraryPurls : Other \in children[l]}
    /\ ingest' = [at |-> "loop",
                  left |-> {m \in LibraryPurls \X ResultPurls : Matches(m[1], m[2])}]
    /\ UNCHANGED <<edges, answered>>

(* AddNode reads the result's node, or saves a new one.                    *)
AddScorecard(l, r) ==
    /\ ingest.at = "loop" /\ <<l, r>> \in ingest.left
    /\ ingest' = [at |-> "library", left |-> ingest.left, library |-> l, result |-> r,
                  copy |-> parents[r]]
    /\ UNCHANGED <<edges, copies, answered, settled>>

(* Mutant of SaveLibrary: the copy is not changed, only what is saved.     *)
MutantSaveLibrary ==
    /\ ingest.at = "library"
    /\ children' = [children EXCEPT ![ingest.library] = copies[ingest.library] \cup {ingest.result}]
    /\ ingest' = [ingest EXCEPT !.at = "result"]
    /\ UNCHANGED <<parents, copies, answered, settled>>

(* SetDependency changes the library of the snapshot and saves it.         *)
SaveLibrary ==
    /\ ingest.at = "library"
    /\ copies' = [copies EXCEPT ![ingest.library] = @ \cup {ingest.result}]
    /\ children' = [children EXCEPT ![ingest.library] = copies'[ingest.library]]
    /\ ingest' = [ingest EXCEPT !.at = "result"]
    /\ UNCHANGED <<parents, answered, settled>>

SaveResult ==
    /\ ingest.at = "result"
    /\ parents' = [parents EXCEPT ![ingest.result] = ingest.copy \cup {ingest.library}]
    /\ ingest' = [at |-> "loop", left |-> ingest.left \ {<<ingest.library, ingest.result>>}]
    /\ UNCHANGED <<children, copies, answered, settled>>

Succeed ==
    /\ ingest.at = "loop" /\ ingest.left = {}
    /\ ingest' = Ready /\ answered' = TRUE
    /\ UNCHANGED <<edges, copies, settled>>

(* A storage call fails, or the server stops; the request may be repeated. *)
Fail ==
    /\ ingest # Ready
    /\ ingest' = Ready
    /\ UNCHANGED <<edges, copies, answered, settled>>

Next ==
    \/ \E l \in LibraryPurls : OtherEdge(l)
    \/ Snapshot \/ SaveLibrary \/ SaveResult \/ Succeed \/ Fail
    \/ \E l \in LibraryPurls, r \in ResultPurls : AddScorecard(l, r)

Spec == Init /\ [][Next]_vars

-----------------------------------------------------------------------------
(* After a request has succeeded, every library has the results of its     *)
(* name and version at both ends of the edge, whatever failed before, also *)
(* if one library has several results or one result several libraries; a   *)
(* result is linked to libraries of its own version only; and an edge that *)
(* another request had added before the nodes were read is kept.  One that *)
(* comes later may be overwritten.                                         *)
ResultsAreLinked ==
    /\ \A l \in LibraryPurls, r \in ResultPurls :
          /\ answered /\ l.namespace = "" /\ l.name = r.name /\ l.version = r.version =>
                r \in children[l] /\ l \in parents[r]
          /\ r \in children[l] => l.version = r.version
    /\ \A l \in settled : Other \in children[l]
=============================================================================
