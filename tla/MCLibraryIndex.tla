--------------------------- MODULE MCLibraryIndex ---------------------------
(***************************************************************************)
(* A small instance of LibraryIndex: one record affects both libraries,    *)
(* the other only one.  Beside it a small instance of GraphStore, a writer *)
(* and a client that caches, clears and queries, for the question:         *)
(* does every request end?  They share no state: a behaviour is one of one *)
(* of them, while the other stays in its initial state.                    *)
(***************************************************************************)
EXTENDS LibraryIndex

CONSTANTS l1, l2, r1, r2, c1, c2, \* of LibraryIndex
          a, b, NoName, k1, w1    \* of GraphStore

MCAffected == [r \in Records |-> IF r = r1 THEN {l1, l2} ELSE {l2}]

VARIABLES part, rows, nameToId, counter, caches, hasCache, cacheStack, graphReq

Graph == INSTANCE GraphStore WITH
    MaxId <- 2, MaxEdges <- 2, Loaded <- <<a, b>>, Names <- {a, b},
    Writers <- {w1}, Cachers <- {k1}, Clearers <- {k1}, Queriers <- {k1},
    BatchSize <- 1, ClearMarks <- FALSE, MayFail <- FALSE, IndexMayFail <- FALSE,
    req <- graphReq

graph == <<rows, nameToId, counter, caches, hasCache, cacheStack, graphReq>>

MCInit == part \in {"index", "graph"} /\ Init /\ Graph!Init

MCNext == /\ UNCHANGED part
          /\ \/ part = "index" /\ Next /\ UNCHANGED graph
             \/ part = "graph" /\ Graph!Next /\ UNCHANGED vars

MCSpec == MCInit /\ [][MCNext]_<<part, vars, graph>> /\ Fairness /\ Graph!Fairness

(* Every request on the graph ends, also a query that walks a cycle while  *)
(* edges are added, see GraphStore.                                        *)
GraphRequestsEnd == Graph!RequestsEnd
=============================================================================
