---------------------------- MODULE MCLeaderboard ---------------------------
(***************************************************************************)
(* The instance of Leaderboard for TLC: the script finds one node for two  *)
(* of the nodes and two for the third.  Beside it an instance of GraphStore*)
(* with two clients that write at the same time.  They share no state: a   *)
(* behaviour is one of one of them, while the other stays in its initial   *)
(* state.                                                                  *)
(***************************************************************************)
EXTENDS Leaderboard, TLC

CONSTANTS a, b, c,         \* nodes of Leaderboard, names of GraphStore
          NoName, w1, w2   \* of GraphStore

MCSizeOf == (a :> 1) @@ (b :> 1) @@ (c :> 2)

VARIABLES part, rows, nameToId, counter, caches, withCache, cacheStack, req

TwoWriters == INSTANCE GraphStore WITH
    MaxId <- 3, MaxEdges <- 1, Loaded <- <<>>, Names <- {a, b},
    Writers <- {w1, w2}, Cachers <- {}, Clearers <- {}, Queriers <- {},
    BatchSize <- 2, IndexMayFail <- TRUE, hasCache <- withCache

graph == <<rows, nameToId, counter, caches, withCache, cacheStack, req>>

MCInit ==
    /\ part \in {"leaderboard", "writers"}
    /\ Init /\ (part = "writers" => saved = {})
    /\ TwoWriters!Init

MCNext == /\ UNCHANGED part
          /\ \/ part = "leaderboard" /\ Next /\ UNCHANGED graph
             \/ part = "writers" /\ TwoWriters!Next /\ UNCHANGED vars

MCSpec == MCInit /\ [][MCNext]_<<part, vars, graph>> /\ Fairness

-----------------------------------------------------------------------------
(* What two writers cannot break: the name index leads to rows of the name,*)
(* whatever the two do at the same time and wherever they fail, see        *)
(* GraphStore.                                                             *)
NameIndexSound == TwoWriters!NameIndexSound

(* Nor does one save its node over the row of another name, see GraphStore.*)
RowsKeepTheirName == TwoWriters!RowsKeepTheirName
=============================================================================
