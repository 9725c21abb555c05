------------------------------ MODULE CacheCall ------------------------------
(***************************************************************************)
(* What a call of findCycles and buildCache in graph.Cache is to the rest  *)
(* of the program: one step that takes the rows that were read and the     *)
(* dirty IDs to caches that CachePromise allows.  Module CacheRun shows    *)
(* that the two algorithms implement it; module GraphStore uses it so.     *)
(***************************************************************************)
EXTENDS CachePromise

VARIABLES
    graph, keys, uncachedNodes, \* what Cache has read
    direction,                  \* "both" until buildCache is called for one
    returned,                   \* buildCache has returned
    result                      \* what it returned, a function of the keys

NoResult == [i \in {} |-> {}]

vars == <<graph, keys, uncachedNodes, direction, returned, result>>

Init == direction = "both" /\ ~returned /\ result = NoResult

Call ==
    /\ direction = "both"
    /\ direction' \in Directions
    /\ UNCHANGED <<graph, keys, uncachedNodes, returned, result>>

Return ==
    /\ ~returned
    /\ returned'
    /\ result' \in Promise(graph, keys, uncachedNodes, direction)
    /\ UNCHANGED <<graph, keys, uncachedNodes, direction>>

Spec == Init /\ [][Call \/ Return]_vars
=============================================================================
