------------------------------ MODULE CacheRun ------------------------------
(***************************************************************************)
(* The computation of graph.Cache (pkg/graph/cache.go): findCycles, and    *)
(* then buildCache for one direction, as one machine that implements the   *)
(* single step which module CacheCall takes.  Cache calls buildCache once  *)
(* per direction, and the two calls share nothing that either changes: a   *)
(* behaviour follows one of them.                                          *)
(***************************************************************************)
EXTENDS BuildCache

CONSTANT Inputs \* what Cache may read: records [graph, keys, dirty]; with
                \* no dirty IDs it returns before findCycles

ASSUME InputsAssumption ==
    \A in \in Inputs : /\ in.graph \in Graph
                       /\ in.keys \subseteq Ids
                       /\ in.dirty \subseteq in.keys /\ in.dirty # {}
                       /\ ~Panics(in.graph, in.keys, in.dirty)

VARIABLES nextRoot, frames, open, currentTarjanID, nodeToTarjanID, lowLink

searchVars ==
    <<nextRoot, frames, open, currentTarjanID, nodeToTarjanID, lowLink>>
vars == <<walkVars, searchVars>>

Search == INSTANCE FindCycles WITH
            children <- graph.children, numOfNodes <- Cardinality(keys), stack <- open

Nothing(S) == [i \in S |-> {}]

Init ==
    /\ \E in \in Inputs : /\ graph = in.graph
                          /\ keys = in.keys
                          /\ uncachedNodes = in.dirty
    /\ direction = "both"
    /\ Search!Init
    /\ scc = Nothing(keys) /\ cache = Nothing(keys)
    /\ children = Nothing(Ids) /\ parents = Nothing(Ids)
    /\ nodesToProcess = {} /\ stack = <<>> /\ alreadyCached = {}

FindCycles ==
    /\ direction = "both"
    /\ UNCHANGED walkVars
    /\ Search!Next

(* addCyclesToBindMap groups the nodes by their links.                     *)
Component(i) == {j \in keys : lowLink[j] = lowLink[i]}

BindCycles ==
    /\ direction = "both"
    /\ Search!Finished
    /\ direction' \in Directions
    /\ scc' = [i \in keys |-> Component(i)]
    /\ LET bound == Bound(graph, keys, scc')
       IN  /\ children' = bound.children
           /\ parents' = bound.parents
           /\ cache' = bound.cache
    /\ nodesToProcess' = NodesToProcess(uncachedNodes, keys)
    /\ UNCHANGED <<graph, keys, uncachedNodes, stack, alreadyCached, searchVars>>

BuildCache ==
    /\ direction # "both"
    /\ Walk
    /\ UNCHANGED searchVars

Next == FindCycles \/ BindCycles \/ BuildCache

Spec == Init /\ [][Next]_vars

(* Cache runs in one goroutine and calls nothing that blocks between its   *)
(* reads and its saves.                                                    *)
FairSpec == Spec /\ WF_vars(Next)

-----------------------------------------------------------------------------
TypeOK == WalkTypeOK /\ Search!TypeOK

(* What FindCycles states of the search, while it runs.                    *)
LinksAreComponents == direction = "both" => Search!LinksAreComponents
ClosedComponentsAreWhole == direction = "both" => Search!ClosedComponentsAreWhole
ClosedLinksAreFinal == Search!ClosedLinksAreFinal

(* The two algorithms, one after the other, do what the server's model     *)
(* (GraphStore) takes as one step: what they return, on any rows that      *)
(* Cache does not panic over, is what CachePromise allows.  It needs the   *)
(* components to be exact, since all members share one value.              *)
Done == direction # "both" /\ Finished
Abstract == INSTANCE CacheCall WITH
              returned <- Done, result <- IF Done THEN cache ELSE Nothing({})
ImplementsCacheCall == Abstract!Spec

(* And they end: no search and no walk goes round for ever, although the   *)
(* walk pushes nodes again that are on its stack.                          *)
CacheCallReturns == <>Done
=============================================================================
