----------------------------- MODULE BuildCache -----------------------------
(***************************************************************************)
(* buildCache of pkg/graph/cache.go: the iterative depth-first walk that   *)
(* computes the transitive caches of one direction.                        *)
(*                                                                         *)
(* The nodes of one strongly connected component share one cache value and *)
(* one adjacency (addCyclesToBindMap).  A stack element of the code is a   *)
(* node and an index into its sorted list of todo nodes; here it is the    *)
(* node and the set of todo nodes from that index on, whose least member   *)
(* is the next one.                                                        *)
(***************************************************************************)
EXTENDS CachePromise, Sequences, SequencesExt, FiniteSetsExt

VARIABLES
    \* arguments of the call, which never change
    graph,          \* the rows that Cache read
    keys,           \* their IDs
    uncachedNodes,  \* the dirty IDs that Cache read
    direction,      \* which cache is built
    scc,            \* the component of each node, found by findCycles
    \* the maps of addCyclesToBindMap, which never change
    children,       \* children of a node's component, outside of it
    parents,        \* parents of a node's component, outside of it
    \* the walk
    nodesToProcess, \* dirty IDs whose walk has not started
    stack,          \* elements [id, todo], the last is the top
    alreadyCached,  \* nodes whose cache is final
    cache           \* the cache value of each node (shared in a component)

input == <<graph, keys, uncachedNodes, direction, scc, children, parents>>
walkVars == <<input, nodesToProcess, stack, alreadyCached, cache>>

-----------------------------------------------------------------------------
(* What addCyclesToBindMap binds for a component: the neighbours of its    *)
(* members that lie outside of it.                                         *)
Neighbours(g, dir, members) == (UNION {g[dir][m] : m \in members}) \ members

(* getTodoAndFutureNodes: the nodes whose caches i needs, and the nodes    *)
(* that need the cache of i.                                               *)
TodoNodes(i) == IF direction = "children" THEN children[i] ELSE parents[i]
FutureNodes(i) == IF direction = "children" THEN parents[i] ELSE children[i]

Elem(i) == [id |-> i, todo |-> TodoNodes(i)]
Ascending(S) == CHOOSE s \in [1..Cardinality(S) -> S] :
                    \A j, k \in 1..Cardinality(S) : j < k => s[j] < s[k]
Elems(S) == [k \in 1..Cardinality(S) |-> Elem(Ascending(S)[k])]

Top == Last(stack)
NextTodo == CHOOSE t \in Top.todo : \A u \in Top.todo : t <= u
Advanced == Append(Front(stack), [Top EXCEPT !.todo = @ \ {NextTodo}])

(* Get and Set of a bindMap go through the key that k is bound to: what is *)
(* set for one member of a component is set for all.                       *)
Get(k) == cache[k]
Set(k, v) == [i \in keys |-> IF i \in scc[k] THEN v ELSE cache[i]]

(* Mutant of AddToCache: what the component already has is overwritten.    *)
MutantAddToCache(cur, todo) == cache' = Set(cur, Get(todo) \cup {cur})

(* Mutant of AddToCache: the result is set for the wrong key.              *)
MutantSetOfTodo(cur, todo) ==
    cache' = Set(todo, Get(cur) \cup Get(todo) \cup {cur})

AddToCache(cur, todo) ==
    cache' = Set(cur, Get(cur) \cup Get(todo) \cup {cur})

(* The nodes that the walk starts from, one after the other.               *)
NodesToProcess(dirty, ks) == dirty

-----------------------------------------------------------------------------
(* What the walk starts with, given the rows g, the keys ks and their      *)
(* components: addCyclesToBindMap has bound the members of a component to  *)
(* one value, the component itself, and to its neighbours.  A node without *)
(* a row, where the code would panic, has no neighbours here.              *)
Bound(g, ks, comp) ==
    LET ofMembers(dir) ==
            [i \in Ids |-> IF i \in ks THEN Neighbours(g, dir, comp[i]) ELSE {}]
    IN  [children |-> ofMembers("children"),
         parents |-> ofMembers("parents"),
         cache |-> comp]

(* The next dirty node, in ascending order, once the stack is empty.       *)
StartNode ==
    /\ stack = <<>>
    /\ nodesToProcess # {}
    /\ LET n == CHOOSE m \in nodesToProcess : \A k \in nodesToProcess : m <= k
       IN  /\ nodesToProcess' = nodesToProcess \ {n}
           /\ stack' = <<Elem(n)>>
    /\ UNCHANGED <<input, alreadyCached, cache>>

(* Mutant of DropCached: the element stays on the stack.                   *)
MutantDropCached ==
    /\ stack # <<>>
    /\ Top.id \in alreadyCached
    /\ UNCHANGED walkVars

(* The top is final already: drop the element.                             *)
DropCached ==
    /\ stack # <<>>
    /\ Top.id \in alreadyCached
    /\ stack' = Front(stack)
    /\ UNCHANGED <<input, nodesToProcess, alreadyCached, cache>>

(* Mutant of FinishNode: the future nodes are not pushed.                  *)
MutantFinishNode ==
    /\ stack # <<>>
    /\ Top.id \notin alreadyCached
    /\ Top.todo = {}
    /\ alreadyCached' = alreadyCached \cup {Top.id}
    /\ stack' = Front(stack)
    /\ UNCHANGED <<input, nodesToProcess, cache>>

(* Mutant of FinishNode: the node is not marked as final.                  *)
MutantNeverMark ==
    /\ stack # <<>>
    /\ Top.id \notin alreadyCached
    /\ Top.todo = {}
    /\ stack' = Front(stack) \o Elems(FutureNodes(Top.id))
    /\ UNCHANGED <<input, nodesToProcess, alreadyCached, cache>>

(* Nothing is left to do for the top: it is final, and the nodes that need *)
(* its cache are walked from their first todo node.                        *)
FinishNode ==
    /\ stack # <<>>
    /\ Top.id \notin alreadyCached
    /\ Top.todo = {}
    /\ alreadyCached' = alreadyCached \cup {Top.id}
    /\ stack' = Front(stack) \o Elems(FutureNodes(Top.id))
    /\ UNCHANGED <<input, nodesToProcess, cache>>

(* The next todo node is final: merge its cache into that of the top.      *)
MergeTodo ==
    /\ stack # <<>>
    /\ Top.id \notin alreadyCached
    /\ Top.todo # {}
    /\ NextTodo \in alreadyCached
    /\ AddToCache(Top.id, NextTodo)
    /\ stack' = Advanced
    /\ UNCHANGED <<input, nodesToProcess, alreadyCached>>

(* The next todo node is not final: walk it first.  The top advances past  *)
(* it without a merge.                                                     *)
DescendTodo ==
    /\ stack # <<>>
    /\ Top.id \notin alreadyCached
    /\ Top.todo # {}
    /\ NextTodo \notin alreadyCached
    /\ stack' = Append(Advanced, Elem(NextTodo))
    /\ UNCHANGED <<input, nodesToProcess, alreadyCached, cache>>

Finished == stack = <<>> /\ nodesToProcess = {}

Walk == StartNode \/ DropCached \/ FinishNode \/ MergeTodo \/ DescendTodo

-----------------------------------------------------------------------------
WalkTypeOK ==
    /\ graph \in Graph
    /\ keys \subseteq Ids
    /\ uncachedNodes \subseteq keys
    /\ direction \in Directions \cup {"both"}
    /\ scc \in [keys -> SUBSET keys]
    /\ children \in [Ids -> SUBSET Ids]
    /\ parents \in [Ids -> SUBSET Ids]
    /\ nodesToProcess \subseteq uncachedNodes
    /\ stack \in Seq([id : Ids, todo : SUBSET Ids])
    /\ alreadyCached \subseteq keys
    /\ cache \in [keys -> SUBSET Ids]

(* At every moment a cache value names only nodes that can be reached over *)
(* recorded edges, whatever half-recorded edges the rows contain: merging  *)
(* never invents a dependency.                                             *)
CacheSound ==
    direction # "both" =>
        \A i \in keys : cache[i] \subseteq Reach(Asserted(graph, direction), i)

(* A node that the walk marks as final has its whole closure at that       *)
(* moment, although DescendTodo advances past a todo node without merging  *)
(* it: the node is pushed again as a future node of what it descended to.  *)
MarkedIsComplete ==
    Symmetric(graph, keys) =>
        \A i \in alreadyCached : cache[i] = Reach(graph[direction], i)

(* The stack of the walk stays linear in the size of the graph: one        *)
(* element per node, and one per edge between a component and a member of  *)
(* another.                                                                *)
LinearStack ==
    Len(stack) <= Cardinality(keys)
                  + MapThenSumSet(LAMBDA i : Cardinality(FutureNodes(i)), keys)

(* With rows that agree on their edges the stack is bounded, although the  *)
(* walk pushes nodes again that wait on it: above a backlog, to which each *)
(* final node adds what waited below it and the nodes that need it, it is  *)
(* a way down through distinct nodes.                                      *)
StackBounded ==
    Symmetric(graph, keys) =>
        LET others == Cardinality(keys) - 1
        IN  Len(stack) <= Cardinality(keys) + 2 * others * Cardinality(alreadyCached)

(* The full set of transitive dependencies (dependents) of every node is   *)
(* what the call leaves, also of the nodes that no dirty node touches.     *)
FullSets ==
    direction # "both" /\ Finished /\ Symmetric(graph, keys) =>
        \A i \in keys : cache[i] = Reach(graph[direction], i)
=============================================================================
