---------------------------- MODULE CachePromise ----------------------------
(***************************************************************************)
(* What graph.Cache promises about the transitive caches it saves, as      *)
(* constant-level operators (pkg/graph/cache.go, pkg/graph/graph.go).      *)
(*                                                                         *)
(* A graph is the pair of adjacency functions that the node rows hold:     *)
(* children[i] is the bitmap of what i depends on, parents[i] the bitmap   *)
(* of what depends on i.  The two are written by separate saves, so they   *)
(* need not agree.  Module BuildCache shows that the stack machine of      *)
(* buildCache keeps the promise; module GraphStore composes the promise    *)
(* with the concurrent requests of the server.                             *)
(***************************************************************************)
EXTENDS Naturals, FiniteSets

CONSTANT MaxId  \* bound: node IDs are 1..MaxId

ASSUME MaxIdAssumption == MaxId \in Nat

Ids == 1..MaxId
Directions == {"children", "parents"}
Opposite(dir) == IF dir = "children" THEN "parents" ELSE "children"

Adjacency == [Ids -> SUBSET Ids]
Graph == [children : Adjacency, parents : Adjacency]

-----------------------------------------------------------------------------
(* Nodes reached from i by following next, i included: the least set that  *)
(* holds i and is closed under next.                                       *)
Closed(next) == {S \in SUBSET Ids : \A k \in S : next[k] \subseteq S}
Reach(next, i) ==
    LET closed == Closed(next)
    IN  {j \in Ids : \A S \in closed : i \in S => j \in S}

(* The edges in direction dir that the row of either endpoint records.     *)
Asserted(g, dir) ==
    [i \in Ids |-> g[dir][i] \cup {j \in Ids : i \in g[Opposite(dir)][j]}]

(* Every edge of the nodes in keys is recorded at both of its ends.        *)
Symmetric(g, keys) ==
    \A i \in keys : \A dir \in Directions :
        /\ g[dir][i] \subseteq keys
        /\ \A j \in g[dir][i] : i \in g[Opposite(dir)][j]

(* The strongly connected component of i, as findCycles groups the nodes:  *)
(* it follows children only.                                               *)
Scc(g, i) == {j \in Reach(g.children, i) : i \in Reach(g.children, j)}

(* The nodes that the walk of buildCache visits when it starts from the    *)
(* nodes in dirty: it goes down to what is to be merged and up to what the *)
(* finished node may change, in both directions.                           *)
Touched(g, dirty) ==
    LET next == [i \in Ids |-> g.children[i] \cup g.parents[i]]
    IN  UNION {Reach(next, d) : d \in dirty}

(* A nil node is dereferenced: findCycles walks the IDs 1..len(keys) and   *)
(* the children of each, buildCache walks what dirty touches, and allNodes *)
(* holds the nodes of keys only.                                           *)
Panics(g, keys, dirty) ==
    \/ keys # 1..Cardinality(keys)
    \/ \E i \in keys : ~(g.children[i] \subseteq keys)
    \/ ~(Touched(g, dirty) \subseteq keys)

(* The caches that one direction of buildCache may leave for the nodes in  *)
(* keys.  When the rows agree the result is determined: the transitive     *)
(* closure for the nodes the walk visits, the bare component for the       *)
(* others.  When they do not, merges may be missed: anything from the      *)
(* component up to the closure of the recorded edges.                      *)
Exact(g, keys, dirty, dir) ==
    LET touched == Touched(g, dirty)
    IN  [i \in keys |-> IF i \in touched THEN Reach(g[dir], i) ELSE Scc(g, i)]

Promise(g, keys, dirty, dir) ==
    IF Symmetric(g, keys)
    THEN {Exact(g, keys, dirty, dir)}
    ELSE LET bounds == {[id |-> i, least |-> Scc(g, i),
                         most |-> Reach(Asserted(g, dir), i)] : i \in keys}
         IN  {f \in [keys -> SUBSET Ids] :
                \A b \in bounds : b.least \subseteq f[b.id] /\ f[b.id] \subseteq b.most}
=============================================================================
