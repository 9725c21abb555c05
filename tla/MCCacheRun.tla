----------------------------- MODULE MCCacheRun -----------------------------
(* Bounded inputs for CacheRun: every graph on a few nodes.                *)
EXTENDS CacheRun

CONSTANTS
    MaxEdges,      \* bound: edges of a graph whose rows agree
    MaxDenseEdges, \* bound: edges of such a graph if node 1 alone is dirty
    DirtySizes,    \* bound: how many nodes may be dirty otherwise
    HalfMaxId      \* bound: nodes of a graph whose rows may disagree

Simple(n) == {f \in [Ids -> SUBSET (1..n)] :
                \A i \in Ids : i \notin f[i] /\ (i > n => f[i] = {})}
Mirror(f) == [i \in Ids |-> {j \in Ids : i \in f[j]}]

Edges(f) == Cardinality({e \in Ids \X Ids : e[2] \in f[e[1]]})

(* Both endpoints record every edge.                                       *)
Agreeing(edges) ==
    {[graph |-> [children |-> f, parents |-> Mirror(f)], keys |-> Ids] :
       f \in {h \in Simple(MaxId) : Edges(h) <= edges}}

(* Parent sides are missing, which is what a crash between the two saves   *)
(* of SetDependency leaves, and rows may name a parent that was saved      *)
(* after the keys were read.                                               *)
HalfSaved ==
    UNION {LET rows == {h \in Simple(HalfMaxId) : \A i \in Ids : i > n => h[i] = {}}
           IN  {[graph |-> [children |-> e[1], parents |-> e[2]], keys |-> 1..n] :
                  e \in {e \in Simple(n) \X rows :
                           \A i \in 1..n : e[2][i] \cap 1..n \subseteq Mirror(e[1])[i]}} :
           n \in 2..HalfMaxId}

DirtySets(r) == {D \in SUBSET r.keys : Cardinality(D) \in DirtySizes}
Dirty(R, Ds(_)) ==
    UNION {{[graph |-> r.graph, keys |-> r.keys, dirty |-> D] : D \in Ds(r)} : r \in R}

MCInputs ==
    Dirty(Agreeing(MaxEdges), DirtySets)
    \cup Dirty(Agreeing(MaxDenseEdges), LAMBDA r : {{1}})
    \cup {in \in Dirty(HalfSaved, DirtySets) : ~Panics(in.graph, in.keys, in.dirty)}

(* Rows after a lost update: 1 -> 2 is recorded at both ends, of 2 -> 1    *)
(* only the parent side is left, because a stale copy of row 2 was saved.  *)
MCLostUpdate ==
    {[graph |-> [children |-> <<{2}, {}>>, parents |-> <<{2}, {1}>>],
      keys |-> {1, 2}, dirty |-> {1, 2}]}
=============================================================================
