---------------------------- MODULE CacheRunProof ----------------------------
(***************************************************************************)
(* Proofs about CacheRun, for any rows that Cache does not panic over: the *)
(* search finds the components (by the lemmas of FindCyclesProof), and     *)
(* what the walk returns is what CacheCall allows.                         *)
(***************************************************************************)
EXTENDS CacheRun, FiniteSetTheorems, WellFoundedInduction, TLAPS

F == INSTANCE FindCyclesProof WITH
        children <- graph.children, numOfNodes <- Cardinality(keys), stack <- open

-----------------------------------------------------------------------------
(* The inductive invariant: what Cache read, ...                           *)
Needed == Touched(graph, uncachedNodes)
RowsRead ==
    /\ graph \in Graph /\ keys \subseteq Ids /\ keys = 1..Cardinality(keys)
    /\ uncachedNodes \subseteq keys /\ uncachedNodes # {}
    /\ \A i \in keys : graph.children[i] \subseteq keys
    /\ Needed \subseteq keys
    /\ direction \in Directions \cup {"both"}

(* ... what is there before the walk, ...                                  *)
BeforeWalk ==
    /\ scc = Nothing(keys) /\ cache = Nothing(keys)
    /\ children = Nothing(Ids) /\ parents = Nothing(Ids)
    /\ nodesToProcess = {} /\ stack = <<>> /\ alreadyCached = {}

(* ... and during the walk.  It visits needed nodes only.                  *)
ComponentsBound ==
    /\ scc = [i \in keys |-> Scc(graph, i)]
    /\ children = [i \in Ids |-> IF i \in keys THEN Neighbours(graph, "children", scc[i]) ELSE {}]
    /\ parents = [i \in Ids |-> IF i \in keys THEN Neighbours(graph, "parents", scc[i]) ELSE {}]

WalkIsTyped ==
    /\ nodesToProcess \subseteq uncachedNodes
    /\ stack \in Seq([id : Needed, todo : SUBSET Needed])
    /\ alreadyCached \subseteq Needed
    /\ cache \in [keys -> SUBSET Ids]
    /\ \A p \in DOMAIN stack : stack[p].todo \subseteq TodoNodes(stack[p].id)

(* The members of a component share what they have, which is at least the  *)
(* component, and at most the closure of the recorded edges; that of the   *)
(* rows if they agree.  A node that is not needed keeps the component.     *)
CachesShared ==
    \A i \in keys : scc[i] \subseteq cache[i] /\ \A j \in scc[i] : cache[j] = cache[i]
CachesWithin ==
    \A i \in keys :
        /\ cache[i] \subseteq Reach(Asserted(graph, direction), i)
        /\ Symmetric(graph, keys) => cache[i] \subseteq Reach(graph[direction], i)
        /\ i \notin Needed => cache[i] = scc[i]

(* Every dirty node whose walk has started, and every node that needs the  *)
(* cache of a final one, is final or waits on the stack.                   *)
OnStack(i) == \E p \in DOMAIN stack : stack[p].id = i
NothingForgotten ==
    /\ \A d \in uncachedNodes \ nodesToProcess : d \in alreadyCached \/ OnStack(d)
    /\ \A i \in alreadyCached : \A f \in FutureNodes(i) : f \in alreadyCached \/ OnStack(f)
    /\ \A i \in alreadyCached : TodoNodes(i) \subseteq alreadyCached

(* A todo node that the element at p has passed is final, and what it has  *)
(* was merged; or a member of the element's component is final; or one     *)
(* waits above it on the stack; or the todo node is not final and does.    *)
Settled(p, t) ==
    \/ t \in alreadyCached /\ cache[t] \subseteq cache[stack[p].id]
    \/ \E m \in scc[stack[p].id] : m \in alreadyCached
    \/ \E q \in DOMAIN stack : p < q /\ stack[q].id \in scc[stack[p].id]
    \/ t \notin alreadyCached /\ \E q \in DOMAIN stack : p < q /\ stack[q].id = t
PassedAreSettled ==
    Symmetric(graph, keys) =>
        \A p \in DOMAIN stack : \A t \in TodoNodes(stack[p].id) \ stack[p].todo : Settled(p, t)

WalkInvariant ==
    /\ ComponentsBound /\ WalkIsTyped /\ CachesShared /\ CachesWithin
    /\ Symmetric(graph, keys) => NothingForgotten
    /\ PassedAreSettled /\ MarkedIsComplete

RunInvariant ==
    /\ RowsRead /\ F!SearchInvariant
    /\ direction = "both" => BeforeWalk
    /\ direction # "both" => F!Finished /\ WalkInvariant

-----------------------------------------------------------------------------
(* The search of CacheRun is that of FindCyclesProof.                      *)
LEMMA SameReach ==
    /\ \A next, i : F!Reach(next, i) = Reach(next, i)
    /\ F!Adjacency = Adjacency /\ F!Ids = Ids
    /\ \A i : F!SccOf(i) = Scc(graph, i)
  <1>1. \A next : F!Closed(next) = Closed(next)
    BY DEF F!Closed, Closed, F!Ids, Ids
  <1>2. \A next, i : F!Reach(next, i) = Reach(next, i)
    BY <1>1 DEF F!Reach, Reach, F!Ids, Ids
  <1>3. F!Adjacency = Adjacency /\ F!Ids = Ids
    BY DEF F!Adjacency, Adjacency, F!Ids, Ids
  <1>4. \A i : F!SccOf(i) = Scc(graph, i)
    BY <1>2 DEF F!SccOf, F!Scc, Scc
  <1>5. QED
    BY <1>2, <1>3, <1>4

(* So are its steps, ...                                                   *)
LEMMA SameSteps ==
    /\ Search!Init <=> F!Init
    /\ Search!Next <=> F!Next
    /\ Search!Finished <=> F!Finished
    /\ UNCHANGED <<graph, keys, searchVars>> => UNCHANGED F!vars
  <1>1. Search!Init <=> F!Init
    BY DEF Search!Init, F!Init, Search!Keys, F!Keys
  <1>2. Search!Finished <=> F!Finished
    BY DEF Search!Finished, F!Finished
  <1>3. UNCHANGED <<graph, keys, searchVars>> => UNCHANGED F!vars
    BY DEF F!vars, F!input, searchVars
  <1>4. \A s : Search!Last(s) = F!Last(s) /\ Search!Front(s) = F!Front(s) /\ Search!ToSet(s) = F!ToSet(s)
    BY DEF Search!Last, F!Last, Search!Front, F!Front, Search!ToSet, F!ToSet
  <1>5. /\ Search!input = F!input /\ Search!Keys = F!Keys
        /\ Search!Top = F!Top /\ Search!NextChild = F!NextChild
        /\ Search!TopWithoutNext = F!TopWithoutNext
        /\ \A i : Search!Visited(i) <=> F!Visited(i)
        /\ \A i : Search!InStack(i) <=> F!InStack(i)
        /\ \A a, b : Search!Lesser(a, b) = F!Lesser(a, b)
    BY <1>4 DEF Search!input, F!input, Search!Keys, F!Keys, Search!Top, F!Top,
                Search!NextChild, F!NextChild, Search!TopWithoutNext, F!TopWithoutNext,
                Search!Visited, F!Visited, Search!InStack, F!InStack, Search!Lesser, F!Lesser
  <1>6. \A i, fs : Search!Enter(i, fs) <=> F!Enter(i, fs)
    BY DEF Search!Enter, F!Enter
  <1>7. \A l, c : Search!LinkBack(l, c) = F!LinkBack(l, c)
    BY <1>5 DEF Search!LinkBack, F!LinkBack
  <1>8. \A i : /\ Search!Position(i) = F!Position(i)
               /\ Search!Component(i) = F!Component(i)
               /\ Search!ClosesComponent(i) <=> F!ClosesComponent(i)
    BY DEF Search!Position, F!Position, Search!Component, F!Component,
           Search!ClosesComponent, F!ClosesComponent
  <1>9. UNCHANGED Search!input <=> UNCHANGED F!input
    BY DEF Search!input, F!input
  <1>10. Search!NextRoot <=> F!NextRoot
    BY <1>5, <1>6, <1>9 DEF Search!NextRoot, F!NextRoot
  <1>11. Search!SearchChild <=> F!SearchChild
    BY <1>5, <1>6, <1>9 DEF Search!SearchChild, F!SearchChild, Search!input, F!input
  <1>12. Search!SkipChild <=> F!SkipChild
    BY <1>5, <1>7, <1>9 DEF Search!SkipChild, F!SkipChild, Search!input, F!input
  <1>13. Search!ReturnFromNode <=> F!ReturnFromNode
    BY DEF Search!ReturnFromNode, F!ReturnFromNode, Search!input, F!input, Search!Keys, F!Keys,
           Search!Top, F!Top, Search!Position, F!Position, Search!Component, F!Component,
           Search!ClosesComponent, F!ClosesComponent, Search!Lesser, F!Lesser,
           Search!Last, F!Last, Search!Front, F!Front
  <1>14. QED
    BY <1>1, <1>2, <1>3, <1>10, <1>11, <1>12, <1>13 DEF Search!Next, F!Next

(* ... and the properties that module FindCycles states.                   *)
LEMMA SameProperties ==
    /\ F!TypeOK => Search!TypeOK
    /\ F!LinksAreComponents => Search!LinksAreComponents
    /\ F!ClosedComponentsAreWhole => Search!ClosedComponentsAreWhole
    /\ \A i : Search!SccOf(i) = Scc(graph, i)
  <1>1. \A i : Search!SccOf(i) = F!SccOf(i)
    <2>1. \A next : F!Closed(next) = Search!Closed(next)
      BY DEF F!Closed, Search!Closed, F!Ids, Search!Ids
    <2>2. \A next, i : F!Reach(next, i) = Search!Reach(next, i)
      BY <2>1 DEF F!Reach, Search!Reach, F!Ids, Search!Ids
    <2>3. QED
      BY <2>2 DEF F!SccOf, F!Scc, Search!SccOf, Search!Scc
  <1>2. F!TypeOK => Search!TypeOK
    BY DEF F!TypeOK, Search!TypeOK, F!Keys, Search!Keys
  <1>3. F!LinksAreComponents => Search!LinksAreComponents
    BY <1>1 DEF F!LinksAreComponents, Search!LinksAreComponents, F!Keys, Search!Keys,
                F!Finished, Search!Finished
  <1>4. F!ClosedComponentsAreWhole => Search!ClosedComponentsAreWhole
    BY <1>1 DEF F!ClosedComponentsAreWhole, Search!ClosedComponentsAreWhole, F!Keys, Search!Keys,
                F!Visited, Search!Visited, F!InStack, Search!InStack, F!ToSet, Search!ToSet
  <1>5. QED
    BY <1>1, <1>2, <1>3, <1>4, SameReach

-----------------------------------------------------------------------------
(* Reach: see FindCyclesProof.                                             *)
LEMMA ReachFacts ==
    ASSUME NEW next \in Adjacency
    PROVE  /\ \A i \in Ids : i \in Reach(next, i) /\ Reach(next, i) \subseteq Ids
           /\ \A i \in Ids : \A j \in Reach(next, i) : next[j] \subseteq Reach(next, i)
           /\ \A i \in Ids : \A S \in SUBSET Ids :
                i \in S /\ (\A j \in S : next[j] \subseteq S) => Reach(next, i) \subseteq S
  <1>1. next \in F!Adjacency
    BY SameReach
  <1>2. /\ \A i \in F!Ids : i \in F!Reach(next, i) /\ F!Reach(next, i) \subseteq F!Ids
        /\ \A i \in F!Ids : \A j \in F!Reach(next, i) : next[j] \subseteq F!Reach(next, i)
        /\ \A i \in F!Ids : \A S \in SUBSET F!Ids :
             i \in S /\ (\A j \in S : next[j] \subseteq S) => F!Reach(next, i) \subseteq S
    BY <1>1, F!ReachFacts, MaxIdAssumption
  <1>3. QED
    BY <1>2, SameReach

(* What a reached node reaches is reached.                                 *)
LEMMA ReachOfReached ==
    ASSUME NEW next \in Adjacency, NEW i \in Ids, NEW j \in Reach(next, i)
    PROVE  j \in Ids /\ Reach(next, j) \subseteq Reach(next, i)
  <1>1. Reach(next, i) \subseteq Ids /\ \A k \in Reach(next, i) : next[k] \subseteq Reach(next, i)
    BY ReachFacts
  <1>2. QED
    BY <1>1, ReachFacts

(* What is reached forwards reaches back where the edges have a reverse.   *)
LEMMA ReachBack ==
    ASSUME NEW next \in Adjacency, NEW back \in Adjacency, NEW K \in SUBSET Ids,
           \A i \in K : next[i] \subseteq K /\ \A j \in next[i] : i \in back[j],
           NEW i \in K
    PROVE  \A j \in Reach(next, i) : j \in K /\ i \in Reach(back, j)
  <1> DEFINE S == {k \in K : i \in Reach(back, k)}
  <1>1. i \in S /\ S \in SUBSET Ids /\ i \in Ids
    BY ReachFacts
  <1>2. ASSUME NEW k \in S, NEW l \in next[k] PROVE l \in S
    <2>1. k \in K /\ l \in K /\ k \in back[l] /\ l \in Ids
      OBVIOUS
    <2>2. k \in Reach(back, l)
      BY <2>1, ReachFacts
    <2>3. i \in Reach(back, l)
      BY <2>1, <2>2, ReachOfReached
    <2>4. QED
      BY <2>1, <2>3
  <1> HIDE DEF S
  <1>3. Reach(next, i) \subseteq S
    BY <1>1, <1>2, ReachFacts
  <1>4. QED
    BY <1>3 DEF S

(* More edges reach more.                                                  *)
LEMMA ReachMore ==
    ASSUME NEW next \in Adjacency, NEW more \in Adjacency, NEW K \in SUBSET Ids,
           \A i \in K : next[i] \subseteq K /\ next[i] \subseteq more[i],
           NEW i \in K
    PROVE  Reach(next, i) \subseteq K /\ Reach(next, i) \subseteq Reach(more, i)
  <1> DEFINE S == K \cap Reach(more, i)
  <1>1. i \in S /\ S \in SUBSET Ids /\ i \in Ids
    BY ReachFacts
  <1>2. ASSUME NEW k \in S PROVE next[k] \subseteq S
    BY <1>1, ReachFacts
  <1> HIDE DEF S
  <1>3. Reach(next, i) \subseteq S
    BY <1>1, <1>2, ReachFacts
  <1>4. QED
    BY <1>3 DEF S

-----------------------------------------------------------------------------
(* Sequences: see FindCyclesProof.                                         *)
LEMMA Elements ==
    ASSUME NEW S, NEW s \in Seq(S)
    PROVE  /\ Len(s) \in Nat /\ DOMAIN s = 1..Len(s) /\ \A p \in DOMAIN s : s[p] \in S
           /\ s # <<>> => /\ Len(s) \in DOMAIN s /\ Last(s) = s[Len(s)] /\ Last(s) \in S
                          /\ \A p \in DOMAIN s : p = Len(s) \/ p < Len(s)
           /\ s = <<>> <=> Len(s) = 0
  BY DEF Last

(* A sequence without its last element, ...                                *)
LEMMA Shortened ==
    ASSUME NEW S, NEW s \in Seq(S), s # <<>>
    PROVE  /\ Front(s) \in Seq(S) /\ Len(Front(s)) = Len(s) - 1
           /\ \A p \in DOMAIN Front(s) : p \in DOMAIN s /\ Front(s)[p] = s[p] /\ p # Len(s)
           /\ \A p \in DOMAIN s : p # Len(s) => p \in DOMAIN Front(s)
  <1>1. F!Front(s) = Front(s)
    BY DEF F!Front, Front
  <1>2. /\ F!Front(s) \in Seq(S) /\ Len(F!Front(s)) = Len(s) - 1
        /\ \A p \in DOMAIN F!Front(s) : p \in DOMAIN s /\ F!Front(s)[p] = s[p] /\ p # Len(s)
        /\ \A p \in DOMAIN s : p # Len(s) => p \in DOMAIN F!Front(s)
    BY F!Shortened, MaxIdAssumption
  <1>3. QED
    BY <1>1, <1>2

(* ... one whose last element is replaced, ...                             *)
LEMMA Replaced ==
    ASSUME NEW S, NEW s \in Seq(S), s # <<>>, NEW e \in S
    PROVE  /\ Append(Front(s), e) \in Seq(S) /\ Len(Append(Front(s), e)) = Len(s)
           /\ DOMAIN Append(Front(s), e) = DOMAIN s
           /\ Append(Front(s), e)[Len(s)] = e
           /\ \A p \in DOMAIN s : p # Len(s) => Append(Front(s), e)[p] = s[p]
  <1>1. F!Front(s) = Front(s)
    BY DEF F!Front, Front
  <1>2. /\ Append(F!Front(s), e) \in Seq(S) /\ Len(Append(F!Front(s), e)) = Len(s)
        /\ DOMAIN Append(F!Front(s), e) = DOMAIN s
        /\ Append(F!Front(s), e)[Len(s)] = e
        /\ \A p \in DOMAIN s : p # Len(s) => Append(F!Front(s), e)[p] = s[p]
    BY F!Replaced, MaxIdAssumption
  <1>3. QED
    BY <1>1, <1>2

(* ... and one with an element more.                                       *)
LEMMA Appended ==
    ASSUME NEW S, NEW s \in Seq(S), NEW e \in S
    PROVE  /\ Append(s, e) \in Seq(S) /\ Append(s, e)[Len(s) + 1] = e
           /\ \A p \in DOMAIN s : /\ p \in DOMAIN Append(s, e) /\ Append(s, e)[p] = s[p]
                                  /\ p < Len(s) + 1
           /\ \A p \in DOMAIN Append(s, e) : p \in DOMAIN s \/ p = Len(s) + 1
           /\ Len(s) + 1 \in DOMAIN Append(s, e)
  BY F!Appended, MaxIdAssumption

(* A finite set of numbers that is not empty has a least, ...              *)
LEMMA LeastIsLeast ==
    ASSUME NEW S \in SUBSET Nat, IsFiniteSet(S), S # {}
    PROVE  \E x \in S : \A y \in S : x <= y
  BY F!LeastIsLeast, MaxIdAssumption DEF F!IsFiniteSet, IsFiniteSet

(* ... and its numbers can be put in ascending order: the least set of     *)
(* numbers that are left when those below them are in order is empty.      *)
LEMMA AscendingExists ==
    ASSUME NEW S \in SUBSET Nat, IsFiniteSet(S)
    PROVE  \E s \in [1..Cardinality(S) -> S] :
               \A j, k \in 1..Cardinality(S) : j < k => s[j] < s[k]
  <1> DEFINE Ordered(A) == \E s \in [1..Cardinality(A) -> A] :
                              \A j, k \in 1..Cardinality(A) : j < k => s[j] < s[k]
             T == {R \in SUBSET S : /\ Ordered(S \ R)
                                    /\ \A x \in S \ R : \A y \in R : x < y}
  <1>1. S \in T
    <2>1. S \ S = {} /\ Cardinality({}) = 0 /\ 1..0 = {}
      BY FS_EmptySet
    <2>2. Ordered({})
      <3>1. [k \in {} |-> k] \in [{} -> {}]
        OBVIOUS
      <3>2. QED
        BY <2>1, <3>1
    <2>3. QED
      BY <2>1, <2>2
  <1>2. PICK R \in T : \A B \in T : ~(<<B, R>> \in StrictSubsetOrdering(S))
    <2>1. T \subseteq FiniteSubsetsOf(S)
      <3>1. FiniteSubsetsOf(S) = SUBSET S
        BY FS_FiniteSubsetsOfFinite
      <3>2. QED
        BY <3>1
    <2> HIDE DEF T
    <2>2. QED
      BY <1>1, <2>1, FS_StrictSubsetOrderingWellFounded, WFMin
  <1>3. ASSUME R # {} PROVE FALSE
    <2>1. R \in SUBSET Nat /\ IsFiniteSet(R) /\ R \subseteq S /\ IsFiniteSet(S \ R)
      BY FS_Subset
    <2>2. PICK m \in R : \A y \in R : m <= y
      BY <1>3, <2>1, LeastIsLeast
    <2> DEFINE A == S \ R
               B == R \ {m}
               n == Cardinality(A)
    <2>3. S \ B = A \cup {m} /\ m \notin A /\ m \in S /\ m \in Nat
      BY <2>1, <2>2
    <2>4. n \in Nat /\ Cardinality(A \cup {m}) = n + 1
      BY <2>1, <2>3, FS_AddElement, FS_CardinalityType
    <2>5. PICK s \in [1..n -> A] : \A j, k \in 1..n : j < k => s[j] < s[k]
      OBVIOUS
    <2>6. \A x \in A : x < m
      OBVIOUS
    <2> HIDE DEF A, n
    <2> DEFINE t == [k \in 1..(n + 1) |-> IF k = n + 1 THEN m ELSE s[k]]
    <2>7. t \in [1..(n + 1) -> A \cup {m}]
      <3>1. \A k \in 1..(n + 1) : k # n + 1 => k \in 1..n
        BY <2>4
      <3>2. QED
        BY <2>5, <3>1
    <2>8. ASSUME NEW j \in 1..(n + 1), NEW k \in 1..(n + 1), j < k PROVE t[j] < t[k]
      <3>1. j \in 1..n /\ j # n + 1 /\ (k = n + 1 \/ k \in 1..n)
        BY <2>4, <2>8
      <3>2. QED
        BY <2>5, <2>6, <2>8, <3>1
    <2>9. Ordered(S \ B)
      <3> HIDE DEF t
      <3> QED
        BY <2>3, <2>4, <2>7, <2>8
    <2>10. \A x \in S \ B : \A y \in B : x < y
      <3>1. ASSUME NEW y \in B PROVE m < y /\ \A x \in A : x < y
        <4>1. y \in R /\ y # m /\ m <= y /\ y \in Nat
          BY <2>1, <2>2
        <4>2. \A x \in A : x < y
          BY <4>1 DEF A
        <4>3. QED
          BY <2>3, <4>1, <4>2
      <3>2. QED
        BY <2>3, <3>1
    <2>11. B \in T
      BY <2>1, <2>9, <2>10
    <2>12. <<B, R>> \in StrictSubsetOrdering(S)
      BY <2>1, <2>2 DEF StrictSubsetOrdering
    <2>13. QED
      BY <1>2, <2>11, <2>12
  <1>4. S \ R = S
    BY <1>3
  <1>5. QED
    BY <1>4

(* The elements of a set: one for each member.                             *)
LEMMA ElemsFacts ==
    ASSUME NEW S \in SUBSET Ids, NEW X, \A m \in S : Elem(m) \in X
    PROVE  /\ Elems(S) \in Seq(X)
           /\ \A k \in DOMAIN Elems(S) : \E m \in S : Elems(S)[k] = Elem(m)
           /\ \A m \in S : \E k \in DOMAIN Elems(S) : Elems(S)[k] = Elem(m)
  <1> DEFINE n == Cardinality(S)
             s == Ascending(S)
  <1>1. S \in SUBSET Nat /\ IsFiniteSet(S) /\ n \in Nat
    <2>1. IsFiniteSet(Ids)
      BY MaxIdAssumption, FS_Interval DEF Ids
    <2>2. Ids \in SUBSET Nat
      BY MaxIdAssumption DEF Ids
    <2>3. QED
      BY <2>1, <2>2, FS_Subset, FS_CardinalityType
  <1>2. s \in [1..n -> S] /\ \A j, k \in 1..n : j < k => s[j] < s[k]
    BY <1>1, AscendingExists DEF Ascending
  <1>3. Elems(S) = [k \in 1..n |-> Elem(s[k])]
    BY DEF Elems
  <1>4. \A m \in S : \E k \in 1..n : s[k] = m
    <2>1. \A j, k \in 1..n : s[j] = s[k] => j = k
      <3>1. \A j, k \in 1..n : s[j] \in Nat /\ s[k] \in Nat
        BY <1>1, <1>2
      <3>2. \A j, k \in 1..n : j < k \/ k < j \/ j = k
        BY <1>1
      <3>3. \A a \in Nat : ~(a < a)
        OBVIOUS
      <3> HIDE DEF n, s
      <3>4. QED
        BY <1>2, <3>1, <3>2, <3>3
    <2>2. s \in Injection(1..n, S)
      BY <1>2, <2>1 DEF Injection, IsInjective
    <2>3. Cardinality(1..n) = n
      BY <1>1, FS_Interval
    <2>4. s \in Surjection(1..n, S)
      BY <1>1, <2>2, <2>3, FS_Injection
    <2>5. QED
      BY <2>4 DEF Surjection
  <1> HIDE DEF n, s
  <1>5. DOMAIN Elems(S) = 1..n /\ \A k \in 1..n : Elems(S)[k] = Elem(s[k])
    BY <1>3
  <1>6. Elems(S) \in Seq(X)
    <2>1. \A k \in 1..n : Elem(s[k]) \in X
      BY <1>2
    <2>2. QED
      BY <1>1, <1>3, <2>1
  <1>7. QED
    BY <1>2, <1>4, <1>5, <1>6

(* A sequence that others follow.                                          *)
LEMMA Joined ==
    ASSUME NEW X, NEW s \in Seq(X), NEW e \in Seq(X)
    PROVE  /\ s \o e \in Seq(X)
           /\ \A p \in DOMAIN s : p \in DOMAIN (s \o e) /\ (s \o e)[p] = s[p]
           /\ \A p \in DOMAIN (s \o e) :
                p \in DOMAIN s \/ \E k \in DOMAIN e : (s \o e)[p] = e[k] /\ p > Len(s)
           /\ \A k \in DOMAIN e :
                \E p \in DOMAIN (s \o e) : (s \o e)[p] = e[k] /\ p > Len(s)
  <1> DEFINE j == s \o e
  <1>1. /\ Len(s) \in Nat /\ Len(e) \in Nat /\ DOMAIN s = 1..Len(s) /\ DOMAIN e = 1..Len(e)
        /\ j \in Seq(X) /\ DOMAIN j = 1..(Len(s) + Len(e))
    OBVIOUS
  <1>2. \A p \in 1..(Len(s) + Len(e)) : j[p] = IF p <= Len(s) THEN s[p] ELSE e[p - Len(s)]
    OBVIOUS
  <1> HIDE DEF j
  <1>3. \A p \in DOMAIN s : p \in DOMAIN j /\ j[p] = s[p]
    BY <1>1, <1>2
  <1>4. ASSUME NEW p \in DOMAIN j, p \notin DOMAIN s
        PROVE  p - Len(s) \in DOMAIN e /\ j[p] = e[p - Len(s)] /\ p > Len(s)
    BY <1>1, <1>2, <1>4
  <1>5. ASSUME NEW k \in DOMAIN e
        PROVE  Len(s) + k \in DOMAIN j /\ j[Len(s) + k] = e[k] /\ Len(s) + k > Len(s)
    <2>1. /\ k \in Nat /\ k >= 1 /\ k <= Len(e)
      BY <1>1
    <2>2. Len(s) + k \in 1..(Len(s) + Len(e)) /\ Len(s) + k > Len(s) /\ Len(s) + k - Len(s) = k
      BY <1>1, <2>1
    <2>3. QED
      BY <1>1, <1>2, <2>2
  <1>6. QED
    BY <1>1, <1>3, <1>4, <1>5 DEF j

-----------------------------------------------------------------------------
(* What Cache may read is what RowsRead says.                              *)
LEMMA RowsFacts ==
    ASSUME RowsRead
    PROVE  /\ graph.children \in Adjacency /\ graph.parents \in Adjacency
           /\ keys \in SUBSET Ids /\ Needed \in SUBSET Ids /\ Needed \subseteq keys
           /\ uncachedNodes \subseteq Needed
           /\ \A i \in Needed : graph.children[i] \subseteq Needed /\ graph.parents[i] \subseteq Needed
  <1>1. graph.children \in Adjacency /\ graph.parents \in Adjacency /\ keys \in SUBSET Ids
    BY DEF RowsRead, Graph
  <1> DEFINE next == [i \in Ids |-> graph.children[i] \cup graph.parents[i]]
  <1>2. next \in Adjacency
    BY <1>1 DEF Adjacency
  <1>3. Needed = UNION {Reach(next, d) : d \in uncachedNodes}
    BY DEF Needed, Touched
  <1>4. uncachedNodes \subseteq Ids
    BY DEF RowsRead
  <1> HIDE DEF next
  <1>5. Needed \in SUBSET Ids /\ uncachedNodes \subseteq Needed
    <2>1. \A d \in uncachedNodes : d \in Reach(next, d) /\ Reach(next, d) \subseteq Ids
      BY <1>2, <1>4, ReachFacts
    <2>2. QED
      BY <1>3, <2>1
  <1>6. ASSUME NEW i \in Needed PROVE next[i] \subseteq Needed
    <2>1. PICK d \in uncachedNodes : i \in Reach(next, d)
      BY <1>3
    <2>2. next[i] \subseteq Reach(next, d)
      BY <1>2, <1>4, <2>1, ReachFacts
    <2>3. QED
      BY <1>3, <2>2
  <1>7. \A i \in Needed : graph.children[i] \subseteq Needed /\ graph.parents[i] \subseteq Needed
    BY <1>5, <1>6 DEF next
  <1>8. QED
    BY <1>1, <1>5, <1>7 DEF RowsRead

(* Components: what belongs to them, and that they partition the nodes.    *)
LEMMA ComponentFacts ==
    ASSUME RowsRead, NEW i \in keys
    PROVE  /\ i \in Scc(graph, i) /\ Scc(graph, i) \subseteq keys
           /\ \A j \in Scc(graph, i) : Scc(graph, j) = Scc(graph, i)
           /\ \A j \in Scc(graph, i) : j \in Reach(graph.children, i)
                                       /\ i \in Reach(graph.children, j)
           /\ i \in Needed => Scc(graph, i) \subseteq Needed
  <1>1. graph.children \in Adjacency /\ keys \in SUBSET Ids /\ i \in Ids
    BY RowsFacts
  <1>2. \A k : Scc(graph, k) = {j \in Reach(graph.children, k) : k \in Reach(graph.children, j)}
    BY DEF Scc
  <1>3. i \in Reach(graph.children, i) /\ Reach(graph.children, i) \subseteq keys
    BY <1>1, ReachFacts DEF RowsRead
  <1>4. ASSUME NEW j \in Scc(graph, i) PROVE Scc(graph, j) = Scc(graph, i)
    <2>1. j \in Reach(graph.children, i) /\ i \in Reach(graph.children, j) /\ j \in Ids
      BY <1>1, <1>2, <1>3
    <2>2. Reach(graph.children, i) = Reach(graph.children, j)
      BY <1>1, <2>1, ReachOfReached
    <2>3. \A k \in Reach(graph.children, i) :
             i \in Reach(graph.children, k) <=> j \in Reach(graph.children, k)
      BY <1>1, <2>1, ReachOfReached
    <2>4. QED
      BY <1>2, <2>2, <2>3
  <1>5. i \in Needed => Reach(graph.children, i) \subseteq Needed
    BY <1>1, RowsFacts, ReachFacts
  <1>6. QED
    BY <1>2, <1>3, <1>4, <1>5

(* Edges over which caches may be merged: those of the rows in the         *)
(* direction that is built, and a way between the members of a component.  *)
Carries(E) ==
    /\ E \in Adjacency
    /\ \A i \in keys : graph[direction][i] \subseteq E[i]
    /\ \A i \in keys : \A j \in Scc(graph, i) : j \in Reach(E, i)

(* Caches may be merged over the edges that either row records, ...        *)
LEMMA AssertedCarries ==
    ASSUME RowsRead, direction # "both"
    PROVE  Carries(Asserted(graph, direction))
  <1> DEFINE E == Asserted(graph, direction)
  <1>1. direction = "children" \/ direction = "parents"
    BY DEF RowsRead, Directions
  <1>2. /\ graph.children \in Adjacency /\ graph.parents \in Adjacency /\ keys \in SUBSET Ids
    BY RowsFacts
  <1>3. E = [i \in Ids |-> graph[direction][i] \cup {j \in Ids : i \in graph[Opposite(direction)][j]}]
    BY DEF Asserted
  <1>4. E \in Adjacency /\ \A i \in keys : graph[direction][i] \subseteq E[i]
    BY <1>1, <1>2, <1>3 DEF Adjacency
  <1> HIDE DEF E
  <1>5. ASSUME NEW i \in keys, NEW j \in Scc(graph, i) PROVE j \in Reach(E, i)
    <2>1. j \in keys /\ j \in Reach(graph.children, i) /\ i \in Reach(graph.children, j)
      BY ComponentFacts
    <2>2. CASE direction = "children"
      <3>1. \A k \in keys : graph.children[k] \subseteq keys /\ graph.children[k] \subseteq E[k]
        BY <1>4, <2>2 DEF RowsRead
      <3>2. Reach(graph.children, i) \subseteq Reach(E, i)
        BY <1>2, <1>4, <3>1, ReachMore
      <3>3. QED
        BY <2>1, <3>2
    <2>3. CASE direction = "parents"
      <3>1. \A k \in keys : graph.children[k] \subseteq keys /\ \A l \in graph.children[k] : k \in E[l]
        BY <1>2, <1>3, <2>3 DEF RowsRead, Opposite
      <3>2. j \in Reach(E, i)
        BY <1>2, <1>4, <2>1, <3>1, ReachBack
      <3>3. QED
        BY <3>2
    <2>4. QED
      BY <1>1, <2>2, <2>3
  <1>6. QED
    BY <1>4, <1>5 DEF Carries, E

(* ... and over those of the rows alone if the rows agree.                 *)
LEMMA AgreedCarries ==
    ASSUME RowsRead, direction # "both", Symmetric(graph, keys)
    PROVE  Carries(graph[direction])
  <1> DEFINE E == graph[direction]
  <1>1. direction = "children" \/ direction = "parents"
    BY DEF RowsRead, Directions
  <1>2. /\ graph.children \in Adjacency /\ graph.parents \in Adjacency /\ keys \in SUBSET Ids
    BY RowsFacts
  <1>3. E \in Adjacency
    BY <1>1, <1>2
  <1>4. ASSUME NEW i \in keys, NEW j \in Scc(graph, i) PROVE j \in Reach(E, i)
    <2>1. j \in keys /\ j \in Reach(graph.children, i) /\ i \in Reach(graph.children, j)
      BY ComponentFacts
    <2>2. CASE direction = "children"
      BY <2>1, <2>2
    <2>3. CASE direction = "parents"
      <3>1. \A k \in keys : graph.children[k] \subseteq keys /\ \A l \in graph.children[k] : k \in E[l]
        BY <2>3 DEF Symmetric, Directions, Opposite
      <3>2. j \in Reach(E, i)
        BY <1>2, <1>3, <2>1, <3>1, ReachBack
      <3>3. QED
        BY <3>2
    <2>4. QED
      BY <1>1, <2>2, <2>3
  <1>5. QED
    BY <1>3, <1>4 DEF Carries

(* What merging reaches: the neighbours of a component.                    *)
LEMMA CarriedFacts ==
    ASSUME RowsRead, NEW E, Carries(E), NEW i \in keys
    PROVE  /\ \A j \in Scc(graph, i) : Reach(E, j) = Reach(E, i)
           /\ \A t \in Neighbours(graph, direction, Scc(graph, i)) :
                t \in Reach(E, i) /\ Reach(E, t) \subseteq Reach(E, i)
  <1>1. E \in Adjacency /\ keys \in SUBSET Ids /\ i \in Ids
    BY RowsFacts DEF Carries
  <1>2. \A j \in Scc(graph, i) : j \in keys /\ j \in Reach(E, i) /\ i \in Reach(E, j)
    BY ComponentFacts DEF Carries
  <1>3. ASSUME NEW j \in Scc(graph, i) PROVE Reach(E, j) = Reach(E, i)
    <2>1. j \in Ids
      BY <1>1, <1>2
    <2>2. QED
      BY <1>1, <1>2, <2>1, ReachOfReached
  <1>4. ASSUME NEW t \in Neighbours(graph, direction, Scc(graph, i))
        PROVE  t \in Reach(E, i) /\ Reach(E, t) \subseteq Reach(E, i)
    <2>1. PICK m \in Scc(graph, i) : t \in graph[direction][m]
      BY DEF Neighbours
    <2>2. t \in E[m] /\ m \in Reach(E, i)
      BY <1>2, <2>1 DEF Carries
    <2>3. t \in Reach(E, i)
      BY <1>1, <2>2, ReachFacts
    <2>4. QED
      BY <1>1, <2>3, ReachOfReached
  <1>5. QED
    BY <1>3, <1>4

(* A set that holds the component and what its neighbours reach holds what *)
(* the component reaches.                                                  *)
LEMMA ComponentReaches ==
    ASSUME RowsRead, direction # "both", NEW i \in keys, NEW V,
           Scc(graph, i) \subseteq V,
           \A t \in Neighbours(graph, direction, Scc(graph, i)) : Reach(graph[direction], t) \subseteq V
    PROVE  Reach(graph[direction], i) \subseteq V
  <1> DEFINE E == graph[direction]
             N == Neighbours(graph, direction, Scc(graph, i))
             S == Scc(graph, i) \cup UNION {Reach(E, t) : t \in N}
  <1>1. E \in Adjacency /\ keys \in SUBSET Ids /\ i \in Ids
    BY RowsFacts DEF RowsRead, Directions
  <1>2. i \in Scc(graph, i) /\ Scc(graph, i) \subseteq keys
    BY ComponentFacts
  <1>3. \A k \in Scc(graph, i) : E[k] \subseteq Scc(graph, i) \cup N /\ E[k] \subseteq Ids
    <2>1. \A k \in Scc(graph, i) : k \in Ids
      BY <1>1, <1>2
    <2>2. \A k \in Ids : E[k] \subseteq Ids
      BY <1>1 DEF Adjacency
    <2>3. \A m \in Scc(graph, i) : \A x \in graph[direction][m] :
             x \in Scc(graph, i) \/ x \in N
      BY DEF Neighbours
    <2> HIDE DEF N, E, S
    <2>4. ASSUME NEW k \in Scc(graph, i)
          PROVE  E[k] \subseteq Scc(graph, i) \cup N /\ E[k] \subseteq Ids
      <3>1. \A x \in E[k] : x \in Scc(graph, i) \/ x \in N
        BY <2>3 DEF E
      <3>2. E[k] \subseteq Ids
        BY <2>1, <2>2
      <3>3. QED
        BY <3>1, <3>2
    <2>5. QED
      BY <2>4
  <1>4. N \subseteq Ids
    BY <1>3 DEF Neighbours
  <1>5. \A t \in N : t \in Reach(E, t) /\ Reach(E, t) \subseteq Ids
                     /\ \A k \in Reach(E, t) : E[k] \subseteq Reach(E, t)
    BY <1>1, <1>4, ReachFacts
  <1> HIDE DEF N, E
  <1>6. S \in SUBSET Ids /\ i \in S
    BY <1>1, <1>2, <1>5
  <1>7. ASSUME NEW k \in S PROVE E[k] \subseteq S
    <2>1. CASE k \in Scc(graph, i)
      BY <1>3, <1>5, <2>1
    <2>2. CASE \E t \in N : k \in Reach(E, t)
      BY <1>5, <2>2
    <2>3. QED
      BY <2>1, <2>2
  <1>8. S \subseteq V
    BY DEF N, E
  <1> HIDE DEF S
  <1>9. Reach(E, i) \subseteq S
    BY <1>1, <1>6, <1>7, ReachFacts
  <1>10. QED
    BY <1>8, <1>9 DEF E

-----------------------------------------------------------------------------
(* What is bound for a node during the walk.                               *)
LEMMA BoundFacts ==
    ASSUME RowsRead, direction # "both", ComponentsBound
    PROVE  /\ \A i \in keys : /\ i \in scc[i] /\ scc[i] \subseteq keys /\ scc[i] = Scc(graph, i)
                              /\ \A j \in scc[i] : scc[j] = scc[i]
                              /\ TodoNodes(i) = Neighbours(graph, direction, scc[i])
                              /\ FutureNodes(i) = Neighbours(graph, Opposite(direction), scc[i])
           /\ \A i \in Needed : /\ i \in keys /\ scc[i] \subseteq Needed
                                /\ TodoNodes(i) \subseteq Needed /\ FutureNodes(i) \subseteq Needed
           /\ Symmetric(graph, keys) =>
                \A i \in keys : \A t \in TodoNodes(i) :
                    t \in keys /\ \E m \in scc[i] : m \in FutureNodes(t)
  <1>1. direction = "children" \/ direction = "parents"
    BY DEF RowsRead, Directions
  <1>2. keys \in SUBSET Ids /\ Needed \subseteq keys
    BY RowsFacts
  <1>3. ASSUME NEW i \in keys
        PROVE  /\ i \in scc[i] /\ scc[i] \subseteq keys /\ scc[i] = Scc(graph, i)
               /\ \A j \in scc[i] : scc[j] = scc[i]
    <2>1. \A k \in keys : scc[k] = Scc(graph, k)
      BY DEF ComponentsBound
    <2>2. QED
      BY <2>1, ComponentFacts
  <1>4. ASSUME NEW i \in keys
        PROVE  /\ TodoNodes(i) = Neighbours(graph, direction, scc[i])
               /\ FutureNodes(i) = Neighbours(graph, Opposite(direction), scc[i])
    <2>1. i \in Ids
      BY <1>2
    <2>2. children[i] = Neighbours(graph, "children", scc[i])
          /\ parents[i] = Neighbours(graph, "parents", scc[i])
      BY <2>1 DEF ComponentsBound
    <2>3. QED
      BY <1>1, <2>2 DEF TodoNodes, FutureNodes, Opposite
  <1>5. ASSUME NEW i \in Needed
        PROVE  scc[i] \subseteq Needed /\ TodoNodes(i) \subseteq Needed /\ FutureNodes(i) \subseteq Needed
    <2>1. i \in keys /\ scc[i] \subseteq Needed
      BY <1>2, <1>3, ComponentFacts
    <2>2. \A m \in scc[i] : graph.children[m] \subseteq Needed /\ graph.parents[m] \subseteq Needed
      BY <2>1, RowsFacts
    <2>3. /\ Neighbours(graph, "children", scc[i]) \subseteq Needed
          /\ Neighbours(graph, "parents", scc[i]) \subseteq Needed
      BY <2>2 DEF Neighbours
    <2>4. QED
      BY <1>1, <1>4, <2>1, <2>3 DEF Opposite
  <1>6. ASSUME Symmetric(graph, keys), NEW i \in keys, NEW t \in TodoNodes(i)
        PROVE  t \in keys /\ \E m \in scc[i] : m \in FutureNodes(t)
    <2>1. PICK m \in scc[i] : t \in graph[direction][m] /\ t \notin scc[i]
      BY <1>4, <1>6 DEF Neighbours
    <2>2. m \in keys /\ t \in keys /\ m \in graph[Opposite(direction)][t]
      BY <1>1, <1>3, <1>6, <2>1 DEF Symmetric, Directions
    <2>3. m \notin scc[t] /\ t \in scc[t]
      BY <1>3, <2>1, <2>2
    <2>4. m \in Neighbours(graph, Opposite(direction), scc[t])
      BY <2>2, <2>3 DEF Neighbours
    <2>5. QED
      BY <1>4, <2>2, <2>4
  <1>7. QED
    BY <1>2, <1>3, <1>4, <1>5, <1>6

(* A new element of the stack has passed nothing.                          *)
LEMMA ElemFacts ==
    ASSUME RowsRead, direction # "both", ComponentsBound, NEW i \in Needed
    PROVE  /\ Elem(i) \in [id : Needed, todo : SUBSET Needed]
           /\ Elem(i).id = i /\ Elem(i).todo = TodoNodes(i)
  BY BoundFacts DEF Elem

(* The element on the top.                                                 *)
LEMMA TopFacts ==
    ASSUME RowsRead, WalkIsTyped, stack # <<>>
    PROVE  /\ Len(stack) \in DOMAIN stack /\ Len(stack) \in Nat /\ Top = stack[Len(stack)]
           /\ Top \in [id : Needed, todo : SUBSET Needed]
           /\ Top.id \in Needed /\ Top.id \in keys /\ Top.todo \subseteq TodoNodes(Top.id)
           /\ \A p \in DOMAIN stack : p = Len(stack) \/ p < Len(stack)
           /\ Top.todo # {} => NextTodo \in Top.todo
  <1>1. stack \in Seq([id : Needed, todo : SUBSET Needed])
    BY DEF WalkIsTyped
  <1>2. /\ Len(stack) \in DOMAIN stack /\ Len(stack) \in Nat /\ Top = stack[Len(stack)]
        /\ Top \in [id : Needed, todo : SUBSET Needed]
        /\ \A p \in DOMAIN stack : p = Len(stack) \/ p < Len(stack)
    BY <1>1, Elements DEF Top
  <1>3. Top.id \in Needed /\ Top.todo \subseteq Needed /\ Needed \subseteq keys /\ Needed \in SUBSET Ids
    BY <1>2, RowsFacts
  <1>4. ASSUME Top.todo # {} PROVE NextTodo \in Top.todo
    <2>1. Ids \in SUBSET Nat /\ IsFiniteSet(Ids)
      BY MaxIdAssumption, FS_Interval DEF Ids
    <2>2. Top.todo \in SUBSET Nat /\ IsFiniteSet(Top.todo)
      BY <1>3, <2>1, FS_Subset
    <2>3. QED
      BY <1>4, <2>2, LeastIsLeast DEF NextTodo
  <1>5. QED
    BY <1>2, <1>3, <1>4 DEF WalkIsTyped

-----------------------------------------------------------------------------
(* What a step of the walk does to its variables.  An element of the stack *)
(* stays, or its node is final; an element of the new stack is an old one  *)
(* below the top, a new one that has passed nothing, or the top that has   *)
(* passed its next todo node: which is final, and merged, or not final,    *)
(* and above it.                                                           *)
HasId(i) == \E q \in DOMAIN stack' : stack'[q].id = i
Merges ==
    /\ stack # <<>> /\ Top.todo # {} /\ NextTodo \in alreadyCached
    /\ cache' = Set(Top.id, cache[Top.id] \cup cache[NextTodo] \cup {Top.id})
IsOld(q) == q \in DOMAIN stack /\ q < Len(stack) /\ stack'[q] = stack[q]
IsNew(q) == stack'[q].todo = TodoNodes(stack'[q].id)
IsAdvanced(q) ==
    /\ stack # <<>> /\ q = Len(stack) /\ stack'[q].id = Top.id
    /\ Top.todo # {} /\ stack'[q].todo = Top.todo \ {NextTodo}
    /\ alreadyCached' = alreadyCached
    /\ \/ Merges
       \/ /\ NextTodo \notin alreadyCached /\ cache' = cache
          /\ \E r \in DOMAIN stack' : q < r /\ stack'[r].id = NextTodo
WalkStep ==
    /\ UNCHANGED <<input, searchVars>>
    /\ nodesToProcess' \subseteq nodesToProcess
    /\ \A d \in nodesToProcess : d \in nodesToProcess' \/ HasId(d)
    /\ alreadyCached \subseteq alreadyCached'
    /\ \A u \in alreadyCached' : u \notin alreadyCached =>
         /\ stack # <<>> /\ u = Top.id /\ Top.todo = {} /\ cache' = cache
         /\ \A f \in FutureNodes(u) :
              \E q \in DOMAIN stack' : q >= Len(stack) /\ stack'[q].id = f
    /\ stack' \in Seq([id : Needed, todo : SUBSET Needed])
    /\ \A q \in DOMAIN stack : \/ q \in DOMAIN stack' /\ stack'[q].id = stack[q].id
                               \/ stack[q].id \in alreadyCached'
    /\ \A q \in DOMAIN stack' : IsOld(q) \/ IsNew(q) \/ IsAdvanced(q)
    /\ cache' = cache \/ Merges

(* Each action of the walk takes such a step: a dirty node is pushed, ...  *)
LEMMA StartSteps ==
    ASSUME RowsRead, direction # "both", ComponentsBound, WalkIsTyped,
           StartNode, UNCHANGED searchVars
    PROVE  WalkStep
  <1> DEFINE n == CHOOSE m \in nodesToProcess : \A k \in nodesToProcess : m <= k
  <1>1. /\ stack = <<>> /\ nodesToProcess # {} /\ nodesToProcess' = nodesToProcess \ {n}
        /\ stack' = <<Elem(n)>> /\ UNCHANGED <<input, alreadyCached, cache>>
    BY DEF StartNode
  <1>2. n \in nodesToProcess /\ n \in Needed
    <2>1. Ids \in SUBSET Nat /\ IsFiniteSet(Ids) /\ Needed \in SUBSET Ids
          /\ nodesToProcess \subseteq Needed
      <3>1. IsFiniteSet(Ids) /\ Ids \in SUBSET Nat
        BY MaxIdAssumption, FS_Interval DEF Ids
      <3>2. QED
        BY <3>1, RowsFacts DEF WalkIsTyped
    <2>2. nodesToProcess \in SUBSET Nat /\ IsFiniteSet(nodesToProcess)
      BY <2>1, FS_Subset
    <2>3. n \in nodesToProcess
      BY <1>1, <2>2, LeastIsLeast
    <2>4. QED
      BY <2>1, <2>3
  <1> HIDE DEF n
  <1>3. /\ Elem(n) \in [id : Needed, todo : SUBSET Needed]
        /\ Elem(n).id = n /\ Elem(n).todo = TodoNodes(n)
    BY <1>2, ElemFacts
  <1>4. /\ stack' \in Seq([id : Needed, todo : SUBSET Needed]) /\ DOMAIN stack' = {1}
        /\ stack'[1] = Elem(n)
    BY <1>1, <1>3
  <1>5. \A q \in DOMAIN stack' : IsNew(q)
    BY <1>3, <1>4 DEF IsNew
  <1>6. HasId(n)
    BY <1>3, <1>4 DEF HasId
  <1>7. DOMAIN stack = {}
    BY <1>1
  <1>8. QED
    BY <1>1, <1>4, <1>5, <1>6, <1>7 DEF WalkStep

(* ... a final node leaves the stack, ...                                  *)
LEMMA DropSteps ==
    ASSUME RowsRead, direction # "both", ComponentsBound, WalkIsTyped,
           DropCached, UNCHANGED searchVars
    PROVE  WalkStep
  <1>1. /\ stack # <<>> /\ Top.id \in alreadyCached /\ stack' = Front(stack)
        /\ UNCHANGED <<input, nodesToProcess, alreadyCached, cache>>
    BY DEF DropCached
  <1>2. stack \in Seq([id : Needed, todo : SUBSET Needed])
    BY DEF WalkIsTyped
  <1>3. /\ stack' \in Seq([id : Needed, todo : SUBSET Needed])
        /\ \A p \in DOMAIN stack' : p \in DOMAIN stack /\ stack'[p] = stack[p] /\ p # Len(stack)
        /\ \A p \in DOMAIN stack : p # Len(stack) => p \in DOMAIN stack'
    BY <1>1, <1>2, Shortened
  <1>4. Top = stack[Len(stack)] /\ \A p \in DOMAIN stack : p = Len(stack) \/ p < Len(stack)
    BY <1>1, TopFacts
  <1>5. \A q \in DOMAIN stack' : IsOld(q)
    BY <1>3, <1>4 DEF IsOld
  <1>6. \A q \in DOMAIN stack : \/ q \in DOMAIN stack' /\ stack'[q].id = stack[q].id
                                \/ stack[q].id \in alreadyCached'
    BY <1>1, <1>3, <1>4
  <1>7. QED
    BY <1>1, <1>3, <1>5, <1>6 DEF WalkStep

(* ... a node becomes final and those that need it are pushed, ...         *)
LEMMA FinishSteps ==
    ASSUME RowsRead, direction # "both", ComponentsBound, WalkIsTyped,
           FinishNode, UNCHANGED searchVars
    PROVE  WalkStep
  <1> DEFINE X == [id : Needed, todo : SUBSET Needed]
             below == Front(stack)
             S == FutureNodes(Top.id)
             n == Len(stack)
  <1>1. /\ stack # <<>> /\ Top.id \notin alreadyCached /\ Top.todo = {}
        /\ alreadyCached' = alreadyCached \cup {Top.id} /\ stack' = below \o Elems(S)
        /\ UNCHANGED <<input, nodesToProcess, cache>>
    BY DEF FinishNode
  <1>2. stack \in Seq(X)
    BY DEF WalkIsTyped
  <1>3. /\ below \in Seq(X) /\ Len(below) = n - 1
        /\ \A p \in DOMAIN below : p \in DOMAIN stack /\ below[p] = stack[p] /\ p # n
        /\ \A p \in DOMAIN stack : p # n => p \in DOMAIN below
    BY <1>1, <1>2, Shortened
  <1>4. /\ Top = stack[n] /\ n \in Nat /\ Top.id \in Needed
        /\ \A p \in DOMAIN stack : p = n \/ p < n
    BY <1>1, TopFacts
  <1>5. S \subseteq Needed /\ S \in SUBSET Ids
    BY <1>4, BoundFacts, RowsFacts
  <1>6. \A m \in S : Elem(m) \in X /\ Elem(m).id = m /\ Elem(m).todo = TodoNodes(m)
    BY <1>5, ElemFacts
  <1>7. /\ Elems(S) \in Seq(X)
        /\ \A k \in DOMAIN Elems(S) : \E m \in S : Elems(S)[k] = Elem(m)
        /\ \A m \in S : \E k \in DOMAIN Elems(S) : Elems(S)[k] = Elem(m)
    BY <1>5, <1>6, ElemsFacts
  <1> HIDE DEF below, X, S, n
  <1>8. /\ stack' \in Seq(X)
        /\ \A p \in DOMAIN below : p \in DOMAIN stack' /\ stack'[p] = below[p]
        /\ \A p \in DOMAIN stack' :
             p \in DOMAIN below \/ \E k \in DOMAIN Elems(S) : stack'[p] = Elems(S)[k] /\ p > Len(below)
        /\ \A k \in DOMAIN Elems(S) :
             \E p \in DOMAIN stack' : stack'[p] = Elems(S)[k] /\ p > Len(below)
    <2> DEFINE tail == Elems(S)
               joined == below \o tail
    <2>1. tail \in Seq(X) /\ stack' = joined
      BY <1>1, <1>7
    <2> HIDE DEF tail
    <2>2. /\ joined \in Seq(X)
          /\ \A p \in DOMAIN below : p \in DOMAIN joined /\ joined[p] = below[p]
          /\ \A p \in DOMAIN joined :
               p \in DOMAIN below \/ \E k \in DOMAIN tail : joined[p] = tail[k] /\ p > Len(below)
          /\ \A k \in DOMAIN tail :
               \E p \in DOMAIN joined : joined[p] = tail[k] /\ p > Len(below)
      BY <1>3, <2>1, Joined
    <2> HIDE DEF joined
    <2>3. QED
      BY <2>1, <2>2 DEF tail
  <1>9. ASSUME NEW q \in DOMAIN stack' PROVE IsOld(q) \/ IsNew(q)
    <2>1. CASE q \in DOMAIN below
      BY <1>3, <1>4, <1>8, <2>1 DEF IsOld, n
    <2>2. CASE \E m \in S : stack'[q] = Elem(m)
      BY <1>6, <2>2 DEF IsNew
    <2>3. QED
      BY <1>7, <1>8, <2>1, <2>2
  <1>10. \A q \in DOMAIN stack : \/ q \in DOMAIN stack' /\ stack'[q].id = stack[q].id
                                 \/ stack[q].id \in alreadyCached'
    BY <1>1, <1>3, <1>4, <1>8
  <1>11. ASSUME NEW f \in S PROVE \E q \in DOMAIN stack' : q >= n /\ stack'[q].id = f
    <2>1. PICK q \in DOMAIN stack' : stack'[q] = Elem(f) /\ q > Len(below)
      BY <1>7, <1>8
    <2>2. q \in Nat
      BY <1>8, Elements
    <2>3. QED
      BY <1>3, <1>4, <1>6, <2>1, <2>2
  <1>12. \A u \in alreadyCached' : u \notin alreadyCached =>
           /\ stack # <<>> /\ u = Top.id /\ Top.todo = {} /\ cache' = cache
           /\ \A f \in FutureNodes(u) :
                \E q \in DOMAIN stack' : q >= Len(stack) /\ stack'[q].id = f
    BY <1>1, <1>11 DEF S, n
  <1>13. QED
    BY <1>1, <1>8, <1>9, <1>10, <1>12 DEF WalkStep, X

(* ... a final todo node is merged, ...                                    *)
LEMMA MergeSteps ==
    ASSUME RowsRead, direction # "both", ComponentsBound, WalkIsTyped,
           MergeTodo, UNCHANGED searchVars
    PROVE  WalkStep
  <1> DEFINE X == [id : Needed, todo : SUBSET Needed]
             e == [Top EXCEPT !.todo = @ \ {NextTodo}]
             n == Len(stack)
  <1>1. /\ stack # <<>> /\ Top.todo # {} /\ NextTodo \in alreadyCached
        /\ stack' = Append(Front(stack), e)
        /\ cache' = Set(Top.id, cache[Top.id] \cup cache[NextTodo] \cup {Top.id})
        /\ UNCHANGED <<input, nodesToProcess, alreadyCached>>
    BY DEF MergeTodo, Advanced, AddToCache, Get
  <1>2. Merges
    BY <1>1 DEF Merges
  <1>3. /\ stack \in Seq(X) /\ Top = stack[n] /\ Top \in X /\ n \in DOMAIN stack
        /\ \A p \in DOMAIN stack : p = n \/ p < n
    BY <1>1, TopFacts DEF WalkIsTyped
  <1>4. e \in X /\ e.id = Top.id /\ e.todo = Top.todo \ {NextTodo}
    BY <1>3
  <1> HIDE DEF e, X
  <1>5. /\ stack' \in Seq(X) /\ DOMAIN stack' = DOMAIN stack /\ stack'[n] = e
        /\ \A p \in DOMAIN stack : p # n => stack'[p] = stack[p]
    BY <1>1, <1>3, <1>4, Replaced
  <1>6. \A q \in DOMAIN stack' : IsOld(q) \/ IsAdvanced(q)
    BY <1>1, <1>2, <1>3, <1>4, <1>5 DEF IsOld, IsAdvanced
  <1>7. \A q \in DOMAIN stack : q \in DOMAIN stack' /\ stack'[q].id = stack[q].id
    BY <1>3, <1>4, <1>5
  <1>8. QED
    BY <1>1, <1>2, <1>5, <1>6, <1>7 DEF WalkStep, X

(* ... and one that is not final is pushed.                                *)
LEMMA DescendSteps ==
    ASSUME RowsRead, direction # "both", ComponentsBound, WalkIsTyped,
           DescendTodo, UNCHANGED searchVars
    PROVE  WalkStep
  <1> DEFINE X == [id : Needed, todo : SUBSET Needed]
             e == [Top EXCEPT !.todo = @ \ {NextTodo}]
             n == Len(stack)
             front == Append(Front(stack), e)
  <1>1. /\ stack # <<>> /\ Top.todo # {} /\ NextTodo \notin alreadyCached
        /\ stack' = Append(front, Elem(NextTodo))
        /\ UNCHANGED <<input, nodesToProcess, alreadyCached, cache>>
    BY DEF DescendTodo, Advanced
  <1>2. /\ stack \in Seq(X) /\ Top = stack[n] /\ Top \in X /\ n \in DOMAIN stack /\ n \in Nat
        /\ NextTodo \in Top.todo
        /\ \A p \in DOMAIN stack : p = n \/ p < n
    BY <1>1, TopFacts DEF WalkIsTyped
  <1>3. e \in X /\ e.id = Top.id /\ e.todo = Top.todo \ {NextTodo} /\ NextTodo \in Needed
    BY <1>2
  <1>4. Elem(NextTodo) \in X /\ Elem(NextTodo).id = NextTodo
        /\ Elem(NextTodo).todo = TodoNodes(NextTodo)
    BY <1>3, ElemFacts
  <1> HIDE DEF e, X
  <1>5. /\ front \in Seq(X) /\ DOMAIN front = DOMAIN stack /\ front[n] = e /\ Len(front) = n
        /\ \A p \in DOMAIN stack : p # n => front[p] = stack[p]
    BY <1>1, <1>2, <1>3, Replaced
  <1> HIDE DEF front
  <1>6. /\ stack' \in Seq(X) /\ stack'[n + 1] = Elem(NextTodo)
        /\ \A p \in DOMAIN front : p \in DOMAIN stack' /\ stack'[p] = front[p]
        /\ \A p \in DOMAIN stack' : p \in DOMAIN front \/ p = n + 1
        /\ n + 1 \in DOMAIN stack' /\ n < n + 1
    <2>1. n < n + 1
      BY <1>2
    <2>2. QED
      BY <1>1, <1>4, <1>5, <2>1, Appended
  <1> HIDE DEF n
  <1>7. IsNew(n + 1)
    BY <1>4, <1>6 DEF IsNew
  <1>8. IsAdvanced(n)
    BY <1>1, <1>2, <1>3, <1>4, <1>5, <1>6 DEF IsAdvanced, n
  <1>9. \A q \in DOMAIN stack' : IsOld(q) \/ IsNew(q) \/ IsAdvanced(q)
    BY <1>2, <1>5, <1>6, <1>7, <1>8 DEF IsOld, n
  <1>10. \A q \in DOMAIN stack : q \in DOMAIN stack' /\ stack'[q].id = stack[q].id
    BY <1>2, <1>3, <1>5, <1>6
  <1>11. QED
    BY <1>1, <1>6, <1>9, <1>10 DEF WalkStep, X

-----------------------------------------------------------------------------
(* What the steps that leave the input alone leave alone.                  *)
LEMMA InputStays ==
    ASSUME RowsRead, UNCHANGED input
    PROVE  /\ graph' = graph /\ keys' = keys /\ direction' = direction /\ scc' = scc
           /\ uncachedNodes' = uncachedNodes
           /\ RowsRead' /\ Needed' = Needed
           /\ ComponentsBound => ComponentsBound'
           /\ \A i : TodoNodes(i)' = TodoNodes(i) /\ FutureNodes(i)' = FutureNodes(i)
  <1>1. /\ graph' = graph /\ keys' = keys /\ direction' = direction /\ scc' = scc
        /\ uncachedNodes' = uncachedNodes /\ children' = children /\ parents' = parents
    BY DEF input
  <1>2. Needed' = Needed
    BY <1>1 DEF Needed
  <1>3. RowsRead'
    BY <1>1, <1>2 DEF RowsRead
  <1>4. ComponentsBound => ComponentsBound'
    BY <1>1 DEF ComponentsBound
  <1>5. \A i : TodoNodes(i)' = TodoNodes(i) /\ FutureNodes(i)' = FutureNodes(i)
    BY <1>1 DEF TodoNodes, FutureNodes
  <1>6. QED
    BY <1>1, <1>2, <1>3, <1>4, <1>5

(* Caches grow within their bounds, and those of a component together; a   *)
(* final one stays as it is if the rows agree.                             *)
LEMMA CachesGrow ==
    ASSUME RowsRead, direction # "both", WalkInvariant, WalkStep
    PROVE  /\ WalkIsTyped' /\ CachesShared' /\ CachesWithin'
           /\ \A i \in keys : cache[i] \subseteq cache'[i]
           /\ Symmetric(graph, keys) => \A i \in alreadyCached : cache'[i] = cache[i]
  <1>1. /\ ComponentsBound /\ WalkIsTyped /\ CachesShared /\ CachesWithin /\ MarkedIsComplete
    BY DEF WalkInvariant
  <1>2. /\ UNCHANGED input /\ nodesToProcess' \subseteq nodesToProcess
        /\ cache' = cache \/ Merges
    BY DEF WalkStep
  <1>3. /\ graph' = graph /\ keys' = keys /\ direction' = direction /\ scc' = scc
        /\ uncachedNodes' = uncachedNodes /\ Needed' = Needed
        /\ \A i : TodoNodes(i)' = TodoNodes(i)
    BY <1>2, InputStays
  <1>4. cache \in [keys -> SUBSET Ids] /\ Needed \subseteq keys /\ alreadyCached \subseteq keys
    BY <1>1, RowsFacts DEF WalkIsTyped
  <1>5. /\ cache' \in [keys -> SUBSET Ids] /\ CachesShared' /\ CachesWithin'
        /\ \A i \in keys : cache[i] \subseteq cache'[i]
    <2>1. CASE cache' = cache
      <3>1. CachesShared'
        BY <1>1, <1>3, <2>1 DEF CachesShared
      <3>2. CachesWithin'
        BY <1>1, <1>3, <2>1 DEF CachesWithin
      <3>3. QED
        BY <1>4, <2>1, <3>1, <3>2
    <2>2. CASE Merges
      <3> DEFINE i == Top.id
                 t == NextTodo
                 v == cache[i] \cup cache[t] \cup {i}
      <3>1. /\ stack # <<>> /\ Top.todo # {} /\ t \in alreadyCached
            /\ cache' = [k \in keys |-> IF k \in scc[i] THEN v ELSE cache[k]]
        BY <2>2 DEF Merges, Set
      <3>2. i \in Needed /\ i \in keys /\ t \in TodoNodes(i) /\ t \in keys
        BY <1>1, <1>4, <3>1, TopFacts
      <3> HIDE DEF i, t
      <3>3. \A k \in keys : /\ k \in scc[k] /\ scc[k] = Scc(graph, k) /\ scc[k] \subseteq keys
                            /\ \A j \in scc[k] : scc[j] = scc[k]
                            /\ TodoNodes(k) = Neighbours(graph, direction, scc[k])
        BY <1>1, BoundFacts
      <3>4. scc[i] \subseteq Needed
        BY <1>1, <3>2, BoundFacts
      <3>5. \A k \in keys : scc[k] \subseteq cache[k] /\ \A j \in scc[k] : cache[j] = cache[k]
        BY <1>1 DEF CachesShared
      <3>6. i \in cache[i]
        BY <3>2, <3>3, <3>5
      <3>7. /\ v \in SUBSET Ids /\ cache[i] \subseteq v
            /\ \A W : cache[i] \subseteq W /\ cache[t] \subseteq W => v \subseteq W
        BY <1>4, <3>2, <3>6
      <3> HIDE DEF v
      <3>8. \A k \in keys : cache'[k] = IF k \in scc[i] THEN v ELSE cache[k]
        BY <3>1
      <3>9. cache' \in [keys -> SUBSET Ids]
        BY <1>4, <3>1, <3>7
      <3>10. \A k \in keys : cache[k] \subseteq cache'[k]
        BY <3>2, <3>5, <3>7, <3>8
      <3>11. \A k \in keys : scc[k] \subseteq cache'[k] /\ \A j \in scc[k] : cache'[j] = cache'[k]
        BY <3>2, <3>3, <3>5, <3>8, <3>10
      <3>12. CachesShared'
        BY <1>3, <3>11 DEF CachesShared
      <3>13. ASSUME NEW E, Carries(E), \A k \in keys : cache[k] \subseteq Reach(E, k)
             PROVE  \A k \in keys : cache'[k] \subseteq Reach(E, k)
        <4>1. /\ \A j \in scc[i] : Reach(E, j) = Reach(E, i)
              /\ Reach(E, t) \subseteq Reach(E, i)
          BY <3>2, <3>3, <3>13, CarriedFacts
        <4>2. v \subseteq Reach(E, i)
          BY <3>2, <3>7, <3>13, <4>1
        <4>3. QED
          BY <3>8, <3>13, <4>1, <4>2
      <3>14. \A k \in keys : cache'[k] \subseteq Reach(Asserted(graph, direction), k)
        BY <1>1, <3>13, AssertedCarries DEF CachesWithin
      <3>15. Symmetric(graph, keys) => \A k \in keys : cache'[k] \subseteq Reach(graph[direction], k)
        BY <1>1, <3>13, AgreedCarries DEF CachesWithin
      <3>16. \A k \in keys : k \notin Needed => cache'[k] = scc[k]
        BY <1>1, <3>4, <3>8 DEF CachesWithin
      <3>17. CachesWithin'
        BY <1>3, <3>14, <3>15, <3>16 DEF CachesWithin
      <3>18. QED
        BY <3>9, <3>10, <3>12, <3>17
    <2>3. QED
      BY <1>2, <2>1, <2>2
  <1>6. WalkIsTyped'
    <2>1. nodesToProcess' \subseteq uncachedNodes'
      BY <1>1, <1>2, <1>3 DEF WalkIsTyped
    <2>2. alreadyCached' \subseteq Needed
      <3>1. \A u \in alreadyCached' : u \notin alreadyCached => stack # <<>> /\ u = Top.id
        BY DEF WalkStep
      <3>2. alreadyCached \subseteq Needed
        BY <1>1 DEF WalkIsTyped
      <3>3. stack # <<>> => Top.id \in Needed
        BY <1>1, TopFacts
      <3>4. QED
        BY <3>1, <3>2, <3>3
    <2>3. stack' \in Seq([id : Needed, todo : SUBSET Needed])
      BY DEF WalkStep
    <2>4. ASSUME NEW q \in DOMAIN stack' PROVE stack'[q].todo \subseteq TodoNodes(stack'[q].id)
      <3>1. IsOld(q) \/ IsNew(q) \/ IsAdvanced(q)
        BY DEF WalkStep
      <3>2. CASE IsOld(q)
        BY <1>1, <3>2 DEF IsOld, WalkIsTyped
      <3>3. CASE IsNew(q)
        BY <3>3 DEF IsNew
      <3>4. CASE IsAdvanced(q)
        <4>1. stack # <<>> /\ stack'[q].id = Top.id /\ stack'[q].todo \subseteq Top.todo
          BY <3>4 DEF IsAdvanced
        <4>2. Top.todo \subseteq TodoNodes(Top.id)
          BY <1>1, <4>1, TopFacts
        <4>3. QED
          BY <4>1, <4>2
      <3>5. QED
        BY <3>1, <3>2, <3>3, <3>4
    <2>5. \A q \in DOMAIN stack' : stack'[q].todo \subseteq (TodoNodes(stack[q].id))'
      <3>1. ASSUME NEW q \in DOMAIN stack', NEW i, i = stack'[q].id
            PROVE  stack'[q].todo \subseteq TodoNodes(i)'
        BY <1>3, <2>4, <3>1
      <3>2. QED
        BY <3>1 DEF TodoNodes
    <2>6. QED
      BY <1>3, <1>5, <2>1, <2>2, <2>3, <2>5 DEF WalkIsTyped
  <1>7. ASSUME Symmetric(graph, keys), NEW i \in alreadyCached PROVE cache'[i] = cache[i]
    <2>1. i \in keys /\ cache[i] = Reach(graph[direction], i)
      BY <1>1, <1>4, <1>7 DEF MarkedIsComplete
    <2>2. cache'[i] \subseteq Reach(graph[direction], i)
      BY <1>3, <1>5, <1>7, <2>1 DEF CachesWithin
    <2>3. QED
      BY <1>5, <2>1, <2>2
  <1>8. QED
    BY <1>5, <1>6, <1>7

(* The node on the top that has nothing left to do has its closure, and    *)
(* what it needs is final.                                                 *)
LEMMA TopIsComplete ==
    ASSUME RowsRead, direction # "both", WalkInvariant, Symmetric(graph, keys),
           stack # <<>>, Top.todo = {}
    PROVE  /\ cache[Top.id] = Reach(graph[direction], Top.id)
           /\ TodoNodes(Top.id) \subseteq alreadyCached
  <1> DEFINE i == Top.id
             E == graph[direction]
             n == Len(stack)
  <1>1. /\ ComponentsBound /\ WalkIsTyped /\ CachesShared /\ CachesWithin /\ MarkedIsComplete
        /\ NothingForgotten /\ PassedAreSettled
    BY DEF WalkInvariant
  <1>2. /\ n \in DOMAIN stack /\ n \in Nat /\ stack[n].id = i /\ i \in Needed /\ i \in keys
        /\ stack[n].todo = {} /\ \A q \in DOMAIN stack : ~(n < q)
    <2>1. /\ n \in DOMAIN stack /\ n \in Nat /\ Top = stack[n] /\ Top.id \in Needed /\ Top.id \in keys
          /\ \A p \in DOMAIN stack : p = n \/ p < n
      BY <1>1, TopFacts
    <2>2. DOMAIN stack \subseteq Nat
      BY <1>1, Elements DEF WalkIsTyped
    <2>3. \A q \in DOMAIN stack : ~(n < q)
      BY <2>1, <2>2
    <2>4. QED
      BY <2>1, <2>3
  <1> HIDE DEF i, n
  <1>3. /\ i \in scc[i] /\ scc[i] = Scc(graph, i) /\ scc[i] \subseteq keys
        /\ \A m \in scc[i] : scc[m] = scc[i] /\ TodoNodes(m) = TodoNodes(i)
        /\ TodoNodes(i) = Neighbours(graph, direction, scc[i])
    BY <1>1, <1>2, BoundFacts
  <1>4. \A t \in TodoNodes(i) : \/ t \in alreadyCached /\ cache[t] \subseteq cache[i]
                                \/ \E m \in scc[i] : m \in alreadyCached
    BY <1>1, <1>2 DEF PassedAreSettled, Settled
  <1>5. cache[i] \subseteq Reach(E, i) /\ scc[i] \subseteq cache[i] /\ \A m \in scc[i] : cache[m] = cache[i]
    BY <1>1, <1>2 DEF CachesWithin, CachesShared
  <1>6. \A m \in alreadyCached : cache[m] = Reach(E, m) /\ TodoNodes(m) \subseteq alreadyCached
    BY <1>1 DEF MarkedIsComplete, NothingForgotten
  <1>7. Carries(E)
    BY AgreedCarries
  <1>8. \A m \in scc[i] : Reach(E, m) = Reach(E, i)
    BY <1>2, <1>3, <1>7, CarriedFacts
  <1>9. CASE \E m \in scc[i] : m \in alreadyCached
    BY <1>3, <1>5, <1>6, <1>8, <1>9 DEF i
  <1>10. CASE \A t \in TodoNodes(i) : t \in alreadyCached /\ cache[t] \subseteq cache[i]
    <2>1. \A t \in TodoNodes(i) : Reach(E, t) \subseteq cache[i]
      BY <1>6, <1>10
    <2>2. Reach(E, i) \subseteq cache[i]
      BY <1>2, <1>3, <1>5, <2>1, ComponentReaches
    <2>3. QED
      BY <1>5, <1>10, <2>2 DEF i
  <1>11. QED
    BY <1>4, <1>9, <1>10

(* The steps of the walk keep its invariant.                               *)
LEMMA NothingIsForgotten ==
    ASSUME RowsRead, direction # "both", WalkInvariant, WalkStep, Symmetric(graph, keys)
    PROVE  NothingForgotten' /\ MarkedIsComplete'
  <1>1. /\ ComponentsBound /\ WalkIsTyped /\ MarkedIsComplete /\ NothingForgotten
    BY DEF WalkInvariant
  <1>2. /\ UNCHANGED input
        /\ \A d \in nodesToProcess : d \in nodesToProcess' \/ HasId(d)
        /\ alreadyCached \subseteq alreadyCached'
        /\ \A u \in alreadyCached' : u \notin alreadyCached =>
             /\ stack # <<>> /\ u = Top.id /\ Top.todo = {} /\ cache' = cache
             /\ \A f \in FutureNodes(u) :
                  \E q \in DOMAIN stack' : q >= Len(stack) /\ stack'[q].id = f
        /\ \A q \in DOMAIN stack : \/ q \in DOMAIN stack' /\ stack'[q].id = stack[q].id
                                   \/ stack[q].id \in alreadyCached'
    BY DEF WalkStep
  <1>3. /\ graph' = graph /\ keys' = keys /\ direction' = direction
        /\ uncachedNodes' = uncachedNodes
        /\ \A i : TodoNodes(i)' = TodoNodes(i) /\ FutureNodes(i)' = FutureNodes(i)
    BY <1>2, InputStays
  <1>4. \A u \in alreadyCached' : u \notin alreadyCached =>
          /\ cache'[u] = Reach(graph[direction], u)
          /\ TodoNodes(u) \subseteq alreadyCached
          /\ \A f \in FutureNodes(u) : HasId(f)
    BY <1>2, TopIsComplete DEF HasId
  <1>5. \A i : OnStack(i) => HasId(i) \/ i \in alreadyCached'
    BY <1>2 DEF OnStack, HasId
  <1>6. \A i : HasId(i) <=> OnStack(i)'
    BY DEF OnStack, HasId
  <1>7. \A d \in uncachedNodes \ nodesToProcess' : d \in alreadyCached' \/ HasId(d)
    BY <1>1, <1>2, <1>5 DEF NothingForgotten
  <1>8. \A i \in alreadyCached' : \A f \in FutureNodes(i) : f \in alreadyCached' \/ HasId(f)
    BY <1>1, <1>2, <1>4, <1>5 DEF NothingForgotten
  <1>9. \A i \in alreadyCached' : TodoNodes(i) \subseteq alreadyCached'
    BY <1>1, <1>2, <1>4 DEF NothingForgotten
  <1>10. NothingForgotten'
    BY <1>3, <1>6, <1>7, <1>8, <1>9 DEF NothingForgotten
  <1>11. \A i \in alreadyCached : cache'[i] = Reach(graph[direction], i)
    BY <1>1, CachesGrow DEF MarkedIsComplete
  <1>12. MarkedIsComplete'
    BY <1>3, <1>4, <1>11 DEF MarkedIsComplete
  <1>13. QED
    BY <1>10, <1>12

(* A todo node that was passed stays settled: what waited above the        *)
(* element and leaves the stack is final, and what becomes final has       *)
(* pushed a member of the element's component.                             *)
LEMMA PassedStaySettled ==
    ASSUME RowsRead, direction # "both", WalkInvariant, WalkStep, Symmetric(graph, keys),
           NEW p \in DOMAIN stack', NEW i, i = stack'[p].id,
           NEW t \in TodoNodes(i) \ stack'[p].todo
    PROVE  \/ t \in alreadyCached' /\ cache'[t] \subseteq cache'[i]
           \/ \E m \in scc[i] : m \in alreadyCached'
           \/ \E q \in DOMAIN stack' : p < q /\ stack'[q].id \in scc[i]
           \/ t \notin alreadyCached' /\ \E q \in DOMAIN stack' : p < q /\ stack'[q].id = t
  <1> DEFINE n == Len(stack)
  <1>1. /\ ComponentsBound /\ WalkIsTyped /\ PassedAreSettled
    BY DEF WalkInvariant
  <1>2. /\ alreadyCached \subseteq alreadyCached'
        /\ \A u \in alreadyCached' : u \notin alreadyCached =>
             /\ stack # <<>> /\ cache' = cache
             /\ \A f \in FutureNodes(u) : \E q \in DOMAIN stack' : q >= n /\ stack'[q].id = f
        /\ stack' \in Seq([id : Needed, todo : SUBSET Needed])
        /\ \A q \in DOMAIN stack : \/ q \in DOMAIN stack' /\ stack'[q].id = stack[q].id
                                   \/ stack[q].id \in alreadyCached'
        /\ IsOld(p) \/ IsNew(p) \/ IsAdvanced(p)
    BY DEF WalkStep
  <1>3. i \in Needed /\ i \in keys /\ p \in Nat /\ DOMAIN stack' \subseteq Nat
    <2> DEFINE X == [id : Needed, todo : SUBSET Needed]
               s == stack'
    <2>1. s \in Seq(X) /\ p \in DOMAIN s
      BY <1>2
    <2> HIDE DEF X, s
    <2>2. s[p] \in X /\ p \in Nat /\ DOMAIN s \subseteq Nat
      BY <2>1, Elements
    <2>3. QED
      BY <2>2, RowsFacts DEF X, s
  <1>4. n \in Nat /\ DOMAIN stack \subseteq Nat
    BY <1>1, Elements DEF WalkIsTyped
  <1>5. /\ \A k \in keys : cache[k] \subseteq cache'[k]
        /\ \A k \in alreadyCached : cache'[k] = cache[k]
    BY CachesGrow
  <1>6. CASE IsOld(p)
    <2>1. p \in DOMAIN stack /\ p < n /\ stack[p] = stack'[p]
      BY <1>6 DEF IsOld
    <2>2. \/ t \in alreadyCached /\ cache[t] \subseteq cache[i]
          \/ \E m \in scc[i] : m \in alreadyCached
          \/ \E q \in DOMAIN stack : p < q /\ stack[q].id \in scc[i]
          \/ t \notin alreadyCached /\ \E q \in DOMAIN stack : p < q /\ stack[q].id = t
      BY <1>1, <2>1 DEF PassedAreSettled, Settled
    <2>3. CASE t \in alreadyCached /\ cache[t] \subseteq cache[i]
      BY <1>2, <1>3, <1>5, <2>3
    <2>4. CASE \E m \in scc[i] : m \in alreadyCached
      BY <1>2, <2>4
    <2>5. CASE \E q \in DOMAIN stack : p < q /\ stack[q].id \in scc[i]
      BY <1>2, <2>5
    <2>6. CASE t \notin alreadyCached /\ \E q \in DOMAIN stack : p < q /\ stack[q].id = t
      <3>1. CASE t \in alreadyCached'
        <4>1. PICK m \in scc[i] : m \in FutureNodes(t)
          BY <1>1, <1>3, BoundFacts
        <4>2. PICK q \in DOMAIN stack' : q >= n /\ stack'[q].id = m
          BY <1>2, <2>6, <3>1, <4>1
        <4>3. p < q
          BY <1>3, <1>4, <2>1, <4>2
        <4>4. QED
          BY <4>1, <4>2, <4>3
      <3>2. CASE t \notin alreadyCached'
        BY <1>2, <2>6, <3>2
      <3>3. QED
        BY <3>1, <3>2
    <2>7. QED
      BY <2>2, <2>3, <2>4, <2>5, <2>6
  <1>7. CASE IsNew(p)
    BY <1>7 DEF IsNew
  <1>8. CASE IsAdvanced(p)
    <2>1. /\ stack # <<>> /\ p = n /\ i = Top.id /\ stack'[p].todo = Top.todo \ {NextTodo}
          /\ alreadyCached' = alreadyCached
          /\ \/ Merges
             \/ /\ NextTodo \notin alreadyCached
                /\ \E r \in DOMAIN stack' : p < r /\ stack'[r].id = NextTodo
      BY <1>8 DEF IsAdvanced
    <2>2. n \in DOMAIN stack /\ Top = stack[n] /\ \A q \in DOMAIN stack : q = n \/ q < n
      BY <1>1, <2>1, TopFacts
    <2>3. \A q \in DOMAIN stack : ~(n < q)
      BY <1>4, <2>2
    <2>4. CASE t \notin Top.todo
      <3>1. \/ t \in alreadyCached /\ cache[t] \subseteq cache[i]
            \/ \E m \in scc[i] : m \in alreadyCached
        BY <1>1, <2>1, <2>2, <2>3, <2>4 DEF PassedAreSettled, Settled
      <3>2. CASE t \in alreadyCached /\ cache[t] \subseteq cache[i]
        BY <1>2, <1>3, <1>5, <3>2
      <3>3. CASE \E m \in scc[i] : m \in alreadyCached
        BY <1>2, <3>3
      <3>4. QED
        BY <3>1, <3>2, <3>3
    <2>5. CASE t = NextTodo /\ Merges
      <3>1. /\ t \in alreadyCached
            /\ cache' = [k \in keys |-> IF k \in scc[i] THEN cache[i] \cup cache[t] \cup {i} ELSE cache[k]]
        BY <2>1, <2>5 DEF Merges, Set
      <3>2. i \in scc[i]
        BY <1>1, <1>3, BoundFacts
      <3>3. cache[t] \subseteq cache'[i]
        BY <1>3, <3>1, <3>2
      <3>4. QED
        BY <1>2, <1>5, <3>1, <3>3
    <2>6. CASE t = NextTodo /\ ~Merges
      BY <2>1, <2>6
    <2>7. QED
      BY <2>1, <2>4, <2>5, <2>6
  <1>9. QED
    BY <1>2, <1>6, <1>7, <1>8

(* Together: a step of the walk keeps the invariant of the walk.           *)
LEMMA WalkKeeps ==
    ASSUME RowsRead, direction # "both", WalkInvariant, WalkStep
    PROVE  RowsRead' /\ direction' # "both" /\ WalkInvariant'
  <1>1. UNCHANGED input /\ ComponentsBound
    BY DEF WalkStep, WalkInvariant
  <1>2. /\ graph' = graph /\ keys' = keys /\ direction' = direction /\ scc' = scc
        /\ \A i : TodoNodes(i)' = TodoNodes(i)
        /\ RowsRead' /\ ComponentsBound'
    BY <1>1, InputStays
  <1>3. WalkIsTyped' /\ CachesShared' /\ CachesWithin'
    BY CachesGrow
  <1>4. Symmetric(graph, keys)' <=> Symmetric(graph, keys)
    BY <1>2
  <1>5. Symmetric(graph, keys)' => NothingForgotten'
    BY <1>4, NothingIsForgotten
  <1>6. MarkedIsComplete'
    <2>1. CASE Symmetric(graph, keys)
      BY <2>1, NothingIsForgotten
    <2>2. CASE ~Symmetric(graph, keys)
      BY <1>2, <2>2 DEF MarkedIsComplete
    <2>3. QED
      BY <2>1, <2>2
  <1>7. PassedAreSettled'
    <2>1. ASSUME Symmetric(graph, keys), NEW p \in DOMAIN stack', NEW i, i = stack'[p].id,
                 NEW t \in TodoNodes(i) \ stack'[p].todo
          PROVE  Settled(p, t)'
      <3>1. \/ t \in alreadyCached' /\ cache'[t] \subseteq cache'[i]
            \/ \E m \in scc[i] : m \in alreadyCached'
            \/ \E q \in DOMAIN stack' : p < q /\ stack'[q].id \in scc[i]
            \/ t \notin alreadyCached' /\ \E q \in DOMAIN stack' : p < q /\ stack'[q].id = t
        BY <2>1, PassedStaySettled
      <3>2. QED
        BY <1>2, <2>1, <3>1 DEF Settled
    <2>2. ASSUME Symmetric(graph, keys), NEW p \in DOMAIN stack'
          PROVE  \A t \in (TodoNodes(stack[p].id))' \ stack'[p].todo : Settled(p, t)'
      <3>1. ASSUME NEW i, i = stack'[p].id
            PROVE  \A t \in TodoNodes(i)' \ stack'[p].todo : Settled(p, t)'
        BY <1>2, <2>1, <2>2, <3>1
      <3>2. QED
        BY <3>1 DEF TodoNodes
    <2>3. QED
      BY <1>4, <2>2 DEF PassedAreSettled
  <1>8. QED
    BY <1>2, <1>3, <1>5, <1>6, <1>7 DEF WalkInvariant

-----------------------------------------------------------------------------
(* What the walk starts with keeps its invariant.                          *)
LEMMA BoundInvariant ==
    RowsRead /\ direction # "both" /\ ComponentsBound /\ cache = scc
    /\ nodesToProcess = uncachedNodes /\ stack = <<>> /\ alreadyCached = {}
    => WalkInvariant
  <1> SUFFICES ASSUME RowsRead, direction # "both", ComponentsBound, cache = scc,
                      nodesToProcess = uncachedNodes, stack = <<>>, alreadyCached = {}
               PROVE  WalkInvariant
    OBVIOUS
  <1>1. \A i \in keys : /\ i \in scc[i] /\ scc[i] = Scc(graph, i) /\ scc[i] \subseteq keys
                        /\ \A j \in scc[i] : scc[j] = scc[i]
    BY BoundFacts
  <1>2. keys \subseteq Ids /\ scc \in [keys -> SUBSET Ids]
    BY <1>1, RowsFacts DEF ComponentsBound
  <1>3. stack \in Seq([id : Needed, todo : SUBSET Needed]) /\ DOMAIN stack = {}
    OBVIOUS
  <1>4. WalkIsTyped
    BY <1>2, <1>3 DEF WalkIsTyped
  <1>5. CachesShared
    BY <1>1 DEF CachesShared
  <1>6. CachesWithin
    <2>1. \A E : Carries(E) => \A i \in keys : scc[i] \subseteq Reach(E, i)
      BY <1>1 DEF Carries
    <2>2. \A i \in keys : scc[i] \subseteq Reach(Asserted(graph, direction), i)
      BY <2>1, AssertedCarries
    <2>3. Symmetric(graph, keys) => \A i \in keys : scc[i] \subseteq Reach(graph[direction], i)
      BY <2>1, AgreedCarries
    <2>4. QED
      BY <2>2, <2>3 DEF CachesWithin
  <1>7. NothingForgotten /\ PassedAreSettled /\ MarkedIsComplete
    BY <1>3 DEF NothingForgotten, PassedAreSettled, MarkedIsComplete
  <1>8. QED
    BY <1>4, <1>5, <1>6, <1>7 DEF WalkInvariant

(* The same of the next state.                                             *)
LEMMA BoundInvariantNext ==
    (RowsRead /\ direction # "both" /\ ComponentsBound /\ cache = scc
     /\ nodesToProcess = uncachedNodes /\ stack = <<>> /\ alreadyCached = {}
     => WalkInvariant)'
  BY BoundInvariant, PTL

(* The initial states satisfy the invariant, ...                           *)
LEMMA InitRuns == Init => RunInvariant
  <1> SUFFICES ASSUME Init PROVE RunInvariant
    OBVIOUS
  <1>1. PICK in \in Inputs : graph = in.graph /\ keys = in.keys /\ uncachedNodes = in.dirty
    BY DEF Init
  <1>2. /\ graph \in Graph /\ keys \subseteq Ids /\ uncachedNodes \subseteq keys
        /\ uncachedNodes # {} /\ ~Panics(graph, keys, uncachedNodes)
    BY <1>1, InputsAssumption
  <1>3. RowsRead
    BY <1>2 DEF Init, RowsRead, Needed, Panics
  <1>4. BeforeWalk /\ direction = "both" /\ F!Init
    BY SameSteps DEF Init, BeforeWalk
  <1>5. F!InputOK
    <2>1. Cardinality(keys) \in Nat
      <3>1. IsFiniteSet(Ids)
        BY MaxIdAssumption, FS_Interval DEF Ids
      <3>2. QED
        BY <1>2, <3>1, FS_Subset, FS_CardinalityType
    <2>2. F!Keys = keys /\ F!Ids = Ids /\ F!Adjacency = Adjacency
      BY <1>3, SameReach DEF F!Keys, RowsRead
    <2>3. graph.children \in Adjacency
      BY <1>3, RowsFacts
    <2>4. QED
      BY <1>2, <1>3, <2>1, <2>2, <2>3 DEF F!InputOK, RowsRead
  <1>6. F!SearchInvariant
    BY <1>4, <1>5, F!InitSearches, MaxIdAssumption
  <1>7. QED
    BY <1>3, <1>4, <1>6 DEF RunInvariant

(* ... and each step keeps it.                                             *)
LEMMA SearchRuns == RunInvariant /\ FindCycles => RunInvariant'
  <1> SUFFICES ASSUME RunInvariant, FindCycles PROVE RunInvariant'
    OBVIOUS
  <1>1. /\ RowsRead /\ F!SearchInvariant /\ direction = "both" /\ BeforeWalk
        /\ UNCHANGED walkVars /\ F!Next
    BY SameSteps DEF RunInvariant, FindCycles
  <1>2. UNCHANGED input /\ BeforeWalk' /\ direction' = direction
    BY <1>1 DEF walkVars, input, BeforeWalk
  <1>3. RowsRead'
    BY <1>1, <1>2, InputStays
  <1>4. F!SearchInvariant'
    BY <1>1, F!SearchKeeps, MaxIdAssumption
  <1>5. QED
    BY <1>1, <1>2, <1>3, <1>4 DEF RunInvariant

(* Binding the components starts the walk, ...                             *)
LEMMA BindRuns ==
    RunInvariant /\ BindCycles =>
        /\ RunInvariant' /\ direction' \in Directions /\ direction' # "both"
        /\ UNCHANGED <<graph, keys, uncachedNodes>>
        /\ nodesToProcess' = uncachedNodes
  <1> SUFFICES ASSUME RunInvariant, BindCycles
               PROVE  /\ RunInvariant' /\ direction' \in Directions /\ direction' # "both"
                      /\ UNCHANGED <<graph, keys, uncachedNodes>>
                      /\ nodesToProcess' = uncachedNodes
    OBVIOUS
  <1>1. /\ RowsRead /\ F!SearchInvariant /\ F!Finished /\ BeforeWalk
        /\ UNCHANGED <<graph, keys, uncachedNodes, stack, alreadyCached, searchVars>>
        /\ direction' \in Directions /\ nodesToProcess' = uncachedNodes
    BY SameSteps DEF RunInvariant, BindCycles, NodesToProcess
  <1>2. /\ scc' = [i \in keys |-> {j \in keys : lowLink[j] = lowLink[i]}]
        /\ children' = [i \in Ids |-> IF i \in keys THEN Neighbours(graph, "children", scc'[i]) ELSE {}]
        /\ parents' = [i \in Ids |-> IF i \in keys THEN Neighbours(graph, "parents", scc'[i]) ELSE {}]
        /\ cache' = scc'
    BY DEF BindCycles, Bound, Component
  <1>3. \A i \in keys : {j \in keys : lowLink[j] = lowLink[i]} = Scc(graph, i)
    <2>1. F!LinksAreComponents /\ F!Keys = keys
      BY <1>1, F!LinksOfFinished, MaxIdAssumption DEF F!Keys, RowsRead
    <2>2. \A i, j \in keys : lowLink[i] = lowLink[j] <=> j \in Scc(graph, i)
      BY <1>1, <2>1, SameReach DEF F!LinksAreComponents
    <2>3. \A i \in keys : Scc(graph, i) \subseteq keys
      BY <1>1, ComponentFacts
    <2>4. QED
      BY <2>2, <2>3
  <1>4. scc' = [i \in keys |-> Scc(graph, i)]
    BY <1>2, <1>3
  <1>5. direction' # "both"
    BY <1>1 DEF Directions
  <1>6. RowsRead'
    <2>1. Needed' = Needed
      BY <1>1 DEF Needed
    <2>2. QED
      BY <1>1, <2>1 DEF RowsRead
  <1>7. ComponentsBound'
    BY <1>1, <1>2, <1>4 DEF ComponentsBound
  <1>8. WalkInvariant'
    BY <1>1, <1>2, <1>5, <1>6, <1>7, BoundInvariantNext DEF BeforeWalk
  <1>9. F!SearchInvariant' /\ F!Finished'
    <2>1. UNCHANGED F!vars
      BY <1>1, SameSteps
    <2>2. F!SearchInvariant'
      BY <1>1, <2>1, F!SearchStutters, MaxIdAssumption
    <2>3. F!Finished'
      BY <1>1, <2>1 DEF F!Finished, F!vars, F!input
    <2>4. QED
      BY <2>2, <2>3
  <1>10. RunInvariant'
    BY <1>5, <1>6, <1>8, <1>9 DEF RunInvariant
  <1>11. QED
    BY <1>1, <1>5, <1>10

(* ... the walk reads the same rows throughout, ...                        *)
LEMMA WalkRuns ==
    RunInvariant /\ BuildCache =>
        /\ RunInvariant' /\ UNCHANGED <<graph, keys, uncachedNodes, direction>>
        /\ direction # "both"
  <1> SUFFICES ASSUME RunInvariant, BuildCache
               PROVE  RunInvariant' /\ UNCHANGED input
    BY DEF input, BuildCache
  <1>1. /\ RowsRead /\ F!SearchInvariant /\ direction # "both" /\ F!Finished /\ WalkInvariant
        /\ Walk /\ UNCHANGED searchVars
    BY DEF RunInvariant, BuildCache
  <1>2. WalkStep
    <2>1. ComponentsBound /\ WalkIsTyped
      BY <1>1 DEF WalkInvariant
    <2>2. QED
      BY <1>1, <2>1, StartSteps, DropSteps, FinishSteps, MergeSteps, DescendSteps DEF Walk
  <1>3. RowsRead' /\ direction' # "both" /\ WalkInvariant'
    BY <1>1, <1>2, WalkKeeps
  <1>4. UNCHANGED input
    BY <1>2 DEF WalkStep
  <1>5. UNCHANGED F!vars
    BY <1>1, <1>4, SameSteps DEF input
  <1>6. F!SearchInvariant' /\ F!Finished'
    <2>1. F!SearchInvariant'
      BY <1>1, <1>5, F!SearchStutters, MaxIdAssumption
    <2>2. F!Finished'
      BY <1>1, <1>5 DEF F!Finished, F!vars, F!input
    <2>3. QED
      BY <2>1, <2>2
  <1>7. QED
    BY <1>3, <1>4, <1>6 DEF RunInvariant

(* ... and what changes nothing keeps the invariant.                       *)
LEMMA StutterRuns == RunInvariant /\ UNCHANGED vars => RunInvariant'
  <1> SUFFICES ASSUME RunInvariant, UNCHANGED vars PROVE RunInvariant'
    OBVIOUS
  <1>1. UNCHANGED input /\ UNCHANGED F!vars /\ UNCHANGED walkVars
    <2>1. UNCHANGED input /\ UNCHANGED walkVars /\ UNCHANGED searchVars
      BY DEF vars, walkVars
    <2>2. QED
      BY <2>1, SameSteps DEF input
  <1>2. RowsRead' /\ direction' = direction
    BY <1>1, InputStays DEF RunInvariant
  <1>3. F!SearchInvariant' /\ (F!Finished => F!Finished')
    <2>1. F!SearchInvariant'
      BY <1>1, F!SearchStutters, MaxIdAssumption DEF RunInvariant
    <2>2. F!Finished => F!Finished'
      BY <1>1 DEF F!Finished, F!vars, F!input
    <2>3. QED
      BY <2>1, <2>2
  <1>4. BeforeWalk => BeforeWalk'
    BY <1>1 DEF BeforeWalk, walkVars, input
  <1>5. WalkInvariant => WalkInvariant'
    <2>1. /\ graph' = graph /\ keys' = keys /\ uncachedNodes' = uncachedNodes
          /\ direction' = direction /\ scc' = scc /\ children' = children /\ parents' = parents
          /\ nodesToProcess' = nodesToProcess /\ stack' = stack
          /\ alreadyCached' = alreadyCached /\ cache' = cache
      BY <1>1 DEF walkVars, input
    <2>2. ComponentsBound => ComponentsBound'
      BY <2>1 DEF ComponentsBound
    <2>3. WalkIsTyped => WalkIsTyped'
      BY <2>1 DEF WalkIsTyped, Needed, TodoNodes
    <2>4. CachesShared => CachesShared'
      BY <2>1 DEF CachesShared
    <2>5. CachesWithin => CachesWithin'
      BY <2>1 DEF CachesWithin, Needed
    <2>6. NothingForgotten => NothingForgotten'
      BY <2>1 DEF NothingForgotten, OnStack, FutureNodes, TodoNodes
    <2>7. PassedAreSettled => PassedAreSettled'
      <3>1. \A p, t : Settled(p, t) => Settled(p, t)'
        BY <2>1 DEF Settled
      <3>2. QED
        BY <2>1, <3>1 DEF PassedAreSettled, TodoNodes
    <2>8. MarkedIsComplete => MarkedIsComplete'
      BY <2>1 DEF MarkedIsComplete
    <2>9. QED
      BY <2>1, <2>2, <2>3, <2>4, <2>5, <2>6, <2>7, <2>8 DEF WalkInvariant
  <1>6. QED
    BY <1>2, <1>3, <1>4, <1>5 DEF RunInvariant

(* The invariant holds throughout.                                         *)
LEMMA Runs == Spec => []RunInvariant
  <1>1. RunInvariant /\ [Next]_vars => RunInvariant'
    BY SearchRuns, BindRuns, WalkRuns, StutterRuns DEF Next
  <1>2. QED
    BY <1>1, InitRuns, PTL DEF Spec

-----------------------------------------------------------------------------
(* When the walk is over, and the rows agree, every node that a dirty node *)
(* touches has a final node in its component.                              *)
LEMMA AllAreFinal ==
    ASSUME RowsRead, direction # "both", WalkInvariant, Symmetric(graph, keys), Finished,
           NEW i \in Needed
    PROVE  \E m \in scc[i] : m \in alreadyCached
  <1> DEFINE R == {k \in Needed : \E m \in scc[k] : m \in alreadyCached}
             next == [k \in Ids |-> graph.children[k] \cup graph.parents[k]]
  <1>1. ComponentsBound /\ WalkIsTyped /\ NothingForgotten
    BY DEF WalkInvariant
  <1>2. /\ graph.children \in Adjacency /\ graph.parents \in Adjacency /\ Needed \in SUBSET Ids
        /\ Needed \subseteq keys /\ uncachedNodes \subseteq Needed
        /\ \A k \in Needed : graph.children[k] \subseteq Needed /\ graph.parents[k] \subseteq Needed
    BY RowsFacts
  <1>3. /\ uncachedNodes \subseteq alreadyCached
        /\ \A k \in alreadyCached : FutureNodes(k) \subseteq alreadyCached
                                    /\ TodoNodes(k) \subseteq alreadyCached
    <2>1. \A k : ~OnStack(k)
      BY DEF OnStack, Finished
    <2>2. nodesToProcess = {}
      BY DEF Finished
    <2>3. QED
      BY <1>1, <2>1, <2>2 DEF NothingForgotten
  <1>4. \A k \in keys : /\ k \in scc[k] /\ \A j \in scc[k] : scc[j] = scc[k]
                        /\ TodoNodes(k) = Neighbours(graph, direction, scc[k])
                        /\ FutureNodes(k) = Neighbours(graph, Opposite(direction), scc[k])
    BY <1>1, BoundFacts
  <1>5. direction = "children" \/ direction = "parents"
    BY DEF RowsRead, Directions
  <1>6. alreadyCached \subseteq R
    BY <1>1, <1>2, <1>4 DEF WalkIsTyped
  <1>7. ASSUME NEW k \in R, NEW dir \in Directions, NEW l \in graph[dir][k] PROVE l \in R
    <2>1. k \in Needed /\ k \in keys /\ l \in Needed /\ l \in keys
      BY <1>2, <1>7 DEF Directions
    <2>2. PICK m \in scc[k] : m \in alreadyCached
      OBVIOUS
    <2>3. CASE l \in scc[k]
      BY <1>4, <2>1, <2>2, <2>3
    <2>4. CASE l \notin scc[k]
      <3>1. l \in Neighbours(graph, dir, scc[k])
        BY <1>4, <1>7, <2>1, <2>4 DEF Neighbours
      <3>2. m \in keys /\ scc[m] = scc[k]
        BY <1>1, <1>2, <1>4, <2>1, <2>2 DEF WalkIsTyped
      <3>3. l \in TodoNodes(m) \/ l \in FutureNodes(m)
        BY <1>4, <1>5, <3>1, <3>2 DEF Directions, Opposite
      <3>4. QED
        BY <1>3, <1>6, <2>2, <3>3
    <2>5. QED
      BY <2>3, <2>4
  <1>8. next \in Adjacency /\ \A k \in R : next[k] \subseteq R
    <2>1. next \in Adjacency
      BY <1>2 DEF Adjacency
    <2>2. \A k \in R : graph["children"][k] \subseteq R /\ graph["parents"][k] \subseteq R
      BY <1>7 DEF Directions
    <2>3. R \subseteq Ids
      BY <1>2
    <2> HIDE DEF R
    <2>4. QED
      BY <2>1, <2>2, <2>3
  <1>9. PICK d \in uncachedNodes : i \in Reach(next, d)
    BY DEF Needed, Touched
  <1>10. d \in R /\ d \in Ids /\ R \in SUBSET Ids
    BY <1>2, <1>3, <1>6
  <1> HIDE DEF R, next
  <1>11. i \in R
    BY <1>8, <1>9, <1>10, ReachFacts
  <1>12. QED
    BY <1>11 DEF R

(* What the walk returns is what CachePromise allows.                      *)
LEMMA PromiseIsKept ==
    RunInvariant /\ Done => cache \in Promise(graph, keys, uncachedNodes, direction)
  <1> SUFFICES ASSUME RunInvariant, Done
               PROVE  cache \in Promise(graph, keys, uncachedNodes, direction)
    OBVIOUS
  <1>1. /\ RowsRead /\ direction # "both" /\ WalkInvariant /\ Finished
    BY DEF RunInvariant, Done
  <1>2. ComponentsBound /\ WalkIsTyped /\ CachesShared /\ CachesWithin /\ MarkedIsComplete
    BY <1>1 DEF WalkInvariant
  <1>3. cache \in [keys -> SUBSET Ids] /\ Needed \subseteq keys
    BY <1>1, <1>2, RowsFacts DEF WalkIsTyped
  <1>4. \A i \in keys : scc[i] = Scc(graph, i)
    BY <1>2 DEF ComponentsBound
  <1>5. CASE Symmetric(graph, keys)
    <2>1. ASSUME NEW i \in Needed PROVE cache[i] = Reach(graph[direction], i)
      <3>1. PICK m \in scc[i] : m \in alreadyCached
        BY <1>1, <1>5, AllAreFinal
      <3>2. cache[m] = cache[i] /\ i \in keys
        BY <1>2, <1>3 DEF CachesShared
      <3>3. cache[m] = Reach(graph[direction], m)
        BY <1>2, <1>5, <3>1 DEF MarkedIsComplete
      <3>4. Reach(graph[direction], m) = Reach(graph[direction], i)
        BY <1>1, <1>4, <1>5, <3>1, <3>2, AgreedCarries, CarriedFacts
      <3>5. QED
        BY <3>2, <3>3, <3>4
    <2>2. \A i \in keys : i \notin Needed => cache[i] = Scc(graph, i)
      BY <1>2, <1>4 DEF CachesWithin
    <2>3. cache = Exact(graph, keys, uncachedNodes, direction)
      BY <1>3, <2>1, <2>2 DEF Exact, Needed
    <2>4. QED
      BY <1>5, <2>3 DEF Promise
  <1>6. CASE ~Symmetric(graph, keys)
    <2>1. \A i \in keys : Scc(graph, i) \subseteq cache[i]
                          /\ cache[i] \subseteq Reach(Asserted(graph, direction), i)
      BY <1>2, <1>4 DEF CachesShared, CachesWithin
    <2>2. QED
      BY <1>3, <1>6, <2>1 DEF Promise
  <1>7. QED
    BY <1>5, <1>6

(* The same of the next state.                                             *)
LEMMA PromiseIsKeptNext ==
    (RunInvariant /\ Done => cache \in Promise(graph, keys, uncachedNodes, direction))'
  BY PromiseIsKept, PTL

-----------------------------------------------------------------------------
(* The variables of both algorithms keep their types, for any rows that    *)
(* Cache does not panic over.                                              *)
THEOREM TypesHold == Spec => []TypeOK
  <1>1. RunInvariant => TypeOK
    <2> SUFFICES ASSUME RunInvariant PROVE TypeOK
      OBVIOUS
    <2>1. Search!TypeOK
      BY SameProperties DEF RunInvariant, F!SearchInvariant
    <2>2. RowsRead /\ keys \in SUBSET Ids /\ Needed \subseteq keys
      BY RowsFacts DEF RunInvariant
    <2>3. graph \in Graph /\ uncachedNodes \subseteq keys /\ direction \in Directions \cup {"both"}
      BY <2>2 DEF RowsRead
    <2>4. CASE direction = "both"
      <3>1. BeforeWalk
        BY <2>4 DEF RunInvariant
      <3>2. stack \in Seq([id : Ids, todo : SUBSET Ids])
        BY <3>1 DEF BeforeWalk
      <3>3. QED
        BY <2>1, <2>2, <2>3, <3>1, <3>2 DEF TypeOK, WalkTypeOK, BeforeWalk, Nothing
    <2>5. CASE direction # "both"
      <3>1. ComponentsBound /\ WalkIsTyped
        BY <2>5 DEF RunInvariant, WalkInvariant
      <3>2. scc \in [keys -> SUBSET keys]
        BY <2>2, <3>1, ComponentFacts DEF ComponentsBound
      <3>3. \A i \in keys : \A dir \in Directions : Neighbours(graph, dir, scc[i]) \subseteq Ids
        <4>1. \A m \in Ids : \A dir \in Directions : graph[dir][m] \subseteq Ids
          BY <2>3 DEF Graph, Adjacency, Directions
        <4>2. QED
          BY <2>2, <3>2, <4>1 DEF Neighbours
      <3>4. children \in [Ids -> SUBSET Ids] /\ parents \in [Ids -> SUBSET Ids]
        BY <3>1, <3>3 DEF ComponentsBound, Directions
      <3>5. stack \in Seq([id : Ids, todo : SUBSET Ids])
        <4>1. [id : Needed, todo : SUBSET Needed] \subseteq [id : Ids, todo : SUBSET Ids]
          BY <2>2
        <4> DEFINE X == [id : Needed, todo : SUBSET Needed]
                   Y == [id : Ids, todo : SUBSET Ids]
        <4>2. stack \in Seq(X) /\ X \subseteq Y
          BY <3>1, <4>1 DEF WalkIsTyped
        <4> HIDE DEF X, Y
        <4>3. stack \in Seq(Y)
          BY <4>2
        <4>4. QED
          BY <4>3 DEF Y
      <3>6. /\ nodesToProcess \subseteq uncachedNodes /\ alreadyCached \subseteq keys
            /\ cache \in [keys -> SUBSET Ids]
        BY <2>2, <3>1 DEF WalkIsTyped
      <3>7. QED
        BY <2>1, <2>2, <2>3, <3>2, <3>4, <3>5, <3>6 DEF TypeOK, WalkTypeOK
    <2>6. QED
      BY <2>4, <2>5
  <1>2. QED
    BY <1>1, Runs, PTL

(* findCycles gives two nodes the same link exactly if they are in a       *)
(* common cycle.                                                           *)
THEOREM LinksNameComponents == Spec => []LinksAreComponents
  <1>1. RunInvariant => LinksAreComponents
    BY F!LinksOfFinished, MaxIdAssumption, SameProperties DEF RunInvariant, LinksAreComponents
  <1>2. QED
    BY <1>1, Runs, PTL

(* It takes a component off its stack only as a whole.                     *)
THEOREM ComponentsCloseWhole == Spec => []ClosedComponentsAreWhole
  <1>1. RunInvariant => ClosedComponentsAreWhole
    BY F!WholeComponents, MaxIdAssumption, SameProperties
    DEF RunInvariant, ClosedComponentsAreWhole
  <1>2. QED
    BY <1>1, Runs, PTL

(* The link of a node that has left its stack is final.                    *)
THEOREM ClosedLinksStayTheSame == Spec => ClosedLinksAreFinal
  <1> DEFINE Stays == \A i \in Search!Keys : Search!Visited(i) /\ ~Search!InStack(i)
                                                => lowLink'[i] = lowLink[i]
  <1>1. RunInvariant /\ [Next]_vars => Stays \/ UNCHANGED Search!vars
    <2> SUFFICES ASSUME RunInvariant, [Next]_vars PROVE Stays \/ UNCHANGED Search!vars
      OBVIOUS
    <2>1. CASE FindCycles
      <3>1. F!SearchInvariant /\ F!Next
        BY <2>1, SameSteps DEF FindCycles, RunInvariant
      <3>2. \A i \in F!Keys : F!Visited(i) /\ ~F!InStack(i) => lowLink'[i] = lowLink[i]
        BY <3>1, F!ClosedLinksStay, MaxIdAssumption
      <3>3. QED
        BY <3>2 DEF F!Keys, Search!Keys, F!Visited, Search!Visited, F!InStack, Search!InStack,
                    F!ToSet, Search!ToSet
    <2>2. CASE BindCycles
      BY <2>2 DEF BindCycles, searchVars
    <2>3. CASE BuildCache
      BY <2>3 DEF BuildCache, searchVars
    <2>4. CASE UNCHANGED vars
      BY <2>4 DEF vars, searchVars
    <2>5. QED
      BY <2>1, <2>2, <2>3, <2>4 DEF Next
  <1>2. QED
    BY <1>1, Runs, PTL DEF Spec, ClosedLinksAreFinal, Search!ClosedLinksAreFinal

(* At every moment a cache names only what recorded edges lead to.         *)
THEOREM CachesAreSound == Spec => []CacheSound
  <1>1. RunInvariant => CacheSound
    BY DEF RunInvariant, WalkInvariant, CachesWithin, CacheSound
  <1>2. QED
    BY <1>1, Runs, PTL

(* A node that the walk marks as final has its whole closure.              *)
THEOREM MarkedAreComplete == Spec => []MarkedIsComplete
  <1>1. RunInvariant => MarkedIsComplete
    BY DEF RunInvariant, WalkInvariant, BeforeWalk, MarkedIsComplete
  <1>2. QED
    BY <1>1, Runs, PTL

-----------------------------------------------------------------------------
(* The stack of the walk while the rows agree: above a backlog, which only *)
(* a final node may add to, every element lies below those before it.      *)
Others == Cardinality(keys) - 1
Below(i, j) == j \in Reach(graph[direction], i) /\ i \notin Reach(graph[direction], j)
WayDown(b) == \A p, q \in DOMAIN stack : b < p /\ p < q => Below(stack[p].id, stack[q].id)
Backlog(b) ==
    /\ b \in Nat /\ b <= Len(stack) /\ b <= 2 * Others * Cardinality(alreadyCached)
    /\ WayDown(b)
BacklogBounded == direction # "both" /\ Symmetric(graph, keys) => \E b \in Nat : Backlog(b)

(* How many nodes there are.                                               *)
LEMMA CountFacts ==
    ASSUME RowsRead
    PROVE  /\ IsFiniteSet(keys) /\ Cardinality(keys) \in Nat /\ Others \in Nat
           /\ \A S \in SUBSET keys : IsFiniteSet(S) /\ Cardinality(S) \in Nat
           /\ \A i \in keys : \A S \in SUBSET (keys \ {i}) : Cardinality(S) <= Others
  <1>1. IsFiniteSet(keys) /\ Cardinality(keys) \in Nat
    <2>1. IsFiniteSet(Ids)
      BY MaxIdAssumption, FS_Interval DEF Ids
    <2>2. QED
      BY <2>1, RowsFacts, FS_Subset, FS_CardinalityType
  <1>2. \A S \in SUBSET keys : IsFiniteSet(S) /\ Cardinality(S) \in Nat
    BY <1>1, FS_Subset, FS_CardinalityType
  <1>3. ASSUME NEW i \in keys
        PROVE  Cardinality(keys \ {i}) = Others /\ Others \in Nat
    <2>1. Cardinality(keys \ {i}) = Others
      BY <1>1, FS_RemoveElement DEF Others
    <2>2. Cardinality(keys \ {i}) \in Nat
      BY <1>2
    <2>3. QED
      BY <2>1, <2>2
  <1>4. ASSUME NEW i \in keys, NEW S \in SUBSET (keys \ {i}) PROVE Cardinality(S) <= Others
    <2>1. IsFiniteSet(keys \ {i})
      BY <1>2
    <2>2. QED
      BY <1>3, <2>1, FS_Subset
  <1>5. Others \in Nat
    <2>1. \E i : i \in keys
      BY DEF RowsRead
    <2>2. QED
      BY <1>3, <2>1
  <1>6. QED
    BY <1>1, <1>2, <1>4, <1>5

(* A todo node lies below the node.                                        *)
LEMMA TodoIsBelow ==
    ASSUME RowsRead, direction # "both", ComponentsBound, Symmetric(graph, keys),
           NEW i \in keys, NEW t \in TodoNodes(i)
    PROVE  Below(i, t)
  <1> DEFINE E == graph[direction]
  <1>1. direction = "children" \/ direction = "parents"
    BY DEF RowsRead, Directions
  <1>2. graph.children \in Adjacency /\ graph.parents \in Adjacency /\ keys \in SUBSET Ids
    BY RowsFacts
  <1>3. Scc(graph, i) = {j \in Reach(graph.children, i) : i \in Reach(graph.children, j)}
    BY DEF Scc
  <1>4. t \in keys /\ t \in Neighbours(graph, direction, Scc(graph, i)) /\ t \notin Scc(graph, i)
    <2>1. t \in keys /\ t \in Neighbours(graph, direction, Scc(graph, i))
      BY BoundFacts
    <2>2. QED
      BY <2>1 DEF Neighbours
  <1>5. t \in Reach(E, i)
    BY <1>4, AgreedCarries, CarriedFacts
  <1>6. ASSUME i \in Reach(E, t) PROVE t \in Scc(graph, i)
    <2>1. CASE direction = "children"
      BY <1>3, <1>5, <1>6, <2>1
    <2>2. CASE direction = "parents"
      <3>1. \A k \in keys : graph.parents[k] \subseteq keys /\ \A l \in graph.parents[k] : k \in graph.children[l]
        BY <1>1 DEF Symmetric, Directions, Opposite
      <3>2. \A k \in keys : \A l \in Reach(graph.parents, k) : k \in Reach(graph.children, l)
        BY <1>2, <3>1, ReachBack
      <3>3. t \in Reach(graph.parents, i) /\ i \in Reach(graph.parents, t)
        BY <1>5, <1>6, <2>2
      <3>4. QED
        BY <1>3, <1>4, <3>2, <3>3
    <2>3. QED
      BY <1>1, <2>1, <2>2
  <1>7. QED
    BY <1>4, <1>5, <1>6 DEF Below

(* What lies below a node that lies below another lies below that one.     *)
LEMMA BelowBelow ==
    ASSUME RowsRead, direction # "both", NEW i \in keys, NEW j \in keys, NEW t \in keys,
           Below(i, j), Below(j, t)
    PROVE  Below(i, t)
  <1> DEFINE E == graph[direction]
  <1>1. E \in Adjacency /\ i \in Ids /\ j \in Ids /\ t \in Ids
    BY RowsFacts DEF RowsRead, Directions
  <1>2. /\ j \in Reach(E, i) /\ t \in Reach(E, j) /\ j \notin Reach(E, t)
    BY DEF Below
  <1> HIDE DEF E
  <1>3. t \in Reach(E, i)
    BY <1>1, <1>2, ReachOfReached
  <1>4. i \in Reach(E, t) => j \in Reach(E, t)
    BY <1>1, <1>2, ReachOfReached
  <1>5. QED
    BY <1>2, <1>3, <1>4 DEF Below, E

(* A way down has each node once at most.                                  *)
LEMMA WayDownIsShort ==
    ASSUME RowsRead, direction # "both", WalkIsTyped, NEW b \in Nat, b <= Len(stack), WayDown(b)
    PROVE  Len(stack) <= b + Cardinality(keys)
  <1> DEFINE ways == (b + 1)..Len(stack)
             node == [p \in ways |-> stack[p].id]
  <1>1. /\ Len(stack) \in Nat /\ DOMAIN stack = 1..Len(stack)
        /\ \A p \in DOMAIN stack : stack[p].id \in Needed
    <2> DEFINE X == [id : Needed, todo : SUBSET Needed]
    <2>1. stack \in Seq(X) /\ \A x \in X : x.id \in Needed
      BY DEF WalkIsTyped
    <2> HIDE DEF X
    <2>2. QED
      BY <2>1, Elements
  <1>2. \A p \in ways : p \in DOMAIN stack /\ p \in Nat /\ b < p
    BY <1>1
  <1>3. \A p \in ways : node[p] \in keys /\ node[p] = stack[p].id
    BY <1>1, <1>2, RowsFacts
  <1>4. ASSUME NEW p \in ways, NEW q \in ways, p < q PROVE node[p] # node[q]
    <2>1. Below(stack[p].id, stack[q].id)
      BY <1>2, <1>4 DEF WayDown
    <2>2. QED
      BY <1>3, <2>1 DEF Below
  <1>5. node \in Injection(ways, keys)
    <2>1. node \in [ways -> keys]
      BY <1>3
    <2> HIDE DEF node
    <2>2. ASSUME NEW p \in ways, NEW q \in ways, node[p] = node[q] PROVE p = q
      <3>1. p < q \/ q < p \/ p = q
        BY <1>2
      <3> HIDE DEF ways
      <3>2. QED
        BY <1>4, <2>2, <3>1
    <2>3. QED
      BY <2>1, <2>2 DEF Injection, IsInjective
  <1>6. Cardinality(ways) <= Cardinality(keys)
    BY <1>5, CountFacts, FS_Injection
  <1>7. Cardinality(ways) = Len(stack) - b
    <2>1. b + 1 \in Int /\ Len(stack) \in Int
      BY <1>1
    <2>2. Cardinality(ways) = IF b + 1 > Len(stack) THEN 0 ELSE Len(stack) - (b + 1) + 1
      BY <2>1, FS_Interval
    <2>3. QED
      BY <1>1, <2>2
  <1>8. QED
    BY <1>1, <1>6, <1>7, CountFacts

(* Where the stack keeps its IDs the way down stays.                       *)
LEMMA WayDownStays ==
    ASSUME NEW b \in Nat, NEW c \in Nat, WayDown(b), UNCHANGED <<graph, direction>>,
           DOMAIN stack' \subseteq Nat,
           \A p \in DOMAIN stack' : c < p => /\ b < p /\ p \in DOMAIN stack
                                            /\ stack'[p].id = stack[p].id
    PROVE  WayDown(c)'
  <1>1. ASSUME NEW p \in DOMAIN stack', NEW q \in DOMAIN stack', c < p, p < q
        PROVE  Below(stack'[p].id, stack'[q].id)
    <2>1. c < q
      BY <1>1
    <2>2. /\ b < p /\ p \in DOMAIN stack /\ stack'[p].id = stack[p].id
          /\ q \in DOMAIN stack /\ stack'[q].id = stack[q].id
      BY <1>1, <2>1
    <2>3. QED
      BY <1>1, <2>2 DEF WayDown
  <1>2. QED
    BY <1>1 DEF WayDown, Below

(* Each step of the walk keeps a backlog: it starts with none, ...         *)
LEMMA StartKeepsBacklog ==
    ASSUME RowsRead, WalkIsTyped, WalkStep, StartNode
    PROVE  \E b \in Nat : Backlog(b)'
  <1>1. UNCHANGED <<graph, keys, direction, alreadyCached>>
    BY DEF WalkStep, input, StartNode
  <1>2. Len(stack') = 1 /\ DOMAIN stack' = {1}
    BY DEF StartNode
  <1>3. WayDown(0)'
    BY <1>2 DEF WayDown
  <1>4. Others' = Others /\ Others \in Nat /\ Cardinality(alreadyCached) \in Nat
    <2>1. alreadyCached \subseteq keys
      BY RowsFacts DEF WalkIsTyped
    <2>2. QED
      BY <1>1, <2>1, CountFacts DEF Others
  <1>5. 0 <= 2 * Others * Cardinality(alreadyCached)
    BY <1>4
  <1>6. Backlog(0)'
    BY <1>1, <1>2, <1>3, <1>4, <1>5 DEF Backlog
  <1>7. QED
    BY <1>6

(* ... does not grow it while no node becomes final, ...                   *)
LEMMA OthersKeepBacklog ==
    ASSUME RowsRead, WalkIsTyped, WalkStep, alreadyCached' = alreadyCached,
           NEW b \in Nat, Backlog(b), NEW c \in Nat, c <= b, c <= Len(stack'),
           \A p \in DOMAIN stack' : c < p => /\ b < p /\ p \in DOMAIN stack
                                            /\ stack'[p].id = stack[p].id
    PROVE  \E d \in Nat : Backlog(d)'
  <1>1. UNCHANGED <<graph, keys, direction>>
    BY DEF WalkStep, input
  <1>2. DOMAIN stack' \subseteq Nat
    BY Elements DEF WalkStep
  <1>3. WayDown(c)'
    BY <1>1, <1>2, WayDownStays DEF Backlog
  <1>4. Others' = Others /\ Others \in Nat /\ Cardinality(alreadyCached) \in Nat
    <2>1. alreadyCached \subseteq keys
      BY RowsFacts DEF WalkIsTyped
    <2>2. QED
      BY <1>1, <2>1, CountFacts DEF Others
  <1> DEFINE most == 2 * Others * Cardinality(alreadyCached)
  <1>5. c <= most
    <2>1. b <= most /\ most \in Nat
      BY <1>4 DEF Backlog
    <2> HIDE DEF most
    <2>2. QED
      BY <2>1
  <1>6. Backlog(c)'
    BY <1>1, <1>3, <1>4, <1>5 DEF Backlog
  <1>7. QED
    BY <1>6

LEMMA DropKeepsBacklog ==
    ASSUME RowsRead, WalkIsTyped, WalkStep, DropCached, NEW b \in Nat, Backlog(b)
    PROVE  \E d \in Nat : Backlog(d)'
  <1> DEFINE n == Len(stack)
             c == IF b = n THEN n - 1 ELSE b
  <1>1. stack # <<>> /\ stack' = Front(stack) /\ alreadyCached' = alreadyCached
    BY DEF DropCached
  <1>2. /\ stack \in Seq([id : Needed, todo : SUBSET Needed])
        /\ n \in Nat /\ n # 0 /\ DOMAIN stack = 1..n
    BY <1>1, Elements DEF WalkIsTyped
  <1>3. /\ Len(stack') = n - 1
        /\ \A p \in DOMAIN stack' : p \in DOMAIN stack /\ stack'[p] = stack[p] /\ p # n
    BY <1>1, <1>2, Shortened
  <1>4. b <= n
    BY DEF Backlog
  <1> HIDE DEF n
  <1>5. c \in Nat /\ c <= b /\ c <= Len(stack')
    <2>1. CASE b = n
      BY <1>2, <1>3, <2>1
    <2>2. CASE b # n
      BY <1>2, <1>3, <1>4, <2>2
    <2>3. QED
      BY <2>1, <2>2
  <1>6. ASSUME NEW p \in DOMAIN stack', c < p
        PROVE  b < p /\ p \in DOMAIN stack /\ stack'[p].id = stack[p].id
    <2>1. p \in DOMAIN stack /\ stack'[p] = stack[p] /\ p \in Nat /\ p <= n /\ p # n
      BY <1>2, <1>3
    <2>2. QED
      BY <1>2, <1>4, <1>6, <2>1
  <1> HIDE DEF c
  <1>7. QED
    BY <1>1, <1>5, <1>6, OthersKeepBacklog

LEMMA MergeKeepsBacklog ==
    ASSUME RowsRead, WalkIsTyped, WalkStep, MergeTodo, NEW b \in Nat, Backlog(b)
    PROVE  \E d \in Nat : Backlog(d)'
  <1> DEFINE X == [id : Needed, todo : SUBSET Needed]
             e == [Top EXCEPT !.todo = @ \ {NextTodo}]
             n == Len(stack)
  <1>1. stack # <<>> /\ stack' = Append(Front(stack), e) /\ alreadyCached' = alreadyCached
    BY DEF MergeTodo, Advanced
  <1>2. stack \in Seq(X) /\ Top = stack[n] /\ Top \in X /\ n \in DOMAIN stack
    BY <1>1, TopFacts DEF WalkIsTyped
  <1>3. e \in X /\ e.id = Top.id
    BY <1>2
  <1> HIDE DEF e, X
  <1>4. /\ Len(stack') = n /\ DOMAIN stack' = DOMAIN stack /\ stack'[n] = e
        /\ \A p \in DOMAIN stack : p # n => stack'[p] = stack[p]
    <2> DEFINE new == Append(Front(stack), e)
    <2>1. stack \in Seq(X) /\ stack # <<>> /\ e \in X
      BY <1>1, <1>2, <1>3
    <2>2. /\ Len(new) = Len(stack) /\ DOMAIN new = DOMAIN stack /\ new[Len(stack)] = e
          /\ \A p \in DOMAIN stack : p # Len(stack) => new[p] = stack[p]
      BY <2>1, Replaced
    <2>3. stack' = new
      BY <1>1
    <2> HIDE DEF new
    <2>4. QED
      BY <2>2, <2>3
  <1>5. \A p \in DOMAIN stack' : p \in DOMAIN stack /\ stack'[p].id = stack[p].id
    BY <1>2, <1>3, <1>4
  <1>6. b <= Len(stack') /\ b <= b
    BY <1>4 DEF Backlog
  <1>7. QED
    BY <1>1, <1>5, <1>6, OthersKeepBacklog

(* ... goes on down from the top, ...                                      *)
LEMMA DescendKeepsBacklog ==
    ASSUME RowsRead, direction # "both", Symmetric(graph, keys), ComponentsBound, WalkIsTyped,
           WalkStep, DescendTodo, NEW b \in Nat, Backlog(b)
    PROVE  \E d \in Nat : Backlog(d)'
  <1> DEFINE X == [id : Needed, todo : SUBSET Needed]
             e == [Top EXCEPT !.todo = @ \ {NextTodo}]
             n == Len(stack)
             front == Append(Front(stack), e)
  <1>1. /\ stack # <<>> /\ Top.todo # {} /\ stack' = Append(front, Elem(NextTodo))
        /\ alreadyCached' = alreadyCached
    BY DEF DescendTodo, Advanced
  <1>2. /\ stack \in Seq(X) /\ Top = stack[n] /\ Top \in X /\ n \in DOMAIN stack /\ n \in Nat
        /\ NextTodo \in Top.todo /\ Top.id \in keys /\ NextTodo \in TodoNodes(Top.id)
        /\ DOMAIN stack = 1..n /\ \A p \in DOMAIN stack : stack[p].id \in keys
    <2>1. /\ stack \in Seq(X) /\ Top = stack[n] /\ Top \in X /\ n \in DOMAIN stack /\ n \in Nat
          /\ NextTodo \in Top.todo /\ Top.id \in keys /\ Top.todo \subseteq TodoNodes(Top.id)
      BY <1>1, TopFacts DEF WalkIsTyped
    <2>2. DOMAIN stack = 1..n /\ \A p \in DOMAIN stack : stack[p] \in X
      BY <2>1, Elements
    <2>3. QED
      BY <2>1, <2>2, RowsFacts
  <1>3. e \in X /\ e.id = Top.id /\ NextTodo \in Needed /\ NextTodo \in keys
    BY <1>2, RowsFacts
  <1>4. Elem(NextTodo) \in X /\ Elem(NextTodo).id = NextTodo
    BY <1>3, ElemFacts
  <1> HIDE DEF e, X
  <1>5. /\ front \in Seq(X) /\ DOMAIN front = DOMAIN stack /\ front[n] = e /\ Len(front) = n
        /\ \A p \in DOMAIN stack : p # n => front[p] = stack[p]
    <2>1. stack \in Seq(X) /\ stack # <<>> /\ e \in X
      BY <1>1, <1>2, <1>3
    <2>2. QED
      BY <2>1, Replaced
  <1> HIDE DEF front
  <1>6. /\ Len(stack') = n + 1 /\ stack'[n + 1] = Elem(NextTodo)
        /\ \A p \in DOMAIN front : stack'[p] = front[p]
        /\ \A p \in DOMAIN stack' : p \in DOMAIN front \/ p = n + 1
    <2>1. Len(stack') = n + 1
      BY <1>1, <1>5
    <2>2. QED
      BY <1>1, <1>4, <1>5, <2>1, Appended
  <1>7. \A p \in DOMAIN stack : stack'[p].id = stack[p].id
    BY <1>2, <1>3, <1>5, <1>6
  <1>8. Below(Top.id, NextTodo)
    BY <1>2, TodoIsBelow
  <1>9. /\ b <= n /\ WayDown(b) /\ b <= 2 * Others * Cardinality(alreadyCached)
    BY DEF Backlog
  <1> HIDE DEF n
  <1>10. ASSUME NEW p \in DOMAIN stack, b < p PROVE Below(stack[p].id, NextTodo)
    <2>1. CASE p = n
      BY <1>2, <1>8, <2>1
    <2>2. CASE p # n
      <3>1. p < n
        BY <1>2, <2>2
      <3>2. Below(stack[p].id, Top.id)
        BY <1>2, <1>9, <1>10, <3>1 DEF WayDown
      <3>3. QED
        BY <1>2, <1>3, <1>8, <3>2, BelowBelow
    <2>3. QED
      BY <2>1, <2>2
  <1>11. ASSUME NEW p \in DOMAIN stack', NEW q \in DOMAIN stack', b < p, p < q
         PROVE  Below(stack'[p].id, stack'[q].id)
    <2>1. p \in DOMAIN stack
      <3>1. p = n + 1 => q \in 1..n \/ q = n + 1
        BY <1>2, <1>5, <1>6
      <3>2. p # n + 1
        BY <1>2, <1>11, <3>1
      <3>3. QED
        BY <1>5, <1>6, <3>2
    <2>2. CASE q \in DOMAIN stack
      <3>1. Below(stack[p].id, stack[q].id)
        BY <1>9, <1>11, <2>1, <2>2 DEF WayDown
      <3>2. QED
        BY <1>7, <2>1, <2>2, <3>1
    <2>3. CASE q = n + 1
      <3>1. Below(stack[p].id, NextTodo)
        BY <1>10, <1>11, <2>1
      <3>2. QED
        BY <1>4, <1>6, <1>7, <2>1, <2>3, <3>1
    <2>4. QED
      BY <1>5, <1>6, <2>2, <2>3
  <1>12. UNCHANGED <<graph, keys, direction>>
    BY DEF WalkStep, input
  <1>13. WayDown(b)'
    BY <1>11, <1>12 DEF WayDown, Below
  <1>14. Backlog(b)'
    <2>1. b <= Len(stack')
      BY <1>2, <1>6, <1>9
    <2>2. Others' = Others
      BY <1>12 DEF Others
    <2>3. QED
      BY <1>1, <1>9, <1>13, <2>1, <2>2 DEF Backlog
  <1>15. QED
    BY <1>14

(* ... and makes what waits a part of it when a node becomes final: less   *)
(* than one element for each other node waited below, and as many follow.  *)
LEMMA FinishKeepsBacklog ==
    ASSUME RowsRead, direction # "both", ComponentsBound, WalkIsTyped,
           WalkStep, FinishNode, NEW b \in Nat, Backlog(b)
    PROVE  \E d \in Nat : Backlog(d)'
  <1> DEFINE S == FutureNodes(Top.id)
             n == Len(stack)
             c == Cardinality(alreadyCached)
  <1>1. /\ stack # <<>> /\ Top.id \notin alreadyCached
        /\ alreadyCached' = alreadyCached \cup {Top.id} /\ stack' = Front(stack) \o Elems(S)
    BY DEF FinishNode
  <1>2. /\ stack \in Seq([id : Needed, todo : SUBSET Needed]) /\ n \in Nat
        /\ Top.id \in keys /\ Top.id \in Needed
    BY <1>1, TopFacts DEF WalkIsTyped
  <1>3. Front(stack) \in Seq([id : Needed, todo : SUBSET Needed]) /\ Len(Front(stack)) = n - 1
    BY <1>1, <1>2, Shortened
  <1>4. S \subseteq keys \ {Top.id} /\ S \subseteq Needed
    <2>1. S \subseteq Needed
      BY <1>2, BoundFacts
    <2>2. Top.id \notin S
      BY <1>2, BoundFacts DEF Neighbours
    <2>3. QED
      BY <2>1, <2>2, RowsFacts
  <1>5. Cardinality(S) <= Others /\ Cardinality(S) \in Nat /\ Others \in Nat
    BY <1>2, <1>4, CountFacts
  <1>6. Elems(S) \in Seq([id : Needed, todo : SUBSET Needed]) /\ Len(Elems(S)) = Cardinality(S)
    <2>1. \A m \in S : Elem(m) \in [id : Needed, todo : SUBSET Needed]
      BY <1>4, ElemFacts
    <2>2. S \in SUBSET Ids
      BY <1>4, RowsFacts
    <2>3. Elems(S) \in Seq([id : Needed, todo : SUBSET Needed])
      BY <2>1, <2>2, ElemsFacts
    <2>4. DOMAIN Elems(S) = 1..Cardinality(S)
      BY DEF Elems
    <2>5. QED
      BY <1>5, <2>3, <2>4
  <1>7. /\ c \in Nat /\ Cardinality(alreadyCached') = c + 1
    <2>1. alreadyCached \subseteq keys
      BY RowsFacts DEF WalkIsTyped
    <2>2. QED
      BY <1>1, <2>1, CountFacts, FS_AddElement
  <1>8. n <= b + Cardinality(keys) /\ Cardinality(keys) = Others + 1 /\ b <= 2 * Others * c
    <2>1. n <= b + Cardinality(keys)
      BY WayDownIsShort DEF Backlog
    <2>2. Cardinality(keys) \in Nat /\ Cardinality(keys) = Others + 1
      BY CountFacts DEF Others
    <2>3. QED
      BY <2>1, <2>2 DEF Backlog
  <1>9. Len(stack') = n - 1 + Cardinality(S) /\ Len(stack') \in Nat
    <2> DEFINE front == Front(stack)
               tail == Elems(S)
               X == [id : Needed, todo : SUBSET Needed]
    <2>1. front \in Seq(X) /\ Len(front) = n - 1
      BY <1>3
    <2>2. tail \in Seq(X) /\ Len(tail) = Cardinality(S)
      BY <1>6
    <2>3. stack' = front \o tail
      BY <1>1
    <2> HIDE DEF front, tail, X
    <2>4. Len(front) \in Nat /\ Len(tail) \in Nat /\ Len(front \o tail) = Len(front) + Len(tail)
      BY <2>1, <2>2
    <2>5. QED
      BY <2>1, <2>2, <2>3, <2>4
  <1> HIDE DEF n, c, S
  <1>10. Len(stack') <= 2 * Others * (c + 1)
    <2> DEFINE most == 2 * Others * c
    <2>1. most \in Nat /\ 2 * Others * (c + 1) = most + 2 * Others
      BY <1>5, <1>7
    <2> HIDE DEF most
    <2>2. Len(stack') <= most + 2 * Others
      <3>1. b <= most
        BY <1>8 DEF most
      <3>2. QED
        BY <1>2, <1>5, <1>8, <1>9, <2>1, <3>1
    <2>3. QED
      BY <2>1, <2>2
  <1>11. DOMAIN stack' = 1..Len(stack')
    BY Elements DEF WalkStep
  <1>12. \A p, q \in DOMAIN stack' : ~(Len(stack') < p /\ p < q)
    BY <1>9, <1>11
  <1>13. UNCHANGED keys
    BY DEF WalkStep, input
  <1> DEFINE d == Len(stack')
  <1>14. d \in Nat /\ d <= 2 * Others' * Cardinality(alreadyCached')
    BY <1>7, <1>9, <1>10, <1>13 DEF Others
  <1>15. QED
    BY <1>9, <1>12, <1>14 DEF Backlog, WayDown

(* So there is one throughout.                                             *)
LEMMA BacklogStays ==
    RunInvariant /\ RunInvariant' /\ BacklogBounded /\ [Next]_vars => BacklogBounded'
  <1> SUFFICES ASSUME RunInvariant, BacklogBounded, [Next]_vars,
                      direction' # "both", Symmetric(graph', keys')
               PROVE  (\E b \in Nat : Backlog(b))'
    BY DEF BacklogBounded
  <1>1. RowsRead
    BY DEF RunInvariant
  <1>2. CASE FindCycles
    BY <1>2 DEF FindCycles, walkVars, input
  <1>3. CASE BindCycles
    <2>1. /\ UNCHANGED <<keys, stack, alreadyCached>> /\ stack = <<>> /\ alreadyCached = {}
      BY <1>3 DEF BindCycles, RunInvariant, BeforeWalk
    <2>2. Others \in Nat /\ Others' = Others /\ Cardinality(alreadyCached) \in Nat
      BY <1>1, <2>1, CountFacts DEF Others
    <2>3. 0 <= 2 * Others * Cardinality(alreadyCached)
      BY <2>2
    <2>4. Backlog(0)'
      BY <2>1, <2>2, <2>3 DEF Backlog, WayDown
    <2>5. QED
      BY <2>4
  <1>4. CASE BuildCache
    <2>1. /\ direction # "both" /\ WalkInvariant /\ Walk /\ UNCHANGED searchVars
      BY <1>4 DEF BuildCache, RunInvariant
    <2>2. ComponentsBound /\ WalkIsTyped
      BY <2>1 DEF WalkInvariant
    <2>3. WalkStep
      BY <1>1, <2>1, <2>2, StartSteps, DropSteps, FinishSteps, MergeSteps, DescendSteps DEF Walk
    <2>4. Symmetric(graph, keys)
      BY <2>3 DEF WalkStep, input
    <2>5. PICK b \in Nat : Backlog(b)
      BY <2>1, <2>4 DEF BacklogBounded
    <2>6. CASE StartNode
      BY <1>1, <2>2, <2>3, <2>6, StartKeepsBacklog
    <2>7. CASE DropCached
      BY <1>1, <2>2, <2>3, <2>5, <2>7, DropKeepsBacklog
    <2>8. CASE FinishNode
      BY <1>1, <2>1, <2>2, <2>3, <2>5, <2>8, FinishKeepsBacklog
    <2>9. CASE MergeTodo
      BY <1>1, <2>2, <2>3, <2>5, <2>9, MergeKeepsBacklog
    <2>10. CASE DescendTodo
      BY <1>1, <2>1, <2>2, <2>3, <2>4, <2>5, <2>10, DescendKeepsBacklog
    <2>11. QED
      BY <2>1, <2>6, <2>7, <2>8, <2>9, <2>10 DEF Walk
  <1>5. CASE UNCHANGED vars
    <2>1. UNCHANGED <<graph, keys, direction, stack, alreadyCached>>
      BY <1>5 DEF vars, walkVars, input
    <2>2. PICK b \in Nat : Backlog(b)
      BY <2>1 DEF BacklogBounded
    <2>3. Backlog(b)'
      BY <2>1, <2>2 DEF Backlog, WayDown, Below, Others
    <2>4. QED
      BY <2>3
  <1>6. QED
    BY <1>2, <1>3, <1>4, <1>5 DEF Next

(* The stack of the walk is bounded when the rows agree: by the nodes, and *)
(* by what each node that is final adds to what waits.                     *)
THEOREM StackIsBounded == Spec => []StackBounded
  <1>1. Init => BacklogBounded
    BY DEF Init, BacklogBounded
  <1>2. RunInvariant /\ BacklogBounded => StackBounded
    <2> SUFFICES ASSUME RunInvariant, BacklogBounded, Symmetric(graph, keys)
                 PROVE  Len(stack) <= Cardinality(keys) + 2 * Others * Cardinality(alreadyCached)
      BY DEF StackBounded, Others
    <2> DEFINE most == 2 * Others * Cardinality(alreadyCached)
    <2>1. RowsRead
      BY DEF RunInvariant
    <2>2. most \in Nat /\ Cardinality(keys) \in Nat
      <3>1. alreadyCached \subseteq keys
        BY <2>1, RowsFacts DEF RunInvariant, BeforeWalk, WalkInvariant, WalkIsTyped
      <3>2. Cardinality(alreadyCached) \in Nat /\ Others \in Nat
        BY <2>1, <3>1, CountFacts
      <3>3. QED
        BY <2>1, <3>2, CountFacts
    <2>3. CASE direction = "both"
      <3>1. Len(stack) = 0
        BY <2>3 DEF RunInvariant, BeforeWalk
      <3> HIDE DEF most
      <3>2. Len(stack) <= Cardinality(keys) + most
        BY <2>2, <3>1
      <3>3. QED
        BY <3>2 DEF most
    <2>4. CASE direction # "both"
      <3>1. WalkIsTyped
        BY <2>4 DEF RunInvariant, WalkInvariant
      <3>2. PICK b \in Nat : Backlog(b)
        BY <2>4 DEF BacklogBounded
      <3>3. Len(stack) <= b + Cardinality(keys) /\ b <= most /\ Len(stack) \in Nat
        BY <2>1, <2>4, <3>1, <3>2, WayDownIsShort, Elements DEF Backlog, WalkIsTyped
      <3> HIDE DEF most
      <3>4. Len(stack) <= Cardinality(keys) + most
        BY <2>2, <3>3
      <3>5. QED
        BY <3>4 DEF most
    <2>5. QED
      BY <2>3, <2>4
  <1>3. QED
    BY <1>1, <1>2, Runs, BacklogStays, PTL DEF Spec

(* The promise of CacheCall is that of the module itself.                  *)
LEMMA SamePromise ==
    \A g, ks, dirty, dir : Abstract!Promise(g, ks, dirty, dir) = Promise(g, ks, dirty, dir)
  <1>1. /\ Abstract!Ids = Ids /\ Abstract!Directions = Directions
        /\ \A dir : Abstract!Opposite(dir) = Opposite(dir)
    BY DEF Abstract!Ids, Ids, Abstract!Directions, Directions, Abstract!Opposite, Opposite
  <1>2. \A next, i : Abstract!Reach(next, i) = Reach(next, i)
    <2>1. \A next : Abstract!Closed(next) = Closed(next)
      BY <1>1 DEF Abstract!Closed, Closed
    <2>2. QED
      BY <1>1, <2>1 DEF Abstract!Reach, Reach
  <1>3. \A g, i : Abstract!Scc(g, i) = Scc(g, i)
    BY <1>2 DEF Abstract!Scc, Scc
  <1>4. \A g, dir : Abstract!Asserted(g, dir) = Asserted(g, dir)
    BY <1>1 DEF Abstract!Asserted, Asserted
  <1>5. \A g, dirty : Abstract!Touched(g, dirty) = Touched(g, dirty)
    BY <1>1, <1>2 DEF Abstract!Touched, Touched
  <1>6. \A g, ks, dirty, dir : Abstract!Exact(g, ks, dirty, dir) = Exact(g, ks, dirty, dir)
    BY <1>2, <1>3, <1>5 DEF Abstract!Exact, Exact
  <1>7. \A g, ks : Abstract!Symmetric(g, ks) <=> Symmetric(g, ks)
    BY <1>1 DEF Abstract!Symmetric, Symmetric
  <1>8. ASSUME NEW g, NEW ks, NEW dirty, NEW dir
        PROVE  Abstract!Promise(g, ks, dirty, dir) = Promise(g, ks, dirty, dir)
    <2> DEFINE A == {[id |-> i, least |-> Abstract!Scc(g, i),
                      most |-> Abstract!Reach(Abstract!Asserted(g, dir), i)] : i \in ks}
               B == {[id |-> i, least |-> Scc(g, i), most |-> Reach(Asserted(g, dir), i)] : i \in ks}
    <2>1. A = B
      BY <1>2, <1>3, <1>4
    <2>2. /\ Abstract!Promise(g, ks, dirty, dir) =
               IF Abstract!Symmetric(g, ks) THEN {Abstract!Exact(g, ks, dirty, dir)}
               ELSE {f \in [ks -> SUBSET Abstract!Ids] :
                       \A b \in A : b.least \subseteq f[b.id] /\ f[b.id] \subseteq b.most}
          /\ Promise(g, ks, dirty, dir) =
               IF Symmetric(g, ks) THEN {Exact(g, ks, dirty, dir)}
               ELSE {f \in [ks -> SUBSET Ids] :
                       \A b \in B : b.least \subseteq f[b.id] /\ f[b.id] \subseteq b.most}
      BY DEF Abstract!Promise, Promise
    <2> HIDE DEF A, B
    <2>3. QED
      BY <1>1, <1>6, <1>7, <2>1, <2>2
  <1>9. QED
    BY <1>8

(* The two algorithms implement the one step that the server's model takes *)
(* for them: they return what CachePromise allows, and show nothing before.*)
THEOREM KeepsThePromise == Spec => ImplementsCacheCall
  <1>1. Init => Abstract!Init
    BY DEF Init, Abstract!Init, Done, Abstract!NoResult, Nothing
  <1>2. RunInvariant /\ [Next]_vars => [Abstract!Call \/ Abstract!Return]_(Abstract!vars)
    <2> SUFFICES ASSUME RunInvariant, [Next]_vars
                 PROVE  Abstract!Call \/ Abstract!Return \/ UNCHANGED Abstract!vars
      OBVIOUS
    <2>1. CASE FindCycles
      <3>1. direction = "both" /\ direction' = "both"
            /\ UNCHANGED <<graph, keys, uncachedNodes, direction>>
        BY <2>1 DEF FindCycles, walkVars, input
      <3>2. Done = FALSE /\ Done' = FALSE
        BY <3>1 DEF Done
      <3>3. QED
        BY <3>1, <3>2 DEF Abstract!vars, Nothing
    <2>2. CASE BindCycles
      <3>1. direction = "both" /\ direction' \in Directions
            /\ UNCHANGED <<graph, keys, uncachedNodes>>
            /\ nodesToProcess' = uncachedNodes /\ uncachedNodes # {}
        BY <2>2, BindRuns DEF BindCycles, RunInvariant, RowsRead
      <3>2. Done = FALSE /\ Done' = FALSE
        BY <3>1 DEF Done, Finished
      <3>3. Abstract!Call
        BY <3>1, <3>2 DEF Abstract!Call, Abstract!Directions, Directions, Nothing
      <3>4. QED
        BY <3>3
    <2>3. CASE BuildCache
      <3>1. RunInvariant' /\ UNCHANGED <<graph, keys, uncachedNodes, direction>>
            /\ direction # "both"
        BY <2>3, WalkRuns
      <3>2. ~Done
        BY <2>3 DEF BuildCache, Walk, StartNode, DropCached, FinishNode, MergeTodo, DescendTodo,
                    Done, Finished
      <3>3. CASE Done'
        <4>1. cache' \in Promise(graph', keys', uncachedNodes', direction')
          BY <3>1, <3>3, PromiseIsKeptNext
        <4>2. cache' \in Abstract!Promise(graph, keys, uncachedNodes, direction)
          BY <3>1, <4>1, SamePromise
        <4>3. Abstract!Return
          BY <3>1, <3>2, <3>3, <4>2 DEF Abstract!Return
        <4>4. QED
          BY <4>3
      <3>4. CASE ~Done'
        <4>1. Done = FALSE /\ Done' = FALSE
          BY <3>2, <3>4 DEF Done
        <4>2. QED
          BY <3>1, <4>1 DEF Abstract!vars, Nothing
      <3>5. QED
        BY <3>3, <3>4
    <2>4. CASE UNCHANGED vars
      BY <2>4 DEF vars, walkVars, input, Abstract!vars, Done, Finished
    <2>5. QED
      BY <2>1, <2>2, <2>3, <2>4 DEF Next
  <1>3. QED
    BY <1>1, <1>2, Runs, PTL DEF Spec, ImplementsCacheCall, Abstract!Spec
=============================================================================
