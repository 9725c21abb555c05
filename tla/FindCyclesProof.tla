-------------------------- MODULE FindCyclesProof ---------------------------
(***************************************************************************)
(* Proofs about FindCycles, for every graph: Tarjan's search closes whole  *)
(* components, and gives two nodes the same link exactly if they are in a  *)
(* common cycle.                                                           *)
(***************************************************************************)
EXTENDS FindCycles, FiniteSetTheorems, SequenceTheorems,
        WellFoundedInduction, TLAPS

(* The children of a node are nodes.                                       *)
InputOK ==
    /\ numOfNodes \in Nat /\ Keys \subseteq Ids
    /\ children \in Adjacency /\ \A i \in Keys : children[i] \subseteq Keys

-----------------------------------------------------------------------------
(* The inductive invariant.  A visited node is open while it is on the     *)
(* stack, and then closed.  An open node that has a frame is being         *)
(* searched, and the children that are not left in the frame are explored; *)
(* of all other visited nodes every child is.                              *)
IsClosed(i) == Visited(i) /\ ~InStack(i)
Explored(i, c) ==
    /\ c \in children[i]
    /\ \A p \in DOMAIN frames : frames[p].id = i => c \notin frames[p].left

NumbersInOrder ==
    /\ currentTarjanID = Cardinality({i \in Keys : Visited(i)})
    /\ \A i \in Keys : nodeToTarjanID[i] <= currentTarjanID
    /\ \A i, j \in Keys : Visited(i) /\ nodeToTarjanID[i] = nodeToTarjanID[j] => i = j
    /\ \A i \in Keys : i < nextRoot => Visited(i)

StackInOrder ==
    /\ \A p \in DOMAIN stack : Visited(stack[p])
    /\ \A p, q \in DOMAIN stack : p < q => nodeToTarjanID[stack[p]] < nodeToTarjanID[stack[q]]

FramesInOrder ==
    /\ \A p \in DOMAIN frames :
          InStack(frames[p].id) /\ frames[p].left \subseteq children[frames[p].id]
    /\ \A p, q \in DOMAIN frames :
          p < q => nodeToTarjanID[frames[p].id] < nodeToTarjanID[frames[q].id]

ExploredAreVisited ==
    \A i \in Keys : Visited(i) => \A c \in Keys : Explored(i, c) => Visited(c)

(* A node that is being searched reaches all open nodes that came after it,*)
(* and every open node reaches one that is being searched and came before. *)
FramesReachUp ==
    \A p \in DOMAIN frames : \A i \in Keys :
        InStack(i) /\ nodeToTarjanID[frames[p].id] <= nodeToTarjanID[i] =>
            i \in Reach(children, frames[p].id)
OpenReachDown ==
    \A i \in Keys : InStack(i) =>
        \E p \in DOMAIN frames : /\ nodeToTarjanID[frames[p].id] <= nodeToTarjanID[i]
                                 /\ frames[p].id \in Reach(children, i)

(* The link of an open node is the number of an open node that it reaches, *)
(* and that of a frame is no greater than what the explored children of the*)
(* nodes from it up to the next frame have for numbers.                    *)
LinksAreReached ==
    \A i \in Keys : InStack(i) =>
        /\ lowLink[i] <= nodeToTarjanID[i]
        /\ \E j \in Keys : InStack(j) /\ j \in Reach(children, i) /\ lowLink[i] = nodeToTarjanID[j]
Above(p, i) ==
    /\ InStack(i) /\ nodeToTarjanID[frames[p].id] <= nodeToTarjanID[i]
    /\ \A q \in DOMAIN frames : p < q => nodeToTarjanID[i] < nodeToTarjanID[frames[q].id]
LinksAreLeast ==
    \A p \in DOMAIN frames : \A i, c \in Keys :
        Above(p, i) /\ Explored(i, c) /\ InStack(c) =>
            lowLink[frames[p].id] <= nodeToTarjanID[c]

(* No child of a closed node is open, and the links of closed nodes name a *)
(* node of their component.                                                *)
ClosedAreLinked ==
    \A i \in Keys : IsClosed(i) =>
        /\ \A c \in children[i] : IsClosed(c)
        /\ \A j \in SccOf(i) : lowLink[j] = lowLink[i]
        /\ \E j \in SccOf(i) : IsClosed(j) /\ lowLink[i] = nodeToTarjanID[j]

SearchInvariant ==
    /\ InputOK /\ TypeOK
    /\ NumbersInOrder /\ StackInOrder /\ FramesInOrder /\ ExploredAreVisited
    /\ FramesReachUp /\ OpenReachDown /\ LinksAreReached /\ LinksAreLeast
    /\ ClosedAreLinked

-----------------------------------------------------------------------------
(* Nodes reach themselves, the next of what they reach, and what that      *)
(* reaches; what is closed under next and holds a node holds what it       *)
(* reaches.                                                                *)
LEMMA ReachFacts ==
    ASSUME NEW next \in Adjacency
    PROVE  /\ \A i \in Ids : i \in Reach(next, i) /\ Reach(next, i) \subseteq Ids
           /\ \A i \in Ids : \A j \in Reach(next, i) : next[j] \subseteq Reach(next, i)
           /\ \A i, j, k \in Ids : j \in Reach(next, i) /\ k \in Reach(next, j) =>
                k \in Reach(next, i)
           /\ \A i \in Ids : \A S \in SUBSET Ids :
                i \in S /\ (\A j \in S : next[j] \subseteq S) => Reach(next, i) \subseteq S
  <1>1. ASSUME NEW i \in Ids PROVE i \in Reach(next, i) /\ Reach(next, i) \subseteq Ids
    BY DEF Reach
  <1>2. ASSUME NEW i \in Ids, NEW j \in Reach(next, i), NEW k \in next[j]
        PROVE  k \in Reach(next, i)
    BY <1>2 DEF Reach, Closed, Adjacency
  <1>3. ASSUME NEW i \in Ids, NEW S \in SUBSET Ids, i \in S, \A j \in S : next[j] \subseteq S
        PROVE  Reach(next, i) \subseteq S
    BY <1>3 DEF Reach, Closed
  <1>4. ASSUME NEW i \in Ids, NEW j \in Ids, NEW k \in Ids,
               j \in Reach(next, i), k \in Reach(next, j)
        PROVE  k \in Reach(next, i)
    <2>1. \A l \in Reach(next, i) : next[l] \subseteq Reach(next, i)
      BY <1>2
    <2>2. Reach(next, j) \subseteq Reach(next, i)
      BY <1>1, <1>3, <1>4, <2>1
    <2>3. QED
      BY <1>4, <2>2
  <1>5. QED
    BY <1>1, <1>2, <1>3, <1>4

(* Components are those of mutual reach.                                   *)
LEMMA SccFacts ==
    ASSUME InputOK, NEW i \in Keys
    PROVE  /\ SccOf(i) \subseteq Keys /\ i \in SccOf(i)
           /\ \A j \in Keys : j \in SccOf(i) <=>
                                j \in Reach(children, i) /\ i \in Reach(children, j)
           /\ \A j, k \in Keys : j \in SccOf(i) /\ k \in SccOf(j) => k \in SccOf(i)
           /\ \A j \in SccOf(i) : i \in SccOf(j)
  <1>1. children \in Adjacency /\ Keys \subseteq Ids /\ Keys \in SUBSET Ids
    BY DEF InputOK
  <1>2. Reach(children, i) \subseteq Keys
    BY <1>1, ReachFacts DEF InputOK
  <1>3. \A k : SccOf(k) = {j \in Reach(children, k) : k \in Reach(children, j)}
    BY DEF SccOf, Scc
  <1>4. i \in Reach(children, i)
    BY <1>1, ReachFacts
  <1>5. \A j, k \in Keys : j \in SccOf(i) /\ k \in SccOf(j) => k \in SccOf(i)
    BY <1>1, <1>3, ReachFacts
  <1>6. QED
    BY <1>2, <1>3, <1>4, <1>5

(* The elements of a sequence, of one that is longer by an element, of one *)
(* whose last element is replaced, and of one that is cut off.             *)
LEMMA Elements ==
    ASSUME NEW S, NEW s \in Seq(S)
    PROVE  /\ Len(s) \in Nat /\ DOMAIN s = 1..Len(s) /\ \A p \in DOMAIN s : s[p] \in S
           /\ s # <<>> => /\ Len(s) \in DOMAIN s /\ Last(s) = s[Len(s)] /\ Last(s) \in S
                          /\ \A p \in DOMAIN s : p = Len(s) \/ p < Len(s)
           /\ s = <<>> <=> Len(s) = 0
  BY DEF Last

(* An element more at the end.                                             *)
LEMMA Appended ==
    ASSUME NEW S, NEW s \in Seq(S), NEW e \in S
    PROVE  /\ Append(s, e) \in Seq(S) /\ Len(Append(s, e)) = Len(s) + 1
           /\ DOMAIN Append(s, e) = 1..(Len(s) + 1)
           /\ Append(s, e)[Len(s) + 1] = e
           /\ \A p \in DOMAIN s : /\ p \in DOMAIN Append(s, e) /\ Append(s, e)[p] = s[p]
                                  /\ p < Len(s) + 1
           /\ \A p \in DOMAIN Append(s, e) : p \in DOMAIN s \/ p = Len(s) + 1
           /\ Len(s) + 1 \in DOMAIN Append(s, e)
  OBVIOUS

(* What a closed node reaches is closed.                                   *)
LEMMA ClosedReachClosed ==
    ASSUME InputOK, ClosedAreLinked, NEW i \in Keys, IsClosed(i)
    PROVE  \A j \in Reach(children, i) : j \in Keys /\ IsClosed(j)
  <1> DEFINE S == {j \in Keys : IsClosed(j)}
  <1>1. children \in Adjacency /\ S \in SUBSET Ids /\ i \in S /\ i \in Ids
    BY DEF InputOK
  <1>2. \A j \in S : children[j] \subseteq S
    BY DEF InputOK, ClosedAreLinked
  <1>3. Reach(children, i) \subseteq S
    BY <1>1, <1>2, ReachFacts
  <1>4. QED
    BY <1>3

(* What the invariant says of the types, the open nodes and the frames.    *)
LEMMA StateFacts ==
    ASSUME SearchInvariant
    PROVE  /\ numOfNodes \in Nat /\ currentTarjanID \in Nat /\ nextRoot \in Nat
           /\ children \in Adjacency /\ Keys \subseteq Ids
           /\ \A i \in Keys : children[i] \subseteq Keys
           /\ stack \in Seq(Keys) /\ frames \in Seq([id : Keys, left : SUBSET Keys])
           /\ nodeToTarjanID \in [Keys -> Nat] /\ lowLink \in [Keys -> Nat]
           /\ \A i \in Keys : InStack(i) => Visited(i)
           /\ \A p \in DOMAIN frames : /\ frames[p].id \in Keys /\ InStack(frames[p].id)
                                        /\ Visited(frames[p].id)
                                        /\ frames[p].left \subseteq children[frames[p].id]
  <1>1. TypeOK /\ InputOK
    BY DEF SearchInvariant
  <1>2. /\ numOfNodes \in Nat /\ children \in Adjacency /\ Keys \subseteq Ids
        /\ \A i \in Keys : children[i] \subseteq Keys
    BY <1>1 DEF InputOK
  <1>3. /\ stack \in Seq(Keys) /\ frames \in Seq([id : Keys, left : SUBSET Keys])
        /\ currentTarjanID \in Nat /\ nextRoot \in Nat
    BY <1>1, <1>2 DEF TypeOK
  <1>4. nodeToTarjanID \in [Keys -> Nat] /\ lowLink \in [Keys -> Nat]
    <2>1. 0..numOfNodes \subseteq Nat
      BY <1>2
    <2>2. nodeToTarjanID \in [Keys -> 0..numOfNodes] /\ lowLink \in [Keys -> 0..numOfNodes]
      BY <1>1 DEF TypeOK
    <2> HIDE DEF Keys
    <2>3. QED
      BY <2>1, <2>2
  <1>5. \A i \in Keys : InStack(i) => Visited(i)
    BY DEF SearchInvariant, StackInOrder, InStack, ToSet
  <1>6. ASSUME NEW p \in DOMAIN frames
        PROVE  /\ frames[p].id \in Keys /\ InStack(frames[p].id)
               /\ frames[p].left \subseteq children[frames[p].id]
    <2>1. frames[p] \in [id : Keys, left : SUBSET Keys]
      BY <1>3, Elements
    <2>2. QED
      BY <2>1 DEF SearchInvariant, FramesInOrder
  <1>7. QED
    BY <1>2, <1>3, <1>4, <1>5, <1>6

(* Entering a node that was not visited: a root, or a child of the node    *)
(* that is searched.                                                       *)
LEMMA EnterKeeps ==
    ASSUME SearchInvariant, NEW i \in Keys, ~Visited(i), Enter(i, frames), UNCHANGED input,
           frames # <<>> => i \in children[Top.id],
           nextRoot' \in 1..(numOfNodes + 1),
           \A k \in Keys : k < nextRoot' => Visited(k) \/ k = i
    PROVE  SearchInvariant'
  <1>1. /\ currentTarjanID' = currentTarjanID + 1 /\ stack' = Append(stack, i)
        /\ nodeToTarjanID' = [nodeToTarjanID EXCEPT ![i] = currentTarjanID + 1]
        /\ lowLink' = [lowLink EXCEPT ![i] = currentTarjanID + 1]
        /\ frames' = Append(frames, [id |-> i, left |-> children[i]])
        /\ children' = children /\ numOfNodes' = numOfNodes /\ Keys' = Keys
    BY DEF Enter, input, Keys
  <1>2. /\ numOfNodes \in Nat /\ currentTarjanID \in Nat /\ children[i] \subseteq Keys
        /\ stack \in Seq(Keys) /\ frames \in Seq([id : Keys, left : SUBSET Keys])
        /\ nodeToTarjanID \in [Keys -> Nat] /\ lowLink \in [Keys -> Nat]
    BY StateFacts
  <1>3. InputOK'
    BY <1>1 DEF InputOK, SearchInvariant
  <1>4. /\ stack' \in Seq(Keys) /\ Len(stack') = Len(stack) + 1 /\ stack'[Len(stack) + 1] = i
        /\ \A p \in DOMAIN stack : p \in DOMAIN stack' /\ stack'[p] = stack[p]
        /\ \A p \in DOMAIN stack' : p \in DOMAIN stack \/ p = Len(stack) + 1
        /\ \A p \in DOMAIN stack : p < Len(stack) + 1
    BY <1>1, <1>2, Appended
  <1>5. /\ frames' \in Seq([id : Keys, left : SUBSET Keys]) /\ Len(frames') = Len(frames) + 1
        /\ frames'[Len(frames) + 1] = [id |-> i, left |-> children[i]]
        /\ frames'[Len(frames) + 1].id = i /\ frames'[Len(frames) + 1].left = children[i]
        /\ \A p \in DOMAIN frames : p \in DOMAIN frames' /\ frames'[p] = frames[p]
        /\ \A p \in DOMAIN frames' : p \in DOMAIN frames \/ p = Len(frames) + 1
        /\ \A p \in DOMAIN frames : p < Len(frames) + 1
        /\ Len(frames) + 1 \in DOMAIN frames'
    <2>1. [id |-> i, left |-> children[i]] \in [id : Keys, left : SUBSET Keys]
      BY <1>2
    <2>2. QED
      BY <1>1, <1>2, <2>1, Appended
  <1>6. /\ nodeToTarjanID'[i] = currentTarjanID + 1 /\ lowLink'[i] = currentTarjanID + 1
        /\ \A k \in Keys : k # i => nodeToTarjanID'[k] = nodeToTarjanID[k]
                                   /\ lowLink'[k] = lowLink[k]
        /\ \A k \in Keys : Visited(k)' <=> Visited(k) \/ k = i
        /\ \A k \in Keys : nodeToTarjanID[k] <= currentTarjanID
    BY <1>1, <1>2 DEF Visited, SearchInvariant, NumbersInOrder
  <1>7. \A k \in Keys : InStack(k)' <=> InStack(k) \/ k = i
    BY <1>4 DEF InStack, ToSet
  <1>8. \A k \in Keys : InStack(k) => Visited(k) /\ k # i
    BY StateFacts
  <1>9. \A p \in DOMAIN frames : /\ frames[p].id \in Keys /\ InStack(frames[p].id)
                                 /\ Visited(frames[p].id) /\ frames[p].id # i
    BY StateFacts
  <1>10. \A k, c \in Keys : k # i => (Explored(k, c)' <=> Explored(k, c))
    BY <1>1, <1>5 DEF Explored
  <1>11. \A c \in Keys : ~Explored(i, c)'
    BY <1>1, <1>5 DEF Explored
  <1>12. \A k \in Keys : IsClosed(k)' <=> IsClosed(k)
    BY <1>6, <1>7, <1>8 DEF IsClosed
  <1>13. NumbersInOrder' /\ currentTarjanID + 1 <= numOfNodes
    <2> DEFINE V == {k \in Keys : Visited(k)}
    <2>1. V' = V \cup {i} /\ i \notin V
      BY <1>1, <1>6
    <2>2. IsFiniteSet(Keys) /\ Cardinality(Keys) = numOfNodes
      BY <1>2, FS_Interval DEF Keys
    <2>3. IsFiniteSet(V)
      BY <2>2, FS_Subset
    <2>4. Cardinality(V) = currentTarjanID
      BY DEF SearchInvariant, NumbersInOrder
    <2>5. Cardinality(V \cup {i}) = currentTarjanID + 1
      BY <2>1, <2>3, <2>4, FS_AddElement
    <2>6. currentTarjanID + 1 <= numOfNodes
      BY <2>1, <2>2, <2>5, FS_Subset
    <2>7. currentTarjanID' = Cardinality(V')
      BY <1>1, <2>1, <2>5
    <2>8. \A k \in Keys : nodeToTarjanID'[k] <= currentTarjanID'
      BY <1>1, <1>2, <1>6
    <2>9. ASSUME NEW k \in Keys, NEW l \in Keys, Visited(k)',
                 nodeToTarjanID'[k] = nodeToTarjanID'[l]
          PROVE  k = l
      <3>1. \A j \in Keys : nodeToTarjanID[j] \in Nat /\ nodeToTarjanID[j] # currentTarjanID + 1
        BY <1>2, <1>6
      <3>2. (k = i) <=> (l = i)
        BY <1>6, <2>9, <3>1
      <3>3. QED
        BY <1>6, <2>9, <3>2 DEF SearchInvariant, NumbersInOrder
    <2>10. \A k \in Keys : k < nextRoot' => Visited(k)'
      BY <1>6
    <2>11. NumbersInOrder'
      BY <1>1, <2>7, <2>8, <2>9, <2>10 DEF NumbersInOrder
    <2>12. QED
      BY <2>6, <2>11
  <1>14. TypeOK'
    <2>1. nodeToTarjanID' \in [Keys -> 0..numOfNodes] /\ lowLink' \in [Keys -> 0..numOfNodes]
      <3>1. /\ currentTarjanID + 1 \in 0..numOfNodes
            /\ nodeToTarjanID \in [Keys -> 0..numOfNodes] /\ lowLink \in [Keys -> 0..numOfNodes]
        BY <1>2, <1>13 DEF SearchInvariant, TypeOK
      <3> HIDE DEF Keys
      <3>2. QED
        BY <1>1, <3>1
    <2>2. QED
      BY <1>1, <1>2, <1>4, <1>5, <1>13, <2>1 DEF TypeOK
  <1>15. StackInOrder'
    <2>1. \A p \in DOMAIN stack : /\ stack[p] \in Keys /\ InStack(stack[p])
                                  /\ nodeToTarjanID'[stack[p]] = nodeToTarjanID[stack[p]]
                                  /\ nodeToTarjanID[stack[p]] < currentTarjanID + 1
                                  /\ nodeToTarjanID'[stack[p]] # 0
      <3> SUFFICES ASSUME NEW p \in DOMAIN stack
                   PROVE  /\ stack[p] \in Keys /\ InStack(stack[p])
                          /\ nodeToTarjanID'[stack[p]] = nodeToTarjanID[stack[p]]
                          /\ nodeToTarjanID[stack[p]] < currentTarjanID + 1
                          /\ nodeToTarjanID'[stack[p]] # 0
        OBVIOUS
      <3>1. stack[p] \in Keys /\ InStack(stack[p])
        BY <1>2, Elements DEF InStack, ToSet
      <3>2. nodeToTarjanID'[stack[p]] = nodeToTarjanID[stack[p]] /\ Visited(stack[p])
        BY <1>6, <1>8, <3>1
      <3>3. nodeToTarjanID[stack[p]] < currentTarjanID + 1
        BY <1>2, <1>6, <3>1
      <3>4. QED
        BY <3>1, <3>2, <3>3 DEF Visited
    <2>2. \A p, q \in DOMAIN stack : p < q =>
            nodeToTarjanID[stack[p]] < nodeToTarjanID[stack[q]]
      BY DEF SearchInvariant, StackInOrder
    <2>3. \A p \in DOMAIN stack : ~(Len(stack) + 1 < p)
      BY <1>2, <1>4, Elements
    <2>4. ~(Len(stack) + 1 < Len(stack) + 1)
      BY <1>2, Elements
    <2>5. currentTarjanID + 1 # 0
      BY <1>2
    <2>6. \A p \in DOMAIN stack' : nodeToTarjanID'[stack'[p]] # 0
      BY <1>4, <1>6, <2>1, <2>5
    <2>7. \A p, q \in DOMAIN stack' : p < q =>
            nodeToTarjanID'[stack'[p]] < nodeToTarjanID'[stack'[q]]
      BY <1>4, <1>6, <2>1, <2>2, <2>3, <2>4
    <2>8. QED
      BY <2>6, <2>7 DEF StackInOrder, Visited
  <1>16. FramesInOrder' /\ ExploredAreVisited'
    <2>1. FramesInOrder'
      <3>1. \A p \in DOMAIN frames :
               /\ frames[p].left \subseteq children[frames[p].id]
               /\ nodeToTarjanID'[frames[p].id] = nodeToTarjanID[frames[p].id]
               /\ nodeToTarjanID[frames[p].id] < currentTarjanID + 1
        <4> SUFFICES ASSUME NEW p \in DOMAIN frames
                     PROVE  /\ frames[p].left \subseteq children[frames[p].id]
                            /\ nodeToTarjanID'[frames[p].id] = nodeToTarjanID[frames[p].id]
                            /\ nodeToTarjanID[frames[p].id] < currentTarjanID + 1
          OBVIOUS
        <4>1. frames[p].left \subseteq children[frames[p].id]
          BY DEF SearchInvariant, FramesInOrder
        <4>2. /\ frames[p].id \in Keys /\ frames[p].id # i
              /\ nodeToTarjanID[frames[p].id] \in Nat
              /\ nodeToTarjanID[frames[p].id] <= currentTarjanID
          BY <1>2, <1>6, <1>9
        <4>3. QED
          BY <1>2, <1>6, <4>1, <4>2
      <3>2. \A p, q \in DOMAIN frames : p < q =>
              nodeToTarjanID[frames[p].id] < nodeToTarjanID[frames[q].id]
        BY DEF SearchInvariant, FramesInOrder
      <3>3. \A p \in DOMAIN frames : ~(Len(frames) + 1 < p)
        <4>1. Len(frames) \in Nat /\ \A p \in DOMAIN frames : p \in 1..Len(frames)
          BY <1>2, Elements
        <4>2. QED
          BY <4>1
      <3>4. ~(Len(frames) + 1 < Len(frames) + 1)
        BY <1>2, Elements
      <3>5. (\A p \in DOMAIN frames : InStack(frames[p].id)
                                     /\ frames[p].left \subseteq children[frames[p].id])'
        BY <1>1, <1>5, <1>7, <1>9, <3>1
      <3>6. ASSUME NEW p \in DOMAIN frames', NEW q \in DOMAIN frames', p < q
            PROVE  nodeToTarjanID'[frames'[p].id] < nodeToTarjanID'[frames'[q].id]
        <4>1. p \in DOMAIN frames
          BY <1>5, <3>3, <3>4, <3>6
        <4>2. CASE q \in DOMAIN frames
          BY <1>5, <3>1, <3>2, <3>6, <4>1, <4>2
        <4>3. CASE q = Len(frames) + 1
          BY <1>5, <1>6, <3>1, <4>1, <4>3
        <4>4. QED
          BY <1>5, <4>2, <4>3
      <3>7. QED
        BY <3>5, <3>6 DEF FramesInOrder
    <2>2. ExploredAreVisited'
      BY <1>1, <1>6, <1>10, <1>11 DEF SearchInvariant, ExploredAreVisited
    <2>3. QED
      BY <2>1, <2>2
  <1>17. FramesReachUp'
    <2>1. \A p \in DOMAIN frames : i \in Reach(children, frames[p].id)
      <3> SUFFICES ASSUME NEW p \in DOMAIN frames PROVE i \in Reach(children, frames[p].id)
        OBVIOUS
      <3>1. /\ frames # <<>> /\ Len(frames) \in DOMAIN frames /\ Top = frames[Len(frames)]
            /\ p = Len(frames) \/ p < Len(frames)
        BY <1>2, Elements DEF Top
      <3>2. nodeToTarjanID[frames[p].id] <= nodeToTarjanID[Top.id]
        <4>1. nodeToTarjanID[frames[p].id] \in Nat /\ nodeToTarjanID[Top.id] \in Nat
          BY <1>2, <1>9, <3>1
        <4>2. p < Len(frames) => nodeToTarjanID[frames[p].id] < nodeToTarjanID[Top.id]
          BY <3>1 DEF SearchInvariant, FramesInOrder
        <4>3. QED
          BY <3>1, <4>1, <4>2
      <3>3. Top.id \in Reach(children, frames[p].id)
        BY <1>9, <3>1, <3>2 DEF SearchInvariant, FramesReachUp
      <3>4. QED
        BY <1>9, <3>1, <3>3, ReachFacts, StateFacts
    <2>2. i \in Reach(children, i)
      BY ReachFacts, StateFacts
    <2> SUFFICES ASSUME NEW p \in DOMAIN frames', NEW k \in Keys, InStack(k)',
                        nodeToTarjanID'[frames'[p].id] <= nodeToTarjanID'[k]
                 PROVE  k \in Reach(children, frames'[p].id)
      BY <1>1 DEF FramesReachUp
    <2>3. CASE p \in DOMAIN frames /\ k = i
      BY <1>5, <2>1, <2>3
    <2>4. CASE p \in DOMAIN frames /\ k # i
      <3>1. /\ frames'[p].id = frames[p].id /\ frames[p].id # i /\ frames[p].id \in Keys
            /\ InStack(k)
        BY <1>5, <1>7, <1>9, <2>4
      <3>2. nodeToTarjanID[frames[p].id] <= nodeToTarjanID[k]
        BY <1>6, <2>4, <3>1
      <3>3. QED
        BY <2>4, <3>1, <3>2 DEF SearchInvariant, FramesReachUp
    <2>5. CASE p = Len(frames) + 1
      <3>1. k # i => nodeToTarjanID'[k] <= currentTarjanID /\ nodeToTarjanID'[k] \in Nat
        BY <1>2, <1>6
      <3>2. frames'[p].id = i /\ currentTarjanID + 1 <= nodeToTarjanID'[k]
        BY <1>5, <1>6, <2>5
      <3>3. k = i
        BY <1>2, <3>1, <3>2
      <3>4. QED
        BY <2>2, <3>2, <3>3
    <2>6. QED
      BY <1>5, <2>3, <2>4, <2>5
  <1>18. OpenReachDown' /\ LinksAreReached'
    <2>1. i \in Reach(children, i)
      BY ReachFacts, StateFacts
    <2>2. OpenReachDown'
      <3> SUFFICES ASSUME NEW k \in Keys, InStack(k)'
                   PROVE  \E p \in DOMAIN frames' :
                             /\ nodeToTarjanID'[frames'[p].id] <= nodeToTarjanID'[k]
                             /\ frames'[p].id \in Reach(children, k)
        BY <1>1 DEF OpenReachDown
      <3>1. CASE k = i
        <4>1. currentTarjanID + 1 <= currentTarjanID + 1
          BY <1>2
        <4>2. QED
          BY <1>5, <1>6, <2>1, <3>1, <4>1
      <3>2. CASE k # i
        <4>1. PICK p \in DOMAIN frames : /\ nodeToTarjanID[frames[p].id] <= nodeToTarjanID[k]
                                         /\ frames[p].id \in Reach(children, k)
          BY <1>7, <3>2 DEF SearchInvariant, OpenReachDown
        <4>2. QED
          BY <1>5, <1>6, <1>9, <3>2, <4>1
      <3>3. QED
        BY <3>1, <3>2
    <2>3. LinksAreReached'
      BY <1>1, <1>2, <1>6, <1>7, <1>8, <2>1 DEF SearchInvariant, LinksAreReached
    <2>4. QED
      BY <2>2, <2>3
  <1>19. LinksAreLeast' /\ ClosedAreLinked'
    <2>1. LinksAreLeast'
      <3> SUFFICES ASSUME NEW p \in DOMAIN frames', NEW k \in Keys, NEW c \in Keys,
                          Above(p, k)', Explored(k, c)', InStack(c)'
                   PROVE  lowLink'[frames'[p].id] <= nodeToTarjanID'[c]
        BY <1>1 DEF LinksAreLeast
      <3>1. k # i /\ Explored(k, c) /\ InStack(k)
        BY <1>7, <1>10, <1>11 DEF Above
      <3>2. c # i /\ InStack(c)
        BY <1>7, <1>8, <3>1 DEF SearchInvariant, ExploredAreVisited
      <3>3. p # Len(frames) + 1
        <4>1. nodeToTarjanID'[k] \in Nat /\ ~(currentTarjanID + 1 <= nodeToTarjanID'[k])
          BY <1>2, <1>6, <3>1
        <4>2. QED
          BY <1>5, <1>6, <4>1 DEF Above
      <3>4. p \in DOMAIN frames /\ Above(p, k)
        BY <1>5, <1>6, <1>9, <3>1, <3>3 DEF Above
      <3>5. QED
        BY <1>5, <1>6, <1>9, <3>1, <3>2, <3>4 DEF SearchInvariant, LinksAreLeast
    <2>2. ClosedAreLinked'
      <3> SUFFICES ASSUME NEW k \in Keys, IsClosed(k)
                   PROVE  /\ \A c \in children[k] : IsClosed(c)'
                          /\ \A j \in SccOf(k) : lowLink'[j] = lowLink'[k]
                          /\ \E j \in SccOf(k) : /\ IsClosed(j)'
                                                 /\ lowLink'[k] = nodeToTarjanID'[j]
        BY <1>1, <1>12 DEF ClosedAreLinked, SccOf
      <3>1. \A j \in SccOf(k) : j \in Keys /\ IsClosed(j)
        BY ClosedReachClosed, SccFacts DEF SearchInvariant
      <3>2. QED
        BY <1>2, <1>6, <1>8, <1>12, <3>1, StateFacts DEF SearchInvariant, ClosedAreLinked, IsClosed
    <2>3. QED
      BY <2>1, <2>2
  <1>20. QED
    BY <1>3, <1>13, <1>14, <1>15, <1>16, <1>17, <1>18, <1>19 DEF SearchInvariant

-----------------------------------------------------------------------------
(* A finite set of numbers that is not empty has a least.  (Of the sets of *)
(* those members that are at most x, for the members x, take a minimal     *)
(* one: it holds its x alone.)                                             *)
LEMMA LeastIsLeast ==
    ASSUME NEW S \in SUBSET Nat, IsFiniteSet(S), S # {}
    PROVE  \E x \in S : \A y \in S : x <= y
  <1> DEFINE below(x) == {y \in S : y <= x}
             T == {below(x) : x \in S}
  <1>1. T \subseteq FiniteSubsetsOf(S) /\ T # {}
    <2>1. FiniteSubsetsOf(S) = SUBSET S
      BY FS_FiniteSubsetsOfFinite
    <2>2. T \subseteq SUBSET S /\ T # {}
      OBVIOUS
    <2>3. QED
      BY <2>1, <2>2
  <1>2. PICK A \in T : \A B \in T : ~(<<B, A>> \in StrictSubsetOrdering(S))
    <2> HIDE DEF T
    <2> QED
      BY <1>1, FS_StrictSubsetOrderingWellFounded, WFMin
  <1>3. PICK x \in S : A = below(x)
    OBVIOUS
  <1>4. ASSUME NEW y \in S, y < x PROVE FALSE
    <2>1. x \in Nat /\ y \in Nat
      BY <1>3, <1>4
    <2>2. below(y) \subseteq A /\ x \in A /\ x \notin below(y)
      <3>1. ASSUME NEW z \in below(y) PROVE z \in below(x)
        <4>1. z \in S /\ z \in Nat /\ z <= y
          BY <3>1
        <4>2. QED
          BY <1>4, <2>1, <4>1
      <3>2. x <= x /\ ~(x <= y)
        BY <1>4, <2>1
      <3>3. QED
        BY <1>3, <3>1, <3>2
    <2>3. below(y) \in T
      BY <1>4
    <2>4. <<below(y), A>> \in StrictSubsetOrdering(S)
      BY <2>2, <1>3 DEF StrictSubsetOrdering
    <2>5. QED
      BY <1>2, <2>3, <2>4
  <1>5. QED
    BY <1>4

(* A sequence of which only a beginning is left.                           *)
LEMMA CutOff ==
    ASSUME NEW S, NEW s \in Seq(S), NEW m \in 0..Len(s)
    PROVE  /\ SubSeq(s, 1, m) \in Seq(S) /\ Len(SubSeq(s, 1, m)) = m
           /\ DOMAIN SubSeq(s, 1, m) = 1..m
           /\ \A p \in 1..m : p \in DOMAIN s /\ SubSeq(s, 1, m)[p] = s[p]
  <1>1. Len(s) \in Nat /\ DOMAIN s = 1..Len(s) /\ \A p \in DOMAIN s : s[p] \in S
    BY Elements
  <1>2. m \in Int /\ m \in Nat /\ m <= Len(s) /\ 1..m \subseteq DOMAIN s /\ m - 1 + 1 = m
        /\ (IF 1 <= m THEN m - 1 + 1 ELSE 0) = m
    BY <1>1
  <1>3. \A p \in 1..m : s[p] \in S
    BY <1>1, <1>2
  <1> DEFINE t == SubSeq(s, 1, m)
  <1>4. t \in Seq(S) /\ Len(t) = m /\ \A p \in 1..m : t[p] = s[1 + p - 1]
    <2>1. 1 \in Int
      OBVIOUS
    <2>2. /\ t \in Seq(S) /\ Len(t) = (IF 1 <= m THEN m - 1 + 1 ELSE 0)
          /\ \A p \in 1..(m - 1 + 1) : t[p] = s[1 + p - 1]
      BY <1>2, <1>3, <2>1, SubSeqProperties
    <2>3. QED
      BY <1>2, <2>2
  <1>5. \A p \in 1..m : 1 + p - 1 = p
    OBVIOUS
  <1>6. DOMAIN t = 1..m
    BY <1>4, Elements
  <1>7. QED
    BY <1>2, <1>4, <1>5, <1>6

(* A sequence without its last element, ...                                *)
LEMMA Shortened ==
    ASSUME NEW S, NEW s \in Seq(S), s # <<>>
    PROVE  /\ Front(s) \in Seq(S) /\ Len(Front(s)) = Len(s) - 1
           /\ DOMAIN Front(s) = 1..(Len(s) - 1)
           /\ \A p \in DOMAIN Front(s) : p \in DOMAIN s /\ Front(s)[p] = s[p] /\ p # Len(s)
           /\ \A p \in DOMAIN s : p # Len(s) => p \in DOMAIN Front(s)
           /\ Front(s) = <<>> <=> Len(s) = 1
  <1> DEFINE n == Len(s)
  <1>1. n \in Nat /\ n # 0 /\ DOMAIN s = 1..n
    <2>1. n \in Nat /\ DOMAIN s = 1..n /\ (s = <<>> <=> n = 0)
      BY Elements
    <2>2. QED
      BY <2>1
  <1>2. n - 1 \in 0..n /\ n \notin 1..(n - 1)
        /\ (\A p \in 1..n : p # n => p \in 1..(n - 1)) /\ (n - 1 = 0 <=> n = 1)
    <2> HIDE DEF n
    <2> QED BY <1>1
  <1>3. /\ Front(s) \in Seq(S) /\ Len(Front(s)) = n - 1 /\ DOMAIN Front(s) = 1..(n - 1)
        /\ \A p \in 1..(n - 1) : p \in DOMAIN s /\ Front(s)[p] = s[p]
    <2> DEFINE m == n - 1
    <2>1. m \in 0..Len(s) /\ Front(s) = SubSeq(s, 1, m)
      BY <1>2 DEF Front
    <2> HIDE DEF m
    <2>2. /\ Front(s) \in Seq(S) /\ Len(Front(s)) = m /\ DOMAIN Front(s) = 1..m
          /\ \A p \in 1..m : p \in DOMAIN s /\ Front(s)[p] = s[p]
      BY <2>1, CutOff
    <2>3. QED
      BY <2>2 DEF m
  <1>4. Front(s) = <<>> <=> n - 1 = 0
    BY <1>3, Elements
  <1> HIDE DEF n
  <1>5. QED
    BY <1>1, <1>2, <1>3, <1>4 DEF n

(* ... and one whose last element is replaced.                             *)
LEMMA Replaced ==
    ASSUME NEW S, NEW s \in Seq(S), s # <<>>, NEW e \in S
    PROVE  /\ Append(Front(s), e) \in Seq(S) /\ Len(Append(Front(s), e)) = Len(s)
           /\ DOMAIN Append(Front(s), e) = DOMAIN s
           /\ Append(Front(s), e)[Len(s)] = e
           /\ \A p \in DOMAIN s : p # Len(s) => Append(Front(s), e)[p] = s[p]
  <1>1. /\ Front(s) \in Seq(S) /\ Len(Front(s)) = Len(s) - 1 /\ Len(s) \in Nat
        /\ \A p \in DOMAIN s : p # Len(s) => p \in DOMAIN Front(s) /\ Front(s)[p] = s[p]
        /\ DOMAIN s = 1..Len(s)
    BY Shortened, Elements
  <1>2. QED
    BY <1>1

-----------------------------------------------------------------------------
(* The frame on the top, and the child that it comes to next.              *)
LEMMA TopFacts ==
    ASSUME SearchInvariant, frames # <<>>
    PROVE  /\ Len(frames) \in DOMAIN frames /\ Top = frames[Len(frames)]
           /\ Top \in [id : Keys, left : SUBSET Keys] /\ Len(frames) \in Nat
           /\ Top.id \in Keys /\ InStack(Top.id) /\ Top.left \subseteq children[Top.id]
           /\ \A p \in DOMAIN frames : p = Len(frames) \/ p < Len(frames)
           /\ \A p \in DOMAIN frames : p # Len(frames) =>
                nodeToTarjanID[frames[p].id] < nodeToTarjanID[Top.id]
           /\ Top.left # {} => NextChild \in Top.left
  <1>1. frames \in Seq([id : Keys, left : SUBSET Keys]) /\ numOfNodes \in Nat
    BY StateFacts
  <1>2. /\ Len(frames) \in DOMAIN frames /\ Top = frames[Len(frames)]
        /\ Top \in [id : Keys, left : SUBSET Keys] /\ Len(frames) \in Nat
        /\ \A p \in DOMAIN frames : p = Len(frames) \/ p < Len(frames)
    BY <1>1, Elements DEF Top
  <1>3. Top.id \in Keys /\ InStack(Top.id) /\ Top.left \subseteq children[Top.id]
    BY <1>2, StateFacts
  <1>4. \A p \in DOMAIN frames : p # Len(frames) =>
            nodeToTarjanID[frames[p].id] < nodeToTarjanID[Top.id]
    BY <1>2 DEF SearchInvariant, FramesInOrder
  <1>5. ASSUME Top.left # {} PROVE NextChild \in Top.left
    <2>1. Top.left \in SUBSET Nat /\ Top.left \subseteq Keys
      BY <1>1, <1>2 DEF Keys
    <2>2. IsFiniteSet(Top.left)
      <3>1. IsFiniteSet(Keys)
        BY <1>1, FS_Interval DEF Keys
      <3> HIDE DEF Keys
      <3>2. QED
        BY <2>1, <3>1, FS_Subset
    <2>3. QED
      BY <1>5, <2>1, <2>2, LeastIsLeast DEF NextChild
  <1>6. QED
    BY <1>2, <1>3, <1>4, <1>5

(* The search starts in the invariant.                                     *)
LEMMA InitSearches == InputOK /\ Init => SearchInvariant
  <1> SUFFICES ASSUME InputOK, Init PROVE SearchInvariant
    OBVIOUS
  <1>1. /\ nextRoot = 1 /\ frames = <<>> /\ stack = <<>> /\ currentTarjanID = 0
        /\ nodeToTarjanID = [i \in Keys |-> 0] /\ lowLink = [i \in Keys |-> 0]
        /\ numOfNodes \in Nat
    BY DEF Init, InputOK
  <1>2. \A i \in Keys : ~Visited(i) /\ ~InStack(i)
    BY <1>1 DEF Visited, InStack, ToSet
  <1>3. TypeOK
    <2>1. 0 \in 0..numOfNodes /\ 1 \in 1..(numOfNodes + 1)
      BY <1>1
    <2> HIDE DEF Keys
    <2>2. QED
      BY <1>1, <2>1 DEF TypeOK
  <1>4. NumbersInOrder
    <2>1. {i \in Keys : Visited(i)} = {}
      BY <1>2
    <2>2. currentTarjanID = Cardinality({i \in Keys : Visited(i)})
      BY <1>1, <2>1, FS_EmptySet
    <2>3. \A i \in Keys : nodeToTarjanID[i] <= currentTarjanID
      BY <1>1
    <2>4. \A i \in Keys : ~(i < nextRoot)
      BY <1>1 DEF Keys
    <2>5. QED
      BY <1>2, <2>2, <2>3, <2>4 DEF NumbersInOrder
  <1>5. StackInOrder /\ FramesInOrder /\ FramesReachUp /\ LinksAreLeast
    BY <1>1 DEF StackInOrder, FramesInOrder, FramesReachUp, LinksAreLeast
  <1>6. ExploredAreVisited /\ OpenReachDown /\ LinksAreReached /\ ClosedAreLinked
    BY <1>2 DEF ExploredAreVisited, OpenReachDown, LinksAreReached, ClosedAreLinked, IsClosed
  <1>7. QED
    BY <1>3, <1>4, <1>5, <1>6 DEF SearchInvariant

(* The loop over the roots: a visited one is passed over.                  *)
LEMMA RootKeeps == SearchInvariant /\ NextRoot => SearchInvariant'
  <1> SUFFICES ASSUME SearchInvariant, NextRoot PROVE SearchInvariant'
    OBVIOUS
  <1>1. /\ numOfNodes \in Nat /\ nextRoot \in Nat /\ nextRoot <= numOfNodes
        /\ nextRoot' = nextRoot + 1 /\ nextRoot \in Keys /\ nextRoot' \in 1..(numOfNodes + 1)
        /\ \A k \in Keys : k < nextRoot' => k < nextRoot \/ k = nextRoot
    <2>1. nextRoot \in 1..(numOfNodes + 1) /\ numOfNodes \in Nat
      BY StateFacts DEF SearchInvariant, TypeOK
    <2>2. nextRoot <= numOfNodes /\ nextRoot' = nextRoot + 1
      BY DEF NextRoot
    <2>3. QED
      BY <2>1, <2>2 DEF Keys
  <1>2. \A k \in Keys : k < nextRoot => Visited(k)
    BY DEF SearchInvariant, NumbersInOrder
  <1>3. CASE ~Visited(nextRoot)
    <2>1. Enter(nextRoot, frames) /\ frames = <<>> /\ UNCHANGED input
      BY <1>3 DEF NextRoot
    <2>2. \A k \in Keys : k < nextRoot' => Visited(k) \/ k = nextRoot
      BY <1>1, <1>2
    <2>3. QED
      BY <1>1, <1>3, <2>1, <2>2, EnterKeeps
  <1>4. CASE Visited(nextRoot)
    <2>1. /\ UNCHANGED <<frames, stack, currentTarjanID, nodeToTarjanID, lowLink>>
          /\ children' = children /\ numOfNodes' = numOfNodes /\ Keys' = Keys
      BY <1>4 DEF NextRoot, input, Keys
    <2>2. \A k \in Keys : k < nextRoot' => Visited(k)
      BY <1>1, <1>2, <1>4
    <2>3. /\ \A k : Visited(k)' <=> Visited(k)
          /\ \A k : InStack(k)' <=> InStack(k)
          /\ \A k : IsClosed(k)' <=> IsClosed(k)
          /\ \A k, c : Explored(k, c)' <=> Explored(k, c)
          /\ \A p, k : Above(p, k)' <=> Above(p, k)
      BY <2>1 DEF Visited, InStack, IsClosed, Explored, Above
    <2>4. InputOK' /\ TypeOK'
      BY <1>1, <2>1 DEF SearchInvariant, InputOK, TypeOK
    <2>5. NumbersInOrder'
      <3>1. {i \in Keys : Visited(i)}' = {i \in Keys : Visited(i)}
        BY <2>1, <2>3
      <3>2. QED
        BY <2>1, <2>2, <2>3, <3>1 DEF SearchInvariant, NumbersInOrder
    <2>6. StackInOrder' /\ FramesInOrder' /\ ExploredAreVisited'
      BY <2>1, <2>3 DEF SearchInvariant, StackInOrder, FramesInOrder, ExploredAreVisited
    <2>7. FramesReachUp' /\ OpenReachDown'
      BY <2>1, <2>3 DEF SearchInvariant, FramesReachUp, OpenReachDown
    <2>8. LinksAreReached' /\ LinksAreLeast' /\ ClosedAreLinked'
      BY <2>1, <2>3 DEF SearchInvariant, LinksAreReached, LinksAreLeast, ClosedAreLinked, SccOf
    <2>9. QED
      BY <2>4, <2>5, <2>6, <2>7, <2>8 DEF SearchInvariant
  <1>5. QED
    BY <1>3, <1>4

(* A child that was not visited is searched first.                         *)
LEMMA ChildKeeps == SearchInvariant /\ SearchChild => SearchInvariant'
  <1> SUFFICES ASSUME SearchInvariant, SearchChild PROVE SearchInvariant'
    OBVIOUS
  <1>1. /\ frames # <<>> /\ Top.left # {} /\ ~Visited(NextChild)
        /\ Enter(NextChild, frames) /\ UNCHANGED input /\ nextRoot' = nextRoot
    BY DEF SearchChild
  <1>2. NextChild \in children[Top.id] /\ NextChild \in Keys
    BY <1>1, TopFacts, StateFacts
  <1>3. nextRoot' \in 1..(numOfNodes + 1)
    BY <1>1 DEF SearchInvariant, TypeOK
  <1>4. \A k \in Keys : k < nextRoot' => Visited(k) \/ k = NextChild
    BY <1>1 DEF SearchInvariant, NumbersInOrder
  <1>5. QED
    BY <1>1, <1>2, <1>3, <1>4, EnterKeeps

(* A child that was visited is skipped, and lowers the link of the node if *)
(* it is open.                                                             *)
LEMMA SkipKeeps == SearchInvariant /\ SkipChild => SearchInvariant'
  <1> SUFFICES ASSUME SearchInvariant, SkipChild PROVE SearchInvariant'
    OBVIOUS
  <1> DEFINE i == Top.id
             d == NextChild
             n == Len(frames)
             new == LinkBack(lowLink[i], d)
  <1>1. /\ frames # <<>> /\ Top.left # {} /\ Visited(d)
        /\ lowLink' = [lowLink EXCEPT ![i] = new]
        /\ frames' = Append(Front(frames), [Top EXCEPT !.left = @ \ {d}])
        /\ children' = children /\ numOfNodes' = numOfNodes /\ Keys' = Keys
        /\ UNCHANGED <<nextRoot, stack, currentTarjanID, nodeToTarjanID>>
    BY DEF SkipChild, TopWithoutNext, input, Keys
  <1>2. /\ numOfNodes \in Nat /\ children \in Adjacency /\ Keys \subseteq Ids
        /\ stack \in Seq(Keys) /\ frames \in Seq([id : Keys, left : SUBSET Keys])
        /\ nodeToTarjanID \in [Keys -> Nat] /\ lowLink \in [Keys -> Nat]
        /\ \A k \in Keys : children[k] \subseteq Keys
    BY StateFacts
  <1>3. /\ i \in Keys /\ InStack(i) /\ d \in Top.left /\ d \in Keys /\ d \in children[i]
        /\ n \in DOMAIN frames /\ frames[n] = Top /\ Top \in [id : Keys, left : SUBSET Keys]
        /\ \A p \in DOMAIN frames : p # n => nodeToTarjanID[frames[p].id] < nodeToTarjanID[i]
        /\ \A p \in DOMAIN frames : p = n \/ p < n
    BY <1>1, TopFacts, StateFacts
  <1>4. /\ frames' \in Seq([id : Keys, left : SUBSET Keys]) /\ DOMAIN frames' = DOMAIN frames
        /\ \A p \in DOMAIN frames : frames'[p].id = frames[p].id
        /\ \A p \in DOMAIN frames : p # n => frames'[p] = frames[p]
        /\ frames'[n].left = frames[n].left \ {d}
        /\ \A p \in DOMAIN frames : frames'[p].left \subseteq frames[p].left
    <2>1. [Top EXCEPT !.left = @ \ {d}] \in [id : Keys, left : SUBSET Keys]
          /\ [Top EXCEPT !.left = @ \ {d}].id = i
          /\ [Top EXCEPT !.left = @ \ {d}].left = Top.left \ {d}
      BY <1>3
    <2>2. /\ frames' \in Seq([id : Keys, left : SUBSET Keys]) /\ DOMAIN frames' = DOMAIN frames
          /\ \A p \in DOMAIN frames : p # n => frames'[p] = frames[p]
          /\ frames'[n] = [Top EXCEPT !.left = @ \ {d}]
      BY <1>1, <1>2, <2>1, Replaced
    <2>3. QED
      BY <1>3, <2>1, <2>2
  <1>5. /\ \A k : Visited(k)' <=> Visited(k)
        /\ \A k : InStack(k)' <=> InStack(k)
        /\ \A k : IsClosed(k)' <=> IsClosed(k)
    BY <1>1 DEF Visited, InStack, IsClosed
  <1>6. \A p \in DOMAIN frames : \A k \in Keys : Above(p, k)' <=> Above(p, k)
    BY <1>1, <1>4, <1>5 DEF Above
  <1>7. \A k, c \in Keys : Explored(k, c)' => Explored(k, c) \/ (k = i /\ c = d)
    <2> SUFFICES ASSUME NEW k \in Keys, NEW c \in Keys, Explored(k, c)', ~Explored(k, c)
                 PROVE  k = i /\ c = d
      OBVIOUS
    <2>1. PICK p \in DOMAIN frames : frames[p].id = k /\ c \in frames[p].left
      BY <1>1 DEF Explored
    <2>2. c \notin frames'[p].left
      BY <1>4, <2>1 DEF Explored
    <2>3. p = n /\ c = d
      BY <1>4, <2>1, <2>2
    <2>4. QED
      BY <1>3, <2>1, <2>3
  <1>8. /\ new \in Nat /\ new <= lowLink[i] /\ new \in 0..numOfNodes
        /\ InStack(d) => new <= nodeToTarjanID[d]
        /\ new = lowLink[i] \/ (InStack(d) /\ new = nodeToTarjanID[d])
    <2>1. /\ lowLink[i] \in 0..numOfNodes /\ nodeToTarjanID[d] \in 0..numOfNodes
      BY <1>3 DEF SearchInvariant, TypeOK
    <2>2. QED
      BY <1>2, <2>1 DEF LinkBack, Lesser
  <1>9. /\ lowLink'[i] = new /\ \A k \in Keys : k # i => lowLink'[k] = lowLink[k]
        /\ \A k \in Keys : lowLink'[k] <= lowLink[k] /\ lowLink'[k] \in Nat
    BY <1>1, <1>2, <1>3, <1>8
  <1> HIDE DEF i, d, n, new
  <1>10. InputOK' /\ TypeOK'
    <2>1. InputOK'
      BY <1>1 DEF SearchInvariant, InputOK
    <2>2. lowLink' \in [Keys -> 0..numOfNodes]
      <3>1. lowLink \in [Keys -> 0..numOfNodes]
        BY DEF SearchInvariant, TypeOK
      <3> HIDE DEF Keys
      <3>2. QED
        BY <1>1, <1>8, <3>1
    <2>3. QED
      BY <1>1, <1>4, <2>1, <2>2 DEF SearchInvariant, TypeOK
  <1>11. NumbersInOrder' /\ StackInOrder'
    <2>1. {k \in Keys : Visited(k)}' = {k \in Keys : Visited(k)}
      BY <1>1, <1>5
    <2>2. NumbersInOrder'
      BY <1>1, <1>5, <2>1 DEF SearchInvariant, NumbersInOrder
    <2>3. StackInOrder'
      BY <1>1, <1>5 DEF SearchInvariant, StackInOrder
    <2>4. QED
      BY <2>2, <2>3
  <1>12. FramesInOrder' /\ ExploredAreVisited'
    <2>1. FramesInOrder'
      BY <1>1, <1>4, <1>5 DEF SearchInvariant, FramesInOrder
    <2>2. ExploredAreVisited'
      BY <1>1, <1>5, <1>7 DEF SearchInvariant, ExploredAreVisited
    <2>3. QED
      BY <2>1, <2>2
  <1>13. FramesReachUp' /\ OpenReachDown'
    BY <1>1, <1>4, <1>5 DEF SearchInvariant, FramesReachUp, OpenReachDown
  <1>14. LinksAreReached'
    <2> SUFFICES ASSUME NEW k \in Keys, InStack(k)
                 PROVE  /\ lowLink'[k] <= nodeToTarjanID[k]
                        /\ \E j \in Keys : InStack(j) /\ j \in Reach(children, k)
                                           /\ lowLink'[k] = nodeToTarjanID[j]
      BY <1>1, <1>5 DEF LinksAreReached
    <2>1. lowLink[k] <= nodeToTarjanID[k]
      BY DEF SearchInvariant, LinksAreReached
    <2>2. lowLink'[k] <= nodeToTarjanID[k]
      BY <1>2, <1>9, <2>1
    <2>3. PICK j \in Keys : InStack(j) /\ j \in Reach(children, k) /\ lowLink[k] = nodeToTarjanID[j]
      BY DEF SearchInvariant, LinksAreReached
    <2>4. d \in Reach(children, i)
      BY <1>2, <1>3, ReachFacts
    <2>5. QED
      BY <1>3, <1>8, <1>9, <2>2, <2>3, <2>4
  <1>15. LinksAreLeast'
    <2> SUFFICES ASSUME NEW p \in DOMAIN frames, NEW k \in Keys, NEW c \in Keys,
                        Above(p, k), Explored(k, c)', InStack(c)
                 PROVE  lowLink'[frames[p].id] <= nodeToTarjanID[c]
      <3> SUFFICES ASSUME NEW p \in DOMAIN frames', NEW k \in Keys', NEW c \in Keys',
                          Above(p, k)', Explored(k, c)', InStack(c)'
                   PROVE  (lowLink[frames[p].id] <= nodeToTarjanID[c])'
        BY DEF LinksAreLeast
      <3>1. p \in DOMAIN frames /\ k \in Keys /\ c \in Keys /\ frames'[p].id = frames[p].id
        BY <1>1, <1>4
      <3>2. Above(p, k) /\ InStack(c)
        BY <1>5, <1>6, <3>1
      <3>3. lowLink'[frames[p].id] <= nodeToTarjanID[c]
        BY <3>1, <3>2
      <3>4. QED
        BY <1>1, <3>1, <3>3
    <2>1. /\ frames[p].id \in Keys /\ lowLink'[frames[p].id] <= lowLink[frames[p].id]
          /\ lowLink'[frames[p].id] \in Nat /\ lowLink[frames[p].id] \in Nat
          /\ nodeToTarjanID[c] \in Nat
      BY <1>2, <1>9, StateFacts
    <2>2. CASE Explored(k, c)
      <3>1. lowLink[frames[p].id] <= nodeToTarjanID[c]
        BY <2>2 DEF SearchInvariant, LinksAreLeast
      <3>2. QED
        BY <2>1, <3>1
    <2>3. CASE k = i /\ c = d
      <3>1. p = n
        <4>1. p # n => nodeToTarjanID[i] < nodeToTarjanID[frames[n].id]
          BY <1>3, <2>3 DEF Above
        <4>2. frames[n].id = i /\ ~(nodeToTarjanID[i] < nodeToTarjanID[i])
          BY <1>2, <1>3 DEF i
        <4>3. QED
          BY <4>1, <4>2
      <3>2. frames[p].id = i
        BY <1>3, <3>1 DEF i
      <3>3. QED
        BY <1>8, <1>9, <2>3, <3>2
    <2>4. QED
      BY <1>7, <2>2, <2>3
  <1>16. ClosedAreLinked'
    <2> SUFFICES ASSUME NEW k \in Keys, IsClosed(k)
                 PROVE  /\ \A c \in children[k] : IsClosed(c)
                        /\ \A j \in SccOf(k) : lowLink'[j] = lowLink'[k]
                        /\ \E j \in SccOf(k) : IsClosed(j) /\ lowLink'[k] = nodeToTarjanID[j]
      BY <1>1, <1>5 DEF ClosedAreLinked, SccOf
    <2>1. \A j \in SccOf(k) : j \in Keys /\ IsClosed(j)
      BY ClosedReachClosed, SccFacts DEF SearchInvariant
    <2>2. \A j \in SccOf(k) : lowLink'[j] = lowLink[j]
      BY <1>3, <1>9, <2>1 DEF IsClosed
    <2>3. lowLink'[k] = lowLink[k]
      BY <1>3, <1>9 DEF IsClosed
    <2>4. QED
      BY <2>2, <2>3 DEF SearchInvariant, ClosedAreLinked
  <1>17. QED
    BY <1>10, <1>11, <1>12, <1>13, <1>14, <1>15, <1>16 DEF SearchInvariant

(* What is open from the node on the top on, with it, is the component     *)
(* that it closes.                                                         *)
LEMMA ComponentFacts ==
    ASSUME SearchInvariant, NEW i \in Keys, InStack(i)
    PROVE  /\ Component(i) = {k \in Keys : InStack(k) /\ nodeToTarjanID[i] <= nodeToTarjanID[k]}
           /\ Position(i) \in DOMAIN stack
           /\ LET below == SubSeq(stack, 1, Position(i) - 1)
              IN  /\ below \in Seq(Keys) /\ DOMAIN below \subseteq DOMAIN stack
                  /\ \A p \in DOMAIN below : below[p] = stack[p]
                  /\ ToSet(below) =
                       {k \in Keys : InStack(k) /\ nodeToTarjanID[k] < nodeToTarjanID[i]}
  <1>1. stack \in Seq(Keys) /\ nodeToTarjanID \in [Keys -> Nat]
    BY StateFacts
  <1>2. /\ Len(stack) \in Nat /\ DOMAIN stack = 1..Len(stack)
        /\ \A p \in DOMAIN stack : stack[p] \in Keys /\ InStack(stack[p])
    BY <1>1, Elements DEF InStack, ToSet
  <1>3. \A p, q \in DOMAIN stack : p < q => nodeToTarjanID[stack[p]] < nodeToTarjanID[stack[q]]
    BY DEF SearchInvariant, StackInOrder
  <1> DEFINE P == Position(i)
             below == SubSeq(stack, 1, P - 1)
  <1>4. P \in DOMAIN stack /\ stack[P] = i
    <2>1. \E k \in DOMAIN stack : stack[k] = i
      BY DEF InStack, ToSet
    <2>2. QED
      BY <2>1 DEF Position
  <1>5. P \in Nat /\ P - 1 \in 0..Len(stack) /\ P..Len(stack) \subseteq DOMAIN stack
        /\ (\A p \in DOMAIN stack : p \in P..Len(stack) <=> ~(p < P))
        /\ (\A p \in DOMAIN stack : p \in 1..(P - 1) <=> p < P)
        /\ 1..(P - 1) \subseteq DOMAIN stack
    <2> HIDE DEF P
    <2> QED
      BY <1>2, <1>4
  <1>6. \A p \in DOMAIN stack : p < P <=> nodeToTarjanID[stack[p]] < nodeToTarjanID[i]
    <2> HIDE DEF P
    <2> SUFFICES ASSUME NEW p \in DOMAIN stack
                 PROVE  p < P <=> nodeToTarjanID[stack[p]] < nodeToTarjanID[i]
      OBVIOUS
    <2>1. p < P => nodeToTarjanID[stack[p]] < nodeToTarjanID[i]
      BY <1>3, <1>4
    <2>2. P < p => nodeToTarjanID[i] < nodeToTarjanID[stack[p]]
      BY <1>3, <1>4
    <2>3. p < P \/ P < p \/ p = P
      BY <1>2, <1>5
    <2>4. nodeToTarjanID[i] \in Nat /\ nodeToTarjanID[stack[p]] \in Nat
      BY <1>1, <1>2
    <2>5. ~(nodeToTarjanID[i] < nodeToTarjanID[i])
          /\ ~(nodeToTarjanID[i] < nodeToTarjanID[stack[p]]
               /\ nodeToTarjanID[stack[p]] < nodeToTarjanID[i])
      BY <2>4
    <2>6. QED
      BY <1>4, <2>1, <2>2, <2>3, <2>5
  <1>7. /\ below \in Seq(Keys) /\ DOMAIN below = 1..(P - 1)
        /\ \A p \in 1..(P - 1) : below[p] = stack[p]
    <2> DEFINE m == P - 1
    <2>1. m \in 0..Len(stack)
      BY <1>5
    <2> HIDE DEF m
    <2>2. /\ SubSeq(stack, 1, m) \in Seq(Keys) /\ DOMAIN SubSeq(stack, 1, m) = 1..m
          /\ \A p \in 1..m : SubSeq(stack, 1, m)[p] = stack[p]
      BY <1>1, <2>1, CutOff
    <2>3. QED
      BY <2>2 DEF m
  <1>8. \A k \in Keys : InStack(k) => \E p \in DOMAIN stack : stack[p] = k
    BY DEF InStack, ToSet
  <1>9. Component(i) = {k \in Keys : InStack(k) /\ nodeToTarjanID[i] <= nodeToTarjanID[k]}
    <2>1. Component(i) = {stack[k] : k \in P..Len(stack)}
      BY DEF Component
    <2> HIDE DEF P
    <2>2. \A k \in Keys : ~(nodeToTarjanID[k] < nodeToTarjanID[i])
                            <=> nodeToTarjanID[i] <= nodeToTarjanID[k]
      BY <1>1
    <2>3. QED
      BY <1>2, <1>5, <1>6, <1>8, <2>1, <2>2
  <1>10. ToSet(below) = {k \in Keys : InStack(k) /\ nodeToTarjanID[k] < nodeToTarjanID[i]}
    <2>1. ToSet(below) = {below[p] : p \in DOMAIN below}
      BY DEF ToSet
    <2> HIDE DEF P, below
    <2>2. QED
      BY <1>2, <1>5, <1>6, <1>7, <1>8, <2>1
  <1>11. QED
    BY <1>4, <1>5, <1>7, <1>9, <1>10

(* The frame on the top goes, and with it its node from what the frame     *)
(* below has left: no node has more explored children, but the caller.     *)
LEMMA ReturnFacts ==
    ASSUME SearchInvariant, ReturnFromNode
    PROVE  LET i == Top.id
               n == Len(frames)
               caller == frames[n - 1].id
               closes == ClosesComponent(i)
               closed == IF closes THEN [k \in Keys |-> IF k \in Component(i) THEN nodeToTarjanID[i]
                                                                             ELSE lowLink[k]]
                                   ELSE lowLink
           IN  /\ frames' \in Seq([id : Keys, left : SUBSET Keys]) /\ n - 1 \in Nat
               /\ Len(frames') = n - 1 /\ DOMAIN frames' = 1..(n - 1)
               /\ \A p \in DOMAIN frames' : /\ p \in DOMAIN frames /\ p # n /\ p < n
                                            /\ frames'[p].id = frames[p].id
                                            /\ frames'[p].left \subseteq frames[p].left
               /\ \A p \in DOMAIN frames : p # n => p \in DOMAIN frames'
               /\ \A p \in DOMAIN frames' : p = n - 1 \/ p < n - 1
               /\ \A k, c \in Keys : Explored(k, c)' =>
                    Explored(k, c) \/ (n - 1 \in DOMAIN frames' /\ k = caller /\ c = i)
               /\ IF n - 1 \in DOMAIN frames'
                  THEN lowLink' = [closed EXCEPT ![caller] = Lesser(@, closed[i])]
                  ELSE lowLink' = closed
  <1> DEFINE i == Top.id
             n == Len(frames)
             caller == frames[n - 1].id
             closes == ClosesComponent(i)
             closed == IF closes THEN [k \in Keys |-> IF k \in Component(i) THEN nodeToTarjanID[i]
                                                                           ELSE lowLink[k]]
                                 ELSE lowLink
             F == [id : Keys, left : SUBSET Keys]
             callers == Front(frames)
  <1>1. /\ frames # <<>> /\ Top.left = {} /\ children' = children
        /\ callers = <<>> => frames' = callers /\ lowLink' = closed
        /\ callers # <<>> =>
             /\ frames' = Append(Front(callers), [Last(callers) EXCEPT !.left = @ \ {i}])
             /\ lowLink' = [closed EXCEPT ![Last(callers).id] = Lesser(@, closed[i])]
    BY DEF ReturnFromNode, input
  <1>2. frames \in Seq(F)
    BY StateFacts
  <1>3. /\ callers \in Seq(F) /\ Len(callers) = n - 1 /\ DOMAIN callers = 1..(n - 1)
        /\ \A p \in DOMAIN callers : p \in DOMAIN frames /\ callers[p] = frames[p] /\ p # n
        /\ \A p \in DOMAIN frames : p # n => p \in DOMAIN callers
    BY <1>1, <1>2, Shortened
  <1>4. /\ n \in Nat /\ n \in DOMAIN frames /\ frames[n] = Top /\ n - 1 \in Nat
        /\ \A p \in DOMAIN frames : p = n \/ p < n
    <2>1. n - 1 \in Nat
      BY <1>3, Elements
    <2>2. QED
      BY <1>1, <2>1, TopFacts
  <1>5. (callers = <<>> <=> n - 1 \notin DOMAIN callers)
        /\ (callers # <<>> => Last(callers) = frames[n - 1] /\ Last(callers) \in F
                              /\ callers[n - 1] = frames[n - 1])
        /\ \A p \in DOMAIN callers : p = n - 1 \/ p < n - 1
    <2>1. callers = <<>> => n - 1 \notin DOMAIN callers
      BY <1>3, Elements
    <2>2. callers # <<>> => n - 1 \in DOMAIN callers /\ Last(callers) = callers[n - 1]
                            /\ Last(callers) \in F
      BY <1>3, Elements
    <2>3. \A p \in DOMAIN callers : p = n - 1 \/ p < n - 1
      <3> HIDE DEF n, callers
      <3> QED
        BY <1>3, <1>4
    <2>4. QED
      BY <1>3, <2>1, <2>2, <2>3
  <1> HIDE DEF n, callers
  <1>6. /\ frames' \in Seq(F) /\ DOMAIN frames' = DOMAIN callers
        /\ \A p \in DOMAIN callers : /\ frames'[p].id = frames[p].id
                                     /\ frames'[p].left \subseteq frames[p].left
                                     /\ p # n - 1 => frames'[p].left = frames[p].left
                                     /\ p = n - 1 => frames'[p].left = frames[p].left \ {i}
        /\ Len(frames') = n - 1
    <2>1. CASE callers = <<>>
      BY <1>1, <1>3, <2>1, Elements
    <2>2. CASE callers # <<>>
      <3> DEFINE e == [Last(callers) EXCEPT !.left = @ \ {i}]
      <3>1. e \in F /\ e.id = frames[n - 1].id /\ e.left = frames[n - 1].left \ {i}
        BY <1>5, <2>2
      <3>2. frames' = Append(Front(callers), e)
        BY <1>1, <2>2
      <3> HIDE DEF e
      <3>3. /\ frames' \in Seq(F) /\ DOMAIN frames' = DOMAIN callers /\ Len(frames') = n - 1
            /\ frames'[n - 1] = e
            /\ \A p \in DOMAIN callers : p # n - 1 => frames'[p] = callers[p]
        BY <1>3, <2>2, <3>1, <3>2, Replaced
      <3>4. QED
        BY <1>3, <3>1, <3>3
    <2>3. QED
      BY <2>1, <2>2
  <1>7. ASSUME NEW k \in Keys, NEW c \in Keys, Explored(k, c)', ~Explored(k, c)
        PROVE  n - 1 \in DOMAIN frames' /\ k = caller /\ c = i
    <2>1. PICK p \in DOMAIN frames : frames[p].id = k /\ c \in frames[p].left
      BY <1>1, <1>7 DEF Explored
    <2>2. p # n
      BY <1>1, <1>4, <2>1
    <2>3. p \in DOMAIN callers /\ p \in DOMAIN frames'
      BY <1>3, <1>6, <2>2
    <2>4. c \notin frames'[p].left
      BY <1>6, <1>7, <2>1, <2>3 DEF Explored
    <2>5. p = n - 1 /\ c = i
      BY <1>6, <2>1, <2>3, <2>4
    <2>6. QED
      BY <2>1, <2>3, <2>5
  <1>8. IF n - 1 \in DOMAIN frames'
        THEN lowLink' = [closed EXCEPT ![caller] = Lesser(@, closed[i])]
        ELSE lowLink' = closed
    <2> HIDE DEF closed
    <2> QED
      BY <1>1, <1>5, <1>6
  <1>9. /\ \A p \in DOMAIN frames' : /\ p \in DOMAIN frames /\ p # n /\ p < n
        /\ \A p \in DOMAIN frames : p # n => p \in DOMAIN frames'
    BY <1>3, <1>4, <1>6
  <1> HIDE DEF closed, i, caller
  <1>10. QED
    BY <1>3, <1>4, <1>5, <1>6, <1>7, <1>8, <1>9 DEF closed, i, caller, n, closes

(* A call that returns without closing a component links to an older open  *)
(* node: so there is a caller, which takes over the link, and the nodes    *)
(* that reached down through the node that returned still do.              *)
LEMMA ReturnOpenKeeps ==
    ASSUME SearchInvariant, ReturnFromNode, ~ClosesComponent(Top.id)
    PROVE  SearchInvariant'
  <1> DEFINE i == Top.id
             n == Len(frames)
             h == frames[n - 1].id
             F == [id : Keys, left : SUBSET Keys]
  <1>1. /\ frames # <<>> /\ Top.left = {} /\ stack' = stack
        /\ children' = children /\ numOfNodes' = numOfNodes /\ Keys' = Keys
        /\ UNCHANGED <<nextRoot, currentTarjanID, nodeToTarjanID>>
    BY DEF ReturnFromNode, input, Keys
  <1>2. /\ numOfNodes \in Nat /\ children \in Adjacency /\ Keys \subseteq Ids
        /\ stack \in Seq(Keys) /\ frames \in Seq(F)
        /\ nodeToTarjanID \in [Keys -> Nat] /\ lowLink \in [Keys -> Nat]
        /\ \A k \in Keys : children[k] \subseteq Keys
        /\ \A p \in DOMAIN frames : frames[p].id \in Keys /\ InStack(frames[p].id)
    BY StateFacts
  <1>3. /\ i \in Keys /\ InStack(i) /\ n \in DOMAIN frames /\ frames[n].id = i
        /\ \A p \in DOMAIN frames : p # n => nodeToTarjanID[frames[p].id] < nodeToTarjanID[i]
    BY <1>1, TopFacts
  <1>4. /\ frames' \in Seq(F) /\ n - 1 \in Nat
        /\ \A p \in DOMAIN frames' : /\ p \in DOMAIN frames /\ p # n /\ p < n
                                     /\ frames'[p].id = frames[p].id
                                     /\ frames'[p].left \subseteq frames[p].left
        /\ \A p \in DOMAIN frames : p # n => p \in DOMAIN frames'
        /\ \A p \in DOMAIN frames' : p = n - 1 \/ p < n - 1
        /\ \A k, c \in Keys : Explored(k, c)' =>
             Explored(k, c) \/ (n - 1 \in DOMAIN frames' /\ k = h /\ c = i)
        /\ n - 1 \in DOMAIN frames' => lowLink' = [lowLink EXCEPT ![h] = Lesser(@, lowLink[i])]
        /\ DOMAIN frames' = 1..(n - 1)
    BY ReturnFacts
  <1>5. /\ \A k : Visited(k)' <=> Visited(k)
        /\ \A k : InStack(k)' <=> InStack(k)
        /\ \A k : IsClosed(k)' <=> IsClosed(k)
    BY <1>1 DEF Visited, InStack, IsClosed
  <1> HIDE DEF i, n, h
  (* The older node that i links to, and the frame below it.              *)
  <1>6. \E p \in DOMAIN frames' : /\ nodeToTarjanID[frames[p].id] < nodeToTarjanID[i]
                                  /\ frames[p].id \in Reach(children, i)
    <2>1. PICK j \in Keys : InStack(j) /\ j \in Reach(children, i) /\ lowLink[i] = nodeToTarjanID[j]
      BY <1>3 DEF SearchInvariant, LinksAreReached
    <2>2. lowLink[i] <= nodeToTarjanID[i] /\ lowLink[i] # nodeToTarjanID[i]
      BY <1>3 DEF SearchInvariant, LinksAreReached, ClosesComponent, i
    <2>3. nodeToTarjanID[j] < nodeToTarjanID[i]
      BY <1>2, <1>3, <2>1, <2>2
    <2>4. PICK p \in DOMAIN frames : /\ nodeToTarjanID[frames[p].id] <= nodeToTarjanID[j]
                                     /\ frames[p].id \in Reach(children, j)
      BY <2>1 DEF SearchInvariant, OpenReachDown
    <2>5. nodeToTarjanID[frames[p].id] < nodeToTarjanID[i]
      <3>1. /\ nodeToTarjanID[frames[p].id] \in Nat /\ nodeToTarjanID[i] \in Nat
            /\ nodeToTarjanID[j] \in Nat
        BY <1>2, <1>3, <2>4
      <3>2. QED
        BY <2>3, <2>4, <3>1
    <2>6. p # n
      <3>1. nodeToTarjanID[i] \in Nat
        BY <1>2, <1>3
      <3>2. QED
        BY <1>3, <2>5, <3>1
    <2>7. frames[p].id \in Reach(children, i)
      BY <1>2, <1>3, <2>1, <2>4, ReachFacts
    <2>8. QED
      BY <1>4, <2>5, <2>6, <2>7
  <1>7. n - 1 \in DOMAIN frames' /\ n - 1 \in DOMAIN frames /\ n - 1 # n /\ h \in Keys
        /\ frames'[n - 1].id = h /\ frames[n - 1].id = h
        /\ nodeToTarjanID[h] < nodeToTarjanID[i]
    <2>1. n - 1 \in DOMAIN frames'
      BY <1>4, <1>6
    <2>2. QED
      BY <1>2, <1>3, <1>4, <2>1 DEF h
  <1>8. /\ lowLink' = [lowLink EXCEPT ![h] = Lesser(@, lowLink[i])]
        /\ lowLink'[h] \in {lowLink[h], lowLink[i]}
        /\ lowLink'[h] <= lowLink[h] /\ lowLink'[h] <= lowLink[i]
        /\ \A k \in Keys : k # h => lowLink'[k] = lowLink[k]
        /\ \A k \in Keys : lowLink'[k] <= lowLink[k] /\ lowLink'[k] \in Nat
    <2>1. lowLink' = [lowLink EXCEPT ![h] = Lesser(@, lowLink[i])]
      BY <1>4, <1>7
    <2>2. lowLink[h] \in Nat /\ lowLink[i] \in Nat
      BY <1>2, <1>3, <1>7
    <2>3. /\ Lesser(lowLink[h], lowLink[i]) \in {lowLink[h], lowLink[i]}
          /\ Lesser(lowLink[h], lowLink[i]) <= lowLink[h]
          /\ Lesser(lowLink[h], lowLink[i]) <= lowLink[i]
          /\ Lesser(lowLink[h], lowLink[i]) \in Nat
      BY <2>2 DEF Lesser
    <2>4. \A k \in Keys : lowLink[k] \in Nat /\ lowLink[k] <= lowLink[k]
      BY <1>2
    <2>5. QED
      BY <1>2, <1>7, <2>1, <2>3, <2>4
  <1>9. InputOK' /\ TypeOK'
    <2>1. InputOK'
      BY <1>1 DEF SearchInvariant, InputOK
    <2>2. lowLink' \in [Keys -> 0..numOfNodes]
      <3>1. lowLink \in [Keys -> 0..numOfNodes]
        BY DEF SearchInvariant, TypeOK
      <3> HIDE DEF Keys
      <3>2. Lesser(lowLink[h], lowLink[i]) \in 0..numOfNodes
        BY <1>3, <1>7, <3>1 DEF Lesser
      <3>3. QED
        BY <1>8, <3>1, <3>2
    <2>3. QED
      BY <1>1, <1>4, <2>1, <2>2 DEF SearchInvariant, TypeOK
  <1>10. NumbersInOrder' /\ StackInOrder'
    <2>1. {k \in Keys : Visited(k)}' = {k \in Keys : Visited(k)}
      BY <1>1, <1>5
    <2>2. NumbersInOrder'
      BY <1>1, <1>5, <2>1 DEF SearchInvariant, NumbersInOrder
    <2>3. StackInOrder'
      BY <1>1, <1>5 DEF SearchInvariant, StackInOrder
    <2>4. QED
      BY <2>2, <2>3
  <1>11. FramesInOrder' /\ ExploredAreVisited'
    <2>1. FramesInOrder'
      BY <1>1, <1>4, <1>5 DEF SearchInvariant, FramesInOrder
    <2>2. Visited(i)
      BY <1>3, StateFacts
    <2>3. ExploredAreVisited'
      BY <1>1, <1>4, <1>5, <2>2 DEF SearchInvariant, ExploredAreVisited
    <2>4. QED
      BY <2>1, <2>3
  <1>12. FramesReachUp'
    BY <1>1, <1>4, <1>5 DEF SearchInvariant, FramesReachUp
  <1>13. OpenReachDown'
    <2> SUFFICES ASSUME NEW k \in Keys, InStack(k)
                 PROVE  \E p \in DOMAIN frames' :
                           /\ nodeToTarjanID[frames[p].id] <= nodeToTarjanID[k]
                           /\ frames[p].id \in Reach(children, k)
      BY <1>1, <1>4, <1>5 DEF OpenReachDown
    <2>1. PICK p \in DOMAIN frames : /\ nodeToTarjanID[frames[p].id] <= nodeToTarjanID[k]
                                     /\ frames[p].id \in Reach(children, k)
      BY DEF SearchInvariant, OpenReachDown
    <2>2. CASE p # n
      BY <1>4, <2>1, <2>2
    <2>3. CASE p = n
      <3>1. PICK q \in DOMAIN frames' : /\ nodeToTarjanID[frames[q].id] < nodeToTarjanID[i]
                                        /\ frames[q].id \in Reach(children, i)
        BY <1>6
      <3>2. q \in DOMAIN frames /\ frames[q].id \in Keys
        BY <1>2, <1>4
      <3>3. nodeToTarjanID[frames[q].id] \in Nat /\ nodeToTarjanID[i] \in Nat /\ nodeToTarjanID[k] \in Nat
        BY <1>2, <1>3, <3>2
      <3>4. nodeToTarjanID[frames[q].id] <= nodeToTarjanID[k]
        BY <1>3, <2>1, <2>3, <3>1, <3>3
      <3>5. frames[q].id \in Reach(children, k)
        BY <1>2, <1>3, <2>1, <2>3, <3>1, <3>2, ReachFacts
      <3>6. QED
        BY <3>4, <3>5
    <2>4. QED
      BY <2>2, <2>3
  <1>14. LinksAreReached'
    <2> SUFFICES ASSUME NEW k \in Keys, InStack(k)
                 PROVE  /\ lowLink'[k] <= nodeToTarjanID[k]
                        /\ \E j \in Keys : InStack(j) /\ j \in Reach(children, k)
                                           /\ lowLink'[k] = nodeToTarjanID[j]
      BY <1>1, <1>5 DEF LinksAreReached
    <2>1. lowLink'[k] <= nodeToTarjanID[k]
      <3>1. lowLink[k] <= nodeToTarjanID[k]
        BY DEF SearchInvariant, LinksAreReached
      <3>2. QED
        BY <1>2, <1>8, <3>1
    <2>2. PICK j \in Keys : InStack(j) /\ j \in Reach(children, k) /\ lowLink[k] = nodeToTarjanID[j]
      BY DEF SearchInvariant, LinksAreReached
    <2>3. PICK l \in Keys : InStack(l) /\ l \in Reach(children, i) /\ lowLink[i] = nodeToTarjanID[l]
      BY <1>3 DEF SearchInvariant, LinksAreReached
    <2>4. i \in Reach(children, h)
      <3>1. nodeToTarjanID[h] <= nodeToTarjanID[i]
        BY <1>2, <1>3, <1>7
      <3>2. QED
        BY <1>3, <1>7, <3>1 DEF SearchInvariant, FramesReachUp
    <2>5. l \in Reach(children, h)
      BY <1>2, <1>3, <1>7, <2>3, <2>4, ReachFacts
    <2>6. QED
      BY <1>8, <2>1, <2>2, <2>3, <2>5
  <1>15. LinksAreLeast'
    <2> SUFFICES ASSUME NEW p \in DOMAIN frames', NEW k \in Keys, NEW c \in Keys,
                        Above(p, k)', Explored(k, c)', InStack(c)
                 PROVE  lowLink'[frames[p].id] <= nodeToTarjanID[c]
      BY <1>1, <1>4, <1>5 DEF LinksAreLeast
    <2>1. /\ p \in DOMAIN frames /\ p # n /\ frames[p].id \in Keys
          /\ lowLink'[frames[p].id] <= lowLink[frames[p].id]
          /\ lowLink'[frames[p].id] \in Nat /\ lowLink[frames[p].id] \in Nat
          /\ nodeToTarjanID[c] \in Nat /\ nodeToTarjanID[k] \in Nat /\ nodeToTarjanID[i] \in Nat
          /\ nodeToTarjanID[h] \in Nat /\ lowLink[i] \in Nat /\ lowLink'[h] \in Nat
      BY <1>2, <1>3, <1>4, <1>7, <1>8
    <2>2. /\ InStack(k) /\ nodeToTarjanID[frames[p].id] <= nodeToTarjanID[k]
          /\ \A q \in DOMAIN frames' : p < q => nodeToTarjanID[k] < nodeToTarjanID[frames[q].id]
      BY <1>1, <1>4, <1>5 DEF Above
    <2>3. CASE nodeToTarjanID[k] < nodeToTarjanID[i]
      <3>1. Above(p, k)
        BY <1>3, <1>4, <2>2, <2>3 DEF Above
      <3>2. CASE Explored(k, c)
        <4>1. lowLink[frames[p].id] <= nodeToTarjanID[c]
          BY <2>1, <3>1, <3>2 DEF SearchInvariant, LinksAreLeast
        <4>2. QED
          BY <2>1, <4>1
      <3>3. CASE k = h /\ c = i
        <4>1. p = n - 1
          <5>1. p < n - 1 => nodeToTarjanID[h] < nodeToTarjanID[h]
            BY <1>7, <2>2, <3>3
          <5>2. QED
            BY <1>4, <2>1, <5>1
        <4>2. lowLink'[h] <= lowLink[i] /\ lowLink[i] <= nodeToTarjanID[i]
          BY <1>3, <1>8 DEF SearchInvariant, LinksAreReached
        <4>3. lowLink'[h] <= nodeToTarjanID[i]
          BY <2>1, <4>2
        <4>4. QED
          BY <1>7, <3>3, <4>1, <4>3
      <3>4. QED
        BY <1>4, <3>2, <3>3
    <2>4. CASE ~(nodeToTarjanID[k] < nodeToTarjanID[i])
      <3>1. nodeToTarjanID[i] <= nodeToTarjanID[k]
        BY <2>1, <2>4
      <3>2. p = n - 1
        <4>1. p < n - 1 => nodeToTarjanID[k] < nodeToTarjanID[h]
          BY <1>7, <2>2
        <4>2. ~(nodeToTarjanID[k] < nodeToTarjanID[h])
          BY <1>7, <2>1, <3>1
        <4>3. QED
          BY <1>4, <4>1, <4>2
      <3>3. k # h
        BY <1>7, <2>4
      <3>4. Explored(k, c)
        BY <1>4, <3>3
      <3>5. Above(n, k)
        <4>1. \A q \in DOMAIN frames : ~(n < q)
          <5>1. \A q \in DOMAIN frames : q = n \/ q < n
            BY <1>4
          <5>2. n \in Nat /\ DOMAIN frames \subseteq Nat
            BY <1>2, Elements DEF n
          <5>3. QED
            BY <5>1, <5>2
        <4>2. QED
          BY <1>3, <2>2, <3>1, <4>1 DEF Above
      <3>6. lowLink[i] <= nodeToTarjanID[c]
        BY <1>3, <3>4, <3>5 DEF SearchInvariant, LinksAreLeast
      <3>7. lowLink'[h] <= nodeToTarjanID[c]
        BY <1>8, <2>1, <3>6
      <3>8. QED
        BY <1>7, <3>2, <3>7
    <2>5. QED
      BY <2>3, <2>4
  <1>16. ClosedAreLinked'
    <2> SUFFICES ASSUME NEW k \in Keys, IsClosed(k)
                 PROVE  /\ \A c \in children[k] : IsClosed(c)
                        /\ \A j \in SccOf(k) : lowLink'[j] = lowLink'[k]
                        /\ \E j \in SccOf(k) : IsClosed(j) /\ lowLink'[k] = nodeToTarjanID[j]
      BY <1>1, <1>5 DEF ClosedAreLinked, SccOf
    <2>1. \A j \in SccOf(k) : j \in Keys /\ IsClosed(j)
      BY ClosedReachClosed, SccFacts DEF SearchInvariant
    <2>2. InStack(h)
      BY <1>2, <1>7
    <2>3. \A j \in SccOf(k) : lowLink'[j] = lowLink[j]
      BY <1>8, <2>1, <2>2 DEF IsClosed
    <2>4. lowLink'[k] = lowLink[k]
      BY <1>8, <2>2 DEF IsClosed
    <2>5. QED
      BY <2>3, <2>4 DEF SearchInvariant, ClosedAreLinked
  <1>17. QED
    BY <1>9, <1>10, <1>11, <1>12, <1>13, <1>14, <1>15, <1>16 DEF SearchInvariant

(* What a node closes that links to nothing older: the nodes from it on,   *)
(* all of which it reaches, and which reach it, and nothing else that they *)
(* reach is open.                                                          *)
LEMMA ClosingFacts ==
    ASSUME SearchInvariant, frames # <<>>, Top.left = {}, ClosesComponent(Top.id)
    PROVE  LET C == Component(Top.id)
           IN  /\ C = {k \in Keys : InStack(k) /\ nodeToTarjanID[Top.id] <= nodeToTarjanID[k]}
               /\ \A k \in C : \A c \in children[k] : c \in C \/ IsClosed(c)
               /\ \A k \in C : SccOf(k) \subseteq C /\ Top.id \in SccOf(k)
  <1> DEFINE i == Top.id
             n == Len(frames)
             C == Component(i)
  <1>1. /\ i \in Keys /\ InStack(i) /\ n \in DOMAIN frames /\ frames[n].id = i
        /\ frames[n].left = {} /\ n \in Nat
        /\ \A p \in DOMAIN frames : p # n => nodeToTarjanID[frames[p].id] < nodeToTarjanID[i]
        /\ \A p \in DOMAIN frames : p = n \/ p < n
    BY TopFacts
  <1>2. /\ children \in Adjacency /\ Keys \subseteq Ids
        /\ frames \in Seq([id : Keys, left : SUBSET Keys])
        /\ nodeToTarjanID \in [Keys -> Nat] /\ lowLink \in [Keys -> Nat]
        /\ \A k \in Keys : children[k] \subseteq Keys
        /\ \A p \in DOMAIN frames : frames[p].id \in Keys /\ InStack(frames[p].id)
    BY StateFacts
  <1>3. C = {k \in Keys : InStack(k) /\ nodeToTarjanID[i] <= nodeToTarjanID[k]}
    BY <1>1, ComponentFacts
  <1>4. nodeToTarjanID[i] = lowLink[i]
    BY DEF ClosesComponent
  <1> HIDE DEF i, n, C
  <1>5. ASSUME NEW k \in C, NEW c \in children[k] PROVE c \in C \/ IsClosed(c)
    <2>1. k \in Keys /\ c \in Keys /\ InStack(k) /\ nodeToTarjanID[i] <= nodeToTarjanID[k]
      BY <1>2, <1>3, <1>5
    <2>2. nodeToTarjanID[i] \in Nat /\ nodeToTarjanID[k] \in Nat /\ nodeToTarjanID[c] \in Nat
      BY <1>1, <1>2, <2>1
    <2>3. \A p \in DOMAIN frames : frames[p].id = k => p = n
      <3>1. ~(nodeToTarjanID[k] < nodeToTarjanID[i])
        BY <2>1, <2>2
      <3>2. QED
        BY <1>1, <3>1
    <2>4. Explored(k, c)
      BY <1>1, <1>5, <2>3 DEF Explored
    <2>5. Visited(c)
      BY <2>1, <2>4, StateFacts DEF SearchInvariant, ExploredAreVisited
    <2>6. ASSUME InStack(c) PROVE c \in C
      <3>1. Above(n, k)
        <4>1. \A q \in DOMAIN frames : ~(n < q)
          <5>1. DOMAIN frames \subseteq Nat
            BY <1>2, Elements
          <5>2. QED
            BY <1>1, <5>1
        <4>2. QED
          BY <1>1, <2>1, <4>1 DEF Above
      <3>2. lowLink[i] <= nodeToTarjanID[c]
        BY <1>1, <2>1, <2>4, <2>6, <3>1 DEF SearchInvariant, LinksAreLeast
      <3>3. QED
        BY <1>3, <1>4, <2>1, <2>6, <3>2
    <2>7. QED
      BY <2>5, <2>6 DEF IsClosed
  <1>6. ASSUME NEW k \in C PROVE Reach(children, k) \subseteq C \cup {l \in Keys : IsClosed(l)}
    <2> DEFINE S == C \cup {l \in Keys : IsClosed(l)}
    <2>1. S \in SUBSET Ids /\ k \in S /\ k \in Ids
      BY <1>2, <1>3, <1>6
    <2>2. ASSUME NEW l \in S PROVE children[l] \subseteq S
      <3>1. l \in Keys
        BY <1>3
      <3>2. CASE l \in C
        BY <1>2, <1>5, <3>1, <3>2
      <3>3. CASE IsClosed(l)
        BY <1>2, <3>1, <3>3 DEF SearchInvariant, ClosedAreLinked
      <3>4. QED
        BY <3>2, <3>3
    <2> HIDE DEF S
    <2>3. Reach(children, k) \subseteq S
      BY <1>2, <2>1, <2>2, ReachFacts
    <2>4. QED
      BY <2>3 DEF S
  <1>7. ASSUME NEW k \in C PROVE k \in Keys /\ k \in Reach(children, i) /\ i \in Reach(children, k)
    <2>1. k \in Keys /\ InStack(k) /\ nodeToTarjanID[i] <= nodeToTarjanID[k]
      BY <1>3, <1>7
    <2>2. k \in Reach(children, i)
      BY <1>1, <2>1 DEF SearchInvariant, FramesReachUp
    <2>3. PICK p \in DOMAIN frames : frames[p].id \in Reach(children, k)
      BY <2>1 DEF SearchInvariant, OpenReachDown
    <2>4. frames[p].id \in C
      BY <1>2, <1>6, <1>7, <2>3 DEF IsClosed
    <2>5. p = n
      <3>1. nodeToTarjanID[i] <= nodeToTarjanID[frames[p].id]
        BY <1>3, <2>4
      <3>2. nodeToTarjanID[i] \in Nat /\ nodeToTarjanID[frames[p].id] \in Nat
        BY <1>1, <1>2
      <3>3. QED
        BY <1>1, <3>1, <3>2
    <2>6. QED
      BY <1>1, <2>1, <2>2, <2>3, <2>5
  <1>8. ASSUME NEW k \in C PROVE SccOf(k) \subseteq C /\ i \in SccOf(k)
    <2>1. i \in SccOf(k)
      BY <1>1, <1>7, <1>8, SccFacts DEF SearchInvariant
    <2>2. ASSUME NEW j \in SccOf(k) PROVE j \in C
      <3>1. k \in Keys /\ j \in Keys /\ j \in Reach(children, k) /\ k \in Reach(children, j)
        BY <1>3, SccFacts DEF SearchInvariant
      <3>2. ~IsClosed(j)
        <4>1. IsClosed(j) => IsClosed(k)
          BY <3>1, ClosedReachClosed DEF SearchInvariant
        <4>2. QED
          BY <1>3, <4>1 DEF IsClosed
      <3>3. QED
        BY <1>6, <3>1, <3>2
    <2>3. QED
      BY <2>1, <2>2
  <1>9. QED
    BY <1>3, <1>5, <1>8 DEF C, i

(* A call that returns and closes a component.                             *)
LEMMA ReturnClosedKeeps ==
    ASSUME SearchInvariant, ReturnFromNode, ClosesComponent(Top.id)
    PROVE  SearchInvariant'
  <1> DEFINE i == Top.id
             n == Len(frames)
             h == frames[n - 1].id
             F == [id : Keys, left : SUBSET Keys]
             C == Component(i)
             closed == [k \in Keys |-> IF k \in C THEN nodeToTarjanID[i] ELSE lowLink[k]]
  <1>1. /\ frames # <<>> /\ Top.left = {} /\ stack' = SubSeq(stack, 1, Position(i) - 1)
        /\ children' = children /\ numOfNodes' = numOfNodes /\ Keys' = Keys
        /\ UNCHANGED <<nextRoot, currentTarjanID, nodeToTarjanID>>
    BY DEF ReturnFromNode, input, Keys
  <1>2. /\ numOfNodes \in Nat /\ children \in Adjacency /\ Keys \subseteq Ids
        /\ stack \in Seq(Keys) /\ frames \in Seq(F)
        /\ nodeToTarjanID \in [Keys -> Nat] /\ lowLink \in [Keys -> Nat]
        /\ \A k \in Keys : children[k] \subseteq Keys
        /\ \A p \in DOMAIN frames : frames[p].id \in Keys /\ InStack(frames[p].id)
        /\ \A k \in Keys : InStack(k) => Visited(k)
    BY StateFacts
  <1>3. /\ i \in Keys /\ InStack(i) /\ n \in DOMAIN frames /\ frames[n].id = i
        /\ \A p \in DOMAIN frames : p # n => nodeToTarjanID[frames[p].id] < nodeToTarjanID[i]
    BY <1>1, TopFacts
  <1>4. /\ frames' \in Seq(F) /\ n - 1 \in Nat
        /\ \A p \in DOMAIN frames' : /\ p \in DOMAIN frames /\ p # n /\ p < n
                                     /\ frames'[p].id = frames[p].id
                                     /\ frames'[p].left \subseteq frames[p].left
        /\ \A p \in DOMAIN frames : p # n => p \in DOMAIN frames'
        /\ \A k, c \in Keys : Explored(k, c)' => Explored(k, c) \/ c = i
        /\ IF n - 1 \in DOMAIN frames'
           THEN lowLink' = [closed EXCEPT ![h] = Lesser(@, closed[i])]
           ELSE lowLink' = closed
    BY ReturnFacts
  <1>5. /\ C = {k \in Keys : InStack(k) /\ nodeToTarjanID[i] <= nodeToTarjanID[k]}
        /\ \A k \in C : \A c \in children[k] : c \in C \/ IsClosed(c)
        /\ \A k \in C : SccOf(k) \subseteq C /\ i \in SccOf(k)
    BY <1>1, ClosingFacts
  <1>6. /\ stack' \in Seq(Keys) /\ DOMAIN stack' \subseteq DOMAIN stack
        /\ \A p \in DOMAIN stack' : stack'[p] = stack[p]
        /\ \A k \in Keys : InStack(k)' <=> InStack(k) /\ nodeToTarjanID[k] < nodeToTarjanID[i]
    <2> DEFINE below == SubSeq(stack, 1, Position(i) - 1)
    <2>1. /\ below \in Seq(Keys) /\ DOMAIN below \subseteq DOMAIN stack
          /\ \A p \in DOMAIN below : below[p] = stack[p]
          /\ ToSet(below) = {k \in Keys : InStack(k) /\ nodeToTarjanID[k] < nodeToTarjanID[i]}
      BY <1>3, ComponentFacts
    <2> HIDE DEF below
    <2>2. stack' = below
      BY <1>1 DEF below
    <2>3. \A k \in Keys : InStack(k)' <=> k \in ToSet(below)
      BY <2>2 DEF InStack
    <2>4. QED
      BY <2>1, <2>2, <2>3
  <1> HIDE DEF i, n, h, C, closed
  <1>7. \A k : Visited(k)' <=> Visited(k)
    BY <1>1 DEF Visited
  <1>8. \A k \in Keys : /\ InStack(k)' => InStack(k) /\ k \notin C
                        /\ InStack(k) => k \in C \/ InStack(k)'
                        /\ IsClosed(k)' <=> IsClosed(k) \/ k \in C
    <2>1. \A k \in Keys : nodeToTarjanID[k] < nodeToTarjanID[i]
                          <=> ~(nodeToTarjanID[i] <= nodeToTarjanID[k])
      BY <1>2, <1>3
    <2>2. QED
      BY <1>2, <1>5, <1>6, <1>7, <2>1 DEF IsClosed
  <1>9. /\ \A p \in DOMAIN frames' : /\ frames[p].id \in Keys /\ InStack(frames[p].id)
                                     /\ frames[p].id \notin C
                                     /\ nodeToTarjanID[frames[p].id] < nodeToTarjanID[i]
        /\ (\A p \in DOMAIN frames : InStack(frames[p].id))'
        /\ i \in C
    <2>1. \A p \in DOMAIN frames' : /\ frames[p].id \in Keys /\ InStack(frames[p].id)
                                    /\ nodeToTarjanID[frames[p].id] < nodeToTarjanID[i]
      BY <1>2, <1>3, <1>4
    <2>2. \A k \in Keys : nodeToTarjanID[k] < nodeToTarjanID[i] => k \notin C
      BY <1>2, <1>3, <1>5
    <2>3. \A k \in Keys : InStack(k) /\ nodeToTarjanID[k] < nodeToTarjanID[i] => InStack(k)'
      BY <1>6
    <2>4. (\A p \in DOMAIN frames : InStack(frames[p].id))'
      <3>1. ASSUME NEW p \in DOMAIN frames', NEW k \in Keys, k = frames[p].id
            PROVE  (InStack(frames[p].id))'
        <4>1. InStack(k)' /\ frames'[p].id = k
          BY <1>4, <2>1, <2>3, <3>1
        <4>2. QED
          BY <4>1 DEF InStack
      <3>2. QED
        BY <2>1, <3>1
    <2>5. nodeToTarjanID[i] <= nodeToTarjanID[i]
      BY <1>2, <1>3
    <2>6. QED
      BY <1>3, <1>5, <2>1, <2>2, <2>4, <2>5
  (* The caller is older than what is closed: taking over the link of i   *)
  (* does not change its own.                                             *)
  <1>10. lowLink' = closed
    <2>1. CASE n - 1 \in DOMAIN frames'
      <3>1. h \in Keys /\ InStack(h) /\ nodeToTarjanID[h] < nodeToTarjanID[i]
        BY <1>9, <2>1 DEF h
      <3>2. h \notin C /\ i \in C
        BY <1>9, <2>1 DEF h
      <3>3. closed[h] = lowLink[h] /\ closed[i] = nodeToTarjanID[i]
        BY <1>3, <3>1, <3>2 DEF closed
      <3>4. lowLink[h] <= nodeToTarjanID[h]
        BY <3>1 DEF SearchInvariant, LinksAreReached
      <3>5. lowLink[h] \in Nat /\ nodeToTarjanID[h] \in Nat /\ nodeToTarjanID[i] \in Nat
        BY <1>2, <1>3, <3>1
      <3>6. Lesser(closed[h], closed[i]) = closed[h]
        BY <3>1, <3>3, <3>4, <3>5 DEF Lesser
      <3>7. lowLink' = [closed EXCEPT ![h] = closed[h]]
        BY <1>4, <2>1, <3>6
      <3>8. QED
        BY <3>7 DEF closed
    <2>2. CASE n - 1 \notin DOMAIN frames'
      BY <1>4, <2>2
    <2>3. QED
      BY <2>1, <2>2
  <1>11. /\ \A k \in Keys : k \notin C => lowLink'[k] = lowLink[k]
         /\ \A k \in C : lowLink'[k] = nodeToTarjanID[i]
    BY <1>5, <1>10 DEF closed
  <1>12. InputOK' /\ TypeOK'
    <2>1. InputOK'
      BY <1>1 DEF SearchInvariant, InputOK
    <2>2. lowLink' \in [Keys -> 0..numOfNodes]
      <3>1. lowLink \in [Keys -> 0..numOfNodes] /\ nodeToTarjanID[i] \in 0..numOfNodes
        BY <1>3 DEF SearchInvariant, TypeOK
      <3> HIDE DEF Keys
      <3>2. QED
        BY <1>10, <3>1 DEF closed
    <2>3. QED
      BY <1>1, <1>4, <1>6, <2>1, <2>2 DEF SearchInvariant, TypeOK
  <1>13. NumbersInOrder' /\ StackInOrder'
    <2>1. {k \in Keys : Visited(k)}' = {k \in Keys : Visited(k)}
      BY <1>1, <1>7
    <2>2. NumbersInOrder'
      BY <1>1, <1>7, <2>1 DEF SearchInvariant, NumbersInOrder
    <2>3. StackInOrder'
      BY <1>1, <1>6, <1>7 DEF SearchInvariant, StackInOrder
    <2>4. QED
      BY <2>2, <2>3
  <1>14. FramesInOrder' /\ ExploredAreVisited'
    <2>1. FramesInOrder'
      BY <1>1, <1>4, <1>9 DEF SearchInvariant, FramesInOrder
    <2>2. ExploredAreVisited'
      BY <1>1, <1>2, <1>3, <1>4, <1>7 DEF SearchInvariant, ExploredAreVisited
    <2>3. QED
      BY <2>1, <2>2
  <1>15. FramesReachUp'
    BY <1>1, <1>4, <1>8 DEF SearchInvariant, FramesReachUp
  <1>16. OpenReachDown'
    <2> SUFFICES ASSUME NEW k \in Keys, InStack(k)'
                 PROVE  \E p \in DOMAIN frames' :
                           /\ nodeToTarjanID[frames[p].id] <= nodeToTarjanID[k]
                           /\ frames[p].id \in Reach(children, k)
      BY <1>1, <1>4 DEF OpenReachDown
    <2>1. PICK p \in DOMAIN frames : /\ nodeToTarjanID[frames[p].id] <= nodeToTarjanID[k]
                                     /\ frames[p].id \in Reach(children, k)
      BY <1>8 DEF SearchInvariant, OpenReachDown
    <2>2. p # n
      <3>1. nodeToTarjanID[k] < nodeToTarjanID[i]
        BY <1>6
      <3>2. nodeToTarjanID[k] \in Nat /\ nodeToTarjanID[i] \in Nat
        BY <1>2, <1>3
      <3>3. QED
        BY <1>3, <2>1, <3>1, <3>2
    <2>3. QED
      BY <1>4, <2>1, <2>2
  <1>17. LinksAreReached'
    <2> SUFFICES ASSUME NEW k \in Keys, InStack(k)'
                 PROVE  /\ lowLink[k] <= nodeToTarjanID[k]
                        /\ \E j \in Keys : InStack(j)' /\ j \in Reach(children, k)
                                           /\ lowLink[k] = nodeToTarjanID[j]
      BY <1>1, <1>8, <1>11 DEF LinksAreReached
    <2>1. lowLink[k] <= nodeToTarjanID[k]
      BY <1>8 DEF SearchInvariant, LinksAreReached
    <2>2. PICK j \in Keys : InStack(j) /\ j \in Reach(children, k) /\ lowLink[k] = nodeToTarjanID[j]
      BY <1>8 DEF SearchInvariant, LinksAreReached
    <2>3. nodeToTarjanID[j] < nodeToTarjanID[i]
      <3>1. nodeToTarjanID[k] < nodeToTarjanID[i]
        BY <1>6
      <3>2. /\ nodeToTarjanID[k] \in Nat /\ nodeToTarjanID[i] \in Nat
            /\ nodeToTarjanID[j] \in Nat
        BY <1>2, <1>3
      <3>3. QED
        BY <2>1, <2>2, <3>1, <3>2
    <2>4. QED
      BY <1>6, <2>1, <2>2, <2>3
  <1>18. LinksAreLeast'
    <2> SUFFICES ASSUME NEW p \in DOMAIN frames', NEW k \in Keys, NEW c \in Keys,
                        Above(p, k)', Explored(k, c)', InStack(c)'
                 PROVE  lowLink'[frames[p].id] <= nodeToTarjanID[c]
      BY <1>1, <1>4 DEF LinksAreLeast
    <2>1. Explored(k, c)
      <3>1. c # i
        BY <1>8, <1>9
      <3>2. QED
        BY <1>4, <3>1
    <2>2. Above(p, k)
      <3>1. /\ InStack(k)' /\ nodeToTarjanID[frames[p].id] <= nodeToTarjanID[k]
            /\ \A q \in DOMAIN frames' : p < q => nodeToTarjanID[k] < nodeToTarjanID[frames[q].id]
        BY <1>1, <1>4 DEF Above
      <3>2. nodeToTarjanID[k] < nodeToTarjanID[i]
        BY <1>6, <3>1
      <3>3. QED
        BY <1>3, <1>4, <1>8, <3>1, <3>2 DEF Above
    <2>3. lowLink[frames[p].id] <= nodeToTarjanID[c]
      BY <1>4, <1>8, <2>1, <2>2 DEF SearchInvariant, LinksAreLeast
    <2>4. QED
      BY <1>8, <1>9, <1>11, <2>3
  <1>19. ClosedAreLinked'
    <2> SUFFICES ASSUME NEW k \in Keys, IsClosed(k)'
                 PROVE  /\ \A c \in children[k] : IsClosed(c)'
                        /\ \A j \in SccOf(k) : lowLink'[j] = lowLink'[k]
                        /\ \E j \in SccOf(k) : IsClosed(j)' /\ lowLink'[k] = nodeToTarjanID[j]
      BY <1>1 DEF ClosedAreLinked, SccOf
    <2>1. CASE k \in C
      <3>1. \A c \in children[k] : IsClosed(c)'
        BY <1>2, <1>5, <1>8, <2>1
      <3>2. \A j \in SccOf(k) : lowLink'[j] = lowLink'[k]
        BY <1>5, <1>11, <2>1
      <3>3. \E j \in SccOf(k) : IsClosed(j)' /\ lowLink'[k] = nodeToTarjanID[j]
        <4>1. \A j \in Keys : j = i => IsClosed(j)'
          BY <1>8, <1>9
        <4>2. i \in SccOf(k) /\ lowLink'[k] = nodeToTarjanID[i]
          BY <1>5, <1>11, <2>1
        <4>3. QED
          BY <1>3, <4>1, <4>2
      <3>4. QED
        BY <3>1, <3>2, <3>3
    <2>2. CASE IsClosed(k)
      <3>1. \A j \in SccOf(k) : j \in Keys /\ IsClosed(j) /\ j \notin C
        <4>1. \A j \in SccOf(k) : j \in Keys /\ IsClosed(j)
          BY <2>2, ClosedReachClosed, SccFacts DEF SearchInvariant
        <4>2. QED
          BY <1>5, <4>1 DEF IsClosed
      <3>2. k \notin C
        BY <1>5, <2>2 DEF IsClosed
      <3>3. /\ \A c \in children[k] : IsClosed(c)
            /\ \A j \in SccOf(k) : lowLink[j] = lowLink[k]
            /\ \E j \in SccOf(k) : IsClosed(j) /\ lowLink[k] = nodeToTarjanID[j]
        BY <2>2 DEF SearchInvariant, ClosedAreLinked
      <3>4. \A c \in children[k] : IsClosed(c)'
        BY <1>2, <1>8, <3>3
      <3>5. QED
        BY <1>8, <1>11, <3>1, <3>2, <3>3, <3>4
    <2>3. QED
      BY <1>8, <2>1, <2>2
  <1>20. QED
    BY <1>12, <1>13, <1>14, <1>15, <1>16, <1>17, <1>18, <1>19 DEF SearchInvariant

-----------------------------------------------------------------------------
(* Every step of the search keeps the invariant.                           *)
LEMMA SearchKeeps == SearchInvariant /\ Next => SearchInvariant'
  <1> SUFFICES ASSUME SearchInvariant, Next PROVE SearchInvariant'
    OBVIOUS
  <1>1. CASE NextRoot
    BY <1>1, RootKeeps
  <1>2. CASE SearchChild
    BY <1>2, ChildKeeps
  <1>3. CASE SkipChild
    BY <1>3, SkipKeeps
  <1>4. CASE ReturnFromNode
    BY <1>4, ReturnOpenKeeps, ReturnClosedKeeps
  <1>5. QED
    BY <1>1, <1>2, <1>3, <1>4 DEF Next

(* So does a step that changes nothing of the search.                      *)
LEMMA SearchStutters == SearchInvariant /\ UNCHANGED vars => SearchInvariant'
  <1> SUFFICES ASSUME SearchInvariant, UNCHANGED vars PROVE SearchInvariant'
    OBVIOUS
  <1>1. /\ children' = children /\ numOfNodes' = numOfNodes /\ Keys' = Keys
        /\ UNCHANGED <<nextRoot, frames, stack, currentTarjanID, nodeToTarjanID, lowLink>>
    BY DEF vars, input, Keys
  <1>2. /\ \A k : Visited(k)' <=> Visited(k)
        /\ \A k : InStack(k)' <=> InStack(k)
        /\ \A k : IsClosed(k)' <=> IsClosed(k)
        /\ \A k, c : Explored(k, c)' <=> Explored(k, c)
        /\ \A p, k : Above(p, k)' <=> Above(p, k)
    BY <1>1 DEF Visited, InStack, IsClosed, Explored, Above
  <1>3. InputOK' /\ TypeOK'
    BY <1>1 DEF SearchInvariant, InputOK, TypeOK
  <1>4. NumbersInOrder'
    <2>1. {i \in Keys : Visited(i)}' = {i \in Keys : Visited(i)}
      BY <1>1, <1>2
    <2>2. QED
      BY <1>1, <1>2, <2>1 DEF SearchInvariant, NumbersInOrder
  <1>5. StackInOrder' /\ FramesInOrder' /\ ExploredAreVisited'
    BY <1>1, <1>2 DEF SearchInvariant, StackInOrder, FramesInOrder, ExploredAreVisited
  <1>6. FramesReachUp' /\ OpenReachDown'
    BY <1>1, <1>2 DEF SearchInvariant, FramesReachUp, OpenReachDown
  <1>7. LinksAreReached' /\ LinksAreLeast' /\ ClosedAreLinked'
    BY <1>1, <1>2 DEF SearchInvariant, LinksAreReached, LinksAreLeast, ClosedAreLinked, SccOf
  <1>8. QED
    BY <1>3, <1>4, <1>5, <1>6, <1>7 DEF SearchInvariant

(* When the search is over no node is open, and the links are those of the *)
(* components.                                                             *)
LEMMA LinksOfFinished == SearchInvariant => LinksAreComponents
  <1> SUFFICES ASSUME SearchInvariant, Finished, NEW i \in Keys, NEW j \in Keys
               PROVE  lowLink[i] = lowLink[j] <=> j \in SccOf(i)
    BY DEF LinksAreComponents
  <1>1. \A k \in Keys : IsClosed(k)
    <2> SUFFICES ASSUME NEW k \in Keys PROVE Visited(k) /\ ~InStack(k)
      BY DEF IsClosed
    <2>1. k < nextRoot
      <3>1. nextRoot \in Nat /\ numOfNodes \in Nat /\ nextRoot > numOfNodes
        BY StateFacts DEF Finished
      <3>2. QED
        BY <3>1 DEF Keys
    <2>2. Visited(k)
      BY <2>1 DEF SearchInvariant, NumbersInOrder
    <2>3. frames = <<>>
      BY DEF Finished
    <2>4. QED
      BY <2>2, <2>3 DEF SearchInvariant, OpenReachDown
  <1>2. \A k \in SccOf(i) : lowLink[k] = lowLink[i]
    BY <1>1 DEF SearchInvariant, ClosedAreLinked
  <1>3. PICK a \in SccOf(i) : IsClosed(a) /\ lowLink[i] = nodeToTarjanID[a]
    BY <1>1 DEF SearchInvariant, ClosedAreLinked
  <1>4. PICK b \in SccOf(j) : IsClosed(b) /\ lowLink[j] = nodeToTarjanID[b]
    BY <1>1 DEF SearchInvariant, ClosedAreLinked
  <1>5. a \in Keys /\ b \in Keys
    BY <1>3, <1>4, SccFacts DEF SearchInvariant
  <1>6. lowLink[i] = lowLink[j] => a = b
    BY <1>3, <1>4, <1>5 DEF SearchInvariant, NumbersInOrder, IsClosed
  <1>7. a = b => j \in SccOf(i)
    <2>1. a \in SccOf(i) /\ (b \in SccOf(j) => j \in SccOf(b))
      BY SccFacts DEF SearchInvariant
    <2>2. QED
      BY <1>4, <1>5, <2>1, SccFacts DEF SearchInvariant
  <1>8. QED
    BY <1>2, <1>6, <1>7

(* A component is closed as a whole.                                       *)
LEMMA WholeComponents == SearchInvariant => ClosedComponentsAreWhole
  <1> SUFFICES ASSUME SearchInvariant, NEW i \in Keys, IsClosed(i), NEW j \in SccOf(i)
               PROVE  Visited(j) /\ ~InStack(j) /\ lowLink[j] = lowLink[i]
    BY DEF ClosedComponentsAreWhole, IsClosed
  <1>1. IsClosed(j)
    BY ClosedReachClosed, SccFacts DEF SearchInvariant
  <1>2. QED
    BY <1>1 DEF SearchInvariant, ClosedAreLinked, IsClosed

(* No step changes the link of a closed node.                              *)
LEMMA ClosedLinksStay ==
    ASSUME SearchInvariant, Next, NEW i \in Keys, Visited(i), ~InStack(i)
    PROVE  lowLink'[i] = lowLink[i]
  <1>1. lowLink \in [Keys -> Nat]
    BY StateFacts
  <1>2. CASE NextRoot
    BY <1>1, <1>2 DEF NextRoot, Enter
  <1>3. CASE SearchChild
    BY <1>1, <1>3 DEF SearchChild, Enter
  <1>4. CASE SkipChild
    <2>1. InStack(Top.id) /\ lowLink' = [lowLink EXCEPT ![Top.id] = LinkBack(@, NextChild)]
      BY <1>4, TopFacts DEF SkipChild
    <2>2. QED
      BY <1>1, <2>1
  <1>5. CASE ReturnFromNode
    <2> DEFINE n == Len(frames)
               h == frames[n - 1].id
               t == Top.id
               closed == IF ClosesComponent(t)
                         THEN [k \in Keys |-> IF k \in Component(t) THEN nodeToTarjanID[t]
                                                                    ELSE lowLink[k]]
                         ELSE lowLink
    <2>1. /\ \A p \in DOMAIN frames' : p \in DOMAIN frames
          /\ IF n - 1 \in DOMAIN frames'
             THEN lowLink' = [closed EXCEPT ![h] = Lesser(@, closed[t])]
             ELSE lowLink' = closed
      BY <1>5, ReturnFacts
    <2>2. t \in Keys /\ InStack(t)
      BY <1>5, TopFacts DEF ReturnFromNode
    <2>3. i \notin Component(t)
      BY <2>2, ComponentFacts
    <2>4. n - 1 \in DOMAIN frames' => h # i
      BY <2>1, StateFacts
    <2>5. closed[i] = lowLink[i] /\ DOMAIN closed = Keys
      BY <1>1, <2>3
    <2> HIDE DEF closed, h, t, n
    <2>6. QED
      BY <2>1, <2>4, <2>5
  <1>6. QED
    BY <1>2, <1>3, <1>4, <1>5 DEF Next
=============================================================================
