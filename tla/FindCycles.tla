----------------------------- MODULE FindCycles -----------------------------
(***************************************************************************)
(* findCycles of pkg/graph/cache.go: Tarjan's depth-first search for the   *)
(* strongly connected components of the children graph.                    *)
(*                                                                         *)
(* The recursion of tarjanDFS is a sequence of frames, one per call that   *)
(* has not returned: the node and the children whose turn has not come, in *)
(* ascending order.  A child stays in its frame until its call returns.    *)
(* inStack of the code is the set of the elements of stack.                *)
(***************************************************************************)
EXTENDS CachePromise, Sequences, SequencesExt

VARIABLES
    children,        \* the children of the nodes in allNodes
    numOfNodes,      \* how many rows Cache read
    nextRoot,        \* the loop variable of findCycles
    frames,          \* calls of tarjanDFS: [id, left]
    stack,           \* visited nodes whose component is open
    currentTarjanID,
    nodeToTarjanID,  \* 0: not visited
    lowLink          \* 0: not visited

input == <<children, numOfNodes>>
vars == <<input, nextRoot, frames, stack,
          currentTarjanID, nodeToTarjanID, lowLink>>

Keys == 1..numOfNodes
Visited(i) == nodeToTarjanID[i] # 0
InStack(i) == i \in ToSet(stack)

Lesser(a, b) == IF a < b THEN a ELSE b

-----------------------------------------------------------------------------
(* Entering tarjanDFS(i) on top of the frames fs.                          *)
Enter(i, fs) ==
    /\ currentTarjanID' = currentTarjanID + 1
    /\ stack' = Append(stack, i)
    /\ nodeToTarjanID' = [nodeToTarjanID EXCEPT ![i] = currentTarjanID + 1]
    /\ lowLink' = [lowLink EXCEPT ![i] = currentTarjanID + 1]
    /\ frames' = Append(fs, [id |-> i, left |-> children[i]])

Top == Last(frames)
NextChild == CHOOSE c \in Top.left : \A d \in Top.left : c <= d
TopWithoutNext == Append(Front(frames), [Top EXCEPT !.left = @ \ {NextChild}])

Init ==
    /\ nextRoot = 1
    /\ frames = <<>>
    /\ stack = <<>>
    /\ currentTarjanID = 0
    /\ nodeToTarjanID = [i \in Keys |-> 0]
    /\ lowLink = [i \in Keys |-> 0]

(* The loop over the IDs: the search starts at those not yet visited.      *)
NextRoot ==
    /\ frames = <<>>
    /\ nextRoot <= numOfNodes
    /\ nextRoot' = nextRoot + 1
    /\ IF Visited(nextRoot)
       THEN UNCHANGED <<frames, stack, currentTarjanID, nodeToTarjanID, lowLink>>
       ELSE Enter(nextRoot, frames)
    /\ UNCHANGED input

(* Mutant of SearchChild: a visited child is searched again.               *)
MutantSearchChild ==
    /\ frames # <<>>
    /\ Top.left # {}
    /\ Enter(NextChild, frames)
    /\ UNCHANGED <<input, nextRoot>>

(* A child that was not visited is searched first.                         *)
SearchChild ==
    /\ frames # <<>>
    /\ Top.left # {}
    /\ ~Visited(NextChild)
    /\ Enter(NextChild, frames)
    /\ UNCHANGED <<input, nextRoot>>

(* Mutants of LinkBack: inStack is not asked; the link is never lowered.   *)
MutantLinkBack(link, child) == Lesser(link, nodeToTarjanID[child])
MutantNoLinkBack(link, child) == link

(* A child visited before the frame came to it whose component is open     *)
(* lowers the link of the node, one whose component is closed does not.    *)
LinkBack(link, child) ==
    IF InStack(child) THEN Lesser(link, nodeToTarjanID[child]) ELSE link

SkipChild ==
    /\ frames # <<>>
    /\ Top.left # {}
    /\ Visited(NextChild)
    /\ lowLink' = [lowLink EXCEPT ![Top.id] = LinkBack(@, NextChild)]
    /\ frames' = TopWithoutNext
    /\ UNCHANGED <<input, nextRoot, stack, currentTarjanID, nodeToTarjanID>>

(* A node that links to nothing older closes its component: the nodes on   *)
(* the stack down to it get its link.                                      *)
Position(i) == CHOOSE k \in DOMAIN stack : stack[k] = i
Component(i) == {stack[k] : k \in Position(i)..Len(stack)}
ClosesComponent(i) == nodeToTarjanID[i] = lowLink[i]

(* The call for the top node returns, and the node that called it takes    *)
(* over its link.                                                          *)
ReturnFromNode ==
    /\ frames # <<>>
    /\ Top.left = {}
    /\ LET i == Top.id
           closed == IF ClosesComponent(i)
                     THEN [k \in Keys |-> IF k \in Component(i)
                                          THEN nodeToTarjanID[i]
                                          ELSE lowLink[k]]
                     ELSE lowLink
           callers == Front(frames)
       IN  /\ stack' = IF ClosesComponent(i)
                       THEN SubSeq(stack, 1, Position(i) - 1)
                       ELSE stack
           /\ IF callers = <<>>
              THEN frames' = callers /\ lowLink' = closed
              ELSE LET caller == Last(callers)
                   IN  /\ frames' = Append(Front(callers),
                                           [caller EXCEPT !.left = @ \ {i}])
                       /\ lowLink' = [closed EXCEPT ![caller.id] =
                                        Lesser(@, closed[i])]
    /\ UNCHANGED <<input, nextRoot, currentTarjanID, nodeToTarjanID>>

Next == NextRoot \/ SearchChild \/ SkipChild \/ ReturnFromNode

Finished == frames = <<>> /\ nextRoot > numOfNodes

-----------------------------------------------------------------------------
TypeOK ==
    /\ nextRoot \in 1..(numOfNodes + 1)
    /\ frames \in Seq([id : Keys, left : SUBSET Keys])
    /\ stack \in Seq(Keys)
    /\ currentTarjanID \in 0..numOfNodes
    /\ nodeToTarjanID \in [Keys -> 0..numOfNodes]
    /\ lowLink \in [Keys -> 0..numOfNodes]

(* The component of i that module CachePromise speaks of.                  *)
SccOf(i) == Scc([children |-> children], i)

(* Two nodes get the same link exactly when they are in a common cycle:    *)
(* buildCache shares one cache value among the nodes with equal links.     *)
LinksAreComponents ==
    Finished => \A i, j \in Keys :
                    lowLink[i] = lowLink[j] <=> j \in SccOf(i)

(* A component leaves the stack only as a whole: the visited nodes that    *)
(* are off the stack are a union of components.                            *)
ClosedComponentsAreWhole ==
    \A i \in Keys : Visited(i) /\ ~InStack(i) =>
        \A j \in SccOf(i) : Visited(j) /\ ~InStack(j) /\ lowLink[j] = lowLink[i]

(* The link of a node whose component is closed never changes again.       *)
ClosedLinksAreFinal ==
    [][\A i \in Keys : Visited(i) /\ ~InStack(i) => lowLink'[i] = lowLink[i]]_vars
=============================================================================
