---------------------- MODULE GraphStoreOneWriterProof ----------------------
(***************************************************************************)
(* Proofs about GraphStore for one writer beside any number of clients     *)
(* that cache, clear and query, with failures anywhere: no edge is lost,   *)
(* an edge at one end only is at the end that depends, neither caches nor  *)
(* answers name what the stored edges do not reach, walks miss nothing,    *)
(* and names are unique while the name index can be read.  And for one     *)
(* client that does everything: what is unmarked has a cache, caches are   *)
(* exact, and Cache panics over lost IDs only.                             *)
(***************************************************************************)
EXTENDS GraphStoreProof

(* Two writers lose edges (run lost_update): a hypothesis of the theorems. *)
OneWriter == \A p, q \in Writers : p = q

-----------------------------------------------------------------------------
(* The inductive invariant of rows.  The copies that the writer holds are  *)
(* those of the rows, or what the rows are about to become; edges join     *)
(* nodes that are saved.                                                   *)
WriterSteps ==
    {"GenerateID", "SaveNewNode", "SaveNewCache", "GetTo", "SaveFrom", "SaveTo"}

WritersWrite == \A p \in Procs : req[p].at \in WriterSteps => p \in Writers

WithParent(row, i) == [row EXCEPT !.parents = @ \cup {i}]

CopiesAreFresh ==
    \A p \in Procs :
        /\ req[p].at = "GetTo" => req[p].fromCopy = rows[req[p].from]
        /\ req[p].at = "SaveFrom" => req[p].fromCopy = WithChild(rows[req[p].from], req[p].to)
        /\ req[p].at = "SaveTo" => req[p].to \in rows[req[p].from].children
        /\ req[p].at \in {"SaveFrom", "SaveTo"} =>
              /\ req[p].toCopy = WithParent(rows[req[p].to], req[p].from)
              /\ req[p].from # req[p].to

EdgesJoinSaved ==
    \A i \in Ids : \A j \in rows[i].children \cup rows[i].parents : i \in Saved /\ j \in Saved

EdgeInvariant ==
    /\ NameInvariant
    /\ WritersWrite
    /\ CopiesAreFresh
    /\ ParentsAreMirrored
    /\ EdgesJoinSaved

(* What a step may do to the rows.                                         *)
RowsGrow == \A i \in Ids : /\ rows[i].children \subseteq rows'[i].children
                           /\ rows[i].parents \subseteq rows'[i].parents

-----------------------------------------------------------------------------
(* The inductive invariant of queries.  What a query has collected stays   *)
(* within every set that holds its node and that no edge leaves; and there *)
(* is a graph, the rows of the moment when it came in, of which all edges  *)
(* are still stored, and of which the walk has followed all edges of the   *)
(* nodes that it has taken from its queue.                                 *)
AskSteps == {"QueryNodes", "QueryCaches", "QueryStack", "QueryWalk"}

Around(dir, i) == {S \in Closed(Asserted(Stored, dir)) : i \in S}

StaysInside(q) ==
    q.at \in {"QueryCaches", "QueryStack", "QueryWalk", "Answered"} =>
        \A S \in Around(q.dir, q.node) :
            /\ q.at \in {"QueryCaches", "QueryStack"} => q.first \subseteq S
            /\ q.at = "QueryStack" => q.all \subseteq S
            /\ q.at = "QueryWalk" => q.result \subseteq S /\ q.queue \subseteq S
            /\ q.at = "Answered" => q.answer \subseteq S

Walked(q) == (q.result \cup {q.node}) \ q.queue

FollowsFrom(q, next) ==
    /\ q.floor = Reach(next, q.node)
    /\ \A i \in Ids : next[i] \subseteq rows[i][q.dir]
    /\ q.at \in {"QueryCaches", "QueryStack"} => next[q.node] \subseteq q.first
    /\ q.at = "QueryWalk" =>
          \A k \in Walked(q) : next[k] \subseteq q.result \cup {q.node}

Follows(q) ==
    /\ q.at \in AskSteps =>
          q.floor \subseteq q.keys /\ \E next \in Adjacency : FollowsFrom(q, next)
    /\ q.at = "Answered" /\ q.walked => q.floor \subseteq q.answer

QueriesStayInside == \A p \in Procs : StaysInside(req[p])
QueriesFollow == \A p \in Procs : Follows(req[p])

QueryInvariant ==
    /\ EdgeInvariant
    /\ CachesInventNothing
    /\ QueriesStayInside
    /\ QueriesFollow

-----------------------------------------------------------------------------
(* A request that moves on leaves the others where they are.               *)
LEMMA Moves ==
    ASSUME TypeOK, NEW p \in Procs, NEW r, Goto(p, r)
    PROVE  req'[p] = r /\ \A q \in Procs : q # p => req'[q] = req[q]
  BY DEF TypeOK, Goto

(* Nobody writes beside a client that writes.                              *)
LEMMA WriterAlone ==
    ASSUME OneWriter, WritersWrite, NEW p \in Procs, p \in Writers,
           NEW q \in Procs, req[q].at \in WriterSteps
    PROVE  q = p
  BY DEF OneWriter, WritersWrite

(* The steps that neither add a node nor an edge.                          *)
LEMMA ReadersMove ==
    ASSUME TypeOK, NEW p \in Procs,
           \/ Cache(p) \/ GetAllKeys(p) \/ GetNodes(p) \/ SaveCaches(p)
           \/ ClearCacheStack(p) \/ RemoveAllCaches(p)
           \/ \E i \in Ids, dir \in Directions : Query(p, i, dir)
           \/ QueryNodes(p) \/ QueryCaches(p) \/ QueryStack(p) \/ QueryWalk(p)
           \/ Reply(p) \/ Fail(p)
    PROVE  /\ UNCHANGED <<rows, nameToId, counter>>
           /\ \A q \in Procs : q # p => req'[q] = req[q]
           /\ req'[p].at \notin WriterSteps
  <1>1. UNCHANGED <<rows, nameToId, counter>>
    BY DEF tables, Cache, GetAllKeys, GetNodes, SaveCaches, ClearCacheStack, RemoveAllCaches,
       Query, QueryNodes, QueryCaches, QueryStack, QueryWalk, Reply, Fail
  <1> DEFINE Goal == /\ \A q \in Procs : q # p => req'[q] = req[q]
                     /\ req'[p].at \notin WriterSteps
  <1> SUFFICES Goal
    BY <1>1
  <1>2. ASSUME NEW r, Goto(p, r), r.at \notin WriterSteps PROVE Goal
    BY <1>2, Moves
  <1>3. CASE Cache(p) \/ GetAllKeys(p)
    BY <1>2, <1>3 DEF Cache, GetAllKeys, WriterSteps
  <1>4. CASE GetNodes(p)
    <2>1. CASE Goto(p, Idle)
      BY <1>2, <2>1 DEF Idle, WriterSteps
    <2>2. ASSUME NEW K, NEW B, Goto(p, [at |-> "SaveCaches", unsaved |-> K, built |-> B])
          PROVE  Goal
      BY <1>2, <2>2 DEF WriterSteps
    <2>3. QED
      BY <1>4, <2>1, <2>2, Zenon DEF GetNodes
  <1>5. CASE SaveCaches(p)
    <2>1. req[p] \in Built
      BY <1>5, Kinds DEF SaveCaches, TypeOK
    <2>2. CASE Goto(p, [at |-> "ClearCacheStack"])
      BY <1>2, <2>2 DEF WriterSteps
    <2>3. ASSUME NEW batch, Goto(p, [req[p] EXCEPT !.unsaved = @ \ batch])
          PROVE  Goal
      <3>1. [req[p] EXCEPT !.unsaved = @ \ batch].at = "SaveCaches"
        BY <2>1 DEF Built
      <3>2. QED
        BY <1>2, <2>3, <3>1 DEF WriterSteps
    <2>4. QED
      BY <1>5, <2>2, <2>3 DEF SaveCaches
  <1>6. CASE ClearCacheStack(p) \/ Reply(p) \/ Fail(p)
    BY <1>2, <1>6 DEF ClearCacheStack, Reply, Fail, Idle, WriterSteps
  <1>7. CASE RemoveAllCaches(p)
    BY <1>7 DEF RemoveAllCaches, Idle, WriterSteps
  <1>8. CASE \E i \in Ids, dir \in Directions : Query(p, i, dir)
    BY <1>2, <1>8 DEF Query, WriterSteps
  <1>9. CASE QueryNodes(p) \/ QueryCaches(p)
    BY <1>2, <1>9 DEF QueryNodes, QueryCaches, WriterSteps
  <1>10. ASSUME NEW nodes, NEW walked, Answer(p, nodes, walked) PROVE Goal
    BY <1>2, <1>10 DEF Answer, WriterSteps
  <1>11. CASE QueryStack(p)
    <2>1. CASE Goto(p, Idle)
      BY <1>2, <2>1 DEF Idle, WriterSteps
    <2>2. ASSUME NEW K, NEW D, NEW N, NEW F, NEW R, NEW Q,
                 Goto(p, [at |-> "QueryWalk", keys |-> K, dir |-> D, node |-> N,
                          floor |-> F, result |-> R, queue |-> Q])
          PROVE  Goal
      BY <1>2, <2>2 DEF WriterSteps
    <2>3. QED
      BY <1>10, <1>11, <2>1, <2>2, Zenon DEF QueryStack
  <1>12. CASE QueryWalk(p)
    <2>1. req[p] \in Request /\ req[p].at = "QueryWalk"
      BY <1>12 DEF QueryWalk, TypeOK
    <2>2. ASSUME NEW R, NEW Q, Goto(p, [req[p] EXCEPT !.result = R, !.queue = Q])
          PROVE  Goal
      <3>1. [req[p] EXCEPT !.result = R, !.queue = Q].at = "QueryWalk"
        BY <2>1 DEF Request, Idle, AddRequest, DependencyRequest, CacheRequest, QueryRequest
      <3>2. QED
        BY <1>2, <2>2, <3>1 DEF WriterSteps
    <2>3. QED
      BY <1>10, <1>12, <2>2, Zenon DEF QueryWalk
  <1>13. QED
    BY <1>3, <1>4, <1>5, <1>6, <1>7, <1>8, <1>9, <1>11, <1>12

-----------------------------------------------------------------------------
(* The storage starts without edges.                                       *)
LEMMA InitEdges == Init => EdgeInvariant
  <1> SUFFICES ASSUME Init PROVE EdgeInvariant
    OBVIOUS
  <1>1. NameInvariant
    BY InitNames
  <1>2. \A i \in Ids : rows[i].children = {} /\ rows[i].parents = {}
    BY DEF Init, NewRow, NoRow
  <1>3. WritersWrite /\ CopiesAreFresh
    BY DEF Init, Idle, WritersWrite, WriterSteps, CopiesAreFresh
  <1>4. ParentsAreMirrored /\ EdgesJoinSaved
    BY <1>2 DEF ParentsAreMirrored, EdgesJoinSaved
  <1>5. QED
    BY <1>1, <1>3, <1>4 DEF EdgeInvariant

(* A step that saves no node, of a request that holds no copy of one.      *)
LEMMA IdleEdges ==
    ASSUME EdgeInvariant, NameInvariant', NEW p \in Procs, rows' = rows,
           \A q \in Procs : q # p => req'[q] = req[q],
           req'[p].at \notin {"GetTo", "SaveFrom", "SaveTo"},
           req'[p].at \in WriterSteps => p \in Writers
    PROVE  EdgeInvariant' /\ RowsGrow
  <1>1. ParentsAreMirrored' /\ EdgesJoinSaved' /\ RowsGrow
    BY DEF EdgeInvariant, ParentsAreMirrored, EdgesJoinSaved, Saved, RowsGrow
  <1>2. WritersWrite'
    BY DEF EdgeInvariant, WritersWrite
  <1>3. CopiesAreFresh'
    BY DEF EdgeInvariant, CopiesAreFresh
  <1>4. QED
    BY <1>1, <1>2, <1>3 DEF EdgeInvariant

(* A step of the writer: nobody else holds a copy.                         *)
LEMMA OneCopy ==
    ASSUME OneWriter, WritersWrite, NEW p \in Procs, p \in Writers,
           \A q \in Procs : q # p => req'[q] = req[q],
           /\ req'[p].at = "GetTo" => req'[p].fromCopy = rows'[req'[p].from]
           /\ req'[p].at = "SaveFrom" =>
                 req'[p].fromCopy = WithChild(rows'[req'[p].from], req'[p].to)
           /\ req'[p].at = "SaveTo" => req'[p].to \in rows'[req'[p].from].children
           /\ req'[p].at \in {"SaveFrom", "SaveTo"} =>
                 /\ req'[p].toCopy = WithParent(rows'[req'[p].to], req'[p].from)
                 /\ req'[p].from # req'[p].to
    PROVE  WritersWrite' /\ CopiesAreFresh'
  <1>1. ASSUME NEW q \in Procs, q # p PROVE req'[q].at \notin WriterSteps
    BY <1>1, WriterAlone
  <1>2. WritersWrite'
    BY <1>1 DEF WritersWrite
  <1>3. ASSUME NEW q \in Procs, q # p
        PROVE  req'[q].at \notin {"GetTo", "SaveFrom", "SaveTo"}
    BY <1>1, <1>3 DEF WriterSteps
  <1>4. CopiesAreFresh'
    BY <1>3 DEF CopiesAreFresh
  <1>5. QED
    BY <1>2, <1>4

(* AddNode: the row that is replaced was never saved, and has no edges.    *)
LEMMA AddEdges ==
    ASSUME OneWriter, EdgeInvariant, NameInvariant', NEW p \in Procs,
           (\E n \in Names : AddNode(p, n)) \/ GenerateID(p) \/ SaveNewNode(p) \/ SaveNewCache(p)
    PROVE  EdgeInvariant' /\ RowsGrow
  <1>1. TypeOK /\ req[p] \in Request /\ WritersWrite
    BY DEF EdgeInvariant, NameInvariant, TypeOK
  <1>2. ASSUME NEW n \in Names, AddNode(p, n) PROVE EdgeInvariant' /\ RowsGrow
    BY <1>1, <1>2, Moves, IdleEdges DEF AddNode, tables
  <1>3. CASE GenerateID(p)
    <2>1. p \in Writers
      BY <1>1, <1>3 DEF GenerateID, WritersWrite, WriterSteps
    <2>2. QED
      BY <1>1, <1>3, <2>1, Moves, IdleEdges DEF GenerateID
  <1>4. CASE SaveNewCache(p)
    BY <1>1, <1>4, Moves, IdleEdges DEF SaveNewCache, Idle, WriterSteps
  <1>5. CASE SaveNewNode(p)
    <2> DEFINE id == req[p].id
               row == NewRow(req[p].name)
    <2>1. req[p] \in Numbered /\ req[p].at = "SaveNewNode" /\ p \in Writers
      BY <1>1, <1>5, Kinds DEF SaveNewNode, WritersWrite, WriterSteps
    <2>2. id \in Ids /\ row.name \in Names /\ row.children = {} /\ row.parents = {}
      BY <2>1 DEF Numbered, NewRow
    <2>3. id \notin Saved
      BY <2>1 DEF EdgeInvariant, NameInvariant, NewIDsAreFree, Saved
    <2>4. \A i \in Ids : id \notin rows[i].children \cup rows[i].parents
      BY <2>3 DEF EdgeInvariant, EdgesJoinSaved
    <2>5. rows[id].children = {} /\ rows[id].parents = {}
      BY <1>1, <2>2, <2>3 DEF EdgeInvariant, EdgesJoinSaved, TypeOK, Row
    <2>6. rows'[id] = row /\ \A k \in Ids : k # id => rows'[k] = rows[k]
      BY <1>1, <1>5, <2>2 DEF SaveNewNode, SaveNode, TypeOK
    <2>7. RowsGrow /\ \A i \in Ids : /\ rows'[i].children = rows[i].children
                                     /\ rows'[i].parents = rows[i].parents
      BY <2>2, <2>5, <2>6 DEF RowsGrow
    <2>8. Saved \subseteq Saved'
      BY <2>3, <2>6 DEF Saved
    <2>9. ParentsAreMirrored' /\ EdgesJoinSaved'
      BY <2>7, <2>8 DEF EdgeInvariant, ParentsAreMirrored, EdgesJoinSaved
    <2>10. req'[p].at = "SaveNewCache" /\ \A q \in Procs : q # p => req'[q] = req[q]
      BY <1>1, <1>5, <2>1 DEF SaveNewNode, Goto, TypeOK, Numbered
    <2>11. WritersWrite' /\ CopiesAreFresh'
      BY <1>1, <2>1, <2>10, OneCopy
    <2>12. QED
      BY <2>7, <2>9, <2>11 DEF EdgeInvariant
  <1>6. QED
    BY <1>2, <1>3, <1>4, <1>5

(* SetDependency: what is saved is the row of the moment with one more     *)
(* edge, first at the node that depends.                                   *)
LEMMA DependencyEdges ==
    ASSUME OneWriter, EdgeInvariant, NameInvariant', NEW p \in Procs,
           \/ \E i \in Ids : SetDependency(p, i)
           \/ \E j \in Ids : GetTo(p, j)
           \/ SaveFrom(p) \/ SaveTo(p)
    PROVE  EdgeInvariant' /\ RowsGrow
  <1>1. TypeOK /\ req[p] \in Request /\ WritersWrite /\ rows \in [Ids -> Row]
    BY DEF EdgeInvariant, NameInvariant, TypeOK
  <1>2. ASSUME rows' = rows
        PROVE  ParentsAreMirrored' /\ EdgesJoinSaved' /\ RowsGrow
    BY <1>2 DEF EdgeInvariant, ParentsAreMirrored, EdgesJoinSaved, Saved, RowsGrow
  <1>3. ASSUME NEW i \in Ids, SetDependency(p, i) PROVE EdgeInvariant' /\ RowsGrow
    <2>1. /\ req'[p] = [at |-> "GetTo", from |-> i, fromCopy |-> rows[i]]
          /\ \A q \in Procs : q # p => req'[q] = req[q]
          /\ rows' = rows /\ p \in Writers
      BY <1>1, <1>3, Moves DEF SetDependency, tables
    <2>2. WritersWrite' /\ CopiesAreFresh'
      BY <1>1, <2>1, OneCopy
    <2>3. QED
      BY <1>2, <2>1, <2>2 DEF EdgeInvariant
  <1>4. ASSUME NEW j \in Ids, GetTo(p, j) PROVE EdgeInvariant' /\ RowsGrow
    <2>1. req[p] \in FromRead /\ req[p].at = "GetTo" /\ p \in Writers
      BY <1>1, <1>4, Kinds DEF GetTo, WritersWrite, WriterSteps
    <2>2. rows' = rows
      BY <1>4 DEF GetTo, tables
    <2>3. CASE Refused(req[p].from, j)
      BY <1>1, <1>4, <2>1, <2>2, <2>3, Moves, IdleEdges DEF GetTo, Idle
    <2>4. CASE ~Refused(req[p].from, j)
      <3> DEFINE from == req[p].from
                 r == [at |-> "SaveFrom", from |-> from, to |-> j,
                       fromCopy |-> WithChild(req[p].fromCopy, j),
                       toCopy |-> [rows[j] EXCEPT !.parents = @ \cup {from}]]
      <3>1. req'[p] = r /\ \A q \in Procs : q # p => req'[q] = req[q]
        BY <1>1, <1>4, <2>4, Moves DEF GetTo
      <3>2. req[p].fromCopy = rows[from]
        BY <2>1 DEF EdgeInvariant, CopiesAreFresh
      <3>3. from # j
        BY <2>4 DEF Refused
      <3>4. /\ req'[p].at = "SaveFrom" /\ req'[p].from = from /\ req'[p].to = j
            /\ req'[p].fromCopy = WithChild(rows'[from], j)
            /\ req'[p].toCopy = WithParent(rows'[j], from)
        BY <2>2, <3>1, <3>2 DEF WithParent
      <3>5. WritersWrite' /\ CopiesAreFresh'
        BY <1>1, <2>1, <3>1, <3>3, <3>4, OneCopy
      <3>6. QED
        BY <1>2, <2>2, <3>5 DEF EdgeInvariant
    <2>5. QED
      BY <2>3, <2>4
  <1>5. ASSUME req[p].at \in {"SaveFrom", "SaveTo"}
        PROVE  /\ req[p] \in BothRead /\ p \in Writers
               /\ req[p].from \in Ids /\ req[p].to \in Ids /\ req[p].from # req[p].to
               /\ req[p].from \in Saved /\ req[p].to \in Saved
               /\ req[p].toCopy = WithParent(rows[req[p].to], req[p].from)
    <2>1. req[p] \in BothRead /\ p \in Writers
      BY <1>1, <1>5, Kinds DEF WritersWrite, WriterSteps
    <2>2. /\ req[p].from \in Ids /\ req[p].to \in Ids /\ req[p].from # req[p].to
          /\ req[p].toCopy = WithParent(rows[req[p].to], req[p].from)
      BY <1>5, <2>1 DEF BothRead, EdgeInvariant, CopiesAreFresh
    <2>3. rows[req[p].from].name \in Names /\ rows[req[p].to].name \in Names
      BY <1>5 DEF EdgeInvariant, NameInvariant, CopiesAgree
    <2>4. QED
      BY <2>1, <2>2, <2>3, NamesAssumption DEF Saved
  <1>6. CASE SaveFrom(p)
    <2> DEFINE from == req[p].from
               to == req[p].to
    <2>1. /\ req[p] \in BothRead /\ p \in Writers
          /\ from \in Ids /\ to \in Ids /\ from # to
          /\ from \in Saved /\ to \in Saved
          /\ req[p].toCopy = WithParent(rows[to], from)
      BY <1>5, <1>6 DEF SaveFrom
    <2>2. req[p].fromCopy = WithChild(rows[from], to)
      BY <1>6 DEF SaveFrom, EdgeInvariant, CopiesAreFresh
    <2>3. /\ rows'[from] = WithChild(rows[from], to)
          /\ \A k \in Ids : k # from => rows'[k] = rows[k]
      BY <1>1, <1>6, <2>1, <2>2 DEF SaveFrom, SaveNode
    <2>4. /\ rows'[from].name = rows[from].name
          /\ rows'[from].parents = rows[from].parents
          /\ rows'[from].children = rows[from].children \cup {to}
      BY <1>1, <2>1, <2>3 DEF WithChild, Row
    <2>5. Saved' = Saved /\ RowsGrow
      BY <2>3, <2>4 DEF Saved, RowsGrow
    <2>6. ParentsAreMirrored'
      BY <2>3, <2>4 DEF EdgeInvariant, ParentsAreMirrored
    <2>7. EdgesJoinSaved'
      BY <2>1, <2>3, <2>4, <2>5 DEF EdgeInvariant, EdgesJoinSaved
    <2>8. /\ req'[p].at = "SaveTo" /\ req'[p].from = from /\ req'[p].to = to
          /\ req'[p].toCopy = req[p].toCopy
          /\ \A q \in Procs : q # p => req'[q] = req[q]
      BY <1>1, <1>6, <2>1, Moves DEF SaveFrom, BothRead
    <2>9. req'[p].toCopy = WithParent(rows'[to], from)
      BY <2>1, <2>3, <2>8
    <2>10. WritersWrite' /\ CopiesAreFresh'
      BY <1>1, <2>1, <2>4, <2>8, <2>9, OneCopy
    <2>11. QED
      BY <2>5, <2>6, <2>7, <2>10 DEF EdgeInvariant
  <1>7. CASE SaveTo(p)
    <2> DEFINE from == req[p].from
               to == req[p].to
    <2>1. /\ req[p] \in BothRead /\ p \in Writers
          /\ from \in Ids /\ to \in Ids /\ from # to
          /\ from \in Saved /\ to \in Saved
          /\ req[p].toCopy = WithParent(rows[to], from)
      BY <1>5, <1>7 DEF SaveTo
    <2>2. to \in rows[from].children
      BY <1>7 DEF SaveTo, EdgeInvariant, CopiesAreFresh
    <2>3. /\ rows'[to] = WithParent(rows[to], from)
          /\ \A k \in Ids : k # to => rows'[k] = rows[k]
      BY <1>1, <1>7, <2>1 DEF SaveTo, SaveNode
    <2>4. /\ rows'[to].name = rows[to].name
          /\ rows'[to].children = rows[to].children
          /\ rows'[to].parents = rows[to].parents \cup {from}
      BY <1>1, <2>1, <2>3 DEF WithParent, Row
    <2>5. Saved' = Saved /\ RowsGrow
      BY <2>3, <2>4 DEF Saved, RowsGrow
    <2>6. ParentsAreMirrored'
      BY <2>1, <2>2, <2>3, <2>4 DEF EdgeInvariant, ParentsAreMirrored
    <2>7. EdgesJoinSaved'
      BY <2>1, <2>3, <2>4, <2>5 DEF EdgeInvariant, EdgesJoinSaved
    <2>8. req'[p].at = "idle" /\ \A q \in Procs : q # p => req'[q] = req[q]
      BY <1>1, <1>7, Moves DEF SaveTo, Idle
    <2>9. WritersWrite' /\ CopiesAreFresh'
      BY <1>1, <2>1, <2>8, OneCopy
    <2>10. QED
      BY <2>5, <2>6, <2>7, <2>9 DEF EdgeInvariant
  <1>8. QED
    BY <1>3, <1>4, <1>6, <1>7

(* Every step of any request keeps the invariant and all edges.            *)
LEMMA NextEdges ==
    ASSUME OneWriter, EdgeInvariant, [Next]_vars
    PROVE  EdgeInvariant' /\ RowsGrow
  <1>1. TypeOK /\ NameInvariant /\ NameInvariant'
    BY NextNames DEF EdgeInvariant, NameInvariant
  <1>2. CASE UNCHANGED vars
    BY <1>1, <1>2 DEF vars, tables, EdgeInvariant, WritersWrite, CopiesAreFresh,
       ParentsAreMirrored, EdgesJoinSaved, Saved, RowsGrow
  <1>3. ASSUME NEW p \in Procs, Start(p) \/ Continue(p) \/ Fail(p)
        PROVE  EdgeInvariant' /\ RowsGrow
    <2>1. CASE (\E n \in Names : AddNode(p, n)) \/ GenerateID(p) \/ SaveNewNode(p)
               \/ SaveNewCache(p)
      BY <1>1, <2>1, AddEdges
    <2>2. CASE \/ \E i \in Ids : SetDependency(p, i)
               \/ \E j \in Ids : GetTo(p, j)
               \/ SaveFrom(p) \/ SaveTo(p)
      BY <1>1, <2>2, DependencyEdges
    <2>3. CASE \/ Cache(p) \/ GetAllKeys(p) \/ GetNodes(p) \/ SaveCaches(p)
               \/ ClearCacheStack(p) \/ RemoveAllCaches(p)
               \/ \E i \in Ids, dir \in Directions : Query(p, i, dir)
               \/ QueryNodes(p) \/ QueryCaches(p) \/ QueryStack(p) \/ QueryWalk(p)
               \/ Reply(p) \/ Fail(p)
      <3>1. /\ UNCHANGED <<rows, nameToId, counter>>
            /\ \A q \in Procs : q # p => req'[q] = req[q]
            /\ req'[p].at \notin WriterSteps
        BY <1>1, <2>3, ReadersMove
      <3>2. req'[p].at \notin {"GetTo", "SaveFrom", "SaveTo"}
        BY <3>1 DEF WriterSteps
      <3>3. QED
        BY <1>1, <3>1, <3>2, IdleEdges
    <2>4. QED
      BY <1>3, <2>1, <2>2, <2>3 DEF Start, Continue
  <1>4. QED
    BY <1>2, <1>3 DEF Next

-----------------------------------------------------------------------------
(* The invariant of the rows holds in every state that is reached.          *)
LEMMA EdgeInvariance == OneWriter => (Spec => []EdgeInvariant)
  <1> SUFFICES ASSUME OneWriter PROVE Spec => []EdgeInvariant
    OBVIOUS
  <1>1. EdgeInvariant /\ [Next]_vars => EdgeInvariant'
    BY NextEdges
  <1>2. QED
    BY InitEdges, <1>1, PTL DEF Spec

(* With one writer no request takes an edge out of a row, whatever fails   *)
(* and whatever caches, clears and queries beside it: the copies that      *)
(* SetDependency saves are as fresh as the rows.                           *)
THEOREM EdgesKept == OneWriter => (Spec => EdgesOnlyGrow)
  <1> SUFFICES ASSUME OneWriter PROVE Spec => EdgesOnlyGrow
    OBVIOUS
  <1>1. EdgeInvariant /\ [Next]_vars =>
          [\A i \in Ids : /\ rows[i].children \subseteq rows'[i].children
                          /\ rows[i].parents \subseteq rows'[i].parents]_vars
    BY NextEdges DEF RowsGrow
  <1>2. QED
    BY EdgeInvariance, <1>1, PTL DEF Spec, EdgesOnlyGrow

(* With one writer an edge that a failure left at one end only is at the   *)
(* end that depends: findCycles, which follows children, misses none.      *)
THEOREM Mirrored == OneWriter => (Spec => []ParentsAreMirrored)
  <1> SUFFICES ASSUME OneWriter PROVE Spec => []ParentsAreMirrored
    OBVIOUS
  <1>1. EdgeInvariant => ParentsAreMirrored
    BY DEF EdgeInvariant
  <1>2. QED
    BY EdgeInvariance, <1>1, PTL

-----------------------------------------------------------------------------
(* Sets that no edge leaves.  Reach is the least that holds a node.        *)
LEMMA ReachLeast ==
    ASSUME NEW next, NEW i, NEW S \in Closed(next), i \in S
    PROVE  Reach(next, i) \subseteq S
  BY DEF Reach

(* A node reaches itself.                                                  *)
LEMMA ReachHolds ==
    ASSUME NEW next, NEW i \in Ids
    PROVE  i \in Reach(next, i)
  BY DEF Reach

(* No edge leaves what is reached.                                         *)
LEMMA ReachClosed ==
    ASSUME NEW next \in Adjacency, NEW i \in Ids
    PROVE  Reach(next, i) \in Closed(next)
  <1>1. Reach(next, i) \in SUBSET Ids
    BY DEF Reach
  <1>2. ASSUME NEW k \in Reach(next, i), NEW j \in next[k]
        PROVE  j \in Reach(next, i)
    <2>1. k \in Ids /\ j \in Ids
      BY <1>1, <1>2 DEF Adjacency
    <2>2. ASSUME NEW S \in Closed(next), i \in S PROVE j \in S
      <3>1. k \in S
        BY <2>2 DEF Reach
      <3>2. QED
        BY <3>1 DEF Closed
    <2>3. QED
      BY <2>1, <2>2 DEF Reach
  <1>3. QED
    BY <1>1, <1>2 DEF Closed

(* Fewer edges leave more sets closed.                                     *)
LEMMA ClosedGrows ==
    ASSUME NEW next \in Adjacency, NEW more \in Adjacency,
           \A i \in Ids : next[i] \subseteq more[i]
    PROVE  Closed(more) \subseteq Closed(next)
  BY DEF Closed

(* Recorded edges are a graph of their own.                                *)
LEMMA AssertedTyped ==
    ASSUME NEW g \in Graph, NEW dir \in Directions
    PROVE  Asserted(g, dir) \in Adjacency
  BY DEF Asserted, Graph, Adjacency, Directions

(* Rows record a graph.                                                    *)
LEMMA GraphTyped ==
    ASSUME NEW R \in [Ids -> Row]
    PROVE  GraphOf(R) \in Graph
  BY DEF GraphOf, Graph, Adjacency, Row

(* Seen from the other end of an edge, what is left out of a closed set is *)
(* closed.                                                                 *)
LEMMA ClosedOutside ==
    ASSUME NEW g \in Graph, NEW dir \in Directions, NEW S \in Closed(Asserted(g, dir)),
           dir = "parents"
    PROVE  Ids \ S \in Closed(g.children)
  <1>1. ASSUME NEW k \in Ids \ S, NEW j \in g.children[k] PROVE j \in Ids \ S
    <2>1. j \in Ids
      BY <1>1 DEF Graph, Adjacency
    <2>2. ASSUME j \in S PROVE FALSE
      <3>1. Asserted(g, dir)[j] \subseteq S
        BY <2>2 DEF Closed
      <3>2. k \in Asserted(g, dir)[j]
        BY <1>1, <2>1 DEF Asserted, Opposite
      <3>3. QED
        BY <1>1, <3>1, <3>2
    <2>3. QED
      BY <2>1, <2>2
  <1>2. QED
    BY <1>1 DEF Closed

(* A component stays within every closed set that it meets.                *)
LEMMA SccInside ==
    ASSUME NEW g \in Graph, NEW dir \in Directions, NEW S \in Closed(Asserted(g, dir)),
           NEW i \in S
    PROVE  Scc(g, i) \subseteq S
  <1>1. S \in SUBSET Ids /\ i \in Ids
    BY DEF Closed
  <1>2. CASE dir = "children"
    <2>1. S \in Closed(g.children)
      BY <1>1, <1>2 DEF Closed, Asserted, Graph, Adjacency
    <2>2. QED
      BY <2>1, ReachLeast DEF Scc
  <1>3. CASE dir = "parents"
    <2>1. Ids \ S \in Closed(g.children)
      BY <1>3, ClosedOutside
    <2>2. ASSUME NEW j \in Ids \ S PROVE i \notin Reach(g.children, j)
      BY <2>1, ReachLeast
    <2>3. Scc(g, i) \subseteq Ids
      BY DEF Scc, Reach
    <2>4. QED
      BY <2>2, <2>3 DEF Scc
  <1>4. QED
    BY <1>2, <1>3 DEF Directions

(* Whatever Cache builds for a node stays within every set that holds the  *)
(* node and that no recorded edge leaves.                                  *)
LEMMA PromiseInside ==
    ASSUME NEW g \in Graph, NEW K \in SUBSET Ids, NEW D, NEW dir \in Directions,
           NEW f \in Promise(g, K, D, dir), NEW i \in K,
           NEW S \in Closed(Asserted(g, dir)), i \in S
    PROVE  f[i] \subseteq S
  <1>1. CASE Symmetric(g, K)
    <2>1. f = Exact(g, K, D, dir)
      BY <1>1 DEF Promise
    <2>2. f[i] = Reach(g[dir], i) \/ f[i] = Scc(g, i)
      BY <2>1 DEF Exact
    <2>3. S \in Closed(g[dir])
      BY DEF Closed, Asserted
    <2>4. QED
      BY <2>2, <2>3, ReachLeast, SccInside
  <1>2. CASE ~Symmetric(g, K)
    <2> DEFINE b == [id |-> i, least |-> Scc(g, i), most |-> Reach(Asserted(g, dir), i)]
    <2>1. b.least \subseteq f[b.id] /\ f[b.id] \subseteq b.most
      BY <1>2 DEF Promise
    <2>2. QED
      BY <2>1, ReachLeast
  <1>3. QED
    BY <1>1, <1>2

(* When rows grow, what was closed may cease to be; nothing becomes so.    *)
LEMMA ClosedShrinks ==
    ASSUME TypeOK, TypeOK', RowsGrow, NEW dir \in Directions
    PROVE  Closed(Asserted(Stored, dir))' \subseteq Closed(Asserted(Stored, dir))
  <1>1. rows \in [Ids -> Row] /\ rows' \in [Ids -> Row]
    BY DEF TypeOK
  <1>2. GraphOf(rows) \in Graph /\ GraphOf(rows') \in Graph
    BY <1>1, GraphTyped
  <1>3. /\ Asserted(GraphOf(rows), dir) \in Adjacency
        /\ Asserted(GraphOf(rows'), dir) \in Adjacency
    BY <1>2, AssertedTyped
  <1>4. ASSUME NEW i \in Ids
        PROVE  Asserted(GraphOf(rows), dir)[i] \subseteq Asserted(GraphOf(rows'), dir)[i]
    BY DEF RowsGrow, Asserted, GraphOf, Directions, Opposite
  <1>5. Closed(Asserted(GraphOf(rows'), dir)) \subseteq Closed(Asserted(GraphOf(rows), dir))
    BY <1>3, <1>4, ClosedGrows
  <1>6. QED
    BY <1>5 DEF Stored

-----------------------------------------------------------------------------
(* The requests of queries that walk.                                      *)
Walking == [at : {"QueryWalk"}, keys : SUBSET Ids, dir : Directions, node : Ids,
            floor : SUBSET Ids, result : SUBSET Ids, queue : SUBSET Ids]

(* The fields of a walk and of an answer.                                  *)
LEMMA WalkKinds ==
    ASSUME NEW r \in Request
    PROVE  /\ r.at = "QueryWalk" => r \in Walking
           /\ r.at = "Answered" => r.dir \in Directions /\ r.node \in Ids
  BY DEF Request, Idle, AddRequest, DependencyRequest, CacheRequest, QueryRequest, Walking

(* The steps of other requests than queries.                               *)
LEMMA OthersMove ==
    ASSUME TypeOK, NEW p \in Procs,
           \/ \E n \in Names : AddNode(p, n)
           \/ GenerateID(p) \/ SaveNewNode(p) \/ SaveNewCache(p)
           \/ \E i \in Ids : SetDependency(p, i)
           \/ \E j \in Ids : GetTo(p, j)
           \/ SaveFrom(p) \/ SaveTo(p)
           \/ Cache(p) \/ GetAllKeys(p) \/ ClearCacheStack(p) \/ RemoveAllCaches(p)
           \/ Reply(p) \/ Fail(p)
    PROVE  /\ \A q \in Procs : q # p => req'[q] = req[q]
           /\ req'[p].at \notin AskSteps \cup {"Answered", "SaveCaches"}
           /\ \A i \in Ids : caches'[i] = caches[i] \/ caches'[i] = NewCache
  <1>1. \A i \in Ids : caches'[i] = caches[i] \/ caches'[i] = NewCache
    BY DEF tables, AddNode, GenerateID, SaveNewNode, SaveNewCache, SetDependency, GetTo,
       SaveFrom, SaveTo, Cache, GetAllKeys, ClearCacheStack, RemoveAllCaches, Reply, Fail, TypeOK
  <1> DEFINE Goal == /\ \A q \in Procs : q # p => req'[q] = req[q]
                     /\ req'[p].at \notin AskSteps \cup {"Answered", "SaveCaches"}
  <1> SUFFICES Goal
    BY <1>1
  <1>2. ASSUME NEW r, Goto(p, r), r.at \notin AskSteps \cup {"Answered", "SaveCaches"}
        PROVE  Goal
    BY <1>2, Moves
  <1>3. req[p] \in Request
    BY DEF TypeOK
  <1>4. CASE \E n \in Names : AddNode(p, n)
    BY <1>2, <1>4 DEF AddNode, AskSteps
  <1>5. CASE GenerateID(p)
    BY <1>2, <1>5 DEF GenerateID, AskSteps
  <1>6. CASE SaveNewNode(p)
    <2>1. req[p] \in Numbered
      BY <1>3, <1>6, Kinds DEF SaveNewNode
    <2>2. [req[p] EXCEPT !.at = "SaveNewCache"].at = "SaveNewCache"
      BY <2>1 DEF Numbered
    <2>3. QED
      BY <1>2, <1>6, <2>2 DEF SaveNewNode, AskSteps
  <1>7. CASE SaveNewCache(p) \/ SaveTo(p) \/ ClearCacheStack(p) \/ Reply(p) \/ Fail(p)
    BY <1>2, <1>7 DEF SaveNewCache, SaveTo, ClearCacheStack, Reply, Fail, Idle, AskSteps
  <1>8. CASE \E i \in Ids : SetDependency(p, i)
    BY <1>2, <1>8 DEF SetDependency, AskSteps
  <1>9. ASSUME NEW j \in Ids, GetTo(p, j) PROVE Goal
    <2>1. CASE Goto(p, Idle)
      BY <1>2, <2>1 DEF Idle, AskSteps
    <2>2. ASSUME NEW F, NEW T, NEW C, NEW D,
                 Goto(p, [at |-> "SaveFrom", from |-> F, to |-> T,
                          fromCopy |-> C, toCopy |-> D])
          PROVE  Goal
      BY <1>2, <2>2 DEF AskSteps
    <2>3. QED
      BY <1>9, <2>1, <2>2, Zenon DEF GetTo
  <1>10. CASE SaveFrom(p)
    <2>1. req[p] \in BothRead
      BY <1>3, <1>10, Kinds DEF SaveFrom
    <2>2. [req[p] EXCEPT !.at = "SaveTo"].at = "SaveTo"
      BY <2>1 DEF BothRead
    <2>3. QED
      BY <1>2, <1>10, <2>2 DEF SaveFrom, AskSteps
  <1>11. CASE Cache(p) \/ GetAllKeys(p)
    BY <1>2, <1>11 DEF Cache, GetAllKeys, AskSteps
  <1>12. CASE RemoveAllCaches(p)
    BY <1>12 DEF RemoveAllCaches, Idle, AskSteps
  <1>13. QED
    BY <1>4, <1>5, <1>6, <1>7, <1>8, <1>9, <1>10, <1>11, <1>12

(* Caches and what is built stay within closed sets when every cache that  *)
(* a step writes is empty or was built, and every cache it builds is.      *)
LEMMA CachesStay ==
    ASSUME TypeOK, TypeOK', CachesInventNothing, RowsGrow, NEW p \in Procs,
           \A q \in Procs : q # p => req'[q] = req[q],
           \A i \in Ids : \/ caches'[i] = caches[i]
                          \/ caches'[i] = NewCache
                          \/ req[p].at = "SaveCaches" /\ caches'[i] = req[p].built[i],
           req'[p].at = "SaveCaches" =>
              \A dir \in Directions : \A S \in Closed(Asserted(Stored, dir)) : \A i \in S :
                 req'[p].built[i][dir] \subseteq S
    PROVE  CachesInventNothing'
  <1> SUFFICES ASSUME NEW dir \in Directions,
                      NEW S \in Closed(Asserted(Stored, dir))', NEW i \in S
               PROVE  /\ caches'[i][dir] \subseteq S
                      /\ \A q \in Procs : req'[q].at = "SaveCaches" =>
                                             req'[q].built[i][dir] \subseteq S
    BY DEF CachesInventNothing
  <1>1. S \in Closed(Asserted(Stored, dir))
    BY ClosedShrinks
  <1>2. i \in Ids
    BY <1>1 DEF Closed
  <1>3. /\ caches[i][dir] \subseteq S
        /\ \A q \in Procs : req[q].at = "SaveCaches" => req[q].built[i][dir] \subseteq S
    BY <1>1 DEF CachesInventNothing
  <1>4. NewCache[dir] = {}
    BY DEF NewCache, Directions
  <1>5. caches'[i][dir] \subseteq S
    BY <1>2, <1>3, <1>4
  <1>6. ASSUME NEW q \in Procs, req'[q].at = "SaveCaches"
        PROVE  req'[q].built[i][dir] \subseteq S
    BY <1>1, <1>3, <1>6
  <1>7. QED
    BY <1>5, <1>6

(* What Cache builds from the rows it has read, on keys that may be out of *)
(* date, invents nothing.                                                  *)
LEMMA BuiltInside ==
    ASSUME TypeOK, NEW p \in Procs, GetNodes(p), req'[p].at = "SaveCaches",
           NEW dir \in Directions, NEW S \in Closed(Asserted(Stored, dir)), NEW i \in S
    PROVE  req'[p].built[i][dir] \subseteq S
  <1> DEFINE K == req[p].keys
             D == req[p].dirty
             R == [k \in Ids |-> IF k \in K THEN rows[k] ELSE NoRow]
             g == GraphOf(R)
             B(C, P) == [k \in Ids |-> IF k \in K THEN NodeCache(P[k], C[k]) ELSE NewCache]
  <1>1. /\ K \in SUBSET Ids /\ i \in Ids
        /\ rows \in [Ids -> Row] /\ R \in [Ids -> Row]
    BY Kinds DEF TypeOK, GetNodes, Keyed, Closed, NoRow, Row
  <1>2. g \in Graph /\ GraphOf(rows) \in Graph
    BY <1>1, GraphTyped
  <1>3. S \in Closed(Asserted(g, dir))
    <2>1. Asserted(g, dir) \in Adjacency /\ Asserted(GraphOf(rows), dir) \in Adjacency
      BY <1>2, AssertedTyped
    <2>2. ASSUME NEW k \in Ids
          PROVE  /\ R[k].children \subseteq rows[k].children
                 /\ R[k].parents \subseteq rows[k].parents
      BY <1>1 DEF NoRow, Row
    <2>3. ASSUME NEW k \in Ids
          PROVE  Asserted(g, dir)[k] \subseteq Asserted(GraphOf(rows), dir)[k]
      <3> HIDE DEF R
      <3> QED
        BY <2>2 DEF Asserted, GraphOf, Directions, Opposite
    <2>4. QED
      BY <2>1, <2>3, ClosedGrows DEF Stored
  <1>4. CASE Goto(p, Idle)
    BY <1>4, Moves DEF Idle
  <1>5. ASSUME NEW C \in Promise(g, K, D, "children"), NEW P \in Promise(g, K, D, "parents"),
               Goto(p, [at |-> "SaveCaches", unsaved |-> K, built |-> B(C, P)])
        PROVE  req'[p].built[i][dir] \subseteq S
    <2>1. req'[p].built[i] = B(C, P)[i]
      BY <1>5, Moves
    <2>2. CASE i \in K
      <3>1. B(C, P)[i] = NodeCache(P[i], C[i])
        BY <1>1, <2>2
      <3>2. CASE dir = "children"
        <4>1. C[i] \subseteq S
          BY <1>1, <1>2, <1>3, <1>5, <2>2, <3>2, PromiseInside
        <4>2. QED
          BY <2>1, <3>1, <3>2, <4>1 DEF NodeCache
      <3>3. CASE dir = "parents"
        <4>1. P[i] \subseteq S
          BY <1>1, <1>2, <1>3, <1>5, <2>2, <3>3, PromiseInside
        <4>2. QED
          BY <2>1, <3>1, <3>3, <4>1 DEF NodeCache
      <3>4. QED
        BY <3>2, <3>3 DEF Directions
    <2>3. CASE i \notin K
      BY <1>1, <2>1, <2>3 DEF NewCache, Directions
    <2>4. QED
      BY <2>2, <2>3
  <1>6. QED
    BY <1>4, <1>5, Zenon DEF GetNodes

-----------------------------------------------------------------------------
(* A closed set holds what the rows of its nodes lead to.                  *)
LEMMA RowInside ==
    ASSUME NEW dir \in Directions, NEW S \in Closed(Asserted(Stored, dir)), NEW k \in S
    PROVE  rows[k][dir] \subseteq S
  <1>1. k \in Ids /\ Asserted(Stored, dir)[k] \subseteq S
    BY DEF Closed
  <1>2. Stored[dir][k] \subseteq S
    BY <1>1 DEF Asserted
  <1>3. Stored[dir][k] = rows[k][dir]
    BY <1>1 DEF Stored, GraphOf, Directions
  <1>4. QED
    BY <1>2, <1>3

(* The steps of a query do not disturb the others, and what the stored     *)
(* edges close only shrinks: one request is left to look at.               *)
LEMMA QueriesStay ==
    ASSUME TypeOK, TypeOK', QueriesStayInside, QueriesFollow, RowsGrow, NEW p \in Procs,
           \A q \in Procs : q # p => req'[q] = req[q],
           StaysInside(req[p])', Follows(req[p])'
    PROVE  QueriesStayInside' /\ QueriesFollow'
  <1>1. ASSUME NEW q \in Procs, q # p PROVE StaysInside(req[q])'
    <2>1. SUFFICES ASSUME req[q].at \in {"QueryCaches", "QueryStack", "QueryWalk", "Answered"},
                          NEW S \in Around(req[q].dir, req[q].node)'
                   PROVE  /\ req[q].at \in {"QueryCaches", "QueryStack"} =>
                                req[q].first \subseteq S
                          /\ req[q].at = "QueryStack" => req[q].all \subseteq S
                          /\ req[q].at = "QueryWalk" =>
                                req[q].result \subseteq S /\ req[q].queue \subseteq S
                          /\ req[q].at = "Answered" => req[q].answer \subseteq S
      BY <1>1, Zenon DEF StaysInside
    <2>2. req[q] \in Request /\ req'[q] = req[q]
      BY <1>1 DEF TypeOK
    <2>3. req[q].dir \in Directions
      BY <2>1, <2>2, QueryKinds, WalkKinds
    <2>4. S \in Around(req[q].dir, req[q].node)
      BY <2>1, <2>2, <2>3, ClosedShrinks DEF Around
    <2>5. QED
      BY <2>1, <2>4 DEF QueriesStayInside, StaysInside
  <1>2. ASSUME NEW q \in Procs, q # p PROVE Follows(req[q])'
    <2>1. req'[q] = req[q] /\ req[q] \in Request
      BY <1>2 DEF TypeOK
    <2>2. Follows(req[q])
      BY DEF QueriesFollow
    <2>3. CASE req[q].at \in AskSteps
      <3>1. req[q].dir \in Directions
        BY <2>1, <2>3, QueryKinds DEF AskSteps
      <3>2. req[q].floor \subseteq req[q].keys
        BY <2>2, <2>3 DEF Follows
      <3>3. PICK next \in Adjacency : FollowsFrom(req[q], next)
        BY <2>2, <2>3 DEF Follows
      <3>4. \A i \in Ids : rows[i][req[q].dir] \subseteq rows'[i][req[q].dir]
        BY <3>1 DEF RowsGrow, Directions
      <3>5. FollowsFrom(req[q], next)'
        BY <2>1, <3>3, <3>4 DEF FollowsFrom, Walked
      <3>6. QED
        BY <2>1, <2>3, <3>2, <3>5 DEF Follows, AskSteps
    <2>4. CASE req[q].at \notin AskSteps
      BY <2>1, <2>2, <2>4 DEF Follows
    <2>5. QED
      BY <2>3, <2>4
  <1>3. QED
    BY <1>1, <1>2 DEF QueriesStayInside, QueriesFollow

(* A query comes in: its floor is the reach of the rows of this moment,    *)
(* and edges lead to saved nodes only.                                     *)
LEMMA QueryStarts ==
    ASSUME EdgeInvariant, NEW p \in Procs, NEW i \in Ids, NEW dir \in Directions,
           Query(p, i, dir)
    PROVE  StaysInside(req[p])' /\ Follows(req[p])'
  <1>1. TypeOK /\ rows \in [Ids -> Row]
    BY DEF EdgeInvariant, NameInvariant, TypeOK
  <1>2. PICK next \in Adjacency :
          next = GraphOf(rows)[dir] /\ \A k \in Ids : next[k] = rows[k][dir]
    BY <1>1, GraphTyped DEF GraphOf, Graph, Directions
  <1>3. /\ req'[p].at = "QueryNodes" /\ req'[p].keys = Saved /\ req'[p].dir = dir
        /\ req'[p].node = i /\ req'[p].floor = Reach(next, i)
    BY <1>1, <1>2, Moves DEF Query
  <1>4. i \in Saved /\ rows' = rows
    BY DEF Query, tables
  <1>5. Saved \in Closed(next)
    <2>1. ASSUME NEW k \in Saved PROVE next[k] \subseteq Saved
      BY <1>2 DEF EdgeInvariant, EdgesJoinSaved, Saved, Directions
    <2>2. QED
      BY <2>1 DEF Closed, Saved
  <1>6. Reach(next, i) \subseteq Saved
    BY <1>4, <1>5, ReachLeast
  <1>7. FollowsFrom(req[p], next)'
    BY <1>2, <1>3, <1>4 DEF FollowsFrom
  <1>8. QED
    BY <1>3, <1>6, <1>7 DEF StaysInside, Follows, AskSteps

(* A query reads the row and the cache of its node.                        *)
LEMMA QueryReads ==
    ASSUME TypeOK, CachesInventNothing, QueriesStayInside, QueriesFollow, NEW p \in Procs,
           QueryNodes(p) \/ QueryCaches(p)
    PROVE  StaysInside(req[p])' /\ Follows(req[p])'
  <1> DEFINE q == req[p]
  <1>1. q \in Request /\ StaysInside(q) /\ Follows(q) /\ q.at \in AskSteps
    BY DEF TypeOK, QueriesStayInside, QueriesFollow, QueryNodes, QueryCaches, AskSteps
  <1>2. /\ q.dir \in Directions /\ q.node \in Ids
    BY <1>1, QueryKinds DEF AskSteps
  <1>3. PICK next \in Adjacency : FollowsFrom(q, next)
    BY <1>1 DEF Follows
  <1>4. rows' = rows /\ q.floor \subseteq q.keys
    BY <1>1 DEF tables, QueryNodes, QueryCaches, Follows
  <1>5. ASSUME NEW S \in Around(q.dir, q.node)
        PROVE  rows[q.node][q.dir] \subseteq S /\ caches[q.node][q.dir] \subseteq S
    <2>1. S \in Closed(Asserted(Stored, q.dir)) /\ q.node \in S
      BY <1>5 DEF Around
    <2>2. rows[q.node][q.dir] \subseteq S
      BY <1>2, <2>1, RowInside
    <2>3. QED
      BY <1>2, <2>1, <2>2 DEF CachesInventNothing
  <1>6. CASE QueryNodes(p)
    <2>1. /\ q'.at = "QueryCaches" /\ q'.keys = q.keys /\ q'.dir = q.dir /\ q'.node = q.node
          /\ q'.floor = q.floor /\ q'.first = rows[q.node][q.dir]
      BY <1>6, Moves DEF QueryNodes
    <2>2. StaysInside(q)'
      BY <1>4, <1>5, <2>1 DEF StaysInside, Around, Stored
    <2>3. FollowsFrom(q, next)'
      BY <1>2, <1>3, <1>4, <2>1 DEF FollowsFrom
    <2>4. QED
      BY <1>4, <2>1, <2>2, <2>3 DEF Follows
  <1>7. CASE QueryCaches(p)
    <2>1. /\ q'.at = "QueryStack" /\ q'.keys = q.keys /\ q'.dir = q.dir /\ q'.node = q.node
          /\ q'.floor = q.floor /\ q'.first = q.first /\ q'.all = caches[q.node][q.dir]
      BY <1>7, Moves DEF QueryCaches, CacheOf
    <2>2. q.at = "QueryCaches"
      BY <1>7 DEF QueryCaches
    <2>3. StaysInside(q)'
      BY <1>1, <1>4, <1>5, <2>1, <2>2 DEF StaysInside, Around, Stored
    <2>4. FollowsFrom(q, next)'
      BY <1>3, <1>4, <2>1, <2>2 DEF FollowsFrom
    <2>5. QED
      BY <1>4, <2>1, <2>3, <2>4 DEF Follows
  <1>8. QED
    BY <1>6, <1>7

(* With nothing marked the cache is the answer; otherwise the walk starts, *)
(* having followed all edges of the node itself.                           *)
LEMMA QueryDecides ==
    ASSUME TypeOK, QueriesStayInside, QueriesFollow, NEW p \in Procs, QueryStack(p)
    PROVE  StaysInside(req[p])' /\ Follows(req[p])'
  <1> DEFINE q == req[p]
  <1>1. q \in Request /\ StaysInside(q) /\ Follows(q) /\ q.at = "QueryStack"
    BY DEF TypeOK, QueriesStayInside, QueriesFollow, QueryStack
  <1>2. PICK next \in Adjacency : FollowsFrom(q, next)
    BY <1>1 DEF Follows, AskSteps
  <1>3. rows' = rows /\ q.floor \subseteq q.keys
    BY <1>1 DEF tables, QueryStack, Follows, AskSteps
  <1>4. CASE Answer(p, q.all, FALSE)
    <2>1. /\ q'.at = "Answered" /\ q'.dir = q.dir /\ q'.node = q.node
          /\ q'.answer = q.all \cap q.keys /\ q'.walked = FALSE
      BY <1>4, Moves DEF Answer
    <2>2. StaysInside(q)'
      BY <1>1, <1>3, <2>1 DEF StaysInside, Around, Stored
    <2>3. QED
      BY <2>1, <2>2 DEF Follows, AskSteps
  <1>5. CASE Goto(p, Idle)
    BY <1>5, Moves DEF Idle, StaysInside, Follows, AskSteps
  <1>6. CASE Goto(p, [at |-> "QueryWalk", keys |-> q.keys, dir |-> q.dir,
                      node |-> q.node, floor |-> q.floor,
                      result |-> q.first, queue |-> q.first \ {q.node}])
    <2>1. /\ q'.at = "QueryWalk" /\ q'.keys = q.keys /\ q'.dir = q.dir /\ q'.node = q.node
          /\ q'.floor = q.floor /\ q'.result = q.first /\ q'.queue = q.first \ {q.node}
      BY <1>6, Moves
    <2>2. StaysInside(q)'
      BY <1>1, <1>3, <2>1 DEF StaysInside, Around, Stored
    <2>3. Walked(q)' = {q.node}
      BY <2>1 DEF Walked
    <2>4. next[q.node] \subseteq q.first
      BY <1>1, <1>2 DEF FollowsFrom
    <2>5. FollowsFrom(q, next)'
      BY <1>2, <1>3, <2>1, <2>3, <2>4 DEF FollowsFrom
    <2>6. QED
      BY <1>3, <2>1, <2>2, <2>5 DEF Follows
  <1>7. QED
    BY <1>4, <1>5, <1>6 DEF QueryStack

(* The walk: a node leaves the queue when all its edges are followed, so   *)
(* that nothing leads out of the result when the queue is empty.           *)
LEMMA QueryWalks ==
    ASSUME TypeOK, QueriesStayInside, QueriesFollow, NEW p \in Procs, QueryWalk(p)
    PROVE  StaysInside(req[p])' /\ Follows(req[p])'
  <1> DEFINE q == req[p]
  <1>1. q \in Request /\ StaysInside(q) /\ Follows(q) /\ q.at = "QueryWalk"
    BY DEF TypeOK, QueriesStayInside, QueriesFollow, QueryWalk
  <1>2. q \in Walking
    BY <1>1, WalkKinds
  <1>3. PICK next \in Adjacency : FollowsFrom(q, next)
    BY <1>1 DEF Follows, AskSteps
  <1>4. rows' = rows /\ q.floor \subseteq q.keys
    BY <1>1 DEF tables, QueryWalk, Follows, AskSteps
  <1>5. ASSUME NEW k \in q.queue,
               Goto(p, [q EXCEPT !.result = Found(q, rows[k][q.dir]),
                          !.queue = (@ \ {k}) \cup Unvisited(q, rows[k][q.dir])])
        PROVE  StaysInside(q)' /\ Follows(q)'
    <2> DEFINE more == rows[k][q.dir]
               r == [q EXCEPT !.result = Found(q, more),
                              !.queue = (@ \ {k}) \cup Unvisited(q, more)]
    <2>1. /\ r.at = "QueryWalk" /\ r.keys = q.keys /\ r.dir = q.dir /\ r.node = q.node
          /\ r.floor = q.floor /\ r.result = q.result \cup more
          /\ r.queue = (q.queue \ {k}) \cup (more \ (q.result \cup {q.node}))
      BY <1>2 DEF Walking, Found, Unvisited
    <2>2. q' = r
      <3>1. Goto(p, r)
        BY <1>5
      <3> HIDE DEF r
      <3>2. QED
        BY <3>1, Moves
    <2>3. k \in Ids /\ q.dir \in Directions
      BY <1>2 DEF Walking
    <2> HIDE DEF r
    <2>4. ASSUME NEW S \in Around(q.dir, q.node)
          PROVE  q.result \cup more \subseteq S /\ q.queue \subseteq S
      <3>1. q.result \subseteq S /\ q.queue \subseteq S
        BY <1>1, <2>4 DEF StaysInside
      <3>2. S \in Closed(Asserted(Stored, q.dir)) /\ k \in S
        BY <2>4, <3>1 DEF Around
      <3>3. more \subseteq S
        BY <2>3, <3>2, RowInside
      <3>4. QED
        BY <3>1, <3>3
    <2>5. StaysInside(q)'
      <3>1. Around(q.dir, q.node)' = Around(q.dir, q.node)
        BY <1>4, <2>1, <2>2 DEF Around, Stored
      <3>2. ASSUME NEW S \in Around(q.dir, q.node)'
            PROVE  q'.result \subseteq S /\ q'.queue \subseteq S
        BY <2>1, <2>2, <2>4, <3>1
      <3>3. q'.at = "QueryWalk"
        BY <2>1, <2>2
      <3>4. QED
        BY <3>2, <3>3 DEF StaysInside
    <2>6. next[k] \subseteq more
      BY <1>3, <2>3 DEF FollowsFrom
    <2>7. ASSUME NEW m \in Walked(r) PROVE next[m] \subseteq r.result \cup {r.node}
      <3>1. CASE m = k
        BY <2>1, <2>6, <3>1
      <3>2. CASE m # k
        <4>1. m \in Walked(q)
          BY <2>1, <2>7, <3>2 DEF Walked
        <4>2. next[m] \subseteq q.result \cup {q.node}
          BY <1>1, <1>3, <4>1 DEF FollowsFrom
        <4>3. QED
          BY <2>1, <4>2
      <3>3. QED
        BY <3>1, <3>2
    <2>8. FollowsFrom(q, next)'
      BY <1>3, <1>4, <2>1, <2>2, <2>7 DEF FollowsFrom, Walked
    <2>9. QED
      BY <1>4, <2>1, <2>2, <2>5, <2>8 DEF Follows
  <1>6. ASSUME q.queue = {}, Answer(p, q.result \cup {q.node}, TRUE)
        PROVE  StaysInside(q)' /\ Follows(q)'
    <2> DEFINE W == q.result \cup {q.node}
    <2>1. /\ q'.at = "Answered" /\ q'.dir = q.dir /\ q'.node = q.node
          /\ q'.floor = q.floor /\ q'.answer = W \cap q.keys
      BY <1>6, Moves DEF Answer
    <2>2. StaysInside(q)'
      <3>1. ASSUME NEW S \in Around(q.dir, q.node) PROVE W \subseteq S
        BY <1>1, <3>1 DEF StaysInside, Around
      <3>2. QED
        BY <1>4, <2>1, <3>1 DEF StaysInside, Around, Stored
    <2>3. W \in Closed(next) /\ q.node \in W
      BY <1>1, <1>2, <1>3, <1>6 DEF Walking, FollowsFrom, Walked, Closed
    <2>4. q.floor \subseteq W
      BY <1>3, <2>3, ReachLeast DEF FollowsFrom
    <2>5. QED
      BY <1>4, <2>1, <2>2, <2>4 DEF Follows, AskSteps
  <1>7. QED
    BY <1>5, <1>6, Zenon DEF QueryWalk

-----------------------------------------------------------------------------
(* Where a cache request stands after the two steps that build and save.   *)
LEMMA BuildersMove ==
    ASSUME TypeOK, NEW p \in Procs, GetNodes(p) \/ SaveCaches(p)
    PROVE  /\ \A q \in Procs : q # p => req'[q] = req[q]
           /\ req'[p].at \in {"idle", "SaveCaches", "ClearCacheStack"}
           /\ GetNodes(p) => caches' = caches
  <1>1. GetNodes(p) => caches' = caches
    BY DEF GetNodes, tables
  <1> DEFINE Goal == /\ \A q \in Procs : q # p => req'[q] = req[q]
                     /\ req'[p].at \in {"idle", "SaveCaches", "ClearCacheStack"}
  <1> SUFFICES Goal
    BY <1>1
  <1>2. ASSUME NEW r, Goto(p, r), r.at \in {"idle", "SaveCaches", "ClearCacheStack"}
        PROVE  Goal
    BY <1>2, Moves
  <1>3. CASE GetNodes(p)
    <2>1. CASE Goto(p, Idle)
      BY <1>2, <2>1 DEF Idle
    <2>2. ASSUME NEW K, NEW B, Goto(p, [at |-> "SaveCaches", unsaved |-> K, built |-> B])
          PROVE  Goal
      BY <1>2, <2>2
    <2>3. QED
      BY <1>3, <2>1, <2>2, Zenon DEF GetNodes
  <1>4. CASE SaveCaches(p)
    <2>1. req[p] \in Built
      BY <1>4, Kinds DEF SaveCaches, TypeOK
    <2>2. CASE Goto(p, [at |-> "ClearCacheStack"])
      BY <1>2, <2>2
    <2>3. ASSUME NEW batch, Goto(p, [req[p] EXCEPT !.unsaved = @ \ batch])
          PROVE  Goal
      <3>1. [req[p] EXCEPT !.unsaved = @ \ batch].at = "SaveCaches"
        BY <2>1 DEF Built
      <3>2. QED
        BY <1>2, <2>3, <3>1
    <2>4. QED
      BY <1>4, <2>2, <2>3 DEF SaveCaches
  <1>5. QED
    BY <1>3, <1>4

(* SaveCaches writes what was built and keeps the rest of it for later.    *)
LEMMA SavesBuilt ==
    ASSUME TypeOK, NEW p \in Procs, SaveCaches(p)
    PROVE  /\ req[p].at = "SaveCaches"
           /\ req'[p].at = "SaveCaches" => req'[p].built = req[p].built
           /\ \A i \in Ids : caches'[i] = caches[i] \/ caches'[i] = req[p].built[i]
  <1>1. req[p] \in Built /\ req[p].at = "SaveCaches"
    BY Kinds DEF SaveCaches, TypeOK
  <1>2. PICK batch \in SUBSET req[p].unsaved :
          /\ caches' = [i \in Ids |-> IF i \in batch THEN req[p].built[i] ELSE caches[i]]
          /\ IF batch = req[p].unsaved
             THEN Goto(p, [at |-> "ClearCacheStack"])
             ELSE Goto(p, [req[p] EXCEPT !.unsaved = @ \ batch])
    BY DEF SaveCaches
  <1>3. CASE Goto(p, [at |-> "ClearCacheStack"])
    BY <1>1, <1>2, <1>3, Moves
  <1>4. CASE Goto(p, [req[p] EXCEPT !.unsaved = @ \ batch])
    <2> DEFINE r == [req[p] EXCEPT !.unsaved = @ \ batch]
    <2>1. r.built = req[p].built
      BY <1>1 DEF Built
    <2> HIDE DEF r
    <2>2. QED
      BY <1>1, <1>2, <1>4, <2>1, Moves DEF r
  <1>5. QED
    BY <1>2, <1>3, <1>4

(* The steps of queries build and save no cache.                           *)
LEMMA QueriesMove ==
    ASSUME TypeOK, NEW p \in Procs,
           \/ \E i \in Ids, dir \in Directions : Query(p, i, dir)
           \/ QueryNodes(p) \/ QueryCaches(p) \/ QueryStack(p) \/ QueryWalk(p)
    PROVE  /\ \A q \in Procs : q # p => req'[q] = req[q]
           /\ req'[p].at # "SaveCaches"
           /\ caches' = caches
  <1>1. caches' = caches
    BY DEF Query, QueryNodes, QueryCaches, QueryStack, QueryWalk, tables
  <1> DEFINE Goal == /\ \A q \in Procs : q # p => req'[q] = req[q]
                     /\ req'[p].at # "SaveCaches"
  <1> SUFFICES Goal
    BY <1>1
  <1>2. ASSUME NEW r, Goto(p, r), r.at # "SaveCaches" PROVE Goal
    BY <1>2, Moves
  <1>3. CASE \E i \in Ids, dir \in Directions : Query(p, i, dir)
    BY <1>2, <1>3 DEF Query
  <1>4. CASE QueryNodes(p) \/ QueryCaches(p)
    BY <1>2, <1>4 DEF QueryNodes, QueryCaches
  <1>5. ASSUME NEW nodes, NEW walked, Answer(p, nodes, walked) PROVE Goal
    BY <1>2, <1>5 DEF Answer
  <1>6. CASE QueryStack(p)
    <2>1. CASE Goto(p, Idle)
      BY <1>2, <2>1 DEF Idle
    <2>2. ASSUME NEW K, NEW D, NEW N, NEW F, NEW R, NEW Q,
                 Goto(p, [at |-> "QueryWalk", keys |-> K, dir |-> D, node |-> N,
                          floor |-> F, result |-> R, queue |-> Q])
          PROVE  Goal
      BY <1>2, <2>2
    <2>3. QED
      BY <1>5, <1>6, <2>1, <2>2, Zenon DEF QueryStack
  <1>7. CASE QueryWalk(p)
    <2>1. req[p] \in Walking
      BY <1>7, WalkKinds DEF QueryWalk, TypeOK
    <2>2. ASSUME NEW R, NEW Q, Goto(p, [req[p] EXCEPT !.result = R, !.queue = Q])
          PROVE  Goal
      <3>1. [req[p] EXCEPT !.result = R, !.queue = Q].at = "QueryWalk"
        BY <2>1 DEF Walking
      <3>2. QED
        BY <1>2, <2>2, <3>1
    <2>3. QED
      BY <1>5, <1>7, <2>2, Zenon DEF QueryWalk
  <1>8. QED
    BY <1>3, <1>4, <1>6, <1>7

(* The storage starts with empty caches and without queries.               *)
LEMMA InitQueries == Init => QueryInvariant
  <1> SUFFICES ASSUME Init PROVE QueryInvariant
    OBVIOUS
  <1>1. EdgeInvariant
    BY InitEdges
  <1>2. \A p \in Procs : req[p].at = "idle"
    BY DEF Init, Idle
  <1>3. CachesInventNothing
    <2>1. ASSUME NEW dir \in Directions, NEW S \in Closed(Asserted(Stored, dir)), NEW i \in S
          PROVE  caches[i][dir] \subseteq S
      BY DEF Init, NewCache, Directions, Closed
    <2>2. QED
      BY <1>2, <2>1 DEF CachesInventNothing
  <1>4. QueriesStayInside /\ QueriesFollow
    BY <1>2 DEF QueriesStayInside, QueriesFollow, StaysInside, Follows, AskSteps
  <1>5. QED
    BY <1>1, <1>3, <1>4 DEF QueryInvariant

(* Every step of any request keeps the invariant of the queries.           *)
LEMMA NextQueries ==
    ASSUME OneWriter, QueryInvariant, [Next]_vars
    PROVE  QueryInvariant'
  <1>1. /\ EdgeInvariant /\ CachesInventNothing /\ QueriesStayInside /\ QueriesFollow
        /\ EdgeInvariant' /\ RowsGrow
    BY NextEdges DEF QueryInvariant
  <1>2. TypeOK /\ TypeOK'
    BY <1>1 DEF EdgeInvariant, NameInvariant
  <1> SUFFICES CachesInventNothing' /\ QueriesStayInside' /\ QueriesFollow'
    BY <1>1 DEF QueryInvariant
  <1>3. CASE UNCHANGED vars
    BY <1>1, <1>3 DEF vars, tables, CachesInventNothing, QueriesStayInside, QueriesFollow,
       StaysInside, Around, Stored, Follows, FollowsFrom, Walked
  <1>4. ASSUME NEW p \in Procs, Start(p) \/ Continue(p) \/ Fail(p)
        PROVE  CachesInventNothing' /\ QueriesStayInside' /\ QueriesFollow'
    <2>1. CASE \/ \E n \in Names : AddNode(p, n)
               \/ GenerateID(p) \/ SaveNewNode(p) \/ SaveNewCache(p)
               \/ \E i \in Ids : SetDependency(p, i)
               \/ \E j \in Ids : GetTo(p, j)
               \/ SaveFrom(p) \/ SaveTo(p)
               \/ Cache(p) \/ GetAllKeys(p) \/ ClearCacheStack(p) \/ RemoveAllCaches(p)
               \/ Reply(p) \/ Fail(p)
      <3>1. /\ \A q \in Procs : q # p => req'[q] = req[q]
            /\ req'[p].at \notin AskSteps \cup {"Answered", "SaveCaches"}
            /\ \A i \in Ids : caches'[i] = caches[i] \/ caches'[i] = NewCache
        BY <1>2, <2>1, OthersMove
      <3>2. CachesInventNothing'
        BY <1>1, <1>2, <3>1, CachesStay
      <3>3. StaysInside(req[p])' /\ Follows(req[p])'
        BY <3>1 DEF StaysInside, Follows, AskSteps
      <3>4. QED
        BY <1>1, <1>2, <3>1, <3>2, <3>3, QueriesStay
    <2>2. ASSUME GetNodes(p) \/ SaveCaches(p)
          PROVE  CachesInventNothing' /\ QueriesStayInside' /\ QueriesFollow'
      <3>1. /\ \A q \in Procs : q # p => req'[q] = req[q]
            /\ req'[p].at \in {"idle", "SaveCaches", "ClearCacheStack"}
            /\ GetNodes(p) => caches' = caches
        BY <1>2, <2>2, BuildersMove
      <3>2. ASSUME req'[p].at = "SaveCaches",
                   NEW dir \in Directions, NEW S \in Closed(Asserted(Stored, dir)), NEW i \in S
            PROVE  req'[p].built[i][dir] \subseteq S
        <4>1. CASE GetNodes(p)
          BY <1>2, <3>2, <4>1, BuiltInside
        <4>2. CASE SaveCaches(p)
          BY <1>1, <1>2, <3>2, <4>2, SavesBuilt DEF CachesInventNothing
        <4>3. QED
          BY <2>2, <4>1, <4>2
      <3>3. \A i \in Ids : \/ caches'[i] = caches[i]
                           \/ req[p].at = "SaveCaches" /\ caches'[i] = req[p].built[i]
        BY <1>2, <2>2, <3>1, SavesBuilt
      <3>4. CachesInventNothing'
        BY <1>1, <1>2, <3>1, <3>2, <3>3, CachesStay
      <3>5. StaysInside(req[p])' /\ Follows(req[p])'
        BY <3>1 DEF StaysInside, Follows, AskSteps
      <3>6. QED
        BY <1>1, <1>2, <3>1, <3>4, <3>5, QueriesStay
    <2>3. CASE \/ \E i \in Ids, dir \in Directions : Query(p, i, dir)
               \/ QueryNodes(p) \/ QueryCaches(p) \/ QueryStack(p) \/ QueryWalk(p)
      <3>1. /\ \A q \in Procs : q # p => req'[q] = req[q]
            /\ req'[p].at # "SaveCaches"
            /\ caches' = caches
        BY <1>2, <2>3, QueriesMove
      <3>2. CachesInventNothing'
        BY <1>1, <1>2, <3>1, CachesStay
      <3>3. StaysInside(req[p])' /\ Follows(req[p])'
        BY <1>1, <1>2, <2>3, QueryStarts, QueryReads, QueryDecides, QueryWalks
      <3>4. QED
        BY <1>1, <1>2, <3>1, <3>2, <3>3, QueriesStay
    <2>4. QED
      BY <1>4, <2>1, <2>2, <2>3 DEF Start, Continue
  <1>5. QED
    BY <1>3, <1>4 DEF Next

(* So does the one of the queries.                                         *)
LEMMA QueryInvariance == OneWriter => (Spec => []QueryInvariant)
  <1> SUFFICES ASSUME OneWriter PROVE Spec => []QueryInvariant
    OBVIOUS
  <1>1. QueryInvariant /\ [Next]_vars => QueryInvariant'
    BY NextQueries
  <1>2. QED
    BY InitQueries, <1>1, PTL DEF Spec

(* With one writer no cache, saved or still in the memory of a request,    *)
(* ever names a node that the stored edges do not reach: not when Cache    *)
(* reads rows that half a SetDependency has left, when it saves what it    *)
(* built long before, or when two requests save their batches at a time.   *)
THEOREM CachesSound == OneWriter => (Spec => []CachesInventNothing)
  <1> SUFFICES ASSUME OneWriter PROVE Spec => []CachesInventNothing
    OBVIOUS
  <1>1. QueryInvariant => CachesInventNothing
    BY DEF QueryInvariant
  <1>2. QED
    BY QueryInvariance, <1>1, PTL

(* With one writer no answer of Service.Query, from the cache or walked,   *)
(* names a node that the stored edges do not reach.                        *)
THEOREM AnswersSound == OneWriter => (Spec => []AnswersInventNothing)
  <1> SUFFICES ASSUME OneWriter PROVE Spec => []AnswersInventNothing
    OBVIOUS
  <1>1. ASSUME QueryInvariant, NEW p \in Procs, req[p].at = "Answered"
        PROVE  req[p].answer \subseteq Reachable(req[p].dir, req[p].node)
    <2> DEFINE q == req[p]
               next == Asserted(Stored, q.dir)
    <2>1. TypeOK /\ StaysInside(q)
      BY <1>1 DEF QueryInvariant, EdgeInvariant, NameInvariant, QueriesStayInside
    <2>2. rows \in [Ids -> Row] /\ q \in Request
      BY <2>1 DEF TypeOK
    <2>3. q.dir \in Directions /\ q.node \in Ids
      BY <1>1, <2>2, WalkKinds
    <2>4. next \in Adjacency
      BY <2>2, <2>3, GraphTyped, AssertedTyped DEF Stored
    <2>5. Reach(next, q.node) \in Around(q.dir, q.node)
      BY <2>3, <2>4, ReachClosed, ReachHolds DEF Around
    <2>6. QED
      BY <1>1, <2>1, <2>5 DEF StaysInside, Reachable
  <1>2. QueryInvariant => AnswersInventNothing
    BY <1>1 DEF AnswersInventNothing
  <1>3. QED
    BY QueryInvariance, <1>2, PTL

(* With one writer an answer that was walked misses no node that the rows  *)
(* made reachable when the question came, although SetDependency changes   *)
(* rows that the walk has read, or has yet to read.                        *)
THEOREM WalksComplete == OneWriter => (Spec => []WalksMissNothing)
  <1> SUFFICES ASSUME OneWriter PROVE Spec => []WalksMissNothing
    OBVIOUS
  <1>1. QueryInvariant => WalksMissNothing
    BY DEF QueryInvariant, QueriesFollow, Follows, WalksMissNothing
  <1>2. QED
    BY QueryInvariance, <1>1, PTL

-----------------------------------------------------------------------------
(* The inductive invariant of unique names: the index leads to every saved *)
(* row, and to nothing for a name that is about to be saved.               *)
IndexComplete == \A i \in Saved : nameToId[rows[i].name] = i

NewNamesAreFree ==
    \A p \in Procs : req[p].at \in {"GenerateID", "SaveNewNode"} => nameToId[req[p].name] = 0

IndexInvariant == EdgeInvariant /\ IndexComplete /\ NewNamesAreFree

(* The storage starts with a name index of all its rows.                   *)
LEMMA InitIndex == Init => IndexInvariant
  <1> SUFFICES ASSUME Init PROVE IndexInvariant
    OBVIOUS
  <1>1. NewNamesAreFree
    BY DEF Init, Idle, NewNamesAreFree
  <1>2. ASSUME NEW i \in Saved PROVE nameToId[rows[i].name] = i
    <2>1. i \in DOMAIN Loaded /\ rows[i].name = Loaded[i]
      BY NamesAssumption DEF Init, Saved, NewRow, NoRow
    <2>2. Loaded[i] \in Names
      BY <2>1, LoadedAssumption
    <2>3. nameToId[Loaded[i]] = CHOOSE k \in DOMAIN Loaded : Loaded[k] = Loaded[i]
      BY <2>1, <2>2 DEF Init
    <2>4. QED
      BY <2>1, <2>3, LoadedAssumption
  <1>3. QED
    BY InitEdges, <1>1, <1>2 DEF IndexInvariant, IndexComplete

(* A save over a row of the same name leaves the index as it is.           *)
LEMMA ResaveIndex ==
    ASSUME TypeOK, IndexComplete, NEW i \in Saved, NEW row, row.name = rows[i].name,
           SaveNode(i, row)
    PROVE  nameToId' = nameToId /\ IndexComplete'
  <1>1. i \in Ids /\ nameToId[row.name] = i /\ row.name \in Names
    BY DEF Saved, IndexComplete, TypeOK, Row
  <1>2. nameToId' = nameToId
    BY <1>1 DEF SaveNode, TypeOK
  <1>3. \A k \in Ids : rows'[k].name = rows[k].name
    BY <1>1 DEF SaveNode, TypeOK
  <1>4. QED
    BY <1>2, <1>3 DEF IndexComplete, Saved

(* Every step of any request keeps the index complete.                     *)
LEMMA NextIndex ==
    ASSUME OneWriter, ~IndexMayFail, IndexInvariant, [Next]_vars
    PROVE  IndexInvariant'
  <1>1. /\ EdgeInvariant /\ EdgeInvariant' /\ NameInvariant
        /\ IndexComplete /\ NewNamesAreFree
    BY NextEdges DEF IndexInvariant, EdgeInvariant
  <1>2. TypeOK /\ WritersWrite
    BY <1>1 DEF EdgeInvariant, NameInvariant
  <1> SUFFICES IndexComplete' /\ NewNamesAreFree'
    BY <1>1 DEF IndexInvariant
  <1>3. CASE UNCHANGED vars
    BY <1>1, <1>3 DEF vars, tables, IndexComplete, NewNamesAreFree, Saved
  <1>4. ASSUME NEW p \in Procs, Start(p) \/ Continue(p) \/ Fail(p)
        PROVE  IndexComplete' /\ NewNamesAreFree'
    <2>1. ASSUME p \in Writers, \A q \in Procs : q # p => req'[q] = req[q],
                 req'[p].at \in {"GenerateID", "SaveNewNode"} => nameToId'[req'[p].name] = 0
          PROVE  NewNamesAreFree'
      <3>1. ASSUME NEW q \in Procs, q # p
            PROVE  req'[q].at \notin {"GenerateID", "SaveNewNode"}
        BY <1>2, <2>1, <3>1, WriterAlone DEF WriterSteps
      <3>2. QED
        BY <2>1, <3>1 DEF NewNamesAreFree
    <2>2. ASSUME UNCHANGED <<rows, nameToId>>
          PROVE  IndexComplete'
      BY <1>1, <2>2 DEF IndexComplete, Saved
    <2>3. ASSUME NEW n \in Names, AddNode(p, n) PROVE IndexComplete' /\ NewNamesAreFree'
      <3>1. req'[p].name = n /\ \A q \in Procs : q # p => req'[q] = req[q]
        BY <1>2, <2>3, Moves DEF AddNode
      <3>2. nameToId' = nameToId /\ nameToId[n] = 0 /\ p \in Writers
        BY <2>3 DEF AddNode, tables
      <3>3. IndexComplete'
        BY <2>2, <2>3 DEF AddNode, tables
      <3>4. QED
        BY <2>1, <3>1, <3>2, <3>3
    <2>4. CASE GenerateID(p)
      <3>1. req'[p].name = req[p].name /\ \A q \in Procs : q # p => req'[q] = req[q]
        BY <1>2, <2>4, Moves DEF GenerateID
      <3>2. nameToId' = nameToId /\ nameToId[req[p].name] = 0 /\ p \in Writers
        BY <1>1, <1>2, <2>4 DEF GenerateID, NewNamesAreFree, WritersWrite, WriterSteps
      <3>3. IndexComplete'
        BY <2>2, <2>4 DEF GenerateID
      <3>4. QED
        BY <2>1, <3>1, <3>2, <3>3
    <2>5. CASE SaveNewNode(p)
      <3> DEFINE id == req[p].id
                 n == req[p].name
      <3>1. req[p] \in Numbered /\ req[p].at = "SaveNewNode" /\ p \in Writers
        BY <1>2, <2>5, Kinds DEF SaveNewNode, WritersWrite, WriterSteps, TypeOK
      <3>2. id \in Ids /\ id # 0 /\ n \in Names /\ nameToId[n] = 0
        BY <1>1, <3>1 DEF Numbered, NewNamesAreFree, Ids
      <3>3. /\ rows'[id].name = n /\ \A k \in Ids : k # id => rows'[k] = rows[k]
            /\ nameToId'[n] = id /\ \A m \in Names : m # n => nameToId'[m] = nameToId[m]
        BY <1>2, <2>5, <3>2 DEF SaveNewNode, SaveNode, NewRow, TypeOK
      <3>4. ASSUME NEW i \in Ids, i # id, rows'[i].name # NoName
            PROVE  nameToId'[rows'[i].name] = i
        <4>1. rows'[i] = rows[i] /\ rows[i].name \in Names
          BY <1>2, <3>3, <3>4 DEF TypeOK, Row
        <4>2. nameToId[rows[i].name] = i /\ i # 0
          BY <1>1, <3>4, <4>1 DEF IndexComplete, Saved, Ids
        <4>3. QED
          BY <3>2, <3>3, <4>1, <4>2
      <3>5. IndexComplete'
        BY <3>3, <3>4 DEF IndexComplete, Saved
      <3>6. req'[p].at = "SaveNewCache" /\ \A q \in Procs : q # p => req'[q] = req[q]
        BY <1>2, <2>5, <3>1, Moves DEF SaveNewNode, Numbered
      <3>7. QED
        BY <2>1, <3>1, <3>5, <3>6
    <2>6. CASE SaveFrom(p) \/ SaveTo(p)
      <3>1. req[p] \in BothRead /\ p \in Writers
        BY <1>2, <2>6, Kinds DEF SaveFrom, SaveTo, WritersWrite, WriterSteps, TypeOK
      <3>2. /\ req[p].from \in Saved /\ req[p].fromCopy.name = rows[req[p].from].name
            /\ req[p].to \in Saved /\ req[p].toCopy.name = rows[req[p].to].name
        BY <1>1, <2>6, <3>1, NamesAssumption
           DEF SaveFrom, SaveTo, NameInvariant, CopiesAgree, BothRead, Saved
      <3>3. IndexComplete'
        BY <1>1, <1>2, <2>6, <3>2, ResaveIndex DEF SaveFrom, SaveTo
      <3>4. /\ req'[p].at \in {"SaveTo", "idle"}
            /\ \A q \in Procs : q # p => req'[q] = req[q]
        BY <1>2, <2>6, <3>1, Moves DEF SaveFrom, SaveTo, Idle, BothRead
      <3>5. QED
        BY <2>1, <3>1, <3>3, <3>4
    <2>7. CASE SaveNewCache(p) \/ (\E i \in Ids : SetDependency(p, i))
               \/ (\E j \in Ids : GetTo(p, j))
      <3>1. UNCHANGED <<rows, nameToId>> /\ p \in Writers
        BY <1>2, <2>7 DEF SaveNewCache, SetDependency, GetTo, tables, WritersWrite, WriterSteps
      <3> DEFINE Goal == /\ req'[p].at \notin {"GenerateID", "SaveNewNode"}
                         /\ \A q \in Procs : q # p => req'[q] = req[q]
      <3>2. ASSUME NEW r, Goto(p, r), r.at \notin {"GenerateID", "SaveNewNode"} PROVE Goal
        BY <1>2, <3>2, Moves
      <3>3. ASSUME SaveNewCache(p) PROVE Goal
        BY <3>2, <3>3 DEF SaveNewCache, Idle
      <3>4. ASSUME NEW i \in Ids, SetDependency(p, i) PROVE Goal
        BY <3>2, <3>4 DEF SetDependency
      <3>5. ASSUME NEW j \in Ids, GetTo(p, j) PROVE Goal
        <4>1. ASSUME Goto(p, Idle) PROVE Goal
          BY <3>2, <4>1 DEF Idle
        <4>2. ASSUME NEW F, NEW T, NEW C, NEW D,
                     Goto(p, [at |-> "SaveFrom", from |-> F, to |-> T,
                              fromCopy |-> C, toCopy |-> D])
              PROVE  Goal
          BY <3>2, <4>2
        <4>3. QED
          BY <3>5, <4>1, <4>2, Zenon DEF GetTo
      <3>6. Goal
        BY <2>7, <3>3, <3>4, <3>5
      <3>7. QED
        BY <2>1, <2>2, <3>1, <3>6
    <2>8. CASE \/ Cache(p) \/ GetAllKeys(p) \/ GetNodes(p) \/ SaveCaches(p)
               \/ ClearCacheStack(p) \/ RemoveAllCaches(p)
               \/ \E i \in Ids, dir \in Directions : Query(p, i, dir)
               \/ QueryNodes(p) \/ QueryCaches(p) \/ QueryStack(p) \/ QueryWalk(p)
               \/ Reply(p) \/ Fail(p)
      <3>1. /\ UNCHANGED <<rows, nameToId>>
            /\ \A q \in Procs : q # p => req'[q] = req[q]
            /\ req'[p].at \notin WriterSteps
        BY <1>2, <2>8, ReadersMove
      <3>2. NewNamesAreFree'
        BY <1>1, <3>1 DEF NewNamesAreFree, WriterSteps
      <3>3. QED
        BY <2>2, <3>1, <3>2
    <2>9. QED
      BY <1>4, <2>3, <2>4, <2>5, <2>6, <2>7, <2>8 DEF Start, Continue
  <1>5. QED
    BY <1>3, <1>4 DEF Next

(* So does the one of the name index.                                      *)
LEMMA IndexInvariance == OneWriter /\ ~IndexMayFail => (Spec => []IndexInvariant)
  <1> SUFFICES ASSUME OneWriter, ~IndexMayFail PROVE Spec => []IndexInvariant
    OBVIOUS
  <1>1. IndexInvariant /\ [Next]_vars => IndexInvariant'
    BY NextIndex
  <1>2. QED
    BY InitIndex, <1>1, PTL DEF Spec

(* With one writer, and a name index that can be read, no name is ever     *)
(* given to two rows, also when AddNode fails between its three calls and  *)
(* is asked again: what it had saved by then is in the index.              *)
THEOREM NamesAreUnique == OneWriter /\ ~IndexMayFail => (Spec => []UniqueNames)
  <1> SUFFICES ASSUME OneWriter, ~IndexMayFail PROVE Spec => []UniqueNames
    OBVIOUS
  <1>1. IndexInvariant => UniqueNames
    BY DEF IndexInvariant, IndexComplete, UniqueNames
  <1>2. QED
    BY IndexInvariance, <1>1, PTL

-----------------------------------------------------------------------------
(* For one client, with failures anywhere: Cache panics over lost IDs only;*)
(* and on a storage whose RemoveAllCaches marks what it removes, what is   *)
(* not marked as uncached has a cache, and the caches are exact while      *)
(* nothing is marked.                                                      *)

(* The caches that a request saves are as old as its reads; only without   *)
(* other requests is nothing written in between.                           *)
OneClient == \A p, q \in Procs : p = q

-----------------------------------------------------------------------------
(* The inductive invariant of the marks.  A cache request has read all     *)
(* keys and all marks, and when it removes the marks, everything is saved. *)
CacheSteps == {"GetAllKeys", "GetNodes", "SaveCaches", "ClearCacheStack"}

MarkInvariant ==
    /\ EdgeInvariant
    /\ cacheStack \subseteq Saved /\ hasCache \subseteq Saved
    /\ ClearMarks => Saved \subseteq hasCache \cup cacheStack
    /\ \A p \in Procs :
          /\ req[p].at = "SaveNewCache" => req[p].id \in cacheStack
          /\ req[p].at \in CacheSteps => cacheStack # {}
          /\ req[p].at \in {"GetAllKeys", "GetNodes"} => req[p].dirty = cacheStack
          /\ req[p].at = "GetNodes" => req[p].keys = Saved
          /\ req[p].at = "SaveCaches" =>
                req[p].unsaved \subseteq Saved /\ Saved \subseteq hasCache \cup req[p].unsaved
          /\ req[p].at = "ClearCacheStack" => Saved \subseteq hasCache

(* The inductive invariant of the caches: what was built is exact, when    *)
(* the rows allow it, and is in the storage as far as it was saved.        *)
RowsAgree == Symmetric(Stored, Saved) /\ Connected

ExactInvariant ==
    /\ MarkInvariant
    /\ ExactWhenUnmarked
    /\ \A p \in Procs :
          /\ req[p].at = "SaveCaches" =>
                /\ RowsAgree => \A i \in Saved, dir \in Directions :
                                   req[p].built[i][dir] = Reach(Stored[dir], i)
                /\ \A i \in Saved \ req[p].unsaved : caches[i] = req[p].built[i]
          /\ req[p].at = "ClearCacheStack" /\ RowsAgree => ExactCaches

-----------------------------------------------------------------------------
(* One client is one writer.                                               *)
LEMMA OneClientWrites == OneClient => OneWriter
  BY DEF OneClient, OneWriter, Procs

(* The steps that change neither rows nor caches nor marks, and lead to no *)
(* step that does so to caches and marks.                                  *)
LEMMA AsideMoves ==
    ASSUME TypeOK, NEW p \in Procs,
           \/ \E n \in Names : AddNode(p, n)
           \/ GenerateID(p)
           \/ \E i \in Ids : SetDependency(p, i)
           \/ \E j \in Ids : GetTo(p, j)
           \/ \E i \in Ids, dir \in Directions : Query(p, i, dir)
           \/ QueryNodes(p) \/ QueryCaches(p) \/ QueryStack(p) \/ QueryWalk(p)
           \/ Reply(p) \/ Fail(p)
    PROVE  /\ UNCHANGED <<rows, caches, hasCache, cacheStack>>
           /\ req'[p].at \notin CacheSteps \cup {"SaveNewCache"}
  <1>1. UNCHANGED <<rows, caches, hasCache, cacheStack>>
    BY DEF tables, AddNode, GenerateID, SetDependency, GetTo, Query, QueryNodes, QueryCaches,
       QueryStack, QueryWalk, Reply, Fail
  <1> DEFINE Goal == req'[p].at \notin CacheSteps \cup {"SaveNewCache"}
  <1> SUFFICES Goal
    BY <1>1
  <1>2. ASSUME NEW r, Goto(p, r), r.at \notin CacheSteps \cup {"SaveNewCache"} PROVE Goal
    BY <1>2, Moves
  <1>3. CASE \/ \E n \in Names : AddNode(p, n)
             \/ \E i \in Ids : SetDependency(p, i)
             \/ \E i \in Ids, dir \in Directions : Query(p, i, dir)
    BY <1>2, <1>3 DEF AddNode, SetDependency, Query, CacheSteps
  <1>4. CASE GenerateID(p) \/ QueryNodes(p) \/ QueryCaches(p) \/ Reply(p) \/ Fail(p)
    BY <1>2, <1>4 DEF GenerateID, QueryNodes, QueryCaches, Reply, Fail, Idle, CacheSteps
  <1>5. ASSUME NEW j \in Ids, GetTo(p, j) PROVE Goal
    <2>1. CASE Goto(p, Idle)
      BY <1>2, <2>1 DEF Idle, CacheSteps
    <2>2. ASSUME NEW F, NEW T, NEW C, NEW D,
                 Goto(p, [at |-> "SaveFrom", from |-> F, to |-> T,
                          fromCopy |-> C, toCopy |-> D])
          PROVE  Goal
      BY <1>2, <2>2 DEF CacheSteps
    <2>3. QED
      BY <1>5, <2>1, <2>2, Zenon DEF GetTo
  <1>6. ASSUME NEW nodes, NEW walked, Answer(p, nodes, walked) PROVE Goal
    BY <1>2, <1>6 DEF Answer, CacheSteps
  <1>7. CASE QueryStack(p)
    <2>1. CASE Goto(p, Idle)
      BY <1>2, <2>1 DEF Idle, CacheSteps
    <2>2. ASSUME NEW K, NEW D, NEW N, NEW F, NEW R, NEW Q,
                 Goto(p, [at |-> "QueryWalk", keys |-> K, dir |-> D, node |-> N,
                          floor |-> F, result |-> R, queue |-> Q])
          PROVE  Goal
      BY <1>2, <2>2 DEF CacheSteps
    <2>3. QED
      BY <1>6, <1>7, <2>1, <2>2, Zenon DEF QueryStack
  <1>8. CASE QueryWalk(p)
    <2>1. req[p] \in Walking
      BY <1>8, WalkKinds DEF QueryWalk, TypeOK
    <2>2. ASSUME NEW R, NEW Q, Goto(p, [req[p] EXCEPT !.result = R, !.queue = Q])
          PROVE  Goal
      <3>1. [req[p] EXCEPT !.result = R, !.queue = Q].at = "QueryWalk"
        BY <2>1 DEF Walking
      <3>2. QED
        BY <1>2, <2>2, <3>1 DEF CacheSteps
    <2>3. QED
      BY <1>6, <1>8, <2>2, Zenon DEF QueryWalk
  <1>9. QED
    BY <1>3, <1>4, <1>5, <1>7, <1>8

-----------------------------------------------------------------------------
(* A save marks its node.                                                  *)
LEMMA SavesMark ==
    ASSUME EdgeInvariant, NEW p \in Procs, SaveNewNode(p) \/ SaveFrom(p) \/ SaveTo(p)
    PROVE  \E i \in Ids : /\ Saved' = Saved \cup {i} /\ cacheStack' = cacheStack \cup {i}
                          /\ hasCache' = hasCache
                          /\ req'[p].at \notin CacheSteps
                          /\ req'[p].at = "SaveNewCache" => req'[p].id = i
  <1>1. TypeOK /\ NameInvariant /\ req[p] \in Request
    BY DEF EdgeInvariant, NameInvariant, TypeOK
  <1>2. ASSUME NEW i \in Ids, NEW row, row.name \in Names, SaveNode(i, row)
        PROVE  Saved' = Saved \cup {i} /\ cacheStack' = cacheStack \cup {i}
    BY <1>1, <1>2, NamesAssumption DEF SaveNode, Saved, TypeOK
  <1>3. CASE SaveNewNode(p)
    <2>1. req[p] \in Numbered
      BY <1>1, <1>3, Kinds DEF SaveNewNode
    <2>2. req[p].id \in Ids /\ NewRow(req[p].name).name \in Names
      BY <2>1 DEF Numbered, NewRow
    <2>3. req'[p].at = "SaveNewCache" /\ req'[p].id = req[p].id
      BY <1>1, <1>3, <2>1, Moves DEF SaveNewNode, Numbered
    <2>4. QED
      BY <1>2, <1>3, <2>2, <2>3 DEF SaveNewNode, CacheSteps
  <1>4. CASE SaveFrom(p)
    <2>1. req[p] \in BothRead
      BY <1>1, <1>4, Kinds DEF SaveFrom
    <2>2. req[p].from \in Ids /\ req[p].fromCopy.name \in Names
      BY <1>1, <1>4, <2>1 DEF BothRead, SaveFrom, NameInvariant, CopiesAgree
    <2>3. req'[p].at = "SaveTo"
      BY <1>1, <1>4, <2>1, Moves DEF SaveFrom, BothRead
    <2>4. QED
      BY <1>2, <1>4, <2>2, <2>3 DEF SaveFrom, CacheSteps
  <1>5. CASE SaveTo(p)
    <2>1. req[p] \in BothRead
      BY <1>1, <1>5, Kinds DEF SaveTo
    <2>2. req[p].to \in Ids /\ req[p].toCopy.name \in Names
      BY <1>1, <1>5, <2>1 DEF BothRead, SaveTo, NameInvariant, CopiesAgree
    <2>3. req'[p].at = "idle"
      BY <1>1, <1>5, Moves DEF SaveTo, Idle
    <2>4. QED
      BY <1>2, <1>5, <2>2, <2>3 DEF SaveTo, CacheSteps
  <1>6. QED
    BY <1>3, <1>4, <1>5

(* What one SaveCaches statement leaves to be done.                        *)
LEMMA BatchSaved ==
    ASSUME TypeOK, NEW p \in Procs, SaveCaches(p)
    PROVE  \E batch \in SUBSET req[p].unsaved :
              /\ caches' = [i \in Ids |-> IF i \in batch THEN req[p].built[i] ELSE caches[i]]
              /\ hasCache' = hasCache \cup batch
              /\ \/ batch = req[p].unsaved /\ req'[p].at = "ClearCacheStack"
                 \/ /\ req'[p].at = "SaveCaches"
                    /\ req'[p].unsaved = req[p].unsaved \ batch
                    /\ req'[p].built = req[p].built
  <1>1. req[p] \in Built
    BY Kinds DEF SaveCaches, TypeOK
  <1>2. PICK batch \in SUBSET req[p].unsaved :
          /\ caches' = [i \in Ids |-> IF i \in batch THEN req[p].built[i] ELSE caches[i]]
          /\ hasCache' = hasCache \cup batch
          /\ IF batch = req[p].unsaved
             THEN Goto(p, [at |-> "ClearCacheStack"])
             ELSE Goto(p, [req[p] EXCEPT !.unsaved = @ \ batch])
    BY DEF SaveCaches
  <1>3. CASE batch = req[p].unsaved
    <2>1. req'[p].at = "ClearCacheStack"
      BY <1>2, <1>3, Moves
    <2>2. QED
      BY <1>2, <1>3, <2>1
  <1>4. CASE batch # req[p].unsaved
    <2> DEFINE r == [req[p] EXCEPT !.unsaved = @ \ batch]
    <2>1. r.at = "SaveCaches" /\ r.unsaved = req[p].unsaved \ batch /\ r.built = req[p].built
      BY <1>1 DEF Built
    <2>2. Goto(p, r)
      BY <1>2, <1>4
    <2> HIDE DEF r
    <2>3. req'[p] = r
      BY <2>2, Moves
    <2>4. QED
      BY <1>2, <2>1, <2>3
  <1>5. QED
    BY <1>3, <1>4

-----------------------------------------------------------------------------
(* What is stored at the start has an empty cache and is marked.           *)
LEMMA InitMarks == Init => MarkInvariant
  <1> SUFFICES ASSUME Init PROVE MarkInvariant
    OBVIOUS
  <1>1. PICK k \in 0..MaxId : Loaded \in [1..k -> Names]
    BY LoadedAssumption
  <1>2. Saved = DOMAIN Loaded
    BY <1>1, NamesAssumption, MaxIdAssumption DEF Init, Saved, NewRow, NoRow, Ids
  <1>3. \A p \in Procs : req[p].at = "idle"
    BY DEF Init, Idle
  <1>4. hasCache = Saved /\ cacheStack = Saved
    BY <1>2 DEF Init
  <1>5. QED
    BY InitEdges, <1>3, <1>4 DEF MarkInvariant, CacheSteps

(* Every step of the client keeps the marks.                               *)
LEMMA NextMarks ==
    ASSUME OneClient, MarkInvariant, [Next]_vars
    PROVE  MarkInvariant'
  <1>1. EdgeInvariant /\ EdgeInvariant' /\ TypeOK /\ TypeOK'
    BY OneClientWrites, NextEdges DEF MarkInvariant, EdgeInvariant, NameInvariant
  <1>2. CASE UNCHANGED vars
    BY <1>1, <1>2 DEF vars, tables, MarkInvariant, Saved
  <1>3. ASSUME NEW p \in Procs, Start(p) \/ Continue(p) \/ Fail(p)
        PROVE  MarkInvariant'
    <2>1. \A q \in Procs : q = p
      BY DEF OneClient
    <2>2. ASSUME cacheStack' \subseteq Saved', hasCache' \subseteq Saved',
                 ClearMarks => Saved' \subseteq hasCache' \cup cacheStack',
                 /\ req'[p].at = "SaveNewCache" => req'[p].id \in cacheStack'
                 /\ req'[p].at \in CacheSteps => cacheStack' # {}
                 /\ req'[p].at \in {"GetAllKeys", "GetNodes"} => req'[p].dirty = cacheStack'
                 /\ req'[p].at = "GetNodes" => req'[p].keys = Saved'
                 /\ req'[p].at = "SaveCaches" =>
                       /\ req'[p].unsaved \subseteq Saved'
                       /\ Saved' \subseteq hasCache' \cup req'[p].unsaved
                 /\ req'[p].at = "ClearCacheStack" => Saved' \subseteq hasCache'
          PROVE  MarkInvariant'
      BY <1>1, <2>1, <2>2 DEF MarkInvariant
    <2>3. /\ cacheStack \subseteq Saved /\ hasCache \subseteq Saved
          /\ ClearMarks => Saved \subseteq hasCache \cup cacheStack
      BY DEF MarkInvariant
    <2>4. CASE \/ \E n \in Names : AddNode(p, n)
               \/ GenerateID(p)
               \/ \E i \in Ids : SetDependency(p, i)
               \/ \E j \in Ids : GetTo(p, j)
               \/ \E i \in Ids, dir \in Directions : Query(p, i, dir)
               \/ QueryNodes(p) \/ QueryCaches(p) \/ QueryStack(p) \/ QueryWalk(p)
               \/ Reply(p) \/ Fail(p)
      <3>1. /\ UNCHANGED <<rows, caches, hasCache, cacheStack>>
            /\ req'[p].at \notin CacheSteps \cup {"SaveNewCache"}
        BY <1>1, <2>4, AsideMoves
      <3>2. Saved' = Saved
        BY <3>1 DEF Saved
      <3>3. QED
        BY <2>2, <2>3, <3>1, <3>2 DEF CacheSteps
    <2>5. CASE SaveNewNode(p) \/ SaveFrom(p) \/ SaveTo(p)
      <3>1. PICK i \in Ids : /\ Saved' = Saved \cup {i} /\ cacheStack' = cacheStack \cup {i}
                             /\ hasCache' = hasCache
                             /\ req'[p].at \notin CacheSteps
                             /\ req'[p].at = "SaveNewCache" => req'[p].id = i
        BY <1>1, <2>5, SavesMark
      <3>2. QED
        BY <2>2, <2>3, <3>1 DEF CacheSteps
    <2>6. CASE SaveNewCache(p)
      <3>1. req[p].id \in cacheStack
        BY <2>6 DEF SaveNewCache, MarkInvariant
      <3>2. req'[p].at = "idle"
        BY <1>1, <2>6, Moves DEF SaveNewCache, Idle
      <3>3. /\ Saved' = Saved /\ cacheStack' = cacheStack
            /\ hasCache' = hasCache \cup {req[p].id}
        BY <2>6 DEF SaveNewCache, Saved
      <3>4. QED
        BY <2>2, <2>3, <3>1, <3>2, <3>3 DEF CacheSteps
    <2>7. CASE Cache(p)
      <3>1. req'[p].at = "GetAllKeys" /\ req'[p].dirty = cacheStack
        BY <1>1, <2>7, Moves DEF Cache
      <3>2. /\ Saved' = Saved /\ hasCache' = hasCache
            /\ cacheStack' = cacheStack /\ cacheStack # {}
        BY <2>7 DEF Cache, tables, Saved
      <3>3. QED
        BY <2>2, <2>3, <3>1, <3>2 DEF CacheSteps
    <2>8. CASE GetAllKeys(p)
      <3>1. req'[p].at = "GetNodes" /\ req'[p].dirty = cacheStack /\ req'[p].keys = Saved
        BY <1>1, <2>8, Moves DEF GetAllKeys, MarkInvariant
      <3>2. /\ Saved' = Saved /\ hasCache' = hasCache
            /\ cacheStack' = cacheStack /\ cacheStack # {}
        BY <2>8 DEF GetAllKeys, tables, Saved, MarkInvariant, CacheSteps
      <3>3. QED
        BY <2>2, <2>3, <3>1, <3>2 DEF CacheSteps
    <2>9. CASE GetNodes(p)
      <3>1. /\ Saved' = Saved /\ hasCache' = hasCache
            /\ cacheStack' = cacheStack /\ cacheStack # {}
            /\ req[p].keys = Saved
        BY <2>9 DEF GetNodes, tables, Saved, MarkInvariant, CacheSteps
      <3>2. CASE Goto(p, Idle)
        <4>1. req'[p].at = "idle"
          BY <1>1, <3>2, Moves DEF Idle
        <4>2. QED
          BY <2>2, <2>3, <3>1, <4>1 DEF CacheSteps
      <3>3. ASSUME NEW B, Goto(p, [at |-> "SaveCaches", unsaved |-> req[p].keys, built |-> B])
            PROVE  MarkInvariant'
        <4>1. req'[p].at = "SaveCaches" /\ req'[p].unsaved = Saved
          BY <1>1, <3>1, <3>3, Moves
        <4>2. QED
          BY <2>2, <2>3, <3>1, <4>1 DEF CacheSteps
      <3>4. QED
        BY <2>9, <3>2, <3>3, Zenon DEF GetNodes
    <2>10. CASE SaveCaches(p)
      <3>1. PICK batch \in SUBSET req[p].unsaved :
              /\ hasCache' = hasCache \cup batch
              /\ \/ batch = req[p].unsaved /\ req'[p].at = "ClearCacheStack"
                 \/ /\ req'[p].at = "SaveCaches"
                    /\ req'[p].unsaved = req[p].unsaved \ batch
        BY <1>1, <2>10, BatchSaved
      <3>2. Saved' = Saved /\ cacheStack' = cacheStack /\ cacheStack # {}
        BY <2>10 DEF SaveCaches, Saved, MarkInvariant, CacheSteps
      <3>3. req[p].unsaved \subseteq Saved /\ Saved \subseteq hasCache \cup req[p].unsaved
        BY <2>10 DEF SaveCaches, MarkInvariant
      <3>4. QED
        BY <2>2, <2>3, <3>1, <3>2, <3>3 DEF CacheSteps
    <2>11. CASE ClearCacheStack(p)
      <3>1. Saved' = Saved /\ cacheStack' = {} /\ hasCache' = hasCache /\ Saved \subseteq hasCache
        BY <2>11 DEF ClearCacheStack, Saved, MarkInvariant
      <3>2. req'[p].at = "idle"
        BY <1>1, <2>11, Moves DEF ClearCacheStack, Idle
      <3>3. QED
        BY <2>2, <2>3, <3>1, <3>2 DEF CacheSteps
    <2>12. CASE RemoveAllCaches(p)
      <3>1. /\ Saved' = Saved /\ hasCache' = {}
            /\ cacheStack' = IF ClearMarks THEN cacheStack \cup hasCache ELSE cacheStack
        BY <2>12 DEF RemoveAllCaches, Saved
      <3>2. req'[p].at = "idle"
        BY <2>12 DEF RemoveAllCaches, Idle
      <3>3. QED
        BY <2>2, <2>3, <3>1, <3>2 DEF CacheSteps
    <2>13. QED
      BY <1>3, <2>4, <2>5, <2>6, <2>7, <2>8, <2>9, <2>10, <2>11, <2>12 DEF Start, Continue
  <1>4. QED
    BY <1>2, <1>3 DEF Next

(* The invariant of the marks holds in every state that is reached.         *)
LEMMA MarkInvariance == OneClient => (Spec => []MarkInvariant)
  <1> SUFFICES ASSUME OneClient PROVE Spec => []MarkInvariant
    OBVIOUS
  <1>1. MarkInvariant /\ [Next]_vars => MarkInvariant'
    BY NextMarks
  <1>2. QED
    BY InitMarks, <1>1, PTL DEF Spec

(* For one client, whose requests may fail anywhere: when nothing is       *)
(* marked as uncached, every node has a cache row.  On SQL, where          *)
(* RemoveAllCaches marks nothing, it is false (run clear_on_sql).          *)
THEOREM CachedOrMarked == OneClient /\ ClearMarks => (Spec => []CachedWhenUnmarked)
  <1> SUFFICES ASSUME OneClient, ClearMarks PROVE Spec => []CachedWhenUnmarked
    OBVIOUS
  <1>1. MarkInvariant => CachedWhenUnmarked
    BY DEF MarkInvariant, CachedWhenUnmarked
  <1>2. QED
    BY MarkInvariance, <1>1, PTL

(* For one client Cache panics over nothing but an ID that was given out   *)
(* and never saved: half a SetDependency does not make it panic.           *)
THEOREM LostIDsPanic == OneClient => (Spec => []OnlyLostIDsPanic)
  <1> SUFFICES ASSUME OneClient PROVE Spec => []OnlyLostIDsPanic
    OBVIOUS
  <1>1. ASSUME MarkInvariant, NEW p \in Procs, req[p].at = "GetNodes",
               \A i \in 1..counter : i \in Saved
        PROVE  ~Panics(GraphOf([i \in Ids |-> IF i \in req[p].keys THEN rows[i] ELSE NoRow]),
                       req[p].keys, req[p].dirty)
    <2> DEFINE K == req[p].keys
               D == req[p].dirty
               g == GraphOf([i \in Ids |-> IF i \in K THEN rows[i] ELSE NoRow])
               next == [i \in Ids |-> g.children[i] \cup g.parents[i]]
    <2>1. K = Saved /\ D = cacheStack /\ cacheStack \subseteq Saved
      BY <1>1 DEF MarkInvariant
    <2>2. counter \in Nat /\ SavedWereGivenOut
      BY <1>1, MaxIdAssumption DEF MarkInvariant, EdgeInvariant, NameInvariant, TypeOK, Ids
    <2>3. Saved = 1..counter
      BY <1>1, <2>2 DEF SavedWereGivenOut, Saved, Ids
    <2>4. K = 1..Cardinality(K)
      <3>1. Cardinality(1..counter) = counter
        BY <2>2, FS_Interval
      <3>2. QED
        BY <2>1, <2>3, <3>1
    <2>5. ASSUME NEW i \in K
          PROVE  g.children[i] \subseteq K /\ g.parents[i] \subseteq K
      BY <1>1, <2>1 DEF MarkInvariant, EdgeInvariant, EdgesJoinSaved, GraphOf, Saved
    <2>6. K \in Closed(next)
      <3>1. K \in SUBSET Ids
        BY <2>1 DEF Saved
      <3>2. QED
        BY <2>5, <3>1 DEF Closed
    <2>7. Touched(g, D) \subseteq K
      BY <2>1, <2>6, ReachLeast DEF Touched
    <2>8. QED
      BY <2>4, <2>5, <2>7 DEF Panics
  <1>2. MarkInvariant => OnlyLostIDsPanic
    BY <1>1 DEF OnlyLostIDsPanic
  <1>3. QED
    BY MarkInvariance, <1>2, PTL

-----------------------------------------------------------------------------
(* When the rows agree and hang together, Cache builds the closures of all *)
(* nodes from any mark.                                                    *)
LEMMA BuiltExactly ==
    ASSUME MarkInvariant, RowsAgree, NEW p \in Procs, GetNodes(p), req'[p].at = "SaveCaches",
           NEW i \in Saved, NEW dir \in Directions
    PROVE  req'[p].built[i][dir] = Reach(Stored[dir], i)
  <1> DEFINE K == req[p].keys
             D == req[p].dirty
             g == GraphOf([k \in Ids |-> IF k \in K THEN rows[k] ELSE NoRow])
             B(C, P) == [k \in Ids |-> IF k \in K THEN NodeCache(P[k], C[k]) ELSE NewCache]
  <1>1. /\ TypeOK /\ EdgesJoinSaved /\ K = Saved
        /\ D = cacheStack /\ D # {} /\ cacheStack \subseteq Saved /\ i \in Ids
    BY DEF MarkInvariant, EdgeInvariant, NameInvariant, GetNodes, CacheSteps, Saved
  <1>2. g = Stored
    <2>1. ASSUME NEW k \in Ids, k \notin K PROVE rows[k].children = {} /\ rows[k].parents = {}
      BY <1>1, <2>1 DEF EdgesJoinSaved, TypeOK, Row
    <2>2. QED
      BY <2>1 DEF GraphOf, Stored, NoRow
  <1>3. i \in Touched(g, D)
    <2>1. PICK d \in D : d \in Saved
      BY <1>1
    <2>2. i \in Touched(Stored, {d})
      BY <2>1 DEF RowsAgree, Connected
    <2>3. Touched(Stored, {d}) \subseteq Touched(Stored, D)
      BY <2>1 DEF Touched
    <2>4. QED
      BY <1>2, <2>2, <2>3
  <1>4. Symmetric(g, K)
    BY <1>1, <1>2 DEF RowsAgree
  <1>5. ASSUME NEW d \in Directions, NEW f \in Promise(g, K, D, d)
        PROVE  f[i] = Reach(Stored[d], i)
    <2>1. f = Exact(g, K, D, d)
      BY <1>4, <1>5 DEF Promise
    <2>2. Exact(g, K, D, d)[i] = Reach(g[d], i)
      BY <1>1, <1>3 DEF Exact
    <2>3. QED
      BY <1>2, <2>1, <2>2
  <1> HIDE DEF g
  <1>6. CASE Goto(p, Idle)
    BY <1>1, <1>6, Moves DEF Idle
  <1>7. ASSUME NEW C \in Promise(g, K, D, "children"), NEW P \in Promise(g, K, D, "parents"),
               Goto(p, [at |-> "SaveCaches", unsaved |-> K, built |-> B(C, P)])
        PROVE  req'[p].built[i][dir] = Reach(Stored[dir], i)
    <2>1. req'[p].built[i] = B(C, P)[i]
      BY <1>1, <1>7, Moves
    <2>2. B(C, P)[i] = NodeCache(P[i], C[i])
      BY <1>1
    <2>3. /\ C[i] = Reach(Stored["children"], i)
          /\ P[i] = Reach(Stored["parents"], i)
      BY <1>5 DEF Directions
    <2>4. QED
      BY <2>1, <2>2, <2>3 DEF NodeCache, Directions
  <1>8. QED
    BY <1>6, <1>7, Zenon DEF GetNodes, g

(* The start: nothing is cached, and if anything is stored it is marked.   *)
LEMMA InitExact == Init => ExactInvariant
  <1> SUFFICES ASSUME Init PROVE ExactInvariant
    OBVIOUS
  <1>1. MarkInvariant /\ hasCache = cacheStack
    BY InitMarks DEF Init
  <1>2. \A p \in Procs : req[p].at = "idle"
    BY DEF Init, Idle
  <1>3. cacheStack = {} => Saved = {}
    <2>1. Saved \subseteq DOMAIN Loaded
      BY DEF Init, Saved, NoRow
    <2>2. QED
      BY <2>1 DEF Init
  <1>4. ExactWhenUnmarked
    BY <1>3 DEF ExactWhenUnmarked, ExactCaches
  <1>5. QED
    BY <1>1, <1>2, <1>4 DEF ExactInvariant

(* Every step of the client keeps the caches exact.                        *)
LEMMA NextExact ==
    ASSUME OneClient, ClearMarks, ExactInvariant, [Next]_vars
    PROVE  ExactInvariant'
  <1>1. /\ MarkInvariant /\ MarkInvariant' /\ TypeOK /\ TypeOK' /\ EdgeInvariant
        /\ ExactWhenUnmarked
    BY NextMarks DEF ExactInvariant, MarkInvariant, EdgeInvariant, NameInvariant
  <1>2. ASSUME rows' = rows
        PROVE  /\ Saved' = Saved /\ Stored' = Stored /\ RowsAgree' = RowsAgree
    BY <1>2 DEF Saved, Stored, RowsAgree, Connected
  <1>3. ASSUME rows' = rows, caches' = caches
        PROVE  ExactCaches' = ExactCaches
    BY <1>2, <1>3 DEF ExactCaches
  <1>4. CASE UNCHANGED vars
    <2>1. rows' = rows /\ caches' = caches /\ req' = req /\ cacheStack' = cacheStack
      BY <1>4 DEF vars, tables
    <2>2. ExactWhenUnmarked'
      BY <1>1, <1>2, <1>3, <2>1 DEF ExactWhenUnmarked, RowsAgree
    <2>3. QED
      BY <1>1, <1>2, <1>3, <2>1, <2>2 DEF ExactInvariant
  <1>5. ASSUME NEW p \in Procs, Start(p) \/ Continue(p) \/ Fail(p)
        PROVE  ExactInvariant'
    <2>1. \A q \in Procs : q = p
      BY DEF OneClient
    <2>2. ASSUME ExactWhenUnmarked',
                 req'[p].at = "SaveCaches" =>
                    /\ RowsAgree' => \A i \in Saved', dir \in Directions :
                                        req'[p].built[i][dir] = Reach(Stored'[dir], i)
                    /\ \A i \in Saved' \ req'[p].unsaved : caches'[i] = req'[p].built[i],
                 req'[p].at = "ClearCacheStack" /\ RowsAgree' => ExactCaches'
          PROVE  ExactInvariant'
      BY <1>1, <2>1, <2>2 DEF ExactInvariant
    <2>3. ASSUME cacheStack' # {} PROVE ExactWhenUnmarked'
      BY <2>3 DEF ExactWhenUnmarked
    <2>4. ASSUME rows' = rows, caches' = caches, cacheStack' = cacheStack
          PROVE  ExactWhenUnmarked'
      BY <1>1, <1>2, <1>3, <2>4 DEF ExactWhenUnmarked, RowsAgree
    <2>5. CASE \/ \E n \in Names : AddNode(p, n)
               \/ GenerateID(p)
               \/ \E i \in Ids : SetDependency(p, i)
               \/ \E j \in Ids : GetTo(p, j)
               \/ \E i \in Ids, dir \in Directions : Query(p, i, dir)
               \/ QueryNodes(p) \/ QueryCaches(p) \/ QueryStack(p) \/ QueryWalk(p)
               \/ Reply(p) \/ Fail(p)
      <3>1. /\ UNCHANGED <<rows, caches, hasCache, cacheStack>>
            /\ req'[p].at \notin CacheSteps \cup {"SaveNewCache"}
        BY <1>1, <2>5, AsideMoves
      <3>2. QED
        BY <2>2, <2>4, <3>1 DEF CacheSteps
    <2>6. CASE SaveNewNode(p) \/ SaveFrom(p) \/ SaveTo(p)
      <3>1. cacheStack' # {} /\ req'[p].at \notin CacheSteps
        BY <1>1, <2>6, SavesMark
      <3>2. QED
        BY <2>2, <2>3, <3>1 DEF CacheSteps
    <2>7. CASE SaveNewCache(p)
      <3>1. cacheStack' # {}
        BY <1>1, <2>7 DEF SaveNewCache, MarkInvariant
      <3>2. req'[p].at = "idle"
        BY <1>1, <2>7, Moves DEF SaveNewCache, Idle
      <3>3. QED
        BY <2>2, <2>3, <3>1, <3>2
    <2>8. CASE Cache(p) \/ GetAllKeys(p)
      <3>1. req'[p].at \in {"GetAllKeys", "GetNodes"}
        BY <1>1, <2>8, Moves DEF Cache, GetAllKeys
      <3>2. ExactWhenUnmarked'
        BY <2>4, <2>8 DEF Cache, GetAllKeys, tables
      <3>3. QED
        BY <2>2, <3>1, <3>2
    <2>9. CASE GetNodes(p)
      <3>1. rows' = rows /\ caches' = caches /\ cacheStack' = cacheStack
            /\ req[p].keys = Saved
        BY <1>1, <2>9 DEF GetNodes, tables, MarkInvariant
      <3>2. req'[p].at \in {"idle", "SaveCaches"}
            /\ (req'[p].at = "SaveCaches" => req'[p].unsaved = Saved)
        <4>1. CASE Goto(p, Idle)
          BY <1>1, <4>1, Moves DEF Idle
        <4>2. ASSUME NEW B, Goto(p, [at |-> "SaveCaches", unsaved |-> req[p].keys, built |-> B])
              PROVE  req'[p].at = "SaveCaches" /\ req'[p].unsaved = Saved
          BY <1>1, <3>1, <4>2, Moves
        <4>3. QED
          BY <2>9, <4>1, <4>2, Zenon DEF GetNodes
      <3>3. ASSUME req'[p].at = "SaveCaches", RowsAgree, NEW i \in Saved, NEW dir \in Directions
            PROVE  req'[p].built[i][dir] = Reach(Stored[dir], i)
        BY <1>1, <2>9, <3>3, BuiltExactly
      <3>4. QED
        BY <1>2, <2>2, <2>4, <3>1, <3>2, <3>3
    <2>10. CASE SaveCaches(p)
      <3>1. PICK batch \in SUBSET req[p].unsaved :
              /\ caches' = [i \in Ids |-> IF i \in batch THEN req[p].built[i] ELSE caches[i]]
              /\ \/ batch = req[p].unsaved /\ req'[p].at = "ClearCacheStack"
                 \/ /\ req'[p].at = "SaveCaches"
                    /\ req'[p].unsaved = req[p].unsaved \ batch
                    /\ req'[p].built = req[p].built
        BY <1>1, <2>10, BatchSaved
      <3>2. rows' = rows /\ cacheStack' # {}
        BY <1>1, <2>10 DEF SaveCaches, MarkInvariant, CacheSteps
      <3>3. /\ RowsAgree => \A i \in Saved, dir \in Directions :
                               req[p].built[i][dir] = Reach(Stored[dir], i)
            /\ \A i \in Saved \ req[p].unsaved : caches[i] = req[p].built[i]
        BY <2>10 DEF SaveCaches, ExactInvariant
      <3>4. \A i \in Saved : i \in batch \/ i \notin req[p].unsaved =>
               caches'[i] = req[p].built[i]
        BY <3>1, <3>3 DEF Saved
      <3>5. /\ Saved' = Saved /\ Stored' = Stored /\ RowsAgree' = RowsAgree
        BY <1>2, <3>2
      <3>6. CASE batch = req[p].unsaved /\ req'[p].at = "ClearCacheStack"
        <4>1. \A i \in Saved : caches'[i] = req[p].built[i]
          BY <3>4, <3>6
        <4>2. RowsAgree' => ExactCaches'
          BY <3>3, <3>5, <4>1 DEF ExactCaches
        <4>3. QED
          BY <2>2, <2>3, <3>2, <3>6, <4>2
      <3>7. CASE /\ req'[p].at = "SaveCaches"
                 /\ req'[p].unsaved = req[p].unsaved \ batch
                 /\ req'[p].built = req[p].built
        <4>1. \A i \in Saved' \ req'[p].unsaved : caches'[i] = req'[p].built[i]
          BY <3>4, <3>5, <3>7
        <4>2. QED
          BY <2>2, <2>3, <3>2, <3>3, <3>5, <3>7, <4>1
      <3>8. QED
        BY <3>1, <3>6, <3>7
    <2>11. CASE ClearCacheStack(p)
      <3>1. rows' = rows /\ caches' = caches /\ (RowsAgree => ExactCaches)
        BY <2>11 DEF ClearCacheStack, ExactInvariant
      <3>2. ExactWhenUnmarked'
        BY <1>2, <1>3, <3>1 DEF ExactWhenUnmarked, RowsAgree
      <3>3. req'[p].at = "idle"
        BY <1>1, <2>11, Moves DEF ClearCacheStack, Idle
      <3>4. QED
        BY <2>2, <3>2, <3>3
    <2>12. CASE RemoveAllCaches(p)
      <3>1. cacheStack' # {} /\ req'[p].at = "idle"
        BY <2>12 DEF RemoveAllCaches, Idle
      <3>2. QED
        BY <2>2, <2>3, <3>1
    <2>13. QED
      BY <1>5, <2>5, <2>6, <2>7, <2>8, <2>9, <2>10, <2>11, <2>12 DEF Start, Continue
  <1>6. QED
    BY <1>4, <1>5 DEF Next

(* For one client, whose requests may fail anywhere, the caches are the    *)
(* closures of the stored edges while nothing is marked, if the rows agree *)
(* and hang together: a Cache that fails between two batches leaves its    *)
(* marks, and one mark is enough to make it visit every node.              *)
THEOREM UnmarkedIsExact == OneClient /\ ClearMarks => (Spec => []ExactWhenUnmarked)
  <1> SUFFICES ASSUME OneClient, ClearMarks PROVE Spec => []ExactWhenUnmarked
    OBVIOUS
  <1>1. ExactInvariant /\ [Next]_vars => ExactInvariant'
    BY NextExact
  <1>2. ExactInvariant => ExactWhenUnmarked
    BY DEF ExactInvariant
  <1>3. QED
    BY InitExact, <1>1, <1>2, PTL DEF Spec
=============================================================================
