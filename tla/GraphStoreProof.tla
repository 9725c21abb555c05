-------------------------- MODULE GraphStoreProof --------------------------
(***************************************************************************)
(* Proofs about GraphStore for every number of nodes, clients and names:   *)
(* its type invariant, and that an ID belongs to one name for ever,        *)
(* whatever requests run at the same time and wherever they fail.          *)
(***************************************************************************)
EXTENDS GraphStore, FiniteSetTheorems, TLAPS

-----------------------------------------------------------------------------
(* The inductive invariant.  NameIndexSound says nothing of the requests   *)
(* that are about to save: an ID that was given out is free until its one  *)
(* owner saves it, and a copy has the name of the row it was read from.    *)
SavedWereGivenOut == \A i \in Ids : rows[i].name # NoName => i <= counter

NewIDsAreFree ==
    \A p \in Procs : req[p].at = "SaveNewNode" =>
        req[p].id <= counter /\ rows[req[p].id].name = NoName

NewIDsDiffer ==
    \A p, q \in Procs :
        req[p].at = "SaveNewNode" /\ req[q].at = "SaveNewNode" /\ p # q =>
            req[p].id # req[q].id

CopiesAgree ==
    \A p \in Procs :
        /\ req[p].at \in {"GetTo", "SaveFrom", "SaveTo"} =>
              /\ req[p].fromCopy.name \in Names
              /\ rows[req[p].from].name = req[p].fromCopy.name
        /\ req[p].at \in {"SaveFrom", "SaveTo"} =>
              /\ req[p].toCopy.name \in Names
              /\ rows[req[p].to].name = req[p].toCopy.name

NameInvariant ==
    /\ TypeOK
    /\ SavedWereGivenOut
    /\ NewIDsAreFree
    /\ NewIDsDiffer
    /\ CopiesAgree
    /\ NameIndexSound

-----------------------------------------------------------------------------
(* The kinds of requests in progress, one per set of record fields.        *)
Named == [at : {"GenerateID"}, name : Names]
Numbered == [at : {"SaveNewNode", "SaveNewCache"}, name : Names, id : Ids]
FromRead == [at : {"GetTo"}, from : Ids, fromCopy : Row]
BothRead ==
    [at : {"SaveFrom", "SaveTo"}, from : Ids, to : Ids, fromCopy : Row, toCopy : Row]
Marked == [at : {"GetAllKeys"}, dirty : SUBSET Ids]
Keyed == [at : {"GetNodes"}, dirty : SUBSET Ids, keys : SUBSET Ids]
Built == [at : {"SaveCaches"}, unsaved : SUBSET Ids, built : [Ids -> CacheRow]]

(* A request is of the kind that its field "at" tells.                     *)
LEMMA Kinds ==
    ASSUME NEW r \in Request
    PROVE  /\ r.at = "GenerateID" => r \in Named
           /\ r.at \in {"SaveNewNode", "SaveNewCache"} => r \in Numbered
           /\ r.at = "GetTo" => r \in FromRead
           /\ r.at \in {"SaveFrom", "SaveTo"} => r \in BothRead
           /\ r.at = "GetAllKeys" => r \in Marked
           /\ r.at = "GetNodes" => r \in Keyed
           /\ r.at = "SaveCaches" => r \in Built
  BY DEF Request, Idle, AddRequest, DependencyRequest, CacheRequest, QueryRequest,
         Named, Numbered, FromRead, BothRead, Marked, Keyed, Built

(* The same for the requests of queries.                                   *)
LEMMA QueryKinds ==
    ASSUME NEW r \in Request,
           r.at \in {"QueryNodes", "QueryCaches", "QueryStack", "QueryWalk"}
    PROVE  /\ r.keys \in SUBSET Ids /\ r.dir \in Directions
           /\ r.node \in Ids /\ r.floor \in SUBSET Ids
           /\ r.at \in {"QueryCaches", "QueryStack"} => r.first \in SUBSET Ids
           /\ r.at = "QueryStack" => r.cached \in BOOLEAN /\ r.all \in SUBSET Ids
           /\ r.at = "QueryWalk" => r.result \in SUBSET Ids /\ r.queue \in SUBSET Ids
  BY DEF Request, Idle, AddRequest, DependencyRequest, CacheRequest, QueryRequest

-----------------------------------------------------------------------------
(* A request that moves on and leaves the tables alone keeps the types.    *)
LEMMA MoveTyped ==
    ASSUME TypeOK, NEW p \in Procs, NEW r \in Request, Goto(p, r), UNCHANGED tables
    PROVE  TypeOK'
  BY DEF TypeOK, Goto, tables

(* What is reached from a node is a set of IDs.                            *)
LEMMA ReachTyped ==
    ASSUME NEW next, NEW i
    PROVE  Reach(next, i) \subseteq Ids
  BY DEF Reach

(* Every cache that Cache may build is a set of IDs.                       *)
LEMMA PromiseTyped ==
    ASSUME NEW g, NEW K, NEW D, NEW dir, NEW f \in Promise(g, K, D, dir), NEW i \in K
    PROVE  f[i] \in SUBSET Ids
  <1>1. Exact(g, K, D, dir)[i] \in SUBSET Ids
    BY ReachTyped DEF Exact, Scc
  <1>2. CASE Symmetric(g, K)
    BY <1>1, <1>2 DEF Promise
  <1>3. CASE ~Symmetric(g, K)
    BY <1>3 DEF Promise
  <1>4. QED
    BY <1>2, <1>3

(* Saving a node keeps the types of the tables.                            *)
LEMMA SaveNodeTyped ==
    ASSUME TypeOK, NEW i \in Ids, NEW row \in Row, row.name \in Names, SaveNode(i, row)
    PROVE  /\ rows' \in [Ids -> Row]
           /\ nameToId' \in [Names -> Ids \cup {0}]
           /\ cacheStack' \in SUBSET Ids
  BY DEF TypeOK, SaveNode

-----------------------------------------------------------------------------
(* The tables that the storage starts with.                                *)
LEMMA InitTyped == Init => TypeOK
  <1> SUFFICES ASSUME Init PROVE TypeOK
    OBVIOUS
  <1>1. PICK k \in 0..MaxId : Loaded \in [1..k -> Names]
    BY LoadedAssumption
  <1>2. DOMAIN Loaded = 1..k /\ 1..k \subseteq Ids
    BY <1>1, MaxIdAssumption DEF Ids
  <1>3. counter \in Ids \cup {0}
    <2>1. Cardinality(1..k) = k
      BY <1>1, FS_Interval
    <2>2. QED
      BY <1>1, <1>2, <2>1, MaxIdAssumption DEF Init, Ids
  <1>4. rows \in [Ids -> Row]
    <2>1. ASSUME NEW n \in Names PROVE NewRow(n) \in Row
      BY DEF NewRow, Row
    <2>2. NoRow \in Row
      BY DEF NoRow, Row
    <2>3. QED
      BY <1>1, <1>2, <2>1, <2>2 DEF Init
  <1>5. nameToId \in [Names -> Ids \cup {0}]
    BY <1>2 DEF Init
  <1>6. caches \in [Ids -> CacheRow] /\ hasCache \in SUBSET Ids /\ cacheStack \in SUBSET Ids
    BY <1>2 DEF Init, NewCache, CacheRow
  <1>7. req \in [Procs -> Request]
    BY DEF Init, Request
  <1>8. QED
    BY <1>3, <1>4, <1>5, <1>6, <1>7 DEF TypeOK

(* A request that starts keeps the types.                                  *)
LEMMA StartTyped ==
    ASSUME TypeOK, NEW p \in Procs, Start(p)
    PROVE  TypeOK'
  <1>1. ASSUME NEW n \in Names, AddNode(p, n) PROVE TypeOK'
    <2>1. [at |-> "GenerateID", name |-> n] \in Request
      BY DEF Request, AddRequest
    <2>2. QED
      BY <1>1, <2>1, MoveTyped DEF AddNode
  <1>2. ASSUME NEW i \in Ids, SetDependency(p, i) PROVE TypeOK'
    <2>1. [at |-> "GetTo", from |-> i, fromCopy |-> rows[i]] \in Request
      BY DEF TypeOK, Request, DependencyRequest
    <2>2. QED
      BY <1>2, <2>1, MoveTyped DEF SetDependency
  <1>3. ASSUME Cache(p) PROVE TypeOK'
    <2>1. [at |-> "GetAllKeys", dirty |-> cacheStack] \in Request
      BY DEF TypeOK, Request, CacheRequest
    <2>2. QED
      BY <1>3, <2>1, MoveTyped DEF Cache
  <1>4. ASSUME RemoveAllCaches(p) PROVE TypeOK'
    BY <1>4 DEF TypeOK, RemoveAllCaches, NewCache, CacheRow
  <1>5. ASSUME NEW i \in Ids, NEW dir \in Directions, Query(p, i, dir) PROVE TypeOK'
    <2>1. [at |-> "QueryNodes", keys |-> Saved, dir |-> dir, node |-> i,
           floor |-> Reach(GraphOf(rows)[dir], i)] \in Request
      BY ReachTyped DEF Request, QueryRequest, Saved
    <2>2. QED
      BY <1>5, <2>1, MoveTyped DEF Query
  <1>6. QED
    BY <1>1, <1>2, <1>3, <1>4, <1>5 DEF Start

(* The steps of AddNode keep the types.                                    *)
LEMMA AddTyped ==
    ASSUME TypeOK, NEW p \in Procs, GenerateID(p) \/ SaveNewNode(p) \/ SaveNewCache(p)
    PROVE  TypeOK'
  <1>1. req[p] \in Request
    BY DEF TypeOK
  <1>2. CASE GenerateID(p)
    <2>1. req[p].name \in Names /\ counter + 1 \in Ids
      BY <1>1, <1>2, Kinds, MaxIdAssumption DEF Named, GenerateID, TypeOK, Ids
    <2>2. [at |-> "SaveNewNode", name |-> req[p].name, id |-> counter + 1] \in Request
      BY <2>1 DEF Request, AddRequest
    <2>3. QED
      BY <1>2, <2>1, <2>2 DEF GenerateID, Goto, TypeOK
  <1>3. CASE SaveNewNode(p)
    <2>1. req[p] \in Numbered
      BY <1>1, <1>3, Kinds DEF SaveNewNode
    <2>2. [req[p] EXCEPT !.at = "SaveNewCache"] \in Request
      BY <2>1 DEF Numbered, Request, AddRequest
    <2>3. NewRow(req[p].name) \in Row /\ NewRow(req[p].name).name \in Names
      BY <2>1 DEF Numbered, NewRow, Row
    <2>4. req[p].id \in Ids
      BY <2>1 DEF Numbered
    <2>5. QED
      BY <1>3, <2>2, <2>3, <2>4, SaveNodeTyped DEF SaveNewNode, Goto, TypeOK
  <1>4. CASE SaveNewCache(p)
    <2>1. req[p].id \in Ids
      BY <1>1, <1>4, Kinds DEF SaveNewCache, Numbered
    <2>2. QED
      BY <1>4, <2>1 DEF SaveNewCache, Goto, TypeOK, Request, NewCache, CacheRow
  <1>5. QED
    BY <1>2, <1>3, <1>4

(* The steps of SetDependency keep the types.  A row that is saved again   *)
(* has a name, which CopiesAgree adds below; here it is a hypothesis.      *)
LEMMA DependencyTyped ==
    ASSUME TypeOK, CopiesAgree, NEW p \in Procs,
           (\E j \in Ids : GetTo(p, j)) \/ SaveFrom(p) \/ SaveTo(p)
    PROVE  TypeOK'
  <1>1. req[p] \in Request
    BY DEF TypeOK
  <1>2. ASSUME NEW j \in Ids, GetTo(p, j) PROVE TypeOK'
    <2>1. req[p].from \in Ids /\ req[p].fromCopy \in Row /\ rows[j] \in Row
      BY <1>1, <1>2, Kinds DEF GetTo, FromRead, TypeOK
    <2>2. CASE Refused(req[p].from, j)
      BY <1>2, <2>2, MoveTyped DEF GetTo, Request
    <2>3. CASE ~Refused(req[p].from, j)
      <3> DEFINE r == [at |-> "SaveFrom", from |-> req[p].from, to |-> j,
                       fromCopy |-> WithChild(req[p].fromCopy, j),
                       toCopy |-> [rows[j] EXCEPT !.parents = @ \cup {req[p].from}]]
      <3>1. WithChild(req[p].fromCopy, j) \in Row
        BY <2>1 DEF WithChild, Row
      <3>2. [rows[j] EXCEPT !.parents = @ \cup {req[p].from}] \in Row
        BY <2>1 DEF Row
      <3>3. r \in Request
        BY <2>1, <3>1, <3>2 DEF Request, DependencyRequest
      <3>4. Goto(p, r) /\ UNCHANGED tables
        BY <1>2, <2>3 DEF GetTo
      <3>5. QED
        BY <3>3, <3>4, MoveTyped
    <2>4. QED
      BY <2>2, <2>3
  <1>3. CASE SaveFrom(p)
    <2>1. req[p] \in BothRead
      BY <1>1, <1>3, Kinds DEF SaveFrom
    <2>2. [req[p] EXCEPT !.at = "SaveTo"] \in Request
      BY <2>1 DEF BothRead, Request, DependencyRequest
    <2>3. req[p].from \in Ids /\ req[p].fromCopy \in Row /\ req[p].fromCopy.name \in Names
      BY <1>3, <2>1 DEF BothRead, SaveFrom, CopiesAgree
    <2>4. QED
      BY <1>3, <2>2, <2>3, SaveNodeTyped DEF SaveFrom, Goto, TypeOK
  <1>4. CASE SaveTo(p)
    <2>1. req[p] \in BothRead
      BY <1>1, <1>4, Kinds DEF SaveTo
    <2>2. req[p].to \in Ids /\ req[p].toCopy \in Row /\ req[p].toCopy.name \in Names
      BY <1>4, <2>1 DEF BothRead, SaveTo, CopiesAgree
    <2>3. QED
      BY <1>4, <2>2, SaveNodeTyped DEF SaveTo, Goto, TypeOK, Request
  <1>5. QED
    BY <1>2, <1>3, <1>4

(* The steps of Cache keep the types.                                      *)
LEMMA CacheTyped ==
    ASSUME TypeOK, NEW p \in Procs,
           GetAllKeys(p) \/ GetNodes(p) \/ SaveCaches(p) \/ ClearCacheStack(p)
    PROVE  TypeOK'
  <1>1. req[p] \in Request
    BY DEF TypeOK
  <1>2. CASE GetAllKeys(p)
    <2>1. req[p].dirty \in SUBSET Ids
      BY <1>1, <1>2, Kinds DEF GetAllKeys, Marked
    <2>2. [at |-> "GetNodes", dirty |-> req[p].dirty, keys |-> Saved] \in Request
      BY <2>1 DEF Request, CacheRequest, Saved
    <2>3. QED
      BY <1>2, <2>2, MoveTyped DEF GetAllKeys
  <1>3. CASE GetNodes(p)
    <2> DEFINE K == req[p].keys
               D == req[p].dirty
               g == GraphOf([i \in Ids |-> IF i \in K THEN rows[i] ELSE NoRow])
               r(C, P) == [at |-> "SaveCaches", unsaved |-> K,
                           built |-> [i \in Ids |-> IF i \in K
                                                    THEN NodeCache(P[i], C[i])
                                                    ELSE NewCache]]
    <2>1. K \in SUBSET Ids
      BY <1>1, <1>3, Kinds DEF GetNodes, Keyed
    <2>2. CASE Panics(g, K, D)
      BY <1>3, <2>2, MoveTyped DEF GetNodes, Request
    <2>3. CASE ~Panics(g, K, D)
      <3>1. PICK C \in Promise(g, K, D, "children"), P \in Promise(g, K, D, "parents") :
              Goto(p, r(C, P))
        BY <1>3, <2>3 DEF GetNodes
      <3>2. ASSUME NEW i \in K PROVE NodeCache(P[i], C[i]) \in CacheRow
        <4>1. C[i] \in SUBSET Ids /\ P[i] \in SUBSET Ids
          BY PromiseTyped
        <4>2. QED
          BY <4>1 DEF NodeCache, CacheRow
      <3>3. NewCache \in CacheRow
        BY DEF NewCache, CacheRow
      <3>4. r(C, P).built \in [Ids -> CacheRow]
        BY <3>2, <3>3
      <3>5. r(C, P) \in Request
        BY <2>1, <3>4 DEF Request, CacheRequest
      <3>6. UNCHANGED tables
        BY <1>3 DEF GetNodes
      <3>7. QED
        BY <3>1, <3>5, <3>6, MoveTyped
    <2>4. QED
      BY <2>2, <2>3
  <1>4. CASE SaveCaches(p)
    <2>1. req[p] \in Built
      BY <1>1, <1>4, Kinds DEF SaveCaches
    <2>2. PICK batch \in SUBSET req[p].unsaved :
            /\ caches' = [i \in Ids |-> IF i \in batch THEN req[p].built[i] ELSE caches[i]]
            /\ hasCache' = hasCache \cup batch
            /\ IF batch = req[p].unsaved
               THEN Goto(p, [at |-> "ClearCacheStack"])
               ELSE Goto(p, [req[p] EXCEPT !.unsaved = @ \ batch])
      BY <1>4 DEF SaveCaches
    <2>3. caches' \in [Ids -> CacheRow] /\ hasCache' \in SUBSET Ids
      BY <2>1, <2>2 DEF Built, TypeOK
    <2>4. /\ [at |-> "ClearCacheStack"] \in Request
          /\ [req[p] EXCEPT !.unsaved = @ \ batch] \in Request
      BY <2>1 DEF Built, Request, CacheRequest
    <2>5. req' \in [Procs -> Request]
      BY <2>2, <2>4 DEF Goto, TypeOK
    <2>6. QED
      BY <1>4, <2>3, <2>5 DEF SaveCaches, TypeOK
  <1>5. CASE ClearCacheStack(p)
    BY <1>5 DEF ClearCacheStack, Goto, TypeOK, Request
  <1>6. QED
    BY <1>2, <1>3, <1>4, <1>5

(* The steps of a query keep the types.                                    *)
LEMMA QueryTyped ==
    ASSUME TypeOK, NEW p \in Procs,
           QueryNodes(p) \/ QueryCaches(p) \/ QueryStack(p) \/ QueryWalk(p) \/ Reply(p)
    PROVE  TypeOK'
  <1> DEFINE q == req[p]
  <1>1. q \in Request /\ Idle \in Request
    BY DEF TypeOK, Request
  <1>2. CASE QueryNodes(p)
    <2>1. rows[q.node][q.dir] \in SUBSET Ids
      BY <1>1, <1>2, QueryKinds DEF QueryNodes, TypeOK, Row, Directions
    <2>2. [at |-> "QueryCaches", keys |-> q.keys, dir |-> q.dir, node |-> q.node,
           floor |-> q.floor, first |-> rows[q.node][q.dir]] \in Request
      BY <1>1, <1>2, <2>1, QueryKinds DEF QueryNodes, Request, QueryRequest
    <2>3. QED
      BY <1>2, <2>2, MoveTyped DEF QueryNodes
  <1>3. CASE QueryCaches(p)
    <2>1. CacheOf(q.node, q.dir) \in SUBSET Ids
      BY <1>1, <1>3, QueryKinds DEF QueryCaches, CacheOf, TypeOK, CacheRow, Directions
    <2>2. [at |-> "QueryStack", keys |-> q.keys, dir |-> q.dir, node |-> q.node,
           floor |-> q.floor, first |-> q.first, cached |-> q.node \in hasCache,
           all |-> CacheOf(q.node, q.dir)] \in Request
      BY <1>1, <1>3, <2>1, QueryKinds DEF QueryCaches, Request, QueryRequest
    <2>3. QED
      BY <1>3, <2>2, MoveTyped DEF QueryCaches
  <1>4. ASSUME NEW nodes, NEW walked \in BOOLEAN, Answer(p, nodes, walked),
               UNCHANGED tables, q.at \in {"QueryStack", "QueryWalk"}
        PROVE  TypeOK'
    <2>1. [at |-> "Answered", keys |-> q.keys, dir |-> q.dir, node |-> q.node,
           floor |-> q.floor, answer |-> nodes \cap q.keys, walked |-> walked] \in Request
      BY <1>1, <1>4, QueryKinds DEF Request, QueryRequest
    <2>2. QED
      BY <1>4, <2>1, MoveTyped DEF Answer
  <1>5. CASE QueryStack(p)
    <2>1. CASE cacheStack = {} /\ q.cached /\ Answer(p, q.all, FALSE)
      BY <1>4, <1>5, <2>1 DEF QueryStack
    <2>2. CASE Goto(p, Idle)
      BY <1>1, <1>5, <2>2, MoveTyped DEF QueryStack
    <2>3. CASE Goto(p, [at |-> "QueryWalk", keys |-> q.keys, dir |-> q.dir,
                        node |-> q.node, floor |-> q.floor,
                        result |-> q.first, queue |-> q.first \ {q.node}])
      <3>1. [at |-> "QueryWalk", keys |-> q.keys, dir |-> q.dir,
             node |-> q.node, floor |-> q.floor,
             result |-> q.first, queue |-> q.first \ {q.node}] \in Request
        BY <1>1, <1>5, QueryKinds DEF QueryStack, Request, QueryRequest
      <3>2. QED
        BY <1>5, <2>3, <3>1, MoveTyped DEF QueryStack
    <2>4. QED
      BY <1>5, <2>1, <2>2, <2>3 DEF QueryStack
  <1>6. CASE QueryWalk(p)
    <2>1. ASSUME NEW k \in q.queue,
                 Goto(p, [q EXCEPT !.result = Found(q, rows[k][q.dir]),
                            !.queue = (@ \ {k}) \cup Unvisited(q, rows[k][q.dir])])
          PROVE  TypeOK'
      <3>1. rows[k][q.dir] \in SUBSET Ids
        BY <1>1, <1>6, QueryKinds DEF QueryWalk, TypeOK, Row, Directions
      <3>2. [q EXCEPT !.result = Found(q, rows[k][q.dir]),
                      !.queue = (@ \ {k}) \cup Unvisited(q, rows[k][q.dir])] \in Request
        BY <1>1, <1>6, <3>1 DEF QueryWalk, Request, Idle, AddRequest,
           DependencyRequest, CacheRequest, QueryRequest, Found, Unvisited
      <3>3. QED
        BY <1>6, <2>1, <3>2, MoveTyped DEF QueryWalk
    <2>2. CASE Answer(p, q.result \cup {q.node}, TRUE)
      BY <1>4, <1>6, <2>2 DEF QueryWalk
    <2>3. QED
      BY <1>6, <2>1, <2>2 DEF QueryWalk
  <1>7. CASE Reply(p)
    BY <1>1, <1>7, MoveTyped DEF Reply
  <1>8. QED
    BY <1>2, <1>3, <1>5, <1>6, <1>7

(* Every step keeps the types.                                             *)
LEMMA NextTyped ==
    ASSUME TypeOK, CopiesAgree, [Next]_vars
    PROVE  TypeOK'
  <1>1. CASE UNCHANGED vars
    BY <1>1 DEF vars, tables, TypeOK
  <1>2. ASSUME NEW p \in Procs, Start(p) \/ Continue(p) \/ Fail(p) PROVE TypeOK'
    <2>1. CASE Start(p)
      BY <2>1, StartTyped
    <2>2. CASE Continue(p)
      BY <2>2, AddTyped, DependencyTyped, CacheTyped, QueryTyped DEF Continue
    <2>3. CASE Fail(p)
      BY <2>3, MoveTyped DEF Fail, Request
    <2>4. QED
      BY <1>2, <2>1, <2>2, <2>3
  <1>3. QED
    BY <1>1, <1>2 DEF Next

-----------------------------------------------------------------------------
(* The storage starts with rows and a name index that agree.               *)
LEMMA InitNames == Init => NameInvariant
  <1> SUFFICES ASSUME Init PROVE NameInvariant
    OBVIOUS
  <1>1. TypeOK
    BY InitTyped
  <1>2. PICK k \in 0..MaxId : Loaded \in [1..k -> Names]
    BY LoadedAssumption
  <1>3. DOMAIN Loaded = 1..k /\ counter = k
    <2>1. Cardinality(1..k) = k
      BY <1>2, FS_Interval
    <2>2. QED
      BY <1>2, <2>1 DEF Init
  <1>4. ASSUME NEW i \in Ids
        PROVE  rows[i].name = IF i \in DOMAIN Loaded THEN Loaded[i] ELSE NoName
    BY DEF Init, NewRow, NoRow
  <1>5. SavedWereGivenOut
    BY <1>3, <1>4 DEF SavedWereGivenOut
  <1>6. NameIndexSound
    <2>1. ASSUME NEW n \in Names, nameToId[n] # 0
          PROVE  rows[nameToId[n]].name = n
      <3>1. \E i \in DOMAIN Loaded : Loaded[i] = n
        BY <2>1 DEF Init
      <3>2. nameToId[n] = CHOOSE i \in DOMAIN Loaded : Loaded[i] = n
        BY <2>1, <3>1 DEF Init
      <3>3. nameToId[n] \in DOMAIN Loaded /\ Loaded[nameToId[n]] = n
        BY <3>1, <3>2
      <3>4. nameToId[n] \in Ids
        BY <1>1, <2>1 DEF TypeOK
      <3>5. QED
        BY <1>4, <3>3, <3>4
    <2>2. QED
      BY <2>1 DEF NameIndexSound
  <1>7. NewIDsAreFree /\ NewIDsDiffer /\ CopiesAgree
    BY DEF Init, Idle, NewIDsAreFree, NewIDsDiffer, CopiesAgree
  <1>8. QED
    BY <1>1, <1>5, <1>6, <1>7 DEF NameInvariant

(* What the theorems below say of a step.                                  *)
NamesStay == \A i \in Ids : rows[i].name # NoName => rows'[i].name = rows[i].name

(* A request that moves on without a node to save, while rows, name index  *)
(* and counter stay, keeps the invariant.                                  *)
LEMMA MoveNames ==
    ASSUME NameInvariant, TypeOK', NEW p \in Procs, NEW r, Goto(p, r),
           r.at \notin {"SaveNewNode", "GetTo", "SaveFrom", "SaveTo"},
           UNCHANGED <<rows, nameToId, counter>>
    PROVE  NameInvariant' /\ NamesStay
  <1>1. req \in [Procs -> Request]
    BY DEF NameInvariant, TypeOK
  <1>2. ASSUME NEW q \in Procs, req'[q].at \in {"SaveNewNode", "GetTo", "SaveFrom", "SaveTo"}
        PROVE  q # p /\ req'[q] = req[q]
    BY <1>1, <1>2 DEF Goto
  <1>3. SavedWereGivenOut' /\ NameIndexSound' /\ NamesStay
    BY DEF NameInvariant, SavedWereGivenOut, NameIndexSound, NamesStay
  <1>4. NewIDsAreFree' /\ NewIDsDiffer'
    BY <1>2 DEF NameInvariant, NewIDsAreFree, NewIDsDiffer
  <1>5. CopiesAgree'
    BY <1>2 DEF NameInvariant, CopiesAgree
  <1>6. QED
    BY <1>3, <1>4, <1>5 DEF NameInvariant

(* Saving a node over a free row, or over the row of its own name, leaves  *)
(* index and rows in agreement.                                            *)
LEMMA SaveNames ==
    ASSUME TypeOK, NameIndexSound, NEW i \in Ids, NEW row \in Row, row.name \in Names,
           rows[i].name \in {NoName, row.name}, SaveNode(i, row)
    PROVE  /\ NameIndexSound' /\ NamesStay
           /\ rows'[i].name = row.name
           /\ \A k \in Ids : k # i => rows'[k] = rows[k]
  <1>1. rows \in [Ids -> Row] /\ nameToId \in [Names -> Ids \cup {0}]
    BY DEF TypeOK
  <1>2. rows' = [rows EXCEPT ![i] = row] /\ nameToId' = [nameToId EXCEPT ![row.name] = i]
    BY DEF SaveNode
  <1>3. rows'[i] = row /\ \A k \in Ids : k # i => rows'[k] = rows[k]
    BY <1>1, <1>2
  <1>4. NamesStay
    BY <1>3 DEF NamesStay
  <1>5. ASSUME NEW n \in Names, nameToId'[n] # 0
        PROVE  rows'[nameToId'[n]].name = n
    <2>1. CASE n = row.name
      BY <1>1, <1>2, <1>3, <2>1
    <2>2. CASE n # row.name
      <3>1. nameToId'[n] = nameToId[n] /\ nameToId[n] \in Ids
        BY <1>1, <1>2, <1>5, <2>2
      <3>2. rows[nameToId[n]].name = n
        BY <1>5, <3>1 DEF NameIndexSound
      <3>3. n # NoName
        BY NamesAssumption
      <3>4. QED
        BY <1>4, <3>1, <3>2, <3>3 DEF NamesStay
    <2>3. QED
      BY <2>1, <2>2
  <1>6. QED
    BY <1>3, <1>4, <1>5 DEF NameIndexSound

(* Names that stay do not take a copy out of agreement with its row: a     *)
(* row that has a name keeps it.                                           *)
LEMMA CopiesStay ==
    ASSUME NameInvariant, NamesStay, NEW p \in Procs,
           \A q \in Procs : q # p => req'[q] = req[q],
           req'[p].at \in {"GetTo", "SaveFrom", "SaveTo"} =>
              /\ req'[p].fromCopy.name \in Names
              /\ rows'[req'[p].from].name = req'[p].fromCopy.name,
           req'[p].at \in {"SaveFrom", "SaveTo"} =>
              /\ req'[p].toCopy.name \in Names
              /\ rows'[req'[p].to].name = req'[p].toCopy.name
    PROVE  CopiesAgree'
  <1>1. ASSUME NEW q \in Procs, q # p, req[q].at \in {"GetTo", "SaveFrom", "SaveTo"}
        PROVE  /\ req[q].fromCopy.name \in Names
               /\ rows'[req[q].from].name = req[q].fromCopy.name
    <2>1. req[q] \in Request
      BY DEF NameInvariant, TypeOK
    <2>2. req[q].from \in Ids
      BY <1>1, <2>1, Kinds DEF FromRead, BothRead
    <2>3. /\ req[q].fromCopy.name \in Names
          /\ rows[req[q].from].name = req[q].fromCopy.name
      BY <1>1 DEF NameInvariant, CopiesAgree
    <2>4. QED
      BY <2>2, <2>3, NamesAssumption DEF NamesStay
  <1>2. ASSUME NEW q \in Procs, q # p, req[q].at \in {"SaveFrom", "SaveTo"}
        PROVE  /\ req[q].toCopy.name \in Names
               /\ rows'[req[q].to].name = req[q].toCopy.name
    <2>1. req[q] \in Request
      BY DEF NameInvariant, TypeOK
    <2>2. req[q].to \in Ids
      BY <1>2, <2>1, Kinds DEF BothRead
    <2>3. /\ req[q].toCopy.name \in Names
          /\ rows[req[q].to].name = req[q].toCopy.name
      BY <1>2 DEF NameInvariant, CopiesAgree
    <2>4. QED
      BY <2>2, <2>3, NamesAssumption DEF NamesStay
  <1>3. QED
    BY <1>1, <1>2 DEF CopiesAgree

-----------------------------------------------------------------------------
(* AddNode: the number is free and nobody else's, so that saving the new   *)
(* node overwrites nothing, although the name index was read long before.  *)
LEMMA AddNames ==
    ASSUME NameInvariant, TypeOK', NEW p \in Procs,
           GenerateID(p) \/ SaveNewNode(p) \/ SaveNewCache(p)
    PROVE  NameInvariant' /\ NamesStay
  <1>1. TypeOK /\ req \in [Procs -> Request] /\ req[p] \in Request
    BY DEF NameInvariant, TypeOK
  <1>2. CASE GenerateID(p)
    <2> DEFINE new == [at |-> "SaveNewNode", name |-> req[p].name, id |-> counter + 1]
    <2>1. counter \in Nat /\ counter' = counter + 1 /\ counter + 1 \in Ids
      BY <1>1, <1>2, MaxIdAssumption DEF GenerateID, TypeOK, Ids
    <2>2. UNCHANGED <<rows, nameToId>>
      BY <1>2 DEF GenerateID
    <2>3. req'[p] = new /\ \A q \in Procs : q # p => req'[q] = req[q]
      BY <1>1, <1>2 DEF GenerateID, Goto
    <2>4. rows[counter + 1].name = NoName
      BY <2>1 DEF NameInvariant, SavedWereGivenOut
    <2>5. ASSUME NEW q \in Procs, req[q].at = "SaveNewNode"
          PROVE  req[q].id \in Ids /\ req[q].id <= counter
      <3>1. req[q] \in Request
        BY <1>1
      <3>2. req[q].id \in Ids
        BY <2>5, <3>1, Kinds DEF Numbered
      <3>3. QED
        BY <2>5, <3>2 DEF NameInvariant, NewIDsAreFree
    <2>6. SavedWereGivenOut'
      BY <2>1, <2>2 DEF NameInvariant, SavedWereGivenOut, Ids
    <2>7. NewIDsAreFree'
      <3>1. ASSUME NEW q \in Procs, req'[q].at = "SaveNewNode"
            PROVE  req'[q].id <= counter' /\ rows'[req'[q].id].name = NoName
        <4>1. CASE q = p
          BY <2>1, <2>2, <2>3, <2>4, <4>1
        <4>2. CASE q # p
          <5>1. req'[q] = req[q]
            BY <2>3, <4>2
          <5>2. req[q].id \in Ids /\ req[q].id <= counter
            BY <2>5, <3>1, <5>1
          <5>3. rows[req[q].id].name = NoName
            BY <3>1, <5>1 DEF NameInvariant, NewIDsAreFree
          <5>4. QED
            BY <2>1, <2>2, <5>1, <5>2, <5>3 DEF Ids
        <4>3. QED
          BY <4>1, <4>2
      <3>2. QED
        BY <3>1 DEF NewIDsAreFree
    <2>8. NewIDsDiffer'
      <3>1. ASSUME NEW q \in Procs, q # p, req[q].at = "SaveNewNode"
            PROVE  req[q].id # counter + 1
        BY <2>1, <2>5, <3>1 DEF Ids
      <3>2. QED
        BY <2>3, <3>1 DEF NameInvariant, NewIDsDiffer
    <2>9. CopiesAgree'
      BY <2>2, <2>3 DEF NameInvariant, CopiesAgree
    <2>10. NameIndexSound' /\ NamesStay
      BY <2>2 DEF NameInvariant, NameIndexSound, NamesStay
    <2>11. QED
      BY <2>6, <2>7, <2>8, <2>9, <2>10 DEF NameInvariant
  <1>3. CASE SaveNewNode(p)
    <2> DEFINE id == req[p].id
               row == NewRow(req[p].name)
    <2>1. req[p] \in Numbered /\ req[p].at = "SaveNewNode"
      BY <1>1, <1>3, Kinds DEF SaveNewNode
    <2>2. id \in Ids /\ row \in Row /\ row.name \in Names
      BY <2>1 DEF Numbered, NewRow, Row
    <2>3. id <= counter /\ rows[id].name = NoName
      BY <2>1 DEF NameInvariant, NewIDsAreFree
    <2>4. SaveNode(id, row) /\ counter' = counter
      BY <1>3 DEF SaveNewNode
    <2>5. /\ NameIndexSound' /\ NamesStay
          /\ \A k \in Ids : k # id => rows'[k] = rows[k]
      BY <1>1, <2>2, <2>3, <2>4, SaveNames DEF NameInvariant
    <2>6. req'[p].at = "SaveNewCache" /\ \A q \in Procs : q # p => req'[q] = req[q]
      BY <1>1, <1>3, <2>1 DEF SaveNewNode, Goto, Numbered
    <2>7. SavedWereGivenOut'
      BY <2>3, <2>4, <2>5 DEF NameInvariant, SavedWereGivenOut
    <2>8. NewIDsAreFree'
      <3>1. ASSUME NEW q \in Procs, req'[q].at = "SaveNewNode"
            PROVE  req'[q].id <= counter' /\ rows'[req'[q].id].name = NoName
        <4>1. q # p /\ req'[q] = req[q]
          BY <2>6, <3>1
        <4>2. req[q].id \in Ids
          BY <1>1, <3>1, <4>1, Kinds DEF Numbered
        <4>3. req[q].id # id
          BY <2>1, <3>1, <4>1 DEF NameInvariant, NewIDsDiffer
        <4>4. req[q].id <= counter /\ rows[req[q].id].name = NoName
          BY <3>1, <4>1 DEF NameInvariant, NewIDsAreFree
        <4>5. QED
          BY <2>4, <2>5, <4>1, <4>2, <4>3, <4>4
      <3>2. QED
        BY <3>1 DEF NewIDsAreFree
    <2>9. NewIDsDiffer'
      BY <2>6 DEF NameInvariant, NewIDsDiffer
    <2>10. CopiesAgree'
      BY <1>1, <2>5, <2>6, CopiesStay
    <2>11. QED
      BY <2>5, <2>7, <2>8, <2>9, <2>10 DEF NameInvariant
  <1>4. CASE SaveNewCache(p)
    BY <1>4, MoveNames DEF SaveNewCache, Idle
  <1>5. QED
    BY <1>2, <1>3, <1>4

(* Saving a node over its own row disturbs no new ID: those are free.      *)
LEMMA ResaveNames ==
    ASSUME NameInvariant, NEW p \in Procs, NEW i \in Ids, NEW row \in Row,
           row.name \in Names, rows[i].name = row.name,
           SaveNode(i, row), counter' = counter,
           \A q \in Procs : q # p => req'[q] = req[q],
           req'[p].at # "SaveNewNode"
    PROVE  /\ SavedWereGivenOut' /\ NewIDsAreFree' /\ NewIDsDiffer'
           /\ NameIndexSound' /\ NamesStay
           /\ rows'[i].name = row.name
  <1>1. TypeOK /\ NameIndexSound
    BY DEF NameInvariant
  <1>2. /\ NameIndexSound' /\ NamesStay
        /\ rows'[i].name = row.name
        /\ \A k \in Ids : k # i => rows'[k] = rows[k]
    BY <1>1, SaveNames
  <1>3. rows[i].name # NoName
    BY NamesAssumption
  <1>4. SavedWereGivenOut'
    BY <1>2, <1>3 DEF NameInvariant, SavedWereGivenOut
  <1>5. NewIDsAreFree'
    <2>1. ASSUME NEW q \in Procs, req'[q].at = "SaveNewNode"
          PROVE  req'[q].id <= counter' /\ rows'[req'[q].id].name = NoName
      <3>1. req'[q] = req[q] /\ req[q] \in Request
        BY <1>1, <2>1 DEF TypeOK
      <3>2. req[q].id \in Ids
        BY <2>1, <3>1, Kinds DEF Numbered
      <3>3. req[q].id <= counter /\ rows[req[q].id].name = NoName
        BY <2>1, <3>1 DEF NameInvariant, NewIDsAreFree
      <3>4. QED
        BY <1>2, <1>3, <3>1, <3>2, <3>3
    <2>2. QED
      BY <2>1 DEF NewIDsAreFree
  <1>6. NewIDsDiffer'
    BY DEF NameInvariant, NewIDsDiffer
  <1>7. QED
    BY <1>2, <1>4, <1>5, <1>6

(* SetDependency: rows are saved from copies, stale in their edges maybe,  *)
(* but never in their names.                                               *)
LEMMA DependencyNames ==
    ASSUME NameInvariant, TypeOK', NEW p \in Procs,
           \/ \E i \in Ids : SetDependency(p, i)
           \/ \E j \in Ids : GetTo(p, j)
           \/ SaveFrom(p) \/ SaveTo(p)
    PROVE  NameInvariant' /\ NamesStay
  <1>1. TypeOK /\ req \in [Procs -> Request] /\ req[p] \in Request /\ rows \in [Ids -> Row]
    BY DEF NameInvariant, TypeOK
  <1>2. ASSUME NEW r, Goto(p, r)
        PROVE  req'[p] = r /\ \A q \in Procs : q # p => req'[q] = req[q]
    BY <1>1, <1>2 DEF Goto
  <1>3. ASSUME UNCHANGED tables, \A q \in Procs : q # p => req'[q] = req[q],
               req'[p].at # "SaveNewNode"
        PROVE  /\ SavedWereGivenOut' /\ NewIDsAreFree' /\ NewIDsDiffer'
               /\ NameIndexSound' /\ NamesStay
    <2>1. SavedWereGivenOut' /\ NameIndexSound' /\ NamesStay
      BY <1>3 DEF NameInvariant, tables, SavedWereGivenOut, NameIndexSound, NamesStay
    <2>2. NewIDsAreFree' /\ NewIDsDiffer'
      BY <1>3 DEF NameInvariant, tables, NewIDsAreFree, NewIDsDiffer
    <2>3. QED
      BY <2>1, <2>2
  <1>4. ASSUME NEW i \in Ids, SetDependency(p, i) PROVE NameInvariant' /\ NamesStay
    <2>1. /\ req'[p] = [at |-> "GetTo", from |-> i, fromCopy |-> rows[i]]
          /\ \A q \in Procs : q # p => req'[q] = req[q]
      BY <1>2, <1>4 DEF SetDependency
    <2>2. UNCHANGED tables /\ rows[i].name \in Names
      BY <1>1, <1>4 DEF SetDependency, Saved, Row
    <2>3. /\ SavedWereGivenOut' /\ NewIDsAreFree' /\ NewIDsDiffer'
          /\ NameIndexSound' /\ NamesStay
      BY <1>3, <2>1, <2>2
    <2>4. rows' = rows
      BY <2>2 DEF tables
    <2>5. CopiesAgree'
      BY <2>1, <2>2, <2>3, <2>4, CopiesStay
    <2>6. QED
      BY <2>3, <2>5 DEF NameInvariant
  <1>5. ASSUME NEW j \in Ids, GetTo(p, j) PROVE NameInvariant' /\ NamesStay
    <2>1. CASE Refused(req[p].from, j)
      BY <1>5, <2>1, MoveNames DEF GetTo, tables, Idle
    <2>2. CASE ~Refused(req[p].from, j)
      <3> DEFINE from == req[p].from
                 fromCopy == WithChild(req[p].fromCopy, j)
                 toCopy == [rows[j] EXCEPT !.parents = @ \cup {from}]
      <3>1. /\ req'[p] = [at |-> "SaveFrom", from |-> from, to |-> j,
                          fromCopy |-> fromCopy, toCopy |-> toCopy]
            /\ \A q \in Procs : q # p => req'[q] = req[q]
        BY <1>2, <1>5, <2>2 DEF GetTo
      <3>2. UNCHANGED tables /\ rows' = rows
        BY <1>5 DEF GetTo, tables
      <3>3. /\ SavedWereGivenOut' /\ NewIDsAreFree' /\ NewIDsDiffer'
            /\ NameIndexSound' /\ NamesStay
        BY <1>3, <3>1, <3>2
      <3>4. fromCopy.name = req[p].fromCopy.name
        BY <1>1, <1>5, Kinds DEF GetTo, FromRead, Row, WithChild
      <3>5. rows[from].name = fromCopy.name /\ fromCopy.name \in Names
        BY <1>5, <3>4 DEF GetTo, NameInvariant, CopiesAgree
      <3>6. rows[j].name = toCopy.name /\ toCopy.name \in Names
        BY <1>1, <2>2 DEF Refused, Saved, Row
      <3>7. CopiesAgree'
        <4>1. /\ req'[p].from = from /\ req'[p].fromCopy = fromCopy
              /\ req'[p].to = j /\ req'[p].toCopy = toCopy
          BY <3>1
        <4>2. /\ req'[p].fromCopy.name \in Names
              /\ rows'[req'[p].from].name = req'[p].fromCopy.name
          BY <3>2, <3>5, <4>1
        <4>3. /\ req'[p].toCopy.name \in Names
              /\ rows'[req'[p].to].name = req'[p].toCopy.name
          BY <3>2, <3>6, <4>1
        <4>4. QED
          BY <3>1, <3>3, <4>2, <4>3, CopiesStay
      <3>8. QED
        BY <3>3, <3>7 DEF NameInvariant
    <2>3. QED
      BY <2>1, <2>2
  <1>6. CASE SaveFrom(p)
    <2>1. req[p] \in BothRead /\ req[p].at = "SaveFrom"
      BY <1>1, <1>6, Kinds DEF SaveFrom
    <2>2. /\ req'[p] = [req[p] EXCEPT !.at = "SaveTo"]
          /\ \A q \in Procs : q # p => req'[q] = req[q]
      BY <1>2, <1>6 DEF SaveFrom
    <2>3. /\ req'[p].at = "SaveTo"
          /\ req'[p].from = req[p].from /\ req'[p].fromCopy = req[p].fromCopy
          /\ req'[p].to = req[p].to /\ req'[p].toCopy = req[p].toCopy
      BY <2>1, <2>2 DEF BothRead
    <2>4. /\ req[p].from \in Ids /\ req[p].fromCopy \in Row /\ req[p].to \in Ids
          /\ req[p].fromCopy.name \in Names /\ rows[req[p].from].name = req[p].fromCopy.name
          /\ req[p].toCopy.name \in Names /\ rows[req[p].to].name = req[p].toCopy.name
      BY <2>1 DEF BothRead, NameInvariant, CopiesAgree
    <2>5. SaveNode(req[p].from, req[p].fromCopy) /\ counter' = counter
      BY <1>6 DEF SaveFrom
    <2>6. /\ SavedWereGivenOut' /\ NewIDsAreFree' /\ NewIDsDiffer'
          /\ NameIndexSound' /\ NamesStay
          /\ rows'[req[p].from].name = req[p].fromCopy.name
      <3>1. req'[p].at # "SaveNewNode"
        BY <2>3
      <3>2. \A q \in Procs : q # p => req'[q] = req[q]
        BY <2>2
      <3>3. QED
        BY <2>4, <2>5, <3>1, <3>2, ResaveNames
    <2>7. rows'[req[p].to].name = req[p].toCopy.name
      BY <2>4, <2>6, NamesAssumption DEF NamesStay
    <2>8. CopiesAgree'
      BY <2>2, <2>3, <2>4, <2>6, <2>7, CopiesStay
    <2>9. QED
      BY <2>6, <2>8 DEF NameInvariant
  <1>7. CASE SaveTo(p)
    <2>1. req[p] \in BothRead /\ req[p].at = "SaveTo"
      BY <1>1, <1>7, Kinds DEF SaveTo
    <2>2. req'[p].at = "idle" /\ \A q \in Procs : q # p => req'[q] = req[q]
      BY <1>2, <1>7 DEF SaveTo, Idle
    <2>3. /\ req[p].to \in Ids /\ req[p].toCopy \in Row
          /\ req[p].toCopy.name \in Names /\ rows[req[p].to].name = req[p].toCopy.name
      BY <2>1 DEF BothRead, NameInvariant, CopiesAgree
    <2>4. SaveNode(req[p].to, req[p].toCopy) /\ counter' = counter
      BY <1>7 DEF SaveTo
    <2>5. /\ SavedWereGivenOut' /\ NewIDsAreFree' /\ NewIDsDiffer'
          /\ NameIndexSound' /\ NamesStay
      BY <2>2, <2>3, <2>4, ResaveNames
    <2>6. CopiesAgree'
      BY <2>2, <2>5, CopiesStay
    <2>7. QED
      BY <2>5, <2>6 DEF NameInvariant
  <1>8. QED
    BY <1>4, <1>5, <1>6, <1>7

(* Cache works on the caches and the marks only.                           *)
LEMMA CacheNames ==
    ASSUME NameInvariant, TypeOK', NEW p \in Procs,
           \/ Cache(p) \/ GetAllKeys(p) \/ GetNodes(p) \/ SaveCaches(p)
           \/ ClearCacheStack(p)
    PROVE  NameInvariant' /\ NamesStay
  <1>1. UNCHANGED <<rows, nameToId, counter>>
    BY DEF tables, Cache, GetAllKeys, GetNodes, SaveCaches, ClearCacheStack
  <1>2. ASSUME NEW r, Goto(p, r),
               r.at \in {"idle", "GetAllKeys", "GetNodes", "SaveCaches", "ClearCacheStack"}
        PROVE  NameInvariant' /\ NamesStay
    BY <1>1, <1>2, MoveNames
  <1>3. CASE Cache(p)
    BY <1>2, <1>3 DEF Cache
  <1>4. CASE GetAllKeys(p)
    BY <1>2, <1>4 DEF GetAllKeys
  <1>5. CASE GetNodes(p)
    <2>1. CASE Goto(p, Idle)
      BY <1>2, <2>1 DEF Idle
    <2>2. ASSUME NEW K, NEW B, Goto(p, [at |-> "SaveCaches", unsaved |-> K, built |-> B])
          PROVE  NameInvariant' /\ NamesStay
      BY <1>2, <2>2
    <2>3. QED
      BY <1>5, <2>1, <2>2, Zenon DEF GetNodes
  <1>6. CASE SaveCaches(p)
    <2>1. req[p] \in Built
      BY <1>6, Kinds DEF SaveCaches, NameInvariant, TypeOK
    <2>2. CASE Goto(p, [at |-> "ClearCacheStack"])
      BY <1>2, <2>2
    <2>3. ASSUME NEW batch, Goto(p, [req[p] EXCEPT !.unsaved = @ \ batch])
          PROVE  NameInvariant' /\ NamesStay
      <3>1. [req[p] EXCEPT !.unsaved = @ \ batch].at = "SaveCaches"
        BY <2>1 DEF Built
      <3>2. QED
        BY <1>2, <2>3, <3>1
    <2>4. QED
      BY <1>6, <2>2, <2>3 DEF SaveCaches
  <1>7. CASE ClearCacheStack(p)
    BY <1>2, <1>7 DEF ClearCacheStack, Idle
  <1>8. QED
    BY <1>3, <1>4, <1>5, <1>6, <1>7

(* A query changes nothing that is stored.                                 *)
LEMMA QueryNames ==
    ASSUME NameInvariant, TypeOK', NEW p \in Procs,
           \/ \E i \in Ids, dir \in Directions : Query(p, i, dir)
           \/ QueryNodes(p) \/ QueryCaches(p) \/ QueryStack(p) \/ QueryWalk(p)
           \/ Reply(p)
    PROVE  NameInvariant' /\ NamesStay
  <1>1. UNCHANGED <<rows, nameToId, counter>>
    BY DEF tables, Query, QueryNodes, QueryCaches, QueryStack, QueryWalk, Reply
  <1>2. ASSUME NEW r, Goto(p, r),
               r.at \in {"idle", "QueryNodes", "QueryCaches", "QueryStack", "QueryWalk",
                         "Answered"}
        PROVE  NameInvariant' /\ NamesStay
    BY <1>1, <1>2, MoveNames
  <1>3. CASE \E i \in Ids, dir \in Directions : Query(p, i, dir)
    BY <1>2, <1>3 DEF Query
  <1>4. CASE QueryNodes(p) \/ QueryCaches(p) \/ Reply(p)
    BY <1>2, <1>4 DEF QueryNodes, QueryCaches, Reply, Idle
  <1>5. ASSUME NEW nodes, NEW walked, Answer(p, nodes, walked)
        PROVE  NameInvariant' /\ NamesStay
    BY <1>2, <1>5 DEF Answer
  <1>6. CASE QueryStack(p)
    <2>1. CASE Goto(p, Idle)
      BY <1>2, <2>1 DEF Idle
    <2>2. ASSUME NEW K, NEW D, NEW N, NEW F, NEW R, NEW Q,
                 Goto(p, [at |-> "QueryWalk", keys |-> K, dir |-> D, node |-> N,
                          floor |-> F, result |-> R, queue |-> Q])
          PROVE  NameInvariant' /\ NamesStay
      BY <1>2, <2>2
    <2>3. QED
      BY <1>5, <1>6, <2>1, <2>2, Zenon DEF QueryStack
  <1>7. CASE QueryWalk(p)
    <2>1. req[p] \in Request /\ req[p].at = "QueryWalk"
      BY <1>7 DEF QueryWalk, NameInvariant, TypeOK
    <2>2. ASSUME NEW R, NEW Q, Goto(p, [req[p] EXCEPT !.result = R, !.queue = Q])
          PROVE  NameInvariant' /\ NamesStay
      <3>1. [req[p] EXCEPT !.result = R, !.queue = Q].at = "QueryWalk"
        BY <2>1 DEF Request, Idle, AddRequest, DependencyRequest, CacheRequest, QueryRequest
      <3>2. QED
        BY <1>2, <2>2, <3>1
    <2>3. QED
      BY <1>5, <1>7, <2>2, Zenon DEF QueryWalk
  <1>8. QED
    BY <1>3, <1>4, <1>6, <1>7

(* Every step keeps the invariant and the names.                           *)
LEMMA NextNames ==
    ASSUME NameInvariant, [Next]_vars
    PROVE  NameInvariant' /\ NamesStay
  <1>1. TypeOK'
    BY NextTyped DEF NameInvariant
  <1>2. CASE UNCHANGED vars
    BY <1>2 DEF vars, tables, NameInvariant, TypeOK, SavedWereGivenOut, NewIDsAreFree,
       NewIDsDiffer, CopiesAgree, NameIndexSound, NamesStay
  <1>3. ASSUME NEW p \in Procs, Start(p) \/ Continue(p) \/ Fail(p)
        PROVE  NameInvariant' /\ NamesStay
    <2>1. CASE \E n \in Names : AddNode(p, n)
      BY <1>1, <2>1, MoveNames DEF AddNode, tables
    <2>2. CASE RemoveAllCaches(p)
      BY <1>1, <2>2 DEF RemoveAllCaches, NameInvariant, SavedWereGivenOut, NewIDsAreFree,
         NewIDsDiffer, CopiesAgree, NameIndexSound, NamesStay
    <2>3. CASE Fail(p)
      BY <1>1, <2>3, MoveNames DEF Fail, tables, Idle
    <2>4. QED
      BY <1>1, <1>3, <2>1, <2>2, <2>3, AddNames, DependencyNames, CacheNames, QueryNames
         DEF Start, Continue
  <1>4. QED
    BY <1>2, <1>3 DEF Next

-----------------------------------------------------------------------------
(* The invariant holds in every state that the requests reach.             *)
THEOREM Invariance == Spec => []NameInvariant
  <1>1. NameInvariant /\ [Next]_vars => NameInvariant'
    BY NextNames
  <1>2. QED
    BY InitNames, <1>1, PTL DEF Spec

(* Every row, index entry, cache and request in progress has its type: no  *)
(* request ever works on a node outside of the IDs that were given out.    *)
THEOREM Typing == Spec => []TypeOK
  <1>1. NameInvariant => TypeOK
    BY DEF NameInvariant
  <1>2. QED
    BY Invariance, <1>1, PTL

(* The name index never leads to the row of another name, with any number  *)
(* of concurrent AddNode and SetDependency requests and any failures.      *)
THEOREM IndexSound == Spec => []NameIndexSound
  <1>1. NameInvariant => NameIndexSound
    BY DEF NameInvariant
  <1>2. QED
    BY Invariance, <1>1, PTL

(* No SaveNode ever replaces a node by another: what AddNode saves under   *)
(* a generated ID, and what SetDependency saves back, keeps every name.    *)
THEOREM NamesKept == Spec => RowsKeepTheirName
  <1>1. NameInvariant /\ [Next]_vars =>
          [\A i \in Ids : rows[i].name # NoName => rows'[i].name = rows[i].name]_vars
    BY NextNames DEF NamesStay
  <1>2. QED
    BY Invariance, <1>1, PTL DEF Spec, RowsKeepTheirName
=============================================================================
