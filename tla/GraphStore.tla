----------------------------- MODULE GraphStore -----------------------------
(***************************************************************************)
(* The dependency graph in the storage, and the requests of the server     *)
(* that work on it at the same time (pkg/graph/graph.go, pkg/graph/        *)
(* cache.go, api/v1/service.go, pkg/storages/sql.go).                      *)
(*                                                                         *)
(* Every request runs in a goroutine of its own and nothing but the        *)
(* database serialises them: one action is one storage call, and between   *)
(* two calls of a request the calls of others may come.  A request works   *)
(* on the copies it has read.                                              *)
(*                                                                         *)
(* A node row is the JSON of one node; types and metadata are left out.    *)
(* Request p is in the state req[p]; its field "at" names the storage call *)
(* that comes next.                                                        *)
(***************************************************************************)
EXTENDS CachePromise

CONSTANTS
    Loaded,     \* nodes stored at the start, not yet cached: ID -> name
    MaxEdges,   \* bound: no new edge is asked for when there are so many
    Names,      \* node names that clients use
    NoName,     \* the name of a row that does not exist
    Writers,    \* clients that add nodes and dependencies
    Cachers,    \* clients that run cache
    Clearers,   \* clients that run cache --clear
    Queriers,   \* clients that query
    BatchSize,  \* rows that one statement of SaveCaches writes (500)
    ClearMarks, \* RemoveAllCaches marks what it removes as uncached: TRUE
                \* for Redis and the mock storage, FALSE for SQL
    MayFail,    \* storage calls may fail, the server may crash
    IndexMayFail \* so may the read of the name index in AddNode

ASSUME NamesAssumption == NoName \notin Names
ASSUME LoadedAssumption ==
    /\ MaxEdges \in Nat
    /\ \E k \in 0..MaxId : Loaded \in [1..k -> Names]
    /\ \A i, j \in DOMAIN Loaded : Loaded[i] = Loaded[j] => i = j
ASSUME FlagsAssumption ==
    /\ BatchSize \in Nat \ {0} /\ ClearMarks \in BOOLEAN
    /\ MayFail \in BOOLEAN /\ IndexMayFail \in BOOLEAN

VARIABLES
    rows,       \* the node rows (node:<id>)
    nameToId,   \* the name index (name_to_id:<name>), 0: no entry
    counter,    \* the last ID that GenerateID gave out
    caches,     \* the cache rows (cache:<id>)
    hasCache,   \* the IDs that have a cache row
    cacheStack, \* the table of the nodes to be cached: a set of IDs
    req         \* the requests in flight

tables == <<rows, nameToId, counter, caches, hasCache, cacheStack>>
vars == <<tables, req>>

-----------------------------------------------------------------------------
Procs == Writers \cup Cachers \cup Clearers \cup Queriers

Row == [name : Names \cup {NoName}, children : SUBSET Ids, parents : SUBSET Ids]
NoRow == [name |-> NoName, children |-> {}, parents |-> {}]
NewRow(n) == [name |-> n, children |-> {}, parents |-> {}]

CacheRow == [children : SUBSET Ids, parents : SUBSET Ids]
NewCache == [children |-> {}, parents |-> {}]
(* Mutant of NodeCache: the two arguments are exchanged.                   *)
MutantNodeCache(P, C) == [children |-> P, parents |-> C]

NodeCache(P, C) == [children |-> C, parents |-> P]

(* The IDs that have a node row, and the graph that the rows record.       *)
Saved == {i \in Ids : rows[i].name # NoName}
GraphOf(R) == [children |-> [i \in Ids |-> R[i].children],
               parents |-> [i \in Ids |-> R[i].parents]]

Idle == [at |-> "idle"]
AddRequest ==
    [at : {"GenerateID"}, name : Names] \cup
    [at : {"SaveNewNode", "SaveNewCache"}, name : Names, id : Ids]
DependencyRequest ==
    [at : {"GetTo"}, from : Ids, fromCopy : Row] \cup
    [at : {"SaveFrom", "SaveTo"}, from : Ids, to : Ids, fromCopy : Row, toCopy : Row]
CacheRequest ==
    [at : {"GetAllKeys"}, dirty : SUBSET Ids] \cup
    [at : {"GetNodes"}, dirty : SUBSET Ids, keys : SUBSET Ids] \cup
    [at : {"SaveCaches"}, unsaved : SUBSET Ids, built : [Ids -> CacheRow]] \cup
    [at : {"ClearCacheStack"}]
QueryRequest ==
    [at : {"QueryNodes"}, keys : SUBSET Ids, dir : Directions, node : Ids,
     floor : SUBSET Ids] \cup
    [at : {"QueryCaches"}, keys : SUBSET Ids, dir : Directions, node : Ids,
     floor : SUBSET Ids, first : SUBSET Ids] \cup
    [at : {"QueryStack"}, keys : SUBSET Ids, dir : Directions, node : Ids,
     floor : SUBSET Ids, first : SUBSET Ids, cached : BOOLEAN, all : SUBSET Ids] \cup
    [at : {"QueryWalk"}, keys : SUBSET Ids, dir : Directions, node : Ids,
     floor : SUBSET Ids, result : SUBSET Ids, queue : SUBSET Ids] \cup
    [at : {"Answered"}, keys : SUBSET Ids, dir : Directions, node : Ids,
     floor : SUBSET Ids, answer : SUBSET Ids, walked : BOOLEAN]
Request == {Idle} \cup AddRequest \cup DependencyRequest \cup CacheRequest
                  \cup QueryRequest

Goto(p, r) == req' = [req EXCEPT ![p] = r]

Init ==
    /\ rows = [i \in Ids |-> IF i \in DOMAIN Loaded THEN NewRow(Loaded[i]) ELSE NoRow]
    /\ nameToId = [n \in Names |-> IF \E i \in DOMAIN Loaded : Loaded[i] = n
                                  THEN CHOOSE i \in DOMAIN Loaded : Loaded[i] = n
                                  ELSE 0]
    /\ counter = Cardinality(DOMAIN Loaded)
    /\ caches = [i \in Ids |-> NewCache]
    /\ hasCache = DOMAIN Loaded
    /\ cacheStack = DOMAIN Loaded
    /\ req = [p \in Procs |-> Idle]

-----------------------------------------------------------------------------
(* Mutant of SaveNode: the name index is not written.                      *)
MutantSaveNode(i, row) ==
    /\ rows' = [rows EXCEPT ![i] = row]
    /\ cacheStack' = cacheStack \cup {i}
    /\ UNCHANGED nameToId

(* Mutant of SaveNode: the node is not marked as uncached.                 *)
MutantNoMark(i, row) ==
    /\ rows' = [rows EXCEPT ![i] = row]
    /\ nameToId' = [nameToId EXCEPT ![row.name] = i]
    /\ UNCHANGED cacheStack

(* Mutant of SaveNode: the name is marked in place of the ID.              *)
MutantMarkName(i, row) ==
    /\ rows' = [rows EXCEPT ![i] = row]
    /\ nameToId' = [nameToId EXCEPT ![row.name] = i]
    /\ cacheStack' = cacheStack \cup {row.name}

(* SaveNode of the SQL storage: one transaction writes the whole row, the  *)
(* name index and the mark of the node as uncached.                        *)
SaveNode(i, row) ==
    /\ rows' = [rows EXCEPT ![i] = row]
    /\ nameToId' = [nameToId EXCEPT ![row.name] = i]
    /\ cacheStack' = cacheStack \cup {i}

(* graph.AddNode: a name in the index is answered with its node, which     *)
(* changes nothing; any other name gets a new ID.  So does a name whose    *)
(* look-up fails: every error of NameToID is taken for an unknown name.    *)
AddNode(p, n) ==
    /\ p \in Writers
    /\ req[p] = Idle
    /\ nameToId[n] = 0 \/ IndexMayFail
    /\ counter < MaxId
    /\ Goto(p, [at |-> "GenerateID", name |-> n])
    /\ UNCHANGED tables

(* Mutant of GenerateID: the number is read, not taken.                    *)
MutantGenerateID(p) ==
    /\ req[p].at = "GenerateID"
    /\ counter < MaxId
    /\ Goto(p, [at |-> "SaveNewNode", name |-> req[p].name, id |-> counter + 1])
    /\ UNCHANGED tables

(* Mutant of GenerateID: the number from before the increment is used.     *)
MutantOldID(p) ==
    /\ req[p].at = "GenerateID"
    /\ counter < MaxId
    /\ counter' = counter + 1
    /\ Goto(p, [at |-> "SaveNewNode", name |-> req[p].name, id |-> counter])
    /\ UNCHANGED <<rows, nameToId, caches, hasCache, cacheStack>>

GenerateID(p) ==
    /\ req[p].at = "GenerateID"
    /\ counter < MaxId
    /\ counter' = counter + 1
    /\ Goto(p, [at |-> "SaveNewNode", name |-> req[p].name, id |-> counter + 1])
    /\ UNCHANGED <<rows, nameToId, caches, hasCache, cacheStack>>

(* Mutant of SaveNewNode: saved under the last ID given out to anyone.     *)
MutantSaveNewNode(p) ==
    /\ req[p].at = "SaveNewNode"
    /\ SaveNode(counter, NewRow(req[p].name))
    /\ Goto(p, [req[p] EXCEPT !.at = "SaveNewCache"])
    /\ UNCHANGED <<counter, caches, hasCache>>

SaveNewNode(p) ==
    /\ req[p].at = "SaveNewNode"
    /\ SaveNode(req[p].id, NewRow(req[p].name))
    /\ Goto(p, [req[p] EXCEPT !.at = "SaveNewCache"])
    /\ UNCHANGED <<counter, caches, hasCache>>

SaveNewCache(p) ==
    /\ req[p].at = "SaveNewCache"
    /\ caches' = [caches EXCEPT ![req[p].id] = NewCache]
    /\ hasCache' = hasCache \cup {req[p].id}
    /\ Goto(p, Idle)
    /\ UNCHANGED <<rows, nameToId, counter, cacheStack>>

-----------------------------------------------------------------------------
(* Service.SetDependency: both nodes are read, changed in memory and       *)
(* saved whole, first the one that depends, then the one it depends on.    *)
(* A missing node or equal nodes are refused with nothing changed.         *)
SetDependency(p, i) ==
    /\ p \in Writers
    /\ req[p] = Idle
    /\ i \in Saved
    /\ Cardinality({e \in Saved \X Saved : e[2] \in rows[e[1]].children}) < MaxEdges
    /\ Goto(p, [at |-> "GetTo", from |-> i, fromCopy |-> rows[i]])
    /\ UNCHANGED tables

(* Mutant of Refused: the error for a missing node is ignored.             *)
MutantRefused(i, j) == i = j

Refused(i, j) == j \notin Saved \/ i = j

(* Mutant of WithChild: the new child replaces the others.                 *)
MutantWithChild(row, j) == [row EXCEPT !.children = {j}]

WithChild(row, j) == [row EXCEPT !.children = @ \cup {j}]

GetTo(p, j) ==
    /\ req[p].at = "GetTo"
    /\ IF Refused(req[p].from, j)
       THEN Goto(p, Idle)
       ELSE Goto(p, [at |-> "SaveFrom", from |-> req[p].from, to |-> j,
                     fromCopy |-> WithChild(req[p].fromCopy, j),
                     toCopy |-> [rows[j] EXCEPT !.parents = @ \cup {req[p].from}]])
    /\ UNCHANGED tables

(* Mutant of SaveFrom: the neighbor is saved in its place.                 *)
MutantSaveFrom(p) ==
    /\ req[p].at = "SaveFrom"
    /\ SaveNode(req[p].to, req[p].toCopy)
    /\ Goto(p, [req[p] EXCEPT !.at = "SaveTo"])
    /\ UNCHANGED <<counter, caches, hasCache>>

SaveFrom(p) ==
    /\ req[p].at = "SaveFrom"
    /\ SaveNode(req[p].from, req[p].fromCopy)
    /\ Goto(p, [req[p] EXCEPT !.at = "SaveTo"])
    /\ UNCHANGED <<counter, caches, hasCache>>

SaveTo(p) ==
    /\ req[p].at = "SaveTo"
    /\ SaveNode(req[p].to, req[p].toCopy)
    /\ Goto(p, Idle)
    /\ UNCHANGED <<counter, caches, hasCache>>

-----------------------------------------------------------------------------
(* graph.Cache.  With nothing marked it returns at once.                   *)
Cache(p) ==
    /\ p \in Cachers
    /\ req[p] = Idle
    /\ cacheStack # {}
    /\ Goto(p, [at |-> "GetAllKeys", dirty |-> cacheStack])
    /\ UNCHANGED tables

GetAllKeys(p) ==
    /\ req[p].at = "GetAllKeys"
    /\ Goto(p, [at |-> "GetNodes", dirty |-> req[p].dirty, keys |-> Saved])
    /\ UNCHANGED tables

(* The rows of the keys are read and both caches are built from the copy,  *)
(* as CachePromise says.  A gap in the IDs or a row that names a node      *)
(* outside of the keys makes it panic, which ends the request.  With rows  *)
(* that disagree it may also never return (see BuildCache).                *)
GetNodes(p) ==
    /\ req[p].at = "GetNodes"
    /\ LET K == req[p].keys
           g == GraphOf([i \in Ids |-> IF i \in K THEN rows[i] ELSE NoRow])
       IN  IF Panics(g, K, req[p].dirty)
           THEN Goto(p, Idle)
           ELSE \E C \in Promise(g, K, req[p].dirty, "children"),
                   P \in Promise(g, K, req[p].dirty, "parents") :
                  Goto(p, [at |-> "SaveCaches", unsaved |-> K,
                           built |-> [i \in Ids |-> IF i \in K
                                                    THEN NodeCache(P[i], C[i])
                                                    ELSE NewCache]])
    /\ UNCHANGED tables

(* Mutant of SaveCaches: the marks go before all batches are saved.        *)
MutantSaveCaches(p) ==
    /\ req[p].at = "SaveCaches"
    /\ \E batch \in SUBSET req[p].unsaved :
          /\ \/ Cardinality(batch) = BatchSize
             \/ Cardinality(batch) < BatchSize /\ batch = req[p].unsaved
          /\ caches' = [i \in Ids |-> IF i \in batch THEN req[p].built[i]
                                                     ELSE caches[i]]
          /\ hasCache' = hasCache \cup batch
          /\ IF batch = req[p].unsaved
             THEN Goto(p, [at |-> "ClearCacheStack"])
             ELSE Goto(p, [req[p] EXCEPT !.unsaved = @ \ batch])
    /\ cacheStack' = {}
    /\ UNCHANGED <<rows, nameToId, counter>>

(* SaveCaches: statements of at most BatchSize rows, in the order of a map *)
(* iteration.                                                              *)
SaveCaches(p) ==
    /\ req[p].at = "SaveCaches"
    /\ \E batch \in SUBSET req[p].unsaved :
          /\ \/ Cardinality(batch) = BatchSize
             \/ Cardinality(batch) < BatchSize /\ batch = req[p].unsaved
          /\ caches' = [i \in Ids |-> IF i \in batch THEN req[p].built[i]
                                                     ELSE caches[i]]
          /\ hasCache' = hasCache \cup batch
          /\ IF batch = req[p].unsaved
             THEN Goto(p, [at |-> "ClearCacheStack"])
             ELSE Goto(p, [req[p] EXCEPT !.unsaved = @ \ batch])
    /\ UNCHANGED <<rows, nameToId, counter, cacheStack>>

ClearCacheStack(p) ==
    /\ req[p].at = "ClearCacheStack"
    /\ cacheStack' = {}
    /\ Goto(p, Idle)
    /\ UNCHANGED <<rows, nameToId, counter, caches, hasCache>>

(* Service.Clear, one statement.                                           *)
RemoveAllCaches(p) ==
    /\ p \in Clearers
    /\ req[p] = Idle
    /\ hasCache # {}
    /\ caches' = [i \in Ids |-> NewCache]
    /\ hasCache' = {}
    /\ cacheStack' = IF ClearMarks THEN cacheStack \cup hasCache ELSE cacheStack
    /\ UNCHANGED <<rows, nameToId, counter, req>>

-----------------------------------------------------------------------------
(* Service.Query for the dependencies ("children") or dependents           *)
(* ("parents") of one node.  floor is history: what the stored rows made   *)
(* reachable when the request came in.                                     *)
Query(p, i, dir) ==
    /\ p \in Queriers
    /\ req[p] = Idle
    /\ i \in Saved
    /\ Goto(p, [at |-> "QueryNodes", keys |-> Saved, dir |-> dir, node |-> i,
                floor |-> Reach(GraphOf(rows)[dir], i)])
    /\ UNCHANGED tables

QueryNodes(p) ==
    /\ req[p].at = "QueryNodes"
    /\ LET q == req[p]
       IN  Goto(p, [at |-> "QueryCaches", keys |-> q.keys, dir |-> q.dir,
                    node |-> q.node, floor |-> q.floor,
                    first |-> rows[q.node][q.dir]])
    /\ UNCHANGED tables

(* Mutant of CacheOf: the cache of the other direction is taken.           *)
MutantCacheOf(i, dir) == caches[i][Opposite(dir)]

CacheOf(i, dir) == caches[i][dir]

QueryCaches(p) ==
    /\ req[p].at = "QueryCaches"
    /\ LET q == req[p]
       IN  Goto(p, [at |-> "QueryStack", keys |-> q.keys, dir |-> q.dir,
                    node |-> q.node, floor |-> q.floor, first |-> q.first,
                    cached |-> q.node \in hasCache,
                    all |-> CacheOf(q.node, q.dir)])
    /\ UNCHANGED tables

Answer(p, nodes, walked) ==
    LET q == req[p]
    IN  Goto(p, [at |-> "Answered", keys |-> q.keys, dir |-> q.dir,
                 node |-> q.node, floor |-> q.floor,
                 answer |-> nodes \cap q.keys, walked |-> walked])

(* With nothing marked as uncached the answer is the cache that was read,  *)
(* and without a cache the request fails; otherwise the graph is walked    *)
(* from the copy of the node.                                              *)
QueryStack(p) ==
    /\ req[p].at = "QueryStack"
    /\ LET q == req[p]
       IN  \/ cacheStack = {} /\ q.cached /\ Answer(p, q.all, FALSE)
           \/ cacheStack = {} /\ ~q.cached /\ Goto(p, Idle)
           \/ /\ cacheStack # {}
              /\ Goto(p, [at |-> "QueryWalk", keys |-> q.keys, dir |-> q.dir,
                          node |-> q.node, floor |-> q.floor,
                          result |-> q.first, queue |-> q.first \ {q.node}])
    /\ UNCHANGED tables

(* Mutant of Unvisited: visited nodes are walked again.                    *)
MutantUnvisited(q, more) == more

Unvisited(q, more) == more \ (q.result \cup {q.node})

(* Mutant of Found: the neighbours of the first node only are collected.   *)
MutantFound(q, more) == q.result

Found(q, more) == q.result \cup more

(* queryBitmap: a node that was not visited is read and its neighbours are *)
(* added.  The code takes them in breadth-first order; here the order is   *)
(* open.                                                                   *)
QueryWalk(p) ==
    /\ req[p].at = "QueryWalk"
    /\ LET q == req[p]
       IN  \/ \E k \in q.queue :
                LET more == rows[k][q.dir]
                IN  Goto(p, [q EXCEPT
                       !.result = Found(q, more),
                       !.queue = (@ \ {k}) \cup Unvisited(q, more)])
           \/ q.queue = {} /\ Answer(p, q.result \cup {q.node}, TRUE)
    /\ UNCHANGED tables

(* The answer goes to the client.                                          *)
Reply(p) ==
    /\ req[p].at = "Answered"
    /\ Goto(p, Idle)
    /\ UNCHANGED tables

(* A storage call fails, or the server stops: the request ends where it    *)
(* is, what it has saved stays.                                            *)
Fail(p) ==
    /\ MayFail
    /\ req[p] # Idle
    /\ Goto(p, Idle)
    /\ UNCHANGED tables

-----------------------------------------------------------------------------
Start(p) ==
    \/ \E n \in Names : AddNode(p, n)
    \/ \E i \in Ids : SetDependency(p, i)
    \/ Cache(p)
    \/ RemoveAllCaches(p)
    \/ \E i \in Ids, dir \in Directions : Query(p, i, dir)

Continue(p) ==
    \/ GenerateID(p) \/ SaveNewNode(p) \/ SaveNewCache(p)
    \/ \E j \in Ids : GetTo(p, j)
    \/ SaveFrom(p) \/ SaveTo(p)
    \/ GetAllKeys(p) \/ GetNodes(p) \/ SaveCaches(p) \/ ClearCacheStack(p)
    \/ QueryNodes(p) \/ QueryCaches(p) \/ QueryStack(p) \/ QueryWalk(p)
    \/ Reply(p)

Next == \E p \in Procs : Start(p) \/ Continue(p) \/ Fail(p)

Spec == Init /\ [][Next]_vars

(* A request that came in keeps running: a goroutine is scheduled, and no  *)
(* storage call waits for another request for ever (busy_timeout).         *)
Fairness == \A p \in Procs : WF_vars(Continue(p))

FairSpec == Spec /\ Fairness

-----------------------------------------------------------------------------
TypeOK ==
    /\ rows \in [Ids -> Row]
    /\ nameToId \in [Names -> Ids \cup {0}]
    /\ counter \in Ids \cup {0}
    /\ caches \in [Ids -> CacheRow]
    /\ hasCache \in SUBSET Ids
    /\ cacheStack \in SUBSET Ids
    /\ req \in [Procs -> Request]

Stored == GraphOf(rows)
Reachable(dir, i) == Reach(Asserted(Stored, dir), i)

(* The name index never leads to the row of another name, whatever the     *)
(* requests do at the same time and wherever they fail.                    *)
NameIndexSound ==
    \A n \in Names : nameToId[n] # 0 => rows[nameToId[n]].name = n

(* No request ever saves its node over the row of another: an ID belongs   *)
(* to one name for ever, also when requests read the name index before     *)
(* either has saved and when generated IDs are lost.                       *)
RowsKeepTheirName ==
    [][\A i \in Ids : rows[i].name # NoName => rows'[i].name = rows[i].name]_vars

(* Two rows never have the same name.  That takes one client, and an index *)
(* that can be read: see AddNode.                                          *)
UniqueNames ==
    \A i, j \in Saved : rows[i].name = rows[j].name => i = j

(* No save takes an edge out of a row: the copies that a request saves are *)
(* as fresh as the rows.                                                   *)
EdgesOnlyGrow ==
    [][\A i \in Ids : /\ rows[i].children \subseteq rows'[i].children
                      /\ rows[i].parents \subseteq rows'[i].parents]_vars

(* An edge that only one row records is recorded by the one that depends:  *)
(* the search for cycles, which follows children, then misses none.        *)
ParentsAreMirrored ==
    \A i, j \in Ids : i \in rows[j].parents => j \in rows[i].children

(* While nothing is marked as uncached every node has a cache: the query   *)
(* code then reads caches[id] without a check.                             *)
CachedWhenUnmarked == cacheStack = {} => Saved \subseteq hasCache

(* While nothing is marked as uncached, and the nodes are connected, every *)
(* cache is the closure of the stored edges.                               *)
ExactCaches ==
    \A i \in Saved, dir \in Directions : caches[i][dir] = Reach(Stored[dir], i)

Connected == \A i \in Saved : Saved \subseteq Touched(Stored, {i})

ExactWhenUnmarked ==
    cacheStack = {} /\ Symmetric(Stored, Saved) /\ Connected => ExactCaches

(* No cache, nor one in the memory of a cache request, ever names a node   *)
(* that the stored edges do not reach: what is cached of a node stays      *)
(* within every set that holds the node and that no stored edge leaves.    *)
CachesInventNothing ==
    \A dir \in Directions : \A S \in Closed(Asserted(Stored, dir)) : \A i \in S :
        /\ caches[i][dir] \subseteq S
        /\ \A p \in Procs : req[p].at = "SaveCaches" =>
                              req[p].built[i][dir] \subseteq S

(* No answer names a node that the stored edges do not reach.              *)
AnswersInventNothing ==
    \A p \in Procs : req[p].at = "Answered" =>
        req[p].answer \subseteq Reachable(req[p].dir, req[p].node)

(* A walked answer misses no node that could be reached when the question  *)
(* came, although rows change under the walk.                              *)
WalksMissNothing ==
    \A p \in Procs : req[p].at = "Answered" /\ req[p].walked =>
        req[p].floor \subseteq req[p].answer

(* Cache panics over nothing but an ID that was given out and never saved: *)
(* what a failed SetDependency leaves does not hurt it.                    *)
OnlyLostIDsPanic ==
    \A p \in Procs : req[p].at = "GetNodes" =>
        LET K == req[p].keys
            g == GraphOf([i \in Ids |-> IF i \in K THEN rows[i] ELSE NoRow])
        IN  Panics(g, K, req[p].dirty) => \E i \in 1..counter : i \notin Saved

(* Every request comes to an end: the walk of a query visits a node once,  *)
(* also on a cycle and while edges are added.                              *)
RequestsEnd == \A p \in Procs : req[p] # Idle ~> req[p] = Idle
=============================================================================
