# A verification of Sapper's dependency graph

Sapper keeps a graph of software packages in a key-value storage, ingests
SBOMs, vulnerabilities and scorecards into it, precomputes the transitive
dependencies and dependents of every node, and answers queries, leaderboards
and reports from it. This directory holds TLA+ models of that code, the TLC
configurations that check them, and proofs checked by TLAPS. Paths below are
relative to the repository.

## 1. The system

| Component | State | Operations | Hard behaviour |
|---|---|---|---|
| Graph operations (`pkg/graph/graph.go`) | none; nodes are copies of rows | `AddNode`, `SetDependency`, `queryBitmap`, batch queries | check-then-act on the name index; whole rows saved from copies; a walk over rows that change |
| Transitive caches (`pkg/graph/cache.go`, `bindMap.go`) | maps of one call | `Cache`, `findCycles`, `buildCache`, `addToCache` | an iterative depth-first walk that skips and revisits nodes; cycles; incremental runs; rows that disagree |
| SQL storage (`pkg/storages/sql.go`) | tables `kv_stores`, `cache_stacks`, `counters`, `custom_data` | `SaveNode`, `SaveCaches`, `RemoveAllCaches`, `GenerateID`, globs | one transaction per call, none around a request; wildcards of `LIKE` |
| Redis storage (`pkg/storages/redis_storage.go`) | keys, one list | the same interface | several commands per call, a scan beside other requests |
| Mock storage (`pkg/graph/mockGraph.go`) | maps behind a mutex | the same interface | used by the tests |
| Query language (`pkg/graph/parser.go`) | none | collect names, query in batches, combine bitmaps | terms without a node name, brackets, operators without a right-hand side |
| Service (`api/v1/service.go`, `report.go`) | storage, library index behind a mutex | the RPC handlers | every request is a goroutine; several storage calls per request; `CustomLeaderboard` starts goroutines of its own |
| Ingest (`pkg/tools/ingest`) | library index | SBOM, OSV, scorecard, KEV/EPSS/VEX | version ranges, order of versions, stale snapshots, order of ingests |
| Report (`pkg/report`) | none | walk to products, VEX suppression, merging of aliases | shortest paths, merge order, cycles |
| Server (`cmd/server`) | the process | start, listen, stop | a bind that fails, a shutdown with a time limit |
| Command line, LLM front end (`cmd`) | none | one client call each, loops of calls, a chat | loops that stop at the first error, damaged files |

How they interact: a command calls the server once, or once per document. A
handler of the service calls graph operations, which call the storage. The
storage is the only shared state, apart from the library index. `SaveNode`
marks a node as uncached in the "cache stack"; `Cache` reads the marks,
computes all caches, saves them and removes the marks; `Query` and
`CustomLeaderboard` answer from the caches when nothing is marked and walk the
rows otherwise. No lock spans two storage calls.

What makes the components correct:

- the name index and the rows agree, an ID belongs to one name, saves lose no edge;
- a cache is the transitive closure of the stored edges, or the node is marked;
- an answer names what the edges reach, and misses nothing that was there
  before the question;
- the walks end, whatever the rows say; `Cache` does not panic over what
  failures leave; no goroutine is left behind;
- a script, a glob, a version range, a report mean what they say.

`PROJECT.json` lists the components with what is modelled of each, and the
hazards, each at its line with the properties that cover it.

## 2. The modules

| Module | Models | State and actions |
|---|---|---|
| `CachePromise` | what a cache run promises | operators only: reachability, components, the nodes the walk touches, when it panics, the caches it may leave |
| `FindCycles` | `findCycles` | the recursion of `tarjanDFS` as a sequence of frames; an action per branch of the loop over children, one for the return, one for the outer loop |
| `BuildCache` | `buildCache`, `addCyclesToBindMap`, `addToCache`, `Get` and `Set` of the bind map | the explicit stack; an action per branch of its loop |
| `CacheCall`, `CacheRun` | the computation of `Cache` as one step, and as the two machines one after the other | `CacheRun` implements `CacheCall` |
| `GraphStore` | graph operations, `Cache`, `Clear` and `Query` as concurrent requests on the storage | the tables, and the requests in flight; an action per storage call |
| `Storages` | the calls of the Redis storage command by command, and of the mock storage | keys, marks, and the calls in flight; an action per command |
| `LibraryIndex` | the index of the service that links vulnerabilities to libraries, its mutex and its invalidation | storage, index, mutex and the requests in flight; an action per storage call and per lock step, failures and a crash |
| `LeaderboardPromise`, `Leaderboard` | `CustomLeaderboard`: what it promises, and its reads, goroutines, semaphore and channels | `Leaderboard` implements `LeaderboardPromise` |
| `Scorecards` | a scorecard ingest on a snapshot of the graph | libraries and results at both ends of their edges, the request, its copies |
| `Priorities` | KEV, EPSS and VEX ingests, and what a report reads | the rows, the request, row by row |
| `Commands` | the processes: the server, and a shell that runs commands | what each command loads, its calls one by one, what it makes of a reply; start, bind, signal, shutdown, crash |
| `QueryLang`, `Glob`, `Versions`, `Report` | scripts, globs, affected versions, findings and their merge | operators, each with a reference definition |
| `Parts` | the machines that share no state, in one module: `Storages`, and instances of `Scorecards`, `Priorities` and `Commands`; with `Algorithms` | those of its machines |
| `Algorithms` | a script, a glob, a range, a list of versions as the input of `QueryLang`, `Glob` or `Versions` | one state for each input, and the property of each algorithm |
| `FindCyclesProof`, `CacheRunProof` | | theorems about `FindCycles`, `BuildCache` and `CacheRun` |
| `GraphStoreProof`, `GraphStoreOneWriterProof` | | theorems about `GraphStore`, for any clients, and for one writer or one client |
| `LibraryIndexProof`, `LeaderboardProof`, `PartsProof` | | theorems about `LibraryIndex`, `Leaderboard`, and the machines of `Parts` |
| `AlgorithmsProof` | | theorems about `QueryLang`, `Glob` and `Versions` |
| `MCCacheRun`, `MCGraphStore`, `MCLibraryIndex`, `MCLeaderboard`, `MCParts` | | the bounded inputs and instances for TLC |

**Composition.** `CacheRun` runs `FindCycles` and then `BuildCache` on
arbitrary rows, handing the components over as `addCyclesToBindMap` does, and
implements `CacheCall` (`ImplementsCacheCall`): one step from what `Cache` has
read to caches that `CachePromise` allows; that it comes in the end is
`CacheCallReturns`. `GraphStore`
takes that step in `GetNodes`, which is sound because the computation works on
a private copy and makes no storage call. `LeaderboardPromise` is the request
for a leaderboard without goroutines; `Leaderboard` implements it
(`ImplementsLeaderboardPromise`). `Scorecards` uses the package names of
`Versions`. `Parts` puts the machines together that share no state, for the
theorems about them; `MCParts` runs them and the pure algorithms in one run, of
which a behaviour is one of one part. The algorithms of `Report` come only with
`MCParts`: they are recursive operators, which no module with a theorem may
reach. In the same way `MCLibraryIndex` and `MCLeaderboard` run, beside what they
are named for, an instance of `GraphStore` each, which shares no state with it:
`GraphRequestsEnd` is its `RequestsEnd`, and `NameIndexSound` and
`RowsKeepTheirName` are what two writers cannot break.

**Correspondence.** In `GraphStore`, `req[p].at` names the next storage call
of request `p`, and the other fields are its local variables: `fromCopy` and
`toCopy` are the `*Node`s that `SetDependency` changes and saves, `dirty` and
`keys` what `Cache` has read, `first` and `all` the node and the cache that
`Query` has read. Calls that only read are merged with the step before when
nothing of another request can fall between them and matter (`NameToID` with
the start of `AddNode`, `GetNode(from)` with the start of `SetDependency`,
`ToBeCached` with the start of `Cache`). A read that can go stale is always a
step of its own.

`Storages` is below `GraphStore`: there a storage call is one step, which a
transaction makes it in SQL and a mutex in the mock storage; in Redis it is a
sequence of commands, between which a call may stop and others may come.
`SCAN` is given the freedom that Redis documents: any batches, but what was
there the whole time is returned before the cursor is back at 0. An error in
a pipeline is one of the connection and ends it; that Redis refuses a single
command of a pipeline is left out.

`LibraryIndex` stands beside `GraphStore`: it takes one library saved and one
edge saved as one step each (their storage calls are those of `AddNode` and
`SetDependency` there), and models what `GraphStore` leaves out, the memory
that the requests of the service share. `Save` is one turn of the loop of an
SBOM ingest, or the one node of `Service.AddNode`; `Lock`, `ReadKeys`,
`ReadNodes`, `Link` and `Unlock` are `IngestVulnerability`. `linked` says that
the edge was saved; that a stale copy may overwrite it later is
`EdgesOnlyGrow` of `GraphStore`.

In `Leaderboard`, `stage` is the next thing that the handler does, `worker` the
goroutine of each node; a goroutine that has evaluated its script and sends the
result is one step, possible while the channel has room. `cached` are the nodes
whose cache the handler has read, and a needed cache that is not there is a nil
pointer for dependencies and an error for dependents, as in
`BatchQueryDependencies` and `BatchQueryDependents`.

In `Commands`, a shell's command is "call", "wait" or "ready" with an outcome;
`request` is the call that the server has of it, and `stored` what the server
has stored for the command. What a handler does in between is open: it may
fail before or after it has stored, find nothing, or hang.

**Abstractions.** A row is its name and its two bitmaps; types, metadata and
JSON are left out. `CONSTANT Names` are the names clients use. A bind map is a
function that gives the nodes of a component one value. The sorted todo list
and index of a stack element are the set of todo nodes that are left. The walk
of `queryBitmap` takes the queue in any order, which includes the code's.
The order in which `SaveCaches` meets the caches is that of a Go map
iteration: any batches. A version is its sequence of numbers and words, of
which a small vocabulary stands for the alphabet; a package URL is its four
parts; a script is its parse tree.

## 3. The runs

All runs but `library_index` set `CHECK_DEADLOCK FALSE`: the algorithms finish,
the pure parts of `parts` have no step, and requests stop coming when the
bounds are used up.

| Run | Question | Bounds |
|---|---|---|
| `cache_run` | do the two algorithms, one after the other, end and leave what is promised; are links exactly the components, closed as a whole; is nothing unrelated merged, only complete nodes marked, the stack bounded? | every graph on 4 nodes with up to 4 edges whose rows agree (5 if node 1 alone is dirty), and every graph on 2 or 3 nodes where parent sides are missing or name a node that was saved after the keys were read; 1 or 2 dirty nodes; both directions |
| `one_client` | with no concurrency, but a failure anywhere: are names unique, caches exact or marked, do edges only grow, and can only lost IDs make `Cache` panic? | one client that writes, caches and clears; 3 IDs, 2 edges, one node loaded |
| `requests` | what do caches and answers guarantee beside a writer? | a writer beside a client that caches, clears and queries, with failures; 3 nodes, 2 edges, batches of 2 |
| `library_index` | is the index ever older than an answer, does an ingest miss a library, does anybody wait for ever? | 2 clients, 2 libraries, 2 records of which one affects both, failures and crashes |
| | does every request on the graph end (`GraphRequestsEnd`)? | a writer beside a client that caches, clears (as on SQL) and queries; 2 nodes, batches of 1 |
| `leaderboard` | is a result lost, counted twice or sent on a closed channel; does a goroutine stay behind; when does the server die? | 3 nodes of which any are saved at the start, 2 goroutines at a time, the four kinds of script, failures, and requests that add, cache and clear until the handler has read |
| | do the index and the rows stay consistent when two clients add the same names and edges, with failures (`NameIndexSound`, `RowsKeepTheirName`)? | 2 writers, 3 IDs, 2 names, 1 edge; a look-up of a name may fail too |
| `parts` | see below | see below |

`parts` asks one question, sometimes two, of each part:

| Properties | Question | Bounds |
|---|---|---|
| `NamesLeadToRows`, `NoCacheIsLost` | in Redis, stopped after any command: does the index lead to rows, and is a node without a cache marked? | 2 clients that add 2 names, one that caches and clears, 2 IDs |
| `ResultsAreLinked` | are results linked at both ends although nodes come from an old snapshot, and which edges survive? | 3 libraries, 3 results, another request that adds edges, failures |
| `ScoresFollowRecords`, `LastStatementCounts` | what does a report read, in whatever order files and records came? | 2 CVEs, 2 EPSS files, 2 VEX documents, any KEV catalog, failures |
| `IngestTellsTheTruth`, `StopEndsAll` | does an ingest of a directory that says "success" mean it, over server restarts; does a signal end the server and release all callers? | 4 directories with archives and damaged files, one shell, every command |
| `QueriesMeanWhatTheySay` | is what a script without brackets finds what its operators say, node by node; is one with brackets answered? | scripts of up to 3 terms, groups of up to 2 |
| `GlobsFind` | does a glob find in each storage only what it matches, and all of it where no wildcard of `LIKE` is spelled out? | all globs and names of up to 3 of 6 characters |
| `RangesAreIntervals`, `VersionsAreOrdered` | is a version affected exactly within the intervals of the events, listed in any order; is the order of versions one? | up to 3 events at 5 versions; versions of up to 3 segments, compared three by three |
| `FindingsAreRight` | does a finding list every product once, with a shortest path, and hide only what a statement clears? | every graph of a vulnerability and 3 nodes, every one without cycles of a vulnerability and 4, statements about up to 2 |
| `ReportsAnswerAnyName` | is asking for any name of a record answered with all that is known of it? | up to 3 records that share up to 4 names, in any order |

Why these are enough to be interesting: four nodes hold a cycle with a tail on
both sides, two cycles that touch, a diamond, and two separate parts; three
nodes with disagreeing rows hold a half-recorded edge beside a path and a
cycle. Two clients are what the check-then-act and stale-copy races need.
Batches smaller than the graph make `SaveCaches` take several steps. Three
nodes and two tokens make the handler wait for a token while results wait in
the channel. Three records are needed to unite two groups through a third.
With `MayFail`, a request stops before any of its calls, which covers failed
calls and a crash of the server alike: nothing but the storage survives either.
In `requests` a clear marks what it removes, as Redis and the mock storage do;
beside a writer a clear as on SQL comes in `library_index`, and what it breaks
in `clear_on_sql`. That edges only grow is a matter of who writes: `one_client`
checks it, and `lost_update` shows two writers.

The bounds: `MaxId`, `MaxID` (IDs), `MaxEdges` (no new edge is asked for when
there are so many; requests under way may go beyond), `MaxDenseEdges`,
`DirtySizes`, `HalfMaxId`, in `Priorities` the number of VEX requests, and in
`Leaderboard` that other requests stop when the handler has read (what they do
later is of no consequence for it). In `AddNode` and `GenerateID` the conjunct
on the counter is a bound. With two writers it can hold a request back for
ever, which is why `GraphRequestsEnd` is checked with one. `Priorities` has one
request that stores at a time, `NoCacheIsLost` one client that works on caches;
with two, one may remove the marks that the other has just made.

**Fairness.** `CacheRun` is one goroutine that calls nothing that blocks: weak
fairness of `Next`. In `Fairness` of `GraphStore` every request that came in
keeps being scheduled, weak fairness of `Continue(p)`: goroutines are scheduled
fairly and the SQL storage waits for a lock for a limited time only
(`busy_timeout`), then fails. In `Leaderboard` weak fairness of `Handle`, the
steps of the request that need nobody else; that a call fails (`CallFails`) is
never certain, so that a blocked goroutine cannot get away by failing. In
`Commands` a server that was told to stop does (`Stop`: the time limit of five
seconds), and replies reach their callers (`Receive`); nothing is assumed of
handlers, nor of users. No fairness is assumed of clients (`Start`), failures,
or of the order of answers. In `LibraryIndex` the steps that take the mutex are
strongly fair: a `sync.Mutex` is handed to a goroutine that has waited for more
than a millisecond, so that nobody is passed over for ever.

### Disagreements

Six runs show what the code does against what its documentation, or a comment
in it, says. Each checks one property and finds it violated.

- `untouched_caches`: a cache run resets the set of every node to its own
  component (`cache.go:137`) and saves all, but walks only what the uncached
  nodes are connected to. In a graph of several parts, adding an edge in one
  part and caching empties the caches of the others, while nothing is marked.
  `MarkedIsComplete` and `ExactWhenUnmarked` state what does hold: walked
  nodes are complete, and so is everything if the graph is connected.
- `endless_walk`: with rows whose parents have a cycle that the children do
  not have (a lost update leaves such rows), the stack of `buildCache` grows
  without end. With rows that lack parent sides only the walk still ends
  (`CacheCallReturns`). With rows that agree the stack is bounded
  (`StackBounded`), by a product and not, as `docs/paper.md:192` has it, by
  O(n + m): on a chain t1, ..., tk with leaves that are children of both t1 and
  tk, each leaf pushes what waits on it again, and with ten nodes and ten leaves
  the stack reaches 119 elements, with forty of each 1679.
- `lost_update`: two concurrent `SetDependency` requests, and the second save
  removes the edge of the first.
- `clear_on_sql`: after `Clear` on the SQL storage no node has a cache and none
  is marked, so that queries fail and `Cache` does nothing.
- `brackets`: `iterateTerm` drops the value of a group (`parser.go:237`), which
  then counts as empty, though `README.md:124` and `cmd/llm/knowledge.go:18,21`
  combine queries with brackets. `Finds` gives brackets this meaning, and
  `BracketsGroup` asks for it; `QueriesMeanWhatTheySay` is about scripts
  without them.
- `escapes`: a glob that spells out `_` or `%` does not find the names that it
  matches in the SQL storage. The backslash that `convertGlobToSQLPattern` puts
  in front "escapes" (`sql.go:463`) only in a statement with an `ESCAPE` clause,
  which `key LIKE ?` (`sql.go:20`) has not. `EscapedCharactersMatch` asks for
  these names; `GlobsFind` says that such a glob finds nothing that it does
  not match, and that all others find what they match.

Other things that a reader may not expect are part of the models, and of what
their properties say:

- Some properties hold for one writer or one client only; the theorems have it
  as a hypothesis, and giving `MCGraphStore` other `Writers`, `Cachers` and
  `Queriers` shows that they need it. Two writers can store two rows of one
  name, and so can one whose read of the name index fails (`UniqueNames`). A
  cache run beside a writer can remove the mark of a node
  saved meanwhile (`ExactWhenUnmarked`). A query reads the caches before it
  reads the marks, and may answer from caches older than both; it may then
  miss nodes, but invents none (`AnswersInventNothing`).
- A leaderboard kills the server when caches it counts on were removed between
  its reads, or when its script ends in an operator: a panic in a goroutine is
  recovered by nobody. An error that comes after the one look at the errors is
  dropped, with its node. These are the only ways (`ImplementsLeaderboardPromise`).
- Globs find names that differ in case in the SQL storage, and in the mock
  storage no wildcard stands for a slash (`GlobsFind`).
- The order of versions has circles beside post-release words and beside
  zeros: 1.0post < 1.0rc < 1.0 < 1.0post, and 1.0.0a < 1.0.0 = 1.0 < 1.0.0a
  (`VersionsAreOrdered` and `Comparable` say where it has none).
- Scorecards of packages with a namespace are never linked, because results
  are found by the bare name (`ResultsAreLinked`).
- A vulnerable package all of whose dependents lie on a cycle has no product
  (`PackagesHaveProducts`), and a statement about the package on the one
  shortest path hides a product that has another vulnerable package too.
- A row of Redis whose `SaveNode` stopped before the mark stays without a mark
  until something saves it again (`unfinished` in `NoCacheIsLost`).
- An empty leaderboard or list of keys is an error in a table
  (`LeaderboardCustomEnds`, `LeaderboardKeysEnds`).

## 4. The proofs

### GraphStore

`GraphStoreProof` proves for every number of nodes, edges, names and clients,
every batch size, and with or without failures:

| Theorem | Says |
|---|---|
| `Invariance` | `Spec => []NameInvariant`, the inductive invariant |
| `Typing` | `Spec => []TypeOK` |
| `IndexSound` | `Spec => []NameIndexSound`: the index never leads to the row of another name |
| `NamesKept` | `Spec => RowsKeepTheirName`: no save ever puts a node over the row of another |

The assumptions are those of the modules: `MaxId` is a natural number, the row
that does not exist has a name of its own, the nodes loaded at the start have
the IDs from 1 on and different names.

`NameIndexSound` is not inductive: it does not speak of requests that are
about to save. A writer that holds a generated ID could save it over a row, or
a `SetDependency` could save a copy with another name. `NameInvariant` adds
what excludes this:

- `SavedWereGivenOut`: rows have IDs up to the counter;
- `NewIDsAreFree`: the ID that `AddNode` holds before its save was given out
  and has no row;
- `NewIDsDiffer`: two such requests hold different IDs, the heart of the
  matter, since both have read the name index long before;
- `CopiesAgree`: a copy held by `SetDependency` has the name of its row. The
  copy may be stale in its edges (see `lost_update`), never in its name,
  because rows keep their names.

`CopiesAgree` is needed for types already: a row without a name must not be
saved, the name index has no entry for it. The proof has a lemma for the types
of each group of actions (`AddTyped`, `DependencyTyped`, `CacheTyped`,
`QueryTyped`), then one for the invariant (`AddNames`, `DependencyNames`,
`CacheNames`, `QueryNames`). `MoveTyped` and `MoveNames` deal with all steps
that only move a request on, `SaveNames` and `ResaveNames` with what a save
does to the index and to the free IDs.

`GraphStoreOneWriterProof` has what needs `OneWriter`, that at most one client
writes, beside any number of clients that cache, clear and query. The run
`lost_update` refutes the first theorem without it.

| Theorem | Says |
|---|---|
| `EdgesKept` | `OneWriter => (Spec => EdgesOnlyGrow)` |
| `Mirrored` | `OneWriter => (Spec => []ParentsAreMirrored)` |
| `CachesSound` | `OneWriter => (Spec => []CachesInventNothing)` |
| `AnswersSound` | `OneWriter => (Spec => []AnswersInventNothing)` |
| `WalksComplete` | `OneWriter => (Spec => []WalksMissNothing)` |
| `NamesAreUnique` | `OneWriter /\ ~IndexMayFail => (Spec => []UniqueNames)` |

`EdgeInvariant` adds to `NameInvariant` what the copies of the writer are: the
rows as they stand, or as the save at hand will leave them (`CopiesAreFresh`).
For two writers that is where the proof breaks. `EdgesJoinSaved` is needed for
the caches: an edge leads to saved rows, so that a cache run has its ends among
the rows that it reads or has not read either of them.

`AnswersInventNothing` and `WalksMissNothing` speak of requests that began many
steps ago, on rows that have changed since. `QueryInvariant` says for the first
that all a query has collected lies in every set that holds its node and that
no stored edge leaves (`StaysInside`); edges are added, so there are ever fewer
such sets, and what lay in each of them still does. For the second it says that
there *is* a graph (`Follows`), the rows of the moment of the question, all of
whose edges are still stored, such that the walk has followed every edge of
this graph from the nodes that it has taken from its queue; when the queue is
empty the answer is closed under them. A least fixed point is never
computed by induction: `Reach` is the least closed set, and one closed set is
enough for an upper bound.

`NamesAreUnique` needs that the name index is complete (`IndexComplete`), also
after a save that failed between row and index and was asked for again, and
that the read of the index does not fail: a failed read is taken for a name
that does not exist.

It ends with what needs `OneClient`, that there is one client
for everything: what a cache run saves is as old as what it has read.

| Theorem | Says |
|---|---|
| `CachedOrMarked` | `OneClient /\ ClearMarks => (Spec => []CachedWhenUnmarked)` |
| `LostIDsPanic` | `OneClient => (Spec => []OnlyLostIDsPanic)` |
| `UnmarkedIsExact` | `OneClient /\ ClearMarks => (Spec => []ExactWhenUnmarked)` |

`ClearMarks` is the storage that marks what `RemoveAllCaches` removes (Redis,
mock); the run `clear_on_sql` refutes the first theorem without it.
`MarkInvariant` says how far each cache run has come: what it has read are all
keys and all marks, and what is not among the caches it still has to save has a
row. `ExactInvariant` adds that what it has built is exact if the rows agree and
hang together, and is in the storage as far as it was saved. A request that
fails in the middle leaves rows of old and new caches: these are exact only
because everything is still marked, which is the last conjunct.

### FindCycles, BuildCache and CacheRun

For every graph on any number of nodes, both directions, and any nodes that are
uncached, also where rows disagree:

| Theorem | Says |
|---|---|
| `TypesHold` | `Spec => []TypeOK` |
| `LinksNameComponents` | `Spec => []LinksAreComponents`: at the end of `findCycles` two nodes have one link exactly if they are in a common cycle |
| `ComponentsCloseWhole` | `Spec => []ClosedComponentsAreWhole` |
| `ClosedLinksStayTheSame` | `Spec => ClosedLinksAreFinal`: no step changes the link of a node that has left the stack of the search |
| `CachesAreSound` | `Spec => []CacheSound` |
| `MarkedAreComplete` | `Spec => []MarkedIsComplete`: if rows agree, what the walk marks as final has its whole closure |
| `StackIsBounded` | `Spec => []StackBounded`: if rows agree, the stack is at most quadratic in the number of nodes |
| `KeepsThePromise` | `Spec => ImplementsCacheCall` |

The assumptions are `MaxIdAssumption` and `InputsAssumption`: `Inputs` are
graphs with some node uncached (without one `Cache` returns at once) over which
it does not panic.

*The search.* `FindCyclesProof` proves what Tarjan's algorithm does, in the form
of `tarjanDFS`. `SearchInvariant` relates numbers, stack and frames: numbers
grow along both (`NumbersInOrder`, `StackInOrder`, `FramesInOrder`), children
that a frame has done are visited (`ExploredAreVisited`), a frame reaches the
open nodes above it and every open node reaches a frame below
(`FramesReachUp`, `OpenReachDown`), and the link of an open node is the
number of an open node that it reaches (`LinksAreReached`), no greater than the
numbers that edges from its part of the stack lead to (`LinksAreLeast`). A
frame that returns with its own number as link therefore has no edge from its
part of the stack to below it, and closes a component: `ClosedAreLinked`, from
which the properties follow.
No lemma is about paths: `Reach` is the least closed set, and each fact about
it follows from a set that is closed.

*The walk.* `RunInvariant` has `BeforeWalk` until the components are handed
over and `WalkInvariant` from then on. `CachesShared` and `CachesWithin` bound
the caches from below and above. `MarkedIsComplete` is the hard one. It is not
inductive: `DescendTodo` drops a child from the todo list when it pushes it, and the
parent merges what the child has got only if the walk comes back to the parent
later. `PassedAreSettled` says what a child that an element has passed is: final
and merged; or an element for the same component waits above, or is final; or the
child itself waits above. `NothingForgotten` says that whoever needs a final
node is final or waits. Together they say that when an element has nothing left
to do, its whole component has what its children have. It all depends on rows
that agree: with a missing parent side nobody returns to the parent.

The five actions of the walk are instances of one relation, `WalkStep` (an
element stays, is new, or the top has passed one todo node; lemmas `StartSteps`
and those after it), and the invariant is proved to be kept by `WalkStep`, once.
That the todo nodes are taken in ascending order needs a least element of a
finite set (`LeastIsLeast`), by well-foundedness of the subset order
on finite sets, since induction with an operator is out of reach.

*The stack.* That the walk pushes nodes again that wait already is why its stack
has no obvious bound. `BacklogBounded` splits it at some height: what is above
is a way down (`WayDown`), on which every element lies strictly below those
before it in the order of components, so that no node occurs twice
(`WayDownIsShort`); what is below is a backlog that only a node that becomes
final adds to, by at most the way down that ends in it and the nodes that need
it, each less than the number of nodes (`FinishKeepsBacklog`). A todo node lies
below its node if rows agree (`TodoIsBelow`); in `endless_walk` it does not.

TLC checked `RunInvariant` and `BacklogBounded` on the inputs of `cache_run`
before they were proved.

### LibraryIndex

`LibraryIndexProof` proves for every number of clients, libraries and records,
and any failures and crashes:

| Theorem | Says |
|---|---|
| `IndexInvariance` | `Spec => []IndexInvariant`, the inductive invariant |
| `IndexIsFresh` | `Spec => []AnsweredLibrariesAreIndexed` |
| `LinksAreComplete` | `Spec => []AnsweredLibrariesAreLinked` |
| `IndexIsTyped` | `Spec => []TypeOK` |

The argument: an answer to a request that adds libraries comes after it has
taken the mutex and dropped the index. An ingest that builds an index holds the mutex
from before it reads the keys (`HolderIsAlone`), so that no answer can fall
between its read and its use: the keys cover what has been answered
(`ReadKeysAreNew`), and so does the index. A library that is saved in between
may be missing from the index, but then its own request is still to drop it.
What is left to link and what is linked cover what was due (`LinksCoverDue`).
The assumptions are that `Affected` maps records to libraries and that `None`
is neither a client nor a set of libraries.

### Leaderboard

| Theorem | Says |
|---|---|
| `KeepsThePromise` | `Spec => ImplementsLeaderboardPromise` |

for every finite set of nodes (`NodesAssumption`; the handler has read them
into a slice), any number of tokens, any answers, and with or without failures.
`LeaderboardInvariant` is the accounting: the nodes that were asked for are those
to be started and those with a goroutine, each once; those that have answered
are those in the channel and those ranked (`NoResultIsLost`); and when the
channels are closed nothing is to be started and nothing runs
(`ClosedAtTheEnd`), which is why nothing is sent on a closed channel. From there
each step of the handler, of a goroutine or of another request is a step of the promise or
unseen in it. `SortedIsRanking`: a list of as many different members as the set
has holds them all.

### Parts

`PartsProof` proves theorems about the four machines of `Parts`.

**Storages.** For every number of names, IDs and clients that add nodes, in
Redis and in the mock storage, and with a failure after any command:

| Theorem | Says |
|---|---|
| `RedisNamesLeadToRows` | `Names => (Spec => []NamesLeadToRows)` |
| `RedisLosesNoCache` | `Names /\ OneCacheClient => (Spec => []NoCacheIsLost)` |

`Names` says that `MaxID` is a natural number and that the name of a missing
row is not the name of a node. `OneCacheClient` is needed: of two clients, one
may remove the marks that the other has just made. It is a hypothesis of the
second theorem, so that the first holds for any number of them.

`NamesLeadToRows` is not inductive: a client between `SetRow` and `SetIndex`
could index an ID whose row has another name. `NameInvariant` adds that a new
ID has no row yet and is held by one client (`NewIDsAreFree`), and that whoever
is about to index a row, or to save it again, has its name
(`CallsKnowTheirRow`). `CacheInvariant` adds to this that nodes on their way to
the first save are unfinished, that a batch about to be unlinked is marked
(`RemovedAreMarked`), and what a cache run knows (`CacheRunsKnowAll`): every
saved node is among its keys, has a cache, or is unfinished, and the keys whose
cache is not yet saved are those that are left. The steps of the adding clients
are instances of `RowSaved`, `OtherNames` and `NodesAdded`, those of the client
that works on the caches of `CachesMoved`.

**Scorecards.** For any libraries and results, failures, and edges that other
requests add (`OtherAssumption`: these do not lead to results):

| Theorem | Says |
|---|---|
| `ScorecardsLink` | `Scorecards!Spec => []ResultsAreLinked` |

The request saves copies from a snapshot over rows that others may have
changed, so it is not enough that a link was saved once: a later turn of the loop
saves the same library again. `LinkInvariant` says that what the loop has
linked is in the snapshot as well as in the rows (`LinksStay`), that the copy in
hand is the row of the result (`LoopIsInOrder`), and that a second request starts
from the links of the first.

**Priorities.** For any number of CVEs, names, files and documents, any order of
records and data, and failures after any row:

| Theorem | Says |
|---|---|
| `ReportsFollowTheData` | `Priorities!Spec => []ScoresFollowRecords` |
| `ReportsFollowTheLastDocument` | `Priorities!Spec => []LastStatementCounts` |

`PriorityInvariant` says for each request on its way which rows are stored
already: what was in the catalog, file or document, less what is left. The
assumptions (`PrioritiesAssumption`) are about data: scores are numbers,
documents list names and are numbered, and the record has a name.

**Commands.** For any number of shells and paths, stops, crashes and restarts of
the server, and calls that fail before or after they have stored their document:

| Theorem | Says |
|---|---|
| `IngestsTellTheTruth` | `Commands!Spec => []IngestTellsTheTruth` |

`CommandInvariant` says of an ingest command on its way that what is stored and
what is left to send make up the documents of its path (`NextIsLeft`), or do so
without the first of what is left, when the server has stored it and the reply
has not arrived (`NextIsStored`). Which of the two it is, the request tells; only
after an error it is open, and then the command ends. That a process that ends
breaks off its calls is therefore a case of a call that fails
(`EndedCallIsTold`). `AllIsLoaded` relates the documents that `LoadDataFromPath`
loads to those of the path: both are folds, hence values of recursive functions
with the same definition if no file is damaged. `PathsAssumption` says of each
file that its documents are a sequence, and `PathTypes` that those of a path
are, along the fold as in `AlgorithmsProof`.

### Algorithms

`AlgorithmsProof` proves what the query language, the globs, the order of
versions and the ranges of versions compute, for every
input. `AlgorithmsSpec` has one state for each input of each algorithm.

| Theorem | Says |
|---|---|
| `QueriesAreAnswered` | `AlgorithmsSpec => []QueriesMeanWhatTheySay`: for scripts of any length, over any graph; with brackets, only that there is an answer, since the right one is not given (`brackets`) |
| `GlobsAreMatched` | `AlgorithmsSpec => []GlobsFind`: for patterns and names of any length, in the three storages; of a glob that spells out `%` or `_`, only that it finds nothing wrong in SQL (`escapes`) |
| `VersionsHaveAnOrder` | `AlgorithmsSpec => []VersionsAreOrdered`: for versions of any number of segments |
| `RangesAreHonoured` | `AlgorithmsSpec => []RangesAreIntervals`: for any number of events, in any order |

The assumptions say what inputs are: a script is a sequence of links, and a
group in it has no group (`QueriesAssumption`); names and globs are sequences of
characters without a backslash (`GlobsAssumption`); a version has a segment, and
each is a number or a word (`VersionsAssumption`); the versions of a range are
given in the order of `CompareVersions`, as far as they are in the list, an event
is about one of them, and of two events about the same version the first
introduces and the second is the last affected (`RangesAssumption`).

*Folds.* A fold is the value, on the whole sequence, of a recursive function on
the sets of its indices. That there is such a function at all is `FoldExists`,
by induction over the size of the sets (`Upwards`, which rests on the least
element of a set of numbers, where the library's induction theorem would take an
operator). `RightFold` and `LeftFold` apply it to the folds of
sequences, and `ExpressionRow`, `KeptRow`, `ConvertRow`, `SortRow` and `RangeRow`
make each of the program's folds a row, in which each element comes from its
neighbour; what is claimed of it then goes along the row (`Upwards`,
`Downwards`).

*Scripts.* `ChainRow` says that with an operator between any two terms nothing
panics, so that every value in the row is a set; without groups among the terms,
a node is in it exactly if the row of `Finds`, beside it, holds.

*Globs.* `Covers` is a recursive function over pairs of places in the pattern
and the name, and goes on to later places only. `TableExists` gives its solution
as a least set that is closed under its rule. `MoreIsCovered` compares two
patterns by the pair, nearest to the end, where one covers and the other does
not; with it a glob and its conversion cover the same names
(`LikeIsGlob`), and a pattern with a backslash covers none (`HoleIsUncovered`).

*Versions.* Comparing is comparing keys place by place (`CompareIsLexical`): a
missing segment has a key too, above words that mark a pre-release and below
numbers, and versions that are filled up with zeros are compared as they are
if they begin with equally many numbers or have no zero.
`LexicalOrder` proves what a lexical order owes.

*Ranges.* `InsertSorts`: an event is put behind all that it is not earlier than,
and in a sorted list these come first, so that the list stays sorted, two events
of one version in the order in which they are listed. `LastDecides`: the answer
is that of the last event that the version has reached. In the sorted list this
event is an introduced one exactly if an interval holds the version
(`SortedListDecides`).

### What is only model-checked

- The liveness properties (`RequestsEnd`, `GraphRequestsEnd`, `GoroutinesEnd`,
  `StopEndsAll`, `CacheCallReturns`): fairness is out of reach of the provers used here.
- `FindingsAreRight` and `ReportsAnswerAnyName`: `Report` walks a graph and unites
  groups by recursive operators, about which the provers used here know nothing.

## 5. Plan

Done: the caches and their composition, the concurrent requests, the library
index, the leaderboard, the storages below the requests, the batch ingests,
the report, the pure algorithms, the processes; theorems about all of these
but the report.

What would come next is the report with its recursion as functions over sets of
visited nodes, for a proof that paths are shortest, and the risk scores, if
their floating-point numbers are taken as opaque.

### Not modelled

- CVSS and risk scores (`pkg/tools/weightedNACD`): floating-point numbers.
- The language model itself, prompts and knowledge base: an external service;
  its replies are open in `Commands`.
- Generated code (`gen`, `wire_gen.go`), flags, colours and layout of the
  command line, number conversions and paths (`pkg/utils`).
- Parsing: SBOMs (an external library gives nodes and edges), the grammar of
  scripts (the parser library), JSON, CSV and the text of versions and package
  URLs, which are taken apart already.
- Limits of the database, such as the number of variables in one statement.
