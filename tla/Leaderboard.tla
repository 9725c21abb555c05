---------------------------- MODULE Leaderboard ----------------------------
(***************************************************************************)
(* CustomLeaderboard of api/v1/service.go: one script is evaluated for     *)
(* every node, in goroutines of which Concurrency run at a time, and the   *)
(* results come back through a channel.  One request is modelled, beside   *)
(* the requests that add nodes, build the caches and clear them.           *)
(*                                                                         *)
(* The handler reads the storage in five steps: it must not be asked while *)
(* nodes are uncached, yet what it reads later may say otherwise.  Caches  *)
(* are used if nothing is marked at the last read.                         *)
(***************************************************************************)
EXTENDS Naturals, FiniteSets

CONSTANTS
    Nodes,        \* what can be saved
    Concurrency,  \* of the server, a positive number (server.go:108)
    SizeOf,       \* how many nodes the script finds for each node
    ClearMarks,   \* RemoveAllCaches marks what it removes (Redis, mock)
    MayFail       \* storage calls of the request may fail

ASSUME NodesAssumption == IsFiniteSet(Nodes)

VARIABLES
    \* the storage, and the keys that a cache run beside has read
    saved, hasCache, marks, cacheRun,
    \* the handler
    script,   \* one of Scripts
    stage,    \* the next thing it does
    keys,     \* the nodes it has read
    cached,   \* the nodes whose cache it has read
    isCached, \* what the second ToBeCached has said
    toStart,  \* nodes whose goroutine is not started
    ranked,   \* results received
    reply,    \* "none", "error" or "ranking"
    ranking,  \* the nodes of the answer in order
    \* its goroutines and channels
    worker,    \* "none", "running", "answered" or "failed", for each node
    queryChan, \* results sent and not received
    closed,    \* the channels are closed
    crashed    \* a goroutine has panicked, and with it the process

storage == <<saved, hasCache, marks, cacheRun>>
reads == <<script, keys, cached, isCached>>
channels == <<worker, queryChan, closed, crashed>>
answer == <<reply, ranking>>
vars == <<storage, reads, stage, toStart, ranked, answer, channels>>

(* A query of either kind, a script that fails, and one that parses and    *)
(* ends in an operator, whose right-hand side is a nil bitmap then.        *)
Scripts == {"dependencies", "dependents", "broken", "hanging"}
NoRun == [run |-> FALSE, keys |-> {}]
Running == {n \in Nodes : worker[n] = "running"}
Failed == {n \in Nodes : worker[n] = "failed"}

Init ==
    /\ saved \in SUBSET Nodes
    /\ hasCache = saved /\ marks = {} /\ cacheRun = NoRun
    /\ script = "broken" /\ keys = {} /\ cached = {} /\ isCached = FALSE
    /\ stage = "idle" /\ toStart = {} /\ ranked = {}
    /\ reply = "none" /\ ranking = <<>>
    /\ worker = [n \in Nodes |-> "none"]
    /\ queryChan = {} /\ closed = FALSE /\ crashed = FALSE

-----------------------------------------------------------------------------
(* Other requests.  AddNode saves a node and marks it, then saves a cache. *)
AddNode(n) ==
    /\ n \notin saved
    /\ saved' = saved \cup {n}
    /\ marks' = marks \cup {n}
    /\ UNCHANGED <<hasCache, cacheRun>>

AddNodeCache(n) ==
    /\ n \in saved \ hasCache
    /\ hasCache' = hasCache \cup {n}
    /\ UNCHANGED <<saved, marks, cacheRun>>

StartCache ==
    /\ ~cacheRun.run
    /\ marks # {}
    /\ cacheRun' = [run |-> TRUE, keys |-> saved]
    /\ UNCHANGED <<saved, hasCache, marks>>

EndCache ==
    /\ cacheRun.run
    /\ hasCache' = hasCache \cup cacheRun.keys
    /\ marks' = {}
    /\ cacheRun' = NoRun
    /\ UNCHANGED saved

Clear ==
    /\ hasCache' = {}
    /\ marks' = IF ClearMarks THEN marks \cup hasCache ELSE marks
    /\ UNCHANGED <<saved, cacheRun>>

(* What they do after the handler has read is of no consequence for it:    *)
(* that they stop then is a bound.                                         *)
Others ==
    /\ stage \in {"idle", "keys", "caches", "stack"}
    /\ StartCache \/ EndCache \/ Clear
       \/ \E n \in Nodes : AddNode(n) \/ AddNodeCache(n)
    /\ UNCHANGED <<reads, stage, toStart, ranked, answer, channels>>

-----------------------------------------------------------------------------
(* The handler reads, one call after the other; an error ends it.          *)
Ask(s) ==
    /\ stage = "idle"
    /\ script' = s
    /\ IF marks = {} THEN stage' = "keys" /\ UNCHANGED reply
                     ELSE stage' = "refused" /\ reply' = "error"
    /\ UNCHANGED <<ranking, keys, cached, isCached, toStart, ranked>>

GetAllKeys ==
    /\ stage = "keys" /\ stage' = "caches"
    /\ keys' = saved
    /\ UNCHANGED <<script, cached, isCached, toStart, ranked, answer>>

GetCaches ==
    /\ stage = "caches" /\ stage' = "stack"
    /\ cached' = keys \cap hasCache
    /\ UNCHANGED <<script, keys, isCached, toStart, ranked, answer>>

ToBeCached ==
    /\ stage = "stack" /\ stage' = "spawn"
    /\ isCached' = (marks = {})
    /\ toStart' = keys
    /\ UNCHANGED <<script, keys, cached, ranked, answer>>

ReadFails ==
    /\ stage \in {"keys", "caches", "stack"}
    /\ stage' = "refused" /\ reply' = "error"
    /\ UNCHANGED <<reads, toStart, ranked, ranking, channels>>

Read ==
    /\ \/ \E s \in Scripts : Ask(s)
       \/ GetAllKeys \/ GetCaches \/ ToBeCached
    /\ UNCHANGED channels

(* The handler takes a token and starts a goroutine, which gives the token *)
(* back when it ends.                                                      *)
Spawn(n) ==
    /\ stage = "spawn" /\ n \in toStart
    /\ Cardinality(Running) < Concurrency
    /\ toStart' = toStart \ {n}
    /\ worker' = [worker EXCEPT ![n] = "running"]
    /\ UNCHANGED <<reads, stage, ranked, answer, queryChan, closed, crashed>>

(* The one look at the errors: those that are there by now.                *)
CheckErrors ==
    /\ stage = "spawn" /\ toStart = {}
    /\ IF Failed # {} THEN stage' = "done" /\ reply' = "error"
                      ELSE stage' = "collect" /\ UNCHANGED reply
    /\ UNCHANGED <<reads, toStart, ranked, ranking, channels>>

Receive(n) ==
    /\ stage = "collect" /\ n \in queryChan
    /\ queryChan' = queryChan \ {n}
    /\ ranked' = ranked \cup {n}
    /\ UNCHANGED <<reads, stage, toStart, answer, worker, closed, crashed>>

(* The heap gives the smallest first, and the answer is filled from its    *)
(* end; results of one size come in any order.                             *)
Before(a, b) == SizeOf[a] >= SizeOf[b]
Sorted(R) == {r \in [1..Cardinality(R) -> R] :
                /\ \A k, l \in DOMAIN r : k # l => r[k] # r[l]
                /\ \A k, l \in DOMAIN r : k < l => Before(r[k], r[l])}

Respond ==
    /\ stage = "collect" /\ closed /\ queryChan = {}
    /\ stage' = "done" /\ reply' = "ranking"
    /\ ranking' \in Sorted(ranked)
    /\ UNCHANGED <<reads, toStart, ranked, channels>>

-----------------------------------------------------------------------------
(* The goroutine of n.  A cache that is needed and was not read is a nil   *)
(* pointer, which BatchQueryDependencies follows (graph.go:328) and        *)
(* BatchQueryDependents reports.  Nobody recovers from a panic here.       *)
MissesCache(n) == isCached /\ n \notin cached

(* Mutant of Capacity: the channel holds one result.                       *)
MutantCapacity == 1

Capacity == Cardinality(keys)

Answer(n) ==
    /\ worker[n] = "running"
    /\ script \in {"dependencies", "dependents"} /\ ~MissesCache(n)
    /\ Cardinality(queryChan) < Capacity
    /\ worker' = [worker EXCEPT ![n] = "answered"]
    /\ queryChan' = queryChan \cup {n}
    /\ crashed' = closed  \* a send on a closed channel panics
    /\ UNCHANGED closed

Fail(n) ==
    /\ worker[n] = "running"
    /\ worker' = [worker EXCEPT ![n] = "failed"]
    /\ crashed' = closed
    /\ UNCHANGED <<reads, stage, toStart, ranked, answer, queryChan, closed>>

MustFail(n) ==
    /\ script = "broken" \/ (script = "dependents" /\ MissesCache(n))
    /\ Fail(n)

Panic(n) ==
    /\ worker[n] = "running"
    /\ script = "hanging" \/ (script = "dependencies" /\ MissesCache(n))
    /\ crashed' = TRUE
    /\ UNCHANGED <<worker, queryChan, closed>>

(* Mutant of Close: the goroutine that closes does not wait.               *)
MutantClose ==
    /\ stage \in {"collect", "done"} \/ (stage = "spawn" /\ toStart = {})
    /\ ~closed /\ closed' = TRUE
    /\ UNCHANGED <<worker, queryChan, crashed>>

(* The goroutine that waits for all others and closes the channels.        *)
Close ==
    /\ stage \in {"spawn", "collect", "done"} /\ toStart = {}
    /\ Running = {}
    /\ ~closed /\ closed' = TRUE
    /\ UNCHANGED <<worker, queryChan, crashed>>

Work ==
    /\ Close \/ \E n \in Nodes : Answer(n) \/ Panic(n)
    /\ UNCHANGED <<reads, stage, toStart, ranked, answer>>

Handle ==
    /\ ~crashed
    /\ Read \/ CheckErrors \/ Respond \/ Work
       \/ \E n \in Nodes : Spawn(n) \/ Receive(n) \/ MustFail(n)
    /\ UNCHANGED storage

(* A storage call of the handler or of a goroutine fails.                  *)
CallFails ==
    /\ ~crashed /\ MayFail
    /\ ReadFails \/ \E n \in Nodes : Fail(n)
    /\ UNCHANGED storage

Next == Others \/ Handle \/ CallFails

Spec == Init /\ [][Next]_vars

(* Goroutines are scheduled fairly, and so is the handler, and a step of   *)
(* the request is never disabled by another request.  That a call fails is *)
(* never certain: what is blocked cannot count on it.                      *)
Fairness == WF_vars(Handle)

FairSpec == Spec /\ Fairness

-----------------------------------------------------------------------------
(* The answer to a leaderboard request is a ranking of all nodes that were *)
(* there when the keys were read, the failed ones excepted, or an error,   *)
(* and the process dies only over caches that were gone when they were     *)
(* read, or over a script that ends in an operator: whatever the           *)
(* goroutines do, no result is lost or counted twice, and nothing is sent  *)
(* on a channel that is closed.                                            *)
Asked == stage \in {"spawn", "collect", "done"}
Named == toStart \cup {n \in Nodes : worker[n] # "none"}
Fatal == {n \in keys : Asked /\ (script = "hanging" \/ MissesCache(n))}
Promise == INSTANCE LeaderboardPromise WITH
    Size <- LAMBDA n : SizeOf[n],
    asked <- Asked,
    named <- Named,
    failed <- Failed,
    fatal <- Fatal
ImplementsLeaderboardPromise == Promise!Spec

(* A request ends with all its goroutines, unless the process has died:    *)
(* the results fit into the channel although nobody receives while the     *)
(* goroutines are started, nor after an error.                             *)
GoroutinesEnd ==
    (stage = "spawn") ~> crashed \/ (stage = "done" /\ closed)
=============================================================================
