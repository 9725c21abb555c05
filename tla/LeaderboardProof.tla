-------------------------- MODULE LeaderboardProof --------------------------
(***************************************************************************)
(* Leaderboard implements LeaderboardPromise, for every finite number of   *)
(* nodes, any concurrency, any sizes of answers, and with or without       *)
(* failures: the steps of the refinement.                                  *)
(***************************************************************************)
EXTENDS Leaderboard, FiniteSetTheorems, TLAPS

-----------------------------------------------------------------------------
(* The inductive invariant.  Before the nodes are fixed there are no       *)
(* goroutines and no results.  From then on a node is waiting for its      *)
(* goroutine or has one, what was answered is in the channel or received,  *)
(* and the channels are closed when no goroutine is left.                  *)
Started == {n \in Nodes : worker[n] # "none"}
Answered == {n \in Nodes : worker[n] = "answered"}

WorkersTyped ==
    /\ worker \in [Nodes -> {"none", "running", "answered", "failed"}]
    /\ saved \subseteq Nodes /\ keys \subseteq Nodes
    /\ closed \in BOOLEAN /\ crashed \in BOOLEAN

NothingBefore ==
    ~Asked => /\ Started = {} /\ toStart = {} /\ ranked = {} /\ queryChan = {}
              /\ ~closed /\ ~crashed
              /\ stage # "refused" => reply = "none"
              /\ stage = "refused" => reply = "error"

NoResultIsLost ==
    Asked => /\ keys = toStart \cup Started /\ toStart \cap Started = {}
             /\ Answered = queryChan \cup ranked

ClosedAtTheEnd ==
    /\ stage \in {"spawn", "collect"} => reply = "none"
    /\ stage \in {"collect", "done"} => toStart = {}
    /\ closed => toStart = {} /\ Running = {}

LeaderboardInvariant == WorkersTyped /\ NothingBefore /\ NoResultIsLost /\ ClosedAtTheEnd

(* A list of as many distinct members as a finite set has holds them all,  *)
(* so that what Respond sorts is a ranking: no node is in it twice, and    *)
(* none is missing.                                                        *)
LEMMA SortedIsRanking ==
    ASSUME NEW R \in SUBSET Nodes
    PROVE  Sorted(R) \subseteq Promise!Rankings(R)
  <1> SUFFICES ASSUME NEW r \in Sorted(R) PROVE r \in Promise!Rankings(R)
    OBVIOUS
  <1>1. IsFiniteSet(R)
    BY NodesAssumption, FS_Subset
  <1> DEFINE D == 1..Cardinality(R)
  <1>2. Cardinality(R) \in Nat /\ Cardinality(D) = Cardinality(R)
    BY <1>1, FS_CardinalityType, FS_Interval
  <1>3. r \in [D -> R] /\ r \in Injection(D, R)
    BY DEF Sorted, Injection, IsInjective
  <1>4. r \in Surjection(D, R)
    BY <1>1, <1>2, <1>3, FS_Injection
  <1>5. \A n \in R : \E k \in D : r[k] = n
    BY <1>4 DEF Surjection
  <1>6. \A k, l \in D : k < l => SizeOf[r[k]] >= SizeOf[r[l]]
    BY <1>3 DEF Sorted, Before
  <1>7. Promise!Cardinality(R) = Cardinality(R)
    BY DEF Promise!Cardinality, Cardinality
  <1>8. QED
    BY <1>3, <1>5, <1>6, <1>7 DEF Promise!Rankings

(* A request that has not come in has no goroutines.                       *)
LEMMA InitLeaderboard == Init => LeaderboardInvariant
  BY DEF Init, LeaderboardInvariant, WorkersTyped, NothingBefore, NoResultIsLost,
     ClosedAtTheEnd, Asked, Started, Running

(* The promise is made before anything is asked.                           *)
LEMMA InitPromise == Init => Promise!Init
  BY DEF Init, Promise!Init, Asked, Named, Fatal, Failed

-----------------------------------------------------------------------------
AbstractStep == [~crashed /\ Promise!Next]_(Promise!vars)
Unseen == UNCHANGED Promise!vars

(* The other requests write to the storage only, and while the handler     *)
(* still reads.                                                            *)
LEMMA OthersStep ==
    ASSUME LeaderboardInvariant, Others
    PROVE  LeaderboardInvariant' /\ Unseen
  <1>1. UNCHANGED <<reads, stage, toStart, ranked, answer, channels>>
    BY DEF Others
  <1>2. saved' \subseteq Nodes
    BY DEF Others, LeaderboardInvariant, WorkersTyped, StartCache, EndCache, Clear, AddNode,
       AddNodeCache
  <1>3. /\ Asked' = Asked /\ Running' = Running /\ Failed' = Failed
        /\ Started' = Started /\ Answered' = Answered
    BY <1>1 DEF Asked, Running, Failed, Started, Answered, channels
  <1>4. LeaderboardInvariant'
    BY <1>1, <1>2, <1>3 DEF LeaderboardInvariant, WorkersTyped, NothingBefore,
       NoResultIsLost, ClosedAtTheEnd, reads, answer, channels
  <1>5. Unseen
    BY <1>1, <1>3 DEF Unseen, Promise!vars, Named, Fatal, MissesCache, Asked, reads, answer,
       channels
  <1>6. QED
    BY <1>4, <1>5

(* The handler reads: the nodes are fixed, or the request is refused.      *)
LEMMA ReadStep ==
    ASSUME LeaderboardInvariant, Read \/ ReadFails, ~crashed, UNCHANGED storage
    PROVE  LeaderboardInvariant' /\ AbstractStep
  <1>1. /\ WorkersTyped /\ NothingBefore /\ NoResultIsLost /\ ClosedAtTheEnd
        /\ UNCHANGED channels /\ UNCHANGED storage /\ ~Asked
    BY DEF LeaderboardInvariant, Read, ReadFails, Ask, GetAllKeys, GetCaches, ToBeCached, Asked
  <1>2. /\ Running' = Running /\ Failed' = Failed /\ Running = {} /\ Failed = {}
        /\ Started' = Started /\ Answered' = Answered /\ Started = {} /\ Answered = {}
    BY <1>1 DEF Running, Failed, Started, Answered, channels, NothingBefore
  <1>3. /\ ~closed' /\ crashed' = crashed /\ closed' = closed
        /\ worker' = worker /\ queryChan' = {} /\ saved' = saved
    BY <1>1 DEF channels, storage, NothingBefore
  <1>4. ASSUME ~Asked', UNCHANGED <<ranking, toStart, ranked>>, keys' \subseteq Nodes,
               \/ reply' = reply /\ reply = "none" /\ stage' # "refused"
               \/ reply' = "error" /\ reply = "none" /\ stage' = "refused"
        PROVE  LeaderboardInvariant' /\ AbstractStep
    <2>1. LeaderboardInvariant'
      BY <1>1, <1>2, <1>3, <1>4 DEF LeaderboardInvariant, WorkersTyped, NothingBefore,
         NoResultIsLost, ClosedAtTheEnd, Asked
    <2>2. /\ UNCHANGED <<Asked, Named, Failed, Fatal, ranking, crashed>>
      <3>1. Asked' = Asked
        BY <1>1, <1>4 DEF Asked
      <3>2. Fatal = {} /\ Fatal' = {}
        BY <1>1, <1>4 DEF Fatal
      <3>3. Named' = Named
        BY <1>3, <1>4 DEF Named
      <3>4. QED
        BY <1>2, <1>3, <1>4, <3>1, <3>2, <3>3
    <2>3. CASE reply' = reply
      BY <2>1, <2>2, <2>3 DEF AbstractStep, Promise!vars
    <2>4. CASE reply' = "error" /\ reply = "none"
      BY <1>1, <2>1, <2>2, <2>4 DEF AbstractStep, Promise!Next, Promise!Refuse
    <2>5. QED
      BY <1>4, <2>3, <2>4
  <1>5. ASSUME NEW s \in Scripts, Ask(s) PROVE LeaderboardInvariant' /\ AbstractStep
    BY <1>1, <1>4, <1>5 DEF Ask, Asked, NothingBefore, WorkersTyped
  <1>6. CASE GetAllKeys
    BY <1>1, <1>4, <1>6 DEF GetAllKeys, Asked, NothingBefore, WorkersTyped, answer
  <1>7. CASE GetCaches
    BY <1>1, <1>4, <1>7 DEF GetCaches, Asked, NothingBefore, WorkersTyped, answer
  <1>8. CASE ReadFails
    BY <1>1, <1>4, <1>8 DEF ReadFails, Asked, NothingBefore, WorkersTyped, reads
  <1>9. CASE ToBeCached
    <2>1. /\ stage' = "spawn" /\ toStart' = keys /\ Asked' /\ reply = "none"
          /\ UNCHANGED <<script, keys, cached, ranked, reply, ranking>>
      BY <1>1, <1>9 DEF ToBeCached, Asked, NothingBefore, answer
    <2>2. LeaderboardInvariant'
      BY <1>1, <1>2, <1>3, <2>1 DEF LeaderboardInvariant, WorkersTyped, NothingBefore,
         NoResultIsLost, ClosedAtTheEnd
    <2>3. Named' = keys /\ Named' \in SUBSET Nodes /\ Fatal' \in SUBSET Named'
      BY <1>1, <1>2, <1>3, <2>1 DEF WorkersTyped, Named, Started, Fatal
    <2>4. ~Asked /\ Asked' = TRUE
      BY <1>1, <2>1 DEF Asked
    <2>5. Promise!Ask
      BY <1>2, <1>3, <2>1, <2>3, <2>4 DEF Promise!Ask
    <2>6. QED
      BY <2>2, <2>5 DEF AbstractStep, Promise!Next
  <1>10. QED
    BY <1>5, <1>6, <1>7, <1>8, <1>9 DEF Read

(* The handler starts goroutines, looks for errors and receives.           *)
LEMMA HandlerStep ==
    ASSUME LeaderboardInvariant, ~crashed, UNCHANGED storage,
           CheckErrors \/ \E n \in Nodes : Spawn(n) \/ Receive(n)
    PROVE  LeaderboardInvariant' /\ AbstractStep
  <1>1. /\ WorkersTyped /\ NothingBefore /\ NoResultIsLost /\ ClosedAtTheEnd
        /\ Asked /\ Asked' /\ Asked' = Asked /\ saved' = saved
        /\ UNCHANGED <<reads, closed, crashed>>
    BY DEF LeaderboardInvariant, CheckErrors, Spawn, Receive, Asked, storage, channels
  <1>2. Fatal' = Fatal
    BY <1>1 DEF Fatal, MissesCache, reads
  <1>3. ASSUME NEW n \in Nodes, Spawn(n) PROVE LeaderboardInvariant' /\ AbstractStep
    <2>1. /\ stage = "spawn" /\ stage' = "spawn" /\ n \in toStart /\ toStart' = toStart \ {n}
          /\ worker' = [worker EXCEPT ![n] = "running"]
          /\ UNCHANGED <<ranked, reply, ranking, queryChan>>
      BY <1>3 DEF Spawn, answer
    <2>2. ~closed /\ worker[n] = "none"
      BY <1>1, <2>1 DEF ClosedAtTheEnd, NoResultIsLost, Started
    <2>3. /\ Failed' = Failed /\ Answered' = Answered /\ Started' = Started \cup {n}
      BY <1>1, <2>1, <2>2 DEF Failed, Answered, Started, WorkersTyped
    <2>4. Named' = Named
      BY <2>1, <2>3 DEF Named, Started
    <2>5. LeaderboardInvariant'
      BY <1>1, <2>1, <2>2, <2>3 DEF LeaderboardInvariant, WorkersTyped, NothingBefore,
         NoResultIsLost, ClosedAtTheEnd, reads
    <2>6. QED
      BY <1>1, <1>2, <2>1, <2>3, <2>4, <2>5 DEF AbstractStep, Promise!vars
  <1>4. ASSUME NEW n \in Nodes, Receive(n) PROVE LeaderboardInvariant' /\ AbstractStep
    <2>1. /\ n \in queryChan /\ queryChan' = queryChan \ {n} /\ ranked' = ranked \cup {n}
          /\ UNCHANGED <<stage, toStart, reply, ranking, worker>>
      BY <1>4 DEF Receive, answer
    <2>2. /\ Failed' = Failed /\ Answered' = Answered /\ Started' = Started
          /\ Running' = Running /\ Named' = Named
      BY <2>1 DEF Failed, Answered, Started, Running, Named
    <2>3. LeaderboardInvariant'
      BY <1>1, <2>1, <2>2 DEF LeaderboardInvariant, WorkersTyped, NothingBefore,
         NoResultIsLost, ClosedAtTheEnd, reads
    <2>4. QED
      BY <1>1, <1>2, <2>1, <2>2, <2>3 DEF AbstractStep, Promise!vars
  <1>5. CASE CheckErrors
    <2>1. /\ stage = "spawn" /\ toStart = {} /\ reply = "none"
          /\ UNCHANGED <<toStart, ranked, ranking, worker, queryChan>>
          /\ \/ Failed # {} /\ stage' = "done" /\ reply' = "error"
             \/ stage' = "collect" /\ reply' = reply
      BY <1>1, <1>5 DEF CheckErrors, ClosedAtTheEnd, channels
    <2>2. /\ Failed' = Failed /\ Answered' = Answered /\ Started' = Started
          /\ Running' = Running /\ Named' = Named
      BY <2>1 DEF Failed, Answered, Started, Running, Named
    <2>3. LeaderboardInvariant'
      BY <1>1, <2>1, <2>2 DEF LeaderboardInvariant, WorkersTyped, NothingBefore,
         NoResultIsLost, ClosedAtTheEnd, reads
    <2>4. AbstractStep
      BY <1>1, <1>2, <2>1, <2>2 DEF AbstractStep, Promise!vars, Promise!Next, Promise!Answer
    <2>5. QED
      BY <2>3, <2>4
  <1>6. QED
    BY <1>3, <1>4, <1>5

(* The answer: the channel is closed and empty, so that what was received  *)
(* is all that was answered, and the others have failed.                   *)
LEMMA RespondStep ==
    ASSUME LeaderboardInvariant, ~crashed, UNCHANGED storage, Respond
    PROVE  LeaderboardInvariant' /\ AbstractStep
  <1>1. /\ WorkersTyped /\ NothingBefore /\ NoResultIsLost /\ ClosedAtTheEnd
        /\ Asked /\ Asked' /\ Asked' = Asked /\ saved' = saved
        /\ UNCHANGED <<reads, toStart, ranked, channels>>
        /\ stage = "collect" /\ stage' = "done" /\ closed /\ queryChan = {}
        /\ reply' = "ranking" /\ ranking' \in Sorted(ranked)
    BY DEF LeaderboardInvariant, Respond, Asked, storage
  <1>2. /\ Failed' = Failed /\ Answered' = Answered /\ Started' = Started
        /\ Running' = Running /\ Named' = Named /\ Fatal' = Fatal
    BY <1>1 DEF Failed, Answered, Started, Running, Named, Fatal, MissesCache, reads, channels
  <1>3. LeaderboardInvariant'
    BY <1>1, <1>2 DEF LeaderboardInvariant, WorkersTyped, NothingBefore,
       NoResultIsLost, ClosedAtTheEnd, reads, channels
  <1>4. reply = "none" /\ toStart = {} /\ Running = {} /\ ranked = Answered
    BY <1>1 DEF ClosedAtTheEnd, NoResultIsLost
  <1>5. ranked \in SUBSET Named /\ ranked \in SUBSET Nodes
    BY <1>4 DEF Named, Answered
  <1>6. Named \ Failed \subseteq ranked
    BY <1>1, <1>4 DEF Named, Failed, Answered, Running, WorkersTyped
  <1>7. ranking' \in Promise!Rankings(ranked)
    BY <1>1, <1>5, SortedIsRanking
  <1>8. Promise!Answer
    BY <1>1, <1>2, <1>4, <1>5, <1>6, <1>7 DEF Promise!Answer, channels
  <1>9. QED
    BY <1>3, <1>8 DEF AbstractStep, Promise!Next

(* The goroutines: a failure is one of the promise, a panic is over a node *)
(* that cannot but kill the server, and nobody sends on a closed channel.  *)
LEMMA WorkerStep ==
    ASSUME LeaderboardInvariant, ~crashed, UNCHANGED storage,
           Work \/ \E n \in Nodes : Fail(n)
    PROVE  LeaderboardInvariant' /\ AbstractStep
  <1>1. /\ WorkersTyped /\ NothingBefore /\ NoResultIsLost /\ ClosedAtTheEnd
        /\ Asked' = Asked /\ saved' = saved
        /\ UNCHANGED <<reads, stage, toStart, ranked, reply, ranking>>
    BY DEF LeaderboardInvariant, Work, Fail, Asked, storage, answer
  <1>2. Fatal' = Fatal
    BY <1>1 DEF Fatal, MissesCache, Asked, reads
  <1>3. ASSUME NEW n \in Nodes, worker[n] = "running"
        PROVE  Asked /\ ~closed /\ n \in Started /\ n \in keys /\ n \in Named
    BY <1>1, <1>3 DEF NothingBefore, NoResultIsLost, ClosedAtTheEnd, Started, Running, Named
  <1>4. ASSUME NEW n \in Nodes, Answer(n), Work PROVE LeaderboardInvariant' /\ AbstractStep
    <2>1. /\ worker[n] = "running" /\ worker' = [worker EXCEPT ![n] = "answered"]
          /\ queryChan' = queryChan \cup {n} /\ crashed' = closed /\ closed' = closed
      BY <1>4 DEF Answer
    <2>2. /\ Failed' = Failed /\ Answered' = Answered \cup {n} /\ Started' = Started
          /\ Named' = Named
      BY <1>1, <2>1 DEF Failed, Answered, Started, Named, WorkersTyped
    <2>3. crashed' = crashed /\ ~closed
      BY <1>1, <1>3, <2>1 DEF WorkersTyped
    <2>4. LeaderboardInvariant'
      BY <1>1, <1>3, <2>1, <2>2, <2>3 DEF LeaderboardInvariant, WorkersTyped, NothingBefore,
         NoResultIsLost, ClosedAtTheEnd, reads
    <2>5. QED
      BY <1>1, <1>2, <2>2, <2>3, <2>4 DEF AbstractStep, Promise!vars
  <1>5. ASSUME NEW n \in Nodes, Fail(n) PROVE LeaderboardInvariant' /\ AbstractStep
    <2>1. /\ worker[n] = "running" /\ worker' = [worker EXCEPT ![n] = "failed"]
          /\ queryChan' = queryChan /\ crashed' = closed /\ closed' = closed
      BY <1>5 DEF Fail
    <2>2. /\ Failed' = Failed \cup {n} /\ Answered' = Answered /\ Started' = Started
          /\ Named' = Named /\ n \notin Failed
      BY <1>1, <2>1 DEF Failed, Answered, Started, Named, WorkersTyped
    <2>3. crashed' = crashed /\ ~closed
      BY <1>1, <1>3, <2>1 DEF WorkersTyped
    <2>4. LeaderboardInvariant'
      BY <1>1, <1>3, <2>1, <2>2, <2>3 DEF LeaderboardInvariant, WorkersTyped, NothingBefore,
         NoResultIsLost, ClosedAtTheEnd, reads
    <2>5. Promise!Evaluate(n)
      BY <1>1, <1>2, <1>3, <2>1, <2>2, <2>3 DEF Promise!Evaluate
    <2>6. QED
      BY <2>4, <2>5 DEF AbstractStep, Promise!Next
  <1>6. ASSUME NEW n \in Nodes, Panic(n) PROVE LeaderboardInvariant' /\ AbstractStep
    <2>1. /\ worker[n] = "running"
          /\ script = "hanging" \/ MissesCache(n)
          /\ crashed' = TRUE /\ UNCHANGED <<worker, queryChan, closed>>
      BY <1>6 DEF Panic
    <2>2. /\ Failed' = Failed /\ Answered' = Answered /\ Started' = Started
          /\ Running' = Running /\ Named' = Named
      BY <1>1, <2>1 DEF Failed, Answered, Started, Running, Named
    <2>3. Fatal # {}
      BY <1>3, <2>1 DEF Fatal
    <2>4. LeaderboardInvariant'
      BY <1>1, <1>3, <2>1, <2>2 DEF LeaderboardInvariant, WorkersTyped, NothingBefore,
         NoResultIsLost, ClosedAtTheEnd, reads
    <2>5. Promise!Crash
      BY <1>1, <1>2, <2>1, <2>2, <2>3 DEF Promise!Crash
    <2>6. QED
      BY <2>4, <2>5 DEF AbstractStep, Promise!Next
  <1>7. CASE Close
    <2>1. /\ toStart = {} /\ Running = {} /\ closed' = TRUE
          /\ stage \in {"spawn", "collect", "done"}
          /\ UNCHANGED <<worker, queryChan, crashed>>
      BY <1>7 DEF Close
    <2>2. /\ Failed' = Failed /\ Answered' = Answered /\ Started' = Started
          /\ Running' = Running /\ Named' = Named
      BY <1>1, <2>1 DEF Failed, Answered, Started, Running, Named
    <2>3. LeaderboardInvariant'
      BY <1>1, <2>1, <2>2 DEF LeaderboardInvariant, WorkersTyped, NothingBefore,
         NoResultIsLost, ClosedAtTheEnd, Asked, reads
    <2>4. QED
      BY <1>1, <1>2, <2>1, <2>2, <2>3 DEF AbstractStep, Promise!vars
  <1>8. QED
    BY <1>4, <1>5, <1>6, <1>7 DEF Work

(* Every step keeps the invariant and is one of the promise or unseen.     *)
LEMMA NextLeaderboard ==
    ASSUME LeaderboardInvariant, [Next]_vars
    PROVE  LeaderboardInvariant' /\ AbstractStep
  <1>1. CASE UNCHANGED vars
    BY <1>1 DEF vars, storage, reads, answer, channels, LeaderboardInvariant, WorkersTyped,
       NothingBefore, NoResultIsLost, ClosedAtTheEnd, Asked, Started, Answered, Running,
       AbstractStep, Promise!vars, Named, Failed, Fatal, MissesCache
  <1>2. CASE Others
    BY <1>2, OthersStep DEF AbstractStep, Unseen
  <1>3. CASE Handle \/ CallFails
    BY <1>3, ReadStep, HandlerStep, RespondStep, WorkerStep DEF Handle, CallFails, MustFail
  <1>4. QED
    BY <1>1, <1>2, <1>3 DEF Next

-----------------------------------------------------------------------------
(* Whatever other requests write and whatever fails, a ranking has every   *)
(* node once whose evaluation has not failed, largest answer first; no     *)
(* result is lost between goroutine, channel and heap; nobody sends on a   *)
(* closed channel; and only a node without the cache it needs, or a script *)
(* that ends in an operator, kills the server.                             *)
THEOREM KeepsThePromise == Spec => ImplementsLeaderboardPromise
  <1>1. LeaderboardInvariant /\ [Next]_vars => LeaderboardInvariant'
    BY NextLeaderboard
  <1>2. LeaderboardInvariant /\ [Next]_vars => [~crashed /\ Promise!Next]_(Promise!vars)
    BY NextLeaderboard DEF AbstractStep
  <1>3. QED
    BY InitLeaderboard, InitPromise, <1>1, <1>2, PTL
       DEF Spec, ImplementsLeaderboardPromise, Promise!Spec
=============================================================================
