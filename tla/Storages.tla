------------------------------ MODULE Storages ------------------------------
(***************************************************************************)
(* The Redis storage (pkg/storages/redis_storage.go), whose calls are      *)
(* sequences of commands without a transaction, and the mock storage       *)
(* (pkg/graph/mockGraph.go), whose calls are atomic, below the requests    *)
(* that add nodes, build caches and clear them.  The SQL storage is in     *)
(* GraphStore.  Of rows and caches only what names them is modelled.       *)
(***************************************************************************)
EXTENDS Naturals, FiniteSets

CONSTANTS
    StoredNames, \* of nodes
    Nameless,    \* the name of a row that does not exist
    MaxID,       \* bound: IDs
    AddClients,  \* clients that add and save nodes
    CacheClients \* clients that build caches and clear them

VARIABLES
    kind,      \* of storage: "redis" or "mock"
    names,     \* node:<id>, by the name in the row
    index,     \* name_to_id:<name>, 0 for none
    idCounter, \* id_counter
    cacheKeys, \* the IDs with a key cache:<id>
    marks,     \* to_be_cached: a list, read as a set
    call,      \* what each client is doing
    unfinished \* nodes whose AddNode has not ended, or has failed, and
               \* that no cache run has found since

stores == <<kind, names, index, idCounter, cacheKeys, marks>>
vars == <<stores, call, unfinished>>

IDs == 1..MaxID
Clients == AddClients \cup CacheClients
Free == [at |-> "free"]
SavedIDs == {i \in IDs : names[i] # Nameless}
Goto(c, r) == call' = [call EXCEPT ![c] = r]
Then(c, step) == Goto(c, [call[c] EXCEPT !.at = step])

Init ==
    /\ kind \in {"redis", "mock"}
    /\ names = [i \in IDs |-> Nameless]
    /\ index = [n \in StoredNames |-> 0]
    /\ idCounter = 0
    /\ cacheKeys = {} /\ marks = {} /\ unfinished = {}
    /\ call = [c \in Clients |-> Free]

-----------------------------------------------------------------------------
(* graph.AddNode: a name that is not in the index, or that cannot be read  *)
(* (any error of NameToID counts as "not there"), a new ID, SaveNode, and  *)
(* SaveCache.  SetDependency saves a node that is there again.             *)
NameToID(c, n) ==
    /\ call[c] = Free /\ c \in AddClients
    /\ \/ Goto(c, [at |-> "id", name |-> n])
       \/ /\ index[n] # 0
          /\ Goto(c, [at |-> "save", name |-> n, id |-> index[n], new |-> FALSE])
    /\ UNCHANGED <<stores, unfinished>>

GenerateID(c) ==
    /\ call[c].at = "id"
    /\ idCounter < MaxID
    /\ idCounter' = idCounter + 1
    /\ unfinished' = unfinished \cup {idCounter'}
    /\ Goto(c, [at |-> "save", name |-> call[c].name, id |-> idCounter', new |-> TRUE])
    /\ UNCHANGED <<kind, names, index, cacheKeys, marks>>

SaveRow(c) == names' = [names EXCEPT ![call[c].id] = call[c].name]
SaveIndex(c) == index' = [index EXCEPT ![call[c].name] = call[c].id]
SaveMark(c) == marks' = marks \cup {call[c].id}
AfterSave(c) ==
    IF call[c].new THEN Then(c, "cache") ELSE Goto(c, Free)

MockSaveNode(c) ==
    /\ kind = "mock" /\ call[c].at = "save"
    /\ SaveRow(c) /\ SaveIndex(c) /\ SaveMark(c)
    /\ AfterSave(c)
    /\ UNCHANGED <<kind, idCounter, cacheKeys, unfinished>>

(* Mutant of SetRow: the index comes first and the row last.               *)
MutantSetRow(c) ==
    /\ kind = "redis" /\ call[c].at = "save"
    /\ SaveIndex(c) /\ Then(c, "index")
    /\ UNCHANGED <<kind, names, idCounter, cacheKeys, marks, unfinished>>

(* SaveNode of Redis, command by command.                                  *)
SetRow(c) ==
    /\ kind = "redis" /\ call[c].at = "save"
    /\ SaveRow(c) /\ Then(c, "index")
    /\ UNCHANGED <<kind, index, idCounter, cacheKeys, marks, unfinished>>

SetIndex(c) ==
    /\ call[c].at = "index"
    /\ SaveIndex(c) /\ Then(c, "mark")
    /\ UNCHANGED <<kind, names, idCounter, cacheKeys, marks, unfinished>>

AddNodeToCachedStack(c) ==
    /\ call[c].at = "mark"
    /\ SaveMark(c) /\ AfterSave(c)
    /\ UNCHANGED <<kind, names, index, idCounter, cacheKeys, unfinished>>

SaveCache(c) ==
    /\ call[c].at = "cache"
    /\ cacheKeys' = cacheKeys \cup {call[c].id}
    /\ unfinished' = unfinished \ {call[c].id}
    /\ Goto(c, Free)
    /\ UNCHANGED <<kind, names, index, idCounter, marks>>

-----------------------------------------------------------------------------
(* graph.Cache: nothing is done if nothing is marked; else the caches of   *)
(* all nodes are saved, which a pipeline of Redis does one by one, and the *)
(* marks are removed.                                                      *)
Cache(c) ==
    /\ call[c] = Free /\ c \in CacheClients
    /\ marks # {}
    /\ Goto(c, [at |-> "caches", keys |-> SavedIDs, left |-> SavedIDs])
    /\ UNCHANGED <<stores, unfinished>>

MockSaveCaches(c) ==
    /\ kind = "mock" /\ call[c].at = "caches"
    /\ cacheKeys' = cacheKeys \cup call[c].left
    /\ Goto(c, [call[c] EXCEPT !.at = "clear", !.left = {}])
    /\ UNCHANGED <<kind, names, index, idCounter, marks, unfinished>>

SetCaches(c) ==
    /\ kind = "redis" /\ call[c].at = "caches"
    /\ IF call[c].left = {}
       THEN Then(c, "clear") /\ UNCHANGED cacheKeys
       ELSE \E i \in call[c].left : /\ cacheKeys' = cacheKeys \cup {i}
                                    /\ Goto(c, [call[c] EXCEPT !.left = @ \ {i}])
    /\ UNCHANGED <<kind, names, index, idCounter, marks, unfinished>>

ClearCacheStack(c) ==
    /\ call[c].at = "clear"
    /\ marks' = {}
    /\ unfinished' = unfinished \ call[c].keys
    /\ Goto(c, Free)
    /\ UNCHANGED <<kind, names, index, idCounter, cacheKeys>>

-----------------------------------------------------------------------------
(* RemoveAllCaches.                                                        *)
MockRemoveAllCaches(c) ==
    /\ call[c] = Free /\ c \in CacheClients
    /\ kind = "mock"
    /\ marks' = marks \cup cacheKeys
    /\ cacheKeys' = {}
    /\ UNCHANGED <<kind, names, index, idCounter, call, unfinished>>

RemoveAllCaches(c) ==
    /\ call[c] = Free /\ c \in CacheClients
    /\ kind = "redis"
    /\ Goto(c, [at |-> "scan", old |-> cacheKeys])
    /\ UNCHANGED <<stores, unfinished>>

(* SCAN returns some keys that are there.  Its cursor comes back to 0 only *)
(* when all keys that were there the whole time have been returned.        *)
Scan(c, batch) ==
    /\ call[c].at = "scan"
    /\ batch \subseteq cacheKeys
    /\ \E last \in BOOLEAN :
          /\ last => call[c].old \cap cacheKeys \subseteq batch
          /\ \/ /\ batch # {}
                /\ Goto(c, [at |-> "push", old |-> call[c].old, batch |-> batch, last |-> last])
             \/ /\ batch = {} /\ last
                /\ Goto(c, Free)
    /\ UNCHANGED <<stores, unfinished>>

(* Mutant of Push: the marks are written after the caches are gone.        *)
MutantPush(c) ==
    /\ call[c].at = "push"
    /\ cacheKeys' = cacheKeys \ call[c].batch
    /\ Then(c, "unlink")
    /\ UNCHANGED <<kind, names, index, idCounter, marks, unfinished>>

(* The pipeline of one batch; what is pushed before an error stays pushed. *)
(* Errors are those of the connection, from which on no command of the     *)
(* pipeline is run; that Redis refuses one of them only is left out.       *)
Push(c) ==
    /\ call[c].at = "push"
    /\ \/ /\ marks' = marks \cup call[c].batch
          /\ Then(c, "unlink")
       \/ \E some \in SUBSET call[c].batch : marks' = marks \cup some /\ Goto(c, Free)
    /\ UNCHANGED <<kind, names, index, idCounter, cacheKeys, unfinished>>

Unlink(c) ==
    /\ call[c].at = "unlink"
    /\ cacheKeys' = cacheKeys \ call[c].batch
    /\ IF call[c].last THEN Goto(c, Free)
       ELSE Goto(c, [at |-> "scan", old |-> call[c].old \ call[c].batch])
    /\ UNCHANGED <<kind, names, index, idCounter, marks, unfinished>>

-----------------------------------------------------------------------------
(* A command fails, or the server stops.                                   *)
Fail(c) ==
    /\ call[c] # Free
    /\ Goto(c, Free)
    /\ UNCHANGED <<stores, unfinished>>

Step(c) ==
    \/ \E n \in StoredNames : NameToID(c, n)
    \/ GenerateID(c) \/ MockSaveNode(c) \/ SetRow(c) \/ SetIndex(c)
    \/ AddNodeToCachedStack(c) \/ SaveCache(c)
    \/ Cache(c) \/ MockSaveCaches(c) \/ SetCaches(c) \/ ClearCacheStack(c)
    \/ MockRemoveAllCaches(c) \/ RemoveAllCaches(c) \/ Push(c) \/ Unlink(c)
    \/ \E batch \in SUBSET cacheKeys : Scan(c, batch)
    \/ Fail(c)

Next == \E c \in Clients : Step(c)

Spec == Init /\ [][Next]_vars

-----------------------------------------------------------------------------
(* A name in the index leads to a row of that name, at every moment and    *)
(* after every failure: NameToID followed by GetNode, which is what AddNode*)
(* and the globs of Redis do, never meets a node that is not there.        *)
NamesLeadToRows == \A n \in StoredNames : index[n] # 0 => names[index[n]] = n

(* A node without a cache is marked, so that the next cache run will find  *)
(* it, while one client works on the caches: RemoveAllCaches marks a batch *)
(* before it removes it, wherever it stops.  The nodes whose AddNode has   *)
(* failed are the exception: SaveNode of Redis may stop before the mark,   *)
(* and AddNode takes the node for complete from then on.                   *)
NoCacheIsLost == SavedIDs \subseteq cacheKeys \cup marks \cup unfinished
=============================================================================
