----------------------------- MODULE PartsProof -----------------------------
(***************************************************************************)
(* Proofs about the machines of Parts, for every number of names, IDs,     *)
(* clients, libraries, results, files and documents.  Storages: after any  *)
(* failure the name index of Redis leads to rows, and no node is without a *)
(* cache and unmarked.  Scorecards: the links of a request that succeeded  *)
(* are there.  Priorities: a report follows the data.  Commands: an ingest *)
(* command tells the truth about what was stored.                          *)
(***************************************************************************)
EXTENDS Parts, AlgorithmsProof

-----------------------------------------------------------------------------
(* Storages.                                                               *)
Saves == [at : {"save", "index", "mark", "cache"}, name : StoredNames, id : IDs,
          new : BOOLEAN]
CacheRuns == [at : {"caches", "clear"}, keys : SUBSET IDs, left : SUBSET IDs]
Batches == [at : {"push", "unlink"}, old : SUBSET IDs, batch : SUBSET IDs, last : BOOLEAN]
Calls == {Free} \cup [at : {"id"}, name : StoredNames] \cup Saves
         \cup CacheRuns \cup [at : {"scan"}, old : SUBSET IDs] \cup Batches

TypeOK ==
    /\ kind \in {"redis", "mock"}
    /\ names \in [IDs -> StoredNames \cup {Nameless}]
    /\ index \in [StoredNames -> 0..MaxID]
    /\ idCounter \in 0..MaxID
    /\ cacheKeys \subseteq IDs /\ marks \subseteq IDs /\ unfinished \subseteq IDs
    /\ call \in [Clients -> Calls]

(* The inductive invariant of names.  A new ID has no row until its client *)
(* saves it, and belongs to that client alone; a client that saves a row   *)
(* again, or is about to index one, has the name of the row.               *)
SavesNew(c) == call[c].at = "save" /\ call[c].new
RowsWereGivenOut == \A i \in IDs : names[i] # Nameless => i <= idCounter
NewIDsAreFree ==
    \A c \in Clients : SavesNew(c) =>
        /\ call[c].id <= idCounter /\ names[call[c].id] = Nameless
        /\ \A d \in Clients : d # c /\ SavesNew(d) => call[d].id # call[c].id
CallsKnowTheirRow ==
    \A c \in Clients :
        call[c].at = "index" \/ (call[c].at = "save" /\ ~call[c].new) =>
            names[call[c].id] = call[c].name

NameInvariant ==
    /\ TypeOK
    /\ RowsWereGivenOut
    /\ NewIDsAreFree
    /\ CallsKnowTheirRow
    /\ NamesLeadToRows

(* The inductive invariant of caches, with one client that works on them.  *)
(* A node that is saved for the first time is unfinished; what is about to *)
(* be removed is marked; and while the caches are saved, every node is     *)
(* among those whose cache is on its way, has a cache, or is unfinished.   *)
NewNodesAreUnfinished == \A c \in Clients : SavesNew(c) => call[c].id \in unfinished
MarkedHaveRows ==
    \A c \in Clients : call[c].at \in {"mark", "cache"} => call[c].id \in SavedIDs
CacheSteps == {"caches", "clear", "scan", "push", "unlink"}
CacheCallsAreTheirs == \A c \in Clients : call[c].at \in CacheSteps => c \in CacheClients
RemovedAreMarked == \A c \in Clients : call[c].at = "unlink" => call[c].batch \subseteq marks
CacheRunsKnowAll ==
    \A c \in Clients : call[c].at \in {"caches", "clear"} =>
        /\ call[c].keys \subseteq SavedIDs
        /\ SavedIDs \subseteq call[c].keys \cup cacheKeys \cup unfinished
        /\ call[c].keys \subseteq cacheKeys
                                  \cup (IF call[c].at = "caches" THEN call[c].left ELSE {})

CacheInvariant ==
    /\ NameInvariant
    /\ NewNodesAreUnfinished
    /\ MarkedHaveRows
    /\ CacheCallsAreTheirs
    /\ RemovedAreMarked
    /\ CacheRunsKnowAll
    /\ NoCacheIsLost
-----------------------------------------------------------------------------
(* What is assumed of the constants.                                       *)
Names == MaxID \in Nat /\ Nameless \notin StoredNames
OneCacheClient == \A c, d \in CacheClients : c = d

(* A call has the fields that its field "at" tells.                        *)
LEMMA Fields ==
    ASSUME NEW r \in Calls
    PROVE  /\ r.at = "id" => r \in [at : {"id"}, name : StoredNames]
           /\ r.at \in {"save", "index", "mark", "cache"} => r \in Saves
           /\ r.at \in {"caches", "clear"} => r \in CacheRuns
           /\ r.at = "scan" => r \in [at : {"scan"}, old : SUBSET IDs]
           /\ r.at \in {"push", "unlink"} => r \in Batches
  BY DEF Calls, Saves, CacheRuns, Batches, Free

(* A client goes on to another call; the others stay where they are.       *)
LEMMA Move ==
    ASSUME TypeOK, NEW c \in Clients, NEW r \in Calls, Goto(c, r)
    PROVE  /\ call' \in [Clients -> Calls] /\ call'[c] = r
           /\ \A d \in Clients : d # c => call'[d] = call[d]
  BY DEF TypeOK, Goto

(* Every step of a client keeps the types.                                 *)
LEMMA StepTyped ==
    ASSUME Names, TypeOK, NEW c \in Clients, Step(c)
    PROVE  TypeOK'
  <1>1. call[c] \in Calls /\ Free \in Calls
    BY DEF TypeOK, Calls
  <1>2. ASSUME NEW n \in StoredNames, NameToID(c, n) PROVE TypeOK'
    <2>1. [at |-> "id", name |-> n] \in Calls
      BY DEF Calls
    <2>2. index[n] # 0 => [at |-> "save", name |-> n, id |-> index[n], new |-> FALSE] \in Calls
      BY <1>2 DEF Names, TypeOK, Calls, Saves, IDs
    <2>3. call' \in [Clients -> Calls]
      BY <1>2, <2>1, <2>2, Move DEF NameToID
    <2>4. QED
      BY <1>2, <2>3 DEF NameToID, TypeOK, stores
  <1>3. ASSUME GenerateID(c) PROVE TypeOK'
    <2>1. idCounter' \in IDs /\ idCounter' \in 0..MaxID
      BY <1>3 DEF GenerateID, Names, TypeOK, IDs
    <2>2. call[c].name \in StoredNames
      BY <1>1, <1>3, Fields DEF GenerateID
    <2>3. [at |-> "save", name |-> call[c].name, id |-> idCounter', new |-> TRUE] \in Calls
      BY <2>1, <2>2 DEF Calls, Saves
    <2>4. call' \in [Clients -> Calls]
      BY <1>3, <2>3, Move DEF GenerateID
    <2>5. QED
      BY <1>3, <2>1, <2>4 DEF GenerateID, TypeOK
  <1>4. ASSUME call[c].at \in {"save", "index", "mark", "cache"},
               MockSaveNode(c) \/ SetRow(c) \/ SetIndex(c)
               \/ AddNodeToCachedStack(c) \/ SaveCache(c)
        PROVE  TypeOK'
    <2>1. call[c] \in Saves
      BY <1>1, <1>4, Fields
    <2>2. call[c].name \in StoredNames /\ call[c].id \in IDs
      BY <2>1 DEF Saves
    <2>3. \A step \in {"index", "mark", "cache"} : [call[c] EXCEPT !.at = step] \in Calls
      BY <2>1 DEF Saves, Calls
    <2>4. call' \in [Clients -> Calls]
      <3>1. \E r \in Calls : Goto(c, r)
        <4>1. CASE MockSaveNode(c) \/ AddNodeToCachedStack(c)
          BY <1>1, <2>3, <4>1 DEF MockSaveNode, AddNodeToCachedStack, AfterSave, Then
        <4>2. CASE SetRow(c) \/ SetIndex(c)
          BY <2>3, <4>2 DEF SetRow, SetIndex, Then
        <4>3. CASE SaveCache(c)
          BY <1>1, <4>3 DEF SaveCache
        <4>4. QED
          BY <1>4, <4>1, <4>2, <4>3
      <3>2. QED
        BY <3>1, Move
    <2>5. /\ names' \in [IDs -> StoredNames \cup {Nameless}]
          /\ index' \in [StoredNames -> 0..MaxID]
      <3>1. /\ names' = names \/ SaveRow(c)
            /\ index' = index \/ SaveIndex(c)
        BY <1>4 DEF MockSaveNode, SetRow, SetIndex, AddNodeToCachedStack, SaveCache
      <3>2. call[c].id \in 0..MaxID
        BY <2>2 DEF Names, IDs
      <3>3. SaveRow(c) => names' \in [IDs -> StoredNames \cup {Nameless}]
        BY <2>2 DEF TypeOK, SaveRow
      <3>4. SaveIndex(c) => index' \in [StoredNames -> 0..MaxID]
        BY <2>2, <3>2 DEF TypeOK, SaveIndex
      <3>5. QED
        BY <3>1, <3>3, <3>4 DEF TypeOK
    <2>6. cacheKeys' \subseteq IDs /\ marks' \subseteq IDs /\ unfinished' \subseteq IDs
      BY <1>4, <2>2 DEF TypeOK, MockSaveNode, SetRow, SetIndex,
         AddNodeToCachedStack, SaveCache, SaveMark
    <2>7. kind' = kind /\ idCounter' = idCounter
      BY <1>4 DEF MockSaveNode, SetRow, SetIndex, AddNodeToCachedStack, SaveCache
    <2>8. QED
      BY <2>4, <2>5, <2>6, <2>7 DEF TypeOK
  <1>5. ASSUME Cache(c) \/ RemoveAllCaches(c) PROVE TypeOK'
    <2>1. /\ [at |-> "caches", keys |-> SavedIDs, left |-> SavedIDs] \in Calls
          /\ [at |-> "scan", old |-> cacheKeys] \in Calls
      BY DEF TypeOK, Calls, CacheRuns, SavedIDs
    <2>2. call' \in [Clients -> Calls]
      BY <1>5, <2>1, Move DEF Cache, RemoveAllCaches
    <2>3. QED
      BY <1>5, <2>2 DEF Cache, RemoveAllCaches, TypeOK, stores
  <1>6. ASSUME MockSaveCaches(c) \/ SetCaches(c) PROVE TypeOK'
    <2>1. call[c] \in CacheRuns
      BY <1>1, <1>6, Fields DEF MockSaveCaches, SetCaches
    <2>2. call[c].left \subseteq IDs
      BY <2>1 DEF CacheRuns
    <2>3. /\ [call[c] EXCEPT !.at = "clear", !.left = {}] \in Calls
          /\ [call[c] EXCEPT !.at = "clear"] \in Calls
          /\ \A i \in call[c].left : [call[c] EXCEPT !.left = @ \ {i}] \in Calls
      BY <2>1, <2>2 DEF CacheRuns, Calls
    <2>4. call' \in [Clients -> Calls]
      BY <1>6, <2>3, Move DEF MockSaveCaches, SetCaches, Then
    <2>5. cacheKeys' \subseteq IDs
      BY <1>6, <2>2 DEF TypeOK, MockSaveCaches, SetCaches
    <2>6. QED
      BY <1>6, <2>4, <2>5 DEF MockSaveCaches, SetCaches, TypeOK
  <1>7. ASSUME ClearCacheStack(c) \/ Fail(c) PROVE TypeOK'
    <2>1. call' \in [Clients -> Calls]
      BY <1>1, <1>7, Move DEF ClearCacheStack, Fail
    <2>2. QED
      BY <1>7, <2>1 DEF ClearCacheStack, Fail, TypeOK, stores
  <1>8. ASSUME MockRemoveAllCaches(c) PROVE TypeOK'
    BY <1>8 DEF MockRemoveAllCaches, TypeOK
  <1>9. ASSUME NEW batch \in SUBSET cacheKeys, Scan(c, batch) PROVE TypeOK'
    <2>1. call[c].old \subseteq IDs /\ batch \subseteq IDs
      BY <1>1, <1>9, Fields DEF Scan, TypeOK
    <2>2. \A last \in BOOLEAN :
            [at |-> "push", old |-> call[c].old, batch |-> batch, last |-> last] \in Calls
      BY <2>1 DEF Calls, Batches
    <2>3. call' \in [Clients -> Calls]
      BY <1>1, <1>9, <2>2, Move DEF Scan
    <2>4. QED
      BY <1>9, <2>3 DEF Scan, TypeOK, stores
  <1>10. ASSUME Push(c) \/ Unlink(c) PROVE TypeOK'
    <2>1. call[c] \in Batches
      BY <1>1, <1>10, Fields DEF Push, Unlink
    <2>2. call[c].batch \subseteq IDs /\ call[c].old \subseteq IDs
      BY <2>1 DEF Batches
    <2>3. /\ [call[c] EXCEPT !.at = "unlink"] \in Calls
          /\ [at |-> "scan", old |-> call[c].old \ call[c].batch] \in Calls
      BY <2>1, <2>2 DEF Batches, Calls
    <2>4. call' \in [Clients -> Calls]
      BY <1>1, <1>10, <2>3, Move DEF Push, Unlink, Then
    <2>5. marks' \subseteq IDs /\ cacheKeys' \subseteq IDs
      BY <1>10, <2>2 DEF Push, Unlink, TypeOK
    <2>6. QED
      BY <1>10, <2>4, <2>5 DEF Push, Unlink, TypeOK
  <1>11. QED
    BY <1>2, <1>3, <1>4, <1>5, <1>6, <1>7, <1>8, <1>9, <1>10
       DEF Step, MockSaveNode, SetRow, SetIndex, AddNodeToCachedStack, SaveCache

-----------------------------------------------------------------------------
(* A call that neither saves nor indexes a row leaves the names alone.     *)
LEMMA OtherNames ==
    ASSUME NameInvariant, TypeOK', NEW c \in Clients, UNCHANGED <<names, index, idCounter>>,
           call'[c].at \notin {"save", "index"},
           \A d \in Clients : d # c => call'[d] = call[d]
    PROVE  NameInvariant'
  BY DEF NameInvariant, RowsWereGivenOut, NewIDsAreFree, CallsKnowTheirRow, NamesLeadToRows,
     SavesNew

(* A row is saved by a call that knows it, or whose ID is new: no row of   *)
(* another name is there, and no other call has the ID to itself.          *)
LEMMA RowSaved ==
    ASSUME Names, NameInvariant, TypeOK', NEW c \in Clients, call[c].at = "save",
           SaveRow(c), UNCHANGED idCounter,
           call'[c].at # "save", call'[c].at = "index" => call'[c] = [call[c] EXCEPT !.at = "index"],
           \A d \in Clients : d # c => call'[d] = call[d],
           UNCHANGED index \/ SaveIndex(c)
    PROVE  NameInvariant'
  <1> DEFINE i == call[c].id
             n == call[c].name
  <1>1. call[c] \in Saves
    BY Fields DEF NameInvariant, TypeOK
  <1>2. i \in IDs /\ n \in StoredNames /\ call[c].new \in BOOLEAN /\ n # Nameless
    BY <1>1 DEF Saves, Names
  <1>3. names'[i] = n /\ \A j \in IDs : j # i => names'[j] = names[j]
    BY <1>2 DEF SaveRow, NameInvariant, TypeOK
  <1>4. names[i] \in {Nameless, n} /\ i <= idCounter
    BY <1>2 DEF NameInvariant, NewIDsAreFree, SavesNew, CallsKnowTheirRow, RowsWereGivenOut
  <1>5. RowsWereGivenOut'
    BY <1>3, <1>4 DEF NameInvariant, RowsWereGivenOut
  <1>6. ASSUME NEW d \in Clients, d # c, SavesNew(d) PROVE call[d].id # i
    BY <1>2, <1>6 DEF NameInvariant, NewIDsAreFree, SavesNew, CallsKnowTheirRow
  <1>7. NewIDsAreFree'
    <2>1. ASSUME NEW d \in Clients, SavesNew(d)'
          PROVE  /\ call'[d].id <= idCounter' /\ names'[call'[d].id] = Nameless
                 /\ \A e \in Clients : e # d /\ SavesNew(e)' => call'[e].id # call'[d].id
      <3>1. d # c /\ call'[d] = call[d] /\ SavesNew(d)
        BY <2>1 DEF SavesNew
      <3>2. call[d].id \in IDs
        BY <3>1, Fields DEF NameInvariant, TypeOK, SavesNew, Saves
      <3>3. \A e \in Clients : SavesNew(e)' => SavesNew(e) /\ call'[e] = call[e]
        BY DEF SavesNew
      <3>4. QED
        BY <1>3, <1>6, <3>1, <3>2, <3>3 DEF NameInvariant, NewIDsAreFree
    <2>2. QED
      BY <2>1 DEF NewIDsAreFree
  <1>8. CallsKnowTheirRow'
    <2>1. ASSUME NEW d \in Clients,
                 call'[d].at = "index" \/ (call'[d].at = "save" /\ ~call'[d].new)
          PROVE  names'[call'[d].id] = call'[d].name
      <3>1. CASE d = c
        <4>1. call'[c].id = i /\ call'[c].name = n
          BY <1>1, <2>1, <3>1 DEF Saves
        <4>2. QED
          BY <1>3, <3>1, <4>1
      <3>2. CASE d # c
        <4>1. call'[d] = call[d] /\ names[call[d].id] = call[d].name
          BY <2>1, <3>2 DEF NameInvariant, CallsKnowTheirRow
        <4>2. call[d].id \in IDs /\ call[d].name \in StoredNames
          BY <2>1, <4>1, Fields DEF NameInvariant, TypeOK, Saves
        <4>3. QED
          BY <1>3, <1>4, <4>1, <4>2 DEF Names
      <3>3. QED
        BY <3>1, <3>2
    <2>2. QED
      BY <2>1 DEF CallsKnowTheirRow
  <1>9. NamesLeadToRows'
    <2>1. ASSUME NEW m \in StoredNames, index[m] # 0 PROVE names'[index[m]] = m
      BY <1>3, <1>4, <2>1 DEF NameInvariant, NamesLeadToRows, TypeOK, Names, IDs
    <2>2. CASE UNCHANGED index
      BY <2>1, <2>2 DEF NamesLeadToRows
    <2>3. CASE SaveIndex(c)
      BY <1>2, <1>3, <2>1, <2>3 DEF SaveIndex, NamesLeadToRows, NameInvariant, TypeOK
    <2>4. QED
      BY <2>2, <2>3
  <1>10. QED
    BY <1>5, <1>7, <1>8, <1>9 DEF NameInvariant

(* Where a call is after its row is marked, and after a step of the same    *)
(* call; the others stay where they are.                                   *)
LEMMA Saved ==
    ASSUME TypeOK, NEW c \in Clients, call[c] \in Saves, AfterSave(c)
    PROVE  /\ call'[c].at \in {"cache", "free"}
           /\ \A d \in Clients : d # c => call'[d] = call[d]
  <1> DEFINE r == [call[c] EXCEPT !.at = "cache"]
  <1>1. r \in Calls /\ r.at = "cache" /\ Free \in Calls /\ Free.at = "free"
    BY DEF Saves, Calls, Free
  <1>2. Goto(c, r) \/ Goto(c, Free)
    BY DEF AfterSave, Then
  <1>3. CASE Goto(c, r)
    BY <1>1, <1>3, Move
  <1>4. CASE Goto(c, Free)
    BY <1>1, <1>4, Move
  <1>5. QED
    BY <1>2, <1>3, <1>4

LEMMA StepNames ==
    ASSUME Names, NameInvariant, NEW c \in Clients, Step(c)
    PROVE  NameInvariant'
  <1>1. TypeOK /\ TypeOK' /\ call[c] \in Calls
    BY StepTyped DEF NameInvariant, TypeOK
  <1>2. ASSUME NEW r, Goto(c, r)
        PROVE  call'[c] = r /\ \A d \in Clients : d # c => call'[d] = call[d]
    BY <1>1, <1>2 DEF Goto, TypeOK
  <1>3. ASSUME NEW n \in StoredNames, NameToID(c, n) PROVE NameInvariant'
    <2>1. UNCHANGED <<names, index, idCounter>>
      BY <1>3 DEF NameToID, stores
    <2>2. CASE Goto(c, [at |-> "id", name |-> n])
      BY <1>1, <1>2, <2>1, <2>2, OtherNames
    <2>3. ASSUME index[n] # 0,
                 Goto(c, [at |-> "save", name |-> n, id |-> index[n], new |-> FALSE])
          PROVE  NameInvariant'
      <3> DEFINE r == [at |-> "save", name |-> n, id |-> index[n], new |-> FALSE]
      <3>1. call'[c] = r /\ \A d \in Clients : d # c => call'[d] = call[d]
        BY <1>2, <2>3
      <3>2. names[index[n]] = n
        BY <2>3 DEF NameInvariant, NamesLeadToRows
      <3>3. ~SavesNew(c)'
        BY <3>1 DEF SavesNew
      <3>4. NewIDsAreFree'
        BY <2>1, <3>1, <3>3 DEF NameInvariant, NewIDsAreFree, SavesNew
      <3>5. CallsKnowTheirRow'
        BY <2>1, <3>1, <3>2 DEF NameInvariant, CallsKnowTheirRow
      <3>6. QED
        BY <1>1, <2>1, <3>4, <3>5 DEF NameInvariant, RowsWereGivenOut, NamesLeadToRows
    <2>4. QED
      BY <1>3, <2>2, <2>3 DEF NameToID
  <1>4. ASSUME GenerateID(c) PROVE NameInvariant'
    <2> DEFINE r == [at |-> "save", name |-> call[c].name, id |-> idCounter', new |-> TRUE]
    <2>1. /\ call'[c] = r /\ \A d \in Clients : d # c => call'[d] = call[d]
          /\ UNCHANGED <<names, index>> /\ idCounter' = idCounter + 1
      BY <1>2, <1>4 DEF GenerateID
    <2>2. idCounter \in Nat /\ idCounter' \in IDs
      BY <1>1, <1>4, <2>1 DEF GenerateID, TypeOK, Names, IDs
    <2>3. RowsWereGivenOut'
      BY <2>1, <2>2 DEF NameInvariant, RowsWereGivenOut, IDs, Names
    <2>4. names'[idCounter'] = Nameless
      BY <2>1, <2>2 DEF NameInvariant, RowsWereGivenOut
    <2>5. \A d \in Clients : d # c /\ SavesNew(d)' =>
              /\ SavesNew(d) /\ call'[d] = call[d]
              /\ call[d].id \in Nat /\ call[d].id <= idCounter
      <3>1. ASSUME NEW d \in Clients, d # c, SavesNew(d)'
            PROVE  SavesNew(d) /\ call'[d] = call[d] /\ call[d] \in Saves
        BY <1>1, <2>1, <3>1, Fields DEF SavesNew, TypeOK
      <3>2. QED
        BY <3>1 DEF NameInvariant, NewIDsAreFree, Saves, IDs
    <2>6. NewIDsAreFree'
      <3>1. ASSUME NEW d \in Clients, SavesNew(d)'
            PROVE  /\ call'[d].id <= idCounter' /\ names'[call'[d].id] = Nameless
                   /\ \A e \in Clients : e # d /\ SavesNew(e)' => call'[e].id # call'[d].id
        <4>1. CASE d = c
          BY <2>1, <2>2, <2>4, <2>5, <4>1
        <4>2. CASE d # c
          BY <2>1, <2>2, <2>5, <3>1, <4>2 DEF NameInvariant, NewIDsAreFree
        <4>3. QED
          BY <4>1, <4>2
      <3>2. QED
        BY <3>1 DEF NewIDsAreFree
    <2>7. CallsKnowTheirRow'
      BY <2>1 DEF NameInvariant, CallsKnowTheirRow
    <2>8. QED
      BY <1>1, <2>1, <2>3, <2>6, <2>7 DEF NameInvariant, NamesLeadToRows
  <1>5. CASE MockSaveNode(c)
    <2>1. call[c] \in Saves
      BY <1>1, <1>5, Fields DEF MockSaveNode
    <2>2. /\ call'[c].at \in {"cache", "free"}
          /\ \A d \in Clients : d # c => call'[d] = call[d]
      BY <1>1, <1>5, <2>1, Saved DEF MockSaveNode
    <2>3. QED
      BY <1>1, <1>5, <2>2, RowSaved DEF MockSaveNode
  <1>6. CASE SetRow(c)
    <2>1. call[c] \in Saves
      BY <1>1, <1>6, Fields DEF SetRow
    <2>2. /\ call'[c] = [call[c] EXCEPT !.at = "index"]
          /\ \A d \in Clients : d # c => call'[d] = call[d]
      BY <1>2, <1>6 DEF SetRow, Then
    <2>3. call'[c].at = "index"
      BY <2>1, <2>2 DEF Saves
    <2>4. QED
      BY <1>1, <1>6, <2>2, <2>3, RowSaved DEF SetRow
  <1>7. CASE SetIndex(c)
    <2>1. call[c] \in Saves /\ call[c].at = "index"
      BY <1>1, <1>7, Fields DEF SetIndex
    <2>2. /\ call'[c] = [call[c] EXCEPT !.at = "mark"]
          /\ \A d \in Clients : d # c => call'[d] = call[d]
      BY <1>2, <1>7 DEF SetIndex, Then
    <2>3. call'[c].at = "mark"
      BY <2>1, <2>2 DEF Saves
    <2>4. /\ call[c].name \in StoredNames /\ names[call[c].id] = call[c].name
          /\ UNCHANGED <<names, idCounter>>
      BY <1>7, <2>1 DEF Saves, NameInvariant, CallsKnowTheirRow, SetIndex
    <2>5. NamesLeadToRows'
      BY <1>1, <1>7, <2>4 DEF SetIndex, SaveIndex, NameInvariant, NamesLeadToRows, TypeOK
    <2>6. \A d \in Clients :
            call'[d].at \in {"save", "index"} => d # c /\ call'[d] = call[d]
      BY <2>2, <2>3
    <2>7. NewIDsAreFree'
      BY <2>4, <2>6 DEF NameInvariant, NewIDsAreFree, SavesNew
    <2>8. CallsKnowTheirRow'
      BY <2>4, <2>6 DEF NameInvariant, CallsKnowTheirRow
    <2>9. QED
      BY <1>1, <2>4, <2>5, <2>7, <2>8 DEF NameInvariant, RowsWereGivenOut
  <1>8. ASSUME AddNodeToCachedStack(c) \/ SaveCache(c) PROVE NameInvariant'
    <2>1. call[c] \in Saves
      BY <1>1, <1>8, Fields DEF AddNodeToCachedStack, SaveCache
    <2>2. CASE AddNodeToCachedStack(c)
      BY <1>1, <2>1, <2>2, Saved, OtherNames DEF AddNodeToCachedStack
    <2>3. CASE SaveCache(c)
      BY <1>1, <1>2, <2>3, OtherNames DEF SaveCache, Free
    <2>4. QED
      BY <1>8, <2>2, <2>3
  <1>9. ASSUME Cache(c) \/ RemoveAllCaches(c) \/ ClearCacheStack(c) \/ Fail(c)
        PROVE  NameInvariant'
    <2>1. /\ call'[c].at \in {"caches", "scan", "free"}
          /\ \A d \in Clients : d # c => call'[d] = call[d]
      BY <1>2, <1>9 DEF Cache, RemoveAllCaches, ClearCacheStack, Fail, Free
    <2>2. QED
      BY <1>1, <1>9, <2>1, OtherNames DEF Cache, RemoveAllCaches, ClearCacheStack, Fail, stores
  <1>10. ASSUME MockSaveCaches(c) \/ SetCaches(c) PROVE NameInvariant'
    <2>1. call[c] \in CacheRuns /\ call[c].at = "caches"
      BY <1>1, <1>10, Fields DEF MockSaveCaches, SetCaches
    <2>2. /\ [call[c] EXCEPT !.at = "clear", !.left = {}].at = "clear"
          /\ [call[c] EXCEPT !.at = "clear"].at = "clear"
          /\ \A i : [call[c] EXCEPT !.left = @ \ {i}].at = "caches"
      BY <2>1 DEF CacheRuns
    <2>3. /\ call'[c].at \in {"caches", "clear"}
          /\ \A d \in Clients : d # c => call'[d] = call[d]
      <3>1. CASE MockSaveCaches(c)
        <4>1. Goto(c, [call[c] EXCEPT !.at = "clear", !.left = {}])
          BY <3>1 DEF MockSaveCaches
        <4>2. QED
          BY <1>2, <2>2, <4>1
      <3>2. CASE SetCaches(c) /\ call[c].left = {}
        <4>1. Goto(c, [call[c] EXCEPT !.at = "clear"])
          BY <3>2 DEF SetCaches, Then
        <4>2. QED
          BY <1>2, <2>2, <4>1
      <3>3. CASE SetCaches(c) /\ call[c].left # {}
        <4>1. PICK i : Goto(c, [call[c] EXCEPT !.left = @ \ {i}])
          BY <3>3 DEF SetCaches
        <4> DEFINE r == [call[c] EXCEPT !.left = @ \ {i}]
        <4>2. r.at = "caches"
          BY <2>2
        <4> HIDE DEF r
        <4>3. call'[c] = r /\ \A d \in Clients : d # c => call'[d] = call[d]
          BY <1>2, <4>1 DEF r
        <4>4. QED
          BY <4>2, <4>3
      <3>4. QED
        BY <1>10, <3>1, <3>2, <3>3
    <2>4. QED
      BY <1>1, <1>10, <2>3, OtherNames DEF MockSaveCaches, SetCaches
  <1>11. CASE MockRemoveAllCaches(c)
    BY <1>1, <1>11 DEF MockRemoveAllCaches, NameInvariant, RowsWereGivenOut, NewIDsAreFree,
       CallsKnowTheirRow, NamesLeadToRows, SavesNew
  <1>12. ASSUME NEW batch \in SUBSET cacheKeys, Scan(c, batch) PROVE NameInvariant'
    <2>1. /\ call'[c].at \in {"push", "free"}
          /\ \A d \in Clients : d # c => call'[d] = call[d]
      BY <1>2, <1>12 DEF Scan, Free
    <2>2. QED
      BY <1>1, <1>12, <2>1, OtherNames DEF Scan, stores
  <1>13. ASSUME Push(c) \/ Unlink(c) PROVE NameInvariant'
    <2>1. call[c] \in Batches
      BY <1>1, <1>13, Fields DEF Push, Unlink
    <2>2. [call[c] EXCEPT !.at = "unlink"].at = "unlink"
      BY <2>1 DEF Batches
    <2> DEFINE r == [call[c] EXCEPT !.at = "unlink"]
    <2>3. ASSUME Goto(c, r) PROVE NameInvariant'
      BY <1>1, <1>2, <1>13, <2>2, <2>3, OtherNames DEF Push, Unlink
    <2>4. ASSUME NEW q, q.at \in {"scan", "free"}, Goto(c, q) PROVE NameInvariant'
      BY <1>1, <1>2, <1>13, <2>4, OtherNames DEF Push, Unlink
    <2>5. QED
      BY <1>13, <2>3, <2>4 DEF Push, Unlink, Then, Free
  <1>14. QED
    BY <1>3, <1>4, <1>5, <1>6, <1>7, <1>8, <1>9, <1>10, <1>11, <1>12, <1>13 DEF Step

-----------------------------------------------------------------------------
(* A client that adds nodes, or whose call fails: rows and marks are only  *)
(* added, and what is no longer unfinished has a cache.                    *)
LEMMA NodesAdded ==
    ASSUME CacheInvariant, NameInvariant', NEW c \in Clients,
           call'[c].at \notin CacheSteps,
           \A d \in Clients : d # c => call'[d] = call[d],
           SavedIDs \subseteq SavedIDs', SavedIDs' \subseteq SavedIDs \cup unfinished',
           cacheKeys \subseteq cacheKeys', marks \subseteq marks',
           unfinished \subseteq unfinished' \cup cacheKeys',
           SavesNew(c)' => call'[c].id \in unfinished',
           \A d \in Clients : d # c /\ SavesNew(d) => call[d].id \in unfinished',
           call'[c].at \in {"mark", "cache"} => call'[c].id \in SavedIDs'
    PROVE  CacheInvariant'
  <1>1. NewNodesAreUnfinished'
    BY DEF NewNodesAreUnfinished, SavesNew
  <1>2. MarkedHaveRows'
    BY DEF CacheInvariant, MarkedHaveRows
  <1>3. CacheCallsAreTheirs'
    BY DEF CacheInvariant, CacheCallsAreTheirs
  <1>4. RemovedAreMarked'
    BY DEF CacheInvariant, RemovedAreMarked, CacheSteps
  <1>5. CacheRunsKnowAll'
    <2>1. ASSUME NEW d \in Clients, call'[d].at \in {"caches", "clear"}
          PROVE  /\ call'[d].keys \subseteq SavedIDs'
                 /\ SavedIDs' \subseteq call'[d].keys \cup cacheKeys' \cup unfinished'
                 /\ call'[d].keys \subseteq cacheKeys'
                        \cup (IF call'[d].at = "caches" THEN call'[d].left ELSE {})
      <3>1. d # c /\ call'[d] = call[d]
        BY <2>1 DEF CacheSteps
      <3>2. /\ call[d].keys \subseteq SavedIDs
            /\ SavedIDs \subseteq call[d].keys \cup cacheKeys \cup unfinished
            /\ call[d].keys \subseteq cacheKeys
                   \cup (IF call[d].at = "caches" THEN call[d].left ELSE {})
        BY <2>1, <3>1 DEF CacheInvariant, CacheRunsKnowAll
      <3>3. QED
        BY <3>1, <3>2
    <2>2. QED
      BY <2>1 DEF CacheRunsKnowAll
  <1>6. NoCacheIsLost'
    BY DEF CacheInvariant, NoCacheIsLost
  <1>7. QED
    BY <1>1, <1>2, <1>3, <1>4, <1>5, <1>6 DEF CacheInvariant

(* The one client that works on the caches: no other call is at a step of  *)
(* the caches, so that its own is all there is to keep.                    *)
LEMMA CachesMoved ==
    ASSUME OneCacheClient, CacheInvariant, NameInvariant', NEW c \in CacheClients,
           UNCHANGED names,
           call'[c].at \in CacheSteps \cup {"free"},
           \A d \in Clients : d # c => call'[d] = call[d],
           \A d \in Clients : SavesNew(d) => call[d].id \in unfinished',
           call'[c].at = "unlink" => call'[c].batch \subseteq marks',
           call'[c].at \in {"caches", "clear"} =>
               /\ call'[c].keys \subseteq SavedIDs'
               /\ SavedIDs' \subseteq call'[c].keys \cup cacheKeys' \cup unfinished'
               /\ call'[c].keys \subseteq cacheKeys'
                      \cup (IF call'[c].at = "caches" THEN call'[c].left ELSE {}),
           NoCacheIsLost'
    PROVE  CacheInvariant'
  <1>1. \A d \in Clients : call'[d].at \in CacheSteps => d = c
    BY DEF OneCacheClient, CacheInvariant, CacheCallsAreTheirs
  <1>2. SavedIDs' = SavedIDs
    BY DEF SavedIDs
  <1>3. NewNodesAreUnfinished'
    BY DEF NewNodesAreUnfinished, SavesNew, CacheSteps
  <1>4. MarkedHaveRows'
    BY <1>2 DEF CacheInvariant, MarkedHaveRows, CacheSteps
  <1>5. CacheCallsAreTheirs'
    BY <1>1 DEF CacheCallsAreTheirs
  <1>6. RemovedAreMarked'
    BY <1>1 DEF RemovedAreMarked, CacheSteps
  <1>7. CacheRunsKnowAll'
    BY <1>1 DEF CacheRunsKnowAll, CacheSteps
  <1>8. QED
    BY <1>3, <1>4, <1>5, <1>6, <1>7 DEF CacheInvariant

(* Every step of a client keeps the invariant of caches.                   *)
LEMMA StepCaches ==
    ASSUME Names, OneCacheClient, CacheInvariant, NEW c \in Clients, Step(c)
    PROVE  CacheInvariant'
  <1>1. NameInvariant /\ NameInvariant' /\ TypeOK /\ TypeOK' /\ call[c] \in Calls
    BY StepNames DEF CacheInvariant, NameInvariant, TypeOK
  <1>2. ASSUME NEW r, Goto(c, r)
        PROVE  call'[c] = r /\ \A d \in Clients : d # c => call'[d] = call[d]
    BY <1>1, <1>2 DEF Goto, TypeOK
  <1>3. \A d \in Clients : SavesNew(d) =>
            /\ call[d].id \in unfinished /\ call[d].id \notin SavedIDs
    BY <1>1 DEF CacheInvariant, NewNodesAreUnfinished, NameInvariant, NewIDsAreFree, SavedIDs
  <1>4. ASSUME NEW n \in StoredNames, NameToID(c, n) PROVE CacheInvariant'
    <2>1. UNCHANGED <<names, cacheKeys, marks, unfinished>> /\ SavedIDs' = SavedIDs
      BY <1>4 DEF NameToID, stores, SavedIDs
    <2>2. /\ call'[c].at \in {"id", "save"} /\ ~SavesNew(c)'
          /\ \A d \in Clients : d # c => call'[d] = call[d]
      BY <1>2, <1>4 DEF NameToID, SavesNew
    <2>3. call'[c].at \notin CacheSteps \cup {"mark", "cache"}
      BY <2>2 DEF CacheSteps
    <2>4. QED
      BY <1>1, <1>3, <2>1, <2>2, <2>3, NodesAdded DEF CacheInvariant, NoCacheIsLost
  <1>5. ASSUME GenerateID(c) PROVE CacheInvariant'
    <2>1. /\ UNCHANGED <<names, cacheKeys, marks>> /\ SavedIDs' = SavedIDs
          /\ unfinished' = unfinished \cup {idCounter'}
      BY <1>5 DEF GenerateID, SavedIDs
    <2>2. /\ call'[c].at = "save" /\ call'[c].id = idCounter'
          /\ \A d \in Clients : d # c => call'[d] = call[d]
      BY <1>2, <1>5 DEF GenerateID
    <2>3. call'[c].at \notin CacheSteps \cup {"mark", "cache"}
      BY <2>2 DEF CacheSteps
    <2>4. QED
      BY <1>1, <1>3, <2>1, <2>2, <2>3, NodesAdded
  <1>6. ASSUME MockSaveNode(c) \/ SetRow(c) PROVE CacheInvariant'
    <2>1. /\ call[c] \in Saves /\ call[c].at = "save" /\ SaveRow(c)
          /\ UNCHANGED <<cacheKeys, unfinished>> /\ marks \subseteq marks'
      BY <1>1, <1>6, Fields DEF MockSaveNode, SetRow, SaveMark
    <2>2. call[c].id \in IDs /\ call[c].name # Nameless
      BY <2>1 DEF Saves, Names
    <2>3. /\ \A j \in IDs : j # call[c].id => names'[j] = names[j]
          /\ names'[call[c].id] = call[c].name
      BY <1>1, <2>1, <2>2 DEF SaveRow, TypeOK
    <2>4. SavedIDs' = SavedIDs \cup {call[c].id}
      BY <2>2, <2>3 DEF SavedIDs
    <2>5. call[c].id \in SavedIDs \cup unfinished
      BY <1>1, <1>3, <2>1, <2>2 DEF SavedIDs, SavesNew, NameInvariant, CallsKnowTheirRow, Saves
    <2>6. /\ call'[c].at \in {"cache", "free", "index"}
          /\ call'[c].at = "cache" => call'[c].id = call[c].id
          /\ \A d \in Clients : d # c => call'[d] = call[d]
      <3> DEFINE r(step) == [call[c] EXCEPT !.at = step]
      <3>1. \A step \in {"cache", "index"} : r(step).at = step /\ r(step).id = call[c].id
        BY <2>1 DEF Saves
      <3>2. Goto(c, r("cache")) \/ Goto(c, Free) \/ Goto(c, r("index"))
        BY <1>6 DEF MockSaveNode, SetRow, AfterSave, Then
      <3>3. ASSUME NEW step \in {"cache", "index"}, Goto(c, r(step))
            PROVE  /\ call'[c].at = step /\ call'[c].id = call[c].id
                   /\ \A d \in Clients : d # c => call'[d] = call[d]
        BY <1>2, <3>1, <3>3
      <3>4. ASSUME Goto(c, Free)
            PROVE  call'[c].at = "free" /\ \A d \in Clients : d # c => call'[d] = call[d]
        BY <1>2, <3>4 DEF Free
      <3>5. QED
        BY <3>2, <3>3, <3>4
    <2>7. call'[c].at \notin CacheSteps \cup {"mark"} /\ ~SavesNew(c)'
      BY <2>6 DEF CacheSteps, SavesNew
    <2>8. QED
      BY <1>1, <1>3, <2>1, <2>4, <2>5, <2>6, <2>7, NodesAdded
  <1>7. ASSUME SetIndex(c) \/ AddNodeToCachedStack(c) PROVE CacheInvariant'
    <2>1. /\ call[c] \in Saves /\ call[c].at \in {"index", "mark"}
          /\ UNCHANGED <<names, cacheKeys, unfinished>> /\ SavedIDs' = SavedIDs
          /\ marks \subseteq marks'
      BY <1>1, <1>7, Fields DEF SetIndex, AddNodeToCachedStack, SaveMark, SavedIDs
    <2>2. call[c].id \in SavedIDs
      <3>1. call[c].id \in IDs /\ call[c].name # Nameless
        BY <2>1 DEF Saves, Names
      <3>2. QED
        BY <1>1, <2>1, <3>1 DEF CacheInvariant, MarkedHaveRows, NameInvariant,
           CallsKnowTheirRow, SavedIDs
    <2>3. /\ call'[c].at \in {"mark", "cache", "free"}
          /\ call'[c].at \in {"mark", "cache"} => call'[c].id = call[c].id
          /\ \A d \in Clients : d # c => call'[d] = call[d]
      <3> DEFINE r(step) == [call[c] EXCEPT !.at = step]
      <3>1. \A step \in {"cache", "mark"} : r(step).at = step /\ r(step).id = call[c].id
        BY <2>1 DEF Saves
      <3>2. Goto(c, r("cache")) \/ Goto(c, Free) \/ Goto(c, r("mark"))
        BY <1>7 DEF SetIndex, AddNodeToCachedStack, AfterSave, Then
      <3>3. ASSUME NEW step \in {"cache", "mark"}, Goto(c, r(step))
            PROVE  /\ call'[c].at = step /\ call'[c].id = call[c].id
                   /\ \A d \in Clients : d # c => call'[d] = call[d]
        BY <1>2, <3>1, <3>3
      <3>4. ASSUME Goto(c, Free)
            PROVE  call'[c].at = "free" /\ \A d \in Clients : d # c => call'[d] = call[d]
        BY <1>2, <3>4 DEF Free
      <3>5. QED
        BY <3>2, <3>3, <3>4
    <2>4. call'[c].at \notin CacheSteps /\ ~SavesNew(c)'
      BY <2>3 DEF CacheSteps, SavesNew
    <2>5. QED
      BY <1>1, <1>3, <2>1, <2>2, <2>3, <2>4, NodesAdded
  <1>8. ASSUME SaveCache(c) PROVE CacheInvariant'
    <2>1. /\ UNCHANGED <<names, marks>> /\ SavedIDs' = SavedIDs
          /\ cacheKeys' = cacheKeys \cup {call[c].id}
          /\ unfinished' = unfinished \ {call[c].id}
          /\ call[c].id \in SavedIDs
      BY <1>8 DEF SaveCache, SavedIDs, CacheInvariant, MarkedHaveRows
    <2>2. call'[c] = Free /\ \A d \in Clients : d # c => call'[d] = call[d]
      BY <1>2, <1>8 DEF SaveCache
    <2>3. call'[c].at \notin CacheSteps \cup {"mark", "cache"} /\ ~SavesNew(c)'
      BY <2>2 DEF CacheSteps, SavesNew, Free
    <2>4. QED
      BY <1>1, <1>3, <2>1, <2>2, <2>3, NodesAdded
  <1>9. CASE Fail(c)
    <2>1. UNCHANGED <<names, cacheKeys, marks, unfinished>> /\ SavedIDs' = SavedIDs
      BY <1>9 DEF Fail, stores, SavedIDs
    <2>2. call'[c] = Free /\ \A d \in Clients : d # c => call'[d] = call[d]
      BY <1>2, <1>9 DEF Fail
    <2>3. call'[c].at \notin CacheSteps \cup {"mark", "cache"} /\ ~SavesNew(c)'
      BY <2>2 DEF CacheSteps, SavesNew, Free
    <2>4. QED
      BY <1>1, <1>3, <2>1, <2>2, <2>3, NodesAdded
  <1>10. call[c].at \in CacheSteps => c \in CacheClients
    BY DEF CacheInvariant, CacheCallsAreTheirs
  <1>11. CASE Cache(c)
    <2>1. /\ c \in CacheClients
          /\ UNCHANGED <<names, cacheKeys, marks, unfinished>> /\ SavedIDs' = SavedIDs
      BY <1>11 DEF Cache, stores, SavedIDs
    <2>2. /\ call'[c] = [at |-> "caches", keys |-> SavedIDs, left |-> SavedIDs]
          /\ \A d \in Clients : d # c => call'[d] = call[d]
      BY <1>2, <1>11 DEF Cache
    <2>3. call'[c].at \in CacheSteps /\ call'[c].at # "unlink"
      BY <2>2 DEF CacheSteps
    <2>4. NoCacheIsLost'
      BY <2>1 DEF CacheInvariant, NoCacheIsLost
    <2>5. QED
      BY <1>1, <1>3, <2>1, <2>2, <2>3, <2>4, CachesMoved
  <1>12. ASSUME MockSaveCaches(c) \/ SetCaches(c) PROVE CacheInvariant'
    <2>1. /\ call[c] \in CacheRuns /\ call[c].at = "caches" /\ c \in CacheClients
          /\ UNCHANGED <<names, marks, unfinished>> /\ SavedIDs' = SavedIDs
          /\ cacheKeys \subseteq cacheKeys'
      BY <1>1, <1>10, <1>12, Fields DEF MockSaveCaches, SetCaches, SavedIDs, CacheSteps
    <2>2. /\ call[c].keys \subseteq SavedIDs
          /\ SavedIDs \subseteq call[c].keys \cup cacheKeys \cup unfinished
          /\ call[c].keys \subseteq cacheKeys \cup call[c].left
      BY <2>1 DEF CacheInvariant, CacheRunsKnowAll
    <2>3. /\ call'[c].at \in {"caches", "clear"} /\ call'[c].keys = call[c].keys
          /\ call[c].keys \subseteq cacheKeys'
                 \cup (IF call'[c].at = "caches" THEN call'[c].left ELSE {})
          /\ \A d \in Clients : d # c => call'[d] = call[d]
      <3> DEFINE all == [call[c] EXCEPT !.at = "clear", !.left = {}]
                 none == [call[c] EXCEPT !.at = "clear"]
                 one(i) == [call[c] EXCEPT !.left = @ \ {i}]
      <3>1. /\ all.at = "clear" /\ all.keys = call[c].keys
            /\ none.at = "clear" /\ none.keys = call[c].keys
            /\ \A i : one(i).at = "caches" /\ one(i).keys = call[c].keys
                      /\ one(i).left = call[c].left \ {i}
        BY <2>1 DEF CacheRuns
      <3>2. CASE MockSaveCaches(c)
        BY <1>2, <2>2, <3>1, <3>2 DEF MockSaveCaches
      <3>3. CASE SetCaches(c) /\ call[c].left = {}
        <4>1. Goto(c, none) /\ UNCHANGED cacheKeys
          BY <3>3 DEF SetCaches, Then
        <4>2. QED
          BY <1>2, <2>2, <3>1, <3>3, <4>1
      <3>4. CASE SetCaches(c) /\ call[c].left # {}
        <4>1. PICK i \in call[c].left : cacheKeys' = cacheKeys \cup {i} /\ Goto(c, one(i))
          BY <3>4 DEF SetCaches
        <4>2. call'[c] = one(i) /\ \A d \in Clients : d # c => call'[d] = call[d]
          BY <1>2, <4>1
        <4>3. /\ call'[c].at = "caches" /\ call'[c].keys = call[c].keys
              /\ call'[c].left = call[c].left \ {i}
          BY <3>1, <4>2
        <4>4. QED
          BY <2>2, <4>1, <4>2, <4>3
      <3>5. QED
        BY <1>12, <3>2, <3>3, <3>4
    <2>4. call'[c].at \in CacheSteps /\ call'[c].at # "unlink"
      BY <2>3 DEF CacheSteps
    <2>5. NoCacheIsLost'
      BY <2>1 DEF CacheInvariant, NoCacheIsLost
    <2>6. QED
      BY <1>1, <1>3, <2>1, <2>2, <2>3, <2>4, <2>5, CachesMoved
  <1>13. CASE ClearCacheStack(c)
    <2>1. /\ call[c].at = "clear" /\ c \in CacheClients
          /\ UNCHANGED <<names, cacheKeys>> /\ SavedIDs' = SavedIDs
          /\ unfinished' = unfinished \ call[c].keys
      BY <1>10, <1>13 DEF ClearCacheStack, SavedIDs, CacheSteps
    <2>2. /\ call[c].keys \subseteq SavedIDs
          /\ SavedIDs \subseteq call[c].keys \cup cacheKeys \cup unfinished
          /\ call[c].keys \subseteq cacheKeys
      BY <2>1 DEF CacheInvariant, CacheRunsKnowAll
    <2>3. call'[c].at = "free" /\ \A d \in Clients : d # c => call'[d] = call[d]
      BY <1>2, <1>13 DEF ClearCacheStack, Free
    <2>4. \A d \in Clients : SavesNew(d) => call[d].id \in unfinished'
      BY <1>3, <2>1, <2>2
    <2>5. NoCacheIsLost'
      BY <2>1, <2>2 DEF NoCacheIsLost
    <2>6. QED
      BY <1>1, <2>1, <2>3, <2>4, <2>5, CachesMoved
  <1>14. CASE MockRemoveAllCaches(c)
    <2>1. /\ call[c] = Free /\ c \in CacheClients
          /\ UNCHANGED <<names, call, unfinished>> /\ SavedIDs' = SavedIDs
          /\ marks' = marks \cup cacheKeys
      BY <1>14 DEF MockRemoveAllCaches, SavedIDs
    <2>2. call'[c].at = "free"
      BY <2>1 DEF Free
    <2>3. NoCacheIsLost'
      BY <2>1 DEF CacheInvariant, NoCacheIsLost
    <2>4. QED
      BY <1>1, <1>3, <2>1, <2>2, <2>3, CachesMoved
  <1>15. ASSUME RemoveAllCaches(c) \/ \E batch \in SUBSET cacheKeys : Scan(c, batch)
         PROVE  CacheInvariant'
    <2>1. /\ c \in CacheClients
          /\ UNCHANGED <<names, cacheKeys, marks, unfinished>> /\ SavedIDs' = SavedIDs
      BY <1>10, <1>15 DEF RemoveAllCaches, Scan, stores, SavedIDs, CacheSteps
    <2>2. /\ call'[c].at \in {"scan", "push", "free"}
          /\ \A d \in Clients : d # c => call'[d] = call[d]
      <3>1. CASE RemoveAllCaches(c)
        BY <1>2, <3>1 DEF RemoveAllCaches
      <3>2. ASSUME NEW batch \in SUBSET cacheKeys, Scan(c, batch)
            PROVE  /\ call'[c].at \in {"push", "free"}
                   /\ \A d \in Clients : d # c => call'[d] = call[d]
        BY <1>2, <3>2 DEF Scan, Free
      <3>3. QED
        BY <1>15, <3>1, <3>2
    <2>3. call'[c].at \in CacheSteps \cup {"free"}
      BY <2>2 DEF CacheSteps
    <2>4. NoCacheIsLost'
      BY <2>1 DEF CacheInvariant, NoCacheIsLost
    <2>5. QED
      BY <1>1, <1>3, <2>1, <2>2, <2>3, <2>4, CachesMoved
  <1>16. CASE Push(c)
    <2>1. /\ call[c] \in Batches /\ call[c].at = "push" /\ c \in CacheClients
          /\ UNCHANGED <<names, cacheKeys, unfinished>> /\ SavedIDs' = SavedIDs
          /\ marks \subseteq marks'
      BY <1>1, <1>10, <1>16, Fields DEF Push, SavedIDs, CacheSteps
    <2>2. /\ call'[c].at \in {"unlink", "free"}
          /\ call'[c].at = "unlink" => call'[c].batch \subseteq marks'
          /\ \A d \in Clients : d # c => call'[d] = call[d]
      <3> DEFINE r == [call[c] EXCEPT !.at = "unlink"]
      <3>1. r.at = "unlink" /\ r.batch = call[c].batch
        BY <2>1 DEF Batches
      <3>2. \/ marks' = marks \cup call[c].batch /\ Goto(c, r)
            \/ Goto(c, Free)
        BY <1>16 DEF Push, Then
      <3>3. CASE marks' = marks \cup call[c].batch /\ Goto(c, r)
        BY <1>2, <3>1, <3>3
      <3>4. CASE Goto(c, Free)
        BY <1>2, <3>4 DEF Free
      <3>5. QED
        BY <3>2, <3>3, <3>4
    <2>3. call'[c].at \in CacheSteps \cup {"free"} /\ call'[c].at \notin {"caches", "clear"}
      BY <2>2 DEF CacheSteps
    <2>4. NoCacheIsLost'
      BY <2>1 DEF CacheInvariant, NoCacheIsLost
    <2>5. QED
      BY <1>1, <1>3, <2>1, <2>2, <2>3, <2>4, CachesMoved
  <1>17. CASE Unlink(c)
    <2>1. /\ call[c].at = "unlink" /\ c \in CacheClients
          /\ UNCHANGED <<names, marks, unfinished>> /\ SavedIDs' = SavedIDs
          /\ cacheKeys' = cacheKeys \ call[c].batch /\ call[c].batch \subseteq marks
      BY <1>10, <1>17 DEF Unlink, SavedIDs, CacheSteps, CacheInvariant, RemovedAreMarked
    <2>2. /\ call'[c].at \in {"scan", "free"}
          /\ \A d \in Clients : d # c => call'[d] = call[d]
      BY <1>2, <1>17 DEF Unlink, Free
    <2>3. call'[c].at \in CacheSteps \cup {"free"}
      BY <2>2 DEF CacheSteps
    <2>4. NoCacheIsLost'
      BY <2>1 DEF CacheInvariant, NoCacheIsLost
    <2>5. QED
      BY <1>1, <1>3, <2>1, <2>2, <2>3, <2>4, CachesMoved
  <1>18. QED
    BY <1>4, <1>5, <1>6, <1>7, <1>8, <1>9, <1>11, <1>12, <1>13, <1>14, <1>15, <1>16, <1>17
       DEF Step

-----------------------------------------------------------------------------
(* No call is under way and nothing is stored: both invariants hold.       *)
LEMMA Initially ==
    ASSUME Names, Init
    PROVE  NameInvariant /\ CacheInvariant
  <1>1. SavedIDs = {} /\ \A c \in Clients : call[c].at = "free"
    BY DEF Init, SavedIDs, Free
  <1>2. TypeOK
    BY DEF Init, TypeOK, Names, Calls
  <1>3. NameInvariant
    BY <1>1, <1>2 DEF Init, NameInvariant, RowsWereGivenOut, NewIDsAreFree,
       CallsKnowTheirRow, NamesLeadToRows, SavesNew
  <1>4. CacheInvariant
    BY <1>1, <1>3 DEF CacheInvariant, NewNodesAreUnfinished, MarkedHaveRows, SavesNew,
       CacheCallsAreTheirs, CacheSteps, RemovedAreMarked, CacheRunsKnowAll, NoCacheIsLost
  <1>5. QED
    BY <1>3, <1>4

(* At every moment and after every failure of Redis, between the commands  *)
(* of SaveNode (redis_storage.go) as well, and whatever the requests of    *)
(* other clients do in between, a name in the index leads to the row of    *)
(* that name.                                                              *)
THEOREM RedisNamesLeadToRows == Names => (Spec => []NamesLeadToRows)
  <1> SUFFICES ASSUME Names PROVE Spec => []NamesLeadToRows
    OBVIOUS
  <1>1. Init => NameInvariant
    BY Initially
  <1>2. NameInvariant /\ [Next]_vars => NameInvariant'
    <2>1. ASSUME NameInvariant, UNCHANGED vars PROVE NameInvariant'
      BY <2>1 DEF vars, stores, NameInvariant, TypeOK, RowsWereGivenOut, NewIDsAreFree,
         CallsKnowTheirRow, NamesLeadToRows, SavesNew
    <2>2. ASSUME NameInvariant, Next PROVE NameInvariant'
      BY <2>2, StepNames DEF Next
    <2>3. QED
      BY <2>1, <2>2
  <1>3. NameInvariant => NamesLeadToRows
    BY DEF NameInvariant
  <1>4. QED
    BY <1>1, <1>2, <1>3, PTL DEF Spec

(* With one client that builds and clears caches, a node without a cache   *)
(* is marked or belongs to an AddNode that has not ended, wherever a cache *)
(* run or RemoveAllCaches of Redis (redis_storage.go) is interrupted.      *)
THEOREM RedisLosesNoCache == Names /\ OneCacheClient => (Spec => []NoCacheIsLost)
  <1> SUFFICES ASSUME Names, OneCacheClient PROVE Spec => []NoCacheIsLost
    OBVIOUS
  <1>1. Init => CacheInvariant
    BY Initially
  <1>2. CacheInvariant /\ [Next]_vars => CacheInvariant'
    <2>1. ASSUME CacheInvariant, UNCHANGED vars PROVE CacheInvariant'
      <3>1. NameInvariant'
        BY <2>1 DEF vars, stores, CacheInvariant, NameInvariant, TypeOK, RowsWereGivenOut,
           NewIDsAreFree, CallsKnowTheirRow, NamesLeadToRows, SavesNew
      <3>2. QED
        BY <2>1, <3>1 DEF vars, stores, CacheInvariant, NewNodesAreUnfinished, SavedIDs,
           MarkedHaveRows, CacheCallsAreTheirs, RemovedAreMarked, CacheRunsKnowAll,
           NoCacheIsLost, SavesNew
    <2>2. ASSUME CacheInvariant, Next PROVE CacheInvariant'
      BY <2>2, StepCaches DEF Next
    <2>3. QED
      BY <2>1, <2>2
  <1>3. CacheInvariant => NoCacheIsLost
    BY DEF CacheInvariant
  <1>4. QED
    BY <1>1, <1>2, <1>3, PTL DEF Spec

-----------------------------------------------------------------------------
(* Scorecards.  The inductive invariant: the snapshot keeps the edges that *)
(* were settled and, for a request that comes after a successful one, all  *)
(* links; and what the loop has done is in the snapshot as well as in the  *)
(* rows, so that a later save of the same library does not undo it.        *)
Matching == {m \in LibraryPurls \X ResultPurls : Scorecards!Matches(m[1], m[2])}
Copying == {"library", "result"}
IngestSteps ==
    {Scorecards!Ready} \cup [at : {"loop"}, left : SUBSET Matching]
    \cup [at : Copying, left : SUBSET Matching, library : LibraryPurls, result : ResultPurls,
          copy : SUBSET LibraryPurls]

ScorecardsTyped ==
    /\ children \in [LibraryPurls -> SUBSET (ResultPurls \cup {Other})]
    /\ copies \in [LibraryPurls -> SUBSET (ResultPurls \cup {Other})]
    /\ parents \in [ResultPurls -> SUBSET LibraryPurls]
    /\ ingest \in IngestSteps
    /\ answered \in BOOLEAN /\ settled \subseteq LibraryPurls

(* Only what matches is linked, in the rows and in the snapshot.           *)
LinksMatch ==
    \A l \in LibraryPurls : \A r \in ResultPurls :
        r \in children[l] \/ (ingest.at # "ready" /\ r \in copies[l]) => <<l, r>> \in Matching

(* The link of l and r is in the rows, and in the snapshot of a request.   *)
Linked(l, r) ==
    /\ r \in children[l] /\ l \in parents[r]
    /\ ingest.at # "ready" => r \in copies[l]

LinksStay ==
    \A m \in Matching :
        answered \/ (ingest.at # "ready" /\ m \notin ingest.left) => Linked(m[1], m[2])

LoopIsInOrder ==
    /\ ingest.at \in Copying => /\ <<ingest.library, ingest.result>> \in Matching
                                /\ ingest.copy = parents[ingest.result]
    /\ ingest.at = "result" => /\ ingest.result \in children[ingest.library]
                               /\ ingest.result \in copies[ingest.library]

SettledEdgesStay ==
    \A l \in settled : Other \in children[l] /\ (ingest.at # "ready" => Other \in copies[l])

LinkInvariant ==
    ScorecardsTyped /\ LinksMatch /\ LinksStay /\ LoopIsInOrder /\ SettledEdgesStay

(* Matching compares versions, and for a library without a namespace names *)
(* and versions alone.                                                     *)
LEMMA MatchingCompares ==
    ASSUME NEW l \in LibraryPurls, NEW r \in ResultPurls
    PROVE  /\ <<l, r>> \in Matching => l.version = r.version
           /\ l.namespace = "" /\ l.name = r.name /\ l.version = r.version => <<l, r>> \in Matching
  <1>1. /\ Scorecards!PURLToPackage(l).version = l.version
        /\ Scorecards!PURLToPackage(r).version = r.version
        /\ l.namespace = "" => Scorecards!PURLToPackage(l).name = <<l.name>>
    BY DEF Scorecards!PURLToPackage
  <1>2. <<l, r>> \in Matching <=> Scorecards!Matches(l, r)
    BY DEF Matching
  <1>3. QED
    BY <1>1, <1>2 DEF Scorecards!Matches

(* Before the first request there are no edges.                            *)
LEMMA InitLinks == Scorecards!Init => LinkInvariant
  <1> SUFFICES ASSUME Scorecards!Init PROVE LinkInvariant
    OBVIOUS
  <1>1. /\ ingest = Scorecards!Ready /\ ingest.at = "ready" /\ ~answered /\ settled = {}
        /\ children = [l \in LibraryPurls |-> {}] /\ parents = [r \in ResultPurls |-> {}]
        /\ copies = children /\ answered = FALSE
    BY DEF Scorecards!Init, Scorecards!Ready
  <1>2. ScorecardsTyped
    BY <1>1 DEF ScorecardsTyped, IngestSteps
  <1>3. QED
    BY <1>1, <1>2 DEF LinkInvariant, LinksMatch, LinksStay, LoopIsInOrder, SettledEdgesStay,
       Copying

(* Every step keeps the invariant.                                         *)
LEMMA NextLinks ==
    ASSUME LinkInvariant, [Scorecards!Next]_(Scorecards!vars)
    PROVE  LinkInvariant'
  <1> USE DEF LinkInvariant
  <1>1. ASSUME NEW l \in LibraryPurls, Scorecards!OtherEdge(l) PROVE LinkInvariant'
    <2>1. /\ children' = [children EXCEPT ![l] = @ \cup {Other}]
          /\ UNCHANGED <<parents, ingest, copies, answered, settled>>
      BY <1>1 DEF Scorecards!OtherEdge
    <2>2. /\ ScorecardsTyped' /\ \A k \in LibraryPurls :
               /\ children[k] \subseteq children'[k]
               /\ \A r \in ResultPurls : r \in children'[k] => r \in children[k]
      BY <2>1, OtherAssumption DEF ScorecardsTyped
    <2>3. LinksMatch' /\ SettledEdgesStay'
      BY <2>1, <2>2 DEF LinksMatch, SettledEdgesStay, ScorecardsTyped
    <2>4. LinksStay' /\ LoopIsInOrder'
      BY <2>1, <2>2 DEF LinksStay, Linked, LoopIsInOrder, Matching, ScorecardsTyped
    <2>5. QED
      BY <2>2, <2>3, <2>4
  <1>2. CASE Scorecards!Snapshot
    <2>1. /\ ingest.at = "ready" /\ copies' = children
          /\ settled' = {l \in LibraryPurls : Other \in children[l]}
          /\ ingest' = [at |-> "loop", left |-> Matching]
          /\ UNCHANGED <<children, parents, answered>>
      BY <1>2 DEF Scorecards!Snapshot, Scorecards!edges, Matching
    <2>2. ScorecardsTyped'
      BY <2>1 DEF ScorecardsTyped, IngestSteps
    <2>3. QED
      BY <2>1, <2>2 DEF LinksMatch, LinksStay, Linked, LoopIsInOrder, SettledEdgesStay, Copying
  <1>3. ASSUME NEW l \in LibraryPurls, NEW r \in ResultPurls, Scorecards!AddScorecard(l, r)
        PROVE  LinkInvariant'
    <2>1. /\ ingest.at = "loop" /\ <<l, r>> \in ingest.left
          /\ ingest' = [at |-> "library", left |-> ingest.left, library |-> l, result |-> r,
                        copy |-> parents[r]]
          /\ UNCHANGED <<children, parents, copies, answered, settled>>
      BY <1>3 DEF Scorecards!AddScorecard, Scorecards!edges
    <2>2. ingest.left \in SUBSET Matching
      BY <2>1 DEF ScorecardsTyped, IngestSteps, Scorecards!Ready, Copying
    <2>3. ScorecardsTyped'
      BY <2>1, <2>2 DEF ScorecardsTyped, IngestSteps, Copying
    <2>4. QED
      BY <2>1, <2>2, <2>3 DEF LinksMatch, LinksStay, Linked, LoopIsInOrder, SettledEdgesStay,
         Copying
  <1>4. CASE Scorecards!SaveLibrary
    <2> DEFINE l == ingest.library  r == ingest.result
    <2>1. /\ ingest.at = "library" /\ ingest \in IngestSteps /\ ingest' \in IngestSteps
          /\ ingest'.at = "result" /\ ingest'.left = ingest.left /\ ingest'.library = l
          /\ ingest'.result = r /\ ingest'.copy = ingest.copy
          /\ l \in LibraryPurls /\ r \in ResultPurls
      BY <1>4 DEF Scorecards!SaveLibrary, ScorecardsTyped, IngestSteps, Scorecards!Ready, Copying
    <2>2. /\ copies' = [copies EXCEPT ![l] = @ \cup {r}]
          /\ children' = [children EXCEPT ![l] = copies'[l]]
          /\ UNCHANGED <<parents, answered, settled>>
      BY <1>4 DEF Scorecards!SaveLibrary
    <2>3. <<l, r>> \in Matching /\ ingest.copy = parents[r]
      BY <2>1 DEF LoopIsInOrder, Copying
    <2> HIDE DEF l, r
    <2>4. /\ copies'[l] = copies[l] \cup {r} /\ children'[l] = copies[l] \cup {r}
          /\ \A k \in LibraryPurls : k # l => copies'[k] = copies[k] /\ children'[k] = children[k]
      BY <2>1, <2>2 DEF ScorecardsTyped
    <2>5. ScorecardsTyped'
      BY <2>1, <2>2 DEF ScorecardsTyped
    <2>6. LinksMatch' /\ LoopIsInOrder' /\ SettledEdgesStay'
      BY <2>1, <2>2, <2>3, <2>4 DEF LinksMatch, LoopIsInOrder, SettledEdgesStay, Copying,
         ScorecardsTyped, l, r
    <2>7. LinksStay'
      <3> SUFFICES ASSUME NEW k \in LibraryPurls, NEW s \in ResultPurls, <<k, s>> \in Matching,
                          answered \/ <<k, s>> \notin ingest.left
                   PROVE  Linked(k, s)'
        BY <2>1, <2>2 DEF LinksStay, Matching
      <3>1. Linked(k, s)
        BY <2>1 DEF LinksStay
      <3>2. QED
        BY <2>1, <2>2, <2>4, <3>1 DEF Linked
    <2>8. QED
      BY <2>5, <2>6, <2>7
  <1>5. CASE Scorecards!SaveResult
    <2> DEFINE l == ingest.library  r == ingest.result
    <2>1. /\ ingest.at = "result" /\ ingest.left \in SUBSET Matching
          /\ l \in LibraryPurls /\ r \in ResultPurls
      BY <1>5 DEF Scorecards!SaveResult, ScorecardsTyped, IngestSteps, Scorecards!Ready, Copying
    <2>2. /\ <<l, r>> \in Matching /\ ingest.copy = parents[r]
          /\ r \in children[l] /\ r \in copies[l]
      BY <2>1 DEF LoopIsInOrder, Copying
    <2>3. /\ parents' = [parents EXCEPT ![r] = parents[r] \cup {l}]
          /\ ingest' = [at |-> "loop", left |-> ingest.left \ {<<l, r>>}]
          /\ UNCHANGED <<children, copies, answered, settled>>
      BY <1>5, <2>2 DEF Scorecards!SaveResult
    <2> HIDE DEF l, r
    <2>4. ScorecardsTyped'
      BY <2>1, <2>3 DEF ScorecardsTyped, IngestSteps
    <2>5. LinksMatch' /\ LoopIsInOrder' /\ SettledEdgesStay'
      BY <2>1, <2>3 DEF LinksMatch, LoopIsInOrder, SettledEdgesStay, Copying
    <2>6. LinksStay'
      <3> SUFFICES ASSUME NEW k \in LibraryPurls, NEW s \in ResultPurls, <<k, s>> \in Matching,
                          answered \/ <<k, s>> \notin ingest.left \/ (k = l /\ s = r)
                   PROVE  Linked(k, s)'
        BY <2>3 DEF LinksStay, Matching
      <3>1. (k = l /\ s = r) \/ Linked(k, s)
        BY <2>1 DEF LinksStay
      <3>2. QED
        BY <2>1, <2>2, <2>3, <3>1 DEF Linked, ScorecardsTyped
    <2>7. QED
      BY <2>4, <2>5, <2>6
  <1>6. CASE Scorecards!Succeed
    <2>1. /\ ingest.at = "loop" /\ ingest.left = {} /\ ingest' = Scorecards!Ready
          /\ answered' = TRUE /\ UNCHANGED <<children, parents, copies, settled>>
      BY <1>6 DEF Scorecards!Succeed, Scorecards!edges
    <2>2. ScorecardsTyped'
      BY <2>1 DEF ScorecardsTyped, IngestSteps
    <2>3. QED
      BY <2>1, <2>2 DEF LinksMatch, LinksStay, Linked, LoopIsInOrder, SettledEdgesStay, Copying,
         Scorecards!Ready
  <1>7. CASE Scorecards!Fail
    <2>1. /\ ingest' = Scorecards!Ready
          /\ UNCHANGED <<children, parents, copies, answered, settled>>
      BY <1>7 DEF Scorecards!Fail, Scorecards!edges
    <2>2. ScorecardsTyped'
      BY <2>1 DEF ScorecardsTyped, IngestSteps
    <2>3. QED
      BY <2>1, <2>2 DEF LinksMatch, LinksStay, Linked, LoopIsInOrder, SettledEdgesStay, Copying,
         Scorecards!Ready
  <1>8. CASE UNCHANGED Scorecards!vars
    BY <1>8 DEF Scorecards!vars, Scorecards!edges, ScorecardsTyped, LinksMatch, LinksStay, Linked,
       LoopIsInOrder, SettledEdgesStay
  <1>9. QED
    BY <1>1, <1>2, <1>3, <1>4, <1>5, <1>6, <1>7, <1>8 DEF Scorecards!Next

(* After a scorecard request has succeeded its links are in the graph, at  *)
(* both ends, whatever failed before it and whichever edges other requests *)
(* add meanwhile (ingest of pkg/tools/ingest/scorecard.go).                *)
THEOREM ScorecardsLink == Scorecards!Spec => []ResultsAreLinked
  <1>1. LinkInvariant => ResultsAreLinked
    <2> SUFFICES ASSUME LinkInvariant PROVE ResultsAreLinked
      OBVIOUS
    <2>1. ASSUME NEW l \in LibraryPurls, NEW r \in ResultPurls
          PROVE  /\ answered /\ l.namespace = "" /\ l.name = r.name /\ l.version = r.version =>
                       r \in children[l] /\ l \in parents[r]
                 /\ r \in children[l] => l.version = r.version
      BY MatchingCompares DEF LinkInvariant, LinksStay, LinksMatch, Linked
    <2>2. QED
      BY <2>1 DEF ResultsAreLinked, Scorecards!ResultsAreLinked, LinkInvariant, SettledEdgesStay
  <1>2. QED
    BY <1>1, InitLinks, NextLinks, PTL DEF Scorecards!Spec

-----------------------------------------------------------------------------
(* A finite set of numbers that is not empty has a greatest.  (Of the sets *)
(* of those members that are at least x, for the members x, take a minimal *)
(* one: it holds its x alone.)                                             *)
LEMMA MaxIsGreatest ==
    ASSUME NEW S \in SUBSET Nat, IsFiniteSet(S), S # {}
    PROVE  Priorities!Max(S) \in S /\ \A x \in S : Priorities!Max(S) >= x
  <1> DEFINE above(x) == {y \in S : y >= x}
             T == {above(x) : x \in S}
  <1>1. T \subseteq FiniteSubsetsOf(S) /\ T # {}
    <2>1. FiniteSubsetsOf(S) = SUBSET S
      BY FS_FiniteSubsetsOfFinite
    <2>2. T \subseteq SUBSET S /\ T # {}
      OBVIOUS
    <2>3. QED
      BY <2>1, <2>2
  <1>2. PICK A \in T : \A B \in T : ~(<<B, A>> \in StrictSubsetOrdering(S))
    <2> HIDE DEF T
    <2> QED
      BY <1>1, FS_StrictSubsetOrderingWellFounded, WFMin
  <1>3. PICK x \in S : A = above(x)
    OBVIOUS
  <1>4. ASSUME NEW y \in S, y > x PROVE FALSE
    <2>1. x \in Nat /\ y \in Nat
      BY <1>3, <1>4
    <2>2. above(y) \subseteq A /\ x \in A /\ x \notin above(y)
      <3>1. ASSUME NEW z \in above(y) PROVE z \in above(x)
        <4>1. z \in S /\ z \in Nat /\ z >= y
          BY <3>1
        <4>2. QED
          BY <1>4, <2>1, <4>1
      <3>2. x >= x /\ ~(x >= y)
        BY <1>4, <2>1
      <3>3. QED
        BY <1>3, <3>1, <3>2
    <2>3. above(y) \in T
      BY <1>4
    <2>4. <<above(y), A>> \in StrictSubsetOrdering(S)
      BY <2>2, <1>3 DEF StrictSubsetOrdering
    <2>5. QED
      BY <1>2, <2>3, <2>4
  <1>5. \A y \in S : x >= y
    BY <1>4
  <1>6. QED
    BY <1>5 DEF Priorities!Max

-----------------------------------------------------------------------------
(* Priorities.  The inductive invariants: how far the request has come.    *)
StoreSteps ==
    {Priorities!NoRequest}
    \cup [at : {"kev"}, catalog : SUBSET CVEs, left : SUBSET CVEs]
    \cup [at : {"epss"}, file : DOMAIN EPSSFiles, known : SUBSET CVEs, left : SUBSET CVEs]
    \cup UNION {[at : {"vex"}, doc : {d}, left : Seq(Priorities!ToSet(VEXDocuments[d]))] :
                  d \in DOMAIN VEXDocuments}

PrioritiesTyped ==
    /\ recorded \subseteq CVEs /\ kev \subseteq CVEs /\ listed \subseteq CVEs /\ due \subseteq CVEs
    /\ epss \in [CVEs -> Nat]
    /\ vex \in [DOMAIN VulnNames -> DOMAIN VEXDocuments \cup {0}]
    /\ scored \in DOMAIN EPSSFiles \cup {0}
    /\ stated \in Seq(DOMAIN VEXDocuments \cup {0})
    /\ store \in StoreSteps

EntriesStay ==
    /\ listed \subseteq kev
    /\ store.at = "kev" => store.catalog \subseteq kev \cup store.left

(* The scores of the CVEs in known are those of the file, but for left.    *)
ScoresAre(file, known, left) ==
    \A c \in (known \cap DOMAIN EPSSFiles[file]) \ left : epss[c] = EPSSFiles[file][c]

ScoresStay ==
    /\ \A c \in CVEs : epss[c] # 0 => c \in recorded
    /\ store.at = "epss" => /\ store.known \subseteq recorded
                            /\ store.left \subseteq store.known \cap DOMAIN EPSSFiles[store.file]
                            /\ ScoresAre(store.file, store.known, store.left)
    /\ scored # 0 => ScoresAre(scored, due, {})

(* The statement of d is there under each of its names, but for left.      *)
StatementsAre(d, left) ==
    \A k \in DOMAIN VulnNames :
        VulnNames[k] \in Priorities!ToSet(VEXDocuments[d]) \ left => vex[k] = d

LastDocument == stated[Len(stated)]
StatementsStay ==
    /\ store.at = "vex" => /\ stated # <<>> /\ LastDocument = 0
                           /\ StatementsAre(store.doc, Priorities!ToSet(store.left))
    /\ stated # <<>> /\ LastDocument # 0 => StatementsAre(LastDocument, {})

PriorityInvariant == PrioritiesTyped /\ EntriesStay /\ ScoresStay /\ StatementsStay

(* The kind of request that is on its way tells what is known of it.       *)
LEMMA StoreKinds ==
    ASSUME PrioritiesTyped
    PROVE  /\ store # Priorities!NoRequest => store.at \in {"kev", "epss", "vex"}
           /\ store.at = "kev" =>
                 store \in [at : {"kev"}, catalog : SUBSET CVEs, left : SUBSET CVEs]
           /\ store.at = "epss" =>
                 store \in [at : {"epss"}, file : DOMAIN EPSSFiles, known : SUBSET CVEs,
                            left : SUBSET CVEs]
           /\ store.at = "vex" =>
                 /\ store.doc \in DOMAIN VEXDocuments
                 /\ store.left \in Seq(Priorities!ToSet(VEXDocuments[store.doc]))
                 /\ store = [at |-> "vex", doc |-> store.doc, left |-> store.left]
  BY DEF PrioritiesTyped, StoreSteps, Priorities!NoRequest

(* Before the first request nothing is stored.                             *)
LEMMA InitPriorities == Priorities!Init => PriorityInvariant
  <1> SUFFICES ASSUME Priorities!Init PROVE PriorityInvariant
    OBVIOUS
  <1>1. /\ recorded = {} /\ kev = {} /\ listed = {} /\ due = {} /\ scored = 0 /\ stated = <<>>
        /\ epss = [c \in CVEs |-> 0] /\ vex = [k \in DOMAIN VulnNames |-> 0]
        /\ store = Priorities!NoRequest /\ store.at = "none"
    BY DEF Priorities!Init, Priorities!NoRequest
  <1>2. PrioritiesTyped
    BY <1>1 DEF PrioritiesTyped, StoreSteps
  <1>3. QED
    BY <1>1, <1>2 DEF PriorityInvariant, EntriesStay, ScoresStay, StatementsStay

(* What a document lists is its first name or among the rest.              *)
LEMMA TailKeepsTheRest ==
    ASSUME NEW N, NEW s \in Seq(N), s # <<>>
    PROVE  /\ Tail(s) \in Seq(N)
           /\ Priorities!ToSet(s) \subseteq {Head(s)} \cup Priorities!ToSet(Tail(s))
  <1>1. /\ Tail(s) \in Seq(N) /\ DOMAIN Tail(s) = 1..(Len(s) - 1) /\ Len(s) \in Nat
        /\ \A i \in 1..(Len(s) - 1) : Tail(s)[i] = s[i + 1]
    OBVIOUS
  <1>2. ASSUME NEW i \in DOMAIN s, i # 1 PROVE s[i] \in Priorities!ToSet(Tail(s))
    <2>1. i - 1 \in DOMAIN Tail(s) /\ Tail(s)[i - 1] = s[i]
      BY <1>1, <1>2
    <2>2. QED
      BY <2>1 DEF Priorities!ToSet
  <1>3. QED
    BY <1>1, <1>2 DEF Priorities!ToSet

(* A request begins.                                                       *)
LEMMA BeginPriorities ==
    ASSUME PriorityInvariant,
           \/ \E catalog \in SUBSET CVEs : Priorities!KEV(catalog)
           \/ \E file \in DOMAIN EPSSFiles : Priorities!EPSS(file)
           \/ \E d \in DOMAIN VEXDocuments : Priorities!VEX(d)
    PROVE  PriorityInvariant'
  <1> USE DEF PriorityInvariant
  <1>1. store.at = "none"
    BY DEF Priorities!KEV, Priorities!EPSS, Priorities!VEX, Priorities!NoRequest
  <1>2. ASSUME NEW catalog \in SUBSET CVEs, Priorities!KEV(catalog) PROVE PriorityInvariant'
    <2>1. /\ store' = [at |-> "kev", catalog |-> catalog, left |-> catalog]
          /\ UNCHANGED <<recorded, kev, epss, vex, listed, scored, due, stated>>
      BY <1>2 DEF Priorities!KEV, Priorities!rowsOf, Priorities!ghosts
    <2>2. PrioritiesTyped'
      BY <2>1 DEF PrioritiesTyped, StoreSteps
    <2>3. QED
      BY <2>1, <2>2 DEF EntriesStay, ScoresStay, StatementsStay, ScoresAre, StatementsAre,
         LastDocument
  <1>3. ASSUME NEW file \in DOMAIN EPSSFiles, Priorities!EPSS(file) PROVE PriorityInvariant'
    <2>1. /\ store' = [at |-> "epss", file |-> file, known |-> recorded,
                       left |-> recorded \cap DOMAIN EPSSFiles[file]]
          /\ UNCHANGED <<recorded, kev, epss, vex, listed, scored, due, stated>>
      BY <1>3 DEF Priorities!EPSS, Priorities!rowsOf, Priorities!ghosts, Priorities!CVEsInGraph
    <2>2. PrioritiesTyped'
      BY <2>1 DEF PrioritiesTyped, StoreSteps
    <2>3. QED
      BY <2>1, <2>2 DEF EntriesStay, ScoresStay, StatementsStay, ScoresAre, StatementsAre,
         LastDocument
  <1>4. ASSUME NEW d \in DOMAIN VEXDocuments, Priorities!VEX(d) PROVE PriorityInvariant'
    <2>1. /\ store' = [at |-> "vex", doc |-> d, left |-> VEXDocuments[d]]
          /\ stated' = Append(stated, 0)
          /\ UNCHANGED <<recorded, kev, epss, vex, listed, scored, due>>
      BY <1>4 DEF Priorities!VEX, Priorities!rowsOf
    <2>2. /\ stated' \in Seq(DOMAIN VEXDocuments \cup {0}) /\ stated' # <<>>
          /\ LastDocument' = 0
      BY <2>1 DEF PrioritiesTyped, LastDocument
    <2>3. PrioritiesTyped'
      BY <2>1, <2>2, PrioritiesAssumption DEF PrioritiesTyped, StoreSteps
    <2>4. QED
      BY <2>1, <2>2, <2>3 DEF EntriesStay, ScoresStay, StatementsStay, ScoresAre, StatementsAre
  <1>5. QED
    BY <1>2, <1>3, <1>4

(* A row is stored.                                                        *)
LEMMA StorePriorities ==
    ASSUME PriorityInvariant,
           \/ \E c \in CVEs : Priorities!StoreEntry(c) \/ Priorities!StoreScore(c)
           \/ Priorities!StoreStatement
    PROVE  PriorityInvariant'
  <1> USE DEF PriorityInvariant
  <1>1. ASSUME NEW c \in CVEs, Priorities!StoreEntry(c) PROVE PriorityInvariant'
    <2>1. /\ store.at = "kev" /\ kev' = kev \cup {c}
          /\ store' = [store EXCEPT !.left = @ \ {c}]
          /\ UNCHANGED <<recorded, epss, vex, listed, scored, due, stated>>
      BY <1>1 DEF Priorities!StoreEntry, Priorities!ghosts
    <2>2. /\ store' \in [at : {"kev"}, catalog : SUBSET CVEs, left : SUBSET CVEs]
          /\ store'.catalog = store.catalog /\ store'.left = store.left \ {c}
      BY <2>1, StoreKinds
    <2>3. PrioritiesTyped'
      BY <2>1, <2>2 DEF PrioritiesTyped, StoreSteps
    <2>4. QED
      BY <2>1, <2>2, <2>3 DEF EntriesStay, ScoresStay, StatementsStay, ScoresAre, StatementsAre,
         LastDocument
  <1>2. ASSUME NEW c \in CVEs, Priorities!StoreScore(c) PROVE PriorityInvariant'
    <2>1. /\ store.at = "epss" /\ c \in store.left /\ scored' = 0
          /\ epss' = [epss EXCEPT ![c] = EPSSFiles[store.file][c]]
          /\ store' = [store EXCEPT !.left = @ \ {c}]
          /\ UNCHANGED <<recorded, kev, vex, listed, due, stated>>
      BY <1>2 DEF Priorities!StoreScore
    <2>2. /\ store' \in [at : {"epss"}, file : DOMAIN EPSSFiles, known : SUBSET CVEs,
                         left : SUBSET CVEs]
          /\ store'.file = store.file /\ store'.known = store.known
          /\ store'.left = store.left \ {c} /\ store.file \in DOMAIN EPSSFiles
      BY <2>1, StoreKinds
    <2>3. /\ c \in recorded /\ c \in DOMAIN EPSSFiles[store.file]
          /\ EPSSFiles[store.file][c] \in Nat
      BY <2>1, <2>2, PrioritiesAssumption DEF ScoresStay
    <2>4. PrioritiesTyped'
      BY <2>1, <2>2, <2>3 DEF PrioritiesTyped, StoreSteps
    <2>5. ScoresStay'
      BY <2>1, <2>2, <2>3 DEF ScoresStay, ScoresAre, PrioritiesTyped
    <2>6. QED
      BY <2>1, <2>2, <2>4, <2>5 DEF EntriesStay, StatementsStay, StatementsAre, LastDocument
  <1>3. CASE Priorities!StoreStatement
    <2>1. /\ store.at = "vex" /\ store.left # <<>>
          /\ vex' = [k \in DOMAIN vex |-> IF VulnNames[k] = Head(store.left) THEN store.doc
                                          ELSE vex[k]]
          /\ store' = [store EXCEPT !.left = Tail(@)]
          /\ UNCHANGED <<recorded, kev, epss, listed, scored, due, stated>>
      BY <1>3 DEF Priorities!StoreStatement, Priorities!ghosts
    <2> DEFINE N == Priorities!ToSet(VEXDocuments[store.doc])
    <2>2. /\ store.doc \in DOMAIN VEXDocuments /\ store.left \in Seq(N)
          /\ store' = [at |-> "vex", doc |-> store.doc, left |-> Tail(store.left)]
      BY <2>1, StoreKinds
    <2>3. /\ Tail(store.left) \in Seq(N)
          /\ Priorities!ToSet(store.left) \subseteq
                {Head(store.left)} \cup Priorities!ToSet(Tail(store.left))
      BY <2>1, <2>2, TailKeepsTheRest
    <2>4. PrioritiesTyped'
      <3>1. vex' \in [DOMAIN VulnNames -> DOMAIN VEXDocuments \cup {0}]
        BY <2>1, <2>2 DEF PrioritiesTyped
      <3>2. store' \in [at : {"vex"}, doc : {store.doc}, left : Seq(N)]
        BY <2>2, <2>3
      <3>3. store' \in StoreSteps
        BY <2>2, <3>2 DEF StoreSteps
      <3>4. QED
        BY <2>1, <3>1, <3>3 DEF PrioritiesTyped
    <2>5. StatementsStay'
      BY <2>1, <2>2, <2>3 DEF StatementsStay, StatementsAre, LastDocument, PrioritiesTyped
    <2>6. QED
      BY <2>1, <2>2, <2>4, <2>5 DEF EntriesStay, ScoresStay, ScoresAre
  <1>4. QED
    BY <1>1, <1>2, <1>3

(* A request ends.                                                         *)
LEMMA EndPriorities ==
    ASSUME PriorityInvariant, Priorities!Succeed \/ Priorities!Fail
    PROVE  PriorityInvariant'
  <1> USE DEF PriorityInvariant
  <1>1. /\ store # Priorities!NoRequest
        /\ store' = Priorities!NoRequest /\ store'.at = "none"
        /\ UNCHANGED <<recorded, kev, epss, vex>>
    <2>1. /\ store # Priorities!NoRequest /\ store' = Priorities!NoRequest
          /\ UNCHANGED <<recorded, Priorities!rowsOf>>
      BY Zenon DEF Priorities!Succeed, Priorities!Fail
    <2>2. QED
      BY <2>1 DEF Priorities!NoRequest, Priorities!rowsOf
  <1>2. store' \in StoreSteps
    BY <1>1 DEF StoreSteps
  <1>3. CASE UNCHANGED <<listed, scored, due, stated>>
    BY <1>1, <1>2, <1>3 DEF PrioritiesTyped, EntriesStay, ScoresStay, StatementsStay, ScoresAre,
       StatementsAre, LastDocument
  <1>4. CASE Priorities!Succeed
    <2>1. CASE store.at = "kev"
      <3>1. /\ store.left = {} /\ listed' = listed \cup store.catalog
            /\ UNCHANGED <<scored, due, stated>>
        BY <1>4, <2>1, Zenon DEF Priorities!Succeed
      <3>2. QED
        BY <1>1, <1>2, <2>1, <3>1, StoreKinds DEF PrioritiesTyped, EntriesStay, ScoresStay,
           StatementsStay, ScoresAre, StatementsAre, LastDocument
    <2>2. CASE store.at = "epss"
      <3>1. /\ store.left = {} /\ scored' = store.file /\ due' = store.known
            /\ UNCHANGED <<listed, stated>>
        BY <1>4, <2>2, Zenon DEF Priorities!Succeed
      <3>2. QED
        BY <1>1, <1>2, <2>2, <3>1, StoreKinds DEF PrioritiesTyped, EntriesStay, ScoresStay,
           StatementsStay, ScoresAre, StatementsAre, LastDocument
    <2>3. CASE store.at = "vex"
      <3>1. /\ store.left = <<>> /\ stated' = [stated EXCEPT ![Len(stated)] = store.doc]
            /\ UNCHANGED <<listed, scored, due>>
        BY <1>4, <2>3, Zenon DEF Priorities!Succeed
      <3>2. /\ stated # <<>> /\ store.doc \in DOMAIN VEXDocuments
            /\ StatementsAre(store.doc, {})
        BY <2>3, <3>1, StoreKinds DEF StatementsStay, Priorities!ToSet, StatementsAre
      <3>3. /\ stated' \in Seq(DOMAIN VEXDocuments \cup {0}) /\ Len(stated') = Len(stated)
            /\ LastDocument' = store.doc
        BY <3>1, <3>2 DEF PrioritiesTyped, LastDocument
      <3>4. PrioritiesTyped' /\ EntriesStay' /\ ScoresStay'
        BY <1>1, <1>2, <3>1, <3>3 DEF PrioritiesTyped, EntriesStay, ScoresStay, ScoresAre
      <3>5. StatementsStay'
        BY <1>1, <3>2, <3>3 DEF StatementsStay, StatementsAre
      <3>6. QED
        BY <3>4, <3>5
    <2>4. QED
      BY <1>1, <2>1, <2>2, <2>3, StoreKinds
  <1>5. CASE Priorities!Fail
    BY <1>3, <1>5 DEF Priorities!Fail, Priorities!ghosts
  <1>6. QED
    BY <1>4, <1>5

(* Every step keeps the invariant.                                         *)
LEMMA NextPriorities ==
    ASSUME PriorityInvariant, [Priorities!Next]_(Priorities!vars)
    PROVE  PriorityInvariant'
  <1>1. ASSUME NEW c \in CVEs, Priorities!IngestOSV(c) PROVE PriorityInvariant'
    BY <1>1 DEF Priorities!IngestOSV, Priorities!rowsOf, Priorities!ghosts, PriorityInvariant,
       PrioritiesTyped, EntriesStay, ScoresStay, StatementsStay, ScoresAre, StatementsAre,
       LastDocument
  <1>2. CASE UNCHANGED Priorities!vars
    BY <1>2 DEF Priorities!vars, Priorities!rowsOf, Priorities!ghosts, PriorityInvariant,
       PrioritiesTyped, EntriesStay, ScoresStay, StatementsStay, ScoresAre, StatementsAre,
       LastDocument
  <1>3. QED
    BY <1>1, <1>2, BeginPriorities, StorePriorities, EndPriorities DEF Priorities!Next

(* What a report reads is what the invariant says of the rows.             *)
LEMMA ReportsSeeScores == PriorityInvariant => ScoresFollowRecords
  <1> SUFFICES ASSUME PriorityInvariant PROVE ScoresFollowRecords
    OBVIOUS
  <1> USE DEF PriorityInvariant
  <1>1. Priorities!NamedCVEs \cap listed # {} => Priorities!InKEV
    BY DEF EntriesStay, Priorities!InKEV
  <1>2. ASSUME NEW c \in Priorities!NamedCVEs PROVE Priorities!Score >= epss[c]
    <2> DEFINE S == {epss[k] : k \in Priorities!NamedCVEs} \cup {0}
               f == [k \in 1..Len(VulnNames) |-> VulnNames[k]]
               g == [k \in Priorities!NamedCVEs |-> epss[k]]
    <2>1. IsFiniteSet(Priorities!NamedCVEs)
      <3>1. IsFiniteSet(1..Len(VulnNames)) /\ DOMAIN VulnNames = 1..Len(VulnNames)
        <4> DEFINE X == Priorities!ToSet(VulnNames)
        <4>1. VulnNames \in Seq(X)
          BY PrioritiesAssumption
        <4> HIDE DEF X
        <4>2. Len(VulnNames) \in Nat /\ DOMAIN VulnNames = 1..Len(VulnNames)
          BY <4>1
        <4>3. QED
          BY <4>2, FS_Interval
      <3>2. f \in Surjection(1..Len(VulnNames), Priorities!ToSet(VulnNames))
        BY <3>1 DEF Surjection, Priorities!ToSet
      <3>3. IsFiniteSet(Priorities!ToSet(VulnNames))
        BY <3>1, <3>2, FS_Surjection
      <3>4. QED
        BY <3>3, FS_Subset DEF Priorities!NamedCVEs
    <2>2. g \in Surjection(Priorities!NamedCVEs, {epss[k] : k \in Priorities!NamedCVEs})
      BY DEF Surjection
    <2>3. IsFiniteSet({epss[k] : k \in Priorities!NamedCVEs})
      BY <2>1, <2>2, FS_Surjection
    <2>4. IsFiniteSet(S)
      BY <2>3, FS_AddElement
    <2>5. S \in SUBSET Nat /\ epss[c] \in S /\ S # {}
      BY DEF PrioritiesTyped, Priorities!NamedCVEs
    <2>6. Priorities!Max(S) >= epss[c]
      BY <2>4, <2>5, MaxIsGreatest
    <2>7. QED
      BY <2>6 DEF Priorities!Score
  <1>3. ASSUME scored # 0, NEW c \in due \cap DOMAIN EPSSFiles[scored]
        PROVE  epss[c] = EPSSFiles[scored][c]
    BY <1>3 DEF ScoresStay, ScoresAre
  <1>4. QED
    BY <1>1, <1>2, <1>3 DEF Priorities!ScoresFollowRecords, ScoresFollowRecords, ScoresStay

(* And of the statements: the last document is under every name.           *)
LEMMA ReportsSeeStatements == PriorityInvariant => LastStatementCounts
  <1> SUFFICES ASSUME PriorityInvariant, stated # <<>>, 0 \notin Priorities!ToSet(stated),
                      \A d \in Priorities!ToSet(stated) :
                        Priorities!ToSet(VulnNames) \subseteq Priorities!ToSet(VEXDocuments[d])
               PROVE  Priorities!Statement = Priorities!Last(stated)
    BY DEF LastStatementCounts, Priorities!LastStatementCounts
  <1> DEFINE d == LastDocument
  <1>1. /\ d \in Priorities!ToSet(stated) /\ d = Priorities!Last(stated) /\ d # 0
    <2>1. stated \in Seq(DOMAIN VEXDocuments \cup {0}) /\ Len(stated) \in DOMAIN stated
      BY DEF PriorityInvariant, PrioritiesTyped
    <2>2. QED
      BY <2>1 DEF LastDocument, Priorities!ToSet, Priorities!Last
  <1>2. \A k \in DOMAIN VulnNames : vex[k] = d
    BY <1>1 DEF PriorityInvariant, StatementsStay, StatementsAre, Priorities!ToSet
  <1>3. /\ DOMAIN vex = DOMAIN VulnNames /\ DOMAIN VulnNames = 1..Len(VulnNames)
        /\ Len(VulnNames) \in Nat /\ Len(VulnNames) # 0
    BY PrioritiesAssumption DEF PriorityInvariant, PrioritiesTyped
  <1>4. {k \in DOMAIN vex : vex[k] # 0} = 1..Len(VulnNames)
    BY <1>1, <1>2, <1>3
  <1>5. /\ 1..Len(VulnNames) # {} /\ 1..Len(VulnNames) \in SUBSET Nat
        /\ IsFiniteSet(1..Len(VulnNames))
    <2>1. 1 \in 1..Len(VulnNames) /\ 1..Len(VulnNames) \in SUBSET Nat
      BY <1>3
    <2>2. IsFiniteSet(1..Len(VulnNames))
      BY <1>3, FS_Interval
    <2>3. QED
      BY <2>1, <2>2
  <1>6. Priorities!Max(1..Len(VulnNames)) \in DOMAIN VulnNames
    BY <1>3, <1>5, MaxIsGreatest
  <1>7. Priorities!Statement = vex[Priorities!Max(1..Len(VulnNames))]
    <2> HIDE DEF d
    <2> QED
      BY <1>4, <1>5 DEF Priorities!Statement
  <1>8. QED
    BY <1>1, <1>2, <1>6, <1>7

(* A report has the KEV entries and the scores of what was ingested with   *)
(* success, in whatever order data and records come and requests stop      *)
(* (KEV and EPSS of pkg/tools/ingest/prioritize.go).                       *)
THEOREM ReportsFollowTheData == Priorities!Spec => []ScoresFollowRecords
  BY InitPriorities, NextPriorities, ReportsSeeScores, PTL DEF Priorities!Spec

(* A report goes by the last VEX document, if each names the vulnerability *)
(* by all its names (VEX of pkg/tools/ingest/prioritize.go).               *)
THEOREM ReportsFollowTheLastDocument == Priorities!Spec => []LastStatementCounts
  BY InitPriorities, NextPriorities, ReportsSeeStatements, PTL DEF Priorities!Spec

-----------------------------------------------------------------------------
(* Commands.                                                               *)
(* One damaged file, or entry of an archive, is enough for a path to be     *)
(* refused.                                                                 *)
LEMMA DamageIsSeen ==
    ASSUME NEW path \in Paths
    PROVE  Commands!LoadDataFromPath(path) = Commands!Damaged <=> Commands!WasDamaged(path)
  <1> DEFINE load(f) == CASE f.is = "zip" -> Commands!ReadZipFile(f)
                          [] f.is = "json" -> IF f.bad THEN Commands!Damaged ELSE Commands!Loaded(<<f.doc>>)
                          [] f.is = "other" -> Commands!Loaded(<<>>)
             bad(f) == \/ f.is # "other" /\ f.bad
                       \/ f.is = "zip" /\ \E e \in Commands!ToSet(f.entries) : e.is # "other" /\ e.bad
  <1>1. ASSUME NEW docs PROVE Commands!Loaded(docs) # Commands!Damaged
    BY DEF Commands!Loaded, Commands!Damaged
  <1>2. ASSUME NEW f, f.is \in {"json", "zip", "other"} PROVE load(f) = Commands!Damaged <=> bad(f)
    BY <1>2, <1>1 DEF Commands!ReadZipFile
  <1>3. Commands!LoadDataFromPath(path) = Commands!Damaged
        <=> \E f \in Commands!ToSet(path) : load(f) = Commands!Damaged
    BY <1>1 DEF Commands!LoadDataFromPath
  <1>4. Commands!WasDamaged(path) <=> \E f \in Commands!ToSet(path) : bad(f)
    BY DEF Commands!WasDamaged
  <1> HIDE DEF load, bad
  <1>5. QED
    BY <1>2, <1>3, <1>4, PathsAssumption

(* The fold over a path takes its files from the last one on.               *)
LEMMA LastFile ==
    ASSUME NEW path \in Paths, NEW s \in SUBSET DOMAIN path, s # {}
    PROVE  path[Commands!Max(s)] \in Commands!ToSet(path)
  <1>1. path \in Seq(Commands!ToSet(path))
    BY PathsAssumption
  <1>2. DOMAIN path = 1..Len(path) /\ Len(path) \in Nat
    BY <1>1
  <1>3. IsFiniteSet(1..Len(path))
    BY <1>2, FS_Interval
  <1>4. IsFiniteSet(s) /\ s \in SUBSET Nat
    BY <1>2, <1>3, FS_Subset
  <1>5. Commands!Max(s) \in s
    BY <1>4, MaxIsGreatest DEF Commands!Max, Priorities!Max
  <1>6. QED
    BY <1>5 DEF Commands!ToSet

(* Of a path without damage, all documents are loaded: the two folds are    *)
(* functions of the same kind.                                              *)
LEMMA AllIsLoaded ==
    ASSUME NEW path \in Paths, ~Commands!WasDamaged(path)
    PROVE  Commands!LoadDataFromPath(path) = Commands!Loaded(Commands!Documents(path))
  <1> DEFINE load(f) == CASE f.is = "zip" -> Commands!ReadZipFile(f)
                          [] f.is = "json" -> IF f.bad THEN Commands!Damaged ELSE Commands!Loaded(<<f.doc>>)
                          [] f.is = "other" -> Commands!Loaded(<<>>)
  <1>1. ASSUME NEW f \in Commands!ToSet(path) PROVE load(f).docs = Commands!DocumentsOf(f)
    <2>1. f.is \in {"json", "zip", "other"}
      BY PathsAssumption
    <2>2. CASE f.is = "zip"
      BY <2>2 DEF Commands!ReadZipFile, Commands!WasDamaged, Commands!Loaded, Commands!DocumentsOf
    <2>3. CASE f.is # "zip"
      BY <2>1, <2>3 DEF Commands!WasDamaged, Commands!Loaded, Commands!DocumentsOf
    <2>4. QED
      BY <2>2, <2>3
  <1> DEFINE P(g) == g = [s \in SUBSET DOMAIN path |->
                            IF s = {} THEN <<>>
                            ELSE g[s \ {Commands!Max(s)}] \o load(path[Commands!Max(s)]).docs]
             Q(g) == g = [s \in SUBSET DOMAIN path |->
                            IF s = {} THEN <<>>
                            ELSE g[s \ {Commands!Max(s)}] \o Commands!DocumentsOf(path[Commands!Max(s)])]
  <1>3. (CHOOSE g : P(g))[DOMAIN path]
        = Commands!FoldLeft(LAMBDA docs, f : docs \o load(f).docs, <<>>, path)
    BY DEF Commands!FoldLeft, Commands!MapThenFoldSet
  <1>4. (CHOOSE g : Q(g))[DOMAIN path] = Commands!Documents(path)
    BY DEF Commands!Documents, Commands!FoldLeft, Commands!MapThenFoldSet
  <1> HIDE DEF load
  <1>5. \A g : P(g) <=> Q(g)
    <2> SUFFICES ASSUME NEW g
                 PROVE  [s \in SUBSET DOMAIN path |->
                           IF s = {} THEN <<>>
                           ELSE g[s \ {Commands!Max(s)}] \o load(path[Commands!Max(s)]).docs]
                        = [s \in SUBSET DOMAIN path |->
                           IF s = {} THEN <<>>
                           ELSE g[s \ {Commands!Max(s)}] \o Commands!DocumentsOf(path[Commands!Max(s)])]
      OBVIOUS
    <2>1. ASSUME NEW s \in SUBSET DOMAIN path, s # {}
          PROVE  load(path[Commands!Max(s)]).docs = Commands!DocumentsOf(path[Commands!Max(s)])
      BY <1>1, <2>1, LastFile
    <2>2. QED
      BY <2>1
  <1> HIDE DEF P, Q
  <1>6. (CHOOSE g : P(g)) = (CHOOSE g : Q(g))
    BY <1>5
  <1>7. Commands!FoldLeft(LAMBDA docs, f : docs \o load(f).docs, <<>>, path)
        = Commands!Documents(path)
    BY <1>3, <1>4, <1>6
  <1>8. Commands!LoadDataFromPath(path) # Commands!Damaged
    BY DamageIsSeen
  <1>9. Commands!LoadDataFromPath(path) = Commands!Damaged
         \/ Commands!LoadDataFromPath(path)
            = Commands!Loaded(Commands!FoldLeft(LAMBDA docs, f : docs \o load(f).docs, <<>>, path))
    BY DEF Commands!LoadDataFromPath, load
  <1>10. QED
    BY <1>7, <1>8, <1>9

(* The path of a command that reads one file has one document.              *)
LEMMA OneFile ==
    ASSUME NEW path \in Paths, Len(path) = 1, path[1].is = "json"
    PROVE  Commands!Documents(path) = <<path[1].doc>>
  <1> DEFINE Q(g) == g = [s \in SUBSET DOMAIN path |->
                            IF s = {} THEN <<>>
                            ELSE g[s \ {Commands!Max(s)}] \o Commands!DocumentsOf(path[Commands!Max(s)])]
             one == [s \in SUBSET {1} |-> IF s = {} THEN <<>> ELSE <<path[1].doc>>]
  <1>1. (CHOOSE g : Q(g))[DOMAIN path] = Commands!Documents(path)
    BY DEF Commands!Documents, Commands!FoldLeft, Commands!MapThenFoldSet
  <1>2. Commands!DocumentsOf(path[1]) = <<path[1].doc>>
    BY DEF Commands!DocumentsOf
  <1>3. DOMAIN path = {1}
    <2>1. path \in Seq(Commands!ToSet(path))
      BY PathsAssumption
    <2>2. QED
      BY <2>1
  <1>4. ASSUME NEW s \in SUBSET {1}, s # {} PROVE s = {1} /\ Commands!Max(s) = 1
    <2>1. s = {1}
      BY <1>4
    <2>2. 1 \in {1} /\ \A y \in {1} : 1 >= y
      OBVIOUS
    <2>3. Commands!Max({1}) \in {1}
      BY <2>2 DEF Commands!Max
    <2>4. QED
      BY <2>1, <2>3
  <1>5. <<>> \o <<path[1].doc>> = <<path[1].doc>>
    OBVIOUS
  <1>6. ASSUME NEW s \in SUBSET {1}, NEW g, s # {}, g[{}] = <<>>
        PROVE  g[s \ {Commands!Max(s)}] \o Commands!DocumentsOf(path[Commands!Max(s)]) = <<path[1].doc>>
    <2>1. s \ {Commands!Max(s)} = {}
      BY <1>4, <1>6
    <2>2. QED
      BY <1>2, <1>4, <1>5, <1>6, <2>1
  <1>7. Q(one)
    <2>1. one[{}] = <<>>
      OBVIOUS
    <2>2. \A s \in SUBSET {1} : s # {} =>
             one[s \ {Commands!Max(s)}] \o Commands!DocumentsOf(path[Commands!Max(s)]) = <<path[1].doc>>
      BY <1>6, <2>1
    <2>3. QED
      BY <1>3, <2>2
  <1>8. \A g : Q(g) => g[{}] = <<>> /\ g[{1}] = <<path[1].doc>>
    <2> SUFFICES ASSUME NEW g, Q(g) PROVE g[{}] = <<>> /\ g[{1}] = <<path[1].doc>>
      OBVIOUS
    <2>1. g[{}] = <<>>
      BY <1>3
    <2>2. g[{1}] = g[{1} \ {Commands!Max({1})}] \o Commands!DocumentsOf(path[Commands!Max({1})])
      BY <1>3
    <2>3. QED
      BY <1>6, <2>1, <2>2
  <1> HIDE DEF Q
  <1>9. Q(CHOOSE g : Q(g))
    BY <1>7
  <1>10. QED
    BY <1>1, <1>3, <1>8, <1>9

(* The states of an ingest command, and what has been stored for it.  Before*)
(* the call for the next document, left is what is missing; once the server *)
(* has stored it, the first of left is stored as well.                      *)
AllDocuments ==
    UNION {Commands!ToSet(Commands!DocumentsOf(f)) : f \in UNION {Commands!ToSet(path) : path \in Paths}}
Ended == [at : {"ready"}, outcome : {"success", "error"}, path : Paths, told : Nat]
Ingesting == [at : {"call", "wait"},
              command : {"IngestVulnerability", "IngestSBOM", "IngestScorecard", "IngestData"},
              path : Paths, left : Seq(AllDocuments), told : Nat]

NextIsStored(c, done) ==
    Commands!Documents(c.path) = done \o Tail(c.left) /\ Len(done) = c.told + 1
NextIsLeft(c, done) ==
    Commands!Documents(c.path) = done \o c.left /\ Len(done) = c.told

(* A command that has ended.  It may not know of its last document.         *)
IngestEnded(c, done) ==
    /\ \E rest \in Seq(AllDocuments) : Commands!Documents(c.path) = done \o rest
    /\ Len(done) \in c.told..(c.told + 1)
    /\ c.outcome = "success" => done = Commands!Documents(c.path)
    /\ Commands!WasDamaged(c.path) => done = <<>>
(* A command that goes on has documents left.  Of the one that is on its way*)
(* the request tells whether it is stored; only of a failed call that is    *)
(* open.                                                                    *)
IngestGoesOn(c, r, done) ==
    /\ c.left # <<>> /\ ~Commands!WasDamaged(c.path)
    /\ c.at = "call" => NextIsLeft(c, done)
    /\ r.at = "running" => NextIsLeft(c, done) /\ r.doc = Head(c.left)
    /\ r.at = "stored" => NextIsStored(c, done)
    /\ r.at = "answered" => /\ NextIsLeft(c, done) \/ NextIsStored(c, done)
                            /\ r.reply # "error" => NextIsStored(c, done)
IngestIsTold(c, r, done) ==
    /\ "at" \in DOMAIN c
    /\ c.at = "wait" => r.at \in {"running", "stored", "answered"}
    /\ c.at # "wait" => r = Commands!NoRequest
    /\ "path" \in DOMAIN c =>
          /\ c \in Ended \cup Ingesting /\ done \in Seq(AllDocuments)
          /\ c.at = "ready" => IngestEnded(c, done)
          /\ c.at # "ready" => IngestGoesOn(c, r, done)

(* Of the other commands no more is needed than that a reply is awaited by  *)
(* who has a request.                                                       *)
CommandInvariant ==
    /\ DOMAIN shell = Shells /\ DOMAIN request = Shells /\ DOMAIN stored = Shells
    /\ \A s \in Shells : IngestIsTold(shell[s], request[s], stored[s])

(* The documents of a path are documents, and no question: those of a file  *)
(* are, and the fold over the files goes on from a sequence to a sequence.  *)
LEMMA PathTypes ==
    ASSUME NEW path \in Paths
    PROVE  /\ Commands!Documents(path) \in Seq(AllDocuments)
           /\ Commands!Question \notin Commands!ToSet(Commands!Documents(path))
  <1> DEFINE n == Len(path)
             All == SUBSET (1..n)
             Lists == Seq(AllDocuments)
             IsFold(g) == g = [S \in All |-> IF S = {} THEN <<>>
                                  ELSE g[S \ {Greatest(S)}] \o Commands!DocumentsOf(path[Greatest(S)])]
             fold == CHOOSE g : IsFold(g)
             step == [p \in (1..n) \X Lists |-> p[2] \o Commands!DocumentsOf(path[p[1]])]
             P == {k \in 0..n : fold[1..k] \in Lists}
  <1>1. n \in Nat /\ DOMAIN path = 1..n /\ \A k \in 1..n : path[k] \in Commands!ToSet(path)
    <2> DEFINE X == Commands!ToSet(path)
    <2>1. path \in Seq(X)
      BY PathsAssumption
    <2> HIDE DEF X
    <2>2. n \in Nat /\ DOMAIN path = 1..n /\ \A k \in 1..n : path[k] \in X
      BY <2>1
    <2>3. QED
      BY <2>2 DEF X
  <1>2. ASSUME NEW k \in 1..n PROVE Commands!DocumentsOf(path[k]) \in Lists
    <2> DEFINE docs == Commands!DocumentsOf(path[k])
    <2>1. docs \in Seq(Commands!ToSet(docs))
      BY <1>1, PathsAssumption
    <2>2. Commands!ToSet(docs) \subseteq AllDocuments
      BY <1>1 DEF AllDocuments
    <2> HIDE DEF docs
    <2>3. docs \in Lists
      BY <2>1, <2>2
    <2>4. QED
      BY <2>3 DEF docs
  <1>3. Commands!Documents(path) = fold[1..n]
    BY <1>1 DEF Commands!Documents, Commands!FoldLeft, Commands!MapThenFoldSet, Commands!Max, Greatest
  <1> HIDE DEF n
  <1>4. IsFold(fold)
    <2>1. <<>> \in Lists
      OBVIOUS
    <2>2. step \in [(1..n) \X Lists -> Lists]
      <3>1. ASSUME NEW p \in (1..n) \X Lists PROVE p[2] \o Commands!DocumentsOf(path[p[1]]) \in Lists
        <4>1. p[1] \in 1..n /\ p[2] \in Lists
          BY <3>1
        <4>2. Commands!DocumentsOf(path[p[1]]) \in Lists
          BY <1>2, <4>1
        <4>3. QED
          BY <4>1, <4>2, ConcatProperties
      <3> HIDE DEF Lists
      <3>2. QED
        BY <3>1
    <2> HIDE DEF step, Lists
    <2>3. PICK g : FoldsLeft(g, n, Lists, <<>>, step)
      BY <1>1, <2>1, <2>2, LeftFold
    <2>4. ASSUME NEW S \in All, S # {}
          PROVE  g[S] = g[S \ {Greatest(S)}] \o Commands!DocumentsOf(path[Greatest(S)])
      <3> DEFINE k == Greatest(S)
                 v == g[S \ {k}]
      <3>1. k \in 1..n /\ v \in Lists /\ g[S] = step[<<k, v>>]
        BY <2>3, <2>4 DEF FoldsLeft
      <3> HIDE DEF k, v
      <3>2. step[<<k, v>>] = v \o Commands!DocumentsOf(path[k])
        BY <3>1 DEF step
      <3>3. QED
        BY <3>1, <3>2 DEF k, v
    <2>5. g \in [All -> Lists] /\ g[{}] = <<>>
      BY <2>3 DEF FoldsLeft
    <2> HIDE DEF All
    <2>6. IsFold(g)
      BY <2>4, <2>5
    <2> HIDE DEF IsFold
    <2>7. QED
      BY <2>6
  <1> HIDE DEF fold
  <1>5. 0 \in P
    <2>1. 1..0 = {} /\ {} \in All /\ 0 \in 0..n
      BY <1>1
    <2>2. fold[{}] = <<>>
      BY <1>4, <2>1
    <2>3. <<>> \in Lists
      OBVIOUS
    <2>4. QED
      BY <2>1, <2>2, <2>3
  <1>6. ASSUME NEW k \in 0..(n - 1), k \in P PROVE k + 1 \in P
    <2> DEFINE S == 1..(k + 1)
    <2>1. k + 1 \in 1..n /\ k + 1 \in 0..n /\ (k + 1) - 1 = k
      BY <1>1
    <2>2. S \in All /\ S # {} /\ Greatest(S) = k + 1 /\ S \ {k + 1} = 1..k
      BY <1>1, <2>1, LastPlace
    <2>3. fold[1..k] \in Lists
      BY <1>6
    <2>4. Commands!DocumentsOf(path[k + 1]) \in Lists
      BY <1>2, <2>1
    <2> HIDE DEF All, S
    <2>5. fold[S] = fold[1..k] \o Commands!DocumentsOf(path[k + 1])
      BY <1>4, <2>2
    <2>6. fold[S] \in Lists
      BY <2>3, <2>4, <2>5, ConcatProperties
    <2>7. QED
      BY <2>1, <2>6 DEF S
  <1>7. Commands!Documents(path) \in Lists
    <2> HIDE DEF P
    <2>1. \A k \in 0..n : k \in P
      BY <1>1, <1>5, <1>6, Upwards
    <2>2. n \in P
      BY <1>1, <2>1
    <2>3. QED
      BY <1>3, <2>2 DEF P
  <1>8. Commands!Question \notin AllDocuments
    BY PathsAssumption DEF AllDocuments
  <1>9. Commands!ToSet(Commands!Documents(path)) \subseteq AllDocuments
    <2> DEFINE docs == Commands!Documents(path)
    <2>1. docs \in Seq(AllDocuments)
      BY <1>7
    <2> HIDE DEF docs
    <2>2. Commands!ToSet(docs) \subseteq AllDocuments
      BY <2>1 DEF Commands!ToSet
    <2>3. QED
      BY <2>2 DEF docs
  <1>10. QED
    BY <1>7, <1>8, <1>9

(* To append the first of what is left to what is done.                     *)
LEMMA OneStored ==
    ASSUME NEW done \in Seq(AllDocuments), NEW left \in Seq(AllDocuments), left # <<>>
    PROVE  /\ Append(done, Head(left)) \in Seq(AllDocuments)
           /\ Append(done, Head(left)) \o Tail(left) = done \o left
           /\ Len(Append(done, Head(left))) = Len(done) + 1
           /\ Tail(left) \in Seq(AllDocuments)
           /\ Head(left) \in Commands!ToSet(done \o left)
           /\ Len(left) = 1 => done \o Tail(left) = done
           /\ Len(left) # 1 => Tail(left) # <<>>
  <1>1. /\ Head(left) \in AllDocuments /\ Tail(left) \in Seq(AllDocuments)
        /\ Len(Tail(left)) = Len(left) - 1 /\ Len(left) \in Nat \ {0} /\ Len(done) \in Nat
        /\ \A k \in 1..Len(Tail(left)) : Tail(left)[k] = left[k + 1]
    BY HeadTailProperties, EmptySeq, LenProperties
  <1>2. Append(done, Head(left)) \in Seq(AllDocuments) /\ Len(Append(done, Head(left))) = Len(done) + 1
    BY <1>1
  <1>3. Append(done, Head(left)) \o Tail(left) = done \o left
    <2> DEFINE more == Append(done, Head(left))
    <2>1. /\ more \o Tail(left) \in Seq(AllDocuments) /\ done \o left \in Seq(AllDocuments)
          /\ Len(more \o Tail(left)) = Len(done \o left)
          /\ Len(done \o left) = Len(done) + Len(left)
      BY <1>1, <1>2
    <2>2. ASSUME NEW k \in 1..Len(done \o left)
          PROVE  (more \o Tail(left))[k] = (done \o left)[k]
      <3>1. CASE k <= Len(done)
        BY <1>1, <1>2, <2>1, <3>1
      <3>2. CASE k = Len(done) + 1
        BY <1>1, <1>2, <2>1, <3>2
      <3>3. CASE k > Len(done) + 1
        <4>1. k - (Len(done) + 1) \in 1..Len(Tail(left))
          BY <1>1, <2>1, <3>3
        <4>2. (more \o Tail(left))[k] = Tail(left)[k - (Len(done) + 1)]
          BY <1>1, <1>2, <2>1, <3>3
        <4>3. (done \o left)[k] = left[k - Len(done)]
          BY <1>1, <2>1, <3>3
        <4>4. QED
          BY <1>1, <4>1, <4>2, <4>3
      <3>4. QED
        BY <1>1, <2>1, <3>1, <3>2, <3>3
    <2> HIDE DEF more
    <2>3. more \o Tail(left) = done \o left
      BY <2>1, <2>2, SeqEqual
    <2>4. QED
      BY <2>3 DEF more
  <1>4. Head(left) \in Commands!ToSet(done \o left)
    <2>1. /\ Len(done) + 1 \in DOMAIN (done \o left)
          /\ (done \o left)[Len(done) + 1] = Head(left)
      BY <1>1
    <2>2. QED
      BY <2>1 DEF Commands!ToSet
  <1>5. Len(left) # 1 => Tail(left) # <<>>
    BY <1>1
  <1>6. Len(left) = 1 => done \o Tail(left) = done
    <2>1. ASSUME NEW q \in Seq(AllDocuments), Len(q) = 0 PROVE q = <<>>
      BY <2>1, EmptySeq
    <2> DEFINE rest == Tail(left)
    <2>2. Len(left) = 1 => rest \in Seq(AllDocuments) /\ Len(rest) = 0
      BY <1>1
    <2>3. done \o <<>> = done
      BY ConcatEmptySeq
    <2> HIDE DEF rest
    <2>4. Len(left) = 1 => done \o rest = done
      BY <2>1, <2>2, <2>3
    <2>5. QED
      BY <2>4 DEF rest
  <1>7. QED
    BY <1>1, <1>2, <1>3, <1>4, <1>5, <1>6

(* The invariant of a command implies what the property says of it.         *)
LEMMA EndIsTrue ==
    ASSUME NEW c \in Ended \cup Ingesting, NEW r, NEW done \in Seq(AllDocuments),
           "path" \in DOMAIN c, IngestIsTold(c, r, done)
    PROVE  LET docs == Commands!Documents(c.path)
           IN  /\ c.at = "ready" /\ c.outcome = "success" => done = docs
               /\ Commands!IsPrefix(done, docs)
               /\ Len(done) \in c.told..(c.told + 1)
               /\ Commands!WasDamaged(c.path) => done = <<>>
  <1>1. \A rest \in Seq(AllDocuments) : Commands!IsPrefix(done, done \o rest)
    BY DEF Commands!IsPrefix
  <1>2. CASE c.at = "ready"
    BY <1>1, <1>2 DEF IngestIsTold, IngestEnded
  <1>3. CASE c.at # "ready"
    <2>1. c \in Ingesting /\ c.left \in Seq(AllDocuments) /\ c.told \in Nat /\ c.left # <<>>
      BY <1>3 DEF Ended, Ingesting, IngestIsTold, IngestGoesOn
    <2>2. NextIsLeft(c, done) \/ NextIsStored(c, done)
      BY <1>3, <2>1 DEF IngestIsTold, IngestGoesOn, Ingesting
    <2>3. Tail(c.left) \in Seq(AllDocuments)
      BY <2>1, OneStored
    <2>4. ~Commands!WasDamaged(c.path)
      BY <1>3 DEF IngestIsTold, IngestGoesOn
    <2>5. Len(done) \in Nat
      BY LenProperties
    <2>6. \E rest \in Seq(AllDocuments) : Commands!Documents(c.path) = done \o rest
      BY <2>1, <2>2, <2>3 DEF NextIsLeft, NextIsStored
    <2>7. Len(done) \in c.told..(c.told + 1)
      BY <2>1, <2>2, <2>5 DEF NextIsLeft, NextIsStored
    <2>8. QED
      BY <1>1, <1>3, <2>4, <2>6, <2>7
  <1>4. QED
    BY <1>2, <1>3

(* A step of one shell keeps the invariant of the others.                   *)
LEMMA OthersStay ==
    ASSUME CommandInvariant, NEW s \in Shells,
           DOMAIN shell' = Shells, DOMAIN request' = Shells, DOMAIN stored' = Shells,
           \A t \in Shells \ {s} : /\ shell'[t] = shell[t] /\ request'[t] = request[t]
                                   /\ stored'[t] = stored[t],
           IngestIsTold(shell'[s], request'[s], stored'[s])
    PROVE  CommandInvariant'
  <1>1. ASSUME NEW t \in Shells PROVE IngestIsTold(shell'[t], request'[t], stored'[t])
    BY DEF CommandInvariant
  <1>2. (\A t \in Shells : IngestIsTold(shell[t], request[t], stored[t]))'
    <2> SUFFICES ASSUME NEW t \in Shells PROVE IngestIsTold(shell[t], request[t], stored[t])'
      OBVIOUS
    <2> QED BY <1>1 DEF IngestIsTold, IngestEnded, IngestGoesOn, NextIsLeft,
         NextIsStored, Ended, Ingesting, AllDocuments
  <1>3. QED
    BY <1>2 DEF CommandInvariant

(* A command that ends.                                                     *)
LEMMA EndIsTold ==
    ASSUME NEW path \in Paths, NEW outcome \in {"success", "error"}, NEW told \in Nat,
           NEW done \in Seq(AllDocuments), NEW rest \in Seq(AllDocuments),
           Commands!Documents(path) = done \o rest, Len(done) \in told..(told + 1),
           outcome = "success" => done = Commands!Documents(path),
           Commands!WasDamaged(path) => done = <<>>
    PROVE  IngestIsTold([at |-> "ready", outcome |-> outcome, path |-> path, told |-> told],
                        Commands!NoRequest, done)
  <1> DEFINE c == [at |-> "ready", outcome |-> outcome, path |-> path, told |-> told]
  <1>1. /\ c \in Ended /\ c.at = "ready" /\ c.path = path /\ c.outcome = outcome /\ c.told = told
        /\ "at" \in DOMAIN c
    BY DEF Ended
  <1> HIDE DEF c
  <1>2. IngestEnded(c, done)
    BY <1>1 DEF IngestEnded
  <1>3. IngestIsTold(c, Commands!NoRequest, done)
    BY <1>1, <1>2 DEF IngestIsTold
  <1>4. QED
    BY <1>3 DEF c

(* A command before its first call.                                         *)
LEMMA CallIsTold ==
    ASSUME NEW path \in Paths, ~Commands!WasDamaged(path), Commands!Documents(path) # <<>>,
           NEW service \in {"IngestVulnerability", "IngestSBOM", "IngestScorecard", "IngestData"}
    PROVE  IngestIsTold([at |-> "call", command |-> service, path |-> path,
                         left |-> Commands!Documents(path), told |-> 0], Commands!NoRequest, <<>>)
  <1> DEFINE c == [at |-> "call", command |-> service, path |-> path,
                   left |-> Commands!Documents(path), told |-> 0]
             done == <<>>
  <1>1. /\ Commands!Documents(path) \in Seq(AllDocuments) /\ done \in Seq(AllDocuments)
        /\ done \o Commands!Documents(path) = Commands!Documents(path) /\ Len(done) = 0
    BY PathTypes, ConcatEmptySeq, EmptySeq
  <1>2. /\ c \in Ingesting /\ c.at = "call" /\ c.path = path /\ c.left = Commands!Documents(path)
        /\ c.told = 0 /\ "at" \in DOMAIN c
    BY <1>1 DEF Ingesting
  <1>3. Commands!NoRequest.at = "none"
    BY DEF Commands!NoRequest
  <1> HIDE DEF c, done
  <1>4. IngestGoesOn(c, Commands!NoRequest, done)
    BY <1>1, <1>2, <1>3 DEF IngestGoesOn, NextIsLeft
  <1>5. IngestIsTold(c, Commands!NoRequest, done)
    BY <1>1, <1>2, <1>4 DEF IngestIsTold
  <1>6. QED
    BY <1>5 DEF c, done

(* A command of a directory, of one file or of an archive begins            *)
(* (LoadDataFromPath).                                                      *)
LEMMA IngestBegins ==
    ASSUME NEW s, NEW path \in Paths,
           NEW service \in {"IngestVulnerability", "IngestSBOM", "IngestScorecard"},
           Commands!Ingest(s, service, path)
    PROVE  \E c : Commands!Set(s, c) /\ IngestIsTold(c, Commands!NoRequest, <<>>)
  <1> DEFINE load == Commands!LoadDataFromPath(path)
  <1>1. CASE load = Commands!Damaged
    <2> DEFINE c == [at |-> "ready", outcome |-> "error", path |-> path, told |-> 0]
    <2>1. Commands!Set(s, c)
      BY <1>1 DEF Commands!Ingest, Commands!Damaged, Commands!Loaded
    <2>2. /\ Commands!Documents(path) \in Seq(AllDocuments) /\ <<>> \in Seq(AllDocuments)
          /\ Commands!Documents(path) = <<>> \o Commands!Documents(path) /\ Len(<<>>) = 0
      BY PathTypes, EmptySeq, ConcatEmptySeq
    <2> DEFINE done == <<>>
    <2>3. /\ Commands!Documents(path) \in Seq(AllDocuments) /\ done \in Seq(AllDocuments)
          /\ Commands!Documents(path) = done \o Commands!Documents(path) /\ Len(done) \in 0..(0 + 1)
          /\ Commands!WasDamaged(path) => done = <<>>
      BY <2>2
    <2> HIDE DEF done
    <2>4. IngestIsTold(c, Commands!NoRequest, done)
      BY <2>3, EndIsTold
    <2>5. QED
      BY <2>1, <2>4 DEF done
  <1>2. CASE load = Commands!Loaded(<<>>)
    <2> DEFINE c == [at |-> "ready", outcome |-> "success", path |-> path, told |-> 0]
    <2>1. Commands!Set(s, c)
      BY <1>2 DEF Commands!Ingest, Commands!Damaged, Commands!Loaded
    <2>2. Commands!Documents(path) = <<>> /\ ~Commands!WasDamaged(path)
      <3>1. load # Commands!Damaged
        BY <1>2 DEF Commands!Loaded, Commands!Damaged
      <3>2. ~Commands!WasDamaged(path) /\ load = Commands!Loaded(Commands!Documents(path))
        BY <3>1, DamageIsSeen, AllIsLoaded
      <3>3. QED
        BY <1>2, <3>2 DEF Commands!Loaded
    <2> DEFINE done == <<>>
    <2>3. /\ done \in Seq(AllDocuments) /\ done = done \o done /\ Len(done) \in 0..(0 + 1)
          /\ Commands!Documents(path) = done
      BY <2>2, EmptySeq, ConcatEmptySeq
    <2> HIDE DEF done
    <2>4. IngestIsTold(c, Commands!NoRequest, done)
      BY <2>2, <2>3, EndIsTold
    <2>5. QED
      BY <2>1, <2>4 DEF done
  <1>3. CASE load # Commands!Damaged /\ load # Commands!Loaded(<<>>)
    <2> DEFINE c == [at |-> "call", command |-> service, path |-> path,
                     left |-> load.docs, told |-> 0]
    <2>1. Commands!Set(s, c)
      BY <1>3 DEF Commands!Ingest, Commands!Damaged, Commands!Loaded
    <2>2. ~Commands!WasDamaged(path) /\ load = Commands!Loaded(Commands!Documents(path))
      BY <1>3, DamageIsSeen, AllIsLoaded
    <2>3. load.docs = Commands!Documents(path) /\ Commands!Documents(path) # <<>>
      BY <1>3, <2>2 DEF Commands!Loaded
    <2> HIDE DEF load
    <2>4. IngestIsTold(c, Commands!NoRequest, <<>>)
      BY <2>2, <2>3, CallIsTold
    <2>5. QED
      BY <2>1, <2>4
  <1>4. QED
    BY <1>1, <1>2, <1>3

(* A command of one file begins.                                            *)
LEMMA DataBegins ==
    ASSUME NEW s, NEW path \in Paths, Commands!IngestData(s, path)
    PROVE  \E c : Commands!Set(s, c) /\ IngestIsTold(c, Commands!NoRequest, <<>>)
  <1>1. /\ Len(path) = 1 /\ path[1].is = "json" /\ Commands!Documents(path) = <<path[1].doc>>
        /\ Commands!Documents(path) # <<>>
    BY OneFile DEF Commands!IngestData
  <1>2. path \in Seq(Commands!ToSet(path)) /\ DOMAIN path = {1}
    <2>1. path \in Seq(Commands!ToSet(path))
      BY PathsAssumption
    <2>2. QED
      BY <1>1, <2>1
  <1>3. Commands!ToSet(path) = {path[1]}
    BY <1>2 DEF Commands!ToSet
  <1>4. Commands!WasDamaged(path) <=> path[1].bad
    BY <1>1, <1>3 DEF Commands!WasDamaged
  <1>5. CASE path[1].bad
    <2> DEFINE c == [at |-> "ready", outcome |-> "error", path |-> path, told |-> 0]
               done == <<>>
    <2>1. Commands!Set(s, c)
      BY <1>5 DEF Commands!IngestData
    <2>2. /\ Commands!Documents(path) \in Seq(AllDocuments) /\ done \in Seq(AllDocuments)
          /\ Commands!Documents(path) = done \o Commands!Documents(path) /\ Len(done) \in 0..(0 + 1)
          /\ Commands!WasDamaged(path) => done = <<>>
      BY PathTypes, EmptySeq, ConcatEmptySeq
    <2> HIDE DEF done
    <2>3. IngestIsTold(c, Commands!NoRequest, done)
      BY <2>2, EndIsTold
    <2>4. QED
      BY <2>1, <2>3 DEF done
  <1>6. CASE ~path[1].bad
    <2> DEFINE c == [at |-> "call", command |-> "IngestData", path |-> path,
                     left |-> Commands!Documents(path), told |-> 0]
    <2>1. Commands!Set(s, c)
      BY <1>1, <1>6 DEF Commands!IngestData
    <2>2. IngestIsTold(c, Commands!NoRequest, <<>>)
      BY <1>1, <1>4, <1>6, CallIsTold
    <2>3. QED
      BY <2>1, <2>2
  <1>7. QED
    BY <1>5, <1>6

(* The states of the other commands when no request is under way.           *)
Plain(c) == "at" \in DOMAIN c /\ c.at \in {"ready", "prompt", "call"} /\ "path" \notin DOMAIN c

(* The other commands begin.                                                *)
LEMMA QuestionsBegin ==
    ASSUME NEW s, NEW empty, NEW format,
           \/ Commands!QueryCustom(s, empty, format) \/ Commands!GlobSearch(s, empty, format)
           \/ Commands!GetMetadata(s, empty, format)
           \/ Commands!LeaderboardCustom(s, format) \/ Commands!LeaderboardKeys(s, format)
           \/ Commands!Report(s, format) \/ Commands!Cache(s, empty) \/ Commands!Chat(s, empty)
    PROVE  \E c : Commands!Set(s, c) /\ Plain(c)
  <1>1. \A o : Plain(Commands!Ready(o))
    BY DEF Plain, Commands!Ready
  <1>2. ASSUME NEW command, NEW f, Commands!Ask(s, command, f)
        PROVE  \E c : Commands!Set(s, c) /\ Plain(c)
    <2> DEFINE c == [at |-> "call", command |-> command, format |-> f, left |-> <<Commands!Question>>]
    <2>1. Commands!Set(s, c)
      BY <1>2 DEF Commands!Ask
    <2>2. Plain(c)
      BY DEF Plain
    <2>3. QED
      BY <2>1, <2>2
  <1>3. CASE Commands!Chat(s, empty)
    <2> DEFINE c == [at |-> "prompt", shown |-> "nothing"]
    <2>1. Commands!Set(s, c) \/ Commands!Set(s, Commands!Ready("error"))
      BY <1>3 DEF Commands!Chat
    <2>2. Plain(c)
      BY DEF Plain
    <2>3. QED
      BY <1>1, <2>1, <2>2
  <1>4. (\E command, f : Commands!Ask(s, command, f)) \/ Commands!Set(s, Commands!Ready("error"))
        \/ Commands!Chat(s, empty)
    BY DEF Commands!QueryCustom, Commands!GlobSearch, Commands!GetMetadata, Commands!LeaderboardCustom,
       Commands!LeaderboardKeys, Commands!Report, Commands!Cache
  <1>5. QED
    BY <1>1, <1>2, <1>3, <1>4

(* Begin keeps the invariant.                                               *)
LEMMA BeginIsTold ==
    ASSUME CommandInvariant, NEW s \in Shells, Commands!Begin(s)
    PROVE  CommandInvariant'
  <1>1. PICK c : Commands!Set(s, c) /\ IngestIsTold(c, Commands!NoRequest, <<>>)
    <2>1. ASSUME NEW c, Plain(c) PROVE IngestIsTold(c, Commands!NoRequest, <<>>)
      BY <2>1 DEF Plain, IngestIsTold
    <2>2. CASE \E path \in Paths : Commands!IngestOSV(s, path) \/ Commands!IngestSBOM(s, path)
                                   \/ Commands!IngestScorecard(s, path)
      BY <2>2, IngestBegins DEF Commands!IngestOSV, Commands!IngestSBOM, Commands!IngestScorecard
    <2>3. CASE \E path \in Paths : Commands!IngestData(s, path)
      BY <2>3, DataBegins
    <2>4. CASE \E empty, format :
                  \/ Commands!QueryCustom(s, empty, format) \/ Commands!GlobSearch(s, empty, format)
                  \/ Commands!GetMetadata(s, empty, format)
                  \/ Commands!LeaderboardCustom(s, format) \/ Commands!LeaderboardKeys(s, format)
                  \/ Commands!Report(s, format) \/ Commands!Cache(s, empty) \/ Commands!Chat(s, empty)
      BY <2>1, <2>4, QuestionsBegin
    <2>5. QED
      BY <2>2, <2>3, <2>4 DEF Commands!Begin
  <1>2. /\ shell' = [shell EXCEPT ![s] = c] /\ stored' = [stored EXCEPT ![s] = <<>>]
        /\ request' = request /\ shell[s].at = "ready"
    BY <1>1 DEF Commands!Begin, Commands!Set
  <1>3. request[s] = Commands!NoRequest
    BY <1>2 DEF CommandInvariant, IngestIsTold
  <1>4. IngestIsTold(shell'[s], request'[s], stored'[s])
    BY <1>1, <1>2, <1>3 DEF CommandInvariant
  <1>5. QED
    BY <1>2, <1>4, OthersStay DEF CommandInvariant

(* Turn keeps the invariant.                                                *)
LEMMA TurnIsTold ==
    ASSUME CommandInvariant, NEW s \in Shells, Commands!Turn(s)
    PROVE  CommandInvariant'
  <1>1. PICK c : Commands!Set(s, c) /\ Plain(c)
    <2>1. \A o : Plain(Commands!Ready(o))
      BY DEF Plain, Commands!Ready
    <2>2. ASSUME NEW text PROVE Plain([at |-> "prompt", shown |-> text])
      BY DEF Plain
    <2>3. ASSUME NEW format, NEW service
          PROVE  Plain([at |-> "call", command |-> "Chat", format |-> format,
                        left |-> <<Commands!Question>>, service |-> service])
      BY DEF Plain
    <2>4. QED
      BY <2>1, <2>2, <2>3 DEF Commands!Turn
  <1>2. /\ shell' = [shell EXCEPT ![s] = c] /\ UNCHANGED <<request, stored>>
        /\ shell[s].at = "prompt"
    BY <1>1 DEF Commands!Turn, Commands!Set
  <1>3. request[s] = Commands!NoRequest
    BY <1>2 DEF CommandInvariant, IngestIsTold
  <1>4. IngestIsTold(c, Commands!NoRequest, stored[s])
    BY <1>1 DEF Plain, IngestIsTold
  <1>5. QED
    BY <1>2, <1>3, <1>4, OthersStay DEF CommandInvariant

(* Call keeps the invariant, whether the server listens or not.             *)
LEMMA CallGoesOut ==
    ASSUME CommandInvariant, NEW s \in Shells, Commands!Call(s)
    PROVE  CommandInvariant'
  <1> DEFINE c == shell[s]
             w == [c EXCEPT !.at = "wait"]
  <1>1. /\ c.at = "call" /\ shell' = [shell EXCEPT ![s] = w] /\ UNCHANGED stored
        /\ \/ request' = [request EXCEPT ![s] = [at |-> "running", doc |-> Head(c.left)]]
           \/ request' = [request EXCEPT ![s] = [at |-> "answered", reply |-> "error"]]
    BY DEF Commands!Call, Commands!Set
  <1>2. IngestIsTold(c, request[s], stored[s])
    BY DEF CommandInvariant
  <1>3. "at" \in DOMAIN w /\ w.at = "wait" /\ DOMAIN w = DOMAIN c
    BY <1>2 DEF IngestIsTold
  <1>4. ASSUME "path" \in DOMAIN c
        PROVE  /\ w \in Ingesting /\ w.left = c.left /\ w.path = c.path /\ w.told = c.told
               /\ stored[s] \in Seq(AllDocuments)
               /\ c.left # <<>> /\ ~Commands!WasDamaged(c.path) /\ NextIsLeft(c, stored[s])
    <2>1. c \in Ingesting
      BY <1>1, <1>2, <1>4 DEF IngestIsTold, Ended
    <2>2. QED
      BY <1>1, <1>2, <1>4, <2>1 DEF IngestIsTold, IngestGoesOn, Ingesting
  <1> HIDE DEF w
  <1>5. ASSUME NEW r, \/ r = [at |-> "running", doc |-> Head(c.left)]
                      \/ r = [at |-> "answered", reply |-> "error"]
        PROVE  IngestIsTold(w, r, stored[s])
    <2>1. r.at \in {"running", "stored", "answered"}
      BY <1>5
    <2>2. ASSUME "path" \in DOMAIN c PROVE IngestGoesOn(w, r, stored[s])
      <3>1. NextIsLeft(w, stored[s]) /\ w.left # <<>> /\ ~Commands!WasDamaged(w.path) /\ w.left = c.left
        BY <1>4, <2>2 DEF NextIsLeft
      <3>2. \/ r.at = "running" /\ r.doc = Head(w.left)
            \/ r.at = "answered" /\ r.reply = "error"
        BY <1>5, <3>1
      <3>3. QED
        BY <1>3, <3>1, <3>2 DEF IngestGoesOn
    <2>3. QED
      BY <1>3, <1>4, <2>1, <2>2 DEF IngestIsTold
  <1>6. shell'[s] = w /\ stored'[s] = stored[s] /\
        (request'[s] = [at |-> "running", doc |-> Head(c.left)]
         \/ request'[s] = [at |-> "answered", reply |-> "error"])
    BY <1>1 DEF CommandInvariant
  <1>7. IngestIsTold(shell'[s], request'[s], stored'[s])
    BY <1>5, <1>6
  <1>8. QED
    BY <1>1, <1>7, OthersStay DEF CommandInvariant

(* A reply to a command: an error ends it, the last document ends it with   *)
(* success, or the next call is due.                                        *)
LEMMA ReplyIsTold ==
    ASSUME NEW c \in Ingesting, NEW r, NEW done \in Seq(AllDocuments), c.at = "wait",
           r.at = "answered",
           IngestGoesOn(c, r, done)
    PROVE  IngestIsTold(Commands!AfterDocument(c, r.reply), Commands!NoRequest, done)
  <1>1. /\ c.left # <<>> /\ ~Commands!WasDamaged(c.path) /\ c.path \in Paths /\ c.told \in Nat
        /\ c.left \in Seq(AllDocuments)
        /\ NextIsLeft(c, done) \/ NextIsStored(c, done)
        /\ r.reply # "error" => NextIsStored(c, done)
    BY DEF IngestGoesOn, Ingesting
  <1>2. /\ Tail(c.left) \in Seq(AllDocuments)
        /\ Len(c.left) # 1 => Tail(c.left) # <<>>
        /\ Len(c.left) = 1 => done \o Tail(c.left) = done
    BY <1>1, OneStored
  <1>3. Len(done) \in Nat
    BY LenProperties
  <1>4. CASE r.reply = "error"
    <2>1. PICK rest \in Seq(AllDocuments) : Commands!Documents(c.path) = done \o rest
      <3>1. CASE NextIsLeft(c, done)
        BY <1>1, <3>1 DEF NextIsLeft
      <3>2. CASE NextIsStored(c, done)
        BY <1>2, <3>2 DEF NextIsStored
      <3>3. QED
        BY <1>1, <3>1, <3>2
    <2>2. Len(done) \in c.told..(c.told + 1)
      BY <1>1, <1>3 DEF NextIsLeft, NextIsStored
    <2> DEFINE outcome == "error"
    <2>3. Commands!AfterDocument(c, r.reply)
          = [at |-> "ready", outcome |-> outcome, path |-> c.path, told |-> c.told]
      BY <1>4 DEF Commands!AfterDocument
    <2>4. outcome \in {"success", "error"} /\ outcome # "success"
      OBVIOUS
    <2> HIDE DEF outcome
    <2>5. IngestIsTold([at |-> "ready", outcome |-> outcome, path |-> c.path, told |-> c.told],
                       Commands!NoRequest, done)
      BY <1>1, <2>1, <2>2, <2>4, EndIsTold
    <2>6. QED
      BY <2>3, <2>5
  <1>5. CASE r.reply # "error" /\ Len(c.left) = 1
    <2>1. Commands!Documents(c.path) = done /\ Len(done) = c.told + 1
      BY <1>1, <1>2, <1>5 DEF NextIsStored
    <2> DEFINE outcome == "success"
               told == c.told + 1
               none == <<>>
    <2>2. Commands!AfterDocument(c, r.reply)
          = [at |-> "ready", outcome |-> outcome, path |-> c.path, told |-> told]
      BY <1>5 DEF Commands!AfterDocument
    <2>3. /\ outcome \in {"success", "error"} /\ told \in Nat /\ Len(done) \in told..(told + 1)
          /\ none \in Seq(AllDocuments) /\ Commands!Documents(c.path) = done \o none
      BY <1>1, <2>1, EmptySeq, ConcatEmptySeq
    <2> HIDE DEF outcome, told, none
    <2>4. IngestIsTold([at |-> "ready", outcome |-> outcome, path |-> c.path, told |-> told],
                       Commands!NoRequest, done)
      BY <1>1, <2>1, <2>3, EndIsTold
    <2>5. QED
      BY <2>2, <2>4
  <1>6. CASE r.reply # "error" /\ Len(c.left) # 1
    <2> DEFINE more == [c EXCEPT !.at = "call", !.left = Tail(@), !.told = @ + 1]
    <2>1. Commands!AfterDocument(c, r.reply) = more
      BY <1>6 DEF Commands!AfterDocument
    <2>2. /\ more \in Ingesting /\ more.at = "call" /\ more.left = Tail(c.left)
          /\ more.path = c.path /\ more.told = c.told + 1 /\ "at" \in DOMAIN more
      <3> DEFINE left == Tail(c.left)
                 told == c.told + 1
                 same == [c EXCEPT !.at = "call", !.left = left, !.told = told]
      <3>1. left \in Seq(AllDocuments) /\ told \in Nat /\ more = same
        BY <1>1, <1>2
      <3> HIDE DEF more, left, told
      <3>2. /\ same \in Ingesting /\ same.at = "call" /\ same.left = left
            /\ same.path = c.path /\ same.told = told /\ "at" \in DOMAIN same
        BY <3>1 DEF Ingesting
      <3> HIDE DEF same
      <3>3. QED
        BY <3>1, <3>2 DEF left, told
    <2> HIDE DEF more
    <2>3. more.left # <<>> /\ ~Commands!WasDamaged(more.path) /\ NextIsLeft(more, done)
      BY <1>1, <1>2, <1>6, <2>2 DEF NextIsLeft, NextIsStored
    <2>4. Commands!NoRequest.at = "none"
      BY DEF Commands!NoRequest
    <2>5. IngestGoesOn(more, Commands!NoRequest, done)
      BY <2>2, <2>3, <2>4 DEF IngestGoesOn
    <2>6. IngestIsTold(more, Commands!NoRequest, done)
      BY <2>2, <2>5 DEF IngestIsTold
    <2>7. QED
      BY <2>1, <2>6
  <1>7. QED
    BY <1>4, <1>5, <1>6

(* Receive keeps the invariant.                                             *)
LEMMA ReceiveIsTold ==
    ASSUME CommandInvariant, NEW s \in Shells, Commands!Receive(s)
    PROVE  CommandInvariant'
  <1> DEFINE c == shell[s]
             r == request[s]
             next == CASE "path" \in DOMAIN c -> Commands!AfterDocument(c, r.reply)
                       [] c.command = "Chat" ->
                             [at |-> "prompt", shown |-> Commands!ChatShows(r.reply, c.format)]
                       [] OTHER -> Commands!Ready(Commands!Outcome(c.command, r.reply, c.format))
  <1>1. /\ r.at = "answered" /\ shell' = [shell EXCEPT ![s] = next]
        /\ request' = [request EXCEPT ![s] = Commands!NoRequest] /\ UNCHANGED stored
    BY DEF Commands!Receive, Commands!Set
  <1>2. IngestIsTold(c, r, stored[s])
    BY DEF CommandInvariant
  <1>3. c.at = "wait"
    BY <1>1, <1>2 DEF IngestIsTold, Commands!NoRequest
  <1>4. ASSUME "path" \in DOMAIN c PROVE IngestIsTold(next, Commands!NoRequest, stored[s])
    <2>1. /\ c \in Ingesting /\ stored[s] \in Seq(AllDocuments) /\ IngestGoesOn(c, r, stored[s])
      BY <1>2, <1>3, <1>4 DEF IngestIsTold, Ended
    <2>3. c.command # "Chat"
      BY <2>1 DEF Ingesting
    <2>4. next = Commands!AfterDocument(c, r.reply)
      BY <1>4, <2>3
    <2> HIDE DEF next
    <2>5. QED
      BY <1>1, <1>3, <2>1, <2>4, ReplyIsTold
  <1>5. ASSUME "path" \notin DOMAIN c PROVE Plain(next)
    <2>1. ASSUME NEW text PROVE Plain([at |-> "prompt", shown |-> text])
      BY DEF Plain
    <2>2. ASSUME NEW outcome PROVE Plain(Commands!Ready(outcome))
      BY DEF Plain, Commands!Ready
    <2>3. CASE c.command = "Chat"
      BY <1>5, <2>1, <2>3
    <2>4. CASE c.command # "Chat"
      BY <1>5, <2>2, <2>4
    <2>5. QED
      BY <2>3, <2>4
  <1> HIDE DEF next
  <1>6. IngestIsTold(next, Commands!NoRequest, stored[s])
    BY <1>4, <1>5 DEF IngestIsTold, Plain
  <1>7. QED
    BY <1>1, <1>6, OthersStay DEF CommandInvariant

(* Store keeps the invariant: the document is the first of what is left.    *)
LEMMA StoreIsTold ==
    ASSUME CommandInvariant, NEW s \in Shells, Commands!Store(s)
    PROVE  CommandInvariant'
  <1> DEFINE c == shell[s]
             r == request[s]
             done == stored[s]
             more == IF r.doc = Commands!Question THEN done ELSE Append(done, r.doc)
             kept == [at |-> "stored"]
  <1>1. /\ r.at = "running" /\ UNCHANGED shell /\ request' = [request EXCEPT ![s] = kept]
        /\ stored' = IF r.doc = Commands!Question THEN stored
                     ELSE [stored EXCEPT ![s] = Append(@, r.doc)]
    BY DEF Commands!Store
  <1>2. IngestIsTold(c, r, done) /\ DOMAIN stored = Shells /\ DOMAIN request = Shells
    BY DEF CommandInvariant
  <1>3. /\ stored'[s] = more /\ DOMAIN stored' = Shells
        /\ \A t \in Shells \ {s} : stored'[t] = stored[t]
    BY <1>1, <1>2
  <1>4. c.at = "wait"
    BY <1>1, <1>2 DEF IngestIsTold, Commands!NoRequest
  <1>5. kept.at = "stored"
    OBVIOUS
  <1>6. ASSUME "path" \in DOMAIN c PROVE more \in Seq(AllDocuments) /\ NextIsStored(c, more)
    <2>1. /\ c \in Ingesting /\ done \in Seq(AllDocuments) /\ IngestGoesOn(c, r, done)
      BY <1>2, <1>4, <1>6 DEF IngestIsTold, Ended
    <2>2. /\ c.left # <<>> /\ c.left \in Seq(AllDocuments) /\ NextIsLeft(c, done)
          /\ r.doc = Head(c.left) /\ c.path \in Paths /\ c.told \in Nat
      BY <1>1, <2>1 DEF IngestGoesOn, Ingesting
    <2>3. Head(c.left) \in Commands!ToSet(Commands!Documents(c.path))
      BY <2>1, <2>2, OneStored DEF NextIsLeft
    <2>4. more = Append(done, Head(c.left))
      BY <2>2, <2>3, PathTypes
    <2>5. /\ Append(done, Head(c.left)) \in Seq(AllDocuments)
          /\ Append(done, Head(c.left)) \o Tail(c.left) = done \o c.left
          /\ Len(Append(done, Head(c.left))) = Len(done) + 1
      BY <2>1, <2>2, OneStored
    <2> HIDE DEF more, done
    <2>6. QED
      BY <2>2, <2>4, <2>5 DEF NextIsLeft, NextIsStored
  <1> HIDE DEF kept, more
  <1>7. ASSUME "path" \in DOMAIN c PROVE c \in Ingesting /\ IngestGoesOn(c, kept, more)
    <2>1. /\ c \in Ingesting /\ c.left # <<>> /\ ~Commands!WasDamaged(c.path)
      BY <1>2, <1>4, <1>7 DEF IngestIsTold, IngestGoesOn, Ended
    <2>2. NextIsStored(c, more)
      BY <1>6, <1>7
    <2>3. QED
      BY <1>4, <1>5, <2>1, <2>2 DEF IngestGoesOn
  <1>8. IngestIsTold(c, kept, more)
    BY <1>2, <1>4, <1>5, <1>6, <1>7 DEF IngestIsTold
  <1>9. QED
    BY <1>1, <1>2, <1>3, <1>8, OthersStay DEF CommandInvariant

(* An answer to a stored document, and the failure of any call.             *)
LEMMA EndedCallIsTold ==
    ASSUME NEW c, NEW r, NEW done, NEW reply, IngestIsTold(c, r, done),
           r.at = "stored" \/ (r.at = "running" /\ reply = "error")
    PROVE  IngestIsTold(c, [at |-> "answered", reply |-> reply], done)
  <1> DEFINE a == [at |-> "answered", reply |-> reply]
  <1>1. a.at = "answered" /\ a.reply = reply
    OBVIOUS
  <1> HIDE DEF a
  <1>2. c.at = "wait" /\ "at" \in DOMAIN c
    BY DEF IngestIsTold, Commands!NoRequest
  <1>3. ASSUME "path" \in DOMAIN c
        PROVE  c \in Ended \cup Ingesting /\ done \in Seq(AllDocuments) /\ IngestGoesOn(c, a, done)
    <2>1. /\ c \in Ended \cup Ingesting /\ done \in Seq(AllDocuments)
          /\ IngestGoesOn(c, r, done)
      BY <1>2, <1>3 DEF IngestIsTold
    <2>2. CASE r.at = "stored"
      BY <1>1, <1>2, <2>1, <2>2 DEF IngestGoesOn
    <2>3. CASE r.at = "running" /\ reply = "error"
      BY <1>1, <1>2, <2>1, <2>3 DEF IngestGoesOn
    <2>4. QED
      BY <2>1, <2>2, <2>3
  <1>4. IngestIsTold(c, a, done)
    BY <1>1, <1>2, <1>3 DEF IngestIsTold
  <1>5. QED
    BY <1>4 DEF a

(* Answer keeps the invariant.                                              *)
LEMMA AnswerIsTold ==
    ASSUME CommandInvariant, NEW s \in Shells, Commands!Answer(s)
    PROVE  CommandInvariant'
  <1>1. PICK reply : /\ request[s].at = "stored" \/ (request[s].at = "running" /\ reply = "error")
                     /\ request' = [request EXCEPT ![s] = [at |-> "answered", reply |-> reply]]
    <2> DEFINE new(reply) == [request EXCEPT ![s] = [at |-> "answered", reply |-> reply]]
    <2>1. \/ request[s].at = "stored" /\ \E r \in {"answer", "nothing", "error"} : request' = new(r)
          \/ request[s].at = "running" /\ request' = new("error")
      BY DEF Commands!Answer
    <2> HIDE DEF new
    <2>2. CASE request[s].at = "stored" /\ \E r \in {"answer", "nothing", "error"} : request' = new(r)
      BY <2>2 DEF new
    <2>3. CASE request[s].at = "running" /\ request' = new("error")
      BY <2>3 DEF new
    <2>4. QED
      BY <2>1, <2>2, <2>3
  <1>2. UNCHANGED <<shell, stored>>
    BY DEF Commands!Answer
  <1>3. IngestIsTold(shell[s], [at |-> "answered", reply |-> reply], stored[s])
    BY <1>1, EndedCallIsTold DEF CommandInvariant
  <1>4. QED
    BY <1>1, <1>2, <1>3, OthersStay DEF CommandInvariant

(* A step of the server that leaves commands and documents alone keeps the  *)
(* invariant, if the requests allow it.                                     *)
LEMMA AllStay ==
    ASSUME CommandInvariant, shell' = shell, stored' = stored, DOMAIN request' = Shells,
           \A s \in Shells : IngestIsTold(shell[s], request'[s], stored[s])
    PROVE  CommandInvariant'
  <1>1. (\A s \in Shells : IngestIsTold(shell[s], request[s], stored[s]))'
    <2> SUFFICES ASSUME NEW s \in Shells PROVE IngestIsTold(shell[s], request[s], stored[s])'
      OBVIOUS
    <2>1. IngestIsTold(shell'[s], request'[s], stored'[s])
      OBVIOUS
    <2> QED
      BY <2>1 DEF IngestIsTold, IngestEnded, IngestGoesOn, NextIsLeft,
         NextIsStored, Ended, Ingesting, AllDocuments
  <1>2. QED
    BY <1>1 DEF CommandInvariant

(* The end of the process keeps the invariant: its calls fail.              *)
LEMMA ExitIsTold ==
    ASSUME CommandInvariant, Commands!Exit
    PROVE  CommandInvariant'
  <1> DEFINE broken == [at |-> "answered", reply |-> "error"]
  <1>1. /\ UNCHANGED <<shell, stored>>
        /\ request' = [s \in Shells |-> IF s \in Commands!InFlight THEN broken ELSE request[s]]
    BY DEF Commands!Exit
  <1>2. ASSUME NEW s \in Shells PROVE IngestIsTold(shell[s], request'[s], stored[s])
    <2>1. IngestIsTold(shell[s], request[s], stored[s])
      BY DEF CommandInvariant
    <2>2. CASE s \in Commands!InFlight
      <3>1. request[s].at = "stored" \/ request[s].at = "running"
        BY <2>2 DEF Commands!InFlight
      <3>2. IngestIsTold(shell[s], broken, stored[s])
        BY <2>1, <3>1, EndedCallIsTold
      <3> HIDE DEF broken
      <3>3. request'[s] = broken
        BY <1>1, <2>2
      <3>4. QED
        BY <3>2, <3>3
    <2>3. CASE s \notin Commands!InFlight
      <3> HIDE DEF broken
      <3>1. request'[s] = request[s]
        BY <1>1, <2>3
      <3>2. QED
        BY <2>1, <3>1
    <2>4. QED
      BY <2>2, <2>3
  <1> HIDE DEF broken
  <1>3. DOMAIN request' = Shells
    BY <1>1
  <1>4. QED
    BY <1>1, <1>2, <1>3, AllStay

(* The program begins with the invariant.                                   *)
LEMMA CommandsBegin == Commands!Init => CommandInvariant
  <1>1. ASSUME NEW done PROVE IngestIsTold(Commands!Ready("none"), Commands!NoRequest, done)
    BY DEF IngestIsTold, Commands!Ready
  <1>2. QED
    BY <1>1 DEF Commands!Init, CommandInvariant

(* Every step keeps the invariant.                                          *)
LEMMA CommandsGoOn == CommandInvariant /\ [Commands!Next]_(Commands!vars) => CommandInvariant'
  <1> SUFFICES ASSUME CommandInvariant, [Commands!Next]_(Commands!vars) PROVE CommandInvariant'
    OBVIOUS
  <1>1. CASE \/ UNCHANGED Commands!vars
             \/ (\E o \in Commands!Options : Commands!Start(o)) \/ Commands!Listen \/ Commands!Signal
    <2>1. UNCHANGED <<shell, request, stored>>
      BY <1>1 DEF Commands!vars, Commands!Start, Commands!Listen, Commands!Signal
    <2>2. QED
      BY <2>1, AllStay DEF CommandInvariant
  <1>2. CASE Commands!Stop \/ Commands!Crash
    BY <1>2, ExitIsTold DEF Commands!Stop, Commands!Crash
  <1>3. CASE \E s \in Shells : Commands!Store(s) \/ Commands!Answer(s)
    BY <1>3, StoreIsTold, AnswerIsTold
  <1>4. CASE \E s \in Shells : Commands!Begin(s) \/ Commands!Turn(s) \/ Commands!Call(s) \/ Commands!Receive(s)
    BY <1>4, BeginIsTold, TurnIsTold, CallGoesOut, ReceiveIsTold
  <1>5. QED
    BY <1>1, <1>2, <1>3, <1>4 DEF Commands!Next, Commands!Serve

(* The invariant implies the property.                                      *)
LEMMA ToldIsTrue == CommandInvariant => IngestTellsTheTruth
  <1> SUFFICES ASSUME CommandInvariant, NEW s \in Shells, "path" \in DOMAIN shell[s]
               PROVE  LET docs == Commands!Documents(shell[s].path)
                      IN  /\ shell[s].at = "ready" /\ shell[s].outcome = "success" => stored[s] = docs
                          /\ Commands!IsPrefix(stored[s], docs)
                          /\ Len(stored[s]) \in shell[s].told..(shell[s].told + 1)
                          /\ Commands!WasDamaged(shell[s].path) => stored[s] = <<>>
    BY DEF IngestTellsTheTruth, Commands!IngestTellsTheTruth
  <1> DEFINE c == shell[s]
             done == stored[s]
  <1>1. IngestIsTold(c, request[s], done)
    BY DEF CommandInvariant
  <1>2. c \in Ended \cup Ingesting /\ done \in Seq(AllDocuments)
    BY <1>1 DEF IngestIsTold
  <1>3. QED
    BY <1>1, <1>2, EndIsTrue

(* An ingest command of a directory tells the truth about it, however often *)
(* the server stops or crashes meanwhile, and whichever call fails          *)
(* (LoadDataFromPath of cmd/helpers/fileLoader.go, and the loops of         *)
(* cmd/ingest).                                                             *)
THEOREM IngestsTellTheTruth == Commands!Spec => []IngestTellsTheTruth
  BY CommandsBegin, CommandsGoOn, ToldIsTrue, PTL DEF Commands!Spec
=============================================================================
