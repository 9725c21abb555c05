------------------------- MODULE LibraryIndexProof -------------------------
(***************************************************************************)
(* Proofs about LibraryIndex for every number of clients, libraries and    *)
(* records: the index is never older than an answer, and an ingest links   *)
(* its record to every affected library that it had to know.               *)
(***************************************************************************)
EXTENDS LibraryIndex, TLAPS

Holding == {"ReadKeys", "ReadNodes", "Link"}

(* The inductive invariant.  Requests that hold the mutex are alone; while *)
(* the index is read there is none, and what has been read, or is left to  *)
(* be linked, covers what has been answered.                               *)
HolderIsAlone == \A p \in Clients : req[p].at \in Holding => librariesMu = p

AnsweredAreStored ==
    /\ answered \subseteq stored
    /\ \A p \in Clients : req[p].at \in {"Save", "Invalidate"} =>
                            req[p].saved \subseteq stored

DueWereAnswered ==
    \A p \in Clients : req[p].at \in Holding \cup {"Lock"} =>
        req[p].due \subseteq answered

ReadKeysAreNew ==
    \A p \in Clients : req[p].at = "ReadNodes" => answered \subseteq req[p].keys

LinksCoverDue ==
    \A p \in Clients : req[p].at = "Link" =>
        \A l \in Candidates(req[p].record, req[p].due) :
            l \in req[p].todo \/ <<req[p].record, l>> \in linked

IndexInvariant ==
    /\ TypeOK
    /\ HolderIsAlone
    /\ AnsweredAreStored
    /\ DueWereAnswered
    /\ ReadKeysAreNew
    /\ LinksCoverDue
    /\ AnsweredLibrariesAreIndexed

-----------------------------------------------------------------------------
(* A request has the fields that its field "at" tells.                     *)
LEMMA Kinds ==
    ASSUME NEW r \in Request
    PROVE  /\ r.at \in {"Save", "Invalidate"} =>
                r \in [at : {"Save", "Invalidate"}, left : SUBSET Libraries,
                       saved : SUBSET Libraries]
           /\ r.at \in {"Lock", "ReadKeys"} =>
                r \in [at : {"Lock", "ReadKeys"}, record : Records, due : SUBSET Libraries]
           /\ r.at = "ReadNodes" =>
                r \in [at : {"ReadNodes"}, record : Records, due : SUBSET Libraries,
                       keys : SUBSET Libraries]
           /\ r.at = "Link" =>
                r \in [at : {"Link"}, record : Records, due : SUBSET Libraries,
                       todo : SUBSET Libraries]
  BY DEF Request, Idle

(* The storage starts empty and the service without an index.              *)
LEMMA InitIndex == Init => IndexInvariant
  BY DEF Init, Idle, Request, IndexInvariant, TypeOK, HolderIsAlone, AnsweredAreStored,
     DueWereAnswered, ReadKeysAreNew, LinksCoverDue, AnsweredLibrariesAreIndexed, Holding

(* Adding libraries: stored only grows, and the answer comes when there is *)
(* no index.                                                               *)
LEMMA AddKeeps ==
    ASSUME IndexInvariant, NEW p \in Clients,
           \/ \E S \in SUBSET Libraries : AddLibraries(p, S)
           \/ Save(p) \/ SaveFails(p) \/ Invalidate(p)
    PROVE  IndexInvariant'
  <1>1. TypeOK /\ req \in [Clients -> Request] /\ req[p] \in Request
    BY DEF IndexInvariant, TypeOK
  <1>2. ASSUME NEW S \in SUBSET Libraries, AddLibraries(p, S) PROVE IndexInvariant'
    <2> DEFINE r == [at |-> "Save", left |-> S, saved |-> {}]
    <2>1. req' = [req EXCEPT ![p] = r]
      BY <1>2 DEF AddLibraries, Goto
    <2>2. r \in Request
      BY DEF Request
    <2>3. TypeOK'
      BY <1>1, <1>2, <2>1, <2>2 DEF AddLibraries, TypeOK
    <2>4. req'[p] = r /\ \A q \in Clients : q # p => req'[q] = req[q]
      BY <1>1, <2>1
    <2>5. QED
      BY <1>2, <2>3, <2>4 DEF AddLibraries, IndexInvariant, HolderIsAlone,
         AnsweredAreStored, DueWereAnswered, ReadKeysAreNew, LinksCoverDue,
         AnsweredLibrariesAreIndexed, Holding
  <1>3. CASE Save(p) \/ SaveFails(p)
    <2> DEFINE q == req[p]
    <2>1. q \in [at : {"Save", "Invalidate"}, left : SUBSET Libraries,
                 saved : SUBSET Libraries]
      BY <1>1, <1>3, Kinds DEF Save, SaveFails
    <2>2. q.at = "Save" /\ UNCHANGED <<linked, libraries, librariesMu, answered>>
      BY <1>3 DEF Save, SaveFails
    <2>3. ASSUME NEW r \in Request, NEW S \in SUBSET Libraries, Goto(p, r),
                 r.at \in {"Save", "Invalidate"}, r.saved = q.saved \cup S,
                 stored' = stored \cup S
          PROVE  IndexInvariant'
      <3>1. req'[p] = r /\ \A c \in Clients : c # p => req'[c] = req[c]
        BY <1>1, <2>3 DEF Goto
      <3>2. TypeOK'
        BY <1>1, <2>2, <2>3 DEF TypeOK, Goto
      <3>3. AnsweredAreStored'
        BY <2>2, <2>3, <3>1 DEF IndexInvariant, AnsweredAreStored
      <3>4. QED
        BY <2>2, <2>3, <3>1, <3>2, <3>3 DEF IndexInvariant, HolderIsAlone,
           DueWereAnswered, ReadKeysAreNew, LinksCoverDue, AnsweredLibrariesAreIndexed,
           Holding
    <2>4. ASSUME NEW l \in q.left, stored' = stored \cup {l},
                 Goto(p, [q EXCEPT !.left = @ \ {l}, !.saved = @ \cup {l}])
          PROVE  IndexInvariant'
      <3> DEFINE r == [q EXCEPT !.left = @ \ {l}, !.saved = @ \cup {l}]
      <3>1. r \in Request /\ r.at = "Save" /\ r.saved = q.saved \cup {l}
        BY <2>1, <2>2, <2>4 DEF Request
      <3>2. {l} \in SUBSET Libraries
        BY <2>1, <2>4
      <3>3. QED
        BY <2>3, <2>4, <3>1, <3>2
    <2>5. ASSUME NEW S \in SUBSET q.left, stored' = stored \cup S,
                 Goto(p, [q EXCEPT !.at = "Invalidate", !.saved = @ \cup S])
          PROVE  IndexInvariant'
      <3> DEFINE r == [q EXCEPT !.at = "Invalidate", !.saved = @ \cup S]
      <3>1. r \in Request /\ r.at = "Invalidate" /\ r.saved = q.saved \cup S
        BY <2>1, <2>5 DEF Request
      <3>2. S \in SUBSET Libraries
        BY <2>1, <2>5
      <3>3. QED
        BY <2>3, <2>5, <3>1, <3>2
    <2>6. ASSUME stored' = stored, Goto(p, [q EXCEPT !.at = "Invalidate"])
          PROVE  IndexInvariant'
      <3> DEFINE r == [q EXCEPT !.at = "Invalidate"]
      <3>1. PICK none \in SUBSET Libraries : none = {}
        OBVIOUS
      <3>2. r \in Request /\ r.at = "Invalidate" /\ r.saved = q.saved \cup none
        BY <2>1, <3>1 DEF Request
      <3>3. stored' = stored \cup none
        BY <2>6, <3>1
      <3>4. QED
        BY <2>3, <2>6, <3>2, <3>3
    <2>7. CASE Save(p)
      BY <2>4, <2>6, <2>7 DEF Save
    <2>8. CASE SaveFails(p)
      <3>1. PICK S \in {{}} \cup {{l} : l \in q.left} :
              /\ stored' = stored \cup S
              /\ Goto(p, [q EXCEPT !.at = "Invalidate", !.saved = @ \cup S])
        BY <2>8 DEF SaveFails
      <3>2. S \in SUBSET q.left
        BY <3>1
      <3>3. QED
        BY <2>5, <3>1, <3>2
    <2>9. QED
      BY <1>3, <2>7, <2>8
  <1>4. CASE Invalidate(p)
    <2>1. req[p].saved \in SUBSET Libraries /\ req[p].saved \subseteq stored
      BY <1>1, <1>4, Kinds DEF Invalidate, IndexInvariant, AnsweredAreStored
    <2>2. /\ req' = [req EXCEPT ![p] = Idle] /\ Idle \in Request
          /\ librariesMu = None /\ librariesMu' = None /\ libraries' = None
          /\ answered' = answered \cup req[p].saved
          /\ UNCHANGED <<stored, linked>>
      BY <1>4 DEF Invalidate, Goto, Request
    <2>3. TypeOK'
      BY <1>1, <2>1, <2>2 DEF TypeOK
    <2>4. req'[p].at = "idle" /\ \A q \in Clients : q # p => req'[q] = req[q]
      BY <1>1, <2>2 DEF Idle
    <2>5. \A q \in Clients : req[q].at \notin Holding
      BY <2>2, NoneAssumption DEF IndexInvariant, HolderIsAlone
    <2>6. \A q \in Clients : req'[q].at \notin Holding
      BY <2>4, <2>5 DEF Holding
    <2>7. AnsweredAreStored' /\ DueWereAnswered'
      BY <2>1, <2>2, <2>4 DEF IndexInvariant, AnsweredAreStored, DueWereAnswered, Holding
    <2>8. QED
      BY <2>2, <2>3, <2>6, <2>7 DEF IndexInvariant, HolderIsAlone, ReadKeysAreNew,
         LinksCoverDue, AnsweredLibrariesAreIndexed, Holding
  <1>5. QED
    BY <1>2, <1>3, <1>4

(* Ingesting: the mutex keeps every answer out from the moment the keys    *)
(* are read until the index is dropped or used up.                         *)
LEMMA IngestKeeps ==
    ASSUME IndexInvariant, NEW p \in Clients,
           \/ \E r \in Records : IngestVulnerability(p, r)
           \/ Lock(p) \/ ReadKeys(p) \/ ReadNodes(p) \/ Link(p)
    PROVE  IndexInvariant'
  <1> DEFINE q == req[p]
  <1>1. TypeOK /\ req \in [Clients -> Request] /\ q \in Request
    BY DEF IndexInvariant, TypeOK
  <1>2. ASSUME NEW r, Goto(p, r)
        PROVE  req'[p] = r /\ \A c \in Clients : c # p => req'[c] = req[c]
    BY <1>1, <1>2 DEF Goto
  <1>3. ASSUME NEW v \in Records, IngestVulnerability(p, v) PROVE IndexInvariant'
    <2> DEFINE r == [at |-> "Lock", record |-> v, due |-> answered]
    <2>1. /\ Goto(p, r) /\ r \in Request
          /\ UNCHANGED <<stored, linked, libraries, librariesMu, answered>>
      BY <1>1, <1>3 DEF IngestVulnerability, Request, TypeOK
    <2>2. TypeOK'
      BY <1>1, <2>1 DEF TypeOK, Goto
    <2>3. req'[p] = r /\ \A c \in Clients : c # p => req'[c] = req[c]
      BY <1>2, <2>1
    <2>4. QED
      BY <2>1, <2>2, <2>3 DEF IndexInvariant, HolderIsAlone, AnsweredAreStored,
         DueWereAnswered, ReadKeysAreNew, LinksCoverDue, AnsweredLibrariesAreIndexed,
         Holding
  <1>4. ASSUME NEW index \in SUBSET Libraries, answered \subseteq index,
               q.record \in Records, q.due \in SUBSET Libraries, q.due \subseteq answered
        PROVE  /\ LinkRequest(q, index) \in Request
               /\ LinkRequest(q, index).at = "Link"
               /\ LinkRequest(q, index).record = q.record
               /\ LinkRequest(q, index).due = q.due
               /\ Candidates(q.record, q.due) \subseteq LinkRequest(q, index).todo
    BY <1>4, AffectedAssumption DEF LinkRequest, Candidates, Request
  <1>5. CASE Lock(p)
    <2>1. /\ q.at = "Lock" /\ librariesMu = None /\ librariesMu' = p
          /\ UNCHANGED <<stored, linked, libraries, answered>>
      BY <1>5 DEF Lock
    <2>2. q \in [at : {"Lock", "ReadKeys"}, record : Records, due : SUBSET Libraries]
      BY <1>1, <2>1, Kinds
    <2>3. q.due \subseteq answered
      BY <2>1 DEF IndexInvariant, DueWereAnswered
    <2>4. \A c \in Clients : req[c].at \notin Holding
      BY <2>1, NoneAssumption DEF IndexInvariant, HolderIsAlone
    <2>5. ASSUME NEW r \in Request, Goto(p, r), r.at \in {"ReadKeys", "Link"},
                 r.due = q.due,
                 r.at = "Link" => Candidates(r.record, r.due) \subseteq r.todo
          PROVE  IndexInvariant'
      <3>1. req'[p] = r /\ \A c \in Clients : c # p => req'[c] = req[c]
        BY <1>2, <2>5
      <3>2. TypeOK'
        BY <1>1, <2>1, <2>5 DEF TypeOK, Goto
      <3>3. HolderIsAlone' /\ AnsweredAreStored'
        BY <2>1, <2>4, <2>5, <3>1 DEF IndexInvariant, HolderIsAlone, AnsweredAreStored
      <3>4. DueWereAnswered'
        BY <2>1, <2>3, <2>5, <3>1 DEF IndexInvariant, DueWereAnswered
      <3>5. ReadKeysAreNew' /\ LinksCoverDue'
        BY <2>1, <2>4, <2>5, <3>1 DEF IndexInvariant, ReadKeysAreNew, LinksCoverDue, Holding
      <3>6. AnsweredLibrariesAreIndexed'
        BY <2>1 DEF IndexInvariant, AnsweredLibrariesAreIndexed
      <3>7. QED
        BY <3>2, <3>3, <3>4, <3>5, <3>6 DEF IndexInvariant
    <2>6. CASE libraries = None
      <3> DEFINE r == [q EXCEPT !.at = "ReadKeys"]
      <3>1. r \in Request /\ r.at = "ReadKeys" /\ r.due = q.due
        BY <2>2 DEF Request
      <3>2. Goto(p, r)
        BY <1>5, <2>6 DEF Lock
      <3>3. QED
        BY <2>5, <3>1, <3>2
    <2>7. CASE libraries # None
      <3>1. libraries \in SUBSET Libraries /\ answered \subseteq libraries
        BY <1>1, <2>7 DEF TypeOK, IndexInvariant, AnsweredLibrariesAreIndexed
      <3>2. Goto(p, LinkRequest(q, libraries))
        BY <1>5, <2>7 DEF Lock
      <3>3. QED
        BY <1>4, <2>2, <2>3, <2>5, <3>1, <3>2
    <2>8. QED
      BY <2>6, <2>7
  <1>6. CASE ReadKeys(p)
    <2> DEFINE r == [at |-> "ReadNodes", record |-> q.record, due |-> q.due, keys |-> stored]
    <2>1. /\ q.at = "ReadKeys" /\ Goto(p, r)
          /\ UNCHANGED <<stored, linked, libraries, librariesMu, answered>>
      BY <1>6 DEF ReadKeys
    <2>2. r \in Request
      BY <1>1, <2>1, Kinds DEF Request, TypeOK
    <2>3. TypeOK'
      BY <1>1, <2>1, <2>2 DEF TypeOK, Goto
    <2>4. req'[p] = r /\ \A c \in Clients : c # p => req'[c] = req[c]
      BY <1>2, <2>1
    <2>5. QED
      BY <2>1, <2>3, <2>4 DEF IndexInvariant, HolderIsAlone, AnsweredAreStored,
         DueWereAnswered, ReadKeysAreNew, LinksCoverDue, AnsweredLibrariesAreIndexed,
         Holding
  <1>7. CASE ReadNodes(p)
    <2> DEFINE r == LinkRequest(q, q.keys)
    <2>1. /\ q.at = "ReadNodes" /\ Goto(p, r) /\ libraries' = q.keys
          /\ UNCHANGED <<stored, linked, librariesMu, answered>>
      BY <1>7 DEF ReadNodes
    <2>2. /\ q.record \in Records /\ q.due \in SUBSET Libraries /\ q.keys \in SUBSET Libraries
          /\ q.due \subseteq answered /\ answered \subseteq q.keys
      BY <1>1, <2>1, Kinds DEF IndexInvariant, DueWereAnswered, ReadKeysAreNew, Holding
    <2>3. /\ r \in Request /\ r.at = "Link" /\ r.record = q.record /\ r.due = q.due
          /\ Candidates(q.record, q.due) \subseteq r.todo
      BY <1>4, <2>2
    <2>4. TypeOK'
      BY <1>1, <2>1, <2>2, <2>3 DEF TypeOK, Goto
    <2>5. req'[p] = r /\ \A c \in Clients : c # p => req'[c] = req[c]
      BY <1>2, <2>1
    <2>6. HolderIsAlone' /\ AnsweredAreStored' /\ DueWereAnswered'
      BY <2>1, <2>2, <2>3, <2>5 DEF IndexInvariant, HolderIsAlone, AnsweredAreStored,
         DueWereAnswered, Holding
    <2>7. ReadKeysAreNew' /\ LinksCoverDue'
      BY <2>1, <2>3, <2>5 DEF IndexInvariant, ReadKeysAreNew, LinksCoverDue
    <2>8. AnsweredLibrariesAreIndexed'
      BY <2>1, <2>2 DEF AnsweredLibrariesAreIndexed
    <2>9. QED
      BY <2>4, <2>6, <2>7, <2>8 DEF IndexInvariant
  <1>8. CASE Link(p)
    <2>1. PICK l \in q.todo : /\ linked' = linked \cup {<<q.record, l>>}
                              /\ Goto(p, [q EXCEPT !.todo = @ \ {l}])
      BY <1>8 DEF Link
    <2>2. q.at = "Link" /\ UNCHANGED <<stored, libraries, librariesMu, answered>>
      BY <1>8 DEF Link
    <2>3. q \in [at : {"Link"}, record : Records, due : SUBSET Libraries,
                 todo : SUBSET Libraries]
      BY <1>1, <2>2, Kinds
    <2> DEFINE r == [q EXCEPT !.todo = @ \ {l}]
    <2>4. /\ r \in Request /\ r.at = "Link" /\ r.record = q.record /\ r.due = q.due
          /\ r.todo = q.todo \ {l}
      BY <2>3 DEF Request
    <2>5. TypeOK'
      BY <1>1, <2>1, <2>2, <2>3, <2>4 DEF TypeOK, Goto
    <2>6. req'[p] = r /\ \A c \in Clients : c # p => req'[c] = req[c]
      BY <1>2, <2>1
    <2>7. HolderIsAlone' /\ AnsweredAreStored' /\ DueWereAnswered'
      BY <2>2, <2>4, <2>6 DEF IndexInvariant, HolderIsAlone, AnsweredAreStored,
         DueWereAnswered, Holding
    <2>8. ReadKeysAreNew' /\ AnsweredLibrariesAreIndexed'
      BY <2>2, <2>4, <2>6 DEF IndexInvariant, ReadKeysAreNew, AnsweredLibrariesAreIndexed
    <2>9. LinksCoverDue'
      BY <2>1, <2>2, <2>4, <2>6 DEF IndexInvariant, LinksCoverDue
    <2>10. QED
      BY <2>5, <2>7, <2>8, <2>9 DEF IndexInvariant
  <1>9. QED
    BY <1>3, <1>5, <1>6, <1>7, <1>8

(* A request that ends, on its own or with the server, leaves no claim.    *)
LEMMA EndKeeps ==
    ASSUME IndexInvariant,
           \/ Crash
           \/ \E p \in Clients : Unlock(p) \/ IngestFails(p)
    PROVE  IndexInvariant'
  <1>1. TypeOK /\ req \in [Clients -> Request] /\ Idle \in Request
    BY DEF IndexInvariant, TypeOK, Request
  <1>2. CASE Crash
    <2>1. /\ libraries' = None /\ librariesMu' = None /\ answered' = stored
          /\ UNCHANGED <<stored, linked>>
          /\ req' = [c \in Clients |-> Idle]
      BY <1>2 DEF Crash
    <2>2. TypeOK'
      BY <1>1, <2>1 DEF TypeOK
    <2>3. \A c \in Clients : req'[c].at = "idle"
      BY <2>1 DEF Idle
    <2>4. QED
      BY <2>1, <2>2, <2>3 DEF IndexInvariant, HolderIsAlone, AnsweredAreStored,
         DueWereAnswered, ReadKeysAreNew, LinksCoverDue, AnsweredLibrariesAreIndexed,
         Holding
  <1>3. ASSUME NEW p \in Clients, Unlock(p) \/ IngestFails(p) PROVE IndexInvariant'
    <2>1. /\ req[p].at \in Holding /\ librariesMu' = None /\ Goto(p, Idle)
          /\ UNCHANGED <<stored, linked, libraries, answered>>
      BY <1>3 DEF Unlock, IngestFails, Release, Holding
    <2>2. TypeOK'
      BY <1>1, <2>1 DEF TypeOK, Goto
    <2>3. req'[p].at = "idle" /\ \A c \in Clients : c # p => req'[c] = req[c]
      BY <1>1, <2>1 DEF Goto, Idle
    <2>4. \A c \in Clients : req'[c].at \notin Holding
      BY <2>1, <2>3 DEF IndexInvariant, HolderIsAlone, Holding
    <2>5. QED
      BY <2>1, <2>2, <2>3, <2>4 DEF IndexInvariant, HolderIsAlone, AnsweredAreStored,
         DueWereAnswered, ReadKeysAreNew, LinksCoverDue, AnsweredLibrariesAreIndexed,
         Holding
  <1>4. QED
    BY <1>2, <1>3

-----------------------------------------------------------------------------
(* The invariant holds in every state.                                     *)
THEOREM IndexInvariance == Spec => []IndexInvariant
  <1>1. ASSUME IndexInvariant, [Next]_vars PROVE IndexInvariant'
    <2>1. CASE UNCHANGED vars
      BY <1>1, <2>1 DEF vars, IndexInvariant, TypeOK, HolderIsAlone, AnsweredAreStored,
         DueWereAnswered, ReadKeysAreNew, LinksCoverDue, AnsweredLibrariesAreIndexed
    <2>2. CASE Next
      BY <1>1, <2>2, AddKeeps, IngestKeeps, EndKeeps
         DEF Next, Start, Continue, Acquire, Fail
    <2>3. QED
      BY <1>1, <2>1, <2>2
  <1>2. QED
    BY InitIndex, <1>1, PTL DEF Spec

(* The state of the library index and its requests is well-formed.        *)
THEOREM IndexIsTyped == Spec => []TypeOK
  BY IndexInvariance, PTL DEF IndexInvariant

(* The index in memory is never older than an answer, with any number of   *)
(* requests that add libraries or ingest vulnerabilities.                  *)
THEOREM IndexIsFresh == Spec => []AnsweredLibrariesAreIndexed
  <1>1. IndexInvariant => AnsweredLibrariesAreIndexed
    BY DEF IndexInvariant
  <1>2. QED
    BY IndexInvariance, <1>1, PTL

(* An ingest that comes to its end has linked its record to every affected *)
(* library whose request had ended before.                                 *)
THEOREM LinksAreComplete == Spec => []AnsweredLibrariesAreLinked
  <1>1. IndexInvariant => AnsweredLibrariesAreLinked
    BY DEF IndexInvariant, LinksCoverDue, AnsweredLibrariesAreLinked
  <1>2. QED
    BY IndexInvariance, <1>1, PTL
=============================================================================
