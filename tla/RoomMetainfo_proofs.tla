-------------------------- MODULE RoomMetainfo_proofs --------------------------
(***************************************************************************)
(* Proofs about RoomMetainfo, for any rooms and any number of tasks: who   *)
(* holds the lock, that no request is stranded, that the store follows the *)
(* map, and that the module implements RoomRecord.                         *)
(***************************************************************************)
EXTENDS RoomMetainfo, TLAPS

\* Until load_rooms() has the lock, nothing is watched and the map is empty;
\* while it has it, the map has what was read, room by room.
LoadInv ==
    /\ load = "read" => ~unread /\ \A r \in Rooms : loaded[r] = 0
    /\ load \in {"read", "lock"} =>
          /\ pending_updates = {} /\ restored = {}
          /\ \A w \in Watchers : pc[w] = "none"
    /\ load \in {"read", "lock", "restore"} =>
          \A r \in Rooms :
              /\ rooms_metainfo[r] = IF r \in restored THEN loaded[r] ELSE 0
              /\ r \notin Known => stored[r] = 0
              /\ loaded[r] <= real[r]
              /\ ~unread /\ load # "read" => loaded[r] = stored[r]

\* No value is ahead of its room, and none behind an older one.
OrderInv ==
    \A r \in Rooms :
        /\ rooms_metainfo[r] <= real[r]
        /\ ~unread => stored[r] <= real[r]
        /\ ~unread /\ load \in {"list", "done"} => stored[r] <= rooms_metainfo[r]

\* The map and the store differ only on the way to a write, or after one failed.
SavedInv ==
    load \in {"list", "done"} /\ ~unread /\ ~unsaved /\ stored # rooms_metainfo
        => \E w \in Watchers : pc[w] = "persist"

IInv == TypeOK /\ LoadInv /\ OrderInv /\ SavedInv /\ PendingServed

USE RoomsAssumption DEF LoadSteps, Steps, Holding

LEMMA InitIInv == Init => IInv
  <1> SUFFICES ASSUME Init PROVE IInv
    OBVIOUS
  <1> USE DEF Init
  <1>1. (CHOOSE r \in Rooms : TRUE) \in Rooms
    <2>1. PICK r \in Rooms : TRUE
      BY Zenon
    <2> QED
      BY <2>1, Zenon
  <1>2. /\ real \in [Rooms -> 0..1] /\ stored = real
        /\ \A r \in Rooms \ Known : real[r] = 0
    BY Zenon
  <1>3. real \in [Rooms -> 0..MaxChanges]
    BY <1>2
  <1>4. room \in [Watchers -> Rooms]
    BY <1>1
  <1>5. TypeOK
    <2>1. OneAtATime
      BY DEF OneAtATime
    <2>2. /\ by_id = {} /\ restored = {} /\ fresh = {} /\ pending_updates = {}
          /\ missed = {} /\ load = "read" /\ unread = FALSE /\ unsaved = FALSE
          /\ rooms_metainfo_lock = None
      BY Zenon
    <2>3. /\ rooms_metainfo \in [Rooms -> 0..MaxChanges]
          /\ loaded \in [Rooms -> 0..MaxChanges]
          /\ seen \in [Watchers -> 0..MaxChanges]
      OBVIOUS
    <2>4. pc \in [Watchers -> Steps] /\ ids \in [Watchers -> SUBSET Rooms]
      OBVIOUS
    <2> QED
      BY <1>2, <1>3, <1>4, <2>1, <2>2, <2>3, <2>4, Zenon DEF TypeOK
  <1>6. LoadInv /\ OrderInv
    BY <1>2, <1>3 DEF LoadInv, OrderInv
  <1>7. SavedInv /\ PendingServed
    BY DEF SavedInv, PendingServed
  <1> QED
    BY <1>5, <1>6, <1>7 DEF IInv

LEMMA ReadRecordKeeps ==
    ASSUME IInv, ReadRecord PROVE IInv'
  <1> USE DEF IInv, ReadRecord, watch, store, list
  <1>1. TypeOK'
    <2>1. CASE loaded' = stored /\ UNCHANGED <<unread, real, missed>>
      BY <2>1 DEF TypeOK, OneAtATime
    <2>2. CASE /\ unread' = TRUE /\ UNCHANGED loaded /\ real' = [r \in Rooms |-> 0]
               /\ missed' = {r \in Rooms : stored[r] # 0}
      <3>1. real' \in [Rooms -> 0..MaxChanges] /\ missed' \subseteq Rooms
        BY <2>2
      <3>2. OneAtATime'
        BY DEF TypeOK, OneAtATime
      <3> QED
        BY <2>2, <3>1, <3>2 DEF TypeOK
    <2> QED
      BY <2>1, <2>2
  <1>2. LoadInv'
    <2>1. CASE loaded' = stored /\ UNCHANGED <<unread, real, missed>>
      BY <2>1 DEF LoadInv, OrderInv, TypeOK
    <2>2. CASE unread' = TRUE /\ UNCHANGED loaded /\ real' = [r \in Rooms |-> 0]
      BY <2>2 DEF LoadInv, TypeOK
    <2> QED
      BY <2>1, <2>2
  <1>3. OrderInv'
    BY DEF OrderInv, LoadInv, TypeOK, OneAtATime
  <1>4. SavedInv'
    BY DEF SavedInv, OrderInv, LoadInv, TypeOK, OneAtATime
  <1>5. PendingServed'
    BY DEF PendingServed, LoadInv, TypeOK, OneAtATime
  <1> QED
    BY <1>1, <1>2, <1>3, <1>4, <1>5

LEMMA LockRecordKeeps ==
    ASSUME IInv, LockRecord PROVE IInv'
  <1> USE DEF IInv, LockRecord, watch, store, list
  <1>1. TypeOK'
    BY DEF TypeOK, OneAtATime
  <1>2. LoadInv'
    BY DEF LoadInv, TypeOK, OneAtATime
  <1>3. OrderInv'
    BY DEF OrderInv, LoadInv, TypeOK, OneAtATime
  <1>4. SavedInv'
    BY DEF SavedInv, OrderInv, LoadInv, TypeOK, OneAtATime
  <1>5. PendingServed'
    BY DEF PendingServed, LoadInv, TypeOK, OneAtATime
  <1> QED
    BY <1>1, <1>2, <1>3, <1>4, <1>5

LEMMA EndRestoreKeeps ==
    ASSUME IInv, EndRestore PROVE IInv'
  <1> USE DEF IInv, EndRestore, watch, store, list
  <1>1. TypeOK'
    BY DEF TypeOK, OneAtATime
  <1>2. LoadInv'
    BY DEF LoadInv, TypeOK, OneAtATime
  <1>3. OrderInv'
    BY DEF OrderInv, LoadInv, TypeOK, OneAtATime
  <1>4. SavedInv'
    BY DEF SavedInv, OrderInv, LoadInv, TypeOK, OneAtATime
  <1>5. PendingServed'
    BY DEF PendingServed, LoadInv, TypeOK, OneAtATime
  <1> QED
    BY <1>1, <1>2, <1>3, <1>4, <1>5

LEMMA ListRoomsKeeps ==
    ASSUME IInv, ListRooms PROVE IInv'
  <1> USE DEF IInv, ListRooms, watch, store, list
  <1>1. TypeOK'
    BY DEF TypeOK, OneAtATime
  <1>2. LoadInv'
    BY DEF LoadInv, TypeOK, OneAtATime
  <1>3. OrderInv'
    BY DEF OrderInv, LoadInv, TypeOK, OneAtATime
  <1>4. SavedInv'
    BY DEF SavedInv, OrderInv, LoadInv, TypeOK, OneAtATime
  <1>5. PendingServed'
    BY DEF PendingServed, LoadInv, TypeOK, OneAtATime
  <1> QED
    BY <1>1, <1>2, <1>3, <1>4, <1>5

LEMMA InsertRoomsKeeps ==
    ASSUME IInv, InsertRooms PROVE IInv'
  <1> USE DEF IInv, InsertRooms, watch, store, list
  <1>1. TypeOK'
    BY DEF TypeOK, OneAtATime
  <1>2. LoadInv'
    BY DEF LoadInv, TypeOK, OneAtATime
  <1>3. OrderInv'
    BY DEF OrderInv, LoadInv, TypeOK, OneAtATime
  <1>4. SavedInv'
    BY DEF SavedInv, OrderInv, LoadInv, TypeOK, OneAtATime
  <1>5. PendingServed'
    BY DEF PendingServed, LoadInv, TypeOK, OneAtATime
  <1> QED
    BY <1>1, <1>2, <1>3, <1>4, <1>5

LEMMA RestoreKeeps ==
    ASSUME IInv, NEW r \in Rooms, Restore(r) PROVE IInv'
  <1> USE DEF IInv, Restore, watch, store, list, Create, Watch, Created
  <1>1. TypeOK'
    BY DEF TypeOK, OneAtATime
  <1>2. LoadInv'
    BY DEF LoadInv, TypeOK, OneAtATime
  <1>3. OrderInv'
    BY DEF OrderInv, LoadInv, TypeOK, OneAtATime
  <1>4. SavedInv'
    BY DEF SavedInv, OrderInv, LoadInv, TypeOK, OneAtATime
  <1>5. PendingServed'
    BY DEF PendingServed, LoadInv, TypeOK, OneAtATime
  <1> QED
    BY <1>1, <1>2, <1>3, <1>4, <1>5

LEMMA UpdateRoomKeeps ==
    ASSUME IInv, NEW r \in Rooms, UpdateRoom(r) PROVE IInv'
  <1> USE DEF IInv, UpdateRoom, watch, store, list, Create, Watch, Created
  <1>1. TypeOK'
    BY DEF TypeOK, OneAtATime
  <1>2. LoadInv'
    BY DEF LoadInv, TypeOK, OneAtATime
  <1>3. OrderInv'
    BY DEF OrderInv, LoadInv, TypeOK, OneAtATime
  <1>4. SavedInv'
    BY DEF SavedInv, OrderInv, LoadInv, TypeOK, OneAtATime
  <1>5. PendingServed'
    BY DEF PendingServed, LoadInv, TypeOK, OneAtATime
  <1> QED
    BY <1>1, <1>2, <1>3, <1>4, <1>5

LEMMA LeftRoomKeeps ==
    ASSUME IInv, NEW r \in Rooms, LeftRoom(r) PROVE IInv'
  <1> USE DEF IInv, LeftRoom, watch, store, list, Created
  <1>1. TypeOK'
    BY DEF TypeOK, OneAtATime
  <1>2. LoadInv'
    BY DEF LoadInv, TypeOK, OneAtATime
  <1>3. OrderInv'
    BY DEF OrderInv, LoadInv, TypeOK, OneAtATime
  <1>4. SavedInv'
    BY DEF SavedInv, OrderInv, LoadInv, TypeOK, OneAtATime
  <1>5. PendingServed'
    BY DEF PendingServed, LoadInv, TypeOK, OneAtATime
  <1> QED
    BY <1>1, <1>2, <1>3, <1>4, <1>5

LEMMA RemoveKeeps ==
    ASSUME IInv, NEW r \in Rooms, Remove(r) PROVE IInv'
  <1> USE DEF IInv, Remove, watch, store, list
  <1>1. TypeOK'
    BY DEF TypeOK, OneAtATime
  <1>2. LoadInv'
    BY DEF LoadInv, TypeOK, OneAtATime
  <1>3. OrderInv'
    BY DEF OrderInv, LoadInv, TypeOK, OneAtATime
  <1>4. SavedInv'
    BY DEF SavedInv, OrderInv, LoadInv, TypeOK, OneAtATime
  <1>5. PendingServed'
    BY DEF PendingServed, LoadInv, TypeOK, OneAtATime
  <1> QED
    BY <1>1, <1>2, <1>3, <1>4, <1>5

LEMMA ChangeKeeps ==
    ASSUME IInv, NEW r \in Rooms, Change(r) PROVE IInv'
  <1> USE DEF IInv, Change, watch, store, list, Created
  <1>1. TypeOK'
    BY DEF TypeOK, OneAtATime
  <1>2. LoadInv'
    BY DEF LoadInv, TypeOK, OneAtATime
  <1>3. OrderInv'
    BY DEF OrderInv, LoadInv, TypeOK, OneAtATime
  <1>4. SavedInv'
    BY DEF SavedInv, OrderInv, LoadInv, TypeOK, OneAtATime
  <1>5. PendingServed'
    BY DEF PendingServed, LoadInv, TypeOK, OneAtATime
  <1> QED
    BY <1>1, <1>2, <1>3, <1>4, <1>5

LEMMA WakeKeeps ==
    ASSUME IInv, NEW w \in Watchers, Wake(w) PROVE IInv'
  <1> USE DEF IInv, Wake, watch, store, list, At, Goto
  <1>1. TypeOK'
    BY DEF TypeOK, OneAtATime
  <1>2. LoadInv'
    BY DEF LoadInv, TypeOK, OneAtATime
  <1>3. OrderInv'
    BY DEF OrderInv, LoadInv, TypeOK, OneAtATime
  <1>4. SavedInv'
    BY DEF SavedInv, OrderInv, LoadInv, TypeOK, OneAtATime
  <1>5. PendingServed'
    BY DEF PendingServed, LoadInv, TypeOK, OneAtATime
  <1> QED
    BY <1>1, <1>2, <1>3, <1>4, <1>5

LEMMA InsertKeeps ==
    ASSUME IInv, NEW w \in Watchers, Insert(w) PROVE IInv'
  <1> USE DEF IInv, Insert, watch, store, list, At, Goto
  <1>1. TypeOK'
    BY DEF TypeOK, OneAtATime
  <1>2. LoadInv'
    BY DEF LoadInv, TypeOK, OneAtATime
  <1>3. OrderInv'
    BY DEF OrderInv, LoadInv, TypeOK, OneAtATime
  <1>4. SavedInv'
    BY DEF SavedInv, OrderInv, LoadInv, TypeOK, OneAtATime
  <1>5. PendingServed'
    BY DEF PendingServed, LoadInv, TypeOK, OneAtATime
  <1> QED
    BY <1>1, <1>2, <1>3, <1>4, <1>5

LEMMA CheckKeeps ==
    ASSUME IInv, NEW w \in Watchers, Check(w) PROVE IInv'
  <1> USE DEF IInv, Check, watch, store, list, At, Goto
  <1>1. TypeOK'
    BY DEF TypeOK, OneAtATime
  <1>2. LoadInv'
    BY DEF LoadInv, TypeOK, OneAtATime
  <1>3. OrderInv'
    BY DEF OrderInv, LoadInv, TypeOK, OneAtATime
  <1>4. SavedInv'
    BY DEF SavedInv, OrderInv, LoadInv, TypeOK, OneAtATime
  <1>5. PendingServed'
    BY DEF PendingServed, LoadInv, TypeOK, OneAtATime
  <1> QED
    BY <1>1, <1>2, <1>3, <1>4, <1>5

LEMMA TryLockKeeps ==
    ASSUME IInv, NEW w \in Watchers, TryLock(w) PROVE IInv'
  <1> USE DEF IInv, TryLock, watch, store, list, At, Goto
  <1>1. TypeOK'
    BY DEF TypeOK, OneAtATime
  <1>2. LoadInv'
    BY DEF LoadInv, TypeOK, OneAtATime
  <1>3. OrderInv'
    BY DEF OrderInv, LoadInv, TypeOK, OneAtATime
  <1>4. SavedInv'
    BY DEF SavedInv, OrderInv, LoadInv, TypeOK, OneAtATime
  <1>5. PendingServed'
    BY DEF PendingServed, LoadInv, TypeOK, OneAtATime
  <1> QED
    BY <1>1, <1>2, <1>3, <1>4, <1>5

LEMMA TakeKeeps ==
    ASSUME IInv, NEW w \in Watchers, Take(w) PROVE IInv'
  <1> USE DEF IInv, Take, watch, store, list, At, Goto
  <1>1. TypeOK'
    BY DEF TypeOK, OneAtATime
  <1>2. LoadInv'
    BY DEF LoadInv, TypeOK, OneAtATime
  <1>3. OrderInv'
    BY DEF OrderInv, LoadInv, TypeOK, OneAtATime
  <1>4. SavedInv'
    BY DEF SavedInv, OrderInv, LoadInv, TypeOK, OneAtATime
  <1>5. PendingServed'
    BY DEF PendingServed, LoadInv, TypeOK, OneAtATime
  <1> QED
    BY <1>1, <1>2, <1>3, <1>4, <1>5

LEMMA UpdateKeeps ==
    ASSUME IInv, NEW w \in Watchers, Update(w) PROVE IInv'
  <1> USE DEF IInv, Update, watch, store, list, At, Goto
  <1>1. TypeOK'
    BY DEF TypeOK, OneAtATime
  <1>2. LoadInv'
    BY DEF LoadInv, TypeOK, OneAtATime
  <1>3. OrderInv'
    BY DEF OrderInv, LoadInv, TypeOK, OneAtATime
  <1>4. SavedInv'
    BY DEF SavedInv, OrderInv, LoadInv, TypeOK, OneAtATime
  <1>5. PendingServed'
    BY DEF PendingServed, LoadInv, TypeOK, OneAtATime
  <1> QED
    BY <1>1, <1>2, <1>3, <1>4, <1>5

LEMMA PersistKeeps ==
    ASSUME IInv, NEW w \in Watchers, Persist(w) PROVE IInv'
  <1> USE DEF IInv, Persist, watch, store, list, At, Goto
  <1>1. TypeOK'
    BY DEF TypeOK, OneAtATime
  <1>2. LoadInv'
    BY DEF LoadInv, TypeOK, OneAtATime
  <1>3. OrderInv'
    BY DEF OrderInv, LoadInv, TypeOK, OneAtATime
  <1>4. SavedInv'
    BY DEF SavedInv, OrderInv, LoadInv, TypeOK, OneAtATime
  <1>5. PendingServed'
    BY DEF PendingServed, LoadInv, TypeOK, OneAtATime
  <1> QED
    BY <1>1, <1>2, <1>3, <1>4, <1>5

LEMMA UnlockKeeps ==
    ASSUME IInv, NEW w \in Watchers, Unlock(w) PROVE IInv'
  <1> USE DEF IInv, Unlock, watch, store, list, At, Goto
  <1>1. TypeOK'
    BY DEF TypeOK, OneAtATime
  <1>2. LoadInv'
    BY DEF LoadInv, TypeOK, OneAtATime
  <1>3. OrderInv'
    BY DEF OrderInv, LoadInv, TypeOK, OneAtATime
  <1>4. SavedInv'
    BY DEF SavedInv, OrderInv, LoadInv, TypeOK, OneAtATime
  <1>5. PendingServed'
    BY DEF PendingServed, LoadInv, TypeOK, OneAtATime
  <1> QED
    BY <1>1, <1>2, <1>3, <1>4, <1>5

\* Every step of Next is one of the lemmas above.
LEMMA StepIInv == IInv /\ [Next]_vars => IInv'
  <1> SUFFICES ASSUME IInv, [Next]_vars PROVE IInv'
    OBVIOUS
  <1>1. CASE UNCHANGED vars
    BY <1>1 DEF vars, watch, store, list, IInv, TypeOK, OneAtATime, LoadInv, OrderInv,
                SavedInv, PendingServed
  <1>2. CASE Loading \/ InsertRooms
    BY <1>2, ReadRecordKeeps, LockRecordKeeps, EndRestoreKeeps, ListRoomsKeeps,
       InsertRoomsKeeps, RestoreKeeps DEF Loading
  <1>3. ASSUME NEW r \in Rooms, UpdateRoom(r) \/ LeftRoom(r) \/ Remove(r) \/ Change(r)
        PROVE IInv'
    BY <1>3, UpdateRoomKeeps, LeftRoomKeeps, RemoveKeeps, ChangeKeeps
  <1>4. ASSUME NEW w \in Watchers, Step(w) PROVE IInv'
    BY <1>4, WakeKeeps, InsertKeeps, CheckKeeps, TryLockKeeps, TakeKeeps, UpdateKeeps,
       PersistKeeps, UnlockKeeps DEF Step
  <1> QED
    BY <1>1, <1>2, <1>3, <1>4 DEF Next

LEMMA Invariance == Spec => []IInv
  <1> QED
    BY InitIInv, StepIInv, PTL DEF Spec

\* The map, the store and the tasks stay within their types, and one task at
\* most is within the section of the lock.
THEOREM TypeCorrect == Spec => []TypeOK
  <1> QED
    BY Invariance, PTL DEF IInv

\* A room whose update was asked for is never left to nobody, however many tasks
\* there are and whichever of them finds the lock taken.
THEOREM RequestsServed == Spec => []PendingServed
  <1> QED
    BY Invariance, PTL DEF IInv

\* While nobody holds the lock, the store has the map.
THEOREM StoreFollows == Spec => []StoreMirrorsMap
  <1>1. IInv => StoreMirrorsMap
    BY DEF IInv, SavedInv, StoreMirrorsMap, TypeOK, OneAtATime
  <1> QED
    BY <1>1, Invariance, PTL

-------------------------------------------------------------------------------
(* RoomMetainfo implements RoomRecord *)

LEMMA InitRefines == Init => Record!Init
  <1> SUFFICES ASSUME Init PROVE Record!Init
    OBVIOUS
  <1>1. real \in [Rooms -> 0..1] /\ stored = real /\ unread = FALSE
    BY Zenon DEF Init
  <1> QED
    BY <1>1 DEF Record!Init

\* A room created may change on the way.
LEMMA CreateRefines ==
    ASSUME NEW r \in Rooms, Create(r), UNCHANGED <<stored, unread>>
    PROVE  [Record!Next]_Record!vars
  <1> QED
    BY DEF Create, Record!Next, Record!Change, Record!vars

LEMMA PersistRefines ==
    ASSUME IInv, NEW w \in Watchers, Persist(w)
    PROVE  [Record!Next]_Record!vars
  <1> USE DEF Persist, At, Goto, list
  <1>1. CASE UNCHANGED stored
    BY <1>1 DEF Record!vars
  <1>2. CASE stored' = rooms_metainfo
    <2>1. stored' \in [Rooms -> Nat]
      BY <1>2 DEF IInv, TypeOK
    <2>2. ~unread => load \in {"list", "done"}
      BY DEF IInv, TypeOK, OneAtATime, LoadInv
    <2>3. ASSUME NEW r \in Rooms
          PROVE  stored'[r] <= real[r] /\ (unread \/ stored'[r] >= stored[r])
      BY <1>2, <2>2 DEF IInv, OrderInv, TypeOK
    <2>4. Record!Save
      BY <2>1, <2>3 DEF Record!Save
    <2> QED
      BY <2>4 DEF Record!Next
  <1> QED
    BY <1>1, <1>2

LEMMA StepRefines == IInv /\ [Next]_vars => [Record!Next]_Record!vars
  <1> SUFFICES ASSUME IInv, [Next]_vars PROVE [Record!Next]_Record!vars
    OBVIOUS
  <1> USE DEF watch, store, list
  <1>1. CASE UNCHANGED vars
    BY <1>1 DEF vars, Record!vars
  <1>2. CASE ReadRecord
    BY <1>2 DEF ReadRecord, Record!Next, Record!Lose, Record!vars
  <1>3. CASE LockRecord \/ EndRestore \/ ListRooms \/ InsertRooms
    BY <1>3 DEF LockRecord, EndRestore, ListRooms, InsertRooms, Record!vars
  <1>4. ASSUME NEW r \in Rooms, Restore(r) \/ UpdateRoom(r) \/ LeftRoom(r) \/ Remove(r)
        PROVE  [Record!Next]_Record!vars
    <2>1. CASE Restore(r)
      BY <2>1, CreateRefines DEF Restore
    <2>2. CASE UpdateRoom(r)
      BY <2>2, CreateRefines DEF UpdateRoom, Record!vars
    <2>3. CASE LeftRoom(r) \/ Remove(r)
      BY <2>3 DEF LeftRoom, Remove, Record!vars
    <2> QED
      BY <1>4, <2>1, <2>2, <2>3
  <1>5. ASSUME NEW r \in Rooms, Change(r) PROVE [Record!Next]_Record!vars
    BY <1>5 DEF Change, Record!Next, Record!Change
  <1>6. ASSUME NEW w \in Watchers, Step(w) PROVE [Record!Next]_Record!vars
    <2>1. CASE Persist(w)
      BY <2>1, PersistRefines
    <2>2. CASE ~Persist(w)
      BY <1>6, <2>2 DEF Step, Wake, Insert, Check, TryLock, Take, Update, Unlock,
                        Record!vars
    <2> QED
      BY <2>1, <2>2
  <1> QED
    BY <1>1, <1>2, <1>3, <1>4, <1>5, <1>6 DEF Next, Loading

\* Whenever the process stops, the store has for each room a value the room had,
\* and no older one than it had before, unless the record could not be read.
THEOREM RecordImplemented == Spec => RecordAdvances
  <1> QED
    BY InitRefines, StepRefines, Invariance, PTL DEF Spec, RecordAdvances, Record!Spec
================================================================================
