------------------------------ MODULE RoomMetainfo ------------------------------
(***************************************************************************)
(* The record of the rooms' latest activity and read state (RoomList-      *)
(* Metainfo): loaded into a map when the session starts, updated by a task *)
(* per watched room, and written back to the state store.  Tasks run on    *)
(* several threads; each access to a lock is a step.                       *)
(***************************************************************************)
EXTENDS Integers, FiniteSets

CONSTANTS
    Rooms,        \* room ids
    Known,        \* those the SDK has when the session starts
    Watchers,     \* tasks that watch a room
    None, Loader, \* no task; the task that loads the rooms
    MaxChanges    \* bound on the values a room takes

ASSUME RoomsAssumption ==
    /\ Rooms # {} /\ Known \subseteq Rooms
    /\ None \notin Watchers /\ Loader \notin Watchers /\ None # Loader
    /\ MaxChanges \in Nat \ {0}

VARIABLES
    real,            \* the values of the Room objects, numbered
    by_id,           \* RoomListInner::by_id
    rooms_metainfo,  \* the map, 0 where it has no entry
    rooms_metainfo_lock, \* who holds it
    pending_updates,
    stored,          \* the map in the state store
    load,            \* how far load() is
    loaded,          \* the map load_rooms() read
    unread,          \* whether that failed
    restored,        \* the rooms it has created
    fresh,           \* new_rooms of handle_room_updates()
    pc, room, seen, ids, \* of each watcher: step, room, value seen, rooms taken
    unsaved,         \* the last write failed
    missed           \* rooms with a change that no request stands for

watch == <<pc, room, seen, ids>>
store == <<rooms_metainfo, rooms_metainfo_lock, pending_updates, stored, unsaved, missed>>
list  == <<by_id, load, loaded, unread, restored, fresh>>
vars  == <<real, store, list, watch>>

LoadSteps == {"read", "lock", "restore", "list", "done"}
Steps == {"none", "waiting", "insert", "check", "try", "take", "update", "persist", "unlock"}
Holding == {"take", "update", "persist", "unlock"}

Created == restored \cup by_id \cup fresh

Init ==
    /\ real \in {f \in [Rooms -> 0..1] : \A r \in Rooms \ Known : f[r] = 0}
    /\ stored = real
    /\ by_id = {} /\ fresh = {} /\ restored = {}
    /\ rooms_metainfo = [r \in Rooms |-> 0]
    /\ rooms_metainfo_lock = None
    /\ pending_updates = {} /\ missed = {} /\ unsaved = FALSE
    /\ load = "read" /\ loaded = [r \in Rooms |-> 0] /\ unread = FALSE
    /\ pc = [w \in Watchers |-> "none"]
    /\ room \in [Watchers -> {CHOOSE r \in Rooms : TRUE}]
    /\ seen = [w \in Watchers |-> 0]
    /\ ids = [w \in Watchers |-> {}]

-------------------------------------------------------------------------------
(* RoomList::load *)

\* The read of the record, which may fail: the rooms then know nothing.
ReadRecord ==
    /\ load = "read" /\ load' = "lock"
    /\ \/ loaded' = stored /\ UNCHANGED <<unread, real, missed>>
       \/ /\ unread' = TRUE /\ UNCHANGED loaded
          /\ real' = [r \in Rooms |-> 0]
          /\ missed' = {r \in Rooms : stored[r] # 0}
    /\ UNCHANGED <<rooms_metainfo, rooms_metainfo_lock, pending_updates, stored, unsaved,
                   by_id, restored, fresh, watch>>

LockRecord ==
    /\ load = "lock" /\ load' = "restore"
    /\ rooms_metainfo_lock = None /\ rooms_metainfo_lock' = Loader
    /\ UNCHANGED <<real, rooms_metainfo, pending_updates, stored, unsaved, missed,
                   by_id, loaded, unread, restored, fresh, watch>>

\* RoomListMetainfo::watch_room: a new task, whether or not the room has one.
\* It sees what changes from now on.
Watch(r) ==
    \E w \in Watchers :
        /\ pc[w] = "none"
        /\ pc' = [pc EXCEPT ![w] = "waiting"]
        /\ room' = [room EXCEPT ![w] = r]
        /\ seen' = [seen EXCEPT ![w] = real'[r]]
        /\ UNCHANGED ids

\* Room::new starts a task that takes the SDK's room info, and that may have
\* changed the room before anyone watches it.
Create(r) ==
    \/ UNCHANGED <<real, missed>>
    \/ /\ real[r] < MaxChanges
       /\ real' = [real EXCEPT ![r] = @ + 1]
       /\ missed' = missed \cup {r}

\* Mutant: what was read is given to the room and not kept in the map.
RestoreRoomOnly(r) ==
    /\ load = "restore" /\ r \in Known \ restored
    /\ restored' = restored \cup {r}
    /\ Create(r) /\ Watch(r)
    /\ UNCHANGED <<rooms_metainfo, rooms_metainfo_lock, pending_updates, stored, unsaved,
                   by_id, load, loaded, unread, fresh>>

\* One turn of the loop of load_rooms(), with the lock held.
Restore(r) ==
    /\ load = "restore" /\ r \in Known \ restored
    /\ restored' = restored \cup {r}
    /\ rooms_metainfo' = [rooms_metainfo EXCEPT ![r] = loaded[r]]
    /\ Create(r) /\ Watch(r)
    /\ UNCHANGED <<rooms_metainfo_lock, pending_updates, stored, unsaved,
                   by_id, load, loaded, unread, fresh>>

\* load_rooms() returns and drops its guard.
EndRestore ==
    /\ load = "restore" /\ restored = Known
    /\ load' = "list" /\ rooms_metainfo_lock' = None
    /\ UNCHANGED <<real, rooms_metainfo, pending_updates, stored, unsaved, missed,
                   by_id, loaded, unread, restored, fresh, watch>>

\* load() enters the rooms by id.
ListRooms ==
    /\ load = "list" /\ load' = "done"
    /\ by_id' = by_id \cup restored
    /\ UNCHANGED <<real, store, loaded, unread, restored, fresh, watch>>

-------------------------------------------------------------------------------
(* RoomList::handle_room_updates, once load() is over *)

\* A joined, invited or knocked room of an update: watched, and created first
\* if it is new.
UpdateRoom(r) ==
    /\ load = "done"
    /\ \/ r \in by_id /\ UNCHANGED <<real, missed, fresh>>
       \/ r \notin Created /\ Create(r) /\ fresh' = fresh \cup {r}
    /\ Watch(r)
    /\ UNCHANGED <<rooms_metainfo, rooms_metainfo_lock, pending_updates, stored, unsaved,
                   by_id, load, loaded, unread, restored>>

\* A left room that is new: nobody watches it.
LeftRoom(r) ==
    /\ load = "done" /\ r \notin Created
    /\ fresh' = fresh \cup {r} /\ missed' = missed \cup {r}
    /\ UNCHANGED <<real, rooms_metainfo, rooms_metainfo_lock, pending_updates, stored,
                   unsaved, by_id, load, loaded, unread, restored, watch>>

InsertRooms ==
    /\ fresh # {} /\ fresh' = {}
    /\ by_id' = by_id \cup fresh
    /\ UNCHANGED <<real, store, load, loaded, unread, restored, watch>>

\* A room that was forgotten is removed; the SDK does not bring it back.
Remove(r) ==
    /\ load = "done" /\ r \in by_id
    /\ by_id' = by_id \ {r} /\ restored' = restored \cup {r}
    /\ UNCHANGED <<real, store, load, loaded, unread, fresh, watch>>

\* A room's activity or read state changes: events, receipts, its timeline.
Change(r) ==
    /\ r \in Created /\ real[r] < MaxChanges
    /\ real' = [real EXCEPT ![r] = @ + 1]
    /\ UNCHANGED <<store, list, watch>>

-------------------------------------------------------------------------------
(* A watcher: update_rooms_metainfo_for_room and try_update_rooms_metainfo *)

At(w, step) == pc[w] = step
Goto(w, step) == pc' = [pc EXCEPT ![w] = step]

\* An observable has changed since the task last looked.
Wake(w) ==
    /\ At(w, "waiting") /\ real[room[w]] # seen[w]
    /\ seen' = [seen EXCEPT ![w] = real[room[w]]]
    /\ Goto(w, "insert")
    /\ UNCHANGED <<real, store, list, room, ids>>

Insert(w) ==
    /\ At(w, "insert") /\ Goto(w, "check")
    /\ pending_updates' = pending_updates \cup {room[w]}
    /\ UNCHANGED <<real, rooms_metainfo, rooms_metainfo_lock, stored, unsaved, missed,
                   list, room, seen, ids>>

\* The condition of the loop.
Check(w) ==
    /\ At(w, "check")
    /\ Goto(w, IF pending_updates = {} THEN "waiting" ELSE "try")
    /\ UNCHANGED <<real, store, list, room, seen, ids>>

\* Mutant: the lock is taken to be free.
TryLockAnyway(w) ==
    /\ At(w, "try") /\ Goto(w, "take")
    /\ rooms_metainfo_lock' = w
    /\ UNCHANGED <<real, rooms_metainfo, pending_updates, stored, unsaved, missed, list,
                   room, seen, ids>>

\* A task that finds the lock taken leaves its room to the one that has it;
\* but load_rooms() will not look.
TryLock(w) ==
    /\ At(w, "try")
    /\ IF rooms_metainfo_lock = None
       THEN rooms_metainfo_lock' = w /\ Goto(w, "take") /\ UNCHANGED missed
       ELSE /\ Goto(w, "waiting")
            /\ missed' = IF rooms_metainfo_lock = Loader
                         THEN missed \cup pending_updates ELSE missed
            /\ UNCHANGED rooms_metainfo_lock
    /\ UNCHANGED <<real, rooms_metainfo, pending_updates, stored, unsaved, list,
                   room, seen, ids>>

Take(w) ==
    /\ At(w, "take")
    /\ ids' = [ids EXCEPT ![w] = pending_updates]
    /\ pending_updates' = {}
    /\ Goto(w, IF pending_updates = {} THEN "unlock" ELSE "update")
    /\ UNCHANGED <<real, rooms_metainfo, rooms_metainfo_lock, stored, unsaved, missed,
                   list, room, seen>>

\* Mutant: only the last room looked at says whether the map is written.
UpdateLastChanged(w) ==
    LET found == ids[w] \cap by_id
        updated == [r \in Rooms |-> IF r \in found THEN real[r] ELSE rooms_metainfo[r]]
    IN  /\ At(w, "update")
        /\ rooms_metainfo' = updated
        /\ missed' = (missed \ found) \cup (ids[w] \ by_id)
        /\ \E last \in Rooms :
              Goto(w, IF updated[last] # rooms_metainfo[last] THEN "persist" ELSE "unlock")
        /\ UNCHANGED <<real, rooms_metainfo_lock, pending_updates, stored, unsaved,
                       list, room, seen, ids>>

\* The entries of the rooms that are in the list.
Update(w) ==
    LET found == ids[w] \cap by_id
        updated == [r \in Rooms |-> IF r \in found THEN real[r] ELSE rooms_metainfo[r]]
    IN  /\ At(w, "update")
        /\ rooms_metainfo' = updated
        /\ missed' = (missed \ found) \cup (ids[w] \ by_id)
        /\ Goto(w, IF updated # rooms_metainfo THEN "persist" ELSE "unlock")
        /\ UNCHANGED <<real, rooms_metainfo_lock, pending_updates, stored, unsaved,
                       list, room, seen, ids>>

\* Mutant: the set is cleared once its rooms are stored.
PersistAndClear(w) ==
    /\ At(w, "persist") /\ Goto(w, "unlock")
    /\ \/ stored' = rooms_metainfo /\ unsaved' = FALSE
       \/ unsaved' = TRUE /\ UNCHANGED stored
    /\ pending_updates' = {}
    /\ UNCHANGED <<real, rooms_metainfo, rooms_metainfo_lock, missed, list, room, seen, ids>>

\* The map is written, or the store fails and that is logged.
Persist(w) ==
    /\ At(w, "persist") /\ Goto(w, "unlock")
    /\ \/ stored' = rooms_metainfo /\ unsaved' = FALSE
       \/ unsaved' = TRUE /\ UNCHANGED stored
    /\ UNCHANGED <<real, rooms_metainfo, rooms_metainfo_lock, pending_updates, missed,
                   list, room, seen, ids>>

\* Mutant: a task that had the lock does not look for more.
UnlockAndWait(w) ==
    /\ At(w, "unlock") /\ Goto(w, "waiting")
    /\ rooms_metainfo_lock' = None
    /\ ids' = [ids EXCEPT ![w] = {}]
    /\ UNCHANGED <<real, rooms_metainfo, pending_updates, stored, unsaved, missed,
                   list, room, seen>>

\* The guard is dropped, and the loop goes on.
Unlock(w) ==
    /\ At(w, "unlock") /\ Goto(w, "check")
    /\ rooms_metainfo_lock' = None
    /\ ids' = [ids EXCEPT ![w] = {}]
    /\ UNCHANGED <<real, rooms_metainfo, pending_updates, stored, unsaved, missed,
                   list, room, seen>>

Step(w) ==
    \/ Wake(w) \/ Insert(w) \/ Check(w) \/ TryLock(w) \/ Take(w) \/ Update(w)
    \/ Persist(w) \/ Unlock(w)

Loading == ReadRecord \/ LockRecord \/ EndRestore \/ ListRooms \/ \E r \in Rooms : Restore(r)

Next ==
    \/ Loading \/ InsertRooms
    \/ \E r \in Rooms : UpdateRoom(r) \/ LeftRoom(r) \/ Remove(r) \/ Change(r)
    \/ \E w \in Watchers : Step(w)

Spec == Init /\ [][Next]_vars

\* Tasks run on; no room has to change, and no update has to come.
FairSpec ==
    /\ Spec
    /\ WF_vars(Loading) /\ WF_vars(InsertRooms)
    /\ \A w \in Watchers : WF_vars(Step(w))

-------------------------------------------------------------------------------
(* Properties *)

\* The lock is held by the task that is within its section, and no other is.
OneAtATime ==
    /\ rooms_metainfo_lock = Loader <=> load = "restore"
    /\ \A w \in Watchers : rooms_metainfo_lock = w <=> pc[w] \in Holding

\* The type invariant, and who holds the lock.
TypeOK ==
    /\ real \in [Rooms -> 0..MaxChanges]
    /\ by_id \subseteq Rooms /\ restored \subseteq Rooms /\ fresh \subseteq Rooms
    /\ rooms_metainfo \in [Rooms -> 0..MaxChanges]
    /\ stored \in [Rooms -> 0..MaxChanges]
    /\ loaded \in [Rooms -> 0..MaxChanges]
    /\ rooms_metainfo_lock \in Watchers \cup {None, Loader}
    /\ pending_updates \subseteq Rooms /\ missed \subseteq Rooms
    /\ load \in LoadSteps /\ unread \in BOOLEAN /\ unsaved \in BOOLEAN
    /\ pc \in [Watchers -> Steps]
    /\ room \in [Watchers -> Rooms]
    /\ seen \in [Watchers -> 0..MaxChanges]
    /\ ids \in [Watchers -> SUBSET Rooms]
    /\ OneAtATime

\* "we only want one operation at a time" (room_list.rs:658), and a task that
\* finds another at work may leave: a room that waits for an update has a task
\* that will look again, unless it was load_rooms() that had the lock.
PendingServed ==
    pending_updates \ missed # {} =>
        \E w \in Watchers : pc[w] \in Holding \cup {"check", "try"}

\* Between two updates the store has what the map has, unless a write failed or
\* the record could not be read.
StoreMirrorsMap ==
    rooms_metainfo_lock = None /\ load \in {"list", "done"} /\ ~unsaved /\ ~unread
        => stored = rooms_metainfo

\* Whatever changed is stored in the end: "the rooms metainfo that allow to
\* restore this RoomList from its previous state" (room_list.rs:123), but for
\* a room whose last change nobody asked to store: made before it was watched,
\* or asked for during the load or before the room was listed.
ChangesPersist ==
    \A r \in Rooms :
        <>[](r \in by_id \ missed /\ ~unsaved => stored[r] = real[r])

\* At any moment, and so after any crash, the store has for each room a value
\* the room had, and never goes back to an earlier one.
Record == INSTANCE RoomRecord WITH current <- real, kept <- stored, lost <- unread
RecordAdvances == Record!Spec
===============================================================================
