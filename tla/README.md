# Formal models of Commune

Commune is a Matrix client: a core library in Rust (`src/commune-core`), a GTK
application over it (`src/src`) and an Android application over the same core
(`src/android-kotlin`).  The core keeps its state in observable cells, reacts
to the Matrix SDK, and runs its work as tokio tasks.  The parts that are hard
to get right are those where several tasks, timers and callbacks share a few
fields.  This directory holds TLA+ modules of such parts, the TLC
configurations that check them on small instances, and proofs of their
safety that TLAPS checks for every instance.

All paths below are relative to the repository's root `src/`.

| Part | Module | Checked with | Proved in |
|---|---|---|---|
| Image request queue (`src/utils/media/image/queue.rs`) | `ImageQueue`, and `RequestService`, which says what it promises | `MCImageQueue`, two configurations | `ImageQueue_proofs`, `RequestService_proofs` |
| Connectivity and sync loop (`commune-core/src/session/mod.rs`) | `SessionSync` | `MCSessionSync` | `SessionSync_proofs` |
| Call signalling (`commune-core/src/session/calls/`) | `CallSignalling` | `MCCallSignalling`, four configurations | `CallSignalling_proofs` |
| Early candidates and outcomes of calls (the same) | `CallRecords` | `MCCallRecords` | `CallRecords_proofs` |
| Renegotiation and muting (the same, and `src/session/calls/call.rs`) | `CallNegotiation` | `MCCallNegotiation`, two configurations | `CallNegotiation_proofs` |
| Room list and its metainfo (`commune-core/src/session/room_list.rs`) | `RoomMetainfo`, and `RoomRecord`, which says what it promises | `MCRoomMetainfo` | `RoomMetainfo_proofs` |
| Identity verification (`commune-core/src/session/verification.rs`) | `IdentityVerification` | `MCIdentityVerification` | `IdentityVerification_proofs` |

The parts share no state in the code, but for the three about calls: the image
queue belongs to the GTK process, connectivity to a session, calls to the event
handlers of a session's client, the record to the list of rooms, a verification
to itself and its list.  A session's sync loop is what delivers call events, room
updates and verification requests, in the order of the room; the modules have
that order in their inboxes or their inputs, and so need nothing else of
`SessionSync`.  Calls are split by what they keep apart: `CallSignalling` is how a
call comes about and ends, between devices; `CallRecords` what one session keeps
beside the call it is in; `CallNegotiation` the two ends of one call once it is
answered.

## Inventory

### Image request queue
`src/utils/media/image/queue.rs`

* **State.** `limit`; the map `requests` from an id to a request with its
  priority, retries, task and timer; `queue_default` and `queue_low`, in order;
  `ongoing`, the ids that count against the limit; `stalled`, the ids that timed
  out.  A request has a broadcast channel on which its result is sent, and every
  caller a handle that receives from it.
* **Operations.** `add_download_request` / `add_file_request`, `spawn_next`,
  `remove_request`, `prepare_for_retry`, `mark_as_stalled`; the load, its ten
  second timer and the dropping of an unwanted request.
* **Interactions.** Loads run on the tokio runtime and end there; results are
  sent first, and the main context removes the request in a task of its own.
* **Hard.** Timer against end of load; delivery in two steps; retries that
  return to the head of a line while the limit goes down to one; callers that
  give up.
* **Correct when.** The lists, the map and the tasks agree; the pool is neither
  overfull nor idle while something waits; low priority yields to default; every
  caller that waits gets an outcome.

### Session connectivity and sync loop
`commune-core/src/session/mod.rs`

* **State.** `state`, `is_homeserver_reachable`, `is_offline`,
  `missed_sync_count`, the abort handles `sync_handle` and
  `reachability_retry`, the asynchronous `reachability_lock`.
* **Operations.** `prepare`, `network_changed`, `recheck_connectivity`,
  `report_homeserver_reachable`, `clean_up`, `update_homeserver_reachable` and
  its delayed retry, `set_homeserver_reachable`, `sync`, `handle_sync_response`,
  `set_offline`, `set_state`.
* **Interactions.** The embedder calls in from any thread when the network or
  the application's life changes; the checks and the loop are tasks that abort
  one another.
* **Hard.** Every field is read and written on its own; an abort takes effect
  only at an `.await`; a check cancels a retry before it knows whether it will
  probe; the state may be set by two tasks.
* **Correct when.** There is exactly one loop while the homeserver is taken
  to be reachable; a session that takes it to be unreachable has a probe or a
  retry under way; the state only advances; once the network is back the session
  syncs and says so.

### Calls
`commune-core/src/session/calls/mod.rs`, `call.rs`; `src/session/calls/call.rs`

* **State.** `Calls::active_call` and its end watch; `early_candidates`, those
  of calls not known yet; `outcomes` and `outcome_order`.  For each `Call` its
  `state`, `remote_party_id`, direction and invite lifetime,
  `pending_candidates`, `local_offer_pending` and its timeout, whether either
  end is muted.  In the GTK application the pipeline's signalling state and
  descriptions.
* **Operations.** `place`, `accept`, `reject`, `hangup`, `no_connection`,
  `note_connected`, the lifetime; the handlers of invite, answer, select_answer,
  reject, hangup, candidates, negotiate and stream metadata; glare; `send`;
  `note_outcome`; `set_muted`, `send_negotiate` and its timeout; the embedder's
  `handle_call_event` and `send_renegotiation_offer`.
* **Interactions.** Two users with several devices each, over the events of one
  room, whose order is the same for everyone but not the order in which one
  device decided to send.  The core tells the embedder of descriptions and
  candidates over a channel; webrtcbin answers it in turns of the main loop.
* **Hard.** Both users call at once; several devices answer; events overtake one
  another or are not sent at all; `place()` is suspended between its check and
  its effect; candidates come before the call they belong to; both ends offer a new
  description at once, or an answer comes late; outcomes are learned in any order.
* **Correct when.** A device has at most one call and it is the one events are
  matched against; both ends settle glare alike; the caller's selected device
  is the one in the call; a call never goes back; nothing rings for ever.
  Candidates reach the embedder once, in order, and none is held back.  Whatever
  is offered, both ends end with one description, and each shows the other's
  muting.  The outcomes agree with their order, and an answered call was not
  missed.

### Room list and its metainfo
`commune-core/src/session/room_list.rs`

* **State.** `by_id`, the rooms listed; the record of each room's latest activity
  and read state, as a map in memory behind an asynchronous lock and as a value in
  the state store; `pending_updates`, the rooms whose record is to be stored.
* **Operations.** `load` (read the record, restore the rooms, list them),
  `handle_room_updates`, `insert_rooms`, `remove`; a task per watched room, which
  asks for its room to be stored, and `update_metainfos`, which stores what was
  asked for.
* **Interactions.** Rooms change as the SDK reports; tasks on several threads
  share the set, the lock and the store.
* **Hard.** A task that finds the lock taken leaves, trusting the holder to look
  again; the load holds the lock itself and does not look; a room changes before it is
  watched or before it is listed; reads and writes fail, or the process ends.
* **Correct when.** No request is stranded; the store follows the map; what
  changed is stored in the end; and at any moment the store has a value the room
  had, never an older one than before.

### Identity verification
`commune-core/src/session/verification.rs`

* **State.** A `VerificationState`, over the SDK's state of the request and of the
  SAS or QR flow the request turns into; whether it was viewed, is dismissed, has
  its flow set; the handle of its two minute timer; its place in the list.
* **Operations.** The constructor, `handle_request_state`, `set_verification`,
  the handlers of either flow, the timer, `watch_room`; the embedder's `accept`,
  `start_sas`, `start_qr_code_scan`, `choose_method`, `qr_code_scanned`,
  `sas_match` and its kin, `cancel`, `dismiss`; `VerificationList::add` and the
  removal of what was dismissed; `Drop`.
* **Interactions.** One task per observable of the SDK; each is told that there
  was a change and sees the latest value.  The other side, the user's other
  sessions and the user act at any time.
* **Hard.** The constructor reads the state it has begun to follow; the flow is
  followed before it is stored; cancellation is two steps; the timer races
  acceptance.
* **Correct when.** A request that ended is shown as finished or leaves the list,
  and one nobody answers leaves it by itself.

### The rest of the core

| Component | State | Operations and what is hard about them | Correct when |
|---|---|---|---|
| TURN (`calls/turn.rs`) | one value and its expiry under an asynchronous mutex | concurrent requests, expiry | one request at a time, never an expired answer |
| Joins and knocks (`room_list.rs`) | pending joins | a join answered before or after its room is synced | no room stays pending |
| Room, members (`room/`) | loading states, receipts, typing | load raced by sync | loaded exactly once, nothing shown stale |
| Timeline, threads, search (`room/timeline.rs`, `room/thread_list.rs`, `room/search.rs`) | token, loading state, results | an answer to a superseded query | results belong to the query shown |
| Composer state (`room/composer.rs`) | drafts | | what is shown is what was stored |
| Session list (`session_list.rs`) | restored sessions in their order | tasks that fail one by one | the order is the stored one, failures are shown |
| Encryption (`security.rs`) | the SDK's states as seen here | observation only | what is shown is the latest |
| Remote caches (`remote/`) | caches of limited size, ages, pending requests | late answers, eviction while requested | one request per entry, no stale entry as fresh |
| Account data (`global_account_data.rs`, `image_packs.rs`) | settings shown and sent | echo of an older write | the last choice of the user stays |
| Notifications (`notifications/`) | push rules, settings | roll back of a failed update | what is shown is what the server has |
| User sessions (`user_sessions.rs`) | list | refresh | |
| Login, account, room creation, directory | forms and errors | requests in sequence | |
| Secrets, settings, updates | files, secret store, installer | input and output | |
| Matrix helpers, rich text, previews | none | conversions | |
| Foreign interface (`facade.rs`), GTK and Android applications | widgets | bindings | |

## Plan

Done, in the order of how much depends on them and how little a test reaches
them: `ImageQueue` with `RequestService`, `SessionSync`, `CallSignalling`,
`RoomMetainfo` with `RoomRecord`, `CallRecords`, `CallNegotiation`,
`IdentityVerification`.

To come:

1. The operations of modelled parts that are missing: the batches our own
   candidates are sent in, a flow of a verification that replaces another, joins
   and knocks of the room list.
2. `CallSlot`: `set_active_call`, the end watch and `set_state` at the grain of
   single accesses, two threads; `CallSignalling` is what it should implement.
3. `SessionRestore`: the tasks that restore stored sessions, their order and
   failures.
4. `RemoteCache`: entries requested, answered late and evicted.
5. `Search` and `ThreadList`: pagination with a token, raced by a new query.
6. An abstract `Connection` (reachable or not, syncing or not, eventually agreeing)
   that `SessionSync` implements on one thread.

Theorems: every invariant and every action property of the runs is proved, and both
refinements are.  To come are those of the modules above, and what `SessionSync`
keeps with several threads and `CallSignalling` with `place()` suspended beyond
their types and the order of states.

## `ImageQueue`

**Correspondence.** `Ids` are the request ids (one per image source).  `limit`,
`queue_default`, `queue_low`, `ongoing` and `stalled` are the fields of
`ImageRequestQueueInner`; its map `requests` is the ids with a `priority`, and
`retries` their retry counts.  `tasks` are the live tasks, each an id and how far
it is: spawned, loading with its timer armed, overdue once the timer fired,
with a result to deliver, and with the result sent but the request not yet
removed.  `handle` is what each caller has: nothing yet, waiting, waiting on a
channel whose only result is past (`late`), an outcome, or a closed channel.  The
queue lives behind a mutex and every method runs with it held, so a
method is one action, its `spawn_next()` included; a task takes several actions,
between which anything else may run.

**What it promises.** `RequestService` knows neither lines, priorities, tasks nor
retries: an image that somebody waits for has a request until it is answered,
whoever waits is answered at once and together, a request nobody waits for may go
at any time, and only one who asks between the answer and the end of the request
is turned away.  `CallersServed` says that `ImageQueue` implements it, with the
ids that have a request as `open` and those of the tasks that have sent their
result as `answered`.

**Abstracted.** What is loaded, and decoded to what.  A load may fail in a way
that is retried, fail otherwise, or succeed; whichever it is, is an input.  Loads
in `Stuck` never end: it is what makes the timer necessary.

| Run | Bounds | Shows |
|---|---|---|
| `image_queue` | 3 images, 3 callers, pool of 2, 1 retry | `TypeOK`, `InSync`, `NoIdleCapacity`, `PoolBounded`, `LowYields`, `CallersServed` |
| `image_queue_live` | 2 images, one of them stuck, 2 callers, pool of 1 | `QueueAdvances`, `EveryHandleSettles` |

Three images over a pool of two are the least with which one request waits while
two run, each at either priority; one retry is enough for the limit to fall and
for the last retry to be refused.  Callers ask once: more calls repeat the same
states with another handle.  Images and callers are interchangeable, so the safety
run uses their permutations as symmetry; the liveness run does not.

**Fairness.** Every load not in `Stuck` ends, every timer fires, every delivered
request is removed: these are tokio tasks and timers.  No caller has to ask or to
give up.

**Proofs.** For any sets of images and callers, any limit of at least one and any
number of retries, every property of `image_queue` is proved.  `InSync`,
`NoIdleCapacity` and `PoolBounded` are not inductive by themselves: `PoolBounded`
needs that ongoing requests are not also in a line (or `spawn_next` would count one
twice), and `InSync` that a line has no duplicates.  `Ready` collects this - the
lines have no duplicates and hold requests of their priority, are disjoint from
`ongoing`, whatever waits has no task and whatever does not has one, `ongoing` is
finite and within the bound - as a predicate of seven arguments, because the same
facts are wanted of intermediate values: `SpawnNextKeeps` says that `spawn_next()`
takes a state that is `Ready` to one that is, and leaves no idle capacity.  `IInv` is
`Ready` of the current state with `NoIdleCapacity`, and was itself checked by
TLC on the instance of `image_queue`.  The step lemma has a case for each action;
each shows `Ready` of what the action hands to `spawn_next()` and cites the lemma.
The first lemmas (`InConcat` to `AppendToLine`) are about sequences: `spawn_next()`
takes a prefix of one line, then of the other.  `LowAfterDefault` is an action
property from the same step lemma.  `ServiceImplemented` builds on the same
invariant with `CallersInv`, which says what the lists and tasks say of each caller,
and shows of every action the abstract step it is; what `spawn_next()` drops is what
nobody awaits (`SpawnNextDrops`).

## `SessionSync`

**Correspondence.** An actor is a call of one of the entry points, a
retry task or a sync loop; `pc` is where it stands.  A step is one access to a
shared field, or one `.await`; this is the grain at which threads interleave,
since each field is behind its own lock or atomic.  `Awaiting` are the points
at which an actor is suspended or has not started, `Running` those within a
poll.  At most `Threads` actors are `Running`: with one, a poll is atomic with
respect to the others; with two any two polls mix.  An aborted task
ends at its next `.await`, which is what `Await` says.  `up` is the network, which
`Flip` changes: external.  The type invariant bounds `missed_sync_count` by the
length of the table of delays it indexes.

**Abstracted.** The profile, tokens and stored data; the wording of errors;
how long delays are; which requests the loads make.

| Run | Bounds | Shows |
|---|---|---|
| `session_sync` | one each of `prepare`, `network_changed`, recheck, report and `clean_up`; two retries, two loops; one thread; two network changes; one miss is the threshold, two the end of the table | `TypeOK`, `SyncTracksReachability`, `MissesMeanOffline`, `RetryPending`, `ProbesExclusive`, `StateAdvances`, `Recovers` |

Two retries and two loops are the least with which an old one, aborted and not
yet ended, exists together with its successor; a slot is used again once its
task has ended, so the runs of a task are not bounded.  The count of misses before,
at and past the threshold is reached.  The network may go and come back; `Recovers`
is about what follows the last change.  The run has one thread: with two,
`SyncTracksReachability`, `RetryPending` and `StateAdvances` do not hold (see
Disagreements).  A system in which every call was made and whose session was logged
out comes to rest, so deadlock is not checked.

**Fairness.** Every actor that can take a step does so in the end: tokio runs its
tasks, its timers fire, and a probe or a poll ends with an answer or a failure.
The entry points need not be called, except for `prepare()`, which every session
is.

**Proofs.** `TypeCorrect` and `ProbesExclude` hold for any sets of calls and
tasks and any number of threads.  The second needs that the lock is held exactly
by an actor between its `try_lock` and its release, even when it was aborted
meanwhile (`LockInv`), and what each actor carries with it (`LocalInv`).  The
others assume `Threads = 1`, for any number of calls and tasks, and are built in
layers, each of which rests on those before:

* `SeqInv`: at most one actor is between two awaits (`OneRuns`), `KindInv` and
  `StateInv`: what `prepare()` or a loop is about to set is not behind the state.
  `StateOnlyAdvances` follows: `set_state()` reads and then writes, and only an
  actor alone in its poll writes on the strength of what it read.
* `TaskKinds`: which steps each kind of actor takes, that an actor on its way to
  the lock has emptied the retry slot, and that nobody is aborted within a poll.
* `HandleInv`: `sync_handle` is the only loop there is, or is empty while an actor
  exchanges it; outside of such an exchange it is there exactly when the state and
  the reachability ask for it.  `SyncTracks` is what this says at an await.
* `RetryInv`: the slot names the retry that sleeps; whoever releases the lock leaves
  a retry or a reachable homeserver behind; and if neither lock nor slot are taken
  although the homeserver is thought unreachable, a check is on its way to the lock
  or a better answer on its way to be applied.  `RetryIsPending` follows.
* `MissInv`: the count a loop has read is still the current one when it stores it,
  and a loop that goes past the threshold went offline before.  `MissesCount`
  follows.

With two threads all but the first two theorems are false.

## `CallSignalling`

**Correspondence.** `state[d][c]`, `party[d][c]` and `active[d]` are a call's
state and remote party and the session's active call at each device.  The
handlers of a device run in one task, one event after the other, and await
nothing between their check and their effect, so each is an action.  `outbox` holds
events whose sending task has not run; `Send` moves one into the inbox
of every other device, which gives the room its one order.  `placing` are devices
suspended within `place()`; with `Suspends = FALSE` the room's permissions and
members are at hand and `place()` is one action.

With `MayLeave = TRUE` either user may leave the room, or be banned, at any moment
(`Leave`).  From then on the server takes none of their events and gives them none;
what was sent before still arrives.  `HandleMemberLeft` is what the other devices do
about it: the room's own handler of member events calls `handle_member_left()`, in a
task that is not the signal task, so in any order with the signals that are queued.
It ends the active call and tells nobody.  A call may be placed afterwards, since the
count of members that `can_call()` asks for is brought up to date by yet another task.

**Abstracted.** Session descriptions; other rooms; candidates, outcomes,
renegotiation and muting, which have modules of their own.  Call ids are drawn at
random in the code; here they are drawn from `CallIds` in any order and each
once, since glare compares them.  The user at the other end of a call is taken to
be known: `other_member()` of a room that is not a direct chat, whose members are
loaded for the first time just as one leaves, finds nobody, and such a call ends by
the lifetime of its invite.  A user leaves once, and does not come back.

| Run | Bounds | Shows |
|---|---|---|
| `call_glare` | one device each, two call ids, nothing lost, `place()` not suspended | `TypeOK`, `AtMostOneCall`, `GlareSettles`, `CallsAdvance` |
| `call_devices` | two devices of the callee, one call id | `SelectedPartyIsIn` |
| `call_live` | one device each, one call id, `place()` suspended, one event lost, a user may leave | `PendingEnds`, `HalfCallsEnd` |
| `call_one` | one device each, two call ids, `place()` suspended | finds `AtMostOneCall` violated |

Two ids are what glare takes: each user places one, and a second call after the
first has ended is reached as well.  Two devices are what selection takes; they are
interchangeable, and the run uses that.  One lost event is enough to leave the ends
in disagreement, and which one is lost is any.  Nobody leaves in `call_glare` and
`call_devices`: what they say of two users who settle supposes that both are there, and
that `AtMostOneCall`, `CallsAdvance` and the types survive a user's leaving is proved.

**Fairness.** Signals are handled, tasks that send run or fail, ended calls are
forgotten, member events are handled, invites expire, and a call whose media does not
come up is reported by the embedder (`no_connection`).  Nobody has to place, accept,
hang up or leave.  `HalfCallsEnd` needs both of the last means: media goes on flowing to a
user who left the room, so only the member event ends that call, while the user who
left learns of it only as the media dies.

**Finding.** *Two calls at once* (`call_one`).  `place()` checks that there is no
active call, awaits the room, and makes its call active without looking again.  An
invite handled meanwhile is displaced: it rings on, and neither events nor a hangup
reach it.  `GlareSettles`, too, holds only where `place()` is not suspended.

**What glare does not settle.** With three calls both users may still be dialling when
everything has arrived.  Bob dials 1, and Alice 2; Bob ignores the invite to 2, because 1
wins.  Bob gives 1 up and dials 3.  Alice gets to the invite to 1 only now, ignores it as
too old (`mod.rs:677`), and ignores the invite to 3, because 2 wins.  Nothing was lost, and
the comment at `mod.rs:710` does not hold: an ignored invite is gone, but the call it was
ignored for may be over before the other end has heard of it.  It takes a sync that lags
by an invite's lifetime.  `GlareSettles` allows this case and no other: both may still be
dialling only if the one with the greater id had a call of a lesser id still, and gave it
up.  TLC shows the case with `MCCallGlare.cfg`, the three ids `{1, 2, 3}` and `FALSE` for
the last line of the property.  Three ids are too many for a run to finish, so for them
the property rests on its proof.

**Proofs.** For any devices, call ids and number of lost events, and whoever leaves,
`CallSignalling_proofs` proves `TypeOK` and `CallsAdvance`, and where `place()` is not
suspended `AtMostOneCall`, `GlareSettles` and `SelectedPartyIsIn`.  That a call never goes back is not inductive:
`handle_invite()` makes a ringing call of an invite without asking whether the
device had that call before (it only drops those of its own user), so an invite
handled twice would bring an ended call back to ringing.  `Fresh` excludes it: an
invite still to be sent or still in an inbox is to a call the device does not know,
and no inbox holds two to the same call; a call id that nobody drew is
unknown everywhere.  `IInv` adds `ActiveKnown`, that an active call is one
the device has, since the handlers act on it; TLC checked `IInv` on the
instance of `call_glare`, with `place()` suspended as well.  The proof has three
layers: lemmas about lines of events (`TailRings`, `AppendRings`), a lemma for each
operation of the embedder, each timer and `send()`, and for the signal task the
predicate `Handles` - what any handler may do - with one lemma that each handler
does no more and one, `HandlerMoves`, that this is enough.  `OneCall` has an
invariant of its own: nobody is within `place()`, and `AtMostOneCall`.  Its
assumption cannot go, as `call_one` shows.

`GlareSettled` and `SelectedIsIn` speak of the moment when nothing is on its way any more;
what is needed before is who still counts on what.  `Roles` says who plays which part: who
dials placed the call, who placed it has for its party the device whose answer it took, who
rings has the placer.  `AllSaid` says what an event is true of while it is on its way: a
hangup is of a call over at its sender, a selection names the party of the placer.  `Tale`
is the story, told while nothing was lost and nobody left: of a call that is dialled the
other user has yet to be invited, knows it, or ignored it for an earlier one (`Invited`);
what somebody rejected is over for the placer or will be (`Rejected`); the device whose
answer was taken, or still may be, is in the call or has what ends it on its way (`Taken`);
every other device has the call over, will be told, *after* its invite, or never learns of
it (`Dismissed`).  `Dismissed` needs the order of the line and the rest of the invariant the
absence of a second invite, which is `Fresh`.  A step is looked at once: `Effects` says what
it does to a call and what the events it makes known stand for, `Told` what an event makes
of the device that acts on it, and `ComingKept` that an event stays on its way until it is
acted on; the four steps of `Tale` follow from these alone, without the actions.  TLC
checked the invariant with one device for one user and two for the other, an event lost and
a user leaving, and in part with two devices each and with three ids.

## `CallRecords`

**Correspondence.** One session and the signals its task handles, in any order the
room may have.  `active_call`, `early_candidates`, `outcomes` and `outcome_order` are
fields of `Calls`, `state` and `pending_candidates` of each call.  A candidate is a
batch: the call it is of, its place among those of that call, and whether another
device than the call's party sent it (`Foreign`).  `delivered` is what the embedder
was handed.  `old` are the batches held for longer than their lifetime: `GrowOld`
lets time pass.  `accept()` is two actions, since the signal task may run between its
handing over of what is pending and the change of state; `overtaken` remembers that
it did.

**Abstracted.** What candidates and descriptions say.  The handlers' decisions about a
call - whether an invite rings, whether an answer is the right one - are those of
`CallSignalling` and are choices here; what they do to candidates and outcomes is
not.

| Run | Bounds | Shows |
|---|---|---|
| `call_records` | 3 calls, of which 2 may become active; 3 batches, two of one call and one of a foreign device; 2 batches held, 2 outcomes remembered | `TypeOK`, `OutcomesInOrder`, `DeliveredInOrder`, `NothingHeldBack`, `AnsweredIsNotMissed`, `HeldUntilClaimed` |

Three calls with two outcomes remembered and three batches with two held are what
it takes to reach both limits with something left to displace; two batches of one
call are what order needs.

**Proofs.** Every property, for any calls, batches and limits.  `OrderKept` and
`AnsweredStays`: every step either leaves both fields alone or is `NoteOutcome`
(`StepLearns`), and that keeps them in agreement, whether it appends, forgets or merges
(`NoteKeepsOrder`).  The candidates are kept in sequences that are filtered - those of one
call, those still young - which `Only` writes as a recursive function.  That it yields
exactly the elements asked for, in their order, takes induction; the library's theorem for
it is out of reach, so the module has its own: a set of naturals that has some number has a
least one (`NatMin`), hence a set with 0 that is closed under successors has them all
(`SetInduction`), and the set in question is of the lengths up to which `Only` is what it
should be, together with where each element it keeps came from (`Leaves`, `OnlyLeaves`,
`OnlyKeeps`).  `CandidatesInv` is what `DeliveredInOrder` and `NothingHeldBack` need: what
has arrived of a call is earlier than what has not (`ArrivedInv`); early, pending and
delivered candidates are in order, and what a ringing call holds comes after what it was
delivered (`OrderInv`); only the active call is live, and a call is known once it has a state
(`CallsInv`); a call holds something only where the code would hand it over, and nothing
is early for the active call (`HeldInv`), or a batch could wait in one place while a later
one passes through another.  `HeldStays` is an action property of `Hold` and `Replay`.

## `CallNegotiation`

**Correspondence.** The two ends of one call from the moment the callee accepts.
`core` are fields of `Call` in the library; `creating`, `made`, `signaling`, `local` and
`session` are the GTK application and its pipeline: an offer is created in one turn of
the main loop, made the local description, and sent in another.  A description is
named by the end and number of the offer it belongs to.  `outbox` are events whose
sending tasks have not run, `inbox` what the room has for an end, `events` what the
core told the embedder.  What goes wrong is named in `faults`: an event lost,
overtaken by a later one, stale when it was handled, or an offer that went unanswered
for its lifetime.  Each property says which of them it survives.

**Abstracted.** Media, and what a description says.  webrtcbin is external: it has a
signalling state, asks for an offer only when that is stable, refuses an offer in
`have-local-offer` and an answer elsewhere.

| Run | Bounds | Shows |
|---|---|---|
| `call_negotiation` | up to 1 + 2 offers without muting, or one offer and a change of muting at each end; an event may be lost | `TypeOK`, `NegotiationSettles`, `AnswersMatch`, `MutingIsShown`, `PendingIsTimed` |
| `call_renegotiation` | the same, nothing lost | finds `CallSurvives` violated |

One offer of each end is what crossing takes, and a second one of either what it takes for
an answer to be late; the callee and the caller differ in who gives way, so either may be
the one with two.

**Finding.** *A renegotiation ends the call* (`call_renegotiation`).  An offer that
arrives after `create_description()` made ours the local description and before
`send_negotiate()` marks it as pending is passed on as one that crosses nothing;
webrtcbin refuses it, and the pipeline's error hangs the call up.  The same happens
after an offer of ours went unanswered: the timeout clears the mark, and nothing rolls
webrtcbin back.

**Proofs.** Every invariant, for any number of offers and changes of muting, and whether
or not events are lost.  `MutingShown` follows what an end has said on its way: `Said`
is what the last of its events says, wherever that event is - waiting to be sent, on
its way, or already shown - and `SaidInv` that it is the truth once the call has
connected.  It is not before: the caller said nothing of what it did since its
invite, which is why `note_connected()` says it again.

`AnswersAreMatched` and `NegotiationSettled` look at everything one end has made and the
other has not acted on as one line (`Line`: what the embedder made, what waits to be sent,
what the room has, what the other embedder was told), and at how often something is in it -
not at all, once or more often (`Times`) - and whether one thing follows another
(`Follows`).  Neither property is inductive.  `BargainInv` is what they rest on, as long as
no offer went unanswered and no event overtook another: an offer and the answer to it are
one token that its end waits for, and there is at most one (`Tokens`).  An answer under way
is therefore always to the offer that is the local description.  For that to stay so, the
offers an end has given up must do no harm: they are ignored, or find an offer of the other
end in their way (`VoidIgnored`), they do not come behind an answer, which would clear the
wait that makes the other end ignore them (`VoidBefore`), an end has no answer to make after
an offer of its own (`OfferLast`), and an end waits exactly for what it sent (`Waits`,
`Pends`).  `CountInv` adds that offers have fresh numbers and that the caller has none before it
is answered.  `SettleInv` is the other half, for a run without any fault: who has an offer
made has its token on the way (`Comes`), and the two sessions are of one description but for
an answer that is (`Agree`); with nothing on the way this is `NegotiationSettles`.  The
proof goes by action, and for each by what the action does to the lines (`Fewer`: nothing
more than before and in no other order; one more at the end; the first one taken).  That
`Times` and `Follows` of a concatenation are what they should be needs no induction: both
are stated by quantifiers over positions.

## `RoomMetainfo`

**Correspondence.** `rooms_metainfo`, its lock, `pending_updates` and `by_id` are the
code's; `stored` is the value in the state store.  A room's activity and read state are
a number that grows with each change, `real`: an entry is right when it has the same
number.  A watcher is the task of `watch_room()`, with one action for each access of
the set, the lock, the map and the store; `seen` is what it last saw of its room, since
it is told of changes and reads the latest.  `load()` is five steps, of which those
between `LockRecord` and `EndRestore` hold the lock.  `fresh` are the rooms that
`handle_room_updates()` has created and `insert_rooms()` has not listed yet.

**Abstracted.** What the record has of a room.  Joining and knocking, the order of the
list, other users of the list.  `missed` is not in the code: it has the rooms with a
change that no request in the set stands for.  They are the changes made before a room is
watched, those whose task woke before the room was listed, those whose task found
`load_rooms()` with the lock, and those a failed read took away.

**What it promises.** `RoomRecord`: the record has of every room a value that room had,
and moves on to a later one or not at all.  It says what is in the store at any
moment, hence what the next start reads after a crash at that moment.  A record that
cannot be read starts over.

| Run | Bounds | Shows |
|---|---|---|
| `room_metainfo` | 2 rooms, one of them restored, 2 watchers, 2 changes of each room; a read and any write may fail | `TypeOK`, `PendingServed`, `StoreMirrorsMap`, `ChangesPersist`, `RecordAdvances` |

Two watchers are what it takes for one to leave because another has the lock; a
second change is one that comes during the storing of the first.  Restored and new rooms
differ, so there is one of each.

**Fairness.** The load, the listing of rooms and the tasks run on.  No room has to
change and no update has to come.

**Proofs.** All of the run's properties but `ChangesPersist`, for any rooms and any
number of tasks.  The invariant says what the map has while it is loaded (`LoadInv`), that
no value is ahead of its room nor the store ahead of the map (`OrderInv`), and that the two
differ only on the way to a write or after one failed (`SavedInv`).
`RecordImplemented` is the refinement: `Persist` is the abstract `Save`, a failed read
`Lose`, and every other step a change of a room or nothing.

## `IdentityVerification`

**Correspondence.** One request, of either side.  `request` and `flow` are the SDK's states
of it and of the SAS or QR verification it turns into: external, moved by the other side
(`Other`), by the user and by the handlers.  `state`, `was_viewed`, `dismissed` and `stored`
(whether the verification is set) are the fields of `IdentityVerificationInner`, `timer` and
`room` two of its tasks, `list` its place in `VerificationList`.  A handler is the
constructor (`new`), the task that follows the request, or a task that follows the flow,
which the constructor or the request's task spawns; `pc` and `val` are where it is and the
value it read.  `news` are the tasks whose observable changed since they looked: they are
told that it did, and see the value it has by then.  `cancel()` is two steps: the
SDK's cancelling and its answer.

**Abstracted.** Emoji and codes; several flows after one another; duplicates in the list;
how requests come about; a screen that lags behind - the embedder acts on the state
there is, and lets go of a verification once it left the list; a timer already past its
sleep when it is stopped.  Two things the code does are named as faults, and exempt from
`OutcomeShown`: a `cancel()` that could not be sent (`unsent`), and a state the constructor
read and set after the tasks had set a later one (`stale`).

| Run | Bounds | Shows |
|---|---|---|
| `verification` | requests of either side; in common none of the methods, SAS and a code to show, or a code to scan | `OutcomeShown`, `LeavesByItself` |

The three sets of methods lead to the request being cancelled, to SAS and either role of
a QR code, and to each of the handlers' branches; the proof covers all eight.

**Fairness.** Each handler runs on and what it awaits ends; the timer fires, the list is
kept, a `cancel()` under way ends.  Neither the user nor the other side has to do anything.

**Proofs.** `TypeCorrect` and `EndShown`, for any sets of methods.  `OutcomeShown` speaks of
a quiet moment; `Carried` says who, before that, still has the end of the request to show:
the constructor, the task of the request, a task of the flow, or a `cancel()` under way.
For it to be handed on one needs that whoever works with a value that is no longer so has
news to see (`NewsOfThePast`), what the flow is once the request ended (`FlowEnds`), and
that a flow is stored soon after it is followed (`StoredSoon`, `FlowIsThere`): the handlers
of SAS do nothing until it is.  `Shape` is who does what, `CancelDismisses` what becomes of
our own `cancel()`.  There is one lemma per action; TLC checked the invariant with all eight
sets of methods.

## Disagreements

Between the code and its own words, met while modelling, beside the two findings that have a
run (`call_one`, `call_renegotiation`).  The models have those that concern them, and the
properties are stated so that they hold nevertheless.

Image queue:

* `spawn_next()` leaves its loop by a `return` when nothing waits, so the line that restores
  the limit is reached only while the pool is full, when `ongoing` is not empty: after one
  retry the pool is one for good (`src/utils/media/image/queue.rs:373`: "If there are no
  ongoing requests, restore the limit to its default value.").
* Between the sending of a result and the removal of its request a new caller finds the
  request (line 195), subscribes to a channel whose only value is past, and gets an error:
  `RequestService` names it, `late`.
* A call of high priority that finds a request waiting shares it with the priority it has, and
  so waits (line 195), where line 671 says what high priority is for.
* `stalled` keeps ids of requests that are gone (line 270, against line 70).

Connectivity (`commune-core/src/session/mod.rs`):

* With two threads the retry may be lost: a check cancels the retry another has armed and then
  finds the lock not yet released, returns, and nothing probes any more (against line 978).
* A probe in flight re-arms the retry that `clean_up()` dropped (line 1291), and that one the
  next.
* With two threads two sync loops may run: the slot is replaced, not aborted (line 1117,
  against line 815); and `set_state()` may overwrite `LoggedOut` (line 880, against line 875).
* `recheck_connectivity()` clears `is_offline` of a session whose homeserver is known to be
  unreachable, and the check that follows finds nothing changed (line 999).

Calls (`commune-core/src/session/calls/`):

* Glare among three calls may leave both users dialling (`mod.rs:677` and 748, against line
  710), as described under `CallSignalling`.
* An invite is refused as busy because of a call that ended and that the end watch has not
  forgotten yet (`mod.rs:391` and 691, against line 717).
* Candidates that the signal task takes in between `accept()`'s handing over and its change of
  state stay in a list that nobody reads again (`call.rs:506`, against line 475); `overtaken`
  exempts them from `NothingHeldBack`.
* A call that was answered, then declined by another device's late reject, and hung up becomes
  missed (`mod.rs:872`); `AnsweredIsNotMissed` is about one step.
* Two changes of muting may reach the other end reversed, each being sent by a task of its
  own, and the older one is then shown; likewise a hangup may overtake the invite it withdraws
  (`call.rs:1353`, against line 1341), and the callee rings until the invite's lifetime ends.

Verification (`commune-core/src/session/verification.rs`):

* `follow` of the foreign interface (`commune-core/src/facade.rs:7005`) says that it follows a
  verification to its end; one that is dismissed without a change of its state it follows for
  ever, and reports neither done nor cancelled.
* A `cancel()` whose message fails leaves a request that is cancelled and shown as under way.
* What is shown as `RoomLeft` is overwritten by a state set later, such as `Ready` after a code
  was loaded, although "nothing can be done with it" then (line 322).
* `choose_method()` and `start_qr_code_scan()` do not look at the state: on a screen that lags
  they bring a finished verification back.
* The constructor reads the state after it has begun to follow it, and may apply what it read
  after the task has applied something later; a timer past its sleep may dismiss a request that
  was just accepted.
* A duplicate given to `VerificationList::add()` is dropped, and dropping it cancels the
  request it shares with the one in the list.

## What is proved and what is only checked

The theorems rest on the modules' named assumptions: disjoint sets of
model values, two users with a device each at least, limits of at least one, counts
that are naturals.
Every passing run evaluates them.

| Module | Proved | Only checked |
|---|---|---|
| `ImageQueue` | `TypeOK`, `InSync`, `NoIdleCapacity`, `PoolBounded`, `LowYields`, `CallersServed` (refinement) | `QueueAdvances`, `EveryHandleSettles` |
| `SessionSync` | `TypeOK`, `ProbesExclusive`; for one thread `StateAdvances`, `SyncTracksReachability`, `RetryPending`, `MissesMeanOffline` | `Recovers` |
| `CallSignalling` | `TypeOK`, `CallsAdvance`; where `place()` is not suspended `AtMostOneCall`, `GlareSettles`, `SelectedPartyIsIn` | `PendingEnds`, `HalfCallsEnd` |
| `CallRecords` | `TypeOK`, `OutcomesInOrder`, `AnsweredIsNotMissed`, `DeliveredInOrder`, `NothingHeldBack`, `HeldUntilClaimed` | |
| `CallNegotiation` | `TypeOK`, `PendingIsTimed`, `MutingIsShown`, `AnswersMatch`, `NegotiationSettles` | |
| `RoomMetainfo` | `TypeOK`, `PendingServed`, `StoreMirrorsMap`, `RecordAdvances` (refinement) | `ChangesPersist` |
| `IdentityVerification` | `TypeOK`, `OutcomeShown` | `LeavesByItself` |

What is only checked is liveness (`QueueAdvances`, `EveryHandleSettles`, `Recovers`,
`PendingEnds`, `HalfCallsEnd`, `ChangesPersist`, `LeavesByItself`): it rests on fairness and so
on `ENABLED`, which the prover does not treat.  Two properties are false of the code and found
so by their runs: `AtMostOneCall` where `place()` is suspended, and `CallSurvives`.  That
`AtMostOneCall`, `GlareSettles` and `SelectedPartyIsIn` assume `place()` not to be suspended,
and three of `SessionSync` a single thread, is not for the sake of the proofs: without it
they do not hold.

## Not modelled

Of the operations of the modelled parts: the sending of our own candidates; the profile, the
stored tokens, and the lazily built parts of a session; joining and knocking; how verification requests come about.

Of the rest, most of the code has no state of its own that several actors change: the GTK and
Android applications are widgets bound to the core's cells, the foreign interface forwards each
call, the helpers convert and parse, and secrets, settings and updates are input and output.
What is left and has such state - the restoring of sessions, remote caches, search,
timeline, account data, notifications - is in the plan or in the table of the inventory.

## Running

    tlc -config MCImageQueue.cfg MCImageQueue
    tlapm ImageQueue_proofs.tla

A configuration is named after its module, or after the question it asks of it:
`MCImageQueueLive` is of `MCImageQueue`; `MCCallGlare`, `MCCallDevices`, `MCCallLive` and
`MCCallOne` are of `MCCallSignalling`; `MCCallRenegotiation` is of `MCCallNegotiation`.  Each
run ends within five minutes on two cores.  Deadlock is not checked: every one of these systems
may come to rest, because all its calls were made, its rooms have no more changes, or its
verification has left the list; that something goes on where it has to is what the liveness
properties say.

Definitions marked as mutants (`CompareAndReturn`, `HandleAnswerAnyState` and others), which
`Next` does not use, are faults that a change of the code could bring; each breaks the property
it is paired with in `PROJECT.json`.
