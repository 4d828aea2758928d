------------------------------ MODULE SessionSync ------------------------------
(***************************************************************************)
(* Connectivity and the sync loop of a session,                            *)
(* src/commune-core/src/session/mod.rs: prepare(), the reachability check  *)
(* and its ten second retry, recheck_connectivity(),                       *)
(* report_homeserver_reachable(), clean_up() after a logout, and the sync  *)
(* loop with the way it counts missed syncs.                               *)
(*                                                                         *)
(* Each call and each task is an actor.  pc[a] is the next access of a to  *)
(* the shared cells of SessionInner.  Between two awaits an actor runs on  *)
(* a worker thread; at most Threads do at once.  With Threads = 1 a        *)
(* stretch between two awaits is atomic; the runtime of the library        *)
(* (lib.rs:46) has a thread per core.                                      *)
(***************************************************************************)
EXTENDS Naturals, FiniteSets

CONSTANTS
    Prepare,    \* the call of prepare()
    Checks,     \* calls of network_changed()
    Rechecks,   \* calls of recheck_connectivity()
    Reports,    \* calls of report_homeserver_reachable()
    Logouts,    \* clean_up(), from log_out() or an UnknownToken change
    Retries,    \* tasks re-probing after REACHABILITY_RETRY_DELAY
    Loops,      \* sync loop tasks
    None,       \* no task
    Threads,    \* bound: worker threads
    MISSED_SYNC_OFFLINE_COUNT,
    MaxMissed,  \* MISSED_SYNC_DELAYS.len() - 1
    MaxFlips    \* bound: how often the network comes or goes

Calls == {Prepare} \cup Checks \cup Rechecks \cup Reports \cup Logouts
Tasks == Retries \cup Loops
Actors == Calls \cup Tasks

ASSUME NoneAssumption == None \notin Actors
ASSUME FiniteAssumption == IsFiniteSet(Actors)
ASSUME KindsAssumption ==
    /\ Prepare \notin Checks \cup Rechecks \cup Reports \cup Logouts \cup Tasks
    /\ Loops \cap (Retries \cup Checks \cup Rechecks \cup Reports \cup Logouts) = {}
    /\ Retries \cap (Checks \cup Rechecks \cup Reports \cup Logouts) = {}
    /\ Logouts \cap (Checks \cup Rechecks \cup Reports) = {}
    /\ Reports \cap (Checks \cup Rechecks) = {}
ASSUME CountAssumption ==
    /\ MISSED_SYNC_OFFLINE_COUNT \in Nat /\ MaxMissed \in Nat /\ MaxFlips \in Nat
    /\ MISSED_SYNC_OFFLINE_COUNT < MaxMissed

States == {"LoggedOut", "Init", "InitialSync", "Ready"}

\* Where an actor waits, rather than runs.
Awaiting == {"check", "recheck", "report", "logout", "probe", "load", "poll",
             "delay", "sleep", "idle", "done"}

\* The steps inside set_is_homeserver_reachable() and the calls it makes.
Applying == {"compare", "apply", "abort_sync", "sync", "store", "offline"}

Running == {"cancel", "try_lock", "arm", "release", "set_state", "online",
            "clear", "miss_offline", "miss_count", "drop_retry",
            "recheck_count", "recheck_online", "recheck_branch"}

VARIABLES
    state,        \* SessionState
    is_homeserver_reachable,
    is_offline,
    missed_sync_count,
    sync_handle,
    reachability_retry_handle,
    reachability_lock,   \* its holder
    pc,
    answer,       \* the reachability an actor applies; whether recheck struggled
    local,        \* the loop just spawned, or the count a loop has read
    aborted,      \* tasks that end at their next await
    up,           \* whether the homeserver answers
    flips

cells == <<state, is_homeserver_reachable, is_offline, missed_sync_count>>
slots == <<sync_handle, reachability_retry_handle, reachability_lock>>
vars == <<cells, slots, pc, answer, local, aborted, up, flips>>

Init ==
    /\ state = "Init"
    /\ is_homeserver_reachable = FALSE
    /\ is_offline = FALSE
    /\ missed_sync_count = 0
    /\ sync_handle = None
    /\ reachability_retry_handle = None
    /\ reachability_lock = None
    /\ pc = [a \in Actors |-> CASE a \in Rechecks -> "recheck"
                                [] a \in Reports -> "report"
                                [] a \in Logouts -> "logout"
                                [] a \in Tasks -> "idle"
                                [] OTHER -> "check"]
    /\ answer = [a \in Actors |-> FALSE]
    /\ local = [a \in Actors |-> None]
    /\ aborted = {}
    /\ up \in BOOLEAN
    /\ flips = 0

-------------------------------------------------------------------------------
\* a takes its step labelled so; a step out of an await needs a free thread.
At(a, label) ==
    /\ pc[a] = label
    /\ label \in Awaiting
         => Cardinality({b \in Actors : pc[b] \notin Awaiting}) < Threads

Goto(a, label) == pc' = [pc EXCEPT ![a] = label]

End(a) == IF a \in Tasks THEN "idle" ELSE "done"

\* A task that was aborted ends where it would await.
Await(a, label) == Goto(a, IF a \in aborted THEN End(a) ELSE label)

\* a aborts task t: at an await t ends at once, and its lock guard is dropped.
AbortAndGoto(a, t, label) ==
    LET now == t \in Tasks /\ pc[t] \in Awaiting
    IN  /\ pc' = [b \in Actors |-> IF b = a THEN label
                                   ELSE IF now /\ b = t THEN "idle" ELSE pc[b]]
        /\ aborted' = IF t = None \/ now THEN aborted ELSE aborted \cup {t}
        /\ reachability_lock' = IF now /\ reachability_lock = t THEN None
                                ELSE reachability_lock

\* What follows the check, and what follows set_is_homeserver_reachable().
AfterCheck(a) == IF a = Prepare THEN "load" ELSE End(a)
AfterApply(a) ==
    IF reachability_lock # a THEN End(a)
    ELSE IF answer[a] THEN "release" ELSE "arm"

-------------------------------------------------------------------------------
(* update_homeserver_reachable() *)

\* The pending retry is cancelled.
CancelRetry(a) ==
    /\ At(a, "check") \/ At(a, "cancel")
    /\ AbortAndGoto(a, reachability_retry_handle, "try_lock")
    /\ reachability_retry_handle' = None
    /\ UNCHANGED <<cells, sync_handle, answer, local, up, flips>>

\* Mutant: an ongoing check does not stop another.
TryLockAnyway(a) ==
    /\ At(a, "try_lock")
    /\ Await(a, "probe")
    /\ reachability_lock' = IF a \in aborted THEN reachability_lock ELSE a
    /\ UNCHANGED <<cells, sync_handle, reachability_retry_handle, answer,
                   local, aborted, up, flips>>

\* "There is an ongoing check.", or the probe begins.
TryLock(a) ==
    /\ At(a, "try_lock")
    /\ IF reachability_lock = None
       THEN /\ Await(a, "probe")
            /\ reachability_lock' = IF a \in aborted THEN None ELSE a
       ELSE Goto(a, AfterCheck(a)) /\ UNCHANGED reachability_lock
    /\ UNCHANGED <<cells, sync_handle, reachability_retry_handle, answer,
                   local, aborted, up, flips>>

ProbeAnswers(a) ==
    /\ At(a, "probe")
    /\ answer' = [answer EXCEPT ![a] = up]
    /\ Goto(a, "compare")
    /\ UNCHANGED <<cells, slots, local, aborted, up, flips>>

\* Mutant: a probe that failed is not followed by another.
ArmNothing(a) ==
    /\ At(a, "arm")
    /\ Goto(a, "release")
    /\ UNCHANGED <<cells, slots, answer, local, aborted, up, flips>>

\* The probe failed: the retry is scheduled.
ArmRetry(a) ==
    /\ At(a, "arm")
    /\ \E r \in Retries :
          /\ pc[r] = "idle"
          /\ pc' = [pc EXCEPT ![a] = "release", ![r] = "sleep"]
          /\ aborted' = aborted \ {r}
          /\ reachability_retry_handle' = r
    /\ UNCHANGED <<cells, sync_handle, reachability_lock, answer, local, up, flips>>

ReleaseLock(a) ==
    /\ At(a, "release")
    /\ reachability_lock' = None
    /\ Goto(a, AfterCheck(a))
    /\ UNCHANGED <<cells, sync_handle, reachability_retry_handle, answer,
                   local, aborted, up, flips>>

\* Ten seconds later the retry clears the slot and checks again.
RetryFires(r) ==
    /\ At(r, "sleep")
    /\ reachability_retry_handle' = None
    /\ Goto(r, "cancel")
    /\ UNCHANGED <<cells, sync_handle, reachability_lock, answer, local,
                   aborted, up, flips>>

-------------------------------------------------------------------------------
(* set_is_homeserver_reachable(), abort_sync(), sync(), set_offline() *)

\* Mutant: what is already known schedules no retry either.
CompareAndReturn(a) ==
    /\ At(a, "compare")
    /\ Goto(a, IF is_homeserver_reachable # answer[a] THEN "apply"
               ELSE IF reachability_lock = a THEN "release" ELSE End(a))
    /\ UNCHANGED <<cells, slots, answer, local, aborted, up, flips>>

\* What is already known changes nothing.
CompareReachable(a) ==
    /\ At(a, "compare")
    /\ Goto(a, IF is_homeserver_reachable = answer[a] THEN AfterApply(a)
               ELSE "apply")
    /\ UNCHANGED <<cells, slots, answer, local, aborted, up, flips>>

ApplyReachable(a) ==
    /\ At(a, "apply")
    /\ is_homeserver_reachable' = answer[a]
    /\ Goto(a, "abort_sync")
    /\ UNCHANGED <<state, is_offline, missed_sync_count, slots, answer, local,
                   aborted, up, flips>>

\* Mutant: the handle is taken, the loop is not aborted.
ForgetSync(a) ==
    /\ At(a, "abort_sync")
    /\ Goto(a, IF a \in Logouts THEN "drop_retry"
               ELSE IF answer[a] THEN "sync" ELSE "offline")
    /\ sync_handle' = None
    /\ UNCHANGED <<cells, reachability_retry_handle, reachability_lock, answer,
                   local, aborted, up, flips>>

AbortSync(a) ==
    /\ At(a, "abort_sync")
    /\ AbortAndGoto(a, sync_handle, IF a \in Logouts THEN "drop_retry"
                                    ELSE IF answer[a] THEN "sync"
                                    ELSE "offline")
    /\ sync_handle' = None
    /\ UNCHANGED <<cells, reachability_retry_handle, answer, local, up, flips>>

\* sync() returns early, or spawns a loop.
SyncSkipped(a) ==
    /\ At(a, "sync")
    /\ state \in {"LoggedOut", "Init"} \/ ~is_homeserver_reachable
    /\ Goto(a, AfterApply(a))
    /\ UNCHANGED <<cells, slots, answer, local, aborted, up, flips>>

SpawnLoop(a) ==
    /\ At(a, "sync")
    /\ state \in {"InitialSync", "Ready"} /\ is_homeserver_reachable
    /\ \E l \in Loops :
          /\ pc[l] = "idle"
          /\ pc' = [pc EXCEPT ![a] = "store", ![l] = "poll"]
          /\ aborted' = aborted \ {l}
          /\ local' = [local EXCEPT ![a] = l]
    /\ UNCHANGED <<cells, slots, answer, up, flips>>

\* The handle of the loop replaces whatever was in the slot.
StoreHandle(a) ==
    /\ At(a, "store")
    /\ sync_handle' = local[a]
    /\ local' = [local EXCEPT ![a] = None]
    /\ Goto(a, AfterApply(a))
    /\ UNCHANGED <<cells, reachability_retry_handle, reachability_lock, answer,
                   aborted, up, flips>>

\* set_offline(true).  The comparison it begins with is not a step of its
\* own: it changes nothing when the flag is already so.
GoOffline(a) ==
    /\ At(a, "offline")
    /\ is_offline' = TRUE
    /\ Goto(a, AfterApply(a))
    /\ UNCHANGED <<state, is_homeserver_reachable, missed_sync_count, slots,
                   answer, local, aborted, up, flips>>

-------------------------------------------------------------------------------
(* set_state(), and its callers: prepare(), clean_up(), the sync loop *)

Target(a) == CASE a = Prepare -> "InitialSync"
               [] a \in Logouts -> "LoggedOut"
               [] OTHER -> "Ready"

AfterState(a) == CASE a = Prepare -> "sync"
                   [] a \in Logouts -> "abort_sync"
                   [] OTHER -> "online"

\* Mutant: a logged out session is not told apart.
ReadAnyState(a) ==
    /\ \/ a = Prepare /\ At(a, "load")
       \/ a \in Logouts /\ At(a, "logout")
       \/ a \in Loops /\ At(a, "poll") /\ up /\ state # "LoggedOut"
    /\ Goto(a, IF state = Target(a) THEN AfterState(a) ELSE "set_state")
    /\ UNCHANGED <<cells, slots, answer, local, aborted, up, flips>>

\* The state is read: prepare() has loaded the session, the logout request
\* was answered, or the loop received a response.
ReadState(a) ==
    /\ \/ a = Prepare /\ At(a, "load")
       \/ a \in Logouts /\ At(a, "logout")
       \/ a \in Loops /\ At(a, "poll") /\ up /\ state # "LoggedOut"
    /\ Goto(a, IF state \in {"LoggedOut", Target(a)} THEN AfterState(a)
               ELSE "set_state")
    /\ UNCHANGED <<cells, slots, answer, local, aborted, up, flips>>

\* It is set.
SetState(a) ==
    /\ At(a, "set_state")
    /\ state' = Target(a)
    /\ Goto(a, AfterState(a))
    /\ UNCHANGED <<is_homeserver_reachable, is_offline, missed_sync_count,
                   slots, answer, local, aborted, up, flips>>

\* The end of clean_up(): "the retry would otherwise go on probing".
DropRetry(a) ==
    /\ At(a, "drop_retry")
    /\ AbortAndGoto(a, reachability_retry_handle, "done")
    /\ reachability_retry_handle' = None
    /\ UNCHANGED <<cells, sync_handle, answer, local, up, flips>>

-------------------------------------------------------------------------------
(* handle_sync_response() *)

\* A response: the session is online.
GoOnline(l) ==
    /\ At(l, "online")
    /\ is_offline' = FALSE
    /\ Goto(l, "clear")
    /\ UNCHANGED <<state, is_homeserver_reachable, missed_sync_count, slots,
                   answer, local, aborted, up, flips>>

\* Mutant: a response does not clear the count.
KeepMissed(l) ==
    /\ At(l, "clear")
    /\ Await(l, "poll")
    /\ UNCHANGED <<cells, slots, answer, local, aborted, up, flips>>

ClearMissed(l) ==
    /\ At(l, "clear")
    /\ missed_sync_count' = 0
    /\ Await(l, "poll")
    /\ UNCHANGED <<state, is_homeserver_reachable, is_offline, slots, answer,
                   local, aborted, up, flips>>

\* An error: the count is read, and compared.
MissSync(l) ==
    /\ At(l, "poll")
    /\ ~up \/ state = "LoggedOut"
    /\ local' = [local EXCEPT ![l] = missed_sync_count]
    /\ Goto(l, IF missed_sync_count = MISSED_SYNC_OFFLINE_COUNT
               THEN "miss_offline" ELSE "miss_count")
    /\ UNCHANGED <<cells, slots, answer, aborted, up, flips>>

MissOffline(l) ==
    /\ At(l, "miss_offline")
    /\ is_offline' = TRUE
    /\ Goto(l, "miss_count")
    /\ UNCHANGED <<state, is_homeserver_reachable, missed_sync_count, slots,
                   answer, local, aborted, up, flips>>

\* Mutant: it goes past the last delay.
MissCountOn(l) ==
    /\ At(l, "miss_count")
    /\ missed_sync_count' = local[l] + 1
    /\ local' = [local EXCEPT ![l] = None]
    /\ Await(l, "delay")
    /\ UNCHANGED <<state, is_homeserver_reachable, is_offline, slots, answer,
                   aborted, up, flips>>

\* It is stored, one higher up to the maximum.
MissCount(l) ==
    /\ At(l, "miss_count")
    /\ missed_sync_count' = IF local[l] < MaxMissed THEN local[l] + 1
                            ELSE missed_sync_count
    /\ local' = [local EXCEPT ![l] = None]
    /\ Await(l, "delay")
    /\ UNCHANGED <<state, is_homeserver_reachable, is_offline, slots, answer,
                   aborted, up, flips>>

DelayEnds(l) ==
    /\ At(l, "delay")
    /\ Goto(l, "poll")
    /\ UNCHANGED <<cells, slots, answer, local, aborted, up, flips>>

-------------------------------------------------------------------------------
(* recheck_connectivity() and report_homeserver_reachable() *)

Recheck(a) ==
    /\ At(a, "recheck")
    /\ IF state \in {"LoggedOut", "Init"}
       THEN Goto(a, "done") /\ UNCHANGED answer
       ELSE /\ Goto(a, "recheck_count")
            /\ answer' = [answer EXCEPT ![a] = is_offline \/ missed_sync_count > 0]
    /\ UNCHANGED <<cells, slots, local, aborted, up, flips>>

RecheckCount(a) ==
    /\ At(a, "recheck_count")
    /\ missed_sync_count' = 0
    /\ Goto(a, "recheck_online")
    /\ UNCHANGED <<state, is_homeserver_reachable, is_offline, slots, answer,
                   local, aborted, up, flips>>

RecheckOnline(a) ==
    /\ At(a, "recheck_online")
    /\ is_offline' = FALSE
    /\ Goto(a, IF answer[a] THEN "recheck_branch" ELSE "done")
    /\ UNCHANGED <<state, is_homeserver_reachable, missed_sync_count, slots,
                   answer, local, aborted, up, flips>>

\* The loop is restarted, or network_changed() spawns a check.
RecheckBranch(a) ==
    /\ At(a, "recheck_branch")
    /\ Goto(a, IF is_homeserver_reachable THEN "abort_sync" ELSE "check")
    /\ UNCHANGED <<cells, slots, answer, local, aborted, up, flips>>

Report(a) ==
    /\ At(a, "report")
    /\ \E value \in BOOLEAN : answer' = [answer EXCEPT ![a] = value]
    /\ AbortAndGoto(a, reachability_retry_handle, "compare")
    /\ reachability_retry_handle' = None
    /\ UNCHANGED <<cells, sync_handle, local, up, flips>>

\* The network comes or goes.
Flip ==
    /\ flips < MaxFlips
    /\ up' = ~up /\ flips' = flips + 1
    /\ UNCHANGED <<cells, slots, pc, answer, local, aborted>>

-------------------------------------------------------------------------------
Step(a) ==
    \/ CancelRetry(a) \/ TryLock(a) \/ ProbeAnswers(a) \/ ArmRetry(a)
    \/ ReleaseLock(a) \/ RetryFires(a) \/ CompareReachable(a)
    \/ ApplyReachable(a) \/ AbortSync(a) \/ SyncSkipped(a) \/ SpawnLoop(a)
    \/ StoreHandle(a) \/ GoOffline(a) \/ ReadState(a) \/ SetState(a)
    \/ DropRetry(a) \/ GoOnline(a) \/ ClearMissed(a) \/ MissSync(a)
    \/ MissOffline(a) \/ MissCount(a) \/ DelayEnds(a) \/ Recheck(a)
    \/ RecheckCount(a) \/ RecheckOnline(a) \/ RecheckBranch(a) \/ Report(a)

Next == Flip \/ \E a \in Actors : Step(a)

Spec == Init /\ [][Next]_vars

\* Every thread runs on, timers fire, probes and long polls are answered;
\* nobody has to call anything but prepare(), and the network may stay down.
FairSpec ==
    /\ Spec
    /\ \A a \in {Prepare} \cup Tasks : WF_vars(Step(a))
    /\ \A a \in Checks \cup Rechecks \cup Reports \cup Logouts :
          WF_vars(pc[a] \notin {"check", "recheck", "report", "logout"} /\ Step(a))

-------------------------------------------------------------------------------
(* Properties *)

TypeOK ==
    /\ state \in States
    /\ is_homeserver_reachable \in BOOLEAN /\ is_offline \in BOOLEAN
    /\ missed_sync_count \in 0..MaxMissed
    /\ sync_handle \in Loops \cup {None}
    /\ reachability_retry_handle \in Retries \cup {None}
    /\ reachability_lock \in Actors \cup {None}
    /\ pc \in [Actors -> Awaiting \cup Applying \cup Running]
    /\ answer \in [Actors -> BOOLEAN]
    /\ local \in [Actors -> Loops \cup {None} \cup 0..MaxMissed]
    /\ aborted \subseteq Tasks
    /\ up \in BOOLEAN /\ flips \in 0..MaxFlips

\* No actor is between two awaits.
Quiet == \A a \in Actors : pc[a] \in Awaiting

LiveLoops == {l \in Loops : pc[l] # "idle"}

\* "Guard so only one reachability check runs at a time." (mod.rs:278), and
\* the guard is never left behind by a check that was aborted.
ProbesExclusive ==
    /\ \A a, b \in Actors : pc[a] = "probe" /\ pc[b] = "probe" => a = b
    /\ reachability_lock # None => pc[reachability_lock] \notin {"idle", "done"}

\* "the sync loop restarts or stops as the answer says" (mod.rs:815): past
\* Init there is exactly one loop when the session takes the homeserver to be
\* reachable, the one abort_sync() would stop, and none otherwise or once the
\* session is logged out.
SyncTracksReachability ==
    Quiet /\ state # "Init" =>
        LiveLoops = IF state # "LoggedOut" /\ is_homeserver_reachable
                    THEN {sync_handle} ELSE {}

\* "The session should be dismissed when it has been logged out, so we do not
\* accept anymore state changes." (mod.rs:875): nothing leaves LoggedOut, and
\* otherwise a session only advances.
StateAdvances ==
    [][\/ state' = "LoggedOut"
       \/ state = "Init" /\ state' = "InitialSync"
       \/ state = "InitialSync" /\ state' = "Ready"]_state

\* The embedder has not reported that the homeserver is unreachable.
NoneUnreachable == \A a \in Reports : pc[a] = "report" \/ answer[a]

\* While the homeserver is thought unreachable a probe runs or a retry is
\* pending: a session "whose first probe failed" is not "offline for good"
\* (mod.rs:978).  An embedder that reports it unreachable has to report again.
RetryPending ==
    /\ Quiet /\ reachability_lock = None /\ pc[Prepare] # "check" /\ NoneUnreachable
    /\ ~is_homeserver_reachable /\ state # "LoggedOut"
    => /\ reachability_retry_handle # None
       /\ pc[reachability_retry_handle] = "sleep"

\* "If there are too many failed attempts, mark the session as offline."
\* (mod.rs:1150)
MissesMeanOffline ==
    Quiet /\ missed_sync_count > MISSED_SYNC_OFFLINE_COUNT => is_offline

\* Once the network is back for good, a session that is not logged out gets to
\* Ready, syncs, and no longer claims to be offline.
Recovers ==
    <>[](up /\ NoneUnreachable /\ \A a \in Logouts : pc[a] = "logout")
        => <>[](/\ state = "Ready" /\ is_homeserver_reachable
                /\ LiveLoops # {} /\ ~is_offline)
===============================================================================
