-------------------------- MODULE SessionSync_proofs --------------------------
(***************************************************************************)
(* Proofs about SessionSync.  For any number of calls, tasks and threads:  *)
(* the types, and that reachability probes exclude each other.  For one    *)
(* thread: the state only advances, the loop is there exactly when it      *)
(* should be, a retry is pending, and missed syncs are shown.              *)
(***************************************************************************)
EXTENDS SessionSync, FiniteSetTheorems, TLAPS

\* What an actor holds in `local' fits the step it is at: the loop it has
\* just spawned, or the count it is about to store.
LocalInv ==
    \A a \in Actors :
        /\ pc[a] = "store" => local[a] \in Loops
        /\ pc[a] \in {"miss_offline", "miss_count"} => local[a] \in 0..MaxMissed

\* The steps an actor takes with the lock in its hands.
Holding == {"probe", "compare", "apply", "abort_sync", "sync", "store",
            "offline", "arm", "release"}

\* Who probes, arms a retry or releases the lock holds it, its holder is at a
\* step of a check, and clean_up() never is the holder.
LockInv ==
    /\ \A a \in Actors :
          pc[a] \in {"probe", "arm", "release"} => reachability_lock = a
    /\ reachability_lock # None => pc[reachability_lock] \in Holding
    /\ reachability_lock \notin Logouts
    /\ \A a \in Logouts :
          pc[a] \in {"logout", "set_state", "abort_sync", "drop_retry", "done"}

IInv == TypeOK /\ LocalInv /\ LockInv

\* TypeOK with the definitions that name its sets.
USE DEF States, Awaiting, Applying, Running, Calls, Tasks, Actors

LEMMA InitIInv == Init => IInv
  <1> SUFFICES ASSUME Init PROVE IInv
    OBVIOUS
  <1> USE NoneAssumption, KindsAssumption, CountAssumption DEF Init
  <1>1. TypeOK
    <2>1. /\ state \in States
          /\ is_homeserver_reachable \in BOOLEAN /\ is_offline \in BOOLEAN
      BY Zenon
    <2>2. missed_sync_count \in 0..MaxMissed /\ flips \in 0..MaxFlips
      OBVIOUS
    <2>3. /\ sync_handle \in Loops \cup {None}
          /\ reachability_retry_handle \in Retries \cup {None}
          /\ reachability_lock \in Actors \cup {None}
      BY Zenon
    <2>4. pc \in [Actors -> Awaiting \cup Applying \cup Running]
      OBVIOUS
    <2>5. answer \in [Actors -> BOOLEAN] /\ up \in BOOLEAN
      OBVIOUS
    <2>6. local \in [Actors -> Loops \cup {None} \cup 0..MaxMissed]
      OBVIOUS
    <2>7. aborted \subseteq Tasks
      OBVIOUS
    <2> QED
      BY <2>1, <2>2, <2>3, <2>4, <2>5, <2>6, <2>7 DEF TypeOK
  <1>2. LocalInv /\ LockInv
    BY DEF LocalInv, LockInv, Holding
  <1> QED
    BY <1>1, <1>2 DEF IInv

LEMMA StepIInv == IInv /\ [Next]_vars => IInv'
  <1> SUFFICES ASSUME IInv, [Next]_vars PROVE IInv'
    OBVIOUS
  <1> USE NoneAssumption, KindsAssumption, CountAssumption
      DEF IInv, TypeOK, LocalInv, LockInv, Holding
  <1>1. CASE UNCHANGED vars
    BY <1>1 DEF vars, cells, slots
  <1>2. CASE Flip
    <2> USE <1>2 DEF Flip, cells, slots
    <2>1. TypeOK'
      OBVIOUS
    <2>2. LocalInv' /\ LockInv'
      OBVIOUS
    <2> QED
      BY <2>1, <2>2
  <1>3. ASSUME NEW a \in Actors, Step(a) PROVE IInv'
    <2> USE <1>3 DEF cells, slots, At, Goto, Await, End
    <2>1. CASE CancelRetry(a)
      <3>1. TypeOK'
        BY <2>1 DEF CancelRetry, AbortAndGoto
      <3>2. LocalInv'
        BY <2>1 DEF CancelRetry, AbortAndGoto
      <3>3. LockInv'
        BY <2>1, SMTT(30) DEF CancelRetry, AbortAndGoto
      <3> QED
        BY <3>1, <3>2, <3>3
    <2>2. CASE TryLock(a)
      BY <2>2 DEF TryLock, AfterCheck
    <2>3. CASE ProbeAnswers(a)
      BY <2>3 DEF ProbeAnswers
    <2>4. CASE ArmRetry(a)
      BY <2>4 DEF ArmRetry
    <2>5. CASE ReleaseLock(a)
      BY <2>5 DEF ReleaseLock, AfterCheck
    <2>6. CASE RetryFires(a)
      BY <2>6 DEF RetryFires
    <2>7. CASE CompareReachable(a)
      BY <2>7 DEF CompareReachable, AfterApply
    <2>8. CASE ApplyReachable(a)
      BY <2>8 DEF ApplyReachable
    <2>9. CASE AbortSync(a)
      <3>1. TypeOK'
        BY <2>9 DEF AbortSync, AbortAndGoto
      <3>2. LocalInv'
        BY <2>9 DEF AbortSync, AbortAndGoto
      <3>3. LockInv'
        BY <2>9, SMTT(30) DEF AbortSync, AbortAndGoto
      <3> QED
        BY <3>1, <3>2, <3>3
    <2>10. CASE SyncSkipped(a)
      BY <2>10 DEF SyncSkipped, AfterApply
    <2>11. CASE SpawnLoop(a)
      BY <2>11 DEF SpawnLoop
    <2>12. CASE StoreHandle(a)
      BY <2>12 DEF StoreHandle, AfterApply
    <2>13. CASE GoOffline(a)
      BY <2>13 DEF GoOffline, AfterApply
    <2>14. CASE ReadState(a)
      BY <2>14 DEF ReadState, Target, AfterState
    <2>15. CASE SetState(a)
      BY <2>15 DEF SetState, Target, AfterState
    <2>16. CASE DropRetry(a)
      <3>1. TypeOK'
        BY <2>16 DEF DropRetry, AbortAndGoto
      <3>2. LocalInv'
        BY <2>16 DEF DropRetry, AbortAndGoto
      <3>3. LockInv'
        BY <2>16, SMTT(30) DEF DropRetry, AbortAndGoto
      <3> QED
        BY <3>1, <3>2, <3>3
    <2>17. CASE GoOnline(a)
      <3>1. TypeOK'
        <4>1. is_offline' \in BOOLEAN
          BY <2>17 DEF GoOnline
        <4>2. pc' \in [Actors -> Awaiting \cup Applying \cup Running]
          BY <2>17 DEF GoOnline
        <4> QED
          BY <2>17, <4>1, <4>2 DEF GoOnline
      <3>2. LocalInv' /\ LockInv'
        BY <2>17 DEF GoOnline
      <3> QED
        BY <3>1, <3>2
    <2>18. CASE ClearMissed(a)
      BY <2>18 DEF ClearMissed
    <2>19. CASE MissSync(a)
      BY <2>19 DEF MissSync
    <2>20. CASE MissOffline(a)
      BY <2>20 DEF MissOffline
    <2>21. CASE MissCount(a)
      BY <2>21 DEF MissCount
    <2>22. CASE DelayEnds(a)
      BY <2>22 DEF DelayEnds
    <2>23. CASE Recheck(a)
      <3> DEFINE struggled == is_offline \/ missed_sync_count > 0
      <3>1. answer' \in [Actors -> BOOLEAN]
        <4>1. answer' = answer \/ answer' = [answer EXCEPT ![a] = struggled]
          BY <2>23 DEF Recheck
        <4>2. struggled \in BOOLEAN
          OBVIOUS
        <4> HIDE DEF struggled
        <4> QED BY <4>1, <4>2
      <3>2. TypeOK'
        BY <2>23, <3>1 DEF Recheck
      <3>3. LocalInv' /\ LockInv'
        BY <2>23 DEF Recheck
      <3> QED
        BY <3>2, <3>3
    <2>24. CASE RecheckCount(a)
      BY <2>24 DEF RecheckCount
    <2>25. CASE RecheckOnline(a)
      <3>1. TypeOK'
        <4>1. is_offline' \in BOOLEAN
          BY <2>25 DEF RecheckOnline
        <4>2. pc' \in [Actors -> Awaiting \cup Applying \cup Running]
          BY <2>25 DEF RecheckOnline
        <4> QED
          BY <2>25, <4>1, <4>2 DEF RecheckOnline
      <3>2. LocalInv' /\ LockInv'
        BY <2>25 DEF RecheckOnline
      <3> QED
        BY <3>1, <3>2
    <2>26. CASE RecheckBranch(a)
      BY <2>26 DEF RecheckBranch
    <2>27. CASE Report(a)
      <3>1. TypeOK'
        BY <2>27 DEF Report, AbortAndGoto
      <3>2. LocalInv'
        BY <2>27 DEF Report, AbortAndGoto
      <3>3. LockInv'
        BY <2>27, SMTT(30) DEF Report, AbortAndGoto
      <3> QED
        BY <3>1, <3>2, <3>3
    <2> QED
      BY <1>3, <2>1, <2>2, <2>3, <2>4, <2>5, <2>6, <2>7, <2>8, <2>9, <2>10, <2>11, <2>12, <2>13, <2>14, <2>15, <2>16, <2>17, <2>18, <2>19, <2>20, <2>21, <2>22, <2>23, <2>24, <2>25, <2>26, <2>27 DEF Step
  <1> QED
    BY <1>1, <1>2, <1>3 DEF Next

\* Every variable always has its type; in particular the count of missed syncs
\* never leaves the table of delays that it indexes.
THEOREM TypeCorrect == Spec => []TypeOK
  <1>1. IInv => TypeOK
    BY DEF IInv
  <1> QED
    BY InitIInv, StepIInv, <1>1, PTL DEF Spec

\* At most one reachability probe runs, and a check that was aborted leaves no
\* lock behind, whatever the number of threads.
THEOREM ProbesExclude == Spec => []ProbesExclusive
  <1>1. IInv => ProbesExclusive
    BY DEF IInv, LockInv, Holding, ProbesExclusive
  <1> QED
    BY InitIInv, StepIInv, <1>1, PTL DEF Spec

-------------------------------------------------------------------------------
(* With one thread a stretch between two awaits is atomic. *)

\* At most one actor is between two awaits.
OneRuns ==
    \A a, b \in Actors : pc[a] \notin Awaiting /\ pc[b] \notin Awaiting => a = b

\* The steps of prepare() before it sets the state.
Preparing == {"check", "cancel", "try_lock", "probe", "compare", "apply",
              "abort_sync", "offline", "arm", "release", "load", "set_state"}

\* What is about to be set was found to be different and not final; before
\* prepare() sets the state nobody has, and no loop runs.
StateInv ==
    /\ \A a \in Actors : pc[a] = "set_state" =>
          /\ a \in {Prepare} \cup Logouts \cup Loops
          /\ state \notin {"LoggedOut", Target(a)}
    /\ \A l \in Loops : pc[l] # "idle" => state # "Init"
    /\ pc[Prepare] \in Preparing \/ reachability_lock = Prepare
          => state \in {"Init", "LoggedOut"}

\* Prepare is not at a step of another kind of actor.
KindInv == pc[Prepare] \notin {"sleep", "report", "recheck", "recheck_count",
                               "recheck_online", "recheck_branch"}

SeqInv == OneRuns /\ StateInv /\ KindInv

LEMMA AloneOutOfAwait ==
    ASSUME Threads = 1, NEW label \in Awaiting, NEW a \in Actors, At(a, label)
    PROVE  \A b \in Actors : pc[b] \in Awaiting
  <1> DEFINE R == {b \in Actors : pc[b] \notin Awaiting}
  <1>1. IsFiniteSet(R)
    BY FiniteAssumption, FS_Subset
  <1>2. Cardinality(R) = 0
    <2>1. Cardinality(R) \in Nat
      BY <1>1, FS_CardinalityType
    <2>2. Cardinality(R) < 1
      BY DEF At
    <2> QED
      BY <2>1, <2>2
  <1> QED
    BY <1>1, <1>2, FS_EmptySet

LEMMA InitSeqInv == Init => SeqInv
  BY NoneAssumption, KindsAssumption
  DEF Init, SeqInv, OneRuns, StateInv, KindInv, Preparing, Target

LEMMA StepSeqInv ==
    ASSUME Threads = 1, IInv, SeqInv, [Next]_vars PROVE SeqInv'
  <1> USE NoneAssumption, KindsAssumption
      DEF IInv, TypeOK, LockInv, Holding, SeqInv, OneRuns, StateInv, KindInv,
          Preparing, Target
  <1>1. CASE UNCHANGED vars
    BY <1>1 DEF vars, cells, slots
  <1>2. CASE Flip
    BY <1>2 DEF Flip, cells, slots
  <1>3. ASSUME NEW a \in Actors, Step(a) PROVE SeqInv'
    <2> USE <1>3, AloneOutOfAwait DEF cells, slots, At, Goto, Await, End
    <2>1. CASE CancelRetry(a)
      <3>1. pc[a] \in {"check", "cancel"} /\ state' = state
        BY <2>1 DEF CancelRetry
      <3>2. \A b \in Actors : pc[b] \in Awaiting \/ b = a
        BY <2>1, <3>1 DEF CancelRetry
      <3>3. /\ reachability_lock' \in {reachability_lock, None}
            /\ \A b \in Actors : b # a => pc'[b] \in {pc[b], "idle"}
            /\ pc'[a] = "try_lock"
        BY <2>1 DEF CancelRetry, AbortAndGoto
      <3> QED
        BY <3>1, <3>2, <3>3
    <2>2. CASE TryLock(a)
      BY <2>2 DEF TryLock, AfterCheck
    <2>3. CASE ProbeAnswers(a)
      BY <2>3 DEF ProbeAnswers
    <2>4. CASE ArmRetry(a)
      BY <2>4 DEF ArmRetry
    <2>5. CASE ReleaseLock(a)
      BY <2>5 DEF ReleaseLock, AfterCheck
    <2>6. CASE RetryFires(a)
      BY <2>6 DEF RetryFires
    <2>7. CASE CompareReachable(a)
      BY <2>7 DEF CompareReachable, AfterApply
    <2>8. CASE ApplyReachable(a)
      BY <2>8 DEF ApplyReachable
    <2>9. CASE AbortSync(a)
      BY <2>9 DEF AbortSync, AbortAndGoto
    <2>10. CASE SyncSkipped(a)
      BY <2>10 DEF SyncSkipped, AfterApply
    <2>11. CASE SpawnLoop(a)
      BY <2>11 DEF SpawnLoop
    <2>12. CASE StoreHandle(a)
      BY <2>12 DEF StoreHandle, AfterApply
    <2>13. CASE GoOffline(a)
      BY <2>13 DEF GoOffline, AfterApply
    <2>14. CASE ReadState(a)
      BY <2>14 DEF ReadState, AfterState
    <2>15. CASE SetState(a)
      BY <2>15 DEF SetState, AfterState
    <2>16. CASE DropRetry(a)
      BY <2>16 DEF DropRetry, AbortAndGoto
    <2>17. CASE GoOnline(a)
      BY <2>17 DEF GoOnline
    <2>18. CASE ClearMissed(a)
      BY <2>18 DEF ClearMissed
    <2>19. CASE MissSync(a)
      BY <2>19 DEF MissSync
    <2>20. CASE MissOffline(a)
      BY <2>20 DEF MissOffline
    <2>21. CASE MissCount(a)
      BY <2>21 DEF MissCount
    <2>22. CASE DelayEnds(a)
      BY <2>22 DEF DelayEnds
    <2>23. CASE Recheck(a)
      BY <2>23 DEF Recheck
    <2>24. CASE RecheckCount(a)
      BY <2>24 DEF RecheckCount
    <2>25. CASE RecheckOnline(a)
      BY <2>25 DEF RecheckOnline
    <2>26. CASE RecheckBranch(a)
      BY <2>26 DEF RecheckBranch
    <2>27. CASE Report(a)
      <3>1. pc[a] = "report" /\ state' = state /\ a # Prepare
        BY <2>27 DEF Report
      <3>2. \A b \in Actors : pc[b] \in Awaiting
        BY <2>27 DEF Report
      <3>3. /\ reachability_lock' \in {reachability_lock, None}
            /\ \A b \in Actors : b # a => pc'[b] \in {pc[b], "idle"}
            /\ pc'[a] = "compare"
        BY <2>27 DEF Report, AbortAndGoto
      <3> QED
        BY <3>1, <3>2, <3>3
    <2> QED
      BY <1>3, <2>1, <2>2, <2>3, <2>4, <2>5, <2>6, <2>7, <2>8, <2>9,
         <2>10, <2>11, <2>12, <2>13, <2>14, <2>15, <2>16, <2>17, <2>18,
         <2>19, <2>20, <2>21, <2>22, <2>23, <2>24, <2>25, <2>26, <2>27 DEF Step
  <1> QED
    BY <1>1, <1>2, <1>3 DEF Next

LEMMA OnlySetStateSetsState ==
    ASSUME NEW a \in Actors, Step(a) PROVE SetState(a) \/ state' = state
  BY DEF Step, cells, CancelRetry, TryLock, ProbeAnswers, ArmRetry, ReleaseLock, RetryFires, CompareReachable, ApplyReachable, AbortSync, SyncSkipped, SpawnLoop, StoreHandle, GoOffline, ReadState, DropRetry, GoOnline, ClearMissed, MissSync, MissOffline, MissCount, DelayEnds, Recheck, RecheckCount, RecheckOnline, RecheckBranch, Report

\* With one worker thread the state of a session only advances, and nothing
\* leaves LoggedOut: set_state() reads and sets in one stretch.
THEOREM StateOnlyAdvances == ASSUME Threads = 1 PROVE Spec => StateAdvances
  <1>1. IInv /\ SeqInv /\ [Next]_vars
        => [\/ state' = "LoggedOut"
            \/ state = "Init" /\ state' = "InitialSync"
            \/ state = "InitialSync" /\ state' = "Ready"]_state
    <2> SUFFICES ASSUME IInv, SeqInv, Next, state' # state
                 PROVE  \/ state' = "LoggedOut"
                        \/ state = "Init" /\ state' = "InitialSync"
                        \/ state = "InitialSync" /\ state' = "Ready"
      BY DEF vars, cells
    <2>1. PICK a \in Actors : SetState(a)
      BY OnlySetStateSetsState DEF Next, Flip, cells
    <2> QED
      BY <2>1, KindsAssumption DEF SetState, At, Target, IInv, TypeOK, States,
         SeqInv, StateInv, Preparing
  <1>2. IInv /\ SeqInv /\ [Next]_vars => SeqInv'
    BY StepSeqInv
  <1> QED
    BY InitIInv, StepIInv, InitSeqInv, <1>1, <1>2, PTL
    DEF Spec, StateAdvances

\* The steps each kind of actor takes.  Nobody is aborted within a poll, so
\* that an aborted task has ended.
TaskKinds ==
    /\ \A l \in Loops : pc[l] \in {"idle", "poll", "set_state", "online", "clear",
                                   "miss_offline", "miss_count", "delay"}
    /\ \A r \in Retries : pc[r] \in {"idle", "sleep", "cancel", "try_lock"} \cup Holding
    /\ \A a \in Reports : pc[a] \in {"report", "compare", "apply", "abort_sync",
                                     "sync", "store", "offline", "done"}
    /\ \A a \in Actors :
          /\ pc[a] \in {"cancel", "try_lock"} => reachability_retry_handle = None
          /\ pc[a] = "sleep" => a \in Retries
          /\ pc[a] \in {"poll", "delay", "online", "clear", "miss_offline", "miss_count"}
                => a \in Loops
          /\ pc[a] = "report" => a \in Reports
    /\ reachability_lock \notin Reports
    /\ aborted = {}

\* While an actor exchanges the loop it alone runs.
Alone(a) == \A b \in Actors : b # a => pc[b] \in Awaiting

LEMMA StepAlone ==
    ASSUME Threads = 1, OneRuns, NEW a \in Actors, Step(a)
    PROVE  Alone(a)
  <1>1. CASE pc[a] \notin Awaiting
    BY <1>1 DEF OneRuns, Alone
  <1>2. CASE pc[a] \in Awaiting
    <2>1. At(a, pc[a])
      BY DEF Step, At, CancelRetry, TryLock, ProbeAnswers, ArmRetry, ReleaseLock, RetryFires, CompareReachable, ApplyReachable, AbortSync, SyncSkipped, SpawnLoop, StoreHandle, GoOffline, ReadState, SetState, DropRetry, GoOnline, ClearMissed, MissSync, MissOffline, MissCount, DelayEnds, Recheck, RecheckCount, RecheckOnline, RecheckBranch, Report
    <2> QED
      BY <1>2, <2>1, AloneOutOfAwait DEF Alone
  <1> QED
    BY <1>1, <1>2

LEMMA AtIs == ASSUME NEW a, NEW label, At(a, label) PROVE pc[a] = label
  BY DEF At

LEMMA StepTaskKinds ==
    ASSUME Threads = 1, IInv, SeqInv, TaskKinds, [Next]_vars PROVE TaskKinds'
  <1> USE NoneAssumption, KindsAssumption, CountAssumption
      DEF IInv, TypeOK, LockInv, Holding, SeqInv, OneRuns, StateInv, KindInv,
          Preparing, TaskKinds
  <1>1. CASE UNCHANGED vars
    BY <1>1 DEF vars, cells, slots
  <1>2. CASE Flip
    BY <1>2 DEF Flip, cells, slots
  <1>3. ASSUME NEW a \in Actors, Step(a) PROVE TaskKinds'
    <2>0. Alone(a)
      BY <1>3, StepAlone
    <2> USE <2>0, AtIs DEF Alone, cells, slots, Goto, Await, End
    <2>1. CASE CancelRetry(a)
      BY <2>1 DEF CancelRetry, AbortAndGoto
    <2>2. CASE TryLock(a)
      BY <2>2 DEF TryLock, AfterCheck
    <2>3. CASE ProbeAnswers(a)
      BY <2>3 DEF ProbeAnswers
    <2>4. CASE ArmRetry(a)
      BY <2>4 DEF ArmRetry
    <2>5. CASE ReleaseLock(a)
      BY <2>5 DEF ReleaseLock, AfterCheck
    <2>6. CASE RetryFires(a)
      BY <2>6 DEF RetryFires
    <2>7. CASE CompareReachable(a)
      BY <2>7 DEF CompareReachable, AfterApply
    <2>8. CASE ApplyReachable(a)
      BY <2>8 DEF ApplyReachable
    <2>9. CASE AbortSync(a)
      BY <2>9 DEF AbortSync, AbortAndGoto
    <2>10. CASE SyncSkipped(a)
      BY <2>10 DEF SyncSkipped, AfterApply
    <2>11. CASE SpawnLoop(a)
      BY <2>11 DEF SpawnLoop
    <2>12. CASE StoreHandle(a)
      BY <2>12 DEF StoreHandle, AfterApply
    <2>13. CASE GoOffline(a)
      BY <2>13 DEF GoOffline, AfterApply
    <2>14. CASE ReadState(a)
      BY <2>14 DEF ReadState, Target, AfterState
    <2>15. CASE SetState(a)
      BY <2>15 DEF SetState, Target, AfterState
    <2>16. CASE DropRetry(a)
      BY <2>16 DEF DropRetry, AbortAndGoto
    <2>17. CASE GoOnline(a)
      BY <2>17 DEF GoOnline
    <2>18. CASE ClearMissed(a)
      BY <2>18 DEF ClearMissed
    <2>19. CASE MissSync(a)
      BY <2>19 DEF MissSync
    <2>20. CASE MissOffline(a)
      BY <2>20 DEF MissOffline
    <2>21. CASE MissCount(a)
      BY <2>21 DEF MissCount
    <2>22. CASE DelayEnds(a)
      BY <2>22 DEF DelayEnds
    <2>23. CASE Recheck(a)
      BY <2>23 DEF Recheck
    <2>24. CASE RecheckCount(a)
      BY <2>24 DEF RecheckCount
    <2>25. CASE RecheckOnline(a)
      BY <2>25 DEF RecheckOnline
    <2>26. CASE RecheckBranch(a)
      BY <2>26 DEF RecheckBranch
    <2>27. CASE Report(a)
      BY <2>27 DEF Report, AbortAndGoto
    <2> QED
      BY <1>3, <2>1, <2>2, <2>3, <2>4, <2>5, <2>6, <2>7, <2>8, <2>9, <2>10,
         <2>11, <2>12, <2>13, <2>14, <2>15, <2>16, <2>17, <2>18, <2>19,
         <2>20, <2>21, <2>22, <2>23, <2>24, <2>25, <2>26, <2>27 DEF Step
  <1> QED
    BY <1>1, <1>2, <1>3 DEF Next

\* Exchanging the loop: set_is_homeserver_reachable() past its comparison.
Busy == {"abort_sync", "sync", "store"}

\* sync_handle is the only loop, or it is about to be stored; it is there
\* exactly when it should be, except while an actor exchanges it.
HandleInv ==
    /\ sync_handle # None => pc[sync_handle] # "idle"
    /\ \A l \in Loops : pc[l] # "idle" =>
          sync_handle = l \/ \E a \in Actors : pc[a] = "store" /\ local[a] = l
    /\ \A a \in Actors :
          /\ pc[a] \in {"sync", "store"} => sync_handle = None
          /\ pc[a] = "store" => /\ state \in {"InitialSync", "Ready"}
                                /\ is_homeserver_reachable
                                /\ pc[local[a]] # "idle"
          /\ pc[a] = "abort_sync" => IF a \in Logouts THEN state = "LoggedOut"
                                     ELSE is_homeserver_reachable = answer[a]
          /\ pc[a] = "recheck_branch" => answer[a]
    /\ (\A a \in Actors : pc[a] \notin Busy)
          => (sync_handle # None
                <=> state \in {"InitialSync", "Ready"} /\ is_homeserver_reachable)

LEMMA StepHandleInv ==
    ASSUME Threads = 1, IInv, SeqInv, TaskKinds, HandleInv, [Next]_vars PROVE HandleInv'
  <1> USE NoneAssumption, KindsAssumption, CountAssumption
      DEF IInv, TypeOK, LockInv, Holding, SeqInv, OneRuns, StateInv, KindInv,
          Preparing, TaskKinds, LocalInv, HandleInv, Busy
  <1>1. CASE UNCHANGED vars
    BY <1>1 DEF vars, cells, slots
  <1>2. CASE Flip
    BY <1>2 DEF Flip, cells, slots
  <1>3. ASSUME NEW a \in Actors, Step(a) PROVE HandleInv'
    <2>0. Alone(a)
      BY <1>3, StepAlone
    <2> USE <2>0, AtIs DEF Alone, cells, slots, Goto, Await, End
    <2>1. CASE CancelRetry(a)
      BY <2>1 DEF CancelRetry, AbortAndGoto
    <2>2. CASE TryLock(a)
      BY <2>2 DEF TryLock, AfterCheck
    <2>3. CASE ProbeAnswers(a)
      BY <2>3 DEF ProbeAnswers
    <2>4. CASE ArmRetry(a)
      BY <2>4 DEF ArmRetry
    <2>5. CASE ReleaseLock(a)
      BY <2>5 DEF ReleaseLock, AfterCheck
    <2>6. CASE RetryFires(a)
      BY <2>6 DEF RetryFires
    <2>7. CASE CompareReachable(a)
      BY <2>7 DEF CompareReachable, AfterApply
    <2>8. CASE ApplyReachable(a)
      BY <2>8 DEF ApplyReachable
    <2>9. CASE AbortSync(a)
      <3>1. pc[a] = "abort_sync"
        BY <2>9 DEF AbortSync
      <3>2. /\ sync_handle' = None
            /\ pc'[a] \in {"drop_retry", "sync", "offline"}
            /\ \A b \in Actors : b # a => pc'[b] = IF b = sync_handle THEN "idle" ELSE pc[b]
            /\ pc'[a] = "drop_retry" <=> a \in Logouts
            /\ pc'[a] = "offline" => ~answer[a]
        BY <2>9, <3>1 DEF AbortSync, AbortAndGoto
      <3>3. /\ UNCHANGED <<state, is_homeserver_reachable, answer, local>>
            /\ \A b \in Actors : b # a => pc'[b] \in Awaiting
        BY <2>9, <3>2 DEF AbortSync
      <3>4. \A l \in Loops : pc'[l] = "idle"
        BY <3>1, <3>2
      <3>5. (\A b \in Actors : pc'[b] \notin Busy)
              => ~(state \in {"InitialSync", "Ready"} /\ is_homeserver_reachable)
        BY <3>1, <3>2
      <3> QED
        BY <3>1, <3>2, <3>3, <3>4, <3>5
    <2>10. CASE SyncSkipped(a)
      BY <2>10 DEF SyncSkipped, AfterApply
    <2>11. CASE SpawnLoop(a)
      <3>1. PICK l \in Loops :
               /\ pc[l] = "idle"
               /\ pc' = [pc EXCEPT ![a] = "store", ![l] = "poll"]
               /\ local' = [local EXCEPT ![a] = l]
        BY <2>11 DEF SpawnLoop
      <3>2. /\ state \in {"InitialSync", "Ready"} /\ is_homeserver_reachable
            /\ UNCHANGED <<sync_handle, state, is_homeserver_reachable, answer>>
        BY <2>11 DEF SpawnLoop
      <3>3. pc[a] = "sync" /\ sync_handle = None /\ a # l
        <4>1. pc[a] = "sync"
          BY <2>11 DEF SpawnLoop
        <4> QED
          BY <4>1, <3>1
      <3>4. \A k \in Loops : pc[k] = "idle"
        BY <3>3
      <3>5. /\ pc'[a] = "store" /\ local'[a] = l /\ pc'[l] = "poll"
            /\ \A b \in Actors : b # a /\ b # l => pc'[b] = pc[b] /\ pc[b] \in Awaiting
        BY <3>1, <3>3
      <3>6. \A k \in Loops : pc'[k] # "idle" => local'[a] = k
        BY <3>4, <3>5, <3>3
      <3>7. \A b \in Actors : /\ pc'[b] = "store" => b = a
                               /\ pc'[b] \notin {"sync", "abort_sync", "recheck_branch"}
        BY <3>3, <3>5
      <3>8. sync_handle' = None
        BY <3>2, <3>3
      <3> HIDE DEF IInv, SeqInv, TaskKinds
      <3> QED
        BY <3>2, <3>5, <3>6, <3>7, <3>8
    <2>12. CASE StoreHandle(a)
      BY <2>12 DEF StoreHandle, AfterApply
    <2>13. CASE GoOffline(a)
      BY <2>13 DEF GoOffline, AfterApply
    <2>14. CASE ReadState(a)
      BY <2>14 DEF ReadState, Target, AfterState
    <2>15. CASE SetState(a)
      BY <2>15 DEF SetState, Target, AfterState
    <2>16. CASE DropRetry(a)
      BY <2>16 DEF DropRetry, AbortAndGoto
    <2>17. CASE GoOnline(a)
      BY <2>17 DEF GoOnline
    <2>18. CASE ClearMissed(a)
      BY <2>18 DEF ClearMissed
    <2>19. CASE MissSync(a)
      BY <2>19 DEF MissSync
    <2>20. CASE MissOffline(a)
      BY <2>20 DEF MissOffline
    <2>21. CASE MissCount(a)
      BY <2>21 DEF MissCount
    <2>22. CASE DelayEnds(a)
      BY <2>22 DEF DelayEnds
    <2>23. CASE Recheck(a)
      BY <2>23 DEF Recheck
    <2>24. CASE RecheckCount(a)
      BY <2>24 DEF RecheckCount
    <2>25. CASE RecheckOnline(a)
      BY <2>25 DEF RecheckOnline
    <2>26. CASE RecheckBranch(a)
      BY <2>26 DEF RecheckBranch
    <2>27. CASE Report(a)
      BY <2>27 DEF Report, AbortAndGoto
    <2> QED
      BY <1>3, <2>1, <2>2, <2>3, <2>4, <2>5, <2>6, <2>7, <2>8, <2>9, <2>10,
         <2>11, <2>12, <2>13, <2>14, <2>15, <2>16, <2>17, <2>18, <2>19,
         <2>20, <2>21, <2>22, <2>23, <2>24, <2>25, <2>26, <2>27 DEF Step
  <1> QED
    BY <1>1, <1>2, <1>3 DEF Next

\* The slot holds the retry that sleeps; who releases the lock leaves a retry
\* or a reachable homeserver; and otherwise a check is on its way.
RetryInv ==
    /\ \A r \in Retries : pc[r] = "sleep" <=> reachability_retry_handle = r
    /\ reachability_lock # None /\ pc[reachability_lock] # "release"
          => reachability_retry_handle = None
    /\ \A a \in Actors :
          /\ pc[a] \in {"compare", "apply"} => reachability_lock = a \/ a \in Reports
          /\ pc[a] = "release" =>
                is_homeserver_reachable \/ reachability_retry_handle # None
          /\ pc[a] \in {"sync", "store"} /\ reachability_lock = a
                => answer[a] /\ is_homeserver_reachable
          /\ pc[a] = "drop_retry" => state = "LoggedOut"
          /\ pc[a] = "abort_sync" /\ a \notin Logouts /\ ~answer[a]
                => reachability_lock = a \/ a \in Reports
          /\ pc[a] = "offline"
                => ~answer[a] /\ (reachability_lock = a \/ a \in Reports)
    /\ pc[Prepare] # "check" /\ NoneUnreachable
          /\ ~is_homeserver_reachable /\ state # "LoggedOut"
          => \/ reachability_retry_handle # None \/ reachability_lock # None
             \/ \E a \in Actors : \/ pc[a] \in {"cancel", "try_lock"}
                                  \/ pc[a] \in {"compare", "apply"} /\ answer[a]

LEMMA StepRetryInv ==
    ASSUME Threads = 1, IInv, SeqInv, TaskKinds, HandleInv, RetryInv, [Next]_vars PROVE RetryInv'
  <1> USE NoneAssumption, KindsAssumption, CountAssumption
      DEF IInv, TypeOK, LockInv, Holding, SeqInv, OneRuns, StateInv, KindInv,
          Preparing, TaskKinds, HandleInv, Busy, RetryInv, NoneUnreachable
  <1>1. CASE UNCHANGED vars
    BY <1>1 DEF vars, cells, slots
  <1>2. CASE Flip
    BY <1>2 DEF Flip, cells, slots
  <1>3. ASSUME NEW a \in Actors, Step(a) PROVE RetryInv'
    <2>0. Alone(a)
      BY <1>3, StepAlone
    <2> USE <2>0, AtIs DEF Alone, cells, slots, Goto, Await, End
    <2>1. CASE CancelRetry(a)
      BY <2>1 DEF CancelRetry, AbortAndGoto
    <2>2. CASE TryLock(a)
      <3>1. pc[a] = "try_lock"
        BY <2>2 DEF TryLock
      <3>2. CASE reachability_lock = None
        <4>1. /\ pc'[a] = "probe" /\ reachability_lock' = a
              /\ \A b \in Actors : b # a => pc'[b] = pc[b] /\ pc[b] \in Awaiting
              /\ UNCHANGED <<state, is_homeserver_reachable, answer>>
              /\ UNCHANGED reachability_retry_handle
          BY <2>2, <3>1, <3>2 DEF TryLock
        <4>2. reachability_retry_handle = None
          BY <3>1
        <4> QED
          BY <4>1, <4>2, <3>1
      <3>3. CASE reachability_lock # None
        BY <2>2, <3>1, <3>3 DEF TryLock, AfterCheck
      <3> QED
        BY <3>2, <3>3
    <2>3. CASE ProbeAnswers(a)
      BY <2>3 DEF ProbeAnswers
    <2>4. CASE ArmRetry(a)
      BY <2>4 DEF ArmRetry
    <2>5. CASE ReleaseLock(a)
      BY <2>5 DEF ReleaseLock, AfterCheck
    <2>6. CASE RetryFires(a)
      <3>1. /\ pc[a] = "sleep" /\ pc'[a] = "cancel"
            /\ \A b \in Actors : b # a => pc'[b] = pc[b] /\ pc[b] \in Awaiting
            /\ reachability_retry_handle' = None
            /\ UNCHANGED <<state, is_homeserver_reachable, reachability_lock, answer>>
        BY <2>6 DEF RetryFires
      <3>2. a \in Retries /\ reachability_retry_handle = a
        BY <3>1
      <3> QED
        BY <3>1, <3>2
    <2>7. CASE CompareReachable(a)
      BY <2>7 DEF CompareReachable, AfterApply
    <2>8. CASE ApplyReachable(a)
      BY <2>8 DEF ApplyReachable
    <2>9. CASE AbortSync(a)
      BY <2>9 DEF AbortSync, AbortAndGoto
    <2>10. CASE SyncSkipped(a)
      BY <2>10 DEF SyncSkipped, AfterApply
    <2>11. CASE SpawnLoop(a)
      BY <2>11 DEF SpawnLoop
    <2>12. CASE StoreHandle(a)
      BY <2>12 DEF StoreHandle, AfterApply
    <2>13. CASE GoOffline(a)
      BY <2>13 DEF GoOffline, AfterApply
    <2>14. CASE ReadState(a)
      BY <2>14 DEF ReadState, Target, AfterState
    <2>15. CASE SetState(a)
      BY <2>15 DEF SetState, Target, AfterState
    <2>16. CASE DropRetry(a)
      BY <2>16 DEF DropRetry, AbortAndGoto
    <2>17. CASE GoOnline(a)
      BY <2>17 DEF GoOnline
    <2>18. CASE ClearMissed(a)
      BY <2>18 DEF ClearMissed
    <2>19. CASE MissSync(a)
      BY <2>19 DEF MissSync
    <2>20. CASE MissOffline(a)
      BY <2>20 DEF MissOffline
    <2>21. CASE MissCount(a)
      BY <2>21 DEF MissCount
    <2>22. CASE DelayEnds(a)
      BY <2>22 DEF DelayEnds
    <2>23. CASE Recheck(a)
      BY <2>23 DEF Recheck
    <2>24. CASE RecheckCount(a)
      BY <2>24 DEF RecheckCount
    <2>25. CASE RecheckOnline(a)
      BY <2>25 DEF RecheckOnline
    <2>26. CASE RecheckBranch(a)
      BY <2>26 DEF RecheckBranch
    <2>27. CASE Report(a)
      <3>1. /\ pc[a] = "report" /\ pc'[a] = "compare"
            /\ reachability_retry_handle' = None
            /\ UNCHANGED <<state, is_homeserver_reachable>>
            /\ \A b \in Actors : b # a => answer'[b] = answer[b]
        BY <2>27 DEF Report, AbortAndGoto
      <3>2. reachability_lock' = reachability_lock
        BY <2>27, <3>1 DEF Report, AbortAndGoto
      <3>3. \A b \in Actors : b # a => pc'[b] = IF b = reachability_retry_handle
                                            THEN "idle" ELSE pc[b]
        BY <2>27 DEF Report, AbortAndGoto
      <3>4. a \in Reports
        BY <3>1
      <3> QED
        BY <3>1, <3>2, <3>3, <3>4
    <2> QED
      BY <1>3, <2>1, <2>2, <2>3, <2>4, <2>5, <2>6, <2>7, <2>8, <2>9, <2>10,
         <2>11, <2>12, <2>13, <2>14, <2>15, <2>16, <2>17, <2>18, <2>19,
         <2>20, <2>21, <2>22, <2>23, <2>24, <2>25, <2>26, <2>27 DEF Step
  <1> QED
    BY <1>1, <1>2, <1>3 DEF Next

\* The count a loop has read is the current one, and going past the threshold
\* was preceded by going offline.
MissInv ==
    /\ \A l \in Loops :
          /\ pc[l] \in {"miss_count", "miss_offline"} => local[l] = missed_sync_count
          /\ pc[l] = "miss_count" /\ local[l] = MISSED_SYNC_OFFLINE_COUNT => is_offline
    /\ \A a \in Actors : pc[a] = "recheck_online" => missed_sync_count = 0
    /\ (\A l \in Loops : pc[l] # "clear")
          => (missed_sync_count > MISSED_SYNC_OFFLINE_COUNT => is_offline)

LEMMA StepMissInv ==
    ASSUME Threads = 1, IInv, SeqInv, TaskKinds, MissInv, [Next]_vars PROVE MissInv'
  <1> USE NoneAssumption, KindsAssumption, CountAssumption
      DEF IInv, TypeOK, LockInv, Holding, SeqInv, OneRuns, StateInv, KindInv,
          Preparing, TaskKinds, LocalInv, MissInv
  <1>1. CASE UNCHANGED vars
    BY <1>1 DEF vars, cells, slots
  <1>2. CASE Flip
    BY <1>2 DEF Flip, cells, slots
  <1>3. ASSUME NEW a \in Actors, Step(a) PROVE MissInv'
    <2>0. Alone(a)
      BY <1>3, StepAlone
    <2> USE <2>0, AtIs DEF Alone, cells, slots, Goto, Await, End
    <2>1. CASE CancelRetry(a)
      BY <2>1 DEF CancelRetry, AbortAndGoto
    <2>2. CASE TryLock(a)
      BY <2>2 DEF TryLock, AfterCheck
    <2>3. CASE ProbeAnswers(a)
      BY <2>3 DEF ProbeAnswers
    <2>4. CASE ArmRetry(a)
      BY <2>4 DEF ArmRetry
    <2>5. CASE ReleaseLock(a)
      BY <2>5 DEF ReleaseLock, AfterCheck
    <2>6. CASE RetryFires(a)
      BY <2>6 DEF RetryFires
    <2>7. CASE CompareReachable(a)
      BY <2>7 DEF CompareReachable, AfterApply
    <2>8. CASE ApplyReachable(a)
      BY <2>8 DEF ApplyReachable
    <2>9. CASE AbortSync(a)
      BY <2>9 DEF AbortSync, AbortAndGoto
    <2>10. CASE SyncSkipped(a)
      BY <2>10 DEF SyncSkipped, AfterApply
    <2>11. CASE SpawnLoop(a)
      BY <2>11 DEF SpawnLoop
    <2>12. CASE StoreHandle(a)
      BY <2>12 DEF StoreHandle, AfterApply
    <2>13. CASE GoOffline(a)
      BY <2>13 DEF GoOffline, AfterApply
    <2>14. CASE ReadState(a)
      BY <2>14 DEF ReadState, Target, AfterState
    <2>15. CASE SetState(a)
      BY <2>15 DEF SetState, Target, AfterState
    <2>16. CASE DropRetry(a)
      BY <2>16 DEF DropRetry, AbortAndGoto
    <2>17. CASE GoOnline(a)
      <3>1. /\ pc[a] = "online" /\ pc'[a] = "clear"
            /\ \A b \in Actors : b # a => pc'[b] = pc[b] /\ pc[b] \in Awaiting
            /\ UNCHANGED <<missed_sync_count, local>>
        BY <2>17 DEF GoOnline
      <3>2. a \in Loops
        BY <3>1
      <3> QED
        BY <3>1, <3>2
    <2>18. CASE ClearMissed(a)
      BY <2>18 DEF ClearMissed
    <2>19. CASE MissSync(a)
      BY <2>19 DEF MissSync
    <2>20. CASE MissOffline(a)
      BY <2>20 DEF MissOffline
    <2>21. CASE MissCount(a)
      <3>1. /\ pc[a] = "miss_count" /\ pc'[a] = "delay"
            /\ \A b \in Actors : b # a => pc'[b] = pc[b] /\ pc[b] \in Awaiting
            /\ missed_sync_count' = IF local[a] < MaxMissed THEN local[a] + 1
                                    ELSE missed_sync_count
            /\ UNCHANGED is_offline
        BY <2>21 DEF MissCount
      <3>2. a \in Loops /\ local[a] = missed_sync_count
        BY <3>1
      <3>3. missed_sync_count \in Nat
        OBVIOUS
      <3>4. missed_sync_count' > MISSED_SYNC_OFFLINE_COUNT => is_offline
        BY <3>1, <3>2, <3>3
      <3> QED
        BY <3>1, <3>4
    <2>22. CASE DelayEnds(a)
      BY <2>22 DEF DelayEnds
    <2>23. CASE Recheck(a)
      BY <2>23 DEF Recheck
    <2>24. CASE RecheckCount(a)
      BY <2>24 DEF RecheckCount
    <2>25. CASE RecheckOnline(a)
      BY <2>25 DEF RecheckOnline
    <2>26. CASE RecheckBranch(a)
      BY <2>26 DEF RecheckBranch
    <2>27. CASE Report(a)
      BY <2>27 DEF Report, AbortAndGoto
    <2> QED
      BY <1>3, <2>1, <2>2, <2>3, <2>4, <2>5, <2>6, <2>7, <2>8, <2>9, <2>10,
         <2>11, <2>12, <2>13, <2>14, <2>15, <2>16, <2>17, <2>18, <2>19,
         <2>20, <2>21, <2>22, <2>23, <2>24, <2>25, <2>26, <2>27 DEF Step
  <1> QED
    BY <1>1, <1>2, <1>3 DEF Next

OneThreadInv == IInv /\ SeqInv /\ TaskKinds /\ HandleInv /\ RetryInv /\ MissInv

LEMMA InitOneThreadInv == Init => OneThreadInv
  <1> SUFFICES ASSUME Init PROVE OneThreadInv
    OBVIOUS
  <1>1. IInv /\ SeqInv
    BY InitIInv, InitSeqInv
  <1> USE NoneAssumption, KindsAssumption, CountAssumption DEF Init
  <1>2. TaskKinds
    BY DEF TaskKinds, Holding
  <1>3. HandleInv
    BY DEF HandleInv, Busy
  <1>4. RetryInv
    BY DEF RetryInv
  <1>5. MissInv
    BY DEF MissInv
  <1> QED
    BY <1>1, <1>2, <1>3, <1>4, <1>5 DEF OneThreadInv

LEMMA StepOneThreadInv ==
    ASSUME Threads = 1 PROVE OneThreadInv /\ [Next]_vars => OneThreadInv'
  BY StepIInv, StepSeqInv, StepTaskKinds, StepHandleInv, StepRetryInv, StepMissInv
  DEF OneThreadInv

\* With one worker thread there is exactly one sync loop, the one abort_sync()
\* would stop, whenever the session is taken to be reachable and is neither new
\* nor logged out; otherwise there is none.
THEOREM SyncTracks == ASSUME Threads = 1 PROVE Spec => []SyncTracksReachability
  <1>1. OneThreadInv => SyncTracksReachability
    <2> SUFFICES ASSUME OneThreadInv, Quiet, state # "Init"
                 PROVE  LiveLoops = IF state # "LoggedOut" /\ is_homeserver_reachable
                                    THEN {sync_handle} ELSE {}
      BY DEF SyncTracksReachability
    <2> USE DEF OneThreadInv, HandleInv, Quiet
    <2>1. \A a \in Actors : pc[a] \notin Busy
      BY DEF Busy
    <2>2. sync_handle # None
          <=> state \in {"InitialSync", "Ready"} /\ is_homeserver_reachable
      BY <2>1
    <2>3. LiveLoops = IF sync_handle # None THEN {sync_handle} ELSE {}
      BY <2>1, NoneAssumption DEF Busy, LiveLoops, IInv, TypeOK
    <2> QED
      BY <2>2, <2>3 DEF IInv, TypeOK
  <1>2. OneThreadInv /\ [Next]_vars => OneThreadInv'
    BY StepOneThreadInv
  <1> QED
    BY InitOneThreadInv, <1>1, <1>2, PTL DEF Spec

\* With one worker thread a session that takes the homeserver to be
\* unreachable has a retry pending whenever no check runs: it is not offline
\* for good.
THEOREM RetryIsPending == ASSUME Threads = 1 PROVE Spec => []RetryPending
  <1>1. OneThreadInv => RetryPending
    BY DEF OneThreadInv, RetryInv, RetryPending, Quiet, IInv, TypeOK
  <1>2. OneThreadInv /\ [Next]_vars => OneThreadInv'
    BY StepOneThreadInv
  <1> QED
    BY InitOneThreadInv, <1>1, <1>2, PTL DEF Spec

\* With one worker thread a session that missed more syncs than the threshold
\* says that it is offline.
THEOREM MissesCount == ASSUME Threads = 1 PROVE Spec => []MissesMeanOffline
  <1>1. OneThreadInv => MissesMeanOffline
    BY DEF OneThreadInv, MissInv, MissesMeanOffline, Quiet
  <1>2. OneThreadInv /\ [Next]_vars => OneThreadInv'
    BY StepOneThreadInv
  <1> QED
    BY InitOneThreadInv, <1>1, <1>2, PTL DEF Spec
===============================================================================
