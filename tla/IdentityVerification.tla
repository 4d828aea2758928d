------------------------- MODULE IdentityVerification -------------------------
(***************************************************************************)
(* One identity verification, commune-core/src/session/verification.rs:    *)
(* its state follows that of a request of the SDK and of the SAS or QR     *)
(* flow the request turns into.  Its constructor, a task per observable,   *)
(* a timer, the embedder's calls and the list it is in run concurrently.   *)
(* A task that follows an observable is told that it changed, and sees     *)
(* only the value it then has.                                             *)
(***************************************************************************)
EXTENDS FiniteSets

CONSTANT Offered    \* the sets of methods that both sides may have in common

ASSUME OfferedAssumption == Offered \subseteq SUBSET {"Sas", "Show", "Scan"}

Watchers == {"request", "flow1", "flow2"}   \* tasks that follow the SDK
Handlers == {"new"} \cup Watchers           \* and the constructor

VARIABLES
    request,    \* VerificationRequestState
    cause,      \* of its cancellation: our cancel() ("us"), taken "elsewhere", "other"
    flow,       \* the SAS or QR verification
    methods, started,   \* the methods in common, and whether the request is ours
    state,      \* VerificationState
    was_viewed, dismissed,
    stored,     \* whether the verification is set
    timer,      \* timeout_handle: "none", "asleep"
    room,       \* its task: "watching", "left", "ended"; none is like one never left
    list,       \* "new", "in" the list, "out" of it, "dropped"
    pc, val,    \* of the handlers: step, and the value read
    news,       \* the tasks with a change to see
    cancelling, \* whether a cancel() awaits the answer
    faults      \* "unsent", "stale"

sdk   == <<request, cause, flow>>
given == <<methods, started>>
core  == <<state, was_viewed, dismissed, stored, timer>>
step  == <<pc, val>>
vars  == <<sdk, given, core, room, list, step, news, cancelling, faults>>

Over == {"Done", "Cancelled"}
IsFinished(s) == s \in {"Cancelled", "Dismissed", "Done", "Error", "RoomLeft"}
NoFlow == [kind |-> "none", stage |-> "none"]
Flow(kind, stage) == [kind |-> kind, stage |-> stage]

Init ==
    /\ methods \in Offered /\ started \in BOOLEAN
    /\ request = IF started THEN "Created" ELSE "Requested"
    /\ cause = "none" /\ flow = NoFlow
    /\ state = "Created"
    /\ was_viewed = FALSE /\ dismissed = FALSE /\ stored = FALSE
    /\ timer = "none" /\ room = "watching" /\ list = "new"
    /\ pc = [h \in Handlers |-> IF h = "new" THEN "arm" ELSE "none"]
    /\ val = [h \in Handlers |-> "none"]
    /\ news = {} /\ cancelling = FALSE /\ faults = {}

-------------------------------------------------------------------------------
(* The SDK: whatever changes is told to the tasks that follow it. *)

Tell(others) == news' = news \cup {w \in others : pc[w] # "none"}
Flows == {"flow1", "flow2"}

Becomes(r) ==
    /\ request' = r /\ Tell({"request"})
    /\ UNCHANGED <<cause, flow>>

Starts(kind, stage) ==
    /\ request = "Ready"
    /\ request' = "Transitioned" /\ flow' = Flow(kind, stage) /\ Tell({"request"})
    /\ UNCHANGED cause

Proceeds(stage) ==
    /\ flow' = [flow EXCEPT !.stage = stage] /\ Tell(Flows)
    /\ UNCHANGED <<request, cause>>

Cancels(why) ==
    /\ request \notin Over
    /\ request' = "Cancelled" /\ cause' = why
    /\ flow' = IF flow = NoFlow THEN flow ELSE [flow EXCEPT !.stage = "cancelled"]
    /\ Tell(Watchers)

\* What the other side does, as far as we hear of it.  Of a room we left we hear
\* no more, but the SDK gives up on any request after a while.  A code to show
\* is scanned from the screen that asks for a method.
Other ==
    /\ \/ Cancels("other")
       \/ /\ room \notin {"left", "ended"}
          /\ \/ request = "Created" /\ Becomes("Ready")
             \/ request = "Requested" /\ Cancels("elsewhere")
             \/ "Sas" \in methods /\ Starts("sas", "started")
             \/ "Show" \in methods /\ state = "Ready" /\ Starts("qr", "asks")
             \/ flow = Flow("sas", "going") /\ Proceeds("asks")
             \/ /\ request = "Transitioned"
                /\ flow.stage = "confirmed" \/ flow = Flow("qr", "going")
                /\ Becomes("Done")
    /\ UNCHANGED <<given, core, room, list, step, cancelling, faults>>

\* The request is done before its flow is.
FlowDone ==
    /\ request = "Done" /\ flow.stage # "done" /\ Proceeds("done")
    /\ UNCHANGED <<given, core, room, list, step, cancelling, faults>>

-------------------------------------------------------------------------------
(* IdentityVerification::new *)

Goto(h, label) == pc' = [pc EXCEPT ![h] = label] /\ UNCHANGED val
Reads(h, v, label) == pc' = [pc EXCEPT ![h] = label] /\ val' = [val EXCEPT ![h] = v]

\* A handler is done; the constructor for good.
Return(h) == Reads(h, "none", IF h = "new" THEN "done" ELSE "idle")

\* A received request is given two minutes.
Arm ==
    /\ pc["new"] = "arm" /\ Goto("new", "subscribe")
    /\ timer' = IF request = "Requested" THEN "asleep" ELSE "none"
    /\ UNCHANGED <<sdk, given, state, was_viewed, dismissed, stored, room, list, news,
                   cancelling, faults>>

\* Mutant: the state is not read once its changes are followed.
SubscribeOnly ==
    /\ pc["new"] = "subscribe"
    /\ pc' = [pc EXCEPT !["new"] = "done", !["request"] = "idle"]
    /\ UNCHANGED <<sdk, given, core, room, list, val, news, cancelling, faults>>

Subscribe ==
    /\ pc["new"] = "subscribe"
    /\ pc' = [pc EXCEPT !["new"] = "idle", !["request"] = "idle"]
    /\ UNCHANGED <<sdk, given, core, room, list, val, news, cancelling, faults>>

-------------------------------------------------------------------------------
(* handle_request_state *)

\* The constructor reads the state, a task the change it was told of.  The timer
\* stops once the request is no longer one.
See(h) ==
    /\ pc[h] = "idle" /\ h \notin Flows
    /\ h # "new" => h \in news
    /\ news' = news \ {h}
    /\ Reads(h, request, "apply")
    /\ timer' = IF request = "Requested" THEN timer ELSE "none"
    /\ UNCHANGED <<sdk, given, state, was_viewed, dismissed, stored, room, list,
                   cancelling, faults>>

\* What the constructor sets may be past by then.
Past(h) == val[h] # IF pc[h] \in {"flow", "accept"} THEN flow.stage ELSE request

SetState(h, s) ==
    /\ state' = s
    /\ faults' = IF h = "new" /\ Past(h) THEN faults \cup {"stale"} ELSE faults
    /\ UNCHANGED <<was_viewed, dismissed, stored, timer>>

\* Mutant: it is dismissed only once it was looked at.
HandleCancelledViewed(h) ==
    IF cause = "us" THEN UNCHANGED <<core, faults>>
    ELSE IF cause = "elsewhere" /\ was_viewed
    THEN dismissed' = TRUE /\ UNCHANGED <<state, was_viewed, stored, timer, faults>>
    ELSE SetState(h, "Cancelled")

\* handle_cancelled_state: our own cancel() dismisses, and so does a request
\* that another session took before it was looked at.
HandleCancelled(h) ==
    IF cause = "us" THEN UNCHANGED <<core, faults>>
    ELSE IF cause = "elsewhere" /\ ~was_viewed
    THEN dismissed' = TRUE /\ UNCHANGED <<state, was_viewed, stored, timer, faults>>
    ELSE SetState(h, "Cancelled")

\* Reciprocating alone passes for a method as long as the request is one.
HandleRequestState(h) ==
    /\ pc[h] = "apply"
    /\ LET r == val[h]
       IN  \/ r = "Created" /\ Return(h) /\ UNCHANGED <<core, faults>>
           \/ /\ r = "Requested" /\ Return(h)
              /\ SetState(h, "Requested") \/ (methods = {} /\ SetState(h, "NoSupportedMethods"))
           \/ r = "Ready" /\ Goto(h, "ready") /\ UNCHANGED <<core, faults>>
           \/ r = "Transitioned" /\ Goto(h, "spawn") /\ UNCHANGED <<core, faults>>
           \/ r = "Done" /\ Return(h) /\ SetState(h, "Done")
           \/ r = "Cancelled" /\ Return(h) /\ HandleCancelled(h)
    /\ UNCHANGED <<sdk, given, room, list, news, cancelling>>

\* The request is ready: what is left of the methods, now that the code to show
\* was loaded or not, says how it goes on.
ChooseFlow(h) ==
    /\ pc[h] = "ready"
    /\ \E has \in {methods, methods \ {"Show"}} :
          Goto(h, IF has = {} THEN "cancel"
                  ELSE IF has = {"Sas"} /\ ~started THEN "start_sas" ELSE "set_ready")
    /\ UNCHANGED <<sdk, given, core, room, list, news, cancelling, faults>>

\* start_sas() turns the request, and may fail to say so.
AutoStartSas(h) ==
    /\ pc[h] = "start_sas"
    /\ \/ Starts("sas", "going") /\ (Return(h) \/ Goto(h, "set_ready"))
       \/ request # "Ready" /\ Goto(h, "set_ready") /\ UNCHANGED <<sdk, news>>
    /\ UNCHANGED <<given, core, room, list, cancelling, faults>>

SetReady(h) ==
    /\ pc[h] = "set_ready" /\ Return(h) /\ SetState(h, "Ready")
    /\ UNCHANGED <<sdk, given, room, list, news, cancelling>>

\* Nothing in common: the request is cancelled.
AutoCancel(h) ==
    /\ pc[h] = "cancel"
    /\ IF request \in Over
       THEN /\ Return(h) /\ SetState(h, "NoSupportedMethods")
            /\ UNCHANGED <<sdk, news>>
       ELSE Cancels("us") /\ Goto(h, "cancelled") /\ UNCHANGED <<core, faults>>
    /\ UNCHANGED <<given, room, list, cancelling>>

AutoCancelled(h) ==
    /\ pc[h] = "cancelled" /\ Return(h)
    /\ \/ dismissed' = TRUE /\ UNCHANGED <<state, faults>>
       \/ /\ state' = "NoSupportedMethods" /\ faults' = faults \cup {"unsent"}
          /\ UNCHANGED dismissed
    /\ UNCHANGED <<sdk, given, was_viewed, stored, timer, room, list, news,
                   cancelling>>

-------------------------------------------------------------------------------
(* set_verification, and the flow *)

\* The flow is followed before it is stored; the handlers of SAS do nothing
\* until it is.
SpawnFlow(h) ==
    /\ pc[h] = "spawn"
    /\ pc' = [pc EXCEPT ![h] = "store", ![IF h = "new" THEN "flow1" ELSE "flow2"] = "idle"]
    /\ UNCHANGED <<sdk, given, core, room, list, val, news, cancelling, faults>>

Store(h) ==
    /\ pc[h] = "store" /\ Goto(h, "see_flow")
    /\ stored' = TRUE
    /\ UNCHANGED <<sdk, given, state, was_viewed, dismissed, timer, room, list, news,
                   cancelling, faults>>

\* Its state is read once it is stored, and whenever it changes.
SeeFlow(h) ==
    /\ \/ pc[h] = "see_flow"
       \/ h \in Flows /\ pc[h] = "idle" /\ h \in news
    /\ news' = news \ ({h} \cap Flows)
    /\ Reads(h, flow.stage, "flow")
    /\ UNCHANGED <<sdk, given, core, room, list, cancelling, faults>>

\* handle_sas_verification_state and handle_qr_verification_state
HandleFlowState(h) ==
    /\ pc[h] = "flow"
    /\ LET f == val[h]
       IN  IF flow.kind = "sas" /\ ~stored THEN Return(h) /\ UNCHANGED <<core, faults>>
           ELSE \/ f \in {"going", "confirmed"} /\ Return(h) /\ UNCHANGED <<core, faults>>
                \/ f = "started" /\ Goto(h, "accept") /\ UNCHANGED <<core, faults>>
                \/ /\ f = "asks" /\ Return(h)
                   /\ SetState(h, IF flow.kind = "sas" THEN "SasConfirm" ELSE "QrConfirm")
                \/ f = "done" /\ Return(h) /\ SetState(h, "Done")
                \/ f = "cancelled" /\ Return(h) /\ HandleCancelled(h)
    /\ UNCHANGED <<sdk, given, room, list, news, cancelling>>

\* A SAS they started is accepted, or that fails.
AcceptSas(h) ==
    /\ pc[h] = "accept" /\ Return(h)
    /\ IF flow.stage = "started" THEN Proceeds("going") ELSE UNCHANGED <<sdk, news>>
    /\ UNCHANGED <<core, faults>> \/ SetState(h, "Error")
    /\ UNCHANGED <<given, room, list, cancelling>>

-------------------------------------------------------------------------------
(* The timer, the room and the list *)

TimeOut ==
    /\ timer = "asleep" /\ timer' = "none"
    /\ state' = "Dismissed" /\ dismissed' = TRUE
    /\ UNCHANGED <<sdk, given, was_viewed, stored, room, list, step, news, cancelling,
                   faults>>

LeaveRoom ==
    /\ room = "watching" /\ room' = "left"
    /\ UNCHANGED <<sdk, given, core, list, step, news, cancelling, faults>>

NoticeLeft ==
    /\ room = "left" /\ pc["new"] # "arm" /\ room' = "ended"
    /\ state' = "RoomLeft"
    /\ UNCHANGED <<sdk, given, was_viewed, dismissed, stored, timer, list, step, news,
                   cancelling, faults>>

\* VerificationList::add, with a task that waits for it to be dismissed.
Add ==
    /\ list = "new" /\ pc["new"] = "done" /\ list' = "in"
    /\ UNCHANGED <<sdk, given, core, room, step, news, cancelling, faults>>

Remove ==
    /\ list = "in" /\ dismissed /\ list' = "out"
    /\ UNCHANGED <<sdk, given, core, room, step, news, cancelling, faults>>

\* The embedder lets go of it then.  Dropped, it stops its tasks, and cancels
\* what is under way.
Drop ==
    /\ list = "out" /\ ~cancelling /\ list' = "dropped"
    /\ \A h \in Handlers : pc[h] \in {"none", "idle", "done"}
    /\ Cancels("us") \/ (request \in Over /\ UNCHANGED <<sdk, news>>)
    /\ UNCHANGED <<given, core, room, step, cancelling, faults>>

-------------------------------------------------------------------------------
(* The embedder, who acts on the state *)

View ==
    /\ ~was_viewed /\ was_viewed' = TRUE
    /\ UNCHANGED <<sdk, given, state, dismissed, stored, timer, room, list, step, news,
                   cancelling, faults>>

\* These leave the state to what comes of them.
Accept == state = "Requested" /\ request = "Requested" /\ Becomes("Ready")
StartSas == state = "Ready" /\ "Sas" \in methods /\ Starts("sas", "going")

\* sas_match() and confirm_qr_code_scanned()
Confirm ==
    /\ state \in {"SasConfirm", "QrConfirm"} /\ stored
    /\ request = "Transitioned" /\ flow.stage = "asks" /\ Proceeds("confirmed")
SasMismatch == state = "SasConfirm" /\ stored /\ flow.kind = "sas" /\ Cancels("other")

Ask ==
    /\ Accept \/ StartSas \/ Confirm \/ SasMismatch
    /\ UNCHANGED <<given, core, room, list, step, cancelling, faults>>

\* The user scans a code of the other side, or goes back.
StartQrCodeScan ==
    /\ state = "Ready" /\ "Scan" \in methods /\ state' = "QrScan" /\ UNCHANGED <<sdk, news>>
ChooseMethod == state = "QrScan" /\ state' = "Ready" /\ UNCHANGED <<sdk, news>>
QrCodeScanned ==
    /\ state = "QrScan" /\ state' = "QrScanned"
    /\ Starts("qr", "going") \/ UNCHANGED <<sdk, news>>

SetByHand ==
    /\ StartQrCodeScan \/ ChooseMethod \/ QrCodeScanned
    /\ UNCHANGED <<given, was_viewed, dismissed, stored, timer, room, list, step, cancelling,
                   faults>>

\* cancel(): the SDK cancels, and says so to the other side, or fails to.
BeginCancel ==
    /\ ~cancelling /\ cancelling' = TRUE /\ Cancels("us")
    /\ UNCHANGED <<given, core, room, list, step, faults>>

EndCancel ==
    /\ cancelling /\ cancelling' = FALSE
    /\ \/ dismissed' = TRUE /\ UNCHANGED faults
       \/ faults' = faults \cup {"unsent"} /\ UNCHANGED dismissed
    /\ UNCHANGED <<sdk, given, state, was_viewed, stored, timer, room, list, step, news>>

Dismiss ==
    /\ IsFinished(state) /\ ~dismissed /\ dismissed' = TRUE
    /\ UNCHANGED <<sdk, given, state, was_viewed, stored, timer, room, list, step, news,
                   cancelling, faults>>

-------------------------------------------------------------------------------

Handle(h) ==
    \/ (h = "new" /\ (Arm \/ Subscribe))
    \/ See(h) \/ HandleRequestState(h)
    \/ ChooseFlow(h) \/ AutoStartSas(h) \/ SetReady(h) \/ AutoCancel(h) \/ AutoCancelled(h)
    \/ SpawnFlow(h) \/ Store(h) \/ SeeFlow(h) \/ HandleFlowState(h) \/ AcceptSas(h)

Keep == Add \/ Remove \/ Drop

Tasks == TimeOut \/ NoticeLeft \/ Keep \/ EndCancel \/ \E h \in Handlers : Handle(h)

Embedder == View \/ Ask \/ SetByHand \/ BeginCancel \/ Dismiss

Alive == list # "dropped"

Next ==
    \/ Alive /\ (Tasks \/ LeaveRoom \/ Other \/ FlowDone)
    \/ list = "in" /\ Embedder

Spec == Init /\ [][Next]_vars

\* Tasks and timers run, and what is awaited ends.  Nobody has to act.
FairSpec ==
    /\ Spec
    /\ WF_vars(Alive /\ TimeOut) /\ WF_vars(Alive /\ Keep) /\ WF_vars(Alive /\ EndCancel)
    /\ \A h \in Handlers : WF_vars(Alive /\ Handle(h))

-------------------------------------------------------------------------------
(* Properties *)

States == {"Created", "Requested", "NoSupportedMethods", "Ready", "SasConfirm", "QrScan",
           "QrScanned", "QrConfirm", "Done", "Cancelled", "Dismissed", "RoomLeft", "Error"}

Labels == {"none", "arm", "subscribe", "idle", "apply", "ready", "start_sas", "set_ready",
           "cancel", "cancelled", "spawn", "store", "see_flow", "flow", "accept", "done"}
Requests == {"Created", "Requested", "Ready", "Transitioned"} \cup Over
Stages == {"none", "started", "going", "asks", "confirmed", "done", "cancelled"}

TypeOK ==
    /\ methods \in SUBSET {"Sas", "Show", "Scan"} /\ started \in BOOLEAN
    /\ state \in States /\ request \in Requests
    /\ cause \in {"none", "us", "elsewhere", "other"}
    /\ cause = "none" <=> request # "Cancelled"
    /\ flow \in [kind : {"none", "sas", "qr"}, stage : Stages]
    /\ pc \in [Handlers -> Labels] /\ val \in [Handlers -> {"none"} \cup Requests \cup Stages]
    /\ news \subseteq {w \in Watchers : pc[w] # "none"}
    /\ was_viewed \in BOOLEAN /\ dismissed \in BOOLEAN /\ stored \in BOOLEAN
    /\ cancelling \in BOOLEAN
    /\ timer \in {"none", "asleep"} /\ room \in {"watching", "left", "ended"}
    /\ list \in {"new", "in", "out", "dropped"} /\ faults \subseteq {"unsent", "stale"}

\* Nothing is left to be seen or done but by the user and the other side.
Quiet ==
    /\ pc["new"] = "done" /\ \A w \in Watchers : pc[w] \in {"none", "idle"}
    /\ news = {} /\ ~cancelling /\ (request = "Done" => flow.stage = "done")

\* "The state machine over the SDK's request" (verification.rs:7): a request
\* that is done or cancelled is shown as finished, or is leaving its list,
\* whatever the tasks were at when it ended.  But for a cancel() that could not
\* be sent, and for what the constructor read and set too late.
OutcomeShown ==
    Quiet /\ request \in Over /\ faults = {} => IsFinished(state) \/ dismissed

\* A request "not accepted by us after 2 minutes" (verification.rs:127), or
\* taken by another session before it was looked at, leaves the list without
\* anybody's help, and a request whose verification was dismissed ends.
LeavesByItself ==
    /\ []<>(request # "Requested" \/ ~Alive)
    /\ [](cause = "elsewhere" /\ ~was_viewed => <>(was_viewed \/ ~Alive))
    /\ [](dismissed => <>(request \in Over))
===============================================================================
