--------------------- MODULE IdentityVerification_proofs ---------------------
(***************************************************************************)
(* That the end of a request is shown, for any sets of methods.            *)
(*                                                                         *)
(* OutcomeShown speaks of a quiet moment; the invariant says what carries  *)
(* the end of the request until then, at every moment at which it is not   *)
(* shown: the constructor, the request's task, a task of the flow, or a    *)
(* cancel() under way.  It rests on what each of them knows of the past:   *)
(* who works with a value that is no longer so has news to see.            *)
(***************************************************************************)
EXTENDS IdentityVerification, TLAPS

\* The constructor goes its way alone up to the subscription; only it and the
\* task of the request handle the request, the other tasks handle the flow.
Shape ==
    /\ pc["request"] = "none" <=> pc["new"] \in {"arm", "subscribe"}
    /\ pc["new"] # "none"
    /\ pc["request"] \notin {"arm", "subscribe", "done"}
    /\ \A w \in Flows : pc[w] \in {"none", "idle", "flow", "accept"}

\* What the flow is at once the request has ended.
FlowEnds ==
    /\ request = "Cancelled" => flow = NoFlow \/ flow.stage = "cancelled"
    /\ request = "Done" =>
          flow.kind # "none" /\ (flow.stage \in {"confirmed", "done"} \/ flow = Flow("qr", "going"))
    /\ request \in {"Created", "Requested", "Ready"} => flow = NoFlow
    /\ request = "Transitioned" =>
          flow.kind # "none" /\ flow.stage \notin {"done", "cancelled", "none"}

\* Nobody handles a flow before there is one.
AtFlow(h) == pc[h] \in {"spawn", "store", "see_flow", "flow", "accept"}
FlowIsThere ==
    \A h \in Handlers :
        \/ AtFlow(h) \/ (h \in Flows /\ pc[h] # "none")
        \/ pc[h] = "apply" /\ val[h] = "Transitioned"
        => flow.kind # "none"

\* The flow is stored soon after it is followed, and for good.
StoredSoon ==
    /\ pc["flow1"] # "none" /\ ~stored => pc["new"] = "store"
    /\ pc["flow2"] # "none" /\ ~stored => pc["request"] = "store" \/ pc["new"] = "store"
    /\ pc["new"] \in {"see_flow", "flow", "accept"} => stored /\ pc["flow1"] # "none"
    /\ pc["new"] = "store" => pc["flow1"] # "none"

\* Who works with a value that is no longer so has news to see; the
\* constructor, who has none, at least remembers what it read.
Midway(h) == pc[h] \notin {"none", "idle", "apply", "done"}
NewsOfThePast ==
    /\ pc["request"] = "apply" /\ val["request"] # request => "request" \in news
    /\ Midway("request") /\ request \in Over => "request" \in news
    /\ \A w \in Flows : pc[w] \in {"flow", "accept"} /\ val[w] # flow.stage => w \in news
    /\ pc["new"] \in {"ready", "start_sas", "set_ready", "cancel"} => val["new"] = "Ready"

\* Our own cancel() dismisses, unless it fails.
CancelDismisses ==
    /\ list \in {"out", "dropped"} => dismissed
    /\ cause = "us" /\ faults = {} =>
          dismissed \/ cancelling \/ pc["new"] = "cancelled" \/ pc["request"] = "cancelled"

\* Who will show the end of the request.
ByNew == pc["new"] \in {"arm", "subscribe", "idle"} \/ (pc["new"] = "apply" /\ val["new"] = request)
ByRequest == "request" \in news \/ (pc["request"] = "apply" /\ val["request"] = request)
ByCancel == cancelling \/ pc["new"] = "cancelled" \/ pc["request"] = "cancelled"
Final(h) == pc[h] = "flow" /\ val[h] = flow.stage /\ flow.stage \in {"done", "cancelled"}
ByFlow ==
    \/ \E w \in Flows : w \in news \/ Final(w)
    \/ pc["new"] \in {"store", "see_flow"} \/ Final("new")
    \/ request = "Done" /\ flow.stage # "done" /\ \E w \in Flows : pc[w] # "none"

Carried ==
    request \in Over /\ faults = {} /\ ~IsFinished(state) /\ ~dismissed
        => ByNew \/ ByRequest \/ ByCancel \/ ByFlow

Inv == /\ TypeOK /\ Shape /\ FlowEnds /\ FlowIsThere /\ StoredSoon
       /\ NewsOfThePast /\ CancelDismisses /\ Carried
-------------------------------------------------------------------------------
(* Every action keeps the invariant: <1>1 the types, <1>2 what the handlers  *)
(* are at and what the flow is, <1>3 what is told of the past and of our own *)
(* cancel(), and with them <1>4, who carries the end of the request.        *)
USE DEF Handlers, Watchers, Flows, Over, sdk, given, core, step

LEMMA OtherKeeps == ASSUME Inv, Other PROVE Inv'
  <1>1. TypeOK'
    BY DEF Inv, TypeOK, Labels, Requests, Stages, States, Other, Becomes, Starts, Proceeds,
           Cancels, Tell, NoFlow, Flow
  <1>2. Shape' /\ FlowEnds' /\ FlowIsThere' /\ StoredSoon'
    BY DEF Inv, TypeOK, Shape, FlowEnds, FlowIsThere, AtFlow, StoredSoon, NoFlow, Flow, Other,
           Becomes, Starts, Proceeds, Cancels, Tell
  <1>3. NewsOfThePast' /\ CancelDismisses'
    BY DEF Inv, TypeOK, Shape, FlowEnds, FlowIsThere, AtFlow, NewsOfThePast, Midway,
           CancelDismisses, NoFlow, Flow, Other, Becomes, Starts, Proceeds, Cancels, Tell
  <1>4. Carried'
    BY DEF Inv, TypeOK, Shape, FlowEnds, FlowIsThere, AtFlow, StoredSoon, NewsOfThePast,
           Midway, CancelDismisses, Carried, IsFinished, ByNew, ByRequest, ByCancel, ByFlow,
           Final, NoFlow, Flow, Other, Becomes, Starts, Proceeds, Cancels, Tell
  <1> QED
    BY <1>1, <1>2, <1>3, <1>4 DEF Inv

LEMMA FlowDoneKeeps == ASSUME Inv, FlowDone PROVE Inv'
  <1>1. TypeOK'
    BY DEF Inv, TypeOK, Labels, Requests, Stages, States, FlowDone, Proceeds, Tell
  <1>2. Shape' /\ FlowEnds' /\ FlowIsThere' /\ StoredSoon'
    BY DEF Inv, TypeOK, Shape, FlowEnds, FlowIsThere, AtFlow, StoredSoon, NoFlow, Flow,
           FlowDone, Proceeds, Tell
  <1>3. NewsOfThePast' /\ CancelDismisses'
    BY DEF Inv, TypeOK, Shape, FlowEnds, FlowIsThere, AtFlow, NewsOfThePast, Midway,
           CancelDismisses, NoFlow, Flow, FlowDone, Proceeds, Tell
  <1>4. Carried'
    BY DEF Inv, TypeOK, Shape, FlowEnds, FlowIsThere, AtFlow, StoredSoon, NewsOfThePast,
           Midway, CancelDismisses, Carried, IsFinished, ByNew, ByRequest, ByCancel, ByFlow,
           Final, NoFlow, Flow, FlowDone, Proceeds, Tell
  <1> QED
    BY <1>1, <1>2, <1>3, <1>4 DEF Inv

LEMMA LeaveRoomKeeps == ASSUME Inv, LeaveRoom PROVE Inv'
  <1>1. TypeOK'
    BY DEF Inv, TypeOK, Labels, Requests, Stages, States, LeaveRoom
  <1>2. Shape' /\ FlowEnds' /\ FlowIsThere' /\ StoredSoon'
    BY DEF Inv, TypeOK, Shape, FlowEnds, FlowIsThere, AtFlow, StoredSoon, NoFlow, Flow,
           LeaveRoom
  <1>3. NewsOfThePast' /\ CancelDismisses'
    BY DEF Inv, TypeOK, Shape, FlowEnds, FlowIsThere, AtFlow, NewsOfThePast, Midway,
           CancelDismisses, NoFlow, Flow, LeaveRoom
  <1>4. Carried'
    BY DEF Inv, TypeOK, Shape, FlowEnds, FlowIsThere, AtFlow, StoredSoon, NewsOfThePast,
           Midway, CancelDismisses, Carried, IsFinished, ByNew, ByRequest, ByCancel, ByFlow,
           Final, NoFlow, Flow, LeaveRoom
  <1> QED
    BY <1>1, <1>2, <1>3, <1>4 DEF Inv

LEMMA ArmKeeps == ASSUME Inv, Arm PROVE Inv'
  <1>1. TypeOK'
    BY DEF Inv, TypeOK, Labels, Requests, Stages, States, Arm, Goto
  <1>2. Shape' /\ FlowEnds' /\ FlowIsThere' /\ StoredSoon'
    BY DEF Inv, TypeOK, Shape, FlowEnds, FlowIsThere, AtFlow, StoredSoon, NoFlow, Flow, Arm,
           Goto
  <1>3. NewsOfThePast' /\ CancelDismisses'
    BY DEF Inv, TypeOK, Shape, FlowEnds, FlowIsThere, AtFlow, NewsOfThePast, Midway,
           CancelDismisses, NoFlow, Flow, Arm, Goto
  <1>4. Carried'
    BY DEF Inv, TypeOK, Shape, FlowEnds, FlowIsThere, AtFlow, StoredSoon, NewsOfThePast,
           Midway, CancelDismisses, Carried, IsFinished, ByNew, ByRequest, ByCancel, ByFlow,
           Final, NoFlow, Flow, Arm, Goto
  <1> QED
    BY <1>1, <1>2, <1>3, <1>4 DEF Inv

LEMMA SubscribeKeeps == ASSUME Inv, Subscribe PROVE Inv'
  <1>1. TypeOK'
    BY DEF Inv, TypeOK, Labels, Requests, Stages, States, Subscribe
  <1>2. Shape' /\ FlowEnds' /\ FlowIsThere' /\ StoredSoon'
    BY DEF Inv, TypeOK, Shape, FlowEnds, FlowIsThere, AtFlow, StoredSoon, NoFlow, Flow,
           Subscribe
  <1>3. NewsOfThePast' /\ CancelDismisses'
    BY DEF Inv, TypeOK, Shape, FlowEnds, FlowIsThere, AtFlow, NewsOfThePast, Midway,
           CancelDismisses, NoFlow, Flow, Subscribe
  <1>4. Carried'
    BY DEF Inv, TypeOK, Shape, FlowEnds, FlowIsThere, AtFlow, StoredSoon, NewsOfThePast,
           Midway, CancelDismisses, Carried, IsFinished, ByNew, ByRequest, ByCancel, ByFlow,
           Final, NoFlow, Flow, Subscribe
  <1> QED
    BY <1>1, <1>2, <1>3, <1>4 DEF Inv

LEMMA SeeKeeps == ASSUME Inv, NEW h \in Handlers, See(h) PROVE Inv'
  <1>1. TypeOK'
    <2>1. pc' \in [Handlers -> Labels] /\ val' \in [Handlers -> {"none"} \cup Requests \cup Stages]
      BY DEF Inv, TypeOK, See, Reads, Labels, Requests, Stages
    <2>2. news' \subseteq {w \in Watchers : pc'[w] # "none"}
      <3> SUFFICES ASSUME NEW w \in news' PROVE w \in Watchers /\ pc'[w] # "none"
        OBVIOUS
      <3> QED
        BY DEF Inv, TypeOK, See, Reads
    <2>3. /\ state' \in States /\ request' \in Requests
          /\ cause' = "none" <=> request' # "Cancelled"
          /\ cause' \in {"none", "us", "elsewhere", "other"}
          /\ flow' \in [kind : {"none", "sas", "qr"}, stage : Stages]
      BY DEF Inv, TypeOK, See, Reads, Requests, Stages, States
    <2>4. /\ methods' \in SUBSET {"Sas", "Show", "Scan"} /\ started' \in BOOLEAN
          /\ was_viewed' \in BOOLEAN /\ dismissed' \in BOOLEAN /\ stored' \in BOOLEAN
          /\ cancelling' \in BOOLEAN
          /\ timer' \in {"none", "asleep"} /\ room' \in {"watching", "left", "ended"}
          /\ list' \in {"new", "in", "out", "dropped"}
      BY Zenon DEF Inv, TypeOK, See, Reads
    <2>5. faults' \subseteq {"unsent", "stale"}
      BY Zenon DEF Inv, TypeOK, See, Reads
    <2> QED
      BY <2>1, <2>2, <2>3, <2>4, <2>5 DEF TypeOK
  <1>2. Shape' /\ FlowEnds' /\ FlowIsThere' /\ StoredSoon'
    BY DEF Inv, TypeOK, Shape, FlowEnds, FlowIsThere, AtFlow, StoredSoon, NoFlow, Flow, See,
           Reads
  <1>3. NewsOfThePast' /\ CancelDismisses'
    BY DEF Inv, TypeOK, Shape, FlowEnds, FlowIsThere, AtFlow, NewsOfThePast, Midway,
           CancelDismisses, NoFlow, Flow, See, Reads
  <1>4. Carried'
    BY DEF Inv, TypeOK, Shape, FlowEnds, FlowIsThere, AtFlow, StoredSoon, NewsOfThePast,
           Midway, CancelDismisses, Carried, IsFinished, ByNew, ByRequest, ByCancel, ByFlow,
           Final, NoFlow, Flow, See, Reads
  <1> QED
    BY <1>1, <1>2, <1>3, <1>4 DEF Inv

LEMMA HandleRequestStateKeeps == ASSUME Inv, NEW h \in Handlers, HandleRequestState(h) PROVE Inv'
  <1>1. TypeOK'
    <2>1. pc' \in [Handlers -> Labels] /\ val' \in [Handlers -> {"none"} \cup Requests \cup Stages]
      BY DEF Inv, TypeOK, HandleRequestState, HandleCancelled, SetState, Past, Goto, Return,
             Reads, Labels, Requests, Stages
    <2>2. news' \subseteq {w \in Watchers : pc'[w] # "none"}
      <3> SUFFICES ASSUME NEW w \in news' PROVE w \in Watchers /\ pc'[w] # "none"
        OBVIOUS
      <3> QED
        BY DEF Inv, TypeOK, HandleRequestState, HandleCancelled, SetState, Past, Goto, Return,
               Reads
    <2>3. /\ state' \in States /\ request' \in Requests
          /\ cause' = "none" <=> request' # "Cancelled"
          /\ cause' \in {"none", "us", "elsewhere", "other"}
          /\ flow' \in [kind : {"none", "sas", "qr"}, stage : Stages]
      BY DEF Inv, TypeOK, HandleRequestState, HandleCancelled, SetState, Past, Goto, Return,
             Reads, Requests, Stages, States
    <2>4. /\ methods' \in SUBSET {"Sas", "Show", "Scan"} /\ started' \in BOOLEAN
          /\ was_viewed' \in BOOLEAN /\ dismissed' \in BOOLEAN /\ stored' \in BOOLEAN
          /\ cancelling' \in BOOLEAN
          /\ timer' \in {"none", "asleep"} /\ room' \in {"watching", "left", "ended"}
          /\ list' \in {"new", "in", "out", "dropped"}
      <3>1. UNCHANGED <<given, room, list, cancelling>>
        BY DEF HandleRequestState
      <3>2. UNCHANGED <<was_viewed, stored, timer>> /\ (dismissed' = dismissed \/ dismissed' = TRUE)
        BY Zenon DEF HandleRequestState, HandleCancelled, SetState
      <3> QED
        BY <3>1, <3>2, Zenon DEF Inv, TypeOK
    <2>5. faults' \subseteq {"unsent", "stale"}
      BY Zenon DEF Inv, TypeOK, HandleRequestState, HandleCancelled, SetState, Past, Goto,
                   Return, Reads
    <2> QED
      BY <2>1, <2>2, <2>3, <2>4, <2>5 DEF TypeOK
  <1>2. Shape' /\ FlowEnds' /\ FlowIsThere' /\ StoredSoon'
    BY DEF Inv, TypeOK, Shape, FlowEnds, FlowIsThere, AtFlow, StoredSoon, NoFlow, Flow,
           HandleRequestState, HandleCancelled, SetState, Past, Goto, Return, Reads
  <1>3. NewsOfThePast' /\ CancelDismisses'
    BY DEF Inv, TypeOK, Shape, FlowEnds, FlowIsThere, AtFlow, NewsOfThePast, Midway,
           CancelDismisses, NoFlow, Flow, HandleRequestState, HandleCancelled, SetState, Past,
           Goto, Return, Reads
  <1>4. Carried'
    BY DEF Inv, TypeOK, Shape, FlowEnds, FlowIsThere, AtFlow, StoredSoon, NewsOfThePast,
           Midway, CancelDismisses, Carried, IsFinished, ByNew, ByRequest, ByCancel, ByFlow,
           Final, NoFlow, Flow, HandleRequestState, HandleCancelled, SetState, Past, Goto,
           Return, Reads
  <1> QED
    BY <1>1, <1>2, <1>3, <1>4 DEF Inv

LEMMA ChooseFlowKeeps == ASSUME Inv, NEW h \in Handlers, ChooseFlow(h) PROVE Inv'
  <1>1. TypeOK'
    BY DEF Inv, TypeOK, Labels, Requests, Stages, States, ChooseFlow, Goto
  <1>2. Shape' /\ FlowEnds' /\ FlowIsThere' /\ StoredSoon'
    BY DEF Inv, TypeOK, Shape, FlowEnds, FlowIsThere, AtFlow, StoredSoon, NoFlow, Flow,
           ChooseFlow, Goto
  <1>3. NewsOfThePast' /\ CancelDismisses'
    BY DEF Inv, TypeOK, Shape, FlowEnds, FlowIsThere, AtFlow, NewsOfThePast, Midway,
           CancelDismisses, NoFlow, Flow, ChooseFlow, Goto
  <1>4. Carried'
    BY DEF Inv, TypeOK, Shape, FlowEnds, FlowIsThere, AtFlow, StoredSoon, NewsOfThePast,
           Midway, CancelDismisses, Carried, IsFinished, ByNew, ByRequest, ByCancel, ByFlow,
           Final, NoFlow, Flow, ChooseFlow, Goto
  <1> QED
    BY <1>1, <1>2, <1>3, <1>4 DEF Inv

LEMMA AutoStartSasKeeps == ASSUME Inv, NEW h \in Handlers, AutoStartSas(h) PROVE Inv'
  <1>1. TypeOK'
    <2>1. pc' \in [Handlers -> Labels] /\ val' \in [Handlers -> {"none"} \cup Requests \cup Stages]
      BY DEF Inv, TypeOK, AutoStartSas, Starts, Tell, Flow, Goto, Return, Reads, Labels,
             Requests, Stages
    <2>2. news' \subseteq {w \in Watchers : pc'[w] # "none"}
      <3> SUFFICES ASSUME NEW w \in news' PROVE w \in Watchers /\ pc'[w] # "none"
        OBVIOUS
      <3>1. w \in news \/ (w \in Watchers /\ pc[w] # "none")
        BY Zenon DEF AutoStartSas, Starts, Tell, Flow, Goto, Return, Reads
      <3>2. w \in Watchers /\ pc[w] # "none"
        BY <3>1 DEF Inv, TypeOK
      <3>3. pc'[w] # "none"
        BY <3>2 DEF Inv, TypeOK, AutoStartSas, Goto, Return, Reads
      <3> QED
        BY <3>2, <3>3
    <2>3. /\ state' \in States /\ request' \in Requests
          /\ cause' = "none" <=> request' # "Cancelled"
          /\ cause' \in {"none", "us", "elsewhere", "other"}
          /\ flow' \in [kind : {"none", "sas", "qr"}, stage : Stages]
      BY DEF Inv, TypeOK, AutoStartSas, Starts, Tell, Flow, Goto, Return, Reads, Requests,
             Stages, States
    <2>4. /\ methods' \in SUBSET {"Sas", "Show", "Scan"} /\ started' \in BOOLEAN
          /\ was_viewed' \in BOOLEAN /\ dismissed' \in BOOLEAN /\ stored' \in BOOLEAN
          /\ cancelling' \in BOOLEAN
          /\ timer' \in {"none", "asleep"} /\ room' \in {"watching", "left", "ended"}
          /\ list' \in {"new", "in", "out", "dropped"}
      BY Zenon DEF Inv, TypeOK, AutoStartSas, Starts, Tell, Flow, Goto, Return, Reads
    <2>5. faults' \subseteq {"unsent", "stale"}
      BY Zenon DEF Inv, TypeOK, AutoStartSas, Starts, Tell, Flow, Goto, Return, Reads
    <2> QED
      BY <2>1, <2>2, <2>3, <2>4, <2>5 DEF TypeOK
  <1>2. Shape' /\ FlowEnds' /\ FlowIsThere' /\ StoredSoon'
    BY DEF Inv, TypeOK, Shape, FlowEnds, FlowIsThere, AtFlow, StoredSoon, NoFlow, Flow,
           AutoStartSas, Starts, Tell, Goto, Return, Reads
  <1>3. NewsOfThePast' /\ CancelDismisses'
    BY DEF Inv, TypeOK, Shape, FlowEnds, FlowIsThere, AtFlow, NewsOfThePast, Midway,
           CancelDismisses, NoFlow, Flow, AutoStartSas, Starts, Tell, Goto, Return, Reads
  <1>4. Carried'
    BY DEF Inv, TypeOK, Shape, FlowEnds, FlowIsThere, AtFlow, StoredSoon, NewsOfThePast,
           Midway, CancelDismisses, Carried, IsFinished, ByNew, ByRequest, ByCancel, ByFlow,
           Final, NoFlow, Flow, AutoStartSas, Starts, Tell, Goto, Return, Reads
  <1> QED
    BY <1>1, <1>2, <1>3, <1>4 DEF Inv

LEMMA SetReadyKeeps == ASSUME Inv, NEW h \in Handlers, SetReady(h) PROVE Inv'
  <1>1. TypeOK'
    BY DEF Inv, TypeOK, Labels, Requests, Stages, States, SetReady, SetState, Past, Return,
           Reads
  <1>2. Shape' /\ FlowEnds' /\ FlowIsThere' /\ StoredSoon'
    BY DEF Inv, TypeOK, Shape, FlowEnds, FlowIsThere, AtFlow, StoredSoon, NoFlow, Flow,
           SetReady, SetState, Past, Return, Reads
  <1>3. NewsOfThePast' /\ CancelDismisses'
    BY DEF Inv, TypeOK, Shape, FlowEnds, FlowIsThere, AtFlow, NewsOfThePast, Midway,
           CancelDismisses, NoFlow, Flow, SetReady, SetState, Past, Return, Reads
  <1>4. Carried'
    BY DEF Inv, TypeOK, Shape, FlowEnds, FlowIsThere, AtFlow, StoredSoon, NewsOfThePast,
           Midway, CancelDismisses, Carried, IsFinished, ByNew, ByRequest, ByCancel, ByFlow,
           Final, NoFlow, Flow, SetReady, SetState, Past, Return, Reads
  <1> QED
    BY <1>1, <1>2, <1>3, <1>4 DEF Inv

LEMMA AutoCancelKeeps == ASSUME Inv, NEW h \in Handlers, AutoCancel(h) PROVE Inv'
  <1>1. TypeOK'
    BY DEF Inv, TypeOK, Labels, Requests, Stages, States, AutoCancel, SetState, Past, Return,
           Reads, Goto, Cancels, Tell
  <1>2. Shape' /\ FlowEnds' /\ FlowIsThere' /\ StoredSoon'
    BY DEF Inv, TypeOK, Shape, FlowEnds, FlowIsThere, AtFlow, StoredSoon, NoFlow, Flow,
           AutoCancel, SetState, Past, Return, Reads, Goto, Cancels, Tell
  <1>3. NewsOfThePast' /\ CancelDismisses'
    BY DEF Inv, TypeOK, Shape, FlowEnds, FlowIsThere, AtFlow, NewsOfThePast, Midway,
           CancelDismisses, NoFlow, Flow, AutoCancel, SetState, Past, Return, Reads, Goto,
           Cancels, Tell
  <1>4. Carried'
    BY DEF Inv, TypeOK, Shape, FlowEnds, FlowIsThere, AtFlow, StoredSoon, NewsOfThePast,
           Midway, CancelDismisses, Carried, IsFinished, ByNew, ByRequest, ByCancel, ByFlow,
           Final, NoFlow, Flow, AutoCancel, SetState, Past, Return, Reads, Goto, Cancels, Tell
  <1> QED
    BY <1>1, <1>2, <1>3, <1>4 DEF Inv

LEMMA AutoCancelledKeeps == ASSUME Inv, NEW h \in Handlers, AutoCancelled(h) PROVE Inv'
  <1>1. TypeOK'
    <2>1. pc' \in [Handlers -> Labels] /\ val' \in [Handlers -> {"none"} \cup Requests \cup Stages]
      BY DEF Inv, TypeOK, AutoCancelled, Return, Reads, Labels, Requests, Stages
    <2>2. news' \subseteq {w \in Watchers : pc'[w] # "none"}
      <3> SUFFICES ASSUME NEW w \in news' PROVE w \in Watchers /\ pc'[w] # "none"
        OBVIOUS
      <3> QED
        BY DEF Inv, TypeOK, AutoCancelled, Return, Reads
    <2>3. /\ state' \in States /\ request' \in Requests
          /\ cause' = "none" <=> request' # "Cancelled"
          /\ cause' \in {"none", "us", "elsewhere", "other"}
          /\ flow' \in [kind : {"none", "sas", "qr"}, stage : Stages]
      BY DEF Inv, TypeOK, AutoCancelled, Return, Reads, Requests, Stages, States
    <2>4. /\ methods' \in SUBSET {"Sas", "Show", "Scan"} /\ started' \in BOOLEAN
          /\ was_viewed' \in BOOLEAN /\ dismissed' \in BOOLEAN /\ stored' \in BOOLEAN
          /\ cancelling' \in BOOLEAN
          /\ timer' \in {"none", "asleep"} /\ room' \in {"watching", "left", "ended"}
          /\ list' \in {"new", "in", "out", "dropped"}
      BY Zenon DEF Inv, TypeOK, AutoCancelled, Return, Reads
    <2>5. faults' \subseteq {"unsent", "stale"}
      BY Zenon DEF Inv, TypeOK, AutoCancelled, Return, Reads
    <2> QED
      BY <2>1, <2>2, <2>3, <2>4, <2>5 DEF TypeOK
  <1>2. Shape' /\ FlowEnds' /\ FlowIsThere' /\ StoredSoon'
    BY DEF Inv, TypeOK, Shape, FlowEnds, FlowIsThere, AtFlow, StoredSoon, NoFlow, Flow,
           AutoCancelled, Return, Reads
  <1>3. NewsOfThePast' /\ CancelDismisses'
    BY DEF Inv, TypeOK, Shape, FlowEnds, FlowIsThere, AtFlow, NewsOfThePast, Midway,
           CancelDismisses, NoFlow, Flow, AutoCancelled, Return, Reads
  <1>4. Carried'
    BY DEF Inv, TypeOK, Shape, FlowEnds, FlowIsThere, AtFlow, StoredSoon, NewsOfThePast,
           Midway, CancelDismisses, Carried, IsFinished, ByNew, ByRequest, ByCancel, ByFlow,
           Final, NoFlow, Flow, AutoCancelled, Return, Reads
  <1> QED
    BY <1>1, <1>2, <1>3, <1>4 DEF Inv

LEMMA SpawnFlowKeeps == ASSUME Inv, NEW h \in Handlers, SpawnFlow(h) PROVE Inv'
  <1>1. TypeOK'
    BY DEF Inv, TypeOK, Labels, Requests, Stages, States, SpawnFlow
  <1>2. Shape' /\ FlowEnds' /\ FlowIsThere' /\ StoredSoon'
    BY DEF Inv, TypeOK, Shape, FlowEnds, FlowIsThere, AtFlow, StoredSoon, NoFlow, Flow,
           SpawnFlow
  <1>3. NewsOfThePast' /\ CancelDismisses'
    BY DEF Inv, TypeOK, Shape, FlowEnds, FlowIsThere, AtFlow, NewsOfThePast, Midway,
           CancelDismisses, NoFlow, Flow, SpawnFlow
  <1>4. Carried'
    BY DEF Inv, TypeOK, Shape, FlowEnds, FlowIsThere, AtFlow, StoredSoon, NewsOfThePast,
           Midway, CancelDismisses, Carried, IsFinished, ByNew, ByRequest, ByCancel, ByFlow,
           Final, NoFlow, Flow, SpawnFlow
  <1> QED
    BY <1>1, <1>2, <1>3, <1>4 DEF Inv

LEMMA StoreKeeps == ASSUME Inv, NEW h \in Handlers, Store(h) PROVE Inv'
  <1>1. TypeOK'
    BY DEF Inv, TypeOK, Labels, Requests, Stages, States, Store, Goto
  <1>2. Shape' /\ FlowEnds' /\ FlowIsThere' /\ StoredSoon'
    BY DEF Inv, TypeOK, Shape, FlowEnds, FlowIsThere, AtFlow, StoredSoon, NoFlow, Flow, Store,
           Goto
  <1>3. NewsOfThePast' /\ CancelDismisses'
    BY DEF Inv, TypeOK, Shape, FlowEnds, FlowIsThere, AtFlow, NewsOfThePast, Midway,
           CancelDismisses, NoFlow, Flow, Store, Goto
  <1>4. Carried'
    BY DEF Inv, TypeOK, Shape, FlowEnds, FlowIsThere, AtFlow, StoredSoon, NewsOfThePast,
           Midway, CancelDismisses, Carried, IsFinished, ByNew, ByRequest, ByCancel, ByFlow,
           Final, NoFlow, Flow, Store, Goto
  <1> QED
    BY <1>1, <1>2, <1>3, <1>4 DEF Inv

LEMMA SeeFlowKeeps == ASSUME Inv, NEW h \in Handlers, SeeFlow(h) PROVE Inv'
  <1>1. TypeOK'
    BY DEF Inv, TypeOK, Labels, Requests, Stages, States, SeeFlow, Reads
  <1>2. Shape' /\ FlowEnds' /\ FlowIsThere' /\ StoredSoon'
    BY DEF Inv, TypeOK, Shape, FlowEnds, FlowIsThere, AtFlow, StoredSoon, NoFlow, Flow,
           SeeFlow, Reads
  <1>3. NewsOfThePast' /\ CancelDismisses'
    BY DEF Inv, TypeOK, Shape, FlowEnds, FlowIsThere, AtFlow, NewsOfThePast, Midway,
           CancelDismisses, NoFlow, Flow, SeeFlow, Reads
  <1>4. Carried'
    BY DEF Inv, TypeOK, Shape, FlowEnds, FlowIsThere, AtFlow, StoredSoon, NewsOfThePast,
           Midway, CancelDismisses, Carried, IsFinished, ByNew, ByRequest, ByCancel, ByFlow,
           Final, NoFlow, Flow, SeeFlow, Reads
  <1> QED
    BY <1>1, <1>2, <1>3, <1>4 DEF Inv

LEMMA HandleFlowStateKeeps == ASSUME Inv, NEW h \in Handlers, HandleFlowState(h) PROVE Inv'
  <1>1. TypeOK'
    <2>1. pc' \in [Handlers -> Labels] /\ val' \in [Handlers -> {"none"} \cup Requests \cup Stages]
      BY DEF Inv, TypeOK, HandleFlowState, HandleCancelled, SetState, Past, Goto, Return,
             Reads, Labels, Requests, Stages
    <2>2. news' \subseteq {w \in Watchers : pc'[w] # "none"}
      <3> SUFFICES ASSUME NEW w \in news' PROVE w \in Watchers /\ pc'[w] # "none"
        OBVIOUS
      <3> QED
        BY DEF Inv, TypeOK, HandleFlowState, HandleCancelled, SetState, Past, Goto, Return,
               Reads
    <2>3. /\ state' \in States /\ request' \in Requests
          /\ cause' = "none" <=> request' # "Cancelled"
          /\ cause' \in {"none", "us", "elsewhere", "other"}
          /\ flow' \in [kind : {"none", "sas", "qr"}, stage : Stages]
      BY DEF Inv, TypeOK, HandleFlowState, HandleCancelled, SetState, Past, Goto, Return,
             Reads, Requests, Stages, States
    <2>4. /\ methods' \in SUBSET {"Sas", "Show", "Scan"} /\ started' \in BOOLEAN
          /\ was_viewed' \in BOOLEAN /\ dismissed' \in BOOLEAN /\ stored' \in BOOLEAN
          /\ cancelling' \in BOOLEAN
          /\ timer' \in {"none", "asleep"} /\ room' \in {"watching", "left", "ended"}
          /\ list' \in {"new", "in", "out", "dropped"}
      <3>1. UNCHANGED <<given, room, list, cancelling>>
        BY DEF HandleFlowState
      <3>2. UNCHANGED <<was_viewed, stored, timer>> /\ (dismissed' = dismissed \/ dismissed' = TRUE)
        BY Zenon DEF HandleFlowState, HandleCancelled, SetState
      <3> QED
        BY <3>1, <3>2, Zenon DEF Inv, TypeOK
    <2>5. faults' \subseteq {"unsent", "stale"}
      BY Zenon DEF Inv, TypeOK, HandleFlowState, HandleCancelled, SetState, Past, Goto,
                   Return, Reads
    <2> QED
      BY <2>1, <2>2, <2>3, <2>4, <2>5 DEF TypeOK
  <1>2. Shape' /\ FlowEnds' /\ FlowIsThere' /\ StoredSoon'
    BY DEF Inv, TypeOK, Shape, FlowEnds, FlowIsThere, AtFlow, StoredSoon, NoFlow, Flow,
           HandleFlowState, HandleCancelled, SetState, Past, Goto, Return, Reads
  <1>3. NewsOfThePast' /\ CancelDismisses'
    BY DEF Inv, TypeOK, Shape, FlowEnds, FlowIsThere, AtFlow, NewsOfThePast, Midway,
           CancelDismisses, NoFlow, Flow, HandleFlowState, HandleCancelled, SetState, Past,
           Goto, Return, Reads
  <1>4. Carried'
    BY DEF Inv, TypeOK, Shape, FlowEnds, FlowIsThere, AtFlow, StoredSoon, NewsOfThePast,
           Midway, CancelDismisses, Carried, IsFinished, ByNew, ByRequest, ByCancel, ByFlow,
           Final, NoFlow, Flow, HandleFlowState, HandleCancelled, SetState, Past, Goto,
           Return, Reads
  <1> QED
    BY <1>1, <1>2, <1>3, <1>4 DEF Inv

LEMMA AcceptSasKeeps == ASSUME Inv, NEW h \in Handlers, AcceptSas(h) PROVE Inv'
  <1>1. TypeOK'
    BY DEF Inv, TypeOK, Labels, Requests, Stages, States, AcceptSas, SetState, Past, Return,
           Reads, Proceeds, Tell
  <1>2. Shape' /\ FlowEnds' /\ FlowIsThere' /\ StoredSoon'
    BY DEF Inv, TypeOK, Shape, FlowEnds, FlowIsThere, AtFlow, StoredSoon, NoFlow, Flow,
           AcceptSas, SetState, Past, Return, Reads, Proceeds, Tell
  <1>3. NewsOfThePast' /\ CancelDismisses'
    BY DEF Inv, TypeOK, Shape, FlowEnds, FlowIsThere, AtFlow, NewsOfThePast, Midway,
           CancelDismisses, NoFlow, Flow, AcceptSas, SetState, Past, Return, Reads, Proceeds,
           Tell
  <1>4. Carried'
    BY DEF Inv, TypeOK, Shape, FlowEnds, FlowIsThere, AtFlow, StoredSoon, NewsOfThePast,
           Midway, CancelDismisses, Carried, IsFinished, ByNew, ByRequest, ByCancel, ByFlow,
           Final, NoFlow, Flow, AcceptSas, SetState, Past, Return, Reads, Proceeds, Tell
  <1> QED
    BY <1>1, <1>2, <1>3, <1>4 DEF Inv

LEMMA TimeOutKeeps == ASSUME Inv, TimeOut PROVE Inv'
  <1>1. TypeOK'
    BY DEF Inv, TypeOK, Labels, Requests, Stages, States, TimeOut
  <1>2. Shape' /\ FlowEnds' /\ FlowIsThere' /\ StoredSoon'
    BY DEF Inv, TypeOK, Shape, FlowEnds, FlowIsThere, AtFlow, StoredSoon, NoFlow, Flow, TimeOut
  <1>3. NewsOfThePast' /\ CancelDismisses'
    BY DEF Inv, TypeOK, Shape, FlowEnds, FlowIsThere, AtFlow, NewsOfThePast, Midway,
           CancelDismisses, NoFlow, Flow, TimeOut
  <1>4. Carried'
    BY DEF Inv, TypeOK, Shape, FlowEnds, FlowIsThere, AtFlow, StoredSoon, NewsOfThePast,
           Midway, CancelDismisses, Carried, IsFinished, ByNew, ByRequest, ByCancel, ByFlow,
           Final, NoFlow, Flow, TimeOut
  <1> QED
    BY <1>1, <1>2, <1>3, <1>4 DEF Inv

LEMMA NoticeLeftKeeps == ASSUME Inv, NoticeLeft PROVE Inv'
  <1>1. TypeOK'
    BY DEF Inv, TypeOK, Labels, Requests, Stages, States, NoticeLeft
  <1>2. Shape' /\ FlowEnds' /\ FlowIsThere' /\ StoredSoon'
    BY DEF Inv, TypeOK, Shape, FlowEnds, FlowIsThere, AtFlow, StoredSoon, NoFlow, Flow,
           NoticeLeft
  <1>3. NewsOfThePast' /\ CancelDismisses'
    BY DEF Inv, TypeOK, Shape, FlowEnds, FlowIsThere, AtFlow, NewsOfThePast, Midway,
           CancelDismisses, NoFlow, Flow, NoticeLeft
  <1>4. Carried'
    BY DEF Inv, TypeOK, Shape, FlowEnds, FlowIsThere, AtFlow, StoredSoon, NewsOfThePast,
           Midway, CancelDismisses, Carried, IsFinished, ByNew, ByRequest, ByCancel, ByFlow,
           Final, NoFlow, Flow, NoticeLeft
  <1> QED
    BY <1>1, <1>2, <1>3, <1>4 DEF Inv

LEMMA AddKeeps == ASSUME Inv, Add PROVE Inv'
  <1>1. TypeOK'
    BY DEF Inv, TypeOK, Labels, Requests, Stages, States, Add
  <1>2. Shape' /\ FlowEnds' /\ FlowIsThere' /\ StoredSoon'
    BY DEF Inv, TypeOK, Shape, FlowEnds, FlowIsThere, AtFlow, StoredSoon, NoFlow, Flow, Add
  <1>3. NewsOfThePast' /\ CancelDismisses'
    BY DEF Inv, TypeOK, Shape, FlowEnds, FlowIsThere, AtFlow, NewsOfThePast, Midway,
           CancelDismisses, NoFlow, Flow, Add
  <1>4. Carried'
    BY DEF Inv, TypeOK, Shape, FlowEnds, FlowIsThere, AtFlow, StoredSoon, NewsOfThePast,
           Midway, CancelDismisses, Carried, IsFinished, ByNew, ByRequest, ByCancel, ByFlow,
           Final, NoFlow, Flow, Add
  <1> QED
    BY <1>1, <1>2, <1>3, <1>4 DEF Inv

LEMMA RemoveKeeps == ASSUME Inv, Remove PROVE Inv'
  <1>1. TypeOK'
    BY DEF Inv, TypeOK, Labels, Requests, Stages, States, Remove
  <1>2. Shape' /\ FlowEnds' /\ FlowIsThere' /\ StoredSoon'
    BY DEF Inv, TypeOK, Shape, FlowEnds, FlowIsThere, AtFlow, StoredSoon, NoFlow, Flow, Remove
  <1>3. NewsOfThePast' /\ CancelDismisses'
    BY DEF Inv, TypeOK, Shape, FlowEnds, FlowIsThere, AtFlow, NewsOfThePast, Midway,
           CancelDismisses, NoFlow, Flow, Remove
  <1>4. Carried'
    BY DEF Inv, TypeOK, Shape, FlowEnds, FlowIsThere, AtFlow, StoredSoon, NewsOfThePast,
           Midway, CancelDismisses, Carried, IsFinished, ByNew, ByRequest, ByCancel, ByFlow,
           Final, NoFlow, Flow, Remove
  <1> QED
    BY <1>1, <1>2, <1>3, <1>4 DEF Inv

LEMMA DropKeeps == ASSUME Inv, Drop PROVE Inv'
  <1>1. TypeOK'
    BY DEF Inv, TypeOK, Labels, Requests, Stages, States, Drop, Cancels, Tell
  <1>2. Shape' /\ FlowEnds' /\ FlowIsThere' /\ StoredSoon'
    BY DEF Inv, TypeOK, Shape, FlowEnds, FlowIsThere, AtFlow, StoredSoon, NoFlow, Flow, Drop,
           Cancels, Tell
  <1>3. NewsOfThePast' /\ CancelDismisses'
    BY DEF Inv, TypeOK, Shape, FlowEnds, FlowIsThere, AtFlow, NewsOfThePast, Midway,
           CancelDismisses, NoFlow, Flow, Drop, Cancels, Tell
  <1>4. Carried'
    BY DEF Inv, TypeOK, Shape, FlowEnds, FlowIsThere, AtFlow, StoredSoon, NewsOfThePast,
           Midway, CancelDismisses, Carried, IsFinished, ByNew, ByRequest, ByCancel, ByFlow,
           Final, NoFlow, Flow, Drop, Cancels, Tell
  <1> QED
    BY <1>1, <1>2, <1>3, <1>4 DEF Inv

LEMMA ViewKeeps == ASSUME Inv, View PROVE Inv'
  <1>1. TypeOK'
    BY DEF Inv, TypeOK, Labels, Requests, Stages, States, View
  <1>2. Shape' /\ FlowEnds' /\ FlowIsThere' /\ StoredSoon'
    BY DEF Inv, TypeOK, Shape, FlowEnds, FlowIsThere, AtFlow, StoredSoon, NoFlow, Flow, View
  <1>3. NewsOfThePast' /\ CancelDismisses'
    BY DEF Inv, TypeOK, Shape, FlowEnds, FlowIsThere, AtFlow, NewsOfThePast, Midway,
           CancelDismisses, NoFlow, Flow, View
  <1>4. Carried'
    BY DEF Inv, TypeOK, Shape, FlowEnds, FlowIsThere, AtFlow, StoredSoon, NewsOfThePast,
           Midway, CancelDismisses, Carried, IsFinished, ByNew, ByRequest, ByCancel, ByFlow,
           Final, NoFlow, Flow, View
  <1> QED
    BY <1>1, <1>2, <1>3, <1>4 DEF Inv

LEMMA AskKeeps == ASSUME Inv, Ask PROVE Inv'
  <1>1. TypeOK'
    BY DEF Inv, TypeOK, Labels, Requests, Stages, States, Ask, Accept, StartSas, Confirm,
           SasMismatch, Becomes, Starts, Proceeds, Cancels, Tell, NoFlow, Flow
  <1>2. Shape' /\ FlowEnds' /\ FlowIsThere' /\ StoredSoon'
    BY DEF Inv, TypeOK, Shape, FlowEnds, FlowIsThere, AtFlow, StoredSoon, NoFlow, Flow, Ask,
           Accept, StartSas, Confirm, SasMismatch, Becomes, Starts, Proceeds, Cancels, Tell
  <1>3. NewsOfThePast' /\ CancelDismisses'
    BY DEF Inv, TypeOK, Shape, FlowEnds, FlowIsThere, AtFlow, NewsOfThePast, Midway,
           CancelDismisses, NoFlow, Flow, Ask, Accept, StartSas, Confirm, SasMismatch,
           Becomes, Starts, Proceeds, Cancels, Tell
  <1>4. Carried'
    BY DEF Inv, TypeOK, Shape, FlowEnds, FlowIsThere, AtFlow, StoredSoon, NewsOfThePast,
           Midway, CancelDismisses, Carried, IsFinished, ByNew, ByRequest, ByCancel, ByFlow,
           Final, NoFlow, Flow, Ask, Accept, StartSas, Confirm, SasMismatch, Becomes, Starts,
           Proceeds, Cancels, Tell
  <1> QED
    BY <1>1, <1>2, <1>3, <1>4 DEF Inv

LEMMA SetByHandKeeps == ASSUME Inv, SetByHand PROVE Inv'
  <1>1. TypeOK'
    <2>1. pc' \in [Handlers -> Labels] /\ val' \in [Handlers -> {"none"} \cup Requests \cup Stages]
      BY DEF Inv, TypeOK, SetByHand, StartQrCodeScan, ChooseMethod, QrCodeScanned, Starts,
             Tell, Flow, Labels, Requests, Stages
    <2>2. news' \subseteq {w \in Watchers : pc'[w] # "none"}
      <3> SUFFICES ASSUME NEW w \in news' PROVE w \in Watchers /\ pc'[w] # "none"
        OBVIOUS
      <3>1. w \in news \/ (w \in Watchers /\ pc[w] # "none")
        BY Zenon DEF SetByHand, StartQrCodeScan, ChooseMethod, QrCodeScanned, Starts, Tell, Flow
      <3>2. w \in Watchers /\ pc[w] # "none"
        BY <3>1 DEF Inv, TypeOK
      <3>3. pc'[w] # "none"
        BY <3>2 DEF Inv, TypeOK, SetByHand, StartQrCodeScan, ChooseMethod, QrCodeScanned
      <3> QED
        BY <3>2, <3>3
    <2>3. /\ state' \in States /\ request' \in Requests
          /\ cause' = "none" <=> request' # "Cancelled"
          /\ cause' \in {"none", "us", "elsewhere", "other"}
          /\ flow' \in [kind : {"none", "sas", "qr"}, stage : Stages]
      BY DEF Inv, TypeOK, SetByHand, StartQrCodeScan, ChooseMethod, QrCodeScanned, Starts,
             Tell, Flow, Requests, Stages, States
    <2>4. /\ methods' \in SUBSET {"Sas", "Show", "Scan"} /\ started' \in BOOLEAN
          /\ was_viewed' \in BOOLEAN /\ dismissed' \in BOOLEAN /\ stored' \in BOOLEAN
          /\ cancelling' \in BOOLEAN
          /\ timer' \in {"none", "asleep"} /\ room' \in {"watching", "left", "ended"}
          /\ list' \in {"new", "in", "out", "dropped"}
      BY Zenon DEF Inv, TypeOK, SetByHand, StartQrCodeScan, ChooseMethod, QrCodeScanned,
                   Starts, Tell, Flow
    <2>5. faults' \subseteq {"unsent", "stale"}
      BY Zenon DEF Inv, TypeOK, SetByHand, StartQrCodeScan, ChooseMethod, QrCodeScanned,
                   Starts, Tell, Flow
    <2> QED
      BY <2>1, <2>2, <2>3, <2>4, <2>5 DEF TypeOK
  <1>2. Shape' /\ FlowEnds' /\ FlowIsThere' /\ StoredSoon'
    BY DEF Inv, TypeOK, Shape, FlowEnds, FlowIsThere, AtFlow, StoredSoon, NoFlow, Flow,
           SetByHand, StartQrCodeScan, ChooseMethod, QrCodeScanned, Starts, Tell
  <1>3. NewsOfThePast' /\ CancelDismisses'
    BY DEF Inv, TypeOK, Shape, FlowEnds, FlowIsThere, AtFlow, NewsOfThePast, Midway,
           CancelDismisses, NoFlow, Flow, SetByHand, StartQrCodeScan, ChooseMethod,
           QrCodeScanned, Starts, Tell
  <1>4. Carried'
    BY DEF Inv, TypeOK, Shape, FlowEnds, FlowIsThere, AtFlow, StoredSoon, NewsOfThePast,
           Midway, CancelDismisses, Carried, IsFinished, ByNew, ByRequest, ByCancel, ByFlow,
           Final, NoFlow, Flow, SetByHand, StartQrCodeScan, ChooseMethod, QrCodeScanned,
           Starts, Tell
  <1> QED
    BY <1>1, <1>2, <1>3, <1>4 DEF Inv

LEMMA BeginCancelKeeps == ASSUME Inv, BeginCancel PROVE Inv'
  <1>1. TypeOK'
    BY DEF Inv, TypeOK, Labels, Requests, Stages, States, BeginCancel, Cancels, Tell
  <1>2. Shape' /\ FlowEnds' /\ FlowIsThere' /\ StoredSoon'
    BY DEF Inv, TypeOK, Shape, FlowEnds, FlowIsThere, AtFlow, StoredSoon, NoFlow, Flow,
           BeginCancel, Cancels, Tell
  <1>3. NewsOfThePast' /\ CancelDismisses'
    BY DEF Inv, TypeOK, Shape, FlowEnds, FlowIsThere, AtFlow, NewsOfThePast, Midway,
           CancelDismisses, NoFlow, Flow, BeginCancel, Cancels, Tell
  <1>4. Carried'
    BY DEF Inv, TypeOK, Shape, FlowEnds, FlowIsThere, AtFlow, StoredSoon, NewsOfThePast,
           Midway, CancelDismisses, Carried, IsFinished, ByNew, ByRequest, ByCancel, ByFlow,
           Final, NoFlow, Flow, BeginCancel, Cancels, Tell
  <1> QED
    BY <1>1, <1>2, <1>3, <1>4 DEF Inv

LEMMA EndCancelKeeps == ASSUME Inv, EndCancel PROVE Inv'
  <1>1. TypeOK'
    <2>1. pc' \in [Handlers -> Labels] /\ val' \in [Handlers -> {"none"} \cup Requests \cup Stages]
      BY DEF Inv, TypeOK, EndCancel, Labels, Requests, Stages
    <2>2. news' \subseteq {w \in Watchers : pc'[w] # "none"}
      <3> SUFFICES ASSUME NEW w \in news' PROVE w \in Watchers /\ pc'[w] # "none"
        OBVIOUS
      <3> QED
        BY DEF Inv, TypeOK, EndCancel
    <2>3. /\ state' \in States /\ request' \in Requests
          /\ cause' = "none" <=> request' # "Cancelled"
          /\ cause' \in {"none", "us", "elsewhere", "other"}
          /\ flow' \in [kind : {"none", "sas", "qr"}, stage : Stages]
      BY DEF Inv, TypeOK, EndCancel, Requests, Stages, States
    <2>4. /\ methods' \in SUBSET {"Sas", "Show", "Scan"} /\ started' \in BOOLEAN
          /\ was_viewed' \in BOOLEAN /\ dismissed' \in BOOLEAN /\ stored' \in BOOLEAN
          /\ cancelling' \in BOOLEAN
          /\ timer' \in {"none", "asleep"} /\ room' \in {"watching", "left", "ended"}
          /\ list' \in {"new", "in", "out", "dropped"}
      BY Zenon DEF Inv, TypeOK, EndCancel
    <2>5. faults' \subseteq {"unsent", "stale"}
      BY Zenon DEF Inv, TypeOK, EndCancel
    <2> QED
      BY <2>1, <2>2, <2>3, <2>4, <2>5 DEF TypeOK
  <1>2. Shape' /\ FlowEnds' /\ FlowIsThere' /\ StoredSoon'
    BY DEF Inv, TypeOK, Shape, FlowEnds, FlowIsThere, AtFlow, StoredSoon, NoFlow, Flow,
           EndCancel
  <1>3. NewsOfThePast' /\ CancelDismisses'
    BY DEF Inv, TypeOK, Shape, FlowEnds, FlowIsThere, AtFlow, NewsOfThePast, Midway,
           CancelDismisses, NoFlow, Flow, EndCancel
  <1>4. Carried'
    BY DEF Inv, TypeOK, Shape, FlowEnds, FlowIsThere, AtFlow, StoredSoon, NewsOfThePast,
           Midway, CancelDismisses, Carried, IsFinished, ByNew, ByRequest, ByCancel, ByFlow,
           Final, NoFlow, Flow, EndCancel
  <1> QED
    BY <1>1, <1>2, <1>3, <1>4 DEF Inv

LEMMA DismissKeeps == ASSUME Inv, Dismiss PROVE Inv'
  <1>1. TypeOK'
    BY DEF Inv, TypeOK, Labels, Requests, Stages, States, Dismiss
  <1>2. Shape' /\ FlowEnds' /\ FlowIsThere' /\ StoredSoon'
    BY DEF Inv, TypeOK, Shape, FlowEnds, FlowIsThere, AtFlow, StoredSoon, NoFlow, Flow, Dismiss
  <1>3. NewsOfThePast' /\ CancelDismisses'
    BY DEF Inv, TypeOK, Shape, FlowEnds, FlowIsThere, AtFlow, NewsOfThePast, Midway,
           CancelDismisses, NoFlow, Flow, Dismiss
  <1>4. Carried'
    BY DEF Inv, TypeOK, Shape, FlowEnds, FlowIsThere, AtFlow, StoredSoon, NewsOfThePast,
           Midway, CancelDismisses, Carried, IsFinished, ByNew, ByRequest, ByCancel, ByFlow,
           Final, NoFlow, Flow, Dismiss
  <1> QED
    BY <1>1, <1>2, <1>3, <1>4 DEF Inv

LEMMA StutterKeeps == ASSUME Inv, UNCHANGED vars PROVE Inv'
  <1>1. TypeOK'
    BY DEF Inv, TypeOK, Labels, Requests, Stages, States, vars
  <1>2. Shape' /\ FlowEnds' /\ FlowIsThere' /\ StoredSoon'
    BY DEF Inv, TypeOK, Shape, FlowEnds, FlowIsThere, AtFlow, StoredSoon, NoFlow, Flow, vars
  <1>3. NewsOfThePast' /\ CancelDismisses'
    BY DEF Inv, TypeOK, Shape, FlowEnds, FlowIsThere, AtFlow, NewsOfThePast, Midway,
           CancelDismisses, NoFlow, Flow, vars
  <1>4. Carried'
    BY DEF Inv, TypeOK, Shape, FlowEnds, FlowIsThere, AtFlow, StoredSoon, NewsOfThePast,
           Midway, CancelDismisses, Carried, IsFinished, ByNew, ByRequest, ByCancel, ByFlow,
           Final, NoFlow, Flow, vars
  <1> QED
    BY <1>1, <1>2, <1>3, <1>4 DEF Inv

-------------------------------------------------------------------------------
LEMMA HandleKeeps == ASSUME Inv, NEW h \in Handlers, Handle(h) PROVE Inv'
  BY ArmKeeps, SubscribeKeeps, SeeKeeps, HandleRequestStateKeeps, ChooseFlowKeeps,
     AutoStartSasKeeps, SetReadyKeeps, AutoCancelKeeps, AutoCancelledKeeps, SpawnFlowKeeps,
     StoreKeeps, SeeFlowKeeps, HandleFlowStateKeeps, AcceptSasKeeps DEF Handle

LEMMA InvInit == Init => Inv
  <1> SUFFICES ASSUME Init PROVE Inv
    OBVIOUS
  <1>1. methods \in SUBSET {"Sas", "Show", "Scan"}
    BY OfferedAssumption DEF Init
  <1>2. TypeOK
    <2>1. pc \in [Handlers -> Labels] /\ val \in [Handlers -> {"none"} \cup Requests \cup Stages]
      BY DEF Init, Labels
    <2>2. flow \in [kind : {"none", "sas", "qr"}, stage : Stages] /\ state \in States
      BY DEF Init, Stages, States, NoFlow
    <2>3. request \in Requests \ {"Cancelled"} /\ cause = "none"
      BY DEF Init, Requests
    <2> QED
      BY <1>1, <2>1, <2>2, <2>3 DEF Init, TypeOK
  <1>3. Shape /\ FlowEnds /\ FlowIsThere /\ StoredSoon
    BY DEF Init, Shape, FlowEnds, FlowIsThere, AtFlow, StoredSoon, NoFlow
  <1>4. NewsOfThePast /\ CancelDismisses /\ Carried
    BY DEF Init, NewsOfThePast, Midway, CancelDismisses, Carried
  <1> QED
    BY <1>2, <1>3, <1>4 DEF Inv

LEMMA InvNext == Inv /\ [Next]_vars => Inv'
  <1> SUFFICES ASSUME Inv, [Next]_vars PROVE Inv'
    OBVIOUS
  <1>1. CASE Tasks
    BY <1>1, TimeOutKeeps, NoticeLeftKeeps, AddKeeps, RemoveKeeps, DropKeeps, EndCancelKeeps,
       HandleKeeps DEF Tasks, Keep
  <1>2. CASE LeaveRoom \/ Other \/ FlowDone
    BY <1>2, LeaveRoomKeeps, OtherKeeps, FlowDoneKeeps
  <1>3. CASE Embedder
    BY <1>3, ViewKeeps, AskKeeps, SetByHandKeeps, BeginCancelKeeps, DismissKeeps DEF Embedder
  <1>4. CASE UNCHANGED vars
    BY <1>4, StutterKeeps DEF vars
  <1> QED
    BY <1>1, <1>2, <1>3, <1>4 DEF Next

LEMMA Invariant == Spec => []Inv
  BY InvInit, InvNext, PTL DEF Spec

(* The variables stay within their types, for any sets of methods.          *)
THEOREM TypeCorrect == Spec => []TypeOK
  <1>1. Inv => TypeOK
    BY DEF Inv
  <1> QED
    BY <1>1, Invariant, PTL

(* handle_request_state, handle_sas_verification_state and their tasks: a   *)
(* request that ended is shown as finished, or dismissed, whatever was under *)
(* way when it ended and whichever of the tasks saw it first.               *)
THEOREM EndShown == Spec => []OutcomeShown
  <1>1. Inv => OutcomeShown
    BY DEF Inv, TypeOK, Shape, Carried, ByNew, ByRequest, ByCancel, ByFlow, Final, OutcomeShown,
           Quiet
  <1> QED
    BY <1>1, Invariant, PTL
===============================================================================
