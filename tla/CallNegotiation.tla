----------------------------- MODULE CallNegotiation -----------------------------
(***************************************************************************)
(* The two ends of a call from the moment it is answered: each may offer a *)
(* new description, which the other answers, and say whether it is muted.  *)
(* Between them every event is sent by a task of its own, so that events   *)
(* may overtake each other, be lost, or arrive past their lifetime.        *)
(***************************************************************************)
EXTENDS Integers, SequencesExt

CONSTANTS
    Budgets,    \* bounds on the renegotiations and changes of muting of each end
    Loses       \* whether an event may be lost

Ends == {"caller", "callee"}
Other(e) == CHOOSE f \in Ends : f # e

ASSUME NegotiationAssumption ==
    /\ Budgets \subseteq [offers : [Ends -> Nat], mutes : [Ends -> Nat]]
    /\ Loses \in BOOLEAN

VARIABLES
    state,
    local_offer_pending,
    armed,          \* whether the negotiation timeout is asleep in its slot
    arming,         \* an offer was sent and its timeout is not armed yet
    muted,          \* is_microphone_muted
    remote_muted,   \* is_remote_microphone_muted
    outbox,         \* events given to a task to send
    inbox,          \* events on their way to this end, in the room's order
    events,         \* what the core tells the embedder
    creating,       \* the embedder has asked for an offer
    made,           \* descriptions made for the embedder to send
    signaling,      \* the WebRTC signalling state
    local,          \* the offer it has as local description
    session,        \* the offer of the last description both halves were set of
    offers, mutes,  \* how many of each there were
    budget,         \* and may be
    faults,         \* of "lost", "overtaken", "stale", "unanswered"
    mismatched      \* an answer was applied to an offer it does not answer

core  == <<state, local_offer_pending, armed, arming, muted, remote_muted>>
wire  == <<outbox, inbox>>
rtc   == <<creating, made, signaling, local, session, mismatched>>
bound == <<offers, mutes, budget>>
vars  == <<core, wire, events, rtc, bound, faults>>

NoOffer == [by |-> "none", n |-> 0]
Invite  == [by |-> "caller", n |-> 0]
Offers  == [by : Ends \cup {"none"}, n : Nat]
Established(e) == state[e] \in {"Connecting", "Connected"}

\* The callee has accepted: its answer is about to be sent, and carries whether
\* it is muted.  The caller may have muted since its invite.
Init ==
    /\ state = [e \in Ends |-> IF e = "caller" THEN "Dialing" ELSE "Connecting"]
    /\ local_offer_pending = [e \in Ends |-> FALSE]
    /\ armed = [e \in Ends |-> FALSE] /\ arming = [e \in Ends |-> FALSE]
    /\ muted \in [Ends -> BOOLEAN] /\ remote_muted = [e \in Ends |-> FALSE]
    /\ outbox = [e \in Ends |-> IF e = "caller" THEN <<>>
                                ELSE <<[type |-> "accept", of |-> Invite, muted |-> muted[e]]>>]
    /\ inbox = [e \in Ends |-> <<>>] /\ events = [e \in Ends |-> <<>>]
    /\ creating = [e \in Ends |-> FALSE] /\ made = [e \in Ends |-> <<>>]
    /\ signaling = [e \in Ends |-> IF e = "caller" THEN "have-local-offer" ELSE "stable"]
    /\ local = [e \in Ends |-> IF e = "caller" THEN Invite ELSE NoOffer]
    /\ session = [e \in Ends |-> IF e = "caller" THEN NoOffer ELSE Invite]
    /\ offers = [e \in Ends |-> 0] /\ mutes = [e \in Ends |-> 0]
    /\ budget \in Budgets
    /\ faults = {} /\ mismatched = FALSE

-------------------------------------------------------------------------------
(* Sending *)

Send(e, type, of) ==
    outbox' = [outbox EXCEPT ![e] = Append(@, [type |-> type, of |-> of, muted |-> muted'[e]])]

\* The task of an event has it sent; the others may have been before it.
Deliver(e) ==
    \E i \in DOMAIN outbox[e] :
        /\ outbox' = [outbox EXCEPT ![e] = RemoveAt(@, i)]
        /\ inbox' = [inbox EXCEPT ![Other(e)] = Append(@, outbox[e][i])]
        /\ faults' = IF i = 1 THEN faults ELSE faults \cup {"overtaken"}
        /\ UNCHANGED <<core, events, rtc, bound>>

\* Or it fails to, which is logged.
Lose(e) ==
    \E i \in DOMAIN outbox[e] :
        /\ Loses /\ "lost" \notin faults
        /\ outbox[e][i].type # "accept"
        /\ outbox' = [outbox EXCEPT ![e] = RemoveAt(@, i)]
        /\ faults' = faults \cup {"lost"}
        /\ UNCHANGED <<core, inbox, events, rtc, bound>>

-------------------------------------------------------------------------------
(* The core's calls *)

\* Call::set_muted and send_stream_metadata; before there is somebody to send
\* to, only the state is kept.
SetMuted(e) ==
    /\ state[e] # "Ended" /\ mutes[e] < budget.mutes[e]
    /\ mutes' = [mutes EXCEPT ![e] = @ + 1]
    /\ muted' = [muted EXCEPT ![e] = ~@]
    /\ IF Established(e) THEN Send(e, "metadata", NoOffer) ELSE UNCHANGED outbox
    /\ UNCHANGED <<state, local_offer_pending, armed, arming, remote_muted, inbox, events,
                   rtc, offers, budget, faults>>

\* Mutant: nothing is said on connecting.
NoteConnectedOnly(e) ==
    /\ state[e] = "Connecting" /\ \A f \in Ends : session[f] # NoOffer
    /\ state' = [state EXCEPT ![e] = "Connected"]
    /\ UNCHANGED <<muted, outbox, local_offer_pending, armed, arming, remote_muted, inbox,
                   events, rtc, bound, faults>>

\* Call::note_connected, once media can flow.
NoteConnected(e) ==
    /\ state[e] = "Connecting" /\ \A f \in Ends : session[f] # NoOffer
    /\ state' = [state EXCEPT ![e] = "Connected"]
    /\ UNCHANGED muted
    /\ IF muted[e] THEN Send(e, "metadata", NoOffer) ELSE UNCHANGED outbox
    /\ UNCHANGED <<local_offer_pending, armed, arming, remote_muted, inbox, events,
                   rtc, bound, faults>>

\* Call::hangup_failed: the other end is told, and every timeout stops.
HangUpFailed(e) ==
    /\ state' = [state EXCEPT ![e] = "Ended"]
    /\ armed' = [armed EXCEPT ![e] = FALSE]
    /\ UNCHANGED muted
    /\ Send(e, "hangup", NoOffer)
    /\ UNCHANGED <<local_offer_pending, arming, remote_muted>>

\* arm_negotiation_timeout: what was armed before is stopped.
Arm(e) ==
    /\ arming[e] /\ arming' = [arming EXCEPT ![e] = FALSE]
    /\ armed' = [armed EXCEPT ![e] = state[e] # "Ended"]
    /\ UNCHANGED <<state, local_offer_pending, muted, remote_muted, wire, events, rtc,
                   bound, faults>>

\* Mutant: it is logged and the offer stays pending.
TimeOutLogged(e) ==
    /\ armed[e] /\ armed' = [armed EXCEPT ![e] = FALSE]
    /\ faults' = IF local_offer_pending[e] THEN faults \cup {"unanswered"} ELSE faults
    /\ UNCHANGED <<state, local_offer_pending, arming, muted, remote_muted, wire, events,
                   rtc, bound>>

\* The timeout itself, whichever offer it was armed for.
TimeOut(e) ==
    /\ armed[e] /\ armed' = [armed EXCEPT ![e] = FALSE]
    /\ local_offer_pending' = [local_offer_pending EXCEPT ![e] = FALSE]
    /\ faults' = IF local_offer_pending[e] THEN faults \cup {"unanswered"} ELSE faults
    /\ UNCHANGED <<state, arming, muted, remote_muted, wire, events, rtc, bound>>

-------------------------------------------------------------------------------
(* Receiving *)

\* What the core tells the embedder of.
Tell(e, list) == events' = [events EXCEPT ![e] = @ \o list]

\* An answer to an offer of ours that is still pending.
TakeAnswer(e, msg) ==
    /\ Tell(e, IF local_offer_pending[e] THEN <<[type |-> "answer", of |-> msg.of]>> ELSE <<>>)
    /\ local_offer_pending' = [local_offer_pending EXCEPT ![e] = FALSE]
    /\ armed' = IF local_offer_pending[e] THEN [armed EXCEPT ![e] = FALSE] ELSE armed

\* Mutant: both ends give way.
TakeOfferAlways(e, msg) ==
    LET offer == [type |-> "offer", of |-> msg.of]
    IN  /\ UNCHANGED armed
        /\ IF local_offer_pending[e]
           THEN /\ Tell(e, <<[type |-> "rollback", of |-> NoOffer], offer>>)
                /\ local_offer_pending' = [local_offer_pending EXCEPT ![e] = FALSE]
           ELSE Tell(e, <<offer>>) /\ UNCHANGED local_offer_pending

\* An offer; one that crossed ours is ignored by the caller, and the callee
\* gives way to it.
TakeOffer(e, msg) ==
    LET offer == [type |-> "offer", of |-> msg.of]
    IN  /\ UNCHANGED armed
        /\ IF local_offer_pending[e]
           THEN IF e = "caller"
                THEN UNCHANGED <<events, local_offer_pending>>
                ELSE /\ Tell(e, <<[type |-> "rollback", of |-> NoOffer], offer>>)
                     /\ local_offer_pending' = [local_offer_pending EXCEPT ![e] = FALSE]
           ELSE Tell(e, <<offer>>) /\ UNCHANGED local_offer_pending

\* What every event of the other end but a hangup says of its muting.
ApplyStreamMetadata(e, msg) == remote_muted' = [remote_muted EXCEPT ![e] = msg.muted]

\* Call::handle_answer, of the answer to the invite.
HandleAnswer(e, msg) ==
    /\ msg.type = "accept" /\ state[e] = "Dialing"
    /\ state' = [state EXCEPT ![e] = "Connecting"]
    /\ ApplyStreamMetadata(e, msg)
    /\ Tell(e, <<[type |-> "answer", of |-> msg.of]>>)
    /\ UNCHANGED <<local_offer_pending, armed, arming, muted, faults>>

\* Call::handle_negotiate.
HandleNegotiate(e, msg) ==
    /\ msg.type \in {"offer", "answer"} /\ Established(e)
    /\ ApplyStreamMetadata(e, msg)
    /\ IF msg.type = "answer" THEN TakeAnswer(e, msg) ELSE TakeOffer(e, msg)
    /\ UNCHANGED <<state, arming, muted, faults>>

\* Call::handle_stream_metadata, in whatever state the call is.
HandleStreamMetadata(e, msg) ==
    /\ msg.type = "metadata"
    /\ ApplyStreamMetadata(e, msg)
    /\ UNCHANGED <<state, local_offer_pending, armed, arming, muted, events, faults>>

HandleHangup(e, msg) ==
    /\ msg.type = "hangup"
    /\ state' = [state EXCEPT ![e] = "Ended"] /\ armed' = [armed EXCEPT ![e] = FALSE]
    /\ UNCHANGED <<local_offer_pending, arming, muted, remote_muted, events, faults>>

\* A renegotiation past its lifetime, or one of a call not established.
Ignore(e, msg) ==
    /\ msg.type \in {"offer", "answer"}
    /\ faults' = faults \cup {"stale"}
    /\ UNCHANGED <<core, events>>

\* Calls::handle_signal, of the next event of the room.  A call that has ended
\* is not found.
HandleSignal(e) ==
    /\ inbox[e] # <<>>
    /\ inbox' = [inbox EXCEPT ![e] = Tail(@)]
    /\ IF state[e] = "Ended" THEN UNCHANGED <<core, events, faults>>
       ELSE \/ HandleAnswer(e, Head(inbox[e])) \/ HandleNegotiate(e, Head(inbox[e]))
            \/ HandleStreamMetadata(e, Head(inbox[e])) \/ HandleHangup(e, Head(inbox[e]))
            \/ Ignore(e, Head(inbox[e]))
    /\ UNCHANGED <<outbox, rtc, bound>>

-------------------------------------------------------------------------------
(* The embedder: handle_call_event and send_renegotiation_offer on one     *)
(* thread, and the operations of webrtcbin, which it does in turn.          *)

\* webrtcbin asks for a negotiation once the call has connected, and only
\* while it is stable.  What it asks for is not offered while an offer pends.
BeginOffer(e) ==
    /\ state[e] = "Connected" /\ signaling[e] = "stable" /\ made[e] = <<>>
    /\ ~creating[e] /\ offers[e] < budget.offers[e]
    /\ ~local_offer_pending[e]
    /\ creating' = [creating EXCEPT ![e] = TRUE]
    /\ offers' = [offers EXCEPT ![e] = @ + 1]
    /\ UNCHANGED <<core, wire, events, made, signaling, local, session, mismatched, mutes,
                   budget, faults>>

\* create_description, of an offer: it is the local description before it is
\* sent.
CreateOffer(e) ==
    LET offer == [by |-> e, n |-> offers[e]]
    IN  /\ creating[e] /\ creating' = [creating EXCEPT ![e] = FALSE]
        /\ signaling' = [signaling EXCEPT ![e] = "have-local-offer"]
        /\ local' = [local EXCEPT ![e] = offer]
        /\ made' = [made EXCEPT ![e] = Append(@, [type |-> "offer", of |-> offer])]
        /\ UNCHANGED <<core, wire, events, session, mismatched, bound, faults>>

\* Call::send_negotiate, up to its timeout.
SendNegotiate(e) ==
    /\ made[e] # <<>> /\ ~arming[e]
    /\ made' = [made EXCEPT ![e] = Tail(@)]
    /\ UNCHANGED muted
    /\ LET d == Head(made[e])
       IN  IF ~Established(e) \/ (d.type = "offer" /\ local_offer_pending[e])
           THEN UNCHANGED <<local_offer_pending, arming, outbox>>
           ELSE /\ Send(e, d.type, d.of)
                /\ local_offer_pending' = [local_offer_pending EXCEPT ![e] = @ \/ d.type = "offer"]
                /\ arming' = [arming EXCEPT ![e] = d.type = "offer"]
    /\ UNCHANGED <<state, armed, remote_muted, inbox, events, creating, signaling, local,
                   session, mismatched, bound, faults>>

\* An answer is the remote description where a local offer waits for one; in
\* another signalling state webrtcbin refuses it, which is logged.
ApplyAnswer(e, of) ==
    /\ IF signaling[e] = "have-local-offer"
       THEN /\ signaling' = [signaling EXCEPT ![e] = "stable"]
            /\ session' = [session EXCEPT ![e] = local[e]]
            /\ local' = [local EXCEPT ![e] = NoOffer]
            /\ mismatched' = (mismatched \/ of # local[e])
       ELSE UNCHANGED <<signaling, session, local, mismatched>>
    /\ UNCHANGED <<core, outbox, made>>

\* Mutant: the offer rolled back is still the one that waits.
RollBackStateOnly(e) ==
    /\ signaling' = [signaling EXCEPT ![e] = "stable"]
    /\ UNCHANGED <<core, outbox, made, local, session, mismatched>>

RollBack(e) ==
    /\ signaling' = [signaling EXCEPT ![e] = "stable"]
    /\ local' = [local EXCEPT ![e] = NoOffer]
    /\ UNCHANGED <<core, outbox, made, session, mismatched>>

\* answer_remote_offer: where a local offer waits, webrtcbin has no answer to
\* make, and an error of the pipeline ends the call.
AnswerOffer(e, of) ==
    IF signaling[e] = "stable"
    THEN /\ session' = [session EXCEPT ![e] = of]
         /\ made' = [made EXCEPT ![e] = Append(@, [type |-> "answer", of |-> of])]
         /\ UNCHANGED <<core, outbox, signaling, local, mismatched>>
    ELSE HangUpFailed(e) /\ UNCHANGED <<made, signaling, local, session, mismatched>>

HandleCallEvent(e) ==
    /\ events[e] # <<>> /\ state[e] # "Ended"
    /\ events' = [events EXCEPT ![e] = Tail(@)]
    /\ LET event == Head(events[e])
       IN  \/ event.type = "answer" /\ ApplyAnswer(e, event.of)
           \/ event.type = "rollback" /\ RollBack(e)
           \/ event.type = "offer" /\ AnswerOffer(e, event.of)
    /\ UNCHANGED <<inbox, creating, bound, faults>>

-------------------------------------------------------------------------------

Next ==
    \E e \in Ends :
        \/ Deliver(e) \/ Lose(e) \/ HandleSignal(e) \/ HandleCallEvent(e)
        \/ SetMuted(e) \/ NoteConnected(e)
        \/ BeginOffer(e) \/ CreateOffer(e) \/ SendNegotiate(e) \/ Arm(e) \/ TimeOut(e)

Spec == Init /\ [][Next]_vars

-------------------------------------------------------------------------------
(* Properties *)

TypeOK ==
    /\ state \in [Ends -> {"Dialing", "Connecting", "Connected", "Ended"}]
    /\ local_offer_pending \in [Ends -> BOOLEAN]
    /\ armed \in [Ends -> BOOLEAN] /\ arming \in [Ends -> BOOLEAN]
    /\ muted \in [Ends -> BOOLEAN] /\ remote_muted \in [Ends -> BOOLEAN]
    /\ creating \in [Ends -> BOOLEAN] /\ mismatched \in BOOLEAN
    /\ signaling \in [Ends -> {"stable", "have-local-offer"}]
    /\ local \in [Ends -> Offers] /\ session \in [Ends -> Offers]
    /\ offers \in [Ends -> Nat] /\ mutes \in [Ends -> Nat] /\ budget \in Budgets
    /\ faults \subseteq {"lost", "overtaken", "stale", "unanswered"}
    /\ \A e \in Ends : signaling[e] = "stable" <=> local[e] = NoOffer

\* Everything sent has arrived and everything that arrived is acted on.
Settled ==
    \A e \in Ends :
        /\ outbox[e] = <<>> /\ inbox[e] = <<>> /\ events[e] = <<>> /\ made[e] = <<>>
        /\ ~creating[e] /\ ~arming[e]

InCall == \A e \in Ends : state[e] = "Connected"

\* "Perfect negotiation settles that without either end asking the other"
\* (calls/call.rs:1142): whatever the two ends offer, and when, if the call is
\* still on then both have the same description and neither waits for an
\* answer, unless an event was lost, late or overtaken.
NegotiationSettles ==
    Settled /\ InCall /\ faults = {} =>
        /\ session["caller"] = session["callee"]
        /\ \A e \in Ends : signaling[e] = "stable" /\ ~local_offer_pending[e]

\* An answer is applied to the offer it answers, unless an offer before went
\* unanswered for its lifetime, or was given way for while its answer was
\* overtaken: the answer to that one may still come.
AnswersMatch == mismatched => faults \cap {"unanswered", "overtaken"} # {}

\* "We did not notice" (calls/call.rs:1277) is ruled out: once everything has
\* arrived in the order it was sent, each end shows the other's muting.
MutingIsShown ==
    Settled /\ InCall /\ faults \cap {"lost", "overtaken", "stale"} = {} =>
        \A e \in Ends : remote_muted[e] = muted[Other(e)]

\* An offer that pends has a timeout, or the call is over: "nothing else would
\* ever notice" (calls/call.rs:756) that no other can be made.
PendingIsTimed ==
    \A e \in Ends :
        local_offer_pending[e] /\ state[e] # "Ended" => armed[e] \/ arming[e]

\* "A renegotiation that fails is not a call that fails: what was flowing before
\* it is still flowing" (calls/call.rs:1132).
CallSurvives == \A e \in Ends : state[e] # "Ended"
===============================================================================
