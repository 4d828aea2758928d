-------------------------- MODULE CallNegotiation_proofs --------------------------
(***************************************************************************)
(* Proofs about CallNegotiation, for any number of offers and changes of   *)
(* muting, whether or not events may be lost.                              *)
(***************************************************************************)
EXTENDS CallNegotiation, SequenceTheorems, TLAPS

Messages == [type : {"accept", "offer", "answer", "metadata", "hangup"},
             of : Offers, muted : BOOLEAN]
Tidings  == [type : {"answer", "offer", "rollback"}, of : Offers]
Made     == [type : {"offer", "answer"}, of : Offers]

LEMMA TheEnds ==
    /\ Other("caller") = "callee" /\ Other("callee") = "caller"
    /\ \A e \in Ends : Other(e) \in Ends /\ Other(e) # e /\ Other(Other(e)) = e
  <1>1. Ends = {"caller", "callee"} /\ "caller" # "callee"
    BY DEF Ends
  <1>2. Other("caller") = "callee"
    BY <1>1 DEF Other
  <1>3. Other("callee") = "caller"
    BY <1>1 DEF Other
  <1> QED
    BY <1>1, <1>2, <1>3

LEMMA Descriptions == NoOffer \in Offers /\ Invite \in Offers /\ NoOffer # Invite
  BY DEF NoOffer, Invite, Offers, Ends

(* One event taken from among those to be sent.                             *)
LEMMA Removed ==
    ASSUME NEW S, NEW s \in Seq(S), NEW i \in DOMAIN s
    PROVE  /\ RemoveAt(s, i) \in Seq(S) /\ s[i] \in S
           /\ i = 1 => s # <<>> /\ s[i] = Head(s) /\ RemoveAt(s, i) = Tail(s)
  <1>1. Len(s) \in Nat /\ DOMAIN s = 1..Len(s) /\ i \in 1..Len(s) /\ i \in Int
    BY LenProperties
  <1>2. \A j \in 1..Len(s) : s[j] \in S
    BY ElementOfSeq
  <1>3. SubSeq(s, 1, i - 1) \in Seq(S)
    <2>1. \A j \in 1..i - 1 : s[j] \in S
      BY <1>1, <1>2
    <2> QED
      BY <2>1, <1>1, SubSeqProperties
  <1>4. SubSeq(s, i + 1, Len(s)) \in Seq(S)
    <2>1. \A j \in i + 1..Len(s) : s[j] \in S
      BY <1>1, <1>2
    <2> QED
      BY <2>1, <1>1, SubSeqProperties
  <1>5. RemoveAt(s, i) \in Seq(S)
    BY <1>3, <1>4, ConcatProperties DEF RemoveAt
  <1>6. ASSUME i = 1 PROVE s # <<>> /\ s[i] = Head(s) /\ RemoveAt(s, i) = Tail(s)
    <2>1. s # <<>> /\ s[i] = Head(s)
      BY <1>1, <1>6, EmptySeq, HeadTailProperties
    <2>2. SubSeq(s, 1, i - 1) = <<>>
      BY <1>1, <1>6, SubSeqEmpty
    <2>3. SubSeq(s, i + 1, Len(s)) = Tail(s)
      BY <2>1, <1>6, TailIsSubSeq
    <2>4. RemoveAt(s, i) = <<>> \o Tail(s)
      BY <2>2, <2>3 DEF RemoveAt
    <2> QED
      BY <2>1, <2>3, <2>4, <1>4, ConcatEmptySeq
  <1> QED
    BY <1>1, <1>2, <1>5, <1>6

-------------------------------------------------------------------------------
(* Types *)

TInv ==
    /\ TypeOK
    /\ outbox \in [Ends -> Seq(Messages)] /\ inbox \in [Ends -> Seq(Messages)]
    /\ events \in [Ends -> Seq(Tidings)] /\ made \in [Ends -> Seq(Made)]

LEMMA InitTypes == Init => TInv
  <1> SUFFICES ASSUME Init PROVE TInv
    OBVIOUS
  <1>1. TypeOK
    BY Descriptions DEF Init, TypeOK
  <1>2. ASSUME NEW m \in BOOLEAN
        PROVE  <<[type |-> "accept", of |-> Invite, muted |-> m]>> \in Seq(Messages)
    BY Descriptions DEF Messages
  <1>3. outbox \in [Ends -> Seq(Messages)]
    BY <1>2 DEF Init
  <1>4. /\ inbox \in [Ends -> Seq(Messages)]
        /\ events \in [Ends -> Seq(Tidings)] /\ made \in [Ends -> Seq(Made)]
    BY DEF Init
  <1> QED
    BY <1>1, <1>3, <1>4 DEF TInv

(* An event given to a task.                                                *)
LEMMA SendTypes ==
    ASSUME TInv, NEW e \in Ends, muted' \in [Ends -> BOOLEAN],
           NEW type \in {"offer", "answer", "metadata", "hangup"}, NEW of \in Offers,
           Send(e, type, of)
    PROVE  outbox' \in [Ends -> Seq(Messages)]
  <1>1. [type |-> type, of |-> of, muted |-> muted'[e]] \in Messages
    BY DEF Messages
  <1> QED
    BY <1>1 DEF Send, TInv

LEMMA TellTypes ==
    ASSUME TInv, NEW e \in Ends, NEW list \in Seq(Tidings), Tell(e, list)
    PROVE  events' \in [Ends -> Seq(Tidings)]
  BY ConcatProperties DEF Tell, TInv

LEMMA DeliverTypes ==
    ASSUME TInv, NEW e \in Ends, Deliver(e) \/ Lose(e)
    PROVE  TInv'
  <1>1. PICK i \in DOMAIN outbox[e] :
           /\ outbox' = [outbox EXCEPT ![e] = RemoveAt(@, i)]
           /\ \/ inbox' = inbox
              \/ inbox' = [inbox EXCEPT ![Other(e)] = Append(@, outbox[e][i])]
           /\ \/ faults' = faults
              \/ faults' = faults \cup {"overtaken"} \/ faults' = faults \cup {"lost"}
    BY DEF Deliver, Lose
  <1>2. RemoveAt(outbox[e], i) \in Seq(Messages) /\ outbox[e][i] \in Messages
    BY Removed DEF TInv
  <1>3. outbox' \in [Ends -> Seq(Messages)] /\ inbox' \in [Ends -> Seq(Messages)]
    <2>1. /\ outbox \in [Ends -> Seq(Messages)] /\ inbox \in [Ends -> Seq(Messages)]
          /\ Other(e) \in Ends
      BY TheEnds DEF TInv
    <2>2. Append(inbox[Other(e)], outbox[e][i]) \in Seq(Messages)
      BY <1>2, <2>1, AppendProperties
    <2> QED
      BY <1>1, <1>2, <2>1, <2>2
  <1>4. UNCHANGED <<core, events, rtc, bound>>
    BY DEF Deliver, Lose
  <1> QED
    BY <1>1, <1>3, <1>4 DEF TInv, TypeOK, core, rtc, bound

LEMMA SignalTypes ==
    ASSUME TInv, NEW e \in Ends, HandleSignal(e)
    PROVE  TInv'
  <1> DEFINE msg == Head(inbox[e])
  <1>1. /\ inbox[e] # <<>> /\ inbox' = [inbox EXCEPT ![e] = Tail(@)]
        /\ UNCHANGED <<outbox, rtc, bound>>
    BY DEF HandleSignal
  <1>2. msg \in Messages /\ Tail(inbox[e]) \in Seq(Messages)
    BY <1>1, HeadTailProperties DEF TInv
  <1> HIDE DEF msg
  <1>3. inbox' \in [Ends -> Seq(Messages)]
    BY <1>1, <1>2 DEF TInv
  <1> DEFINE Core == /\ UNCHANGED <<muted, arming>>
                     /\ state' \in [Ends -> {"Dialing", "Connecting", "Connected", "Ended"}]
                     /\ local_offer_pending' \in [Ends -> BOOLEAN]
                     /\ armed' \in [Ends -> BOOLEAN] /\ remote_muted' \in [Ends -> BOOLEAN]
                     /\ faults' \subseteq {"lost", "overtaken", "stale", "unanswered"}
                     /\ events' \in [Ends -> Seq(Tidings)]
  <1>4. msg.type \in {"accept", "offer", "answer", "metadata", "hangup"}
        /\ msg.of \in Offers /\ msg.muted \in BOOLEAN
    BY <1>2 DEF Messages
  <1>5. /\ <<>> \in Seq(Tidings)
        /\ <<[type |-> "answer", of |-> msg.of]>> \in Seq(Tidings)
        /\ <<[type |-> "offer", of |-> msg.of]>> \in Seq(Tidings)
        /\ <<[type |-> "rollback", of |-> NoOffer], [type |-> "offer", of |-> msg.of]>>
              \in Seq(Tidings)
    BY <1>4, Descriptions DEF Tidings
  <1>6. ASSUME UNCHANGED <<core, events, faults>> PROVE Core
    BY <1>6 DEF core, TInv, TypeOK
  <1>7. ASSUME HandleAnswer(e, msg) PROVE Core
    <2>1. events' \in [Ends -> Seq(Tidings)]
      BY <1>5, <1>7, TellTypes DEF HandleAnswer
    <2> QED
      BY <1>4, <1>7, <2>1 DEF HandleAnswer, ApplyStreamMetadata, TInv, TypeOK
  <1>8. ASSUME HandleNegotiate(e, msg) PROVE Core
    <2>1. /\ remote_muted' \in [Ends -> BOOLEAN] /\ UNCHANGED <<state, arming, muted, faults>>
          /\ TakeAnswer(e, msg) \/ TakeOffer(e, msg)
      BY <1>4, <1>8 DEF HandleNegotiate, ApplyStreamMetadata, TInv, TypeOK
    <2>2. events' \in [Ends -> Seq(Tidings)]
      <3>1. CASE TakeAnswer(e, msg)
        BY <1>5, <3>1, TellTypes DEF TakeAnswer
      <3>2. CASE TakeOffer(e, msg)
        BY <1>5, <3>2, TellTypes DEF TakeOffer, TInv
      <3> QED
        BY <2>1, <3>1, <3>2
    <2>3. /\ local_offer_pending' \in [Ends -> BOOLEAN] /\ armed' \in [Ends -> BOOLEAN]
      BY ZenonT(60), <2>1 DEF TakeAnswer, TakeOffer, TInv, TypeOK
    <2> QED
      BY <2>1, <2>2, <2>3 DEF TInv, TypeOK
  <1>9. ASSUME HandleStreamMetadata(e, msg) PROVE Core
    BY <1>4, <1>9 DEF HandleStreamMetadata, ApplyStreamMetadata, TInv, TypeOK
  <1>10. ASSUME HandleHangup(e, msg) PROVE Core
    BY <1>10 DEF HandleHangup, TInv, TypeOK
  <1>11. ASSUME Ignore(e, msg) PROVE Core
    BY <1>11 DEF Ignore, core, TInv, TypeOK
  <1>12. Core
    BY <1>6, <1>7, <1>8, <1>9, <1>10, <1>11 DEF HandleSignal, msg
  <1> QED
    BY <1>1, <1>3, <1>12 DEF TInv, TypeOK, rtc, bound

LEMMA CallTypes ==
    ASSUME TInv, NEW e \in Ends,
           \/ SetMuted(e) \/ NoteConnected(e) \/ Arm(e) \/ TimeOut(e)
    PROVE  TInv'
  <1>1. CASE SetMuted(e)
    <2>1. muted' \in [Ends -> BOOLEAN] /\ mutes' \in [Ends -> Nat]
      BY <1>1 DEF SetMuted, TInv, TypeOK
    <2>2. outbox' \in [Ends -> Seq(Messages)]
      BY <1>1, <2>1, SendTypes, Descriptions DEF SetMuted, TInv
    <2> QED
      BY <1>1, <2>1, <2>2 DEF SetMuted, rtc, TInv, TypeOK
  <1>2. CASE NoteConnected(e)
    <2>1. muted' \in [Ends -> BOOLEAN]
      BY <1>2 DEF NoteConnected, TInv, TypeOK
    <2>2. outbox' \in [Ends -> Seq(Messages)]
      BY <1>2, <2>1, SendTypes, Descriptions DEF NoteConnected, TInv
    <2> QED
      BY <1>2, <2>1, <2>2 DEF NoteConnected, rtc, bound, TInv, TypeOK
  <1>3. CASE Arm(e)
    BY <1>3 DEF Arm, wire, rtc, bound, TInv, TypeOK
  <1>4. CASE TimeOut(e)
    BY <1>4 DEF TimeOut, wire, rtc, bound, TInv, TypeOK
  <1> QED
    BY <1>1, <1>2, <1>3, <1>4

LEMMA OfferTypes ==
    ASSUME TInv, NEW e \in Ends,
           BeginOffer(e) \/ CreateOffer(e) \/ SendNegotiate(e)
    PROVE  TInv'
  <1>1. CASE BeginOffer(e)
    BY <1>1 DEF BeginOffer, core, wire, TInv, TypeOK
  <1>2. CASE CreateOffer(e)
    <2> DEFINE offer == [by |-> e, n |-> offers[e]]
    <2>1. offer \in Offers /\ offer # NoOffer /\ [type |-> "offer", of |-> offer] \in Made
      BY DEF TInv, TypeOK, Offers, NoOffer, Made, Ends
    <2> HIDE DEF offer
    <2>2. made' \in [Ends -> Seq(Made)] /\ local' \in [Ends -> Offers]
      BY <1>2, <2>1, AppendProperties DEF CreateOffer, TInv, TypeOK, offer
    <2>3. /\ signaling' \in [Ends -> {"stable", "have-local-offer"}]
          /\ \A f \in Ends : signaling'[f] = "stable" <=> local'[f] = NoOffer
      BY <1>2, <2>1 DEF CreateOffer, TInv, TypeOK, offer
    <2> QED
      BY <1>2, <2>2, <2>3 DEF CreateOffer, core, wire, bound, TInv, TypeOK
  <1>3. CASE SendNegotiate(e)
    <2> DEFINE d == Head(made[e])
    <2>1. /\ made[e] # <<>> /\ made' = [made EXCEPT ![e] = Tail(@)] /\ UNCHANGED muted
          /\ UNCHANGED <<state, armed, remote_muted, inbox, events, creating, signaling,
                         local, session, mismatched, bound, faults>>
      BY <1>3 DEF SendNegotiate
    <2>2. d \in Made /\ made' \in [Ends -> Seq(Made)]
      BY <2>1, HeadTailProperties DEF TInv
    <2> HIDE DEF d
    <2>3. \/ UNCHANGED <<local_offer_pending, arming, outbox>>
          \/ /\ Send(e, d.type, d.of)
             /\ local_offer_pending' = [local_offer_pending EXCEPT ![e] = @ \/ d.type = "offer"]
             /\ arming' = [arming EXCEPT ![e] = d.type = "offer"]
      BY <1>3 DEF SendNegotiate, d
    <2>4. outbox' \in [Ends -> Seq(Messages)]
      <3>1. d.type \in {"offer", "answer", "metadata", "hangup"} /\ d.of \in Offers
        BY <2>2 DEF Made
      <3>2. muted' \in [Ends -> BOOLEAN] /\ outbox \in [Ends -> Seq(Messages)]
        BY <2>1 DEF TInv, TypeOK
      <3> QED
        BY <2>3, <3>1, <3>2, SendTypes
    <2>5. local_offer_pending' \in [Ends -> BOOLEAN] /\ arming' \in [Ends -> BOOLEAN]
      BY <2>3 DEF TInv, TypeOK
    <2> QED
      BY <2>1, <2>2, <2>4, <2>5 DEF bound, TInv, TypeOK
  <1> QED
    BY <1>1, <1>2, <1>3

LEMMA EventTypes ==
    ASSUME TInv, NEW e \in Ends, HandleCallEvent(e)
    PROVE  TInv'
  <1> DEFINE event == Head(events[e])
  <1>1. /\ events[e] # <<>> /\ events' = [events EXCEPT ![e] = Tail(@)]
        /\ UNCHANGED <<inbox, creating, bound, faults>>
    BY DEF HandleCallEvent
  <1>2. event \in Tidings /\ event.of \in Offers /\ events' \in [Ends -> Seq(Tidings)]
    <2>1. events[e] \in Seq(Tidings) /\ events \in [Ends -> Seq(Tidings)]
      BY DEF TInv
    <2>2. event \in Tidings /\ Tail(events[e]) \in Seq(Tidings)
      BY <1>1, <2>1, HeadTailProperties
    <2> QED
      BY <1>1, <2>1, <2>2 DEF Tidings
  <1> HIDE DEF event
  <1>3. CASE ApplyAnswer(e, event.of)
    <2>1. /\ signaling' \in [Ends -> {"stable", "have-local-offer"}]
          /\ session' \in [Ends -> Offers] /\ local' \in [Ends -> Offers]
          /\ \A f \in Ends : signaling'[f] = "stable" <=> local'[f] = NoOffer
      <3>1. CASE signaling[e] = "have-local-offer"
        <4>1. /\ signaling' = [signaling EXCEPT ![e] = "stable"]
              /\ session' = [session EXCEPT ![e] = local[e]]
              /\ local' = [local EXCEPT ![e] = NoOffer]
          BY <1>3, <3>1 DEF ApplyAnswer
        <4>2. /\ signaling \in [Ends -> {"stable", "have-local-offer"}]
              /\ session \in [Ends -> Offers] /\ local \in [Ends -> Offers]
              /\ \A f \in Ends : signaling[f] = "stable" <=> local[f] = NoOffer
          BY DEF TInv, TypeOK
        <4> QED
          BY <4>1, <4>2, Descriptions
      <3>2. CASE signaling[e] # "have-local-offer"
        BY <1>3, <3>2 DEF ApplyAnswer, TInv, TypeOK
      <3> QED
        BY <3>1, <3>2
    <2>2. mismatched' \in BOOLEAN
      <3>1. mismatched \in BOOLEAN
        BY DEF TInv, TypeOK
      <3>2. mismatched' = mismatched \/ mismatched' = (mismatched \/ event.of # local[e])
        BY <1>3, Zenon DEF ApplyAnswer
      <3> QED
        BY <3>1, <3>2, Zenon
    <2>3. UNCHANGED <<core, outbox, made>>
      BY <1>3 DEF ApplyAnswer
    <2> QED
      BY <1>1, <1>2, <2>1, <2>2, <2>3 DEF core, bound, TInv, TypeOK
  <1>4. CASE RollBack(e)
    BY <1>1, <1>2, <1>4, Descriptions DEF RollBack, core, bound, TInv, TypeOK
  <1>5. CASE AnswerOffer(e, event.of) /\ signaling[e] = "stable"
    <2>1. [type |-> "answer", of |-> event.of] \in Made
      BY <1>2 DEF Made
    <2>2. made' \in [Ends -> Seq(Made)]
      <3>1. made \in [Ends -> Seq(Made)] /\ made[e] \in Seq(Made)
        BY DEF TInv
      <3>2. Append(made[e], [type |-> "answer", of |-> event.of]) \in Seq(Made)
        BY <2>1, <3>1, AppendProperties
      <3> QED
        BY <1>5, <3>1, <3>2 DEF AnswerOffer
    <2> QED
      BY ZenonT(60), <1>1, <1>2, <1>5, <2>2 DEF AnswerOffer, core, bound, TInv, TypeOK
  <1>6. CASE AnswerOffer(e, event.of) /\ signaling[e] # "stable"
    <2>1. HangUpFailed(e) /\ UNCHANGED <<made, signaling, local, session, mismatched>>
      BY <1>6 DEF AnswerOffer
    <2>2. outbox' \in [Ends -> Seq(Messages)]
      BY <2>1, SendTypes, Descriptions DEF HangUpFailed, TInv, TypeOK
    <2> QED
      BY <1>1, <1>2, <2>1, <2>2 DEF HangUpFailed, bound, TInv, TypeOK
  <1> QED
    BY <1>3, <1>4, <1>5, <1>6 DEF HandleCallEvent, event

LEMMA StepTypes == TInv /\ [Next]_vars => TInv'
  <1> SUFFICES ASSUME TInv, [Next]_vars PROVE TInv'
    OBVIOUS
  <1>1. CASE UNCHANGED vars
    BY <1>1 DEF vars, core, wire, rtc, bound, TInv, TypeOK
  <1>2. CASE Next
    BY <1>2, DeliverTypes, SignalTypes, CallTypes, OfferTypes, EventTypes DEF Next
  <1> QED
    BY <1>1, <1>2

LEMMA TypesInvariant == Spec => []TInv
  <1> QED
    BY InitTypes, StepTypes, PTL DEF Spec

(* Every variable stays within its type, and webrtcbin waits for an answer  *)
(* exactly while it has an offer of ours as its local description.          *)
THEOREM TypeCorrect == Spec => []TypeOK
  <1>1. TInv => TypeOK
    BY DEF TInv
  <1> QED
    BY <1>1, TypesInvariant, PTL
-------------------------------------------------------------------------------
(* The timeout of an offer *)

LEMMA StepPending == TInv /\ PendingIsTimed /\ [Next]_vars => PendingIsTimed'
  <1> SUFFICES ASSUME TInv, PendingIsTimed, [Next]_vars PROVE PendingIsTimed'
    OBVIOUS
  <1> USE DEF PendingIsTimed
  <1>0. TypeOK
    BY DEF TInv
  <1>1. CASE UNCHANGED vars
    BY <1>1 DEF vars, core
  <1>2. CASE Next
    <2>1. PICK e \in Ends :
             \/ Deliver(e) \/ Lose(e) \/ HandleSignal(e) \/ HandleCallEvent(e)
             \/ SetMuted(e) \/ NoteConnected(e)
             \/ BeginOffer(e) \/ CreateOffer(e) \/ SendNegotiate(e) \/ Arm(e) \/ TimeOut(e)
      BY <1>2 DEF Next
    <2>2. CASE Deliver(e) \/ Lose(e) \/ BeginOffer(e) \/ CreateOffer(e) \/ SetMuted(e)
      BY <2>2 DEF Deliver, Lose, BeginOffer, CreateOffer, SetMuted, core
    <2>3. CASE HandleSignal(e)
      <3> DEFINE msg == Head(inbox[e])
      <3>1. \/ UNCHANGED core
            \/ HandleAnswer(e, msg) \/ HandleNegotiate(e, msg)
            \/ HandleStreamMetadata(e, msg) \/ HandleHangup(e, msg) \/ Ignore(e, msg)
        BY <2>3 DEF HandleSignal
      <3>2. state[e] = "Ended" => UNCHANGED core
        BY <2>3 DEF HandleSignal
      <3> HIDE DEF msg
      <3>3. CASE UNCHANGED core \/ Ignore(e, msg)
        BY <3>3 DEF Ignore, core
      <3>4. CASE HandleAnswer(e, msg) \/ HandleHangup(e, msg) \/ HandleStreamMetadata(e, msg)
        BY <1>0, <3>4 DEF HandleAnswer, HandleHangup, HandleStreamMetadata, TypeOK
      <3>5. CASE HandleNegotiate(e, msg)
        BY <1>0, <3>5 DEF HandleNegotiate, TakeAnswer, TakeOffer, TypeOK
      <3> QED
        BY <3>1, <3>3, <3>4, <3>5
    <2>4. CASE HandleCallEvent(e)
      <3>1. UNCHANGED core \/ HangUpFailed(e)
        BY <2>4 DEF HandleCallEvent, ApplyAnswer, RollBack, AnswerOffer
      <3>2. CASE UNCHANGED core
        BY <3>2 DEF core
      <3>3. CASE HangUpFailed(e)
        BY <1>0, <3>3 DEF HangUpFailed, TypeOK
      <3> QED
        BY <3>1, <3>2, <3>3
    <2>5. CASE NoteConnected(e)
      BY <1>0, <2>5 DEF NoteConnected, TypeOK
    <2>6. CASE SendNegotiate(e)
      BY <1>0, <2>6 DEF SendNegotiate, TypeOK
    <2>7. CASE Arm(e)
      BY <1>0, <2>7 DEF Arm, TypeOK
    <2>8. CASE TimeOut(e)
      BY <1>0, <2>8 DEF TimeOut, TypeOK
    <2> QED
      BY <2>1, <2>2, <2>3, <2>4, <2>5, <2>6, <2>7, <2>8
  <1> QED
    BY <1>1, <1>2

(* An offer that pends has a timeout, asleep or about to be, unless the     *)
(* call is over: a call is never left unable to offer again.                *)
THEOREM PendingTimed == Spec => []PendingIsTimed
  <1>1. Init => PendingIsTimed
    BY DEF Init, PendingIsTimed
  <1> QED
    BY <1>1, StepPending, TypesInvariant, PTL DEF Spec

-------------------------------------------------------------------------------
(* What an end has said of its muting *)

\* The last of what it says, wherever on its way that is.
Said(e) ==
    IF outbox[e] # <<>> THEN Last(outbox[e]).muted
    ELSE IF inbox[Other(e)] # <<>> THEN Last(inbox[Other(e)]).muted
    ELSE remote_muted[Other(e)]

\* Everything sent so far is acted on, or will be, in order.
Plain ==
    faults \cap {"lost", "overtaken", "stale"} = {} /\ \A e \in Ends : state[e] # "Ended"

\* Nothing is said while there is nobody to say it to.  The answer of a callee
\* says it; the caller, who has not answered, says it on connecting.
SaidInv ==
    Plain =>
        \A e \in Ends :
            /\ state[e] = "Dialing" => Said(e) = FALSE
            /\ state[e] = "Connecting" => Said(e) = muted[e] \/ Said(e) = FALSE
            /\ state[e] = "Connected" => Said(e) = muted[e]

LEMMA Lasts ==
    ASSUME NEW S, NEW s \in Seq(S)
    PROVE  /\ \A x \in S : Append(s, x) # <<>> /\ Last(Append(s, x)) = x
           /\ s # <<>> /\ Tail(s) # <<>> => Last(Tail(s)) = Last(s)
           /\ s # <<>> /\ Tail(s) = <<>> => Last(s) = Head(s)
  <1>1. ASSUME NEW x \in S PROVE Append(s, x) # <<>> /\ Last(Append(s, x)) = x
    <2>1. Append(s, x) \in Seq(S) /\ Len(Append(s, x)) = Len(s) + 1
          /\ Append(s, x)[Len(s) + 1] = x /\ Len(s) \in Nat
      BY AppendProperties, LenProperties
    <2> QED
      BY <2>1, EmptySeq DEF Last
  <1>2. ASSUME s # <<>>
        PROVE  /\ Tail(s) # <<>> => Last(Tail(s)) = Last(s)
               /\ Tail(s) = <<>> => Last(s) = Head(s)
    <2>1. /\ Tail(s) \in Seq(S) /\ Len(Tail(s)) = Len(s) - 1 /\ Head(s) = s[1]
          /\ \A j \in 1..Len(Tail(s)) : Tail(s)[j] = s[j + 1]
          /\ Len(s) \in Nat /\ Len(s) # 0
      BY <1>2, HeadTailProperties, LenProperties, EmptySeq
    <2>2. ASSUME Tail(s) # <<>> PROVE Last(Tail(s)) = Last(s)
      <3>1. Len(Tail(s)) # 0
        BY <2>1, <2>2, EmptySeq
      <3>2. Len(Tail(s)) \in 1..Len(Tail(s)) /\ Len(Tail(s)) + 1 = Len(s)
        BY <2>1, <3>1
      <3> QED
        BY <2>1, <3>2 DEF Last
    <2>3. ASSUME Tail(s) = <<>> PROVE Last(s) = Head(s)
      <3>1. Len(<<>>) = 0
        BY EmptySeq
      <3>2. Len(Tail(s)) = 0
        BY <2>3, <3>1
      <3> DEFINE n == Len(s)
                 m == Len(Tail(s))
      <3>3. n \in Nat /\ m = n - 1 /\ m = 0
        BY <2>1, <3>2
      <3> HIDE DEF n, m
      <3>4. n = 1
        BY <3>3
      <3>5. Len(s) = 1
        BY <3>4 DEF n
      <3> QED
        BY <2>1, <3>5 DEF Last
    <2> QED
      BY <2>2, <2>3
  <1> QED
    BY <1>1, <1>2

LEMMA SaidIsKept ==
    ASSUME NEW e \in Ends, outbox'[e] = outbox[e], inbox'[Other(e)] = inbox[Other(e)],
           remote_muted'[Other(e)] = remote_muted[Other(e)]
    PROVE  Said(e)' = Said(e)
  BY Zenon DEF Said

LEMMA SendSays ==
    ASSUME TInv, NEW e \in Ends, NEW type, NEW of, Send(e, type, of),
           type \in {"offer", "answer", "metadata", "hangup"}, of \in Offers,
           muted' \in [Ends -> BOOLEAN], UNCHANGED <<inbox, remote_muted>>
    PROVE  /\ Said(e)' = muted'[e]
           /\ \A f \in Ends : f # e => Said(f)' = Said(f)
  <1> DEFINE m == [type |-> type, of |-> of, muted |-> muted'[e]]
  <1>1. m \in Messages /\ m.muted = muted'[e]
    BY DEF Messages
  <1>2. outbox \in [Ends -> Seq(Messages)] /\ outbox[e] \in Seq(Messages)
    BY DEF TInv
  <1>3. outbox' = [outbox EXCEPT ![e] = Append(outbox[e], m)]
    BY DEF Send
  <1> HIDE DEF m
  <1>4. outbox'[e] # <<>> /\ Last(outbox'[e]) = m
    BY <1>1, <1>2, <1>3, Lasts
  <1>5. Said(e)' = muted'[e]
    BY <1>1, <1>4 DEF Said
  <1>6. ASSUME NEW f \in Ends, f # e PROVE Said(f)' = Said(f)
    <2>1. outbox'[f] = outbox[f]
      BY <1>2, <1>3, <1>6
    <2> QED
      BY <2>1, SaidIsKept
  <1> QED
    BY <1>5, <1>6

LEMMA DeliverKeeps ==
    ASSUME TInv, NEW e \in Ends, Deliver(e), Plain'
    PROVE  \A f \in Ends : Said(f)' = Said(f)
  <1>1. PICK i \in DOMAIN outbox[e] :
           /\ outbox' = [outbox EXCEPT ![e] = RemoveAt(@, i)]
           /\ inbox' = [inbox EXCEPT ![Other(e)] = Append(@, outbox[e][i])]
           /\ faults' = IF i = 1 THEN faults ELSE faults \cup {"overtaken"}
           /\ UNCHANGED core
    BY DEF Deliver
  <1>2. i = 1
    BY <1>1 DEF Plain
  <1> DEFINE s == outbox[e]
             t == inbox[Other(e)]
  <1>3. /\ outbox \in [Ends -> Seq(Messages)] /\ inbox \in [Ends -> Seq(Messages)]
        /\ Other(e) \in Ends /\ s \in Seq(Messages) /\ t \in Seq(Messages)
    BY TheEnds DEF TInv
  <1>4. s # <<>> /\ RemoveAt(s, i) = Tail(s) /\ s[i] = Head(s) /\ Head(s) \in Messages
    BY <1>2, <1>3, Removed
  <1>5. outbox'[e] = Tail(s) /\ inbox'[Other(e)] = Append(t, Head(s))
    BY <1>1, <1>3, <1>4
  <1>6. Said(e)' = Said(e)
    <2>1. Append(t, Head(s)) # <<>> /\ Last(Append(t, Head(s))) = Head(s)
      BY <1>3, <1>4, Lasts
    <2>2. Said(e) = Last(s).muted
      BY <1>4 DEF Said
    <2>3. CASE Tail(s) # <<>>
      <3>1. Last(Tail(s)) = Last(s)
        BY <1>3, <1>4, <2>3, Lasts
      <3> QED
        BY <1>5, <2>2, <2>3, <3>1 DEF Said
    <2>4. CASE Tail(s) = <<>>
      <3>1. Last(s) = Head(s)
        BY <1>3, <1>4, <2>4, Lasts
      <3> QED
        BY <1>5, <2>1, <2>2, <2>4, <3>1 DEF Said
    <2> QED
      BY <2>3, <2>4
  <1>7. ASSUME NEW f \in Ends, f # e PROVE Said(f)' = Said(f)
    <2>1. Other(f) # Other(e) /\ Other(f) \in Ends
      BY <1>7, TheEnds
    <2>2. outbox'[f] = outbox[f] /\ inbox'[Other(f)] = inbox[Other(f)]
      BY <1>1, <1>3, <1>7, <2>1
    <2>3. remote_muted' = remote_muted
      BY <1>1 DEF core
    <2> QED
      BY <2>2, <2>3, SaidIsKept
  <1> QED
    BY <1>6, <1>7

\* An event handled has its muting shown, whatever it is.
LEMMA SignalKeeps ==
    ASSUME TInv, NEW e \in Ends, HandleSignal(e), Plain, Plain'
    PROVE  /\ \A f \in Ends : Said(f)' = Said(f)
           /\ muted' = muted
           /\ \/ state' = state
              \/ state[e] = "Dialing" /\ state' = [state EXCEPT ![e] = "Connecting"]
  <1> DEFINE msg == Head(inbox[e])
             s == inbox[e]
  <1>1. /\ s # <<>> /\ inbox' = [inbox EXCEPT ![e] = Tail(s)] /\ outbox' = outbox
        /\ \/ HandleAnswer(e, msg) \/ HandleNegotiate(e, msg)
           \/ HandleStreamMetadata(e, msg) \/ HandleHangup(e, msg) \/ Ignore(e, msg)
    BY DEF HandleSignal, Plain
  <1>2. /\ outbox \in [Ends -> Seq(Messages)] /\ inbox \in [Ends -> Seq(Messages)]
        /\ s \in Seq(Messages) /\ Other(e) \in Ends /\ Other(Other(e)) = e
        /\ remote_muted \in [Ends -> BOOLEAN]
        /\ state \in [Ends -> {"Dialing", "Connecting", "Connected", "Ended"}]
    BY TheEnds DEF TInv, TypeOK
  <1>3. /\ remote_muted' = [remote_muted EXCEPT ![e] = msg.muted]
        /\ muted' = muted
        /\ \/ state' = state
           \/ state[e] = "Dialing" /\ state' = [state EXCEPT ![e] = "Connecting"]
    <2>1. CASE HandleAnswer(e, msg)
      BY <2>1 DEF HandleAnswer, ApplyStreamMetadata
    <2>2. CASE HandleNegotiate(e, msg)
      BY <2>2 DEF HandleNegotiate, ApplyStreamMetadata
    <2>3. CASE HandleStreamMetadata(e, msg)
      BY <2>3 DEF HandleStreamMetadata, ApplyStreamMetadata
    <2>4. CASE HandleHangup(e, msg)
      BY <1>2, <2>4 DEF HandleHangup, Plain
    <2>5. CASE Ignore(e, msg)
      BY <2>5 DEF Ignore, Plain
    <2> QED
      BY <1>1, <2>1, <2>2, <2>3, <2>4, <2>5
  <1>4. Said(Other(e))' = Said(Other(e))
    <2>1. outbox'[Other(e)] = outbox[Other(e)] /\ inbox'[e] = Tail(s)
          /\ remote_muted'[e] = msg.muted
      BY <1>1, <1>2, <1>3
    <2>2. CASE outbox[Other(e)] # <<>>
      BY <2>1, <2>2 DEF Said
    <2>3. CASE outbox[Other(e)] = <<>> /\ Tail(s) # <<>>
      <3>1. Last(Tail(s)) = Last(s)
        BY <1>1, <1>2, <2>3, Lasts
      <3> QED
        BY <1>1, <1>2, <2>1, <2>3, <3>1 DEF Said
    <2>4. CASE outbox[Other(e)] = <<>> /\ Tail(s) = <<>>
      <3>1. Last(s) = Head(s)
        BY <1>1, <1>2, <2>4, Lasts
      <3> QED
        BY <1>1, <1>2, <2>1, <2>4, <3>1 DEF Said
    <2> QED
      BY <2>2, <2>3, <2>4
  <1>5. Said(e)' = Said(e)
    <2>1. Other(e) # e
      BY TheEnds
    <2>2. outbox'[e] = outbox[e] /\ inbox'[Other(e)] = inbox[Other(e)]
          /\ remote_muted'[Other(e)] = remote_muted[Other(e)]
      BY <1>1, <1>2, <1>3, <2>1
    <2> QED
      BY <2>2, SaidIsKept
  <1>6. \A f \in Ends : f = e \/ f = Other(e)
    BY TheEnds DEF Ends
  <1> QED
    BY <1>3, <1>4, <1>5, <1>6

\* What no longer holds of the events sent never holds again.
LEMMA PlainBefore == TInv /\ [Next]_vars /\ Plain' => Plain
  <1> SUFFICES ASSUME TInv, [Next]_vars, Plain' PROVE Plain
    OBVIOUS
  <1>1. faults \subseteq faults'
    BY ZenonT(60) DEF Next, vars, core, bound, Deliver, Lose, HandleSignal, HandleAnswer, HandleNegotiate,
           HandleStreamMetadata, HandleHangup, Ignore, HandleCallEvent, SetMuted,
           NoteConnected, BeginOffer, CreateOffer, SendNegotiate, Arm, TimeOut
  <1>2. ASSUME NEW f \in Ends, state[f] = "Ended" PROVE state'[f] = "Ended"
    <2>1. state \in [Ends -> {"Dialing", "Connecting", "Connected", "Ended"}]
      BY DEF TInv, TypeOK
    <2> QED
      BY ZenonT(60), <1>2, <2>1 DEF Next, vars, core, Deliver, Lose, HandleSignal, HandleAnswer,
           HandleNegotiate, HandleStreamMetadata, HandleHangup, Ignore, HandleCallEvent,
           ApplyAnswer, RollBack, AnswerOffer, HangUpFailed, SetMuted,
           NoteConnected, BeginOffer, CreateOffer, SendNegotiate, Arm, TimeOut
  <1> QED
    BY <1>1, <1>2 DEF Plain

LEMMA StepSaid == TInv /\ TInv' /\ SaidInv /\ [Next]_vars => SaidInv'
  <1> SUFFICES ASSUME TInv, TInv', SaidInv, [Next]_vars, Plain' PROVE SaidInv'
    BY DEF SaidInv
  <1>1. Plain
    BY PlainBefore
  <1>2. /\ muted \in [Ends -> BOOLEAN] /\ muted' \in [Ends -> BOOLEAN]
        /\ state \in [Ends -> {"Dialing", "Connecting", "Connected", "Ended"}]
    BY DEF TInv, TypeOK
  <1>3. \A f \in Ends :
            /\ state[f] = "Dialing" => Said(f) = FALSE
            /\ state[f] = "Connecting" => Said(f) = muted[f] \/ Said(f) = FALSE
            /\ state[f] = "Connected" => Said(f) = muted[f]
    BY <1>1 DEF SaidInv
  <1>4. ASSUME UNCHANGED <<state, muted>>, \A f \in Ends : Said(f)' = Said(f)
        PROVE  SaidInv'
    BY <1>3, <1>4 DEF SaidInv
  <1>5. ASSUME UNCHANGED <<state, muted, outbox, inbox, remote_muted>> PROVE SaidInv'
    <2>1. \A f \in Ends : Said(f)' = Said(f)
      BY <1>5, SaidIsKept
    <2> QED
      BY <1>4, <1>5, <2>1
  <1>6. CASE UNCHANGED vars
    BY <1>5, <1>6 DEF vars, core, wire
  <1>7. ASSUME NEW e \in Ends, Deliver(e) PROVE SaidInv'
    BY <1>4, <1>7, DeliverKeeps DEF Deliver, core
  <1>8. ASSUME NEW e \in Ends, Lose(e) PROVE SaidInv'
    BY <1>8 DEF Lose, Plain
  <1>9. ASSUME NEW e \in Ends, HandleSignal(e) PROVE SaidInv'
    <2>1. /\ \A f \in Ends : Said(f)' = Said(f)
          /\ muted' = muted
          /\ \/ state' = state
             \/ state[e] = "Dialing" /\ state' = [state EXCEPT ![e] = "Connecting"]
      BY <1>1, <1>9, SignalKeeps
    <2>2. CASE state' = state
      BY <1>4, <2>1, <2>2
    <2>3. CASE state[e] = "Dialing" /\ state' = [state EXCEPT ![e] = "Connecting"]
      BY <1>2, <1>3, <2>1, <2>3 DEF SaidInv
    <2> QED
      BY <2>1, <2>2, <2>3
  <1>10. ASSUME NEW e \in Ends, HandleCallEvent(e) PROVE SaidInv'
    <2>1. \/ HangUpFailed(e) \/ UNCHANGED <<core, outbox>>
      BY <1>10 DEF HandleCallEvent, ApplyAnswer, RollBack, AnswerOffer
    <2>2. ~HangUpFailed(e)
      BY <1>2 DEF HangUpFailed, Plain
    <2>3. inbox' = inbox
      BY <1>10 DEF HandleCallEvent
    <2> QED
      BY <1>5, <2>1, <2>2, <2>3 DEF core
  <1>11. ASSUME NEW e \in Ends, SetMuted(e) PROVE SaidInv'
    <2>1. /\ UNCHANGED <<state, inbox, remote_muted>>
          /\ muted' = [muted EXCEPT ![e] = ~@]
          /\ Established(e) => Send(e, "metadata", NoOffer)
          /\ ~Established(e) => UNCHANGED outbox
      BY <1>11 DEF SetMuted
    <2>2. CASE Established(e)
      <3>1. Said(e)' = muted'[e] /\ \A f \in Ends : f # e => Said(f)' = Said(f)
        BY <1>2, <2>1, <2>2, SendSays, Descriptions
      <3>2. \A f \in Ends : f # e => muted'[f] = muted[f]
        BY <1>2, <2>1
      <3>3. state[e] # "Dialing"
        BY <2>2 DEF Established
      <3> QED
        BY <1>3, <2>1, <3>1, <3>2, <3>3 DEF SaidInv
    <2>3. CASE ~Established(e)
      <3>1. \A f \in Ends : Said(f)' = Said(f)
        BY <2>1, <2>3, SaidIsKept
      <3>2. \A f \in Ends : f # e => muted'[f] = muted[f]
        BY <1>2, <2>1
      <3>3. state[e] \notin {"Connecting", "Connected"}
        BY <2>3 DEF Established
      <3> QED
        BY <1>3, <2>1, <3>1, <3>2, <3>3 DEF SaidInv
    <2> QED
      BY <2>2, <2>3
  <1>12. ASSUME NEW e \in Ends, NoteConnected(e) PROVE SaidInv'
    <2>1. /\ state[e] = "Connecting" /\ state' = [state EXCEPT ![e] = "Connected"]
          /\ UNCHANGED <<muted, inbox, remote_muted>>
          /\ muted[e] => Send(e, "metadata", NoOffer)
          /\ ~muted[e] => UNCHANGED outbox
      BY <1>12 DEF NoteConnected
    <2>2. /\ Said(e)' = muted[e]
          /\ \A f \in Ends : f # e => Said(f)' = Said(f)
      <3>1. CASE muted[e]
        BY <1>2, <2>1, <3>1, SendSays, Descriptions
      <3>2. CASE ~muted[e]
        <4>1. \A f \in Ends : Said(f)' = Said(f)
          BY <2>1, <3>2, SaidIsKept
        <4>2. Said(e) = FALSE /\ muted[e] = FALSE
          BY <1>2, <1>3, <2>1, <3>2
        <4> QED
          BY <4>1, <4>2
      <3> QED
        BY <3>1, <3>2
    <2>3. /\ state'[e] = "Connected" /\ \A f \in Ends : f # e => state'[f] = state[f]
      BY <1>2, <2>1
    <2> QED
      BY <1>3, <2>1, <2>2, <2>3 DEF SaidInv
  <1>13. ASSUME NEW e \in Ends, BeginOffer(e) \/ CreateOffer(e) \/ Arm(e) \/ TimeOut(e)
         PROVE  SaidInv'
    BY <1>5, <1>13 DEF BeginOffer, CreateOffer, Arm, TimeOut, core, wire
  <1>14. ASSUME NEW e \in Ends, SendNegotiate(e) PROVE SaidInv'
    <2> DEFINE d == Head(made[e])
    <2>1. /\ made[e] # <<>> /\ UNCHANGED <<state, muted, inbox, remote_muted>>
          /\ \/ UNCHANGED outbox
             \/ Established(e) /\ Send(e, d.type, d.of)
      BY <1>14 DEF SendNegotiate
    <2>2. d.type \in {"offer", "answer", "metadata", "hangup"} /\ d.of \in Offers
      <3>1. made[e] \in Seq(Made)
        BY DEF TInv
      <3>2. d \in Made
        BY <2>1, <3>1, HeadTailProperties
      <3> QED
        BY <3>2 DEF Made
    <2> HIDE DEF d
    <2>3. CASE UNCHANGED outbox
      BY <1>5, <2>1, <2>3
    <2>4. CASE Established(e) /\ Send(e, d.type, d.of)
      <3>1. Said(e)' = muted'[e] /\ \A f \in Ends : f # e => Said(f)' = Said(f)
        BY <1>2, <2>1, <2>2, <2>4, SendSays
      <3>2. state[e] # "Dialing"
        BY <2>4 DEF Established
      <3> QED
        BY <1>3, <2>1, <3>1, <3>2 DEF SaidInv
    <2> QED
      BY <2>1, <2>3, <2>4
  <1> QED
    BY <1>6, <1>7, <1>8, <1>9, <1>10, <1>11, <1>12, <1>13, <1>14 DEF Next

LEMMA InitSaid == Init => SaidInv
  <1> SUFFICES ASSUME Init PROVE SaidInv
    OBVIOUS
  <1>1. /\ muted \in [Ends -> BOOLEAN] /\ "caller" \in Ends /\ "callee" \in Ends
        /\ outbox["caller"] = <<>> /\ inbox["callee"] = <<>> /\ remote_muted["callee"] = FALSE
        /\ outbox["callee"] = <<[type |-> "accept", of |-> Invite, muted |-> muted["callee"]]>>
        /\ state["caller"] = "Dialing" /\ state["callee"] = "Connecting"
    BY DEF Init, Ends
  <1>2. Said("caller") = FALSE
    BY <1>1, TheEnds DEF Said
  <1>3. outbox["callee"] # <<>> /\ Last(outbox["callee"]).muted = muted["callee"]
    BY <1>1 DEF Last
  <1>4. Said("callee") = muted["callee"]
    BY <1>3 DEF Said
  <1> QED
    BY <1>1, <1>2, <1>4 DEF SaidInv, Ends

LEMMA SaidIsShown == TInv /\ SaidInv => MutingIsShown
  <1> SUFFICES ASSUME TInv, SaidInv, Settled, InCall,
                      faults \cap {"lost", "overtaken", "stale"} = {},
                      NEW e \in Ends
               PROVE  remote_muted[e] = muted[Other(e)]
    BY DEF MutingIsShown
  <1>1. Other(e) \in Ends /\ Other(Other(e)) = e
    BY TheEnds
  <1>2. Plain /\ state[Other(e)] = "Connected"
    BY <1>1 DEF InCall, Plain
  <1>3. Said(Other(e)) = muted[Other(e)]
    BY <1>1, <1>2 DEF SaidInv
  <1>4. outbox[Other(e)] = <<>> /\ inbox[e] = <<>>
    BY <1>1 DEF Settled
  <1> QED
    BY <1>1, <1>3, <1>4 DEF Said

(* Once everything sent has arrived, in order, each end shows whether the   *)
(* other is muted, however often that changed and whenever it was answered. *)
THEOREM MutingShown == Spec => []MutingIsShown
  <1>1. Spec => [](TInv /\ SaidInv)
    BY InitSaid, InitTypes, StepTypes, StepSaid, PTL DEF Spec
  <1> QED
    BY <1>1, SaidIsShown, PTL

-------------------------------------------------------------------------------
(* How often something is among the elements of a sequence, and in what    *)
(* order: all that the two theorems below need to know of what is on its   *)
(* way.                                                                     *)

Fits(x, T, W) == x.type \in T /\ x.of \in W

\* None, one, or more than one (2).
Times(s, T, W) ==
    LET at == {i \in DOMAIN s : Fits(s[i], T, W)}
    IN  IF at = {} THEN 0 ELSE IF \E i \in at : at = {i} THEN 1 ELSE 2

\* One of the second kind comes after one of the first.
Follows(s, T, W, U, V) ==
    \E i, j \in DOMAIN s : i < j /\ Fits(s[i], T, W) /\ Fits(s[j], U, V)

LEMMA TimesIs ==
    ASSUME NEW s, NEW T, NEW W
    PROVE  /\ Times(s, T, W) \in {0, 1, 2}
           /\ Times(s, T, W) = 0 <=> \A i \in DOMAIN s : ~Fits(s[i], T, W)
           /\ Times(s, T, W) <= 1 <=>
                 \A i, j \in DOMAIN s : Fits(s[i], T, W) /\ Fits(s[j], T, W) => i = j
  <1> DEFINE at == {i \in DOMAIN s : Fits(s[i], T, W)}
  <1>1. Times(s, T, W) = IF at = {} THEN 0 ELSE IF \E i \in at : at = {i} THEN 1 ELSE 2
    BY DEF Times
  <1>2. at = {} <=> \A i \in DOMAIN s : ~Fits(s[i], T, W)
    OBVIOUS
  <1>3. at = {} \/ (\E i \in at : at = {i}) <=>
           \A i, j \in DOMAIN s : Fits(s[i], T, W) /\ Fits(s[j], T, W) => i = j
    OBVIOUS
  <1> HIDE DEF at
  <1> QED
    BY <1>1, <1>2, <1>3

(* What is counted depends on the elements that fit.                        *)
LEMMA TimesOfFew ==
    ASSUME NEW s, NEW T, NEW W, NEW U, NEW V, T \subseteq U, W \subseteq V
    PROVE  /\ Times(s, T, W) <= Times(s, U, V)
           /\ Times(s, T, {}) = 0
  <1>1. \A i \in DOMAIN s : Fits(s[i], T, W) => Fits(s[i], U, V)
    BY DEF Fits
  <1>2. \A i \in DOMAIN s : ~Fits(s[i], T, {})
    BY DEF Fits
  <1>3. Times(s, U, V) <= 1 => Times(s, T, W) <= 1
    BY <1>1, TimesIs
  <1>4. Times(s, U, V) = 0 => Times(s, T, W) = 0
    BY <1>1, TimesIs
  <1>5. Times(s, T, {}) = 0
    BY <1>2, TimesIs
  <1> QED
    BY <1>3, <1>4, <1>5, TimesIs

(* An element is of the offers W or of the others.                          *)
LEMMA TimesOfParts ==
    ASSUME NEW s, NEW T, NEW V, NEW W \in SUBSET V, Times(s, T, V \ W) = 0
    PROVE  Times(s, T, V) = Times(s, T, W)
  <1>1. \A i \in DOMAIN s : ~Fits(s[i], T, V \ W)
    BY TimesIs
  <1>2. \A i \in DOMAIN s : Fits(s[i], T, V) <=> Fits(s[i], T, W)
    BY <1>1 DEF Fits
  <1> QED
    BY <1>2 DEF Times

LEMMA Apart ==
    ASSUME NEW S, NEW s \in Seq(S), NEW x \in S
    PROVE  /\ Append(s, x) \in Seq(S) /\ DOMAIN s = 1..Len(s) /\ Len(s) \in Nat
           /\ DOMAIN Append(s, x) = 1..Len(s) + 1
           /\ Append(s, x)[Len(s) + 1] = x
           /\ \A i \in 1..Len(s) : Append(s, x)[i] = s[i]
  BY AppendProperties, LenProperties

LEMMA AppendTimes ==
    ASSUME NEW S, NEW s \in Seq(S), NEW x \in S, NEW T, NEW W
    PROVE  Times(Append(s, x), T, W) =
              IF Fits(x, T, W) THEN IF Times(s, T, W) = 0 THEN 1 ELSE 2
              ELSE Times(s, T, W)
  <1> DEFINE t == Append(s, x)
             n == Len(s)
  <1>1. /\ n \in Nat /\ DOMAIN s = 1..n /\ DOMAIN t = 1..n + 1
        /\ t[n + 1] = x /\ \A i \in 1..n : t[i] = s[i]
    BY Apart
  <1> HIDE DEF t, n
  <1>2. n + 1 \in 1..n + 1 /\ \A i \in 1..n : i \in 1..n + 1 /\ i # n + 1
    BY <1>1
  <1>3. \A i \in 1..n + 1 : i \in 1..n \/ i = n + 1
    BY <1>1
  <1>4. CASE ~Fits(x, T, W)
    <2>1. {i \in DOMAIN t : Fits(t[i], T, W)} = {i \in DOMAIN s : Fits(s[i], T, W)}
      BY <1>1, <1>2, <1>3, <1>4
    <2> QED
      BY <1>4, <2>1 DEF Times, t
  <1>5. CASE Fits(x, T, W) /\ Times(s, T, W) = 0
    <2>1. \A i \in DOMAIN s : ~Fits(s[i], T, W)
      BY <1>5, TimesIs
    <2>2. {i \in DOMAIN t : Fits(t[i], T, W)} = {n + 1}
      BY <1>1, <1>2, <1>3, <1>5, <2>1
    <2>3. Times(t, T, W) = 1
      BY <2>2 DEF Times
    <2> QED
      BY <1>5, <2>3 DEF t
  <1>6. CASE Fits(x, T, W) /\ Times(s, T, W) # 0
    <2>1. PICK i \in 1..n : Fits(s[i], T, W)
      BY <1>1, <1>6, TimesIs
    <2>2. i \in DOMAIN t /\ n + 1 \in DOMAIN t /\ i # n + 1 /\ Fits(t[i], T, W) /\ Fits(t[n + 1], T, W)
      BY <1>1, <1>2, <1>6, <2>1
    <2>3. ~(Times(t, T, W) <= 1)
      BY <2>2, TimesIs
    <2>4. Times(t, T, W) = 2
      BY <2>3, TimesIs
    <2> QED
      BY <1>6, <2>4 DEF t
  <1> QED
    BY <1>4, <1>5, <1>6

LEMMA AppendFollows ==
    ASSUME NEW S, NEW s \in Seq(S), NEW x \in S, NEW T, NEW W, NEW U, NEW V,
           Follows(Append(s, x), T, W, U, V)
    PROVE  Follows(s, T, W, U, V) \/ (Times(s, T, W) > 0 /\ Fits(x, U, V))
  <1> DEFINE t == Append(s, x)
             n == Len(s)
  <1>1. /\ n \in Nat /\ DOMAIN s = 1..n /\ DOMAIN t = 1..n + 1
        /\ t[n + 1] = x /\ \A i \in 1..n : t[i] = s[i]
    BY Apart
  <1>2. PICK i \in DOMAIN t, j \in DOMAIN t : i < j /\ Fits(t[i], T, W) /\ Fits(t[j], U, V)
    BY DEF Follows
  <1> HIDE DEF t, n
  <1>3. i \in 1..n /\ Fits(s[i], T, W)
    BY <1>1, <1>2
  <1>4. CASE j \in 1..n
    BY <1>1, <1>2, <1>3, <1>4 DEF Follows
  <1>5. CASE j = n + 1
    <2>1. Times(s, T, W) # 0
      BY <1>1, <1>3, TimesIs
    <2> QED
      BY <1>1, <1>2, <1>5, <2>1, TimesIs
  <1> QED
    BY <1>1, <1>2, <1>4, <1>5

(* The places of what is left when an element is taken out.                 *)
LEMMA RemovedPlaces ==
    ASSUME NEW S, NEW s \in Seq(S), NEW k \in DOMAIN s
    PROVE  /\ DOMAIN s = 1..Len(s) /\ Len(s) \in Nat \ {0} /\ k \in 1..Len(s)
           /\ DOMAIN RemoveAt(s, k) = 1..Len(s) - 1
           /\ \A i \in 1..Len(s) - 1 : RemoveAt(s, k)[i] = IF i < k THEN s[i] ELSE s[i + 1]
  <1> DEFINE a == SubSeq(s, 1, k - 1)
             b == SubSeq(s, k + 1, Len(s))
             n == Len(s)
  <1>1. n \in Nat /\ DOMAIN s = 1..n /\ k \in 1..n /\ k \in Int /\ n \in Int /\ n # 0
    BY LenProperties
  <1>2. \A j \in 1..n : s[j] \in S
    BY ElementOfSeq
  <1>3. a \in Seq(S) /\ Len(a) = k - 1 /\ \A i \in 1..k - 1 : a[i] = s[i]
    <2>1. \A j \in 1..k - 1 : s[j] \in S
      BY <1>1, <1>2
    <2>2. /\ a \in Seq(S) /\ Len(a) = IF 1 <= k - 1 THEN k - 1 - 1 + 1 ELSE 0
          /\ \A i \in 1..k - 1 - 1 + 1 : a[i] = s[1 + i - 1]
      BY <2>1, <1>1, SubSeqProperties
    <2> HIDE DEF a
    <2> QED
      BY <1>1, <2>2
  <1>4. b \in Seq(S) /\ Len(b) = n - k /\ \A i \in 1..n - k : b[i] = s[k + i]
    <2>1. \A j \in k + 1..n : s[j] \in S
      BY <1>1, <1>2
    <2>2. /\ b \in Seq(S) /\ Len(b) = IF k + 1 <= n THEN n - (k + 1) + 1 ELSE 0
          /\ \A i \in 1..n - (k + 1) + 1 : b[i] = s[(k + 1) + i - 1]
      BY <2>1, <1>1, SubSeqProperties
    <2> HIDE DEF b, n
    <2>3. n - (k + 1) + 1 = n - k /\ \A i \in 1..n - k : (k + 1) + i - 1 = k + i
      BY <1>1
    <2>4. Len(b) = n - k
      BY <1>1, <2>2
    <2>5. ASSUME NEW i \in 1..n - k PROVE b[i] = s[k + i]
      BY <2>2, <2>3
    <2> QED
      BY <2>2, <2>4, <2>5
  <1>5. /\ RemoveAt(s, k) \in Seq(S) /\ Len(RemoveAt(s, k)) = Len(a) + Len(b)
        /\ \A i \in 1..Len(a) + Len(b) : RemoveAt(s, k)[i] =
              IF i <= Len(a) THEN a[i] ELSE b[i - Len(a)]
    BY <1>3, <1>4, ConcatProperties DEF RemoveAt
  <1>6. DOMAIN RemoveAt(s, k) = 1..Len(RemoveAt(s, k))
    BY <1>5, LenProperties
  <1> HIDE DEF a, b, n
  <1>7. DOMAIN RemoveAt(s, k) = 1..n - 1
    BY <1>1, <1>3, <1>4, <1>5, <1>6
  <1>8. ASSUME NEW i \in 1..n - 1 PROVE RemoveAt(s, k)[i] = IF i < k THEN s[i] ELSE s[i + 1]
    <2>1. i \in 1..Len(a) + Len(b)
      BY <1>1, <1>3, <1>4, <1>8
    <2>2. CASE i < k
      BY <1>1, <1>3, <1>5, <2>1, <2>2
    <2>3. CASE ~(i < k)
      <3>1. i - (k - 1) \in 1..n - k /\ k + (i - (k - 1)) = i + 1
        BY <1>1, <1>8, <2>3
      <3>2. RemoveAt(s, k)[i] = b[i - (k - 1)]
        BY <1>1, <1>3, <1>5, <2>1, <2>3
      <3> QED
        BY <1>4, <2>3, <3>1, <3>2
    <2> QED
      BY <2>2, <2>3
  <1> QED
    BY <1>1, <1>7, <1>8 DEF n

LEMMA RemoveTimes ==
    ASSUME NEW S, NEW s \in Seq(S), NEW k \in DOMAIN s, NEW T, NEW W
    PROVE  /\ Fits(s[k], T, W) => /\ Times(s, T, W) > 0
                                  /\ Times(s, T, W) = 1 => Times(RemoveAt(s, k), T, W) = 0
           /\ ~Fits(s[k], T, W) => Times(RemoveAt(s, k), T, W) = Times(s, T, W)
           /\ Times(RemoveAt(s, k), T, W) <= Times(s, T, W)
  <1> DEFINE t == RemoveAt(s, k)
             n == Len(s)
             back(i) == IF i < k THEN i ELSE i + 1
  <1>1. /\ n \in Nat \ {0} /\ DOMAIN s = 1..n /\ DOMAIN t = 1..n - 1 /\ k \in 1..n
        /\ \A i \in 1..n - 1 : t[i] = IF i < k THEN s[i] ELSE s[i + 1]
    BY RemovedPlaces
  <1> HIDE DEF t, n
  <1>2. \A i \in DOMAIN t : back(i) \in DOMAIN s /\ back(i) # k /\ t[i] = s[back(i)]
    BY <1>1
  <1>3. \A i, j \in DOMAIN t : back(i) = back(j) => i = j
    BY <1>1
  <1>4. \A j \in DOMAIN s : j # k => \E i \in DOMAIN t : back(i) = j
    <2> SUFFICES ASSUME NEW j \in DOMAIN s, j # k PROVE \E i \in DOMAIN t : back(i) = j
      OBVIOUS
    <2>1. CASE j < k
      <3>1. j \in DOMAIN t /\ back(j) = j
        BY <1>1, <2>1
      <3> QED
        BY <3>1
    <2>2. CASE j > k
      <3>1. j - 1 \in DOMAIN t /\ back(j - 1) = j
        BY <1>1, <2>2
      <3> QED
        BY <3>1
    <2> QED
      BY <1>1, <2>1, <2>2
  <1> HIDE DEF back
  <1>5. Times(s, T, W) = 0 => Times(t, T, W) = 0
    BY <1>2, TimesIs
  <1>6. Times(s, T, W) <= 1 => Times(t, T, W) <= 1
    <2> SUFFICES ASSUME \A i, j \in DOMAIN s : Fits(s[i], T, W) /\ Fits(s[j], T, W) => i = j,
                        NEW i \in DOMAIN t, NEW j \in DOMAIN t, Fits(t[i], T, W), Fits(t[j], T, W)
                 PROVE  i = j
      BY TimesIs
    <2>1. back(i) = back(j)
      BY <1>2
    <2> QED
      BY <1>3, <2>1
  <1>7. Times(t, T, W) <= Times(s, T, W)
    BY <1>5, <1>6, TimesIs
  <1>8. ASSUME Fits(s[k], T, W)
        PROVE  Times(s, T, W) > 0 /\ (Times(s, T, W) = 1 => Times(t, T, W) = 0)
    <2>1. Times(s, T, W) # 0
      BY <1>8, TimesIs
    <2>2. ASSUME Times(s, T, W) = 1 PROVE Times(t, T, W) = 0
      <3>1. \A i, j \in DOMAIN s : Fits(s[i], T, W) /\ Fits(s[j], T, W) => i = j
        BY <2>2, TimesIs
      <3>2. \A i \in DOMAIN t : ~Fits(t[i], T, W)
        BY <1>2, <1>8, <3>1
      <3> QED
        BY <3>2, TimesIs
    <2> QED
      BY <2>1, <2>2, TimesIs
  <1>9. ASSUME ~Fits(s[k], T, W) PROVE Times(t, T, W) = Times(s, T, W)
    <2>1. \A j \in DOMAIN s : Fits(s[j], T, W) =>
             \E i \in DOMAIN t : back(i) = j /\ Fits(t[i], T, W)
      <3> SUFFICES ASSUME NEW j \in DOMAIN s, Fits(s[j], T, W)
                   PROVE  \E i \in DOMAIN t : back(i) = j /\ Fits(t[i], T, W)
        OBVIOUS
      <3>1. j # k
        BY <1>9
      <3>2. PICK i \in DOMAIN t : back(i) = j
        BY <1>4, <3>1
      <3> QED
        BY <1>2, <3>2
    <2>2. Times(t, T, W) = 0 => Times(s, T, W) = 0
      BY <2>1, TimesIs
    <2>3. Times(t, T, W) <= 1 => Times(s, T, W) <= 1
      <3> SUFFICES ASSUME \A i, j \in DOMAIN t : Fits(t[i], T, W) /\ Fits(t[j], T, W) => i = j,
                          NEW i \in DOMAIN s, NEW j \in DOMAIN s,
                          Fits(s[i], T, W), Fits(s[j], T, W)
                   PROVE  i = j
        BY TimesIs
      <3>1. PICK a \in DOMAIN t : back(a) = i /\ Fits(t[a], T, W)
        BY <2>1
      <3>2. PICK b \in DOMAIN t : back(b) = j /\ Fits(t[b], T, W)
        BY <2>1
      <3>3. a = b
        BY <3>1, <3>2
      <3> QED
        BY <3>1, <3>2, <3>3
    <2> QED
      BY <1>7, <2>2, <2>3, TimesIs
  <1> QED
    BY <1>7, <1>8, <1>9 DEF t

LEMMA RemoveFollows ==
    ASSUME NEW S, NEW s \in Seq(S), NEW k \in DOMAIN s, NEW T, NEW W, NEW U, NEW V,
           Follows(RemoveAt(s, k), T, W, U, V)
    PROVE  Follows(s, T, W, U, V)
  <1> DEFINE t == RemoveAt(s, k)
             n == Len(s)
  <1>1. /\ n \in Nat \ {0} /\ DOMAIN s = 1..n /\ DOMAIN t = 1..n - 1 /\ k \in 1..n
        /\ \A i \in 1..n - 1 : t[i] = IF i < k THEN s[i] ELSE s[i + 1]
    BY RemovedPlaces
  <1>2. PICK i \in DOMAIN t, j \in DOMAIN t : i < j /\ Fits(t[i], T, W) /\ Fits(t[j], U, V)
    BY DEF Follows
  <1> HIDE DEF t, n
  <1> DEFINE a == IF i < k THEN i ELSE i + 1
             b == IF j < k THEN j ELSE j + 1
  <1>3. a \in DOMAIN s /\ b \in DOMAIN s /\ a < b /\ t[i] = s[a] /\ t[j] = s[b]
    BY <1>1, <1>2
  <1> HIDE DEF a, b
  <1> QED
    BY <1>2, <1>3 DEF Follows

(* What comes off the front of a sequence, as from a queue.                 *)
LEMMA TailTimes ==
    ASSUME NEW S, NEW s \in Seq(S), s # <<>>, NEW T, NEW W
    PROVE  /\ Fits(Head(s), T, W) => /\ Times(s, T, W) > 0
                                     /\ Times(s, T, W) = 1 => Times(Tail(s), T, W) = 0
           /\ ~Fits(Head(s), T, W) => Times(Tail(s), T, W) = Times(s, T, W)
           /\ Times(Tail(s), T, W) <= Times(s, T, W)
  <1>1. 1 \in DOMAIN s
    BY LenProperties, EmptySeq
  <1>2. s[1] = Head(s) /\ RemoveAt(s, 1) = Tail(s)
    BY <1>1, Removed
  <1>3. /\ Fits(s[1], T, W) => /\ Times(s, T, W) > 0
                               /\ Times(s, T, W) = 1 => Times(RemoveAt(s, 1), T, W) = 0
        /\ ~Fits(s[1], T, W) => Times(RemoveAt(s, 1), T, W) = Times(s, T, W)
        /\ Times(RemoveAt(s, 1), T, W) <= Times(s, T, W)
    BY <1>1, RemoveTimes
  <1> QED
    BY <1>2, <1>3, Zenon

LEMMA TailFollows ==
    ASSUME NEW S, NEW s \in Seq(S), s # <<>>, NEW T, NEW W, NEW U, NEW V
    PROVE  /\ Follows(Tail(s), T, W, U, V) => Follows(s, T, W, U, V)
           /\ Fits(Head(s), T, W) /\ Times(Tail(s), U, V) > 0 => Follows(s, T, W, U, V)
  <1>1. 1 \in DOMAIN s
    BY LenProperties, EmptySeq
  <1>2. s[1] = Head(s) /\ RemoveAt(s, 1) = Tail(s)
    BY <1>1, Removed
  <1>3. Follows(Tail(s), T, W, U, V) => Follows(s, T, W, U, V)
    BY <1>1, <1>2, RemoveFollows
  <1>4. ASSUME Fits(Head(s), T, W), Times(Tail(s), U, V) > 0 PROVE Follows(s, T, W, U, V)
    <2>1. Times(Tail(s), U, V) # 0
      BY <1>4, TimesIs
    <2>2. PICK j \in DOMAIN Tail(s) : Fits(Tail(s)[j], U, V)
      BY <2>1, TimesIs
    <2>3. DOMAIN s = 1..Len(s) /\ DOMAIN Tail(s) = 1..Len(s) - 1 /\ Len(s) \in Nat
          /\ Tail(s)[j] = s[j + 1]
      BY HeadTailProperties, LenProperties, <2>2
    <2>4. j + 1 \in DOMAIN s /\ 1 < j + 1 /\ Fits(s[j + 1], U, V) /\ Fits(s[1], T, W)
      BY <1>2, <1>4, <2>2, <2>3
    <2> QED
      BY <1>1, <2>4 DEF Follows
  <1> QED
    BY <1>3, <1>4

LEMMA EmptyTimes ==
    ASSUME NEW T, NEW W, NEW U, NEW V
    PROVE  Times(<<>>, T, W) = 0 /\ ~Follows(<<>>, T, W, U, V)
  <1>1. DOMAIN <<>> = {}
    BY EmptySeq, LenProperties
  <1> QED
    BY <1>1, TimesIs DEF Follows

LEMMA ConcatTimes ==
    ASSUME NEW S, NEW s \in Seq(S), NEW t \in Seq(S), NEW T, NEW W
    PROVE  Times(s \o t, T, W) = IF Times(s, T, W) = 0 THEN Times(t, T, W)
                                 ELSE IF Times(t, T, W) = 0 THEN Times(s, T, W) ELSE 2
  <1> DEFINE n == Len(s)
             m == Len(t)
             u == s \o t
  <1>1. /\ n \in Nat /\ m \in Nat /\ DOMAIN s = 1..n /\ DOMAIN t = 1..m
        /\ DOMAIN u = 1..n + m
        /\ \A i \in 1..n + m : u[i] = IF i <= n THEN s[i] ELSE t[i - n]
    BY ConcatProperties, LenProperties
  <1> HIDE DEF n, m, u
  <1>2. \A i \in DOMAIN s : i \in DOMAIN u /\ u[i] = s[i]
    BY <1>1
  <1>3. \A i \in DOMAIN t : n + i \in DOMAIN u /\ u[n + i] = t[i]
    BY <1>1
  <1>4. \A i \in DOMAIN u : \/ i \in DOMAIN s /\ u[i] = s[i]
                            \/ i - n \in DOMAIN t /\ u[i] = t[i - n]
    BY <1>1
  <1>5. \A i \in DOMAIN s, j \in DOMAIN t : i # n + j
    BY <1>1
  <1>6. Times(u, T, W) = 0 <=> Times(s, T, W) = 0 /\ Times(t, T, W) = 0
    <2>1. ASSUME Times(u, T, W) = 0 PROVE Times(s, T, W) = 0 /\ Times(t, T, W) = 0
      BY <1>2, <1>3, <2>1, TimesIs
    <2>2. ASSUME Times(s, T, W) = 0, Times(t, T, W) = 0 PROVE Times(u, T, W) = 0
      <3>1. \A i \in DOMAIN u : ~Fits(u[i], T, W)
        BY <1>4, <2>2, TimesIs
      <3> QED
        BY <3>1, TimesIs
    <2> QED
      BY <2>1, <2>2
  <1>7. ASSUME Times(u, T, W) <= 1
        PROVE  /\ Times(s, T, W) <= 1 /\ Times(t, T, W) <= 1
               /\ Times(s, T, W) = 0 \/ Times(t, T, W) = 0
    <2>1. \A i, j \in DOMAIN u : Fits(u[i], T, W) /\ Fits(u[j], T, W) => i = j
      BY <1>7, TimesIs
    <2>2. \A i, j \in DOMAIN s : Fits(s[i], T, W) /\ Fits(s[j], T, W) => i = j
      BY <1>2, <2>1
    <2>3. \A i, j \in DOMAIN t : Fits(t[i], T, W) /\ Fits(t[j], T, W) => n + i = n + j
      BY <1>3, <2>1
    <2>4. \A i, j \in DOMAIN t : n + i = n + j => i = j
      BY <1>1
    <2>5. \A i \in DOMAIN s, j \in DOMAIN t : ~(Fits(s[i], T, W) /\ Fits(t[j], T, W))
      BY <1>2, <1>3, <1>5, <2>1
    <2>6. Times(s, T, W) = 0 \/ Times(t, T, W) = 0
      <3> SUFFICES ASSUME Times(s, T, W) # 0, Times(t, T, W) # 0 PROVE FALSE
        OBVIOUS
      <3>1. PICK i \in DOMAIN s : Fits(s[i], T, W)
        BY TimesIs
      <3>2. PICK j \in DOMAIN t : Fits(t[j], T, W)
        BY TimesIs
      <3> QED
        BY <2>5, <3>1, <3>2
    <2>7. Times(s, T, W) <= 1
      BY <2>2, TimesIs
    <2>8. Times(t, T, W) <= 1
      BY <2>3, <2>4, TimesIs
    <2> QED
      BY <2>6, <2>7, <2>8
  <1>8. ASSUME Times(s, T, W) <= 1, Times(t, T, W) <= 1,
               Times(s, T, W) = 0 \/ Times(t, T, W) = 0
        PROVE  Times(u, T, W) <= 1
    <2> SUFFICES ASSUME NEW i \in DOMAIN u, NEW j \in DOMAIN u,
                        Fits(u[i], T, W), Fits(u[j], T, W)
                 PROVE  i = j
      BY TimesIs
    <2>1. \A a, b \in DOMAIN s : Fits(s[a], T, W) /\ Fits(s[b], T, W) => a = b
      BY <1>8, TimesIs
    <2>2. \A a, b \in DOMAIN t : Fits(t[a], T, W) /\ Fits(t[b], T, W) => a = b
      BY <1>8, TimesIs
    <2>3. CASE Times(s, T, W) = 0
      <3>1. \A a \in DOMAIN s : ~Fits(s[a], T, W)
        BY <2>3, TimesIs
      <3>2. /\ i - n \in DOMAIN t /\ Fits(t[i - n], T, W)
            /\ j - n \in DOMAIN t /\ Fits(t[j - n], T, W)
        BY <1>4, <3>1
      <3>3. i - n = j - n /\ i \in Int /\ j \in Int /\ n \in Int
        BY <1>1, <2>2, <3>2
      <3> QED
        BY <3>3
    <2>4. CASE Times(t, T, W) = 0
      <3>1. \A a \in DOMAIN t : ~Fits(t[a], T, W)
        BY <2>4, TimesIs
      <3>2. i \in DOMAIN s /\ Fits(s[i], T, W) /\ j \in DOMAIN s /\ Fits(s[j], T, W)
        BY <1>4, <3>1
      <3> QED
        BY <2>1, <3>2
    <2> QED
      BY <1>8, <2>3, <2>4
  <1>9. Times(u, T, W) \in {0, 1, 2} /\ Times(s, T, W) \in {0, 1, 2} /\ Times(t, T, W) \in {0, 1, 2}
    BY TimesIs
  <1> QED
    BY <1>6, <1>7, <1>8, <1>9 DEF u

LEMMA ConcatFollows ==
    ASSUME NEW S, NEW s \in Seq(S), NEW t \in Seq(S), NEW T, NEW W, NEW U, NEW V
    PROVE  Follows(s \o t, T, W, U, V) <=>
              \/ Follows(s, T, W, U, V) \/ Follows(t, T, W, U, V)
              \/ Times(s, T, W) > 0 /\ Times(t, U, V) > 0
  <1> DEFINE n == Len(s)
             m == Len(t)
             u == s \o t
  <1>1. /\ n \in Nat /\ m \in Nat /\ DOMAIN s = 1..n /\ DOMAIN t = 1..m
        /\ DOMAIN u = 1..n + m
        /\ \A i \in 1..n + m : u[i] = IF i <= n THEN s[i] ELSE t[i - n]
    BY ConcatProperties, LenProperties
  <1> HIDE DEF n, m, u
  <1>2. \A i \in DOMAIN s : i \in DOMAIN u /\ u[i] = s[i]
    BY <1>1
  <1>3. \A i \in DOMAIN t : n + i \in DOMAIN u /\ u[n + i] = t[i]
    BY <1>1
  <1>4. \A q : /\ Times(q, T, W) > 0 <=> \E i \in DOMAIN q : Fits(q[i], T, W)
               /\ Times(q, U, V) > 0 <=> \E i \in DOMAIN q : Fits(q[i], U, V)
    BY TimesIs
  <1>5. ASSUME Follows(s, T, W, U, V) PROVE Follows(u, T, W, U, V)
    BY <1>2, <1>5 DEF Follows
  <1>6. ASSUME Follows(t, T, W, U, V) PROVE Follows(u, T, W, U, V)
    <2>1. PICK i \in DOMAIN t, j \in DOMAIN t : i < j /\ Fits(t[i], T, W) /\ Fits(t[j], U, V)
      BY <1>6 DEF Follows
    <2>2. n + i < n + j
      BY <1>1, <2>1
    <2> QED
      BY <1>3, <2>1, <2>2 DEF Follows
  <1>7. ASSUME Times(s, T, W) > 0, Times(t, U, V) > 0 PROVE Follows(u, T, W, U, V)
    <2>1. PICK i \in DOMAIN s : Fits(s[i], T, W)
      BY <1>4, <1>7
    <2>2. PICK j \in DOMAIN t : Fits(t[j], U, V)
      BY <1>4, <1>7
    <2>3. i < n + j
      BY <1>1
    <2> QED
      BY <1>2, <1>3, <2>1, <2>2, <2>3 DEF Follows
  <1>8. ASSUME Follows(u, T, W, U, V)
        PROVE  \/ Follows(s, T, W, U, V) \/ Follows(t, T, W, U, V)
               \/ Times(s, T, W) > 0 /\ Times(t, U, V) > 0
    <2>1. PICK i \in DOMAIN u, j \in DOMAIN u : i < j /\ Fits(u[i], T, W) /\ Fits(u[j], U, V)
      BY <1>8 DEF Follows
    <2>2. CASE j \in 1..n
      <3>1. i \in DOMAIN s /\ j \in DOMAIN s /\ u[i] = s[i] /\ u[j] = s[j]
        BY <1>1, <2>1, <2>2
      <3> QED
        BY <2>1, <3>1 DEF Follows
    <2>3. CASE i \notin 1..n
      <3>1. i - n \in DOMAIN t /\ j - n \in DOMAIN t /\ u[i] = t[i - n] /\ u[j] = t[j - n]
            /\ i - n < j - n
        BY SMTT(30), <1>1, <2>1, <2>3
      <3> QED
        BY <2>1, <3>1 DEF Follows
    <2>4. CASE i \in 1..n /\ j \notin 1..n
      <3>1. i \in DOMAIN s /\ j - n \in DOMAIN t /\ u[i] = s[i] /\ u[j] = t[j - n]
        BY <1>1, <2>1, <2>4
      <3> QED
        BY <1>4, <2>1, <3>1
    <2> QED
      BY <2>2, <2>3, <2>4
  <1> QED
    BY <1>5, <1>6, <1>7, <1>8 DEF u

-------------------------------------------------------------------------------
(* An offer and its answer are a token that its end waits for: there is at  *)
(* most one, and it is that of the offer the end has as local description.  *)

O == {"offer"}
A == {"answer", "accept"}
R == {"rollback"}

\* All that an end has made and the other has not acted on, oldest first.
Line(e) == events[Other(e)] \o (inbox[Other(e)] \o (outbox[e] \o made[e]))

\* The embedder is told to roll its offer back and has not yet.
GivenWay(e) == Times(events[e], R, Offers) > 0
Current(e)  == IF GivenWay(e) \/ local[e] = NoOffer THEN {} ELSE {local[e]}
Void(e)     == Offers \ Current(e)

Answers(e) == Times(Line(Other(e)), A, Current(e))
Tokens(e)  == Times(Line(e), O, Current(e)) + Answers(e)

\* Only the callee's offers are ever rolled back, and only when they were sent.
ForCurrent(e) ==
    /\ Times(Line(Other(e)), A, Void(e)) = 0 /\ Times(made[e], O, Void(e)) = 0
    /\ e = "caller" => Times(Line(e), O, Void(e)) = 0

\* The caller ignores those, or has an offer of its own as local description.
VoidIgnored(e) ==
    /\ ~local_offer_pending[Other(e)] =>
          /\ Times(outbox[e], O, Void(e)) = 0 /\ Times(inbox[Other(e)], O, Void(e)) = 0
    /\ signaling[Other(e)] = "stable" => Times(events[Other(e)], O, Void(e)) = 0

\* They are not behind an answer, which would end its wait.
VoidBefore(e) == ~Follows(Line(e), A, Offers, O, Void(e))

\* An end that has an offer under way has no answer to make after it.
OfferLast(e) == ~Follows(Line(e), O, Current(e), A, Offers)

\* What an end that waits for an answer has, and what it has not.
Waits(e) ==
    /\ local_offer_pending[e] => /\ signaling[e] = "have-local-offer" /\ ~GivenWay(e)
                                 /\ Times(made[e], O, Offers) = 0 /\ Times(events[e], A, Offers) = 0
    /\ creating[e] => signaling[e] = "stable"
    /\ Times(events[e], R, Offers) <= 1
    /\ GivenWay(e) => e = "callee" /\ signaling[e] = "have-local-offer"

\* An end waits for what it has sent.
Pends(e) ==
    ~local_offer_pending[e] =>
        /\ Times(outbox[e], O, Current(e)) = 0 /\ Times(inbox[Other(e)], O, Current(e)) = 0
        /\ Times(events[Other(e)], O, Current(e)) = 0
        /\ Times(made[Other(e)], A, Offers) = 0
        /\ Times(outbox[Other(e)], {"answer"}, Offers) = 0
        /\ Times(inbox[e], {"answer"}, Offers) = 0

\* Offers are counted as they are asked for.
NotYet(e) == {x \in Offers : x.by = e => x.n > offers[e] \/ (x.n = offers[e] /\ creating[e])}
Counted(e) == Times(Line(e), O, NotYet(e)) = 0

\* Before it is answered the caller has nothing to do with descriptions.
Unanswered(e) ==
    state[e] = "Dialing" => /\ made[e] = <<>> /\ events[e] = <<>>
                            /\ ~creating[e] /\ ~local_offer_pending[e]

Orderly == faults \cap {"unanswered", "overtaken"} = {}

BargainOf(e) ==
    /\ Tokens(e) <= 1 /\ ForCurrent(e)
    /\ VoidIgnored(e) /\ VoidBefore(e) /\ OfferLast(e)
    /\ Waits(e) /\ Pends(e)

Bargained  == ~mismatched /\ \A e \in Ends : BargainOf(e)
BargainInv == Orderly => Bargained

-------------------------------------------------------------------------------
(* What is on its way from an end, after one step of its life.              *)

Items == Messages \cup Tidings \cup Made
Kinds == {O, A}

\* Nothing more is in t than in s, and in no other order.
Fewer(t, s) ==
    \A T, U \in Kinds : \A W, V \in SUBSET Offers :
        /\ Times(t, T, W) <= Times(s, T, W)
        /\ Follows(t, T, W, U, V) => Follows(s, T, W, U, V)

LEMMA TimesNat ==
    /\ \A s, T, W : Times(s, T, W) \in 0..2
    /\ \A s, T, W : Times(s, T, W) \in Nat
    /\ O \in Kinds /\ A \in Kinds
  <1>1. \A s, T, W : Times(s, T, W) \in {0, 1, 2}
    BY TimesIs
  <1> QED
    BY <1>1 DEF Kinds

LEMMA FewerReflexive == \A s : Fewer(s, s)
  BY TimesNat DEF Fewer

LEMMA FewerConcat ==
    ASSUME NEW s \in Seq(Items), NEW t \in Seq(Items), NEW a \in Seq(Items), NEW b \in Seq(Items),
           Fewer(a, s), Fewer(b, t)
    PROVE  Fewer(a \o b, s \o t)
  <1> SUFFICES ASSUME NEW T \in Kinds, NEW U \in Kinds,
                      NEW W \in SUBSET Offers, NEW V \in SUBSET Offers
               PROVE  /\ Times(a \o b, T, W) <= Times(s \o t, T, W)
                      /\ Follows(a \o b, T, W, U, V) => Follows(s \o t, T, W, U, V)
    BY DEF Fewer
  <1>1. /\ Times(a, T, W) <= Times(s, T, W) /\ Times(b, T, W) <= Times(t, T, W)
        /\ Times(a, U, V) <= Times(s, U, V) /\ Times(b, U, V) <= Times(t, U, V)
        /\ Follows(a, T, W, U, V) => Follows(s, T, W, U, V)
        /\ Follows(b, T, W, U, V) => Follows(t, T, W, U, V)
    BY DEF Fewer
  <1>2. /\ Times(a, T, W) \in 0..2 /\ Times(s, T, W) \in 0..2
        /\ Times(b, T, W) \in 0..2 /\ Times(t, T, W) \in 0..2
        /\ Times(a, U, V) \in 0..2 /\ Times(s, U, V) \in 0..2
        /\ Times(b, U, V) \in 0..2 /\ Times(t, U, V) \in 0..2
    BY TimesNat
  <1>3. /\ Times(a \o b, T, W) = IF Times(a, T, W) = 0 THEN Times(b, T, W)
                                 ELSE IF Times(b, T, W) = 0 THEN Times(a, T, W) ELSE 2
        /\ Times(s \o t, T, W) = IF Times(s, T, W) = 0 THEN Times(t, T, W)
                                 ELSE IF Times(t, T, W) = 0 THEN Times(s, T, W) ELSE 2
    BY ConcatTimes
  <1>4. /\ Follows(a \o b, T, W, U, V) <=>
              \/ Follows(a, T, W, U, V) \/ Follows(b, T, W, U, V)
              \/ Times(a, T, W) > 0 /\ Times(b, U, V) > 0
        /\ Follows(s \o t, T, W, U, V) <=>
              \/ Follows(s, T, W, U, V) \/ Follows(t, T, W, U, V)
              \/ Times(s, T, W) > 0 /\ Times(t, U, V) > 0
    BY ConcatFollows
  <1> QED
    BY <1>1, <1>2, <1>3, <1>4

LEMMA HeadFirst ==
    ASSUME NEW S, NEW s \in Seq(S), s # <<>>
    PROVE  /\ s = <<Head(s)>> \o Tail(s) /\ Tail(s) \in Seq(S) /\ Head(s) \in S
           /\ <<Head(s)>> \in Seq(S)
  <1>1. /\ Head(s) \in S /\ Tail(s) \in Seq(S) /\ Len(Tail(s)) = Len(s) - 1
        /\ \A i \in 1..Len(Tail(s)) : Tail(s)[i] = s[i + 1]
        /\ Len(s) \in Nat /\ Len(s) # 0 /\ Head(s) = s[1]
    BY HeadTailProperties, LenProperties, EmptySeq
  <1> DEFINE h == <<Head(s)>>
             t == Tail(s)
             n == Len(s)
  <1>2. h \in Seq(S) /\ Len(h) = 1 /\ h[1] = Head(s)
    BY <1>1
  <1>3. /\ h \o t \in Seq(S) /\ Len(h \o t) = Len(h) + Len(t)
        /\ \A i \in 1..Len(h) + Len(t) : (h \o t)[i] = IF i <= Len(h) THEN h[i] ELSE t[i - Len(h)]
    BY <1>1, <1>2, ConcatProperties
  <1>4. n \in Nat /\ n # 0 /\ Len(t) = n - 1 /\ Len(h) = 1
        /\ h[1] = s[1] /\ \A i \in 1..n - 1 : t[i] = s[i + 1]
    BY <1>1, <1>2
  <1> DEFINE u == h \o t
  <1>5. u \in Seq(S) /\ Len(u) = 1 + (n - 1)
        /\ \A i \in 1..1 + (n - 1) : u[i] = IF i <= 1 THEN h[i] ELSE t[i - 1]
    BY <1>3, <1>4
  <1> HIDE DEF h, t, n, u
  <1>6. Len(u) = n /\ \A i \in 1..n : u[i] = s[i]
    <2>1. 1 + (n - 1) = n
      BY <1>4
    <2>2. ASSUME NEW i \in 1..n PROVE u[i] = s[i]
      <3>1. CASE i = 1
        BY <1>4, <1>5, <2>1, <3>1
      <3>2. CASE i # 1
        <4>1. i - 1 \in 1..n - 1 /\ i - 1 + 1 = i /\ ~(i <= 1)
          BY <1>4, <3>2
        <4> QED
          BY <1>4, <1>5, <2>1, <4>1
      <3> QED
        BY <3>1, <3>2
    <2> QED
      BY <1>5, <2>1, <2>2
  <1>7. Len(u) = Len(s) /\ \A i \in 1..Len(s) : u[i] = s[i]
    BY <1>6 DEF n
  <1>8. s = u
    BY <1>5, <1>7, SeqEqual
  <1> QED
    BY <1>1, <1>2, <1>8 DEF h, t, u

LEMMA AppendedIsConcat ==
    ASSUME NEW S, NEW s \in Seq(S), NEW x \in S
    PROVE  Append(s, x) = s \o <<x>> /\ <<x>> \in Seq(S)
  OBVIOUS

LEMMA TimesOfOne ==
    ASSUME NEW x, NEW T, NEW W, NEW U, NEW V
    PROVE  /\ Times(<<x>>, T, W) = IF Fits(x, T, W) THEN 1 ELSE 0
           /\ ~Follows(<<x>>, T, W, U, V)
  <1>1. DOMAIN <<x>> = {1} /\ <<x>>[1] = x
    BY LenProperties
  <1>2. {i \in DOMAIN <<x>> : Fits(<<x>>[i], T, W)} = IF Fits(x, T, W) THEN {1} ELSE {}
    BY <1>1
  <1>3. ~(1 < 1)
    OBVIOUS
  <1> QED
    BY <1>1, <1>2, <1>3 DEF Times, Follows

\* One element becomes another of its kinds, or none.
LEMMA FewerOne ==
    ASSUME NEW x, NEW y, \A T \in Kinds : y.type \in T => x.type \in T, x.of = y.of
    PROVE  Fewer(<<y>>, <<x>>) /\ Fewer(<<>>, <<x>>)
  <1> SUFFICES ASSUME NEW T \in Kinds, NEW U \in Kinds,
                      NEW W \in SUBSET Offers, NEW V \in SUBSET Offers
               PROVE  /\ Times(<<y>>, T, W) <= Times(<<x>>, T, W)
                      /\ Times(<<>>, T, W) <= Times(<<x>>, T, W)
                      /\ ~Follows(<<y>>, T, W, U, V) /\ ~Follows(<<>>, T, W, U, V)
    BY DEF Fewer
  <1>1. Fits(y, T, W) => Fits(x, T, W)
    BY DEF Fits
  <1>2. /\ Times(<<x>>, T, W) = IF Fits(x, T, W) THEN 1 ELSE 0
        /\ Times(<<y>>, T, W) = IF Fits(y, T, W) THEN 1 ELSE 0
        /\ ~Follows(<<y>>, T, W, U, V)
    BY TimesOfOne
  <1>3. Times(<<>>, T, W) = 0 /\ ~Follows(<<>>, T, W, U, V)
    BY EmptyTimes
  <1> QED
    BY <1>1, <1>2, <1>3

\* What is neither an offer nor an answer does not count.
LEMMA FewerNone ==
    ASSUME NEW x, \A T \in Kinds : x.type \notin T
    PROVE  Fewer(<<x>>, <<>>) /\ \A T \in Kinds : \A W : Times(<<x>>, T, W) = 0
  <1>1. \A T \in Kinds : \A W : ~Fits(x, T, W)
    BY DEF Fits
  <1> QED
    BY <1>1, TimesOfOne, EmptyTimes DEF Fewer

LEMMA FewerRemoved ==
    ASSUME NEW s \in Seq(Items), NEW k \in DOMAIN s
    PROVE  Fewer(RemoveAt(s, k), s)
  BY RemoveTimes, RemoveFollows DEF Fewer

LEMMA FewerTail ==
    ASSUME NEW s \in Seq(Items), s # <<>>
    PROVE  Fewer(Tail(s), s)
  BY TailTimes, TailFollows DEF Fewer

LEMMA FewerTransitive ==
    ASSUME NEW s, NEW t, NEW u, Fewer(t, s), Fewer(u, t)
    PROVE  Fewer(u, s)
  <1> SUFFICES ASSUME NEW T \in Kinds, NEW U \in Kinds,
                      NEW W \in SUBSET Offers, NEW V \in SUBSET Offers
               PROVE  /\ Times(u, T, W) <= Times(s, T, W)
                      /\ Follows(u, T, W, U, V) => Follows(s, T, W, U, V)
    BY DEF Fewer
  <1>1. /\ Times(u, T, W) <= Times(t, T, W) /\ Times(t, T, W) <= Times(s, T, W)
        /\ Follows(u, T, W, U, V) => Follows(s, T, W, U, V)
    BY DEF Fewer
  <1>2. Times(u, T, W) \in Nat /\ Times(t, T, W) \in Nat /\ Times(s, T, W) \in Nat
    BY TimesNat
  <1> QED
    BY <1>1, <1>2

(* The first of one sequence moves, as something else or not at all, to the *)
(* end of the one before it.                                                *)
LEMMA FewerMoved ==
    ASSUME NEW s \in Seq(Items), NEW k \in Seq(Items), NEW t \in Seq(Items), t # <<>>,
           NEW u \in Seq(Items)
    PROVE  /\ Fewer(k, <<Head(t)>>) => Fewer((s \o k) \o (Tail(t) \o u), s \o (t \o u))
           /\ Fewer(<<Head(t)>>, k) => Fewer(s \o (t \o u), (s \o k) \o (Tail(t) \o u))
  <1> DEFINE h == <<Head(t)>>
             q == Tail(t)
  <1>1. h \in Seq(Items) /\ q \in Seq(Items) /\ t = h \o q
    BY HeadFirst
  <1> HIDE DEF h, q
  <1>2. q \o u \in Seq(Items)
    BY <1>1, ConcatProperties
  <1>3. t \o u = h \o (q \o u)
    BY SMTT(30), <1>1, ConcatAssociative
  <1>4. (s \o k) \o (q \o u) = s \o (k \o (q \o u))
    <2>1. \A r \in Seq(Items) : (s \o k) \o r = s \o (k \o r)
      BY SMTT(30), ConcatAssociative
    <2> QED
      BY <1>2, <2>1
  <1>5. k \o (q \o u) \in Seq(Items) /\ h \o (q \o u) \in Seq(Items)
    BY <1>1, <1>2, ConcatProperties
  <1>6. ASSUME Fewer(k, h) PROVE Fewer((s \o k) \o (q \o u), s \o (t \o u))
    <2>1. Fewer(k \o (q \o u), h \o (q \o u))
      BY <1>1, <1>2, <1>6, FewerConcat, FewerReflexive
    <2>2. Fewer(s \o (k \o (q \o u)), s \o (h \o (q \o u)))
      BY <1>5, <2>1, FewerConcat, FewerReflexive
    <2> QED
      BY <1>3, <1>4, <2>2
  <1>7. ASSUME Fewer(h, k) PROVE Fewer(s \o (t \o u), (s \o k) \o (q \o u))
    <2>1. Fewer(h \o (q \o u), k \o (q \o u))
      BY <1>1, <1>2, <1>7, FewerConcat, FewerReflexive
    <2>2. Fewer(s \o (h \o (q \o u)), s \o (k \o (q \o u)))
      BY <1>5, <2>1, FewerConcat, FewerReflexive
    <2> QED
      BY <1>3, <1>4, <2>2
  <1> QED
    BY <1>6, <1>7 DEF h, q

LEMMA FewerOfFour ==
    ASSUME NEW a \in Seq(Items), NEW b \in Seq(Items), NEW c \in Seq(Items), NEW d \in Seq(Items),
           NEW s \in Seq(Items), NEW t \in Seq(Items), NEW u \in Seq(Items), NEW v \in Seq(Items),
           Fewer(a, s), Fewer(b, t), Fewer(c, u), Fewer(d, v)
    PROVE  Fewer(a \o (b \o (c \o d)), s \o (t \o (u \o v)))
  <1>1. c \o d \in Seq(Items) /\ u \o v \in Seq(Items)
    BY ConcatProperties
  <1>2. Fewer(c \o d, u \o v)
    BY FewerConcat
  <1>3. b \o (c \o d) \in Seq(Items) /\ t \o (u \o v) \in Seq(Items)
    BY <1>1, ConcatProperties
  <1>4. Fewer(b \o (c \o d), t \o (u \o v))
    BY <1>1, <1>2, FewerConcat
  <1> QED
    BY <1>3, <1>4, FewerConcat

LEMMA PartTypes ==
    ASSUME TInv, NEW e \in Ends
    PROVE  /\ outbox[e] \in Seq(Items) /\ inbox[e] \in Seq(Items)
           /\ events[e] \in Seq(Items) /\ made[e] \in Seq(Items)
           /\ Other(e) \in Ends /\ Line(e) \in Seq(Items)
  <1>1. \A f \in Ends : /\ outbox[f] \in Seq(Messages) /\ inbox[f] \in Seq(Messages)
                        /\ events[f] \in Seq(Tidings) /\ made[f] \in Seq(Made)
    BY DEF TInv
  <1>2. Messages \subseteq Items /\ Tidings \subseteq Items /\ Made \subseteq Items
    BY DEF Items
  <1>3. Other(e) \in Ends
    BY TheEnds
  <1>4. \A f \in Ends : /\ outbox[f] \in Seq(Items) /\ inbox[f] \in Seq(Items)
                        /\ events[f] \in Seq(Items) /\ made[f] \in Seq(Items)
    BY <1>1, <1>2, SeqMonotonic
  <1>5. outbox[e] \o made[e] \in Seq(Items)
    BY <1>4, ConcatProperties
  <1>6. inbox[Other(e)] \o (outbox[e] \o made[e]) \in Seq(Items)
    BY <1>3, <1>4, <1>5, ConcatProperties
  <1> QED
    BY <1>3, <1>4, <1>6, ConcatProperties DEF Line

LEMMA PartTypesNext ==
    ASSUME TInv', NEW e \in Ends
    PROVE  /\ outbox'[e] \in Seq(Items) /\ inbox'[e] \in Seq(Items)
           /\ events'[e] \in Seq(Items) /\ made'[e] \in Seq(Items)
  <1>1. /\ outbox'[e] \in Seq(Messages) /\ inbox'[e] \in Seq(Messages)
        /\ events'[e] \in Seq(Tidings) /\ made'[e] \in Seq(Made)
    BY DEF TInv
  <1>2. Messages \subseteq Items /\ Tidings \subseteq Items /\ Made \subseteq Items
    BY DEF Items
  <1> QED
    BY <1>1, <1>2, SeqMonotonic

LEMMA LineTimes ==
    ASSUME TInv, NEW e \in Ends, NEW T, NEW W
    PROVE  LET a == Times(events[Other(e)], T, W)
               b == Times(inbox[Other(e)], T, W)
               c == Times(outbox[e], T, W)
               d == Times(made[e], T, W)
           IN  /\ Times(Line(e), T, W) = 0 <=> a = 0 /\ b = 0 /\ c = 0 /\ d = 0
               /\ Times(Line(e), T, W) <= 1 => Times(Line(e), T, W) = a + b + c + d
  <1> DEFINE a == Times(events[Other(e)], T, W)
             b == Times(inbox[Other(e)], T, W)
             c == Times(outbox[e], T, W)
             d == Times(made[e], T, W)
             cd == Times(outbox[e] \o made[e], T, W)
             bcd == Times(inbox[Other(e)] \o (outbox[e] \o made[e]), T, W)
             all == Times(Line(e), T, W)
  <1>1. /\ events[Other(e)] \in Seq(Items) /\ inbox[Other(e)] \in Seq(Items)
        /\ outbox[e] \in Seq(Items) /\ made[e] \in Seq(Items)
    BY PartTypes
  <1>2. outbox[e] \o made[e] \in Seq(Items)
    BY <1>1, ConcatProperties
  <1>3. inbox[Other(e)] \o (outbox[e] \o made[e]) \in Seq(Items)
    BY <1>1, <1>2, ConcatProperties
  <1>4. cd = IF c = 0 THEN d ELSE IF d = 0 THEN c ELSE 2
    BY <1>1, ConcatTimes
  <1>5. bcd = IF b = 0 THEN cd ELSE IF cd = 0 THEN b ELSE 2
    BY <1>1, <1>2, ConcatTimes
  <1>6. all = IF a = 0 THEN bcd ELSE IF bcd = 0 THEN a ELSE 2
    BY <1>1, <1>3, ConcatTimes DEF Line
  <1>7. a \in 0..2 /\ b \in 0..2 /\ c \in 0..2 /\ d \in 0..2
    BY TimesNat
  <1> HIDE DEF a, b, c, d, cd, bcd, all
  <1>8. /\ all = 0 <=> a = 0 /\ b = 0 /\ c = 0 /\ d = 0
        /\ all <= 1 => all = a + b + c + d
    BY <1>4, <1>5, <1>6, <1>7
  <1> QED
    BY <1>8 DEF a, b, c, d, all

(* What does not come after the first that was told, or the first that is   *)
(* to be handled.                                                           *)
LEMMA LineFollows ==
    ASSUME TInv, NEW e \in Ends, NEW T, NEW W, NEW U, NEW V,
           ~Follows(Line(e), T, W, U, V)
    PROVE  /\ events[Other(e)] # <<>> /\ Fits(Head(events[Other(e)]), T, W) =>
                 /\ Times(Tail(events[Other(e)]), U, V) = 0 /\ Times(inbox[Other(e)], U, V) = 0
                 /\ Times(outbox[e], U, V) = 0 /\ Times(made[e], U, V) = 0
           /\ inbox[Other(e)] # <<>> /\ Fits(Head(inbox[Other(e)]), T, W) =>
                 /\ Times(Tail(inbox[Other(e)]), U, V) = 0
                 /\ Times(outbox[e], U, V) = 0 /\ Times(made[e], U, V) = 0
  <1> DEFINE v == events[Other(e)]
             i == inbox[Other(e)]
             om == outbox[e] \o made[e]
             iom == i \o om
  <1>1. /\ v \in Seq(Items) /\ i \in Seq(Items)
        /\ outbox[e] \in Seq(Items) /\ made[e] \in Seq(Items)
    BY PartTypes
  <1>2. om \in Seq(Items)
    BY <1>1, ConcatProperties
  <1>3. iom \in Seq(Items)
    BY <1>1, <1>2, ConcatProperties
  <1>4. \A q : Times(q, T, W) > 0 <=> Times(q, T, W) # 0
    BY TimesNat
  <1>5. \A q : Times(q, U, V) > 0 <=> Times(q, U, V) # 0
    BY TimesNat
  <1>6. /\ Times(om, U, V) = 0 => Times(outbox[e], U, V) = 0 /\ Times(made[e], U, V) = 0
        /\ Times(iom, U, V) = 0 => Times(i, U, V) = 0 /\ Times(om, U, V) = 0
    <2>1. Times(om, U, V) = IF Times(outbox[e], U, V) = 0 THEN Times(made[e], U, V)
                            ELSE IF Times(made[e], U, V) = 0 THEN Times(outbox[e], U, V) ELSE 2
      BY <1>1, ConcatTimes
    <2>2. Times(iom, U, V) = IF Times(i, U, V) = 0 THEN Times(om, U, V)
                             ELSE IF Times(om, U, V) = 0 THEN Times(i, U, V) ELSE 2
      BY <1>1, <1>2, ConcatTimes
    <2> HIDE DEF om, iom, i
    <2> QED
      BY <2>1, <2>2
  <1>7. /\ ~Follows(v, T, W, U, V) /\ ~Follows(iom, T, W, U, V)
        /\ ~(Times(v, T, W) > 0 /\ Times(iom, U, V) > 0)
    BY <1>1, <1>3, ConcatFollows DEF Line
  <1>8. ~Follows(i, T, W, U, V) /\ ~(Times(i, T, W) > 0 /\ Times(om, U, V) > 0)
    BY <1>1, <1>2, <1>7, ConcatFollows
  <1>9. \A q \in Seq(Items) : q # <<>> /\ Fits(Head(q), T, W) /\ ~Follows(q, T, W, U, V) =>
           Times(q, T, W) > 0 /\ Times(Tail(q), U, V) = 0
    <2> SUFFICES ASSUME NEW q \in Seq(Items), q # <<>>, Fits(Head(q), T, W), ~Follows(q, T, W, U, V)
                 PROVE  Times(q, T, W) > 0 /\ Times(Tail(q), U, V) = 0
      OBVIOUS
    <2>1. Times(q, T, W) > 0
      BY TailTimes
    <2>2. ~(Times(Tail(q), U, V) > 0)
      BY TailFollows
    <2> QED
      BY <1>5, <2>1, <2>2
  <1> HIDE DEF v, i, om, iom
  <1>10. ASSUME v # <<>>, Fits(Head(v), T, W)
         PROVE  /\ Times(Tail(v), U, V) = 0 /\ Times(i, U, V) = 0
                /\ Times(outbox[e], U, V) = 0 /\ Times(made[e], U, V) = 0
    BY <1>1, <1>5, <1>6, <1>7, <1>9, <1>10
  <1>11. ASSUME i # <<>>, Fits(Head(i), T, W)
         PROVE  /\ Times(Tail(i), U, V) = 0
                /\ Times(outbox[e], U, V) = 0 /\ Times(made[e], U, V) = 0
    BY <1>1, <1>5, <1>6, <1>8, <1>9, <1>11
  <1> QED
    BY <1>10, <1>11 DEF v, i

LEMMA CurrentIs ==
    ASSUME TInv, NEW e \in Ends
    PROVE  /\ Current(e) \in SUBSET Offers /\ Void(e) \in SUBSET Offers /\ Offers \in SUBSET Offers
           /\ local[e] \in Offers /\ session[e] \in Offers
           /\ Current(e) = {} \/ (Current(e) = {local[e]} /\ signaling[e] = "have-local-offer"
                                     /\ ~GivenWay(e))
           /\ signaling[e] = "stable" <=> local[e] = NoOffer
           /\ signaling[e] # "stable" <=> signaling[e] = "have-local-offer"
  BY DEF TInv, TypeOK, Current, Void

(* Where no more is on its way the bargain of it is kept.                    *)
LEMMA LineKept ==
    ASSUME TInv, NEW e \in Ends, Tokens(e) <= 1, VoidBefore(e), OfferLast(e),
           Times(Line(Other(e)), A, Void(e)) = 0,
           Fewer(Line(e)', Line(e)), Fewer(Line(Other(e))', Line(Other(e))),
           Current(e)' = Current(e)
    PROVE  /\ Tokens(e)' <= 1 /\ VoidBefore(e)' /\ OfferLast(e)'
           /\ Times(Line(Other(e))', A, Void(e)) = 0
           /\ Times(Line(e), O, Void(e)) = 0 => Times(Line(e)', O, Void(e)) = 0
           /\ Tokens(e)' <= Tokens(e) /\ Answers(e)' <= Answers(e)
           /\ Void(e)' = Void(e)
  <1>1. /\ Current(e) \in SUBSET Offers /\ Void(e) \in SUBSET Offers /\ Offers \in SUBSET Offers
        /\ Void(e)' = Void(e)
    BY CurrentIs DEF Void
  <1> DEFINE c == Current(e)
             w == Void(e)
             p == Line(e)
             q == Line(Other(e))
             pp == Line(e)'
             qq == Line(Other(e))'
  <1>2. /\ Times(pp, O, c) <= Times(p, O, c) /\ Times(qq, A, c) <= Times(q, A, c)
        /\ Times(qq, A, w) <= Times(q, A, w) /\ Times(pp, O, w) <= Times(p, O, w)
        /\ Follows(pp, A, Offers, O, w) => Follows(p, A, Offers, O, w)
        /\ Follows(pp, O, c, A, Offers) => Follows(p, O, c, A, Offers)
    BY <1>1, TimesNat DEF Fewer
  <1>3. Tokens(e) = Times(p, O, c) + Times(q, A, c) /\ Answers(e) = Times(q, A, c)
    BY DEF Tokens, Answers
  <1>4. Tokens(e)' = Times(pp, O, c) + Times(qq, A, c) /\ Answers(e)' = Times(qq, A, c)
    BY DEF Tokens, Answers
  <1>5. ~Follows(p, A, Offers, O, w) /\ ~Follows(p, O, c, A, Offers)
    BY DEF VoidBefore, OfferLast
  <1>6. VoidBefore(e)' /\ OfferLast(e)'
    <2>1. ~Follows(pp, A, Offers, O, Void(e)') /\ ~Follows(pp, O, Current(e)', A, Offers)
      BY <1>1, <1>2, <1>5
    <2> QED
      BY <2>1 DEF VoidBefore, OfferLast
  <1>7. /\ Times(p, O, c) \in Nat /\ Times(q, A, c) \in Nat /\ Times(q, A, w) \in Nat
        /\ Times(pp, O, c) \in Nat /\ Times(qq, A, c) \in Nat /\ Times(qq, A, w) \in Nat
        /\ Times(p, O, w) \in Nat /\ Times(pp, O, w) \in Nat
    BY TimesNat
  <1> HIDE DEF c, w, p, q, pp, qq
  <1>8. /\ Times(pp, O, c) + Times(qq, A, c) <= Times(p, O, c) + Times(q, A, c)
        /\ Times(p, O, c) + Times(q, A, c) <= 1 => Times(pp, O, c) + Times(qq, A, c) <= 1
        /\ Times(q, A, w) = 0 => Times(qq, A, w) = 0
        /\ Times(p, O, w) = 0 => Times(pp, O, w) = 0
    BY <1>2, <1>7
  <1>9. Tokens(e) <= 1 /\ Times(q, A, w) = 0
    BY DEF q, w
  <1>10. Tokens(e)' <= 1 /\ Tokens(e)' <= Tokens(e) /\ Answers(e)' <= Answers(e)
    BY <1>2, <1>3, <1>4, <1>8, <1>9
  <1>11. /\ Times(Line(Other(e))', A, Void(e)) = 0
         /\ Times(Line(e), O, Void(e)) = 0 => Times(Line(e)', O, Void(e)) = 0
    BY <1>8, <1>9 DEF p, q, w, pp, qq
  <1> QED
    BY <1>1, <1>6, <1>10, <1>11

LEMMA ItemsConcat ==
    /\ \A s, t \in Seq(Items) : s \o t \in Seq(Items)
    /\ \A r, s, t \in Seq(Items) : (r \o s) \o t = r \o (s \o t)
  BY ConcatProperties, ConcatAssociative

LEMMA DeliverLines ==
    ASSUME TInv, NEW e \in Ends, outbox[e] # <<>>,
           outbox' = [outbox EXCEPT ![e] = Tail(@)],
           inbox' = [inbox EXCEPT ![Other(e)] = Append(@, Head(outbox[e]))],
           UNCHANGED <<events, made>>
    PROVE  \A f \in Ends : Line(f)' = Line(f)
  <1> DEFINE x == Head(outbox[e])
             i == inbox[Other(e)]
             q == Tail(outbox[e])
             m == made[e]
  <1>1. /\ outbox \in [Ends -> Seq(Messages)] /\ inbox \in [Ends -> Seq(Messages)]
        /\ Other(e) \in Ends /\ Other(e) # e /\ Other(Other(e)) = e
        /\ Ends = {e, Other(e)}
    BY TheEnds DEF TInv, Ends
  <1>2. outbox[e] \in Seq(Items) /\ i \in Seq(Items) /\ m \in Seq(Items)
    BY <1>1, PartTypes
  <1>3. /\ outbox[e] = <<x>> \o q /\ q \in Seq(Items) /\ x \in Items /\ <<x>> \in Seq(Items)
        /\ Append(i, x) = i \o <<x>>
    <2>1. /\ outbox[e] = <<x>> \o q /\ q \in Seq(Items) /\ x \in Items /\ <<x>> \in Seq(Items)
      BY <1>2, HeadFirst
    <2>2. Append(i, x) = i \o <<x>>
      BY <1>2, <2>1, AppendedIsConcat
    <2> QED
      BY <2>1, <2>2
  <1>4. outbox'[e] = q /\ inbox'[Other(e)] = i \o <<x>>
    BY <1>1, <1>3
  <1>5. (i \o <<x>>) \o (q \o m) = i \o ((<<x>> \o q) \o m)
    <2> HIDE DEF x, i, q, m
    <2> QED
      BY SMTT(30), <1>2, <1>3, ItemsConcat
  <1>6. Line(e)' = Line(e)
    BY <1>3, <1>4, <1>5 DEF Line
  <1>7. Line(Other(e))' = Line(Other(e))
    BY <1>1 DEF Line
  <1> QED
    BY <1>1, <1>6, <1>7

LEMMA ToldLines ==
    ASSUME TInv, NEW e \in Ends, NEW k \in Seq(Tidings), inbox[e] # <<>>,
           inbox' = [inbox EXCEPT ![e] = Tail(@)], events' = [events EXCEPT ![e] = @ \o k],
           UNCHANGED <<outbox, made>>
    PROVE  /\ Fewer(k, <<Head(inbox[e])>>) => Fewer(Line(Other(e))', Line(Other(e)))
           /\ Fewer(<<Head(inbox[e])>>, k) => Fewer(Line(Other(e)), Line(Other(e))')
           /\ Line(e)' = Line(e)
  <1>1. /\ inbox \in [Ends -> Seq(Messages)] /\ events \in [Ends -> Seq(Tidings)]
        /\ Other(e) \in Ends /\ Other(e) # e /\ Other(Other(e)) = e
    BY TheEnds DEF TInv
  <1>2. /\ outbox[Other(e)] \in Seq(Items) /\ made[Other(e)] \in Seq(Items)
        /\ inbox[e] \in Seq(Items) /\ events[e] \in Seq(Items)
    BY <1>1, PartTypes
  <1>3. k \in Seq(Items)
    <2>1. Tidings \subseteq Items
      BY DEF Items
    <2> QED
      BY <2>1, SeqMonotonic
  <1>4. outbox[Other(e)] \o made[Other(e)] \in Seq(Items)
    BY <1>2, ConcatProperties
  <1>5. inbox'[e] = Tail(inbox[e]) /\ events'[e] = events[e] \o k
    BY <1>1
  <1>6. Line(Other(e))' = (events[e] \o k) \o (Tail(inbox[e]) \o (outbox[Other(e)] \o made[Other(e)]))
    BY <1>1, <1>5 DEF Line
  <1>7. Line(Other(e)) = events[e] \o (inbox[e] \o (outbox[Other(e)] \o made[Other(e)]))
    BY <1>1 DEF Line
  <1>8. Line(e)' = Line(e)
    BY <1>1 DEF Line
  <1> QED
    BY ZenonT(60), <1>2, <1>3, <1>4, <1>6, <1>7, <1>8, FewerMoved

LEMMA SentLines ==
    ASSUME TInv, NEW e \in Ends, NEW k \in Seq(Messages), made[e] # <<>>,
           made' = [made EXCEPT ![e] = Tail(@)], outbox' = [outbox EXCEPT ![e] = @ \o k],
           UNCHANGED <<inbox, events>>
    PROVE  /\ Fewer(k, <<Head(made[e])>>) => Fewer(Line(e)', Line(e))
           /\ Fewer(<<Head(made[e])>>, k) => Fewer(Line(e), Line(e)')
           /\ Line(Other(e))' = Line(Other(e))
  <1> DEFINE v == events[Other(e)]
             i == inbox[Other(e)]
  <1>1. /\ outbox \in [Ends -> Seq(Messages)] /\ made \in [Ends -> Seq(Made)]
        /\ Other(e) \in Ends /\ Other(e) # e /\ Other(Other(e)) = e
    BY TheEnds DEF TInv
  <1>2. v \in Seq(Items) /\ i \in Seq(Items) /\ outbox[e] \in Seq(Items) /\ made[e] \in Seq(Items)
    BY <1>1, PartTypes
  <1>3. k \in Seq(Items)
    <2>1. Messages \subseteq Items
      BY DEF Items
    <2> QED
      BY <2>1, SeqMonotonic
  <1>4. outbox'[e] = outbox[e] \o k /\ made'[e] = Tail(made[e]) /\ Tail(made[e]) \in Seq(Items)
    BY <1>1, <1>2, HeadTailProperties
  <1>5. Line(Other(e))' = Line(Other(e))
    BY <1>1 DEF Line
  <1> DEFINE old == outbox[e] \o made[e]
             new == (outbox[e] \o k) \o Tail(made[e])
  <1>6. Line(e) = v \o (i \o old) /\ Line(e)' = v \o (i \o new)
    BY <1>4 DEF Line
  <1>7. /\ Fewer(k, <<Head(made[e])>>) => Fewer(new, old)
        /\ Fewer(<<Head(made[e])>>, k) => Fewer(old, new)
    <2>1. /\ Tail(made[e]) \o <<>> = Tail(made[e]) /\ made[e] \o <<>> = made[e]
          /\ <<>> \in Seq(Items)
      BY <1>2, <1>4, ConcatEmptySeq, EmptySeq
    <2>2. /\ Fewer(k, <<Head(made[e])>>) =>
                Fewer((outbox[e] \o k) \o (Tail(made[e]) \o <<>>), outbox[e] \o (made[e] \o <<>>))
          /\ Fewer(<<Head(made[e])>>, k) =>
                Fewer(outbox[e] \o (made[e] \o <<>>), (outbox[e] \o k) \o (Tail(made[e]) \o <<>>))
      BY <1>2, <1>3, <2>1, FewerMoved
    <2> QED
      BY <2>1, <2>2
  <1>8. old \in Seq(Items) /\ new \in Seq(Items)
    <2>1. outbox[e] \o k \in Seq(Items)
      BY <1>2, <1>3, ConcatProperties
    <2> QED
      BY <1>2, <1>4, <2>1, ConcatProperties
  <1> HIDE DEF v, i, old, new
  <1>9. i \o old \in Seq(Items) /\ i \o new \in Seq(Items)
    BY <1>2, <1>8, ConcatProperties
  <1>10. ASSUME Fewer(new, old) PROVE Fewer(Line(e)', Line(e))
    <2>1. Fewer(i \o new, i \o old)
      BY <1>2, <1>8, <1>10, FewerConcat, FewerReflexive
    <2>2. Fewer(v \o (i \o new), v \o (i \o old))
      BY <1>2, <1>9, <2>1, FewerConcat, FewerReflexive
    <2> QED
      BY <1>6, <2>2
  <1>11. ASSUME Fewer(old, new) PROVE Fewer(Line(e), Line(e)')
    <2>1. Fewer(i \o old, i \o new)
      BY <1>2, <1>8, <1>11, FewerConcat, FewerReflexive
    <2>2. Fewer(v \o (i \o old), v \o (i \o new))
      BY <1>2, <1>9, <2>1, FewerConcat, FewerReflexive
    <2> QED
      BY <1>6, <2>2
  <1> QED
    BY <1>5, <1>7, <1>10, <1>11

(* An event that carries no description is given to a task.                 *)
LEMMA SaidLines ==
    ASSUME TInv, TInv', NEW e \in Ends, NEW of, NEW type \in {"metadata", "hangup"},
           Send(e, type, of)
    PROVE  /\ Fewer(outbox'[e], outbox[e]) /\ Fewer(outbox[e], outbox'[e])
           /\ outbox'[Other(e)] = outbox[Other(e)]
           /\ \A T \in {O, A, {"answer"}} : \A W :
                 Times(outbox'[e], T, W) = Times(outbox[e], T, W)
  <1> DEFINE m == [type |-> type, of |-> of, muted |-> muted'[e]]
  <1>1. /\ outbox \in [Ends -> Seq(Messages)] /\ outbox[e] \in Seq(Messages)
        /\ Other(e) \in Ends /\ Other(e) # e
    BY TheEnds DEF TInv
  <1>2. outbox' = [outbox EXCEPT ![e] = Append(outbox[e], m)]
    BY DEF Send
  <1>3. \A T \in {O, A, {"answer"}} : m.type \notin T
    BY DEF O, A
  <1>4. \A T \in {O, A, {"answer"}} : \A W : ~Fits(m, T, W)
    BY <1>3 DEF Fits
  <1>5. DOMAIN outbox' = Ends /\ outbox'[e] = Append(outbox[e], m)
        /\ outbox'[Other(e)] = outbox[Other(e)]
    BY <1>1, <1>2
  <1> DEFINE S == Messages \cup {m}
  <1>6. outbox[e] \in Seq(S) /\ m \in S
    BY <1>1, SeqMonotonic
  <1> HIDE DEF S, m
  <1>7. \A T \in {O, A, {"answer"}} : \A W : Times(outbox'[e], T, W) = Times(outbox[e], T, W)
    <2> SUFFICES ASSUME NEW T \in {O, A, {"answer"}}, NEW W
                 PROVE  Times(outbox'[e], T, W) = Times(outbox[e], T, W)
      OBVIOUS
    <2>1. ~Fits(m, T, W)
      BY <1>4
    <2>2. Times(Append(outbox[e], m), T, W) = Times(outbox[e], T, W)
      BY <1>6, <2>1, AppendTimes
    <2> QED
      BY <1>5, <2>2
  <1>8. \A T, U \in Kinds : \A W, V :
           Follows(outbox'[e], T, W, U, V) => Follows(outbox[e], T, W, U, V)
    BY <1>4, <1>5, <1>6, AppendFollows DEF Kinds
  <1>9. \A T, U \in Kinds : \A W, V :
           Follows(outbox[e], T, W, U, V) => Follows(outbox'[e], T, W, U, V)
    <2>1. outbox'[e] = outbox[e] \o <<m>> /\ <<m>> \in Seq(S)
      BY <1>5, <1>6
    <2> QED
      BY <1>6, <2>1, ConcatFollows
  <1>10. Fewer(outbox'[e], outbox[e])
    BY <1>7, <1>8, TimesNat DEF Fewer, Kinds
  <1>11. Fewer(outbox[e], outbox'[e])
    BY <1>7, <1>9, TimesNat DEF Fewer, Kinds
  <1> QED
    BY <1>5, <1>7, <1>10, <1>11

(* Each part of a line by itself.                                           *)
LEMMA PartsLines ==
    ASSUME TInv, TInv', NEW e \in Ends,
           Fewer(events'[Other(e)], events[Other(e)]), Fewer(inbox'[Other(e)], inbox[Other(e)]),
           Fewer(outbox'[e], outbox[e]), Fewer(made'[e], made[e])
    PROVE  Fewer(Line(e)', Line(e))
  <1>1. /\ outbox[e] \in Seq(Items) /\ made[e] \in Seq(Items) /\ Other(e) \in Ends
        /\ inbox[Other(e)] \in Seq(Items) /\ events[Other(e)] \in Seq(Items)
    BY PartTypes
  <1>2. /\ outbox'[e] \in Seq(Items) /\ made'[e] \in Seq(Items)
        /\ inbox'[Other(e)] \in Seq(Items) /\ events'[Other(e)] \in Seq(Items)
    BY <1>1, PartTypesNext
  <1>3. Line(e)' = events'[Other(e)] \o (inbox'[Other(e)] \o (outbox'[e] \o made'[e]))
    BY DEF Line
  <1>4. Line(e) = events[Other(e)] \o (inbox[Other(e)] \o (outbox[e] \o made[e]))
    BY DEF Line
  <1> DEFINE a == events[Other(e)]
             b == inbox[Other(e)]
             c == outbox[e]
             d == made[e]
             aa == events'[Other(e)]
             bb == inbox'[Other(e)]
             cc == outbox'[e]
             dd == made'[e]
  <1>5. /\ a \in Seq(Items) /\ b \in Seq(Items) /\ c \in Seq(Items) /\ d \in Seq(Items)
        /\ aa \in Seq(Items) /\ bb \in Seq(Items) /\ cc \in Seq(Items) /\ dd \in Seq(Items)
        /\ Fewer(aa, a) /\ Fewer(bb, b) /\ Fewer(cc, c) /\ Fewer(dd, d)
    BY <1>1, <1>2
  <1>6. Line(e) = a \o (b \o (c \o d)) /\ Line(e)' = aa \o (bb \o (cc \o dd))
    BY <1>3, <1>4
  <1> HIDE DEF a, b, c, d, aa, bb, cc, dd
  <1>7. Fewer(aa \o (bb \o (cc \o dd)), a \o (b \o (c \o d)))
    BY <1>5, FewerOfFour
  <1> QED
    BY <1>6, <1>7

LEMMA PartsLinesBack ==
    ASSUME TInv, TInv', NEW e \in Ends,
           Fewer(events[Other(e)], events'[Other(e)]), Fewer(inbox[Other(e)], inbox'[Other(e)]),
           Fewer(outbox[e], outbox'[e]), Fewer(made[e], made'[e])
    PROVE  Fewer(Line(e), Line(e)')
  <1>1. /\ outbox[e] \in Seq(Items) /\ made[e] \in Seq(Items) /\ Other(e) \in Ends
        /\ inbox[Other(e)] \in Seq(Items) /\ events[Other(e)] \in Seq(Items)
    BY PartTypes
  <1>2. /\ outbox'[e] \in Seq(Items) /\ made'[e] \in Seq(Items)
        /\ inbox'[Other(e)] \in Seq(Items) /\ events'[Other(e)] \in Seq(Items)
    BY <1>1, PartTypesNext
  <1>3. Line(e)' = events'[Other(e)] \o (inbox'[Other(e)] \o (outbox'[e] \o made'[e]))
    BY DEF Line
  <1>4. Line(e) = events[Other(e)] \o (inbox[Other(e)] \o (outbox[e] \o made[e]))
    BY DEF Line
  <1> DEFINE a == events[Other(e)]
             b == inbox[Other(e)]
             c == outbox[e]
             d == made[e]
             aa == events'[Other(e)]
             bb == inbox'[Other(e)]
             cc == outbox'[e]
             dd == made'[e]
  <1>5. /\ a \in Seq(Items) /\ b \in Seq(Items) /\ c \in Seq(Items) /\ d \in Seq(Items)
        /\ aa \in Seq(Items) /\ bb \in Seq(Items) /\ cc \in Seq(Items) /\ dd \in Seq(Items)
        /\ Fewer(a, aa) /\ Fewer(b, bb) /\ Fewer(c, cc) /\ Fewer(d, dd)
    BY <1>1, <1>2
  <1>6. Line(e) = a \o (b \o (c \o d)) /\ Line(e)' = aa \o (bb \o (cc \o dd))
    BY <1>3, <1>4
  <1> HIDE DEF a, b, c, d, aa, bb, cc, dd
  <1>7. Fewer(a \o (b \o (c \o d)), aa \o (bb \o (cc \o dd)))
    BY <1>5, FewerOfFour
  <1> QED
    BY <1>6, <1>7

(* A description made comes after all that is on its way.                   *)
LEMMA MadeLines ==
    ASSUME TInv, NEW e \in Ends, NEW x \in Made,
           made'[e] = Append(made[e], x), outbox'[e] = outbox[e],
           inbox'[Other(e)] = inbox[Other(e)], events'[Other(e)] = events[Other(e)]
    PROVE  /\ \A T, W : Times(Line(e)', T, W) =
                 IF Fits(x, T, W) THEN IF Times(Line(e), T, W) = 0 THEN 1 ELSE 2
                 ELSE Times(Line(e), T, W)
           /\ \A T, W, U, V : Follows(Line(e)', T, W, U, V) =>
                 Follows(Line(e), T, W, U, V) \/ (Times(Line(e), T, W) > 0 /\ Fits(x, U, V))
  <1> DEFINE v == events[Other(e)]
             i == inbox[Other(e)]
             o == outbox[e]
             m == made[e]
  <1>1. /\ v \in Seq(Items) /\ i \in Seq(Items) /\ o \in Seq(Items) /\ m \in Seq(Items)
        /\ Line(e) \in Seq(Items)
    BY PartTypes
  <1>2. x \in Items /\ <<x>> \in Seq(Items) /\ Append(m, x) = m \o <<x>>
    BY <1>1 DEF Items
  <1>3. Line(e)' = v \o (i \o (o \o (m \o <<x>>)))
    BY <1>2 DEF Line
  <1>4. Line(e) = v \o (i \o (o \o m))
    BY DEF Line
  <1> HIDE DEF v, i, o, m
  <1>5. o \o m \in Seq(Items) /\ o \o (m \o <<x>>) = (o \o m) \o <<x>>
    BY <1>1, <1>2, ItemsConcat
  <1>6. i \o (o \o m) \in Seq(Items) /\ i \o ((o \o m) \o <<x>>) = (i \o (o \o m)) \o <<x>>
    BY SMTT(30), <1>1, <1>2, <1>5, ItemsConcat
  <1>7. v \o ((i \o (o \o m)) \o <<x>>) = (v \o (i \o (o \o m))) \o <<x>>
    BY ZenonT(60), <1>1, <1>2, <1>6, ItemsConcat
  <1>8. Line(e)' = Line(e) \o <<x>>
    BY <1>3, <1>4, <1>5, <1>6, <1>7
  <1>9. Line(e)' = Append(Line(e), x)
    BY <1>1, <1>2, <1>8
  <1> QED
    BY <1>1, <1>2, <1>9, AppendTimes, AppendFollows

\* What handling the message x tells the embedder (k), and what becomes of the wait.
Handles(e, x, k) ==
    /\ events' = [events EXCEPT ![e] = @ \o k]
    /\ k # <<>> => state'[e] # "Dialing"
    /\ \/ /\ k = <<>> /\ local_offer_pending' = local_offer_pending
          /\ faults' = {} /\ state'[e] # "Ended" =>
                \/ x.type = "metadata"
                \/ x.type = "answer" /\ ~local_offer_pending[e]
                \/ x.type = "offer" /\ e = "caller" /\ local_offer_pending[e]
       \/ /\ k = <<[type |-> "answer", of |-> x.of]>>
          /\ \/ /\ x.type = "accept" /\ state[e] = "Dialing"
                /\ local_offer_pending' = local_offer_pending
             \/ /\ x.type = "answer" /\ local_offer_pending[e]
                /\ local_offer_pending' = [local_offer_pending EXCEPT ![e] = FALSE]
       \/ /\ k = <<[type |-> "offer", of |-> x.of]>>
          /\ x.type = "offer" /\ ~local_offer_pending[e]
          /\ local_offer_pending' = local_offer_pending
       \/ /\ k = <<[type |-> "rollback", of |-> NoOffer], [type |-> "offer", of |-> x.of]>>
          /\ x.type = "offer" /\ e = "callee" /\ local_offer_pending[e]
          /\ local_offer_pending' = [local_offer_pending EXCEPT ![e] = FALSE]

LEMMA SignalCases ==
    ASSUME TInv, NEW e \in Ends, HandleSignal(e)
    PROVE  /\ inbox[e] # <<>> /\ Head(inbox[e]) \in Messages
           /\ inbox' = [inbox EXCEPT ![e] = Tail(@)]
           /\ UNCHANGED <<outbox, rtc, bound>>
           /\ \A f \in Ends : f # e => state'[f] = state[f]
           /\ \A f \in Ends : state'[f] = "Dialing" => state[f] = "Dialing"
           /\ \E k \in Seq(Tidings) : Handles(e, Head(inbox[e]), k)
  <1> DEFINE x == Head(inbox[e])
             K(k) == Handles(e, x, k)
             Goal == /\ \A f \in Ends : f # e => state'[f] = state[f]
                     /\ \A f \in Ends : state'[f] = "Dialing" => state[f] = "Dialing"
                     /\ \E k \in Seq(Tidings) : K(k)
  <1>1. /\ inbox[e] # <<>> /\ inbox' = [inbox EXCEPT ![e] = Tail(@)]
        /\ UNCHANGED <<outbox, rtc, bound>>
    BY DEF HandleSignal
  <1>2. x \in Messages
    BY <1>1, HeadTailProperties DEF TInv
  <1>3. x.of \in Offers
    BY <1>2 DEF Messages
  <1> DEFINE none    == <<>>
             answer  == <<[type |-> "answer", of |-> x.of]>>
             offer   == <<[type |-> "offer", of |-> x.of]>>
             instead == <<[type |-> "rollback", of |-> NoOffer], [type |-> "offer", of |-> x.of]>>
  <1>4. /\ none \in Seq(Tidings) /\ answer \in Seq(Tidings) /\ offer \in Seq(Tidings)
        /\ instead \in Seq(Tidings)
    BY <1>3, Descriptions DEF Tidings
  <1>5. /\ state \in [Ends -> {"Dialing", "Connecting", "Connected", "Ended"}]
        /\ local_offer_pending \in [Ends -> BOOLEAN]
        /\ events \in [Ends -> Seq(Tidings)] /\ events[e] \o none = events[e]
    BY ConcatEmptySeq DEF TInv, TypeOK
  <1>6. UNCHANGED events => events' = [events EXCEPT ![e] = @ \o none]
    BY <1>5
  <1>7. e \in {"caller", "callee"} /\ (e = "caller" \/ e = "callee")
    BY DEF Ends
  <1> HIDE DEF x, none, answer, offer, instead
  <1>8. ASSUME state[e] = "Ended" /\ UNCHANGED <<core, events, faults>> PROVE Goal
    <2>1. K(none) /\ state' = state
      BY <1>6, <1>8 DEF Handles, core, none, answer, offer, instead
    <2> QED
      BY <1>4, <2>1
  <1>9. ASSUME HandleAnswer(e, x) PROVE Goal
    <2>1. /\ x.type = "accept" /\ state[e] = "Dialing"
          /\ state' = [state EXCEPT ![e] = "Connecting"]
          /\ events' = [events EXCEPT ![e] = @ \o answer]
          /\ local_offer_pending' = local_offer_pending
      BY <1>9 DEF HandleAnswer, Tell, answer
    <2>2. state'[e] = "Connecting" /\ \A f \in Ends : f # e => state'[f] = state[f]
      BY <1>5, <2>1
    <2>3. K(answer)
      BY <2>1, <2>2 DEF Handles, none, answer, offer, instead
    <2> QED
      BY <1>4, <2>1, <2>2, <2>3
  <1>10. ASSUME HandleNegotiate(e, x) PROVE Goal
    <2>1. /\ state' = state /\ state[e] # "Dialing"
          /\ \/ x.type = "answer" /\ TakeAnswer(e, x)
             \/ x.type = "offer" /\ TakeOffer(e, x)
      BY <1>10 DEF HandleNegotiate, Established
    <2>2. \E k \in Seq(Tidings) : K(k)
      <3>1. CASE x.type = "answer" /\ TakeAnswer(e, x) /\ local_offer_pending[e]
        <4>1. K(answer)
          BY <2>1, <3>1 DEF Handles, TakeAnswer, Tell, none, answer, offer, instead
        <4> QED
          BY <1>4, <4>1
      <3>2. CASE x.type = "answer" /\ TakeAnswer(e, x) /\ ~local_offer_pending[e]
        <4>1. /\ events' = [events EXCEPT ![e] = @ \o none]
              /\ local_offer_pending' = [local_offer_pending EXCEPT ![e] = FALSE]
          BY <3>2 DEF TakeAnswer, Tell, none
        <4>2. local_offer_pending' = local_offer_pending
          BY <1>5, <3>2, <4>1
        <4>3. K(none)
          BY <3>2, <4>1, <4>2 DEF Handles, none, answer, offer, instead
        <4> QED
          BY <1>4, <4>3
      <3>3. CASE x.type = "offer" /\ TakeOffer(e, x) /\ ~local_offer_pending[e]
        <4>1. K(offer)
          BY <2>1, <3>3 DEF Handles, TakeOffer, Tell, none, answer, offer, instead
        <4> QED
          BY <1>4, <4>1
      <3>4. CASE x.type = "offer" /\ TakeOffer(e, x) /\ local_offer_pending[e] /\ e = "caller"
        <4>1. UNCHANGED <<events, local_offer_pending>>
          BY <3>4 DEF TakeOffer
        <4>2. K(none)
          BY <1>6, <3>4, <4>1 DEF Handles, none, answer, offer, instead
        <4> QED
          BY <1>4, <4>2
      <3>5. CASE x.type = "offer" /\ TakeOffer(e, x) /\ local_offer_pending[e] /\ e = "callee"
        <4>1. /\ events' = [events EXCEPT ![e] = @ \o instead]
              /\ local_offer_pending' = [local_offer_pending EXCEPT ![e] = FALSE]
          BY <3>5 DEF TakeOffer, Tell, instead
        <4>2. K(instead)
          BY <2>1, <3>5, <4>1 DEF Handles, none, answer, offer, instead
        <4> QED
          BY <1>4, <4>2
      <3> QED
        BY <1>7, <2>1, <3>1, <3>2, <3>3, <3>4, <3>5
    <2> QED
      BY <2>1, <2>2
  <1>11. ASSUME HandleStreamMetadata(e, x) PROVE Goal
    <2>1. K(none) /\ state' = state
      BY <1>6, <1>11 DEF Handles, HandleStreamMetadata, none, answer, offer, instead
    <2> QED
      BY <1>4, <2>1
  <1>12. ASSUME HandleHangup(e, x) PROVE Goal
    <2>1. state'[e] = "Ended" /\ \A f \in Ends : f # e => state'[f] = state[f]
      BY <1>5, <1>12 DEF HandleHangup
    <2>2. K(none)
      BY <1>6, <1>12, <2>1 DEF Handles, HandleHangup, none, answer, offer, instead
    <2> QED
      BY <1>4, <2>1, <2>2
  <1>13. ASSUME Ignore(e, x) PROVE Goal
    <2>1. UNCHANGED <<core, events>> /\ faults' # {}
      BY <1>13 DEF Ignore
    <2>2. K(none) /\ state' = state
      BY <1>6, <2>1 DEF Handles, core, none, answer, offer, instead
    <2> QED
      BY <1>4, <2>2
  <1>14. Goal
    <2>1. \/ state[e] = "Ended" /\ UNCHANGED <<core, events, faults>>
          \/ HandleAnswer(e, x) \/ HandleNegotiate(e, x)
          \/ HandleStreamMetadata(e, x) \/ HandleHangup(e, x) \/ Ignore(e, x)
      BY DEF HandleSignal, x
    <2> QED
      BY <2>1, <1>8, <1>9, <1>10, <1>11, <1>12, <1>13
  <1> QED
    BY <1>1, <1>2, <1>14, Zenon DEF x

\* What the embedder is told of a message counts for no more than the message.
LEMMA ToldCounts ==
    ASSUME NEW x \in Messages, NEW k \in Seq(Tidings),
           \/ k = <<>>
           \/ k = <<[type |-> "answer", of |-> x.of]>> /\ x.type \in A
           \/ k = <<[type |-> "offer", of |-> x.of]>> /\ x.type = "offer"
           \/ /\ k = <<[type |-> "rollback", of |-> NoOffer], [type |-> "offer", of |-> x.of]>>
              /\ x.type = "offer"
    PROVE  /\ Fewer(k, <<x>>)
           /\ k # <<>> \/ x.type = "metadata" => Fewer(<<x>>, k)
  <1> DEFINE a == [type |-> "answer", of |-> x.of]
             o == [type |-> "offer", of |-> x.of]
             r == [type |-> "rollback", of |-> NoOffer]
  <1>1. /\ \A T \in Kinds : r.type \notin T
        /\ a.of = x.of /\ o.of = x.of
        /\ x.type \in A => \A T \in Kinds : a.type \in T <=> x.type \in T
        /\ x.type = "offer" => \A T \in Kinds : o.type \in T <=> x.type \in T
        /\ x.type = "metadata" => \A T \in Kinds : x.type \notin T
    BY DEF Kinds, O, A
  <1>2. a \in Tidings \/ TRUE
    OBVIOUS
  <1>3. x.of \in Offers
    BY DEF Messages
  <1>4. /\ a \in Items /\ o \in Items /\ r \in Items /\ x \in Items
    BY <1>3, Descriptions DEF Items, Tidings
  <1>5. <<r, o>> = <<r>> \o <<o>> /\ <<o>> = <<>> \o <<o>>
    OBVIOUS
  <1> HIDE DEF a, o, r
  <1>6. CASE k = <<>>
    <2>1. Fewer(<<>>, <<x>>)
      BY FewerOne
    <2>2. x.type = "metadata" => Fewer(<<x>>, <<>>)
      BY <1>1, FewerNone
    <2> QED
      BY <1>6, <2>1, <2>2
  <1>7. CASE k = <<a>> /\ x.type \in A
    BY <1>1, <1>7, FewerOne
  <1>8. CASE k = <<o>> /\ x.type = "offer"
    BY <1>1, <1>8, FewerOne
  <1>9. CASE k = <<r, o>> /\ x.type = "offer"
    <2>1. Fewer(<<o>>, <<x>>) /\ Fewer(<<x>>, <<o>>)
      BY <1>1, <1>9, FewerOne
    <2>2. Fewer(<<r>>, <<>>) /\ Fewer(<<>>, <<r>>)
      <3>1. Fewer(<<r>>, <<>>)
        BY <1>1, FewerNone
      <3>2. Fewer(<<>>, <<r>>)
        BY FewerOne
      <3> QED
        BY <3>1, <3>2
    <2>3. <<r>> \in Seq(Items) /\ <<o>> \in Seq(Items) /\ <<>> \in Seq(Items)
      BY <1>4
    <2>4. Fewer(<<r>> \o <<o>>, <<>> \o <<o>>) /\ Fewer(<<>> \o <<o>>, <<r>> \o <<o>>)
      BY <2>2, <2>3, FewerConcat, FewerReflexive
    <2>5. Fewer(<<r, o>>, <<o>>) /\ Fewer(<<o>>, <<r, o>>)
      BY <1>5, <2>4
    <2> QED
      BY <1>9, <2>1, <2>5, FewerTransitive
  <1> QED
    BY <1>6, <1>7, <1>8, <1>9 DEF a, o, r

-------------------------------------------------------------------------------
(* What holds whatever becomes of the events.                               *)

CountInv == \A e \in Ends : Counted(e) /\ Unanswered(e)

ByParts ==
    \A e \in Ends : Counted(e) <=> /\ Times(events[Other(e)], O, NotYet(e)) = 0
                                   /\ Times(inbox[Other(e)], O, NotYet(e)) = 0
                                   /\ Times(outbox[e], O, NotYet(e)) = 0
                                   /\ Times(made[e], O, NotYet(e)) = 0

LEMMA CountedByParts == TInv => ByParts
  BY LineTimes DEF Counted, ByParts

LEMMA NotYetIs ==
    ASSUME NEW e \in Ends
    PROVE  /\ NotYet(e) \in SUBSET Offers
           /\ UNCHANGED <<offers, creating>> => NotYet(e)' = NotYet(e)
  BY DEF NotYet

LEMMA CountedKept ==
    ASSUME TInv, NEW e \in Ends, Counted(e), Fewer(Line(e)', Line(e)), NotYet(e)' \subseteq NotYet(e)
    PROVE  Counted(e)'
  <1>1. Times(Line(e)', O, NotYet(e)) <= Times(Line(e), O, NotYet(e))
    BY NotYetIs, TimesNat DEF Fewer
  <1>2. Times(Line(e)', O, NotYet(e)') <= Times(Line(e)', O, NotYet(e))
    BY TimesOfFew
  <1>3. Times(Line(e), O, NotYet(e)) = 0
    BY DEF Counted
  <1>4. /\ Times(Line(e)', O, NotYet(e)') \in Nat /\ Times(Line(e)', O, NotYet(e)) \in Nat
    BY TimesNat
  <1>5. Times(Line(e)', O, NotYet(e)') = 0
    BY <1>1, <1>2, <1>3, <1>4
  <1> QED
    BY <1>5 DEF Counted

LEMMA CountedMade ==
    ASSUME TInv, NEW e \in Ends, Counted(e), NEW x \in Made,
           made'[e] = Append(made[e], x), outbox'[e] = outbox[e],
           inbox'[Other(e)] = inbox[Other(e)], events'[Other(e)] = events[Other(e)],
           NotYet(e)' \subseteq NotYet(e), ~Fits(x, O, NotYet(e)')
    PROVE  Counted(e)'
  <1>1. Times(Line(e)', O, NotYet(e)') = Times(Line(e), O, NotYet(e)')
    BY MadeLines
  <1>2. Times(Line(e), O, NotYet(e)') <= Times(Line(e), O, NotYet(e))
    BY TimesOfFew
  <1>3. Times(Line(e), O, NotYet(e)) = 0
    BY DEF Counted
  <1>4. Times(Line(e), O, NotYet(e)') \in Nat
    BY TimesNat
  <1>5. Times(Line(e)', O, NotYet(e)') = 0
    BY <1>1, <1>2, <1>3, <1>4
  <1> QED
    BY <1>5 DEF Counted

LEMMA DeliverCounts ==
    ASSUME TInv, TInv', CountInv, NEW e \in Ends, Deliver(e)
    PROVE  \A f \in Ends : Counted(f)'
  <1>1. PICK i \in DOMAIN outbox[e] :
           /\ outbox' = [outbox EXCEPT ![e] = RemoveAt(@, i)]
           /\ inbox' = [inbox EXCEPT ![Other(e)] = Append(@, outbox[e][i])]
           /\ UNCHANGED <<core, events, rtc, bound>>
    BY DEF Deliver
  <1> DEFINE W == NotYet(e)
             x == outbox[e][i]
  <1>2. /\ outbox \in [Ends -> Seq(Messages)] /\ inbox \in [Ends -> Seq(Messages)]
        /\ Other(e) \in Ends /\ Other(e) # e /\ Other(Other(e)) = e /\ Ends = {e, Other(e)}
        /\ events' = events /\ made' = made /\ offers' = offers /\ creating' = creating
    BY <1>1, TheEnds DEF TInv, Ends, rtc, bound
  <1>3. x \in Messages
    BY <1>2, Removed
  <1>4. /\ Times(events[Other(e)], O, W) = 0 /\ Times(inbox[Other(e)], O, W) = 0
        /\ Times(outbox[e], O, W) = 0 /\ Times(made[e], O, W) = 0
    BY CountedByParts DEF CountInv, ByParts
  <1>5. ~Fits(x, O, W)
    BY <1>4, TimesIs
  <1>6. Times(outbox'[e], O, W) = 0
    <2>1. Times(RemoveAt(outbox[e], i), O, W) = Times(outbox[e], O, W)
      BY <1>2, <1>5, RemoveTimes
    <2> QED
      BY <1>1, <1>2, <1>4, <2>1
  <1>7. Times(inbox'[Other(e)], O, W) = 0
    <2>1. Times(Append(inbox[Other(e)], x), O, W) = Times(inbox[Other(e)], O, W)
      BY <1>2, <1>3, <1>5, AppendTimes
    <2> QED
      BY <1>1, <1>2, <1>4, <2>1
  <1>8. NotYet(e)' = NotYet(e) /\ NotYet(Other(e))' = NotYet(Other(e))
    BY <1>2, NotYetIs
  <1>9. Counted(e)'
    <2>1. /\ Times(events'[Other(e)], O, NotYet(e)') = 0 /\ Times(inbox'[Other(e)], O, NotYet(e)') = 0
          /\ Times(outbox'[e], O, NotYet(e)') = 0 /\ Times(made'[e], O, NotYet(e)') = 0
      BY <1>2, <1>4, <1>6, <1>7, <1>8
    <2>2. TInv' => ByParts'
      BY CountedByParts, PTL
    <2> QED
      BY <2>1, <2>2 DEF ByParts
  <1>10. Counted(Other(e))'
    <2>1. Line(Other(e))' = Line(Other(e))
      BY <1>1, <1>2 DEF Line
    <2> QED
      BY <1>2, <1>8, <2>1 DEF Counted, CountInv
  <1> QED
    BY <1>2, <1>9, <1>10

LEMMA SignalLines ==
    ASSUME TInv, TInv', NEW e \in Ends, HandleSignal(e)
    PROVE  Fewer(Line(Other(e))', Line(Other(e))) /\ Line(e)' = Line(e)
  <1> DEFINE x == Head(inbox[e])
  <1>1. /\ inbox[e] # <<>> /\ x \in Messages /\ inbox' = [inbox EXCEPT ![e] = Tail(@)]
        /\ UNCHANGED <<outbox, made>>
    BY SignalCases DEF rtc
  <1>2. PICK k \in Seq(Tidings) : Handles(e, x, k)
    BY SignalCases
  <1>3. events' = [events EXCEPT ![e] = @ \o k]
    BY <1>2 DEF Handles
  <1>4. Fewer(k, <<x>>)
    BY <1>1, <1>2, ToldCounts DEF Handles, A
  <1> QED
    BY <1>1, <1>3, <1>4, ToldLines

LEMMA SaidOnlyLines ==
    ASSUME TInv, TInv', NEW e \in Ends, NEW of, NEW type \in {"metadata", "hangup"},
           Send(e, type, of) \/ UNCHANGED outbox, UNCHANGED <<inbox, made>>,
           \A f \in Ends : Fewer(events'[f], events[f])
    PROVE  \A f \in Ends : Fewer(Line(f)', Line(f))
  <1>1. \A f \in Ends : f = e \/ f = Other(e)
    BY TheEnds DEF Ends
  <1>2. \A f \in Ends : Fewer(outbox'[f], outbox[f])
    <2>1. CASE UNCHANGED outbox
      BY <2>1, FewerReflexive
    <2>2. CASE Send(e, type, of)
      <3>1. Fewer(outbox'[e], outbox[e]) /\ outbox'[Other(e)] = outbox[Other(e)]
        BY <2>2, SaidLines
      <3> QED
        BY <1>1, <3>1, FewerReflexive
    <2> QED
      BY <2>1, <2>2
  <1>3. \A f \in Ends : Fewer(inbox'[f], inbox[f]) /\ Fewer(made'[f], made[f])
    BY FewerReflexive
  <1>4. ASSUME NEW f \in Ends PROVE Fewer(Line(f)', Line(f))
    <2>1. Other(f) \in Ends
      BY TheEnds
    <2> QED
      BY <1>2, <1>3, <2>1, PartsLines
  <1> QED
    BY <1>4

LEMMA LoseLines ==
    ASSUME TInv, TInv', NEW e \in Ends, Lose(e)
    PROVE  \A f \in Ends : Fewer(Line(f)', Line(f))
  <1>1. PICK i \in DOMAIN outbox[e] :
           /\ outbox' = [outbox EXCEPT ![e] = RemoveAt(@, i)]
           /\ UNCHANGED <<inbox, events, made>>
    BY DEF Lose, rtc
  <1>2. \A f \in Ends : Fewer(outbox'[f], outbox[f])
    <2>1. outbox \in [Ends -> Seq(Messages)] /\ outbox[e] \in Seq(Items)
      BY PartTypes DEF TInv
    <2>2. Fewer(RemoveAt(outbox[e], i), outbox[e])
      BY <2>1, FewerRemoved
    <2> QED
      BY <1>1, <2>1, <2>2, FewerReflexive
  <1>3. \A f \in Ends : Fewer(inbox'[f], inbox[f]) /\ Fewer(made'[f], made[f])
                        /\ Fewer(events'[f], events[f])
    BY <1>1, FewerReflexive
  <1>4. ASSUME NEW f \in Ends PROVE Fewer(Line(f)', Line(f))
    <2>1. Other(f) \in Ends
      BY TheEnds
    <2> QED
      BY <1>2, <1>3, <2>1, PartsLines
  <1> QED
    BY <1>4

\* Call::send_negotiate of the first description made.
SendsOn(e) ==
    LET d == Head(made[e])
    IN  \/ /\ outbox' = [outbox EXCEPT ![e] = @ \o <<>>]
           /\ local_offer_pending' = local_offer_pending
           /\ ~Established(e) \/ (d.type = "offer" /\ local_offer_pending[e])
        \/ /\ Established(e) /\ ~(d.type = "offer" /\ local_offer_pending[e])
           /\ outbox' = [outbox EXCEPT ![e] =
                             @ \o <<[type |-> d.type, of |-> d.of, muted |-> muted'[e]]>>]
           /\ local_offer_pending' = [local_offer_pending EXCEPT ![e] = @ \/ d.type = "offer"]

LEMMA SendCases ==
    ASSUME TInv, TInv', NEW e \in Ends, SendNegotiate(e)
    PROVE  /\ made[e] # <<>> /\ Head(made[e]) \in Made /\ made' = [made EXCEPT ![e] = Tail(@)]
           /\ UNCHANGED <<state, inbox, events, creating, signaling, local, session, mismatched,
                          bound, faults>>
           /\ SendsOn(e)
           /\ [type |-> Head(made[e]).type, of |-> Head(made[e]).of, muted |-> muted'[e]] \in Messages
  <1> DEFINE d == Head(made[e])
             m == [type |-> d.type, of |-> d.of, muted |-> muted'[e]]
  <1>1. /\ made[e] # <<>> /\ made' = [made EXCEPT ![e] = Tail(@)]
        /\ UNCHANGED <<state, inbox, events, creating, signaling, local, session, mismatched,
                       bound, faults>>
    BY DEF SendNegotiate
  <1>2. /\ outbox \in [Ends -> Seq(Messages)] /\ made[e] \in Seq(Made)
        /\ muted' \in [Ends -> BOOLEAN]
    BY DEF TInv, TypeOK
  <1>3. d \in Made
    BY <1>1, <1>2, HeadTailProperties
  <1>4. m \in Messages
    BY <1>2, <1>3 DEF Made, Messages
  <1>5. outbox[e] \o <<>> = outbox[e] /\ Append(outbox[e], m) = outbox[e] \o <<m>>
    <2> HIDE DEF m
    <2>1. outbox[e] \in Seq(Messages)
      BY <1>2
    <2>2. outbox[e] \o <<>> = outbox[e]
      BY <2>1, ConcatEmptySeq
    <2> QED
      BY <1>4, <2>1, <2>2, AppendedIsConcat
  <1>6. SendsOn(e)
    <2>1. CASE ~Established(e) \/ (d.type = "offer" /\ local_offer_pending[e])
      <3>1. UNCHANGED <<local_offer_pending, outbox>>
        BY <2>1 DEF SendNegotiate
      <3>2. outbox' = [outbox EXCEPT ![e] = @ \o <<>>]
        BY <1>2, <1>5, <3>1
      <3> QED
        BY <2>1, <3>1, <3>2 DEF SendsOn
    <2>2. CASE ~(~Established(e) \/ (d.type = "offer" /\ local_offer_pending[e]))
      <3>1. /\ Send(e, d.type, d.of)
            /\ local_offer_pending' = [local_offer_pending EXCEPT ![e] = @ \/ d.type = "offer"]
        BY <2>2 DEF SendNegotiate
      <3>2. outbox' = [outbox EXCEPT ![e] = @ \o <<m>>]
        BY <1>5, <3>1 DEF Send
      <3> QED
        BY <2>2, <3>1, <3>2 DEF SendsOn
    <2> QED
      BY <2>1, <2>2
  <1> QED
    BY <1>1, <1>3, <1>4, <1>6

LEMMA SendNegotiateLines ==
    ASSUME TInv, TInv', NEW e \in Ends, SendNegotiate(e)
    PROVE  /\ Fewer(Line(e)', Line(e)) /\ Line(Other(e))' = Line(Other(e))
           /\ outbox' # outbox => Fewer(Line(e), Line(e)')
  <1> DEFINE d == Head(made[e])
             m == [type |-> d.type, of |-> d.of, muted |-> muted'[e]]
  <1>1. /\ made[e] # <<>> /\ d \in Made /\ m \in Messages /\ SendsOn(e)
        /\ made' = [made EXCEPT ![e] = Tail(@)] /\ UNCHANGED <<inbox, events>>
    BY SendCases
  <1>2. /\ <<>> \in Seq(Messages) /\ <<m>> \in Seq(Messages) /\ m.type = d.type /\ m.of = d.of
        /\ outbox \in [Ends -> Seq(Messages)] /\ outbox[e] \o <<>> = outbox[e]
    BY <1>1, ConcatEmptySeq DEF TInv
  <1> HIDE DEF m, d
  <1>3. Fewer(<<>>, <<d>>) /\ Fewer(<<m>>, <<d>>) /\ Fewer(<<d>>, <<m>>)
    BY <1>2, FewerOne
  <1>4. \/ outbox' = [outbox EXCEPT ![e] = @ \o <<>>]
        \/ outbox' = [outbox EXCEPT ![e] = @ \o <<m>>]
    BY <1>1 DEF SendsOn, m, d
  <1>5. CASE outbox' = [outbox EXCEPT ![e] = @ \o <<>>]
    <2>1. outbox' = outbox
      BY <1>2, <1>5
    <2> QED
      BY <1>1, <1>2, <1>3, <1>5, <2>1, SentLines DEF d
  <1>6. CASE outbox' = [outbox EXCEPT ![e] = @ \o <<m>>]
    BY <1>1, <1>2, <1>3, <1>6, SentLines DEF d
  <1> QED
    BY <1>4, <1>5, <1>6

LEMMA TailLines ==
    ASSUME TInv, NEW e \in Ends, events[e] # <<>>, events' = [events EXCEPT ![e] = Tail(@)]
    PROVE  /\ \A f \in Ends : Fewer(events'[f], events[f])
           /\ events'[e] = Tail(events[e]) /\ events'[Other(e)] = events[Other(e)]
           /\ Head(events[e]) \in Tidings /\ Head(events[e]).of \in Offers
           /\ events[e] \in Seq(Items)
  <1>1. events \in [Ends -> Seq(Tidings)] /\ events[e] \in Seq(Items) /\ Other(e) \in Ends
        /\ Other(e) # e
    BY PartTypes, TheEnds DEF TInv
  <1>2. Fewer(Tail(events[e]), events[e])
    BY <1>1, FewerTail
  <1>3. Head(events[e]) \in Tidings
    BY <1>1, HeadTailProperties
  <1>4. Head(events[e]).of \in Offers
    BY <1>3 DEF Tidings
  <1> QED
    BY <1>1, <1>2, <1>3, <1>4, FewerReflexive

LEMMA EventLines ==
    ASSUME TInv, TInv', NEW e \in Ends, HandleCallEvent(e)
    PROVE  \/ \A f \in Ends : Fewer(Line(f)', Line(f))
           \/ /\ AnswerOffer(e, Head(events[e]).of) /\ signaling[e] = "stable"
              /\ Head(events[e]).type = "offer" /\ Fewer(Line(Other(e))', Line(Other(e)))
  <1> DEFINE x == Head(events[e])
  <1>1. /\ events[e] # <<>> /\ events' = [events EXCEPT ![e] = Tail(@)]
        /\ inbox' = inbox
        /\ \/ x.type = "answer" /\ ApplyAnswer(e, x.of)
           \/ x.type = "rollback" /\ RollBack(e)
           \/ x.type = "offer" /\ AnswerOffer(e, x.of)
    BY DEF HandleCallEvent
  <1>2. \A f \in Ends : Fewer(events'[f], events[f])
    BY <1>1, TailLines
  <1>3. ASSUME UNCHANGED <<outbox, made>> PROVE \A f \in Ends : Fewer(Line(f)', Line(f))
    BY <1>1, <1>2, <1>3, SaidOnlyLines
  <1>4. CASE ApplyAnswer(e, x.of) \/ RollBack(e)
    BY <1>3, <1>4 DEF ApplyAnswer, RollBack
  <1>5. CASE AnswerOffer(e, x.of) /\ signaling[e] # "stable"
    <2>1. Send(e, "hangup", NoOffer) /\ made' = made
      BY <1>5 DEF AnswerOffer, HangUpFailed
    <2> QED
      BY <1>1, <1>2, <2>1, SaidOnlyLines
  <1>6. CASE x.type = "offer" /\ AnswerOffer(e, x.of) /\ signaling[e] = "stable"
    <2>1. outbox' = outbox /\ made' = [made EXCEPT ![e] = Append(@, [type |-> "answer", of |-> x.of])]
      BY <1>6 DEF AnswerOffer
    <2>2. Other(e) \in Ends /\ Other(e) # e /\ made'[Other(e)] = made[Other(e)]
          /\ Other(Other(e)) = e
      BY <2>1, TheEnds DEF TInv
    <2>3. Fewer(Line(Other(e))', Line(Other(e)))
      <3>1. /\ Fewer(events'[e], events[e]) /\ Fewer(inbox'[e], inbox[e])
            /\ Fewer(outbox'[Other(e)], outbox[Other(e)])
            /\ Fewer(made'[Other(e)], made[Other(e)])
        BY <1>1, <1>2, <2>1, <2>2, FewerReflexive
      <3> QED
        BY <2>2, <3>1, PartsLines
    <2> QED
      BY <1>6, <2>3
  <1> QED
    BY <1>1, <1>4, <1>5, <1>6

LEMMA StepCounted ==
    ASSUME TInv, TInv', CountInv, [Next]_vars
    PROVE  \A f \in Ends : Counted(f)'
  <1>1. \A f \in Ends : Counted(f)
    BY DEF CountInv
  <1>2. ASSUME \A f \in Ends : Fewer(Line(f)', Line(f)), UNCHANGED <<offers, creating>>
        PROVE  \A f \in Ends : Counted(f)'
    <2>1. \A f \in Ends : NotYet(f)' \subseteq NotYet(f)
      BY <1>2, NotYetIs
    <2> QED
      BY <1>1, <1>2, <2>1, CountedKept
  <1>3. ASSUME UNCHANGED <<outbox, inbox, events, made>>
        PROVE  \A f \in Ends : Line(f)' = Line(f) /\ Fewer(Line(f)', Line(f))
    BY <1>3, FewerReflexive DEF Line
  <1>4. \A e \in Ends : Ends = {e, Other(e)} /\ Other(e) \in Ends /\ Other(Other(e)) = e
                        /\ Other(e) # e
    BY TheEnds DEF Ends
  <1>5. CASE UNCHANGED vars
    BY <1>2, <1>3, <1>5 DEF vars, wire, rtc, bound
  <1>6. ASSUME NEW e \in Ends, Deliver(e) PROVE \A f \in Ends : Counted(f)'
    BY <1>6, DeliverCounts
  <1>7. ASSUME NEW e \in Ends, Lose(e) PROVE \A f \in Ends : Counted(f)'
    BY <1>2, <1>7, LoseLines DEF Lose, rtc, bound
  <1>8. ASSUME NEW e \in Ends, HandleSignal(e) PROVE \A f \in Ends : Counted(f)'
    <2>1. \A f \in Ends : Fewer(Line(f)', Line(f))
      BY <1>4, <1>8, SignalLines, FewerReflexive
    <2> QED
      BY <1>2, <1>8, <2>1 DEF HandleSignal, rtc, bound
  <1>9. ASSUME NEW e \in Ends, HandleCallEvent(e) PROVE \A f \in Ends : Counted(f)'
    <2> DEFINE x == Head(events[e])
    <2>1. UNCHANGED <<inbox, creating, offers>>
      BY <1>9 DEF HandleCallEvent, bound
    <2>2. CASE \A f \in Ends : Fewer(Line(f)', Line(f))
      BY <1>2, <2>1, <2>2
    <2>3. CASE /\ AnswerOffer(e, x.of) /\ signaling[e] = "stable"
               /\ Fewer(Line(Other(e))', Line(Other(e)))
      <3> DEFINE y == [type |-> "answer", of |-> x.of]
      <3>1. x.of \in Offers /\ events'[Other(e)] = events[Other(e)]
        BY <1>9, TailLines DEF HandleCallEvent
      <3>2. y \in Made /\ ~Fits(y, O, NotYet(e)')
        BY <3>1 DEF Made, Fits, O
      <3> HIDE DEF x
      <3>3. outbox' = outbox /\ made' = [made EXCEPT ![e] = Append(@, y)]
        BY <2>3 DEF AnswerOffer
      <3> HIDE DEF y
      <3>4. made'[e] = Append(made[e], y)
        BY <3>3 DEF TInv
      <3>5. \A f \in Ends : NotYet(f)' \subseteq NotYet(f)
        BY <2>1, NotYetIs
      <3>6. Counted(e)'
        BY <1>1, <2>1, <3>1, <3>2, <3>3, <3>4, <3>5, CountedMade
      <3>7. Counted(Other(e))'
        BY <1>1, <1>4, <2>3, <3>5, CountedKept
      <3> QED
        BY <1>4, <3>6, <3>7
    <2> QED
      BY <1>9, <2>2, <2>3, EventLines
  <1>10. ASSUME NEW e \in Ends, SetMuted(e) \/ NoteConnected(e) PROVE \A f \in Ends : Counted(f)'
    <2>1. /\ Send(e, "metadata", NoOffer) \/ UNCHANGED outbox
          /\ UNCHANGED <<inbox, events, made, offers, creating>>
      BY <1>10 DEF SetMuted, NoteConnected, rtc, bound
    <2>2. \A f \in Ends : Fewer(events'[f], events[f])
      BY <2>1, FewerReflexive
    <2> QED
      BY <1>2, <2>1, <2>2, SaidOnlyLines
  <1>11. ASSUME NEW e \in Ends, Arm(e) \/ TimeOut(e) PROVE \A f \in Ends : Counted(f)'
    BY <1>2, <1>3, <1>11 DEF Arm, TimeOut, wire, rtc, bound
  <1>12. ASSUME NEW e \in Ends, BeginOffer(e) PROVE \A f \in Ends : Counted(f)'
    <2>1. /\ UNCHANGED <<outbox, inbox, events, made>>
          /\ offers' = [offers EXCEPT ![e] = @ + 1] /\ creating' = [creating EXCEPT ![e] = TRUE]
          /\ offers \in [Ends -> Nat] /\ creating \in [Ends -> BOOLEAN]
      BY <1>12 DEF BeginOffer, wire, TInv, TypeOK
    <2>2. \A f \in Ends : NotYet(f)' \subseteq NotYet(f)
      <3> SUFFICES ASSUME NEW f \in Ends, NEW x \in Offers, x \in NotYet(f)' PROVE x \in NotYet(f)
        BY DEF NotYet
      <3>1. x.n \in Nat
        BY DEF Offers
      <3> QED
        BY <2>1, <3>1 DEF NotYet
    <2> QED
      BY <1>1, <1>3, <2>1, <2>2, CountedKept
  <1>13. ASSUME NEW e \in Ends, CreateOffer(e) PROVE \A f \in Ends : Counted(f)'
    <2> DEFINE offer == [by |-> e, n |-> offers[e]]
               y == [type |-> "offer", of |-> offer]
    <2>1. /\ UNCHANGED <<outbox, inbox, events, offers>>
          /\ creating' = [creating EXCEPT ![e] = FALSE]
          /\ made' = [made EXCEPT ![e] = Append(@, y)]
          /\ offers \in [Ends -> Nat] /\ creating \in [Ends -> BOOLEAN] /\ creating[e]
      BY <1>13 DEF CreateOffer, wire, bound, TInv, TypeOK
    <2>2. offer \in Offers /\ offer.by = e /\ offer.n = offers[e]
      BY <2>1 DEF Offers
    <2>3. y \in Made /\ y.of = offer
      BY <2>2 DEF Made
    <2> HIDE DEF offer, y
    <2>4. \A f \in Ends : NotYet(f)' \subseteq NotYet(f)
      <3> SUFFICES ASSUME NEW f \in Ends, NEW x \in Offers, x \in NotYet(f)' PROVE x \in NotYet(f)
        BY DEF NotYet
      <3>1. x.n \in Nat
        BY DEF Offers
      <3> QED
        BY <2>1, <3>1 DEF NotYet
    <2>5. ~Fits(y, O, NotYet(e)')
      <3>1. offer \notin NotYet(e)'
        <4>1. offers'[e] = offer.n /\ ~creating'[e] /\ offer.n \in Nat
          BY <2>1, <2>2
        <4> QED
          BY <2>2, <4>1 DEF NotYet
      <3> QED
        BY <2>3, <3>1 DEF Fits
    <2>6. made'[e] = Append(made[e], y) /\ made'[Other(e)] = made[Other(e)]
      BY <1>4, <2>1 DEF TInv
    <2>7. Counted(e)'
      BY <1>1, <2>1, <2>3, <2>4, <2>5, <2>6, CountedMade
    <2>8. Counted(Other(e))'
      <3>1. Line(Other(e))' = Line(Other(e))
        BY <1>4, <2>1, <2>6 DEF Line
      <3> QED
        BY <1>1, <1>4, <2>4, <3>1, CountedKept, FewerReflexive
    <2> QED
      BY <1>4, <2>7, <2>8
  <1>14. ASSUME NEW e \in Ends, SendNegotiate(e) PROVE \A f \in Ends : Counted(f)'
    <2>1. \A f \in Ends : Fewer(Line(f)', Line(f))
      BY <1>4, <1>14, SendNegotiateLines, FewerReflexive
    <2> QED
      BY <1>2, <1>14, <2>1 DEF SendNegotiate, bound
  <1> QED
    BY <1>5, <1>6, <1>7, <1>8, <1>9, <1>10, <1>11, <1>12, <1>13, <1>14 DEF Next

LEMMA StepUnanswered ==
    ASSUME TInv, TInv', CountInv, [Next]_vars
    PROVE  \A f \in Ends : Unanswered(f)'
  <1>1. \A f \in Ends : state[f] = "Dialing" => /\ made[f] = <<>> /\ events[f] = <<>>
                                                /\ ~creating[f] /\ ~local_offer_pending[f]
    BY DEF CountInv, Unanswered
  <1>2. ASSUME NEW f \in Ends, state'[f] = "Dialing" => state[f] = "Dialing",
               made'[f] = made[f], events'[f] = events[f], creating'[f] = creating[f],
               local_offer_pending'[f] = local_offer_pending[f]
        PROVE  Unanswered(f)'
    BY <1>1, <1>2 DEF Unanswered
  <1>3. /\ state \in [Ends -> {"Dialing", "Connecting", "Connected", "Ended"}]
        /\ made \in [Ends -> Seq(Made)] /\ events \in [Ends -> Seq(Tidings)]
        /\ creating \in [Ends -> BOOLEAN] /\ local_offer_pending \in [Ends -> BOOLEAN]
    BY DEF TInv, TypeOK
  <1>4. CASE UNCHANGED vars
    BY <1>2, <1>4 DEF vars, core, rtc
  <1>5. ASSUME NEW e \in Ends, Deliver(e) \/ Lose(e) PROVE \A f \in Ends : Unanswered(f)'
    BY <1>2, <1>5 DEF Deliver, Lose, core, rtc
  <1>6. ASSUME NEW e \in Ends, HandleSignal(e) PROVE \A f \in Ends : Unanswered(f)'
    <2>1. /\ UNCHANGED <<made, creating>>
          /\ \A f \in Ends : f # e => state'[f] = state[f]
          /\ \A f \in Ends : state'[f] = "Dialing" => state[f] = "Dialing"
      BY <1>6, SignalCases DEF rtc
    <2>2. PICK k \in Seq(Tidings) : Handles(e, Head(inbox[e]), k)
      BY <1>6, SignalCases
    <2>3. /\ events' = [events EXCEPT ![e] = @ \o k]
          /\ k # <<>> => state'[e] # "Dialing"
          /\ \/ local_offer_pending' = local_offer_pending
             \/ local_offer_pending' = [local_offer_pending EXCEPT ![e] = FALSE]
      BY <2>2 DEF Handles
    <2>4. CASE k = <<>>
      <3>1. events' = events
        BY <1>3, <2>3, <2>4, ConcatEmptySeq
      <3>2. \A f \in Ends : local_offer_pending'[f] => local_offer_pending[f]
        BY <1>3, <2>3
      <3> QED
        BY <1>1, <2>1, <3>1, <3>2 DEF Unanswered
    <2>5. CASE k # <<>>
      <3>1. Unanswered(e)'
        BY <2>3, <2>5 DEF Unanswered
      <3>2. ASSUME NEW f \in Ends, f # e PROVE Unanswered(f)'
        BY <1>2, <1>3, <2>1, <2>3, <3>2
      <3> QED
        BY <3>1, <3>2
    <2> QED
      BY <2>4, <2>5
  <1>7. ASSUME NEW e \in Ends, HandleCallEvent(e) PROVE \A f \in Ends : Unanswered(f)'
    <2>1. /\ state[e] # "Dialing" /\ UNCHANGED creating
          /\ events' = [events EXCEPT ![e] = Tail(@)]
          /\ local_offer_pending' = local_offer_pending
          /\ state' = state \/ state' = [state EXCEPT ![e] = "Ended"]
          /\ made' = made \/ \E y : made' = [made EXCEPT ![e] = y]
      BY <1>1, <1>7 DEF HandleCallEvent, ApplyAnswer, RollBack, AnswerOffer, HangUpFailed, core
    <2>2. Unanswered(e)'
      BY <1>3, <2>1 DEF Unanswered
    <2>3. ASSUME NEW f \in Ends, f # e PROVE Unanswered(f)'
      <3>1. /\ state'[f] = state[f] /\ made'[f] = made[f] /\ events'[f] = events[f]
            /\ creating'[f] = creating[f] /\ local_offer_pending'[f] = local_offer_pending[f]
        BY <1>3, <2>1, <2>3
      <3> QED
        BY <1>2, <3>1
    <2> QED
      BY <2>2, <2>3
  <1>8. ASSUME NEW e \in Ends, SetMuted(e) \/ Arm(e) PROVE \A f \in Ends : Unanswered(f)'
    BY <1>2, <1>8 DEF SetMuted, Arm, rtc
  <1>9. ASSUME NEW e \in Ends, NoteConnected(e) PROVE \A f \in Ends : Unanswered(f)'
    <2>1. \A f \in Ends : state'[f] = "Dialing" => state[f] = "Dialing"
      BY <1>3, <1>9 DEF NoteConnected
    <2> QED
      BY <1>2, <1>9, <2>1 DEF NoteConnected, rtc
  <1>10. ASSUME NEW e \in Ends, TimeOut(e) PROVE \A f \in Ends : Unanswered(f)'
    <2>1. /\ UNCHANGED <<state, made, events, creating>>
          /\ \A f \in Ends : local_offer_pending'[f] => local_offer_pending[f]
      BY <1>3, <1>10 DEF TimeOut, rtc
    <2> QED
      BY <1>1, <2>1 DEF Unanswered
  <1>11. ASSUME NEW e \in Ends, BeginOffer(e) PROVE \A f \in Ends : Unanswered(f)'
    <2>1. /\ UNCHANGED <<state, made, events, local_offer_pending>> /\ state[e] # "Dialing"
          /\ \A f \in Ends : f # e => creating'[f] = creating[f]
      BY <1>3, <1>11 DEF BeginOffer, core
    <2> QED
      BY <1>1, <2>1 DEF Unanswered
  <1>12. ASSUME NEW e \in Ends, CreateOffer(e) PROVE \A f \in Ends : Unanswered(f)'
    <2>1. /\ UNCHANGED <<state, events, local_offer_pending>> /\ state[e] # "Dialing"
          /\ \A f \in Ends : f # e => made'[f] = made[f] /\ creating'[f] = creating[f]
      BY <1>1, <1>3, <1>12 DEF CreateOffer, core
    <2> QED
      BY <1>1, <2>1 DEF Unanswered
  <1>13. ASSUME NEW e \in Ends, SendNegotiate(e) PROVE \A f \in Ends : Unanswered(f)'
    <2>1. /\ UNCHANGED <<state, events, creating>> /\ made[e] # <<>>
          /\ made' = [made EXCEPT ![e] = Tail(@)]
          /\ \A f \in Ends : f # e => local_offer_pending'[f] = local_offer_pending[f]
      BY <1>3, <1>13 DEF SendNegotiate
    <2>2. state[e] # "Dialing" /\ \A f \in Ends : f # e => made'[f] = made[f]
      BY <1>1, <1>3, <2>1
    <2> QED
      BY <1>1, <2>1, <2>2 DEF Unanswered
  <1> QED
    BY <1>4, <1>5, <1>6, <1>7, <1>8, <1>9, <1>10, <1>11, <1>12, <1>13 DEF Next

LEMMA StepCounts == TInv /\ TInv' /\ CountInv /\ [Next]_vars => CountInv'
  BY StepCounted, StepUnanswered DEF CountInv

-------------------------------------------------------------------------------
(* What holds as long as no offer has gone unanswered for its lifetime and  *)
(* no event has overtaken another.                                          *)

LEMMA FaultsGrow == [Next]_vars => faults \subseteq faults'
  BY ZenonT(60) DEF Next, vars, core, bound, Deliver, Lose, HandleSignal, HandleAnswer, HandleNegotiate,
         HandleStreamMetadata, HandleHangup, Ignore, HandleCallEvent, SetMuted,
         NoteConnected, BeginOffer, CreateOffer, SendNegotiate, Arm, TimeOut

LEMMA OrderlyBefore == [Next]_vars /\ Orderly' => Orderly
  BY FaultsGrow DEF Orderly

LEMMA LinesKept ==
    ASSUME TInv, Bargained, \A f \in Ends : Fewer(Line(f)', Line(f)),
           \A f \in Ends : Current(f)' = Current(f)
    PROVE  \A f \in Ends :
              /\ Tokens(f)' <= 1 /\ VoidBefore(f)' /\ OfferLast(f)' /\ Void(f)' = Void(f)
              /\ Times(Line(Other(f))', A, Void(f)) = 0
              /\ f = "caller" => Times(Line(f)', O, Void(f)) = 0
  <1> SUFFICES ASSUME NEW f \in Ends
               PROVE  /\ Tokens(f)' <= 1 /\ VoidBefore(f)' /\ OfferLast(f)' /\ Void(f)' = Void(f)
                      /\ Times(Line(Other(f))', A, Void(f)) = 0
                      /\ f = "caller" => Times(Line(f)', O, Void(f)) = 0
    OBVIOUS
  <1>1. /\ Tokens(f) <= 1 /\ VoidBefore(f) /\ OfferLast(f)
        /\ Times(Line(Other(f)), A, Void(f)) = 0
        /\ f = "caller" => Times(Line(f), O, Void(f)) = 0
    BY DEF Bargained, BargainOf, ForCurrent
  <1>2. Other(f) \in Ends
    BY TheEnds
  <1> QED
    BY <1>1, <1>2, LineKept

(* Nothing but what is on its way changes, and nothing comes to be there.    *)
LEMMA QuietKept ==
    ASSUME TInv, TInv', Bargained,
           UNCHANGED <<local, local_offer_pending, signaling, creating, mismatched>>,
           \A f \in Ends : Fewer(Line(f)', Line(f)),
           \A f \in Ends : \A T \in {O, {"answer"}} : \A W \in SUBSET Offers :
              Times(outbox[f], T, W) = 0 /\ Times(inbox[Other(f)], T, W) = 0 =>
                 Times(outbox'[f], T, W) = 0 /\ Times(inbox'[Other(f)], T, W) = 0,
           \A f \in Ends : \A T \in {O, A} : \A W \in SUBSET Offers :
              /\ Times(made[f], T, W) = 0 => Times(made'[f], T, W) = 0
              /\ Times(events[f], T, W) = 0 => Times(events'[f], T, W) = 0,
           \A f \in Ends : Times(events'[f], R, Offers) = Times(events[f], R, Offers)
    PROVE  Bargained'
  <1>1. \A f \in Ends : GivenWay(f)' = GivenWay(f)
    BY DEF GivenWay
  <1>2. \A f \in Ends : Current(f)' = Current(f)
    BY <1>1 DEF Current
  <1>3. \A f \in Ends :
              /\ Tokens(f)' <= 1 /\ VoidBefore(f)' /\ OfferLast(f)' /\ Void(f)' = Void(f)
              /\ Times(Line(Other(f))', A, Void(f)) = 0
              /\ f = "caller" => Times(Line(f)', O, Void(f)) = 0
    BY <1>2, LinesKept
  <1>4. ASSUME NEW f \in Ends PROVE BargainOf(f)'
    <2>1. /\ ForCurrent(f) /\ VoidIgnored(f) /\ Waits(f) /\ Pends(f)
          /\ Other(f) \in Ends /\ Other(Other(f)) = f
          /\ Current(f) \in SUBSET Offers /\ Void(f) \in SUBSET Offers /\ Offers \in SUBSET Offers
      BY TheEnds, CurrentIs DEF Bargained, BargainOf
    <2>2. ForCurrent(f)'
      <3>1. Times(made'[f], O, Void(f)) = 0
        BY <2>1 DEF ForCurrent
      <3> QED
        BY <1>3, <3>1 DEF ForCurrent
    <2>3. VoidIgnored(f)'
      <3>1. ~local_offer_pending[Other(f)] =>
               Times(outbox'[f], O, Void(f)) = 0 /\ Times(inbox'[Other(f)], O, Void(f)) = 0
        BY <2>1 DEF VoidIgnored
      <3>2. signaling[Other(f)] = "stable" => Times(events'[Other(f)], O, Void(f)) = 0
        BY <2>1 DEF VoidIgnored
      <3> QED
        BY <1>3, <3>1, <3>2 DEF VoidIgnored
    <2>4. Waits(f)'
      <3>1. local_offer_pending[f] =>
               Times(made'[f], O, Offers) = 0 /\ Times(events'[f], A, Offers) = 0
        BY <2>1 DEF Waits
      <3> QED
        BY <1>1, <2>1, <3>1 DEF Waits
    <2>5. Pends(f)'
      <3>1. ~local_offer_pending[f] =>
               /\ Times(outbox'[f], O, Current(f)) = 0 /\ Times(inbox'[Other(f)], O, Current(f)) = 0
               /\ Times(events'[Other(f)], O, Current(f)) = 0
               /\ Times(made'[Other(f)], A, Offers) = 0
        BY <2>1 DEF Pends
      <3>2. ~local_offer_pending[f] =>
               Times(outbox'[Other(f)], {"answer"}, Offers) = 0 /\ Times(inbox'[f], {"answer"}, Offers) = 0
        <4> HAVE ~local_offer_pending[f]
        <4>1. /\ Times(outbox[Other(f)], {"answer"}, Offers) = 0
              /\ Times(inbox[Other(Other(f))], {"answer"}, Offers) = 0
          BY <2>1 DEF Pends
        <4>2. /\ Times(outbox'[Other(f)], {"answer"}, Offers) = 0
              /\ Times(inbox'[Other(Other(f))], {"answer"}, Offers) = 0
          BY <2>1, <4>1
        <4> QED
          BY <2>1, <4>2
      <3> QED
        BY <1>2, <3>1, <3>2 DEF Pends
    <2> QED
      BY <1>3, <2>2, <2>3, <2>4, <2>5 DEF BargainOf
  <1> QED
    BY <1>4 DEF Bargained

(* What is lost, dropped or carries no description.                          *)
LEMMA NoMoreKept ==
    ASSUME TInv, TInv', Bargained,
           UNCHANGED <<local, local_offer_pending, signaling, creating, mismatched>>,
           \A f \in Ends : Fewer(Line(f)', Line(f)),
           \A f \in Ends : \A T \in {O, A, {"answer"}} : \A W \in SUBSET Offers :
              /\ Times(outbox'[f], T, W) <= Times(outbox[f], T, W)
              /\ Times(inbox'[f], T, W) <= Times(inbox[f], T, W)
              /\ Times(made'[f], T, W) <= Times(made[f], T, W)
              /\ Times(events'[f], T, W) <= Times(events[f], T, W),
           \A f \in Ends : Times(events'[f], R, Offers) = Times(events[f], R, Offers)
    PROVE  Bargained'
  <1>1. ASSUME NEW s, NEW t, NEW T, NEW W, Times(t, T, W) <= Times(s, T, W), Times(s, T, W) = 0
        PROVE  Times(t, T, W) = 0
    <2>1. Times(t, T, W) \in Nat
      BY TimesNat
    <2> QED
      BY <1>1, <2>1
  <1>2. \A f \in Ends : Other(f) \in Ends
    BY TheEnds
  <1>3. \A f \in Ends : \A T \in {O, {"answer"}} : \A W \in SUBSET Offers :
           Times(outbox[f], T, W) = 0 /\ Times(inbox[Other(f)], T, W) = 0 =>
              Times(outbox'[f], T, W) = 0 /\ Times(inbox'[Other(f)], T, W) = 0
    <2> SUFFICES ASSUME NEW f \in Ends, NEW T \in {O, {"answer"}}, NEW W \in SUBSET Offers,
                        Times(outbox[f], T, W) = 0, Times(inbox[Other(f)], T, W) = 0
                 PROVE  Times(outbox'[f], T, W) = 0 /\ Times(inbox'[Other(f)], T, W) = 0
      OBVIOUS
    <2>1. T \in {O, A, {"answer"}}
      OBVIOUS
    <2>2. /\ Times(outbox'[f], T, W) <= Times(outbox[f], T, W)
          /\ Times(inbox'[Other(f)], T, W) <= Times(inbox[Other(f)], T, W)
      BY <1>2, <2>1
    <2> QED
      BY <1>1, <2>2
  <1>4. \A f \in Ends : \A T \in {O, A} : \A W \in SUBSET Offers :
           /\ Times(made[f], T, W) = 0 => Times(made'[f], T, W) = 0
           /\ Times(events[f], T, W) = 0 => Times(events'[f], T, W) = 0
    BY <1>1
  <1> QED
    BY <1>3, <1>4, QuietKept

LEMMA MovedNone ==
    ASSUME NEW S, NEW s \in Seq(S), s # <<>>, NEW t \in Seq(S), NEW T, NEW W,
           Times(s, T, W) = 0, Times(t, T, W) = 0
    PROVE  Times(Tail(s), T, W) = 0 /\ Times(Append(t, Head(s)), T, W) = 0
  <1>1. ~Fits(Head(s), T, W) /\ Head(s) \in S
    BY TailTimes, TimesNat, HeadTailProperties
  <1> QED
    BY <1>1, TailTimes, AppendTimes

LEMMA DeliverKept ==
    ASSUME TInv, TInv', Bargained, Orderly', NEW e \in Ends, Deliver(e)
    PROVE  Bargained'
  <1>1. PICK i \in DOMAIN outbox[e] :
           /\ outbox' = [outbox EXCEPT ![e] = RemoveAt(@, i)]
           /\ inbox' = [inbox EXCEPT ![Other(e)] = Append(@, outbox[e][i])]
           /\ faults' = IF i = 1 THEN faults ELSE faults \cup {"overtaken"}
           /\ UNCHANGED <<core, events, rtc, bound>>
    BY DEF Deliver
  <1>2. i = 1
    BY <1>1 DEF Orderly
  <1>3. /\ outbox \in [Ends -> Seq(Messages)] /\ inbox \in [Ends -> Seq(Messages)]
        /\ Other(e) \in Ends /\ Other(e) # e /\ \A f \in Ends : f # e => Other(f) # Other(e)
    BY TheEnds DEF TInv
  <1>4. /\ outbox[e] # <<>> /\ outbox' = [outbox EXCEPT ![e] = Tail(@)]
        /\ inbox' = [inbox EXCEPT ![Other(e)] = Append(@, Head(outbox[e]))]
    <2>1. 1 \in DOMAIN outbox[e] /\ outbox[e] \in Seq(Messages)
      BY <1>2, <1>3
    <2>2. outbox[e] # <<>> /\ outbox[e][1] = Head(outbox[e]) /\ RemoveAt(outbox[e], 1) = Tail(outbox[e])
      BY <2>1, Removed
    <2> QED
      BY <1>1, <1>2, <2>2
  <1>5. \A f \in Ends : Line(f)' = Line(f)
    BY <1>1, <1>4, DeliverLines DEF rtc
  <1>6. ASSUME NEW f \in Ends, NEW T, NEW W,
               Times(outbox[f], T, W) = 0, Times(inbox[Other(f)], T, W) = 0
        PROVE  Times(outbox'[f], T, W) = 0 /\ Times(inbox'[Other(f)], T, W) = 0
    <2>1. CASE f = e
      <3>1. /\ Times(Tail(outbox[e]), T, W) = 0
            /\ Times(Append(inbox[Other(e)], Head(outbox[e])), T, W) = 0
        BY <1>3, <1>4, <1>6, <2>1, MovedNone
      <3> QED
        BY <1>3, <1>4, <2>1, <3>1
    <2>2. CASE f # e
      <3>1. Other(f) \in Ends /\ Other(f) # Other(e)
        BY <1>3, <2>2, TheEnds
      <3> QED
        BY <1>3, <1>4, <1>6, <2>2, <3>1
    <2> QED
      BY <2>1, <2>2
  <1>7. UNCHANGED <<local, local_offer_pending, signaling, creating, mismatched, made, events>>
    BY <1>1 DEF core, rtc
  <1>8. \A f \in Ends : Fewer(Line(f)', Line(f))
    BY <1>5, FewerReflexive
  <1> QED
    BY <1>6, <1>7, <1>8, QuietKept

LEMMA LoseKept ==
    ASSUME TInv, TInv', Bargained, NEW e \in Ends, Lose(e)
    PROVE  Bargained'
  <1>1. PICK i \in DOMAIN outbox[e] :
           /\ outbox' = [outbox EXCEPT ![e] = RemoveAt(@, i)]
           /\ UNCHANGED <<core, inbox, events, rtc, bound>>
    BY DEF Lose
  <1>2. /\ UNCHANGED <<local, local_offer_pending, signaling, creating, mismatched>>
        /\ UNCHANGED <<inbox, events, made>>
    BY <1>1 DEF core, rtc
  <1>3. \A f \in Ends : Fewer(Line(f)', Line(f))
    BY LoseLines
  <1>4. outbox \in [Ends -> Seq(Messages)]
    BY DEF TInv
  <1>5. ASSUME NEW f \in Ends, NEW T, NEW W PROVE Times(outbox'[f], T, W) <= Times(outbox[f], T, W)
    <2>1. CASE f = e
      <3>1. Times(RemoveAt(outbox[e], i), T, W) <= Times(outbox[e], T, W)
        BY <1>4, RemoveTimes
      <3> QED
        BY <1>1, <1>4, <2>1, <3>1
    <2>2. CASE f # e
      <3>1. outbox'[f] = outbox[f]
        BY <1>1, <1>4, <2>2
      <3> QED
        BY <3>1, TimesNat
    <2> QED
      BY <2>1, <2>2
  <1>6. \A s, T, W : Times(s, T, W) <= Times(s, T, W)
    BY TimesNat
  <1> QED
    BY <1>2, <1>3, <1>5, <1>6, NoMoreKept

LEMMA SaidKept ==
    ASSUME TInv, TInv', Bargained, NEW e \in Ends, NEW of, NEW type \in {"metadata", "hangup"},
           Send(e, type, of) \/ UNCHANGED outbox,
           UNCHANGED <<inbox, events, made, local, local_offer_pending, signaling, creating,
                       mismatched>>
    PROVE  Bargained'
  <1>1. \A f \in Ends : f = e \/ f = Other(e)
    BY TheEnds DEF Ends
  <1>2. \A f \in Ends : Fewer(events'[f], events[f])
    BY FewerReflexive
  <1>3. \A f \in Ends : Fewer(Line(f)', Line(f))
    BY <1>2, SaidOnlyLines
  <1>4. \A s, T, W : Times(s, T, W) <= Times(s, T, W)
    BY TimesNat
  <1>5. \A f \in Ends : \A T \in {O, A, {"answer"}} : \A W :
           Times(outbox'[f], T, W) = Times(outbox[f], T, W)
    <2>1. CASE UNCHANGED outbox
      BY <2>1
    <2>2. CASE Send(e, type, of)
      BY <1>1, <2>2, SaidLines
    <2> QED
      BY <2>1, <2>2
  <1> QED
    BY <1>3, <1>4, <1>5, NoMoreKept

LEMMA CallKept ==
    ASSUME TInv, TInv', Bargained, Orderly', NEW e \in Ends,
           SetMuted(e) \/ NoteConnected(e) \/ Arm(e) \/ TimeOut(e)
    PROVE  Bargained'
  <1>1. CASE SetMuted(e) \/ NoteConnected(e)
    <2>1. /\ Send(e, "metadata", NoOffer) \/ UNCHANGED outbox
          /\ UNCHANGED <<inbox, events, made, local, local_offer_pending, signaling, creating,
                         mismatched>>
      BY <1>1 DEF SetMuted, NoteConnected, rtc
    <2> QED
      BY <2>1, SaidKept
  <1>2. CASE Arm(e)
    BY <1>2, SaidKept DEF Arm, wire, rtc
  <1>3. CASE TimeOut(e)
    <2>1. ~local_offer_pending[e]
      BY <1>3 DEF TimeOut, Orderly
    <2>2. local_offer_pending' = local_offer_pending
      BY <1>3, <2>1 DEF TimeOut, TInv, TypeOK
    <2> QED
      BY <1>3, <2>2, SaidKept DEF TimeOut, wire, rtc
  <1> QED
    BY <1>1, <1>2, <1>3

LEMMA FollowsNone ==
    ASSUME NEW s, NEW T, NEW W, NEW U, NEW V, Times(s, T, W) = 0 \/ Times(s, U, V) = 0
    PROVE  ~Follows(s, T, W, U, V)
  BY TimesIs DEF Follows

LEMMA FollowsOfFew ==
    ASSUME NEW s, NEW T, NEW W, NEW U, NEW V, NEW X
    PROVE  /\ V \subseteq X /\ ~Follows(s, T, W, U, X) => ~Follows(s, T, W, U, V)
           /\ Times(s, U, X \ V) = 0 /\ ~Follows(s, T, W, U, V) => ~Follows(s, T, W, U, X)
  <1>1. ASSUME V \subseteq X, ~Follows(s, T, W, U, X) PROVE ~Follows(s, T, W, U, V)
    BY <1>1 DEF Follows, Fits
  <1>2. ASSUME Times(s, U, X \ V) = 0, ~Follows(s, T, W, U, V) PROVE ~Follows(s, T, W, U, X)
    <2>1. \A i \in DOMAIN s : Fits(s[i], U, X) => Fits(s[i], U, V)
      <3>1. \A i \in DOMAIN s : ~Fits(s[i], U, X \ V)
        BY <1>2, TimesIs
      <3> QED
        BY <3>1 DEF Fits
    <2> QED
      BY <1>2, <2>1 DEF Follows
  <1> QED
    BY <1>1, <1>2

LEMMA TimesNone ==
    ASSUME NEW s, NEW T
    PROVE  /\ \A W, V : V \subseteq W /\ Times(s, T, W) = 0 => Times(s, T, V) = 0
           /\ \A U, W : U \subseteq T /\ Times(s, T, W) = 0 => Times(s, U, W) = 0
           /\ \A W : Times(s, T, W) = 0 /\ Times(s, T, Offers \ W) = 0 => Times(s, T, Offers) = 0
           /\ Times(s, T, {}) = 0
  <1>1. ASSUME NEW W, NEW V, V \subseteq W, Times(s, T, W) = 0 PROVE Times(s, T, V) = 0
    <2>1. Times(s, T, V) <= Times(s, T, W) /\ Times(s, T, V) \in Nat
      BY <1>1, TimesOfFew, TimesNat
    <2> QED
      BY <1>1, <2>1
  <1>2. ASSUME NEW U, NEW W, U \subseteq T, Times(s, T, W) = 0 PROVE Times(s, U, W) = 0
    <2>1. Times(s, U, W) <= Times(s, T, W) /\ Times(s, U, W) \in Nat
      BY <1>2, TimesOfFew, TimesNat
    <2> QED
      BY <1>2, <2>1
  <1>3. ASSUME NEW W, Times(s, T, W) = 0, Times(s, T, Offers \ W) = 0 PROVE Times(s, T, Offers) = 0
    <2>1. \A i \in DOMAIN s : ~Fits(s[i], T, W) /\ ~Fits(s[i], T, Offers \ W)
      BY <1>3, TimesIs
    <2>2. \A i \in DOMAIN s : ~Fits(s[i], T, Offers)
      BY <2>1 DEF Fits
    <2> QED
      BY <2>2, TimesIs
  <1>4. Times(s, T, {}) = 0
    BY TimesOfFew
  <1> QED
    BY <1>1, <1>2, <1>3, <1>4

\* What is first among some of which there are none but of the offers W.
LEMMA HeadFits ==
    ASSUME NEW s \in Seq(Items), s # <<>>, NEW T, NEW W, Times(s, T, Offers \ W) = 0,
           Head(s).type \in T, Head(s).of \in Offers
    PROVE  Head(s).of \in W /\ Fits(Head(s), T, W) /\ Times(s, T, W) > 0
  <1>1. ~Fits(Head(s), T, Offers \ W)
    BY TailTimes, TimesNat
  <1>2. Head(s).of \in W /\ Fits(Head(s), T, W)
    BY <1>1 DEF Fits
  <1> QED
    BY <1>2, TailTimes

LinesByParts ==
    \A e \in Ends : \A T, W :
        Times(Line(e), T, W) = 0 <=>
           /\ Times(events[Other(e)], T, W) = 0 /\ Times(inbox[Other(e)], T, W) = 0
           /\ Times(outbox[e], T, W) = 0 /\ Times(made[e], T, W) = 0

LEMMA LineByParts == TInv => LinesByParts
  BY LineTimes DEF LinesByParts

LEMMA LineByPartsNext == TInv' => LinesByParts'
  BY LineByParts, PTL

(* Where an end has a token of its own no other is to be found.             *)
LEMMA TokenAlone ==
    ASSUME TInv, Bargained, NEW e \in Ends
    PROVE  /\ Times(Line(e), O, Current(e)) = 0 \/ Times(Line(Other(e)), A, Offers) = 0
           /\ Times(Line(e), O, Current(e)) <= 1 /\ Times(Line(Other(e)), A, Current(e)) <= 1
           /\ Times(Line(Other(e)), A, Offers) = Times(Line(Other(e)), A, Current(e))
           /\ Answers(e) = Times(Line(Other(e)), A, Offers)
  <1>1. /\ Tokens(e) <= 1 /\ Times(Line(Other(e)), A, Offers \ Current(e)) = 0
        /\ Current(e) \in SUBSET Offers
    BY CurrentIs DEF Bargained, BargainOf, ForCurrent, Void
  <1>2. Times(Line(Other(e)), A, Offers) = Times(Line(Other(e)), A, Current(e))
    BY <1>1, TimesOfParts
  <1>3. Times(Line(e), O, Current(e)) \in Nat /\ Times(Line(Other(e)), A, Current(e)) \in Nat
    BY TimesNat
  <1>4. Times(Line(e), O, Current(e)) + Times(Line(Other(e)), A, Current(e)) <= 1
    BY <1>1 DEF Tokens, Answers
  <1> QED
    BY <1>2, <1>3, <1>4 DEF Answers

LEMMA SignalDropKept ==
    ASSUME TInv, TInv', Bargained, NEW e \in Ends, HandleSignal(e),
           events' = events, local_offer_pending' = local_offer_pending
    PROVE  Bargained'
  <1>1. /\ inbox[e] # <<>> /\ inbox' = [inbox EXCEPT ![e] = Tail(@)]
        /\ UNCHANGED <<outbox, made, local, signaling, creating, mismatched>>
    BY SignalCases DEF rtc
  <1>2. \A f \in Ends : f = e \/ f = Other(e)
    BY TheEnds DEF Ends
  <1>3. \A f \in Ends : Fewer(Line(f)', Line(f))
    BY <1>2, SignalLines, FewerReflexive
  <1>4. \A s, T, W : Times(s, T, W) <= Times(s, T, W)
    BY TimesNat
  <1>5. inbox \in [Ends -> Seq(Messages)]
    BY DEF TInv
  <1>6. ASSUME NEW f \in Ends, NEW T, NEW W PROVE Times(inbox'[f], T, W) <= Times(inbox[f], T, W)
    <2>1. CASE f = e
      <3>1. Times(Tail(inbox[e]), T, W) <= Times(inbox[e], T, W)
        BY <1>1, <1>5, TailTimes
      <3> QED
        BY <1>1, <1>5, <2>1, <3>1
    <2>2. CASE f # e
      <3>1. inbox'[f] = inbox[f]
        BY <1>1, <1>5, <2>2
      <3> QED
        BY <1>4, <3>1
    <2> QED
      BY <2>1, <2>2
  <1> QED
    BY <1>1, <1>3, <1>4, <1>6, NoMoreKept

(* The parts of the lines when a message is handled.                         *)
LEMMA SignalParts ==
    ASSUME TInv, TInv', NEW e \in Ends, HandleSignal(e), NEW y \in Tidings,
           events' = [events EXCEPT ![e] = @ \o <<y>>]
    PROVE  /\ \A T, W : /\ Times(inbox'[e], T, W) <= Times(inbox[e], T, W)
                        /\ Times(inbox[e], T, W) = 0 => Times(inbox'[e], T, W) = 0
                        /\ ~Fits(y, T, W) => Times(events'[e], T, W) = Times(events[e], T, W)
           /\ inbox'[e] = Tail(inbox[e]) /\ inbox'[Other(e)] = inbox[Other(e)]
           /\ events'[Other(e)] = events[Other(e)] /\ inbox[e] # <<>>
           /\ Head(inbox[e]) \in Messages /\ Head(inbox[e]).of \in Offers /\ inbox[e] \in Seq(Items)
           /\ UNCHANGED <<outbox, made, local, signaling, creating, mismatched>>
  <1>1. /\ inbox[e] # <<>> /\ inbox' = [inbox EXCEPT ![e] = Tail(@)] /\ Head(inbox[e]) \in Messages
        /\ UNCHANGED <<outbox, made, local, signaling, creating, mismatched>>
    BY SignalCases DEF rtc
  <1>2. /\ inbox \in [Ends -> Seq(Messages)] /\ events \in [Ends -> Seq(Tidings)]
        /\ Other(e) \in Ends /\ Other(e) # e /\ inbox[e] \in Seq(Items)
    BY TheEnds, PartTypes DEF TInv
  <1>3. inbox'[e] = Tail(inbox[e]) /\ events'[e] = events[e] \o <<y>>
        /\ inbox'[Other(e)] = inbox[Other(e)] /\ events'[Other(e)] = events[Other(e)]
    BY <1>1, <1>2
  <1>4. events'[e] = Append(events[e], y)
    BY <1>2, <1>3, AppendedIsConcat
  <1>5. ASSUME NEW T, NEW W
        PROVE  /\ Times(inbox'[e], T, W) <= Times(inbox[e], T, W)
               /\ Times(inbox[e], T, W) = 0 => Times(inbox'[e], T, W) = 0
               /\ ~Fits(y, T, W) => Times(events'[e], T, W) = Times(events[e], T, W)
    <2>1. Times(Tail(inbox[e]), T, W) <= Times(inbox[e], T, W)
      BY <1>1, <1>2, TailTimes
    <2>2. Times(Tail(inbox[e]), T, W) \in Nat
      BY TimesNat
    <2>3. ~Fits(y, T, W) => Times(Append(events[e], y), T, W) = Times(events[e], T, W)
      BY <1>2, AppendTimes
    <2>4. Times(inbox[e], T, W) = 0 => Times(Tail(inbox[e]), T, W) = 0
      BY <2>1, <2>2
    <2> QED
      BY <1>3, <1>4, <2>1, <2>3, <2>4
  <1>6. Head(inbox[e]).of \in Offers
    BY <1>1 DEF Messages
  <1> QED
    BY <1>1, <1>2, <1>3, <1>5, <1>6

(* What the embedder is told of a message, but for what it is told of.       *)
LEMMA SignalKept ==
    ASSUME TInv, TInv', Bargained, NEW e \in Ends, HandleSignal(e), NEW y \in Tidings,
           events' = [events EXCEPT ![e] = @ \o <<y>>], y.type # "rollback",
           local_offer_pending' \in [Ends -> BOOLEAN],
           local_offer_pending'[Other(e)] = local_offer_pending[Other(e)],
           local_offer_pending'[e] => local_offer_pending[e] /\ y.type = "offer",
           Fits(y, O, Current(Other(e))) => local_offer_pending[Other(e)],
           VoidIgnored(Other(e))', Pends(e)'
    PROVE  Bargained'
  <1>1. /\ \A T, W : /\ Times(inbox'[e], T, W) <= Times(inbox[e], T, W)
                     /\ Times(inbox[e], T, W) = 0 => Times(inbox'[e], T, W) = 0
                     /\ ~Fits(y, T, W) => Times(events'[e], T, W) = Times(events[e], T, W)
        /\ inbox'[Other(e)] = inbox[Other(e)] /\ events'[Other(e)] = events[Other(e)]
        /\ UNCHANGED <<outbox, made, local, signaling, creating, mismatched>>
    BY SignalParts
  <1>2. /\ Other(e) \in Ends /\ Other(e) # e /\ Other(Other(e)) = e
        /\ \A f \in Ends : f = e \/ f = Other(e)
    BY TheEnds DEF Ends
  <1>3. \A f \in Ends : Times(events'[f], R, Offers) = Times(events[f], R, Offers)
    BY <1>1, <1>2 DEF Fits, R
  <1>4. \A f \in Ends : GivenWay(f)' = GivenWay(f) /\ Current(f)' = Current(f)
    BY <1>1, <1>3 DEF GivenWay, Current
  <1>5. \A f \in Ends : Fewer(Line(f)', Line(f))
    BY <1>2, SignalLines, FewerReflexive
  <1>6. \A f \in Ends :
              /\ Tokens(f)' <= 1 /\ VoidBefore(f)' /\ OfferLast(f)' /\ Void(f)' = Void(f)
              /\ Times(Line(Other(f))', A, Void(f)) = 0
              /\ f = "caller" => Times(Line(f)', O, Void(f)) = 0
    BY <1>4, <1>5, LinesKept
  <1>7. \A f \in Ends : BargainOf(f)
    BY DEF Bargained
  <1>8. ASSUME NEW f \in Ends PROVE ForCurrent(f)'
    <2>1. made' = made /\ Times(made[f], O, Void(f)) = 0
      BY <1>1, <1>7 DEF BargainOf, ForCurrent
    <2> QED
      BY <1>6, <2>1 DEF ForCurrent
  <1>9. ASSUME NEW f \in Ends PROVE Waits(f)'
    <2>1. Waits(f)
      BY <1>7 DEF BargainOf
    <2>2. local_offer_pending'[f] => local_offer_pending[f]
      BY <1>2
    <2>3. local_offer_pending'[f] => Times(events'[f], A, Offers) = Times(events[f], A, Offers)
      BY <1>1, <1>2 DEF Fits, A
    <2> QED
      BY <1>1, <1>3, <1>4, <2>1, <2>2, <2>3 DEF Waits
  <1>10. VoidIgnored(e)'
    <2>1. VoidIgnored(e) /\ Void(e)' = Void(e)
      BY <1>6, <1>7 DEF BargainOf
    <2> QED
      BY <1>1, <1>2, <2>1 DEF VoidIgnored
  <1>11. Pends(Other(e))'
    <2> SUFFICES ASSUME ~local_offer_pending[Other(e)] PROVE Pends(Other(e))'
      BY DEF Pends
    <2>1. Pends(Other(e)) /\ Current(Other(e))' = Current(Other(e))
      BY <1>2, <1>4, <1>7 DEF BargainOf
    <2>2. Times(events'[e], O, Current(Other(e))) = 0
      BY <1>1, <1>2, <2>1 DEF Pends
    <2> QED
      BY <1>1, <1>2, <2>1, <2>2 DEF Pends
  <1>12. \A f \in Ends : VoidIgnored(f)' /\ Pends(f)'
    BY <1>2, <1>10, <1>11
  <1>13. ~mismatched'
    BY <1>1 DEF Bargained
  <1> QED
    BY <1>6, <1>8, <1>9, <1>12, <1>13 DEF Bargained, BargainOf

LEMMA SignalOfferKept ==
    ASSUME TInv, TInv', Bargained, NEW e \in Ends, HandleSignal(e),
           Head(inbox[e]).type = "offer", ~local_offer_pending[e],
           local_offer_pending' = local_offer_pending,
           events' = [events EXCEPT ![e] = @ \o <<[type |-> "offer", of |-> Head(inbox[e]).of]>>]
    PROVE  Bargained'
  <1> DEFINE x == Head(inbox[e])
             y == [type |-> "offer", of |-> x.of]
  <1>1. y \in Tidings
    <2>1. x.of \in Offers
      BY SignalCases DEF Messages
    <2> QED
      BY <2>1 DEF Tidings
  <1>2. /\ \A T, W : /\ Times(inbox'[e], T, W) <= Times(inbox[e], T, W)
                     /\ Times(inbox[e], T, W) = 0 => Times(inbox'[e], T, W) = 0
                     /\ ~Fits(y, T, W) => Times(events'[e], T, W) = Times(events[e], T, W)
        /\ inbox'[e] = Tail(inbox[e]) /\ inbox'[Other(e)] = inbox[Other(e)]
        /\ events'[Other(e)] = events[Other(e)] /\ inbox[e] # <<>>
        /\ Head(inbox[e]).of \in Offers /\ inbox[e] \in Seq(Items)
        /\ UNCHANGED <<outbox, made, local, signaling, creating, mismatched>>
    BY <1>1, SignalParts
  <1>3. Other(e) \in Ends /\ Other(e) # e /\ Other(Other(e)) = e
    BY TheEnds
  <1>4. BargainOf(e) /\ BargainOf(Other(e))
    BY <1>3 DEF Bargained
  <1>5. \A f \in Ends : Times(events'[f], R, Offers) = Times(events[f], R, Offers)
    <2>1. ~Fits(y, R, Offers)
      BY DEF Fits, R
    <2>2. \A f \in Ends : f = e \/ f = Other(e)
      BY TheEnds DEF Ends
    <2> QED
      BY <1>2, <2>1, <2>2
  <1>6. \A f \in Ends : Current(f)' = Current(f) /\ Void(f)' = Void(f)
    BY <1>2, <1>5 DEF GivenWay, Current, Void
  <1>7. x.of \in Current(Other(e)) /\ Fits(y, O, Current(Other(e)))
    <2>1. Times(inbox[e], O, Offers \ Current(Other(e))) = 0
      BY <1>3, <1>4 DEF BargainOf, VoidIgnored, Void
    <2>2. x.type \in O
      BY DEF O
    <2>3. x.of \in Current(Other(e))
      BY <1>2, <2>1, <2>2, HeadFits
    <2> QED
      BY <2>3 DEF Fits, O
  <1>8. local_offer_pending[Other(e)]
    <2>1. Times(inbox[e], O, Current(Other(e))) > 0
      <3>1. Fits(x, O, Current(Other(e)))
        BY <1>7 DEF Fits
      <3> QED
        BY <1>2, <3>1, TailTimes
    <2> QED
      BY <1>3, <1>4, <2>1 DEF BargainOf, Pends
  <1>9. VoidIgnored(Other(e))'
    <2>1. VoidIgnored(Other(e)) /\ Void(Other(e))' = Void(Other(e))
      BY <1>3, <1>4, <1>6 DEF BargainOf
    <2>2. ~Fits(y, O, Void(Other(e)))
      BY <1>7 DEF Fits, Void
    <2>3. Times(events'[e], O, Void(Other(e))) = Times(events[e], O, Void(Other(e)))
      BY <1>2, <2>2
    <2> QED
      BY <1>2, <1>3, <2>1, <2>3 DEF VoidIgnored
  <1>10. Pends(e)'
    <2>1. Pends(e) /\ Current(e)' = Current(e)
      BY <1>4, <1>6 DEF BargainOf
    <2>2. Times(inbox[e], {"answer"}, Offers) = 0 => Times(inbox'[e], {"answer"}, Offers) = 0
      BY <1>2
    <2> QED
      BY <1>2, <1>3, <2>1, <2>2 DEF Pends
  <1>11. local_offer_pending' \in [Ends -> BOOLEAN] /\ y.type = "offer"
    BY DEF TInv, TypeOK
  <1> HIDE DEF y
  <1>12. events' = [events EXCEPT ![e] = @ \o <<y>>]
    BY DEF y
  <1> QED
    BY <1>1, <1>7, <1>8, <1>9, <1>10, <1>11, <1>12, SignalKept

LEMMA SignalAnswerKept ==
    ASSUME TInv, TInv', Bargained, NEW e \in Ends, HandleSignal(e),
           Head(inbox[e]).type \in A, ~local_offer_pending'[e],
           local_offer_pending' = [local_offer_pending EXCEPT ![e] = FALSE],
           events' = [events EXCEPT ![e] = @ \o <<[type |-> "answer", of |-> Head(inbox[e]).of]>>]
    PROVE  Bargained'
  <1> DEFINE x == Head(inbox[e])
             y == [type |-> "answer", of |-> x.of]
  <1>1. y \in Tidings
    <2>1. x.of \in Offers
      BY SignalCases DEF Messages
    <2> QED
      BY <2>1 DEF Tidings
  <1>2. /\ \A T, W : /\ Times(inbox'[e], T, W) <= Times(inbox[e], T, W)
                     /\ Times(inbox[e], T, W) = 0 => Times(inbox'[e], T, W) = 0
                     /\ ~Fits(y, T, W) => Times(events'[e], T, W) = Times(events[e], T, W)
        /\ inbox'[e] = Tail(inbox[e]) /\ inbox'[Other(e)] = inbox[Other(e)]
        /\ events'[Other(e)] = events[Other(e)] /\ inbox[e] # <<>>
        /\ Head(inbox[e]).of \in Offers /\ inbox[e] \in Seq(Items)
        /\ UNCHANGED <<outbox, made, local, signaling, creating, mismatched>>
    BY <1>1, SignalParts
  <1>3. Other(e) \in Ends /\ Other(e) # e /\ Other(Other(e)) = e
    BY TheEnds
  <1>4. BargainOf(e) /\ BargainOf(Other(e))
    BY <1>3 DEF Bargained
  <1>5. \A f \in Ends : Times(events'[f], R, Offers) = Times(events[f], R, Offers)
    <2>1. ~Fits(y, R, Offers)
      BY DEF Fits, R
    <2>2. \A f \in Ends : f = e \/ f = Other(e)
      BY TheEnds DEF Ends
    <2> QED
      BY <1>2, <2>1, <2>2
  <1>6. \A f \in Ends : Current(f)' = Current(f) /\ Void(f)' = Void(f)
    BY <1>2, <1>5 DEF GivenWay, Current, Void
  <1>7. Fits(x, A, Offers)
    BY <1>2 DEF Fits
  <1>8. VoidIgnored(Other(e))'
    <2>1. VoidIgnored(Other(e)) /\ Void(Other(e))' = Void(Other(e))
      BY <1>3, <1>4, <1>6 DEF BargainOf
    <2>2. ~Follows(Line(Other(e)), A, Offers, O, Void(Other(e)))
      BY <1>4 DEF BargainOf, VoidBefore
    <2>3. Times(Tail(inbox[e]), O, Void(Other(e))) = 0 /\ Times(outbox[Other(e)], O, Void(Other(e))) = 0
      BY <1>2, <1>3, <1>7, <2>2, LineFollows
    <2>4. ~Fits(y, O, Void(Other(e)))
      BY DEF Fits, O
    <2>5. Times(events'[e], O, Void(Other(e))) = Times(events[e], O, Void(Other(e)))
      BY <1>2, <2>4
    <2> QED
      BY <1>2, <1>3, <2>1, <2>3, <2>5 DEF VoidIgnored
  <1>9. /\ Times(Line(e), O, Current(e)) = 0 /\ Times(Tail(inbox[e]), A, Offers) = 0
        /\ Times(outbox[Other(e)], A, Offers) = 0 /\ Times(made[Other(e)], A, Offers) = 0
    <2>1. /\ Times(Line(e), O, Current(e)) = 0 \/ Times(Line(Other(e)), A, Offers) = 0
          /\ Times(Line(Other(e)), A, Offers) <= 1
      BY TokenAlone
    <2>2. Times(inbox[e], A, Offers) > 0 /\ (Times(inbox[e], A, Offers) = 1 => Times(Tail(inbox[e]), A, Offers) = 0)
      BY <1>2, <1>7, TailTimes
    <2> DEFINE a == Times(events[e], A, Offers)
               b == Times(inbox[e], A, Offers)
               c == Times(outbox[Other(e)], A, Offers)
               d == Times(made[Other(e)], A, Offers)
    <2>3. Times(Line(Other(e)), A, Offers) = a + b + c + d
      BY <1>3, <2>1, LineTimes
    <2>4. a \in Nat /\ b \in Nat /\ c \in Nat /\ d \in Nat
      BY TimesNat
    <2>5. a + b + c + d <= 1 /\ b > 0
      BY <2>1, <2>2, <2>3
    <2>6. b > 0 => a + b + c + d # 0
      BY <2>4
    <2> HIDE DEF a, b, c, d
    <2>7. b = 1 /\ c = 0 /\ d = 0 /\ Times(Line(Other(e)), A, Offers) # 0
      BY <2>3, <2>4, <2>5, <2>6
    <2> QED
      BY <2>1, <2>2, <2>7 DEF b, c, d
  <1>10. Pends(e)'
    <2>1. /\ Times(outbox[e], O, Current(e)) = 0 /\ Times(inbox[Other(e)], O, Current(e)) = 0
          /\ Times(events[Other(e)], O, Current(e)) = 0
      BY <1>9, LineByParts DEF LinesByParts
    <2>2. Times(outbox[Other(e)], {"answer"}, Offers) = 0 /\ Times(Tail(inbox[e]), {"answer"}, Offers) = 0
      <3>1. {"answer"} \subseteq A
        BY DEF A
      <3> QED
        BY <1>9, <3>1, TimesNone
    <2>3. Current(e)' = Current(e)
      BY <1>6
    <2> QED
      BY <1>2, <1>3, <1>9, <2>1, <2>2, <2>3 DEF Pends
  <1>11. local_offer_pending' \in [Ends -> BOOLEAN] /\ y.type = "answer"
         /\ local_offer_pending'[Other(e)] = local_offer_pending[Other(e)]
         /\ ~Fits(y, O, Current(Other(e)))
    BY <1>3 DEF TInv, TypeOK, Fits, O
  <1> HIDE DEF y
  <1>12. events' = [events EXCEPT ![e] = @ \o <<y>>]
    BY DEF y
  <1>13. y.type # "rollback"
    BY <1>11
  <1> QED
    BY <1>1, <1>8, <1>10, <1>11, <1>12, <1>13, SignalKept

(* The callee gives way: the offer that it takes is the caller's last word.  *)
LEMMA GiveWayKept ==
    ASSUME TInv, TInv', Bargained, NEW e \in Ends, HandleSignal(e), e = "callee",
           Head(inbox[e]).type = "offer", local_offer_pending[e],
           local_offer_pending' = [local_offer_pending EXCEPT ![e] = FALSE],
           events' = [events EXCEPT ![e] = @ \o <<[type |-> "rollback", of |-> NoOffer],
                                                  [type |-> "offer", of |-> Head(inbox[e]).of]>>]
    PROVE  Bargained'
  <1> DEFINE x == Head(inbox[e])
             o == Other(e)
             r == [type |-> "rollback", of |-> NoOffer]
             y == [type |-> "offer", of |-> x.of]
  <1>1. /\ o \in Ends /\ o # e /\ Other(o) = e /\ o = "caller"
        /\ \A f \in Ends : f = e \/ f = o
    BY TheEnds DEF Ends
  <1>2. /\ inbox[e] # <<>> /\ inbox' = [inbox EXCEPT ![e] = Tail(@)] /\ x.of \in Offers
        /\ UNCHANGED <<outbox, made, local, signaling, creating, mismatched>>
    BY SignalCases DEF rtc, Messages
  <1>3. /\ inbox \in [Ends -> Seq(Messages)] /\ events \in [Ends -> Seq(Tidings)]
        /\ inbox[e] \in Seq(Items) /\ local_offer_pending \in [Ends -> BOOLEAN]
    BY PartTypes DEF TInv, TypeOK
  <1>4. /\ inbox'[e] = Tail(inbox[e]) /\ inbox'[o] = inbox[o] /\ events'[o] = events[o]
        /\ events'[e] = events[e] \o <<r, y>>
        /\ ~local_offer_pending'[e] /\ local_offer_pending'[o] = local_offer_pending[o]
    BY <1>1, <1>2, <1>3
  <1>5. BargainOf(e) /\ BargainOf(o) /\ ~mismatched
    BY <1>1 DEF Bargained
  <1>6. /\ signaling[e] = "have-local-offer" /\ Times(events[e], R, Offers) = 0
        /\ Times(made[e], O, Offers) = 0 /\ Times(events[e], A, Offers) = 0
    BY <1>5, TimesNat DEF BargainOf, Waits, GivenWay
  <1>7. /\ Times(events'[e], R, Offers) = 1
        /\ GivenWay(e)' /\ Current(e)' = {} /\ Void(e)' = Offers
    <2>1. r \in Tidings /\ y \in Tidings
      BY <1>2, Descriptions DEF Tidings
    <2>2. Fits(r, R, Offers) /\ ~Fits(y, R, Offers)
      BY Descriptions DEF Fits, R
    <2> HIDE DEF r, y
    <2>3. events[e] \o <<r, y>> = Append(Append(events[e], r), y)
      BY <1>3, <2>1
    <2> DEFINE s == Append(events[e], r)
    <2>4. s \in Seq(Tidings)
      BY <1>3, <2>1, AppendProperties
    <2>5. Times(s, R, Offers) = 1
      BY <1>3, <1>6, <2>1, <2>2, AppendTimes
    <2> HIDE DEF s
    <2>6. Times(Append(s, y), R, Offers) = 1
      BY <2>1, <2>2, <2>4, <2>5, AppendTimes
    <2>7. Times(events'[e], R, Offers) = 1
      BY <1>4, <2>3, <2>6 DEF s
    <2>8. GivenWay(e)' <=> Times(events'[e], R, Offers) > 0
      BY DEF GivenWay
    <2>9. GivenWay(e)'
      BY <2>7, <2>8
    <2>10. Current(e)' = {}
      BY <2>9 DEF Current
    <2>11. Void(e)' = Offers
      BY <2>10 DEF Void
    <2> QED
      BY <2>7, <2>9, <2>10, <2>11
  <1>8. Current(o)' = Current(o) /\ Void(o)' = Void(o) /\ GivenWay(o)' = GivenWay(o)
    BY <1>2, <1>4 DEF GivenWay, Current, Void
  <1>9. Times(Line(o), O, Void(o)) = 0
    BY <1>1, <1>5 DEF BargainOf, ForCurrent
  <1>10. Fits(x, O, Current(o)) /\ Times(inbox[e], O, Current(o)) > 0
    <2>1. Times(inbox[e], O, Offers \ Current(o)) = 0
      BY <1>1, <1>9, LineByParts DEF LinesByParts, Void
    <2>2. x.type \in O
      BY DEF O
    <2> QED
      BY <1>2, <1>3, <2>1, <2>2, HeadFits
  <1>11. local_offer_pending[o] /\ signaling[o] = "have-local-offer"
    BY <1>1, <1>5, <1>10 DEF BargainOf, Pends, Waits
  <1>12. Fewer(Line(o)', Line(o)) /\ Line(e)' = Line(e)
    BY SignalLines
  <1>13. /\ Times(Tail(inbox[e]), A, Offers) = 0 /\ Times(outbox[o], A, Offers) = 0
         /\ Times(made[o], A, Offers) = 0 /\ Times(Line(o)', A, Offers) = 0
    <2>1. ~Follows(Line(o), O, Current(o), A, Offers)
      BY <1>5 DEF BargainOf, OfferLast
    <2>2. /\ Times(Tail(inbox[e]), A, Offers) = 0 /\ Times(outbox[o], A, Offers) = 0
          /\ Times(made[o], A, Offers) = 0
      BY <1>1, <1>2, <1>10, <2>1, LineFollows
    <2>3. Times(inbox[e], A, Offers) = 0
      <3>1. ~Fits(x, A, Offers)
        BY DEF Fits, A
      <3> QED
        BY <1>2, <1>3, <2>2, <3>1, TailTimes
    <2>4. Times(Line(o), A, Offers) = 0
      BY <1>1, <1>6, <2>2, <2>3, LineByParts DEF LinesByParts
    <2>5. Times(Line(o)', A, Offers) <= Times(Line(o), A, Offers) /\ Times(Line(o)', A, Offers) \in Nat
      BY <1>12, TimesNat DEF Fewer
    <2> QED
      BY <2>2, <2>4, <2>5
  <1>14. Times(Line(e), A, Offers) = 0
    <2>1. Times(Line(o), O, Current(o)) # 0
      BY <1>1, <1>10, LineByParts DEF LinesByParts
    <2> QED
      BY <1>1, <2>1, TokenAlone
  <1>15. Times(outbox[o], {"answer"}, Offers) = 0 /\ Times(inbox'[e], {"answer"}, Offers) = 0
    <2>1. {"answer"} \subseteq A
      BY DEF A
    <2> QED
      BY <1>4, <1>13, <2>1, TimesNone
  <1>16. BargainOf(e)'
    <2>1. \A s, T : Times(s, T, {}) = 0
      BY TimesOfFew
    <2>2. Tokens(e)' <= 1
      <3>1. Tokens(e)' = Times(Line(e)', O, {}) + Times(Line(o)', A, {})
        BY <1>7 DEF Tokens, Answers
      <3> QED
        BY <2>1, <3>1
    <2>3. ForCurrent(e)'
      BY <1>1, <1>2, <1>6, <1>7, <1>13 DEF ForCurrent
    <2>4. VoidIgnored(e)'
      BY <1>2, <1>4, <1>11 DEF VoidIgnored
    <2>5. VoidBefore(e)' /\ OfferLast(e)'
      <3>1. Times(Line(e)', O, {}) = 0
        BY <2>1
      <3>2. ~Follows(Line(e)', A, Offers, O, Offers) /\ ~Follows(Line(e)', O, {}, A, Offers)
        BY <1>12, <1>14, <3>1, FollowsNone
      <3> QED
        BY <1>7, <3>2 DEF VoidBefore, OfferLast
    <2>6. Waits(e)'
      BY <1>2, <1>4, <1>5, <1>6, <1>7 DEF BargainOf, Waits
    <2>7. Pends(e)'
      BY <1>1, <1>2, <1>7, <1>13, <1>15, <2>1 DEF Pends
    <2> QED
      BY <2>2, <2>3, <2>4, <2>5, <2>6, <2>7 DEF BargainOf
  <1>17. BargainOf(o)'
    <2>1. /\ Tokens(o) <= 1 /\ VoidBefore(o) /\ OfferLast(o)
          /\ Times(Line(Other(o)), A, Void(o)) = 0 /\ Times(made[o], O, Void(o)) = 0
      BY <1>5 DEF BargainOf, ForCurrent
    <2>2. Fewer(Line(o)', Line(o)) /\ Fewer(Line(Other(o))', Line(Other(o)))
      BY <1>1, <1>12, FewerReflexive
    <2>3. /\ Tokens(o)' <= 1 /\ VoidBefore(o)' /\ OfferLast(o)'
          /\ Times(Line(Other(o))', A, Void(o)) = 0 /\ Times(Line(o)', O, Void(o)) = 0
      BY <1>1, <1>8, <1>9, <2>1, <2>2, LineKept
    <2>4. ForCurrent(o)'
      BY <1>2, <1>8, <2>1, <2>3 DEF ForCurrent
    <2>5. VoidIgnored(o)'
      <3>1. Times(Line(o)', O, Void(o)') = 0
        BY <1>8, <2>3
      <3>2. LinesByParts'
        BY LineByPartsNext
      <3>3. /\ Times(outbox'[o], O, Void(o)') = 0 /\ Times(inbox'[Other(o)], O, Void(o)') = 0
            /\ Times(events'[Other(o)], O, Void(o)') = 0
        BY SMTT(30), <1>1, <3>1, <3>2 DEF LinesByParts
      <3> QED
        BY <3>3 DEF VoidIgnored
    <2>6. Waits(o)'
      BY <1>2, <1>4, <1>5, <1>8 DEF BargainOf, Waits
    <2>7. Pends(o)'
      BY <1>4, <1>11 DEF Pends
    <2> QED
      BY <2>3, <2>4, <2>5, <2>6, <2>7 DEF BargainOf
  <1> QED
    BY <1>1, <1>2, <1>5, <1>16, <1>17 DEF Bargained

LEMMA SignalKeptAll ==
    ASSUME TInv, TInv', CountInv, Bargained, NEW e \in Ends, HandleSignal(e)
    PROVE  Bargained'
  <1> DEFINE x == Head(inbox[e])
  <1>1. PICK k \in Seq(Tidings) : Handles(e, x, k)
    BY SignalCases
  <1>2. events' = [events EXCEPT ![e] = @ \o k]
    BY <1>1 DEF Handles
  <1>3. events \in [Ends -> Seq(Tidings)] /\ local_offer_pending \in [Ends -> BOOLEAN]
    BY DEF TInv, TypeOK
  <1>4. CASE k = <<>> /\ local_offer_pending' = local_offer_pending
    <2>1. events[e] \o k = events[e]
      BY <1>3, <1>4, ConcatEmptySeq
    <2>2. events' = events
      BY <1>2, <1>3, <2>1
    <2> QED
      BY <1>4, <2>2, SignalDropKept
  <1>5. CASE /\ k = <<[type |-> "answer", of |-> x.of]>>
             /\ \/ /\ x.type = "accept" /\ state[e] = "Dialing"
                   /\ local_offer_pending' = local_offer_pending
                \/ /\ x.type = "answer" /\ local_offer_pending[e]
                   /\ local_offer_pending' = [local_offer_pending EXCEPT ![e] = FALSE]
    <2>1. x.type \in A
      BY <1>5 DEF A
    <2>2. local_offer_pending' = [local_offer_pending EXCEPT ![e] = FALSE]
      <3>1. state[e] = "Dialing" => ~local_offer_pending[e]
        BY DEF CountInv, Unanswered
      <3> QED
        BY <1>3, <1>5, <3>1
    <2>3. ~local_offer_pending'[e]
      BY <1>3, <2>2
    <2> QED
      BY <1>2, <1>5, <2>1, <2>2, <2>3, SignalAnswerKept
  <1>6. CASE /\ k = <<[type |-> "offer", of |-> x.of]>>
             /\ x.type = "offer" /\ ~local_offer_pending[e]
             /\ local_offer_pending' = local_offer_pending
    BY <1>2, <1>6, SignalOfferKept
  <1>7. CASE /\ k = <<[type |-> "rollback", of |-> NoOffer], [type |-> "offer", of |-> x.of]>>
             /\ x.type = "offer" /\ e = "callee" /\ local_offer_pending[e]
             /\ local_offer_pending' = [local_offer_pending EXCEPT ![e] = FALSE]
    BY <1>2, <1>7, GiveWayKept
  <1> QED
    BY <1>1, <1>4, <1>5, <1>6, <1>7 DEF Handles

-------------------------------------------------------------------------------
(* What the embedder does of what it is told.                                *)

LEMMA EventParts ==
    ASSUME TInv, NEW e \in Ends, HandleCallEvent(e)
    PROVE  /\ events[e] # <<>> /\ events' = [events EXCEPT ![e] = Tail(@)]
           /\ Head(events[e]) \in Tidings /\ Head(events[e]).of \in Offers
           /\ events[e] \in Seq(Items)
           /\ events'[e] = Tail(events[e]) /\ events'[Other(e)] = events[Other(e)]
           /\ UNCHANGED <<inbox, creating, bound, faults>>
  BY TailLines DEF HandleCallEvent

LEMMA EventTimes ==
    ASSUME TInv, NEW e \in Ends, HandleCallEvent(e), NEW T, NEW W
    PROVE  /\ Times(events'[e], T, W) <= Times(events[e], T, W)
           /\ Times(events[e], T, W) = 0 => Times(events'[e], T, W) = 0
           /\ Head(events[e]).type \notin T => Times(events'[e], T, W) = Times(events[e], T, W)
  <1>1. /\ events[e] # <<>> /\ events[e] \in Seq(Items) /\ events'[e] = Tail(events[e])
    BY EventParts
  <1>2. /\ Times(Tail(events[e]), T, W) <= Times(events[e], T, W)
        /\ ~Fits(Head(events[e]), T, W) => Times(Tail(events[e]), T, W) = Times(events[e], T, W)
    BY <1>1, TailTimes
  <1>3. Times(Tail(events[e]), T, W) \in Nat
    BY TimesNat
  <1>4. Head(events[e]).type \notin T => ~Fits(Head(events[e]), T, W)
    BY DEF Fits
  <1>5. Times(events[e], T, W) = 0 => Times(Tail(events[e]), T, W) = 0
    BY <1>2, <1>3
  <1> QED
    BY <1>1, <1>2, <1>4, <1>5

LEMMA EventDropKept ==
    ASSUME TInv, TInv', Bargained, NEW e \in Ends, HandleCallEvent(e),
           Head(events[e]).type # "rollback",
           Send(e, "hangup", NoOffer) \/ UNCHANGED outbox,
           UNCHANGED <<made, local, local_offer_pending, signaling, mismatched>>
    PROVE  Bargained'
  <1>1. /\ events' = [events EXCEPT ![e] = Tail(@)] /\ events[e] # <<>>
        /\ events'[Other(e)] = events[Other(e)] /\ UNCHANGED <<inbox, creating>>
    BY EventParts
  <1>2. \A f \in Ends : f = e \/ f = Other(e)
    BY TheEnds DEF Ends
  <1>3. \A f \in Ends : Fewer(events'[f], events[f])
    BY <1>1, TailLines
  <1>4. \A f \in Ends : Fewer(Line(f)', Line(f))
    BY <1>1, <1>3, SaidOnlyLines
  <1>5. \A s, T, W : Times(s, T, W) <= Times(s, T, W)
    BY TimesNat
  <1>6. \A f \in Ends : \A T \in {O, A, {"answer"}} : \A W :
           Times(outbox'[f], T, W) = Times(outbox[f], T, W)
    <2>1. CASE UNCHANGED outbox
      BY <2>1
    <2>2. CASE Send(e, "hangup", NoOffer)
      BY <1>2, <2>2, SaidLines
    <2> QED
      BY <2>1, <2>2
  <1>7. \A f \in Ends : Times(events'[f], R, Offers) = Times(events[f], R, Offers)
    <2>1. Head(events[e]).type \notin R
      BY DEF R
    <2>2. Times(events'[e], R, Offers) = Times(events[e], R, Offers)
      BY <2>1, EventTimes
    <2> QED
      BY <1>1, <1>2, <2>2
  <1>8. \A f \in Ends : \A T, W : Times(events'[f], T, W) <= Times(events[f], T, W)
    <2>1. \A T, W : Times(events'[e], T, W) <= Times(events[e], T, W)
      BY EventTimes
    <2> QED
      BY <1>1, <1>2, <1>5, <2>1
  <1>9. \A f \in Ends : \A T \in {O, A, {"answer"}} : \A W \in SUBSET Offers :
           /\ Times(outbox'[f], T, W) <= Times(outbox[f], T, W)
           /\ Times(inbox'[f], T, W) <= Times(inbox[f], T, W)
           /\ Times(made'[f], T, W) <= Times(made[f], T, W)
           /\ Times(events'[f], T, W) <= Times(events[f], T, W)
    <2> TAKE f \in Ends
    <2> TAKE T \in {O, A, {"answer"}}
    <2> TAKE W \in SUBSET Offers
    <2>1. inbox' = inbox /\ made' = made
      BY <1>1
    <2>2. Times(inbox'[f], T, W) <= Times(inbox[f], T, W)
      BY <1>5, <2>1
    <2>3. Times(made'[f], T, W) <= Times(made[f], T, W)
      BY <1>5, <2>1
    <2>4. Times(outbox'[f], T, W) <= Times(outbox[f], T, W)
      <3>1. Times(outbox'[f], T, W) = Times(outbox[f], T, W)
        BY <1>6
      <3> QED
        BY <1>5, <3>1
    <2> QED
      BY <1>8, <2>2, <2>3, <2>4
  <1>10. UNCHANGED <<local, local_offer_pending, signaling, creating, mismatched>>
    BY <1>1
  <1> QED
    BY <1>4, <1>7, <1>9, <1>10, NoMoreKept

\* The end that made what was first of all that the embedder was told.
LEMMA MakerKept ==
    ASSUME TInv, TInv', Bargained, NEW e \in Ends, HandleCallEvent(e),
           Head(events[e]).type # "offer",
           UNCHANGED <<outbox, made, local_offer_pending>>,
           local'[Other(e)] = local[Other(e)], signaling'[Other(e)] = signaling[Other(e)],
           VoidIgnored(Other(e))'
    PROVE  BargainOf(Other(e))' /\ Line(e)' = Line(e) /\ Fewer(Line(Other(e))', Line(Other(e)))
  <1> DEFINE o == Other(e)
  <1>1. o \in Ends /\ o # e /\ Other(o) = e
    BY TheEnds
  <1>2. /\ events'[o] = events[o] /\ UNCHANGED <<inbox, creating>>
        /\ \A T, W : Times(events[e], T, W) = 0 => Times(events'[e], T, W) = 0
    <2>1. events'[o] = events[o] /\ UNCHANGED <<inbox, creating>>
      BY EventParts
    <2>2. \A T, W : Times(events[e], T, W) = 0 => Times(events'[e], T, W) = 0
      BY EventTimes
    <2> QED
      BY <2>1, <2>2
  <1>3. BargainOf(o)
    BY <1>1 DEF Bargained
  <1>4. Line(e)' = Line(e)
    BY <1>2 DEF Line
  <1>5. Fewer(Line(o)', Line(o))
    BY <1>1, EventLines
  <1>6. GivenWay(o)' = GivenWay(o) /\ Current(o)' = Current(o) /\ Void(o)' = Void(o)
    BY <1>2 DEF GivenWay, Current, Void
  <1>7. /\ Tokens(o)' <= 1 /\ VoidBefore(o)' /\ OfferLast(o)'
        /\ Times(Line(Other(o))', A, Void(o)) = 0
        /\ Times(Line(o), O, Void(o)) = 0 => Times(Line(o)', O, Void(o)) = 0
    <2>1. /\ Tokens(o) <= 1 /\ VoidBefore(o) /\ OfferLast(o)
          /\ Times(Line(Other(o)), A, Void(o)) = 0
      BY <1>3 DEF BargainOf, ForCurrent
    <2>2. Fewer(Line(Other(o))', Line(Other(o)))
      BY <1>1, <1>4, FewerReflexive
    <2> QED
      BY <1>1, <1>5, <1>6, <2>1, <2>2, LineKept
  <1>8. ForCurrent(o)'
    BY <1>3, <1>6, <1>7 DEF BargainOf, ForCurrent
  <1>9. Waits(o)'
    BY <1>2, <1>3, <1>6 DEF BargainOf, Waits
  <1>10. Pends(o)'
    BY <1>1, <1>2, <1>3, <1>6 DEF BargainOf, Pends
  <1> QED
    BY <1>4, <1>5, <1>7, <1>8, <1>9, <1>10 DEF BargainOf

LEMMA RollBackKept ==
    ASSUME TInv, TInv', Bargained, NEW e \in Ends, HandleCallEvent(e),
           Head(events[e]).type = "rollback", RollBack(e)
    PROVE  Bargained'
  <1> DEFINE o == Other(e)
             x == Head(events[e])
  <1>1. o \in Ends /\ o # e /\ Other(o) = e /\ \A f \in Ends : f = e \/ f = o
    BY TheEnds DEF Ends
  <1>2. /\ events[e] # <<>> /\ events'[o] = events[o] /\ events'[e] = Tail(events[e])
        /\ x.of \in Offers /\ events[e] \in Seq(Items) /\ UNCHANGED <<inbox, creating>>
    BY EventParts
  <1>3. /\ signaling' = [signaling EXCEPT ![e] = "stable"] /\ local' = [local EXCEPT ![e] = NoOffer]
        /\ UNCHANGED <<outbox, made, local_offer_pending, mismatched>>
        /\ local \in [Ends -> Offers]
        /\ signaling \in [Ends -> {"stable", "have-local-offer"}]
    BY DEF RollBack, core, TInv, TypeOK
  <1>4. /\ signaling'[e] = "stable" /\ signaling'[o] = signaling[o]
        /\ local'[e] = NoOffer /\ local'[o] = local[o]
    BY <1>1, <1>3
  <1>5. BargainOf(e) /\ BargainOf(o) /\ ~mismatched
    BY <1>1 DEF Bargained
  <1>6. /\ Times(events[e], R, Offers) > 0
        /\ Times(events[e], R, Offers) = 1 => Times(events'[e], R, Offers) = 0
    <2>1. Fits(x, R, Offers)
      BY <1>2 DEF Fits, R
    <2> QED
      BY <1>2, <2>1, TailTimes
  <1>7. GivenWay(e) /\ e = "callee" /\ ~local_offer_pending[e]
    BY <1>5, <1>6 DEF GivenWay, BargainOf, Waits
  <1>8. ~GivenWay(e)'
    <2>1. Times(events[e], R, Offers) <= 1
      BY <1>5 DEF BargainOf, Waits
    <2>2. Times(events[e], R, Offers) = 1
      BY <1>6, <2>1, TimesNat
    <2> QED
      BY <1>6, <2>2 DEF GivenWay
  <1>9. Current(e) = {} /\ Current(e)' = {} /\ Void(e)' = Void(e)
    BY <1>4, <1>7 DEF Current, Void
  <1>10. VoidIgnored(o)'
    <2>1. Times(Line(o), O, Void(o)) = 0
      BY <1>1, <1>5, <1>7 DEF BargainOf, ForCurrent, Ends
    <2>2. /\ Times(outbox[o], O, Void(o)) = 0 /\ Times(inbox[e], O, Void(o)) = 0
          /\ Times(events[e], O, Void(o)) = 0
      BY <1>1, <2>1, LineByParts DEF LinesByParts
    <2>3. Times(events'[e], O, Void(o)) = 0
      BY <2>2, EventTimes
    <2>4. Void(o)' = Void(o)
      BY <1>2, <1>4 DEF GivenWay, Current, Void
    <2> QED
      BY <1>1, <1>2, <1>3, <2>2, <2>3, <2>4 DEF VoidIgnored
  <1>11. BargainOf(o)' /\ Line(e)' = Line(e) /\ Fewer(Line(o)', Line(o))
    BY <1>3, <1>4, <1>10, MakerKept
  <1>12. BargainOf(e)'
    <2>1. /\ Tokens(e) <= 1 /\ VoidBefore(e) /\ OfferLast(e)
          /\ Times(Line(Other(e)), A, Void(e)) = 0 /\ Times(made[e], O, Void(e)) = 0
      BY <1>5 DEF BargainOf, ForCurrent
    <2>2. Fewer(Line(e)', Line(e)) /\ Current(e)' = Current(e)
      BY <1>9, <1>11, FewerReflexive
    <2>3. /\ Tokens(e)' <= 1 /\ VoidBefore(e)' /\ OfferLast(e)'
          /\ Times(Line(Other(e))', A, Void(e)) = 0
      BY <1>11, <2>1, <2>2, LineKept
    <2>4. ForCurrent(e)'
      BY <1>3, <1>7, <1>9, <2>1, <2>3 DEF ForCurrent
    <2>5. VoidIgnored(e)'
      BY <1>2, <1>3, <1>4, <1>5, <1>9 DEF BargainOf, VoidIgnored
    <2>6. Waits(e)'
      <3>1. Times(events'[e], R, Offers) <= 1
        BY <1>5, <1>8, TimesNat DEF GivenWay
      <3> QED
        BY <1>3, <1>4, <1>7, <1>8, <3>1 DEF Waits
    <2>7. Pends(e)'
      BY <1>2, <1>3, <1>5, <1>7, <1>9 DEF BargainOf, Pends
    <2> QED
      BY <2>3, <2>4, <2>5, <2>6, <2>7 DEF BargainOf
  <1> QED
    BY <1>1, <1>3, <1>5, <1>11, <1>12 DEF Bargained

LEMMA AppliedKept ==
    ASSUME TInv, TInv', Bargained, NEW e \in Ends, HandleCallEvent(e),
           Head(events[e]).type = "answer", ApplyAnswer(e, Head(events[e]).of)
    PROVE  Bargained'
  <1> DEFINE o == Other(e)
             x == Head(events[e])
  <1>1. o \in Ends /\ o # e /\ Other(o) = e /\ \A f \in Ends : f = e \/ f = o
    BY TheEnds DEF Ends
  <1>2. /\ events[e] # <<>> /\ events'[o] = events[o] /\ events'[e] = Tail(events[e])
        /\ x.of \in Offers /\ events[e] \in Seq(Items) /\ UNCHANGED <<inbox, creating>>
    BY EventParts
  <1>3. UNCHANGED <<outbox, made, local_offer_pending>>
    BY DEF ApplyAnswer, core
  <1>4. CASE signaling[e] # "have-local-offer"
    <2>1. UNCHANGED <<local, signaling, mismatched>>
      BY <1>4 DEF ApplyAnswer
    <2> QED
      BY <1>3, <2>1, EventDropKept
  <1>5. CASE signaling[e] = "have-local-offer"
    <2>1. /\ signaling' = [signaling EXCEPT ![e] = "stable"] /\ local' = [local EXCEPT ![e] = NoOffer]
          /\ mismatched' = (mismatched \/ x.of # local[e])
          /\ local \in [Ends -> Offers]
          /\ signaling \in [Ends -> {"stable", "have-local-offer"}]
      BY <1>5 DEF ApplyAnswer, TInv, TypeOK
    <2>2. /\ signaling'[e] = "stable" /\ signaling'[o] = signaling[o]
          /\ local'[e] = NoOffer /\ local'[o] = local[o]
      BY <1>1, <2>1
    <2>3. BargainOf(e) /\ BargainOf(o) /\ ~mismatched
      BY <1>1 DEF Bargained
    <2>4. x.of \in Current(e) /\ Fits(x, A, Offers)
      <3>1. Times(Line(o), A, Void(e)) = 0
        BY <2>3 DEF BargainOf, ForCurrent
      <3>2. Times(events[e], A, Offers \ Current(e)) = 0
        BY <1>1, <3>1, LineByParts DEF LinesByParts, Void
      <3>3. x.type \in A
        BY DEF A
      <3>4. x.of \in Current(e)
        BY <1>2, <3>2, <3>3, HeadFits
      <3> QED
        BY <1>2, <3>3, <3>4 DEF Fits
    <2>5. ~mismatched' /\ ~GivenWay(e)
      BY <2>1, <2>3, <2>4, CurrentIs
    <2>6. Current(e)' = {} /\ Void(e)' = Offers /\ ~GivenWay(e)'
      <3>1. Times(events'[e], R, Offers) = Times(events[e], R, Offers)
        <4>1. x.type \notin R
          BY DEF R
        <4> QED
          BY <4>1, EventTimes
      <3>2. ~GivenWay(e)'
        BY <2>5, <3>1 DEF GivenWay
      <3> QED
        BY <2>2, <3>2 DEF Current, Void
    <2>7. /\ Times(events[e], A, Offers) > 0
          /\ Times(events[e], A, Offers) = 1 => Times(events'[e], A, Offers) = 0
      BY <1>2, <2>4, TailTimes
    <2>8. /\ Times(Line(e), O, Current(e)) = 0 /\ Times(events'[e], A, Offers) = 0
          /\ Times(inbox[e], A, Offers) = 0
          /\ Times(outbox[o], A, Offers) = 0 /\ Times(made[o], A, Offers) = 0
      <3>1. /\ Times(Line(e), O, Current(e)) = 0 \/ Times(Line(o), A, Offers) = 0
            /\ Times(Line(o), A, Offers) <= 1
        BY TokenAlone
      <3> DEFINE a == Times(events[e], A, Offers)
                 b == Times(inbox[e], A, Offers)
                 c == Times(outbox[o], A, Offers)
                 d == Times(made[o], A, Offers)
      <3>2. Times(Line(o), A, Offers) = a + b + c + d
        BY <1>1, <3>1, LineTimes
      <3>3. a \in Nat /\ b \in Nat /\ c \in Nat /\ d \in Nat
        BY TimesNat
      <3>4. a + b + c + d <= 1 /\ a > 0
        BY <2>7, <3>1, <3>2
      <3> HIDE DEF a, b, c, d
      <3>5. a = 1 /\ b = 0 /\ c = 0 /\ d = 0 /\ Times(Line(o), A, Offers) # 0
        BY <3>2, <3>3, <3>4
      <3> QED
        BY <2>7, <3>1, <3>5 DEF a, b, c, d
    <2>9. ~local_offer_pending[e]
      BY <2>3, <2>7 DEF BargainOf, Waits
    <2>10. VoidIgnored(o)'
      <3>1. ~Follows(Line(o), A, Offers, O, Void(o))
        BY <2>3 DEF BargainOf, VoidBefore
      <3>2. /\ Times(events'[e], O, Void(o)) = 0 /\ Times(inbox[e], O, Void(o)) = 0
            /\ Times(outbox[o], O, Void(o)) = 0
        BY <1>1, <1>2, <2>4, <3>1, LineFollows
      <3>3. Void(o)' = Void(o)
        BY <1>2, <2>2 DEF GivenWay, Current, Void
      <3> QED
        BY <1>1, <1>2, <1>3, <3>2, <3>3 DEF VoidIgnored
    <2>11. BargainOf(o)' /\ Line(e)' = Line(e) /\ Fewer(Line(o)', Line(o))
      BY <1>3, <2>2, <2>10, MakerKept
    <2>12. Times(Line(o)', A, Offers) = 0
      <3>1. LinesByParts'
        BY LineByPartsNext
      <3>2. /\ Times(events'[e], A, Offers) = 0 /\ Times(inbox'[e], A, Offers) = 0
            /\ Times(outbox'[o], A, Offers) = 0 /\ Times(made'[o], A, Offers) = 0
        BY <1>2, <1>3, <2>8
      <3> QED
        BY <1>1, <3>1, <3>2 DEF LinesByParts
    <2>13. \A s : Times(s, O, Current(e)) = 0 /\ Times(s, O, Void(e)) = 0 => Times(s, O, Offers) = 0
      BY TimesNone DEF Void
    <2>14. /\ Times(outbox[e], O, Current(e)) = 0 /\ Times(inbox[o], O, Current(e)) = 0
           /\ Times(events[o], O, Current(e)) = 0 /\ Times(made[e], O, Current(e)) = 0
      BY <2>8, LineByParts DEF LinesByParts
    <2>15. \A s, T : Times(s, T, {}) = 0
      BY TimesOfFew
    <2>16. Tokens(e)' <= 1
      <3>1. Tokens(e)' = Times(Line(e)', O, {}) + Times(Line(o)', A, {})
        BY <2>6 DEF Tokens, Answers
      <3> QED
        BY <2>15, <3>1
    <2>17. ForCurrent(e)'
      <3>1. Times(made[e], O, Offers) = 0
        BY <2>3, <2>13, <2>14 DEF BargainOf, ForCurrent
      <3>2. e = "caller" => Times(Line(e), O, Offers) = 0
        BY <2>3, <2>8, <2>13 DEF BargainOf, ForCurrent
      <3> QED
        BY <1>3, <2>6, <2>11, <2>12, <3>1, <3>2 DEF ForCurrent
    <2>18. VoidIgnored(e)'
      <3>1. VoidIgnored(e)
        BY <2>3 DEF BargainOf
      <3> QED
        BY <1>2, <1>3, <2>2, <2>6, <2>13, <2>14, <3>1 DEF VoidIgnored
    <2>19. VoidBefore(e)' /\ OfferLast(e)'
      <3>1. ~Follows(Line(e), A, Offers, O, Void(e))
        BY <2>3 DEF BargainOf, VoidBefore
      <3>2. Offers \ Void(e) = Current(e)
        BY CurrentIs DEF Void
      <3>3. ~Follows(Line(e), A, Offers, O, Offers)
        BY <2>8, <3>1, <3>2, FollowsOfFew
      <3>4. Times(Line(e)', O, {}) = 0
        BY <2>15
      <3>5. ~Follows(Line(e)', O, {}, A, Offers)
        BY <3>4, FollowsNone
      <3> QED
        BY <2>6, <2>11, <3>3, <3>5 DEF VoidBefore, OfferLast
    <2>20. Waits(e)'
      <3>1. Times(events'[e], R, Offers) <= 1
        BY <2>6, TimesNat DEF GivenWay
      <3> QED
        BY <1>3, <2>2, <2>6, <2>9, <3>1 DEF Waits
    <2>21. Pends(e)'
      <3>1. {"answer"} \subseteq A
        BY DEF A
      <3>2. Times(outbox[o], {"answer"}, Offers) = 0 /\ Times(inbox[e], {"answer"}, Offers) = 0
        BY <2>8, <3>1, TimesNone
      <3> QED
        BY <1>2, <1>3, <2>6, <2>8, <2>15, <3>2 DEF Pends
    <2>22. BargainOf(e)'
      BY <2>16, <2>17, <2>18, <2>19, <2>20, <2>21 DEF BargainOf
    <2> QED
      BY <1>1, <2>5, <2>11, <2>22 DEF Bargained
  <1> QED
    BY <1>4, <1>5

LEMMA AnsweredKept ==
    ASSUME TInv, TInv', Bargained, NEW e \in Ends, HandleCallEvent(e),
           Head(events[e]).type = "offer", AnswerOffer(e, Head(events[e]).of),
           signaling[e] = "stable"
    PROVE  Bargained'
  <1> DEFINE o == Other(e)
             x == Head(events[e])
             y == [type |-> "answer", of |-> x.of]
  <1>1. o \in Ends /\ o # e /\ Other(o) = e /\ \A f \in Ends : f = e \/ f = o
    BY TheEnds DEF Ends
  <1>2. /\ events[e] # <<>> /\ events'[o] = events[o] /\ events'[e] = Tail(events[e])
        /\ x.of \in Offers /\ events[e] \in Seq(Items) /\ UNCHANGED <<inbox, creating>>
    BY EventParts
  <1>3. /\ made' = [made EXCEPT ![e] = Append(@, y)]
        /\ UNCHANGED <<outbox, local_offer_pending, signaling, local, mismatched>>
    BY DEF AnswerOffer, core
  <1>4. /\ made \in [Ends -> Seq(Made)] /\ y \in Made
        /\ made'[e] = Append(made[e], y) /\ made'[o] = made[o] /\ made[e] \in Seq(Made)
    BY <1>1, <1>2, <1>3 DEF TInv, Made
  <1>5. ~Fits(y, O, Offers) /\ \A W : ~Fits(y, O, W)
    BY DEF Fits, O
  <1>6. BargainOf(e) /\ BargainOf(o) /\ ~mismatched
    BY <1>1 DEF Bargained
  <1>7. \A f \in Ends : Times(events'[f], R, Offers) = Times(events[f], R, Offers)
    <2>1. x.type \notin R
      BY DEF R
    <2>2. Times(events'[e], R, Offers) = Times(events[e], R, Offers)
      BY <2>1, EventTimes
    <2> QED
      BY <1>1, <1>2, <2>2
  <1>8. \A f \in Ends : GivenWay(f)' = GivenWay(f) /\ Current(f)' = Current(f) /\ Void(f)' = Void(f)
    BY <1>3, <1>7 DEF GivenWay, Current, Void
  <1>9. Current(e) = {} /\ Void(e) = Offers /\ ~GivenWay(e) /\ ~local_offer_pending[e]
    BY <1>6, CurrentIs DEF BargainOf, Waits, Void
  <1>10. Fits(x, O, Current(o)) /\ x.of \in Current(o) /\ Times(events[e], O, Current(o)) > 0
    <2>1. Times(events[e], O, Offers \ Current(o)) = 0
      BY <1>1, <1>6 DEF BargainOf, VoidIgnored, Void
    <2>2. x.type \in O
      BY DEF O
    <2> QED
      BY <1>2, <2>1, <2>2, HeadFits
  <1>11. local_offer_pending[o] /\ signaling[o] = "have-local-offer"
    BY <1>1, <1>6, <1>10 DEF BargainOf, Pends, Waits
  <1>12. Fewer(Line(o)', Line(o))
    <2>1. \A f \in Ends : Fewer(Line(f)', Line(f)) \/ Fewer(Line(o)', Line(o))
      BY <1>1, EventLines
    <2> QED
      BY <1>1, <2>1
  <1>13. /\ \A T, W : ~Fits(y, T, W) => Times(Line(e)', T, W) = Times(Line(e), T, W)
         /\ \A T, W : Times(Line(e), T, W) = 0 => Times(Line(e)', T, W) <= 1
         /\ \A T, W, U, V : Follows(Line(e)', T, W, U, V) =>
               Follows(Line(e), T, W, U, V) \/ Fits(y, U, V)
    <2> HIDE DEF y
    <2>1. /\ \A T, W : Times(Line(e)', T, W) =
                 IF Fits(y, T, W) THEN IF Times(Line(e), T, W) = 0 THEN 1 ELSE 2
                 ELSE Times(Line(e), T, W)
          /\ \A T, W, U, V : Follows(Line(e)', T, W, U, V) =>
                 Follows(Line(e), T, W, U, V) \/ (Times(Line(e), T, W) > 0 /\ Fits(y, U, V))
      BY <1>1, <1>2, <1>3, <1>4, MadeLines
    <2>2. \A T, W : ~Fits(y, T, W) => Times(Line(e)', T, W) = Times(Line(e), T, W)
      BY <2>1
    <2>3. \A T, W : Times(Line(e), T, W) = 0 => Times(Line(e)', T, W) <= 1
      BY <2>1
    <2> QED
      BY <2>1, <2>2, <2>3
  <1>14. \A s, T : Times(s, T, {}) = 0
    BY TimesOfFew
  <1>15. /\ Times(Line(e), A, Offers) = 0 /\ Times(Line(o)', O, Current(o)) = 0
         /\ Times(Line(e), A, Current(o)) = 0
    <2>1. /\ Times(Line(o), O, Current(o)) = 0 \/ Times(Line(e), A, Offers) = 0
          /\ Times(Line(o), O, Current(o)) <= 1
      BY <1>1, TokenAlone
    <2> DEFINE a == Times(events[e], O, Current(o))
               b == Times(inbox[e], O, Current(o))
               c == Times(outbox[o], O, Current(o))
               d == Times(made[o], O, Current(o))
    <2>2. Times(Line(o), O, Current(o)) = a + b + c + d
      BY <1>1, <2>1, LineTimes
    <2>3. a \in Nat /\ b \in Nat /\ c \in Nat /\ d \in Nat
      BY TimesNat
    <2>4. a + b + c + d <= 1 /\ a > 0
      BY <1>10, <2>1, <2>2
    <2>5. a = 1 => Times(events'[e], O, Current(o)) = 0
      BY <1>2, <1>10, TailTimes
    <2> HIDE DEF a, b, c, d
    <2>6. a = 1 /\ b = 0 /\ c = 0 /\ d = 0 /\ Times(Line(o), O, Current(o)) # 0
      BY <2>2, <2>3, <2>4
    <2>7. /\ Times(events'[e], O, Current(o)) = 0 /\ Times(inbox'[e], O, Current(o)) = 0
          /\ Times(outbox'[o], O, Current(o)) = 0 /\ Times(made'[o], O, Current(o)) = 0
      BY <1>2, <1>3, <1>4, <2>5, <2>6 DEF b, c, d
    <2>8. LinesByParts'
      BY LineByPartsNext
    <2>9. Times(Line(o)', O, Current(o)) = 0
      BY <1>1, <2>7, <2>8 DEF LinesByParts
    <2>10. Times(Line(e), A, Offers) = 0 /\ Current(o) \subseteq Offers
      BY <1>1, <2>1, <2>6, CurrentIs
    <2> QED
      BY <2>9, <2>10, TimesNone
  <1>16. BargainOf(e)'
    <2>1. Current(e)' = {} /\ Void(e)' = Offers /\ ~GivenWay(e)'
      BY <1>8, <1>9
    <2>2. Tokens(e)' <= 1
      <3>1. Tokens(e)' = Times(Line(e)', O, {}) + Times(Line(o)', A, {})
        BY <2>1 DEF Tokens, Answers
      <3> QED
        BY <1>14, <3>1
    <2>3. ForCurrent(e)'
      <3>1. /\ Times(Line(o), A, Offers) = 0 /\ Times(made[e], O, Offers) = 0
            /\ e = "caller" => Times(Line(e), O, Offers) = 0
        BY <1>6, <1>9 DEF BargainOf, ForCurrent
      <3>2. Times(Line(o)', A, Offers) <= Times(Line(o), A, Offers) /\ Times(Line(o)', A, Offers) \in Nat
        BY <1>12, TimesNat DEF Fewer
      <3>3. Times(made'[e], O, Offers) = 0
        <4> HIDE DEF y
        <4>1. Times(Append(made[e], y), O, Offers) = Times(made[e], O, Offers)
          BY <1>4, <1>5, AppendTimes
        <4> QED
          BY <1>4, <3>1, <4>1
      <3>4. e = "caller" => Times(Line(e)', O, Offers) = 0
        BY <1>5, <1>13, <3>1
      <3>5. Times(Line(o)', A, Offers) = 0
        BY <3>1, <3>2
      <3> QED
        BY <2>1, <3>3, <3>4, <3>5 DEF ForCurrent
    <2>4. VoidIgnored(e)'
      BY <1>3, <1>11 DEF VoidIgnored
    <2>5. VoidBefore(e)' /\ OfferLast(e)'
      <3>1. ~Follows(Line(e), A, Offers, O, Offers)
        BY <1>6, <1>9 DEF BargainOf, VoidBefore
      <3>2. ~Follows(Line(e)', A, Offers, O, Offers)
        BY <1>5, <1>13, <3>1
      <3>3. Times(Line(e)', O, {}) = 0
        BY <1>14
      <3>4. ~Follows(Line(e)', O, {}, A, Offers)
        BY <3>3, FollowsNone
      <3> QED
        BY <2>1, <3>2, <3>4 DEF VoidBefore, OfferLast
    <2>6. Waits(e)'
      <3>1. Times(events'[e], R, Offers) <= 1
        BY <2>1, TimesNat DEF GivenWay
      <3> QED
        BY <1>3, <1>9, <2>1, <3>1 DEF Waits
    <2>7. Pends(e)'
      BY <1>1, <1>2, <1>3, <1>4, <1>6, <1>9, <1>14, <2>1 DEF BargainOf, Pends
    <2> QED
      BY <2>2, <2>3, <2>4, <2>5, <2>6, <2>7 DEF BargainOf
  <1>17. BargainOf(o)'
    <2>1. Current(o)' = Current(o) /\ Void(o)' = Void(o) /\ GivenWay(o)' = GivenWay(o)
      BY <1>1, <1>8
    <2>2. Tokens(o)' <= 1
      <3>1. Tokens(o)' = Times(Line(o)', O, Current(o)) + Times(Line(e)', A, Current(o))
        BY <1>1, <2>1 DEF Tokens, Answers
      <3>2. Times(Line(e)', A, Current(o)) <= 1 /\ Times(Line(e)', A, Current(o)) \in Nat
        BY <1>13, <1>15, TimesNat
      <3> QED
        BY <1>15, <3>1, <3>2
    <2>3. ForCurrent(o)'
      <3>1. /\ Times(Line(e), A, Void(o)) = 0 /\ Times(made[o], O, Void(o)) = 0
            /\ o = "caller" => Times(Line(o), O, Void(o)) = 0
        BY <1>1, <1>6 DEF BargainOf, ForCurrent
      <3>2. ~Fits(y, A, Void(o))
        BY <1>10 DEF Fits, Void
      <3>3. Times(Line(e)', A, Void(o)) = 0
        BY <1>13, <3>1, <3>2
      <3>4. Times(Line(o)', O, Void(o)) <= Times(Line(o), O, Void(o)) /\ Times(Line(o)', O, Void(o)) \in Nat
        BY <1>1, <1>12, CurrentIs, TimesNat DEF Fewer
      <3>5. o = "caller" => Times(Line(o)', O, Void(o)) = 0
        BY <3>1, <3>4
      <3> QED
        BY <1>1, <1>4, <2>1, <3>1, <3>3, <3>5 DEF ForCurrent
    <2>4. VoidIgnored(o)'
      <3>1. VoidIgnored(o)
        BY <1>6 DEF BargainOf
      <3>2. Times(events[e], O, Void(o)) = 0 => Times(events'[e], O, Void(o)) = 0
        BY EventTimes
      <3> QED
        BY <1>1, <1>2, <1>3, <2>1, <3>1, <3>2 DEF VoidIgnored
    <2>5. VoidBefore(o)' /\ OfferLast(o)'
      <3>1. ~Follows(Line(o), A, Offers, O, Void(o))
        BY <1>6 DEF BargainOf, VoidBefore
      <3>2. ~Follows(Line(o)', A, Offers, O, Void(o))
        BY <1>1, <1>12, <3>1, CurrentIs, TimesNat DEF Fewer
      <3>3. ~Follows(Line(o)', O, Current(o), A, Offers)
        BY <1>15, FollowsNone
      <3> QED
        BY <2>1, <3>2, <3>3 DEF VoidBefore, OfferLast
    <2>6. Waits(o)'
      BY <1>2, <1>3, <1>4, <1>6, <2>1 DEF BargainOf, Waits
    <2>7. Pends(o)'
      BY <1>3, <1>11 DEF Pends
    <2> QED
      BY <2>2, <2>3, <2>4, <2>5, <2>6, <2>7 DEF BargainOf
  <1> QED
    BY <1>1, <1>3, <1>6, <1>16, <1>17 DEF Bargained

LEMMA EventKept ==
    ASSUME TInv, TInv', Bargained, NEW e \in Ends, HandleCallEvent(e)
    PROVE  Bargained'
  <1> DEFINE x == Head(events[e])
  <1>1. \/ x.type = "answer" /\ ApplyAnswer(e, x.of)
        \/ x.type = "rollback" /\ RollBack(e)
        \/ x.type = "offer" /\ AnswerOffer(e, x.of)
    BY DEF HandleCallEvent
  <1>2. CASE x.type = "answer" /\ ApplyAnswer(e, x.of)
    BY <1>2, AppliedKept
  <1>3. CASE x.type = "rollback" /\ RollBack(e)
    BY <1>3, RollBackKept
  <1>4. CASE x.type = "offer" /\ AnswerOffer(e, x.of)
    <2>1. CASE signaling[e] = "stable"
      BY <1>4, <2>1, AnsweredKept
    <2>2. CASE signaling[e] # "stable"
      <3>1. /\ Send(e, "hangup", NoOffer)
            /\ UNCHANGED <<made, local, local_offer_pending, signaling, mismatched>>
        BY <1>4, <2>2 DEF AnswerOffer, HangUpFailed
      <3> QED
        BY <1>4, <3>1, EventDropKept
    <2> QED
      BY <2>1, <2>2
  <1> QED
    BY <1>1, <1>2, <1>3, <1>4

-------------------------------------------------------------------------------
(* What the embedder offers, and sends.                                      *)

LEMMA BeginKept ==
    ASSUME TInv, Bargained, NEW e \in Ends, BeginOffer(e)
    PROVE  Bargained'
  <1>1. /\ UNCHANGED <<local_offer_pending, outbox, inbox, events, made, signaling, local,
                       mismatched>>
        /\ creating' = [creating EXCEPT ![e] = TRUE] /\ signaling[e] = "stable"
    BY DEF BeginOffer, core, wire
  <1>2. creating \in [Ends -> BOOLEAN]
    BY DEF TInv, TypeOK
  <1>3. ASSUME NEW f \in Ends PROVE BargainOf(f)'
    <2>1. BargainOf(f)
      BY DEF Bargained
    <2>2. /\ Current(f)' = Current(f) /\ Void(f)' = Void(f) /\ GivenWay(f)' = GivenWay(f)
          /\ Line(f)' = Line(f) /\ Line(Other(f))' = Line(Other(f))
      BY <1>1 DEF GivenWay, Current, Void, Line
    <2>3. Waits(f)'
      BY <1>1, <1>2, <2>1, <2>2 DEF BargainOf, Waits
    <2>4. Tokens(f)' = Tokens(f)
      BY <2>2 DEF Tokens, Answers
    <2>5. ForCurrent(f)' /\ VoidIgnored(f)'
      BY <1>1, <2>1, <2>2 DEF BargainOf, ForCurrent, VoidIgnored
    <2>6. VoidBefore(f)' /\ OfferLast(f)' /\ Pends(f)'
      BY <1>1, <2>1, <2>2 DEF BargainOf, VoidBefore, OfferLast, Pends
    <2> QED
      BY <2>1, <2>3, <2>4, <2>5, <2>6 DEF BargainOf
  <1> QED
    BY <1>1, <1>3 DEF Bargained

LEMMA CreateKept ==
    ASSUME TInv, TInv', CountInv, Bargained, NEW e \in Ends, CreateOffer(e)
    PROVE  Bargained'
  <1> DEFINE o == Other(e)
             x == [by |-> e, n |-> offers[e]]
             y == [type |-> "offer", of |-> x]
  <1>1. o \in Ends /\ o # e /\ Other(o) = e /\ \A f \in Ends : f = e \/ f = o
    BY TheEnds DEF Ends
  <1>2. /\ creating[e] /\ creating' = [creating EXCEPT ![e] = FALSE]
        /\ signaling' = [signaling EXCEPT ![e] = "have-local-offer"]
        /\ local' = [local EXCEPT ![e] = x]
        /\ made' = [made EXCEPT ![e] = Append(@, y)]
        /\ UNCHANGED <<local_offer_pending, outbox, inbox, events, mismatched>>
    BY DEF CreateOffer, core, wire
  <1>3. /\ made \in [Ends -> Seq(Made)] /\ creating \in [Ends -> BOOLEAN]
        /\ local \in [Ends -> Offers] /\ offers[e] \in Nat
        /\ signaling \in [Ends -> {"stable", "have-local-offer"}]
    BY DEF TInv, TypeOK
  <1>4. x \in Offers /\ x # NoOffer /\ y \in Made
    BY <1>3 DEF Offers, NoOffer, Made, Ends
  <1>5. /\ made'[e] = Append(made[e], y) /\ made'[o] = made[o] /\ made[e] \in Seq(Made)
        /\ ~creating'[e] /\ creating'[o] = creating[o]
        /\ local'[e] = x /\ local'[o] = local[o] /\ signaling'[o] = signaling[o]
    BY <1>1, <1>2, <1>3
  <1>6. BargainOf(e) /\ BargainOf(o) /\ ~mismatched
    BY <1>1 DEF Bargained
  <1>7. Times(Line(e), O, {x}) = 0
    <2>1. Times(Line(e), O, NotYet(e)) = 0
      BY DEF CountInv, Counted
    <2>2. {x} \subseteq NotYet(e)
      BY <1>2, <1>4 DEF NotYet
    <2> QED
      BY <2>1, <2>2, TimesNone
  <1> HIDE DEF x
  <1>8. /\ signaling[e] = "stable" /\ Current(e) = {} /\ Void(e) = Offers
        /\ ~GivenWay(e) /\ ~local_offer_pending[e]
    BY <1>2, <1>6, CurrentIs DEF BargainOf, Waits, Void
  <1>9. Current(e)' = {x} /\ Void(e)' = Offers \ {x} /\ ~GivenWay(e)'
    BY <1>2, <1>4, <1>5, <1>8 DEF GivenWay, Current, Void
  <1>10. Current(o)' = Current(o) /\ Void(o)' = Void(o) /\ GivenWay(o)' = GivenWay(o)
    BY <1>2, <1>5 DEF GivenWay, Current, Void
  <1>11. Line(o)' = Line(o)
    BY <1>1, <1>2, <1>5 DEF Line
  <1>12. Fits(y, O, {x}) /\ ~Fits(y, O, Offers \ {x}) /\ \A W : ~Fits(y, A, W)
    BY DEF Fits, O, A
  <1> HIDE DEF y
  <1>13. /\ \A T, W : ~Fits(y, T, W) => Times(Line(e)', T, W) = Times(Line(e), T, W)
         /\ \A T, W : Times(Line(e), T, W) = 0 => Times(Line(e)', T, W) <= 1
         /\ \A T, W, U, V : Follows(Line(e)', T, W, U, V) =>
               Follows(Line(e), T, W, U, V) \/ Fits(y, U, V)
    <2>1. /\ \A T, W : Times(Line(e)', T, W) =
                 IF Fits(y, T, W) THEN IF Times(Line(e), T, W) = 0 THEN 1 ELSE 2
                 ELSE Times(Line(e), T, W)
          /\ \A T, W, U, V : Follows(Line(e)', T, W, U, V) =>
                 Follows(Line(e), T, W, U, V) \/ (Times(Line(e), T, W) > 0 /\ Fits(y, U, V))
      BY <1>1, <1>2, <1>4, <1>5, MadeLines
    <2>2. \A T, W : ~Fits(y, T, W) => Times(Line(e)', T, W) = Times(Line(e), T, W)
      BY <2>1
    <2>3. \A T, W : Times(Line(e), T, W) = 0 => Times(Line(e)', T, W) <= 1
      BY <2>1
    <2> QED
      BY <2>1, <2>2, <2>3
  <1>14. \A T, W : ~Fits(y, T, W) => Times(made'[e], T, W) = Times(made[e], T, W)
    BY <1>4, <1>5, AppendTimes
  <1>15. \A s, T : Times(s, T, Offers) = 0 => Times(s, T, Offers \ {x}) = 0 /\ Times(s, T, {x}) = 0
    BY <1>4, TimesNone
  <1>16. BargainOf(e)'
    <2>1. /\ Times(Line(o), A, Offers) = 0 /\ Times(made[e], O, Offers) = 0
          /\ e = "caller" => Times(Line(e), O, Offers) = 0
      BY <1>6, <1>8 DEF BargainOf, ForCurrent
    <2>2. Tokens(e)' <= 1
      <3>1. Tokens(e)' = Times(Line(e)', O, {x}) + Times(Line(o)', A, {x})
        BY <1>9 DEF Tokens, Answers
      <3>2. Times(Line(o)', A, {x}) = 0
        BY <1>11, <1>15, <2>1
      <3>3. Times(Line(e)', O, {x}) <= 1 /\ Times(Line(e)', O, {x}) \in Nat
        BY <1>7, <1>13, TimesNat
      <3> QED
        BY <3>1, <3>2, <3>3
    <2>3. ForCurrent(e)'
      <3>1. Times(made'[e], O, Offers \ {x}) = 0
        BY <1>12, <1>14, <1>15, <2>1
      <3>2. e = "caller" => Times(Line(e)', O, Offers \ {x}) = 0
        BY <1>12, <1>13, <1>15, <2>1
      <3>3. Times(Line(o)', A, Offers \ {x}) = 0
        BY <1>11, <1>15, <2>1
      <3> QED
        BY <1>9, <3>1, <3>2, <3>3 DEF ForCurrent
    <2>4. VoidIgnored(e)'
      <3>1. /\ ~local_offer_pending[o] => Times(outbox[e], O, Offers) = 0 /\ Times(inbox[o], O, Offers) = 0
            /\ signaling[o] = "stable" => Times(events[o], O, Offers) = 0
        BY <1>6, <1>8 DEF BargainOf, VoidIgnored
      <3>2. /\ ~local_offer_pending[o] =>
                  Times(outbox[e], O, Offers \ {x}) = 0 /\ Times(inbox[o], O, Offers \ {x}) = 0
            /\ signaling[o] = "stable" => Times(events[o], O, Offers \ {x}) = 0
        BY <1>15, <3>1
      <3> QED
        BY <1>2, <1>5, <1>9, <3>2 DEF VoidIgnored
    <2>5. VoidBefore(e)'
      <3>1. ~Follows(Line(e), A, Offers, O, Offers)
        BY <1>6, <1>8 DEF BargainOf, VoidBefore
      <3>2. ~Follows(Line(e), A, Offers, O, Offers \ {x})
        BY <3>1, FollowsOfFew
      <3>3. ~Follows(Line(e)', A, Offers, O, Offers \ {x})
        BY <1>12, <1>13, <3>2
      <3> QED
        BY <1>9, <3>3 DEF VoidBefore
    <2>6. OfferLast(e)'
      <3>1. ~Follows(Line(e), O, {x}, A, Offers)
        BY <1>7, FollowsNone
      <3>2. ~Follows(Line(e)', O, {x}, A, Offers)
        BY <1>12, <1>13, <3>1
      <3> QED
        BY <1>9, <3>2 DEF OfferLast
    <2>7. Waits(e)'
      BY <1>2, <1>5, <1>6, <1>8, <1>9 DEF BargainOf, Waits
    <2>8. Pends(e)'
      <3>1. /\ Times(outbox[e], O, {x}) = 0 /\ Times(inbox[o], O, {x}) = 0
            /\ Times(events[o], O, {x}) = 0
        BY <1>7, LineByParts DEF LinesByParts
      <3>2. Pends(e)
        BY <1>6 DEF BargainOf
      <3> QED
        BY <1>2, <1>5, <1>8, <1>9, <3>1, <3>2 DEF Pends
    <2> QED
      BY <2>2, <2>3, <2>4, <2>5, <2>6, <2>7, <2>8 DEF BargainOf
  <1>17. BargainOf(o)'
    <2>1. Tokens(o)' <= 1
      <3>1. Tokens(o)' = Times(Line(o)', O, Current(o)) + Times(Line(e)', A, Current(o))
        BY <1>1, <1>10 DEF Tokens, Answers
      <3>2. Times(Line(e)', A, Current(o)) = Times(Line(e), A, Current(o))
        BY <1>12, <1>13
      <3>3. Tokens(o) = Times(Line(o), O, Current(o)) + Times(Line(e), A, Current(o))
        BY <1>1 DEF Tokens, Answers
      <3> QED
        BY <1>6, <1>11, <3>1, <3>2, <3>3 DEF BargainOf
    <2>2. ForCurrent(o)'
      <3>1. Times(Line(e)', A, Void(o)) = Times(Line(e), A, Void(o))
        BY <1>12, <1>13
      <3> QED
        BY <1>1, <1>5, <1>6, <1>10, <1>11, <3>1 DEF BargainOf, ForCurrent
    <2>3. VoidIgnored(o)' /\ VoidBefore(o)' /\ OfferLast(o)'
      <3>1. VoidIgnored(o)'
        <4>1. signaling'[e] = "have-local-offer"
          BY <1>2, <1>3
        <4> QED
          BY <1>1, <1>2, <1>6, <1>10, <4>1 DEF BargainOf, VoidIgnored
      <3>2. VoidBefore(o)' /\ OfferLast(o)'
        BY <1>6, <1>10, <1>11 DEF BargainOf, VoidBefore, OfferLast
      <3> QED
        BY <3>1, <3>2
    <2>4. Waits(o)'
      BY <1>2, <1>5, <1>6, <1>10 DEF BargainOf, Waits
    <2>5. Pends(o)'
      <3>1. Times(made'[e], A, Offers) = Times(made[e], A, Offers)
        BY <1>12, <1>14
      <3> QED
        BY <1>1, <1>2, <1>6, <1>10, <3>1 DEF BargainOf, Pends
    <2> QED
      BY <2>1, <2>2, <2>3, <2>4, <2>5 DEF BargainOf
  <1> QED
    BY <1>1, <1>2, <1>6, <1>16, <1>17 DEF Bargained

LEMMA SendKept ==
    ASSUME TInv, TInv', Bargained, NEW e \in Ends, SendNegotiate(e)
    PROVE  Bargained'
  <1> DEFINE o == Other(e)
             d == Head(made[e])
             m == [type |-> d.type, of |-> d.of, muted |-> muted'[e]]
  <1>1. o \in Ends /\ o # e /\ Other(o) = e /\ \A f \in Ends : f = e \/ f = o
    BY TheEnds DEF Ends
  <1>2. /\ made[e] # <<>> /\ d \in Made /\ made' = [made EXCEPT ![e] = Tail(@)] /\ m \in Messages
        /\ UNCHANGED <<inbox, events, creating, signaling, local, mismatched>> /\ SendsOn(e)
    BY SendCases
  <1>3. /\ outbox \in [Ends -> Seq(Messages)] /\ made \in [Ends -> Seq(Made)]
        /\ local_offer_pending \in [Ends -> BOOLEAN] /\ made[e] \in Seq(Items)
    BY PartTypes DEF TInv, TypeOK
  <1>4. made'[e] = Tail(made[e]) /\ made'[o] = made[o]
    BY <1>1, <1>2, <1>3
  <1>5. \A T, W : Times(made'[e], T, W) <= Times(made[e], T, W)
    BY <1>2, <1>3, <1>4, TailTimes
  <1>6. \A T, W : Times(made[e], T, W) = 0 => Times(made'[e], T, W) = 0
    <2> TAKE T, W
    <2>1. Times(made'[e], T, W) <= Times(made[e], T, W) /\ Times(made'[e], T, W) \in Nat
      BY <1>5, TimesNat
    <2> QED
      BY <2>1
  <1>7. \A f \in Ends : Fewer(Line(f)', Line(f))
    <2>1. Fewer(Line(e)', Line(e)) /\ Line(o)' = Line(o)
      BY SendNegotiateLines
    <2> QED
      BY <1>1, <2>1, FewerReflexive
  <1>8. \A f \in Ends : Current(f)' = Current(f) /\ GivenWay(f)' = GivenWay(f)
    BY <1>2 DEF GivenWay, Current
  <1>9. \A f \in Ends :
              /\ Tokens(f)' <= 1 /\ VoidBefore(f)' /\ OfferLast(f)' /\ Void(f)' = Void(f)
              /\ Times(Line(Other(f))', A, Void(f)) = 0
              /\ f = "caller" => Times(Line(f)', O, Void(f)) = 0
    BY <1>7, <1>8, LinesKept
  <1>10. BargainOf(e) /\ BargainOf(o) /\ ~mismatched
    BY <1>1 DEF Bargained
  <1>11. ForCurrent(e)' /\ ForCurrent(o)'
    <2>1. ForCurrent(e)'
      BY <1>6, <1>9, <1>10 DEF BargainOf, ForCurrent
    <2>2. ForCurrent(o)'
      BY <1>1, <1>4, <1>9, <1>10 DEF BargainOf, ForCurrent
    <2> QED
      BY <2>1, <2>2
  <1>12. CASE outbox' = [outbox EXCEPT ![e] = @ \o <<>>] /\ local_offer_pending' = local_offer_pending
    <2>1. outbox' = outbox
      BY <1>3, <1>12, ConcatEmptySeq
    <2>2. \A f \in Ends : VoidIgnored(f)'
      BY <1>1, <1>2, <1>9, <1>10, <1>12, <2>1 DEF BargainOf, VoidIgnored
    <2>3. Waits(e)' /\ Waits(o)'
      <3>1. Waits(e)'
        BY <1>2, <1>6, <1>8, <1>10, <1>12 DEF BargainOf, Waits
      <3>2. Waits(o)'
        BY <1>1, <1>2, <1>4, <1>8, <1>10, <1>12 DEF BargainOf, Waits
      <3> QED
        BY <3>1, <3>2
    <2>4. Pends(e)' /\ Pends(o)'
      <3>1. Pends(e)'
        BY <1>2, <1>4, <1>8, <1>10, <1>12, <2>1 DEF BargainOf, Pends
      <3>2. Pends(o)'
        BY <1>1, <1>2, <1>6, <1>8, <1>10, <1>12, <2>1 DEF BargainOf, Pends
      <3> QED
        BY <3>1, <3>2
    <2> QED
      BY <1>1, <1>2, <1>9, <1>10, <1>11, <2>2, <2>3, <2>4 DEF Bargained, BargainOf
  <1>13. CASE /\ outbox' = [outbox EXCEPT ![e] = @ \o <<m>>]
              /\ ~(d.type = "offer" /\ local_offer_pending[e])
              /\ local_offer_pending' = [local_offer_pending EXCEPT ![e] = @ \/ d.type = "offer"]
    <2>1. /\ outbox'[o] = outbox[o] /\ outbox'[e] = outbox[e] \o <<m>>
          /\ local_offer_pending'[o] = local_offer_pending[o]
          /\ local_offer_pending'[e] = (local_offer_pending[e] \/ d.type = "offer")
      BY <1>1, <1>3, <1>13
    <2>2. \A T, W : ~Fits(m, T, W) => Times(outbox'[e], T, W) = Times(outbox[e], T, W)
      <3> HIDE DEF m
      <3>1. outbox'[e] = Append(outbox[e], m)
        BY <1>2, <1>3, <2>1, AppendedIsConcat
      <3> QED
        BY <1>2, <1>3, <3>1, AppendTimes
    <2>3. \A T, W : Fits(m, T, W) <=> Fits(d, T, W)
      BY DEF Fits
    <2>4. d.of \in Offers /\ d.type \in {"offer", "answer"}
      BY <1>2 DEF Made
    <2>5. d.type = "offer" => d.of \in Current(e)
      <3> SUFFICES ASSUME d.type = "offer" PROVE d.of \in Current(e)
        OBVIOUS
      <3>1. Times(made[e], O, Offers \ Current(e)) = 0
        BY <1>10 DEF BargainOf, ForCurrent, Void
      <3>2. d.type \in O
        BY DEF O
      <3> QED
        BY <1>2, <1>3, <2>4, <3>1, <3>2, HeadFits
    <2>6. d.type = "answer" => local_offer_pending[o]
      <3> SUFFICES ASSUME d.type = "answer" PROVE local_offer_pending[o]
        OBVIOUS
      <3>1. Fits(d, A, Offers)
        BY <2>4 DEF Fits, A
      <3>2. Times(made[e], A, Offers) > 0
        BY <1>2, <1>3, <3>1, TailTimes
      <3> QED
        BY <1>1, <1>10, <3>2 DEF BargainOf, Pends
    <2>7. ~Fits(m, O, Void(e))
      <3>1. ~Fits(d, O, Void(e))
        BY <2>5 DEF Fits, O, Void
      <3> QED
        BY <2>3, <3>1
    <2>8. VoidIgnored(e)'
      <3>1. Times(outbox'[e], O, Void(e)) = Times(outbox[e], O, Void(e))
        BY <2>2, <2>7
      <3>2. VoidIgnored(e) /\ Void(e)' = Void(e)
        BY <1>9, <1>10 DEF BargainOf
      <3>3. /\ ~local_offer_pending[o] => Times(outbox[e], O, Void(e)) = 0 /\ Times(inbox[o], O, Void(e)) = 0
            /\ signaling[o] = "stable" => Times(events[o], O, Void(e)) = 0
        BY <3>2 DEF VoidIgnored
      <3>4. /\ ~local_offer_pending'[o] => Times(outbox'[e], O, Void(e)) = 0 /\ Times(inbox'[o], O, Void(e)) = 0
            /\ signaling'[o] = "stable" => Times(events'[o], O, Void(e)) = 0
        BY <1>2, <2>1, <3>1, <3>3
      <3> QED
        BY <3>2, <3>4 DEF VoidIgnored
    <2>9. VoidIgnored(o)'
      BY <1>1, <1>2, <1>9, <1>10, <2>1 DEF BargainOf, VoidIgnored
    <2>10. Waits(o)'
      BY <1>1, <1>2, <1>4, <1>8, <1>10, <2>1 DEF BargainOf, Waits
    <2>11. Pends(o)'
      <3>1. CASE d.type = "answer"
        BY <2>1, <2>6, <3>1 DEF Pends
      <3>2. CASE d.type = "offer"
        <4>1. ~Fits(m, {"answer"}, Offers)
          BY <3>2 DEF Fits
        <4>2. Times(outbox'[e], {"answer"}, Offers) = Times(outbox[e], {"answer"}, Offers)
          BY <2>2, <4>1
        <4> QED
          BY <1>1, <1>2, <1>6, <1>8, <1>10, <2>1, <4>2 DEF BargainOf, Pends
      <3> QED
        BY <2>4, <3>1, <3>2
    <2>12. Waits(e)' /\ Pends(e)'
      <3>1. CASE d.type = "answer"
        <4>1. local_offer_pending'[e] = local_offer_pending[e]
          BY <1>3, <2>1, <3>1
        <4>2. ~Fits(m, O, Current(e))
          BY <3>1 DEF Fits, O
        <4>3. Times(outbox'[e], O, Current(e)) = Times(outbox[e], O, Current(e))
          BY <2>2, <4>2
        <4>4. Waits(e)'
          BY <1>2, <1>6, <1>8, <1>10, <4>1 DEF BargainOf, Waits
        <4>5. Pends(e)'
          BY <1>2, <1>4, <1>8, <1>10, <2>1, <4>1, <4>3 DEF BargainOf, Pends
        <4> QED
          BY <4>4, <4>5
      <3>2. CASE d.type = "offer"
        <4>1. Fits(d, O, Current(e))
          BY <2>5, <3>2 DEF Fits, O
        <4>2. signaling[e] = "have-local-offer" /\ ~GivenWay(e)
          BY <2>5, <3>2, CurrentIs
        <4>3. /\ Times(made[e], O, Current(e)) > 0
              /\ Times(made[e], O, Current(e)) = 1 => Times(made'[e], O, Current(e)) = 0
          BY <1>2, <1>3, <1>4, <4>1, TailTimes
        <4>4. Times(Line(o), A, Offers) = 0 /\ Times(made'[e], O, Current(e)) = 0
          <5>1. /\ Times(Line(e), O, Current(e)) = 0 \/ Times(Line(o), A, Offers) = 0
                /\ Times(Line(e), O, Current(e)) <= 1
            BY TokenAlone
          <5> DEFINE a == Times(events[o], O, Current(e))
                     b == Times(inbox[o], O, Current(e))
                     c == Times(outbox[e], O, Current(e))
                     g == Times(made[e], O, Current(e))
          <5>2. Times(Line(e), O, Current(e)) = a + b + c + g
            BY <5>1, LineTimes
          <5>3. a \in Nat /\ b \in Nat /\ c \in Nat /\ g \in Nat
            BY TimesNat
          <5>4. a + b + c + g <= 1 /\ g > 0
            BY <4>3, <5>1, <5>2
          <5> HIDE DEF a, b, c, g
          <5>5. g = 1 /\ Times(Line(e), O, Current(e)) # 0
            BY <5>2, <5>3, <5>4
          <5> QED
            BY <4>3, <5>1, <5>5 DEF g
        <4>5. Times(events[e], A, Offers) = 0
          BY <1>1, <4>4, LineByParts DEF LinesByParts
        <4>6. Times(made'[e], O, Offers) = 0
          <5>1. Times(made'[e], O, Offers \ Current(e)) = 0
            BY <1>6, <1>10 DEF BargainOf, ForCurrent, Void
          <5> QED
            BY <4>4, <5>1, TimesNone
        <4>7. Waits(e)'
          BY <1>2, <1>8, <1>10, <4>2, <4>5, <4>6 DEF BargainOf, Waits
        <4>8. Pends(e)'
          BY <2>1, <3>2 DEF Pends
        <4> QED
          BY <4>7, <4>8
      <3> QED
        BY <2>4, <3>1, <3>2
    <2> QED
      BY <1>1, <1>2, <1>9, <1>10, <1>11, <2>8, <2>9, <2>10, <2>11, <2>12 DEF Bargained, BargainOf
  <1> QED
    BY <1>2, <1>12, <1>13 DEF SendsOn

LEMMA StepBargain ==
    TInv /\ TInv' /\ CountInv /\ BargainInv /\ [Next]_vars => BargainInv'
  <1> SUFFICES ASSUME TInv, TInv', CountInv, BargainInv, [Next]_vars, Orderly'
               PROVE  Bargained'
    BY DEF BargainInv
  <1>1. Bargained
    BY OrderlyBefore DEF BargainInv
  <1>2. CASE UNCHANGED vars
    <2>1. UNCHANGED <<local_offer_pending, outbox, inbox, events, made, signaling, local,
                      creating, mismatched>>
      BY <1>2 DEF vars, core, wire, rtc
    <2> QED
      BY <1>1, <2>1 DEF Bargained, BargainOf, Tokens, Answers, ForCurrent, VoidIgnored,
                        VoidBefore, OfferLast, Waits, Pends, GivenWay, Current, Void, Line
  <1>3. CASE Next
    <2>1. PICK e \in Ends :
             \/ Deliver(e) \/ Lose(e) \/ HandleSignal(e) \/ HandleCallEvent(e)
             \/ SetMuted(e) \/ NoteConnected(e)
             \/ BeginOffer(e) \/ CreateOffer(e) \/ SendNegotiate(e) \/ Arm(e) \/ TimeOut(e)
      BY <1>3 DEF Next
    <2>2. CASE Deliver(e) \/ Lose(e)
      BY <1>1, <2>2, DeliverKept, LoseKept
    <2>3. CASE HandleSignal(e)
      BY <1>1, <2>3, SignalKeptAll
    <2>4. CASE HandleCallEvent(e)
      BY <1>1, <2>4, EventKept
    <2>5. CASE SetMuted(e) \/ NoteConnected(e) \/ Arm(e) \/ TimeOut(e)
      BY <1>1, <2>5, CallKept
    <2>6. CASE BeginOffer(e) \/ CreateOffer(e) \/ SendNegotiate(e)
      BY <1>1, <2>6, BeginKept, CreateKept, SendKept
    <2> QED
      BY <2>1, <2>2, <2>3, <2>4, <2>5, <2>6
  <1> QED
    BY <1>2, <1>3

LEMMA InitBargain == Init => CountInv /\ BargainInv
  <1> SUFFICES ASSUME Init PROVE CountInv /\ Bargained
    BY DEF BargainInv
  <1> DEFINE m == [type |-> "accept", of |-> Invite, muted |-> muted["callee"]]
  <1>1. /\ "caller" \in Ends /\ "callee" \in Ends /\ "caller" # "callee"
        /\ Other("caller") = "callee" /\ Other("callee") = "caller"
        /\ \A f \in Ends : f = "caller" \/ f = "callee"
    BY TheEnds DEF Ends
  <1>2. /\ outbox["caller"] = <<>> /\ outbox["callee"] = <<m>>
        /\ \A f \in Ends : /\ inbox[f] = <<>> /\ events[f] = <<>> /\ made[f] = <<>>
                           /\ ~local_offer_pending[f] /\ ~creating[f] /\ offers[f] = 0
        /\ signaling["caller"] = "have-local-offer" /\ signaling["callee"] = "stable"
        /\ local["caller"] = Invite /\ local["callee"] = NoOffer /\ ~mismatched
    BY <1>1 DEF Init
  <1>3. /\ Invite \in Offers /\ NoOffer # Invite /\ NoOffer \in Offers
    BY Descriptions
  <1>4. \A T, W, U, V : /\ Times(<<>>, T, W) = 0 /\ ~Follows(<<>>, T, W, U, V)
                        /\ Times(<<m>>, T, W) = IF Fits(m, T, W) THEN 1 ELSE 0
                        /\ ~Follows(<<m>>, T, W, U, V)
    BY EmptyTimes, TimesOfOne
  <1>5. \A W : ~Fits(m, O, W) /\ ~Fits(m, {"answer"}, W)
    BY DEF Fits, O
  <1>6. \A W : Fits(m, A, W) <=> Invite \in W
    BY DEF Fits, A
  <1> HIDE DEF m
  <1>7. Line("caller") = <<>> /\ Line("callee") = <<m>>
    <2>1. <<>> \o <<>> = <<>> /\ <<>> \o <<m>> = <<m>> /\ <<m>> \o <<>> = <<m>>
      <3>1. <<m>> \in Seq({m}) /\ <<>> \in Seq({m})
        OBVIOUS
      <3> QED
        BY <3>1, ConcatEmptySeq
    <2> QED
      BY <1>1, <1>2, <2>1 DEF Line
  <1>8. \A f \in Ends : ~GivenWay(f)
    BY <1>2, <1>4 DEF GivenWay
  <1>9. /\ Current("caller") = {Invite} /\ Current("callee") = {}
        /\ Void("caller") = Offers \ {Invite}
    BY <1>1, <1>2, <1>3, <1>8 DEF Current, Void
  <1>10. CountInv
    <2>1. \A f \in Ends : Counted(f)
      BY <1>1, <1>4, <1>5, <1>7 DEF Counted
    <2>2. \A f \in Ends : Unanswered(f)
      BY <1>2 DEF Unanswered
    <2> QED
      BY <2>1, <2>2 DEF CountInv
  <1>11. Tokens("caller") <= 1 /\ Tokens("callee") <= 1
    BY <1>1, <1>4, <1>6, <1>7, <1>9 DEF Tokens, Answers
  <1>12. ForCurrent("caller") /\ ForCurrent("callee")
    BY <1>1, <1>2, <1>4, <1>6, <1>7, <1>9 DEF ForCurrent
  <1>13. VoidIgnored("caller") /\ VoidIgnored("callee")
    BY <1>1, <1>2, <1>4, <1>5 DEF VoidIgnored
  <1>14. \A f \in Ends : VoidBefore(f) /\ OfferLast(f)
    BY <1>1, <1>4, <1>7 DEF VoidBefore, OfferLast
  <1>15. \A f \in Ends : Waits(f)
    BY <1>2, <1>4, <1>8 DEF Waits
  <1>16. Pends("caller") /\ Pends("callee")
    BY <1>1, <1>2, <1>4, <1>5 DEF Pends
  <1> QED
    BY <1>1, <1>2, <1>10, <1>11, <1>12, <1>13, <1>14, <1>15, <1>16 DEF Bargained, BargainOf

LEMMA BargainInvariant == Spec => [](TInv /\ CountInv /\ BargainInv)
  <1>1. Init => TInv /\ CountInv /\ BargainInv
    BY InitTypes, InitBargain
  <1>2. TInv /\ CountInv /\ BargainInv /\ [Next]_vars => (TInv /\ CountInv /\ BargainInv)'
    BY StepTypes, StepCounts, StepBargain
  <1> QED
    BY <1>1, <1>2, PTL DEF Spec

(* An answer is only ever applied to the offer it answers, however the      *)
(* offers of the two ends cross and whatever is lost, unless an offer was   *)
(* given up for unanswered or an event overtook another.                    *)
THEOREM AnswersAreMatched == Spec => []AnswersMatch
  <1>1. BargainInv => AnswersMatch
    BY DEF BargainInv, Bargained, Orderly, AnswersMatch
  <1> QED
    BY <1>1, BargainInvariant, PTL

-------------------------------------------------------------------------------
(* With nothing lost an end that has an offer waits for something that comes. *)

Smooth == faults = {} /\ \A e \in Ends : state[e] # "Ended"

Comes ==
    /\ signaling["caller"] = "have-local-offer" => Tokens("caller") = 1
    /\ signaling["callee"] = "have-local-offer" =>
          Tokens("callee") = 1 \/ Times(Line("caller"), O, Offers) > 0

\* The two sessions are of one description but for an answer on its way.
Agree ==
    /\ Answers("caller") + Answers("callee") <= 1
    /\ Answers("caller") + Answers("callee") = 0 => session["caller"] = session["callee"]
    /\ \A e \in Ends : Answers(e) > 0 => session[Other(e)] = local[e]

SettleInv == Smooth => Comes /\ Agree

Both(m, n) == IF m = 0 THEN n ELSE IF n = 0 THEN m ELSE 2

LineSums ==
    \A e \in Ends : \A T, W :
        Times(Line(e), T, W) =
           Both(Times(events[Other(e)], T, W),
                Both(Times(inbox[Other(e)], T, W),
                     Both(Times(outbox[e], T, W), Times(made[e], T, W))))

LEMMA LineSum == TInv => LineSums
  <1> SUFFICES ASSUME TInv, NEW e \in Ends, NEW T, NEW W
               PROVE  Times(Line(e), T, W) =
                         Both(Times(events[Other(e)], T, W),
                              Both(Times(inbox[Other(e)], T, W),
                                   Both(Times(outbox[e], T, W), Times(made[e], T, W))))
    BY DEF LineSums
  <1>1. /\ events[Other(e)] \in Seq(Items) /\ inbox[Other(e)] \in Seq(Items)
        /\ outbox[e] \in Seq(Items) /\ made[e] \in Seq(Items)
    BY PartTypes
  <1>2. outbox[e] \o made[e] \in Seq(Items)
    BY <1>1, ItemsConcat
  <1>3. inbox[Other(e)] \o (outbox[e] \o made[e]) \in Seq(Items)
    BY <1>1, <1>2, ItemsConcat
  <1>4. Times(outbox[e] \o made[e], T, W) = Both(Times(outbox[e], T, W), Times(made[e], T, W))
    BY <1>1, ConcatTimes DEF Both
  <1>5. Times(inbox[Other(e)] \o (outbox[e] \o made[e]), T, W) =
           Both(Times(inbox[Other(e)], T, W), Times(outbox[e] \o made[e], T, W))
    BY <1>1, <1>2, ConcatTimes DEF Both
  <1>6. Times(Line(e), T, W) =
           Both(Times(events[Other(e)], T, W), Times(inbox[Other(e)] \o (outbox[e] \o made[e]), T, W))
    BY <1>1, <1>3, ConcatTimes DEF Line, Both
  <1> QED
    BY <1>4, <1>5, <1>6

LEMMA LineSumNext == TInv' => LineSums'
  BY LineSum, PTL

TokensAlone ==
    \A e \in Ends :
        /\ Times(Line(e), O, Current(e)) = 0 \/ Times(Line(Other(e)), A, Offers) = 0
        /\ Answers(e) = Times(Line(Other(e)), A, Offers)

LEMMA AllAlone == TInv /\ Bargained => TokensAlone
  BY TokenAlone DEF TokensAlone

LEMMA AllAloneNext == TInv' /\ Bargained' => TokensAlone'
  BY AllAlone, PTL

(* What is on its way is counted the same.                                   *)
Counts(t, s) == \A T \in Kinds : \A W \in SUBSET Offers : Times(t, T, W) = Times(s, T, W)

LEMMA CountsBoth ==
    ASSUME NEW s, NEW t, Fewer(t, s), Fewer(s, t)
    PROVE  Counts(t, s)
  <1> SUFFICES ASSUME NEW T \in Kinds, NEW W \in SUBSET Offers
               PROVE  Times(t, T, W) = Times(s, T, W)
    BY DEF Counts
  <1>1. Times(t, T, W) <= Times(s, T, W) /\ Times(s, T, W) <= Times(t, T, W)
    BY DEF Fewer
  <1>2. Times(t, T, W) \in Nat /\ Times(s, T, W) \in Nat
    BY TimesNat
  <1> QED
    BY <1>1, <1>2

LEMMA SettleKept ==
    ASSUME TInv, Comes, Agree, UNCHANGED <<signaling, session, local>>,
           \A f \in Ends : Current(f)' = Current(f) /\ Counts(Line(f)', Line(f))
    PROVE  Comes' /\ Agree'
  <1>1. /\ "caller" \in Ends /\ "callee" \in Ends
        /\ \A f \in Ends : Other(f) \in Ends
    BY TheEnds DEF Ends
  <1>2. \A f \in Ends : Current(f) \in SUBSET Offers /\ Offers \in SUBSET Offers
    BY CurrentIs
  <1>3. O \in Kinds /\ A \in Kinds
    BY TimesNat
  <1>4. ASSUME NEW f \in Ends
        PROVE  /\ Answers(f)' = Answers(f) /\ Tokens(f)' = Tokens(f)
               /\ Times(Line(f)', O, Offers) = Times(Line(f), O, Offers)
    <2>1. /\ Times(Line(f)', O, Current(f)) = Times(Line(f), O, Current(f))
          /\ Times(Line(f)', O, Offers) = Times(Line(f), O, Offers)
      BY <1>2, <1>3 DEF Counts
    <2>2. Times(Line(Other(f))', A, Current(f)) = Times(Line(Other(f)), A, Current(f))
      BY <1>1, <1>2, <1>3 DEF Counts
    <2> QED
      BY <2>1, <2>2 DEF Answers, Tokens
  <1>5. Comes'
    BY <1>1, <1>4 DEF Comes
  <1>6. Agree'
    BY <1>1, <1>4 DEF Agree
  <1> QED
    BY <1>5, <1>6

LEMMA SmoothBefore == TInv /\ [Next]_vars /\ Smooth' => Smooth /\ Orderly /\ Orderly'
  <1> SUFFICES ASSUME TInv, [Next]_vars, Smooth' PROVE Smooth /\ Orderly /\ Orderly'
    OBVIOUS
  <1>1. Plain
    BY PlainBefore DEF Plain, Smooth
  <1>2. faults = {}
    BY FaultsGrow DEF Smooth
  <1> QED
    BY <1>1, <1>2 DEF Plain, Smooth, Orderly

(* The steps at which nothing is taken, offered or given way for.            *)
LEMMA QuietSettles ==
    ASSUME TInv, TInv', CountInv, Bargained, Smooth, Smooth', Comes, Agree, NEW e \in Ends,
           \/ Deliver(e) \/ Lose(e) \/ SetMuted(e) \/ NoteConnected(e)
           \/ BeginOffer(e) \/ SendNegotiate(e) \/ Arm(e) \/ TimeOut(e)
    PROVE  Comes' /\ Agree'
  <1>1. ~Lose(e)
    BY DEF Lose, Smooth
  <1>2. UNCHANGED <<signaling, session, local, events>>
    BY <1>1 DEF Deliver, SetMuted, NoteConnected, BeginOffer, SendNegotiate, Arm, TimeOut, rtc
  <1>3. \A f \in Ends : Current(f)' = Current(f)
    BY <1>2 DEF Current, GivenWay
  <1>4. Other(e) \in Ends /\ \A f \in Ends : f = e \/ f = Other(e)
    BY TheEnds DEF Ends
  <1>5. \A s : Counts(s, s)
    BY DEF Counts
  <1>6. CASE Deliver(e)
    <2>1. PICK i \in DOMAIN outbox[e] :
             /\ outbox' = [outbox EXCEPT ![e] = RemoveAt(@, i)]
             /\ inbox' = [inbox EXCEPT ![Other(e)] = Append(@, outbox[e][i])]
             /\ faults' = IF i = 1 THEN faults ELSE faults \cup {"overtaken"}
             /\ UNCHANGED <<core, events, rtc, bound>>
      BY <1>6 DEF Deliver
    <2>2. i = 1 /\ outbox[e] \in Seq(Messages)
      BY <2>1 DEF Smooth, TInv
    <2>3. outbox[e] # <<>> /\ outbox[e][1] = Head(outbox[e]) /\ RemoveAt(outbox[e], 1) = Tail(outbox[e])
      BY <2>1, <2>2, Removed
    <2>4. /\ outbox' = [outbox EXCEPT ![e] = Tail(@)]
          /\ inbox' = [inbox EXCEPT ![Other(e)] = Append(@, Head(outbox[e]))]
          /\ UNCHANGED <<events, made>>
      BY <2>1, <2>2, <2>3 DEF rtc
    <2>5. \A f \in Ends : Line(f)' = Line(f)
      BY <2>3, <2>4, DeliverLines
    <2> QED
      BY <1>2, <1>3, <1>5, <2>5, SettleKept
  <1>7. CASE SetMuted(e) \/ NoteConnected(e)
    <2>1. /\ Send(e, "metadata", NoOffer) \/ UNCHANGED outbox
          /\ UNCHANGED <<inbox, made>>
      BY <1>7 DEF SetMuted, NoteConnected, rtc
    <2>2. \A f \in Ends : Fewer(outbox'[f], outbox[f]) /\ Fewer(outbox[f], outbox'[f])
      <3>1. CASE UNCHANGED outbox
        BY <3>1, FewerReflexive
      <3>2. CASE Send(e, "metadata", NoOffer)
        <4>1. /\ Fewer(outbox'[e], outbox[e]) /\ Fewer(outbox[e], outbox'[e])
              /\ outbox'[Other(e)] = outbox[Other(e)]
          BY <3>2, SaidLines
        <4> QED
          BY <1>4, <4>1, FewerReflexive
      <3> QED
        BY <2>1, <3>1, <3>2
    <2>3. ASSUME NEW f \in Ends PROVE Counts(Line(f)', Line(f))
      <3>1. /\ Fewer(inbox'[Other(f)], inbox[Other(f)]) /\ Fewer(inbox[Other(f)], inbox'[Other(f)])
            /\ Fewer(events'[Other(f)], events[Other(f)]) /\ Fewer(events[Other(f)], events'[Other(f)])
            /\ Fewer(made'[f], made[f]) /\ Fewer(made[f], made'[f])
        BY <1>2, <2>1, FewerReflexive
      <3>2. Fewer(Line(f)', Line(f))
        BY <2>2, <3>1, PartsLines
      <3>3. Fewer(Line(f), Line(f)')
        BY <2>2, <3>1, PartsLinesBack
      <3> QED
        BY <3>2, <3>3, CountsBoth
    <2> QED
      BY <1>2, <1>3, <2>3, SettleKept
  <1>8. CASE BeginOffer(e) \/ Arm(e) \/ TimeOut(e)
    <2>1. UNCHANGED <<inbox, made, outbox>>
      BY <1>8 DEF BeginOffer, Arm, TimeOut, wire, rtc
    <2>2. \A f \in Ends : Line(f)' = Line(f)
      BY <1>2, <2>1 DEF Line
    <2> QED
      BY <1>2, <1>3, <1>5, <2>2, SettleKept
  <1>9. CASE SendNegotiate(e)
    <2> DEFINE d == Head(made[e])
               m == [type |-> d.type, of |-> d.of, muted |-> muted'[e]]
    <2>1. /\ made[e] # <<>> /\ SendsOn(e) /\ m \in Messages /\ d \in Made
      BY <1>9, SendCases
    <2>2. Established(e)
      <3>1. state[e] # "Dialing"
        BY <2>1 DEF CountInv, Unanswered
      <3>2. state[e] \in {"Dialing", "Connecting", "Connected", "Ended"} /\ state[e] # "Ended"
        BY DEF TInv, TypeOK, Smooth
      <3> QED
        BY <3>1, <3>2 DEF Established
    <2>3. ~(d.type = "offer" /\ local_offer_pending[e])
      <3> SUFFICES ASSUME d.type = "offer", local_offer_pending[e] PROVE FALSE
        OBVIOUS
      <3>1. Times(made[e], O, Offers) = 0
        BY DEF Bargained, BargainOf, Waits
      <3>2. Fits(d, O, Offers) /\ made[e] \in Seq(Made)
        BY <2>1 DEF Fits, O, Made, TInv
      <3>3. Times(made[e], O, Offers) > 0
        BY <2>1, <3>2, TailTimes
      <3> QED
        BY <3>1, <3>3
    <2>4. outbox' = [outbox EXCEPT ![e] = @ \o <<m>>]
      BY <2>1, <2>2, <2>3 DEF SendsOn
    <2>5. outbox \in [Ends -> Seq(Messages)]
      BY DEF TInv
    <2>6. outbox' # outbox
      <3> HIDE DEF m
      <3>1. outbox[e] \in Seq(Messages) /\ outbox'[e] = Append(outbox[e], m)
        BY <2>1, <2>4, <2>5, AppendedIsConcat
      <3>2. Len(outbox'[e]) = Len(outbox[e]) + 1 /\ Len(outbox[e]) \in Nat
        BY <2>1, <3>1, AppendProperties, LenProperties
      <3>3. Len(outbox'[e]) # Len(outbox[e])
        BY <3>2
      <3> QED
        BY <3>3
    <2>7. /\ Fewer(Line(e)', Line(e)) /\ Fewer(Line(e), Line(e)')
          /\ Line(Other(e))' = Line(Other(e))
      BY <1>9, <2>6, SendNegotiateLines
    <2>8. \A f \in Ends : Counts(Line(f)', Line(f))
      BY <1>4, <1>5, <2>7, CountsBoth
    <2> QED
      BY <1>2, <1>3, <2>8, SettleKept
  <1> QED
    BY <1>1, <1>6, <1>7, <1>8, <1>9

(* The caller keeps to its offer: what it waits for comes after it.          *)
LEMMA IgnoringSettles ==
    ASSUME TInv, TInv', Bargained, Comes, Agree, NEW e \in Ends, HandleSignal(e),
           e = "caller", local_offer_pending[e], Head(inbox[e]).type = "offer",
           events' = events
    PROVE  Comes' /\ Agree'
  <1> DEFINE o == Other(e)
             x == Head(inbox[e])
  <1>1. /\ o \in Ends /\ o # e /\ Other(o) = e /\ o = "callee" /\ \A f \in Ends : f = e \/ f = o
    BY TheEnds DEF Ends
  <1>2. /\ inbox[e] # <<>> /\ inbox' = [inbox EXCEPT ![e] = Tail(@)] /\ x.of \in Offers
        /\ UNCHANGED <<outbox, made, local, signaling, session>>
    BY SignalCases DEF rtc, Messages
  <1>3. inbox \in [Ends -> Seq(Messages)] /\ inbox[e] \in Seq(Items)
    BY PartTypes DEF TInv
  <1>4. inbox'[e] = Tail(inbox[e]) /\ inbox'[o] = inbox[o]
    BY <1>1, <1>2, <1>3
  <1>5. \A f \in Ends : Current(f)' = Current(f)
    BY <1>2 DEF Current, GivenWay
  <1>6. Line(e)' = Line(e)
    BY SignalLines
  <1>7. \A T, W : ~Fits(x, T, W) => Times(Line(o)', T, W) = Times(Line(o), T, W)
    <2> TAKE T, W
    <2> SUFFICES ASSUME ~Fits(x, T, W) PROVE Times(Line(o)', T, W) = Times(Line(o), T, W)
      OBVIOUS
    <2>1. Times(inbox'[e], T, W) = Times(inbox[e], T, W)
      BY <1>2, <1>3, <1>4, TailTimes
    <2>2. LineSums /\ LineSums'
      BY LineSum, LineSumNext
    <2>3. Times(Line(o), T, W) =
             Both(Times(events[e], T, W),
                  Both(Times(inbox[e], T, W), Both(Times(outbox[o], T, W), Times(made[o], T, W))))
      BY <1>1, <2>2 DEF LineSums
    <2>4. Times(Line(o)', T, W) =
             Both(Times(events'[e], T, W),
                  Both(Times(inbox'[e], T, W), Both(Times(outbox'[o], T, W), Times(made'[o], T, W))))
      BY <1>1, <2>2 DEF LineSums
    <2> QED
      BY <1>2, <2>1, <2>3, <2>4
  <1>8. \A W : Times(Line(o)', A, W) = Times(Line(o), A, W)
    <2>1. \A W : ~Fits(x, A, W)
      BY DEF Fits, A
    <2> QED
      BY <1>7, <2>1
  <1>9. Answers(e)' = Answers(e) /\ Answers(o)' = Answers(o) /\ Tokens(e)' = Tokens(e)
    BY <1>1, <1>5, <1>6, <1>8 DEF Answers, Tokens
  <1>10. Agree'
    BY <1>1, <1>2, <1>9 DEF Agree
  <1>11. Tokens(o)' = Tokens(o) \/ Times(Line(e), O, Offers) > 0
    <2>1. CASE ~Fits(x, O, Current(o))
      <3>1. Times(Line(o)', O, Current(o)) = Times(Line(o), O, Current(o))
        BY <1>7, <2>1
      <3> QED
        BY <1>1, <1>5, <1>9, <3>1 DEF Tokens
    <2>2. CASE Fits(x, O, Current(o))
      <3>1. Tokens(e) = 1 /\ Times(events[e], A, Offers) = 0
        BY DEF Bargained, BargainOf, Waits, Comes
      <3>2. ~Follows(Line(o), O, Current(o), A, Offers)
        BY <1>1 DEF Bargained, BargainOf, OfferLast
      <3>3. /\ Times(Tail(inbox[e]), A, Offers) = 0
            /\ Times(outbox[o], A, Offers) = 0 /\ Times(made[o], A, Offers) = 0
        BY <1>1, <1>2, <2>2, <3>2, LineFollows
      <3>4. Times(inbox[e], A, Offers) = 0
        <4>1. ~Fits(x, A, Offers)
          BY DEF Fits, A
        <4> QED
          BY <1>2, <1>3, <3>3, <4>1, TailTimes
      <3>5. Times(Line(o), A, Offers) = 0
        BY <1>1, <3>1, <3>3, <3>4, LineByParts DEF LinesByParts
      <3>6. Answers(e) = 0
        BY <3>5, AllAlone DEF TokensAlone
      <3>7. Tokens(e) = Times(Line(e), O, Current(e)) + Answers(e)
        BY DEF Tokens
      <3>8. Times(Line(e), O, Current(e)) = 1
        BY <3>1, <3>6, <3>7, TimesNat
      <3>9. Times(Line(e), O, Current(e)) <= Times(Line(e), O, Offers)
        BY CurrentIs, TimesOfFew
      <3> QED
        BY <3>8, <3>9, TimesNat
    <2> QED
      BY <2>1, <2>2
  <1>12. Comes'
    BY <1>1, <1>2, <1>6, <1>9, <1>11 DEF Comes
  <1> QED
    BY <1>10, <1>12

(* The offer that the callee gives way to is the caller's token.             *)
LEMMA GivingWaySettles ==
    ASSUME TInv, TInv', Bargained, Bargained', Comes, Agree, NEW e \in Ends, HandleSignal(e),
           e = "callee", local_offer_pending[e], Head(inbox[e]).type = "offer",
           events' = [events EXCEPT ![e] = @ \o <<[type |-> "rollback", of |-> NoOffer],
                                                  [type |-> "offer", of |-> Head(inbox[e]).of]>>]
    PROVE  Comes' /\ Agree'
  <1> DEFINE o == Other(e)
             x == Head(inbox[e])
             r == [type |-> "rollback", of |-> NoOffer]
             y == [type |-> "offer", of |-> x.of]
  <1>1. /\ o \in Ends /\ o # e /\ Other(o) = e /\ o = "caller" /\ \A f \in Ends : f = e \/ f = o
    BY TheEnds DEF Ends
  <1>2. /\ inbox[e] # <<>> /\ inbox' = [inbox EXCEPT ![e] = Tail(@)] /\ x \in Messages
        /\ x.of \in Offers /\ UNCHANGED <<outbox, made, local, signaling, session>>
    BY SignalCases DEF rtc, Messages
  <1>3. /\ events \in [Ends -> Seq(Tidings)] /\ r \in Tidings /\ y \in Tidings
        /\ <<r, y>> \in Seq(Tidings) /\ events[e] \in Seq(Tidings)
    <2>1. r \in Tidings
      BY Descriptions DEF Tidings
    <2>2. y \in Tidings
      BY <1>2 DEF Tidings
    <2>3. events \in [Ends -> Seq(Tidings)] /\ events[e] \in Seq(Tidings)
      BY DEF TInv
    <2> HIDE DEF r, y
    <2>4. <<r, y>> \in Seq(Tidings)
      BY <2>1, <2>2
    <2> QED
      BY <2>1, <2>2, <2>3, <2>4
  <1>4. events'[e] = events[e] \o <<r, y>> /\ events'[o] = events[o]
    BY <1>1, <1>3
  <1>5. GivenWay(e)' /\ Current(e)' = {}
    <2> HIDE DEF r, y
    <2>1. Times(<<r, y>>, R, Offers) # 0
      <3>1. Fits(r, R, Offers)
        BY Descriptions DEF r, Fits, R
      <3>2. 1 \in DOMAIN <<r, y>> /\ <<r, y>>[1] = r
        BY <1>3, LenProperties
      <3> QED
        BY <3>1, <3>2, TimesIs
    <2>2. Times(events'[e], R, Offers) =
             IF Times(events[e], R, Offers) = 0 THEN Times(<<r, y>>, R, Offers)
             ELSE IF Times(<<r, y>>, R, Offers) = 0 THEN Times(events[e], R, Offers) ELSE 2
      <3> DEFINE s == events[e]
                 t == <<r, y>>
      <3>1. events'[e] = s \o t /\ s \in Seq(Tidings) /\ t \in Seq(Tidings)
        BY <1>3, <1>4
      <3> HIDE DEF s, t
      <3>2. Times(s \o t, R, Offers) = IF Times(s, R, Offers) = 0 THEN Times(t, R, Offers)
                                       ELSE IF Times(t, R, Offers) = 0 THEN Times(s, R, Offers) ELSE 2
        BY <3>1, ConcatTimes
      <3> QED
        BY <3>1, <3>2 DEF s, t
    <2>3. Times(events'[e], R, Offers) > 0
      BY <2>1, <2>2, TimesNat
    <2>4. GivenWay(e)'
      BY <2>3 DEF GivenWay
    <2> QED
      BY <2>4 DEF Current
  <1>6. Current(o)' = Current(o)
    BY <1>2, <1>4 DEF Current, GivenWay
  <1>7. Line(e)' = Line(e) /\ Counts(Line(o)', Line(o))
    <2>1. /\ Fewer(<<r, y>>, <<x>>) /\ Fewer(<<x>>, <<r, y>>)
      BY <1>2, <1>3, ToldCounts
    <2> HIDE DEF r, y
    <2>2. events' = [events EXCEPT ![e] = @ \o <<r, y>>]
      BY DEF r, y
    <2>3. Fewer(Line(o)', Line(o)) /\ Fewer(Line(o), Line(o)') /\ Line(e)' = Line(e)
      BY <1>2, <1>3, <2>1, <2>2, ToldLines
    <2> QED
      BY <2>3, CountsBoth
  <1>8. Fits(x, O, Offers) /\ Times(Line(o), O, Offers) > 0
    <2>1. Fits(x, O, Offers)
      BY <1>2 DEF Fits, O
    <2>2. inbox[e] \in Seq(Messages)
      BY DEF TInv
    <2>3. Times(inbox[e], O, Offers) # 0
      BY <1>2, <2>1, <2>2, TailTimes
    <2>4. Times(Line(o), O, Offers) # 0
      BY <1>1, <2>3, LineByParts DEF LinesByParts
    <2> QED
      BY <2>1, <2>4, TimesNat
  <1>9. Times(Line(o)', A, Offers) = 0 /\ Times(Line(o), A, Offers) = 0
    <2>1. Times(Line(o)', A, Void(e)') = 0
      BY DEF Bargained, BargainOf, ForCurrent
    <2>2. Void(e)' = Offers
      BY <1>5 DEF Void
    <2>3. Times(Line(o)', A, Offers) = Times(Line(o), A, Offers)
      BY <1>7, TimesNat DEF Counts
    <2> QED
      BY <2>1, <2>2, <2>3
  <1>10. Times(Line(o), O, Current(o)) > 0
    <2>1. Times(Line(o), O, Offers \ Current(o)) = 0 /\ Current(o) \in SUBSET Offers
      BY <1>1, CurrentIs DEF Bargained, BargainOf, ForCurrent, Void
    <2>2. Times(Line(o), O, Offers) = Times(Line(o), O, Current(o))
      BY <2>1, TimesOfParts
    <2> QED
      BY <1>8, <2>2
  <1>11. Times(Line(e), A, Offers) = 0
    <2>1. Times(Line(o), O, Current(o)) # 0
      BY <1>10
    <2> QED
      BY <1>1, <2>1, AllAlone DEF TokensAlone
  <1>12. /\ Answers(e) = 0 /\ Answers(o) = 0 /\ Answers(e)' = 0 /\ Answers(o)' = 0
    <2>1. TokensAlone /\ TokensAlone'
      BY AllAlone, AllAloneNext
    <2> QED
      BY <1>1, <1>7, <1>9, <1>11, <2>1 DEF TokensAlone
  <1>13. Tokens(o)' = Tokens(o)
    <2>1. Times(Line(o)', O, Current(o)) = Times(Line(o), O, Current(o))
      BY <1>1, <1>7, CurrentIs, TimesNat DEF Counts
    <2> QED
      BY <1>6, <1>12, <2>1 DEF Tokens
  <1>14. Times(Line(o)', O, Offers) > 0
    <2>1. Times(Line(o)', O, Offers) = Times(Line(o), O, Offers)
      BY <1>7, TimesNat DEF Counts
    <2> QED
      BY <1>8, <2>1
  <1>15. Comes'
    BY <1>1, <1>2, <1>13, <1>14 DEF Comes
  <1>16. Agree'
    BY <1>1, <1>2, <1>12 DEF Agree
  <1> QED
    BY <1>15, <1>16

LEMMA SignalSettles ==
    ASSUME TInv, TInv', Bargained, Bargained', Smooth', Comes, Agree, NEW e \in Ends,
           HandleSignal(e)
    PROVE  Comes' /\ Agree'
  <1> DEFINE x == Head(inbox[e])
             o == Other(e)
  <1>1. PICK k \in Seq(Tidings) : Handles(e, x, k)
    BY SignalCases
  <1>2. /\ events' = [events EXCEPT ![e] = @ \o k] /\ x \in Messages /\ inbox[e] # <<>>
        /\ inbox' = [inbox EXCEPT ![e] = Tail(@)]
        /\ UNCHANGED <<outbox, made, signaling, session, local>>
    BY <1>1, SignalCases DEF Handles, rtc
  <1>3. /\ events \in [Ends -> Seq(Tidings)] /\ events[e] \in Seq(Tidings)
        /\ o \in Ends /\ o # e /\ \A f \in Ends : f = e \/ f = o
    BY TheEnds DEF TInv, Ends
  <1>4. faults' = {} /\ state'[e] # "Ended"
    BY DEF Smooth
  <1>5. ASSUME Fewer(k, <<x>>), Fewer(<<x>>, k), Times(k, R, Offers) = 0
        PROVE  Comes' /\ Agree'
    <2>1. Fewer(Line(o)', Line(o)) /\ Fewer(Line(o), Line(o)') /\ Line(e)' = Line(e)
      BY <1>2, <1>5, ToldLines
    <2>2. \A f \in Ends : Counts(Line(f)', Line(f))
      BY <1>3, <2>1, CountsBoth DEF Counts
    <2>3. events'[e] = events[e] \o k /\ events'[o] = events[o]
      BY <1>2, <1>3
    <2>4. Times(events'[e], R, Offers) = Times(events[e], R, Offers)
      <3>1. Times(events[e] \o k, R, Offers) =
               IF Times(events[e], R, Offers) = 0 THEN Times(k, R, Offers)
               ELSE IF Times(k, R, Offers) = 0 THEN Times(events[e], R, Offers) ELSE 2
        BY <1>3, ConcatTimes
      <3> QED
        BY <1>5, <2>3, <3>1
    <2>5. \A f \in Ends : Current(f)' = Current(f)
      BY <1>2, <1>3, <2>3, <2>4 DEF Current, GivenWay
    <2> QED
      BY <1>2, <2>2, <2>5, SettleKept
  <1>6. CASE k = <<>>
    <2>1. events' = events
      <3>1. events[e] \o k = events[e]
        BY <1>3, <1>6, ConcatEmptySeq
      <3> QED
        BY <1>2, <1>3, <3>1
    <2>2. \/ x.type = "metadata"
          \/ x.type = "answer" /\ ~local_offer_pending[e]
          \/ x.type = "offer" /\ e = "caller" /\ local_offer_pending[e]
      BY <1>1, <1>4, <1>6 DEF Handles
    <2>3. CASE x.type = "metadata"
      <3>1. Fewer(k, <<x>>) /\ Fewer(<<x>>, k)
        BY <1>2, <1>6, <2>3, ToldCounts
      <3>2. Times(k, R, Offers) = 0
        BY <1>6, EmptyTimes
      <3> QED
        BY <1>5, <3>1, <3>2
    <2>4. CASE x.type = "answer" /\ ~local_offer_pending[e]
      <3>1. Times(inbox[e], {"answer"}, Offers) = 0
        BY <2>4 DEF Bargained, BargainOf, Pends
      <3>2. Fits(x, {"answer"}, Offers)
        BY <1>2, <2>4 DEF Fits, Messages
      <3>3. inbox[e] \in Seq(Messages)
        BY DEF TInv
      <3>4. Times(inbox[e], {"answer"}, Offers) > 0
        BY <1>2, <3>2, <3>3, TailTimes
      <3> QED
        BY <3>1, <3>4
    <2>5. CASE x.type = "offer" /\ e = "caller" /\ local_offer_pending[e]
      BY <2>1, <2>5, IgnoringSettles
    <2> QED
      BY <2>2, <2>3, <2>4, <2>5
  <1>7. CASE \/ k = <<[type |-> "answer", of |-> x.of]>> /\ x.type \in A
             \/ k = <<[type |-> "offer", of |-> x.of]>> /\ x.type = "offer"
    <2>0. PICK y : k = <<y>> /\ y.type # "rollback"
      BY <1>7
    <2>1. k # <<>>
      <3>1. Len(k) = 1 /\ Len(<<>>) = 0
        BY <2>0
      <3> QED
        BY <3>1
    <2>2. Fewer(k, <<x>>) /\ Fewer(<<x>>, k)
      BY <1>2, <1>7, <2>1, ToldCounts
    <2>3. Times(k, R, Offers) = 0
      <3>1. k = <<y>> /\ y.type # "rollback"
        BY <2>0
      <3>2. ~Fits(y, R, Offers)
        BY <3>1 DEF Fits, R
      <3> QED
        BY <3>1, <3>2, TimesOfOne
    <2> QED
      BY <1>5, <2>2, <2>3
  <1>8. CASE /\ k = <<[type |-> "rollback", of |-> NoOffer], [type |-> "offer", of |-> x.of]>>
             /\ x.type = "offer" /\ e = "callee" /\ local_offer_pending[e]
    BY <1>2, <1>8, GivingWaySettles
  <1> QED
    BY <1>1, <1>6, <1>7, <1>8 DEF Handles, A

-------------------------------------------------------------------------------
(* What the embedder does of what it is told, and what it offers.            *)

LEMMA EventKeepsLine ==
    ASSUME TInv, TInv', NEW e \in Ends, HandleCallEvent(e), NEW T, NEW W,
           outbox'[Other(e)] = outbox[Other(e)], made'[Other(e)] = made[Other(e)],
           Head(events[e]).type \notin T
    PROVE  Times(Line(Other(e))', T, W) = Times(Line(Other(e)), T, W)
  <1> DEFINE o == Other(e)
  <1>1. o \in Ends /\ Other(o) = e
    BY TheEnds
  <1>2. Times(events'[e], T, W) = Times(events[e], T, W) /\ UNCHANGED inbox
    BY EventTimes, EventParts
  <1>3. LineSums /\ LineSums'
    BY LineSum, LineSumNext
  <1>4. Times(Line(o), T, W) =
           Both(Times(events[e], T, W),
                Both(Times(inbox[e], T, W), Both(Times(outbox[o], T, W), Times(made[o], T, W))))
    BY <1>1, <1>3 DEF LineSums
  <1>5. Times(Line(o)', T, W) =
           Both(Times(events'[e], T, W),
                Both(Times(inbox'[e], T, W), Both(Times(outbox'[o], T, W), Times(made'[o], T, W))))
    BY <1>1, <1>3 DEF LineSums
  <1> QED
    BY <1>2, <1>4, <1>5

\* The offer that it waited with becomes the description of both ends.
LEMMA AppliedSettles ==
    ASSUME TInv, TInv', Bargained, Bargained', Comes, Agree, NEW e \in Ends, HandleCallEvent(e),
           Head(events[e]).type = "answer", ApplyAnswer(e, Head(events[e]).of)
    PROVE  Comes' /\ Agree'
  <1> DEFINE o == Other(e)
             x == Head(events[e])
  <1>1. o \in Ends /\ o # e /\ Other(o) = e /\ \A f \in Ends : f = e \/ f = o
    BY TheEnds DEF Ends
  <1>2. /\ events[e] # <<>> /\ events'[o] = events[o] /\ events'[e] = Tail(events[e])
        /\ x.of \in Offers /\ events[e] \in Seq(Items) /\ UNCHANGED inbox
    BY EventParts
  <1>3. UNCHANGED <<outbox, made>>
    BY DEF ApplyAnswer
  <1>4. x.of \in Current(e) /\ Times(events[e], A, Offers) > 0
    <2>1. Times(Line(o), A, Void(e)) = 0
      BY DEF Bargained, BargainOf, ForCurrent
    <2>2. Times(events[e], A, Offers \ Current(e)) = 0
      BY <1>1, <2>1, LineByParts DEF LinesByParts, Void
    <2>3. x.type \in A
      BY DEF A
    <2>4. x.of \in Current(e) /\ Fits(x, A, Current(e))
      BY <1>2, <2>2, <2>3, HeadFits
    <2>5. Fits(x, A, Offers)
      BY <1>2, <2>4 DEF Fits
    <2>6. Times(events[e], A, Offers) > 0
      BY <1>2, <2>5, TailTimes
    <2> QED
      BY <2>4, <2>6
  <1>5. local[e] # NoOffer /\ ~GivenWay(e)
    BY <1>4 DEF Current
  <1>6. /\ signaling' = [signaling EXCEPT ![e] = "stable"]
        /\ session' = [session EXCEPT ![e] = local[e]]
        /\ local' = [local EXCEPT ![e] = NoOffer]
    <2>1. signaling[e] = "have-local-offer"
      BY <1>5 DEF TInv, TypeOK
    <2> QED
      BY <2>1 DEF ApplyAnswer
  <1>7. /\ signaling'[e] = "stable" /\ signaling'[o] = signaling[o]
        /\ session'[e] = local[e] /\ session'[o] = session[o]
        /\ local'[e] = NoOffer /\ local'[o] = local[o]
    BY <1>1, <1>6 DEF TInv, TypeOK
  <1>8. Current(e)' = {} /\ Current(o)' = Current(o)
    BY <1>2, <1>7 DEF Current, GivenWay
  <1>9. Line(e)' = Line(e) /\ \A W : Times(Line(o)', O, W) = Times(Line(o), O, W)
    <2>1. Line(e)' = Line(e)
      BY <1>2, <1>3 DEF Line
    <2>2. x.type \notin O
      BY DEF O
    <2>3. \A W : Times(Line(o)', O, W) = Times(Line(o), O, W)
      BY <1>3, <2>2, EventKeepsLine
    <2> QED
      BY <2>1, <2>3
  <1>10. Answers(e) > 0
    <2>1. Answers(e) = Times(Line(o), A, Offers)
      BY AllAlone DEF TokensAlone
    <2>2. Times(Line(o), A, Offers) # 0
      BY <1>1, <1>4, TimesNat, LineByParts DEF LinesByParts
    <2> QED
      BY <2>1, <2>2, TimesNat
  <1>11. Answers(o) = 0 /\ session[o] = local[e]
    <2>1. Answers(o) \in Nat /\ Answers(e) \in Nat
      BY TimesNat DEF Answers
    <2>2. Answers(o) + Answers(e) <= 1
      BY <1>1, <2>1 DEF Agree, Ends
    <2> QED
      BY <1>10, <2>1, <2>2 DEF Agree
  <1>12. Answers(e)' = 0 /\ Answers(o)' = 0
    <2>1. Answers(o)' = Answers(o)
      BY <1>1, <1>8, <1>9 DEF Answers
    <2>2. Answers(e)' = Times(Line(o)', A, {})
      BY <1>8 DEF Answers
    <2> QED
      BY <1>11, <2>1, <2>2, TimesOfFew
  <1>13. Tokens(o)' = Tokens(o)
    BY <1>8, <1>9, <1>11, <1>12 DEF Tokens
  <1>14. Agree'
    BY <1>1, <1>7, <1>11, <1>12 DEF Agree, Ends
  <1>15. Comes'
    BY <1>1, <1>7, <1>9, <1>13 DEF Comes, Ends
  <1> QED
    BY <1>14, <1>15

LEMMA RollBackSettles ==
    ASSUME TInv, TInv', Bargained, Bargained', Comes, Agree, NEW e \in Ends, HandleCallEvent(e),
           Head(events[e]).type = "rollback", RollBack(e)
    PROVE  Comes' /\ Agree'
  <1> DEFINE o == Other(e)
             x == Head(events[e])
  <1>1. o \in Ends /\ o # e /\ Other(o) = e /\ \A f \in Ends : f = e \/ f = o
    BY TheEnds DEF Ends
  <1>2. /\ events[e] # <<>> /\ events'[o] = events[o] /\ events'[e] = Tail(events[e])
        /\ x.of \in Offers /\ events[e] \in Seq(Items) /\ UNCHANGED inbox
    BY EventParts
  <1>3. /\ signaling' = [signaling EXCEPT ![e] = "stable"]
        /\ local' = [local EXCEPT ![e] = NoOffer] /\ UNCHANGED <<outbox, made, session>>
    BY DEF RollBack
  <1>4. /\ signaling'[e] = "stable" /\ signaling'[o] = signaling[o]
        /\ local'[e] = NoOffer /\ local'[o] = local[o]
    BY <1>1, <1>3 DEF TInv, TypeOK
  <1>5. GivenWay(e) /\ e = "callee" /\ o = "caller"
    <2>1. Fits(x, R, Offers)
      BY <1>2 DEF Fits, R
    <2>2. Times(events[e], R, Offers) > 0
      BY <1>2, <2>1, TailTimes
    <2>3. GivenWay(e) /\ e = "callee"
      BY <2>2 DEF GivenWay, Bargained, BargainOf, Waits
    <2> QED
      BY <1>1, <2>3 DEF Ends
  <1>6. Current(e) = {} /\ Current(e)' = {} /\ Current(o)' = Current(o)
    BY <1>2, <1>4, <1>5 DEF Current, GivenWay
  <1>7. /\ Line(e)' = Line(e)
        /\ \A W : /\ Times(Line(o)', O, W) = Times(Line(o), O, W)
                  /\ Times(Line(o)', A, W) = Times(Line(o), A, W)
    <2>1. Line(e)' = Line(e)
      BY <1>2, <1>3 DEF Line
    <2>2. x.type \notin O /\ x.type \notin A
      BY DEF O, A
    <2>3. \A W : Times(Line(o)', O, W) = Times(Line(o), O, W)
      BY <1>3, <2>2, EventKeepsLine
    <2>4. \A W : Times(Line(o)', A, W) = Times(Line(o), A, W)
      BY <1>3, <2>2, EventKeepsLine
    <2> QED
      BY <2>1, <2>3, <2>4
  <1>8. /\ Answers(e)' = Answers(e) /\ Answers(o)' = Answers(o) /\ Answers(e) = 0
        /\ Tokens(o)' = Tokens(o)
    <2>1. Answers(e)' = Answers(e) /\ Answers(o)' = Answers(o)
      BY <1>1, <1>6, <1>7 DEF Answers
    <2>2. Answers(e) = Times(Line(o), A, {})
      BY <1>6 DEF Answers
    <2>3. Tokens(o)' = Tokens(o)
      BY <1>6, <1>7, <2>1 DEF Tokens
    <2> QED
      BY <2>1, <2>2, <2>3, TimesOfFew
  <1>9. Agree'
    BY <1>1, <1>3, <1>4, <1>5, <1>8 DEF Agree
  <1>10. Comes'
    BY <1>1, <1>4, <1>5, <1>8 DEF Comes
  <1> QED
    BY <1>9, <1>10

\* The answer carries on as the token of the offer that it is made for.
LEMMA AnsweredSettles ==
    ASSUME TInv, TInv', Bargained, Bargained', Comes, Agree, NEW e \in Ends, HandleCallEvent(e),
           Head(events[e]).type = "offer", AnswerOffer(e, Head(events[e]).of),
           signaling[e] = "stable"
    PROVE  Comes' /\ Agree'
  <1> DEFINE o == Other(e)
             x == Head(events[e])
             y == [type |-> "answer", of |-> x.of]
  <1>1. o \in Ends /\ o # e /\ Other(o) = e /\ \A f \in Ends : f = e \/ f = o
    BY TheEnds DEF Ends
  <1>2. /\ events[e] # <<>> /\ events'[o] = events[o] /\ events'[e] = Tail(events[e])
        /\ x.of \in Offers /\ events[e] \in Seq(Items) /\ UNCHANGED inbox
    BY EventParts
  <1>3. /\ made' = [made EXCEPT ![e] = Append(@, y)]
        /\ session' = [session EXCEPT ![e] = x.of]
        /\ UNCHANGED <<outbox, signaling, local>>
    BY DEF AnswerOffer
  <1>4. /\ made'[e] = Append(made[e], y) /\ made'[o] = made[o] /\ y \in Made
        /\ session'[e] = x.of
    BY <1>1, <1>2, <1>3 DEF TInv, TypeOK, Made
  <1>5. x.of \in Current(o) /\ Current(e) = {}
    <2>1. Times(events[e], O, Offers \ Current(o)) = 0
      BY <1>1 DEF Bargained, BargainOf, VoidIgnored, Void
    <2>2. x.type \in O
      BY DEF O
    <2>3. x.of \in Current(o)
      BY <1>2, <2>1, <2>2, HeadFits
    <2>4. Current(e) = {}
      BY DEF TInv, TypeOK, Current
    <2> QED
      BY <2>3, <2>4
  <1>6. Current(e)' = {} /\ Current(o)' = Current(o) /\ x.of = local[o]
    <2>1. local[e] = NoOffer
      BY DEF TInv, TypeOK
    <2>2. Current(e)' = {} /\ Current(o)' = Current(o)
      BY <1>2, <1>3, <2>1 DEF Current, GivenWay
    <2>3. x.of = local[o]
      BY <1>5 DEF Current
    <2> QED
      BY <2>2, <2>3
  <1>7. Fits(y, A, Current(o))
    BY <1>5 DEF Fits, A
  <1> HIDE DEF y
  <1>8. Times(Line(e)', A, Current(o)) > 0
    <2>1. Times(Line(e)', A, Current(o)) =
             IF Fits(y, A, Current(o)) THEN IF Times(Line(e), A, Current(o)) = 0 THEN 1 ELSE 2
             ELSE Times(Line(e), A, Current(o))
      BY <1>1, <1>2, <1>3, <1>4, MadeLines
    <2> QED
      BY <1>7, <2>1
  <1>9. Answers(o)' = 1 /\ Tokens(o)' = 1 /\ Answers(e)' = 0
    <2>1. Answers(o)' > 0
      BY <1>1, <1>6, <1>8 DEF Answers
    <2>2. Tokens(o)' = Times(Line(o)', O, Current(o)') + Answers(o)' /\ Tokens(o)' <= 1
      BY <1>1 DEF Tokens, Bargained, BargainOf
    <2>3. Times(Line(o)', O, Current(o)') \in Nat /\ Answers(o)' \in Nat
      BY TimesNat DEF Answers
    <2>4. Answers(e)' = Times(Line(o)', A, {})
      BY <1>6 DEF Answers
    <2> QED
      BY <2>1, <2>2, <2>3, <2>4, TimesOfFew
  <1>10. Agree'
    BY <1>1, <1>3, <1>4, <1>6, <1>9 DEF Agree, Ends
  <1>11. Comes'
    BY <1>1, <1>3, <1>9 DEF Comes, Ends
  <1> QED
    BY <1>10, <1>11

LEMMA CreateSettles ==
    ASSUME TInv, TInv', CountInv, Bargained, Bargained', Comes, Agree, NEW e \in Ends,
           CreateOffer(e)
    PROVE  Comes' /\ Agree'
  <1> DEFINE o == Other(e)
             x == [by |-> e, n |-> offers[e]]
             y == [type |-> "offer", of |-> x]
  <1>1. o \in Ends /\ o # e /\ Other(o) = e /\ \A f \in Ends : f = e \/ f = o
    BY TheEnds DEF Ends
  <1>2. /\ creating[e] /\ signaling' = [signaling EXCEPT ![e] = "have-local-offer"]
        /\ local' = [local EXCEPT ![e] = x]
        /\ made' = [made EXCEPT ![e] = Append(@, y)]
        /\ UNCHANGED <<outbox, inbox, events, session>>
    BY DEF CreateOffer, wire
  <1>3. x \in Offers /\ x # NoOffer /\ y \in Made
    <2>1. offers[e] \in Nat
      BY DEF TInv, TypeOK
    <2> QED
      BY <2>1 DEF Offers, NoOffer, Made, Ends
  <1> HIDE DEF x
  <1>4. /\ made'[e] = Append(made[e], y) /\ made'[o] = made[o]
        /\ local'[e] = x /\ local'[o] = local[o]
        /\ signaling'[e] = "have-local-offer" /\ signaling'[o] = signaling[o]
    BY <1>1, <1>2 DEF TInv, TypeOK
  <1>5. Current(e) = {} /\ ~GivenWay(e)
    BY <1>2 DEF Bargained, BargainOf, Waits, TInv, TypeOK, Current
  <1>6. Current(e)' = {x} /\ Current(o)' = Current(o)
    BY <1>2, <1>3, <1>4, <1>5 DEF Current, GivenWay
  <1>7. /\ Fits(y, O, {x}) /\ Fits(y, O, Offers) /\ \A W : ~Fits(y, A, W)
    BY <1>3 DEF Fits, O, A
  <1> HIDE DEF y
  <1>8. /\ Times(Line(e)', O, {x}) > 0 /\ Times(Line(e)', O, Offers) > 0
        /\ \A W : Times(Line(e)', A, W) = Times(Line(e), A, W)
    <2>1. \A T, W : Times(Line(e)', T, W) =
             IF Fits(y, T, W) THEN IF Times(Line(e), T, W) = 0 THEN 1 ELSE 2
             ELSE Times(Line(e), T, W)
      BY <1>1, <1>2, <1>3, <1>4, MadeLines
    <2>2. \A T, W : Fits(y, T, W) => Times(Line(e)', T, W) > 0
      BY <2>1
    <2>3. \A W : Times(Line(e)', A, W) = Times(Line(e), A, W)
      BY <1>7, <2>1
    <2> QED
      BY <1>7, <2>2, <2>3
  <1>9. Line(o)' = Line(o)
    BY <1>1, <1>2, <1>4 DEF Line
  <1>10. Answers(e) = 0 /\ Answers(e)' = 0 /\ Answers(o)' = Answers(o) /\ Tokens(o)' = Tokens(o)
    <2>1. Answers(e) = Times(Line(o), A, Offers) /\ Answers(e)' = Times(Line(o)', A, Offers)
      <3>1. TokensAlone /\ TokensAlone'
        BY AllAlone, AllAloneNext
      <3> QED
        BY <3>1 DEF TokensAlone
    <2>2. Answers(e) = Times(Line(o), A, {})
      BY <1>5 DEF Answers
    <2>3. Answers(e) = 0 /\ Answers(e)' = 0
      BY <1>9, <2>1, <2>2, TimesOfFew
    <2>4. Answers(o)' = Answers(o)
      BY <1>1, <1>6, <1>8 DEF Answers
    <2>5. Tokens(o)' = Tokens(o)
      BY <1>6, <1>9, <2>4 DEF Tokens
    <2> QED
      BY <2>3, <2>4, <2>5
  <1>11. Tokens(e)' = 1
    <2>1. Tokens(e)' = Times(Line(e)', O, {x}) + Answers(e)' /\ Tokens(e)' <= 1
      BY <1>6 DEF Tokens, Bargained, BargainOf
    <2>2. Times(Line(e)', O, {x}) \in Nat
      BY TimesNat
    <2> QED
      BY <1>8, <1>10, <2>1, <2>2
  <1>12. Agree'
    BY <1>1, <1>2, <1>4, <1>10 DEF Agree, Ends
  <1>13. Comes'
    <2>1. CASE e = "caller"
      BY <1>1, <1>8, <1>11, <2>1 DEF Comes, Ends
    <2>2. CASE e = "callee"
      BY <1>1, <1>4, <1>10, <1>11, <2>2 DEF Comes, Ends
    <2> QED
      BY <2>1, <2>2 DEF Ends
  <1> QED
    BY <1>12, <1>13

-------------------------------------------------------------------------------

LEMMA StepSettles ==
    TInv /\ TInv' /\ CountInv /\ BargainInv /\ BargainInv' /\ SettleInv /\ [Next]_vars => SettleInv'
  <1> SUFFICES ASSUME TInv, TInv', CountInv, BargainInv, BargainInv', SettleInv, [Next]_vars,
                      Smooth'
               PROVE  Comes' /\ Agree'
    BY DEF SettleInv
  <1>1. Smooth /\ Bargained /\ Bargained'
    BY SmoothBefore DEF BargainInv
  <1>2. Comes /\ Agree
    BY <1>1 DEF SettleInv
  <1>3. CASE UNCHANGED vars
    <2>1. UNCHANGED <<signaling, session, local, outbox, inbox, events, made>>
      BY <1>3 DEF vars, wire, rtc
    <2>2. \A f \in Ends : Current(f)' = Current(f) /\ Counts(Line(f)', Line(f))
      BY <2>1 DEF Current, GivenWay, Line, Counts
    <2> QED
      BY <1>2, <2>1, <2>2, SettleKept
  <1>4. CASE Next
    <2>1. PICK e \in Ends :
             \/ Deliver(e) \/ Lose(e) \/ HandleSignal(e) \/ HandleCallEvent(e)
             \/ SetMuted(e) \/ NoteConnected(e)
             \/ BeginOffer(e) \/ CreateOffer(e) \/ SendNegotiate(e) \/ Arm(e) \/ TimeOut(e)
      BY <1>4 DEF Next
    <2>2. CASE \/ Deliver(e) \/ Lose(e) \/ SetMuted(e) \/ NoteConnected(e)
               \/ BeginOffer(e) \/ SendNegotiate(e) \/ Arm(e) \/ TimeOut(e)
      BY <1>1, <1>2, <2>2, QuietSettles
    <2>3. CASE HandleSignal(e)
      BY <1>1, <1>2, <2>3, SignalSettles
    <2>4. CASE CreateOffer(e)
      BY <1>1, <1>2, <2>4, CreateSettles
    <2>5. CASE HandleCallEvent(e)
      <3> DEFINE x == Head(events[e])
      <3>1. \/ x.type = "answer" /\ ApplyAnswer(e, x.of)
            \/ x.type = "rollback" /\ RollBack(e)
            \/ x.type = "offer" /\ AnswerOffer(e, x.of)
        BY <2>5 DEF HandleCallEvent
      <3>2. CASE x.type = "answer" /\ ApplyAnswer(e, x.of)
        BY <1>1, <1>2, <2>5, <3>2, AppliedSettles
      <3>3. CASE x.type = "rollback" /\ RollBack(e)
        BY <1>1, <1>2, <2>5, <3>3, RollBackSettles
      <3>4. CASE x.type = "offer" /\ AnswerOffer(e, x.of)
        <4>1. signaling[e] = "stable"
          <5>1. state'[e] # "Ended"
            BY DEF Smooth
          <5>2. signaling[e] # "stable" => state'[e] = "Ended"
            BY <3>4 DEF AnswerOffer, HangUpFailed, TInv, TypeOK
          <5> QED
            BY <5>1, <5>2
        <4> QED
          BY <1>1, <1>2, <2>5, <3>4, <4>1, AnsweredSettles
      <3> QED
        BY <3>1, <3>2, <3>3, <3>4
    <2> QED
      BY <2>1, <2>2, <2>3, <2>4, <2>5
  <1> QED
    BY <1>3, <1>4

LEMMA InitSettles == Init => SettleInv
  <1> SUFFICES ASSUME Init PROVE Comes /\ Agree
    BY DEF SettleInv
  <1> DEFINE m == [type |-> "accept", of |-> Invite, muted |-> muted["callee"]]
  <1>1. /\ "caller" \in Ends /\ "callee" \in Ends /\ "caller" # "callee"
        /\ Other("caller") = "callee" /\ Other("callee") = "caller"
        /\ \A f \in Ends : f = "caller" \/ f = "callee"
    BY TheEnds DEF Ends
  <1>2. /\ outbox["caller"] = <<>> /\ outbox["callee"] = <<m>>
        /\ \A f \in Ends : inbox[f] = <<>> /\ events[f] = <<>> /\ made[f] = <<>>
        /\ signaling["caller"] = "have-local-offer" /\ signaling["callee"] = "stable"
        /\ local["caller"] = Invite /\ local["callee"] = NoOffer
        /\ session["callee"] = Invite
    BY <1>1 DEF Init
  <1>3. Invite \in Offers /\ NoOffer # Invite
    BY Descriptions
  <1>4. \A T, W : /\ Times(<<>>, T, W) = 0
                  /\ Times(<<m>>, T, W) = IF Fits(m, T, W) THEN 1 ELSE 0
    BY EmptyTimes, TimesOfOne
  <1>5. Fits(m, A, {Invite})
    BY DEF Fits, A
  <1> HIDE DEF m
  <1>6. Line("caller") = <<>> /\ Line("callee") = <<m>>
    <2>1. <<>> \o <<>> = <<>> /\ <<>> \o <<m>> = <<m>> /\ <<m>> \o <<>> = <<m>>
      <3>1. <<m>> \in Seq({m}) /\ <<>> \in Seq({m})
        OBVIOUS
      <3> QED
        BY <3>1, ConcatEmptySeq
    <2> QED
      BY <1>1, <1>2, <2>1 DEF Line
  <1>7. Current("caller") = {Invite} /\ Current("callee") = {}
    BY <1>1, <1>2, <1>3, <1>4 DEF Current, GivenWay
  <1>8. Answers("caller") = 1 /\ Answers("callee") = 0
    BY <1>1, <1>4, <1>5, <1>6, <1>7 DEF Answers
  <1>9. Tokens("caller") = 1
    BY <1>4, <1>6, <1>8 DEF Tokens
  <1>10. Comes
    BY <1>2, <1>9 DEF Comes
  <1>11. Agree
    BY <1>1, <1>2, <1>8 DEF Agree
  <1> QED
    BY <1>10, <1>11

(* With nothing lost, late, overtaken or unanswered, once everything sent   *)
(* has arrived and is acted on, the two ends of a call that is still on     *)
(* have the same description, and neither waits for an answer: however the  *)
(* offers of the two crossed, and however many there were.                  *)
THEOREM NegotiationSettled == Spec => []NegotiationSettles
  <1>1. Init => SettleInv
    BY InitSettles
  <1>2. TInv /\ BargainInv /\ SettleInv => NegotiationSettles
    <2> SUFFICES ASSUME TInv, BargainInv, SettleInv, Settled, InCall, faults = {}
                 PROVE  /\ session["caller"] = session["callee"]
                        /\ \A e \in Ends : signaling[e] = "stable" /\ ~local_offer_pending[e]
      BY DEF NegotiationSettles
    <2>1. Comes /\ Agree
      BY DEF SettleInv, Smooth, InCall
    <2>2. Bargained
      BY DEF BargainInv, Orderly
    <2>3. ASSUME NEW e \in Ends
          PROVE  \A T, W : Times(Line(e), T, W) = 0
      <3>1. Other(e) \in Ends
        BY TheEnds
      <3>2. events[Other(e)] = <<>> /\ inbox[Other(e)] = <<>> /\ outbox[e] = <<>> /\ made[e] = <<>>
        BY <3>1 DEF Settled
      <3> QED
        BY <3>2, EmptyTimes, LineByParts DEF LinesByParts
    <2>4. \A e \in Ends : Answers(e) = 0 /\ Tokens(e) = 0
      BY <2>3, TheEnds DEF Answers, Tokens
    <2>5. \A e \in Ends : signaling[e] = "stable"
      <3>1. \A e \in Ends : signaling[e] # "have-local-offer"
        <4>1. \A T, W : Times(Line("caller"), T, W) = 0
          BY <2>3 DEF Ends
        <4> QED
          BY <2>1, <2>4, <4>1 DEF Comes, Ends
      <3> QED
        BY <3>1 DEF TInv, TypeOK
    <2>6. \A e \in Ends : ~local_offer_pending[e]
      BY <2>2, <2>5 DEF Bargained, BargainOf, Waits
    <2>7. session["caller"] = session["callee"]
      BY <2>1, <2>4 DEF Agree, Ends
    <2> QED
      BY <2>5, <2>6, <2>7
  <1> QED
    BY <1>1, <1>2, BargainInvariant, StepSettles, PTL DEF Spec
===============================================================================
