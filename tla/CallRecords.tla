------------------------------- MODULE CallRecords -------------------------------
(***************************************************************************)
(* What a session keeps of calls beside the call it is in: candidates that *)
(* arrive before the call they belong to or before it is answered, and the *)
(* outcome of every call the room shows, of which the oldest are           *)
(* forgotten.  The signals are events of one or more rooms, in any order.  *)
(***************************************************************************)
EXTENDS Integers, SequencesExt

CONSTANTS
    CallIds,      \* call ids, of which glare compares the order
    Ours,         \* calls this session may be in; of the others it sees signals
    Batches,      \* candidate batches: the call, and the place in its order
    Foreign,      \* those of a device that is not the call's other end
    None,
    MAX_EARLY_CANDIDATE_BATCHES,
    MAX_REMEMBERED_OUTCOMES

ASSUME CallsAssumption ==
    /\ CallIds \subseteq Nat /\ None \notin CallIds /\ Ours \subseteq CallIds
    /\ Batches \subseteq [call : CallIds, n : Nat]
    /\ Foreign \subseteq Batches
    /\ MAX_EARLY_CANDIDATE_BATCHES \in Nat \ {0}
    /\ MAX_REMEMBERED_OUTCOMES \in Nat \ {0}

VARIABLES
    active_call,
    state,              \* of the session's calls; "none" of the others
    incoming,           \* those that were invites
    accepting,          \* the call that accept() has not made Connecting yet
    overtaken,          \* whether candidates came in the midst of the last accept()
    pending_candidates, \* of each call
    early_candidates,   \* the batches held, in order of arrival
    old,                \* those past EARLY_CANDIDATE_LIFETIME
    delivered,          \* the batches handed to the embedder, in order
    arrived,            \* the batches that arrived
    outcomes,
    outcome_order,
    known               \* calls there was an invite of, or a signal about

calls   == <<active_call, state, incoming, accepting, overtaken, pending_candidates, delivered>>
held    == <<early_candidates, old>>
results == <<outcomes, outcome_order>>
vars    == <<calls, held, results, arrived, known>>

Live == {"Ringing", "Dialing", "Connecting"}
Outcomes == {"Ringing", "Answered", "Declined", "Missed"}

Init ==
    /\ active_call = None
    /\ state = [c \in CallIds |-> "none"]
    /\ incoming = {} /\ known = {}
    /\ accepting = None /\ overtaken = FALSE
    /\ pending_candidates = [c \in CallIds |-> <<>>]
    /\ early_candidates = <<>> /\ old = {}
    /\ delivered = <<>> /\ arrived = {}
    /\ outcomes = <<>> /\ outcome_order = <<>>

-------------------------------------------------------------------------------
(* note_outcome *)

\* Mutant: the later outcome is taken whatever it is.
MergeLast(c, next) == next

\* What is known of a call when another outcome is learned.
MergeOutcome(c, next) ==
    IF c \notin DOMAIN outcomes THEN next
    ELSE IF next = "Ringing" \/ (outcomes[c] = "Answered" /\ next = "Missed")
         THEN outcomes[c]
         ELSE next

\* Mutant: a call is entered in the order whenever its outcome changes.
RememberAgain(c) ==
    LET order == Append(outcome_order, c)
    IN  IF Len(order) > MAX_REMEMBERED_OUTCOMES THEN Tail(order) ELSE order

\* The calls remembered once c is.
Remember(c) ==
    LET order == Append(outcome_order, c)
    IN  IF c \in DOMAIN outcomes THEN outcome_order
        ELSE IF Len(order) > MAX_REMEMBERED_OUTCOMES THEN Tail(order) ELSE order

NoteOutcome(c, next) ==
    /\ outcome_order' = Remember(c)
    /\ outcomes' = [d \in (DOMAIN outcomes \cap ToSet(outcome_order')) \cup {c} |->
                        IF d = c THEN MergeOutcome(c, next) ELSE outcomes[d]]

-------------------------------------------------------------------------------
(* Candidates *)

\* The elements of s in T, in their order.
Only(s, T) ==
    LET kept[i \in 0..Len(s)] ==
            IF i = 0 THEN <<>>
            ELSE IF s[i] \in T THEN Append(kept[i - 1], s[i]) ELSE kept[i - 1]
    IN  kept[Len(s)]

Of(c) == {b \in Batches : b.call = c}

\* The party of a batch is checked against the one the call is with, which an
\* outgoing call has none of before it is answered.
IsRemoteParty(b) ==
    b \notin Foreign \/ (b.call \notin incoming' /\ state'[b.call] = "Dialing")

\* Call::handle_candidates, of some batches of c.
HandleCandidates(c, batches) ==
    LET ours == Only(batches, {b \in Batches : IsRemoteParty(b)})
    IN  IF state'[c] = "Ringing"
        THEN /\ pending_candidates' = [pending_candidates EXCEPT ![c] = @ \o ours]
             /\ UNCHANGED delivered
        ELSE delivered' = delivered \o ours /\ UNCHANGED pending_candidates

\* Mutant: only age makes room.
HoldUnbounded(b) ==
    early_candidates' = Append(Only(early_candidates, Batches \ old), b) /\ UNCHANGED old

\* Mutant: the latest one goes.
HoldLastOut(b) ==
    LET young == Only(early_candidates, Batches \ old)
        kept  == IF Len(young) >= MAX_EARLY_CANDIDATE_BATCHES THEN Front(young) ELSE young
    IN  early_candidates' = Append(kept, b) /\ UNCHANGED old

\* A batch is kept for an invite still to come; the oldest may go, and those
\* past their time do.
HoldEarlyCandidates(b) ==
    LET young == Only(early_candidates, Batches \ old)
        kept  == IF Len(young) >= MAX_EARLY_CANDIDATE_BATCHES THEN Tail(young) ELSE young
    IN  early_candidates' = Append(kept, b) /\ UNCHANGED old

\* Mutant: they are handed over from the last one back.
ReplayReversed(c) ==
    /\ early_candidates' = Only(early_candidates, Batches \ Of(c)) /\ UNCHANGED old
    /\ HandleCandidates(c, Reverse(Only(early_candidates, Of(c))))

\* Those of a call that has become active are handed to it, whatever their age.
ReplayEarlyCandidates(c) ==
    /\ early_candidates' = Only(early_candidates, Batches \ Of(c)) /\ UNCHANGED old
    /\ HandleCandidates(c, Only(early_candidates, Of(c)))

\* Time passes: the batches held the longest are past their time.
GrowOld ==
    \E i \in DOMAIN early_candidates :
        /\ old' = old \cup {early_candidates[j] : j \in 1..i}
        /\ old' # old
        /\ UNCHANGED <<calls, early_candidates, results, arrived, known>>

-------------------------------------------------------------------------------
(* The calls *)

SetActiveCall(c) == active_call' = c /\ ReplayEarlyCandidates(c)

\* Call::end(), of the calls in ended.
End(ended) ==
    /\ state' = [c \in CallIds |-> IF c \in ended /\ state[c] \in Live THEN "Ended"
                                   ELSE state[c]]
    /\ pending_candidates' = [c \in CallIds |-> IF c \in ended /\ state[c] \in Live
                                                THEN <<>> ELSE pending_candidates[c]]
    /\ UNCHANGED <<active_call, incoming, accepting, overtaken, delivered>>

\* Calls::place, of a new id.
Place(c) ==
    /\ c \in Ours /\ active_call = None /\ c \notin known
    /\ state' = [state EXCEPT ![c] = "Dialing"]
    /\ known' = known \cup {c}
    /\ UNCHANGED <<incoming, accepting, overtaken, results, arrived>>
    /\ SetActiveCall(c)

\* Mutant: the candidates stay where they were.
BeginAcceptOnly(c) ==
    /\ active_call = c /\ state[c] = "Ringing" /\ accepting = None
    /\ accepting' = c /\ overtaken' = FALSE
    /\ UNCHANGED <<active_call, state, incoming, held, results, arrived, known,
                   delivered, pending_candidates>>

\* Call::accept: the pending candidates are handed over, and then the call is
\* Connecting, unless it ended.
BeginAccept(c) ==
    /\ active_call = c /\ state[c] = "Ringing" /\ accepting = None
    /\ delivered' = delivered \o pending_candidates[c]
    /\ pending_candidates' = [pending_candidates EXCEPT ![c] = <<>>]
    /\ accepting' = c /\ overtaken' = FALSE
    /\ UNCHANGED <<active_call, state, incoming, held, results, arrived, known>>

FinishAccept ==
    /\ accepting # None /\ accepting' = None
    /\ state' = [state EXCEPT ![accepting] = IF @ = "Ringing" THEN "Connecting" ELSE @]
    /\ UNCHANGED <<active_call, incoming, overtaken, pending_candidates, delivered, held,
                   results, arrived, known>>

\* The user, a timer or the embedder ends the call.
EndLocally(c) ==
    /\ state[c] \in Live /\ End({c})
    /\ UNCHANGED <<held, results, arrived, known>>

\* The end watch of the active call.
ForgetEnded ==
    /\ active_call # None /\ state[active_call] = "Ended"
    /\ active_call' = None
    /\ UNCHANGED <<state, incoming, accepting, overtaken, pending_candidates, delivered, held,
                   results, arrived, known>>

-------------------------------------------------------------------------------
(* handle_signal *)

Ring(c) ==
    /\ state' = [d \in CallIds |-> IF d = c THEN "Ringing"
                                   ELSE IF d = active_call THEN "Ended" ELSE state[d]]
    /\ incoming' = incoming \cup {c}
    /\ SetActiveCall(c)
    /\ UNCHANGED <<accepting, overtaken>>

\* An invite: expired, of our own user, the greater id of a glare or otherwise
\* ignored; or it rings; or it is the lesser id of a glare and our call gives
\* way to it; or we are busy.
HandleInvite(c) ==
    /\ state[c] = "none" /\ known' = known \cup {c}
    /\ NoteOutcome(c, "Ringing")
    /\ \/ UNCHANGED <<calls, held>>
       \/ active_call = None /\ c \in Ours /\ Ring(c)
       \/ /\ active_call # None /\ state[active_call] = "Dialing" /\ c < active_call
          /\ c \in Ours /\ Ring(c)
       \/ /\ active_call # None /\ c \in Ours
          /\ state' = [state EXCEPT ![c] = "Ended"] /\ incoming' = incoming \cup {c}
          /\ UNCHANGED <<active_call, accepting, overtaken, pending_candidates, delivered, held>>
    /\ UNCHANGED arrived

\* An answer, ours or theirs.
HandleAnswer(c) ==
    /\ known' = known \cup {c}
    /\ NoteOutcome(c, "Answered")
    /\ \/ /\ active_call = c /\ state[c] = "Dialing"
          /\ state' = [state EXCEPT ![c] = "Connecting"]
       \/ UNCHANGED state
    /\ UNCHANGED <<active_call, incoming, accepting, overtaken, pending_candidates,
                   delivered, held, arrived>>

\* A selection: another device was chosen, or this one.
HandleSelectAnswer(c) ==
    /\ known' = known \cup {c}
    /\ NoteOutcome(c, "Answered")
    /\ End({}) \/ End(IF active_call = c /\ c \in incoming THEN {c} ELSE {})
    /\ UNCHANGED <<held, arrived>>

\* A reject, or a hangup for the reason that the callee is busy.
HandleReject(c) ==
    /\ known' = known \cup {c}
    /\ NoteOutcome(c, "Declined")
    /\ End({}) \/ End(IF active_call = c THEN {c} ELSE {})
    /\ UNCHANGED <<held, arrived>>

HandleHangup(c) ==
    /\ known' = known \cup {c}
    /\ NoteOutcome(c, "Missed")
    /\ End({}) \/ End(IF active_call = c THEN {c} ELSE {})
    /\ UNCHANGED <<held, arrived>>

\* Candidates of the call we are in, or of one we may be about to be in.  A
\* call we place has none before it is placed.
ReceiveCandidates(b) ==
    /\ b \notin arrived
    /\ \A x \in Batches \ arrived : x.call = b.call => x.n >= b.n
    /\ arrived' = arrived \cup {b} /\ known' = known \cup {b.call}
    /\ overtaken' = (overtaken \/ (accepting = b.call /\ state[b.call] = "Ringing"))
    /\ UNCHANGED <<active_call, state, incoming, accepting, results>>
    /\ IF active_call = b.call
       THEN HandleCandidates(b.call, <<b>>) /\ UNCHANGED held
       ELSE HoldEarlyCandidates(b) /\ UNCHANGED <<pending_candidates, delivered>>

Next ==
    \/ GrowOld \/ FinishAccept \/ ForgetEnded
    \/ \E c \in CallIds :
          \/ Place(c) \/ BeginAccept(c) \/ EndLocally(c)
          \/ HandleInvite(c) \/ HandleAnswer(c) \/ HandleSelectAnswer(c)
          \/ HandleReject(c) \/ HandleHangup(c)
    \/ \E b \in Batches : ReceiveCandidates(b)

Spec == Init /\ [][Next]_vars

-------------------------------------------------------------------------------
(* Properties *)

TypeOK ==
    /\ active_call \in CallIds \cup {None} /\ accepting \in CallIds \cup {None}
    /\ overtaken \in BOOLEAN
    /\ state \in [CallIds -> Live \cup {"none", "Ended"}]
    /\ incoming \subseteq CallIds /\ known \subseteq CallIds
    /\ pending_candidates \in [CallIds -> Seq(Batches)]
    /\ early_candidates \in Seq(Batches) /\ old \subseteq Batches
    /\ Len(early_candidates) <= MAX_EARLY_CANDIDATE_BATCHES
    /\ delivered \in Seq(Batches) /\ arrived \subseteq Batches
    /\ outcomes \in [DOMAIN outcomes -> Outcomes]
    /\ outcome_order \in Seq(CallIds)

\* Map and order name the same calls, each once, and no more than are to be
\* remembered ("so that the oldest can be forgotten", calls/mod.rs:163).
OutcomesInOrder ==
    /\ DOMAIN outcomes = ToSet(outcome_order)
    /\ IsInjective(outcome_order)
    /\ Len(outcome_order) <= MAX_REMEMBERED_OUTCOMES

\* "A call that was answered and then hung up ended; it was not missed."
\* (calls/mod.rs:872), for as long as the call is remembered.
AnsweredIsNotMissed ==
    [][\A c \in DOMAIN outcomes \cap DOMAIN outcomes' :
          outcomes[c] = "Answered" => outcomes'[c] # "Missed"]_vars

\* The embedder is handed no batch twice, and those of a call in the order in
\* which they arrived: the last one says "that is all of them"
\* (calls/call.rs:862).
DeliveredInOrder ==
    \A i, j \in DOMAIN delivered :
        i < j /\ delivered[i].call = delivered[j].call => delivered[i].n < delivered[j].n

\* "handed over now that there is something to give them to" (calls/call.rs:475):
\* in a call that is connecting nothing is held back, neither by the session
\* nor by the call.  The call hands its candidates over before it leaves
\* Ringing, so those that come between the two stay where they are.
NothingHeldBack ==
    active_call # None /\ state[active_call] = "Connecting" =>
        /\ overtaken \/ pending_candidates[active_call] = <<>>
        /\ \A b \in ToSet(early_candidates) : b.call # active_call

\* A batch held is dropped only for its age or for more recent ones.
HeldUntilClaimed ==
    [][\A b \in ToSet(early_candidates) \ ToSet(early_candidates') :
          \/ b \in old \/ b.call = active_call'
          \/ b = Head(early_candidates)
             /\ ToSet(early_candidates) \cap old = {}
             /\ Len(early_candidates) = MAX_EARLY_CANDIDATE_BATCHES]_vars
===============================================================================
