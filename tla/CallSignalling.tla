---------------------------- MODULE CallSignalling ----------------------------
(***************************************************************************)
(* One-to-one calls between the devices of two users in one room:          *)
(* src/commune-core/src/session/calls/mod.rs and call.rs.                  *)
(*                                                                         *)
(* Every device runs one task that acts on the call events of its sync in  *)
(* order (Calls::init), and each handler is one action.  The embedder      *)
(* places, answers, declines and hangs up; timers give up on an invite.    *)
(* Call::send spawns a task per event, so two events of one device reach   *)
(* the room in either order; the room has one order, which every device    *)
(* reads, its own events included.                                         *)
(***************************************************************************)
EXTENDS Naturals, Sequences, FiniteSets

CONSTANTS
    Alice, Bob,  \* the devices of either user
    CallIds,     \* the call ids there are to draw: numbers, the order of glare
    None,
    Suspends,    \* whether place() is suspended while it loads the room
    MaxLost,     \* bound: how many events fail to be sent
    MayLeave     \* whether a user leaves the room, once and for good

ASSUME DevicesAssumption ==
    /\ Alice # {} /\ Bob # {} /\ Alice \cap Bob = {}
    /\ None \notin Alice \cup Bob
ASSUME IdsAssumption == CallIds \subseteq Nat /\ None \notin CallIds
ASSUME SuspendsAssumption == Suspends \in BOOLEAN /\ MaxLost \in Nat
ASSUME LeavingAssumption == MayLeave \in BOOLEAN

Devices == Alice \cup Bob

SameUser(d, e) == {d, e} \subseteq Alice \/ {d, e} \subseteq Bob

\* CallState, and "None" where a device has no such call.
CallStates == {"None", "Ringing", "Dialing", "Connecting", "Connected", "Ended"}

Kinds == {"invite", "answer", "select", "reject", "hangup", "busy"}

\* An event: its kind, call and sender, and the party a select_answer names.
Events == [kind : Kinds, call : CallIds, from : Devices,
           selected : Devices \cup {None}]

Event(kind, c, d) == [kind |-> kind, call |-> c, from |-> d, selected |-> None]
Select(c, d, p) == [kind |-> "select", call |-> c, from |-> d, selected |-> p]

VARIABLES
    placer,      \* who placed each call, None while its id is not drawn
    state,       \* state[d][c], the state of call c at device d
    party,       \* party[d][c], remote_party_id: the device at the other end
    active,      \* active[d], active_call
    placing,     \* devices whose place() is past its first check
    outbox,      \* events whose sending task has not run
    inbox,       \* inbox[d], the events of the room d has not acted on
    lost,        \* how many events were not sent, though they might have been
    gone,        \* the devices of a user who left the room
    untold       \* devices whose room has yet to handle that they left

vars == <<placer, state, party, active, placing, outbox, inbox, lost, gone, untold>>
wire == <<outbox, inbox, lost>>
members == <<gone, untold>>

IsOutgoing(d, c) == placer[c] = d
IsEnded(d, c) == state[d][c] = "Ended"
InCall(d, c) == state[d][c] \in {"Connecting", "Connected"}

Init ==
    /\ placer = [c \in CallIds |-> None]
    /\ state = [d \in Devices |-> [c \in CallIds |-> "None"]]
    /\ party = [d \in Devices |-> [c \in CallIds |-> None]]
    /\ active = [d \in Devices |-> None]
    /\ placing = {}
    /\ outbox = {}
    /\ inbox = [d \in Devices |-> <<>>]
    /\ lost = 0
    /\ gone = {} /\ untold = {}

-------------------------------------------------------------------------------
SetState(d, c, s) == state' = [state EXCEPT ![d][c] = s]

\* Calls::place, once the room is loaded: a new call with an id drawn at
\* random takes the place of whatever call is active.
Dial(d) ==
    \E c \in CallIds :
        /\ placer[c] = None
        /\ placer' = [placer EXCEPT ![c] = d]
        /\ SetState(d, c, "Dialing")
        /\ active' = [active EXCEPT ![d] = c]
        /\ outbox' = outbox \cup {Event("invite", c, d)}
        /\ UNCHANGED <<party, inbox, lost, members>>

\* Calls::place, when what it awaits is there already.
Place(d) ==
    /\ ~Suspends
    /\ active[d] = None
    /\ Dial(d)
    /\ UNCHANGED placing

\* Calls::place up to its first await, and from there on; the room may turn
\* out not to be one a call can be placed in.
BeginPlace(d) ==
    /\ Suspends
    /\ active[d] = None /\ d \notin placing
    /\ placing' = placing \cup {d}
    /\ UNCHANGED <<placer, state, party, active, wire, members>>

FinishPlace(d) ==
    /\ d \in placing
    /\ placing' = placing \ {d}
    /\ \/ Dial(d)
       \/ UNCHANGED <<placer, state, party, active, wire, members>>

\* Call::accept
Accept(d, c) ==
    /\ active[d] = c /\ state[d][c] = "Ringing"
    /\ outbox' = outbox \cup {Event("answer", c, d)}
    /\ SetState(d, c, "Connecting")
    /\ UNCHANGED <<placer, party, active, placing, inbox, lost, members>>

\* Call::reject
Reject(d, c) ==
    /\ active[d] = c /\ state[d][c] = "Ringing"
    /\ outbox' = outbox \cup {Event("reject", c, d)}
    /\ SetState(d, c, "Ended")
    /\ UNCHANGED <<placer, party, active, placing, inbox, lost, members>>

\* Call::hangup_with
HangUp(d, c) ==
    /\ state[d][c] \notin {"None", "Ended"}
    /\ outbox' = outbox \cup {Event("hangup", c, d)}
    /\ SetState(d, c, "Ended")
    /\ UNCHANGED <<placer, party, active, placing, inbox, lost, members>>

\* Call::hangup, and its kin for failures, on the active call.
EmbedderHangsUp(d, c) == active[d] = c /\ HangUp(d, c)

\* Mutant: only a connection that never came up ends the call.
NoConnectionYet(d, c) ==
    /\ state[d][c] = "Connecting" /\ ~InCall(party[d][c], c)
    /\ HangUp(d, c)

\* Call::hangup_no_connection: media never came up, or died.
NoConnection(d, c) ==
    /\ InCall(d, c) /\ ~InCall(party[d][c], c)
    /\ HangUp(d, c)

\* Call::note_connected: media flows, which takes the other end.
NoteConnected(d, c) ==
    /\ state[d][c] = "Connecting"
    /\ InCall(party[d][c], c)
    /\ SetState(d, c, "Connected")
    /\ UNCHANGED <<placer, party, active, placing, wire, members>>

\* Mutant: only the caller gives up.
LifetimeEndsForCaller(d, c) == state[d][c] = "Dialing" /\ HangUp(d, c)

\* Call::arm_lifetime_timeout: the invite expires, loudly for the caller and
\* in silence for the callee.
LifetimeEnds(d, c) ==
    \/ state[d][c] = "Dialing" /\ HangUp(d, c)
    \/ /\ state[d][c] = "Ringing"
       /\ SetState(d, c, "Ended")
       /\ UNCHANGED <<placer, party, active, placing, wire, members>>

\* The end watch of set_active_call, a task of its own.
ForgetEnded(d) ==
    /\ active[d] # None /\ IsEnded(d, active[d])
    /\ active' = [active EXCEPT ![d] = None]
    /\ UNCHANGED <<placer, state, party, placing, wire, members>>

-------------------------------------------------------------------------------
(* The handlers of the signal task.  Each leaves placer, placing, lost and members. *)

Ignore == UNCHANGED <<state, party, active, outbox>>

EndCall(d, c) ==
    /\ SetState(d, c, "Ended")
    /\ UNCHANGED <<party, active, outbox>>

\* Call::is_remote_party
IsRemoteParty(d, e) ==
    /\ e.from # d
    /\ party[d][e.call] \in {None, e.from}

\* Mutant: two arguments of one type, swapped.
ReceiveSwapped(d, e, st) ==
    /\ state' = [st EXCEPT ![d][e.call] = "Ringing"]
    /\ party' = [party EXCEPT ![d][e.call] = e.call]
    /\ active' = [active EXCEPT ![d] = e.call]

\* Call::receive and set_active_call
Receive(d, e, st) ==
    /\ state' = [st EXCEPT ![d][e.call] = "Ringing"]
    /\ party' = [party EXCEPT ![d][e.call] = e.from]
    /\ active' = [active EXCEPT ![d] = e.call]

\* Mutants: ours always wins; ours is dropped without ending it.
GlareNeverYields(d, e) == Ignore

GlareDropsOurs(d, e) ==
    LET mine == active[d]
    IN  IF IsOutgoing(d, mine) /\ state[d][mine] = "Dialing" /\ e.call < mine
        THEN Receive(d, e, state) /\ UNCHANGED outbox
        ELSE Ignore

\* Calls::handle_glare
HandleGlare(d, e) ==
    LET mine == active[d]
    IN  IF ~(IsOutgoing(d, mine) /\ state[d][mine] = "Dialing")
        THEN /\ SetState(d, e.call, "Ended")
             /\ party' = [party EXCEPT ![d][e.call] = e.from]
             /\ outbox' = outbox \cup {Event("busy", e.call, d)}
             /\ UNCHANGED active
        ELSE IF e.call < mine
        THEN /\ Receive(d, e, [state EXCEPT ![d][mine] = "Ended"])
             /\ outbox' = outbox \cup {Event("hangup", mine, d)}
        ELSE Ignore

\* Calls::handle_invite.  An invite is too old to ring for only once its
\* caller stopped dialling: both go by the same ninety seconds.
HandleInvite(d, e) ==
    IF SameUser(d, e.from) THEN Ignore
    ELSE \/ state[e.from][e.call] # "Dialing" /\ Ignore
         \/ active[d] # None /\ HandleGlare(d, e)
         \/ active[d] = None /\ Receive(d, e, state) /\ UNCHANGED outbox

\* Mutant: the state is not looked at.
HandleAnswerAnyState(d, e) ==
    IF IsOutgoing(d, e.call) /\ IsRemoteParty(d, e)
    THEN /\ party' = [party EXCEPT ![d][e.call] = e.from]
         /\ outbox' = outbox \cup {Select(e.call, d, e.from)}
         /\ SetState(d, e.call, "Connecting")
         /\ UNCHANGED active
    ELSE Ignore

\* Call::handle_answer
HandleAnswer(d, e) ==
    IF IsOutgoing(d, e.call) /\ state[d][e.call] = "Dialing" /\ IsRemoteParty(d, e)
    THEN /\ party' = [party EXCEPT ![d][e.call] = e.from]
         /\ outbox' = outbox \cup {Select(e.call, d, e.from)}
         /\ SetState(d, e.call, "Connecting")
         /\ UNCHANGED active
    ELSE Ignore

\* Mutant: nobody minds which answer was taken.
IgnoreSelectAnswer(d, e) == Ignore

\* Call::handle_select_answer
HandleSelectAnswer(d, e) ==
    IF ~IsOutgoing(d, e.call) /\ ~SameUser(d, e.from) /\ e.selected # d
    THEN EndCall(d, e.call) ELSE Ignore

\* Call::handle_hangup
HandleHangup(d, e) == IF IsRemoteParty(d, e) THEN EndCall(d, e.call) ELSE Ignore

\* Call::handle_reject
HandleReject(d, e) == IF e.from # d THEN EndCall(d, e.call) ELSE Ignore

\* Calls::handle_signal: only an invite is about a call other than the active.
HandleSignal(d) ==
    /\ inbox[d] # <<>>
    /\ inbox' = [inbox EXCEPT ![d] = Tail(@)]
    /\ LET e == Head(inbox[d])
       IN  \/ e.kind = "invite" /\ HandleInvite(d, e)
           \/ e.kind # "invite" /\ active[d] # e.call /\ Ignore
           \/ /\ active[d] = e.call
              /\ \/ e.kind = "answer" /\ HandleAnswer(d, e)
                 \/ e.kind = "select" /\ HandleSelectAnswer(d, e)
                 \/ e.kind \in {"hangup", "busy"} /\ HandleHangup(d, e)
                 \/ e.kind = "reject" /\ HandleReject(d, e)
    /\ UNCHANGED <<placer, placing, lost, members>>

-------------------------------------------------------------------------------
(* Call::send: the task that sends an event runs, or fails. *)

\* Every handler ignores the events of its own device, so they are not queued;
\* a room is read by the devices that are in it.
Send(e) ==
    /\ e.from \notin gone
    /\ outbox' = outbox \ {e}
    /\ inbox' = [d \in Devices |->
                    IF d \in {e.from} \cup gone THEN inbox[d] ELSE Append(inbox[d], e)]
    /\ UNCHANGED <<placer, state, party, active, placing, lost, members>>

\* The server takes no event from outside the room.
FailToSend(e) ==
    /\ \/ e.from \in gone /\ UNCHANGED lost
       \/ lost < MaxLost /\ lost' = lost + 1
    /\ outbox' = outbox \ {e}
    /\ UNCHANGED <<placer, state, party, active, placing, inbox, members>>

-------------------------------------------------------------------------------
(* A user leaves the room during a call *)

\* External: a user leaves, or is banned.  No own device makes anything of it.
Leave(user) ==
    /\ MayLeave /\ gone = {}
    /\ gone' = user
    /\ untold' = Devices \ user
    /\ UNCHANGED <<placer, state, party, active, placing, wire>>

\* Calls::handle_member_left.  A task of the room calls it, so it may come before
\* signals that are queued, or after others.  The call in progress ends, and
\* nobody is told.
HandleMemberLeft(d) ==
    /\ d \in untold
    /\ untold' = untold \ {d}
    /\ IF active[d] # None THEN SetState(d, active[d], "Ended") ELSE UNCHANGED state
    /\ UNCHANGED <<placer, party, active, placing, wire, gone>>

Next ==
    \/ \E d \in Devices : \/ Place(d) \/ BeginPlace(d) \/ FinishPlace(d)
                          \/ ForgetEnded(d) \/ HandleSignal(d)
                          \/ HandleMemberLeft(d)
    \/ \E d \in Devices, c \in CallIds :
          \/ Accept(d, c) \/ Reject(d, c) \/ EmbedderHangsUp(d, c)
          \/ NoConnection(d, c) \/ NoteConnected(d, c) \/ LifetimeEnds(d, c)
    \/ \E e \in outbox : Send(e) \/ FailToSend(e)
    \/ \E user \in {Alice, Bob} : Leave(user)

Spec == Init /\ [][Next]_vars

\* The tasks and timers run, events are sent unless that fails, and media that
\* cannot come up is reported.  Nobody has to place, accept or hang up.
FairSpec ==
    /\ Spec
    /\ \A d \in Devices :
          /\ WF_vars(HandleSignal(d)) /\ WF_vars(ForgetEnded(d))
          /\ WF_vars(HandleMemberLeft(d))
    /\ \A d \in Devices, c \in CallIds :
          WF_vars(LifetimeEnds(d, c)) /\ WF_vars(NoConnection(d, c))
    /\ WF_vars(\E e \in outbox : Send(e) \/ FailToSend(e))

-------------------------------------------------------------------------------
(* Properties *)

TypeOK ==
    /\ placer \in [CallIds -> Devices \cup {None}]
    /\ state \in [Devices -> [CallIds -> CallStates]]
    /\ party \in [Devices -> [CallIds -> Devices \cup {None}]]
    /\ active \in [Devices -> CallIds \cup {None}]
    /\ placing \subseteq Devices
    /\ outbox \subseteq Events
    /\ inbox \in [Devices -> Seq(Events)]
    /\ lost \in 0..MaxLost
    /\ gone \subseteq Devices /\ untold \subseteq Devices

\* Every event was sent and acted on, by users who are both in the room.
Settled ==
    /\ outbox = {} /\ placing = {} /\ \A d \in Devices : inbox[d] = <<>>
    /\ lost = 0 /\ gone = {}

\* "There is at most one. Two calls at once means two microphones and two sets
\* of speakers" (mod.rs:149): a device has at most one call that is not over,
\* and it is the active one, so that a hangup of the other end reaches it.
AtMostOneCall ==
    \A d \in Devices, c \in CallIds :
        state[d][c] \notin {"None", "Ended"} => active[d] = c

\* "Both ends reach the same answer, so the two people end up in one call
\* rather than two half-calls." (mod.rs:710): once everything sent has arrived,
\* the two users do not both dial, each with a call the other has not ended -
\* unless the one whose call loses had an earlier call that won, for which it
\* ignored the other's invite, and gave that call up since.
GlareSettles ==
    Settled =>
        \A d, e \in Devices, c, b \in CallIds :
            /\ c <= b /\ ~SameUser(d, e)
            /\ state[d][c] = "Dialing" /\ state[e][b] = "Dialing"
            /\ ~IsEnded(e, c) /\ ~IsEnded(d, b)
            => \E a \in CallIds : a < c /\ IsOutgoing(e, a) /\ IsEnded(e, a)

\* A caller that took an answer is in a call with the device it took, and with
\* no other device of that user, once everything sent has arrived.
SelectedPartyIsIn ==
    Settled =>
        \A d \in Devices, c \in CallIds :
            IsOutgoing(d, c) /\ InCall(d, c) =>
                {e \in Devices \ {d} : InCall(e, c)} = {party[d][c]}

\* A call is never taken back to an earlier state, an ended one not at all.
Rank(s) == CASE s = "None" -> 0 [] s \in {"Ringing", "Dialing"} -> 1
             [] s = "Connecting" -> 2 [] s = "Connected" -> 3 [] s = "Ended" -> 4
CallsAdvance ==
    [][\A d \in Devices, c \in CallIds :
          Rank(state'[d][c]) >= Rank(state[d][c])]_state

\* Nothing rings or dials for ever, whatever is lost.
PendingEnds ==
    \A d \in Devices, c \in CallIds :
        state[d][c] \in {"Ringing", "Dialing"}
            ~> state[d][c] \notin {"Ringing", "Dialing"}

\* "the client should treat this as a hangup event for any calls that are in
\* progress" (room/mod.rs:2412): a device does not stay in a call whose other
\* end is not in it, or left the room, whatever is lost.
Deserted(d, c) ==
    /\ InCall(d, c)
    /\ ~InCall(party[d][c], c) \/ party[d][c] \in gone
HalfCallsEnd ==
    \A d \in Devices, c \in CallIds : Deserted(d, c) ~> ~Deserted(d, c)
===============================================================================
