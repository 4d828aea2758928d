------------------------- MODULE CallSignalling_proofs -------------------------
(***************************************************************************)
(* Proofs about CallSignalling, for any devices, call ids and losses.      *)
(* That a call never goes back rests on an invite reaching a device at     *)
(* most once, before the device knows of the call.  That glare settles and *)
(* that the caller ends up with the device it took rests on what is still  *)
(* on its way to a device: Effects says what a step does to a call, Roles  *)
(* and AllSaid who plays which part and what events are true of, and Tale  *)
(* what each end may count on while nothing is lost.                       *)
(***************************************************************************)
EXTENDS CallSignalling, SequenceTheorems, TLAPS

\* The types of the calls and their events; those of the members are apart.
CallTypes ==
    /\ placer \in [CallIds -> Devices \cup {None}]
    /\ state \in [Devices -> [CallIds -> CallStates]]
    /\ party \in [Devices -> [CallIds -> Devices \cup {None}]]
    /\ active \in [Devices -> CallIds \cup {None}]
    /\ placing \subseteq Devices
    /\ outbox \subseteq Events
    /\ inbox \in [Devices -> Seq(Events)]
    /\ lost \in 0..MaxLost

MemberTypes == gone \subseteq Devices /\ untold \subseteq Devices

\* The calls that events on their way to a device invite it to.
Rings(line) == {line[i].call : i \in {j \in DOMAIN line : line[j].kind = "invite"}}

\* No two of them to the same call.
Once(line) ==
    \A i, j \in DOMAIN line :
        /\ line[i].kind = "invite" /\ line[j].kind = "invite"
        /\ line[i].call = line[j].call
        => i = j

\* An active call is one the device has.
ActiveKnown ==
    \A d \in Devices, c \in CallIds : active[d] = c => state[d][c] # "None"

\* A call nobody placed is unknown to all, and a call a device has yet to be
\* invited to is unknown to that device.
Fresh ==
    /\ \A c \in CallIds : placer[c] = None => \A d \in Devices : state[d][c] = "None"
    /\ \A e \in outbox : e.kind = "invite" =>
          /\ e.from = placer[e.call] /\ e.selected = None
          /\ \A d \in Devices \ {e.from} :
                state[d][e.call] = "None" /\ e.call \notin Rings(inbox[d])
    /\ \A d \in Devices :
          /\ Once(inbox[d])
          /\ \A c \in Rings(inbox[d]) : placer[c] # None /\ state[d][c] = "None"

IInv == CallTypes /\ ActiveKnown /\ Fresh

\* What CallsAdvance says of a step.
Advances ==
    \A d \in Devices, c \in CallIds : Rank(state'[d][c]) >= Rank(state[d][c])

-------------------------------------------------------------------------------
(* Lines of events, and the states of calls *)

LEMMA TailFacts ==
    ASSUME NEW line \in Seq(Events), line # <<>>
    PROVE  /\ Head(line) = line[1] /\ 1 \in DOMAIN line
           /\ Head(line) \in Events /\ Tail(line) \in Seq(Events)
           /\ \A i \in DOMAIN Tail(line) :
                 i + 1 \in DOMAIN line /\ i \in Nat /\ i >= 1
                 /\ Tail(line)[i] = line[i + 1]
  BY HeadTailProperties, LenProperties, ElementOfSeq, EmptySeq

LEMMA RingsCalls ==
    ASSUME NEW line \in Seq(Events)
    PROVE  Rings(line) \subseteq CallIds
  <1>1. \A i \in DOMAIN line : line[i] \in Events
    BY ElementOfSeq, LenProperties
  <1>2. \A e \in Events : e.call \in CallIds
    BY DEF Events
  <1> QED BY <1>1, <1>2 DEF Rings

LEMMA TailRings ==
    ASSUME NEW line \in Seq(Events), line # <<>>, Once(line)
    PROVE  /\ Once(Tail(line)) /\ Rings(Tail(line)) \subseteq Rings(line)
           /\ Head(line).kind = "invite" =>
                 Head(line).call \in Rings(line) \ Rings(Tail(line))
  <1>1. \A i \in DOMAIN Tail(line) :
            i + 1 \in DOMAIN line /\ i \in Nat /\ i >= 1 /\ Tail(line)[i] = line[i + 1]
    BY TailFacts
  <1>2. Head(line) = line[1] /\ 1 \in DOMAIN line
    BY TailFacts
  <1>3. Once(Tail(line))
    <2> SUFFICES ASSUME NEW i \in DOMAIN Tail(line), NEW j \in DOMAIN Tail(line),
                        Tail(line)[i].kind = "invite", Tail(line)[j].kind = "invite",
                        Tail(line)[i].call = Tail(line)[j].call
                 PROVE  i = j
      BY DEF Once
    <2>1. i + 1 = j + 1
      BY <1>1 DEF Once
    <2> QED BY <2>1, <1>1
  <1>4. Rings(Tail(line)) \subseteq Rings(line)
    BY <1>1 DEF Rings
  <1>5. ASSUME Head(line).kind = "invite"
        PROVE  Head(line).call \in Rings(line) \ Rings(Tail(line))
    <2>1. Head(line).call \in Rings(line)
      BY <1>2, <1>5 DEF Rings
    <2>2. ASSUME NEW i \in DOMAIN Tail(line), Tail(line)[i].kind = "invite",
                 Tail(line)[i].call = Head(line).call
          PROVE  FALSE
      <3>1. i + 1 = 1
        BY <1>1, <1>2, <1>5, <2>2 DEF Once
      <3> QED BY <3>1, <1>1
    <2> QED BY <2>1, <2>2 DEF Rings
  <1> QED BY <1>3, <1>4, <1>5

LEMMA AppendRings ==
    ASSUME NEW line \in Seq(Events), NEW e \in Events, Once(line),
           e.kind = "invite" => e.call \notin Rings(line)
    PROVE  /\ Append(line, e) \in Seq(Events) /\ Once(Append(line, e))
           /\ \A c \in Rings(Append(line, e)) :
                 c \in Rings(line) \/ (e.kind = "invite" /\ c = e.call)
  <1> DEFINE longer == Append(line, e)
  <1>1. /\ longer \in Seq(Events) /\ Len(line) \in Nat
        /\ DOMAIN line = 1..Len(line) /\ DOMAIN longer = 1..(Len(line) + 1)
        /\ \A i \in 1..Len(line) : longer[i] = line[i]
        /\ longer[Len(line) + 1] = e
    BY AppendProperties, LenProperties
  <1> HIDE DEF longer
  <1>2. \A i \in DOMAIN longer :
            \/ i \in DOMAIN line /\ longer[i] = line[i]
            \/ i = Len(line) + 1 /\ longer[i] = e
    BY <1>1
  <1>3. \A c \in Rings(longer) :
            c \in Rings(line) \/ (e.kind = "invite" /\ c = e.call)
    BY <1>2 DEF Rings
  <1>4. Once(longer)
    <2> SUFFICES ASSUME NEW i \in DOMAIN longer, NEW j \in DOMAIN longer,
                        longer[i].kind = "invite", longer[j].kind = "invite",
                        longer[i].call = longer[j].call
                 PROVE  i = j
      BY DEF Once
    <2>1. ASSUME NEW k \in DOMAIN line, longer[k] = line[k],
                 line[k].kind = "invite", e.kind = "invite", line[k].call = e.call
          PROVE  FALSE
      BY <2>1 DEF Rings
    <2> QED BY <1>2, <2>1 DEF Once
  <1> QED BY <1>1, <1>3, <1>4 DEF longer

LEMMA StateSet ==
    ASSUME CallTypes, NEW d \in Devices, NEW c \in CallIds, NEW s \in CallStates,
           SetState(d, c, s)
    PROVE  /\ state' \in [Devices -> [CallIds -> CallStates]]
           /\ \A b \in Devices, a \in CallIds :
                 state'[b][a] = IF b = d /\ a = c THEN s ELSE state[b][a]
  BY DEF CallTypes, SetState

LEMMA PartySet ==
    ASSUME CallTypes, NEW d \in Devices, NEW c \in CallIds, NEW p \in Devices,
           party' = [party EXCEPT ![d][c] = p]
    PROVE  party' \in [Devices -> [CallIds -> Devices \cup {None}]]
  BY DEF CallTypes

LEMMA Ranks ==
    /\ Rank("None") = 0 /\ Rank("Ringing") = 1 /\ Rank("Dialing") = 1
    /\ Rank("Connecting") = 2 /\ Rank("Connected") = 3 /\ Rank("Ended") = 4
    /\ \A s \in CallStates : Rank(s) \in 0..4
  BY DEF Rank, CallStates

\* A step that places no call and adds no invite keeps the invariant when the
\* calls it makes known are those whose invite it takes off the line.
LEMMA FreshKept ==
    ASSUME CallTypes, ActiveKnown, Fresh, placer' = placer,
           \A b \in Devices : /\ Once(inbox'[b])
                              /\ Rings(inbox'[b]) \subseteq Rings(inbox[b]),
           \A e \in outbox' : e \in outbox \/ e.kind # "invite",
           \A b \in Devices, c \in CallIds :
               /\ state[b][c] # "None" => state'[b][c] # "None"
               /\ state[b][c] = "None" /\ state'[b][c] # "None"
                     => c \in Rings(inbox[b]) \ Rings(inbox'[b])
               /\ active'[b] = c => active[b] = c \/ state'[b][c] # "None"
    PROVE  ActiveKnown' /\ Fresh'
  <1>1. ActiveKnown'
    BY DEF ActiveKnown
  <1>2. \A b \in Devices : Rings(inbox[b]) \subseteq CallIds
    BY RingsCalls DEF CallTypes
  <1>3. ASSUME NEW c \in CallIds, placer'[c] = None, NEW d \in Devices
        PROVE  state'[d][c] = "None"
    BY <1>3 DEF Fresh
  <1>4. ASSUME NEW e \in outbox', e.kind = "invite"
        PROVE  /\ e.from = placer'[e.call] /\ e.selected = None
               /\ \A d \in Devices \ {e.from} :
                     state'[d][e.call] = "None" /\ e.call \notin Rings(inbox'[d])
    <2>1. e \in outbox /\ e.call \in CallIds
      BY <1>4 DEF CallTypes, Events
    <2>2. /\ e.from = placer[e.call] /\ e.selected = None
          /\ \A d \in Devices \ {e.from} :
                state[d][e.call] = "None" /\ e.call \notin Rings(inbox[d])
      BY <2>1, <1>4 DEF Fresh
    <2> QED BY <2>1, <2>2
  <1>5. ASSUME NEW d \in Devices, NEW c \in Rings(inbox'[d])
        PROVE  placer'[c] # None /\ state'[d][c] = "None"
    <2>1. c \in CallIds /\ c \in Rings(inbox[d])
      BY <1>2
    <2>2. placer[c] # None /\ state[d][c] = "None"
      BY <2>1 DEF Fresh
    <2> QED BY <2>1, <2>2
  <1>6. Fresh'
    BY <1>3, <1>4, <1>5 DEF Fresh
  <1> QED BY <1>1, <1>6

\* An unchanged line keeps what Fresh asks of it.
LEMMA SameLines ==
    ASSUME Fresh, inbox' = inbox
    PROVE  \A b \in Devices : /\ Once(inbox'[b])
                              /\ Rings(inbox'[b]) \subseteq Rings(inbox[b])
  BY DEF Fresh

-------------------------------------------------------------------------------
(* The embedder, the timers and the sending tasks *)

\* A step that moves one call the device has, forward, and sends nothing that
\* starts a call.
LEMMA CallMoves ==
    ASSUME IInv, NEW d \in Devices, NEW c \in CallIds, NEW s \in CallStates \ {"None"},
           state[d][c] # "None", Rank(s) >= Rank(state[d][c]), SetState(d, c, s),
           NEW e \in Events, e.kind # "invite", outbox' \in {outbox, outbox \cup {e}},
           UNCHANGED <<placer, party, active, placing, inbox, lost>>
    PROVE  IInv' /\ Advances
  <1>1. /\ state' \in [Devices -> [CallIds -> CallStates]]
        /\ \A b \in Devices, a \in CallIds :
              state'[b][a] = IF b = d /\ a = c THEN s ELSE state[b][a]
    BY StateSet DEF IInv
  <1>2. CallTypes'
    BY <1>1 DEF IInv, CallTypes
  <1>3. ActiveKnown' /\ Fresh'
    <2>1. \A b \in Devices : /\ Once(inbox'[b])
                             /\ Rings(inbox'[b]) \subseteq Rings(inbox[b])
      BY SameLines DEF IInv
    <2>2. \A b \in Devices, a \in CallIds :
             /\ state[b][a] # "None" => state'[b][a] # "None"
             /\ state[b][a] = "None" => state'[b][a] = "None"
      BY <1>1
    <2> QED BY <2>1, <2>2, FreshKept DEF IInv
  <1>4. Advances
    <2>1. \A b \in Devices, a \in CallIds : state[b][a] \in CallStates
      BY DEF IInv, CallTypes
    <2> QED BY <1>1, <2>1, Ranks DEF Advances
  <1> QED BY <1>2, <1>3, <1>4 DEF IInv

LEMMA HangUpMoves ==
    ASSUME IInv, NEW d \in Devices, NEW c \in CallIds, HangUp(d, c)
    PROVE  IInv' /\ Advances
  <1> DEFINE e == Event("hangup", c, d)
  <1>1. e \in Events /\ e.kind # "invite"
    BY DEF Event, Events, Kinds
  <1>2. state[d][c] \in CallStates /\ state[d][c] # "None"
    BY DEF HangUp, IInv, CallTypes
  <1> HIDE DEF e
  <1>3. outbox' \in {outbox, outbox \cup {e}}
    BY DEF HangUp, e
  <1> QED BY <1>1, <1>2, <1>3, CallMoves, Ranks DEF HangUp, CallStates

LEMMA AcceptMoves ==
    ASSUME IInv, NEW d \in Devices, NEW c \in CallIds, Accept(d, c)
    PROVE  IInv' /\ Advances
  <1> DEFINE e == Event("answer", c, d)
  <1>1. e \in Events /\ e.kind # "invite"
    BY DEF Event, Events, Kinds
  <1> HIDE DEF e
  <1>2. outbox' \in {outbox, outbox \cup {e}}
    BY DEF Accept, e
  <1> QED BY <1>1, <1>2, CallMoves, Ranks DEF Accept, CallStates

LEMMA RejectMoves ==
    ASSUME IInv, NEW d \in Devices, NEW c \in CallIds, Reject(d, c)
    PROVE  IInv' /\ Advances
  <1> DEFINE e == Event("reject", c, d)
  <1>1. e \in Events /\ e.kind # "invite"
    BY DEF Event, Events, Kinds
  <1> HIDE DEF e
  <1>2. outbox' \in {outbox, outbox \cup {e}}
    BY DEF Reject, e
  <1> QED BY <1>1, <1>2, CallMoves, Ranks DEF Reject, CallStates

LEMMA ConnectedMoves ==
    ASSUME IInv, NEW d \in Devices, NEW c \in CallIds, NoteConnected(d, c)
    PROVE  IInv' /\ Advances
  <1> DEFINE e == Event("hangup", c, d)
  <1>1. e \in Events /\ e.kind # "invite"
    BY DEF Event, Events, Kinds
  <1> HIDE DEF e
  <1> QED BY <1>1, CallMoves, Ranks DEF NoteConnected, CallStates, wire

LEMMA LifetimeMoves ==
    ASSUME IInv, NEW d \in Devices, NEW c \in CallIds, LifetimeEnds(d, c)
    PROVE  IInv' /\ Advances
  <1> DEFINE e == Event("hangup", c, d)
  <1>1. e \in Events /\ e.kind # "invite"
    BY DEF Event, Events, Kinds
  <1> HIDE DEF e
  <1>2. CASE HangUp(d, c)
    BY <1>2, HangUpMoves
  <1>3. CASE ~HangUp(d, c)
    BY <1>1, <1>3, CallMoves, Ranks DEF LifetimeEnds, CallStates, wire
  <1> QED BY <1>2, <1>3

\* A step that leaves the calls as they are, and sends nothing new.
LEMMA CallsStay ==
    ASSUME IInv, placer' = placer, state' = state, party' = party,
           active' \in [Devices -> CallIds \cup {None}],
           \A d \in Devices : active'[d] \in {active[d], None},
           placing' \subseteq Devices, outbox' \subseteq outbox,
           inbox' = inbox, lost' \in 0..MaxLost
    PROVE  IInv' /\ Advances
  <1>1. CallTypes'
    BY DEF IInv, CallTypes
  <1>2. ActiveKnown' /\ Fresh'
    <2>1. \A b \in Devices : /\ Once(inbox'[b])
                             /\ Rings(inbox'[b]) \subseteq Rings(inbox[b])
      BY SameLines DEF IInv
    <2>2. \A b \in Devices, c \in CallIds : active'[b] = c => active[b] = c
      BY IdsAssumption
    <2> QED BY <2>1, <2>2, FreshKept DEF IInv
  <1>3. Advances
    <2>1. \A b \in Devices, a \in CallIds : state[b][a] \in CallStates
      BY DEF IInv, CallTypes
    <2> QED BY <2>1, Ranks DEF Advances
  <1> QED BY <1>1, <1>2, <1>3 DEF IInv

\* A new call is one nobody knows, nor is invited to.
LEMMA DialMoves ==
    ASSUME IInv, NEW d \in Devices, Dial(d), placing' \subseteq Devices
    PROVE  IInv' /\ Advances
  <1>1. PICK c \in CallIds :
            /\ placer[c] = None
            /\ placer' = [placer EXCEPT ![c] = d]
            /\ SetState(d, c, "Dialing")
            /\ active' = [active EXCEPT ![d] = c]
            /\ outbox' = outbox \cup {Event("invite", c, d)}
            /\ UNCHANGED <<party, inbox, lost>>
    BY DEF Dial
  <1> DEFINE new == Event("invite", c, d)
  <1>2. /\ new \in Events /\ new.kind = "invite" /\ new.call = c /\ new.from = d
        /\ new.selected = None
    BY DEF Event, Events, Kinds
  <1> HIDE DEF new
  <1>3. /\ state' \in [Devices -> [CallIds -> CallStates]]
        /\ \A b \in Devices, a \in CallIds :
              state'[b][a] = IF b = d /\ a = c THEN "Dialing" ELSE state[b][a]
    BY <1>1, StateSet DEF IInv, CallStates
  <1>4. /\ placer' \in [CallIds -> Devices \cup {None}]
        /\ \A a \in CallIds : placer'[a] = IF a = c THEN d ELSE placer[a]
        /\ active' \in [Devices -> CallIds \cup {None}]
        /\ \A b \in Devices : active'[b] = IF b = d THEN c ELSE active[b]
        /\ outbox' = outbox \cup {new}
    BY <1>1 DEF IInv, CallTypes, new
  <1>5. CallTypes'
    BY <1>1, <1>2, <1>3, <1>4 DEF IInv, CallTypes
  <1>6. ActiveKnown'
    BY <1>3, <1>4 DEF IInv, ActiveKnown
  <1>7. /\ \A b \in Devices : state[b][c] = "None" /\ c \notin Rings(inbox[b])
        /\ \A e \in outbox : e.kind = "invite" => e.call \in CallIds \ {c}
    <2>1. \A b \in Devices : state[b][c] = "None"
      BY <1>1 DEF IInv, Fresh
    <2>2. \A b \in Devices : c \notin Rings(inbox[b])
      BY <1>1 DEF IInv, Fresh
    <2>3. ASSUME NEW e \in outbox, e.kind = "invite" PROVE e.call \in CallIds \ {c}
      <3>1. e.call \in CallIds /\ e.from \in Devices
        BY DEF IInv, CallTypes, Events
      <3>2. e.from = placer[e.call]
        BY <2>3 DEF IInv, Fresh
      <3> QED BY <3>1, <3>2, <1>1, DevicesAssumption DEF Devices
    <2> QED BY <2>1, <2>2, <2>3
  <1>8. Fresh'
    <2>1. ASSUME NEW a \in CallIds, placer'[a] = None, NEW b \in Devices
          PROVE  state'[b][a] = "None"
      <3>1. a # c /\ placer[a] = None
        BY <2>1, <1>4, DevicesAssumption DEF Devices
      <3> QED BY <3>1, <1>3 DEF IInv, Fresh
    <2>2. ASSUME NEW e \in outbox', e.kind = "invite"
          PROVE  /\ e.from = placer'[e.call] /\ e.selected = None
                 /\ \A b \in Devices \ {e.from} :
                       state'[b][e.call] = "None" /\ e.call \notin Rings(inbox'[b])
      <3>1. CASE e = new
        BY <3>1, <1>1, <1>2, <1>3, <1>4, <1>7
      <3>2. CASE e \in outbox
        <4>1. e.call \in CallIds \ {c}
          BY <3>2, <2>2, <1>7
        <4>2. /\ e.from = placer[e.call] /\ e.selected = None
              /\ \A b \in Devices \ {e.from} :
                    state[b][e.call] = "None" /\ e.call \notin Rings(inbox[b])
          BY <3>2, <2>2 DEF IInv, Fresh
        <4> QED BY <4>1, <4>2, <1>1, <1>3, <1>4
      <3> QED BY <3>1, <3>2, <1>4
    <2>3. ASSUME NEW b \in Devices
          PROVE  /\ Once(inbox'[b])
                 /\ \A a \in Rings(inbox'[b]) :
                       placer'[a] # None /\ state'[b][a] = "None"
      <3>1. Rings(inbox[b]) \subseteq CallIds \ {c}
        BY <1>7, RingsCalls DEF IInv, CallTypes
      <3>2. /\ Once(inbox[b])
            /\ \A a \in Rings(inbox[b]) : placer[a] # None /\ state[b][a] = "None"
        BY DEF IInv, Fresh
      <3> QED BY <3>1, <3>2, <1>1, <1>3, <1>4
    <2> QED BY <2>1, <2>2, <2>3 DEF Fresh
  <1>9. Advances
    <2>1. \A b \in Devices, a \in CallIds : state[b][a] \in CallStates
      BY DEF IInv, CallTypes
    <2> QED BY <1>3, <1>7, <2>1, Ranks DEF Advances
  <1> QED BY <1>5, <1>6, <1>8, <1>9 DEF IInv

\* An event that is sent joins every other device's line; an invite was on none.
LEMMA SendMoves ==
    ASSUME IInv, NEW e \in outbox, Send(e)
    PROVE  IInv' /\ Advances
  <1>1. e \in Events /\ outbox' = outbox \ {e}
    BY DEF IInv, CallTypes, Send
  <1>2. \A b \in Devices :
            /\ inbox[b] \in Seq(Events) /\ Once(inbox[b])
            /\ inbox'[b] = IF b \in {e.from} \cup gone
                             THEN inbox[b] ELSE Append(inbox[b], e)
    BY DEF IInv, CallTypes, Fresh, Send
  <1>3. ASSUME NEW b \in Devices, e.kind = "invite", b # e.from
        PROVE  e.call \notin Rings(inbox[b]) /\ state[b][e.call] = "None"
    BY <1>3 DEF IInv, Fresh
  <1>4. ASSUME NEW b \in Devices
        PROVE  /\ inbox'[b] \in Seq(Events) /\ Once(inbox'[b])
               /\ \A c \in Rings(inbox'[b]) :
                     \/ c \in Rings(inbox[b])
                     \/ e.kind = "invite" /\ c = e.call /\ b # e.from
    <2>1. CASE b \in {e.from} \cup gone
      BY <2>1, <1>2
    <2>2. CASE b \notin {e.from} \cup gone
      <3>1. /\ e.kind = "invite" => e.call \notin Rings(inbox[b])
            /\ inbox[b] \in Seq(Events) /\ Once(inbox[b])
            /\ inbox'[b] = Append(inbox[b], e)
        BY <2>2, <1>2, <1>3
      <3>2. /\ Append(inbox[b], e) \in Seq(Events) /\ Once(Append(inbox[b], e))
            /\ \A c \in Rings(Append(inbox[b], e)) :
                  c \in Rings(inbox[b]) \/ (e.kind = "invite" /\ c = e.call)
        BY <3>1, <1>1, AppendRings
      <3> QED BY <3>1, <3>2, <2>2
    <2> QED BY <2>1, <2>2
  <1>5. CallTypes'
    <2>1. inbox' \in [Devices -> Seq(Events)]
      BY <1>4 DEF Send
    <2> QED BY <2>1, <1>1 DEF IInv, CallTypes, Send
  <1>6. ActiveKnown'
    BY DEF IInv, ActiveKnown, Send
  <1>7. Fresh'
    <2>1. ASSUME NEW f \in outbox', f.kind = "invite"
          PROVE  /\ f.from = placer'[f.call] /\ f.selected = None
                 /\ \A b \in Devices \ {f.from} :
                       state'[b][f.call] = "None" /\ f.call \notin Rings(inbox'[b])
      <3>1. f \in outbox /\ f # e /\ f \in Events
        BY <1>1, <2>1 DEF IInv, CallTypes
      <3>2. /\ f.from = placer[f.call] /\ f.selected = None
            /\ \A b \in Devices \ {f.from} :
                  state[b][f.call] = "None" /\ f.call \notin Rings(inbox[b])
        BY <3>1, <2>1 DEF IInv, Fresh
      <3>3. e.kind = "invite" => e.call # f.call
        <4> SUFFICES ASSUME e.kind = "invite", e.call = f.call PROVE e = f
          BY <3>1
        <4>1. e.from = placer[e.call] /\ e.selected = None
          BY DEF IInv, Fresh
        <4> QED BY <4>1, <3>1, <3>2, <2>1, <1>1 DEF Events
      <3> QED BY <3>2, <3>3, <1>4 DEF Send
    <2>2. ASSUME NEW b \in Devices, NEW c \in Rings(inbox'[b])
          PROVE  placer'[c] # None /\ state'[b][c] = "None"
      <3>1. CASE c \in Rings(inbox[b])
        BY <3>1 DEF IInv, Fresh, Send
      <3>2. CASE e.kind = "invite" /\ c = e.call /\ b # e.from
        <4>1. e.from = placer[e.call] /\ e.from \in Devices
          BY <3>2, <1>1 DEF IInv, Fresh, Events
        <4> QED BY <4>1, <3>2, <1>3, DevicesAssumption DEF Send, Devices
      <3> QED BY <3>1, <3>2, <1>4
    <2>3. \A c \in CallIds : placer'[c] = None
             => \A b \in Devices : state'[b][c] = "None"
      BY DEF IInv, Fresh, Send
    <2> QED BY <2>1, <2>2, <2>3, <1>4 DEF Fresh
  <1>8. Advances
    <2>1. \A b \in Devices, a \in CallIds : state[b][a] \in CallStates
      BY DEF IInv, CallTypes
    <2> QED BY <2>1, Ranks DEF Advances, Send
  <1> QED BY <1>5, <1>6, <1>7, <1>8 DEF IInv

-------------------------------------------------------------------------------
(* The signal task *)

LEMMA SignalTaken ==
    ASSUME IInv, NEW d \in Devices, inbox[d] # <<>>,
           inbox' = [inbox EXCEPT ![d] = Tail(@)]
    PROVE  LET e == Head(inbox[d])
           IN  /\ e \in Events /\ inbox' \in [Devices -> Seq(Events)]
               /\ \A b \in Devices : /\ Once(inbox'[b])
                                      /\ Rings(inbox'[b]) \subseteq Rings(inbox[b])
               /\ e.kind = "invite" => /\ e.call \in Rings(inbox[d]) \ Rings(inbox'[d])
                                       /\ state[d][e.call] = "None"
  <1> DEFINE line == inbox[d]
             e == Head(line)
  <1>1. line \in Seq(Events) /\ line # <<>> /\ Once(line)
    BY DEF IInv, CallTypes, Fresh
  <1>2. /\ inbox \in [Devices -> Seq(Events)]
        /\ inbox' = [inbox EXCEPT ![d] = Tail(line)]
    BY DEF IInv, CallTypes
  <1>3. \A b \in Devices : Once(inbox[b])
    BY DEF IInv, Fresh
  <1>4. \A c \in Rings(line) : state[d][c] = "None"
    BY DEF IInv, Fresh
  <1> HIDE DEF line, e
  <1>5. e \in Events /\ Tail(line) \in Seq(Events)
    BY <1>1, TailFacts DEF e
  <1>6. /\ Once(Tail(line)) /\ Rings(Tail(line)) \subseteq Rings(line)
        /\ e.kind = "invite" => e.call \in Rings(line) \ Rings(Tail(line))
    BY <1>1, TailRings DEF e
  <1>7. \A b \in Devices : inbox'[b] = IF b = d THEN Tail(line) ELSE inbox[b]
    BY <1>2
  <1>8. inbox[d] = line
    BY DEF line
  <1>9. inbox' \in [Devices -> Seq(Events)]
    BY <1>2, <1>5
  <1> QED BY <1>3, <1>4, <1>5, <1>6, <1>7, <1>8, <1>9 DEF e

\* What a handler may do: end or move forward what its device has, or get to
\* know the call it is invited to.
Handles(d, e) ==
    /\ state' \in [Devices -> [CallIds -> CallStates]]
    /\ party' \in [Devices -> [CallIds -> Devices \cup {None}]]
    /\ active' \in [Devices -> CallIds \cup {None}]
    /\ \A f \in outbox' : f \in outbox \/ (f \in Events /\ f.kind # "invite")
    /\ \A b \in Devices, c \in CallIds :
          /\ Rank(state'[b][c]) >= Rank(state[b][c])
          /\ state[b][c] # "None" => state'[b][c] # "None"
          /\ state[b][c] = "None" /\ state'[b][c] # "None"
                => b = d /\ c = e.call /\ e.kind = "invite"
          /\ active'[b] = c => active[b] = c \/ state'[b][c] # "None"

LEMMA HandlerMoves ==
    ASSUME IInv, NEW d \in Devices, inbox[d] # <<>>,
           inbox' = [inbox EXCEPT ![d] = Tail(@)], Handles(d, Head(inbox[d])),
           UNCHANGED <<placer, placing, lost>>
    PROVE  IInv' /\ Advances
  <1> DEFINE e == Head(inbox[d])
  <1>1. /\ e \in Events /\ inbox' \in [Devices -> Seq(Events)]
        /\ \A b \in Devices : /\ Once(inbox'[b])
                               /\ Rings(inbox'[b]) \subseteq Rings(inbox[b])
        /\ e.kind = "invite" => e.call \in Rings(inbox[d]) \ Rings(inbox'[d])
    BY SignalTaken
  <1>2. Handles(d, e)
    OBVIOUS
  <1> HIDE DEF e
  <1>3. CallTypes'
    BY <1>1, <1>2 DEF IInv, CallTypes, Handles
  <1>4. ActiveKnown' /\ Fresh'
    <2>1. \A f \in outbox' : f \in outbox \/ f.kind # "invite"
      BY <1>2 DEF Handles
    <2>2. \A b \in Devices, c \in CallIds :
              /\ state[b][c] # "None" => state'[b][c] # "None"
              /\ state[b][c] = "None" /\ state'[b][c] # "None"
                    => c \in Rings(inbox[b]) \ Rings(inbox'[b])
              /\ active'[b] = c => active[b] = c \/ state'[b][c] # "None"
      BY <1>1, <1>2 DEF Handles
    <2> QED BY <1>1, <2>1, <2>2, FreshKept DEF IInv
  <1>5. Advances
    BY <1>2 DEF Handles, Advances
  <1> QED BY <1>3, <1>4, <1>5 DEF IInv

LEMMA IgnoreHandles ==
    ASSUME CallTypes, NEW d \in Devices, NEW e \in Events, Ignore PROVE Handles(d, e)
  <1>1. \A b \in Devices, c \in CallIds : Rank(state[b][c]) \in 0..4
    BY Ranks DEF CallTypes
  <1>2. state' = state /\ party' = party /\ active' = active /\ outbox' = outbox
    BY DEF Ignore
  <1>3. \A b \in Devices, c \in CallIds : Rank(state'[b][c]) >= Rank(state[b][c])
    BY <1>1, <1>2
  <1>4. /\ state' \in [Devices -> [CallIds -> CallStates]]
        /\ party' \in [Devices -> [CallIds -> Devices \cup {None}]]
        /\ active' \in [Devices -> CallIds \cup {None}]
    BY <1>2 DEF CallTypes
  <1> QED BY <1>2, <1>3, <1>4 DEF Handles

\* A handler that moves one call, forward, without a new active call.
LEMMA MoveHandles ==
    ASSUME CallTypes, NEW d \in Devices, NEW e \in Events, NEW c \in CallIds,
           NEW s \in CallStates \ {"None"}, Rank(s) >= Rank(state[d][c]),
           state[d][c] # "None" \/ (e.kind = "invite" /\ c = e.call),
           SetState(d, c, s), active' = active,
           party' \in [Devices -> [CallIds -> Devices \cup {None}]],
           \A f \in outbox' : f \in outbox \/ (f \in Events /\ f.kind # "invite")
    PROVE  Handles(d, e)
  <1>1. \A b \in Devices, a \in CallIds : Rank(state[b][a]) \in 0..4
    BY Ranks DEF CallTypes
  <1>2. /\ state' \in [Devices -> [CallIds -> CallStates]]
        /\ \A b \in Devices, a \in CallIds :
              state'[b][a] = IF b = d /\ a = c THEN s ELSE state[b][a]
    BY StateSet
  <1>3. active' \in [Devices -> CallIds \cup {None}]
    BY DEF CallTypes
  <1>4. ASSUME NEW b \in Devices, NEW a \in CallIds
        PROVE  /\ Rank(state'[b][a]) >= Rank(state[b][a])
               /\ state[b][a] # "None" => state'[b][a] # "None"
               /\ state[b][a] = "None" /\ state'[b][a] # "None"
                     => b = d /\ a = e.call /\ e.kind = "invite"
               /\ active'[b] = a => active[b] = a \/ state'[b][a] # "None"
    <2>1. CASE b = d /\ a = c
      BY <2>1, <1>2
    <2>2. CASE ~(b = d /\ a = c)
      BY <2>2, <1>1, <1>2
    <2> QED BY <2>1, <2>2
  <1> QED BY <1>2, <1>3, <1>4 DEF Handles

LEMMA EndCallHandles ==
    ASSUME CallTypes, NEW d \in Devices, NEW e \in Events, state[d][e.call] # "None",
           EndCall(d, e.call)
    PROVE  Handles(d, e)
  <1>1. e.call \in CallIds /\ state[d][e.call] \in CallStates
    BY DEF CallTypes, Events
  <1>2. Rank("Ended") >= Rank(state[d][e.call])
    BY <1>1, Ranks
  <1>3. party' \in [Devices -> [CallIds -> Devices \cup {None}]]
    BY DEF CallTypes, EndCall
  <1> QED BY <1>1, <1>2, <1>3, MoveHandles DEF EndCall, CallStates

LEMMA AnswerHandles ==
    ASSUME CallTypes, NEW d \in Devices, NEW e \in Events, HandleAnswer(d, e)
    PROVE  Handles(d, e)
  <1>1. e.call \in CallIds /\ e.from \in Devices
    BY DEF Events
  <1>2. CASE Ignore
    BY <1>2, IgnoreHandles
  <1>3. CASE ~Ignore
    <2>1. /\ state[d][e.call] = "Dialing" /\ SetState(d, e.call, "Connecting")
          /\ party' = [party EXCEPT ![d][e.call] = e.from] /\ active' = active
          /\ outbox' = outbox \cup {Select(e.call, d, e.from)}
      BY <1>3 DEF HandleAnswer
    <2>2. Select(e.call, d, e.from) \in Events
      BY <1>1 DEF Select, Events, Kinds
    <2>3. Select(e.call, d, e.from).kind # "invite"
      BY DEF Select
    <2>4. party' \in [Devices -> [CallIds -> Devices \cup {None}]]
      BY <1>1, <2>1, PartySet
    <2> QED BY <1>1, <2>1, <2>2, <2>3, <2>4, MoveHandles, Ranks DEF CallStates
  <1> QED BY <1>2, <1>3

\* An invite accepted as the active call, with or without a call given up.
LEMMA ReceiveHandles ==
    ASSUME CallTypes, NEW d \in Devices, NEW e \in Events, e.kind = "invite",
           state[d][e.call] = "None",
           NEW st \in [Devices -> [CallIds -> CallStates]],
           \A b \in Devices, c \in CallIds :
               st[b][c] = state[b][c] \/ (state[b][c] # "None" /\ st[b][c] = "Ended"),
           Receive(d, e, st),
           \A f \in outbox' : f \in outbox \/ (f \in Events /\ f.kind # "invite")
    PROVE  Handles(d, e)
  <1>1. e.call \in CallIds /\ e.from \in Devices
    BY DEF Events
  <1>2. /\ state' \in [Devices -> [CallIds -> CallStates]]
        /\ \A b \in Devices, c \in CallIds :
              state'[b][c] = IF b = d /\ c = e.call THEN "Ringing" ELSE st[b][c]
    BY <1>1 DEF Receive, CallStates
  <1>3. party' \in [Devices -> [CallIds -> Devices \cup {None}]]
    BY <1>1, PartySet DEF Receive
  <1>4. /\ active' \in [Devices -> CallIds \cup {None}]
        /\ \A b \in Devices : active'[b] = IF b = d THEN e.call ELSE active[b]
    BY <1>1 DEF CallTypes, Receive
  <1>5. \A b \in Devices, c \in CallIds : state[b][c] \in CallStates
    BY DEF CallTypes
  <1>6. \A b \in Devices, c \in CallIds : Rank(state'[b][c]) >= Rank(state[b][c])
    BY <1>2, <1>5, Ranks
  <1>7. \A b \in Devices, c \in CallIds :
            /\ state[b][c] # "None" => state'[b][c] # "None"
            /\ state[b][c] = "None" /\ state'[b][c] # "None" => b = d /\ c = e.call
            /\ active'[b] = c => active[b] = c \/ state'[b][c] # "None"
    BY <1>2, <1>4
  <1> QED BY <1>2, <1>3, <1>4, <1>6, <1>7 DEF Handles

LEMMA InviteHandles ==
    ASSUME CallTypes, NEW d \in Devices, NEW e \in Events, e.kind = "invite",
           state[d][e.call] = "None", HandleInvite(d, e)
    PROVE  Handles(d, e)
  <1>1. e.call \in CallIds /\ e.from \in Devices
    BY DEF Events
  <1>2. CASE Ignore
    BY <1>2, IgnoreHandles
  <1>3. CASE Receive(d, e, state) /\ UNCHANGED outbox
    BY <1>3, ReceiveHandles DEF CallTypes
  <1>4. CASE ~Ignore /\ active[d] # None /\ HandleGlare(d, e)
    <2> DEFINE mine == active[d]
    <2>1. mine \in CallIds
      BY <1>4 DEF CallTypes
    <2>2. CASE ~(IsOutgoing(d, mine) /\ state[d][mine] = "Dialing")
      <3> DEFINE busy == Event("busy", e.call, d)
      <3>1. /\ SetState(d, e.call, "Ended") /\ outbox' = outbox \cup {busy}
            /\ party' = [party EXCEPT ![d][e.call] = e.from] /\ active' = active
        BY <2>2, <1>4 DEF HandleGlare
      <3>2. busy \in Events /\ busy.kind # "invite"
        BY <1>1 DEF Event, Events, Kinds
      <3> HIDE DEF busy
      <3>3. party' \in [Devices -> [CallIds -> Devices \cup {None}]]
        BY <3>1, <1>1, PartySet
      <3> QED BY <3>1, <3>2, <3>3, <1>1, MoveHandles, Ranks DEF CallStates
    <2>3. CASE IsOutgoing(d, mine) /\ state[d][mine] = "Dialing"
      <3> DEFINE bye == Event("hangup", mine, d)
                 st == [state EXCEPT ![d][mine] = "Ended"]
      <3>1. Receive(d, e, st) /\ outbox' = outbox \cup {bye}
        BY <2>3, <1>4 DEF HandleGlare
      <3>2. bye \in Events /\ bye.kind # "invite"
        BY <2>1 DEF Event, Events, Kinds
      <3>3. /\ st \in [Devices -> [CallIds -> CallStates]]
            /\ \A b \in Devices, c \in CallIds :
                  st[b][c] = state[b][c] \/ (state[b][c] # "None" /\ st[b][c] = "Ended")
        BY <2>1, <2>3 DEF CallTypes, CallStates
      <3> HIDE DEF bye, st
      <3> QED BY <3>1, <3>2, <3>3, ReceiveHandles
    <2> QED BY <2>2, <2>3
  <1> QED BY <1>2, <1>3, <1>4 DEF HandleInvite

LEMMA SignalMoves ==
    ASSUME IInv, NEW d \in Devices, HandleSignal(d)
    PROVE  IInv' /\ Advances
  <1> DEFINE e == Head(inbox[d])
  <1>1. /\ inbox[d] # <<>> /\ inbox' = [inbox EXCEPT ![d] = Tail(@)]
        /\ UNCHANGED <<placer, placing, lost>>
    BY DEF HandleSignal
  <1>2. e \in Events /\ (e.kind = "invite" => state[d][e.call] = "None")
    BY <1>1, SignalTaken
  <1>3. \/ e.kind = "invite" /\ HandleInvite(d, e)
        \/ e.kind # "invite" /\ active[d] # e.call /\ Ignore
        \/ /\ active[d] = e.call
           /\ \/ e.kind = "answer" /\ HandleAnswer(d, e)
              \/ e.kind = "select" /\ HandleSelectAnswer(d, e)
              \/ e.kind \in {"hangup", "busy"} /\ HandleHangup(d, e)
              \/ e.kind = "reject" /\ HandleReject(d, e)
    BY DEF HandleSignal
  <1> HIDE DEF e
  <1>4. CallTypes
    BY DEF IInv
  <1>5. active[d] = e.call => state[d][e.call] # "None"
    BY <1>2 DEF IInv, ActiveKnown, Events
  <1>6. Handles(d, e)
    <2>1. CASE e.kind = "invite" /\ HandleInvite(d, e)
      BY <2>1, <1>2, <1>4, InviteHandles
    <2>2. CASE Ignore
      BY <2>2, <1>2, <1>4, IgnoreHandles
    <2>3. CASE HandleAnswer(d, e)
      BY <2>3, <1>2, <1>4, AnswerHandles
    <2>4. CASE active[d] = e.call /\ EndCall(d, e.call)
      BY <2>4, <1>2, <1>4, <1>5, EndCallHandles
    <2> QED
      BY <2>1, <2>2, <2>3, <2>4, <1>3
      DEF HandleSelectAnswer, HandleHangup, HandleReject
  <1> QED BY <1>1, <1>6, HandlerMoves DEF e

-------------------------------------------------------------------------------
(* Who is in the room *)

LEMMA MembersMove ==
    ASSUME [Next]_vars
    PROVE  \/ UNCHANGED members
           \/ \E user \in {Alice, Bob} : Leave(user)
           \/ \E d \in Devices : HandleMemberLeft(d)
  <1>1. ASSUME NEW d \in Devices,
               \/ Place(d) \/ BeginPlace(d) \/ FinishPlace(d)
               \/ ForgetEnded(d) \/ HandleSignal(d)
        PROVE  UNCHANGED members
    BY <1>1 DEF Place, BeginPlace, FinishPlace, Dial, ForgetEnded, HandleSignal
  <1>2. ASSUME NEW d \in Devices, NEW c \in CallIds,
               \/ Accept(d, c) \/ Reject(d, c) \/ EmbedderHangsUp(d, c)
               \/ NoConnection(d, c) \/ NoteConnected(d, c) \/ LifetimeEnds(d, c)
        PROVE  UNCHANGED members
    BY <1>2 DEF Accept, Reject, EmbedderHangsUp, NoConnection, NoteConnected,
                LifetimeEnds, HangUp
  <1>3. ASSUME NEW e \in outbox, Send(e) \/ FailToSend(e) PROVE UNCHANGED members
    BY <1>3 DEF Send, FailToSend
  <1>4. UNCHANGED vars => UNCHANGED members
    BY DEF vars, members
  <1> QED BY <1>1, <1>2, <1>3, <1>4 DEF Next

LEMMA MembersTyped ==
    /\ Init => MemberTypes
    /\ MemberTypes /\ [Next]_vars => MemberTypes'
  <1>1. Init => MemberTypes
    BY DEF Init, MemberTypes
  <1>2. ASSUME MemberTypes, [Next]_vars PROVE MemberTypes'
    <2>1. CASE UNCHANGED members
      BY <1>2, <2>1 DEF MemberTypes, members
    <2>2. ASSUME NEW user \in {Alice, Bob}, Leave(user) PROVE MemberTypes'
      BY <2>2 DEF Leave, MemberTypes, Devices
    <2>3. ASSUME NEW d \in Devices, HandleMemberLeft(d) PROVE MemberTypes'
      BY <1>2, <2>3 DEF HandleMemberLeft, MemberTypes
    <2> QED BY <1>2, <2>1, <2>2, <2>3, MembersMove
  <1> QED BY <1>1, <1>2

\* The call in progress ends, if there is one, and nothing else happens to it.
LEMMA MemberLeftMoves ==
    ASSUME IInv, NEW d \in Devices, HandleMemberLeft(d)
    PROVE  IInv' /\ Advances
  <1>1. CASE active[d] = None
    <2>1. state' = state
      BY <1>1 DEF HandleMemberLeft
    <2> QED BY <2>1, CallsStay DEF HandleMemberLeft, wire, IInv, CallTypes
  <1>2. CASE active[d] # None
    <2> DEFINE c == active[d]
               e == Event("hangup", c, d)
    <2>1. c \in CallIds /\ SetState(d, c, "Ended")
      BY <1>2 DEF HandleMemberLeft, IInv, CallTypes
    <2>2. state[d][c] # "None" /\ state[d][c] \in CallStates
      BY <2>1 DEF IInv, ActiveKnown, CallTypes
    <2>3. e \in Events /\ e.kind # "invite"
      BY <2>1 DEF Event, Events, Kinds
    <2>4. UNCHANGED <<placer, party, active, placing, outbox, inbox, lost>>
      BY DEF HandleMemberLeft, wire
    <2> HIDE DEF c, e
    <2> QED BY <2>1, <2>2, <2>3, <2>4, CallMoves, Ranks DEF CallStates
  <1> QED BY <1>1, <1>2

-------------------------------------------------------------------------------
LEMMA InitIInv == Init => IInv
  <1> SUFFICES ASSUME Init PROVE IInv
    OBVIOUS
  <1>1. CallTypes
    <2>1. <<>> \in Seq(Events) /\ "None" \in CallStates /\ 0 \in 0..MaxLost
      BY SuspendsAssumption DEF CallStates
    <2> QED BY <2>1 DEF Init, CallTypes
  <1>2. ActiveKnown
    BY IdsAssumption DEF Init, ActiveKnown
  <1>3. Fresh
    <2>1. Once(<<>>) /\ Rings(<<>>) = {}
      BY DEF Once, Rings
    <2> QED BY <2>1 DEF Init, Fresh
  <1> QED BY <1>1, <1>2, <1>3 DEF IInv

LEMMA StepIInv == IInv /\ [Next]_vars => IInv' /\ Advances
  <1> SUFFICES ASSUME IInv, [Next]_vars PROVE IInv' /\ Advances
    OBVIOUS
  <1>0. /\ active \in [Devices -> CallIds \cup {None}] /\ placing \subseteq Devices
        /\ lost \in 0..MaxLost /\ MaxLost \in Nat
    BY SuspendsAssumption DEF IInv, CallTypes
  <1>1. CASE UNCHANGED vars
    BY <1>0, <1>1, CallsStay DEF vars
  <1>2. ASSUME NEW d \in Devices, Place(d) PROVE IInv' /\ Advances
    BY <1>0, <1>2, DialMoves DEF Place
  <1>3. ASSUME NEW d \in Devices, BeginPlace(d) PROVE IInv' /\ Advances
    BY <1>0, <1>3, CallsStay DEF BeginPlace, wire
  <1>4. ASSUME NEW d \in Devices, FinishPlace(d) PROVE IInv' /\ Advances
    <2>1. placing' \subseteq Devices
      BY <1>0, <1>4 DEF FinishPlace
    <2>2. CASE Dial(d)
      BY <2>1, <2>2, DialMoves
    <2>3. CASE ~Dial(d)
      BY <1>0, <1>4, <2>1, <2>3, CallsStay DEF FinishPlace, wire
    <2> QED BY <2>2, <2>3
  <1>5. ASSUME NEW d \in Devices, ForgetEnded(d) PROVE IInv' /\ Advances
    BY <1>0, <1>5, CallsStay DEF ForgetEnded, wire
  <1>6. ASSUME NEW d \in Devices, HandleSignal(d) PROVE IInv' /\ Advances
    BY <1>6, SignalMoves
  <1>7. ASSUME NEW d \in Devices, NEW c \in CallIds,
               \/ Accept(d, c) \/ Reject(d, c) \/ EmbedderHangsUp(d, c)
               \/ NoConnection(d, c) \/ NoteConnected(d, c) \/ LifetimeEnds(d, c)
        PROVE  IInv' /\ Advances
    BY <1>7, AcceptMoves, RejectMoves, HangUpMoves, ConnectedMoves, LifetimeMoves
    DEF EmbedderHangsUp, NoConnection
  <1>8. ASSUME NEW e \in outbox, Send(e) PROVE IInv' /\ Advances
    BY <1>8, SendMoves
  <1>9. ASSUME NEW e \in outbox, FailToSend(e) PROVE IInv' /\ Advances
    BY <1>0, <1>9, CallsStay DEF FailToSend
  <1>10. ASSUME NEW d \in Devices, HandleMemberLeft(d) PROVE IInv' /\ Advances
    BY <1>10, MemberLeftMoves
  <1>11. ASSUME NEW user \in {Alice, Bob}, Leave(user) PROVE IInv' /\ Advances
    BY <1>0, <1>11, CallsStay DEF Leave, wire
  <1> QED
    BY <1>1, <1>2, <1>3, <1>4, <1>5, <1>6, <1>7, <1>8, <1>9, <1>10, <1>11 DEF Next

\* Calls, parties, lines of events and counters always have their types,
\* whatever the devices, the ids and the losses.
THEOREM TypeCorrect == Spec => []TypeOK
  <1>1. IInv /\ MemberTypes => TypeOK
    BY DEF IInv, CallTypes, MemberTypes, TypeOK
  <1>2. IInv /\ [Next]_vars => IInv'
    BY StepIInv
  <1> QED BY InitIInv, MembersTyped, <1>1, <1>2, PTL DEF Spec

\* No handler, timer or command takes a call back to an earlier state, nor an
\* ended one to any other, also where place() is suspended and events are lost.
THEOREM NeverGoesBack == Spec => CallsAdvance
  <1>1. IInv /\ [Next]_vars
        => [\A d \in Devices, c \in CallIds :
               Rank(state'[d][c]) >= Rank(state[d][c])]_state
    BY StepIInv DEF Advances
  <1>2. IInv /\ [Next]_vars => IInv'
    BY StepIInv
  <1> QED BY InitIInv, <1>1, <1>2, PTL DEF Spec, CallsAdvance

-------------------------------------------------------------------------------
(* One call at most, where place() is never suspended *)

\* With AtMostOneCall: nobody is within place().
OneInv == CallTypes /\ placing = {} /\ AtMostOneCall

\* A step that gives no device a call, other than the one it makes active when
\* its active call is over.
LEMMA OneCallKept ==
    ASSUME AtMostOneCall,
           \A b \in Devices, c \in CallIds :
               /\ state'[b][c] \notin {"None", "Ended"}
                     => state[b][c] \notin {"None", "Ended"} \/ active'[b] = c
               /\ active[b] = c /\ active'[b] # c => state'[b][c] \in {"None", "Ended"}
    PROVE  AtMostOneCall'
  BY DEF AtMostOneCall

LEMMA OneStep ==
    ASSUME ~Suspends, OneInv, CallTypes', [Next]_vars PROVE OneInv'
  <1> USE DEF OneInv
  <1> DEFINE Live(s) == s \notin {"None", "Ended"}
  <1>0. CallTypes /\ AtMostOneCall
    OBVIOUS
  <1>1. CASE UNCHANGED vars
    BY <1>1 DEF vars, AtMostOneCall
  <1>2. ASSUME NEW d \in Devices, Place(d) PROVE OneInv'
    <2>1. PICK c \in CallIds :
              SetState(d, c, "Dialing") /\ active' = [active EXCEPT ![d] = c]
      BY <1>2 DEF Place, Dial
    <2>2. /\ active[d] = None /\ placing' = {}
          /\ \A b \in Devices : active'[b] = IF b = d THEN c ELSE active[b]
      BY <1>2, <2>1 DEF Place, CallTypes
    <2>3. \A b \in Devices, a \in CallIds :
              state'[b][a] = IF b = d /\ a = c THEN "Dialing" ELSE state[b][a]
      BY <2>1, StateSet DEF CallStates
    <2> QED BY <2>2, <2>3, OneCallKept, IdsAssumption
  <1>3. ASSUME NEW d \in Devices, BeginPlace(d) \/ FinishPlace(d) PROVE OneInv'
    BY <1>3 DEF BeginPlace, FinishPlace
  <1>4. ASSUME NEW d \in Devices, ForgetEnded(d) PROVE OneInv'
    <2>1. \A b \in Devices : active'[b] = IF b = d THEN None ELSE active[b]
      BY <1>4 DEF ForgetEnded, CallTypes
    <2>2. state' = state /\ placing' = {} /\ state[d][active[d]] = "Ended"
      BY <1>4 DEF ForgetEnded, IsEnded
    <2> QED BY <2>1, <2>2, OneCallKept
  <1>5. ASSUME NEW d \in Devices, NEW c \in CallIds, NEW s \in CallStates,
               SetState(d, c, s), active' = active, placing' = placing,
               Live(s) => Live(state[d][c])
        PROVE  OneInv'
    <2>1. \A b \in Devices, a \in CallIds :
              state'[b][a] = IF b = d /\ a = c THEN s ELSE state[b][a]
      BY <1>5, StateSet
    <2> QED BY <2>1, <1>5, OneCallKept
  <1>6. ASSUME NEW d \in Devices, NEW c \in CallIds,
               \/ Accept(d, c) \/ Reject(d, c) \/ EmbedderHangsUp(d, c)
               \/ NoConnection(d, c) \/ NoteConnected(d, c) \/ LifetimeEnds(d, c)
        PROVE  OneInv'
    <2>1. /\ SetState(d, c, "Connecting") \/ SetState(d, c, "Connected")
             \/ SetState(d, c, "Ended")
          /\ Live(state[d][c]) /\ active' = active /\ placing' = placing
      BY <1>6 DEF Accept, Reject, EmbedderHangsUp, NoConnection, NoteConnected,
                  LifetimeEnds, HangUp, wire
    <2> QED BY <2>1, <1>5 DEF CallStates
  <1>7. ASSUME NEW e \in outbox, Send(e) \/ FailToSend(e) PROVE OneInv'
    BY <1>7 DEF Send, FailToSend, AtMostOneCall
  <1>8. ASSUME NEW d \in Devices, HandleMemberLeft(d) PROVE OneInv'
    <2>1. active' = active /\ placing' = placing
      BY <1>8 DEF HandleMemberLeft
    <2>2. CASE active[d] = None
      BY <1>8, <2>1, <2>2 DEF HandleMemberLeft, AtMostOneCall
    <2>3. CASE active[d] # None
      <3>1. active[d] \in CallIds /\ SetState(d, active[d], "Ended")
        BY <1>8, <2>3 DEF HandleMemberLeft, CallTypes
      <3> QED BY <3>1, <2>1, <1>5 DEF CallStates
    <2> QED BY <2>2, <2>3
  <1>9. ASSUME NEW user \in {Alice, Bob}, Leave(user) PROVE OneInv'
    BY <1>9 DEF Leave, AtMostOneCall
  <1>10. ASSUME NEW d \in Devices, HandleSignal(d) PROVE OneInv'
    <2> DEFINE e == Head(inbox[d])
    <2>1. inbox[d] # <<>> /\ inbox[d] \in Seq(Events) /\ placing' = {}
      BY <1>10 DEF HandleSignal, CallTypes
    <2>2. e \in Events
      BY <2>1, TailFacts
    <2>3. \/ HandleInvite(d, e) \/ Ignore \/ HandleAnswer(d, e) \/ EndCall(d, e.call)
      BY <1>10 DEF HandleSignal, HandleSelectAnswer, HandleHangup, HandleReject
    <2> HIDE DEF e
    <2>4. e.call \in CallIds /\ e.from \in Devices
      BY <2>2 DEF Events
    <2>5. CASE Ignore
      BY <2>1, <2>5 DEF Ignore, AtMostOneCall
    <2>6. CASE HandleAnswer(d, e) /\ ~Ignore
      <3>1. /\ SetState(d, e.call, "Connecting") /\ Live(state[d][e.call])
            /\ active' = active /\ placing' = placing
        BY <2>1, <2>6 DEF HandleAnswer
      <3> QED BY <3>1, <2>4, <1>5 DEF CallStates
    <2>7. CASE EndCall(d, e.call)
      BY <2>1, <2>4, <2>7, <1>5 DEF EndCall, CallStates
    <2>8. ASSUME NEW st \in [Devices -> [CallIds -> CallStates]], Receive(d, e, st),
                 \A b \in Devices, c \in CallIds :
                     Live(st[b][c]) => Live(state[b][c]) /\ ~(b = d /\ active[d] = c)
          PROVE  OneInv'
      <3>1. \A b \in Devices, c \in CallIds :
                state'[b][c] = IF b = d /\ c = e.call THEN "Ringing" ELSE st[b][c]
        BY <2>4, <2>8 DEF Receive
      <3>2. \A b \in Devices : active'[b] = IF b = d THEN e.call ELSE active[b]
        BY <2>4, <2>8 DEF Receive, CallTypes
      <3> QED BY <3>1, <3>2, <2>1, <2>8, OneCallKept
    <2>9. CASE HandleInvite(d, e) /\ ~Ignore
      <3>1. CASE active[d] = None /\ Receive(d, e, state)
        <4>1. \A c \in CallIds : active[d] # c
          BY <3>1, IdsAssumption
        <4> QED BY <3>1, <4>1, <2>8 DEF CallTypes
      <3>2. CASE active[d] # None /\ HandleGlare(d, e)
        <4> DEFINE mine == active[d]
        <4>1. mine \in CallIds
          BY <3>2 DEF CallTypes
        <4>2. CASE ~(IsOutgoing(d, mine) /\ state[d][mine] = "Dialing")
          <5>1. SetState(d, e.call, "Ended") /\ active' = active /\ placing' = placing
            BY <3>2, <4>2, <2>1 DEF HandleGlare
          <5> QED BY <5>1, <2>4, <1>5 DEF CallStates
        <4>3. CASE IsOutgoing(d, mine) /\ state[d][mine] = "Dialing"
          <5> DEFINE st == [state EXCEPT ![d][mine] = "Ended"]
          <5>1. Receive(d, e, st)
            BY <3>2, <4>3, <2>9 DEF HandleGlare
          <5>2. /\ st \in [Devices -> [CallIds -> CallStates]]
                /\ \A b \in Devices, c \in CallIds :
                      st[b][c] = IF b = d /\ c = mine THEN "Ended" ELSE state[b][c]
            BY <4>1 DEF CallTypes, CallStates
          <5> HIDE DEF st
          <5>3. \A b \in Devices, c \in CallIds :
                    Live(st[b][c]) => Live(state[b][c]) /\ ~(b = d /\ active[d] = c)
            BY <5>2
          <5> QED BY <5>1, <5>2, <5>3, <2>8
        <4> QED BY <4>2, <4>3
      <3> QED BY <3>1, <3>2, <2>9 DEF HandleInvite
    <2> QED BY <2>3, <2>5, <2>6, <2>7, <2>9
  <1> QED BY <1>1, <1>2, <1>3, <1>4, <1>6, <1>7, <1>8, <1>9, <1>10 DEF Next

\* Where place() finds what it awaits already there, a device never has two
\* calls, however invites, glare, answers and hangups interleave: what
\* mod.rs:149 asks for fails by the suspension alone.
THEOREM OneCall == ASSUME ~Suspends PROVE Spec => []AtMostOneCall
  <1>1. Init => OneInv
    BY InitIInv DEF IInv, OneInv, Init, AtMostOneCall
  <1>2. IInv /\ OneInv /\ [Next]_vars => OneInv'
    <2> SUFFICES ASSUME IInv, OneInv, [Next]_vars PROVE OneInv'
      OBVIOUS
    <2>1. CallTypes'
      BY StepIInv DEF IInv
    <2> QED BY <2>1, OneStep
  <1>3. IInv /\ [Next]_vars => IInv'
    BY StepIInv
  <1>4. OneInv => AtMostOneCall
    BY DEF OneInv
  <1> QED BY InitIInv, <1>1, <1>2, <1>3, <1>4, PTL DEF Spec

-------------------------------------------------------------------------------
(* What a step does to a call, and what it is told by an event *)

\* The event the signal task of d acts on next.
Reads(d, e) == inbox[d] # <<>> /\ e = Head(inbox[d])

\* d places the call.
Dialled(d, c) ==
    /\ placer[c] = None /\ placer'[c] = d
    /\ state[d][c] = "None" /\ state'[d][c] = "Dialing"
    /\ party'[d][c] = party[d][c]
    /\ Event("invite", c, d) \in outbox'

\* d is invited by a device of the other user, and rings or is busy.
Rung(d, c) ==
    /\ state[d][c] = "None" /\ state'[d][c] \in {"Ringing", "Ended"}
    /\ \E e \in Events :
          /\ Reads(d, e) /\ e.kind = "invite" /\ e.call = c
          /\ party'[d][c] = e.from /\ ~SameUser(d, e.from)

\* d answers the call it rings for.
Accepted(d, c) ==
    /\ state[d][c] = "Ringing" /\ state'[d][c] = "Connecting"
    /\ Event("answer", c, d) \in outbox'

\* d takes the answer of a device as that of the other end.
Took(d, c) ==
    /\ placer[c] = d
    /\ state[d][c] = "Dialing" /\ state'[d][c] = "Connecting"
    /\ \E e \in Events :
          /\ Reads(d, e) /\ e.kind = "answer" /\ e.call = c /\ e.from # d
          /\ party'[d][c] = e.from
          /\ Select(c, d, e.from) \in outbox'

\* The events about its active call that make d end it.
EndedBy(d, e) ==
    \/ e.kind = "select" /\ ~IsOutgoing(d, e.call) /\ ~SameUser(d, e.from)
       /\ e.selected # d
    \/ e.kind \in {"hangup", "busy"} /\ IsRemoteParty(d, e)
    \/ e.kind = "reject" /\ e.from # d

\* The call ends at d: d says so, or it only rang, or its room saw a user leave,
\* or an event made it end.
Over(d, c) ==
    /\ state[d][c] \notin {"None", "Ended"} /\ state'[d][c] = "Ended"
    /\ \/ Event("hangup", c, d) \in outbox'
       \/ state[d][c] = "Ringing"
       \/ d \in untold
       \/ \E e \in Events : Reads(d, e) /\ e.call = c /\ EndedBy(d, e)

CallGoes(d, c) ==
    \/ state'[d][c] = state[d][c] /\ party'[d][c] = party[d][c]
    \/ Dialled(d, c)
    \/ Rung(d, c)
    \/ Took(d, c)
    \/ /\ party'[d][c] = party[d][c]
       /\ \/ Accepted(d, c)
          \/ state[d][c] = "Connecting" /\ state'[d][c] = "Connected"
          \/ Over(d, c)

\* What the step that makes an event known did to the call it is about.
Originates(e) ==
    /\ placer'[e.call] # None
    /\ e.kind = "invite" => Dialled(e.from, e.call)
    /\ e.kind = "answer" => Accepted(e.from, e.call)
    /\ e.kind = "select" => /\ Took(e.from, e.call)
                            /\ e.selected = party'[e.from][e.call]
    /\ e.kind = "reject" => /\ state[e.from][e.call] = "Ringing"
                            /\ state'[e.from][e.call] = "Ended"
    /\ e.kind \in {"hangup", "busy"} => state'[e.from][e.call] = "Ended"

Effects ==
    /\ \A c \in CallIds :
          placer'[c] = placer[c] \/ \E d \in Devices : Dialled(d, c)
    /\ \A d \in Devices, c \in CallIds : CallGoes(d, c)
    /\ \A e \in outbox' \ outbox : Originates(e)

\* A call a device knows is one that was placed.
LEMMA KnownIsPlaced ==
    ASSUME IInv, NEW d \in Devices, NEW c \in CallIds, state[d][c] # "None"
    PROVE  placer[c] # None
  BY DEF IInv, Fresh

\* A step that leaves every call alone.
LEMMA NothingGoes ==
    ASSUME UNCHANGED <<placer, state, party>>, outbox' \subseteq outbox
    PROVE  Effects
  BY DEF Effects, CallGoes

\* A step that moves one call of one device, whose party it leaves.
LEMMA OneGoes ==
    ASSUME CallTypes, NEW d \in Devices, NEW c \in CallIds, NEW s \in CallStates,
           SetState(d, c, s), UNCHANGED <<placer, party>>,
           CallGoes(d, c) \/ s = state[d][c],
           \A e \in outbox' \ outbox : Originates(e)
    PROVE  Effects
  <1>1. \A b \in Devices, a \in CallIds :
            state'[b][a] = IF b = d /\ a = c THEN s ELSE state[b][a]
    BY StateSet
  <1>2. ASSUME NEW b \in Devices, NEW a \in CallIds PROVE CallGoes(b, a)
    <2>1. CASE b = d /\ a = c /\ CallGoes(d, c)
      BY <2>1
    <2>2. CASE ~(b = d /\ a = c) \/ s = state[d][c]
      BY <2>2, <1>1 DEF CallGoes
    <2> QED BY <2>1, <2>2
  <1> QED BY <1>2 DEF Effects

LEMMA DialEffects ==
    ASSUME IInv, NEW d \in Devices, Dial(d) PROVE Effects
  <1>1. PICK c \in CallIds :
            /\ placer[c] = None
            /\ placer' = [placer EXCEPT ![c] = d]
            /\ SetState(d, c, "Dialing")
            /\ outbox' = outbox \cup {Event("invite", c, d)}
            /\ UNCHANGED party
    BY DEF Dial
  <1> DEFINE new == Event("invite", c, d)
  <1>2. \A b \in Devices, a \in CallIds :
            state'[b][a] = IF b = d /\ a = c THEN "Dialing" ELSE state[b][a]
    BY <1>1, StateSet DEF IInv, CallStates
  <1>3. \A a \in CallIds : placer'[a] = IF a = c THEN d ELSE placer[a]
    BY <1>1 DEF IInv, CallTypes
  <1>4. state[d][c] = "None"
    BY <1>1, KnownIsPlaced
  <1>5. Dialled(d, c)
    BY <1>1, <1>2, <1>3, <1>4 DEF Dialled
  <1>6. ASSUME NEW b \in Devices, NEW a \in CallIds PROVE CallGoes(b, a)
    <2>1. CASE b = d /\ a = c
      BY <2>1, <1>5 DEF CallGoes
    <2>2. CASE ~(b = d /\ a = c)
      BY <2>2, <1>1, <1>2 DEF CallGoes
    <2> QED BY <2>1, <2>2
  <1>7. Originates(new)
    <2>1. new.kind = "invite" /\ new.call = c /\ new.from = d
      BY DEF Event
    <2>2. d # None
      BY DevicesAssumption DEF Devices
    <2> HIDE DEF new
    <2> QED BY <2>1, <2>2, <1>3, <1>5 DEF Originates
  <1> QED BY <1>1, <1>3, <1>5, <1>6, <1>7 DEF Effects

LEMMA HangUpEffects ==
    ASSUME IInv, NEW d \in Devices, NEW c \in CallIds, HangUp(d, c) PROVE Effects
  <1> DEFINE bye == Event("hangup", c, d)
  <1>1. /\ state[d][c] \notin {"None", "Ended"} /\ SetState(d, c, "Ended")
        /\ outbox' = outbox \cup {bye} /\ UNCHANGED <<placer, party>>
    BY DEF HangUp
  <1>2. bye.kind = "hangup" /\ bye.call = c /\ bye.from = d
    BY DEF Event
  <1>3. state'[d][c] = "Ended"
    BY <1>1, StateSet DEF IInv, CallStates
  <1>4. placer[c] # None
    BY <1>1, KnownIsPlaced
  <1>5. CallGoes(d, c)
    BY <1>1, <1>3 DEF CallGoes, Over
  <1> HIDE DEF bye
  <1>6. Originates(bye)
    BY <1>1, <1>2, <1>3, <1>4 DEF Originates
  <1> QED BY <1>1, <1>5, <1>6, OneGoes DEF IInv, CallStates

LEMMA AcceptEffects ==
    ASSUME IInv, NEW d \in Devices, NEW c \in CallIds, Accept(d, c) PROVE Effects
  <1> DEFINE yes == Event("answer", c, d)
  <1>1. /\ state[d][c] = "Ringing" /\ SetState(d, c, "Connecting")
        /\ outbox' = outbox \cup {yes} /\ UNCHANGED <<placer, party>>
    BY DEF Accept
  <1>2. yes.kind = "answer" /\ yes.call = c /\ yes.from = d
    BY DEF Event
  <1>3. state'[d][c] = "Connecting"
    BY <1>1, StateSet DEF IInv, CallStates
  <1>4. placer[c] # None
    BY <1>1, KnownIsPlaced
  <1>5. Accepted(d, c)
    BY <1>1, <1>3 DEF Accepted
  <1>6. CallGoes(d, c)
    BY <1>1, <1>5 DEF CallGoes
  <1> HIDE DEF yes
  <1>7. Originates(yes)
    BY <1>1, <1>2, <1>4, <1>5 DEF Originates
  <1> QED BY <1>1, <1>6, <1>7, OneGoes DEF IInv, CallStates

LEMMA RejectEffects ==
    ASSUME IInv, NEW d \in Devices, NEW c \in CallIds, Reject(d, c) PROVE Effects
  <1> DEFINE no == Event("reject", c, d)
  <1>1. /\ state[d][c] = "Ringing" /\ SetState(d, c, "Ended")
        /\ outbox' = outbox \cup {no} /\ UNCHANGED <<placer, party>>
    BY DEF Reject
  <1>2. no.kind = "reject" /\ no.call = c /\ no.from = d
    BY DEF Event
  <1>3. state'[d][c] = "Ended"
    BY <1>1, StateSet DEF IInv, CallStates
  <1>4. placer[c] # None
    BY <1>1, KnownIsPlaced
  <1>5. CallGoes(d, c)
    BY <1>1, <1>3 DEF CallGoes, Over
  <1> HIDE DEF no
  <1>6. Originates(no)
    BY <1>1, <1>2, <1>3, <1>4 DEF Originates
  <1> QED BY <1>1, <1>5, <1>6, OneGoes DEF IInv, CallStates

LEMMA QuietEffects ==
    ASSUME IInv, NEW d \in Devices, NEW c \in CallIds,
           NoteConnected(d, c) \/ (LifetimeEnds(d, c) /\ ~HangUp(d, c))
    PROVE  Effects
  <1>1. /\ UNCHANGED <<placer, party, outbox>>
        /\ \/ state[d][c] = "Connecting" /\ SetState(d, c, "Connected")
           \/ state[d][c] = "Ringing" /\ SetState(d, c, "Ended")
    BY DEF NoteConnected, LifetimeEnds, wire
  <1>2. \A s \in CallStates : SetState(d, c, s) => state'[d][c] = s
    BY StateSet DEF IInv
  <1>3. CallGoes(d, c)
    BY <1>1, <1>2 DEF CallGoes, Over, CallStates
  <1> QED BY <1>1, <1>3, OneGoes DEF IInv, CallStates

LEMMA MemberLeftEffects ==
    ASSUME IInv, NEW d \in Devices, HandleMemberLeft(d) PROVE Effects
  <1>1. UNCHANGED <<placer, party, outbox>> /\ d \in untold
    BY DEF HandleMemberLeft, wire
  <1>2. CASE active[d] = None
    BY <1>1, <1>2, NothingGoes DEF HandleMemberLeft
  <1>3. CASE active[d] # None
    <2> DEFINE c == active[d]
    <2>1. c \in CallIds /\ SetState(d, c, "Ended") /\ state[d][c] # "None"
      BY <1>3 DEF HandleMemberLeft, IInv, CallTypes, ActiveKnown
    <2> HIDE DEF c
    <2>2. state'[d][c] = "Ended"
      BY <2>1, StateSet DEF IInv, CallStates
    <2>3. CallGoes(d, c)
      BY <1>1, <2>1, <2>2 DEF CallGoes, Over
    <2> QED BY <1>1, <2>1, <2>3, OneGoes DEF IInv, CallStates
  <1> QED BY <1>2, <1>3

LEMMA AnswerEffects ==
    ASSUME CallTypes, NEW d \in Devices, NEW e \in Events, e.kind = "answer",
           Reads(d, e), HandleAnswer(d, e), placer' = placer
    PROVE  Effects
  <1>1. CASE Ignore
    BY <1>1, NothingGoes DEF Ignore
  <1>2. CASE ~Ignore
    <2> DEFINE c == e.call
               sel == Select(c, d, e.from)
    <2>1. c \in CallIds /\ e.from \in Devices
      BY DEF Events
    <2>2. /\ placer[c] = d /\ state[d][c] = "Dialing" /\ e.from # d
          /\ SetState(d, c, "Connecting")
          /\ party' = [party EXCEPT ![d][c] = e.from]
          /\ outbox' = outbox \cup {sel}
      BY <1>2 DEF HandleAnswer, IsOutgoing, IsRemoteParty
    <2>3. sel.kind = "select" /\ sel.call = c /\ sel.from = d /\ sel.selected = e.from
      BY DEF Select
    <2>4. c = e.call
      OBVIOUS
    <2>5. sel = Select(c, d, e.from)
      OBVIOUS
    <2> HIDE DEF c, sel
    <2>6. \A b \in Devices, a \in CallIds :
              /\ state'[b][a] = IF b = d /\ a = c THEN "Connecting" ELSE state[b][a]
              /\ party'[b][a] = IF b = d /\ a = c THEN e.from ELSE party[b][a]
      <3>1. \A b \in Devices, a \in CallIds :
              state'[b][a] = IF b = d /\ a = c THEN "Connecting" ELSE state[b][a]
        BY <2>1, <2>2, StateSet DEF CallStates
      <3>2. \A b \in Devices, a \in CallIds :
              party'[b][a] = IF b = d /\ a = c THEN e.from ELSE party[b][a]
        BY <2>1, <2>2 DEF CallTypes
      <3> QED BY <3>1, <3>2
    <2>7. Took(d, c)
      BY <2>1, <2>2, <2>4, <2>5, <2>6 DEF Took
    <2>8. ASSUME NEW b \in Devices, NEW a \in CallIds PROVE CallGoes(b, a)
      <3>1. CASE b = d /\ a = c
        BY <3>1, <2>7 DEF CallGoes
      <3>2. CASE ~(b = d /\ a = c)
        BY <3>2, <2>6 DEF CallGoes
      <3> QED BY <3>1, <3>2
    <2>9. Originates(sel)
      <3>1. d # None
        BY DevicesAssumption DEF Devices
      <3> QED BY <3>1, <2>1, <2>2, <2>3, <2>6, <2>7 DEF Originates
    <2> QED BY <2>2, <2>8, <2>9 DEF Effects
  <1> QED BY <1>1, <1>2

LEMMA EndCallEffects ==
    ASSUME IInv, NEW d \in Devices, NEW e \in Events, Reads(d, e), placer' = placer,
           active[d] = e.call, EndedBy(d, e), EndCall(d, e.call)
    PROVE  Effects /\ state'[d][e.call] = "Ended"
  <1>1. e.call \in CallIds /\ CallTypes /\ "Ended" \in CallStates
    BY DEF Events, IInv, CallStates
  <1>2. SetState(d, e.call, "Ended") /\ UNCHANGED <<placer, party, outbox>>
    BY DEF EndCall
  <1>3. state'[d][e.call] = "Ended" /\ state[d][e.call] # "None"
    BY <1>1, <1>2, StateSet DEF IInv, ActiveKnown
  <1>4. CallGoes(d, e.call) \/ "Ended" = state[d][e.call]
    BY <1>2, <1>3 DEF CallGoes, Over
  <1>5. \A f \in outbox' \ outbox : Originates(f)
    BY <1>2
  <1>6. Effects
    BY <1>1, <1>2, <1>4, <1>5, OneGoes
  <1> QED BY <1>3, <1>6

\* A call received, after one given up for it perhaps.
LEMMA ReceiveEffects ==
    ASSUME CallTypes, NEW d \in Devices, NEW e \in Events, e.kind = "invite",
           Reads(d, e), state[d][e.call] = "None", ~SameUser(d, e.from),
           placer' = placer,
           NEW st \in [Devices -> [CallIds -> CallStates]],
           \A b \in Devices, a \in CallIds :
               st[b][a] = state[b][a]
               \/ /\ b = d /\ state[d][a] = "Dialing" /\ st[d][a] = "Ended"
                  /\ Event("hangup", a, d) \in outbox',
           Receive(d, e, st),
           \A f \in outbox' \ outbox : Originates(f)
    PROVE  Effects
  <1>1. e.call \in CallIds /\ e.from \in Devices
    BY DEF Events
  <1>2. \A b \in Devices, a \in CallIds :
            state'[b][a] = IF b = d /\ a = e.call THEN "Ringing" ELSE st[b][a]
    BY <1>1 DEF Receive
  <1>3. \A b \in Devices, a \in CallIds :
            party'[b][a] = IF b = d /\ a = e.call THEN e.from ELSE party[b][a]
    BY <1>1 DEF Receive, CallTypes
  <1>4. ASSUME NEW b \in Devices, NEW a \in CallIds PROVE CallGoes(b, a)
    <2>1. CASE b = d /\ a = e.call
      <3>1. Rung(d, e.call)
        BY <1>1, <1>2, <1>3 DEF Rung
      <3> QED BY <2>1, <3>1 DEF CallGoes
    <2>2. CASE ~(b = d /\ a = e.call)
      <3>1. /\ party'[b][a] = party[b][a] /\ state'[b][a] = st[b][a]
            /\ \/ st[b][a] = state[b][a]
               \/ /\ b = d /\ state[d][a] = "Dialing" /\ st[d][a] = "Ended"
                  /\ Event("hangup", a, d) \in outbox'
        BY <2>2, <1>2, <1>3
      <3> QED BY <3>1 DEF CallGoes, Over
    <2> QED BY <2>1, <2>2
  <1> QED BY <1>4 DEF Effects

\* Glare: busy, or the other call wins, or ours does.
LEMMA GlareEffects ==
    ASSUME IInv, NEW d \in Devices, NEW e \in Events, e.kind = "invite",
           Reads(d, e), state[d][e.call] = "None", ~SameUser(d, e.from),
           placer' = placer, placer[e.call] # None,
           active[d] # None, HandleGlare(d, e)
    PROVE  /\ Effects
           /\ \/ state'[d][e.call] # "None"
              \/ placer[active[d]] = d /\ ~(e.call < active[d])
  <1> DEFINE mine == active[d]
  <1>1. e.call \in CallIds /\ e.from \in Devices /\ mine \in CallIds /\ CallTypes
    BY DEF Events, IInv, CallTypes
  <1>3. CASE ~(IsOutgoing(d, mine) /\ state[d][mine] = "Dialing")
    <2> DEFINE busy == Event("busy", e.call, d)
    <2>1. /\ SetState(d, e.call, "Ended") /\ outbox' = outbox \cup {busy}
          /\ party' = [party EXCEPT ![d][e.call] = e.from]
      BY <1>3 DEF HandleGlare
    <2>2. busy.kind = "busy" /\ busy.call = e.call /\ busy.from = d
      BY DEF Event
    <2> HIDE DEF busy
    <2>3. \A b \in Devices, a \in CallIds :
              state'[b][a] = IF b = d /\ a = e.call THEN "Ended" ELSE state[b][a]
      BY <1>1, <2>1, StateSet DEF CallStates
    <2>4. \A b \in Devices, a \in CallIds :
              party'[b][a] = IF b = d /\ a = e.call THEN e.from ELSE party[b][a]
      BY <1>1, <2>1 DEF CallTypes
    <2>5. ASSUME NEW b \in Devices, NEW a \in CallIds PROVE CallGoes(b, a)
      <3>1. CASE b = d /\ a = e.call
        <4>1. Rung(d, e.call)
          BY <1>1, <2>3, <2>4 DEF Rung
        <4> QED BY <3>1, <4>1 DEF CallGoes
      <3>2. CASE ~(b = d /\ a = e.call)
        BY <3>2, <2>3, <2>4 DEF CallGoes
      <3> QED BY <3>1, <3>2
    <2>6. Originates(busy)
      BY <1>1, <2>2, <2>3 DEF Originates
    <2>7. state'[d][e.call] # "None"
      BY <1>1, <2>3
    <2> QED BY <2>1, <2>5, <2>6, <2>7 DEF Effects
  <1>4. CASE IsOutgoing(d, mine) /\ state[d][mine] = "Dialing" /\ e.call < mine
    <2> DEFINE bye == Event("hangup", mine, d)
               st == [state EXCEPT ![d][mine] = "Ended"]
    <2>1. Receive(d, e, st) /\ outbox' = outbox \cup {bye}
      BY <1>4 DEF HandleGlare
    <2>2. bye.kind = "hangup" /\ bye.call = mine /\ bye.from = d
      BY DEF Event
    <2>3. /\ st \in [Devices -> [CallIds -> CallStates]]
          /\ \A b \in Devices, a \in CallIds :
                st[b][a] = IF b = d /\ a = mine THEN "Ended" ELSE state[b][a]
      BY <1>1 DEF CallTypes, CallStates
    <2>4. bye = Event("hangup", mine, d)
      OBVIOUS
    <2> HIDE DEF bye, st
    <2>5. \A b \in Devices, a \in CallIds :
              st[b][a] = state[b][a]
              \/ /\ b = d /\ state[d][a] = "Dialing" /\ st[d][a] = "Ended"
                 /\ Event("hangup", a, d) \in outbox'
      BY <1>1, <1>4, <2>1, <2>3, <2>4
    <2>6. state'[d][e.call] = "Ringing"
      BY <1>1, <2>1, <2>3 DEF Receive
    <2>7. mine # e.call
      BY <1>4
    <2>8. state'[d][mine] = "Ended"
      BY <1>1, <2>1, <2>3, <2>7 DEF Receive
    <2>9. Originates(bye)
      <3>1. placer[mine] # None
        BY <1>1, <1>4, KnownIsPlaced
      <3> QED BY <3>1, <2>2, <2>8 DEF Originates
    <2>10. Effects
      BY <1>1, <2>1, <2>3, <2>5, <2>9, ReceiveEffects
    <2> QED BY <2>6, <2>10
  <1>5. CASE IsOutgoing(d, mine) /\ state[d][mine] = "Dialing" /\ ~(e.call < mine)
    <2>1. Ignore
      BY <1>5 DEF HandleGlare
    <2>2. Effects
      BY <2>1, NothingGoes DEF Ignore
    <2> QED BY <2>2, <1>5 DEF IsOutgoing
  <1> QED BY <1>3, <1>4, <1>5

\* What an event makes of the device that acts on it.
Told(d, e) ==
    /\ /\ e.kind = "invite" /\ ~SameUser(d, e.from)
       /\ state[e.from][e.call] = "Dialing"
       => \/ state'[d][e.call] # "None"
          \/ placer[active[d]] = d /\ active[d] \in CallIds /\ ~(e.call < active[d])
    /\ active[d] = e.call /\ EndedBy(d, e) => state'[d][e.call] = "Ended"

LEMMA SignalEffects ==
    ASSUME IInv, NEW d \in Devices, HandleSignal(d)
    PROVE  Effects /\ Told(d, Head(inbox[d]))
  <1> DEFINE e == Head(inbox[d])
  <1>1. /\ inbox[d] # <<>> /\ inbox' = [inbox EXCEPT ![d] = Tail(@)]
        /\ UNCHANGED <<placer, placing, lost>>
    BY DEF HandleSignal
  <1>2. /\ e \in Events
        /\ e.kind = "invite" => state[d][e.call] = "None" /\ placer[e.call] # None
    <2>1. /\ e \in Events
          /\ e.kind = "invite" => e.call \in Rings(inbox[d]) /\ state[d][e.call] = "None"
      BY <1>1, SignalTaken
    <2> QED BY <2>1 DEF IInv, Fresh
  <1>3. \/ e.kind = "invite" /\ HandleInvite(d, e)
        \/ e.kind # "invite" /\ active[d] # e.call /\ Ignore
        \/ /\ active[d] = e.call
           /\ \/ e.kind = "answer" /\ HandleAnswer(d, e)
              \/ e.kind = "select" /\ HandleSelectAnswer(d, e)
              \/ e.kind \in {"hangup", "busy"} /\ HandleHangup(d, e)
              \/ e.kind = "reject" /\ HandleReject(d, e)
    BY DEF HandleSignal
  <1>4. Reads(d, e)
    BY <1>1 DEF Reads
  <1> SUFFICES Effects /\ Told(d, e)
    OBVIOUS
  <1> HIDE DEF e
  <1>5. CallTypes /\ e.call \in CallIds /\ e.from \in Devices
    BY <1>2 DEF IInv, Events
  <1>6. Ignore => Effects
    BY <1>1, NothingGoes DEF Ignore
  <1>7. CASE e.kind = "invite" /\ HandleInvite(d, e)
    <2>1. ~(active[d] = e.call /\ EndedBy(d, e))
      BY <1>7 DEF EndedBy
    <2>2. CASE SameUser(d, e.from)
      BY <2>1, <2>2, <1>6, <1>7 DEF HandleInvite, Told
    <2>3. CASE ~SameUser(d, e.from) /\ state[e.from][e.call] # "Dialing" /\ Ignore
      BY <2>1, <2>3, <1>6, <1>7 DEF Told
    <2>4. CASE ~SameUser(d, e.from) /\ active[d] # None /\ HandleGlare(d, e)
      <3>1. active[d] \in CallIds
        BY <2>4, <1>5 DEF CallTypes
      <3>2. /\ Effects
            /\ \/ state'[d][e.call] # "None"
               \/ placer[active[d]] = d /\ ~(e.call < active[d])
        BY <2>4, <1>1, <1>2, <1>4, <1>7, GlareEffects
      <3> QED BY <3>1, <3>2, <2>1 DEF Told
    <2>5. CASE ~SameUser(d, e.from) /\ Receive(d, e, state) /\ UNCHANGED outbox
      <3>1. Effects
        BY <2>5, <1>1, <1>2, <1>4, <1>5, <1>7, ReceiveEffects DEF CallTypes
      <3>2. state'[d][e.call] = "Ringing"
        BY <2>5, <1>5 DEF Receive, CallTypes
      <3> QED BY <3>1, <3>2, <2>1 DEF Told
    <2> QED BY <2>2, <2>3, <2>4, <2>5, <1>7 DEF HandleInvite
  <1>8. CASE e.kind # "invite" /\ active[d] # e.call /\ Ignore
    BY <1>6, <1>8 DEF Told
  <1>9. CASE active[d] = e.call /\ e.kind = "answer" /\ HandleAnswer(d, e)
    BY <1>1, <1>2, <1>4, <1>5, <1>9, AnswerEffects DEF Told, EndedBy
  <1>10. CASE /\ active[d] = e.call
              /\ \/ e.kind = "select" /\ HandleSelectAnswer(d, e)
                 \/ e.kind \in {"hangup", "busy"} /\ HandleHangup(d, e)
                 \/ e.kind = "reject" /\ HandleReject(d, e)
    <2>1. IF EndedBy(d, e) THEN EndCall(d, e.call) ELSE Ignore
      BY <1>10 DEF HandleSelectAnswer, HandleHangup, HandleReject, EndedBy
    <2>2. CASE EndedBy(d, e)
      BY <2>1, <2>2, <1>1, <1>2, <1>4, <1>10, EndCallEffects DEF Told
    <2>3. CASE ~EndedBy(d, e)
      BY <2>1, <2>3, <1>6, <1>10 DEF Told
    <2> QED BY <2>2, <2>3
  <1> QED BY <1>3, <1>7, <1>8, <1>9, <1>10

LEMMA StepEffects == IInv /\ [Next]_vars => Effects
  <1> SUFFICES ASSUME IInv, [Next]_vars PROVE Effects
    OBVIOUS
  <1>1. CASE UNCHANGED vars
    BY <1>1, NothingGoes DEF vars
  <1>2. ASSUME NEW d \in Devices, Place(d) \/ BeginPlace(d) \/ FinishPlace(d)
        PROVE  Effects
    <2>1. CASE Dial(d)
      BY <2>1, DialEffects
    <2>2. CASE ~Dial(d)
      BY <1>2, <2>2, NothingGoes DEF Place, BeginPlace, FinishPlace, wire
    <2> QED BY <2>1, <2>2
  <1>3. ASSUME NEW d \in Devices, ForgetEnded(d) PROVE Effects
    BY <1>3, NothingGoes DEF ForgetEnded, wire
  <1>4. ASSUME NEW d \in Devices, HandleSignal(d) PROVE Effects
    BY <1>4, SignalEffects
  <1>5. ASSUME NEW d \in Devices, HandleMemberLeft(d) PROVE Effects
    BY <1>5, MemberLeftEffects
  <1>6. ASSUME NEW d \in Devices, NEW c \in CallIds,
               \/ Accept(d, c) \/ Reject(d, c) \/ EmbedderHangsUp(d, c)
               \/ NoConnection(d, c) \/ NoteConnected(d, c) \/ LifetimeEnds(d, c)
        PROVE  Effects
    BY <1>6, AcceptEffects, RejectEffects, HangUpEffects, QuietEffects
    DEF EmbedderHangsUp, NoConnection
  <1>7. ASSUME NEW e \in outbox, Send(e) \/ FailToSend(e) PROVE Effects
    BY <1>7, NothingGoes DEF Send, FailToSend
  <1>8. ASSUME NEW user \in {Alice, Bob}, Leave(user) PROVE Effects
    BY <1>8, NothingGoes DEF Leave, wire
  <1> QED BY <1>1, <1>2, <1>3, <1>4, <1>5, <1>6, <1>7, <1>8 DEF Next

-------------------------------------------------------------------------------
(* The events on their way to a device *)

\* The events a device has yet to act on, and with those yet to be sent.
Heard(d) == {inbox[d][i] : i \in DOMAIN inbox[d]}
Coming(d) == outbox \cup Heard(d)

\* Nothing was lost and nobody left.
Still == lost = 0 /\ gone = {}

\* Until a user leaves, no room has to handle it.
NoneUntold == gone = {} => untold = {}

LEMMA TailHeard ==
    ASSUME NEW line \in Seq(Events), line # <<>>
    PROVE  /\ {Tail(line)[i] : i \in DOMAIN Tail(line)}
                  \subseteq {line[i] : i \in DOMAIN line}
           /\ \A i \in DOMAIN line :
                 line[i] = Head(line)
                 \/ line[i] \in {Tail(line)[j] : j \in DOMAIN Tail(line)}
  <1>1. /\ Len(line) \in Nat \ {0} /\ DOMAIN line = 1..Len(line)
        /\ Head(line) = line[1] /\ DOMAIN Tail(line) = 1..(Len(line) - 1)
        /\ \A i \in 1..(Len(line) - 1) : Tail(line)[i] = line[i + 1]
    BY HeadTailProperties, LenProperties, EmptySeq
  <1>2. \A i \in DOMAIN Tail(line) : i + 1 \in DOMAIN line
    BY <1>1
  <1>3. ASSUME NEW i \in DOMAIN line, i # 1
        PROVE  line[i] \in {Tail(line)[j] : j \in DOMAIN Tail(line)}
    <2>1. i - 1 \in DOMAIN Tail(line) /\ (i - 1) + 1 = i
      BY <1>1, <1>3
    <2> QED BY <2>1, <1>1
  <1> QED BY <1>1, <1>2, <1>3

LEMMA AppendHeard ==
    ASSUME NEW line \in Seq(Events), NEW e \in Events
    PROVE  {Append(line, e)[i] : i \in DOMAIN Append(line, e)}
               = {line[i] : i \in DOMAIN line} \cup {e}
  <1> DEFINE longer == Append(line, e)
  <1>1. /\ Len(line) \in Nat
        /\ DOMAIN line = 1..Len(line) /\ DOMAIN longer = 1..(Len(line) + 1)
        /\ \A i \in 1..Len(line) : longer[i] = line[i]
        /\ longer[Len(line) + 1] = e
    BY AppendProperties, LenProperties
  <1> HIDE DEF longer
  <1>2. \A i \in DOMAIN longer :
            \/ i \in DOMAIN line /\ longer[i] = line[i]
            \/ i = Len(line) + 1 /\ longer[i] = e
    BY <1>1
  <1>3. \A i \in DOMAIN line : i \in DOMAIN longer /\ longer[i] = line[i]
    BY <1>1
  <1>4. Len(line) + 1 \in DOMAIN longer
    BY <1>1
  <1>5. {longer[i] : i \in DOMAIN longer} = {line[i] : i \in DOMAIN line} \cup {e}
    BY <1>1, <1>2, <1>3, <1>4
  <1> QED BY <1>5 DEF longer

LEMMA ComingTyped ==
    ASSUME CallTypes, NEW d \in Devices
    PROVE  Coming(d) \subseteq Events
  <1>1. \A i \in DOMAIN inbox[d] : inbox[d][i] \in Events
    BY ElementOfSeq, LenProperties DEF CallTypes
  <1> QED BY <1>1 DEF Coming, Heard, CallTypes

\* What becomes of the lines in a step: nothing, or an event is acted on, sent
\* or lost.
LEMMA LineSteps ==
    ASSUME [Next]_vars
    PROVE  \/ UNCHANGED <<inbox, lost>> /\ outbox \subseteq outbox'
              /\ (gone' = gone \/ gone = {})
           \/ \E d \in Devices : HandleSignal(d)
           \/ \E e \in outbox : Send(e) \/ FailToSend(e)
  <1> DEFINE Apart == /\ UNCHANGED <<inbox, lost>> /\ outbox \subseteq outbox'
                      /\ (gone' = gone \/ gone = {})
  <1>1. CASE UNCHANGED vars
    BY <1>1 DEF vars
  <1>2. ASSUME NEW d \in Devices, Place(d) \/ BeginPlace(d) \/ FinishPlace(d)
        PROVE  Apart
    BY <1>2 DEF Place, BeginPlace, FinishPlace, Dial, wire, members
  <1>3. ASSUME NEW d \in Devices, ForgetEnded(d) \/ HandleMemberLeft(d)
        PROVE  Apart
    BY <1>3 DEF ForgetEnded, HandleMemberLeft, wire, members
  <1>4. ASSUME NEW d \in Devices, NEW c \in CallIds,
               \/ Accept(d, c) \/ Reject(d, c) \/ EmbedderHangsUp(d, c)
               \/ NoConnection(d, c) \/ NoteConnected(d, c) \/ LifetimeEnds(d, c)
        PROVE  Apart
    BY <1>4 DEF Accept, Reject, EmbedderHangsUp, NoConnection, NoteConnected,
                LifetimeEnds, HangUp, wire, members
  <1>5. ASSUME NEW user \in {Alice, Bob}, Leave(user) PROVE Apart
    BY <1>5 DEF Leave, wire
  <1> QED BY <1>1, <1>2, <1>3, <1>4, <1>5 DEF Next

LEMMA SignalLines ==
    ASSUME CallTypes, NEW d \in Devices, HandleSignal(d)
    PROVE  /\ inbox[d] \in Seq(Events) /\ inbox[d] # <<>>
           /\ \A b \in Devices : inbox'[b] = IF b = d THEN Tail(inbox[d]) ELSE inbox[b]
           /\ outbox \subseteq outbox' /\ UNCHANGED <<lost, gone, untold>>
  <1>1. /\ inbox[d] # <<>> /\ inbox' = [inbox EXCEPT ![d] = Tail(@)]
        /\ UNCHANGED <<lost, gone, untold>>
    BY DEF HandleSignal, members
  <1> DEFINE e == Head(inbox[d])
  <1>2. \/ HandleInvite(d, e) \/ Ignore \/ HandleAnswer(d, e) \/ EndCall(d, e.call)
    BY DEF HandleSignal, HandleSelectAnswer, HandleHangup, HandleReject
  <1> HIDE DEF e
  <1>3. outbox \subseteq outbox'
    BY <1>2 DEF HandleInvite, HandleGlare, Ignore, HandleAnswer, EndCall
  <1> QED BY <1>1, <1>3 DEF CallTypes

LEMMA SendLines ==
    ASSUME CallTypes, NEW e \in outbox, Send(e)
    PROVE  /\ e \in Events /\ outbox' = outbox \ {e} /\ UNCHANGED <<lost, gone, untold>>
           /\ \A b \in Devices :
                 /\ inbox[b] \in Seq(Events)
                 /\ inbox'[b] = IF b \in {e.from} \cup gone
                                  THEN inbox[b] ELSE Append(inbox[b], e)
  BY DEF CallTypes, Send, members

\* What is on its way to a device was before, or the step made it known.
LEMMA ComingFrom ==
    ASSUME CallTypes, [Next]_vars, NEW d \in Devices
    PROVE  Coming(d)' \subseteq Coming(d) \cup (outbox' \ outbox)
  <1> SUFFICES Heard(d)' \subseteq Coming(d)
    BY DEF Coming
  <1>1. CASE UNCHANGED inbox
    BY <1>1 DEF Heard, Coming
  <1>2. ASSUME NEW b \in Devices, HandleSignal(b) PROVE Heard(d)' \subseteq Coming(d)
    <2>1. CASE b # d
      <3>1. inbox'[d] = inbox[d]
        BY <1>2, <2>1, SignalLines
      <3> QED BY <3>1 DEF Heard, Coming
    <2>2. CASE b = d
      <3>1. /\ inbox[d] \in Seq(Events) /\ inbox[d] # <<>>
            /\ inbox'[d] = Tail(inbox[d])
        BY <1>2, <2>2, SignalLines
      <3>2. Heard(d)' \subseteq Heard(d)
        BY <3>1, TailHeard DEF Heard
      <3> QED BY <3>2 DEF Coming
    <2> QED BY <2>1, <2>2
  <1>3. ASSUME NEW e \in outbox, Send(e) PROVE Heard(d)' \subseteq Coming(d)
    <2>1. /\ e \in Events /\ inbox[d] \in Seq(Events)
          /\ inbox'[d] \in {inbox[d], Append(inbox[d], e)}
      BY <1>3, SendLines
    <2>2. CASE inbox'[d] = inbox[d]
      BY <2>2 DEF Heard, Coming
    <2>3. CASE inbox'[d] = Append(inbox[d], e)
      <3>1. Heard(d)' = Heard(d) \cup {e}
        BY <2>1, <2>3, AppendHeard DEF Heard
      <3> QED BY <3>1 DEF Coming
    <2> QED BY <2>1, <2>2, <2>3
  <1>4. \A e \in outbox : FailToSend(e) => UNCHANGED inbox
    BY DEF FailToSend
  <1> QED BY <1>1, <1>2, <1>3, <1>4, LineSteps

\* A step that leaves it true that nothing was lost, found it true.
LEMMA StillBefore ==
    ASSUME CallTypes, NoneUntold, [Next]_vars, Still'
    PROVE  /\ Still /\ untold = {}
           /\ \A e \in outbox : ~FailToSend(e)
  <1>1. lost \in Nat /\ lost' = 0 /\ gone' = {}
    BY DEF CallTypes, Still
  <1>2. ASSUME NEW e \in outbox, FailToSend(e) PROVE FALSE
    BY <1>1, <1>2 DEF FailToSend, members
  <1>3. \A d \in Devices : HandleSignal(d) => UNCHANGED <<lost, gone>>
    BY SignalLines
  <1>4. \A e \in outbox : Send(e) => UNCHANGED <<lost, gone>>
    BY DEF Send, members
  <1>5. lost = 0 /\ gone = {}
    BY <1>1, <1>2, <1>3, <1>4, LineSteps
  <1> QED BY <1>2, <1>5 DEF Still, NoneUntold

\* While nothing is lost, an event stays on its way to a device that did not
\* send it until the device acts on it.
LEMMA ComingKept ==
    ASSUME CallTypes, NoneUntold, [Next]_vars, Still', NEW d \in Devices,
           NEW e \in Coming(d), e.from # d
    PROVE  e \in Coming(d)' \/ (HandleSignal(d) /\ Reads(d, e))
  <1>1. gone = {} /\ \A f \in outbox : ~FailToSend(f)
    BY StillBefore DEF Still
  <1>2. CASE UNCHANGED inbox /\ outbox \subseteq outbox'
    BY <1>2 DEF Heard, Coming
  <1>3. ASSUME NEW b \in Devices, HandleSignal(b)
        PROVE  e \in Coming(d)' \/ (HandleSignal(d) /\ Reads(d, e))
    <2>1. CASE e \in outbox \/ b # d
      BY <1>3, <2>1, SignalLines DEF Heard, Coming
    <2>2. CASE e \in Heard(d) /\ b = d
      <3>1. \A i \in DOMAIN inbox[d] : inbox[d][i] = Head(inbox[d])
                \/ inbox[d][i] \in {Tail(inbox[d])[j] : j \in DOMAIN Tail(inbox[d])}
        BY <1>3, <2>2, SignalLines, TailHeard
      <3>2. inbox[d] # <<>> /\ inbox'[d] = Tail(inbox[d])
        BY <1>3, <2>2, SignalLines
      <3>3. e = Head(inbox[d]) \/ e \in Heard(d)'
        BY <2>2, <3>1, <3>2 DEF Heard
      <3> QED BY <1>3, <2>2, <3>2, <3>3 DEF Coming, Reads
    <2> QED BY <2>1, <2>2 DEF Coming
  <1>4. ASSUME NEW f \in outbox, Send(f) PROVE e \in Coming(d)'
    <2>1. CASE d = f.from
      BY <1>4, <2>1, SendLines DEF Heard, Coming
    <2>2. CASE d # f.from
      <3>1. Heard(d)' = Heard(d) \cup {f}
        <4>1. /\ f \in Events /\ inbox[d] \in Seq(Events)
              /\ inbox'[d] = Append(inbox[d], f)
          BY <1>1, <1>4, <2>2, SendLines
        <4>2. {Append(inbox[d], f)[i] : i \in DOMAIN Append(inbox[d], f)}
                  = {inbox[d][i] : i \in DOMAIN inbox[d]} \cup {f}
          BY <4>1, AppendHeard
        <4> QED BY <4>1, <4>2 DEF Heard
      <3>2. outbox' = outbox \ {f}
        BY <1>4 DEF Send
      <3> QED BY <3>1, <3>2 DEF Coming
    <2> QED BY <2>1, <2>2
  <1> QED BY <1>1, <1>2, <1>3, <1>4, LineSteps

-------------------------------------------------------------------------------
(* Who plays which part in a call, and what its events are true of *)

Answered(d, c) == state[d][c] \in {"Connecting", "Connected", "Ended"}

\* Who dials placed the call, and took no answer yet.
DialsOwn(d, c) == state[d][c] = "Dialing" => placer[c] = d /\ party[d][c] = None

\* Who placed a call knows it, and has for its party the device it took the
\* answer of.
PlacesOwn(d, c) ==
    placer[c] = d =>
        /\ state[d][c] \notin {"None", "Ringing"}
        /\ InCall(d, c) => party[d][c] # None
        /\ party[d][c] # None =>
              /\ party[d][c] # d /\ Answered(d, c)
              /\ Answered(party[d][c], c)

\* Who rings, or answered, has for its party the device that placed the call,
\* one of the other user.
RingsForOther(d, c) ==
    state[d][c] \in {"Ringing", "Connecting", "Connected"} /\ placer[c] # d =>
        /\ placer[c] # None /\ party[d][c] = placer[c]
        /\ ~SameUser(d, placer[c])

RolesOf(d, c) ==
    /\ state[d][c] = "None" => party[d][c] = None
    /\ DialsOwn(d, c) /\ PlacesOwn(d, c) /\ RingsForOther(d, c)

Roles == \A d \in Devices, c \in CallIds : RolesOf(d, c)

\* What holds of the call an event is about as long as the event is on its way.
Said(e) ==
    /\ placer[e.call] # None
    /\ e.kind = "invite" => e.from = placer[e.call]
    /\ e.kind = "answer" => e.from # placer[e.call] /\ Answered(e.from, e.call)
    /\ e.kind = "select" => /\ e.from = placer[e.call] /\ e.selected # None
                            /\ e.selected = party[e.from][e.call]
    /\ e.kind = "reject" => e.from # placer[e.call] /\ IsEnded(e.from, e.call)
    /\ e.kind \in {"hangup", "busy"} => IsEnded(e.from, e.call)

AllSaid == \A d \in Devices : \A e \in Coming(d) : Said(e)

LEMMA ReadsComing ==
    ASSUME CallTypes, NEW d \in Devices, NEW e, Reads(d, e)
    PROVE  e \in Coming(d) /\ e \in Events
  <1>1. inbox[d] \in Seq(Events) /\ inbox[d] # <<>> /\ e = Head(inbox[d])
    BY DEF CallTypes, Reads
  <1>2. e = inbox[d][1] /\ 1 \in DOMAIN inbox[d] /\ e \in Events
    BY <1>1, TailFacts
  <1> QED BY <1>2 DEF Coming, Heard

\* What a call went through, it keeps.
LEMMA CallKept ==
    ASSUME Effects, NEW d \in Devices, NEW c \in CallIds
    PROVE  /\ Answered(d, c) => Answered(d, c)'
           /\ IsEnded(d, c) => IsEnded(d, c)'
           /\ state[d][c] # "None" => state'[d][c] # "None"
           /\ state[d][c] \notin {"None", "Ringing"} => state'[d][c] \notin {"None", "Ringing"}
           /\ placer[c] # None => placer'[c] = placer[c]
  <1>1. /\ CallGoes(d, c)
        /\ placer'[c] = placer[c] \/ \E b \in Devices : Dialled(b, c)
    BY DEF Effects
  <1>2. placer[c] # None => placer'[c] = placer[c]
    BY <1>1 DEF Dialled
  <1>3. /\ Answered(d, c) => Answered(d, c)'
        /\ IsEnded(d, c) => IsEnded(d, c)'
        /\ state[d][c] # "None" => state'[d][c] # "None"
        /\ state[d][c] \notin {"None", "Ringing"} => state'[d][c] \notin {"None", "Ringing"}
    BY <1>1 DEF CallGoes, Dialled, Rung, Took, Accepted, Over, Answered, IsEnded
  <1> QED BY <1>2, <1>3

\* The party of who placed a call is there to stay.
LEMMA PartyKept ==
    ASSUME Effects, Roles, NEW d \in Devices, NEW c \in CallIds, placer[c] = d,
           party[d][c] # None
    PROVE  party'[d][c] = party[d][c]
  <1>1. CallGoes(d, c) /\ RolesOf(d, c)
    BY DEF Effects, Roles
  <1> QED BY <1>1 DEF CallGoes, Dialled, Rung, Took, RolesOf, DialsOwn, PlacesOwn

LEMMA RolesStep ==
    ASSUME CallTypes, Roles, AllSaid, Effects, CallTypes' PROVE Roles'
  <1> SUFFICES ASSUME NEW d \in Devices, NEW c \in CallIds PROVE RolesOf(d, c)'
    BY DEF Roles
  <1>1. /\ CallGoes(d, c) /\ RolesOf(d, c)
        /\ placer'[c] = placer[c] \/ \E b \in Devices : Dialled(b, c)
        /\ placer[c] \in Devices \cup {None}
    BY DEF Effects, Roles, CallTypes
  <1>2. d # None
    BY DevicesAssumption DEF Devices
  <1>3. placer[c] # None => placer'[c] = placer[c]
    BY CallKept
  <1>4. \A e \in Events : Reads(d, e) => Said(e)
    BY ReadsComing DEF AllSaid
  <1>5. (state[d][c] = "None" => party[d][c] = None)'
    BY <1>1 DEF CallGoes, Dialled, Rung, Took, Accepted, Over, RolesOf
  <1>6. DialsOwn(d, c)'
    BY <1>1, <1>2, <1>3
    DEF CallGoes, Dialled, Rung, Took, Accepted, Over, RolesOf, DialsOwn
  <1>7. PlacesOwn(d, c)'
    <2> SUFFICES ASSUME placer'[c] = d PROVE PlacesOwn(d, c)'
      BY DEF PlacesOwn
    <2>1. CASE placer[c] = None
      <3>1. state'[d][c] = "Dialing"
        BY <1>1, <1>2, <2>1 DEF Dialled
      <3> QED BY <3>1, <1>6 DEF PlacesOwn, DialsOwn, InCall
    <2>2. CASE placer[c] # None
      <3>1. placer[c] = d /\ PlacesOwn(d, c) /\ DialsOwn(d, c)
        BY <2>2, <1>1, <1>3 DEF RolesOf
      <3>2. state'[d][c] \notin {"None", "Ringing"} /\ (Answered(d, c) => Answered(d, c)')
        BY <3>1, CallKept DEF PlacesOwn
      <3>3. CASE party[d][c] # None
        <4>1. PICK p \in Devices : p = party[d][c]
          BY <3>3 DEF CallTypes
        <4>2. party'[d][c] = p
          BY <3>1, <3>3, <4>1, PartyKept
        <4>3. p # None /\ p # d /\ Answered(d, c) /\ Answered(p, c)
          BY <3>1, <3>3, <4>1 DEF PlacesOwn
        <4>4. Answered(p, c)'
          BY <4>3, CallKept
        <4> QED BY <3>2, <4>2, <4>3, <4>4 DEF PlacesOwn, Answered
      <3>4. CASE party[d][c] = None
        <4>1. CASE Took(d, c)
          <5>1. PICK e \in Events : /\ Reads(d, e) /\ e.kind = "answer" /\ e.call = c
                                    /\ e.from # d /\ party'[d][c] = e.from
            BY <4>1 DEF Took
          <5>2. e.from \in Devices /\ Answered(e.from, c)
            BY <5>1, <1>4 DEF Events, Said
          <5>3. Answered(e.from, c)'
            BY <5>2, CallKept
          <5>4. state'[d][c] = "Connecting" /\ e.from # None
            BY <4>1, <5>2, DevicesAssumption DEF Took, Devices
          <5> QED BY <5>1, <5>3, <5>4 DEF PlacesOwn, Answered
        <4>2. CASE ~Took(d, c)
          <5>1. party'[d][c] = None /\ ~InCall(d, c)
            BY <4>2, <3>1, <3>4, <1>1, <1>2 DEF CallGoes, Dialled, Rung, PlacesOwn
          <5>2. state'[d][c] \notin {"Connecting", "Connected"}
            BY <4>2, <5>1, <3>1, <1>1 DEF CallGoes, Dialled, Rung, Accepted, Over,
                                          PlacesOwn, InCall
          <5> QED BY <3>2, <5>1, <5>2 DEF PlacesOwn, InCall
        <4> QED BY <4>1, <4>2
      <3> QED BY <3>3, <3>4
    <2> QED BY <2>1, <2>2
  <1>8. RingsForOther(d, c)'
    <2> SUFFICES ASSUME state'[d][c] \in {"Ringing", "Connecting", "Connected"},
                        placer'[c] # d
                 PROVE  /\ placer'[c] # None /\ party'[d][c] = placer'[c]
                        /\ ~SameUser(d, placer'[c])
      BY DEF RingsForOther
    <2>1. placer[c] # d
      BY <1>2, <1>3
    <2>2. CASE Rung(d, c)
      <3>1. PICK e \in Events : /\ Reads(d, e) /\ e.kind = "invite" /\ e.call = c
                                /\ party'[d][c] = e.from /\ ~SameUser(d, e.from)
        BY <2>2 DEF Rung
      <3>2. placer[c] # None /\ e.from = placer[c]
        BY <3>1, <1>4 DEF Said
      <3> QED BY <3>1, <3>2, <1>3
    <2>3. CASE ~Rung(d, c)
      <3>1. /\ state[d][c] \in {"Ringing", "Connecting", "Connected"}
            /\ party'[d][c] = party[d][c]
        BY <2>1, <2>3, <1>1 DEF CallGoes, Dialled, Took, Accepted, Over
      <3> QED BY <3>1, <2>1, <1>1, <1>3 DEF RolesOf, RingsForOther
    <2> QED BY <2>2, <2>3
  <1> QED BY <1>5, <1>6, <1>7, <1>8 DEF RolesOf

LEMMA SaidStep ==
    ASSUME CallTypes, Roles, AllSaid, Effects, CallTypes', Roles', [Next]_vars
    PROVE  AllSaid'
  <1> SUFFICES ASSUME NEW d \in Devices, NEW e \in Coming(d)' PROVE Said(e)'
    BY DEF AllSaid
  <1>1. e \in Coming(d) \/ e \in outbox' \ outbox
    BY ComingFrom
  <1>2. e.call \in CallIds /\ e.from \in Devices
    <2>1. e \in Events
      BY <1>1, ComingTyped DEF CallTypes
    <2> QED BY <2>1 DEF Events
  <1>3. CASE e \in Coming(d)
    <2>1. Said(e)
      BY <1>3 DEF AllSaid
    <2>2. /\ Answered(e.from, e.call) => Answered(e.from, e.call)'
          /\ IsEnded(e.from, e.call) => IsEnded(e.from, e.call)'
          /\ placer'[e.call] = placer[e.call]
      BY <1>2, <2>1, CallKept DEF Said
    <2>3. e.kind = "select" => e.selected = party'[e.from][e.call]
      BY <1>2, <2>1, PartyKept DEF Said
    <2> QED BY <2>1, <2>2, <2>3 DEF Said
  <1>4. CASE e \in outbox' \ outbox
    <2>1. Originates(e) /\ RolesOf(e.from, e.call) /\ RolesOf(e.from, e.call)'
      BY <1>2, <1>4 DEF Effects, Roles
    <2>2. placer'[e.call] # None
      BY <2>1 DEF Originates
    <2>3. e.kind = "invite" => e.from = placer'[e.call]
      BY <2>1 DEF Originates, Dialled
    <2>4. ASSUME e.kind \in {"answer", "reject"} PROVE e.from # placer'[e.call]
      <3>1. state[e.from][e.call] = "Ringing"
        BY <2>1, <2>4 DEF Originates, Accepted
      <3>2. placer[e.call] # e.from
        BY <3>1, <2>1 DEF RolesOf, PlacesOwn
      <3>3. placer[e.call] # None
        BY <3>1, <3>2, <2>1 DEF RolesOf, RingsForOther
      <3> QED BY <3>2, <3>3, <1>2, CallKept
    <2>5. e.kind = "answer" => Answered(e.from, e.call)'
      BY <2>1 DEF Originates, Accepted, Answered
    <2>6. e.kind \in {"reject", "hangup", "busy"} => IsEnded(e.from, e.call)'
      BY <2>1 DEF Originates, IsEnded
    <2>7. ASSUME e.kind = "select"
          PROVE  /\ e.from = placer'[e.call] /\ e.selected # None
                 /\ e.selected = party'[e.from][e.call]
      <3>1. Took(e.from, e.call) /\ e.selected = party'[e.from][e.call]
        BY <2>1, <2>7 DEF Originates
      <3>2. placer[e.call] = e.from /\ e.from # None
        BY <3>1, <1>2, DevicesAssumption DEF Took, Devices
      <3>3. placer'[e.call] = e.from /\ state'[e.from][e.call] = "Connecting"
        BY <3>1, <3>2, <1>2, CallKept DEF Took
      <3> QED BY <3>1, <3>3, <2>1 DEF RolesOf, PlacesOwn, InCall
    <2> QED BY <2>2, <2>3, <2>4, <2>5, <2>6, <2>7 DEF Said
  <1> QED BY <1>1, <1>3, <1>4

-------------------------------------------------------------------------------
(* What each end may count on while nothing is lost *)

\* An event of that kind, about that call, is on its way from x to d.
Says(d, k, c, x) == \E e \in Coming(d) : e.kind = k /\ e.call = c /\ e.from = x

\* The other user of a call that is dialled is yet to be invited, or knows the
\* call, or placed one that went before it in glare.
Invited ==
    \A d, e \in Devices, c \in CallIds :
        state[d][c] = "Dialing" /\ ~SameUser(d, e) =>
            \/ Says(e, "invite", c, d) \/ state[e][c] # "None"
            \/ \E a \in CallIds : a < c /\ placer[a] = e

\* A call somebody rejected is over for who placed it, or will be.
Rejected ==
    \A d, p \in Devices : \A e \in Coming(d) :
        e.kind = "reject" /\ placer[e.call] = p =>
            IsEnded(p, e.call) \/ Says(p, "reject", e.call, e.from)

\* A device whose answer was taken, or may still be, is in the call, or what
\* ends the call is on its way to who placed it.
Taken ==
    \A c \in CallIds, d, p \in Devices :
        /\ placer[c] = d /\ ~IsEnded(d, c) /\ party[d][c] \in {None, p}
        /\ party[d][c] = p \/ Says(d, "answer", c, p)
        => \/ InCall(p, c) \/ Says(d, "hangup", c, p)
           \/ \E x \in Devices \ {d} : Says(d, "reject", c, x)

\* A device whose answer was not taken has ended the call, or will be told to,
\* after it was invited, or never gets to know it.
Selects(e, c) == e.kind = "select" /\ e.call = c

DismissedIn(line, c) ==
    \E i \in DOMAIN line :
        /\ Selects(line[i], c)
        /\ \A j \in DOMAIN line : line[j].kind = "invite" /\ line[j].call = c => j < i

Dismissed ==
    \A c \in CallIds, d, e \in Devices :
        placer[c] = d /\ party[d][c] # None /\ e \notin {d, party[d][c]} =>
            \/ IsEnded(e, c)
            \/ \E s \in outbox : Selects(s, c)
            \/ DismissedIn(inbox[e], c)
            \/ state[e][c] = "None" /\ c \notin Rings(inbox[e])

Tale == Still => Invited /\ Rejected /\ Taken /\ Dismissed

\* What all of these rest on.
Ground == IInv /\ AtMostOneCall /\ NoneUntold /\ Roles /\ AllSaid

LEMMA SaysKept ==
    ASSUME Ground, [Next]_vars, Still', NEW d \in Devices, NEW k, NEW c, NEW x,
           x # d, Says(d, k, c, x)
    PROVE  \/ Says(d, k, c, x)'
           \/ /\ HandleSignal(d)
              /\ \E e \in Events : /\ Reads(d, e) /\ e \in Coming(d)
                                   /\ e.kind = k /\ e.call = c /\ e.from = x
  <1>1. PICK e \in Coming(d) : e.kind = k /\ e.call = c /\ e.from = x
    BY DEF Says
  <1>2. e \in Coming(d)' \/ (HandleSignal(d) /\ Reads(d, e))
    BY <1>1, ComingKept DEF Ground, IInv
  <1>3. e \in Events
    BY ComingTyped DEF Ground, IInv
  <1> QED BY <1>1, <1>2, <1>3 DEF Says

LEMMA SaysSent ==
    ASSUME NEW d \in Devices, NEW e \in outbox'
    PROVE  Says(d, e.kind, e.call, e.from)'
  BY DEF Says, Coming

\* An event that makes a device end the call, when the device placed it.
LEMMA PlacerTold ==
    ASSUME Ground, NEW d \in Devices, NEW e \in Events, HandleSignal(d), Reads(d, e),
           EndedBy(d, e), placer[e.call] = d
    PROVE  IsEnded(d, e.call)'
  <1>1. e.call \in CallIds /\ Effects /\ Told(d, e)
    BY SignalEffects DEF Ground, Reads, Events
  <1>2. active[d] = e.call \/ IsEnded(d, e.call)
    BY <1>1 DEF Ground, AtMostOneCall, Roles, RolesOf, PlacesOwn, IsEnded
  <1>3. IsEnded(d, e.call) => IsEnded(d, e.call)'
    BY <1>1, CallKept
  <1>4. active[d] = e.call => IsEnded(d, e.call)'
    BY <1>1 DEF Told, IsEnded
  <1> QED BY <1>2, <1>3, <1>4

LEMMA InvitedStep ==
    ASSUME Ground, Invited, [Next]_vars, Effects, Still' PROVE Invited'
  <1> SUFFICES ASSUME NEW d \in Devices, NEW e \in Devices, NEW c \in CallIds,
                      state'[d][c] = "Dialing", ~SameUser(d, e)
               PROVE  \/ Says(e, "invite", c, d)' \/ state'[e][c] # "None"
                      \/ \E a \in CallIds : a < c /\ placer'[a] = e
    BY DEF Invited
  <1>1. state[d][c] = "Dialing" \/ Dialled(d, c)
    BY DEF Effects, CallGoes, Rung, Took, Accepted, Over
  <1>2. CASE Dialled(d, c)
    <2> DEFINE new == Event("invite", c, d)
    <2>1. new \in outbox' /\ new.kind = "invite" /\ new.call = c /\ new.from = d
      BY <1>2 DEF Dialled, Event
    <2> HIDE DEF new
    <2> QED BY <2>1 DEF Says, Coming
  <1>3. CASE state[d][c] = "Dialing"
    <2>1. placer[c] = d /\ d # e /\ e # None
      <3>1. SameUser(d, d)
        BY DEF SameUser, Devices
      <3> QED BY <1>3, <3>1, DevicesAssumption DEF Ground, Roles, RolesOf, DialsOwn, Devices
    <2>2. \/ Says(e, "invite", c, d) \/ state[e][c] # "None"
          \/ \E a \in CallIds : a < c /\ placer[a] = e
      BY <1>3 DEF Invited
    <2>3. CASE state[e][c] # "None"
      BY <2>3, CallKept
    <2>4. CASE \E a \in CallIds : a < c /\ placer[a] = e
      BY <2>1, <2>4, CallKept
    <2>5. ASSUME NEW f \in Events, HandleSignal(e), Reads(e, f),
                 f.kind = "invite", f.call = c, f.from = d
          PROVE  state'[e][c] # "None" \/ \E a \in CallIds : a < c /\ placer'[a] = e
      <3>1. Told(e, f)
        BY <2>5, SignalEffects DEF Ground, Reads
      <3>2. \/ state'[e][c] # "None"
            \/ placer[active[e]] = e /\ active[e] \in CallIds /\ ~(c < active[e])
        BY <3>1, <2>5, <1>3 DEF Told, SameUser
      <3>3. ASSUME placer[active[e]] = e, active[e] \in CallIds, ~(c < active[e])
            PROVE  active[e] < c /\ placer'[active[e]] = e
        <4>1. active[e] # c /\ active[e] \in Nat /\ c \in Nat
          BY <2>1, <3>3, IdsAssumption
        <4>2. active[e] < c
          BY <3>3, <4>1
        <4>3. placer'[active[e]] = placer[active[e]]
          BY <2>1, <3>3, CallKept
        <4> QED BY <3>3, <4>2, <4>3
      <3> QED BY <3>2, <3>3
    <2>6. CASE Says(e, "invite", c, d)
      BY <2>1, <2>5, <2>6, SaysKept
    <2> QED BY <2>2, <2>3, <2>4, <2>6
  <1> QED BY <1>1, <1>2, <1>3

LEMMA RejectedStep ==
    ASSUME Ground, Rejected, [Next]_vars, Effects, Still', IInv' PROVE Rejected'
  <1> SUFFICES ASSUME NEW d \in Devices, NEW p \in Devices, NEW e \in Coming(d)',
                      e.kind = "reject", placer'[e.call] = p
               PROVE  IsEnded(p, e.call)' \/ Says(p, "reject", e.call, e.from)'
    BY DEF Rejected
  <1>1. e \in Events
    BY ComingFrom, ComingTyped DEF Ground, IInv, CallTypes
  <1>2. CASE e \in outbox'
    BY <1>2, SaysSent
  <1>3. CASE e \in Coming(d)
    <2>1. Said(e) /\ e.call \in CallIds
      BY <1>1, <1>3 DEF Ground, AllSaid, Events
    <2>2. placer[e.call] = p /\ e.from # p
      BY <2>1, CallKept DEF Said
    <2>3. IsEnded(p, e.call) \/ Says(p, "reject", e.call, e.from)
      BY <1>3, <2>2 DEF Rejected
    <2>4. ASSUME NEW f \in Events, HandleSignal(p), Reads(p, f), f.kind = "reject",
                 f.call = e.call, f.from = e.from
          PROVE  IsEnded(p, e.call)'
      BY <2>2, <2>4, PlacerTold DEF EndedBy
    <2> QED BY <2>1, <2>2, <2>3, <2>4, SaysKept, CallKept
  <1> QED BY <1>2, <1>3, ComingFrom DEF Ground, IInv

LEMMA TakenStep ==
    ASSUME Ground, Rejected, Taken, [Next]_vars, Effects, Still', Roles'
    PROVE  Taken'
  <1> SUFFICES ASSUME NEW c \in CallIds, NEW d \in Devices, NEW p \in Devices,
                      placer'[c] = d, ~IsEnded(d, c)', party'[d][c] \in {None, p},
                      party'[d][c] = p \/ Says(d, "answer", c, p)'
               PROVE  \/ InCall(p, c)' \/ Says(d, "hangup", c, p)'
                      \/ \E x \in Devices \ {d} : Says(d, "reject", c, x)'
    BY DEF Taken
  <1>1. d # None /\ p # None /\ untold = {} /\ CallTypes
    BY DevicesAssumption, StillBefore DEF Devices, Ground, IInv
  <1>2. \A e \in Coming(d) \cup Coming(p) : Said(e) /\ e \in Events
    BY ComingTyped DEF Ground, IInv, AllSaid
  <1>3. ASSUME Says(d, "answer", c, p)'
        PROVE  Says(d, "answer", c, p) \/ Accepted(p, c)
    <2>1. PICK e \in Coming(d)' : e.kind = "answer" /\ e.call = c /\ e.from = p
      BY <1>3 DEF Says
    <2>2. e \in Coming(d) \/ e \in outbox' \ outbox
      BY <1>1, ComingFrom
    <2>3. CASE e \in Coming(d)
      BY <2>1, <2>3 DEF Says
    <2>4. CASE e \in outbox' \ outbox
      BY <2>1, <2>4 DEF Effects, Originates
    <2> QED BY <2>2, <2>3, <2>4
  <1>4. placer[c] = d
    <2> SUFFICES ASSUME placer[c] = None PROVE FALSE
      BY CallKept
    <2>1. PICK b \in Devices : Dialled(b, c)
      BY <1>1 DEF Effects
    <2>2. party'[d][c] = None
      BY <2>1 DEF Dialled, Roles, RolesOf, DialsOwn
    <2>3. Says(d, "answer", c, p) => placer[c] # None
      BY <1>2 DEF Says, Said
    <2>4. Accepted(p, c) => placer[c] # None
      BY KnownIsPlaced DEF Accepted, Ground
    <2> QED BY <1>1, <1>3, <2>2, <2>3, <2>4
  <1>5. ~IsEnded(d, c) /\ party[d][c] \in {None, p}
    BY <1>4, CallKept, PartyKept DEF Ground
  <1>6. CASE Accepted(p, c)
    BY <1>6 DEF Accepted, InCall
  <1>7. CASE ~Accepted(p, c)
    <2>1. party[d][c] = p \/ Says(d, "answer", c, p)
      <3> SUFFICES ASSUME party'[d][c] = p, party[d][c] = None
                   PROVE  Says(d, "answer", c, p)
        BY <1>3, <1>5, <1>7
      <3>1. Took(d, c)
        BY <1>1, <1>4 DEF Effects, CallGoes, Dialled, Rung, Ground, Roles, RolesOf,
                          PlacesOwn
      <3> QED BY <1>1, <3>1, ReadsComing DEF Took, Says
    <2>2. p # d
      <3>1. Says(d, "answer", c, p) => p # d
        BY <1>2, <1>4 DEF Says, Said
      <3> QED BY <1>1, <1>4, <2>1, <3>1 DEF Ground, Roles, RolesOf, PlacesOwn
    <2>3. \/ InCall(p, c) \/ Says(d, "hangup", c, p)
          \/ \E x \in Devices \ {d} : Says(d, "reject", c, x)
      BY <1>4, <1>5, <2>1 DEF Taken
    <2>4. ASSUME NEW e \in Events, HandleSignal(d), Reads(d, e), e.call = c,
                 e.from # d, e.kind = "reject" \/ (e.kind = "hangup" /\ e.from = p)
          PROVE  FALSE
      <3>1. EndedBy(d, e)
        BY <1>5, <2>4 DEF EndedBy, IsRemoteParty
      <3> QED BY <1>4, <2>4, <3>1, PlacerTold
    <2>5. ASSUME NEW x \in Devices \ {d}, Says(d, "reject", c, x)
          PROVE  Says(d, "reject", c, x)'
      BY <2>4, <2>5, SaysKept
    <2>6. Says(d, "hangup", c, p) => Says(d, "hangup", c, p)'
      BY <2>2, <2>4, SaysKept
    <2>7. CASE InCall(p, c) /\ ~Over(p, c)
      BY <2>7 DEF Effects, CallGoes, Dialled, Rung, Took, Accepted, InCall
    <2>8. CASE InCall(p, c) /\ Over(p, c)
      <3>1. \/ Event("hangup", c, p) \in outbox'
            \/ \E e \in Events : Reads(p, e) /\ e.call = c /\ EndedBy(p, e)
        BY <1>1, <2>8 DEF Over, InCall
      <3>2. CASE Event("hangup", c, p) \in outbox'
        <4> DEFINE bye == Event("hangup", c, p)
        <4>1. bye \in outbox' /\ bye.kind = "hangup" /\ bye.call = c /\ bye.from = p
          BY <3>2 DEF Event
        <4> HIDE DEF bye
        <4> QED BY <4>1 DEF Says, Coming
      <3>3. ASSUME NEW e \in Events, Reads(p, e), e.call = c, EndedBy(p, e)
            PROVE  \E x \in Devices \ {d} : Says(d, "reject", c, x)
        <4>1. e \in Coming(p) /\ Said(e) /\ e.from \in Devices
          BY <1>1, <1>2, <3>3, ReadsComing DEF Events
        <4>2. e.kind # "select"
          BY <1>4, <1>5, <3>3, <4>1 DEF EndedBy, Said
        <4>3. e.kind \notin {"hangup", "busy"}
          <5>1. party[p][c] = d
            BY <1>4, <2>2, <2>8 DEF Ground, Roles, RolesOf, RingsForOther, InCall
          <5> QED BY <1>1, <1>5, <3>3, <4>1, <5>1 DEF EndedBy, IsRemoteParty, Said
        <4>4. e.kind = "reject" /\ e.from # d
          BY <1>4, <3>3, <4>1, <4>2, <4>3 DEF EndedBy, Said
        <4> QED BY <1>4, <1>5, <3>3, <4>1, <4>4 DEF Rejected
      <3> QED BY <3>1, <3>2, <3>3, <2>5
    <2> QED BY <2>3, <2>5, <2>6, <2>7, <2>8
  <1> QED BY <1>6, <1>7

\* A selection stays the last word on a call, as its line grows and is read.
LEMMA TailDismissed ==
    ASSUME NEW line \in Seq(Events), line # <<>>, NEW c, DismissedIn(line, c)
    PROVE  \/ Selects(Head(line), c) /\ c \notin Rings(Tail(line))
           \/ DismissedIn(Tail(line), c)
  <1>1. /\ Len(line) \in Nat \ {0} /\ DOMAIN line = 1..Len(line)
        /\ Head(line) = line[1] /\ DOMAIN Tail(line) = 1..(Len(line) - 1)
        /\ \A i \in 1..(Len(line) - 1) : Tail(line)[i] = line[i + 1]
    BY HeadTailProperties, LenProperties, EmptySeq
  <1>2. PICK i \in DOMAIN line :
            /\ Selects(line[i], c)
            /\ \A j \in DOMAIN line :
                  line[j].kind = "invite" /\ line[j].call = c => j < i
    BY DEF DismissedIn
  <1>3. \A j \in DOMAIN Tail(line) :
            /\ Tail(line)[j].kind = "invite" /\ Tail(line)[j].call = c => j + 1 < i
            /\ j \in Nat /\ j > 0
    BY <1>1, <1>2
  <1>4. CASE i = 1
    <2>1. c \notin Rings(Tail(line))
      BY <1>3, <1>4 DEF Rings
    <2> QED BY <1>1, <1>2, <1>4, <2>1
  <1>5. CASE i # 1
    <2>1. i - 1 \in DOMAIN Tail(line) /\ Tail(line)[i - 1] = line[i] /\ i \in Nat
      BY <1>1, <1>5
    <2>2. \A j \in DOMAIN Tail(line) :
              Tail(line)[j].kind = "invite" /\ Tail(line)[j].call = c => j < i - 1
      BY <1>3, <2>1
    <2> QED BY <1>2, <2>1, <2>2 DEF DismissedIn
  <1> QED BY <1>4, <1>5

LEMMA AppendDismissed ==
    ASSUME NEW line \in Seq(Events), NEW e \in Events, NEW c,
           Selects(e, c) \/ DismissedIn(line, c),
           ~(e.kind = "invite" /\ e.call = c)
    PROVE  DismissedIn(Append(line, e), c)
  <1> DEFINE longer == Append(line, e)
  <1>1. /\ Len(line) \in Nat
        /\ DOMAIN line = 1..Len(line) /\ DOMAIN longer = 1..(Len(line) + 1)
        /\ \A i \in 1..Len(line) : longer[i] = line[i]
        /\ longer[Len(line) + 1] = e
    BY AppendProperties, LenProperties
  <1> HIDE DEF longer
  <1>2. \A j \in DOMAIN longer :
            longer[j].kind = "invite" /\ longer[j].call = c =>
                j \in DOMAIN line /\ line[j].kind = "invite" /\ line[j].call = c
    BY <1>1
  <1>3. CASE Selects(e, c)
    <2>1. Len(line) + 1 \in DOMAIN longer /\ Selects(longer[Len(line) + 1], c)
      BY <1>1, <1>3
    <2>2. \A j \in DOMAIN line : j < Len(line) + 1
      BY <1>1
    <2>3. DismissedIn(longer, c)
      BY <1>2, <2>1, <2>2 DEF DismissedIn
    <2> QED BY <2>3 DEF longer
  <1>4. CASE DismissedIn(line, c)
    <2>1. PICK i \in DOMAIN line :
              /\ Selects(line[i], c)
              /\ \A j \in DOMAIN line :
                    line[j].kind = "invite" /\ line[j].call = c => j < i
      BY <1>4 DEF DismissedIn
    <2>2. i \in DOMAIN longer /\ longer[i] = line[i]
      BY <1>1
    <2>3. DismissedIn(longer, c)
      BY <1>2, <2>1, <2>2 DEF DismissedIn
    <2> QED BY <2>3 DEF longer
  <1> QED BY <1>3, <1>4

\* Who was not taken, and is told so, has the call over, or does not know it.
LEMMA DismissedTold ==
    ASSUME Ground, [Next]_vars, Effects, NEW e \in Devices, NEW f \in Events,
           HandleSignal(e), Reads(e, f), f.kind = "select", placer[f.call] # e,
           f.selected # e
    PROVE  IsEnded(e, f.call)' \/ state'[e][f.call] = "None"
  <1> DEFINE c == f.call
  <1>1. /\ c \in CallIds /\ Told(e, f) /\ RolesOf(e, c) /\ Said(f)
        /\ state[e][c] \in CallStates /\ CallGoes(e, c)
    <2>1. CallTypes
      BY DEF Ground, IInv
    <2>2. f \in Coming(e)
      BY <2>1, ReadsComing
    <2> QED BY <2>1, <2>2, SignalEffects
            DEF Ground, Reads, Events, Roles, AllSaid, Effects, CallTypes
  <1>2. c = f.call
    OBVIOUS
  <1> HIDE DEF c
  <1>3. CASE state[e][c] = "None"
    <2>1. ~Rung(e, c) /\ ~Dialled(e, c)
      BY <1>1, <1>2 DEF Rung, Dialled, Reads, Said
    <2> QED BY <1>1, <1>2, <1>3, <2>1 DEF CallGoes, Took, Accepted, Over
  <1>4. CASE IsEnded(e, c)
    BY <1>1, <1>2, <1>4, CallKept
  <1>5. CASE state[e][c] \notin {"None", "Ended"}
    <2>1. active[e] = c
      BY <1>1, <1>5 DEF Ground, AtMostOneCall
    <2>2. f.from = placer[c] /\ ~SameUser(e, placer[c])
      BY <1>1, <1>2, <1>5 DEF RolesOf, DialsOwn, RingsForOther, Said, CallStates
    <2>3. EndedBy(e, f)
      BY <1>2, <2>2 DEF EndedBy, IsOutgoing
    <2> QED BY <1>1, <1>2, <2>1, <2>3 DEF Told, IsEnded
  <1> QED BY <1>3, <1>4, <1>5 DEF IsEnded

LEMMA DismissedStep ==
    ASSUME Ground, Dismissed, [Next]_vars, Effects, Still', Roles'
    PROVE  Dismissed'
  <1> SUFFICES ASSUME NEW c \in CallIds, NEW d \in Devices, NEW e \in Devices,
                      placer'[c] = d, party'[d][c] # None,
                      e \notin {d, party'[d][c]}
               PROVE  \/ IsEnded(e, c)'
                      \/ \E s \in outbox' : Selects(s, c)
                      \/ DismissedIn(inbox'[e], c)
                      \/ state'[e][c] = "None" /\ c \notin Rings(inbox'[e])
    BY DEF Dismissed
  <1>1. /\ d # None /\ gone = {} /\ CallTypes /\ (\A s \in outbox : ~FailToSend(s))
        /\ Effects /\ RolesOf(d, c)
    BY DevicesAssumption, StillBefore DEF Devices, Ground, IInv, Still, Roles
  <1>2. placer[c] = d
    <2> SUFFICES ASSUME placer[c] = None PROVE FALSE
      BY CallKept
    <2>1. PICK b \in Devices : Dialled(b, c)
      BY <1>1 DEF Effects
    <2> QED BY <2>1 DEF Dialled, Roles, RolesOf, DialsOwn
  <1>3. CASE party[d][c] = None
    <2>1. Took(d, c)
      BY <1>1, <1>2, <1>3 DEF Effects, CallGoes, Dialled, Rung, RolesOf, PlacesOwn
    <2>2. PICK p : Select(c, d, p) \in outbox'
      BY <2>1 DEF Took
    <2>3. Selects(Select(c, d, p), c)
      BY DEF Selects, Select
    <2> QED BY <2>2, <2>3
  <1>4. CASE party[d][c] # None
    <2>1. PICK p \in Devices : p = party[d][c]
      BY <1>1, <1>4 DEF CallTypes
    <2>2. party'[d][c] = p /\ e \notin {d, p} /\ p # d /\ Answered(p, c)
      BY <1>1, <1>2, <1>4, <2>1, PartyKept DEF Ground, RolesOf, PlacesOwn
    <2>3. \/ IsEnded(e, c)
          \/ \E s \in outbox : Selects(s, c)
          \/ DismissedIn(inbox[e], c)
          \/ state[e][c] = "None" /\ c \notin Rings(inbox[e])
      BY <1>2, <1>4, <2>1, <2>2 DEF Dismissed
    <2>4. IsEnded(e, c) => IsEnded(e, c)'
      BY CallKept
    <2>5. ASSUME NEW f \in outbox, f.kind = "invite" PROVE f.call # c
      <3> SUFFICES ASSUME f.call = c PROVE FALSE
        OBVIOUS
      <3>1. f.from = d /\ (\A b \in Devices \ {f.from} : state[b][c] = "None")
        BY <1>2, <2>5 DEF Ground, IInv, Fresh
      <3> QED BY <2>2, <3>1 DEF Answered
    <2>6. inbox[e] \in Seq(Events)
      BY <1>1 DEF CallTypes
    <2>7. ASSUME state[e][c] = "None", c \notin Rings(inbox[e])
          PROVE  state'[e][c] = "None"
      <3>1. ~Rung(e, c)
        BY <2>6, <2>7, TailFacts DEF Rung, Reads, Rings
      <3>2. ~Dialled(e, c)
        BY <1>1, <1>2 DEF Dialled
      <3> QED BY <2>7, <3>1, <3>2 DEF Effects, CallGoes, Took, Accepted, Over
    <2>8. CASE inbox'[e] = inbox[e] /\ outbox \subseteq outbox'
      BY <2>3, <2>4, <2>7, <2>8
    <2>9. ASSUME HandleSignal(e)
          PROVE  \/ IsEnded(e, c)'
                 \/ \E s \in outbox' : Selects(s, c)
                 \/ DismissedIn(inbox'[e], c)
                 \/ state'[e][c] = "None" /\ c \notin Rings(inbox'[e])
      <3>1. /\ inbox[e] # <<>> /\ inbox'[e] = Tail(inbox[e])
            /\ outbox \subseteq outbox'
        BY <1>1, <2>9, SignalLines
      <3>2. CASE state[e][c] = "None" /\ c \notin Rings(inbox[e])
        <4>1. Rings(Tail(inbox[e])) \subseteq Rings(inbox[e])
          BY <2>6, <3>1, TailRings DEF Ground, IInv, Fresh
        <4> QED BY <2>7, <3>1, <3>2, <4>1
      <3>3. CASE DismissedIn(inbox[e], c)
        <4>1. CASE DismissedIn(Tail(inbox[e]), c)
          BY <3>1, <4>1
        <4>2. CASE Selects(Head(inbox[e]), c) /\ c \notin Rings(Tail(inbox[e]))
          <5> DEFINE f == Head(inbox[e])
          <5>1. Reads(e, f) /\ f.kind = "select" /\ f.call = c
            BY <3>1, <4>2 DEF Reads, Selects
          <5> HIDE DEF f
          <5>2. f \in Events /\ Said(f)
            BY <1>1, <5>1, ReadsComing DEF Ground, AllSaid
          <5>3. f.selected # e /\ placer[c] # e
            BY <1>2, <2>1, <2>2, <5>1, <5>2 DEF Said
          <5>4. IsEnded(e, c)' \/ state'[e][c] = "None"
            BY <2>9, <5>1, <5>2, <5>3, DismissedTold
          <5> QED BY <3>1, <4>2, <5>4
        <4> QED BY <2>6, <3>1, <3>3, <4>1, <4>2, TailDismissed
      <3> QED BY <2>3, <2>4, <3>1, <3>2, <3>3
    <2>10. ASSUME NEW f \in outbox, Send(f)
           PROVE  \/ IsEnded(e, c)'
                  \/ \E s \in outbox' : Selects(s, c)
                  \/ DismissedIn(inbox'[e], c)
                  \/ state'[e][c] = "None" /\ c \notin Rings(inbox'[e])
      <3>1. /\ f \in Events /\ outbox' = outbox \ {f}
            /\ inbox'[e] = IF e = f.from THEN inbox[e] ELSE Append(inbox[e], f)
        BY <1>1, <2>10, SendLines
      <3>2. ~(f.kind = "invite" /\ f.call = c)
        BY <2>5
      <3>3. CASE Selects(f, c)
        <4>1. Said(f)
          BY DEF Ground, AllSaid, Coming
        <4>2. f.from = d
          BY <1>2, <3>3, <4>1 DEF Said, Selects
        <4>3. inbox'[e] = Append(inbox[e], f)
          BY <2>2, <3>1, <4>2
        <4> QED BY <2>6, <3>1, <3>2, <3>3, <4>3, AppendDismissed
      <3>4. CASE ~Selects(f, c)
        <4>1. (\E s \in outbox : Selects(s, c)) => \E s \in outbox' : Selects(s, c)
          BY <3>1, <3>4
        <4>2. DismissedIn(inbox[e], c) => DismissedIn(inbox'[e], c)
          BY <2>6, <3>1, <3>2, AppendDismissed
        <4>3. c \notin Rings(inbox[e]) => c \notin Rings(inbox'[e])
          <5>1. /\ Once(inbox[e])
                /\ f.kind = "invite" /\ e # f.from => f.call \notin Rings(inbox[e])
            BY DEF Ground, IInv, Fresh
          <5>2. CASE e = f.from
            BY <3>1, <5>2
          <5>3. CASE e # f.from
            <6>1. \A a \in Rings(Append(inbox[e], f)) :
                      a \in Rings(inbox[e]) \/ (f.kind = "invite" /\ a = f.call)
              BY <2>6, <3>1, <5>1, <5>3, AppendRings
            <6> QED BY <3>1, <3>2, <5>3, <6>1
          <5> QED BY <5>2, <5>3
        <4> QED BY <2>3, <2>4, <2>7, <4>1, <4>2, <4>3
      <3> QED BY <3>3, <3>4
    <2>11. ASSUME NEW b \in Devices, b # e, HandleSignal(b)
           PROVE  inbox'[e] = inbox[e] /\ outbox \subseteq outbox'
      BY <1>1, <2>11, SignalLines
    <2> QED BY <1>1, <2>8, <2>9, <2>10, <2>11, LineSteps
  <1> QED BY <1>3, <1>4

-------------------------------------------------------------------------------
LEMMA UntoldStep ==
    /\ Init => NoneUntold
    /\ NoneUntold /\ [Next]_vars => NoneUntold'
  <1>1. Init => NoneUntold
    BY DEF Init, NoneUntold
  <1>2. ASSUME NoneUntold, [Next]_vars PROVE NoneUntold'
    <2>1. CASE UNCHANGED members
      BY <1>2, <2>1 DEF NoneUntold, members
    <2>2. ASSUME NEW user \in {Alice, Bob}, Leave(user) PROVE NoneUntold'
      BY <2>2, DevicesAssumption DEF Leave, NoneUntold
    <2>3. ASSUME NEW d \in Devices, HandleMemberLeft(d) PROVE NoneUntold'
      BY <1>2, <2>3 DEF HandleMemberLeft, NoneUntold
    <2> QED BY <1>2, <2>1, <2>2, <2>3, MembersMove
  <1> QED BY <1>1, <1>2

LEMMA InitTale == Init => Roles /\ AllSaid /\ Tale
  <1> SUFFICES ASSUME Init PROVE Roles /\ AllSaid /\ Tale
    OBVIOUS
  <1>1. /\ \A d \in Devices, c \in CallIds : state[d][c] = "None" /\ party[d][c] = None
        /\ \A c \in CallIds : placer[c] = None
        /\ \A d \in Devices : Coming(d) = {}
    BY DEF Init, Coming, Heard
  <1>2. \A d \in Devices : d # None
    BY DevicesAssumption DEF Devices
  <1>3. Roles
    BY <1>1, <1>2 DEF Roles, RolesOf, DialsOwn, PlacesOwn, RingsForOther
  <1>4. AllSaid /\ Rejected
    BY <1>1 DEF AllSaid, Rejected
  <1>5. Invited
    BY <1>1 DEF Invited
  <1>6. Taken /\ Dismissed
    BY <1>1, <1>2 DEF Taken, Dismissed
  <1> QED BY <1>3, <1>4, <1>5, <1>6 DEF Tale

LEMMA TaleStep ==
    ASSUME Ground, Tale, [Next]_vars, IInv', AtMostOneCall'
    PROVE  Ground' /\ Tale'
  <1>1. Effects
    BY StepEffects DEF Ground
  <1>2. Roles'
    BY <1>1, RolesStep DEF Ground, IInv
  <1>3. AllSaid'
    BY <1>1, <1>2, SaidStep DEF Ground, IInv
  <1>4. Ground'
    BY <1>2, <1>3, UntoldStep DEF Ground
  <1>5. ASSUME Still' PROVE Invited' /\ Rejected' /\ Taken' /\ Dismissed'
    <2>1. Invited /\ Rejected /\ Taken /\ Dismissed
      BY <1>5, StillBefore DEF Ground, IInv, Tale
    <2> QED BY <1>1, <1>2, <1>5, <2>1,
               InvitedStep, RejectedStep, TakenStep, DismissedStep
  <1> QED BY <1>4, <1>5 DEF Tale

LEMMA TaleHolds == ASSUME ~Suspends PROVE Spec => [](Ground /\ Tale)
  <1>1. Init => Ground /\ Tale
    BY InitIInv, InitTale, UntoldStep DEF Ground, Init, AtMostOneCall
  <1>2. Ground /\ Tale /\ IInv' /\ AtMostOneCall' /\ [Next]_vars => Ground' /\ Tale'
    BY TaleStep
  <1>3. IInv /\ [Next]_vars => IInv'
    BY StepIInv
  <1> QED BY <1>1, <1>2, <1>3, InitIInv, OneCall, PTL DEF Spec

LEMMA NothingComing ==
    ASSUME Settled, NEW d \in Devices PROVE Coming(d) = {} /\ Still /\ Rings(inbox[d]) = {}
  <1>1. inbox[d] = <<>> /\ outbox = {}
    BY DEF Settled
  <1> QED BY <1>1 DEF Settled, Still, Coming, Heard, Rings

\* Where place() finds what it awaits already there and nothing is lost, glare
\* settles for any devices and any number of calls: if both users still dial once
\* everything has arrived, then the one whose call loses had an earlier call that
\* won, for which it ignored the other's invite, and gave that call up since.
THEOREM GlareSettled == ASSUME ~Suspends PROVE Spec => []GlareSettles
  <1>1. ASSUME Ground, Tale PROVE GlareSettles
    <2> SUFFICES ASSUME Settled, NEW d \in Devices, NEW e \in Devices,
                        NEW c \in CallIds, NEW b \in CallIds,
                        c <= b, ~SameUser(d, e),
                        state[d][c] = "Dialing", state[e][b] = "Dialing",
                        ~IsEnded(e, c)
                 PROVE  \E a \in CallIds : a < c /\ IsOutgoing(e, a) /\ IsEnded(e, a)
      BY DEF GlareSettles
    <2>1. /\ placer[c] = d /\ placer[b] = e /\ active[e] = b
          /\ \A a \in CallIds : active[e] = a \/ state[e][a] \in {"None", "Ended"}
      BY <1>1 DEF Ground, Roles, RolesOf, DialsOwn, AtMostOneCall
    <2>2. d # e
      BY DEF SameUser, Devices
    <2>3. state[e][c] = "None"
      BY <2>1, <2>2 DEF IsEnded
    <2>4. PICK a \in CallIds : a < c /\ placer[a] = e
      BY <1>1, <2>3, NothingComing DEF Tale, Invited, Says
    <2>5. a # b
      BY <2>4, IdsAssumption
    <2>6. state[e][a] = "Ended"
      BY <1>1, <2>1, <2>4, <2>5 DEF Ground, Roles, RolesOf, PlacesOwn
    <2> QED BY <2>4, <2>6 DEF IsOutgoing, IsEnded
  <1> QED BY <1>1, TaleHolds, PTL

\* Under the same conditions the caller of a call that came about is in it with
\* the device whose answer it took, and no other device stays in it, also where
\* several answer at once, and whoever hangs up, rejects or runs out of time.
THEOREM SelectedIsIn == ASSUME ~Suspends PROVE Spec => []SelectedPartyIsIn
  <1>1. ASSUME Ground, Tale PROVE SelectedPartyIsIn
    <2> SUFFICES ASSUME Settled, NEW d \in Devices, NEW c \in CallIds,
                        placer[c] = d, InCall(d, c)
                 PROVE  {e \in Devices \ {d} : InCall(e, c)} = {party[d][c]}
      BY DEF SelectedPartyIsIn, IsOutgoing
    <2>1. party[d][c] \in Devices \ {d} /\ ~IsEnded(d, c)
      BY <1>1 DEF Ground, IInv, CallTypes, Roles, RolesOf, PlacesOwn, InCall, IsEnded
    <2>2. Taken /\ Dismissed /\ outbox = {} /\ \A b \in Devices : inbox[b] = <<>>
      BY <1>1, NothingComing DEF Tale, Settled
    <2>3. \A k, x : ~Says(d, k, c, x)
      BY NothingComing DEF Says
    <2>4. InCall(party[d][c], c)
      BY <2>1, <2>2, <2>3 DEF Taken
    <2>5. ASSUME NEW e \in Devices \ {d}, e # party[d][c] PROVE ~InCall(e, c)
      <3>1. party[d][c] # None
        BY <2>1, DevicesAssumption DEF Devices
      <3>2. ~DismissedIn(inbox[e], c)
        BY <2>2 DEF DismissedIn
      <3>3. IsEnded(e, c) \/ state[e][c] = "None"
        BY <2>2, <2>5, <3>1, <3>2 DEF Dismissed
      <3> QED BY <3>3 DEF IsEnded, InCall
    <2> QED BY <2>1, <2>4, <2>5
  <1> QED BY <1>1, TaleHolds, PTL
===============================================================================
