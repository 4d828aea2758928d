---------------------------- MODULE RequestService ----------------------------
(***************************************************************************)
(* What the image queue promises those who ask for an image, whatever      *)
(* order it loads them in: an image that somebody waits for has a request  *)
(* until it is answered, all who wait are answered at once, and only one   *)
(* who asks between the answer and the end of the request is turned away.  *)
(***************************************************************************)
CONSTANTS Ids, NoId, Callers

VARIABLES
    open,      \* the images with a request
    answered,  \* those whose result was sent and whose request is still there
    caller     \* what each caller has, and of which image

vars == <<open, answered, caller>>

Caller(state, id) == [state |-> state, id |-> id]
Awaits(h, id) == caller[h] \in {Caller("waiting", id), Caller("late", id)}
Unwanted(ids) == \A h \in Callers, id \in ids : ~Awaits(h, id)

\* Those who are in one state for an image pass to another, and are done with it.
Settle(id, from, to) ==
    caller' = [h \in Callers |-> IF caller[h] = Caller(from, id) THEN Caller(to, NoId)
                                 ELSE caller[h]]

Init ==
    /\ open = {} /\ answered = {}
    /\ caller = [h \in Callers |-> Caller("unused", NoId)]

Ask(h, id) ==
    /\ caller[h].state = "unused"
    /\ open' = open \cup {id}
    /\ caller' = [caller EXCEPT ![h] =
                     Caller(IF id \in answered THEN "late" ELSE "waiting", id)]
    /\ UNCHANGED answered

GiveUp(h) ==
    /\ caller[h].state \in {"waiting", "late"}
    /\ caller' = [caller EXCEPT ![h] = Caller("done", NoId)]
    /\ UNCHANGED <<open, answered>>

Answer(id) ==
    /\ id \in open \ answered
    /\ answered' = answered \cup {id}
    /\ Settle(id, "waiting", "done")
    /\ UNCHANGED open

\* Requests that nobody waits for may go.
Forget(ids) ==
    /\ ids \subseteq open \ answered /\ Unwanted(ids)
    /\ open' = open \ ids
    /\ UNCHANGED <<answered, caller>>

\* An answered request ends, and others that nobody waits for may go with it.
End(id, ids) ==
    /\ id \in answered
    /\ ids \subseteq open \ answered /\ Unwanted(ids)
    /\ open' = open \ ({id} \cup ids)
    /\ answered' = answered \ {id}
    /\ Settle(id, "late", "closed")

Next ==
    \/ \E h \in Callers, id \in Ids : Ask(h, id)
    \/ \E h \in Callers : GiveUp(h)
    \/ \E id \in Ids : Answer(id)
    \/ \E ids \in SUBSET Ids : Forget(ids)
    \/ \E id \in Ids, ids \in SUBSET Ids : End(id, ids)

Spec == Init /\ [][Next]_vars
===============================================================================
