------------------------ MODULE RequestService_proofs ------------------------
(***************************************************************************)
(* Proof that ImageQueue implements RequestService, for any images,        *)
(* callers, pool size and number of retries.                               *)
(***************************************************************************)
EXTENDS ImageQueue_proofs

Sent(id) == <<id, "sent">> \in tasks

(* What the lists and tasks say of the callers: whoever waits has a request *)
(* whose result is yet to be sent, and who came late one whose result was.  *)
CallersInv ==
    \A h \in Handles :
        /\ handle[h].state = "waiting" => handle[h].id \in requests /\ ~Sent(handle[h].id)
        /\ handle[h].state = "late" => handle[h].id \in Ids /\ Sent(handle[h].id)
        /\ handle[h].state \notin {"waiting", "late"} => handle[h].id = NoId

\* The refinement mapping.
Answered == {id \in Ids : <<id, "sent">> \in tasks}
Callers == [h \in Handles |-> [state |-> handle[h].state, id |-> handle[h].id]]

LEMMA InitServes == Init => CallersInv /\ Service!Init
  <1> SUFFICES ASSUME Init PROVE CallersInv /\ Service!Init
    OBVIOUS
  <1>1. requests = {} /\ Answered = {}
    BY DEF Init, requests, Answered
  <1>2. handle = [h \in Handles |-> Handle("unused", NoId, "None")]
    BY DEF Init
  <1>3. Callers = [h \in Handles |-> Service!Caller("unused", NoId)]
    BY <1>2 DEF Callers, Handle, Service!Caller
  <1>4. CallersInv
    BY <1>2 DEF CallersInv, Handle
  <1> QED
    BY <1>1, <1>3, <1>4 DEF Service!Init, Answered, Callers

-------------------------------------------------------------------------------
(* What spawn_next drops: requests from the front of the lists that nobody  *)
(* awaits.  It leaves those whose result was sent alone.                    *)
LEMMA SpawnNextDrops ==
    ASSUME NEW reqs \in SUBSET requests, NEW count, NEW busy, NEW lim,
           NEW def, NEW low, NEW live, def \o low \in Seq(Ids),
           SpawnNext(reqs, count, busy, lim, def, low, live)
    PROVE  \E ids \in SUBSET reqs :
              /\ requests' = reqs \ ids
              /\ \A id \in ids : Contains(def \o low, id) /\ ~IsAwaited(id)
              /\ \A id : Sent(id)' <=> <<id, "sent">> \in live
  <1> DEFINE line == def \o low
             Known(k) == {line[i] : i \in 1..k} \cap reqs
             Taken(k) == {id \in Known(k) : IsAwaited(id)}
             Dropped(k) == Known(k) \ Taken(k)
  <1>1. PICK k \in 0..Len(line) :
            /\ priority' = [id \in Ids |-> IF id \in reqs \ Dropped(k)
                                          THEN priority[id] ELSE "None"]
            /\ tasks' = (live \ Abortable(Dropped(k)))
                           \cup (Taken(k) \X {"spawned"})
    BY DEF SpawnNext
  <1>2. requests' = reqs \ Dropped(k)
    BY <1>1 DEF requests
  <1>3. ASSUME NEW id \in Dropped(k) PROVE Contains(line, id) /\ ~IsAwaited(id)
    <2>1. PICK i \in 1..k : id = line[i]
      OBVIOUS
    <2>2. DOMAIN line = 1..Len(line) /\ Len(line) \in Nat
      BY LenProperties
    <2>3. i \in DOMAIN line
      BY <2>2
    <2> QED
      BY <2>1, <2>3 DEF Contains
  <1>4. ASSUME NEW id PROVE Sent(id)' <=> <<id, "sent">> \in live
    <2> HIDE DEF Taken, Dropped
    <2>1. <<id, "sent">> \notin Abortable(Dropped(k))
      BY DEF Abortable
    <2>2. <<id, "sent">> \notin Taken(k) \X {"spawned"}
      OBVIOUS
    <2> QED
      BY <2>1, <2>2, <1>1 DEF Sent
  <1> QED
    BY <1>2, <1>3, <1>4

(* The caller of a request that is not awaited, seen from the service.      *)
LEMMA NotAwaited ==
    ASSUME NEW ids \in SUBSET Ids, \A id \in ids : ~IsAwaited(id)
    PROVE  Service!Unwanted(ids)
  BY DEF Service!Unwanted, Service!Awaits, Service!Caller, IsAwaited, Awaits

(* All who await a result in one state pass to another.                     *)
LEMMA SettleAwaits ==
    ASSUME NEW id \in Ids, NEW from, NEW to,
           \A h \in Handles : Awaits(h, id) <=> handle[h].state = from /\ handle[h].id = id,
           handle' = [h \in Handles |-> IF Awaits(h, id) THEN Handle(to, NoId, "None")
                                       ELSE handle[h]]
    PROVE  Service!Settle(id, from, to)
  <1>1. ASSUME NEW h \in Handles
        PROVE  [state |-> handle'[h].state, id |-> handle'[h].id]
                  = IF [state |-> handle[h].state, id |-> handle[h].id] = Service!Caller(from, id)
                    THEN Service!Caller(to, NoId)
                    ELSE [state |-> handle[h].state, id |-> handle[h].id]
    <2>1. CASE Awaits(h, id)
      <3>1. handle'[h] = Handle(to, NoId, "None")
        BY <2>1
      <3>2. [state |-> handle[h].state, id |-> handle[h].id] = Service!Caller(from, id)
        BY <2>1 DEF Service!Caller
      <3> QED
        BY <3>1, <3>2 DEF Service!Caller, Handle
    <2>2. CASE ~Awaits(h, id)
      <3>1. handle'[h] = handle[h]
        BY <2>2
      <3>2. [state |-> handle[h].state, id |-> handle[h].id] # Service!Caller(from, id)
        BY <2>2 DEF Service!Caller
      <3> QED
        BY <3>1, <3>2
    <2> QED
      BY <2>1, <2>2
  <1> QED
    BY <1>1 DEF Service!Settle

(* An operation that only spawns and drops: the service forgets.            *)
LEMMA SpawnServes ==
    ASSUME CallersInv, HandlesOK,
           NEW count, NEW busy, NEW lim, NEW def, NEW low, NEW live,
           Ready(requests, count, busy, lim, def, low, live),
           SpawnNext(requests, count, busy, lim, def, low, live),
           UNCHANGED handle,
           \A id : <<id, "sent">> \in live <=> Sent(id)
    PROVE  CallersInv' /\ Service!Next
  <1>1. def \o low \in Seq(Ids)
    BY ConcatProperties DEF Ready
  <1>2. PICK ids \in SUBSET requests :
           /\ requests' = requests \ ids
           /\ \A id \in ids : Contains(def \o low, id) /\ ~IsAwaited(id)
           /\ \A id : Sent(id)' <=> <<id, "sent">> \in live
    BY <1>1, SpawnNextDrops
  <1>3. requests \subseteq Ids
    BY DEF requests
  <1>4. \A id : Sent(id)' <=> Sent(id)
    BY <1>2
  <1>5. \A id \in ids : ~Sent(id)
    <2> SUFFICES ASSUME NEW id \in ids, Sent(id) PROVE FALSE
      OBVIOUS
    <2>1. <<id, "sent">> \in live /\ id \in Ids
      BY <1>3
    <2>2. ~Contains(def \o low, id)
      BY <2>1, TaskOf
    <2> QED
      BY <2>2, <1>2
  <1>6. CallersInv'
    <2>1. \A h \in Handles : handle[h].state = "waiting" => handle[h].id \notin ids
      BY <1>2 DEF IsAwaited, Awaits
    <2> QED
      BY <1>2, <1>4, <2>1 DEF CallersInv
  <1>7. Service!Forget(ids)
    <2>1. Service!Unwanted(ids)
      BY <1>2, <1>3, NotAwaited
    <2>2. Answered' = Answered
      BY <1>4 DEF Answered, Sent
    <2>3. ids \subseteq requests \ Answered
      BY <1>5 DEF Answered, Sent
    <2> QED
      BY <1>2, <2>1, <2>2, <2>3 DEF Service!Forget, Answered
  <1> QED
    BY <1>3, <1>6, <1>7 DEF Service!Next

LEMMA RetryServes ==
    ASSUME IInv, CallersInv, NEW id \in Ids, RetryRequest(id)
    PROVE  CallersInv' /\ Service!Next
  <1> DEFINE ended(p) == tasks \ {<<id, p>>}
             busy == ongoing \ {id}
             more == [retries EXCEPT ![id] = @ + 1]
             spawns == \/ priority[id] = "High"
                       \/ /\ ~IsLimitReached(busy, 1)
                          /\ queue_default = <<>>
                          /\ priority[id] = "Default" \/ queue_low = <<>>
             known == id \in requests
             waits == known /\ ~spawns
  <1>1. PICK p \in {"loading", "overdue"} :
           /\ <<id, p>> \in tasks
           /\ retries[id] < MAX_REQUEST_RETRY_COUNT
           /\ SpawnNext(requests, more,
                 IF known /\ spawns THEN busy \cup {id} ELSE busy, 1,
                 IF waits /\ WaitsInDefault(priority[id])
                 THEN Append(queue_default, id) ELSE queue_default,
                 IF waits /\ ~WaitsInDefault(priority[id])
                 THEN Append(queue_low, id) ELSE queue_low,
                 IF known /\ spawns THEN ended(p) \cup {<<id, "spawned">>}
                 ELSE ended(p))
           /\ UNCHANGED <<stalled, handle>>
    BY DEF RetryRequest, CanRetry
  <1>2. /\ HandlesOK
        /\ Ready(requests, retries, ongoing, limit, queue_default, queue_low, tasks)
    BY DEF IInv, HandlesOK
  <1>3. p \in Phases /\ known /\ priority[id] \in Priorities
    <2>1. p \in Phases
      BY DEF Phases
    <2>2. known
      BY <1>1, <1>2, TaskOf
    <2> QED
      BY <2>1, <2>2, <1>2 DEF Ready, requests
  <1>4. \A x : /\ <<x, "sent">> \in ended(p) <=> Sent(x)
               /\ <<x, "sent">> \in ended(p) \cup {<<id, "spawned">>} <=> Sent(x)
    BY DEF Sent
  <1>5. CASE spawns
    <2>1. Ready(requests, more, busy \cup {id}, 1, queue_default, queue_low,
                ended(p) \cup {<<id, "spawned">>})
      <3>1. priority[id] # "High" => ~IsLimitReached(ongoing \ {id}, 1)
        BY <1>5
      <3> QED
        BY <1>1, <1>2, <1>3, <3>1, TaskAgain
    <2>2. SpawnNext(requests, more, busy \cup {id}, 1, queue_default, queue_low,
                    ended(p) \cup {<<id, "spawned">>})
      BY <1>1, <1>3, <1>5
    <2> HIDE DEF ended, busy, more
    <2> QED
      BY <1>1, <1>2, <1>4, <2>1, <2>2, SpawnServes
  <1>6. CASE ~spawns /\ priority[id] = "Default"
    <2>1. Ready(requests, more, busy, 1, Append(queue_default, id), queue_low, ended(p))
      BY <1>1, <1>2, <1>3, <1>6, WaitsAgain
    <2>2. SpawnNext(requests, more, busy, 1, Append(queue_default, id), queue_low,
                    ended(p))
      BY <1>1, <1>3, <1>6 DEF WaitsInDefault
    <2> HIDE DEF ended, busy, more
    <2> QED
      BY <1>1, <1>2, <1>4, <2>1, <2>2, SpawnServes
  <1>7. CASE ~spawns /\ priority[id] = "Low"
    <2>1. Ready(requests, more, busy, 1, queue_default, Append(queue_low, id), ended(p))
      BY <1>1, <1>2, <1>3, <1>7, WaitsAgain
    <2>2. SpawnNext(requests, more, busy, 1, queue_default, Append(queue_low, id),
                    ended(p))
      BY <1>1, <1>3, <1>7 DEF WaitsInDefault
    <2> HIDE DEF ended, busy, more
    <2> QED
      BY <1>1, <1>2, <1>4, <2>1, <2>2, SpawnServes
  <1> QED
    BY <1>3, <1>5, <1>6, <1>7 DEF Priorities

LEMMA MarkServes ==
    ASSUME IInv, CallersInv, NEW id \in Ids, MarkAsStalled(id)
    PROVE  CallersInv' /\ Service!Next
  <1> DEFINE live == Move(<<id, "loading">>, <<id, "overdue">>)
  <1>1. /\ HandlesOK /\ <<id, "loading">> \in tasks /\ UNCHANGED handle
        /\ Ready(requests, retries, ongoing, limit, queue_default, queue_low, tasks)
    BY DEF IInv, HandlesOK, MarkAsStalled
  <1>2. Ready(requests, retries, ongoing \ {id}, limit, queue_default, queue_low, live)
    <2>1. "loading" \in Phases /\ "overdue" \in Phases
      BY DEF Phases
    <2> QED
      BY <1>1, <2>1, TaskMoves DEF Move
  <1>3. SpawnNext(requests, retries, ongoing \ {id}, limit, queue_default,
                  queue_low, live)
    BY DEF MarkAsStalled
  <1>4. \A x : <<x, "sent">> \in live <=> Sent(x)
    BY DEF Sent, Move
  <1> HIDE DEF live
  <1> QED
    BY <1>1, <1>2, <1>3, <1>4, SpawnServes

(* The end of a request turns away those who came after its result.         *)
LEMMA RemoveServes ==
    ASSUME IInv, CallersInv, NEW id \in Ids, RemoveRequest(id)
    PROVE  CallersInv' /\ Service!Next
  <1> DEFINE def == Remove(queue_default, id)
             low == Remove(queue_low, id)
             live == tasks \ ({<<id, "sent">>} \cup Abortable({id}))
  <1>1. /\ HandlesOK /\ Sent(id)
        /\ Ready(requests, retries, ongoing, limit, queue_default, queue_low, tasks)
    BY DEF IInv, HandlesOK, RemoveRequest, Sent
  <1>2. /\ handle' = [h \in Handles |-> IF Awaits(h, id)
                                        THEN Handle("closed", NoId, "None")
                                        ELSE handle[h]]
        /\ SpawnNext(requests \ {id}, retries, ongoing \ {id}, limit, def, low, live)
    BY DEF RemoveRequest
  <1>3. \A x : <<x, "sent">> \in live <=> Sent(x) /\ x # id
    BY DEF Sent, Abortable
  <1>4. def = queue_default /\ low = queue_low
    <2>1. ~Contains(queue_default \o queue_low, id)
      BY <1>1, TaskOf DEF Sent
    <2>2. ~Contains(queue_default, id) /\ ~Contains(queue_low, id)
      BY <1>1, <2>1, InConcat DEF Ready
    <2> QED
      BY <2>2 DEF Remove
  <1> HIDE DEF live, def, low
  <1>5. def \o low \in Seq(Ids)
    BY <1>1, <1>4, ConcatProperties DEF Ready
  <1>6. PICK ids \in SUBSET (requests \ {id}) :
           /\ requests' = (requests \ {id}) \ ids
           /\ \A x \in ids : Contains(def \o low, x) /\ ~IsAwaited(x)
           /\ \A x : Sent(x)' <=> <<x, "sent">> \in live
    BY <1>2, <1>5, SpawnNextDrops
  <1>7. requests \subseteq Ids /\ id \in requests
    <2>1. id \in requests
      BY <1>1, TaskOf DEF Sent
    <2> QED
      BY <2>1 DEF requests
  <1>8. \A x \in ids : ~Sent(x)
    <2> SUFFICES ASSUME NEW x \in ids, Sent(x) PROVE FALSE
      OBVIOUS
    <2>1. ~Contains(queue_default \o queue_low, x)
      BY <1>1, <1>7, TaskOf DEF Sent
    <2> QED
      BY <2>1, <1>4, <1>6
  <1>9. \A h \in Handles : /\ Awaits(h, id) <=> handle[h].state = "late" /\ handle[h].id = id
                           /\ \A x \in ids : ~Awaits(h, x)
    <2> TAKE h \in Handles
    <2>1. \A x \in ids : ~Awaits(h, x)
      BY <1>6 DEF IsAwaited
    <2>2. handle[h].state = "waiting" => handle[h].id # id
      BY <1>1 DEF CallersInv
    <2> QED
      BY <2>1, <2>2 DEF Awaits
  <1>10. CallersInv'
    <2> SUFFICES ASSUME NEW h \in Handles
                 PROVE  /\ handle'[h].state = "waiting"
                              => handle'[h].id \in requests' /\ <<handle'[h].id, "sent">> \notin tasks'
                        /\ handle'[h].state = "late"
                              => handle'[h].id \in Ids /\ <<handle'[h].id, "sent">> \in tasks'
                        /\ handle'[h].state \notin {"waiting", "late"}
                              => handle'[h].id = NoId
      BY DEF CallersInv, Sent
    <2>0. \A x : <<x, "sent">> \in tasks' <=> Sent(x) /\ x # id
      BY <1>3, <1>6 DEF Sent
    <2>1. CASE Awaits(h, id)
      <3>1. handle'[h] = Handle("closed", NoId, "None")
        BY <2>1, <1>2
      <3> QED
        BY <3>1 DEF Handle
    <2>2. CASE ~Awaits(h, id)
      <3>1. handle'[h] = handle[h]
        BY <2>2, <1>2
      <3>2. /\ handle[h].state = "waiting" => handle[h].id \in requests /\ ~Sent(handle[h].id)
            /\ handle[h].state = "late" => handle[h].id \in Ids /\ Sent(handle[h].id)
            /\ handle[h].state \notin {"waiting", "late"} => handle[h].id = NoId
        BY DEF CallersInv
      <3>3. /\ handle[h].state \in {"waiting", "late"} => handle[h].id # id
            /\ handle[h].state = "waiting" => handle[h].id \notin ids
        BY <2>2, <1>9 DEF Awaits
      <3> QED
        BY <3>1, <3>2, <3>3, <2>0, <1>6
    <2> QED
      BY <2>1, <2>2
  <1>11. Service!End(id, ids)
    <2>1. Service!Unwanted(ids)
      BY <1>6, <1>7, NotAwaited
    <2>2. Answered' = Answered \ {id} /\ id \in Answered
      BY <1>1, <1>3, <1>6 DEF Answered, Sent
    <2>3. ids \subseteq requests \ Answered
      BY <1>6, <1>8 DEF Answered, Sent
    <2>4. requests' = requests \ ({id} \cup ids)
      BY <1>6
    <2>5. Service!Settle(id, "late", "closed")
      BY <1>2, <1>9, SettleAwaits
    <2> QED
      BY <2>1, <2>2, <2>3, <2>4, <2>5 DEF Service!End, Answered
  <1> QED
    BY <1>6, <1>7, <1>11, <1>10 DEF Service!Next

LEMMA AskServes ==
    ASSUME IInv, CallersInv, NEW h \in Handles, NEW id \in Ids, NEW prio \in Priorities,
           ReuseRequest(h, id, prio) \/ QueueRequest(h, id, prio)
    PROVE  CallersInv' /\ Service!Next
  <1> DEFINE state == IF Sent(id) THEN "late" ELSE "waiting"
  <1>1. /\ HandlesOK /\ priority \in [Ids -> Priorities \cup {"None"}]
        /\ Ready(requests, retries, ongoing, limit, queue_default, queue_low, tasks)
    BY DEF IInv, HandlesOK, Ready
  <1>2. id \notin requests => ~Sent(id)
    BY <1>1, TaskOf DEF Sent
  <1>3. /\ handle[h].state = "unused"
        /\ handle' = [handle EXCEPT ![h] = Handle(state, id, prio)]
    BY <1>2 DEF ReuseRequest, QueueRequest, Sent
  <1>4. \A x : <<x, "sent">> \in tasks' <=> Sent(x)
    BY DEF ReuseRequest, QueueRequest, Sent
  <1>5. requests' = requests \cup {id}
    <2>1. CASE ReuseRequest(h, id, prio)
      BY <2>1 DEF ReuseRequest, requests
    <2>2. CASE QueueRequest(h, id, prio)
      <3>1. priority' = [priority EXCEPT ![id] = prio] /\ prio # "None"
        BY <2>2 DEF QueueRequest, Priorities
      <3> QED
        BY <3>1, <1>1 DEF requests
    <2> QED
      BY <2>1, <2>2
  <1>6. \A g \in Handles : handle'[g] = IF g = h THEN Handle(state, id, prio) ELSE handle[g]
    BY <1>1, <1>3 DEF HandlesOK
  <1>7. CallersInv'
    <2> SUFFICES ASSUME NEW g \in Handles
                 PROVE  /\ handle'[g].state = "waiting"
                              => handle'[g].id \in requests' /\ <<handle'[g].id, "sent">> \notin tasks'
                        /\ handle'[g].state = "late"
                              => handle'[g].id \in Ids /\ <<handle'[g].id, "sent">> \in tasks'
                        /\ handle'[g].state \notin {"waiting", "late"}
                              => handle'[g].id = NoId
      BY DEF CallersInv, Sent
    <2>1. CASE g = h
      <3>1. handle'[g].state = state /\ handle'[g].id = id
        BY <2>1, <1>6 DEF Handle
      <3> QED
        BY <3>1, <1>4, <1>5
    <2>2. CASE g # h
      <3>1. handle'[g] = handle[g]
        BY <2>2, <1>6
      <3> QED
        BY <3>1, <1>4, <1>5 DEF CallersInv
    <2> QED
      BY <2>1, <2>2
  <1>8. Service!Ask(h, id)
    <2>1. Answered' = Answered /\ (id \in Answered <=> Sent(id))
      BY <1>4 DEF Answered, Sent
    <2>2. Callers' = [Callers EXCEPT ![h] = Service!Caller(state, id)]
      <3>1. \A g \in Handles : [state |-> handle'[g].state, id |-> handle'[g].id]
               = IF g = h THEN Service!Caller(state, id)
                 ELSE [state |-> handle[g].state, id |-> handle[g].id]
        BY <1>6 DEF Handle, Service!Caller
      <3> QED
        BY <3>1 DEF Callers
    <2>3. Callers[h].state = "unused"
      BY <1>3 DEF Callers
    <2> QED
      BY <1>5, <2>1, <2>2, <2>3 DEF Service!Ask, Answered, Callers
  <1> QED
    BY <1>7, <1>8 DEF Service!Next

LEMMA DropServes ==
    ASSUME IInv, CallersInv, NEW h \in Handles, DropHandle(h)
    PROVE  CallersInv' /\ Service!Next
  <1>1. /\ handle[h].state \in {"waiting", "late"}
        /\ handle' = [handle EXCEPT ![h] = Handle("done", NoId, "None")]
        /\ tasks' = tasks /\ priority' = priority
    BY DEF DropHandle
  <1>2. \A g \in Handles : handle'[g] = IF g = h THEN Handle("done", NoId, "None")
                                        ELSE handle[g]
    BY <1>1 DEF IInv
  <1>3. CallersInv'
    BY <1>1, <1>2 DEF CallersInv, Sent, requests, Handle
  <1>4. Service!GiveUp(h)
    <2>1. Callers' = [Callers EXCEPT ![h] = Service!Caller("done", NoId)]
      <3>1. \A g \in Handles : [state |-> handle'[g].state, id |-> handle'[g].id]
               = IF g = h THEN Service!Caller("done", NoId)
                 ELSE [state |-> handle[g].state, id |-> handle[g].id]
        BY <1>2 DEF Handle, Service!Caller
      <3> QED
        BY <3>1 DEF Callers
    <2>2. Callers[h].state \in {"waiting", "late"}
      BY <1>1 DEF Callers
    <2>3. requests' = requests /\ Answered' = Answered
      BY <1>1 DEF requests, Answered
    <2> QED
      BY <2>1, <2>2, <2>3 DEF Service!GiveUp, Answered, Callers
  <1> QED
    BY <1>3, <1>4 DEF Service!Next

(* The result reaches all who wait for it.                                  *)
LEMMA SendServes ==
    ASSUME IInv, CallersInv, NEW id \in Ids, SendResult(id)
    PROVE  CallersInv' /\ Service!Next
  <1>1. /\ <<id, "result">> \in tasks
        /\ tasks' = Move(<<id, "result">>, <<id, "sent">>) /\ priority' = priority
        /\ handle' = [h \in Handles |-> IF Awaits(h, id) THEN Handle("done", NoId, "None")
                                        ELSE handle[h]]
    BY DEF SendResult, queues
  <1>2. Ready(requests, retries, ongoing, limit, queue_default, queue_low, tasks)
    BY DEF IInv
  <1>3. ~Sent(id) /\ id \in requests
    BY <1>1, <1>2, TaskOf DEF Sent
  <1>4. \A x : <<x, "sent">> \in tasks' <=> Sent(x) \/ x = id
    BY <1>1 DEF Sent, Move
  <1>5. requests' = requests
    BY <1>1 DEF requests
  <1>6. \A h \in Handles : Awaits(h, id) <=> handle[h].state = "waiting" /\ handle[h].id = id
    BY <1>3 DEF CallersInv, Awaits
  <1>7. CallersInv'
    <2> SUFFICES ASSUME NEW h \in Handles
                 PROVE  /\ handle'[h].state = "waiting"
                              => handle'[h].id \in requests' /\ <<handle'[h].id, "sent">> \notin tasks'
                        /\ handle'[h].state = "late"
                              => handle'[h].id \in Ids /\ <<handle'[h].id, "sent">> \in tasks'
                        /\ handle'[h].state \notin {"waiting", "late"}
                              => handle'[h].id = NoId
      BY DEF CallersInv, Sent
    <2>1. CASE Awaits(h, id)
      <3>1. handle'[h] = Handle("done", NoId, "None")
        BY <2>1, <1>1
      <3> QED
        BY <3>1 DEF Handle
    <2>2. CASE ~Awaits(h, id)
      <3>1. handle'[h] = handle[h]
        BY <2>2, <1>1
      <3>2. handle[h].state = "waiting" => handle[h].id # id
        BY <2>2, <1>6
      <3> QED
        BY <3>1, <3>2, <1>4, <1>5 DEF CallersInv
    <2> QED
      BY <2>1, <2>2
  <1>8. Service!Answer(id)
    <2>1. Answered' = Answered \cup {id} /\ id \notin Answered
      BY <1>3, <1>4 DEF Answered, Sent
    <2>2. Service!Settle(id, "waiting", "done")
      BY <1>1, <1>6, SettleAwaits
    <2> QED
      BY <1>3, <1>5, <2>1, <2>2 DEF Service!Answer, Answered
  <1> QED
    BY <1>7, <1>8 DEF Service!Next

LEMMA StepServes ==
    IInv /\ CallersInv /\ [Next]_vars => CallersInv' /\ [Service!Next]_Service!vars
  <1> SUFFICES ASSUME IInv, CallersInv, [Next]_vars
               PROVE  CallersInv' /\ [Service!Next]_Service!vars
    OBVIOUS
  \* What leaves callers, requests and deliveries as they are.
  <1>1. ASSUME UNCHANGED <<handle, priority>>, \A x : <<x, "sent">> \in tasks' <=> Sent(x)
        PROVE  CallersInv' /\ UNCHANGED Service!vars
    <2>1. requests' = requests /\ Answered' = Answered
      BY <1>1 DEF requests, Answered, Sent
    <2>2. CallersInv'
      BY <1>1, <2>1 DEF CallersInv, Sent
    <2> QED
      BY <1>1, <2>1, <2>2 DEF Service!vars, Answered
  <1>2. CASE UNCHANGED vars
    BY <1>1, <1>2 DEF vars, Sent
  <1>3. ASSUME NEW id \in Ids, StartTask(id) \/ FinishLoad(id)
        PROVE  CallersInv' /\ UNCHANGED Service!vars
    <2>1. UNCHANGED <<handle, priority>>
      BY <1>3 DEF StartTask, FinishLoad
    <2>2. \A x : <<x, "sent">> \in tasks' <=> Sent(x)
      BY <1>3 DEF StartTask, FinishLoad, Move, Sent
    <2> QED
      BY <1>1, <2>1, <2>2
  <1>4. ASSUME NEW h \in Handles, NEW id \in Ids, NEW prio \in Priorities,
               ReuseRequest(h, id, prio) \/ QueueRequest(h, id, prio)
        PROVE  CallersInv' /\ Service!Next
    BY <1>4, AskServes
  <1>5. ASSUME NEW h \in Handles, DropHandle(h) PROVE CallersInv' /\ Service!Next
    BY <1>5, DropServes
  <1>6. ASSUME NEW id \in Ids,
               MarkAsStalled(id) \/ RetryRequest(id) \/ SendResult(id) \/ RemoveRequest(id)
        PROVE  CallersInv' /\ Service!Next
    BY <1>6, MarkServes, RetryServes, SendServes, RemoveServes
  <1> QED
    BY <1>2, <1>3, <1>4, <1>5, <1>6 DEF Next

(* No caller is let down by the queue: who waits for an image has a request *)
(* for it until its result is sent, and whatever is dropped was wanted by   *)
(* nobody.                                                                  *)
THEOREM ServiceImplemented == Spec => CallersServed
  <1>1. IInv /\ [Next]_vars => IInv'
    BY StepIInv
  <1> QED
    BY <1>1, InitIInv, InitServes, StepServes, PTL DEF Spec, CallersServed, Service!Spec
===============================================================================
