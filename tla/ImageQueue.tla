------------------------------ MODULE ImageQueue ------------------------------
(***************************************************************************)
(* The image request queue, src/src/utils/media/image/queue.rs: a pool of  *)
(* at most `limit' concurrent image loads, two waiting lists, at most one  *)
(* request per image, retries, and a ten second timer after which a load   *)
(* no longer counts against the pool.                                      *)
(*                                                                         *)
(* Every operation of ImageRequestQueueInner runs under one mutex and is   *)
(* one action.  Around it run, on the main context, the task of each       *)
(* request (spawned, loading, finished) and its timer, and on the tokio    *)
(* runtime the delivery of the result followed by remove_request: two      *)
(* steps between which any other operation may take the mutex.             *)
(***************************************************************************)
EXTENDS Naturals, Sequences, FiniteSets

CONSTANTS
    Ids,       \* image sources (ImageRequestId)
    NoId,      \* no image source
    Handles,   \* calls of add_request, each with the handle it returned
    Stuck,     \* the images whose load is not assumed to ever finish
    DEFAULT_QUEUE_LIMIT,
    MAX_REQUEST_RETRY_COUNT

ASSUME LimitAssumption == DEFAULT_QUEUE_LIMIT \in Nat \ {0}
ASSUME RetryAssumption == MAX_REQUEST_RETRY_COUNT \in Nat
ASSUME IdsAssumption == IsFiniteSet(Ids) /\ NoId \notin Ids /\ Stuck \subseteq Ids

Priorities == {"High", "Default", "Low"}

\* A call of add_request: not made yet; awaiting the result; awaiting a
\* channel whose only result was sent before it subscribed; given a result,
\* or dropped by its caller; given "channel closed".
HandleStates == {"unused", "waiting", "late", "done", "closed"}

Handle(state, id, prio) == [state |-> state, id |-> id, priority |-> prio]

\* A task of a request: `spawn' has been called; its future runs with the
\* timer armed; the timer fired; the result is known and its delivery
\* spawned on tokio; the result has been sent, remove_request has not run.
Phases == {"spawned", "loading", "overdue", "result", "sent"}

VARIABLES
    limit, ongoing, stalled, queue_default, queue_low,
    priority,  \* ImageRequest::priority, "None" for ids with no request
    retries,   \* ImageRequest::retries_count
    tasks,     \* the live tasks, as pairs of an id and a phase
    handle     \* the handles, with the id and the priority asked for

vars == <<limit, ongoing, stalled, queue_default, queue_low, priority, retries,
          tasks, handle>>
queues == <<limit, ongoing, stalled, queue_default, queue_low>>

\* The keys of ImageRequestQueueInner::requests.
requests == {id \in Ids : priority[id] # "None"}

Tasks == Ids \X Phases

\* What dropping the requests of ids would abort: the loads under way.
Abortable(ids) == ids \X {"loading", "overdue"}

Move(from, to) == (tasks \ {from}) \cup {to}

Contains(queue, id) == \E i \in DOMAIN queue : queue[i] = id

\* Vec::retain; a list without the id stays as it is.
Remove(queue, id) ==
    IF Contains(queue, id) THEN SelectSeq(queue, LAMBDA other : other # id)
    ELSE queue

\* Mutant: one too many.
IsLimitPassed(busy, lim) == Cardinality(busy) > lim

IsLimitReached(busy, lim) == Cardinality(busy) >= lim

\* Mutant: one list for all.
AlwaysDefault(prio) == TRUE

\* The list a request of this priority waits in.
WaitsInDefault(prio) == prio = "Default"

\* Mutant: one retry too many.
CanRetryOnceMore(id) == retries[id] <= MAX_REQUEST_RETRY_COUNT

\* ImageRequest::can_retry, for an error worth it.
CanRetry(id) == retries[id] < MAX_REQUEST_RETRY_COUNT

Awaits(h, id) == handle[h].id = id /\ handle[h].state \in {"waiting", "late"}

\* Mutant: the count is compared with one, as if the request kept a receiver.
IsAwaitedByTwo(id) == \E h, g \in Handles : h # g /\ Awaits(h, id) /\ Awaits(g, id)

\* result_sender.receiver_count() # 0
IsAwaited(id) == \E h \in Handles : Awaits(h, id)

Init ==
    /\ limit = DEFAULT_QUEUE_LIMIT
    /\ ongoing = {} /\ stalled = {}
    /\ queue_default = <<>> /\ queue_low = <<>>
    /\ priority = [id \in Ids |-> "None"]
    /\ retries = [id \in Ids |-> 0]
    /\ tasks = {}
    /\ handle = [h \in Handles |-> Handle("unused", NoId, "None")]

(***************************************************************************)
(* spawn_next, on the values its caller has left in the structure: ids are *)
(* taken from the front of the default queue, then of the low one, until   *)
(* the pool is full or nothing waits.  k is how many it takes.  A request  *)
(* nobody awaits is dropped instead of spawned.  The default limit comes   *)
(* back only on the way out of the loop by its condition.                  *)
(***************************************************************************)
SpawnNext(reqs, count, busy, lim, def, low, live) ==
    LET line == def \o low
        Known(k) == {line[i] : i \in 1..k} \cap reqs
        Taken(k) == {id \in Known(k) : IsAwaited(id)}
        Dropped(k) == Known(k) \ Taken(k)
        Full(k) == IsLimitReached(busy \cup Taken(k), lim)
    IN  \E k \in 0..Len(line) :
            /\ \A j \in 0..(k - 1) : ~Full(j)
            /\ Full(k) \/ k = Len(line)
            /\ ongoing' = busy \cup Taken(k)
            /\ priority' = [id \in Ids |-> IF id \in reqs \ Dropped(k)
                                          THEN priority[id] ELSE "None"]
            /\ retries' = [id \in Ids |-> IF id \in reqs \ Dropped(k)
                                         THEN count[id] ELSE 0]
            /\ queue_default' = SubSeq(def, k + 1, Len(def))
            /\ queue_low' = IF k <= Len(def) THEN low
                            ELSE SubSeq(low, k - Len(def) + 1, Len(low))
            /\ tasks' = (live \ Abortable(Dropped(k)))
                           \cup (Taken(k) \X {"spawned"})
            /\ limit' = IF Full(k) /\ ongoing' = {}
                        THEN DEFAULT_QUEUE_LIMIT ELSE lim

\* add_request, for an image that already has a request: the handle shares
\* its channel, whatever the priority asked for.  A receiver sees nothing of
\* what was sent before it subscribed.
ReuseRequest(h, id, prio) ==
    /\ handle[h].state = "unused" /\ id \in requests
    /\ handle' = [handle EXCEPT ![h] =
          Handle(IF <<id, "sent">> \in tasks THEN "late" ELSE "waiting", id, prio)]
    /\ UNCHANGED <<queues, priority, retries, tasks>>

\* add_request, for a new image, with queue_request.
QueueRequest(h, id, prio) ==
    LET spawns == ~IsLimitReached(ongoing, limit) \/ prio = "High"
    IN  /\ handle[h].state = "unused" /\ id \notin requests
        /\ priority' = [priority EXCEPT ![id] = prio]
        /\ ongoing' = IF spawns THEN ongoing \cup {id} ELSE ongoing
        /\ tasks' = IF spawns THEN tasks \cup {<<id, "spawned">>} ELSE tasks
        /\ queue_default' = IF ~spawns /\ WaitsInDefault(prio)
                            THEN Append(queue_default, id) ELSE queue_default
        /\ queue_low' = IF ~spawns /\ ~WaitsInDefault(prio)
                        THEN Append(queue_low, id) ELSE queue_low
        /\ handle' = [handle EXCEPT ![h] = Handle("waiting", id, prio)]
        /\ UNCHANGED <<limit, stalled, retries>>

\* The future awaiting the handle is dropped (the row was recycled), and its
\* receiver with it.
DropHandle(h) ==
    /\ handle[h].state \in {"waiting", "late"}
    /\ handle' = [handle EXCEPT ![h] = Handle("done", NoId, "None")]
    /\ UNCHANGED <<queues, priority, retries, tasks>>

\* The task starts: it arms its timer and begins to load.
StartTask(id) ==
    /\ <<id, "spawned">> \in tasks
    /\ tasks' = Move(<<id, "spawned">>, <<id, "loading">>)
    /\ UNCHANGED <<queues, priority, retries, handle>>

\* Mutants of the timer: the load is aborted with its task; nothing is spawned
\* in the room made; the load goes on counting against the pool.
MarkAsStalledAborts(id) ==
    /\ <<id, "loading">> \in tasks
    /\ stalled' = stalled \cup {id}
    /\ SpawnNext(requests, retries, ongoing \ {id}, limit, queue_default,
                 queue_low, tasks \ {<<id, "loading">>})
    /\ UNCHANGED handle

MarkAsStalledOnly(id) ==
    /\ <<id, "loading">> \in tasks
    /\ stalled' = stalled \cup {id} /\ ongoing' = ongoing \ {id}
    /\ tasks' = Move(<<id, "loading">>, <<id, "overdue">>)
    /\ UNCHANGED <<limit, queue_default, queue_low, priority, retries, handle>>

MarkAsStalledCounts(id) ==
    /\ <<id, "loading">> \in tasks
    /\ stalled' = stalled \cup {id}
    /\ tasks' = Move(<<id, "loading">>, <<id, "overdue">>)
    /\ UNCHANGED <<limit, ongoing, queue_default, queue_low, priority, retries,
                   handle>>

\* The timer fires: mark_as_stalled.
MarkAsStalled(id) ==
    /\ <<id, "loading">> \in tasks
    /\ stalled' = stalled \cup {id}
    /\ SpawnNext(requests, retries, ongoing \ {id}, limit, queue_default,
                 queue_low, Move(<<id, "loading">>, <<id, "overdue">>))
    /\ UNCHANGED handle

\* The load failed with an error worth another try: retry_request, which
\* also lowers the limit.
RetryRequest(id) ==
    \E phase \in {"loading", "overdue"} :
        LET ended == tasks \ {<<id, phase>>}
            busy == ongoing \ {id}
            spawns == \/ priority[id] = "High"
                      \/ /\ ~IsLimitReached(busy, 1)
                         /\ queue_default = <<>>
                         /\ priority[id] = "Default" \/ queue_low = <<>>
            known == id \in requests
            waits == known /\ ~spawns
        IN  /\ <<id, phase>> \in tasks
            /\ CanRetry(id)
            /\ SpawnNext(requests, [retries EXCEPT ![id] = @ + 1],
                   IF known /\ spawns THEN busy \cup {id} ELSE busy, 1,
                   IF waits /\ WaitsInDefault(priority[id])
                   THEN Append(queue_default, id) ELSE queue_default,
                   IF waits /\ ~WaitsInDefault(priority[id])
                   THEN Append(queue_low, id) ELSE queue_low,
                   IF known /\ spawns THEN ended \cup {<<id, "spawned">>}
                   ELSE ended)
            /\ UNCHANGED <<stalled, handle>>

\* The load ends with an image, or with an error that is not retried.
FinishLoad(id) ==
    \E phase \in {"loading", "overdue"} :
        /\ <<id, phase>> \in tasks
        /\ tasks' = Move(<<id, phase>>, <<id, "result">>)
        /\ UNCHANGED <<queues, priority, retries, handle>>

\* The tokio task sends the result to the receivers there are.
SendResult(id) ==
    /\ <<id, "result">> \in tasks
    /\ tasks' = Move(<<id, "result">>, <<id, "sent">>)
    /\ handle' = [h \in Handles |-> IF Awaits(h, id)
                                    THEN Handle("done", NoId, "None")
                                    ELSE handle[h]]
    /\ UNCHANGED <<queues, priority, retries>>

\* Then it takes the mutex for remove_request; the request, and with it the
\* last sender, goes away.
RemoveRequest(id) ==
    /\ <<id, "sent">> \in tasks
    /\ stalled' = stalled \ {id}
    /\ handle' = [h \in Handles |-> IF Awaits(h, id)
                                    THEN Handle("closed", NoId, "None")
                                    ELSE handle[h]]
    /\ SpawnNext(requests \ {id}, retries, ongoing \ {id}, limit,
                 Remove(queue_default, id), Remove(queue_low, id),
                 tasks \ ({<<id, "sent">>} \cup Abortable({id})))

Next ==
    \/ \E h \in Handles, id \in Ids, prio \in Priorities :
          ReuseRequest(h, id, prio) \/ QueueRequest(h, id, prio)
    \/ \E h \in Handles : DropHandle(h)
    \/ \E id \in Ids :
          \/ StartTask(id) \/ MarkAsStalled(id) \/ RetryRequest(id)
          \/ FinishLoad(id) \/ SendResult(id) \/ RemoveRequest(id)

Spec == Init /\ [][Next]_vars

\* The main context and the runtime run what is spawned on them, timers fire,
\* and a load ends, unless its image is Stuck.
Fairness ==
    /\ \A id \in Ids : /\ WF_vars(StartTask(id))
                       /\ WF_vars(MarkAsStalled(id))
                       /\ WF_vars(SendResult(id))
                       /\ WF_vars(RemoveRequest(id))
    /\ \A id \in Ids \ Stuck : WF_vars(FinishLoad(id) \/ RetryRequest(id))

FairSpec == Spec /\ Fairness

-------------------------------------------------------------------------------
Waiting(id) == Contains(queue_default, id) \/ Contains(queue_low, id)

TypeOK ==
    /\ limit \in {1, DEFAULT_QUEUE_LIMIT}
    /\ ongoing \subseteq Ids /\ stalled \subseteq Ids
    /\ queue_default \in Seq(Ids) /\ queue_low \in Seq(Ids)
    /\ priority \in [Ids -> Priorities \cup {"None"}]
    /\ retries \in [Ids -> 0..MAX_REQUEST_RETRY_COUNT]
    /\ tasks \subseteq Tasks
    /\ handle \in [Handles -> [state : HandleStates, id : Ids \cup {NoId},
                               priority : Priorities \cup {"None"}]]

\* The lists, the map and the tasks agree: what waits or is ongoing has a
\* request; nothing waits twice; a request waits and has no task, or does
\* not wait and has exactly one.  So a task is never spawned twice for an
\* image, remove_request never takes away a request that was made anew under
\* the same id, and dropping a request never aborts a load.
InSync ==
    LET line == queue_default \o queue_low
    IN  /\ \A id \in Ids :
            /\ Waiting(id) \/ id \in ongoing => id \in requests
            /\ (\E t \in tasks : t[1] = id) <=> (id \in requests /\ ~Waiting(id))
        /\ \A i, j \in DOMAIN line : line[i] = line[j] => i = j
        /\ \A t, u \in tasks : t[1] = u[1] => t = u

\* The pool never idles while a request waits, whichever operation made room.
NoIdleCapacity ==
    queue_default # <<>> \/ queue_low # <<>> => IsLimitReached(ongoing, limit)

\* "Limit the number of concurrent requests" (queue.rs:47): of the requests
\* counted as ongoing, at most the default limit are there without the
\* privilege of high priority.
PoolBounded ==
    Cardinality({id \in ongoing : priority[id] # "High"}) <= DEFAULT_QUEUE_LIMIT

\* A low request that waits enters the pool only once no default request
\* waits, whichever operation made the room.
LowYields ==
    [][\A low, default \in Ids :
          /\ Waiting(low) /\ priority[low] = "Low"
          /\ Waiting(default) /\ priority[default] = "Default"
          /\ low \in ongoing'
          => ~Waiting(default)']_vars

\* No caller is let down: the queue implements RequestService, so that whoever
\* waits has a request until the result is sent to all who wait, and nobody who
\* asked before that sees the channel closed.
Service == INSTANCE RequestService WITH
    Callers <- Handles, open <- requests,
    answered <- {id \in Ids : <<id, "sent">> \in tasks},
    caller <- [h \in Handles |-> [state |-> handle[h].state, id |-> handle[h].id]]
CallersServed == Service!Spec

\* A request that waits is spawned or dropped eventually, even when some
\* loads never end: their timer takes them out of the count.
QueueAdvances == \A id \in Ids : Waiting(id) ~> ~Waiting(id)

\* A caller that waits for an image whose load ends gets an outcome.
EveryHandleSettles ==
    \A h \in Handles, id \in Ids \ Stuck : Awaits(h, id) ~> ~Awaits(h, id)
===============================================================================
