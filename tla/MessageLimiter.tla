--------------------------- MODULE MessageLimiter ---------------------------
(***************************************************************************)
(* MessagingRateLimiter (src/messaging/limiter.py), as the outbox uses it  *)
(* (src/messaging/platforms/outbox.py): every request to the chat platform *)
(* waits in a queue under a key, one worker carries them out.  A request   *)
(* that finds its key in the queue replaces the one that waits there (task *)
(* compaction), and both are answered with the result of the newer one.    *)
(* Requests that nobody awaits are tried again after a transient error.    *)
(***************************************************************************)
EXTENDS Naturals, Sequences, FiniteSets

CONSTANTS
    Request,       \* calls of enqueue and of fire_and_forget
    Key,           \* dedup keys
    KeyOf,         \* the key of each request
    Awaited,       \* the requests whose callers await the answer: enqueue
    None,
    MaxRetries,    \* of a request that nobody awaits
    MayBreak       \* may a request meet a transient error?

ASSUME LimiterAssumption ==
    /\ KeyOf \in [Request -> Key]
    /\ Awaited \subseteq Request
    /\ None \notin Request \cup Key
    /\ MaxRetries \in Nat /\ MayBreak \in BOOLEAN

VARIABLES
    called,        \* the requests in the order of their calls (history)
    overtaken,     \* pairs of a request and a later one that went ahead of it (history)
    status,        \* per request: has its current future been answered
    starting,      \* the tasks of fire_and_forget that have not run yet
    retries,       \* per request
    queue,         \* _queue_list
    func,          \* _queue_map: whose func is under a key
    futures,       \* _queue_map: the requests that wait for it
    worker,        \* where _worker is
    heldKey, heldFunc, heldFutures,   \* what it took from the queue
    shutdown,      \* _shutdown
    shown          \* per key, the request that the platform carried out last

callVars    == <<called, overtaken, starting>>
requestVars == <<callVars, status, retries>>
queueVars   == <<queue, func, futures>>
workerVars  == <<worker, heldKey, heldFunc, heldFutures>>
vars == <<requestVars, queueVars, workerVars, shutdown, shown>>

Init ==
    /\ called = <<>> /\ overtaken = {} /\ starting = <<>>
    /\ status = [r \in Request |-> "new"]
    /\ retries = [r \in Request |-> 0]
    /\ queue = <<>> /\ func = [k \in Key |-> None] /\ futures = [k \in Key |-> {}]
    /\ worker = "idle" /\ heldKey = None /\ heldFunc = None /\ heldFutures = {}
    /\ shutdown = FALSE
    /\ shown = [k \in Key |-> None]

-----------------------------------------------------------------------------
\* Seeded fault: compaction keeps the function that waits.
EnqueueKeepsOld(r) ==
    LET k == KeyOf[r]
    IN  /\ func' = [func EXCEPT ![k] = IF @ = None THEN r ELSE @]
        /\ futures' = [futures EXCEPT ![k] = @ \cup {r}]
        /\ queue' = IF func[k] = None THEN Append(queue, k) ELSE queue

\* Seeded fault: compaction forgets who waits for the function it replaces.
EnqueueDropsFutures(r) ==
    LET k == KeyOf[r]
    IN  /\ func' = [func EXCEPT ![k] = r]
        /\ futures' = [futures EXCEPT ![k] = {r}]
        /\ queue' = IF func[k] = None THEN Append(queue, k) ELSE queue

\* _enqueue_internal_multi
Enqueue(r) ==
    LET k == KeyOf[r]
    IN  /\ func' = [func EXCEPT ![k] = r]
        /\ futures' = [futures EXCEPT ![k] = @ \cup {r}]
        /\ queue' = IF func[k] = None THEN Append(queue, k) ELSE queue

NotStarted == {starting[i] : i \in DOMAIN starting}

\* enqueue: the request is in the queue before its caller lets the event loop go on,
\* and so before those that a task has yet to bring there.
Call(r) ==
    /\ r \in Awaited /\ status[r] = "new"
    /\ Enqueue(r)
    /\ status' = [status EXCEPT ![r] = "waiting"]
    /\ called' = Append(called, r)
    /\ overtaken' = overtaken \cup ({q \in NotStarted : KeyOf[q] = KeyOf[r]} \X {r})
    /\ UNCHANGED <<starting, retries, workerVars, shutdown, shown>>

\* fire_and_forget creates a task that calls enqueue, and returns.
FireAndForget(r) ==
    /\ r \notin Awaited /\ status[r] = "new"
    /\ status' = [status EXCEPT ![r] = "starting"]
    /\ starting' = Append(starting, r)
    /\ called' = Append(called, r)
    /\ UNCHANGED <<overtaken, retries, queueVars, workerVars, shutdown, shown>>

\* The event loop runs the tasks in the order in which they were created.
Start ==
    /\ starting # <<>>
    /\ Enqueue(Head(starting))
    /\ status' = [status EXCEPT ![Head(starting)] = "waiting"]
    /\ starting' = Tail(starting)
    /\ UNCHANGED <<called, overtaken, retries, workerVars, shutdown, shown>>

\* The backoff of fire_and_forget is over: it enqueues the same function again.
Retry(r) ==
    /\ status[r] = "backoff"
    /\ Enqueue(r)
    /\ status' = [status EXCEPT ![r] = "waiting"]
    /\ UNCHANGED <<callVars, retries, workerVars, shutdown, shown>>

\* The task that awaits the answer is cancelled, and its future with it.
Leave(r) ==
    /\ r \in Awaited /\ status[r] = "waiting"
    /\ status' = [status EXCEPT ![r] = "left"]
    /\ UNCHANGED <<callVars, retries, queueVars, workerVars, shutdown, shown>>

-----------------------------------------------------------------------------
\* The worker takes the oldest key, then waits for a pause to end and for the window.
Take ==
    LET k == Head(queue)
    IN  /\ worker = "idle" /\ queue # <<>>
        /\ queue' = Tail(queue)
        /\ func' = [func EXCEPT ![k] = None] /\ futures' = [futures EXCEPT ![k] = {}]
        /\ heldKey' = k /\ heldFunc' = func[k] /\ heldFutures' = futures[k]
        /\ worker' = "holding"
        /\ UNCHANGED <<requestVars, shutdown, shown>>

Send ==
    /\ worker = "holding"
    /\ worker' = "sending"
    /\ UNCHANGED <<requestVars, queueVars, heldKey, heldFunc, heldFutures, shutdown, shown>>

\* The futures that are not done yet.
Open == {r \in heldFutures : status[r] = "waiting"}

LetsGo ==
    /\ worker' = "idle" /\ heldKey' = None /\ heldFunc' = None /\ heldFutures' = {}

Succeeds ==
    /\ worker = "sending"
    /\ shown' = [shown EXCEPT ![heldKey] = heldFunc]
    /\ status' = [r \in Request |-> IF r \in Open THEN "done" ELSE status[r]]
    /\ LetsGo
    /\ UNCHANGED <<callVars, retries, queueVars, shutdown>>

\* Seeded fault: only the caller whose function failed is told.
FailsForOne ==
    /\ worker = "sending"
    /\ status' = [r \in Request |-> IF r \in Open /\ r = heldFunc THEN "failed" ELSE status[r]]
    /\ LetsGo
    /\ UNCHANGED <<callVars, retries, queueVars, shutdown, shown>>

\* An error that is not transient, a FloodWait included: everybody is told.
Fails ==
    /\ worker = "sending"
    /\ status' = [r \in Request |-> IF r \in Open THEN "failed" ELSE status[r]]
    /\ LetsGo
    /\ UNCHANGED <<callVars, retries, queueVars, shutdown, shown>>

\* A transient error: whoever nobody awaits backs off, as long as it may.  The
\* platform may have carried the request out before the connection broke.
Breaks ==
    LET again == {r \in Open : r \notin Awaited /\ retries[r] < MaxRetries}
    IN  /\ MayBreak /\ worker = "sending"
        /\ status' = [r \in Request |-> IF r \in again THEN "backoff"
                                        ELSE IF r \in Open THEN "failed" ELSE status[r]]
        /\ retries' = [r \in Request |-> IF r \in again THEN retries[r] + 1 ELSE retries[r]]
        /\ shown' \in {shown, [shown EXCEPT ![heldKey] = heldFunc]}
        /\ LetsGo
        /\ UNCHANGED <<callVars, queueVars, shutdown>>

\* The worker is cancelled, wherever it is; nobody is told.
Shutdown ==
    /\ ~shutdown
    /\ shutdown' = TRUE /\ worker' = "stopped"
    /\ UNCHANGED <<requestVars, queueVars, heldKey, heldFunc, heldFutures, shown>>

-----------------------------------------------------------------------------
WorkerStep == Take \/ Send \/ Succeeds \/ Fails \/ Breaks

Next ==
    \/ \E r \in Request : Call(r) \/ FireAndForget(r) \/ Retry(r) \/ Leave(r)
    \/ Start
    \/ WorkerStep
    \/ Shutdown

Spec == Init /\ [][Next]_vars

\* The event loop runs the worker, the tasks and the backoffs; a request to the
\* platform ends.
Fairness == WF_vars(WorkerStep) /\ WF_vars(Start) /\ \A r \in Request : WF_vars(Retry(r))

FairSpec == Spec /\ Fairness
-----------------------------------------------------------------------------
InQueue == {queue[i] : i \in DOMAIN queue}

\* Every variable has its type, and the queue and the map agree: a key waits at most
\* once, exactly when there is a function under it.
TypeOK ==
    /\ called \in Seq(Request) /\ overtaken \in SUBSET (Request \X Request)
    /\ starting \in Seq(Request)
    /\ status \in [Request -> {"new", "starting", "waiting", "backoff", "done", "failed",
                              "left"}]
    /\ retries \in [Request -> 0 .. MaxRetries]
    /\ queue \in Seq(Key) /\ \A i, j \in DOMAIN queue : queue[i] = queue[j] => i = j
    /\ func \in [Key -> Request \cup {None}] /\ futures \in [Key -> SUBSET Request]
    /\ \A k \in Key : func[k] # None <=> k \in InQueue
    /\ worker \in {"idle", "holding", "sending", "stopped"}
    /\ heldKey \in Key \cup {None} /\ heldFunc \in Request \cup {None}
    /\ heldFutures \subseteq Request
    /\ worker \in {"holding", "sending"} => heldKey # None
    /\ shutdown \in BOOLEAN /\ shown \in [Key -> Request \cup {None}]

\* Nobody is forgotten by compaction: a request that waits for an answer is among
\* those that the worker will answer with its key, now or when it comes to it.
WaitersAreKept ==
    \A r \in Request : status[r] = "waiting" =>
        \/ KeyOf[r] \in InQueue /\ r \in futures[KeyOf[r]]
        \/ worker # "idle" /\ heldKey = KeyOf[r] /\ r \in heldFutures

\* Whoever waits is answered, and so is a request whose task has yet to run, unless
\* the limiter is shut down: also when newer requests of the same key keep coming,
\* and errors keep others retrying.
Unanswered(r) == status[r] \in {"starting", "waiting"}
WaitersAreAnswered == \A r \in Request : Unanswered(r) ~> ~Unanswered(r) \/ shutdown

Before(q, r) ==
    \E i, j \in DOMAIN called : i < j /\ called[i] = q /\ called[j] = r

\* Once an update was reported as carried out, no older one of its key is shown,
\* unless the older one's task ran only after the call of the other.
Newest(r) ==
    LET s == shown[KeyOf[r]]
    IN  s # None /\ (Before(s, r) => <<s, r>> \in overtaken)

\* "Only the latest version of a message update is processed".
ReportedIsShown == \A r \in Request : status[r] = "done" => Newest(r)

\* Until some request is tried again, updates of a message are shown in the order of
\* their calls: an update that was reported as carried out is never undone by an older
\* one, nor left out for one, also when some of them failed or were given up.  Only
\* an awaited update is, by those that were fired before it and had not started.
LatestUnlessRetried ==
    (\A q \in Request : retries[q] = 0) => \A r \in Request : status[r] = "done" => Newest(r)
=============================================================================
