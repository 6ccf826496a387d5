--------------------------- MODULE ManagedSessions ---------------------------
(***************************************************************************)
(* The pool of CLI sessions (src/cli/managed/manager.py), the subprocess   *)
(* that each session runs (session.py), the registry of their pids         *)
(* (src/cli/process_registry.py), and the runners that use them            *)
(* (src/messaging/node_runner.py).                                         *)
(*                                                                         *)
(* A session object is named by the runner that created it, a process by   *)
(* the runner that started it.  The manager's lock is held across          *)
(* session.stop(), which waits for the process to exit; everything else    *)
(* that is done under it is one step.                                      *)
(***************************************************************************)
EXTENDS Naturals, FiniteSets

CONSTANTS
    Runner,        \* the process_node tasks
    Forks,         \* the runners whose message replies to Origin's
    Origin,        \* the CLI session id of an earlier, finished message
    NoOne,
    Stopper,       \* the /stop that calls stop_all
    MaxCancels,    \* bound on the cancellations of tasks
    MaxStops       \* bound on the calls of stop_all

ASSUME SessionAssumption ==
    /\ Forks \subseteq Runner
    /\ {NoOne, Stopper, Origin} \cap Runner = {} /\ NoOne \notin {Stopper, Origin}
    /\ MaxCancels \in Nat /\ MaxStops \in Nat

VARIABLES
    pending, sessions,       \* _pending_sessions, _sessions: id -> session
    tempToReal, realToTemp,  \* the two maps between ids
    lock,          \* who holds the manager's _lock
    stopping,      \* the session whose stop() the holder awaits
    todo,          \* the sessions stop_all has still to stop
    stopAll,       \* where stop_all is
    cliLock,       \* per session, whose start_task holds _cli_lock
    process,       \* per session, self.process
    proc,          \* per runner, the state of the process it started
    pids,          \* the registry
    phase,         \* per runner, where it is
    uses,          \* per runner, its session
    temp, captured,          \* temp_session_id, captured_session_id
    recorded,      \* the session id its node was completed with
    cancelReq,     \* runners that cancel() was called on, not delivered yet
    swept,         \* runners that /stop cancelled: their tree is marked free
    abandoned,     \* runners whose start_task generator was left suspended
    cancels, stops           \* counters that bound the model

poolVars == <<pending, sessions, tempToReal, realToTemp>>
lockVars == <<lock, stopping, todo, stopAll>>
cliVars  == <<cliLock, process, proc, pids>>
runVars  == <<phase, uses, temp, captured, recorded, abandoned>>
countVars == <<cancelReq, swept, cancels, stops>>
vars == <<poolVars, lockVars, cliVars, runVars, countVars>>

Temp(r) == <<"temp", r>>
Real(r) == <<"real", r>>
OriginId == <<"real", Origin>>
Id == {Temp(r) : r \in Runner} \cup {Real(r) : r \in Runner} \cup {OriginId}
NoId == <<"none", NoOne>>

\* The id that a runner asks the pool for: that of its parent, if it has one.
SessionId(r) == IF r \in Forks THEN OriginId ELSE NoId

Pooled == ({pending[i] : i \in Id} \cup {sessions[i] : i \in Id}) \ {NoOne}

Alive(s) == process[s] # NoOne /\ proc[process[s]] \in {"running", "killed"}

Init ==
    /\ pending = [i \in Id |-> NoOne] /\ sessions = [i \in Id |-> NoOne]
    /\ tempToReal = [i \in Id |-> NoId] /\ realToTemp = [i \in Id |-> NoId]
    /\ lock = NoOne /\ stopping = NoOne /\ todo = {} /\ stopAll = "idle"
    /\ cliLock = [s \in Runner |-> NoOne] /\ process = [s \in Runner |-> NoOne]
    /\ proc = [r \in Runner |-> "none"] /\ pids = {}
    /\ phase = [r \in Runner |-> "new"] /\ uses = [r \in Runner |-> NoOne]
    /\ temp = [r \in Runner |-> NoId] /\ captured = [r \in Runner |-> NoId]
    /\ recorded = [r \in Runner |-> NoId] /\ abandoned = {}
    /\ cancelReq = {} /\ swept = {} /\ cancels = 0 /\ stops = 0

At(r, p) == phase[r] = p /\ r \notin cancelReq

\* What cancel() was called on is resumed before the event loop polls for I/O.
Polls == cancelReq = {}

Goes(r, p) == phase' = [phase EXCEPT ![r] = p]

-----------------------------------------------------------------------------
(* get_or_create_session *)

Ended(r) == phase[r] \in {"done", "gone"}

\* A task for the message starts.  A tree runs one at a time, unless cancel_tree
\* declared it free, or the end of a task that it cancelled handed it on.
Arrive(r) ==
    /\ phase[r] = "new" /\ Polls
    /\ r \in Forks =>
        \/ \A q \in Forks : phase[q] = "new" \/ Ended(q) \/ q \in swept
        \/ \E q \in Forks \cap swept : Ended(q)
    /\ Goes(r, "asking")
    /\ UNCHANGED <<poolVars, lockVars, cliVars, uses, temp, captured, recorded, abandoned,
                   countVars>>

Lookup(i) == IF tempToReal[i] # NoId THEN tempToReal[i] ELSE i

Found(i) == IF sessions[i] # NoOne THEN sessions[i] ELSE pending[i]

\* start_task waits when another runner of the session is in it.
ReuseSession(r) ==
    LET i == Lookup(SessionId(r))
        s == Found(i)
    IN  /\ At(r, "asking") /\ lock = NoOne
        /\ r \in Forks /\ s # NoOne
        /\ uses' = [uses EXCEPT ![r] = s]
        /\ captured' = [captured EXCEPT ![r] = i]
        /\ \/ cliLock[s] = NoOne /\ Goes(r, "spawning") /\ cliLock' = [cliLock EXCEPT ![s] = r]
           \/ cliLock[s] # NoOne /\ Goes(r, "starting") /\ UNCHANGED cliLock
        /\ UNCHANGED <<poolVars, lockVars, process, proc, pids, temp, recorded, abandoned,
                       countVars>>

\* A new session waits under its parent's id, or under a fresh one.
CreateSession(r) ==
    LET i == IF r \in Forks THEN OriginId ELSE Temp(r)
    IN  /\ At(r, "asking") /\ lock = NoOne
        /\ r \in Forks => Found(Lookup(SessionId(r))) = NoOne
        /\ uses' = [uses EXCEPT ![r] = r]
        /\ temp' = [temp EXCEPT ![r] = i]
        /\ pending' = [pending EXCEPT ![i] = r]
        /\ cliLock' = [cliLock EXCEPT ![r] = r]
        /\ Goes(r, "spawning")
        /\ UNCHANGED <<sessions, tempToReal, realToTemp, lockVars, process, proc, pids,
                       captured, recorded, abandoned, countVars>>

-----------------------------------------------------------------------------
(* start_task *)

TakeCliLock(r) ==
    /\ At(r, "starting") /\ cliLock[uses[r]] = NoOne
    /\ cliLock' = [cliLock EXCEPT ![uses[r]] = r]
    /\ Goes(r, "spawning")
    /\ UNCHANGED <<poolVars, lockVars, process, proc, pids, uses, temp, captured,
                   recorded, abandoned, countVars>>

\* Seeded fault: the pid is not registered.
SpawnUnregistered(r) ==
    /\ At(r, "spawning") /\ Polls
    /\ proc' = [proc EXCEPT ![r] = "running"]
    /\ process' = [process EXCEPT ![uses[r]] = r]
    /\ Goes(r, "reading")
    /\ UNCHANGED <<poolVars, lockVars, cliLock, pids, uses, temp, captured, recorded,
                   abandoned, countVars>>

Spawn(r) ==
    /\ At(r, "spawning") /\ Polls
    /\ proc' = [proc EXCEPT ![r] = "running"]
    /\ process' = [process EXCEPT ![uses[r]] = r]
    /\ pids' = pids \cup {r}
    /\ Goes(r, "reading")
    /\ UNCHANGED <<poolVars, lockVars, cliLock, uses, temp, captured, recorded,
                   abandoned, countVars>>

\* The finally clause of start_task: it unregisters self.process, which is the
\* process of an earlier runner when this one has none.
LeaveCli(r) ==
    /\ cliLock' = [cliLock EXCEPT ![uses[r]] = NoOne]
    /\ pids' = pids \ {process[uses[r]]}

SpawnFails(r) ==
    /\ At(r, "spawning") /\ Polls
    /\ LeaveCli(r)
    /\ Goes(r, "closing")
    /\ UNCHANGED <<poolVars, lockVars, process, proc, uses, temp, captured, recorded,
                   abandoned, countVars>>

\* Seeded fault: the pending entry is copied, not moved.
CopyPending(r) ==
    /\ IF pending[temp[r]] # NoOne
       THEN /\ sessions' = [sessions EXCEPT ![Real(r)] = pending[temp[r]]]
            /\ tempToReal' = [tempToReal EXCEPT ![temp[r]] = Real(r)]
            /\ realToTemp' = [realToTemp EXCEPT ![Real(r)] = temp[r]]
            /\ UNCHANGED pending
       ELSE UNCHANGED poolVars
    /\ captured' = [captured EXCEPT ![r] = Real(r)]
    /\ temp' = [temp EXCEPT ![r] = NoId]

\* register_real_session_id; the runner takes the id also when this fails.
RegisterId(r) ==
    /\ IF pending[temp[r]] # NoOne
       THEN /\ pending' = [pending EXCEPT ![temp[r]] = NoOne]
            /\ sessions' = [sessions EXCEPT ![Real(r)] = pending[temp[r]]]
            /\ tempToReal' = [tempToReal EXCEPT ![temp[r]] = Real(r)]
            /\ realToTemp' = [realToTemp EXCEPT ![Real(r)] = temp[r]]
       ELSE UNCHANGED poolVars
    /\ captured' = [captured EXCEPT ![r] = Real(r)]
    /\ temp' = [temp EXCEPT ![r] = NoId]

\* session_info is read, by a runner that has a temporary id.
SessionInfo(r) ==
    /\ At(r, "reading") /\ Polls /\ temp[r] # NoId
    /\ \/ lock = NoOne /\ RegisterId(r) /\ UNCHANGED phase
       \/ lock # NoOne /\ Goes(r, "registering") /\ UNCHANGED <<poolVars, captured, temp>>
    /\ UNCHANGED <<lockVars, cliVars, uses, recorded, abandoned, countVars>>

Register(r) ==
    /\ At(r, "registering") /\ lock = NoOne
    /\ RegisterId(r)
    /\ Goes(r, "reading")
    /\ UNCHANGED <<lockVars, cliVars, uses, recorded, abandoned, countVars>>

ProcessEnds(r) ==
    /\ proc[r] = "running"
    /\ proc' = [proc EXCEPT ![r] = "exited"]
    /\ UNCHANGED <<poolVars, lockVars, cliLock, process, pids, runVars, countVars>>

ProcessDies(r) ==
    /\ proc[r] = "killed"
    /\ proc' = [proc EXCEPT ![r] = "exited"]
    /\ UNCHANGED <<poolVars, lockVars, cliLock, process, pids, runVars, countVars>>

\* stdout is at its end: the node is completed with the id that is known.
Finish(r) ==
    /\ At(r, "reading") /\ Polls /\ proc[r] = "exited"
    /\ recorded' = [recorded EXCEPT ![r] = captured[r]]
    /\ LeaveCli(r)
    /\ Goes(r, "closing")
    /\ UNCHANGED <<poolVars, lockVars, process, proc, uses, temp, captured, abandoned,
                   countVars>>

-----------------------------------------------------------------------------
(* Cancellation: what CancelledError does where the runner awaits *)

\* Seeded fault: the process is waited for and not told to exit.
KillNothing(s) == proc' = proc

\* session.stop() up to its wait: the process is told to exit.
Kill(s) ==
    proc' = IF Alive(s) THEN [proc EXCEPT ![process[s]] = "killed"] ELSE proc

CancelTask(r) ==
    /\ phase[r] # "new" /\ ~Ended(r) /\ Polls /\ cancels < MaxCancels
    /\ cancelReq' = cancelReq \cup {r}
    /\ cancels' = cancels + 1
    /\ UNCHANGED <<poolVars, lockVars, cliVars, runVars, swept, stops>>

Delivered(r, p) == phase[r] = p /\ r \in cancelReq /\ cancelReq' = cancelReq \ {r}

\* It waits for the manager's lock, and has no session yet.
CancelledAsking(r) ==
    /\ Delivered(r, "asking")
    /\ Goes(r, "done")
    /\ UNCHANGED <<poolVars, lockVars, cliVars, uses, temp, captured, recorded,
                   abandoned, swept, cancels, stops>>

\* It waits for the CLI lock, or for the new process.
CancelledEarly(r) ==
    /\ \/ Delivered(r, "starting") /\ UNCHANGED <<cliLock, pids>>
       \/ Delivered(r, "spawning") /\ LeaveCli(r)
    /\ Goes(r, "closing")
    /\ UNCHANGED <<poolVars, lockVars, process, proc, uses, temp, captured, recorded,
                   abandoned, swept, cancels, stops>>

\* Seeded fault: the process is left alone when its reader is cancelled.
CancelledReadingLeaves(r) ==
    /\ Delivered(r, "reading")
    /\ LeaveCli(r)
    /\ Goes(r, "closing")
    /\ UNCHANGED <<poolVars, lockVars, process, proc, uses, temp, captured, recorded,
                   abandoned, swept, cancels, stops>>

\* It reads: the generator stops the process before it lets the error through.
CancelledReading(r) ==
    /\ Delivered(r, "reading")
    /\ Kill(uses[r])
    /\ Goes(r, "stopping")
    /\ UNCHANGED <<poolVars, lockVars, cliLock, process, pids, uses, temp, captured,
                   recorded, abandoned, swept, cancels, stops>>

\* Cancelled again, it goes on to wait for the end of stderr; then it leaves.
CancelledStopping(r) ==
    /\ \/ Delivered(r, "stopping") /\ Goes(r, "draining") /\ UNCHANGED <<cliLock, pids>>
       \/ Delivered(r, "draining") /\ Goes(r, "closing") /\ LeaveCli(r)
    /\ UNCHANGED <<poolVars, lockVars, process, proc, uses, temp, captured, recorded,
                   abandoned, swept, cancels, stops>>

Stopped(r) ==
    /\ phase[r] \in {"stopping", "draining"} /\ r \notin cancelReq /\ proc[r] = "exited"
    /\ LeaveCli(r)
    /\ Goes(r, "closing")
    /\ UNCHANGED <<poolVars, lockVars, process, proc, uses, temp, captured, recorded,
                   abandoned, countVars>>

\* It waits for the manager's lock between two events: the error is raised
\* outside the generator, which stays suspended and keeps the CLI lock.
CancelledRegistering(r) ==
    /\ Delivered(r, "registering")
    /\ abandoned' = abandoned \cup {r}
    /\ Goes(r, "closing")
    /\ UNCHANGED <<poolVars, lockVars, cliVars, uses, temp, captured, recorded,
                   swept, cancels, stops>>

\* asyncio closes the generator, which waits for the end of stderr.
GeneratorCloses(r) ==
    /\ r \in abandoned /\ proc[r] = "exited"
    /\ abandoned' = abandoned \ {r}
    /\ LeaveCli(r)
    /\ UNCHANGED <<poolVars, lockVars, process, proc, phase, uses, temp, captured,
                   recorded, countVars>>

\* It waits for the lock in remove_session: the session stays in the pool.  Before
\* that, the error is raised in the handlers, whose finally clause goes on.
CancelledClosing(r) ==
    /\ Delivered(r, "closing")
    /\ (lock # NoOne /\ Goes(r, "gone")) \/ UNCHANGED phase
    /\ UNCHANGED <<poolVars, lockVars, cliVars, uses, temp, captured, recorded,
                   abandoned, swept, cancels, stops>>

\* It waits for the process in remove_session: the id maps stay.
CancelledRemoving(r) ==
    /\ Delivered(r, "removing")
    /\ lock' = NoOne /\ stopping' = NoOne
    /\ Goes(r, "done")
    /\ UNCHANGED <<poolVars, todo, stopAll, cliVars, uses, temp, captured, recorded,
                   abandoned, swept, cancels, stops>>

-----------------------------------------------------------------------------
(* remove_session, by the finally clause of the runner *)

Key(r) == IF captured[r] # NoId THEN captured[r] ELSE temp[r]

ForgetMaps(i) ==
    /\ realToTemp' = [realToTemp EXCEPT ![i] = NoId]
    /\ tempToReal' = IF realToTemp[i] = NoId THEN tempToReal
                     ELSE [tempToReal EXCEPT ![realToTemp[i]] = NoId]

\* Seeded fault: a session that never got its real id is not removed.
RemoveRegistered(r) ==
    /\ At(r, "closing") /\ lock = NoOne
    /\ captured[r] = NoId \/ sessions[captured[r]] = NoOne
    /\ Goes(r, "done")
    /\ UNCHANGED <<poolVars, lockVars, cliVars, uses, temp, captured, recorded,
                   abandoned, countVars>>

RemoveNothing(r) ==
    /\ At(r, "closing") /\ lock = NoOne
    /\ pending[Key(r)] = NoOne /\ sessions[Key(r)] = NoOne
    /\ Goes(r, "done")
    /\ UNCHANGED <<poolVars, lockVars, cliVars, uses, temp, captured, recorded,
                   abandoned, countVars>>

\* The session's process is over, or was never started: stop() returns at once.
RemoveIdle(r) ==
    /\ At(r, "closing") /\ lock = NoOne
    /\ \/ /\ pending[Key(r)] # NoOne /\ ~Alive(pending[Key(r)])
          /\ pending' = [pending EXCEPT ![Key(r)] = NoOne]
          /\ UNCHANGED <<sessions, tempToReal, realToTemp>>
       \/ /\ pending[Key(r)] = NoOne
          /\ sessions[Key(r)] # NoOne /\ ~Alive(sessions[Key(r)])
          /\ sessions' = [sessions EXCEPT ![Key(r)] = NoOne]
          /\ ForgetMaps(Key(r))
          /\ UNCHANGED pending
    /\ Goes(r, "done")
    /\ UNCHANGED <<lockVars, cliVars, uses, temp, captured, recorded, abandoned,
                   countVars>>

\* It runs: it is killed, and the lock is held until it is over.
RemoveAlive(r) ==
    /\ At(r, "closing") /\ lock = NoOne
    /\ \/ /\ pending[Key(r)] # NoOne /\ Alive(pending[Key(r)])
          /\ Kill(pending[Key(r)]) /\ stopping' = pending[Key(r)]
          /\ pending' = [pending EXCEPT ![Key(r)] = NoOne]
          /\ UNCHANGED sessions
       \/ /\ pending[Key(r)] = NoOne
          /\ sessions[Key(r)] # NoOne /\ Alive(sessions[Key(r)])
          /\ Kill(sessions[Key(r)]) /\ stopping' = sessions[Key(r)]
          /\ sessions' = [sessions EXCEPT ![Key(r)] = NoOne]
          /\ UNCHANGED pending
    /\ lock' = r
    /\ Goes(r, "removing")
    /\ UNCHANGED <<tempToReal, realToTemp, todo, stopAll, cliLock, process, pids, uses,
                   temp, captured, recorded, abandoned, countVars>>

RemoveEnd(r) ==
    /\ At(r, "removing") /\ ~Alive(stopping)
    /\ pids' = pids \ {process[stopping]}
    /\ IF captured[r] # NoId THEN ForgetMaps(Key(r)) ELSE UNCHANGED <<tempToReal, realToTemp>>
    /\ lock' = NoOne /\ stopping' = NoOne
    /\ Goes(r, "done")
    /\ UNCHANGED <<pending, sessions, todo, stopAll, cliLock, process, proc, uses, temp,
                   captured, recorded, abandoned, countVars>>

-----------------------------------------------------------------------------
(* /stop: cancel the tasks, wait for them for a while, then stop_all *)

StopTasks ==
    /\ stopAll = "idle" /\ Polls /\ stops < MaxStops
    /\ stops' = stops + 1
    /\ stopAll' = "draining"
    /\ LET active == {r \in Runner : phase[r] # "new" /\ ~Ended(r)}
       IN  cancelReq' = cancelReq \cup active /\ swept' = swept \cup active
    /\ UNCHANGED <<poolVars, lock, stopping, todo, cliVars, runVars, cancels>>

\* stop() returns at once where no process runs: it goes on to the next session
\* that has one, or to the end, where it forgets the pool.
StopsNext(left) ==
    \/ /\ \A s \in left : ~Alive(s)
       /\ pending' = [i \in Id |-> NoOne] /\ sessions' = [i \in Id |-> NoOne]
       /\ tempToReal' = [i \in Id |-> NoId] /\ realToTemp' = [i \in Id |-> NoId]
       /\ lock' = NoOne /\ stopping' = NoOne /\ todo' = {} /\ stopAll' = "idle"
       /\ UNCHANGED proc
    \/ \E s \in left : \E idle \in SUBSET {q \in left : ~Alive(q)} :
       /\ Alive(s) /\ Kill(s)
       /\ lock' = Stopper /\ stopping' = s /\ stopAll' = "stopping"
       /\ todo' = left \ (idle \cup {s})
       /\ UNCHANGED poolVars

\* Seeded fault: only the registered sessions are stopped.
StopAllRegistered ==
    /\ stopAll = "draining" /\ lock = NoOne
    /\ StopsNext({sessions[i] : i \in Id} \ {NoOne})
    /\ UNCHANGED <<cliLock, process, pids, runVars, countVars>>

StopAll ==
    /\ stopAll = "draining" /\ lock = NoOne
    /\ StopsNext(Pooled)
    /\ UNCHANGED <<cliLock, process, pids, runVars, countVars>>

StopAllResumes ==
    /\ lock = Stopper /\ ~Alive(stopping)
    /\ pids' = pids \ {process[stopping]}
    /\ StopsNext(todo)
    /\ UNCHANGED <<cliLock, process, runVars, countVars>>

-----------------------------------------------------------------------------
\* The steps of r's own task, which the event loop takes when it can.
RunnerStep(r) ==
    \/ ReuseSession(r) \/ CreateSession(r) \/ CancelledAsking(r) \/ TakeCliLock(r) \/ Spawn(r) \/ SpawnFails(r)
    \/ Register(r) \/ Finish(r) \/ Stopped(r) \/ GeneratorCloses(r)
    \/ CancelledEarly(r) \/ CancelledReading(r) \/ CancelledStopping(r)
    \/ CancelledRegistering(r) \/ CancelledClosing(r) \/ CancelledRemoving(r)
    \/ RemoveNothing(r) \/ RemoveIdle(r) \/ RemoveAlive(r) \/ RemoveEnd(r)

StopAllStep == StopAll \/ StopAllResumes

Next ==
    \/ \E r \in Runner :
        \/ Arrive(r) \/ RunnerStep(r) \/ SessionInfo(r)
        \/ ProcessEnds(r) \/ ProcessDies(r) \/ CancelTask(r)
    \/ StopTasks
    \/ StopAllStep

Spec == Init /\ [][Next]_vars

\* The event loop runs what is ready, and a process that was told to exit does:
\* stop() sends SIGKILL after 5 s.  A CLI that nobody stops may run for ever.
Fairness ==
    /\ \A r \in Runner : WF_vars(RunnerStep(r)) /\ WF_vars(ProcessDies(r))
    /\ WF_vars(StopAllStep)

FairSpec == Spec /\ Fairness
-----------------------------------------------------------------------------
Phase == {"new", "asking", "starting", "spawning", "reading", "registering", "stopping",
          "draining", "closing", "removing", "done", "gone"}

\* Every variable has its type, and the lock is held where the code holds it.
TypeOK ==
    /\ pending \in [Id -> Runner \cup {NoOne}] /\ sessions \in [Id -> Runner \cup {NoOne}]
    /\ tempToReal \in [Id -> Id \cup {NoId}] /\ realToTemp \in [Id -> Id \cup {NoId}]
    /\ lock \in Runner \cup {NoOne, Stopper} /\ stopping \in Runner \cup {NoOne}
    /\ todo \subseteq Runner /\ stopAll \in {"idle", "draining", "stopping"}
    /\ cliLock \in [Runner -> Runner \cup {NoOne}]
    /\ process \in [Runner -> Runner \cup {NoOne}]
    /\ proc \in [Runner -> {"none", "running", "killed", "exited"}]
    /\ pids \subseteq Runner /\ phase \in [Runner -> Phase]
    /\ uses \in [Runner -> Runner \cup {NoOne}]
    /\ temp \in [Runner -> Id \cup {NoId}] /\ captured \in [Runner -> Id \cup {NoId}]
    /\ recorded \in [Runner -> Id \cup {NoId}]
    /\ cancelReq \subseteq Runner /\ swept \subseteq Runner /\ abandoned \subseteq Runner
    /\ cancels \in 0 .. MaxCancels /\ stops \in 0 .. MaxStops
    /\ lock = Stopper <=> stopAll = "stopping"
    /\ \A r \in Runner : lock = r <=> phase[r] = "removing"

\* A session is in the pool under one id only.
PooledOnce ==
    \A s \in Runner :
        Cardinality({i \in Id : pending[i] = s}) + Cardinality({i \in Id : sessions[i] = s}) <= 1

\* Every entry of the pool has a runner that will remove it, except that of a
\* runner that was cancelled while it waited for the lock in remove_session.
EntryHasRemover ==
    \A i \in Id : (pending[i] # NoOne \/ sessions[i] # NoOne) =>
        \E r \in Runner : phase[r] \notin {"new", "asking", "done"} /\ Key(r) = i

\* The safety net reaches every CLI: a process that nobody has told to exit is in
\* the registry that is killed at exit, also when its runner was cancelled.
RunningIsRegistered == \A r \in Runner : proc[r] = "running" => r \in pids

\* A session runs one process at a time, also when two runners share it and one
\* of them was cancelled.
OneProcessPerSession ==
    \A q, r \in Runner : proc[q] = "running" /\ proc[r] = "running" /\ uses[q] = uses[r] => q = r

\* A runner that was cancelled ends, also when its CLI would never end by itself:
\* nobody waits for ever for the manager's lock or for a CLI lock.
CancelledEnds == \A r \in Runner : r \in cancelReq ~> Ended(r)

\* stop_all stops what it finds: a CLI that runs in a session of the pool when
\* stop_all asks for the lock is over some time.
StopAllReaches ==
    \A s \in Runner : stopAll = "draining" /\ s \in Pooled /\ Alive(s) ~> ~Alive(s)

\* What the cancellation in start_task is for: the CLI of a runner that was
\* cancelled does not go on running when the runner has ended.
NoOrphan == \A r \in Runner : Ended(r) => proc[r] # "running"

\* A node that completes keeps the id of the session that its own CLI reported: a
\* reply to it resumes that branch and no other.
BranchKeepsItsId == \A r \in Runner : recorded[r] \in {NoId, Real(r)}

\* stop_all leaves no CLI running in a session that it had in its pool.
AllSessionsStopped ==
    [][\A s \in Runner :
        stopAll # "idle" /\ stopAll' = "idle" /\ s \in Pooled => ~Alive(s)]_vars
=============================================================================
