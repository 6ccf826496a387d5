---------------------------- MODULE MCEventually ----------------------------
(***************************************************************************)
(* What the messaging side owes in the end, on small instances of three    *)
(* components: SessionPersistence, MessageLimiter and ManagedSessions.     *)
(* They share nothing here: a behaviour is one of one component, which the *)
(* first state chooses, and fairness is each component's own.              *)
(***************************************************************************)
EXTENDS MCSessionPersistence

CONSTANTS e1, e2, s1, edit, send, None, MaxRetries, MayBreak
CONSTANTS n1, n2, Origin, NoOne, Stopper, MaxCancels, MaxStops

VARIABLE component
VARIABLES called, overtaken, status, starting, retries, queue, func, futures, worker,
          heldKey, heldFunc, heldFutures, shutdown, shown
VARIABLES pending, sessions, tempToReal, realToTemp, lock, stopping, todo, stopAll,
          cliLock, process, proc, pids, phase, uses, temp, captured, recorded,
          cancelReq, swept, abandoned, cancels, stops

\* Two edits of a status message, of which the first is awaited, and a message sent.
MCRequest == {e1, e2, s1}
MCKey == {edit, send}
MCKeyOf == [r \in MCRequest |-> IF r = s1 THEN send ELSE edit]
MCAwaited == {e1, s1}
Outbox == INSTANCE MessageLimiter WITH
    Request <- MCRequest, Key <- MCKey, KeyOf <- MCKeyOf, Awaited <- MCAwaited

MCRunner == {n1, n2}
Sessions == INSTANCE ManagedSessions WITH Runner <- MCRunner, Forks <- {}

outboxState == <<called, overtaken, status, starting, retries, queue, func, futures,
                 worker, heldKey, heldFunc, heldFutures, shutdown, shown>>
sessionsState == <<pending, sessions, tempToReal, realToTemp, lock, stopping, todo,
                   stopAll, cliLock, process, proc, pids, phase, uses, temp, captured,
                   recorded, cancelReq, swept, abandoned, cancels, stops>>

EventualInit ==
    /\ component \in {"store", "outbox", "sessions"}
    /\ Init /\ Outbox!Init /\ Sessions!Init

EventualNext ==
    /\ UNCHANGED component
    /\ \/ component = "store" /\ Next /\ UNCHANGED <<outboxState, sessionsState>>
       \/ component = "outbox" /\ Outbox!Next /\ UNCHANGED <<vars, sessionsState>>
       \/ component = "sessions" /\ Sessions!Next /\ UNCHANGED <<vars, outboxState>>

\* In the first state of a component none of its fair actions is enabled, so that the
\* fairness of those that were not chosen asks nothing.
EventualSpec ==
    /\ EventualInit
    /\ [][EventualNext]_<<component, vars, outboxState, sessionsState>>
    /\ Fairness /\ Outbox!Fairness /\ Sessions!Fairness

WaitersAreAnswered == Outbox!WaitersAreAnswered
CancelledEnds  == Sessions!CancelledEnds
StopAllReaches == Sessions!StopAllReaches
=============================================================================
