--------------------------- MODULE ProviderLimiter ---------------------------
(***************************************************************************)
(* GlobalRateLimiter (src/providers/rate_limit.py), as the streams of one  *)
(* provider use it: a stream holds a concurrency slot while it is open;    *)
(* every upstream call first waits for the reactive block, then takes a    *)
(* slot of the sliding window; a call that fails with 429 or 5xx sets the  *)
(* block for everybody, sleeps, and is tried again.                        *)
(***************************************************************************)
EXTENDS SlidingWindow

CONSTANTS
    MaxConcurrency,
    MaxCallRetries,
    Delays,        \* backoff delays, jitter included, that an attempt may draw
    FinalBlock,    \* the block set when a 429 is reported to the user
    MaxOpens       \* bound on the times one stream is opened

ASSUME ProviderLimiterAssumption ==
    /\ MaxConcurrency \in Nat \ {0} /\ MaxCallRetries \in Nat /\ MaxOpens \in Nat
    /\ Delays \subseteq Nat \ {0} /\ FinalBlock \in Nat \ {0}

VARIABLES
    blockedUntil,  \* _blocked_until
    phase,         \* per stream, where it is
    attempt,       \* attempts of this execute_with_retry that failed
    opens,         \* times the stream called execute_with_retry
    until,         \* when its sleep for the block that it saw is over
    retryAt,       \* when its own backoff is over
    calls          \* upstream calls made for the stream (history)

limiterVars == <<blockedUntil, phase, attempt, opens, until, retryAt, calls>>
allVars == <<windowVars, limiterVars>>

\* The phases of a stream that holds a concurrency slot.
Opened == {"ready", "blocked", "acquiring", "calling", "backoff", "streaming"}

LimiterInit ==
    /\ WindowInit
    /\ blockedUntil = 0
    /\ phase = [c \in Caller |-> "new"]
    /\ attempt = [c \in Caller |-> 0] /\ opens = [c \in Caller |-> 0]
    /\ until = [c \in Caller |-> 0] /\ retryAt = [c \in Caller |-> 0]
    /\ calls = [c \in Caller |-> 0]

\* concurrency_slot, and the first execute_with_retry
EnterSlot(c) ==
    /\ phase[c] = "new"
    /\ Cardinality({d \in Caller : phase[d] \in Opened}) < MaxConcurrency
    /\ phase' = [phase EXCEPT ![c] = "ready"]
    /\ opens' = [opens EXCEPT ![c] = 1]
    /\ UNCHANGED <<windowVars, blockedUntil, attempt, until, retryAt, calls>>

\* Seeded fault: a retry relies on the block it set instead of sleeping.
AtCheckAtOnce(c) == phase[c] \in {"ready", "backoff"}

\* c is at the top of the retry loop.
AtCheck(c) ==
    \/ phase[c] = "ready"
    \/ phase[c] = "backoff" /\ retryAt[c] <= now + ClockSlack

\* wait_if_blocked: the block is in force.
SleepWhileBlocked(c) ==
    /\ AtCheck(c) /\ now < blockedUntil
    /\ phase' = [phase EXCEPT ![c] = "blocked"]
    /\ until' = [until EXCEPT ![c] = blockedUntil]
    /\ UNCHANGED <<windowVars, blockedUntil, attempt, opens, retryAt, calls>>

\* Seeded fault: the block is not looked at.
PastBlockAlways(c) == AtCheck(c) \/ phase[c] \in {"blocked", "acquiring"}

\* It is not, or the sleep for it is over; it is not looked at again.
PastBlock(c) ==
    \/ AtCheck(c) /\ now >= blockedUntil
    \/ phase[c] = "blocked" /\ until[c] <= now + ClockSlack
    \/ phase[c] = "acquiring"

WaitForWindow(c) ==
    /\ PastBlock(c) /\ MustWait(c)
    /\ phase' = [phase EXCEPT ![c] = "acquiring"]
    /\ UNCHANGED <<blockedUntil, attempt, opens, until, retryAt, calls>>

\* Seeded fault: a retry does not go through the window.
CallWithoutSlot(c) ==
    /\ PastBlock(c)
    /\ \/ Granted(c)
       \/ attempt[c] > 0 /\ c \notin sleeping /\ grants' = Append(grants, now)
          /\ UNCHANGED <<now, times, sleeping, wake>>
    /\ phase' = [phase EXCEPT ![c] = "calling"]
    /\ calls' = [calls EXCEPT ![c] = @ + 1]
    /\ UNCHANGED <<blockedUntil, attempt, opens, until, retryAt>>

\* The call starts as soon as the slot is taken, without suspending between.
CallUpstream(c) ==
    /\ PastBlock(c) /\ Granted(c)
    /\ phase' = [phase EXCEPT ![c] = "calling"]
    /\ calls' = [calls EXCEPT ![c] = @ + 1]
    /\ UNCHANGED <<blockedUntil, attempt, opens, until, retryAt>>

CallSucceeds(c) ==
    /\ phase[c] = "calling"
    /\ phase' = [phase EXCEPT ![c] = "streaming"]
    /\ UNCHANGED <<windowVars, blockedUntil, attempt, opens, until, retryAt, calls>>

\* It fails with 429 or 5xx: the block is set, whatever it was, and c sleeps.
CallBacksOff(c) ==
    /\ phase[c] = "calling" /\ attempt[c] < MaxCallRetries
    /\ \E d \in Delays :
        /\ blockedUntil' = now + d
        /\ retryAt' = [retryAt EXCEPT ![c] = now + d]
    /\ attempt' = [attempt EXCEPT ![c] = @ + 1]
    /\ phase' = [phase EXCEPT ![c] = "backoff"]
    /\ UNCHANGED <<windowVars, opens, until, calls>>

\* It fails for good, or the stream breaks, and the error is mapped for the user:
\* a 429, which a call reports after its last attempt only, blocks the provider.
\* The slot is released.
GiveUp(c) ==
    /\ phase[c] \in {"calling", "streaming"}
    /\ \/ UNCHANGED blockedUntil
       \/ /\ phase[c] = "streaming" \/ attempt[c] = MaxCallRetries
          /\ blockedUntil' = now + FinalBlock
    /\ phase' = [phase EXCEPT ![c] = "done"]
    /\ UNCHANGED <<windowVars, attempt, opens, until, retryAt, calls>>

\* An early retry or a recovery of a stream that was open.
Reopen(c) ==
    /\ phase[c] = "streaming" /\ opens[c] < MaxOpens
    /\ phase' = [phase EXCEPT ![c] = "ready"]
    /\ opens' = [opens EXCEPT ![c] = @ + 1]
    /\ attempt' = [attempt EXCEPT ![c] = 0]
    /\ UNCHANGED <<windowVars, blockedUntil, until, retryAt, calls>>

\* The stream ends, or its client goes away, at any of its awaits.
LeaveStream(c) ==
    /\ phase[c] \in Opened
    /\ phase' = [phase EXCEPT ![c] = "done"]
    /\ IF c \in sleeping THEN Abandons(c) ELSE UNCHANGED windowVars
    /\ UNCHANGED <<blockedUntil, attempt, opens, until, retryAt, calls>>

TimePasses == Tick /\ UNCHANGED limiterVars

LimiterNext ==
    \/ TimePasses
    \/ \E c \in Caller :
        \/ EnterSlot(c) \/ SleepWhileBlocked(c) \/ WaitForWindow(c) \/ CallUpstream(c)
        \/ CallSucceeds(c) \/ CallBacksOff(c) \/ GiveUp(c) \/ Reopen(c) \/ LeaveStream(c)

LimiterSpec == LimiterInit /\ [][LimiterNext]_allVars

-----------------------------------------------------------------------------
\* Every variable has its type, and who sleeps for the window is acquiring.
LimiterTypeOK ==
    /\ WindowTypeOK
    /\ blockedUntil \in Nat
    /\ phase \in [Caller -> Opened \cup {"new", "done"}]
    /\ attempt \in [Caller -> 0 .. MaxCallRetries] /\ opens \in [Caller -> Nat]
    /\ until \in [Caller -> Nat] /\ retryAt \in [Caller -> Nat]
    /\ calls \in [Caller -> Nat]
    /\ sleeping = {c \in Caller : phase[c] = "acquiring"}

IsCalled(c) == phase[c] # "calling" /\ phase'[c] = "calling"

\* A request that was told to back off sleeps its own delay out, also when
\* another request has meanwhile replaced the shared block by a shorter one.
RetryWaitsOutItsDelay ==
    [][\A c \in Caller : IsCalled(c) => now + ClockSlack >= retryAt[c]]_allVars

\* A block that a stream saw is waited for, whoever shortened it since.
SeenBlockIsWaitedFor ==
    [][\A c \in Caller : IsCalled(c) =>
          now + ClockSlack >= until[c] /\ (AtCheck(c) => now >= blockedUntil)]_allVars

\* However often a stream is reopened, each opening makes MaxCallRetries + 1
\* upstream calls at most.
CallsAreBounded == \A c \in Caller : calls[c] <= (MaxCallRetries + 1) * opens[c]

\* "Pauses all requests when a 429 or 5xx retry backoff is active": no upstream
\* call starts inside the block.
PausedWhileBlocked ==
    [][\A c \in Caller : IsCalled(c) => now + ClockSlack >= blockedUntil]_allVars
=============================================================================
