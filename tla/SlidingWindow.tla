---------------------------- MODULE SlidingWindow ----------------------------
(***************************************************************************)
(* StrictSlidingWindowLimiter (src/core/rate_limit.py): callers take slots *)
(* and a caller that finds the window full sleeps until the oldest slot    *)
(* leaves it, then tries again, in competition with whoever came since.    *)
(*                                                                         *)
(* Time is a count of clock ticks.  acquire does not suspend between       *)
(* reading the clock and recording the slot, so a try is one step.         *)
(***************************************************************************)
EXTENDS Naturals, Sequences, FiniteSets

CONSTANTS
    Caller,
    RateLimit,     \* slots in a window
    Window,        \* its length
    ClockSlack,    \* ticks by which asyncio may fire a timer early
    MaxTime        \* bound on the clock

ASSUME WindowAssumption ==
    /\ RateLimit \in Nat \ {0}
    /\ Window \in Nat \ {0}
    /\ ClockSlack \in Nat
    /\ MaxTime \in Nat

VARIABLES
    now,           \* time.monotonic()
    times,         \* _times, oldest slot first
    sleeping,      \* callers in asyncio.sleep
    wake,          \* when each of those asked to be woken
    grants         \* every slot ever taken (history)

windowVars == <<now, times, sleeping, wake, grants>>

\* The slots that the loop over popleft leaves in the deque.
Kept(k) == SubSeq(times, k + 1, Len(times))

\* Seeded fault: a slot leaves the deque one tick too early.
ExpiresEarly(t) == t + Window <= now + 1

\* A slot taken at t is at or before the cutoff.
Expired(t) == t + Window <= now

\* The loop drops k slots: it stops at the first one that has not expired.
DropsExactly(k) ==
    /\ \A i \in 1 .. k : Expired(times[i])
    /\ k < Len(times) => ~Expired(times[k + 1])

WindowInit ==
    /\ now = 0 /\ times = <<>> /\ grants = <<>>
    /\ sleeping = {} /\ wake = [c \in Caller |-> 0]

\* c enters acquire, or its sleep is over.
Tries(c) == c \in sleeping => wake[c] <= now + ClockSlack

\* Seeded fault: after its sleep a caller takes the slot without a new check.
GrantedAfterSleep(c) ==
    /\ Tries(c)
    /\ \E k \in 0 .. Len(times) :
        /\ DropsExactly(k)
        /\ Len(Kept(k)) < RateLimit \/ c \in sleeping
        /\ times' = Append(Kept(k), now)
        /\ grants' = Append(grants, now)
    /\ sleeping' = sleeping \ {c}
    /\ UNCHANGED <<now, wake>>

\* There is room: c takes a slot.
Granted(c) ==
    /\ Tries(c)
    /\ \E k \in 0 .. Len(times) :
        /\ DropsExactly(k)
        /\ Len(Kept(k)) < RateLimit
        /\ times' = Append(Kept(k), now)
        /\ grants' = Append(grants, now)
    /\ sleeping' = sleeping \ {c}
    /\ UNCHANGED <<now, wake>>

\* The window is full: c sleeps until the oldest slot leaves it.
MustWait(c) ==
    /\ Tries(c)
    /\ \E k \in 0 .. Len(times) :
        /\ DropsExactly(k)
        /\ Len(Kept(k)) >= RateLimit
        /\ times' = Kept(k)
        /\ wake' = [wake EXCEPT ![c] = Kept(k)[1] + Window]
    /\ sleeping' = sleeping \cup {c}
    /\ UNCHANGED <<now, grants>>

\* The task of c is cancelled while it sleeps.
Abandons(c) ==
    /\ c \in sleeping
    /\ sleeping' = sleeping \ {c}
    /\ UNCHANGED <<now, times, wake, grants>>

Tick ==
    /\ now < MaxTime
    /\ now' = now + 1
    /\ UNCHANGED <<times, sleeping, wake, grants>>

WindowNext == Tick \/ \E c \in Caller : Granted(c) \/ MustWait(c) \/ Abandons(c)

WindowSpec == WindowInit /\ [][WindowNext]_windowVars

-----------------------------------------------------------------------------
WindowTypeOK ==
    /\ now \in Nat
    /\ times \in Seq(Nat) /\ grants \in Seq(Nat)
    /\ sleeping \subseteq Caller /\ wake \in [Caller -> Nat]

\* At most RateLimit slots are taken in any interval of length Window: the slot
\* RateLimit places after another one is taken a window later at least, however
\* many callers sleep, are cancelled, or wake at the same moment.
AtMostRateLimit ==
    \A i \in DOMAIN grants :
        i + RateLimit \in DOMAIN grants => grants[i] + Window <= grants[i + RateLimit]

\* No slot is wasted: while a caller still has to sleep, the window really holds
\* RateLimit slots.
SleepsOnlyWhenFull ==
    \A c \in sleeping : now < wake[c] =>
        Cardinality({i \in DOMAIN grants : ~Expired(grants[i])}) >= RateLimit
=============================================================================
