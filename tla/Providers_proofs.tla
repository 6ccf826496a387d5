--------------------------- MODULE Providers_proofs ---------------------------
(***************************************************************************)
(* Proofs about the providers of the gateway: SlidingWindow,               *)
(* ProviderLimiter and ProviderRuntimes, for any number of streams,        *)
(* providers, requests and updates, and any limits.                        *)
(*                                                                         *)
(* The window: its deque is a suffix of the history of grants, and what    *)
(* was dropped has expired, so the slot RateLimit places back has, too.    *)
(* The limiter: its streams are callers of one sliding window, so what is  *)
(* proved of the window holds of the upstream calls; and no retry comes    *)
(* early.  The runtimes: whoever replaces or stops one has all that is     *)
(* open in it on his list.                                                 *)
(***************************************************************************)
EXTENDS ProviderLimiter, ProviderRuntimes, FiniteSetTheorems, SequenceTheorems, TLAPS

\* The deque holds the last slots taken, and the others have expired.
Forgotten == Len(grants) - Len(times)

DequeIsSuffix ==
    /\ Len(times) <= Len(grants)
    /\ \A i \in 1 .. Len(times) : times[i] = grants[Forgotten + i]
    /\ \A i \in 1 .. Forgotten : Expired(grants[i])

\* Slots are taken in the order of time.
InOrder ==
    /\ \A i, j \in DOMAIN grants : i <= j => grants[i] <= grants[j]
    /\ \A i \in DOMAIN grants : grants[i] <= now

\* A sleeper waits for a slot that RateLimit - 1 others followed.
SleepersWait ==
    \A c \in sleeping : \E i \in DOMAIN grants :
        /\ wake[c] = grants[i] + Window
        /\ i + RateLimit - 1 <= Len(grants)

WInv ==
    /\ WindowTypeOK
    /\ DequeIsSuffix
    /\ InOrder
    /\ SleepersWait
    /\ AtMostRateLimit

-----------------------------------------------------------------------------
LEMMA InitWInv == WindowInit => WInv
<1> SUFFICES ASSUME WindowInit
             PROVE  WInv
  OBVIOUS
<1>1. <<>> \in Seq(Nat) /\ DOMAIN <<>> = {} /\ Len(<<>>) = 0
  OBVIOUS
<1> QED
  BY <1>1
  DEF WindowInit, WInv, WindowTypeOK, DequeIsSuffix, Forgotten, InOrder, SleepersWait,
      AtMostRateLimit

\* What a try leaves in the deque is a suffix of the history, too.
LEMMA KeptFacts ==
    ASSUME WInv, NEW k \in 0 .. Len(times), DropsExactly(k)
    PROVE  LET r == Kept(k)
               f == Len(grants) - Len(r)
           IN  /\ r \in Seq(Nat) /\ Len(r) = Len(times) - k /\ f \in 0 .. Len(grants)
               /\ \A i \in 1 .. Len(r) : r[i] = grants[f + i]
               /\ \A i \in 1 .. f : Expired(grants[i])
<1> DEFINE r == Kept(k)
           f == Len(grants) - Len(r)
<1>0. times \in Seq(Nat) /\ grants \in Seq(Nat) /\ Len(times) \in Nat /\ Len(grants) \in Nat
  BY DEF WInv, WindowTypeOK
<1>1. /\ r \in Seq(Nat) /\ Len(r) = Len(times) - k
      /\ \A i \in 1 .. Len(r) : r[i] = times[k + i]
  BY <1>0 DEF Kept
<1>2. Len(times) <= Len(grants)
  BY DEF WInv, DequeIsSuffix
<1> HIDE DEF r
<1>3. /\ f = Forgotten + k /\ f \in 0 .. Len(grants) /\ f \in Nat /\ Forgotten \in Nat
      /\ k \in Nat /\ k <= Len(times)
  BY <1>0, <1>1, <1>2 DEF Forgotten
<1> HIDE DEF f
<1>4. ASSUME NEW i \in 1 .. Len(r) PROVE r[i] = grants[f + i]
  <2>1. i \in Nat /\ i >= 1 /\ i <= Len(times) - k
    BY <1>0, <1>1, <1>3
  <2>2. k + i \in 1 .. Len(times)
    BY <1>0, <1>3, <2>1
  <2>3. Forgotten + (k + i) = f + i
    BY <1>3, <2>1
  <2>4. times[k + i] = grants[Forgotten + (k + i)]
    BY <2>2 DEF WInv, DequeIsSuffix
  <2> QED
    BY <1>1, <2>3, <2>4
<1>5. ASSUME NEW i \in 1 .. f PROVE Expired(grants[i])
  <2>1. CASE i <= Forgotten
    BY <1>3, <2>1 DEF WInv, DequeIsSuffix
  <2>2. CASE i > Forgotten
    <3>1. i - Forgotten \in 1 .. k /\ i - Forgotten \in 1 .. Len(times)
          /\ Forgotten + (i - Forgotten) = i
      BY <1>0, <1>3, <2>2
    <3>2. Expired(times[i - Forgotten])
      BY <3>1 DEF DropsExactly
    <3>3. times[i - Forgotten] = grants[Forgotten + (i - Forgotten)]
      BY <3>1 DEF WInv, DequeIsSuffix
    <3> QED
      BY <3>1, <3>2, <3>3
  <2> QED
    BY <1>3, <2>1, <2>2
<1> QED
  BY <1>1, <1>3, <1>4, <1>5 DEF r, f

LEMMA GrantedWInv ==
    ASSUME WInv, NEW c \in Caller, Granted(c)
    PROVE  WInv'
<1> USE WindowAssumption
<1>0. /\ times \in Seq(Nat) /\ grants \in Seq(Nat) /\ now \in Nat /\ now' = now
      /\ Len(grants) \in Nat /\ DOMAIN grants = 1 .. Len(grants)
  BY DEF WInv, WindowTypeOK, Granted
<1>1. PICK k \in 0 .. Len(times) :
        /\ DropsExactly(k) /\ Len(Kept(k)) < RateLimit
        /\ times' = Append(Kept(k), now) /\ grants' = Append(grants, now)
  BY DEF Granted
<1> DEFINE r == Kept(k)
           f == Len(grants) - Len(r)
<1>2. /\ r \in Seq(Nat) /\ Len(r) < RateLimit /\ Len(r) \in Nat /\ f \in 0 .. Len(grants)
      /\ \A i \in 1 .. Len(r) : r[i] = grants[f + i]
      /\ \A i \in 1 .. f : grants[i] + Window <= now
      /\ times' = Append(r, now)
  BY <1>1, KeptFacts DEF Expired
<1> HIDE DEF r
<1>3. /\ grants' \in Seq(Nat) /\ Len(grants') = Len(grants) + 1
      /\ DOMAIN grants' = 1 .. (Len(grants) + 1)
      /\ \A i \in 1 .. Len(grants) : grants'[i] = grants[i]
      /\ grants'[Len(grants) + 1] = now
  BY <1>0, <1>1
<1>4. /\ times' \in Seq(Nat) /\ Len(times') = Len(r) + 1
      /\ \A i \in 1 .. Len(r) : times'[i] = r[i]
      /\ times'[Len(r) + 1] = now
  BY <1>0, <1>2
<1>5. WindowTypeOK'
  BY <1>0, <1>3, <1>4 DEF WInv, WindowTypeOK, Granted
<1>6. DequeIsSuffix'
  <2>1. Forgotten' = f
    BY <1>0, <1>2, <1>3, <1>4 DEF Forgotten
  <2>2. Len(times') <= Len(grants')
    BY <1>2, <1>3, <1>4
  <2>3. ASSUME NEW i \in 1 .. Len(times')
        PROVE  times'[i] = grants'[f + i]
    <3>1. CASE i \in 1 .. Len(r)
      <4>1. f + i \in 1 .. Len(grants)
        BY <1>0, <1>2, <3>1
      <4> QED
        BY <1>2, <1>3, <1>4, <3>1, <4>1
    <3>2. CASE i = Len(r) + 1
      <4>1. f + i = Len(grants) + 1
        BY <1>0, <1>2, <3>2
      <4> QED
        BY <1>3, <1>4, <3>2, <4>1
    <3> QED
      BY <1>2, <1>4, <3>1, <3>2
  <2>4. ASSUME NEW i \in 1 .. f
        PROVE  grants'[i] + Window <= now'
    BY <1>0, <1>2, <1>3
  <2> QED
    BY <2>1, <2>2, <2>3, <2>4 DEF DequeIsSuffix, Expired
<1>7. InOrder'
  <2>1. ASSUME NEW i \in 1 .. (Len(grants) + 1)
        PROVE  grants'[i] <= now
    <3>1. CASE i \in 1 .. Len(grants)
      BY <1>0, <1>3, <3>1 DEF WInv, InOrder
    <3>2. CASE i = Len(grants) + 1
      BY <1>0, <1>3, <3>2
    <3> QED
      BY <1>0, <3>1, <3>2
  <2>2. ASSUME NEW i \in 1 .. (Len(grants) + 1), NEW j \in 1 .. (Len(grants) + 1), i <= j
        PROVE  grants'[i] <= grants'[j]
    <3>1. CASE j \in 1 .. Len(grants)
      <4>1. i \in 1 .. Len(grants)
        BY <1>0, <2>2, <3>1
      <4> QED
        BY <1>0, <1>3, <2>2, <3>1, <4>1 DEF WInv, InOrder
    <3>2. CASE j = Len(grants) + 1
      BY <1>3, <2>1, <3>2
    <3> QED
      BY <1>0, <3>1, <3>2
  <2> QED
    BY <1>0, <1>3, <2>1, <2>2 DEF InOrder
<1>8. SleepersWait'
  <2> SUFFICES ASSUME NEW d \in sleeping'
               PROVE  \E i \in DOMAIN grants' : /\ wake'[d] = grants'[i] + Window
                                                /\ i + RateLimit - 1 <= Len(grants')
    BY DEF SleepersWait
  <2>1. d \in sleeping /\ wake' = wake
    BY DEF Granted
  <2>2. PICK i \in DOMAIN grants : wake[d] = grants[i] + Window
                                   /\ i + RateLimit - 1 <= Len(grants)
    BY <2>1 DEF WInv, SleepersWait
  <2> QED
    BY <1>0, <1>3, <2>1, <2>2
<1>9. AtMostRateLimit'
  <2> SUFFICES ASSUME NEW i \in DOMAIN grants', i + RateLimit \in DOMAIN grants'
               PROVE  grants'[i] + Window <= grants'[i + RateLimit]
    BY DEF AtMostRateLimit
  <2>0. i \in Nat /\ i >= 1 /\ RateLimit \in Nat /\ RateLimit > 0
    BY <1>3
  <2>1. CASE i + RateLimit <= Len(grants)
    <3>1. i \in 1 .. Len(grants) /\ i + RateLimit \in 1 .. Len(grants)
      BY <1>0, <2>0, <2>1
    <3> QED
      BY <1>0, <1>3, <3>1 DEF WInv, AtMostRateLimit
  <2>2. CASE i + RateLimit = Len(grants) + 1
    <3>1. i \in 1 .. f /\ i \in 1 .. Len(grants)
      BY <1>0, <1>2, <2>0, <2>2
    <3> QED
      BY <1>2, <1>3, <2>2, <3>1
  <2> QED
    BY <1>0, <1>3, <2>1, <2>2
<1> QED
  BY <1>5, <1>6, <1>7, <1>8, <1>9 DEF WInv

LEMMA MustWaitWInv ==
    ASSUME WInv, NEW c \in Caller, MustWait(c)
    PROVE  WInv'
<1> USE WindowAssumption
<1>0. /\ times \in Seq(Nat) /\ grants \in Seq(Nat) /\ now \in Nat
      /\ Len(grants) \in Nat /\ DOMAIN grants = 1 .. Len(grants)
      /\ now' = now /\ grants' = grants /\ sleeping' = sleeping \cup {c}
      /\ wake \in [Caller -> Nat] /\ sleeping \subseteq Caller
  BY DEF WInv, WindowTypeOK, MustWait
<1>1. PICK k \in 0 .. Len(times) :
        /\ DropsExactly(k) /\ Len(Kept(k)) >= RateLimit
        /\ times' = Kept(k) /\ wake' = [wake EXCEPT ![c] = Kept(k)[1] + Window]
  BY DEF MustWait
<1> DEFINE r == Kept(k)
           f == Len(grants) - Len(r)
<1>2. /\ r \in Seq(Nat) /\ Len(r) >= RateLimit /\ Len(r) \in Nat /\ f \in 0 .. Len(grants)
      /\ \A i \in 1 .. Len(r) : r[i] = grants[f + i]
      /\ \A i \in 1 .. f : grants[i] + Window <= now
      /\ times' = r /\ wake' = [wake EXCEPT ![c] = r[1] + Window]
  <2>1. times' = r /\ wake' = [wake EXCEPT ![c] = r[1] + Window] /\ Len(r) >= RateLimit
    BY <1>1
  <2>2. /\ r \in Seq(Nat) /\ f \in 0 .. Len(grants)
        /\ \A i \in 1 .. Len(r) : r[i] = grants[f + i]
        /\ \A i \in 1 .. f : Expired(grants[i])
    BY <1>1, KeptFacts
  <2> HIDE DEF r
  <2>3. Len(r) \in Nat
    BY <2>2
  <2> QED
    BY <2>1, <2>2, <2>3 DEF Expired
<1> HIDE DEF r
<1>3. /\ f + 1 \in DOMAIN grants /\ r[1] = grants[f + 1] /\ r[1] \in Nat
      /\ (f + 1) + RateLimit - 1 <= Len(grants)
  <2>1. RateLimit \in Nat /\ RateLimit >= 1 /\ f + Len(r) = Len(grants)
    BY <1>0, <1>2
  <2>2. 1 \in 1 .. Len(r) /\ r[1] \in Nat
    BY <1>2, <2>1
  <2> QED
    BY <1>0, <1>2, <2>1, <2>2
<1>4. WindowTypeOK'
  <2>1. r[1] + Window \in Nat
    BY <1>3
  <2>2. wake' \in [Caller -> Nat]
    BY <1>0, <1>2, <2>1
  <2> QED
    BY <1>0, <1>2, <2>2 DEF WindowTypeOK
<1>5. DequeIsSuffix'
  BY <1>0, <1>2 DEF DequeIsSuffix, Forgotten, Expired
<1>6. InOrder' /\ AtMostRateLimit'
  BY <1>0 DEF WInv, InOrder, AtMostRateLimit
<1>7. SleepersWait'
  <2> SUFFICES ASSUME NEW d \in sleeping'
               PROVE  \E i \in DOMAIN grants : /\ wake'[d] = grants[i] + Window
                                               /\ i + RateLimit - 1 <= Len(grants)
    BY <1>0 DEF SleepersWait
  <2>1. CASE d = c
    BY <1>0, <1>2, <1>3, <2>1
  <2>2. CASE d # c
    BY <1>0, <1>2, <2>2 DEF WInv, SleepersWait
  <2> QED
    BY <2>1, <2>2
<1> QED
  BY <1>4, <1>5, <1>6, <1>7 DEF WInv

LEMMA NextWInv == WInv /\ [WindowNext]_windowVars => WInv'
<1> SUFFICES ASSUME WInv, [WindowNext]_windowVars
             PROVE  WInv'
  OBVIOUS
<1>1. CASE Tick
  <2>1. /\ now' = now + 1 /\ now \in Nat /\ grants \in Seq(Nat)
        /\ UNCHANGED <<times, sleeping, wake, grants>>
    BY <1>1 DEF Tick, WInv, WindowTypeOK
  <2>2. WindowTypeOK' /\ SleepersWait' /\ AtMostRateLimit'
    BY <2>1 DEF WInv, WindowTypeOK, SleepersWait, AtMostRateLimit
  <2>3. DequeIsSuffix'
    <3>1. Forgotten' = Forgotten /\ Forgotten \in Nat /\ Forgotten <= Len(grants)
      BY <2>1 DEF Forgotten, WInv, WindowTypeOK, DequeIsSuffix
    <3>2. \A i \in 1 .. Forgotten : grants[i] \in Nat
      BY <2>1, <3>1
    <3> QED
      BY <2>1, <3>1, <3>2, WindowAssumption DEF WInv, DequeIsSuffix, Expired
  <2>4. InOrder'
    BY <2>1 DEF WInv, InOrder
  <2> QED
    BY <2>2, <2>3, <2>4 DEF WInv
<1>2. CASE \E c \in Caller : Abandons(c)
  BY <1>2
  DEF Abandons, WInv, WindowTypeOK, DequeIsSuffix, Forgotten, Expired, InOrder,
      SleepersWait, AtMostRateLimit
<1>3. CASE UNCHANGED windowVars
  BY <1>3
  DEF windowVars, WInv, WindowTypeOK, DequeIsSuffix, Forgotten, Expired, InOrder,
      SleepersWait, AtMostRateLimit
<1> QED
  BY <1>1, <1>2, <1>3, GrantedWInv, MustWaitWInv DEF WindowNext

THEOREM WindowInductive == WindowSpec => []WInv
BY InitWInv, NextWInv, PTL DEF WindowSpec

\* The limit of StrictSlidingWindowLimiter holds for every limit, window, number
\* of callers and clock: its docstring's guarantee.
THEOREM AtMostRateLimitCorrect == WindowSpec => []AtMostRateLimit
<1>1. WInv => AtMostRateLimit
  BY DEF WInv
<1> QED
  BY <1>1, WindowInductive, PTL

\* No caller sleeps while a slot is free.
THEOREM SleepsOnlyWhenFullCorrect == WindowSpec => []SleepsOnlyWhenFull
<1>1. WInv => SleepsOnlyWhenFull
  <2> SUFFICES ASSUME WInv, NEW c \in sleeping, now < wake[c]
               PROVE  Cardinality({i \in DOMAIN grants : ~Expired(grants[i])}) >= RateLimit
    BY DEF SleepsOnlyWhenFull
  <2> USE WindowAssumption
  <2> DEFINE Fresh == {i \in DOMAIN grants : ~Expired(grants[i])}
  <2>0. /\ grants \in Seq(Nat) /\ Len(grants) \in Nat /\ DOMAIN grants = 1 .. Len(grants)
        /\ now \in Nat
    BY DEF WInv, WindowTypeOK
  <2>1. PICK i \in DOMAIN grants : /\ wake[c] = grants[i] + Window
                                   /\ i + RateLimit - 1 <= Len(grants)
    BY DEF WInv, SleepersWait
  <2> DEFINE Last == i .. (i + RateLimit - 1)
  <2>2. i \in Nat /\ i \in Int /\ i + RateLimit - 1 \in Int /\ i <= i + RateLimit - 1
    BY <2>0, <2>1
  <2>3. Last \subseteq Fresh
    <3> SUFFICES ASSUME NEW j \in Last PROVE j \in Fresh
      OBVIOUS
    <3>1. j \in DOMAIN grants /\ i <= j
      BY <2>0, <2>1, <2>2
    <3>2. grants[i] <= grants[j] /\ grants[i] \in Nat /\ grants[j] \in Nat
      BY <2>0, <2>1, <3>1 DEF WInv, InOrder
    <3> QED
      BY <2>0, <2>1, <3>1, <3>2 DEF Expired
  <2>4. IsFiniteSet(Last) /\ Cardinality(Last) = RateLimit
    BY <2>2, FS_Interval
  <2>5. IsFiniteSet(Fresh)
    <3>1. IsFiniteSet(1 .. Len(grants))
      BY <2>0, FS_Interval
    <3> QED
      BY <2>0, <3>1, FS_Subset
  <2>6. Cardinality(Last) <= Cardinality(Fresh) /\ Cardinality(Fresh) \in Nat
    BY <2>3, <2>5, FS_Subset, FS_CardinalityType
  <2> QED
    BY <2>4, <2>6
<1> QED
  BY <1>1, WindowInductive, PTL

-----------------------------------------------------------------------------
\* Only a stream that sleeps for the block, or for its backoff, is early.
WaitsInv ==
    \A c \in Caller :
        /\ phase[c] \notin {"blocked", "done"} => until[c] <= now + ClockSlack
        /\ phase[c] \notin {"backoff", "done"} => retryAt[c] <= now + ClockSlack

\* The calls of the openings that are over, and of the one under way.
CountInv ==
    \A c \in Caller :
        /\ phase[c] = "new" => calls[c] = 0 /\ attempt[c] = 0
        /\ phase[c] \in {"ready", "blocked", "acquiring", "backoff"} =>
              calls[c] <= (MaxCallRetries + 1) * (opens[c] - 1) + attempt[c]
        /\ phase[c] \in {"calling", "streaming"} =>
              calls[c] <= (MaxCallRetries + 1) * (opens[c] - 1) + attempt[c] + 1
        /\ phase[c] = "done" => calls[c] <= (MaxCallRetries + 1) * opens[c]

-----------------------------------------------------------------------------
LEMMA WindowStep == [LimiterNext]_allVars => [WindowNext]_windowVars
<1> SUFFICES ASSUME LimiterNext
             PROVE  [WindowNext]_windowVars
  BY DEF allVars
<1>1. CASE TimePasses
  BY <1>1 DEF TimePasses, WindowNext
<1>2. ASSUME NEW c \in Caller, WaitForWindow(c) \/ CallUpstream(c)
      PROVE  WindowNext
  BY <1>2 DEF WaitForWindow, CallUpstream, WindowNext
<1>3. ASSUME NEW c \in Caller, LeaveStream(c)
      PROVE  [WindowNext]_windowVars
  BY <1>3 DEF LeaveStream, WindowNext
<1>4. ASSUME NEW c \in Caller,
             EnterSlot(c) \/ SleepWhileBlocked(c) \/ CallSucceeds(c) \/ CallBacksOff(c)
                \/ GiveUp(c) \/ Reopen(c)
      PROVE  UNCHANGED windowVars
  BY <1>4 DEF EnterSlot, SleepWhileBlocked, CallSucceeds, CallBacksOff, GiveUp, Reopen
<1> QED
  BY <1>1, <1>2, <1>3, <1>4 DEF LimiterNext

\* The streams of a provider use one sliding window, and nothing but its steps.
THEOREM ImplementsWindow == LimiterSpec => WindowSpec
<1>1. LimiterInit => WindowInit
  BY DEF LimiterInit
<1> QED
  BY <1>1, WindowStep, PTL DEF LimiterSpec, WindowSpec

\* At most RateLimit upstream calls start in any window, retries included: a call
\* starts in the step that takes its slot.
THEOREM CallsWithinLimit == LimiterSpec => []AtMostRateLimit
BY ImplementsWindow, AtMostRateLimitCorrect, PTL

-----------------------------------------------------------------------------
\* The types of the variables of the limiter.
LTypes ==
    /\ now \in Nat /\ blockedUntil \in Nat
    /\ phase \in [Caller -> Opened \cup {"new", "done"}]
    /\ attempt \in [Caller -> 0 .. MaxCallRetries] /\ opens \in [Caller -> Nat]
    /\ until \in [Caller -> Nat] /\ retryAt \in [Caller -> Nat]
    /\ calls \in [Caller -> Nat]

LInv == LTypes /\ WaitsInv /\ CountInv

LEMMA LInit == LimiterInit => LInv
BY ProviderLimiterAssumption, WindowAssumption
DEF LimiterInit, WindowInit, LInv, LTypes, WaitsInv, CountInv, Opened

\* A step of one stream, or of the clock.
LEMMA LStep == LInv /\ [LimiterNext]_allVars => LInv'
<1> SUFFICES ASSUME LInv, [LimiterNext]_allVars
             PROVE  LInv'
  OBVIOUS
<1> USE ProviderLimiterAssumption, WindowAssumption
<1>1. CASE TimePasses
  BY <1>1 DEF TimePasses, Tick, limiterVars, LInv, LTypes, WaitsInv, CountInv
<1>2. ASSUME NEW c \in Caller, EnterSlot(c)
      PROVE  LInv'
  <2>1. now' = now
    BY <1>2 DEF EnterSlot, windowVars
  <2>2. LTypes'
    BY <1>2, <2>1 DEF EnterSlot, LInv, LTypes, Opened
  <2>3. WaitsInv'
    BY <1>2, <2>1 DEF EnterSlot, LInv, LTypes, WaitsInv
  <2>4. CountInv'
    BY <1>2 DEF EnterSlot, LInv, LTypes, CountInv
  <2> QED
    BY <2>2, <2>3, <2>4 DEF LInv
<1>3. ASSUME NEW c \in Caller, SleepWhileBlocked(c)
      PROVE  LInv'
  <2>1. now' = now
    BY <1>3 DEF SleepWhileBlocked, windowVars
  <2>2. LTypes'
    BY <1>3, <2>1 DEF SleepWhileBlocked, LInv, LTypes, Opened
  <2>3. WaitsInv'
    BY <1>3, <2>1 DEF SleepWhileBlocked, AtCheck, LInv, LTypes, WaitsInv
  <2>4. CountInv'
    BY <1>3 DEF SleepWhileBlocked, AtCheck, LInv, LTypes, CountInv
  <2> QED
    BY <2>2, <2>3, <2>4 DEF LInv
<1>4. ASSUME NEW c \in Caller, WaitForWindow(c)
      PROVE  LInv'
  <2>1. now' = now
    BY <1>4 DEF WaitForWindow, MustWait
  <2>2. LTypes'
    BY <1>4, <2>1 DEF WaitForWindow, LInv, LTypes, Opened
  <2>3. WaitsInv'
    BY <1>4, <2>1 DEF WaitForWindow, PastBlock, AtCheck, LInv, LTypes, WaitsInv
  <2>4. CountInv'
    BY <1>4 DEF WaitForWindow, PastBlock, AtCheck, LInv, LTypes, CountInv
  <2> QED
    BY <2>2, <2>3, <2>4 DEF LInv
<1>5. ASSUME NEW c \in Caller, CallUpstream(c)
      PROVE  LInv'
  <2>1. now' = now
    BY <1>5 DEF CallUpstream, Granted
  <2>2. LTypes'
    BY <1>5, <2>1 DEF CallUpstream, LInv, LTypes, Opened
  <2>3. WaitsInv'
    BY <1>5, <2>1 DEF CallUpstream, PastBlock, AtCheck, LInv, LTypes, WaitsInv
  <2>4. CountInv'
    BY <1>5 DEF CallUpstream, PastBlock, AtCheck, LInv, LTypes, CountInv
  <2> QED
    BY <2>2, <2>3, <2>4 DEF LInv
<1>6. ASSUME NEW c \in Caller, CallSucceeds(c)
      PROVE  LInv'
  <2>1. now' = now
    BY <1>6 DEF CallSucceeds, windowVars
  <2>2. LTypes' /\ WaitsInv' /\ CountInv'
    BY <1>6, <2>1 DEF CallSucceeds, LInv, LTypes, Opened, WaitsInv, CountInv
  <2> QED
    BY <2>2 DEF LInv
<1>7. ASSUME NEW c \in Caller, CallBacksOff(c)
      PROVE  LInv'
  <2>1. now' = now
    BY <1>7 DEF CallBacksOff, windowVars
  <2>2. PICK d \in Delays : /\ blockedUntil' = now + d
                            /\ retryAt' = [retryAt EXCEPT ![c] = now + d]
    BY <1>7 DEF CallBacksOff
  <2>3. d \in Nat
    OBVIOUS
  <2>4. LTypes'
    BY <1>7, <2>1, <2>2, <2>3 DEF CallBacksOff, LInv, LTypes, Opened
  <2>5. WaitsInv'
    BY <1>7, <2>1, <2>2, <2>3 DEF CallBacksOff, LInv, LTypes, WaitsInv
  <2>6. CountInv'
    BY <1>7 DEF CallBacksOff, LInv, LTypes, CountInv
  <2> QED
    BY <2>4, <2>5, <2>6 DEF LInv
<1>8. ASSUME NEW c \in Caller, GiveUp(c) \/ LeaveStream(c)
      PROVE  LInv'
  <2>1. now' = now
    BY <1>8 DEF GiveUp, LeaveStream, Abandons, windowVars
  <2>2. LTypes'
    BY <1>8, <2>1 DEF GiveUp, LeaveStream, LInv, LTypes, Opened
  <2>3. WaitsInv'
    BY <1>8, <2>1 DEF GiveUp, LeaveStream, LInv, LTypes, WaitsInv
  <2>4. CountInv'
    <3>1. phase[c] \in Opened /\ phase' = [phase EXCEPT ![c] = "done"]
          /\ UNCHANGED <<attempt, opens, calls>>
      BY <1>8 DEF GiveUp, LeaveStream, Opened
    <3>2. calls[c] <= (MaxCallRetries + 1) * (opens[c] - 1) + attempt[c] + 1
      BY <3>1 DEF LInv, LTypes, CountInv, Opened
    <3>3. attempt[c] <= MaxCallRetries /\ attempt[c] \in Nat /\ opens[c] \in Nat /\ calls[c] \in Nat
      BY DEF LInv, LTypes
    <3>4. (MaxCallRetries + 1) * (opens[c] - 1) + (MaxCallRetries + 1) = (MaxCallRetries + 1) * opens[c]
      BY <3>3
    <3>5. (MaxCallRetries + 1) * (opens[c] - 1) \in Int /\ (MaxCallRetries + 1) * opens[c] \in Int
      BY <3>3
    <3>6. calls[c] <= (MaxCallRetries + 1) * opens[c]
      BY <3>2, <3>3, <3>4, <3>5
    <3> QED
      BY <3>1, <3>6 DEF LInv, LTypes, CountInv
  <2> QED
    BY <2>2, <2>3, <2>4 DEF LInv
<1>9. ASSUME NEW c \in Caller, Reopen(c)
      PROVE  LInv'
  <2>1. now' = now
    BY <1>9 DEF Reopen, windowVars
  <2>2. LTypes'
    BY <1>9, <2>1 DEF Reopen, LInv, LTypes, Opened
  <2>3. WaitsInv'
    BY <1>9, <2>1 DEF Reopen, LInv, LTypes, WaitsInv
  <2>4. CountInv'
    <3>1. phase[c] = "streaming" /\ phase' = [phase EXCEPT ![c] = "ready"]
          /\ opens' = [opens EXCEPT ![c] = opens[c] + 1]
          /\ attempt' = [attempt EXCEPT ![c] = 0] /\ calls' = calls
      BY <1>9 DEF Reopen
    <3>2. calls[c] <= (MaxCallRetries + 1) * (opens[c] - 1) + attempt[c] + 1
      BY <3>1 DEF LInv, LTypes, CountInv
    <3>3. attempt[c] <= MaxCallRetries /\ attempt[c] \in Nat /\ opens[c] \in Nat /\ calls[c] \in Nat
      BY DEF LInv, LTypes
    <3>4. (MaxCallRetries + 1) * (opens[c] - 1) + (MaxCallRetries + 1)
             = (MaxCallRetries + 1) * ((opens[c] + 1) - 1)
      BY <3>3
    <3>5. (MaxCallRetries + 1) * (opens[c] - 1) \in Int
          /\ (MaxCallRetries + 1) * ((opens[c] + 1) - 1) \in Int
      BY <3>3
    <3>6. calls[c] <= (MaxCallRetries + 1) * ((opens[c] + 1) - 1)
      BY <3>2, <3>3, <3>4, <3>5
    <3>7. attempt'[c] = 0 /\ opens'[c] = opens[c] + 1
      BY <3>1 DEF LInv, LTypes
    <3>8. calls[c] <= (MaxCallRetries + 1) * (opens'[c] - 1) + attempt'[c]
      BY <3>3, <3>5, <3>6, <3>7
    <3> QED
      BY <3>1, <3>8 DEF LInv, LTypes, CountInv
  <2> QED
    BY <2>2, <2>3, <2>4 DEF LInv
<1>10. CASE UNCHANGED allVars
  BY <1>10 DEF allVars, windowVars, limiterVars, LInv, LTypes, WaitsInv, CountInv
<1> QED
  BY <1>1, <1>2, <1>3, <1>4, <1>5, <1>6, <1>7, <1>8, <1>9, <1>10 DEF LimiterNext

THEOREM LimiterInductive == LimiterSpec => []LInv
BY LInit, LStep, PTL DEF LimiterSpec

\* Each opening of a stream makes MaxCallRetries + 1 upstream calls at most.
THEOREM CallsAreBoundedCorrect == LimiterSpec => []CallsAreBounded
<1>1. LInv => CallsAreBounded
  <2> SUFFICES ASSUME LInv, NEW c \in Caller
               PROVE  calls[c] <= (MaxCallRetries + 1) * opens[c]
    BY DEF CallsAreBounded
  <2> USE ProviderLimiterAssumption
  <2>1. attempt[c] <= MaxCallRetries /\ attempt[c] \in Nat /\ opens[c] \in Nat /\ calls[c] \in Nat
    BY DEF LInv, LTypes
  <2>2. (MaxCallRetries + 1) * (opens[c] - 1) + (MaxCallRetries + 1) = (MaxCallRetries + 1) * opens[c]
    BY <2>1
  <2>3. (MaxCallRetries + 1) * (opens[c] - 1) \in Int /\ (MaxCallRetries + 1) * opens[c] \in Nat
    BY <2>1
  <2>4. CASE phase[c] \in Opened
    <3>1. calls[c] <= (MaxCallRetries + 1) * (opens[c] - 1) + attempt[c] + 1
      BY <2>1, <2>3, <2>4 DEF LInv, CountInv, Opened
    <3> QED
      BY <2>1, <2>2, <2>3, <3>1
  <2>5. CASE phase[c] \in {"new", "done"}
    BY <2>3, <2>5 DEF LInv, CountInv
  <2> QED
    BY <2>4, <2>5 DEF LInv, LTypes
<1> QED
  BY <1>1, LimiterInductive, PTL

\* Which step makes a call, and what its stream has waited for.
LEMMA CallStep ==
    ASSUME LInv, [LimiterNext]_allVars, NEW c \in Caller, IsCalled(c)
    PROVE  /\ now + ClockSlack >= retryAt[c]
           /\ now + ClockSlack >= until[c]
           /\ AtCheck(c) => now >= blockedUntil
<1>1. CallUpstream(c)
  BY DEF IsCalled, LimiterNext, allVars, limiterVars, TimePasses, EnterSlot, SleepWhileBlocked,
         WaitForWindow, CallUpstream, CallSucceeds, CallBacksOff, GiveUp, Reopen, LeaveStream, LInv, LTypes
<1> QED
  BY <1>1, ProviderLimiterAssumption, WindowAssumption
  DEF CallUpstream, PastBlock, AtCheck, LInv, LTypes, WaitsInv

\* A request sleeps its own delay out before it is tried again, whatever others do
\* to the shared block.
THEOREM RetryWaitsCorrect == LimiterSpec => RetryWaitsOutItsDelay
<1>1. LInv /\ [LimiterNext]_allVars =>
         [\A c \in Caller : IsCalled(c) => now + ClockSlack >= retryAt[c]]_allVars
  BY CallStep
<1> QED
  BY <1>1, LimiterInductive, PTL DEF LimiterSpec, RetryWaitsOutItsDelay

\* A block that a stream saw is waited for.
THEOREM SeenBlockCorrect == LimiterSpec => SeenBlockIsWaitedFor
<1>1. LInv /\ [LimiterNext]_allVars =>
         [\A c \in Caller : IsCalled(c) =>
             now + ClockSlack >= until[c] /\ (AtCheck(c) => now >= blockedUntil)]_allVars
  BY CallStep
<1> QED
  BY <1>1, LimiterInductive, PTL DEF LimiterSpec, SeenBlockIsWaitedFor

-----------------------------------------------------------------------------
(* Providers and their runtimes.                                           *)

RuntimeTypes ==
    /\ settings \in Nat /\ installed \in Runtime /\ raced \in BOOLEAN
    /\ made \in Seq([by : Runtime, open : BOOLEAN])
    /\ cacheOf \in [Runtime -> [Provider -> Nat]]
    /\ refresh \in [Runtime -> {"none", "starting", "querying", "done"}]
    /\ builtFrom \in [Runtime -> Nat]
    /\ updates \in [Update -> [at : {"none", "discovery", "closing", "over"},
                               old : 0 .. MaxUpdates + 1, new : Nat, todo : SUBSET Nat]]
    /\ serving \in [Request -> Nat]
    /\ requestAt \in [Request -> {"new", "open", "done", "broken"}]
    /\ appPhase \in {"validating", "up", "stopping", "down"}
    /\ todoAtStop \subseteq Nat /\ overlapped \subseteq Request
    /\ stuck \subseteq Nat /\ strays \subseteq Nat

\* A cache holds instances of its own runtime.
CachesOwn ==
    \A r \in Runtime : \A i \in Cached(r) : i \in DOMAIN made /\ made[i].by = r

\* An instance stays in the cache until the whole of it is cleared.
Cleared(r) ==
    \/ \E u \in Update : updates[u].at = "over" /\ updates[u].old = r
    \/ appPhase = "down" /\ r = 1
CachedUntilCleared ==
    \A i \in DOMAIN made : i \in Cached(made[i].by) \/ Cleared(made[i].by)

\* It is open until the runtime is closed.
Closing(r) ==
    \/ \E u \in Update : updates[u].at \in {"closing", "over"} /\ updates[u].old = r
    \/ appPhase \in {"stopping", "down"} /\ r = 1
OpenUntilClosing ==
    \A r \in Runtime : \A i \in Cached(r) : made[i].open \/ Closing(r)

\* Who closes a runtime has all of it to close that is still open.
Settled(i) == ~ made[i].open \/ i \in stuck \cup strays
ClosesAll ==
    /\ \A u \in Update : updates[u].at = "closing" =>
          \A i \in Cached(updates[u].old) : Settled(i) \/ i \in updates[u].todo
    /\ appPhase = "stopping" => \A i \in Cached(1) : Settled(i) \/ i \in todoAtStop

\* A runtime that was installed at some time.
Built(r) == r = 1 \/ \E u \in Update : r = u + 1 /\ updates[u].at = "over"

\* Updates replace runtimes that were installed, and what was replaced does not return.
ReplacesBuilt(u) ==
    /\ updates[u].at = "none" => updates[u] = Idle
    /\ updates[u].at # "none" => updates[u].old \in Runtime /\ Built(updates[u].old)
    /\ updates[u].at = "over" => updates[u].old # installed
    /\ \A i \in updates[u].todo : i \in DOMAIN made /\ made[i].by = updates[u].old
Replacing ==
    /\ Built(installed)
    /\ \A r \in Runtime : refresh[r] # "none" => Built(r)
    /\ \A u \in Update : ReplacesBuilt(u)
    /\ UnderWay # {} => appPhase = "up"
    /\ appPhase = "validating" => installed = 1
    /\ appPhase # "stopping" => todoAtStop = {}
    /\ \A i \in todoAtStop : i \in DOMAIN made /\ made[i].by = 1

\* As long as no two updates have overlapped, the one under way replaces what is
\* installed, and everything else that was ever installed has been replaced.
OneAtATime ==
    raced \/ /\ \A u, v \in UnderWay : u = v
             /\ \A u \in UnderWay : updates[u].old = installed /\ updates[u].new = settings
             /\ UnderWay = {} => builtFrom[installed] = settings
             /\ \A r \in Runtime : Built(r) => r = installed \/ Replaced(r)

\* A request that is open was overlapped by whatever update is under way.
Requests ==
    /\ \A q \in Request : requestAt[q] = "open" =>
          /\ serving[q] \in DOMAIN made
          /\ UnderWay # {} => q \in overlapped
          /\ appPhase = "up"

RInv ==
    /\ RuntimeTypes /\ CachesOwn /\ CachedUntilCleared /\ OpenUntilClosing /\ ClosesAll
    /\ Replacing /\ OneAtATime /\ Requests
    /\ OpenIsOwned /\ UndisturbedAreServed
-----------------------------------------------------------------------------
\* The elements of a finite set of numbers have the ranks 1 to its cardinality.
LEMMA RanksAreOnto ==
  ASSUME NEW S \in SUBSET Nat, IsFiniteSet(S), NEW k \in 1 .. Cardinality(S)
  PROVE  \E p \in S : Cardinality({q \in S : q <= p}) = k
<1> DEFINE UpTo(p) == {q \in S : q <= p}
           T == 1 .. Cardinality(S)
           f == [p \in S |-> Cardinality(UpTo(p))]
<1>1. Cardinality(S) \in Nat
  BY FS_CardinalityType
<1>2. ASSUME NEW p \in S
      PROVE  IsFiniteSet(UpTo(p)) /\ Cardinality(UpTo(p)) \in T
  <2>1. IsFiniteSet(UpTo(p)) /\ Cardinality(UpTo(p)) <= Cardinality(S)
    BY FS_Subset, UpTo(p) \in SUBSET S
  <2>2. Cardinality(UpTo(p)) \in Nat
    BY <2>1, FS_CardinalityType
  <2>3. p \in UpTo(p)
    OBVIOUS
  <2>4. Cardinality(UpTo(p)) # 0
    BY <2>1, <2>3, FS_EmptySet
  <2> QED
    BY <1>1, <2>1, <2>2, <2>4
<1>3. ASSUME NEW p \in S, NEW r \in S, p < r
      PROVE  Cardinality(UpTo(p)) # Cardinality(UpTo(r))
  <2>0. p \in Nat /\ r \in Nat /\ \A q \in S : q \in Nat
    OBVIOUS
  <2>1. UpTo(p) \in SUBSET UpTo(r) /\ r \in UpTo(r) /\ r \notin UpTo(p)
    <3>1. \A q \in S : q <= p => q <= r
      BY <1>3, <2>0
    <3>2. ~ r <= p /\ r <= r
      BY <1>3, <2>0
    <3> QED
      BY <2>0, <3>1, <3>2
  <2>2. IsFiniteSet(UpTo(r)) /\ IsFiniteSet(UpTo(p))
    BY <1>2
  <2>3. Cardinality(UpTo(r)) = Cardinality(UpTo(p)) => UpTo(r) = UpTo(p)
    BY <2>1, <2>2, FS_Subset
  <2> HIDE DEF UpTo
  <2> QED
    BY <2>1, <2>3
<1>4. f \in Injection(S, T)
  <2>1. f \in [S -> T]
    BY <1>2
  <2>2. ASSUME NEW p \in S, NEW r \in S, f[p] = f[r]
        PROVE  p = r
    <3>1. p \in Nat /\ r \in Nat
      OBVIOUS
    <3>2. Cardinality(UpTo(p)) = Cardinality(UpTo(r))
      BY <2>2
    <3>3. p < r \/ r < p \/ p = r
      BY <3>1
    <3> HIDE DEF UpTo
    <3> QED
      BY <1>3, <3>2, <3>3
  <2>3. DOMAIN f = S
    OBVIOUS
  <2> HIDE DEF f, T
  <2> QED
    BY <2>1, <2>2, <2>3 DEF Injection, IsInjective
<1>5. IsFiniteSet(T) /\ Cardinality(T) = Cardinality(S)
  <2>1. IsFiniteSet(T) /\ Cardinality(T) = IF 1 > Cardinality(S) THEN 0 ELSE Cardinality(S) - 1 + 1
    BY <1>1, FS_Interval
  <2> QED
    BY <1>1, <2>1
<1>6. f \in Surjection(S, T)
  BY <1>4, <1>5, FS_Injection
<1>7. PICK p \in S : f[p] = k
  BY <1>6 DEF Surjection
<1> QED
  BY <1>7

\* What a step that resolves providers of runtime r adds: the instances in new.
Creates(r, new) ==
    /\ new \subseteq Nat /\ new \cap DOMAIN made = {}
    /\ made' \in Seq([by : Runtime, open : BOOLEAN])
    /\ DOMAIN made' = DOMAIN made \cup new
    /\ \A i \in DOMAIN made : made'[i] = made[i]
    /\ \A i \in new : made'[i] = [by |-> r, open |-> TRUE]
    /\ cacheOf' \in [Runtime -> [Provider -> Nat]]
    /\ \A s \in Runtime \ {r} : Cached(s)' = Cached(s)
    /\ Cached(r)' = Cached(r) \cup new
    /\ strays' = IF Replaced(r) \/ appPhase \in {"stopping", "down"}
                 THEN strays \cup new ELSE strays

LEMMA ResolveCreates ==
  ASSUME RuntimeTypes, NEW r \in Runtime, NEW ps \in SUBSET Provider, Resolve(r, ps)
  PROVE  \E new : Creates(r, new)
<1>1. PICK S \in SUBSET {p \in ps : cacheOf[r][p] = 0} :
        /\ LET Nth(p) == Len(made) + Cardinality({q \in S : q <= p})
           IN  cacheOf' = [cacheOf EXCEPT ![r] = [p \in Provider |-> IF p \in S THEN Nth(p) ELSE @[p]]]
        /\ made' = made \o [k \in 1 .. Cardinality(S) |-> [by |-> r, open |-> TRUE]]
        /\ strays' = IF Replaced(r) \/ appPhase \in {"stopping", "down"}
                     THEN strays \cup (Len(made) + 1 .. Len(made) + Cardinality(S)) ELSE strays
  BY DEF Resolve
<1> DEFINE N == Cardinality(S)
           new == Len(made) + 1 .. Len(made) + N
           rank(p) == Cardinality({q \in S : q <= p})
           row == [p \in Provider |-> IF p \in S THEN Len(made) + rank(p) ELSE cacheOf[r][p]]
           added == [k \in 1 .. N |-> [by |-> r, open |-> TRUE]]
<1>2. S \in SUBSET Nat /\ S \subseteq Provider /\ IsFiniteSet(S) /\ N \in Nat /\ Len(made) \in Nat
  <2>1. S \in SUBSET Provider
    OBVIOUS
  <2>2. IsFiniteSet(S)
    BY <2>1, RuntimesAssumption, FS_Subset DEF RuntimesAssumption
  <2> QED
    BY <2>1, <2>2, RuntimesAssumption, FS_CardinalityType DEF RuntimesAssumption, RuntimeTypes
<1>3. \A p \in S : rank(p) \in 1 .. N
  <2> TAKE p \in S
  <2>1. {q \in S : q <= p} \in SUBSET S
    OBVIOUS
  <2>2. IsFiniteSet({q \in S : q <= p}) /\ rank(p) <= N
    BY <1>2, <2>1, FS_Subset
  <2>3. p \in {q \in S : q <= p}
    BY <1>2
  <2>4. rank(p) # 0 /\ rank(p) \in Nat
    BY <2>2, <2>3, FS_EmptySet, FS_CardinalityType
  <2> QED
    BY <1>2, <2>2, <2>4
<1>4. \A k \in 1 .. N : \E p \in S : rank(p) = k
  BY <1>2, RanksAreOnto
<1>5. made' = made \o added /\ cacheOf' = [cacheOf EXCEPT ![r] = row]
  BY <1>1
<1> HIDE DEF rank
<1>6. row \in [Provider -> Nat] /\ \A p \in S : row[p] \in new
  <2>1. \A p \in S : Len(made) + rank(p) \in Nat /\ Len(made) + rank(p) \in new
    BY <1>2, <1>3
  <2>2. \A p \in Provider : cacheOf[r][p] \in Nat
    BY DEF RuntimeTypes
  <2> QED
    BY <1>2, <2>1, <2>2
<1>7. /\ made' \in Seq([by : Runtime, open : BOOLEAN])
      /\ DOMAIN made' = DOMAIN made \cup new
      /\ \A i \in DOMAIN made : made'[i] = made[i]
      /\ \A i \in new : made'[i] = [by |-> r, open |-> TRUE]
  <2>1. added \in Seq([by : Runtime, open : BOOLEAN]) /\ Len(added) = N
    <3>1. [by |-> r, open |-> TRUE] \in [by : Runtime, open : BOOLEAN]
      OBVIOUS
    <3>2. added \in [1 .. N -> [by : Runtime, open : BOOLEAN]]
      BY <3>1
    <3> DEFINE I == [by : Runtime, open : BOOLEAN]
    <3> HIDE DEF added, N, I
    <3>3. added \in Seq(I)
      <4>1. added \in [1 .. N -> I]
        BY <3>2 DEF I
      <4> QED
        BY <1>2, <4>1, SeqDef
    <3> USE DEF I
    <3>4. DOMAIN added = 1 .. N
      BY <3>2
    <3> QED
      BY <1>2, <3>3, <3>4, LenProperties
  <2>2. made \in Seq([by : Runtime, open : BOOLEAN])
    BY DEF RuntimeTypes
  <2>3. /\ made' \in Seq([by : Runtime, open : BOOLEAN])
        /\ Len(made') = Len(made) + N
        /\ \A i \in 1 .. Len(made) : made'[i] = made[i]
        /\ \A i \in new : made'[i] = added[i - Len(made)]
    BY <1>2, <1>5, <2>1, <2>2
  <2>4. \A i \in new : i - Len(made) \in 1 .. N
    BY <1>2
  <2>5. \A i \in new : added[i - Len(made)] = [by |-> r, open |-> TRUE]
    BY <2>4
  <2>6. DOMAIN made = 1 .. Len(made) /\ DOMAIN made' = 1 .. Len(made) + N
    BY <2>2, <2>3
  <2>7. 1 .. Len(made) + N = (1 .. Len(made)) \cup new
    <3> HIDE DEF N
    <3> QED
      BY <1>2
  <2> QED
    BY <2>3, <2>5, <2>6, <2>7
<1>8. new \subseteq Nat /\ new \cap DOMAIN made = {} /\ 0 \notin new
  BY <1>2 DEF RuntimeTypes
<1>9. /\ cacheOf' \in [Runtime -> [Provider -> Nat]]
      /\ \A s \in Runtime \ {r} : cacheOf'[s] = cacheOf[s]
      /\ cacheOf'[r] = row
  BY <1>5, <1>6 DEF RuntimeTypes
<1>10. Cached(r)' = Cached(r) \cup new
  <2>1. Cached(r)' = {row[p] : p \in Provider} \ {0}
    BY <1>9 DEF Cached
  <2>2. \A p \in S : row[p] = Len(made) + rank(p) /\ cacheOf[r][p] = 0
    BY <1>2
  <2>3. \A p \in Provider \ S : row[p] = cacheOf[r][p]
    OBVIOUS
  <2>4. ASSUME NEW i \in new
        PROVE  \E p \in Provider : row[p] = i
    <3>1. i - Len(made) \in 1 .. N
      BY <1>2
    <3>2. PICK p \in S : rank(p) = i - Len(made)
      BY <1>4, <3>1
    <3>3. row[p] = i
      BY <1>2, <2>2, <3>2
    <3> QED
      BY <1>2, <3>3
  <2>5. ASSUME NEW i \in Cached(r)
        PROVE  \E p \in Provider : row[p] = i /\ i # 0
    BY <2>2, <2>3 DEF Cached
  <2>6. ASSUME NEW p \in Provider, row[p] # 0
        PROVE  row[p] \in Cached(r) \cup new
    <3>1. CASE p \in S
      BY <1>6, <3>1
    <3>2. CASE p \notin S
      <4>1. cacheOf[r][p] # 0
        BY <2>3, <2>6, <3>2
      <4>2. cacheOf[r][p] \in Cached(r)
        BY <4>1 DEF Cached
      <4> QED
        BY <2>3, <3>2, <4>2
    <3> QED
      BY <3>1, <3>2
  <2> HIDE DEF row, new
  <2>7. Cached(r)' \subseteq Cached(r) \cup new
    BY <2>1, <2>6
  <2>8. Cached(r) \cup new \subseteq Cached(r)'
    BY <2>1, <2>4, <2>5, <1>8
  <2> QED
    BY <2>7, <2>8
<1>11. \A s \in Runtime \ {r} : Cached(s)' = Cached(s)
  BY <1>9 DEF Cached
<1>12. strays' = IF Replaced(r) \/ appPhase \in {"stopping", "down"} THEN strays \cup new ELSE strays
  BY <1>1
<1> HIDE DEF new
<1> QED
  BY <1>7, <1>8, <1>9, <1>10, <1>11, <1>12 DEF Creates

LEMMA InitRInv == RuntimeInit => RInv
<1> SUFFICES ASSUME RuntimeInit
             PROVE  RInv
  OBVIOUS
<1> USE RuntimesAssumption DEF RuntimesAssumption
<1>1. 1 \in Runtime /\ Update \subseteq Nat /\ DOMAIN <<>> = {} /\ <<>> \in Seq([by : Runtime, open : BOOLEAN])
  BY DEF Runtime, Update
<1>2. Idle \in [at : {"none", "discovery", "closing", "over"},
                old : 0 .. MaxUpdates + 1, new : Nat, todo : SUBSET Nat]
  BY DEF Idle
<1>3. RuntimeTypes
  BY <1>1, <1>2 DEF RuntimeInit, RuntimeTypes, NoCache
<1>4. \A r \in Runtime : Cached(r) = {}
  BY DEF RuntimeInit, Cached, NoCache
<1>5. \A u \in Update : updates[u] = Idle /\ updates[u].at = "none" /\ updates[u].todo = {}
  BY DEF RuntimeInit, Idle
<1>6. UnderWay = {}
  BY <1>5 DEF UnderWay
<1>7. CachesOwn /\ CachedUntilCleared /\ OpenUntilClosing /\ ClosesAll
  BY <1>1, <1>4, <1>5 DEF RuntimeInit, CachesOwn, CachedUntilCleared, OpenUntilClosing, ClosesAll
<1>8. Replacing
  BY <1>1, <1>5, <1>6 DEF RuntimeInit, Replacing, ReplacesBuilt, Built
<1>9. OneAtATime
  <2>1. \A r \in Runtime : Built(r) => r = 1
    BY <1>5 DEF Built
  <2> QED
    BY <1>1, <1>6, <2>1 DEF RuntimeInit, OneAtATime
<1>10. Requests /\ UndisturbedAreServed /\ OpenIsOwned
  BY <1>1 DEF RuntimeInit, Requests, UndisturbedAreServed, OpenIsOwned
<1> QED
  BY <1>3, <1>7, <1>8, <1>9, <1>10 DEF RInv

-----------------------------------------------------------------------------
LEMMA MadeTypes ==
  ASSUME RInv
  PROVE  /\ DOMAIN made \subseteq Nat
         /\ \A i \in DOMAIN made : made[i].by \in Runtime /\ made[i].open \in BOOLEAN
<1> DEFINE I == [by : Runtime, open : BOOLEAN]
<1>1. made \in Seq(I)
  BY DEF RInv, RuntimeTypes
<1> HIDE DEF I
<1>2. DOMAIN made \subseteq Nat /\ \A i \in DOMAIN made : made[i] \in I
  BY <1>1
<1> QED
  BY <1>2 DEF I

\* The invariants that speak of the instances, after a step that creates some: where a
\* runtime is being replaced they are strays, everywhere else it is the one installed.
LEMMA CreatesKeeps ==
  ASSUME RInv, NEW r \in Runtime, Built(r), NEW new, Creates(r, new),
         UNCHANGED <<settings, installed, updates, todoAtStop, raced, stuck, builtFrom>>,
         appPhase # "down", appPhase' # "down",
         appPhase' = "stopping" => appPhase = "stopping",
         appPhase = "stopping" => appPhase' = "stopping"
  PROVE  /\ CachesOwn' /\ CachedUntilCleared' /\ OpenUntilClosing' /\ ClosesAll'
         /\ OpenIsOwned'
<1> USE DEF RInv, Creates
<1>1. \A i \in new : i \in DOMAIN made' /\ made'[i].by = r /\ made'[i].open
  OBVIOUS
<1>2. \A i \in DOMAIN made : i \in DOMAIN made' /\ made'[i] = made[i]
  OBVIOUS
<1>3. \A s \in Runtime : Cached(s) \subseteq Cached(s)' /\ Cached(s)' \subseteq Cached(s) \cup new
  BY DEF CachesOwn
<1>4. \A s \in Runtime, i \in new : i \in Cached(s)' => s = r
  BY DEF CachesOwn
<1>5. \A i \in DOMAIN made : made[i].by \in Runtime
  BY MadeTypes
<1>6. strays \subseteq strays'
  OBVIOUS
<1>7. CachesOwn'
  <2> SUFFICES ASSUME NEW s \in Runtime, NEW i \in Cached(s)'
               PROVE  i \in DOMAIN made' /\ made'[i].by = s
    BY DEF CachesOwn
  <2>1. CASE i \in Cached(s)
    BY <1>2, <2>1 DEF CachesOwn
  <2>2. CASE i \in new
    BY <1>1, <1>4, <2>2
  <2> QED
    BY <1>3, <2>1, <2>2
<1>8. CachedUntilCleared'
  <2>1. \A s : Cleared(s) => Cleared(s)'
    BY DEF Cleared
  <2> QED
    BY <1>1, <1>2, <1>3, <1>5, <2>1 DEF CachedUntilCleared
<1>9. OpenUntilClosing'
  <2>1. \A s : Closing(s) => Closing(s)'
    BY DEF Closing
  <2> QED
    BY <1>1, <1>2, <1>3, <2>1 DEF OpenUntilClosing, CachesOwn
<1>10. ClosesAll'
  <2>1. \A i \in DOMAIN made : Settled(i) => Settled(i)'
    BY <1>2, <1>6 DEF Settled
  <2>2. ASSUME NEW u \in Update, (updates[u].at = "closing")', NEW i \in Cached(updates[u].old)'
        PROVE  (Settled(i) \/ i \in updates[u].todo)'
    <3>1. updates[u].at = "closing" /\ updates[u].old \in Runtime
      BY <2>2 DEF Replacing, ReplacesBuilt
    <3>5. PICK s \in Runtime : s = updates[u].old /\ s = updates'[u].old
      BY <3>1
    <3>6. i \in Cached(s)' /\ Cached(s) = Cached(updates[u].old)
      BY <3>5 DEF Cached
    <3>2. i \in Cached(updates[u].old) \cup new
      BY <1>3, <3>6
    <3>3. CASE i \in Cached(updates[u].old)
      BY <2>1, <3>1, <3>3 DEF ClosesAll, CachesOwn
    <3>4. CASE i \in new
      <4>1. updates[u].old = r
        BY <1>4, <3>4, <3>5, <3>6
      <4>2. Replaced(r)
        BY <4>1 DEF Replaced
      <4>3. i \in strays'
        BY <3>4, <4>2
      <4> QED
        BY <4>3 DEF Settled
    <3> QED
      BY <3>2, <3>3, <3>4
  <2>3. ASSUME appPhase' = "stopping", NEW i \in Cached(1)'
        PROVE  Settled(i)' \/ i \in todoAtStop'
    <3>1. appPhase = "stopping" /\ 1 \in Runtime
      BY <2>3, RuntimesAssumption DEF Runtime, RuntimesAssumption
    <3>2. CASE i \in Cached(1)
      BY <2>1, <3>1, <3>2 DEF ClosesAll, CachesOwn
    <3>3. CASE i \in new
      <4>1. i \in strays'
        BY <3>1, <3>3
      <4> QED
        BY <4>1 DEF Settled
    <3> QED
      BY <1>3, <2>3, <3>1, <3>2, <3>3
  <2> QED
    BY <2>2, <2>3 DEF ClosesAll
<1>11. OpenIsOwned'
  <2> SUFFICES ASSUME NEW i \in DOMAIN made', made'[i].open, i \notin stuck \cup strays', ~ raced
               PROVE  \/ i \in Cached(installed)'
                      \/ i \in todoAtStop
                      \/ \E u \in UnderWay : /\ updates[u].old = made'[i].by
                                             /\ updates[u].at = "discovery" \/ i \in updates[u].todo
    BY DEF OpenIsOwned, UnderWay
  <2>0. installed \in Runtime
    BY DEF RuntimeTypes
  <2>1. CASE i \in DOMAIN made
    <3>1. /\ made'[i] = made[i] /\ made[i].open /\ i \notin stuck \cup strays
      BY <1>2, <1>6, <2>1
    <3> QED
      BY <1>3, <2>0, <2>1, <3>1 DEF OpenIsOwned
  <2>2. CASE i \in new
    <3>1. ~ Replaced(r)
      BY <2>2
    <3>2. r = installed
      BY <3>1 DEF OneAtATime
    <3> QED
      BY <2>2, <3>2
  <2> QED
    BY <2>1, <2>2
<1> QED
  BY <1>7, <1>8, <1>9, <1>10, <1>11

LEMMA ValidateKeeps == ASSUME RInv, Validate PROVE RInv'
<1> USE DEF RInv
<1>1. 1 \in Runtime /\ Built(1) /\ installed = 1
  BY RuntimesAssumption DEF RuntimesAssumption, Runtime, Built, Validate, Replacing, ReplacesBuilt
<1>2. PICK new : Creates(1, new)
  BY <1>1, ResolveCreates DEF Validate
<1>3. /\ appPhase = "validating" /\ appPhase' = "up"
      /\ \E how \in {"none", "starting"} : refresh' = [refresh EXCEPT ![1] = how]
      /\ UNCHANGED <<settings, builtFrom, installed, updates, serving, requestAt, overlapped,
                     todoAtStop, raced, stuck>>
  BY DEF Validate, workVars
<1>4. CachesOwn' /\ CachedUntilCleared' /\ OpenUntilClosing' /\ ClosesAll' /\ OpenIsOwned'
  BY <1>1, <1>2, <1>3, CreatesKeeps
<1>5. RuntimeTypes'
  BY <1>1, <1>2, <1>3 DEF RuntimeTypes, Creates
<1>6. Replacing'
  BY <1>1, <1>2, <1>3 DEF Replacing, ReplacesBuilt, Creates, Built, UnderWay, RuntimeTypes
<1>7. OneAtATime' /\ Requests' /\ UndisturbedAreServed'
  BY <1>3 DEF OneAtATime, Requests, UndisturbedAreServed, UnderWay, Built, Replaced
<1> QED
  BY <1>4, <1>5, <1>6, <1>7

LEMMA RefreshStartsKeeps ==
  ASSUME RInv, NEW r \in Runtime, RefreshStarts(r)
  PROVE  RInv'
<1> USE DEF RInv
<1>1. Built(r)
  BY DEF RefreshStarts, Replacing, ReplacesBuilt
<1>2. PICK new : Creates(r, new)
  BY ResolveCreates DEF RefreshStarts
<1>3. /\ appPhase # "down" /\ refresh' = [refresh EXCEPT ![r] = "querying"]
      /\ UNCHANGED <<settings, builtFrom, installed, updates, serving, requestAt, overlapped,
                     appPhase, todoAtStop, raced, stuck>>
  BY DEF RefreshStarts, workVars
<1>4. CachesOwn' /\ CachedUntilCleared' /\ OpenUntilClosing' /\ ClosesAll' /\ OpenIsOwned'
  BY <1>1, <1>2, <1>3, CreatesKeeps
<1>5. RuntimeTypes'
  BY <1>2, <1>3 DEF RuntimeTypes, Creates
<1>6. Replacing'
  BY <1>1, <1>2, <1>3 DEF Replacing, ReplacesBuilt, Creates, Built, UnderWay, RuntimeTypes
<1>7. OneAtATime'
  BY <1>3 DEF OneAtATime, UnderWay, Built, Replaced
<1>8. Requests' /\ UndisturbedAreServed'
  BY <1>2, <1>3 DEF Requests, UndisturbedAreServed, UnderWay, Creates
<1> QED
  BY <1>4, <1>5, <1>6, <1>7, <1>8

LEMMA RefreshEndsKeeps ==
  ASSUME RInv, NEW r \in Runtime, RefreshEnds(r)
  PROVE  RInv'
<1> USE DEF RInv
<1>1. /\ refresh[r] = "querying" /\ refresh' = [refresh EXCEPT ![r] = "done"]
      /\ UNCHANGED <<settings, made, cacheOf, builtFrom, installed, updates, serving, requestAt,
                     overlapped, appPhase, todoAtStop, raced, stuck, strays>>
  BY DEF RefreshEnds, workVars
<1>2. RuntimeTypes' /\ Replacing'
  BY <1>1 DEF RuntimeTypes, Replacing, ReplacesBuilt, Built, UnderWay
<1>3. CachesOwn' /\ CachedUntilCleared' /\ OpenUntilClosing' /\ ClosesAll'
  BY <1>1 DEF CachesOwn, CachedUntilCleared, OpenUntilClosing, ClosesAll, Cached, Cleared,
              Closing, Settled
<1>4. OneAtATime' /\ Requests' /\ OpenIsOwned' /\ UndisturbedAreServed'
  BY <1>1 DEF OneAtATime, Requests, OpenIsOwned, UndisturbedAreServed, UnderWay, Built,
              Replaced, Cached
<1> QED
  BY <1>2, <1>3, <1>4

LEMMA StartRequestKeeps ==
  ASSUME RInv, NEW q \in Request, NEW p \in Provider, StartRequest(q, p)
  PROVE  RInv'
<1> USE DEF RInv
<1>1. installed \in Runtime /\ Built(installed)
  BY DEF RuntimeTypes, Replacing, ReplacesBuilt
<1>2. PICK new : Creates(installed, new)
  BY <1>1, ResolveCreates DEF StartRequest
<1>3. /\ appPhase = "up"
      /\ serving' = [serving EXCEPT ![q] = cacheOf'[installed][p]]
      /\ requestAt' = [requestAt EXCEPT ![q] = IF serving'[q] = 0 THEN "done" ELSE "open"]
      /\ overlapped' = IF UnderWay = {} THEN overlapped ELSE overlapped \cup {q}
      /\ UNCHANGED <<settings, refresh, builtFrom, installed, updates, appPhase, todoAtStop,
                     raced, stuck>>
  BY DEF StartRequest
<1>4. CachesOwn' /\ CachedUntilCleared' /\ OpenUntilClosing' /\ ClosesAll' /\ OpenIsOwned'
  BY <1>1, <1>2, <1>3, CreatesKeeps
<1>5. serving'[q] \in Nat /\ serving' = [serving EXCEPT ![q] = serving'[q]]
  BY <1>1, <1>2, <1>3 DEF RuntimeTypes, Creates
<1>6. RuntimeTypes'
  BY <1>2, <1>3, <1>5 DEF RuntimeTypes, Creates
<1>7. Replacing'
  BY <1>1, <1>2, <1>3 DEF Replacing, ReplacesBuilt, Creates, Built, UnderWay
<1>8. OneAtATime'
  BY <1>3 DEF OneAtATime, UnderWay, Built, Replaced
<1>9. requestAt'[q] = "open" =>
        serving'[q] \in Cached(installed)' /\ serving'[q] \in DOMAIN made' /\ made'[serving'[q]].by = installed
  <2> SUFFICES ASSUME requestAt'[q] = "open"
               PROVE  serving'[q] \in Cached(installed)' /\ serving'[q] \in DOMAIN made' /\ made'[serving'[q]].by = installed
    OBVIOUS
  <2>1. serving'[q] # 0 /\ serving'[q] = cacheOf'[installed][p]
    BY <1>3, <1>5 DEF RuntimeTypes
  <2>2. serving'[q] \in Cached(installed)'
    BY <1>3, <2>1 DEF Cached
  <2> QED
    BY <1>1, <1>3, <1>4, <2>2 DEF CachesOwn
<1>10. \A o \in Request \ {q} : /\ serving'[o] = serving[o] /\ requestAt'[o] = requestAt[o]
                                /\ o \in overlapped' <=> o \in overlapped
  BY <1>3 DEF RuntimeTypes
<1>11. UnderWay' = UnderWay /\ (UnderWay # {} => q \in overlapped')
  BY <1>3 DEF UnderWay
<1>12. \A i \in DOMAIN made : i \in DOMAIN made' /\ made'[i] = made[i]
  BY <1>2 DEF Creates
<1>13. Requests'
  BY <1>3, <1>9, <1>10, <1>11, <1>12 DEF Requests
<1>14. UndisturbedAreServed'
  <2> SUFFICES ASSUME NEW o \in Request, o \notin overlapped'
               PROVE  /\ requestAt'[o] # "broken"
                      /\ requestAt'[o] = "open" =>
                           /\ made'[serving'[o]].open
                           /\ raced \/ builtFrom[made'[serving'[o]].by] = settings
    BY <1>3 DEF UndisturbedAreServed
  <2>1. CASE o = q
    <3>1. requestAt'[q] \in {"done", "open"}
      BY <1>3 DEF RuntimeTypes
    <3>2. UnderWay = {}
      BY <1>11, <2>1
    <3>3. ~ Closing(installed)'
      BY <1>1, <1>3, <3>2 DEF Closing, Replacing, ReplacesBuilt, RuntimeTypes, UnderWay
    <3>4. requestAt'[q] = "open" => made'[serving'[q]].open
      BY <1>1, <1>3, <1>4, <1>9, <3>3 DEF OpenUntilClosing
    <3>5. raced \/ builtFrom[installed] = settings
      BY <3>2 DEF OneAtATime
    <3> QED
      BY <1>9, <2>1, <3>1, <3>4, <3>5
  <2>2. CASE o # q
    BY <1>10, <1>12, <2>2 DEF UndisturbedAreServed, Requests
  <2> QED
    BY <2>1, <2>2
<1> QED
  BY <1>4, <1>6, <1>7, <1>8, <1>13, <1>14

LEMMA EndRequestKeeps ==
  ASSUME RInv, NEW q \in Request, EndRequest(q)
  PROVE  RInv'
<1> USE DEF RInv
<1>1. /\ requestAt[q] = "open"
      /\ requestAt' = [requestAt EXCEPT ![q] = IF made[serving[q]].open THEN "done" ELSE "broken"]
      /\ UNCHANGED <<settings, made, cacheOf, refresh, builtFrom, installed, updates,
                     serving, appPhase, todoAtStop, overlapped, raced, stuck, strays>>
  BY DEF EndRequest
<1>2. RuntimeTypes' /\ Replacing'
  BY <1>1 DEF RuntimeTypes, Replacing, ReplacesBuilt, Built, UnderWay
<1>3. CachesOwn' /\ CachedUntilCleared' /\ OpenUntilClosing' /\ ClosesAll'
  BY <1>1 DEF CachesOwn, CachedUntilCleared, OpenUntilClosing, ClosesAll, Cached, Cleared,
              Closing, Settled
<1>4. OneAtATime' /\ OpenIsOwned'
  BY <1>1 DEF OneAtATime, OpenIsOwned, UnderWay, Built, Replaced, Cached
<1>5. \A o \in Request : \/ requestAt'[o] = requestAt[o]
                         \/ o = q /\ requestAt'[o] # "open"
                            /\ (requestAt'[o] = "broken" => ~ made[serving[q]].open)
  BY <1>1 DEF RuntimeTypes
<1>6. Requests' /\ UndisturbedAreServed'
  BY <1>1, <1>5 DEF Requests, UndisturbedAreServed, UnderWay
<1> QED
  BY <1>2, <1>3, <1>4, <1>6

-----------------------------------------------------------------------------
LEMMA UpdateBeginsKeeps ==
  ASSUME RInv, NEW u \in Update, UpdateBegins(u)
  PROVE  RInv'
<1> USE DEF RInv
<1>1. /\ updates[u].at = "none" /\ appPhase = "up"
      /\ settings' = settings + 1
      /\ updates' = [updates EXCEPT ![u] =
           [at |-> "discovery", old |-> installed, new |-> settings + 1, todo |-> {}]]
      /\ overlapped' = overlapped \cup {q \in Request : requestAt[q] = "open"}
      /\ raced' = (raced \/ UnderWay # {})
      /\ UNCHANGED <<made, cacheOf, refresh, builtFrom, installed, serving, requestAt,
                     appPhase, todoAtStop, stuck, strays>>
  BY DEF UpdateBegins
<1>2. installed \in Runtime /\ installed \in 0 .. MaxUpdates + 1 /\ installed \in Nat /\ settings \in Nat
  BY RuntimesAssumption DEF RuntimeTypes, Runtime, RuntimesAssumption
<1>3. /\ \A v \in Update \ {u} : updates'[v] = updates[v]
      /\ updates'[u].at = "discovery" /\ updates'[u].old = installed
      /\ updates'[u].new = settings' /\ updates'[u].todo = {}
  BY <1>1 DEF RuntimeTypes
<1>4. RuntimeTypes'
  BY <1>1, <1>2 DEF RuntimeTypes
<1>5. UnderWay' = UnderWay \cup {u} /\ u \notin UnderWay
  BY <1>1, <1>3 DEF UnderWay
<1>6. \A r : Built(r)' <=> Built(r)
  BY <1>1, <1>3 DEF Built
<1>7. CachesOwn' /\ CachedUntilCleared' /\ OpenUntilClosing'
  BY <1>1, <1>3 DEF CachesOwn, CachedUntilCleared, OpenUntilClosing, Cached, Cleared, Closing
<1>8. ClosesAll'
  BY <1>1, <1>3 DEF ClosesAll, Cached, Settled
<1>9. Replacing'
  BY <1>1, <1>2, <1>3, <1>6 DEF Replacing, ReplacesBuilt
<1>10. OneAtATime'
  <2> SUFFICES ASSUME ~ raced'
               PROVE  OneAtATime'
    BY DEF OneAtATime
  <2>1. ~ raced /\ UnderWay = {}
    BY <1>1
  <2>2. \A r : Replaced(r) => Replaced(r)' \/ r = 0
    BY <1>1, <1>3 DEF Replaced, Replacing, ReplacesBuilt, Idle
  <2>3. 0 \notin Runtime
    BY DEF Runtime
  <2> QED
    BY <1>1, <1>3, <1>5, <1>6, <2>1, <2>2, <2>3 DEF OneAtATime
<1>11. Requests' /\ UndisturbedAreServed'
  BY <1>1 DEF Requests, UndisturbedAreServed
<1>12. OpenIsOwned'
  <2> SUFFICES ASSUME NEW i \in DOMAIN made, made[i].open, i \notin stuck \cup strays, ~ raced'
               PROVE  \/ i \in Cached(installed)
                      \/ i \in todoAtStop
                      \/ \E v \in UnderWay' : /\ updates'[v].old = made[i].by
                                              /\ updates'[v].at = "discovery" \/ i \in updates'[v].todo
    BY <1>1 DEF OpenIsOwned, Cached
  <2>1. ~ raced /\ UnderWay = {}
    BY <1>1
  <2> QED
    BY <2>1 DEF OpenIsOwned
<1> QED
  BY <1>4, <1>7, <1>8, <1>9, <1>10, <1>11, <1>12

LEMMA UpdateClosesKeeps ==
  ASSUME RInv, NEW u \in Update, UpdateCloses(u)
  PROVE  RInv'
<1> USE DEF RInv
<1> DEFINE r == updates[u].old
<1>1. /\ updates[u].at = "discovery"
      /\ refresh' = [refresh EXCEPT ![r] = IF @ = "none" THEN "none" ELSE "done"]
      /\ updates' = [updates EXCEPT ![u].at = "closing", ![u].todo = Cached(r)]
      /\ UNCHANGED <<settings, made, cacheOf, builtFrom, installed, serving, requestAt,
                     overlapped, appPhase, todoAtStop, raced, stuck, strays>>
  BY DEF UpdateCloses, workVars
<1>2. r \in Runtime /\ Cached(r) \in SUBSET Nat
  BY <1>1 DEF Replacing, ReplacesBuilt, CachesOwn, RuntimeTypes, Cached
<1>3. /\ \A v \in Update \ {u} : updates'[v] = updates[v]
      /\ updates'[u].at = "closing" /\ updates'[u].old = r
      /\ updates'[u].new = updates[u].new /\ updates'[u].todo = Cached(r)
      /\ updates'[u] \in [at : {"none", "discovery", "closing", "over"},
                          old : 0 .. MaxUpdates + 1, new : Nat, todo : SUBSET Nat]
  BY <1>1, <1>2 DEF RuntimeTypes
<1>4. updates' = [updates EXCEPT ![u] = updates'[u]]
  BY <1>1 DEF RuntimeTypes
<1>5. RuntimeTypes'
  BY <1>1, <1>2, <1>3, <1>4 DEF RuntimeTypes
<1>6. UnderWay' = UnderWay /\ u \in UnderWay
  BY <1>1, <1>3 DEF UnderWay
<1>7. \A s : (Built(s)' <=> Built(s)) /\ (Replaced(s)' <=> Replaced(s))
  BY <1>1, <1>3 DEF Built, Replaced
<1>8. \A s : Cached(s)' = Cached(s)
  BY <1>1 DEF Cached
<1>9. CachesOwn' /\ CachedUntilCleared'
  <2>2. \A i \in DOMAIN made : Cached(made[i].by)' = Cached(made[i].by)
    BY <1>1 DEF Cached
  <2>3. \A i \in DOMAIN made : Cleared(made[i].by)' <=> Cleared(made[i].by)
    BY <1>1, <1>3 DEF Cleared
  <2> QED
    BY <1>1, <1>8, <2>2, <2>3 DEF CachesOwn, CachedUntilCleared
<1>10. OpenUntilClosing'
  <2>1. \A s : Closing(s) => Closing(s)'
    BY <1>1, <1>3 DEF Closing
  <2> QED
    BY <1>1, <1>8, <2>1 DEF OpenUntilClosing
<1>11. ClosesAll'
  <2>1. \A v \in Update : Cached(updates[v].old)' = Cached(updates[v].old)
    <3>1. \A v \in Update : updates'[v].old = updates[v].old
      BY <1>3
    <3> QED
      BY <1>1, <3>1 DEF Cached
  <2> QED
    BY <1>1, <1>3, <1>8, <2>1 DEF ClosesAll, Settled
<1>12. Replacing'
  <2>1. \A i \in Cached(r) : i \in DOMAIN made /\ made[i].by = r
    BY <1>2 DEF CachesOwn
  <2>2. \A s \in Runtime : refresh'[s] # "none" => refresh[s] # "none"
    BY <1>1, <1>2 DEF RuntimeTypes
  <2>3. Built(installed)' /\ \A s \in Runtime : refresh'[s] # "none" => Built(s)'
    BY <1>1, <1>7, <2>2 DEF Replacing, ReplacesBuilt, Built
  <2>4. \A v \in Update : updates[v].old \in Runtime => (Built(updates[v].old)' <=> Built(updates[v].old))
    <3>1. \A v \in Update : updates'[v].old = updates[v].old
      BY <1>3
    <3>2. \A v \in Update : updates'[v].at = "over" <=> updates[v].at = "over"
      BY <1>1, <1>3
    <3> QED
      BY <3>1, <3>2 DEF Built
  <2>5. \A v \in Update : ReplacesBuilt(v)'
    <3> TAKE v \in Update
    <3>1. ReplacesBuilt(v)
      BY DEF Replacing
    <3>2. CASE v = u
      <4>1. Built(updates[u].old)'
        BY <1>1, <1>2, <2>4, <3>1, <3>2 DEF ReplacesBuilt
      <4>2. ReplacesBuilt(u)'
        BY <1>1, <1>2, <1>3, <2>1, <4>1 DEF ReplacesBuilt
      <4> QED
        BY <3>2, <4>2
    <3>3. CASE v # u
      BY <1>1, <1>3, <2>4, <3>1, <3>3 DEF ReplacesBuilt
    <3> QED
      BY <3>2, <3>3
  <2> QED
    BY <1>1, <1>6, <2>3, <2>5 DEF Replacing, ReplacesBuilt
<1>13. OneAtATime'
  BY <1>1, <1>3, <1>6, <1>7 DEF OneAtATime, UnderWay
<1>14. Requests' /\ UndisturbedAreServed'
  BY <1>1, <1>6 DEF Requests, UndisturbedAreServed
<1>15. OpenIsOwned'
  <2> SUFFICES ASSUME NEW i \in DOMAIN made, made[i].open, i \notin stuck \cup strays, ~ raced,
                      i \notin Cached(installed), i \notin todoAtStop
               PROVE  \E v \in UnderWay : /\ updates'[v].old = made[i].by
                                          /\ updates'[v].at = "discovery" \/ i \in updates'[v].todo
    BY <1>1, <1>6, <1>8 DEF OpenIsOwned, Replacing
  <2>1. PICK v \in UnderWay : /\ updates[v].old = made[i].by
                              /\ updates[v].at = "discovery" \/ i \in updates[v].todo
    BY DEF OpenIsOwned
  <2>2. v = u
    BY <1>6, <2>1 DEF OneAtATime
  <2>3. ~ Cleared(r)
    BY <1>6 DEF Cleared, OneAtATime, Replacing, ReplacesBuilt
  <2>4. i \in Cached(r)
    BY <2>1, <2>2, <2>3 DEF CachedUntilCleared
  <2> QED
    BY <1>3, <1>6, <2>1, <2>2, <2>4
<1> QED
  BY <1>5, <1>9, <1>10, <1>11, <1>12, <1>13, <1>14, <1>15

\* What the closing of an instance does, whoever closes it.
LEMMA CloseDoes ==
  ASSUME RInv, NEW i \in DOMAIN made, NEW todo \in SUBSET Nat, Close(i, todo)
  PROVE  /\ i \in todo
         /\ made' \in Seq([by : Runtime, open : BOOLEAN]) /\ stuck' \subseteq Nat
         /\ DOMAIN made' = DOMAIN made
         /\ \A j \in DOMAIN made : made'[j].by = made[j].by
         /\ \A j \in DOMAIN made \ {i} : made'[j] = made[j]
         /\ ~ made'[i].open \/ i \in stuck'
         /\ stuck \subseteq stuck'
         /\ \A j \in DOMAIN made : made'[j].open => made[j].open
<1> USE DEF RInv
<1>1. i \in todo /\ i \in Nat
  BY MadeTypes DEF Close
<1>2. CASE made' = [made EXCEPT ![i].open = FALSE] /\ stuck' = stuck
  <2> DEFINE I == [by : Runtime, open : BOOLEAN]
             closed == [made[i] EXCEPT !.open = FALSE]
  <2>1. made \in Seq(I) /\ made' = [made EXCEPT ![i] = closed]
    BY <1>2 DEF RuntimeTypes
  <2>2. closed \in I /\ closed.by = made[i].by /\ ~ closed.open
    <3>1. made[i] \in I
      <4> HIDE DEF I
      <4> QED
        BY <2>1
    <3> QED
      BY <3>1
  <2>3. stuck' \subseteq Nat /\ stuck \subseteq stuck'
    BY <1>2 DEF RuntimeTypes
  <2> HIDE DEF I, closed
  <2>4. /\ made' \in Seq(I) /\ DOMAIN made' = DOMAIN made /\ made'[i] = closed
        /\ \A j \in DOMAIN made \ {i} : made'[j] = made[j]
    BY <2>1, <2>2
  <2> QED
    BY <1>1, <2>2, <2>3, <2>4 DEF I
<1>3. CASE stuck' = stuck \cup {i} /\ made' = made
  BY <1>1, <1>3 DEF RuntimeTypes
<1> QED
  BY <1>2, <1>3 DEF Close

LEMMA CloseForUpdateKeeps ==
  ASSUME RInv, NEW u \in Update, NEW i \in DOMAIN made, CloseForUpdate(u, i)
  PROVE  RInv'
<1> USE DEF RInv
<1>1. /\ updates[u].at = "closing" /\ Close(i, updates[u].todo)
      /\ updates' = [updates EXCEPT ![u].todo = @ \ {i}]
      /\ UNCHANGED <<settings, cacheOf, refresh, builtFrom, installed, serving, requestAt,
                     overlapped, appPhase, todoAtStop, raced, strays>>
  BY DEF CloseForUpdate, workVars
<1>2. updates[u].todo \in SUBSET Nat
  BY DEF RuntimeTypes
<1>3. /\ i \in updates[u].todo
      /\ made' \in Seq([by : Runtime, open : BOOLEAN]) /\ stuck' \subseteq Nat
      /\ DOMAIN made' = DOMAIN made
      /\ \A j \in DOMAIN made : made'[j].by = made[j].by
      /\ \A j \in DOMAIN made \ {i} : made'[j] = made[j]
      /\ ~ made'[i].open \/ i \in stuck'
      /\ stuck \subseteq stuck'
      /\ \A j \in DOMAIN made : made'[j].open => made[j].open
  BY <1>1, <1>2, CloseDoes
<1>4. /\ \A v \in Update : /\ updates'[v].at = updates[v].at /\ updates'[v].old = updates[v].old
                           /\ updates'[v].new = updates[v].new
                           /\ updates'[v].todo \subseteq updates[v].todo
                           /\ updates[v].todo \subseteq updates'[v].todo \cup {i}
      /\ \A v \in Update \ {u} : updates'[v] = updates[v]
      /\ updates'[u] \in [at : {"none", "discovery", "closing", "over"},
                          old : 0 .. MaxUpdates + 1, new : Nat, todo : SUBSET Nat]
  BY <1>1, <1>2 DEF RuntimeTypes
<1>5. updates' = [updates EXCEPT ![u] = updates'[u]]
  BY <1>1 DEF RuntimeTypes
<1>6. RuntimeTypes'
  BY <1>1, <1>3, <1>4, <1>5 DEF RuntimeTypes
<1>7. UnderWay' = UnderWay /\ u \in UnderWay
  BY <1>1, <1>4 DEF UnderWay
<1>8. \A s : (Built(s)' <=> Built(s)) /\ (Replaced(s)' <=> Replaced(s)) /\ Cached(s)' = Cached(s)
  BY <1>1, <1>4 DEF Built, Replaced, Cached
<1>9. CachesOwn' /\ CachedUntilCleared'
  <2>1. \A j \in DOMAIN made : Cached(made[j].by)' = Cached(made[j].by)
    BY <1>1, <1>3 DEF Cached
  <2>2. \A j \in DOMAIN made : Cleared(made[j].by) => Cleared(made[j].by)'
    BY <1>1, <1>3, <1>4 DEF Cleared
  <2> QED
    BY <1>3, <1>8, <2>1, <2>2 DEF CachesOwn, CachedUntilCleared
<1>10. OpenUntilClosing'
  <2>1. \A s : Closing(s) => Closing(s)'
    BY <1>1, <1>4 DEF Closing
  <2>2. \A s \in Runtime : i \in Cached(s) => Closing(s)
    BY <1>1, <1>3 DEF Closing, CachesOwn, Replacing, ReplacesBuilt
  <2> QED
    BY <1>3, <1>8, <2>1, <2>2 DEF OpenUntilClosing, CachesOwn
<1>11. \A j \in DOMAIN made : Settled(j) => Settled(j)'
  BY <1>1, <1>3 DEF Settled
<1>12. Settled(i)'
  BY <1>3 DEF Settled
<1>13. ClosesAll'
  <2>1. \A v \in Update : Cached(updates[v].old)' = Cached(updates[v].old)
    BY <1>1, <1>4 DEF Cached
  <2>2. ASSUME NEW v \in Update, updates[v].at = "closing", NEW j \in Cached(updates[v].old)
        PROVE  Settled(j)' \/ j \in updates'[v].todo
    <3>1. j \in DOMAIN made
      BY <2>2 DEF CachesOwn, Replacing, ReplacesBuilt
    <3> QED
      BY <1>4, <1>11, <1>12, <2>2, <3>1 DEF ClosesAll
  <2>3. appPhase # "stopping"
    BY <1>7 DEF Replacing
  <2> QED
    BY <1>1, <1>4, <2>1, <2>2, <2>3 DEF ClosesAll
<1>14. Replacing'
  <2>1. Built(installed)' /\ \A s \in Runtime : refresh'[s] # "none" => Built(s)'
    BY <1>1, <1>8 DEF Replacing, Built
  <2>2. ASSUME NEW v \in Update
        PROVE  ReplacesBuilt(v)'
    <3>1. ReplacesBuilt(v)
      BY DEF Replacing
    <3>2. Built(updates[v].old) => Built(updates[v].old)'
      BY <1>4 DEF Built
    <3>3. updates[v].at = "none" => updates'[v] = updates[v]
      BY <1>1, <1>4
    <3> QED
      BY <1>1, <1>3, <1>4, <3>1, <3>2, <3>3 DEF ReplacesBuilt
  <2> QED
    BY <1>1, <1>7, <2>1, <2>2 DEF Replacing
<1>15. OneAtATime'
  BY <1>1, <1>4, <1>7, <1>8 DEF OneAtATime, UnderWay
<1>16. Requests'
  BY <1>1, <1>3, <1>7 DEF Requests
<1>17. UndisturbedAreServed'
  <2>1. \A q \in Request \ overlapped : requestAt[q] # "open"
    BY <1>7 DEF Requests
  <2> QED
    BY <1>1, <2>1 DEF UndisturbedAreServed
<1>18. OpenIsOwned'
  <2> SUFFICES ASSUME NEW j \in DOMAIN made, made'[j].open, j \notin stuck' \cup strays, ~ raced
               PROVE  \/ j \in Cached(installed) /\ (appPhase = "down" => installed # 1)
                      \/ j \in todoAtStop
                      \/ \E v \in UnderWay : /\ updates'[v].old = made'[j].by
                                             /\ updates'[v].at = "discovery" \/ j \in updates'[v].todo
    BY <1>1, <1>3, <1>7, <1>8 DEF OpenIsOwned
  <2>1. j # i /\ made[j].open /\ j \notin stuck \cup strays
    BY <1>3
  <2> QED
    BY <1>3, <1>4, <2>1 DEF OpenIsOwned, UnderWay
<1> QED
  BY <1>6, <1>9, <1>10, <1>13, <1>14, <1>15, <1>16, <1>17, <1>18

LEMMA UpdateInstallsKeeps ==
  ASSUME RInv, NEW u \in Update, UpdateInstalls(u)
  PROVE  RInv'
<1> USE DEF RInv
<1> DEFINE r == updates[u].old
<1>1. /\ updates[u].at = "closing" /\ updates[u].todo = {}
      /\ updates' = [updates EXCEPT ![u].at = "over"]
      /\ cacheOf' = [cacheOf EXCEPT ![r] = NoCache]
      /\ installed' = u + 1
      /\ builtFrom' = [builtFrom EXCEPT ![u + 1] = updates[u].new]
      /\ refresh' = [refresh EXCEPT ![u + 1] = "starting"]
      /\ UNCHANGED <<settings, made, serving, requestAt, overlapped, appPhase, todoAtStop,
                     raced, stuck, strays>>
  BY DEF UpdateInstalls, workVars
<1>2. /\ r \in Runtime /\ Built(r) /\ u \in Nat /\ u + 1 \in Runtime
      /\ \A v \in Update : v \in Nat
  BY <1>1, RuntimesAssumption DEF RuntimesAssumption, Replacing, ReplacesBuilt, Update, Runtime
<1>3. /\ \A v \in Update \ {u} : updates'[v] = updates[v]
      /\ updates'[u].at = "over" /\ updates'[u].old = r
      /\ updates'[u].new = updates[u].new /\ updates'[u].todo = {}
      /\ updates'[u] \in [at : {"none", "discovery", "closing", "over"},
                          old : 0 .. MaxUpdates + 1, new : Nat, todo : SUBSET Nat]
  BY <1>1 DEF RuntimeTypes
<1>4. updates' = [updates EXCEPT ![u] = updates'[u]]
  BY <1>1 DEF RuntimeTypes
<1>5. /\ cacheOf' \in [Runtime -> [Provider -> Nat]]
      /\ builtFrom' \in [Runtime -> Nat]
      /\ refresh' \in [Runtime -> {"none", "starting", "querying", "done"}]
  BY <1>1 DEF RuntimeTypes, NoCache
<1>6. RuntimeTypes'
  BY <1>1, <1>2, <1>3, <1>4, <1>5 DEF RuntimeTypes
<1>7. UnderWay' = UnderWay \ {u} /\ u \in UnderWay /\ appPhase = "up"
  BY <1>1, <1>3 DEF UnderWay, Replacing
<1>8. \A s : Built(s)' <=> Built(s) \/ s = u + 1
  BY <1>1, <1>3 DEF Built
<1>9. ~ Built(u + 1)
  BY <1>1, <1>2 DEF Built, Update
<1>10. \A s \in Runtime : Cached(s)' = IF s = r THEN {} ELSE Cached(s)
  BY <1>1, <1>2 DEF Cached, NoCache, RuntimeTypes
<1>11. \A v \in Update : updates'[v].old = updates[v].old
  BY <1>3
<1>12. \A s : (Replaced(s)' <=> Replaced(s)) /\ (Closing(s) => Closing(s)')
  BY <1>1, <1>3, <1>11 DEF Replaced, Closing
<1>13. CachesOwn' /\ OpenUntilClosing'
  BY <1>1, <1>2, <1>10, <1>12 DEF CachesOwn, OpenUntilClosing
<1>14. CachedUntilCleared'
  <2> SUFFICES ASSUME NEW i \in DOMAIN made
               PROVE  i \in Cached(made[i].by)' \/ Cleared(made[i].by)'
    BY <1>1 DEF CachedUntilCleared
  <2>1. PICK s \in Runtime : s = made[i].by
    BY MadeTypes
  <2>2. i \in Cached(s) \/ Cleared(s)
    BY <2>1 DEF CachedUntilCleared
  <2>3. Cleared(s) \/ s = r => Cleared(s)'
    BY <1>1, <1>3 DEF Cleared
  <2>4. i \in Cached(s)' \/ Cleared(s)'
    <3>1. CASE s = r
      BY <2>3, <3>1
    <3>2. CASE s # r
      <4>1. Cached(s)' = Cached(s)
        BY <1>10, <3>2
      <4> QED
        BY <2>2, <2>3, <4>1
    <3> QED
      BY <3>1, <3>2
  <2> QED
    BY <1>1, <2>1, <2>4 DEF Cached, Cleared
<1>15. ClosesAll'
  <2> SUFFICES ASSUME NEW v \in Update, updates'[v].at = "closing",
                      NEW i \in Cached(updates[v].old)'
               PROVE  Settled(i)' \/ i \in updates'[v].todo
    BY <1>1, <1>7 DEF ClosesAll
  <2>1. v # u /\ updates'[v] = updates[v] /\ updates[v].at = "closing"
    BY <1>3
  <2>2. PICK s \in Runtime : s = updates[v].old /\ s = updates'[v].old
    BY <2>1 DEF Replacing, ReplacesBuilt
  <2>3. i \in Cached(s)'
    BY <2>2 DEF Cached
  <2>4. i \in Cached(updates[v].old)
    <3>1. s # r
      BY <1>10, <2>3
    <3>2. Cached(s)' = Cached(s)
      BY <1>10, <3>1
    <3> QED
      BY <2>2, <2>3, <3>2
  <2> QED
    BY <1>1, <2>1, <2>4 DEF ClosesAll, Settled
<1>16. Replacing'
  <2>1. Built(installed)'
    BY <1>1, <1>3 DEF Built
  <2>2. \A s \in Runtime : refresh'[s] # "none" => Built(s)'
    BY <1>1, <1>8 DEF Replacing, RuntimeTypes
  <2>3. ASSUME NEW v \in Update
        PROVE  ReplacesBuilt(v)'
    <3>1. ReplacesBuilt(v) /\ ReplacesBuilt(u)
      BY DEF Replacing
    <3>2. Built(updates[v].old) => Built(updates[v].old)'
      <4>1. \A w \in Update : updates[w].at = "over" => updates'[w].at = "over"
        BY <1>3
      <4> QED
        BY <1>11, <4>1 DEF Built
    <3>3. updates'[v].at # "none" => updates[v].old # installed'
      BY <1>1, <1>3, <1>9, <3>1 DEF ReplacesBuilt
    <3>4. CASE v = u
      BY <1>1, <1>2, <1>3, <3>1, <3>2, <3>3, <3>4 DEF ReplacesBuilt
    <3>5. CASE v # u
      BY <1>1, <1>3, <3>1, <3>2, <3>3, <3>5 DEF ReplacesBuilt
    <3> QED
      BY <3>4, <3>5
  <2> QED
    BY <1>1, <1>7, <2>1, <2>2, <2>3 DEF Replacing
<1>17. OneAtATime'
  <2> SUFFICES ASSUME ~ raced
               PROVE  OneAtATime'
    BY <1>1 DEF OneAtATime
  <2>1. UnderWay = {u} /\ r = installed /\ updates[u].new = settings
    BY <1>7 DEF OneAtATime
  <2>2. Replaced(installed)
    BY <2>1 DEF Replaced
  <2>3. \A s \in Runtime : Built(s)' => s = installed' \/ Replaced(s)'
    BY <1>1, <1>8, <1>12, <2>2 DEF OneAtATime
  <2>4. UnderWay' = {} /\ builtFrom'[installed'] = settings
    BY <1>1, <1>2, <1>7, <2>1 DEF RuntimeTypes
  <2> QED
    BY <1>1, <2>3, <2>4 DEF OneAtATime
<1>18. \A q \in Request \ overlapped : requestAt[q] # "open"
  BY <1>7 DEF Requests
<1>19. Requests' /\ UndisturbedAreServed'
  BY <1>1, <1>7, <1>18 DEF Requests, UndisturbedAreServed
<1>20. OpenIsOwned'
  <2> SUFFICES ASSUME NEW i \in DOMAIN made, made[i].open, i \notin stuck \cup strays, ~ raced
               PROVE  i \in todoAtStop
    BY <1>1 DEF OpenIsOwned
  <2>1. UnderWay = {u} /\ r = installed
    BY <1>7 DEF OneAtATime
  <2>2. i \notin Cached(r)
    BY <1>1 DEF ClosesAll, Settled
  <2> QED
    BY <1>1, <2>1, <2>2 DEF OpenIsOwned
<1> QED
  BY <1>6, <1>13, <1>14, <1>15, <1>16, <1>17, <1>19, <1>20

-----------------------------------------------------------------------------
LEMMA ShutdownBeginsKeeps == ASSUME RInv, ShutdownBegins PROVE RInv'
<1> USE DEF RInv
<1>1. /\ appPhase = "up" /\ appPhase' = "stopping" /\ UnderWay = {}
      /\ \A q \in Request : requestAt[q] # "open"
      /\ todoAtStop' = Cached(1)
      /\ refresh' = [refresh EXCEPT ![1] = IF @ = "none" THEN "none" ELSE "done"]
      /\ UNCHANGED <<settings, made, cacheOf, builtFrom, installed, updates, serving,
                     requestAt, overlapped, raced, stuck, strays>>
  BY DEF ShutdownBegins, workVars
<1>2. 1 \in Runtime /\ Cached(1) \subseteq Nat
  BY RuntimesAssumption DEF RuntimesAssumption, Runtime, RuntimeTypes, Cached
<1>3. RuntimeTypes'
  BY <1>1, <1>2 DEF RuntimeTypes
<1>4. \A s : Cached(s)' = Cached(s) /\ (Cleared(s) => Cleared(s)') /\ (Closing(s) => Closing(s)')
  BY <1>1 DEF Cached, Cleared, Closing
<1>5. CachesOwn' /\ OpenUntilClosing'
  BY <1>1, <1>4 DEF CachesOwn, OpenUntilClosing
<1>6. CachedUntilCleared'
  BY <1>1 DEF CachedUntilCleared, Cached, Cleared
<1>7. ClosesAll'
  BY <1>1, <1>4 DEF ClosesAll, UnderWay
<1>8. \A s \in Runtime : refresh'[s] # "none" => refresh[s] # "none"
  BY <1>1, <1>2 DEF RuntimeTypes
<1>9. Replacing'
  <2>1. \A u \in Update : ReplacesBuilt(u)'
    BY <1>1 DEF Replacing, ReplacesBuilt, Built
  <2>2. \A i \in todoAtStop' : i \in DOMAIN made /\ made[i].by = 1
    BY <1>1, <1>2 DEF CachesOwn
  <2>3. UnderWay' = {} /\ Built(installed)' /\ \A s \in Runtime : refresh'[s] # "none" => Built(s)'
    BY <1>1, <1>8 DEF Replacing, Built, UnderWay
  <2> QED
    BY <1>1, <2>1, <2>2, <2>3 DEF Replacing
<1>10. OneAtATime' /\ Requests' /\ UndisturbedAreServed'
  BY <1>1 DEF OneAtATime, Requests, UndisturbedAreServed, UnderWay, Built, Replaced
<1>11. OpenIsOwned'
  BY <1>1 DEF OpenIsOwned, UnderWay, Cached, Replacing
<1> QED
  BY <1>3, <1>5, <1>6, <1>7, <1>9, <1>10, <1>11

LEMMA CloseAtShutdownKeeps ==
  ASSUME RInv, NEW i \in DOMAIN made, CloseAtShutdown(i)
  PROVE  RInv'
<1> USE DEF RInv
<1>1. /\ appPhase = "stopping" /\ Close(i, todoAtStop)
      /\ todoAtStop' = todoAtStop \ {i}
      /\ UNCHANGED <<settings, cacheOf, refresh, builtFrom, installed, updates, serving,
                     requestAt, overlapped, appPhase, raced, strays>>
  BY DEF CloseAtShutdown, workVars
<1>2. todoAtStop \in SUBSET Nat
  BY DEF RuntimeTypes
<1>3. /\ made' \in Seq([by : Runtime, open : BOOLEAN]) /\ stuck' \subseteq Nat
      /\ DOMAIN made' = DOMAIN made
      /\ \A j \in DOMAIN made : made'[j].by = made[j].by
      /\ \A j \in DOMAIN made \ {i} : made'[j] = made[j]
      /\ ~ made'[i].open \/ i \in stuck'
      /\ stuck \subseteq stuck'
      /\ \A j \in DOMAIN made : made'[j].open => made[j].open
      /\ i \in todoAtStop
  BY <1>1, <1>2, CloseDoes
<1>4. RuntimeTypes'
  BY <1>1, <1>3 DEF RuntimeTypes
<1>5. \A s : /\ Cached(s)' = Cached(s) /\ Cleared(s)' = Cleared(s)
             /\ (Closing(s) => Closing(s)')
  BY <1>1 DEF Cached, Cleared, Closing
<1>6. UnderWay = {} /\ UnderWay' = {}
  BY <1>1 DEF UnderWay, Replacing
<1>7. CachesOwn'
  BY <1>3, <1>5 DEF CachesOwn
<1>8. CachedUntilCleared'
  <2>1. \A j \in DOMAIN made : /\ Cached(made[j].by)' = Cached(made[j].by)
                               /\ Cleared(made[j].by) => Cleared(made[j].by)'
    BY <1>1, <1>3 DEF Cached, Cleared
  <2> QED
    BY <1>3, <2>1 DEF CachedUntilCleared
<1>9. OpenUntilClosing'
  <2>1. \A s \in Runtime : i \in Cached(s) => Closing(s)
    BY <1>1, <1>3 DEF Closing, CachesOwn, Replacing
  <2> QED
    BY <1>3, <1>5, <2>1 DEF OpenUntilClosing, CachesOwn
<1>10. /\ Settled(i)'
       /\ \A j \in DOMAIN made : Settled(j) => Settled(j)'
  BY <1>1, <1>3 DEF Settled
<1>11. ClosesAll'
  <2>1. 1 \in Runtime
    BY RuntimesAssumption DEF RuntimesAssumption, Runtime
  <2>2. \A j \in Cached(1) : Settled(j)' \/ j \in todoAtStop'
    BY <1>1, <1>10, <2>1 DEF ClosesAll, CachesOwn
  <2>3. \A u \in Update : updates[u].at # "closing"
    BY <1>6 DEF UnderWay
  <2> QED
    BY <1>1, <1>5, <2>2, <2>3 DEF ClosesAll
<1>12. Replacing'
  <2>1. \A u \in Update : ReplacesBuilt(u)'
    BY <1>1, <1>3 DEF Replacing, ReplacesBuilt, Built
  <2>2. \A j \in todoAtStop' : j \in DOMAIN made' /\ made'[j].by = 1
    BY <1>1, <1>3 DEF Replacing
  <2>3. Built(installed)' /\ \A s \in Runtime : refresh'[s] # "none" => Built(s)'
    BY <1>1 DEF Replacing, Built
  <2> QED
    BY <1>1, <1>6, <2>1, <2>2, <2>3 DEF Replacing
<1>13. OneAtATime'
  BY <1>1 DEF OneAtATime, UnderWay, Built, Replaced
<1>14. Requests' /\ UndisturbedAreServed'
  BY <1>1 DEF Requests, UndisturbedAreServed
<1>15. OpenIsOwned'
  <2> SUFFICES ASSUME NEW j \in DOMAIN made, made'[j].open, j \notin stuck' \cup strays, ~ raced
               PROVE  j \in Cached(installed) \/ j \in todoAtStop'
    BY <1>1, <1>3, <1>5 DEF OpenIsOwned
  <2>1. j # i /\ made[j].open /\ j \notin stuck \cup strays
    BY <1>3
  <2> QED
    BY <1>1, <1>6, <2>1 DEF OpenIsOwned
<1> QED
  BY <1>4, <1>7, <1>8, <1>9, <1>11, <1>12, <1>13, <1>14, <1>15

LEMMA ShutdownEndsKeeps == ASSUME RInv, ShutdownEnds PROVE RInv'
<1> USE DEF RInv
<1>1. /\ appPhase = "stopping" /\ appPhase' = "down"
      /\ stuck' = stuck \cup todoAtStop /\ todoAtStop' = {}
      /\ cacheOf' = [cacheOf EXCEPT ![1] = NoCache]
      /\ UNCHANGED <<settings, made, refresh, builtFrom, installed, updates, serving,
                     requestAt, overlapped, raced, strays>>
  BY DEF ShutdownEnds, workVars
<1>2. 1 \in Runtime
  BY RuntimesAssumption DEF RuntimesAssumption, Runtime
<1>3. RuntimeTypes'
  BY <1>1, <1>2 DEF RuntimeTypes, NoCache
<1>4. Cached(1)' = {} /\ \A s \in Runtime \ {1} : Cached(s)' = Cached(s)
  BY <1>1, <1>2 DEF Cached, NoCache, RuntimeTypes
<1>5. UnderWay = {} /\ UnderWay' = {}
  BY <1>1 DEF UnderWay, Replacing
<1>6. \A s : Closing(s) => Closing(s)'
  BY <1>1 DEF Closing
<1>7. CachesOwn' /\ OpenUntilClosing'
  BY <1>1, <1>4, <1>6 DEF CachesOwn, OpenUntilClosing
<1>8. CachedUntilCleared'
  <2> SUFFICES ASSUME NEW i \in DOMAIN made
               PROVE  i \in Cached(made[i].by)' \/ Cleared(made[i].by)'
    BY <1>1 DEF CachedUntilCleared
  <2>1. PICK s \in Runtime : s = made[i].by
    BY MadeTypes
  <2>2. i \in Cached(s) \/ Cleared(s)
    BY <2>1 DEF CachedUntilCleared
  <2>3. (Cleared(s) \/ s = 1) => Cleared(s)'
    BY <1>1 DEF Cleared
  <2>4. i \in Cached(s)' \/ Cleared(s)'
    BY <1>4, <2>2, <2>3
  <2> QED
    BY <1>1, <2>1, <2>4 DEF Cached, Cleared
<1>9. ClosesAll'
  BY <1>1, <1>5 DEF ClosesAll, UnderWay
<1>10. Replacing'
  <2>1. \A u \in Update : ReplacesBuilt(u)'
    BY <1>1 DEF Replacing, ReplacesBuilt, Built
  <2> QED
    BY <1>1, <1>5, <2>1 DEF Replacing, Built
<1>11. OneAtATime'
  BY <1>1 DEF OneAtATime, UnderWay, Built, Replaced
<1>12. Requests' /\ UndisturbedAreServed'
  BY <1>1 DEF Requests, UndisturbedAreServed
<1>13. OpenIsOwned'
  <2> SUFFICES ASSUME NEW i \in DOMAIN made, made[i].open, i \notin stuck' \cup strays, ~ raced
               PROVE  i \in Cached(installed)' /\ installed # 1
    BY <1>1 DEF OpenIsOwned
  <2>1. i \in Cached(installed) /\ i \notin stuck \cup strays /\ i \notin todoAtStop
    BY <1>1, <1>5 DEF OpenIsOwned
  <2>2. installed # 1
    BY <1>1, <2>1 DEF ClosesAll, Settled
  <2>3. installed \in Runtime \ {1}
    BY <2>2 DEF RuntimeTypes
  <2>4. PICK s \in Runtime \ {1} : s = installed /\ s = installed'
    BY <1>1, <2>3
  <2> QED
    BY <1>1, <1>4, <2>1, <2>2, <2>4 DEF Cached
<1> QED
  BY <1>3, <1>7, <1>8, <1>9, <1>10, <1>11, <1>12, <1>13

\* A provider's instance is never lost, and none is closed under a request that no update
\* overlaps, for any number of providers, requests and updates: who installs a runtime, or
\* shuts the first one down, has all of the instances of the old one on his list (the
\* caches of src/providers/runtime/, update_config in src/api/routes.py, AppRuntime.shutdown).
THEOREM RuntimesInductive == RuntimeSpec => []RInv
<1>1. RInv /\ [RuntimeNext]_runtimeVars => RInv'
  <2> SUFFICES ASSUME RInv, [RuntimeNext]_runtimeVars
               PROVE  RInv'
    OBVIOUS
  <2>1. CASE UNCHANGED runtimeVars
    <3>1. UNCHANGED <<settings, made, cacheOf, refresh, builtFrom, installed, updates, serving,
                      requestAt, appPhase, todoAtStop, overlapped, raced, stuck, strays>>
      BY <2>1 DEF runtimeVars
    <3>2. RuntimeTypes' /\ OneAtATime' /\ Requests'
      BY <3>1 DEF RInv, RuntimeTypes, OneAtATime, Requests, UnderWay, Built, Replaced
    <3>5. Replacing'
      BY <3>1 DEF RInv, Replacing, ReplacesBuilt, UnderWay, Built
    <3>3. CachesOwn' /\ CachedUntilCleared' /\ OpenUntilClosing' /\ ClosesAll'
      BY <3>1 DEF RInv, CachesOwn, CachedUntilCleared, OpenUntilClosing, ClosesAll, Cached,
                  Cleared, Closing, Settled
    <3>4. OpenIsOwned' /\ UndisturbedAreServed'
      BY <3>1 DEF RInv, OpenIsOwned, UndisturbedAreServed, UnderWay, Cached
    <3> QED
      BY <3>2, <3>3, <3>4, <3>5 DEF RInv
  <2>2. CASE Validate \/ ShutdownBegins \/ ShutdownEnds
    BY <2>2, ValidateKeeps, ShutdownBeginsKeeps, ShutdownEndsKeeps
  <2>3. CASE \E r \in Runtime : RefreshStarts(r) \/ RefreshEnds(r)
    BY <2>3, RefreshStartsKeeps, RefreshEndsKeeps
  <2>4. CASE \E q \in Request : EndRequest(q) \/ \E p \in Provider : StartRequest(q, p)
    BY <2>4, EndRequestKeeps, StartRequestKeeps
  <2>5. CASE \E u \in Update : UpdateBegins(u) \/ UpdateCloses(u) \/ UpdateInstalls(u)
    BY <2>5, UpdateBeginsKeeps, UpdateClosesKeeps, UpdateInstallsKeeps
  <2>6. CASE \E i \in DOMAIN made : CloseAtShutdown(i) \/ \E u \in Update : CloseForUpdate(u, i)
    BY <2>6, CloseAtShutdownKeeps, CloseForUpdateKeeps
  <2> QED
    BY <2>6, <2>5, <2>3, <2>4, <2>2, <2>1 DEF RuntimeNext
<1> QED
  BY InitRInv, <1>1, PTL DEF RuntimeSpec

\* The property that the run checks, for every value of the constants.
THEOREM ProvidersAreKeptCorrect == RuntimeSpec => []ProvidersAreKept
<1>1. RInv => ProvidersAreKept
  BY DEF RInv, ProvidersAreKept
<1> QED
  BY <1>1, RuntimesInductive, PTL
=============================================================================
