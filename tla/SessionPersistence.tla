------------------------- MODULE SessionPersistence -------------------------
(***************************************************************************)
(* The session store's file (src/messaging/session/persistence.py) and the *)
(* operations of SessionStore (store.py) that change what it should hold.  *)
(*                                                                         *)
(* The event loop's thread changes the store, and every change restarts a  *)
(* timer; each timer is a thread, which claims the save, takes a snapshot, *)
(* writes it to a temporary file, replaces the file and clears the dirty   *)
(* flag.  A thread is named by the generation of its timer.  What the      *)
(* store holds is its version: the number of changes so far.               *)
(***************************************************************************)
EXTENDS Naturals, FiniteSets

CONSTANTS
    Loop,          \* the event loop's thread
    MaxSaves,      \* bound on the generations
    MaxWipes,      \* bound on the calls of clear_all
    MaxFlushes,    \* bound on the calls of flush
    MayFail        \* may a write fail?

ASSUME PersistenceAssumption ==
    /\ MaxSaves \in Nat /\ MaxWipes \in Nat /\ MaxFlushes \in Nat
    /\ Loop \notin Nat /\ MayFail \in BOOLEAN

VARIABLES
    version,       \* of the data in the store
    clearedAt,     \* the versions made by clear_all
    wipes, flushes, \* counters that bound the model
    dirty,         \* _dirty
    gen,           \* _save_generation
    timer,         \* _save_timer, named by its generation; 0 is None
    thread,        \* per writer, where it is
    claimed,       \* per writer, the generation of its _PendingWrite
    snap,          \* per writer, the version of its snapshot
    file,          \* the version in the file
    written,       \* the latest version that was ever in the file (history)
    failed         \* the latest version that could not be written (history)

storeVars == <<version, clearedAt, wipes, flushes>>
timerVars == <<gen, timer>>
fileVars  == <<file, written, failed>>
vars == <<storeVars, dirty, timerVars, thread, claimed, snap, fileVars>>

Timer == 1 .. MaxSaves
Writer == Timer \cup {Loop}

Later(v, w) == IF v >= w THEN v ELSE w

Init ==
    /\ version = 0 /\ clearedAt = {} /\ wipes = 0 /\ flushes = 0
    /\ dirty = FALSE
    /\ gen = 0 /\ timer = 0
    /\ thread = [w \in Writer |-> "idle"]
    /\ claimed = [w \in Writer |-> 0] /\ snap = [w \in Writer |-> 0]
    /\ file = 0 /\ written = 0 /\ failed = 0

Goes(w, s) == thread' = [thread EXCEPT ![w] = s]

-----------------------------------------------------------------------------
\* Timer.cancel does nothing to a thread whose wait is over.
Cancelled(t) == IF t # 0 /\ thread[t] = "armed" THEN [thread EXCEPT ![t] = "done"] ELSE thread

\* Any change of the store: schedule_save under the store's lock.
Save ==
    /\ thread[Loop] = "idle" /\ gen < MaxSaves
    /\ version' = version + 1
    /\ dirty' = TRUE
    /\ gen' = gen + 1 /\ timer' = gen + 1
    /\ thread' = [Cancelled(timer) EXCEPT ![gen + 1] = "armed"]
    /\ UNCHANGED <<clearedAt, wipes, flushes, claimed, snap, fileVars>>

Fire(t) ==
    /\ thread[t] = "armed"
    /\ Goes(t, "fired")
    /\ UNCHANGED <<storeVars, dirty, timerVars, claimed, snap, fileVars>>

\* The claim of a timer's thread: a timer that was replaced, or taken by flush,
\* has nothing to do.
TimerClaims(t) ==
    /\ thread[t] = "fired"
    /\ IF t = gen /\ timer # 0
       THEN timer' = 0 /\ Goes(t, "claimed") /\ claimed' = [claimed EXCEPT ![t] = gen]
       ELSE Goes(t, "done") /\ UNCHANGED <<timer, claimed>>
    /\ UNCHANGED <<storeVars, dirty, gen, snap, fileVars>>

\* flush, by the event loop's thread, which does nothing else until it is over.
FlushClaims ==
    /\ thread[Loop] = "idle" /\ flushes < MaxFlushes
    /\ flushes' = flushes + 1
    /\ timer' = 0
    /\ thread' = [Cancelled(timer) EXCEPT ![Loop] = "claimed"]
    /\ claimed' = [claimed EXCEPT ![Loop] = gen]
    /\ UNCHANGED <<version, clearedAt, wipes, dirty, gen, snap, fileVars>>

Snapshot(w) ==
    /\ thread[w] = "claimed"
    /\ snap' = [snap EXCEPT ![w] = version]
    /\ Goes(w, "writing")
    /\ UNCHANGED <<storeVars, dirty, timerVars, claimed, fileVars>>

\* os.replace
Write(w) ==
    /\ thread[w] = "writing"
    /\ file' = snap[w] /\ written' = Later(written, snap[w])
    /\ Goes(w, "written")
    /\ UNCHANGED <<storeVars, dirty, timerVars, claimed, snap, failed>>

\* The end of a writer: a timer's thread ends, the event loop goes on.
End(w) == Goes(w, IF w = Loop THEN "idle" ELSE "done")

\* Nothing tries again before the next change.
WriteFails(w) ==
    /\ MayFail /\ thread[w] = "writing"
    /\ dirty' = TRUE
    /\ failed' = Later(failed, snap[w])
    /\ End(w)
    /\ UNCHANGED <<storeVars, timerVars, claimed, snap, file, written>>

\* Seeded fault: the timer is cleared after the write.
ChecksAndDropsTimer(w) ==
    /\ thread[w] = "written"
    /\ Goes(w, "clean")
    /\ timer' = 0
    /\ UNCHANGED <<storeVars, dirty, gen, claimed, snap, fileVars>>

\* _mark_clean_if_current looks under the timer's lock, and acts after it.
ChecksCurrent(w) ==
    /\ thread[w] = "written"
    /\ IF timer = 0 /\ claimed[w] = gen THEN Goes(w, "clean") ELSE End(w)
    /\ UNCHANGED <<storeVars, dirty, timerVars, claimed, snap, fileVars>>

MarksClean(w) ==
    /\ thread[w] = "clean"
    /\ dirty' = FALSE
    /\ End(w)
    /\ UNCHANGED <<storeVars, timerVars, claimed, snap, fileVars>>

\* clear_all writes by itself, and leaves the timer and the other writers alone.
ClearStore ==
    /\ thread[Loop] = "idle" /\ wipes < MaxWipes
    /\ wipes' = wipes + 1
    /\ version' = version + 1 /\ clearedAt' = clearedAt \cup {version + 1}
    /\ snap' = [snap EXCEPT ![Loop] = version + 1]
    /\ dirty' = FALSE
    /\ Goes(Loop, "clearing")
    /\ UNCHANGED <<flushes, timerVars, claimed, fileVars>>

ClearWrites ==
    /\ thread[Loop] = "clearing"
    /\ \/ /\ file' = snap[Loop] /\ written' = Later(written, snap[Loop])
          /\ UNCHANGED <<dirty, failed>>
       \/ /\ MayFail /\ dirty' = TRUE /\ failed' = Later(failed, snap[Loop])
          /\ UNCHANGED <<file, written>>
    /\ Goes(Loop, "idle")
    /\ UNCHANGED <<storeVars, timerVars, claimed, snap>>

-----------------------------------------------------------------------------
WriterStep(w) == Snapshot(w) \/ Write(w) \/ WriteFails(w) \/ ChecksCurrent(w) \/ MarksClean(w)

Next ==
    \/ Save \/ FlushClaims \/ ClearStore \/ ClearWrites
    \/ \E t \in Timer : Fire(t) \/ TimerClaims(t)
    \/ \E w \in Writer : WriterStep(w)

Spec == Init /\ [][Next]_vars

\* Threads are scheduled, and the event loop's thread ends what it is in.
Fairness ==
    /\ \A t \in Timer : WF_vars(Fire(t) \/ TimerClaims(t))
    /\ \A w \in Writer : WF_vars(WriterStep(w))
    /\ WF_vars(ClearWrites)

FairSpec == Spec /\ Fairness
-----------------------------------------------------------------------------
ThreadState == {"idle", "armed", "fired", "claimed", "writing", "written", "clean",
                "clearing", "done"}

\* Every variable has its type, and the timer is one that was started last and has
\* not been cancelled.
TypeOK ==
    /\ version \in Nat /\ clearedAt \subseteq 1 .. version
    /\ wipes \in Nat /\ flushes \in Nat /\ dirty \in BOOLEAN
    /\ gen \in 0 .. MaxSaves /\ timer \in {0, gen}
    /\ thread \in [Writer -> ThreadState]
    /\ claimed \in [Writer -> 0 .. gen] /\ snap \in [Writer -> 0 .. version]
    /\ file \in 0 .. version /\ written \in 0 .. version /\ failed \in 0 .. version
    /\ timer # 0 => thread[timer] \in {"armed", "fired"}

\* A change that is not in the file has a timer that will save it, or a writer that
\* carries it: no interleaving of timers, flush and clear_all forgets one, unless
\* its write failed.
UnsavedIsCarried ==
    written < version /\ failed < version =>
        \/ timer # 0
        \/ \E w \in Writer : \/ thread[w] = "claimed"
                             \/ thread[w] \in {"writing", "clearing"} /\ snap[w] = version

\* "An already-running old timer cannot consume the newest save": a timer is taken
\* by its own thread or by flush.
TimerTakenByItsOwn ==
    [][timer # 0 /\ timer' = 0 =>
          \E w \in {timer, Loop} : thread[w] # "claimed" /\ thread'[w] = "claimed"]_vars

\* Every change reaches the file, or its write fails: timers that keep being
\* replaced, and writers that overlap, put nothing off for ever.
EventuallyWritten ==
    \A v \in 1 .. MaxSaves + MaxWipes : version = v ~> written >= v \/ failed >= v

Quiet == timer = 0 /\ \A w \in Writer : thread[w] \in {"idle", "done"}

\* A writer that is "thread-safe [...] with atomic replace semantics": when nothing
\* is under way and the store is not dirty, the file holds what the store holds.
CleanIsSaved == Quiet /\ ~dirty => file = version

\* "Clear persistent state": once clear_all has written, the cleared state is what
\* the file holds, until the next change.
ClearErases ==
    version \in clearedAt /\ thread[Loop] = "idle" /\ failed < version => file = version
=============================================================================
