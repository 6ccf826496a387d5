----------------------- MODULE ManagedSessions_proofs -----------------------
(***************************************************************************)
(* Proofs about ManagedSessions: for any number of runners, replies,       *)
(* cancellations and stops, a session runs one process at a time, and the  *)
(* registry knows every process that nobody has told to exit.              *)
(***************************************************************************)
EXTENDS ManagedSessions, FiniteSetTheorems, TLAPS

\* r is inside start_task and holds the CLI lock of its session.
Holds(r) ==
    \/ phase[r] \in {"spawning", "reading", "registering", "stopping", "draining"}
    \/ r \in abandoned

\* Its process is the one that its session knows.
Reads(r) ==
    \/ phase[r] \in {"reading", "registering", "stopping", "draining"}
    \/ r \in abandoned

\* A runner that is using a session has one, and the session was created.
UsesInv ==
    /\ \A r \in Runner : phase[r] = "starting" \/ Holds(r) => uses[r] \in Runner
    /\ \A r \in Runner : uses[r] \in Runner => phase[uses[r]] \notin {"new", "asking"}
    /\ \A r \in abandoned : phase[r] \in {"closing", "removing", "done", "gone"}

\* So was every session in the pool.
PoolInv ==
    \A i \in Id : /\ pending[i] \in Runner => phase[pending[i]] \notin {"new", "asking"}
                  /\ sessions[i] \in Runner => phase[sessions[i]] \notin {"new", "asking"}

\* The lock of a session has one holder.
CliLockInv == \A r \in Runner : Holds(r) => cliLock[uses[r]] = r

\* A process belongs to the session of its runner, and lives as long as somebody
\* reads it or has told it to exit.
ProcessInv ==
    /\ \A r \in Runner : Reads(r) => process[uses[r]] = r
    /\ \A s \in Runner : process[s] \in Runner =>
         /\ uses[process[s]] = s
         /\ phase[process[s]] \notin {"new", "asking", "starting", "spawning"}
    /\ \A r \in Runner : proc[r] # "none" => phase[r] \notin {"new", "asking", "starting", "spawning"}
    /\ \A r \in Runner : Reads(r) => proc[r] # "none"
    /\ \A r \in Runner : proc[r] = "running" =>
         (phase[r] \in {"reading", "registering"} \/ r \in abandoned) /\ r \in pids

\* A runner that has a session knows an id to remove it by.
KeyInv ==
    /\ \A r \in Runner : phase[r] \notin {"new", "asking", "done", "gone"} => Key(r) \in Id
    /\ \A r \in Runner : phase[r] = "registering" => temp[r] \in Id

\* A session waits under a fresh id or that of its parent, and is known by the id that
\* its CLI reported.  A runner gives up the first for the second.
Waiting == {Temp(r) : r \in Runner} \cup {OriginId}

KindInv ==
    /\ \A i \in Id : pending[i] # NoOne => i \in Waiting
    /\ \A i \in Id : sessions[i] # NoOne => i \notin Waiting
    /\ \A r \in Runner : temp[r] # NoId => temp[r] \in Waiting /\ captured[r] = NoId
    /\ \A r \in Runner : phase[r] \in {"new", "asking"} => temp[r] = NoId /\ captured[r] = NoId

\* A session is in one map, under one id.
UniqueInv ==
    \A i, j \in Id :
        /\ pending[i] # NoOne /\ pending[i] = pending[j] => i = j
        /\ sessions[i] # NoOne /\ sessions[i] = sessions[j] => i = j
        /\ pending[i] # NoOne => pending[i] # sessions[j]

\* An entry keeps its remover, and who has come to remove it has taken it out.
RemoverInv ==
    /\ EntryHasRemover
    /\ \A r \in Runner : phase[r] = "removing" =>
         pending[Key(r)] = NoOne /\ sessions[Key(r)] = NoOne

MInv ==
    /\ TypeOK /\ UsesInv /\ PoolInv /\ CliLockInv /\ ProcessInv /\ KeyInv
    /\ KindInv /\ UniqueInv /\ RemoverInv
-----------------------------------------------------------------------------
\* Ids are ids, and no id is NoId.
LEMMA Ids ==
  /\ \A r \in Runner : Temp(r) \in Id /\ Real(r) \in Id
  /\ OriginId \in Id /\ NoId \notin Id
BY SessionAssumption DEF Id, Temp, Real, OriginId, NoId

\* The ids that sessions wait under are none that a CLI of this pool reports.
LEMMA Kinds ==
  /\ Waiting \subseteq Id /\ OriginId \in Waiting
  /\ \A r \in Runner : Temp(r) \in Waiting /\ Real(r) \notin Waiting
BY SessionAssumption DEF Waiting, Id, Temp, Real, OriginId

LEMMA InitMInv == Init => MInv
<1> SUFFICES ASSUME Init PROVE MInv
  OBVIOUS
<1>1. TypeOK
  BY SessionAssumption, Ids DEF Init, TypeOK, Phase
<1>2. UsesInv /\ PoolInv /\ CliLockInv /\ ProcessInv /\ KeyInv
  BY SessionAssumption, Ids
  DEF Init, UsesInv, PoolInv, CliLockInv, ProcessInv, KeyInv, Holds, Reads
<1>3. KindInv /\ UniqueInv /\ RemoverInv
  BY SessionAssumption, Ids DEF Init, KindInv, UniqueInv, RemoverInv, EntryHasRemover
<1> QED
  BY <1>1, <1>2, <1>3 DEF MInv

\* A runner that reuses a session gets one that was created, and an id it is known by.
LEMMA Reused ==
  ASSUME MInv, NEW r \in Runner, ReuseSession(r)
  PROVE  \E s \in Runner, i \in Id :
           /\ phase[r] = "asking" /\ phase[s] \notin {"new", "asking"}
           /\ uses' = [uses EXCEPT ![r] = s] /\ captured' = [captured EXCEPT ![r] = i]
           /\ \/ /\ cliLock[s] = NoOne /\ phase' = [phase EXCEPT ![r] = "spawning"]
                 /\ cliLock' = [cliLock EXCEPT ![s] = r]
              \/ phase' = [phase EXCEPT ![r] = "starting"] /\ cliLock' = cliLock
           /\ UNCHANGED <<poolVars, lockVars, process, proc, pids, temp, recorded,
                          abandoned, countVars>>
<1> USE SessionAssumption, Ids DEF MInv
<1> DEFINE i == Lookup(SessionId(r))
           s == Found(i)
<1>1. i \in Id
  BY DEF ReuseSession, SessionId, Lookup, TypeOK
<1>2. s \in Runner /\ phase[s] \notin {"new", "asking"}
  BY <1>1 DEF ReuseSession, Found, TypeOK, PoolInv
<1> HIDE DEF i, s
<1>3. /\ At(r, "asking")
      /\ uses' = [uses EXCEPT ![r] = s] /\ captured' = [captured EXCEPT ![r] = i]
      /\ \/ cliLock[s] = NoOne /\ Goes(r, "spawning") /\ cliLock' = [cliLock EXCEPT ![s] = r]
         \/ cliLock[s] # NoOne /\ Goes(r, "starting") /\ UNCHANGED cliLock
      /\ UNCHANGED <<poolVars, lockVars, process, proc, pids, temp, recorded, abandoned,
                     countVars>>
  BY DEF ReuseSession, i, s
<1> QED
  BY <1>1, <1>2, <1>3 DEF At, Goes

\* A runner that takes an id has asked for one, and waits for no session after it.
LEMMA Registered ==
  ASSUME MInv, NEW r \in Runner, SessionInfo(r) \/ Register(r)
  PROVE  /\ temp[r] \in Id /\ Real(r) \in Id
         /\ r \notin abandoned /\ phase[r] \in {"reading", "registering"}
BY Ids DEF SessionInfo, Register, At, MInv, TypeOK, KeyInv, UsesInv

\* Types, and who holds the manager's lock.
LEMMA TypeStep ==
  ASSUME MInv, [Next]_vars
  PROVE  TypeOK'
<1> USE SessionAssumption DEF MInv, TypeOK, Phase,
      At, Goes, Delivered, poolVars, lockVars, cliVars, runVars, countVars
<1>1. ASSUME NEW r \in Runner, Arrive(r) PROVE TypeOK'
  BY <1>1 DEF Arrive
<1>2. ASSUME NEW r \in Runner, ReuseSession(r) PROVE TypeOK'
  BY <1>2, Reused
<1>3. ASSUME NEW r \in Runner, CreateSession(r) PROVE TypeOK'
  BY <1>3, Ids DEF CreateSession
<1>4. ASSUME NEW r \in Runner, TakeCliLock(r) PROVE TypeOK'
  BY <1>4 DEF TakeCliLock
<1>5. ASSUME NEW r \in Runner, Spawn(r) PROVE TypeOK'
  BY <1>5 DEF Spawn
<1>6. ASSUME NEW r \in Runner, SpawnFails(r) PROVE TypeOK'
  BY <1>6 DEF SpawnFails, LeaveCli
<1>7. ASSUME NEW r \in Runner, SessionInfo(r) PROVE TypeOK'
  BY <1>7, Registered DEF SessionInfo, RegisterId
<1>8. ASSUME NEW r \in Runner, Register(r) PROVE TypeOK'
  <2>1. CASE pending[temp[r]] = NoOne
    BY <1>8, <2>1, Registered DEF Register, RegisterId
  <2>2. CASE pending[temp[r]] # NoOne
    <3> DEFINE s == pending[temp[r]]
    <3>1. s \in Runner /\ phase[s] \notin {"new", "asking"}
      BY <1>8, <2>2, Registered DEF PoolInv
    <3>2. /\ pending' = [pending EXCEPT ![temp[r]] = NoOne]
          /\ sessions' = [sessions EXCEPT ![Real(r)] = s]
          /\ tempToReal' = [tempToReal EXCEPT ![temp[r]] = Real(r)]
          /\ realToTemp' = [realToTemp EXCEPT ![Real(r)] = temp[r]]
      BY <1>8, <2>2 DEF Register, RegisterId
    <3>3. /\ captured' = [captured EXCEPT ![r] = Real(r)] /\ temp' = [temp EXCEPT ![r] = NoId]
          /\ phase' = [phase EXCEPT ![r] = "reading"] /\ phase[r] = "registering"
          /\ lock = NoOne
          /\ UNCHANGED <<lockVars, cliVars, uses, recorded, abandoned, countVars>>
      BY <1>8 DEF Register, RegisterId
    <3> HIDE DEF s
    <3> QED
      BY <3>1, <3>2, <3>3, <1>8, Registered
  <2> QED
    BY <2>1, <2>2
<1>9. ASSUME NEW r \in Runner, ProcessEnds(r) PROVE TypeOK'
  BY <1>9 DEF ProcessEnds
<1>10. ASSUME NEW r \in Runner, ProcessDies(r) PROVE TypeOK'
  BY <1>10 DEF ProcessDies
<1>11. ASSUME NEW r \in Runner, Finish(r) PROVE TypeOK'
  BY <1>11 DEF Finish, LeaveCli
<1>12. ASSUME NEW r \in Runner, CancelTask(r) PROVE TypeOK'
  BY <1>12 DEF CancelTask
<1>13. ASSUME NEW r \in Runner, CancelledAsking(r) PROVE TypeOK'
  BY <1>13 DEF CancelledAsking
<1>14. ASSUME NEW r \in Runner, CancelledEarly(r) PROVE TypeOK'
  BY <1>14 DEF CancelledEarly, LeaveCli
<1>15. ASSUME NEW r \in Runner, CancelledReading(r) PROVE TypeOK'
  BY <1>15 DEF CancelledReading, Kill, Alive
<1>16. ASSUME NEW r \in Runner, CancelledStopping(r) PROVE TypeOK'
  BY <1>16 DEF CancelledStopping, LeaveCli
<1>17. ASSUME NEW r \in Runner, Stopped(r) PROVE TypeOK'
  BY <1>17 DEF Stopped, LeaveCli
<1>18. ASSUME NEW r \in Runner, CancelledRegistering(r) PROVE TypeOK'
  BY <1>18 DEF CancelledRegistering
<1>19. ASSUME NEW r \in Runner, GeneratorCloses(r) PROVE TypeOK'
  BY <1>19 DEF GeneratorCloses, LeaveCli
<1>20. ASSUME NEW r \in Runner, CancelledClosing(r) PROVE TypeOK'
  BY <1>20 DEF CancelledClosing
<1>21. ASSUME NEW r \in Runner, CancelledRemoving(r) PROVE TypeOK'
  BY <1>21 DEF CancelledRemoving
<1>22. ASSUME NEW r \in Runner, RemoveNothing(r) PROVE TypeOK'
  BY <1>22 DEF RemoveNothing
<1>23. ASSUME NEW r \in Runner, RemoveIdle(r) PROVE TypeOK'
  BY <1>23 DEF RemoveIdle, ForgetMaps, Alive
<1>24. ASSUME NEW r \in Runner, RemoveAlive(r) PROVE TypeOK'
  <2>1. lock = NoOne /\ phase[r] = "closing" /\ stopAll # "stopping"
    BY <1>24 DEF RemoveAlive
  <2>2. /\ pending' \in {pending, [pending EXCEPT ![Key(r)] = NoOne]}
        /\ sessions' \in {sessions, [sessions EXCEPT ![Key(r)] = NoOne]}
        /\ stopping' \in Runner
    BY <1>24, Key(r) \in Id DEF RemoveAlive, KeyInv
  <2>3. proc' \in [Runner -> {"none", "running", "killed", "exited"}]
    BY <1>24 DEF RemoveAlive, Kill
  <2> QED
    BY <1>24, <2>1, <2>2, <2>3 DEF RemoveAlive
<1>25. ASSUME NEW r \in Runner, RemoveEnd(r) PROVE TypeOK'
  BY <1>25 DEF RemoveEnd, ForgetMaps, Alive
<1>26. CASE StopTasks
  BY <1>26 DEF StopTasks
<1>27. CASE StopAll
  <2>1. proc' \in [Runner -> {"none", "running", "killed", "exited"}]
    BY <1>27 DEF StopAll, StopsNext, Kill
  <2>2. pending' \in [Id -> Runner \cup {NoOne}] /\ sessions' \in [Id -> Runner \cup {NoOne}]
    BY <1>27 DEF StopAll, StopsNext
  <2>3. tempToReal' \in [Id -> Id \cup {NoId}] /\ realToTemp' \in [Id -> Id \cup {NoId}]
    BY <1>27 DEF StopAll, StopsNext
  <2>4. /\ stopping' \in Runner \cup {NoOne} /\ todo' \subseteq Runner
        /\ \/ lock' = NoOne /\ stopAll' = "idle"
           \/ lock' = Stopper /\ stopAll' = "stopping"
    BY <1>27 DEF StopAll, StopsNext, Pooled
  <2> QED
    BY <1>27, <2>1, <2>2, <2>3, <2>4 DEF StopAll
<1>28. CASE StopAllResumes
  BY <1>28 DEF StopAllResumes, StopsNext, Kill, Alive
<1>29. CASE UNCHANGED vars
  BY <1>29 DEF vars
<1> QED
  BY <1>1, <1>2, <1>3, <1>4, <1>5, <1>6, <1>7, <1>8, <1>9, <1>10, <1>11, <1>12,
     <1>13, <1>14, <1>15, <1>16, <1>17, <1>18, <1>19, <1>20, <1>21, <1>22, <1>23,
     <1>24, <1>25, <1>26, <1>27, <1>28, <1>29
  DEF Next, RunnerStep, StopAllStep

\* Whoever uses a session has one that was created.
LEMMA UsesStep ==
  ASSUME MInv, [Next]_vars
  PROVE  UsesInv'
<1> USE SessionAssumption DEF MInv, UsesInv, Holds, TypeOK, PoolInv,
      At, Goes, Delivered, poolVars, lockVars, cliVars, runVars, countVars
<1>1. ASSUME NEW r \in Runner, Arrive(r) PROVE UsesInv'
  BY <1>1 DEF Arrive
<1>2. ASSUME NEW r \in Runner, ReuseSession(r) PROVE UsesInv'
  BY <1>2, Reused
<1>3. ASSUME NEW r \in Runner, CreateSession(r) PROVE UsesInv'
  BY <1>3 DEF CreateSession
<1>4. ASSUME NEW r \in Runner, TakeCliLock(r) PROVE UsesInv'
  BY <1>4 DEF TakeCliLock
<1>5. ASSUME NEW r \in Runner, Spawn(r) PROVE UsesInv'
  BY <1>5 DEF Spawn
<1>6. ASSUME NEW r \in Runner, SpawnFails(r) PROVE UsesInv'
  BY <1>6 DEF SpawnFails, LeaveCli
<1>7. ASSUME NEW r \in Runner, SessionInfo(r) PROVE UsesInv'
  BY <1>7 DEF SessionInfo, RegisterId
<1>8. ASSUME NEW r \in Runner, Register(r) PROVE UsesInv'
  BY <1>8 DEF Register, RegisterId
<1>9. ASSUME NEW r \in Runner, ProcessEnds(r) PROVE UsesInv'
  BY <1>9 DEF ProcessEnds
<1>10. ASSUME NEW r \in Runner, ProcessDies(r) PROVE UsesInv'
  BY <1>10 DEF ProcessDies
<1>11. ASSUME NEW r \in Runner, Finish(r) PROVE UsesInv'
  BY <1>11 DEF Finish, LeaveCli
<1>12. ASSUME NEW r \in Runner, CancelTask(r) PROVE UsesInv'
  BY <1>12 DEF CancelTask
<1>13. ASSUME NEW r \in Runner, CancelledAsking(r) PROVE UsesInv'
  BY <1>13 DEF CancelledAsking
<1>14. ASSUME NEW r \in Runner, CancelledEarly(r) PROVE UsesInv'
  BY <1>14 DEF CancelledEarly, LeaveCli
<1>15. ASSUME NEW r \in Runner, CancelledReading(r) PROVE UsesInv'
  BY <1>15 DEF CancelledReading, Kill, Alive
<1>16. ASSUME NEW r \in Runner, CancelledStopping(r) PROVE UsesInv'
  BY <1>16 DEF CancelledStopping, LeaveCli
<1>17. ASSUME NEW r \in Runner, Stopped(r) PROVE UsesInv'
  BY <1>17 DEF Stopped, LeaveCli
<1>18. ASSUME NEW r \in Runner, CancelledRegistering(r) PROVE UsesInv'
  BY <1>18 DEF CancelledRegistering
<1>19. ASSUME NEW r \in Runner, GeneratorCloses(r) PROVE UsesInv'
  BY <1>19 DEF GeneratorCloses, LeaveCli
<1>20. ASSUME NEW r \in Runner, CancelledClosing(r) PROVE UsesInv'
  BY <1>20 DEF CancelledClosing
<1>21. ASSUME NEW r \in Runner, CancelledRemoving(r) PROVE UsesInv'
  BY <1>21 DEF CancelledRemoving
<1>22. ASSUME NEW r \in Runner, RemoveNothing(r) PROVE UsesInv'
  BY <1>22 DEF RemoveNothing
<1>23. ASSUME NEW r \in Runner, RemoveIdle(r) PROVE UsesInv'
  BY <1>23 DEF RemoveIdle, ForgetMaps, Alive
<1>24. ASSUME NEW r \in Runner, RemoveAlive(r) PROVE UsesInv'
  BY <1>24 DEF RemoveAlive, Kill, Alive
<1>25. ASSUME NEW r \in Runner, RemoveEnd(r) PROVE UsesInv'
  BY <1>25 DEF RemoveEnd, ForgetMaps, Alive
<1>26. CASE StopTasks
  BY <1>26 DEF StopTasks
<1>27. CASE StopAll
  BY <1>27 DEF StopAll, StopsNext, Kill, Alive
<1>28. CASE StopAllResumes
  BY <1>28 DEF StopAllResumes, StopsNext, Kill, Alive
<1>29. CASE UNCHANGED vars
  BY <1>29 DEF vars
<1> QED
  BY <1>1, <1>2, <1>3, <1>4, <1>5, <1>6, <1>7, <1>8, <1>9, <1>10, <1>11, <1>12,
     <1>13, <1>14, <1>15, <1>16, <1>17, <1>18, <1>19, <1>20, <1>21, <1>22, <1>23,
     <1>24, <1>25, <1>26, <1>27, <1>28, <1>29
  DEF Next, RunnerStep, StopAllStep

\* Only sessions that were created are in the pool.
LEMMA PoolStep ==
  ASSUME MInv, [Next]_vars
  PROVE  PoolInv'
<1> USE SessionAssumption DEF MInv, PoolInv, TypeOK,
      At, Goes, Delivered, poolVars, lockVars, cliVars, runVars, countVars
<1>1. ASSUME NEW r \in Runner, Arrive(r) PROVE PoolInv'
  BY <1>1 DEF Arrive
<1>2. ASSUME NEW r \in Runner, ReuseSession(r) PROVE PoolInv'
  BY <1>2 DEF ReuseSession
<1>3. ASSUME NEW r \in Runner, CreateSession(r) PROVE PoolInv'
  BY <1>3 DEF CreateSession
<1>4. ASSUME NEW r \in Runner, TakeCliLock(r) PROVE PoolInv'
  BY <1>4 DEF TakeCliLock
<1>5. ASSUME NEW r \in Runner, Spawn(r) PROVE PoolInv'
  BY <1>5 DEF Spawn
<1>6. ASSUME NEW r \in Runner, SpawnFails(r) PROVE PoolInv'
  BY <1>6 DEF SpawnFails, LeaveCli
<1>7. ASSUME NEW r \in Runner, SessionInfo(r) PROVE PoolInv'
  BY <1>7, Registered DEF SessionInfo, RegisterId
<1>8. ASSUME NEW r \in Runner, Register(r) PROVE PoolInv'
  <2>1. CASE pending[temp[r]] = NoOne
    BY <1>8, <2>1, Registered DEF Register, RegisterId
  <2>2. CASE pending[temp[r]] # NoOne
    <3> DEFINE s == pending[temp[r]]
    <3>1. s \in Runner /\ phase[s] \notin {"new", "asking"}
      BY <1>8, <2>2, Registered DEF PoolInv
    <3>2. /\ pending' = [pending EXCEPT ![temp[r]] = NoOne]
          /\ sessions' = [sessions EXCEPT ![Real(r)] = s]
          /\ tempToReal' = [tempToReal EXCEPT ![temp[r]] = Real(r)]
          /\ realToTemp' = [realToTemp EXCEPT ![Real(r)] = temp[r]]
      BY <1>8, <2>2 DEF Register, RegisterId
    <3>3. /\ captured' = [captured EXCEPT ![r] = Real(r)] /\ temp' = [temp EXCEPT ![r] = NoId]
          /\ phase' = [phase EXCEPT ![r] = "reading"] /\ phase[r] = "registering"
          /\ lock = NoOne
          /\ UNCHANGED <<lockVars, cliVars, uses, recorded, abandoned, countVars>>
      BY <1>8 DEF Register, RegisterId
    <3> HIDE DEF s
    <3> QED
      BY <3>1, <3>2, <3>3, <1>8, Registered
  <2> QED
    BY <2>1, <2>2
<1>9. ASSUME NEW r \in Runner, ProcessEnds(r) PROVE PoolInv'
  BY <1>9 DEF ProcessEnds
<1>10. ASSUME NEW r \in Runner, ProcessDies(r) PROVE PoolInv'
  BY <1>10 DEF ProcessDies
<1>11. ASSUME NEW r \in Runner, Finish(r) PROVE PoolInv'
  BY <1>11 DEF Finish, LeaveCli
<1>12. ASSUME NEW r \in Runner, CancelTask(r) PROVE PoolInv'
  BY <1>12 DEF CancelTask
<1>13. ASSUME NEW r \in Runner, CancelledAsking(r) PROVE PoolInv'
  BY <1>13 DEF CancelledAsking
<1>14. ASSUME NEW r \in Runner, CancelledEarly(r) PROVE PoolInv'
  BY <1>14 DEF CancelledEarly, LeaveCli
<1>15. ASSUME NEW r \in Runner, CancelledReading(r) PROVE PoolInv'
  BY <1>15 DEF CancelledReading, Kill, Alive
<1>16. ASSUME NEW r \in Runner, CancelledStopping(r) PROVE PoolInv'
  BY <1>16 DEF CancelledStopping, LeaveCli
<1>17. ASSUME NEW r \in Runner, Stopped(r) PROVE PoolInv'
  BY <1>17 DEF Stopped, LeaveCli
<1>18. ASSUME NEW r \in Runner, CancelledRegistering(r) PROVE PoolInv'
  BY <1>18 DEF CancelledRegistering
<1>19. ASSUME NEW r \in Runner, GeneratorCloses(r) PROVE PoolInv'
  BY <1>19 DEF GeneratorCloses, LeaveCli
<1>20. ASSUME NEW r \in Runner, CancelledClosing(r) PROVE PoolInv'
  BY <1>20 DEF CancelledClosing
<1>21. ASSUME NEW r \in Runner, CancelledRemoving(r) PROVE PoolInv'
  BY <1>21 DEF CancelledRemoving
<1>22. ASSUME NEW r \in Runner, RemoveNothing(r) PROVE PoolInv'
  BY <1>22 DEF RemoveNothing
<1>23. ASSUME NEW r \in Runner, RemoveIdle(r) PROVE PoolInv'
  BY <1>23 DEF RemoveIdle, ForgetMaps, Alive
<1>24. ASSUME NEW r \in Runner, RemoveAlive(r) PROVE PoolInv'
  BY <1>24 DEF RemoveAlive, Kill, Alive
<1>25. ASSUME NEW r \in Runner, RemoveEnd(r) PROVE PoolInv'
  BY <1>25 DEF RemoveEnd, ForgetMaps, Alive
<1>26. CASE StopTasks
  BY <1>26 DEF StopTasks
<1>27. CASE StopAll
  BY <1>27 DEF StopAll, StopsNext, Kill, Alive
<1>28. CASE StopAllResumes
  BY <1>28 DEF StopAllResumes, StopsNext, Kill, Alive
<1>29. CASE UNCHANGED vars
  BY <1>29 DEF vars
<1> QED
  BY <1>1, <1>2, <1>3, <1>4, <1>5, <1>6, <1>7, <1>8, <1>9, <1>10, <1>11, <1>12,
     <1>13, <1>14, <1>15, <1>16, <1>17, <1>18, <1>19, <1>20, <1>21, <1>22, <1>23,
     <1>24, <1>25, <1>26, <1>27, <1>28, <1>29
  DEF Next, RunnerStep, StopAllStep

\* A CLI lock has one holder.
LEMMA CliLockStep ==
  ASSUME MInv, [Next]_vars
  PROVE  CliLockInv'
<1> USE SessionAssumption DEF MInv, CliLockInv, Holds, UsesInv, TypeOK,
      At, Goes, Delivered, poolVars, lockVars, cliVars, runVars, countVars
<1>1. ASSUME NEW r \in Runner, Arrive(r) PROVE CliLockInv'
  BY <1>1 DEF Arrive
<1>2. ASSUME NEW r \in Runner, ReuseSession(r) PROVE CliLockInv'
  BY <1>2, Reused
<1>3. ASSUME NEW r \in Runner, CreateSession(r) PROVE CliLockInv'
  BY <1>3 DEF CreateSession
<1>4. ASSUME NEW r \in Runner, TakeCliLock(r) PROVE CliLockInv'
  BY <1>4 DEF TakeCliLock
<1>5. ASSUME NEW r \in Runner, Spawn(r) PROVE CliLockInv'
  BY <1>5 DEF Spawn
<1>6. ASSUME NEW r \in Runner, SpawnFails(r) PROVE CliLockInv'
  BY <1>6 DEF SpawnFails, LeaveCli
<1>7. ASSUME NEW r \in Runner, SessionInfo(r) PROVE CliLockInv'
  BY <1>7 DEF SessionInfo, RegisterId
<1>8. ASSUME NEW r \in Runner, Register(r) PROVE CliLockInv'
  BY <1>8 DEF Register, RegisterId
<1>9. ASSUME NEW r \in Runner, ProcessEnds(r) PROVE CliLockInv'
  BY <1>9 DEF ProcessEnds
<1>10. ASSUME NEW r \in Runner, ProcessDies(r) PROVE CliLockInv'
  BY <1>10 DEF ProcessDies
<1>11. ASSUME NEW r \in Runner, Finish(r) PROVE CliLockInv'
  BY <1>11 DEF Finish, LeaveCli
<1>12. ASSUME NEW r \in Runner, CancelTask(r) PROVE CliLockInv'
  BY <1>12 DEF CancelTask
<1>13. ASSUME NEW r \in Runner, CancelledAsking(r) PROVE CliLockInv'
  BY <1>13 DEF CancelledAsking
<1>14. ASSUME NEW r \in Runner, CancelledEarly(r) PROVE CliLockInv'
  BY <1>14 DEF CancelledEarly, LeaveCli
<1>15. ASSUME NEW r \in Runner, CancelledReading(r) PROVE CliLockInv'
  BY <1>15 DEF CancelledReading, Kill, Alive
<1>16. ASSUME NEW r \in Runner, CancelledStopping(r) PROVE CliLockInv'
  BY <1>16 DEF CancelledStopping, LeaveCli
<1>17. ASSUME NEW r \in Runner, Stopped(r) PROVE CliLockInv'
  BY <1>17 DEF Stopped, LeaveCli
<1>18. ASSUME NEW r \in Runner, CancelledRegistering(r) PROVE CliLockInv'
  BY <1>18 DEF CancelledRegistering
<1>19. ASSUME NEW r \in Runner, GeneratorCloses(r) PROVE CliLockInv'
  BY <1>19 DEF GeneratorCloses, LeaveCli
<1>20. ASSUME NEW r \in Runner, CancelledClosing(r) PROVE CliLockInv'
  BY <1>20 DEF CancelledClosing
<1>21. ASSUME NEW r \in Runner, CancelledRemoving(r) PROVE CliLockInv'
  BY <1>21 DEF CancelledRemoving
<1>22. ASSUME NEW r \in Runner, RemoveNothing(r) PROVE CliLockInv'
  BY <1>22 DEF RemoveNothing
<1>23. ASSUME NEW r \in Runner, RemoveIdle(r) PROVE CliLockInv'
  BY <1>23 DEF RemoveIdle, ForgetMaps, Alive
<1>24. ASSUME NEW r \in Runner, RemoveAlive(r) PROVE CliLockInv'
  BY <1>24 DEF RemoveAlive, Kill, Alive
<1>25. ASSUME NEW r \in Runner, RemoveEnd(r) PROVE CliLockInv'
  BY <1>25 DEF RemoveEnd, ForgetMaps, Alive
<1>26. CASE StopTasks
  BY <1>26 DEF StopTasks
<1>27. CASE StopAll
  BY <1>27 DEF StopAll, StopsNext, Kill, Alive
<1>28. CASE StopAllResumes
  BY <1>28 DEF StopAllResumes, StopsNext, Kill, Alive
<1>29. CASE UNCHANGED vars
  BY <1>29 DEF vars
<1> QED
  BY <1>1, <1>2, <1>3, <1>4, <1>5, <1>6, <1>7, <1>8, <1>9, <1>10, <1>11, <1>12,
     <1>13, <1>14, <1>15, <1>16, <1>17, <1>18, <1>19, <1>20, <1>21, <1>22, <1>23,
     <1>24, <1>25, <1>26, <1>27, <1>28, <1>29
  DEF Next, RunnerStep, StopAllStep

\* A process is its session's, its reader's, and in the registry while it runs.
LEMMA ProcessStep ==
  ASSUME MInv, [Next]_vars
  PROVE  ProcessInv'
<1> USE SessionAssumption DEF MInv, ProcessInv, Reads, CliLockInv, Holds, UsesInv, TypeOK,
      At, Goes, Delivered, poolVars, lockVars, cliVars, runVars, countVars
<1>1. ASSUME NEW r \in Runner, Arrive(r) PROVE ProcessInv'
  BY <1>1 DEF Arrive
<1>2. ASSUME NEW r \in Runner, ReuseSession(r) PROVE ProcessInv'
  BY <1>2 DEF ReuseSession
<1>3. ASSUME NEW r \in Runner, CreateSession(r) PROVE ProcessInv'
  BY <1>3 DEF CreateSession
<1>4. ASSUME NEW r \in Runner, TakeCliLock(r) PROVE ProcessInv'
  BY <1>4 DEF TakeCliLock
<1>5. ASSUME NEW r \in Runner, Spawn(r) PROVE ProcessInv'
  BY <1>5 DEF Spawn
<1>6. ASSUME NEW r \in Runner, SpawnFails(r) PROVE ProcessInv'
  BY <1>6 DEF SpawnFails, LeaveCli
<1>7. ASSUME NEW r \in Runner, SessionInfo(r) PROVE ProcessInv'
  BY <1>7 DEF SessionInfo, RegisterId
<1>8. ASSUME NEW r \in Runner, Register(r) PROVE ProcessInv'
  BY <1>8 DEF Register, RegisterId
<1>9. ASSUME NEW r \in Runner, ProcessEnds(r) PROVE ProcessInv'
  BY <1>9 DEF ProcessEnds
<1>10. ASSUME NEW r \in Runner, ProcessDies(r) PROVE ProcessInv'
  BY <1>10 DEF ProcessDies
<1>11. ASSUME NEW r \in Runner, Finish(r) PROVE ProcessInv'
  BY <1>11 DEF Finish, LeaveCli
<1>12. ASSUME NEW r \in Runner, CancelTask(r) PROVE ProcessInv'
  BY <1>12 DEF CancelTask
<1>13. ASSUME NEW r \in Runner, CancelledAsking(r) PROVE ProcessInv'
  BY <1>13 DEF CancelledAsking
<1>14. ASSUME NEW r \in Runner, CancelledEarly(r) PROVE ProcessInv'
  BY <1>14 DEF CancelledEarly, LeaveCli
<1>15. ASSUME NEW r \in Runner, CancelledReading(r) PROVE ProcessInv'
  BY <1>15 DEF CancelledReading, Kill, Alive
<1>16. ASSUME NEW r \in Runner, CancelledStopping(r) PROVE ProcessInv'
  BY <1>16 DEF CancelledStopping, LeaveCli
<1>17. ASSUME NEW r \in Runner, Stopped(r) PROVE ProcessInv'
  BY <1>17 DEF Stopped, LeaveCli
<1>18. ASSUME NEW r \in Runner, CancelledRegistering(r) PROVE ProcessInv'
  BY <1>18 DEF CancelledRegistering
<1>19. ASSUME NEW r \in Runner, GeneratorCloses(r) PROVE ProcessInv'
  BY <1>19 DEF GeneratorCloses, LeaveCli
<1>20. ASSUME NEW r \in Runner, CancelledClosing(r) PROVE ProcessInv'
  BY <1>20 DEF CancelledClosing
<1>21. ASSUME NEW r \in Runner, CancelledRemoving(r) PROVE ProcessInv'
  BY <1>21 DEF CancelledRemoving
<1>22. ASSUME NEW r \in Runner, RemoveNothing(r) PROVE ProcessInv'
  BY <1>22 DEF RemoveNothing
<1>23. ASSUME NEW r \in Runner, RemoveIdle(r) PROVE ProcessInv'
  BY <1>23 DEF RemoveIdle, ForgetMaps, Alive
<1>24. ASSUME NEW r \in Runner, RemoveAlive(r) PROVE ProcessInv'
  BY <1>24 DEF RemoveAlive, Kill, Alive
<1>25. ASSUME NEW r \in Runner, RemoveEnd(r) PROVE ProcessInv'
  BY <1>25 DEF RemoveEnd, ForgetMaps, Alive
<1>26. CASE StopTasks
  BY <1>26 DEF StopTasks
<1>27. CASE StopAll
  BY <1>27 DEF StopAll, StopsNext, Kill, Alive
<1>28. CASE StopAllResumes
  BY <1>28 DEF StopAllResumes, StopsNext, Kill, Alive
<1>29. CASE UNCHANGED vars
  BY <1>29 DEF vars
<1> QED
  BY <1>1, <1>2, <1>3, <1>4, <1>5, <1>6, <1>7, <1>8, <1>9, <1>10, <1>11, <1>12,
     <1>13, <1>14, <1>15, <1>16, <1>17, <1>18, <1>19, <1>20, <1>21, <1>22, <1>23,
     <1>24, <1>25, <1>26, <1>27, <1>28, <1>29
  DEF Next, RunnerStep, StopAllStep

\* A runner has an id to remove its session by.
LEMMA KeyStep ==
  ASSUME MInv, [Next]_vars
  PROVE  KeyInv'
<1> USE SessionAssumption DEF MInv, KeyInv, Key, TypeOK,
      At, Goes, Delivered, poolVars, lockVars, cliVars, runVars, countVars
<1>1. ASSUME NEW r \in Runner, Arrive(r) PROVE KeyInv'
  BY <1>1 DEF Arrive
<1>2. ASSUME NEW r \in Runner, ReuseSession(r) PROVE KeyInv'
  BY <1>2, Reused
<1>3. ASSUME NEW r \in Runner, CreateSession(r) PROVE KeyInv'
  BY <1>3, Ids DEF CreateSession
<1>4. ASSUME NEW r \in Runner, TakeCliLock(r) PROVE KeyInv'
  BY <1>4 DEF TakeCliLock
<1>5. ASSUME NEW r \in Runner, Spawn(r) PROVE KeyInv'
  BY <1>5 DEF Spawn
<1>6. ASSUME NEW r \in Runner, SpawnFails(r) PROVE KeyInv'
  BY <1>6 DEF SpawnFails, LeaveCli
<1>7. ASSUME NEW r \in Runner, SessionInfo(r) PROVE KeyInv'
  BY <1>7, Registered, Ids DEF SessionInfo, RegisterId
<1>8. ASSUME NEW r \in Runner, Register(r) PROVE KeyInv'
  BY <1>8, Registered, Ids DEF Register, RegisterId
<1>9. ASSUME NEW r \in Runner, ProcessEnds(r) PROVE KeyInv'
  BY <1>9 DEF ProcessEnds
<1>10. ASSUME NEW r \in Runner, ProcessDies(r) PROVE KeyInv'
  BY <1>10 DEF ProcessDies
<1>11. ASSUME NEW r \in Runner, Finish(r) PROVE KeyInv'
  BY <1>11 DEF Finish, LeaveCli
<1>12. ASSUME NEW r \in Runner, CancelTask(r) PROVE KeyInv'
  BY <1>12 DEF CancelTask
<1>13. ASSUME NEW r \in Runner, CancelledAsking(r) PROVE KeyInv'
  BY <1>13 DEF CancelledAsking
<1>14. ASSUME NEW r \in Runner, CancelledEarly(r) PROVE KeyInv'
  BY <1>14 DEF CancelledEarly, LeaveCli
<1>15. ASSUME NEW r \in Runner, CancelledReading(r) PROVE KeyInv'
  BY <1>15 DEF CancelledReading, Kill, Alive
<1>16. ASSUME NEW r \in Runner, CancelledStopping(r) PROVE KeyInv'
  BY <1>16 DEF CancelledStopping, LeaveCli
<1>17. ASSUME NEW r \in Runner, Stopped(r) PROVE KeyInv'
  BY <1>17 DEF Stopped, LeaveCli
<1>18. ASSUME NEW r \in Runner, CancelledRegistering(r) PROVE KeyInv'
  BY <1>18 DEF CancelledRegistering
<1>19. ASSUME NEW r \in Runner, GeneratorCloses(r) PROVE KeyInv'
  BY <1>19 DEF GeneratorCloses, LeaveCli
<1>20. ASSUME NEW r \in Runner, CancelledClosing(r) PROVE KeyInv'
  BY <1>20 DEF CancelledClosing
<1>21. ASSUME NEW r \in Runner, CancelledRemoving(r) PROVE KeyInv'
  BY <1>21 DEF CancelledRemoving
<1>22. ASSUME NEW r \in Runner, RemoveNothing(r) PROVE KeyInv'
  BY <1>22 DEF RemoveNothing
<1>23. ASSUME NEW r \in Runner, RemoveIdle(r) PROVE KeyInv'
  BY <1>23 DEF RemoveIdle, ForgetMaps, Alive
<1>24. ASSUME NEW r \in Runner, RemoveAlive(r) PROVE KeyInv'
  BY <1>24 DEF RemoveAlive, Kill, Alive
<1>25. ASSUME NEW r \in Runner, RemoveEnd(r) PROVE KeyInv'
  BY <1>25 DEF RemoveEnd, ForgetMaps, Alive
<1>26. CASE StopTasks
  BY <1>26 DEF StopTasks
<1>27. CASE StopAll
  BY <1>27 DEF StopAll, StopsNext, Kill, Alive
<1>28. CASE StopAllResumes
  BY <1>28 DEF StopAllResumes, StopsNext, Kill, Alive
<1>29. CASE UNCHANGED vars
  BY <1>29 DEF vars
<1> QED
  BY <1>1, <1>2, <1>3, <1>4, <1>5, <1>6, <1>7, <1>8, <1>9, <1>10, <1>11, <1>12,
     <1>13, <1>14, <1>15, <1>16, <1>17, <1>18, <1>19, <1>20, <1>21, <1>22, <1>23,
     <1>24, <1>25, <1>26, <1>27, <1>28, <1>29
  DEF Next, RunnerStep, StopAllStep

\* Which ids are keys of which map.
LEMMA KindStep ==
  ASSUME MInv, [Next]_vars
  PROVE  KindInv'
<1> USE SessionAssumption DEF MInv, KindInv, TypeOK,
      At, Goes, Delivered, poolVars, lockVars, cliVars, runVars, countVars
<1>1. ASSUME NEW r \in Runner, Arrive(r) PROVE KindInv'
  BY <1>1 DEF Arrive
<1>2. ASSUME NEW r \in Runner, ReuseSession(r) PROVE KindInv'
  <2>1. PICK i \in Id :
          /\ phase[r] = "asking" /\ captured' = [captured EXCEPT ![r] = i]
          /\ UNCHANGED <<pending, sessions, temp>>
          /\ phase' \in {[phase EXCEPT ![r] = "spawning"], [phase EXCEPT ![r] = "starting"]}
    BY <1>2, Reused
  <2> QED
    BY <2>1
<1>3. ASSUME NEW r \in Runner, CreateSession(r) PROVE KindInv'
  BY <1>3, Kinds, Ids DEF CreateSession
<1>4. ASSUME NEW r \in Runner, TakeCliLock(r) PROVE KindInv'
  BY <1>4 DEF TakeCliLock
<1>5. ASSUME NEW r \in Runner, Spawn(r) PROVE KindInv'
  BY <1>5 DEF Spawn
<1>6. ASSUME NEW r \in Runner, SpawnFails(r) PROVE KindInv'
  BY <1>6 DEF SpawnFails, LeaveCli
<1>7. ASSUME NEW r \in Runner, SessionInfo(r) PROVE KindInv'
  BY <1>7, Registered, Kinds DEF SessionInfo, RegisterId
<1>8. ASSUME NEW r \in Runner, Register(r) PROVE KindInv'
  BY <1>8, Registered, Kinds DEF Register, RegisterId
<1>9. ASSUME NEW r \in Runner, ProcessEnds(r) PROVE KindInv'
  BY <1>9 DEF ProcessEnds
<1>10. ASSUME NEW r \in Runner, ProcessDies(r) PROVE KindInv'
  BY <1>10 DEF ProcessDies
<1>11. ASSUME NEW r \in Runner, Finish(r) PROVE KindInv'
  BY <1>11 DEF Finish, LeaveCli
<1>12. ASSUME NEW r \in Runner, CancelTask(r) PROVE KindInv'
  BY <1>12 DEF CancelTask
<1>13. ASSUME NEW r \in Runner, CancelledAsking(r) PROVE KindInv'
  BY <1>13 DEF CancelledAsking
<1>14. ASSUME NEW r \in Runner, CancelledEarly(r) PROVE KindInv'
  BY <1>14 DEF CancelledEarly, LeaveCli
<1>15. ASSUME NEW r \in Runner, CancelledReading(r) PROVE KindInv'
  BY <1>15 DEF CancelledReading, Kill, Alive
<1>16. ASSUME NEW r \in Runner, CancelledStopping(r) PROVE KindInv'
  BY <1>16 DEF CancelledStopping, LeaveCli
<1>17. ASSUME NEW r \in Runner, Stopped(r) PROVE KindInv'
  BY <1>17 DEF Stopped, LeaveCli
<1>18. ASSUME NEW r \in Runner, CancelledRegistering(r) PROVE KindInv'
  BY <1>18 DEF CancelledRegistering
<1>19. ASSUME NEW r \in Runner, GeneratorCloses(r) PROVE KindInv'
  BY <1>19 DEF GeneratorCloses, LeaveCli
<1>20. ASSUME NEW r \in Runner, CancelledClosing(r) PROVE KindInv'
  BY <1>20 DEF CancelledClosing
<1>21. ASSUME NEW r \in Runner, CancelledRemoving(r) PROVE KindInv'
  BY <1>21 DEF CancelledRemoving
<1>22. ASSUME NEW r \in Runner, RemoveNothing(r) PROVE KindInv'
  BY <1>22 DEF RemoveNothing
<1>23. ASSUME NEW r \in Runner, RemoveIdle(r) PROVE KindInv'
  BY <1>23 DEF RemoveIdle, ForgetMaps, Alive
<1>24. ASSUME NEW r \in Runner, RemoveAlive(r) PROVE KindInv'
  BY <1>24 DEF RemoveAlive, Kill, Alive
<1>25. ASSUME NEW r \in Runner, RemoveEnd(r) PROVE KindInv'
  BY <1>25 DEF RemoveEnd, ForgetMaps, Alive
<1>26. CASE StopTasks
  BY <1>26 DEF StopTasks
<1>27. CASE StopAll
  BY <1>27 DEF StopAll, StopsNext, Kill, Alive
<1>28. CASE StopAllResumes
  BY <1>28 DEF StopAllResumes, StopsNext, Kill, Alive
<1>29. CASE UNCHANGED vars
  BY <1>29 DEF vars
<1> QED
  BY <1>1, <1>2, <1>3, <1>4, <1>5, <1>6, <1>7, <1>8, <1>9, <1>10, <1>11, <1>12,
     <1>13, <1>14, <1>15, <1>16, <1>17, <1>18, <1>19, <1>20, <1>21, <1>22, <1>23,
     <1>24, <1>25, <1>26, <1>27, <1>28, <1>29
  DEF Next, RunnerStep, StopAllStep

\* A session is in the pool under one id.
LEMMA UniqueStep ==
  ASSUME MInv, [Next]_vars
  PROVE  UniqueInv'
<1> USE SessionAssumption DEF MInv, UniqueInv, PoolInv, TypeOK,
      At, Goes, Delivered, poolVars, lockVars, cliVars, runVars, countVars
<1>1. ASSUME NEW r \in Runner, Arrive(r) PROVE UniqueInv'
  BY <1>1 DEF Arrive
<1>2. ASSUME NEW r \in Runner, ReuseSession(r) PROVE UniqueInv'
  BY <1>2 DEF ReuseSession
<1>3. ASSUME NEW r \in Runner, CreateSession(r) PROVE UniqueInv'
  BY <1>3 DEF CreateSession
<1>4. ASSUME NEW r \in Runner, TakeCliLock(r) PROVE UniqueInv'
  BY <1>4 DEF TakeCliLock
<1>5. ASSUME NEW r \in Runner, Spawn(r) PROVE UniqueInv'
  BY <1>5 DEF Spawn
<1>6. ASSUME NEW r \in Runner, SpawnFails(r) PROVE UniqueInv'
  BY <1>6 DEF SpawnFails, LeaveCli
<1>7. ASSUME NEW r \in Runner, SessionInfo(r) PROVE UniqueInv'
  BY <1>7, Registered DEF SessionInfo, RegisterId
<1>8. ASSUME NEW r \in Runner, Register(r) PROVE UniqueInv'
  <2>1. CASE pending[temp[r]] = NoOne
    BY <1>8, <2>1, Registered DEF Register, RegisterId
  <2>2. CASE pending[temp[r]] # NoOne
    <3> DEFINE s == pending[temp[r]]
    <3>1. s \in Runner
      BY <1>8, <2>2, Registered
    <3>2. /\ pending' = [pending EXCEPT ![temp[r]] = NoOne]
          /\ sessions' = [sessions EXCEPT ![Real(r)] = s]
      BY <1>8, <2>2 DEF Register, RegisterId
    <3>3. /\ captured' = [captured EXCEPT ![r] = Real(r)] /\ temp' = [temp EXCEPT ![r] = NoId]
          /\ phase' = [phase EXCEPT ![r] = "reading"] /\ phase[r] = "registering"
      BY <1>8 DEF Register, RegisterId
    <3>4. \A j \in Id : pending[j] = s => j = temp[r] /\ sessions[j] # s
      BY <2>2, <1>8, Registered DEF UniqueInv
    <3>5. \A j \in Id : sessions[j] # s
      BY <2>2, <1>8, Registered DEF UniqueInv
    <3> HIDE DEF s
    <3> QED
      BY <3>1, <3>2, <3>3, <3>4, <3>5, <1>8, Registered
  <2> QED
    BY <2>1, <2>2
<1>9. ASSUME NEW r \in Runner, ProcessEnds(r) PROVE UniqueInv'
  BY <1>9 DEF ProcessEnds
<1>10. ASSUME NEW r \in Runner, ProcessDies(r) PROVE UniqueInv'
  BY <1>10 DEF ProcessDies
<1>11. ASSUME NEW r \in Runner, Finish(r) PROVE UniqueInv'
  BY <1>11 DEF Finish, LeaveCli
<1>12. ASSUME NEW r \in Runner, CancelTask(r) PROVE UniqueInv'
  BY <1>12 DEF CancelTask
<1>13. ASSUME NEW r \in Runner, CancelledAsking(r) PROVE UniqueInv'
  BY <1>13 DEF CancelledAsking
<1>14. ASSUME NEW r \in Runner, CancelledEarly(r) PROVE UniqueInv'
  BY <1>14 DEF CancelledEarly, LeaveCli
<1>15. ASSUME NEW r \in Runner, CancelledReading(r) PROVE UniqueInv'
  BY <1>15 DEF CancelledReading, Kill, Alive
<1>16. ASSUME NEW r \in Runner, CancelledStopping(r) PROVE UniqueInv'
  BY <1>16 DEF CancelledStopping, LeaveCli
<1>17. ASSUME NEW r \in Runner, Stopped(r) PROVE UniqueInv'
  BY <1>17 DEF Stopped, LeaveCli
<1>18. ASSUME NEW r \in Runner, CancelledRegistering(r) PROVE UniqueInv'
  BY <1>18 DEF CancelledRegistering
<1>19. ASSUME NEW r \in Runner, GeneratorCloses(r) PROVE UniqueInv'
  BY <1>19 DEF GeneratorCloses, LeaveCli
<1>20. ASSUME NEW r \in Runner, CancelledClosing(r) PROVE UniqueInv'
  BY <1>20 DEF CancelledClosing
<1>21. ASSUME NEW r \in Runner, CancelledRemoving(r) PROVE UniqueInv'
  BY <1>21 DEF CancelledRemoving
<1>22. ASSUME NEW r \in Runner, RemoveNothing(r) PROVE UniqueInv'
  BY <1>22 DEF RemoveNothing
<1>23. ASSUME NEW r \in Runner, RemoveIdle(r) PROVE UniqueInv'
  BY <1>23 DEF RemoveIdle, ForgetMaps, Alive
<1>24. ASSUME NEW r \in Runner, RemoveAlive(r) PROVE UniqueInv'
  <2>1. /\ pending' \in {pending, [pending EXCEPT ![Key(r)] = NoOne]}
        /\ sessions' \in {sessions, [sessions EXCEPT ![Key(r)] = NoOne]}
    BY <1>24 DEF RemoveAlive
  <2> QED
    BY <2>1
<1>25. ASSUME NEW r \in Runner, RemoveEnd(r) PROVE UniqueInv'
  BY <1>25 DEF RemoveEnd, ForgetMaps, Alive
<1>26. CASE StopTasks
  BY <1>26 DEF StopTasks
<1>27. CASE StopAll
  BY <1>27 DEF StopAll, StopsNext, Kill, Alive
<1>28. CASE StopAllResumes
  BY <1>28 DEF StopAllResumes, StopsNext, Kill, Alive
<1>29. CASE UNCHANGED vars
  BY <1>29 DEF vars
<1> QED
  BY <1>1, <1>2, <1>3, <1>4, <1>5, <1>6, <1>7, <1>8, <1>9, <1>10, <1>11, <1>12,
     <1>13, <1>14, <1>15, <1>16, <1>17, <1>18, <1>19, <1>20, <1>21, <1>22, <1>23,
     <1>24, <1>25, <1>26, <1>27, <1>28, <1>29
  DEF Next, RunnerStep, StopAllStep

\* An entry that stays keeps its remover.
LEMMA RemoverStep ==
  ASSUME MInv, [Next]_vars
  PROVE  RemoverInv'
<1> USE SessionAssumption DEF MInv, RemoverInv, EntryHasRemover, Key, KindInv, TypeOK,
      At, Goes, Delivered, poolVars, lockVars, cliVars, runVars, countVars
<1>1. ASSUME NEW r \in Runner, Arrive(r) PROVE RemoverInv'
  BY <1>1 DEF Arrive
<1>2. ASSUME NEW r \in Runner, ReuseSession(r) PROVE RemoverInv'
  <2>1. PICK i \in Id :
          /\ phase[r] = "asking" /\ captured' = [captured EXCEPT ![r] = i]
          /\ UNCHANGED <<pending, sessions, temp>>
          /\ phase' \in {[phase EXCEPT ![r] = "spawning"], [phase EXCEPT ![r] = "starting"]}
    BY <1>2, Reused
  <2> QED
    BY <2>1
<1>3. ASSUME NEW r \in Runner, CreateSession(r) PROVE RemoverInv'
  BY <1>3, Kinds, Ids DEF CreateSession
<1>4. ASSUME NEW r \in Runner, TakeCliLock(r) PROVE RemoverInv'
  BY <1>4 DEF TakeCliLock
<1>5. ASSUME NEW r \in Runner, Spawn(r) PROVE RemoverInv'
  BY <1>5 DEF Spawn
<1>6. ASSUME NEW r \in Runner, SpawnFails(r) PROVE RemoverInv'
  BY <1>6 DEF SpawnFails, LeaveCli
<1>7. ASSUME NEW r \in Runner, SessionInfo(r) PROVE RemoverInv'
  BY <1>7, Registered, Kinds DEF SessionInfo, RegisterId
<1>8. ASSUME NEW r \in Runner, Register(r) PROVE RemoverInv'
  <2>1. /\ Key(r) = temp[r] /\ temp[r] \in Id /\ sessions[temp[r]] = NoOne
        /\ phase[r] = "registering" /\ Real(r) \in Id
    <3>1. temp[r] \in Id /\ Real(r) \in Id /\ phase[r] = "registering"
      BY <1>8, Registered DEF Register
    <3>2. temp[r] \in Waiting /\ captured[r] = NoId
      BY <3>1, Ids
    <3> QED
      BY <3>1, <3>2
  <2>2. /\ captured' = [captured EXCEPT ![r] = Real(r)] /\ temp' = [temp EXCEPT ![r] = NoId]
        /\ phase' = [phase EXCEPT ![r] = "reading"] /\ lock = NoOne
    BY <1>8 DEF Register, RegisterId
  <2>3. Key(r)' = Real(r) /\ \A q \in Runner \ {r} : Key(q)' = Key(q) /\ phase'[q] = phase[q]
    BY <2>2, Ids
  <2>4. \A i \in Id : (pending'[i] # NoOne \/ sessions'[i] # NoOne) =>
          i = Real(r) \/ (i # temp[r] /\ (pending[i] # NoOne \/ sessions[i] # NoOne))
    BY <1>8, <2>1 DEF Register, RegisterId
  <2>5. \A q \in Runner : phase[q] # "removing"
    BY <2>2
  <2> HIDE DEF Key
  <2>6. EntryHasRemover'
    BY <2>1, <2>2, <2>3, <2>4
  <2> QED
    BY <2>2, <2>5, <2>6
<1>9. ASSUME NEW r \in Runner, ProcessEnds(r) PROVE RemoverInv'
  BY <1>9 DEF ProcessEnds
<1>10. ASSUME NEW r \in Runner, ProcessDies(r) PROVE RemoverInv'
  BY <1>10 DEF ProcessDies
<1>11. ASSUME NEW r \in Runner, Finish(r) PROVE RemoverInv'
  BY <1>11 DEF Finish, LeaveCli
<1>12. ASSUME NEW r \in Runner, CancelTask(r) PROVE RemoverInv'
  BY <1>12 DEF CancelTask
<1>13. ASSUME NEW r \in Runner, CancelledAsking(r) PROVE RemoverInv'
  BY <1>13 DEF CancelledAsking
<1>14. ASSUME NEW r \in Runner, CancelledEarly(r) PROVE RemoverInv'
  BY <1>14 DEF CancelledEarly, LeaveCli
<1>15. ASSUME NEW r \in Runner, CancelledReading(r) PROVE RemoverInv'
  BY <1>15 DEF CancelledReading, Kill, Alive
<1>16. ASSUME NEW r \in Runner, CancelledStopping(r) PROVE RemoverInv'
  BY <1>16 DEF CancelledStopping, LeaveCli
<1>17. ASSUME NEW r \in Runner, Stopped(r) PROVE RemoverInv'
  BY <1>17 DEF Stopped, LeaveCli
<1>18. ASSUME NEW r \in Runner, CancelledRegistering(r) PROVE RemoverInv'
  BY <1>18 DEF CancelledRegistering
<1>19. ASSUME NEW r \in Runner, GeneratorCloses(r) PROVE RemoverInv'
  BY <1>19 DEF GeneratorCloses, LeaveCli
<1>20. ASSUME NEW r \in Runner, CancelledClosing(r) PROVE RemoverInv'
  BY <1>20 DEF CancelledClosing
<1>21. ASSUME NEW r \in Runner, CancelledRemoving(r) PROVE RemoverInv'
  BY <1>21 DEF CancelledRemoving
<1>22. ASSUME NEW r \in Runner, RemoveNothing(r) PROVE RemoverInv'
  BY <1>22 DEF RemoveNothing
<1>23. ASSUME NEW r \in Runner, RemoveIdle(r) PROVE RemoverInv'
  BY <1>23 DEF RemoveIdle, ForgetMaps, Alive
<1>24. ASSUME NEW r \in Runner, RemoveAlive(r) PROVE RemoverInv'
  <2>1. /\ phase' = [phase EXCEPT ![r] = "removing"] /\ lock = NoOne
        /\ temp' = temp /\ captured' = captured
    BY <1>24 DEF RemoveAlive
  <2>2. \A q \in Runner : Key(q)' = Key(q)
    BY <2>1
  <2>3. /\ Key(r) \in Id
        /\ pending' \in {pending, [pending EXCEPT ![Key(r)] = NoOne]}
        /\ sessions' \in {sessions, [sessions EXCEPT ![Key(r)] = NoOne]}
        /\ pending'[Key(r)] = NoOne /\ sessions'[Key(r)] = NoOne
    <3>1. Key(r) \in Id
      BY <1>24 DEF RemoveAlive, KeyInv
    <3>2. /\ pending' \in {pending, [pending EXCEPT ![Key(r)] = NoOne]}
          /\ sessions' \in {sessions, [sessions EXCEPT ![Key(r)] = NoOne]}
      BY <1>24 DEF RemoveAlive
    <3>3. pending'[Key(r)] = NoOne /\ sessions'[Key(r)] = NoOne
      BY <1>24, <3>1 DEF RemoveAlive
    <3> QED
      BY <3>1, <3>2, <3>3
  <2> HIDE DEF Key
  <2> QED
    BY <2>1, <2>2, <2>3
<1>25. ASSUME NEW r \in Runner, RemoveEnd(r) PROVE RemoverInv'
  BY <1>25 DEF RemoveEnd, ForgetMaps, Alive
<1>26. CASE StopTasks
  BY <1>26 DEF StopTasks
<1>27. CASE StopAll
  BY <1>27 DEF StopAll, StopsNext, Kill, Alive
<1>28. CASE StopAllResumes
  BY <1>28 DEF StopAllResumes, StopsNext, Kill, Alive
<1>29. CASE UNCHANGED vars
  BY <1>29 DEF vars
<1> QED
  BY <1>1, <1>2, <1>3, <1>4, <1>5, <1>6, <1>7, <1>8, <1>9, <1>10, <1>11, <1>12,
     <1>13, <1>14, <1>15, <1>16, <1>17, <1>18, <1>19, <1>20, <1>21, <1>22, <1>23,
     <1>24, <1>25, <1>26, <1>27, <1>28, <1>29
  DEF Next, RunnerStep, StopAllStep
-----------------------------------------------------------------------------
\* MInv, the strengthening of what is stated below, holds of every behaviour of the pool,
\* for any runners, replies, cancellations and stops.
THEOREM SessionsInductive == Spec => []MInv
<1>1. MInv /\ [Next]_vars => MInv'
  BY TypeStep, UsesStep, PoolStep, CliLockStep, ProcessStep, KeyStep, KindStep, UniqueStep,
     RemoverStep DEF MInv
<1> QED
  BY InitMInv, <1>1, PTL DEF Spec

\* Every variable of the pool has its type, and its lock is held where the code holds it.
THEOREM SessionsTypes == Spec => []TypeOK
BY SessionsInductive, PTL DEF MInv

\* The registry that is killed at exit knows every CLI that nobody has told to exit
\* (process_registry.py), also when its runner was cancelled at any await.
THEOREM RunningIsRegisteredCorrect == Spec => []RunningIsRegistered
<1>1. MInv => RunningIsRegistered
  BY DEF MInv, ProcessInv, RunningIsRegistered
<1> QED
  BY SessionsInductive, <1>1, PTL

\* A session runs one process at a time, however many runners share it: the CLI lock
\* (session.py) is held from the start of a process until its reader has left.
THEOREM OneProcessPerSessionCorrect == Spec => []OneProcessPerSession
<1>1. MInv => OneProcessPerSession
  BY DEF MInv, ProcessInv, CliLockInv, Holds, OneProcessPerSession
<1> QED
  BY SessionsInductive, <1>1, PTL

\* Every entry of the pool has a runner that has still to remove it, unless that one was
\* cancelled while it waited for the lock (remove_session in manager.py).
THEOREM EntryHasRemoverCorrect == Spec => []EntryHasRemover
BY SessionsInductive, PTL DEF MInv, RemoverInv

\* A session is in one of the two maps, under one id: what register_real_session_id
\* moves is neither lost nor doubled.
THEOREM PooledOnceCorrect == Spec => []PooledOnce
<1>1. ASSUME MInv, NEW s \in Runner
      PROVE  Cardinality({i \in Id : pending[i] = s})
               + Cardinality({i \in Id : sessions[i] = s}) <= 1
  <2>1. UniqueInv
    BY <1>1 DEF MInv
  <2>2. Cardinality({}) = 0 /\ \A x : Cardinality({x}) = 1
    BY FS_EmptySet, FS_Singleton
  <2>3. CASE \E i \in Id : pending[i] = s
    <3>1. PICK i \in Id : pending[i] = s
      BY <2>3
    <3>2. s # NoOne /\ (\A j \in Id : (pending[j] = s <=> j = i) /\ sessions[j] # s)
      BY <2>1, <3>1, SessionAssumption DEF UniqueInv
    <3>3. {j \in Id : pending[j] = s} = {i} /\ {j \in Id : sessions[j] = s} = {}
      BY <3>2
    <3>4. /\ Cardinality({j \in Id : pending[j] = s}) = 1
          /\ Cardinality({j \in Id : sessions[j] = s}) = 0
      BY <2>2, <3>3, Zenon
    <3> QED
      BY <3>4
  <2>4. CASE \E i \in Id : sessions[i] = s
    <3>1. PICK i \in Id : sessions[i] = s
      BY <2>4
    <3>2. s # NoOne /\ (\A j \in Id : (sessions[j] = s <=> j = i) /\ pending[j] # s)
      BY <2>1, <3>1, SessionAssumption DEF UniqueInv
    <3>3. {j \in Id : sessions[j] = s} = {i} /\ {j \in Id : pending[j] = s} = {}
      BY <3>2
    <3>4. /\ Cardinality({j \in Id : pending[j] = s}) = 0
          /\ Cardinality({j \in Id : sessions[j] = s}) = 1
      BY <2>2, <3>3, Zenon
    <3> QED
      BY <3>4
  <2>5. CASE \A i \in Id : pending[i] # s /\ sessions[i] # s
    <3>1. {j \in Id : sessions[j] = s} = {} /\ {j \in Id : pending[j] = s} = {}
      BY <2>5
    <3> QED
      BY <2>2, <3>1
  <2> QED
    BY <2>3, <2>4, <2>5
<1>2. MInv => PooledOnce
  BY <1>1 DEF PooledOnce
<1> QED
  BY SessionsInductive, <1>2, PTL
=============================================================================
