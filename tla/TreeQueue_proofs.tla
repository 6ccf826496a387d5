--------------------------- MODULE TreeQueue_proofs ---------------------------
(***************************************************************************)
(* Proofs about TreeQueue, for every set of messages and every bound: the  *)
(* types, and the safety invariants that TLC checks on small trees.        *)
(***************************************************************************)
EXTENDS TreeQueue, TLAPS

\* A message that has not been added has left no trace in the tree.
IntakeInv ==
    \A n \in Node : intake[n] # "attached" =>
        n \notin nodes /\ n \notin InQueue /\ task[n] = "none" /\ state[n] = "pending"

\* The busy flag: a free tree has nothing waiting; a busy one has a task that
\* will hand it over, or one that was cancelled before it could.
HandoverInv ==
    /\ ~processing => queue = <<>> /\ current = NoNode
    /\ processing => /\ currentTask \in Node
                     /\ task[currentTask] \in Live \cup {"aborted"}
    /\ current # NoNode => processing /\ currentTask = current

SerialInv == stops = 0 => attached /\ \A n \in LiveTasks : current = n

CancelInv == cancelling \subseteq LiveTasks

\* A running node of the tree that is failed was failed by its own CLI, or its
\* cancellation is on the way.
FailInv ==
    stops = 0 => \A n \in nodes : task[n] = "running" =>
        /\ state[n] # "pending"
        /\ state[n] = "error" /\ n \notin failed => n \in cancelling

\* A tree is removed only after cancel_tree.
ClearsInv == \A c \in clears : c.phase = "tree" => stops # 0

Safe ==
    /\ IntakeInv
    /\ QueueFresh
    /\ NoPendingForgotten
    /\ HandoverInv
    /\ SerialInv
    /\ CancelInv
    /\ FailInv
    /\ ClearsInv

IInv == TypeOK /\ Safe

-----------------------------------------------------------------------------
(* Queues *)

\* What is left after ids are dropped is a queue of the other ids, in order.
LEMMA WithoutFacts ==
    ASSUME NEW q \in Seq(Node), NEW S, NEW r \in Without(q, S)
    PROVE  /\ r \in Seq(Node)
           /\ IdsIn(r) = IdsIn(q) \ S
           /\ NoDup(q) => NoDup(r)
<1>1. r \in Seq(Node)
  BY SMT DEF Without
<1>2. IdsIn(r) = IdsIn(q) \ S
  BY DEF Without
<1>3. ASSUME NoDup(q)
      PROVE  NoDup(r)
  <2> SUFFICES ASSUME NEW i \in DOMAIN r, NEW j \in DOMAIN r, r[i] = r[j], i < j
               PROVE  FALSE
    BY <1>1 DEF NoDup
  <2>1. PICK x, y \in DOMAIN q : x < y /\ q[x] = r[i] /\ q[y] = r[j]
    BY DEF Without
  <2> QED
    BY <2>1, <1>3 DEF NoDup
<1> QED
  BY <1>1, <1>2, <1>3

\* A new id at the end of a queue.
LEMMA AppendFacts ==
    ASSUME NEW q \in Seq(Node), NEW n \in Node
    PROVE  /\ Append(q, n) \in Seq(Node)
           /\ IdsIn(Append(q, n)) = IdsIn(q) \cup {n}
           /\ NoDup(q) /\ n \notin IdsIn(q) => NoDup(Append(q, n))
           /\ Append(q, n) # <<>>
<1>1. /\ DOMAIN Append(q, n) = 1 .. (Len(q) + 1) /\ DOMAIN q = 1 .. Len(q)
      /\ Len(q) \in Nat
      /\ \A i \in 1 .. Len(q) : Append(q, n)[i] = q[i]
      /\ Append(q, n)[Len(q) + 1] = n
  OBVIOUS
<1>2. IdsIn(Append(q, n)) = IdsIn(q) \cup {n}
  <2>1. ASSUME NEW m \in IdsIn(Append(q, n)) PROVE m \in IdsIn(q) \cup {n}
    BY <1>1, <2>1 DEF IdsIn
  <2>2. ASSUME NEW m \in IdsIn(q) PROVE m \in IdsIn(Append(q, n))
    BY <1>1, <2>2 DEF IdsIn
  <2>3. n \in IdsIn(Append(q, n))
    BY <1>1 DEF IdsIn
  <2> QED
    BY <2>1, <2>2, <2>3
<1>3. NoDup(q) /\ n \notin IdsIn(q) => NoDup(Append(q, n))
  BY <1>1 DEF NoDup, IdsIn
<1> QED
  BY <1>1, <1>2, <1>3

\* What follows place i of a queue: ids that were behind it.
LEMMA SubSeqFacts ==
    ASSUME NEW q \in Seq(Node), NEW i \in DOMAIN q
    PROVE  LET r == SubSeq(q, i + 1, Len(q)) IN
           /\ r \in Seq(Node)
           /\ IdsIn(r) = {q[j] : j \in (i + 1) .. Len(q)}
           /\ NoDup(q) => NoDup(r) /\ q[i] \notin IdsIn(r)
<1> DEFINE r == SubSeq(q, i + 1, Len(q))
<1>1. /\ DOMAIN q = 1 .. Len(q) /\ Len(q) \in Nat /\ i \in 1 .. Len(q)
      /\ r \in Seq(Node) /\ DOMAIN r = 1 .. (Len(q) - i)
      /\ \A k \in 1 .. (Len(q) - i) : r[k] = q[i + k]
  OBVIOUS
<1> HIDE DEF r
<1>2. IdsIn(r) = {q[j] : j \in (i + 1) .. Len(q)}
  <2>1. ASSUME NEW m \in IdsIn(r) PROVE m \in {q[j] : j \in (i + 1) .. Len(q)}
    BY <1>1, <2>1 DEF IdsIn
  <2>2. ASSUME NEW j \in (i + 1) .. Len(q) PROVE q[j] \in IdsIn(r)
    <3>1. j - i \in 1 .. (Len(q) - i) /\ i + (j - i) = j
      BY <1>1
    <3> QED
      BY <1>1, <3>1 DEF IdsIn
  <2> QED
    BY <2>1, <2>2
<1>3. NoDup(q) => NoDup(r)
  BY <1>1 DEF NoDup
<1>4. NoDup(q) => q[i] \notin IdsIn(r)
  BY <1>1, <1>2 DEF NoDup
<1> QED
  BY <1>1, <1>2, <1>3, <1>4 DEF r

-----------------------------------------------------------------------------
(* Types *)

LEMMA SetStateType ==
    ASSUME TypeOK, NEW S, NEW s \in MessageState
    PROVE  SetState(S, s) \in [Node -> MessageState]
BY DEF TypeOK, SetState

\* The hand-over of a tree keeps the types of what it changes.
LEMMA ProcessNextType ==
    ASSUME TypeOK, NEW t \in [Node -> TaskState], ProcessNext(t)
    PROVE  /\ queue' \in Seq(Node) /\ processing' \in BOOLEAN
           /\ current' \in Node \cup {NoNode} /\ currentTask' \in Node \cup {NoNode}
           /\ task' \in [Node -> TaskState]
<1>1. CASE InQueue \cap nodes = {} /\ queue' = <<>> /\ processing' = FALSE
           /\ current' = NoNode /\ task' = t /\ UNCHANGED currentTask
  <2>1. <<>> \in Seq(Node)
    OBVIOUS
  <2> QED
    BY <1>1, <2>1 DEF TypeOK
<1>2. ASSUME NEW i \in DOMAIN queue,
             queue' = SubSeq(queue, i + 1, Len(queue)),
             processing' = TRUE, current' = queue[i], currentTask' = queue[i],
             task' = [t EXCEPT ![queue[i]] = "created"]
      PROVE  /\ queue' \in Seq(Node) /\ processing' \in BOOLEAN
             /\ current' \in Node \cup {NoNode} /\ currentTask' \in Node \cup {NoNode}
             /\ task' \in [Node -> TaskState]
  <2>1. queue \in Seq(Node) /\ queue[i] \in Node
    BY DEF TypeOK
  <2>2. queue' \in Seq(Node)
    BY <1>2, <2>1, SubSeqFacts
  <2> QED
    BY <1>2, <2>1, <2>2 DEF TaskState
<1> QED
  BY <1>1, <1>2 DEF ProcessNext

\* Every step keeps every variable in its type.
LEMMA TypeStep == TypeOK /\ [Next]_vars => TypeOK'
<1> SUFFICES ASSUME TypeOK, [Next]_vars
             PROVE  TypeOK'
  OBVIOUS
<1> USE TreeAssumption
<1>1. ASSUME NEW n \in Node, NEW p \in Node, ResolveReply(n, p)
      PROVE  TypeOK'
  BY <1>1 DEF TypeOK, ResolveReply, graphVars, runVars, cliVars, cmdVars
<1>2. ASSUME NEW n \in Node, AddToTree(n)
      PROVE  TypeOK'
  <2>1. Append(queue, n) \in Seq(Node)
    BY AppendFacts DEF TypeOK
  <2> QED
    BY <1>2, <2>1 DEF TypeOK, AddToTree, EnqueueAndStart, TaskState, cliVars, cmdVars
<1>3. ASSUME NEW n \in Node, AddToTreeFails(n)
      PROVE  TypeOK'
  BY <1>3 DEF TypeOK, AddToTreeFails, graphVars, runVars, cliVars, cmdVars
<1>4. ASSUME NEW n \in Node, TaskSkip(n)
      PROVE  TypeOK'
  <2>1. [task EXCEPT ![n] = "done"] \in [Node -> TaskState]
    BY DEF TypeOK, TaskState
  <2> QED
    BY <1>4, <2>1, ProcessNextType
    DEF TypeOK, TaskSkip, intakeVars, graphVars, cliVars, cmdVars
<1>5. ASSUME NEW n \in Node, TaskStart(n)
      PROVE  TypeOK'
  <2>1. SetState({n}, "in_progress") \in [Node -> MessageState]
    BY SetStateType DEF MessageState
  <2>2. task' \in [Node -> TaskState] /\ state' \in [Node -> MessageState]
    BY <1>5, <2>1 DEF TypeOK, TaskStart, TaskState
  <2> QED
    BY <1>5, <2>2 DEF TypeOK, TaskStart, intakeVars, graphVars, cmdVars
<1>6. ASSUME NEW n \in Node, TaskAborted(n)
      PROVE  TypeOK'
  BY <1>6 DEF TypeOK, TaskAborted, TaskState, intakeVars, graphVars, cliVars, cmdVars
<1>7. ASSUME NEW n \in Node, SessionInfo(n)
      PROVE  TypeOK'
  <2>1. SetState({n}, "in_progress") \in [Node -> MessageState]
    BY SetStateType DEF MessageState
  <2> QED
    BY <1>7, <2>1 DEF TypeOK, SessionInfo, intakeVars, graphVars, runVars, cmdVars
<1>8. ASSUME NEW n \in Node, ErrorEvent(n)
      PROVE  TypeOK'
  <2>1. SetState(FailedWith(n), "error") \in [Node -> MessageState]
    BY SetStateType DEF MessageState
  <2> QED
    BY <1>8, <2>1 DEF TypeOK, ErrorEvent, intakeVars, graphVars, runVars, cmdVars
<1>9. ASSUME NEW n \in Node, CliExit(n)
      PROVE  TypeOK'
  <2>1. SetState(FailedWith(n), "error") \in [Node -> MessageState]
    BY SetStateType DEF MessageState
  <2>2. ASSUME NEW s \in [Node -> MessageState]
        PROVE  Complete(n, s) \in [Node -> MessageState]
    BY DEF Complete, MessageState
  <2>3. state' \in [Node -> MessageState]
    BY <1>9, <2>1, <2>2 DEF TypeOK, CliExit, ExitOk, ExitFailed, RunnerRaises
  <2>4. task' \in [Node -> TaskState]
    BY <1>9 DEF TypeOK, CliExit, ExitOk, ExitFailed, RunnerRaises, TaskState
  <2> QED
    BY <1>9, <2>3, <2>4
    DEF TypeOK, CliExit, ExitOk, ExitFailed, RunnerRaises, intakeVars, graphVars,
        cliVars, cmdVars
<1>10. ASSUME NEW n \in Node, RunnerCancelled(n)
       PROVE  TypeOK'
  <2>1. SetState({n}, "error") \in [Node -> MessageState]
    BY SetStateType DEF MessageState
  <2>2. task' \in [Node -> TaskState] /\ state' \in [Node -> MessageState]
    BY <1>10, <2>1 DEF TypeOK, RunnerCancelled, TaskState
  <2> QED
    BY <1>10, <2>2 DEF TypeOK, RunnerCancelled, intakeVars, graphVars, cliVars, cmdVars
<1>11. ASSUME NEW n \in Node, TaskFinish(n)
       PROVE  TypeOK'
  <2>1. [task EXCEPT ![n] = "done"] \in [Node -> TaskState]
    BY DEF TypeOK, TaskState
  <2> QED
    BY <1>11, <2>1, ProcessNextType DEF TypeOK, TaskFinish, intakeVars, graphVars, cmdVars
<1>12. LiveTasks \subseteq Node
  BY DEF LiveTasks
<1>13. ASSUME NEW n \in Node, CancelNode(n)
       PROVE  TypeOK'
  <2>1. SetState({n}, "error") \in [Node -> MessageState]
    BY SetStateType DEF MessageState
  <2>2. queue' \in Seq(Node)
    BY <1>13, WithoutFacts DEF TypeOK, CancelNode
  <2>3. cancelling' \subseteq Node
    BY <1>12, <1>13 DEF TypeOK, CancelNode, CancelCurrentTask
  <2> QED
    BY <1>13, <2>1, <2>2, <2>3 DEF TypeOK, CancelNode, intakeVars, graphVars, cliVars, cmdVars
<1>14. ASSUME NEW b \in Node, ClearBranch(b)
       PROVE  TypeOK'
  <2> DEFINE open == {n \in Descendants(b) : state[n] \notin Terminal}
  <2>1. SetState(open, "error") \in [Node -> MessageState]
    BY SetStateType DEF MessageState
  <2>2. queue' \in Seq(Node)
    BY <1>14, WithoutFacts DEF TypeOK, ClearBranch
  <2>3. cancelling' \subseteq Node
    BY <1>12, <1>14 DEF TypeOK, ClearBranch, CancelCurrentTask
  <2>4. clears' \subseteq Clear
    BY <1>12, <1>14 DEF TypeOK, ClearBranch, Clear
  <2> QED
    BY <1>14, <2>1, <2>2, <2>3, <2>4
    DEF TypeOK, ClearBranch, intakeVars, graphVars, cliVars
<1>15. ASSUME NEW c \in clears, RemoveBranch(c) \/ RemoveTree(c)
       PROVE  TypeOK'
  BY <1>15 DEF TypeOK, RemoveBranch, RemoveTree, intakeVars, runVars, cliVars
<1>16. ASSUME CancelTree, clears' \subseteq Clear
       PROVE  TypeOK'
  <2>1. SetState({n \in nodes : state[n] \notin Terminal \/ n \in InQueue}, "error")
            \in [Node -> MessageState]
    BY SetStateType DEF MessageState
  <2>2. cancelling' \subseteq Node
    BY <1>12, <1>16 DEF TypeOK, CancelTree, CancelCurrentTask
  <2>3. <<>> \in Seq(Node)
    OBVIOUS
  <2>4. state' \in [Node -> MessageState]
    BY <1>16, <2>1 DEF CancelTree
  <2>5. stops' \in Nat
    BY <1>16 DEF TypeOK, CancelTree
  <2>6. queue' \in Seq(Node) /\ processing' \in BOOLEAN /\ current' = NoNode
    BY <1>16, <2>3 DEF CancelTree
  <2> QED
    BY <1>16, <2>2, <2>4, <2>5, <2>6 DEF TypeOK, CancelTree, intakeVars, graphVars, cliVars
<1>17. ClearOfTree \in Clear
  BY <1>12 DEF ClearOfTree, Clear
<1>18. ASSUME StopAll \/ ClearAll \/ \E c \in clears : ClearRoot(c)
       PROVE  TypeOK'
  <2>1. CancelTree
    BY <1>18 DEF StopAll, ClearAll, ClearRoot
  <2>2. clears' \subseteq Clear
    BY <1>17, <1>18 DEF TypeOK, StopAll, ClearAll, ClearRoot
  <2> QED
    BY <1>16, <2>1, <2>2
<1>19. CASE UNCHANGED vars
  BY <1>19 DEF TypeOK, vars, intakeVars, graphVars, runVars, cliVars, cmdVars
<1> QED
  BY <1>1, <1>2, <1>3, <1>4, <1>5, <1>6, <1>7, <1>8, <1>9, <1>10, <1>11, <1>13,
     <1>14, <1>15, <1>18, <1>19
  DEF Next, Intake, TaskStep, CliStep, Command

LEMMA TypeInit == Init => TypeOK
BY TreeAssumption DEF Init, TypeOK, TaskState, MessageState

\* Every variable keeps its type, however many messages there are and whatever
\* is sent, stopped and cleared.
THEOREM TypeCorrect == Spec => []TypeOK
BY TypeInit, TypeStep, PTL DEF Spec

-----------------------------------------------------------------------------
(* The inductive invariant *)

\* The end of the task of n, whatever ended it, and the hand-over of the tree.
LEMMA HandOver ==
    ASSUME TypeOK, Safe, NEW n \in Node, n \in LiveTasks,
           ProcessNext([task EXCEPT ![n] = "done"]),
           cancelling' = cancelling \ {n}, failed \ {n} \subseteq failed',
           UNCHANGED <<intakeVars, graphVars, state, cmdVars>>
    PROVE  Safe'
<1>0. /\ queue \in Seq(Node) /\ DOMAIN queue = 1 .. Len(queue) /\ Len(queue) \in Nat
      /\ task \in [Node -> TaskState] /\ nodes \subseteq Node /\ InQueue \subseteq Node
      /\ task[n] # "none"
  BY DEF TypeOK, LiveTasks, Live, InQueue, IdsIn
<1>1. CASE /\ InQueue \cap nodes = {}
           /\ queue' = <<>> /\ processing' = FALSE /\ current' = NoNode
           /\ task' = [task EXCEPT ![n] = "done"]
  <2>1. InQueue' = {} /\ NoDup(queue)'
    BY <1>1 DEF InQueue, IdsIn, NoDup
  <2>2. LiveTasks' = LiveTasks \ {n}
    BY <1>0, <1>1 DEF LiveTasks, Live
  <2>3. IntakeInv' /\ QueueFresh'
    BY <1>0, <1>1, <2>1 DEF Safe, IntakeInv, QueueFresh, intakeVars, graphVars
  <2>4. NoPendingForgotten'
    BY <1>0, <1>1, <2>1 DEF Safe, NoPendingForgotten, graphVars
  <2>5. HandoverInv' /\ CancelInv'
    BY <1>1, <2>2 DEF Safe, HandoverInv, CancelInv
  <2>6. SerialInv'
    BY <1>0, <2>2 DEF Safe, SerialInv, graphVars, cmdVars
  <2>7. FailInv' /\ ClearsInv'
    BY <1>0, <1>1 DEF Safe, FailInv, ClearsInv, graphVars, cmdVars
  <2> QED
    BY <2>3, <2>4, <2>5, <2>6, <2>7 DEF Safe
<1>2. ASSUME NEW i \in DOMAIN queue,
             queue[i] \in nodes, \A j \in 1 .. (i - 1) : queue[j] \notin nodes,
             queue' = SubSeq(queue, i + 1, Len(queue)), processing' = TRUE,
             current' = queue[i], currentTask' = queue[i],
             task' = [task EXCEPT ![n] = "done", ![queue[i]] = "created"]
      PROVE  Safe'
  <2> DEFINE h == queue[i]
  <2>1. h \in Node /\ h \in InQueue /\ task[h] = "none" /\ h # n /\ intake[h] = "attached"
    BY <1>0 DEF Safe, QueueFresh, IntakeInv, InQueue, IdsIn
  <2>2. /\ NoDup(queue) => NoDup(queue') /\ h \notin IdsIn(queue')
        /\ IdsIn(queue') = {queue[j] : j \in (i + 1) .. Len(queue)}
    <3> DEFINE r == SubSeq(queue, i + 1, Len(queue))
    <3>1. /\ IdsIn(r) = {queue[j] : j \in (i + 1) .. Len(queue)}
          /\ NoDup(queue) => NoDup(r) /\ h \notin IdsIn(r)
      BY <1>0, SubSeqFacts
    <3> QED
      BY <1>2, <3>1
  <2>3. InQueue' = IdsIn(queue') /\ InQueue' \subseteq InQueue
    <3>1. InQueue' = IdsIn(queue')
      BY DEF InQueue, IdsIn
    <3>2. IdsIn(queue') \subseteq IdsIn(queue)
      <4> SUFFICES ASSUME NEW m \in IdsIn(queue')
                   PROVE  m \in IdsIn(queue)
        OBVIOUS
      <4>1. PICK j \in (i + 1) .. Len(queue) : m = queue[j]
        BY <2>2
      <4>2. j \in DOMAIN queue
        BY <1>0
      <4> QED
        BY <4>1, <4>2 DEF IdsIn
    <3> QED
      BY <3>1, <3>2 DEF InQueue
  <2>4. /\ task'[h] = "created" /\ task'[n] = "done"
        /\ \A m \in Node \ {h, n} : task'[m] = task[m]
    BY <1>0, <1>2, <2>1
  <2> HIDE DEF h
  <2>5. LiveTasks' = (LiveTasks \ {n}) \cup {h}
    BY <2>1, <2>4 DEF LiveTasks, Live
  <2>6. IntakeInv'
    BY <1>0, <2>1, <2>3, <2>4 DEF Safe, IntakeInv, intakeVars, graphVars
  <2>7. QueueFresh'
    <3>1. NoDup(queue) /\ \A m \in InQueue : task[m] = "none" /\ state[m] \in {"pending", "error"}
      BY DEF Safe, QueueFresh
    <3>2. NoDup(queue)' /\ h \notin InQueue'
      BY <2>2, <2>3, <3>1 DEF NoDup
    <3>3. \A m \in InQueue' : task'[m] = "none"
      BY <1>0, <2>1, <2>3, <2>4, <3>1, <3>2
    <3>4. \A m \in InQueue' : state'[m] \in {"pending", "error"}
      BY <2>3, <3>1
    <3> QED
      BY <3>2, <3>3, <3>4 DEF QueueFresh
  <2>8. NoPendingForgotten'
    <3> SUFFICES ASSUME NEW m \in nodes, state[m] = "pending", task'[m] = "none"
                 PROVE  m \in InQueue'
      BY DEF NoPendingForgotten, graphVars
    <3>1. m \in Node /\ m # h /\ m # n /\ task[m] = "none"
      BY <1>0, <2>4
    <3>2. PICK k \in 1 .. Len(queue) : m = queue[k]
      BY <1>0, <3>1 DEF Safe, NoPendingForgotten, InQueue, IdsIn
    <3>3. k \in (i + 1) .. Len(queue)
      BY <1>0, <1>2, <3>1, <3>2 DEF h
    <3> QED
      BY <2>2, <2>3, <3>2, <3>3
  <2>9. HandoverInv'
    BY <1>2, <2>1, <2>4 DEF HandoverInv, Live, h
  <2>10. SerialInv'
    BY <1>2, <2>5 DEF Safe, SerialInv, graphVars, cmdVars, h
  <2>11. CancelInv'
    BY <2>5 DEF Safe, CancelInv
  <2>12. FailInv' /\ ClearsInv'
    BY <1>0, <2>4 DEF Safe, FailInv, ClearsInv, graphVars, cmdVars
  <2> QED
    BY <2>6, <2>7, <2>8, <2>9, <2>10, <2>11, <2>12 DEF Safe
<1>3. ASSUME NEW i \in DOMAIN queue
      PROVE  [[task EXCEPT ![n] = "done"] EXCEPT ![queue[i]] = "created"]
                = [task EXCEPT ![n] = "done", ![queue[i]] = "created"]
  OBVIOUS
<1> QED
  BY <1>1, <1>2, <1>3 DEF ProcessNext

\* A task that goes on to its next stage without leaving or joining the live
\* ones, while states become ERROR, or change for that task only.
LEMMA LiveTaskMoves ==
    ASSUME TypeOK, Safe, NEW n \in LiveTasks, NEW to \in Live,
           task' = [task EXCEPT ![n] = to],
           \A m \in Node \ {n} :
              state'[m] = state[m] \/ (m \in nodes /\ state'[m] = "error"),
           state'[n] # "pending" \/ state' = state,
           cancelling' \subseteq cancelling,
           FailInv',
           UNCHANGED <<intakeVars, graphVars, queue, processing, current,
                       currentTask, cmdVars>>
    PROVE  Safe'
<1>0. /\ n \in Node /\ task \in [Node -> TaskState] /\ nodes \subseteq Node
      /\ task[n] # "none" /\ task'[n] = to /\ to # "none"
      /\ \A m \in Node \ {n} : task'[m] = task[m]
      /\ InQueue \subseteq Node /\ InQueue' = InQueue
  BY DEF TypeOK, LiveTasks, Live, InQueue, IdsIn
<1>1. LiveTasks' = LiveTasks
  BY <1>0 DEF LiveTasks
<1>2. \A m \in nodes : intake[m] = "attached"
  BY <1>0 DEF Safe, IntakeInv
<1>3. /\ n \notin InQueue /\ intake[n] = "attached"
  BY <1>0 DEF Safe, QueueFresh, IntakeInv
<1>8. IntakeInv'
  BY <1>0, <1>2, <1>3 DEF Safe, IntakeInv, intakeVars, graphVars
<1>4. QueueFresh'
  <2>1. NoDup(queue)'
    BY DEF Safe, QueueFresh, NoDup
  <2>2. ASSUME NEW m \in InQueue
        PROVE  task'[m] = "none" /\ state'[m] \in {"pending", "error"}
    BY <1>0, <1>3 DEF Safe, QueueFresh
  <2> QED
    BY <1>0, <2>1, <2>2 DEF QueueFresh
<1>5. NoPendingForgotten'
  BY <1>0 DEF Safe, NoPendingForgotten, graphVars
<1>6. HandoverInv'
  BY <1>0 DEF Safe, HandoverInv
<1>7. SerialInv' /\ CancelInv' /\ ClearsInv'
  BY <1>1 DEF Safe, SerialInv, CancelInv, ClearsInv, graphVars, cmdVars
<1> QED
  BY <1>8, <1>4, <1>5, <1>6, <1>7 DEF Safe

LEMMA SetStateFacts ==
    ASSUME TypeOK, NEW S, NEW s
    PROVE  /\ \A m \in Node \ S : SetState(S, s)[m] = state[m]
           /\ \A m \in Node : SetState(S, s)[m] = state[m]
                              \/ (m \in nodes /\ SetState(S, s)[m] = s)
           /\ \A m \in S \cap nodes : SetState(S, s)[m] = s
           /\ SetState(S, s) \in [Node -> MessageState \cup {s}]
BY DEF TypeOK, SetState

LEMMA PendingChildrenPending ==
    ASSUME NEW b
    PROVE  \A m \in PendingChildren(b) : m \in nodes /\ state[m] = "pending"
BY DEF PendingChildren, Below

\* The steps of the tasks keep the invariant.
LEMMA SafeTaskStep ==
    ASSUME TypeOK, Safe, NEW n \in Node, TaskStep(n)
    PROVE  Safe'
<1>1. CASE TaskSkip(n)
  <2>1. n \in LiveTasks
    BY <1>1 DEF TaskSkip, LiveTasks, Live
  <2> QED
    BY <1>1, <2>1, HandOver DEF TaskSkip, cliVars
<1>2. CASE TaskFinish(n)
  <2>1. n \in LiveTasks
    BY <1>2 DEF TaskFinish, LiveTasks, Live
  <2> QED
    BY <1>2, <2>1, HandOver DEF TaskFinish
<1>3. CASE TaskStart(n)
  <2>1. n \in LiveTasks /\ task' = [task EXCEPT ![n] = "running"] /\ "running" \in Live
    BY <1>3 DEF TaskStart, LiveTasks, Live
  <2>2. /\ \A m \in Node \ {n} : state'[m] = state[m]
        /\ state'[n] # "pending" \/ state' = state
    BY <1>3, SetStateFacts DEF TaskStart, TypeOK, Known
  <2>3. FailInv'
    <3> SUFFICES ASSUME stops = 0, NEW m \in nodes, task'[m] = "running"
                 PROVE  /\ state'[m] # "pending"
                        /\ state'[m] = "error" /\ m \notin failed => m \in cancelling
      BY <1>3 DEF TaskStart, FailInv, graphVars, cmdVars
    <3>1. CASE m = n
      <4>1. Known(n)
        BY <3>1 DEF Known, Safe, SerialInv
      <4>2. state' = SetState({n}, "in_progress") /\ n \in nodes
        BY <1>3, <4>1 DEF TaskStart, Known
      <4> QED
        BY <3>1, <4>2, SetStateFacts
    <3>2. CASE m # n
      BY <2>1, <2>2, <3>2 DEF TypeOK, Safe, FailInv
    <3> QED
      BY <3>1, <3>2
  <2> QED
    BY <1>3, <2>1, <2>2, <2>3, LiveTaskMoves DEF TaskStart
<1>4. CASE TaskAborted(n)
  <2>1. /\ task \in [Node -> TaskState] /\ task'[n] = "aborted" /\ task[n] = "created"
        /\ \A m \in Node \ {n} : task'[m] = task[m]
        /\ nodes \subseteq Node /\ InQueue \subseteq Node /\ InQueue' = InQueue
        /\ state' = state /\ nodes' = nodes /\ intake' = intake
    BY <1>4 DEF TypeOK, TaskAborted, InQueue, IdsIn, graphVars, intakeVars
  <2>2. LiveTasks' = LiveTasks \ {n}
    BY <2>1 DEF LiveTasks, Live
  <2>3. IntakeInv'
    BY <2>1 DEF Safe, IntakeInv
  <2>4. QueueFresh'
    <3>1. NoDup(queue)'
      BY <1>4 DEF Safe, QueueFresh, NoDup, TaskAborted
    <3>2. \A m \in InQueue : task'[m] = "none" /\ state'[m] \in {"pending", "error"}
      BY <2>1 DEF Safe, QueueFresh
    <3> QED
      BY <2>1, <3>1, <3>2 DEF QueueFresh
  <2>5. NoPendingForgotten'
    BY <2>1 DEF Safe, NoPendingForgotten
  <2>6. HandoverInv'
    BY <1>4, <2>1 DEF Safe, HandoverInv, TaskAborted
  <2>7. SerialInv' /\ CancelInv' /\ ClearsInv'
    BY <1>4, <2>2 DEF Safe, SerialInv, CancelInv, ClearsInv, TaskAborted, graphVars, cmdVars
  <2>8. FailInv'
    BY <1>4, <2>1 DEF Safe, FailInv, TaskAborted, cliVars, cmdVars
  <2> QED
    BY <2>3, <2>4, <2>5, <2>6, <2>7, <2>8 DEF Safe
<1>5. CASE RunnerCancelled(n)
  <2>1. n \in LiveTasks /\ task' = [task EXCEPT ![n] = "closing"] /\ "closing" \in Live
    BY <1>5 DEF RunnerCancelled, LiveTasks, Live
  <2>2. /\ \A m \in Node \ {n} : state'[m] = state[m]
        /\ state'[n] # "pending" \/ state' = state
    BY <1>5, SetStateFacts DEF RunnerCancelled, TypeOK
  <2>3. FailInv'
    BY <1>5, <2>1, <2>2 DEF TypeOK, Safe, FailInv, RunnerCancelled, graphVars, cliVars, cmdVars
  <2> QED
    BY <1>5, <2>1, <2>2, <2>3, LiveTaskMoves DEF RunnerCancelled
<1> QED
  BY <1>1, <1>2, <1>3, <1>4, <1>5 DEF TaskStep

\* What the CLI says and how it ends keep the invariant.
LEMMA SafeCliStep ==
    ASSUME TypeOK, Safe, NEW n \in Node, CliStep(n)
    PROVE  Safe'
<1> DEFINE F == SetState(FailedWith(n), "error")
<1>0. /\ Consuming(n) /\ n \in LiveTasks /\ task \in [Node -> TaskState]
      /\ {"running", "closing"} \subseteq Live /\ nodes \subseteq Node
      /\ state \in [Node -> MessageState]
  BY DEF CliStep, CliExit, SessionInfo, ErrorEvent, ExitOk, ExitFailed, RunnerRaises,
         Consuming, LiveTasks, Live, TypeOK
\* Only n, and nodes that are pending and hence do not run, fail with n.
<1>1. /\ \A m \in Node \ {n} : F[m] = state[m] \/ (m \in nodes /\ F[m] = "error")
      /\ \A m \in nodes \ {n} : F[m] # state[m] => state[m] = "pending"
      /\ F[n] # "pending" \/ F = state
      /\ F \in [Node -> MessageState]
  <2>1. \A m \in FailedWith(n) \ {n} : m \in nodes /\ state[m] = "pending"
    BY PendingChildrenPending DEF FailedWith
  <2>2. \A m \in Node : F[m] = IF m \in FailedWith(n) \cap nodes THEN "error" ELSE state[m]
    BY DEF SetState
  <2>3. F \in [Node -> MessageState]
    BY SetStateType DEF MessageState
  <2>4. CASE Known(n)
    BY <2>1, <2>2, <2>3, <2>4, <1>0 DEF FailedWith, Known
  <2>5. CASE ~Known(n)
    BY <2>2, <2>3, <2>5, <1>0 DEF FailedWith
  <2> QED
    BY <2>4, <2>5
<1> HIDE DEF F
<1>2. ASSUME NEW m \in nodes \ {n}, stops = 0, task[m] = "running"
      PROVE  state[m] # "pending" /\ F[m] = state[m]
                /\ (state[m] = "error" /\ m \notin failed => m \in cancelling)
  BY <1>1, <1>2 DEF Safe, FailInv
<1>3. CASE SessionInfo(n)
  <2>1. task' = [task EXCEPT ![n] = "running"]
    BY <1>0, <1>3 DEF SessionInfo, runVars, Consuming
  <2>2. /\ \A m \in Node \ {n} : state'[m] = state[m]
        /\ state'[n] = "in_progress" \/ state' = state
    BY <1>0, <1>3, SetStateFacts DEF SessionInfo
  <2>3. FailInv'
    <3> SUFFICES ASSUME stops = 0, NEW m \in nodes, task[m] = "running"
                 PROVE  /\ state'[m] # "pending"
                        /\ state'[m] = "error" /\ m \notin failed => m \in cancelling
      BY <1>3 DEF SessionInfo, FailInv, graphVars, runVars, cmdVars
    <3>1. /\ state[m] # "pending"
          /\ state[m] = "error" /\ m \notin failed => m \in cancelling
      BY DEF Safe, FailInv
    <3> QED
      BY <1>0, <2>2, <3>1
  <2> QED
    BY <1>0, <1>3, <2>1, <2>2, <2>3, LiveTaskMoves DEF SessionInfo, runVars
<1>4. CASE ErrorEvent(n)
  <2>1. task' = [task EXCEPT ![n] = "running"]
    BY <1>0, <1>4 DEF ErrorEvent, runVars, Consuming
  <2>2. state' = F \/ state' = state
    BY <1>4 DEF ErrorEvent, F
  <2>3. FailInv'
    <3> SUFFICES ASSUME stops = 0, NEW m \in nodes, task[m] = "running"
                 PROVE  /\ state'[m] # "pending"
                        /\ state'[m] = "error" /\ m \notin failed' => m \in cancelling
      BY <1>4 DEF ErrorEvent, FailInv, graphVars, runVars, cmdVars
    <3>1. state[m] # "pending"
      BY DEF Safe, FailInv
    <3>2. CASE m = n
      BY <1>1, <1>4, <2>2, <3>1, <3>2 DEF ErrorEvent
    <3>3. CASE m # n
      BY <1>2, <1>4, <2>2, <3>1, <3>3 DEF ErrorEvent
    <3> QED
      BY <3>2, <3>3
  <2>4. /\ \A m \in Node \ {n} : state'[m] = state[m]
                                  \/ (m \in nodes /\ state'[m] = "error")
        /\ state'[n] # "pending" \/ state' = state
    BY <1>1, <2>2
  <2> QED
    BY <1>0, <1>4, <2>1, <2>3, <2>4, LiveTaskMoves DEF ErrorEvent, runVars
<1>5. CASE CliExit(n)
  <2>1. task' = [task EXCEPT ![n] = "closing"]
    BY <1>5 DEF CliExit, ExitOk, ExitFailed, RunnerRaises
  <2>2. PICK s \in {state, F} : state' = s \/ state' = Complete(n, s)
    BY <1>5 DEF CliExit, ExitOk, ExitFailed, RunnerRaises, F
  <2>3. s \in [Node -> MessageState]
    BY <1>0, <1>1, <2>2
  <2>4. /\ \A m \in Node \ {n} : state'[m] = s[m]
        /\ state'[n] = "completed" \/ state' = s
    BY <2>2, <2>3 DEF Complete
  <2>5. /\ \A m \in Node \ {n} : state'[m] = state[m]
                                  \/ (m \in nodes /\ state'[m] = "error")
        /\ state'[n] # "pending" \/ state' = state
    BY <1>1, <2>2, <2>4
  <2>6. FailInv'
    <3> SUFFICES ASSUME stops = 0, NEW m \in nodes, task'[m] = "running"
                 PROVE  /\ state'[m] # "pending"
                        /\ state'[m] = "error" /\ m \notin failed' => m \in cancelling
      BY <1>5 DEF CliExit, ExitOk, ExitFailed, RunnerRaises, FailInv, graphVars, cmdVars
    <3>1. m # n /\ task[m] = "running"
      BY <1>0, <2>1
    <3>2. state'[m] = state[m] /\ state[m] # "pending"
      BY <1>0, <1>2, <2>2, <2>4, <3>1
    <3>3. failed \subseteq failed'
      BY <1>5 DEF CliExit, ExitOk, ExitFailed, RunnerRaises, cliVars
    <3> QED
      BY <1>2, <3>1, <3>2, <3>3
  <2> QED
    BY <1>0, <1>5, <2>1, <2>5, <2>6, LiveTaskMoves
    DEF CliExit, ExitOk, ExitFailed, RunnerRaises
<1> QED
  BY <1>3, <1>4, <1>5 DEF CliStep

\* A message on its way into the tree keeps the invariant.
LEMMA SafeIntake ==
    ASSUME TypeOK, Safe, NEW n \in Node, Intake(n)
    PROVE  Safe'
<1>0. /\ intake[n] # "attached" /\ intake \in [Node -> {"new", "sending", "attached", "lost"}]
      /\ n \notin nodes /\ n \notin InQueue /\ task[n] = "none" /\ state[n] = "pending"
      /\ queue \in Seq(Node) /\ nodes \subseteq Node /\ task \in [Node -> TaskState]
      /\ n # NoNode
  BY TreeAssumption
  DEF Intake, ResolveReply, AddToTree, AddToTreeFails, TypeOK, Safe, IntakeInv
<1>1. ASSUME ~AddToTree(n)
      PROVE  Safe'
  <2>1. /\ UNCHANGED <<graphVars, state, runVars, cancelling, cliVars, cmdVars>>
        /\ \A m \in Node : intake'[m] # "attached" => intake[m] # "attached"
    BY <1>0, <1>1 DEF Intake, ResolveReply, AddToTreeFails
  <2>2. InQueue' = InQueue /\ LiveTasks' = LiveTasks
    BY <2>1 DEF InQueue, IdsIn, LiveTasks, runVars
  <2>3. IntakeInv'
    BY <2>1, <2>2 DEF Safe, IntakeInv, graphVars, runVars
  <2>4. QueueFresh' /\ NoPendingForgotten' /\ HandoverInv'
    BY <2>1, <2>2
    DEF Safe, QueueFresh, NoDup, NoPendingForgotten, HandoverInv, graphVars, runVars
  <2>5. SerialInv' /\ CancelInv' /\ FailInv' /\ ClearsInv'
    BY <2>1, <2>2
    DEF Safe, SerialInv, CancelInv, FailInv, ClearsInv, graphVars, runVars, cliVars, cmdVars
  <2> QED
    BY <2>3, <2>4, <2>5 DEF Safe
<1>2. ASSUME AddToTree(n)
      PROVE  Safe'
  <2>1. /\ nodes' = nodes \cup {n} /\ state' = state /\ attached' = attached
        /\ intake'[n] = "attached" /\ \A m \in Node \ {n} : intake'[m] = intake[m]
        /\ UNCHANGED <<cancelling, cliVars, cmdVars>>
    BY <1>0, <1>2 DEF AddToTree
  <2>2. CASE processing
    <3>1. /\ queue' = Append(queue, n)
          /\ UNCHANGED <<processing, current, currentTask, task>>
      BY <1>2, <2>2 DEF AddToTree, EnqueueAndStart
    <3>2. InQueue' = InQueue \cup {n} /\ queue' # <<>>
      BY <1>0, <3>1, AppendFacts DEF InQueue, IdsIn
    <3>3. NoDup(queue)'
      <4>1. NoDup(Append(queue, n))
        BY <1>0, AppendFacts DEF Safe, QueueFresh, InQueue
      <4> QED
        BY <3>1, <4>1 DEF NoDup
    <3>4. LiveTasks' = LiveTasks
      BY <3>1 DEF LiveTasks
    <3>5. IntakeInv'
      BY <2>1, <3>1, <3>2 DEF Safe, IntakeInv
    <3>6. QueueFresh'
      BY <1>0, <2>1, <3>1, <3>2, <3>3 DEF Safe, QueueFresh
    <3>7. NoPendingForgotten' /\ HandoverInv'
      BY <2>1, <2>2, <3>1, <3>2 DEF Safe, NoPendingForgotten, HandoverInv
    <3>8. SerialInv' /\ CancelInv' /\ FailInv' /\ ClearsInv'
      BY <1>0, <2>1, <3>1, <3>4
      DEF Safe, SerialInv, CancelInv, FailInv, ClearsInv, cliVars, cmdVars
    <3> QED
      BY <3>5, <3>6, <3>7, <3>8 DEF Safe
  <2>3. CASE ~processing
    <3>1. /\ processing' = TRUE /\ current' = n /\ currentTask' = n /\ queue' = queue
          /\ task' = [task EXCEPT ![n] = "created"]
      BY <1>2, <2>3 DEF AddToTree, EnqueueAndStart
    <3>2. task'[n] = "created" /\ \A m \in Node \ {n} : task'[m] = task[m]
      BY <1>0, <3>1
    <3>3. /\ queue = <<>> /\ current = NoNode /\ InQueue = {} /\ InQueue' = {}
      BY <2>3, <3>1 DEF Safe, HandoverInv, InQueue, IdsIn
    <3>4. LiveTasks' = LiveTasks \cup {n}
      BY <1>0, <3>2 DEF LiveTasks, Live
    <3>5. IntakeInv'
      BY <2>1, <3>2, <3>3 DEF Safe, IntakeInv
    <3>6. QueueFresh' /\ NoPendingForgotten'
      BY <1>0, <2>1, <3>1, <3>2, <3>3 DEF Safe, QueueFresh, NoDup, NoPendingForgotten
    <3>7. HandoverInv'
      BY <3>1, <3>2 DEF HandoverInv, Live
    <3>8. SerialInv'
      <4>1. stops = 0 => LiveTasks = {}
        BY <3>3, TreeAssumption DEF Safe, SerialInv, LiveTasks
      <4> QED
        BY <2>1, <3>1, <3>4, <4>1 DEF Safe, SerialInv, cmdVars
    <3>9. CancelInv' /\ FailInv' /\ ClearsInv'
      BY <1>0, <2>1, <3>2, <3>4
      DEF Safe, CancelInv, FailInv, ClearsInv, cliVars, cmdVars
    <3> QED
      BY <3>5, <3>6, <3>7, <3>8, <3>9 DEF Safe
  <2> QED
    BY <2>2, <2>3
<1> QED
  BY <1>1, <1>2

\* A command fails the nodes of S, takes the ids of D out of the queue and,
\* when the node that runs is one of S, cancels its task.
LEMMA SafeFail ==
    ASSUME TypeOK, Safe, NEW S \in SUBSET nodes, NEW D \in SUBSET S,
           state' = SetState(S, "error"), queue' \in Without(queue, D),
           cancelling \subseteq cancelling', cancelling' \subseteq LiveTasks,
           current \in S /\ currentTask \in LiveTasks => currentTask \in cancelling',
           ClearsInv',
           UNCHANGED <<intakeVars, graphVars, processing, current, currentTask,
                       task, cliVars, stops>>
    PROVE  Safe'
<1>0. queue \in Seq(Node) /\ nodes \subseteq Node /\ InQueue \subseteq Node
  BY DEF TypeOK, InQueue, IdsIn
<1>1. /\ queue' \in Seq(Node) /\ InQueue' = InQueue \ D
      /\ NoDup(queue) => NoDup(queue')
  BY <1>0, WithoutFacts DEF InQueue, IdsIn
<1>2. /\ \A m \in S : state'[m] = "error"
      /\ \A m \in Node \ S : state'[m] = state[m]
  BY SetStateFacts
<1>3. LiveTasks' = LiveTasks
  BY DEF LiveTasks
<1>4. IntakeInv'
  BY <1>1, <1>2 DEF Safe, IntakeInv, intakeVars, graphVars
<1>5. QueueFresh'
  <2>1. NoDup(queue)'
    BY <1>1 DEF Safe, QueueFresh, NoDup
  <2> QED
    BY <1>0, <1>1, <1>2, <2>1 DEF Safe, QueueFresh
<1>6. NoPendingForgotten'
  BY <1>0, <1>1, <1>2 DEF Safe, NoPendingForgotten, graphVars
<1>7. HandoverInv'
  <2>1. queue = <<>> => queue' = <<>>
    <3> SUFFICES ASSUME queue = <<>>, Len(queue') # 0 PROVE FALSE
      BY <1>1
    <3>1. InQueue' = {}
      BY <1>1 DEF InQueue, IdsIn
    <3>2. Len(queue') \in Nat /\ DOMAIN queue' = 1 .. Len(queue')
      BY <1>1
    <3>3. 1 \in DOMAIN queue'
      BY <3>2
    <3> QED
      BY <3>1, <3>3 DEF InQueue, IdsIn
  <2> QED
    BY <2>1 DEF Safe, HandoverInv
<1>8. SerialInv' /\ CancelInv'
  BY <1>3 DEF Safe, SerialInv, CancelInv, graphVars
<1>9. FailInv'
  <2> SUFFICES ASSUME stops = 0, NEW m \in nodes, task[m] = "running"
               PROVE  /\ state'[m] # "pending"
                      /\ state'[m] = "error" /\ m \notin failed => m \in cancelling'
    BY DEF FailInv, graphVars, cliVars
  <2>1. m \in LiveTasks /\ current = m /\ currentTask = m
    BY <1>0, TreeAssumption DEF LiveTasks, Live, Safe, SerialInv, HandoverInv
  <2>2. /\ state[m] # "pending"
        /\ state[m] = "error" /\ m \notin failed => m \in cancelling
    BY DEF Safe, FailInv
  <2>3. CASE m \in S
    BY <1>2, <2>1, <2>3
  <2>4. CASE m \notin S
    BY <1>0, <1>2, <2>2, <2>4
  <2> QED
    BY <2>3, <2>4
<1> QED
  BY <1>4, <1>5, <1>6, <1>7, <1>8, <1>9 DEF Safe

\* The commands keep the invariant.
LEMMA SafeCommand ==
    ASSUME TypeOK, Safe, Command
    PROVE  Safe'
<1>1. ASSUME NEW n \in Node, CancelNode(n)
      PROVE  Safe'
  <2>1. /\ cancelling \subseteq cancelling' /\ cancelling' \subseteq LiveTasks
        /\ current \in {n} /\ currentTask \in LiveTasks => currentTask \in cancelling'
    BY <1>1 DEF CancelNode, CancelCurrentTask, Safe, CancelInv
  <2>2. ClearsInv'
    BY <1>1 DEF CancelNode, Safe, ClearsInv, cmdVars
  <2>3. {n} \in SUBSET nodes /\ {n} \in SUBSET {n}
    BY <1>1 DEF CancelNode, Known
  <2> QED
    BY <1>1, <2>1, <2>2, <2>3, SafeFail DEF CancelNode, cmdVars
<1>2. ASSUME NEW b \in Node, ClearBranch(b)
      PROVE  Safe'
  <2> DEFINE open == {n \in Descendants(b) : state[n] \notin Terminal}
  <2>1. open \in SUBSET nodes /\ open \ {current} \in SUBSET open
    BY DEF Descendants, Below
  <2>2. /\ cancelling \subseteq cancelling' /\ cancelling' \subseteq LiveTasks
        /\ current \in open /\ currentTask \in LiveTasks => currentTask \in cancelling'
    BY <1>2 DEF ClearBranch, CancelCurrentTask, Safe, CancelInv
  <2>3. ClearsInv'
    BY <1>2 DEF ClearBranch, Safe, ClearsInv
  <2>4. /\ queue' \in Without(queue, open \ {current}) /\ state' = SetState(open, "error")
        /\ UNCHANGED <<intakeVars, graphVars, processing, current, currentTask,
                       task, cliVars, stops>>
    BY <1>2 DEF ClearBranch
  <2> HIDE DEF open
  <2> QED
    BY <2>1, <2>2, <2>3, <2>4, SafeFail
<1>3. ASSUME NEW c \in clears, RemoveBranch(c) \/ RemoveTree(c)
      PROVE  Safe'
  <2>1. /\ nodes' \subseteq nodes /\ clears' \subseteq clears
        /\ UNCHANGED <<intakeVars, state, runVars, cancelling, cliVars, stops>>
        /\ stops # 0 \/ attached' = attached
    BY <1>3 DEF RemoveBranch, RemoveTree, Safe, ClearsInv
  <2>2. InQueue' = InQueue /\ LiveTasks' = LiveTasks
    BY <2>1 DEF InQueue, IdsIn, LiveTasks, runVars
  <2>3. IntakeInv' /\ QueueFresh'
    BY <2>1, <2>2 DEF Safe, IntakeInv, QueueFresh, NoDup, intakeVars, runVars
  <2>4. NoPendingForgotten' /\ HandoverInv'
    BY <2>1, <2>2 DEF Safe, NoPendingForgotten, HandoverInv, runVars
  <2>5. SerialInv' /\ CancelInv' /\ FailInv' /\ ClearsInv'
    BY <2>1, <2>2 DEF Safe, SerialInv, CancelInv, FailInv, ClearsInv, runVars, cliVars
  <2> QED
    BY <2>3, <2>4, <2>5 DEF Safe
<1>4. ASSUME CancelTree
      PROVE  Safe'
  <2> DEFINE S == {n \in nodes : state[n] \notin Terminal \/ n \in InQueue}
  <2>1. /\ queue' = <<>> /\ processing' = FALSE /\ current' = NoNode
        /\ state' = SetState(S, "error") /\ stops' # 0
        /\ UNCHANGED <<intakeVars, graphVars, currentTask, task, cliVars>>
        /\ cancelling' \subseteq LiveTasks
    BY <1>4 DEF CancelTree, CancelCurrentTask, TypeOK, Safe, CancelInv
  <2>2. InQueue' = {} /\ LiveTasks' = LiveTasks /\ NoDup(queue)'
    BY <2>1 DEF InQueue, IdsIn, LiveTasks, NoDup
  <2>3. /\ \A m \in Node \ nodes : state'[m] = state[m]
        /\ \A m \in nodes : state'[m] # "pending"
    <3>1. \A m \in nodes \ S : state[m] # "pending"
      BY DEF Terminal
    <3>2. nodes \subseteq Node /\ S \subseteq nodes
      BY DEF TypeOK
    <3> HIDE DEF S
    <3> QED
      BY <2>1, <3>1, <3>2, SetStateFacts
  <2>4. IntakeInv' /\ QueueFresh' /\ NoPendingForgotten'
    BY <2>1, <2>2, <2>3
    DEF Safe, IntakeInv, QueueFresh, NoPendingForgotten, intakeVars, graphVars
  <2>5. HandoverInv' /\ SerialInv' /\ CancelInv' /\ FailInv' /\ ClearsInv'
    BY <2>1, <2>2 DEF HandoverInv, SerialInv, CancelInv, FailInv, ClearsInv
  <2> QED
    BY <2>4, <2>5 DEF Safe
<1>5. ASSUME StopAll \/ ClearAll \/ \E c \in clears : ClearRoot(c)
      PROVE  Safe'
  BY <1>4, <1>5 DEF StopAll, ClearAll, ClearRoot
<1> QED
  BY <1>1, <1>2, <1>3, <1>5 DEF Command

LEMMA SafeInit == Init => Safe
<1> SUFFICES ASSUME Init
             PROVE  Safe
  OBVIOUS
<1>1. InQueue = {} /\ LiveTasks = {Root}
  BY TreeAssumption DEF Init, InQueue, IdsIn, LiveTasks, Live
<1> QED
  BY <1>1, TreeAssumption
  DEF Init, Safe, IntakeInv, QueueFresh, NoDup, NoPendingForgotten, HandoverInv,
      SerialInv, CancelInv, FailInv, ClearsInv, Live

LEMMA SafeStutter ==
    ASSUME Safe, UNCHANGED vars
    PROVE  Safe'
<1>1. InQueue' = InQueue /\ LiveTasks' = LiveTasks
  BY DEF vars, runVars, InQueue, IdsIn, LiveTasks
<1> QED
  BY <1>1
  DEF vars, intakeVars, graphVars, runVars, cliVars, cmdVars, Safe, IntakeInv, QueueFresh,
      NoDup, NoPendingForgotten, HandoverInv, SerialInv, CancelInv, FailInv, ClearsInv

LEMMA SafeStep == TypeOK /\ Safe /\ [Next]_vars => Safe'
BY SafeIntake, SafeTaskStep, SafeCliStep, SafeCommand, SafeStutter DEF Next

\* The strengthened invariant is inductive: it holds of every reachable state of
\* a tree of any size.
THEOREM Inductive == Spec => []IInv
<1>1. Init => IInv
  BY TypeInit, SafeInit DEF IInv
<1>2. IInv /\ [Next]_vars => IInv'
  BY TypeStep, SafeStep DEF IInv
<1> QED
  BY <1>1, <1>2, PTL DEF Spec

\* However often messages are stopped, cleared and resent, an id waits in one
\* place only and no id waits that has a task: no message runs twice.
THEOREM QueueFreshCorrect == Spec => []QueueFresh
<1>1. IInv => QueueFresh
  BY DEF IInv, Safe
<1> QED
  BY <1>1, Inductive, PTL

\* No pending message of the tree is ever left out of the queue.
THEOREM NoPendingForgottenCorrect == Spec => []NoPendingForgotten
<1>1. IInv => NoPendingForgotten
  BY DEF IInv, Safe
<1> QED
  BY <1>1, Inductive, PTL

\* Until cancel_tree is used, one task at a time, that of the current node.
THEOREM SerialCorrect == Spec => []SerialUntilStopped
<1>1. IInv => SerialUntilStopped
  BY DEF IInv, Safe, SerialInv, SerialUntilStopped
<1> QED
  BY <1>1, Inductive, PTL

\* Waiting ids have a task that will take them, unless a task was aborted.
THEOREM NotWedgedCorrect == Spec => []NotWedgedUnlessAborted
<1>1. IInv => NotWedgedUnlessAborted
  <2> SUFFICES ASSUME IInv, queue # <<>>, Aborted = {}
               PROVE  LiveTasks # {}
    BY DEF NotWedgedUnlessAborted
  <2>1. currentTask \in Node /\ task[currentTask] \in Live \cup {"aborted"}
    BY DEF IInv, Safe, HandoverInv
  <2> QED
    BY <2>1 DEF Aborted, LiveTasks
<1> QED
  BY <1>1, Inductive, PTL

-----------------------------------------------------------------------------
(* What a step may never do *)

\* Which steps change the tasks, and how.
LEMMA TaskChanges ==
    ASSUME TypeOK, Next, NEW n \in Node, task'[n] # task[n]
    PROVE  \/ AddToTree(n) /\ ~processing /\ task'[n] = "created"
           \/ TaskStart(n)
           \/ task'[n] \in {"done", "aborted", "closing"}
           \/ /\ task'[n] = "created"
              /\ \E i \in DOMAIN queue :
                    queue[i] = n /\ \A j \in 1 .. (i - 1) : queue[j] \notin nodes
<1>0. task \in [Node -> TaskState]
  BY DEF TypeOK
<1>1. ASSUME NEW m \in Node, TaskSkip(m) \/ TaskFinish(m)
      PROVE  \/ task'[n] = "done"
             \/ /\ task'[n] = "created"
                /\ \E i \in DOMAIN queue :
                      queue[i] = n /\ \A j \in 1 .. (i - 1) : queue[j] \notin nodes
  <2> DEFINE t == [task EXCEPT ![m] = "done"]
  <2>1. ProcessNext(t)
    BY <1>1 DEF TaskSkip, TaskFinish
  <2>2. t \in [Node -> TaskState] /\ (t[n] = task[n] \/ t[n] = "done")
    BY <1>0 DEF TaskState
  <2> HIDE DEF t
  <2>3. CASE task' = t
    BY <2>2, <2>3
  <2>4. ASSUME NEW i \in DOMAIN queue, task' = [t EXCEPT ![queue[i]] = "created"],
               \A j \in 1 .. (i - 1) : queue[j] \notin nodes
        PROVE  \/ task'[n] = "done"
               \/ /\ task'[n] = "created"
                  /\ \E k \in DOMAIN queue :
                        queue[k] = n /\ \A j \in 1 .. (k - 1) : queue[j] \notin nodes
    BY <2>2, <2>4
  <2> QED
    BY <2>1, <2>3, <2>4 DEF ProcessNext
<1>2. ASSUME NEW m \in Node, Intake(m)
      PROVE  AddToTree(n) /\ ~processing /\ task'[n] = "created"
  BY <1>0, <1>2
  DEF Intake, ResolveReply, AddToTree, AddToTreeFails, EnqueueAndStart, runVars
<1>3. ASSUME NEW m \in Node, TaskAborted(m) \/ RunnerCancelled(m) \/ CliStep(m)
      PROVE  task'[n] \in {"aborted", "closing"}
  BY <1>0, <1>3
  DEF TaskAborted, RunnerCancelled, CliStep, CliExit, SessionInfo, ErrorEvent, ExitOk,
      ExitFailed, RunnerRaises, runVars
<1>4. ASSUME NEW m \in Node, TaskStart(m)
      PROVE  TaskStart(n)
  BY <1>0, <1>4 DEF TaskStart
<1>5. ~Command
  BY DEF Command, CancelNode, ClearBranch, RemoveBranch, RemoveTree, ClearRoot, StopAll,
         ClearAll, CancelTree, runVars
<1> QED
  BY <1>1, <1>2, <1>3, <1>4, <1>5 DEF Next, TaskStep

LEMMA StartsInOrderStep ==
    ASSUME IInv, [Next]_vars,
           NEW n \in Node, task[n] = "none", task'[n] = "created",
           NEW i \in DOMAIN queue, queue[i] \in nodes, queue[i] # n
    PROVE  \E j \in DOMAIN queue : j < i /\ queue[j] = n
<1>0. DOMAIN queue = 1 .. Len(queue) /\ Len(queue) \in Nat
  BY DEF IInv, TypeOK
<1>1. Next
  BY DEF vars, runVars
<1>2. ~TaskStart(n)
  BY DEF TaskStart
<1>3. processing
  BY DEF IInv, Safe, HandoverInv
<1>4. PICK k \in DOMAIN queue :
         queue[k] = n /\ \A j \in 1 .. (k - 1) : queue[j] \notin nodes
  BY <1>1, <1>2, <1>3, TaskChanges DEF IInv
<1>5. k < i
  BY <1>0, <1>4
<1> QED
  BY <1>4, <1>5

\* First come, first served, also for a message that starts on arrival.
THEOREM StartsInOrderCorrect == Spec => StartsInOrder
<1>1. IInv /\ [Next]_vars =>
         [\A n \in Node : task[n] = "none" /\ task'[n] = "created" =>
             \A i \in DOMAIN queue : queue[i] \in nodes /\ queue[i] # n =>
                \E j \in DOMAIN queue : j < i /\ queue[j] = n]_vars
  BY StartsInOrderStep
<1> QED
  BY <1>1, Inductive, PTL DEF Spec, StartsInOrder

LEMMA StoppedStaysFailedStep ==
    ASSUME IInv, [Next]_vars,
           NEW n \in Node, stops = 0, state[n] = "error", n \notin failed
    PROVE  state'[n] = "error"
<1>0. state \in [Node -> MessageState] /\ TypeOK
  BY DEF IInv, TypeOK
\* A CLI that is still read is not that of a failed node of the tree.
<1>1. n \in nodes => ~Consuming(n)
  BY DEF IInv, Safe, FailInv, Consuming
<1>2. ASSUME NEW S
      PROVE  SetState(S, "error")[n] = "error"
  BY DEF SetState
<1>3. ASSUME NEW m \in Node, SessionInfo(m)
      PROVE  state'[n] = "error"
  BY <1>1, <1>3 DEF SessionInfo, SetState
<1>4. ASSUME NEW m \in Node, CliExit(m)
      PROVE  state'[n] = "error"
  <2>1. m # n \/ n \notin nodes
    BY <1>1, <1>4 DEF CliExit, ExitOk, ExitFailed, RunnerRaises
  <2>2. ASSUME NEW s, s \in [Node -> MessageState]
        PROVE  Complete(m, s)[n] = s[n]
    BY <2>1, <2>2 DEF Complete
  <2>3. SetState(FailedWith(m), "error") \in [Node -> MessageState]
    BY <1>0, SetStateType DEF MessageState
  <2> QED
    BY <1>0, <1>2, <1>4, <2>2, <2>3 DEF CliExit, ExitOk, ExitFailed, RunnerRaises
<1>5. ASSUME NEW m \in Node, Intake(m)
      PROVE  state'[n] = "error"
  BY <1>5 DEF Intake, ResolveReply, AddToTree, AddToTreeFails
<1>6. ASSUME NEW m \in Node, TaskStep(m)
      PROVE  state'[n] = "error"
  BY <1>2, <1>6
  DEF TaskStep, TaskSkip, TaskStart, TaskAborted, RunnerCancelled, TaskFinish, SetState
<1>7. ASSUME NEW m \in Node, ErrorEvent(m)
      PROVE  state'[n] = "error"
  BY <1>2, <1>7 DEF ErrorEvent
<1>8. ASSUME Command
      PROVE  state'[n] = "error"
  BY <1>2, <1>8
  DEF Command, CancelNode, ClearBranch, RemoveBranch, RemoveTree, ClearRoot, StopAll,
      ClearAll, CancelTree
<1>9. CASE UNCHANGED vars
  BY <1>9 DEF vars
<1> QED
  BY <1>3, <1>4, <1>5, <1>6, <1>7, <1>8, <1>9 DEF Next, CliStep

\* No late event of the CLI revives a node that a command or a parent failed.
THEOREM StoppedStaysFailedCorrect == Spec => StoppedStaysFailed
<1>1. IInv /\ [Next]_vars =>
         [\A n \in Node : stops = 0 /\ state[n] = "error" /\ n \notin failed =>
             state'[n] = "error"]_vars
  BY StoppedStaysFailedStep
<1> QED
  BY <1>1, Inductive, PTL DEF Spec, StoppedStaysFailed

=============================================================================
