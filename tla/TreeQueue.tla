------------------------------ MODULE TreeQueue ------------------------------
(***************************************************************************)
(* One conversation tree of the messaging bot (src/messaging/trees) and    *)
(* the asyncio tasks that run its nodes (src/messaging/node_runner.py).    *)
(*                                                                         *)
(* A chat message that replies to a known message becomes a node of that   *)
(* message's tree.  The tree runs its nodes one after the other: a node    *)
(* that arrives while the tree is busy waits in a FIFO queue, and the task *)
(* of a node, when it ends, starts the next one.  /stop and /clear cancel  *)
(* the running task and fail the waiting nodes.                            *)
(*                                                                         *)
(* asyncio is cooperative: a step below is everything a coroutine does     *)
(* between two points where it really suspends.  No coroutine suspends     *)
(* while it holds the lock of the tree, so the lock itself is not state.   *)
(***************************************************************************)
EXTENDS Naturals, Sequences, FiniteSets

CONSTANTS
    Node,          \* message ids
    Root,          \* the message that opened the conversation
    NoNode,        \* None
    MaxStops,      \* bound on the number of tree-wide cancellations
    MaxClears,     \* bound on the /clear commands under way at once
    DrainTimeout   \* may the 5 s wait for a cancelled task run out?

ASSUME TreeAssumption ==
    /\ Root \in Node
    /\ NoNode \notin Node
    /\ MaxStops \in Nat /\ MaxClears \in Nat
    /\ DrainTimeout \in BOOLEAN

VARIABLES
    \* turn intake
    intake,        \* per message: is its handler before, in or past the status send
    \* the graph and the repository's index of it
    nodes,         \* ids in MessageTreeGraph._nodes
    attached,      \* does the repository (still) know the tree
    parent,        \* MessageNode.parent_id
    state,         \* MessageNode.state
    \* MessageTree
    queue,         \* _queue, the ids that wait
    processing,    \* _is_processing
    current,       \* _current_node_id
    currentTask,   \* _current_task, named by the node it runs
    \* the tasks
    task,          \* per node: where its process_node task is
    cancelling,    \* tasks that cancel() was called on and that have not seen it
    bound,         \* runners that found their tree when they started
    captured,      \* runners that hold a real CLI session id
    failed,        \* runners whose CLI reported an error (history)
    \* commands
    clears,        \* /clear commands between two of their awaits
    stops          \* tree-wide cancellations so far (history, bounds the model)

intakeVars == <<intake, parent>>
graphVars  == <<nodes, attached>>
runVars    == <<queue, processing, current, currentTask, task>>
cliVars    == <<bound, captured, failed>>
cmdVars    == <<clears, stops>>
vars == <<intakeVars, graphVars, state, runVars, cancelling, cliVars, cmdVars>>

MessageState == {"pending", "in_progress", "completed", "error"}
Terminal     == {"completed", "error"}

\* "aborted" is a task cancelled before its first step: asyncio throws into a
\* coroutine that has not begun, so not even its finally clause runs.
TaskState == {"none", "created", "running", "closing", "done", "aborted"}
Live      == {"created", "running", "closing"}

Clear == [branch : Node, phase : {"branch", "tree"}, drains : Node \cup {NoNode}]

-----------------------------------------------------------------------------
(* Helpers *)

\* The ids in a queue, and whether each is there once.
IdsIn(q) == {q[i] : i \in DOMAIN q}
NoDup(q) == \A i, j \in DOMAIN q : q[i] = q[j] => i = j

InQueue == IdsIn(queue)

\* The subsequences of q that drop exactly the ids of S and keep the order of
\* the others: for a q without duplicates there is one, SelectSeq(q, \notin S).
Without(q, S) ==
    {r \in UNION {[1 .. k -> Node] : k \in 0 .. Len(q)} :
        /\ IdsIn(r) = IdsIn(q) \ S
        /\ \A i, j \in DOMAIN r : i < j =>
              \E a, b \in DOMAIN q : a < b /\ q[a] = r[i] /\ q[b] = r[j]}

\* The nodes of C that a walk over children, never leaving C, reaches from b.
Below(b, C) ==
    {n \in C : \A S \in SUBSET C :
        (\A m \in C : parent[m] \in S \cup {b} => m \in S) => n \in S}

Descendants(b) == ({b} \cap nodes) \cup Below(b, nodes)

PendingChildren(b) == Below(b, {n \in nodes : state[n] = "pending"})

Known(n) == attached /\ n \in nodes

LiveTasks == {n \in Node : task[n] \in Live}

\* The nodes that become ERROR when the failure of n is propagated.
FailedWith(n) == IF Known(n) THEN {n} \cup PendingChildren(n) ELSE {}

\* A state update of a node that left the graph is dropped.
SetState(S, s) == [n \in Node |-> IF n \in S \cap nodes THEN s ELSE state[n]]

\* _drain_cancelled_tasks waits for t, if there is one, but not for ever.
DrainOver(t) == t \in LiveTasks => DrainTimeout

-----------------------------------------------------------------------------
Init ==
    /\ intake = [n \in Node |-> IF n = Root THEN "attached" ELSE "new"]
    /\ parent = [n \in Node |-> NoNode]
    /\ nodes = {Root} /\ attached = TRUE
    /\ state = [n \in Node |-> "pending"]
    /\ queue = <<>> /\ processing = TRUE
    /\ current = Root /\ currentTask = Root
    /\ task = [n \in Node |-> IF n = Root THEN "created" ELSE "none"]
    /\ cancelling = {} /\ bound = {} /\ captured = {} /\ failed = {}
    /\ clears = {} /\ stops = 0

-----------------------------------------------------------------------------
(* Turn intake: a reply is resolved to its parent, then its status message  *)
(* is sent, which suspends, and only then is it added and enqueued.         *)

ResolveReply(n, p) ==
    /\ intake[n] = "new" /\ Known(p)
    /\ intake' = [intake EXCEPT ![n] = "sending"]
    /\ parent' = [parent EXCEPT ![n] = p]
    /\ UNCHANGED <<graphVars, state, runVars, cancelling, cliVars, cmdVars>>

\* Seeded fault: the busy flag is not looked at.
EnqueueAlwaysStarts(n) ==
    /\ processing' = TRUE /\ current' = n /\ currentTask' = n
    /\ task' = [task EXCEPT ![n] = "created"]
    /\ UNCHANGED queue

EnqueueAndStart(n) ==
    \/ /\ processing
       /\ queue' = Append(queue, n)
       /\ UNCHANGED <<processing, current, currentTask, task>>
    \/ /\ ~processing
       /\ processing' = TRUE /\ current' = n /\ currentTask' = n
       /\ task' = [task EXCEPT ![n] = "created"]
       /\ UNCHANGED queue

AddToTree(n) ==
    /\ intake[n] = "sending" /\ Known(parent[n])
    /\ intake' = [intake EXCEPT ![n] = "attached"]
    /\ nodes' = nodes \cup {n}
    /\ EnqueueAndStart(n)
    /\ UNCHANGED <<parent, attached, state, cancelling, cliVars, cmdVars>>

\* The parent was cleared while the status was sent: add_to_tree raises.
AddToTreeFails(n) ==
    /\ intake[n] = "sending" /\ ~Known(parent[n])
    /\ intake' = [intake EXCEPT ![n] = "lost"]
    /\ UNCHANGED <<parent, graphVars, state, runVars, cancelling, cliVars, cmdVars>>

-----------------------------------------------------------------------------
(* The tasks *)

\* Seeded fault: an id whose node left the graph ends the loop over the queue.
ProcessNextStopsAtStale(t) ==
    \/ /\ \A i \in DOMAIN queue : i = 1 => queue[i] \notin nodes
       /\ queue' = <<>> /\ processing' = FALSE /\ current' = NoNode
       /\ task' = t
       /\ UNCHANGED currentTask
    \/ /\ queue # <<>> /\ Head(queue) \in nodes
       /\ queue' = Tail(queue)
       /\ processing' = TRUE /\ current' = Head(queue) /\ currentTask' = Head(queue)
       /\ task' = [t EXCEPT ![Head(queue)] = "created"]

\* Seeded fault: the queue is served from its end.
ProcessNextFromEnd(t) ==
    \/ /\ InQueue \cap nodes = {}
       /\ queue' = <<>> /\ processing' = FALSE /\ current' = NoNode
       /\ task' = t
       /\ UNCHANGED currentTask
    \/ \E i \in DOMAIN queue :
       /\ queue[i] \in nodes
       /\ \A j \in (i + 1) .. Len(queue) : queue[j] \notin nodes
       /\ queue' = SubSeq(queue, 1, i - 1)
       /\ processing' = TRUE /\ current' = queue[i] /\ currentTask' = queue[i]
       /\ task' = [t EXCEPT ![queue[i]] = "created"]

\* _process_next, at the end of a task; t is the task function with that
\* task ended.  Ids whose node left the graph are skipped.
ProcessNext(t) ==
    \/ /\ InQueue \cap nodes = {}
       /\ queue' = <<>> /\ processing' = FALSE /\ current' = NoNode
       /\ task' = t
       /\ UNCHANGED currentTask
    \/ \E i \in DOMAIN queue :
       /\ queue[i] \in nodes
       /\ \A j \in 1 .. (i - 1) : queue[j] \notin nodes
       /\ queue' = SubSeq(queue, i + 1, Len(queue))
       /\ processing' = TRUE /\ current' = queue[i] /\ currentTask' = queue[i]
       /\ task' = [t EXCEPT ![queue[i]] = "created"]

\* Seeded fault: a skipped node does not hand over to the next one.
TaskSkipStops(n) ==
    /\ task[n] = "created" /\ n \notin cancelling /\ state[n] = "error"
    /\ task' = [task EXCEPT ![n] = "done"]
    /\ UNCHANGED <<intakeVars, graphVars, state, queue, processing, current,
                   currentTask, cancelling, cliVars, cmdVars>>

\* First step of a task whose node failed while it waited: skip the node.
TaskSkip(n) ==
    /\ task[n] = "created" /\ n \notin cancelling /\ state[n] = "error"
    /\ ProcessNext([task EXCEPT ![n] = "done"])
    /\ UNCHANGED <<intakeVars, graphVars, state, cancelling, cliVars, cmdVars>>

\* First step of any other task: the runner looks its tree up and opens a CLI.
TaskStart(n) ==
    /\ task[n] = "created" /\ n \notin cancelling /\ state[n] # "error"
    /\ task' = [task EXCEPT ![n] = "running"]
    /\ bound' = IF Known(n) THEN bound \cup {n} ELSE bound
    /\ state' = IF Known(n) THEN SetState({n}, "in_progress") ELSE state
    /\ UNCHANGED <<intakeVars, graphVars, queue, processing, current, currentTask,
                   cancelling, captured, failed, cmdVars>>

\* A task cancelled before its first step ends there and then.
TaskAborted(n) ==
    /\ task[n] = "created" /\ n \in cancelling
    /\ task' = [task EXCEPT ![n] = "aborted"]
    /\ cancelling' = cancelling \ {n}
    /\ UNCHANGED <<intakeVars, graphVars, state, queue, processing, current,
                   currentTask, cliVars, cmdVars>>

Consuming(n) == task[n] = "running" /\ n \notin cancelling

\* session_info: the temporary session id becomes a real one, once.
SessionInfo(n) ==
    /\ Consuming(n) /\ n \notin captured
    /\ captured' = captured \cup {n}
    /\ state' = IF n \in bound THEN SetState({n}, "in_progress") ELSE state
    /\ UNCHANGED <<intakeVars, graphVars, runVars, cancelling, bound, failed, cmdVars>>

\* An error event, from a stdout line or from fatal stderr text.
ErrorEvent(n) ==
    /\ Consuming(n)
    /\ failed' = failed \cup {n}
    /\ state' = IF n \in bound THEN SetState(FailedWith(n), "error") ELSE state
    /\ UNCHANGED <<intakeVars, graphVars, runVars, cancelling, bound, captured, cmdVars>>

\* What "complete" does to state function s: nothing unless a session is known.
Complete(n, s) ==
    IF n \in bound \cap captured \cap nodes THEN [s EXCEPT ![n] = "completed"] ELSE s

\* The CLI exits with code 0: complete.
ExitOk(n) ==
    /\ Consuming(n)
    /\ state' = Complete(n, state)
    /\ task' = [task EXCEPT ![n] = "closing"]
    /\ UNCHANGED <<intakeVars, graphVars, queue, processing, current, currentTask,
                   cancelling, cliVars, cmdVars>>

\* It exits with another code: the parser yields error, then complete.
ExitFailed(n) ==
    /\ Consuming(n)
    /\ failed' = failed \cup {n}
    /\ state' = Complete(n, IF n \in bound THEN SetState(FailedWith(n), "error")
                            ELSE state)
    /\ task' = [task EXCEPT ![n] = "closing"]
    /\ UNCHANGED <<intakeVars, graphVars, queue, processing, current, currentTask,
                   cancelling, bound, captured, cmdVars>>

\* The CLI cannot be started, or consuming it raises.
RunnerRaises(n) ==
    /\ Consuming(n)
    /\ state' = IF n \in bound THEN SetState(FailedWith(n), "error") ELSE state
    /\ task' = [task EXCEPT ![n] = "closing"]
    /\ UNCHANGED <<intakeVars, graphVars, queue, processing, current, currentTask,
                   cancelling, cliVars, cmdVars>>

\* A running task sees its cancellation: it stops the CLI and fails the node.
RunnerCancelled(n) ==
    /\ task[n] = "running" /\ n \in cancelling
    /\ state' = IF n \in bound THEN SetState({n}, "error") ELSE state
    /\ task' = [task EXCEPT ![n] = "closing"]
    /\ cancelling' = cancelling \ {n}
    /\ UNCHANGED <<intakeVars, graphVars, queue, processing, current, currentTask,
                   cliVars, cmdVars>>

\* The session is removed (or that is cancelled); the finally clause of the
\* processor clears the current node and starts the next one.
TaskFinish(n) ==
    /\ task[n] = "closing"
    /\ cancelling' = cancelling \ {n}
    /\ bound' = bound \ {n} /\ captured' = captured \ {n} /\ failed' = failed \ {n}
    /\ ProcessNext([task EXCEPT ![n] = "done"])
    /\ UNCHANGED <<intakeVars, graphVars, state, cmdVars>>

-----------------------------------------------------------------------------
(* Commands.  The cancelling part of each runs without suspending; the wait *)
(* for the cancelled task, and message deletion, come after it.             *)

\* Seeded fault: the node is failed but its task is left running.
CancelNothing == UNCHANGED cancelling

CancelCurrentTask ==
    cancelling' = IF currentTask \in LiveTasks THEN cancelling \cup {currentTask}
                  ELSE cancelling

\* /stop in reply to a message
CancelNode(n) ==
    /\ Known(n) /\ state[n] \notin Terminal
    /\ IF current = n THEN CancelCurrentTask ELSE UNCHANGED cancelling
    /\ queue' \in Without(queue, {n})
    /\ state' = SetState({n}, "error")
    /\ UNCHANGED <<intakeVars, graphVars, processing, current, currentTask, task,
                   cliVars, cmdVars>>

\* /clear in reply to a message, first part: cancel_branch
ClearBranch(b) ==
    LET open == {n \in Descendants(b) : state[n] \notin Terminal}
        hit  == current \in open
    IN  /\ Known(b) /\ Cardinality(clears) < MaxClears
        /\ IF hit THEN CancelCurrentTask ELSE UNCHANGED cancelling
        /\ queue' \in Without(queue, open \ {current})
        /\ state' = SetState(open, "error")
        /\ clears' = clears \cup {[branch |-> b, phase |-> "branch",
                        drains |-> IF hit /\ currentTask \in LiveTasks
                                   THEN currentTask ELSE NoNode]}
        /\ UNCHANGED <<intakeVars, graphVars, processing, current, currentTask,
                       task, cliVars, stops>>

\* ... second part, after the drain and the deletion of the messages.  The
\* branch is read again, and the queue is left as it is.
RemoveBranch(c) ==
    /\ c \in clears /\ c.phase = "branch" /\ DrainOver(c.drains)
    /\ c.branch # Root \/ ~attached
    /\ nodes' = IF Known(c.branch) THEN nodes \ Descendants(c.branch) ELSE nodes
    /\ clears' = clears \ {c}
    /\ UNCHANGED <<intakeVars, attached, state, runVars, cancelling, cliVars, stops>>

\* cancel_tree up to its drain
CancelTree ==
    /\ attached /\ stops < MaxStops
    /\ stops' = stops + 1
    /\ CancelCurrentTask
    /\ state' = SetState({n \in nodes : state[n] \notin Terminal \/ n \in InQueue},
                         "error")
    /\ queue' = <<>> /\ processing' = FALSE /\ current' = NoNode
    /\ UNCHANGED <<intakeVars, graphVars, currentTask, task, cliVars>>

ClearOfTree == [branch |-> Root, phase |-> "tree",
                drains |-> IF currentTask \in LiveTasks THEN currentTask ELSE NoNode]

\* /stop for everything
StopAll == CancelTree /\ UNCHANGED clears

\* /clear for everything, or the second part of a /clear of the root
ClearAll ==
    /\ CancelTree /\ Cardinality(clears) < MaxClears
    /\ clears' = clears \cup {ClearOfTree}

ClearRoot(c) ==
    /\ c \in clears /\ c.phase = "branch" /\ c.branch = Root /\ DrainOver(c.drains)
    /\ CancelTree
    /\ clears' = (clears \ {c}) \cup {ClearOfTree}

\* remove_tree, or the replacement of the whole manager
RemoveTree(c) ==
    /\ c \in clears /\ c.phase = "tree" /\ DrainOver(c.drains)
    /\ attached' = FALSE
    /\ clears' = clears \ {c}
    /\ UNCHANGED <<intakeVars, nodes, state, runVars, cancelling, cliVars, stops>>

-----------------------------------------------------------------------------
Intake(n) ==
    \/ \E p \in Node : ResolveReply(n, p)
    \/ AddToTree(n)
    \/ AddToTreeFails(n)

\* The steps of n's task that do not wait for the CLI to say something.
TaskStep(n) ==
    \/ TaskSkip(n)
    \/ TaskStart(n)
    \/ TaskAborted(n)
    \/ RunnerCancelled(n)
    \/ TaskFinish(n)

CliExit(n) == ExitOk(n) \/ ExitFailed(n) \/ RunnerRaises(n)

CliStep(n) == SessionInfo(n) \/ ErrorEvent(n) \/ CliExit(n)

Command ==
    \/ \E n \in Node : CancelNode(n) \/ ClearBranch(n)
    \/ \E c \in clears : RemoveBranch(c) \/ ClearRoot(c) \/ RemoveTree(c)
    \/ StopAll
    \/ ClearAll

Next == (\E n \in Node : Intake(n) \/ TaskStep(n) \/ CliStep(n)) \/ Command

Spec == Init /\ [][Next]_vars

\* The event loop runs every task that is ready, and every CLI ends: nothing
\* in the code bounds how long one runs, so this is asked of the CLI.
Fairness ==
    \A n \in Node : WF_vars(TaskStep(n)) /\ WF_vars(CliExit(n))

FairSpec == Spec /\ Fairness
-----------------------------------------------------------------------------
(* Properties *)

\* Every variable has its type.
TypeOK ==
    /\ intake \in [Node -> {"new", "sending", "attached", "lost"}]
    /\ parent \in [Node -> Node \cup {NoNode}]
    /\ nodes \subseteq Node /\ attached \in BOOLEAN
    /\ state \in [Node -> MessageState]
    /\ queue \in Seq(Node) /\ processing \in BOOLEAN
    /\ current \in Node \cup {NoNode} /\ currentTask \in Node \cup {NoNode}
    /\ task \in [Node -> TaskState]
    /\ cancelling \subseteq Node
    /\ bound \subseteq Node /\ captured \subseteq Node /\ failed \subseteq Node
    /\ clears \subseteq Clear /\ stops \in Nat

Aborted   == {n \in Node : task[n] = "aborted"}

\* A message runs at most once: an id waits in one place of the queue only, and
\* a waiting id has no task yet and has neither run nor been completed.
QueueFresh ==
    /\ NoDup(queue)
    /\ \A n \in InQueue : task[n] = "none" /\ state[n] \in {"pending", "error"}

\* No message is forgotten: a node of the tree that is still pending and has no
\* task waits in the queue, whatever was stopped, removed or skipped around it.
NoPendingForgotten ==
    \A n \in nodes : state[n] = "pending" /\ task[n] = "none" => n \in InQueue

\* One ordered conversation: until cancel_tree is used, the only task that runs
\* is the one of the current node, so nothing runs beside it and /stop reaches it.
SerialUntilStopped == stops = 0 => \A n \in LiveTasks : current = n

\* The queue is not wedged: if ids wait, a task is there that will take them,
\* unless some task was cancelled before its first step.
NotWedgedUnlessAborted == queue # <<>> /\ Aborted = {} => LiveTasks # {}

\* First come, first served: a node gets its task only when every waiting node
\* that arrived before it has left the tree, also when it starts on arrival.
StartsInOrder ==
    [][\A n \in Node : task[n] = "none" /\ task'[n] = "created" =>
          \A i \in DOMAIN queue : queue[i] \in nodes /\ queue[i] # n =>
             \E j \in DOMAIN queue : j < i /\ queue[j] = n]_vars

\* A stopped node stays failed: until cancel_tree is used, no late event of the
\* CLI revives a node that was failed by anything but an error of its own CLI.
StoppedStaysFailed ==
    [][\A n \in Node : stops = 0 /\ state[n] = "error" /\ n \notin failed =>
          state'[n] = "error"]_vars

\* Every waiting id leaves the queue, as long as CLIs end and no task was
\* cancelled before its first step.
QueueDrains ==
    \A n \in Node : n \in InQueue ~> (n \notin InQueue \/ Aborted # {})

-----------------------------------------------------------------------------
(* What the source says of the tree, and the code does not do *)

\* "If the tree is not busy, processing starts immediately. If busy, the message
\* is queued": one task at a time.
OneTaskAtATime == \A m, n \in LiveTasks : m = n

\* cancel_node cancels "a single node [...] without affecting other nodes": the
\* ids behind it still have a task that will take them.
NotWedged == queue # <<>> => LiveTasks # {}

\* "Non-zero exit is an error": a node of the tree whose CLI failed has failed.
FailedExitIsError == \A n \in failed \cap nodes : state[n] # "completed"
=============================================================================
