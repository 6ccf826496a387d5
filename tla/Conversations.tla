---------------------------- MODULE Conversations ----------------------------
(***************************************************************************)
(* Which messages the program knows, and where: the intake of prompts      *)
(* (src/messaging/turn_intake.py), the trees and the index of their ids    *)
(* (messaging/trees/repository.py, graph.py, snapshot.py), the session     *)
(* store with its message log (messaging/session/), /clear                 *)
(* (messaging/commands.py), and the restart from the store                 *)
(* (src/api/runtime.py).  The order in which a tree's messages run, and    *)
(* their states, are in TreeQueue; the timers of the store and which of    *)
(* them claims a write in SessionPersistence: here any thread may write,   *)
(* and does so in two steps.                                               *)
(*                                                                         *)
(* Steps are what asyncio runs between two awaits that really wait: no     *)
(* lock of a tree or of the manager is ever held across one.  A message    *)
(* is named by the prompt; its id and that of the status message that      *)
(* answers it are the pairs <<"prompt", m>> and <<"status", m>>.  A task   *)
(* that is cancelled ends before the drain of cancelled tasks times out.   *)
(***************************************************************************)
EXTENDS Naturals, FiniteSets

CONSTANTS
    Msg,            \* prompts, in the order of their ids
    NoMsg,
    Saver,         \* threads of the store's timers that may be writing at a time
    MaxClears,      \* bound: /clear commands
    MaxShutdowns    \* bound: shutdowns, each with a restart

ASSUME ChatAssumption == Msg \subseteq Nat /\ NoMsg \notin Msg

VARIABLES
    intake,         \* of each prompt: "new", "sending", "shown", "admitted", "refused"
    parentOf,       \* the node it replies to, as resolved when it came, or NoMsg
    rootOf,         \* the root of the tree it was added to
    inGraph,        \* nodes in the graphs of their trees
    tasks,          \* nodes that wait for their turn or run
    trees,          \* TreeRepository._trees, by their roots
    lookup,         \* TreeRepository._node_to_tree, the ids that have an entry
    stored,         \* the store: the nodes of each tree, {} for none
    msgLog,         \* MessageLog
    disk,           \* what the store's file holds of the two
    writing,        \* of each thread: "no", "fresh" with a snapshot to write, or "late"
                    \* when clear_all or the flush has written since it was taken
    snapshot,       \* what it took
    outdated,       \* history: the file is not what clear_all or the flush last wrote,
                    \* nor newer: a late thread replaced it, or that write failed
    clear,          \* the /clear under way
    clears, shutdowns, shuttingDown,
    shaken,         \* history: prompts that a clear or a shutdown overlapped
    erased          \* history: nodes that a completed /clear covered

chatVars == <<intake, parentOf, rootOf, inGraph, tasks, trees, lookup, stored, msgLog,
              disk, writing, snapshot, outdated, clear, clears, shutdowns, shuttingDown,
              shaken, erased>>
savedVars == <<disk, writing, snapshot, outdated>>
treeVars  == <<rootOf, inGraph, trees, lookup>>
quietVars == <<clears, shutdowns, shuttingDown, erased>>

Ids(S) == {"prompt", "status"} \X S
NoClear == [at |-> "none", of |-> NoMsg, nodes |-> {}]
EmptyStore == [stored |-> [m \in Msg |-> {}], msgLog |-> {}]

ChatInit ==
    /\ intake = [m \in Msg |-> "new"] /\ parentOf = [m \in Msg |-> NoMsg]
    /\ rootOf = [m \in Msg |-> NoMsg]
    /\ inGraph = {} /\ tasks = {} /\ trees = {} /\ lookup = {}
    /\ stored = [m \in Msg |-> {}] /\ msgLog = {} /\ disk = EmptyStore /\ outdated = FALSE
    /\ writing = [w \in Saver |-> "no"] /\ snapshot = [w \in Saver |-> EmptyStore]
    /\ clear = NoClear /\ clears = 0 /\ shutdowns = 0 /\ shuttingDown = FALSE
    /\ shaken = {} /\ erased = {}

\* get_tree_for_node, and resolve_parent_node_id.
Resolves(id) == id \in lookup /\ rootOf[id[2]] \in trees /\ id[2] \in inGraph

TreeOf(r) == {m \in inGraph : rootOf[m] = r}

\* get_descendants: m, what replies to it, what replies to that, and so on.
WithReplies(S) == \A k \in Msg : parentOf[k] \in S => k \in S
Thread(m) == {k \in Msg : \A S \in SUBSET Msg : m \in S /\ WithReplies(S) => k \in S}
Branch(m) == Thread(m) \cap TreeOf(rootOf[m])

Disturbed == IF clear.at # "none" \/ shuttingDown THEN Msg ELSE {}

-----------------------------------------------------------------------------
(* Prompts.                                                                *)

\* handle_message up to the await: the id is recorded, the reply resolved.
TakePrompt(m) ==
    /\ intake[m] = "new" /\ \A k \in Msg : k < m => intake[k] # "new"
    /\ ~ shuttingDown
    /\ intake' = [intake EXCEPT ![m] = "sending"]
    /\ msgLog' = msgLog \cup {<<"prompt", m>>}
    /\ \E parent \in {NoMsg} \cup {id[2] : id \in {i \in lookup : Resolves(i)}} :
         parentOf' = [parentOf EXCEPT ![m] = parent]
    /\ shaken' = shaken \cup (Disturbed \cap {m})
    /\ UNCHANGED <<treeVars, tasks, stored, savedVars, clear, quietVars>>

\* queue_send_message has sent the status; who awaits it does not know yet.
ShowStatus(m) ==
    /\ intake[m] = "sending" /\ intake' = [intake EXCEPT ![m] = "shown"]
    /\ UNCHANGED <<parentOf, treeVars, tasks, stored, msgLog, savedVars, clear, shaken, quietVars>>

\* The rest: create_tree or add_to_tree, register_node, save_tree_snapshot, enqueue.  The
\* parent is looked up again, and ValueError raised when it has gone.
Admit(m) ==
    /\ intake[m] = "shown"
    /\ parentOf[m] = NoMsg \/ Resolves(<<"prompt", parentOf[m]>>)
    /\ LET r == IF parentOf[m] = NoMsg THEN m ELSE rootOf[parentOf[m]]
       IN  /\ rootOf' = [rootOf EXCEPT ![m] = r]
           /\ trees' = trees \cup {r}
           /\ stored' = [stored EXCEPT ![r] = TreeOf(r) \cup {m}]
    /\ intake' = [intake EXCEPT ![m] = "admitted"]
    /\ inGraph' = inGraph \cup {m} /\ lookup' = lookup \cup Ids({m})
    /\ msgLog' = msgLog \cup {<<"status", m>>} /\ tasks' = tasks \cup {m}
    /\ shaken' = shaken \cup (Disturbed \cap {m})
    /\ UNCHANGED <<parentOf, savedVars, clear, quietVars>>

Refuse(m) ==
    /\ intake[m] = "shown"
    /\ parentOf[m] # NoMsg /\ ~ Resolves(<<"prompt", parentOf[m]>>)
    /\ intake' = [intake EXCEPT ![m] = "refused"]
    /\ msgLog' = msgLog \cup {<<"status", m>>}
    /\ UNCHANGED <<parentOf, treeVars, tasks, stored, savedVars, clear, shaken, quietVars>>

\* Seeded fault: it is saved in any case.
SaveTreeAnyway(m) == stored' = [stored EXCEPT ![rootOf[m]] = TreeOf(rootOf[m])]

\* _save_tree: only a tree that is still the one of its node is saved.
SaveTree(m) ==
    stored' = IF Resolves(<<"prompt", m>>)
              THEN [stored EXCEPT ![rootOf[m]] = TreeOf(rootOf[m])] ELSE stored

\* A node's task saves its tree as it goes and when it ends.
TaskSaves(m) ==
    /\ m \in tasks /\ SaveTree(m) /\ tasks' \in {tasks, tasks \ {m}}
    /\ UNCHANGED <<intake, parentOf, treeVars, msgLog, savedVars, clear, shaken, quietVars>>

-----------------------------------------------------------------------------
(* /clear.  What it covers is known when it comes, with what replies to it *)
(* meanwhile.                                                              *)

InIntake(nodes) ==
    {m \in Msg : intake[m] \in {"sending", "shown"}
                   /\ (parentOf[m] = NoMsg \/ parentOf[m] \in nodes)}

\* handle_clear_command without a reply: the tasks are cancelled.
ClearAll ==
    /\ clear.at = "none" /\ clears < MaxClears /\ ~ shuttingDown /\ clears' = clears + 1
    /\ clear' = [at |-> "stopping", of |-> NoMsg, nodes |-> inGraph \cap {i[2] : i \in lookup}]
    /\ shaken' = shaken \cup {m \in Msg : intake[m] # "new"}
    /\ UNCHANGED <<intake, parentOf, treeVars, tasks, stored, msgLog, savedVars, shutdowns,
                   shuttingDown, erased>>

\* As a reply to a message or its status.
ClearBranch(id) ==
    /\ clear.at = "none" /\ clears < MaxClears /\ ~ shuttingDown /\ clears' = clears + 1
    /\ Resolves(id)
    /\ clear' = [at |-> "stopping", of |-> id[2], nodes |-> Branch(id[2])]
    /\ shaken' = shaken \cup Branch(id[2]) \cup InIntake(Branch(id[2]))
    /\ UNCHANGED <<intake, parentOf, treeVars, tasks, stored, msgLog, savedVars, shutdowns,
                   shuttingDown, erased>>

\* The cancelled tasks have ended; the messages are to be deleted.
ClearStopped ==
    /\ clear.at = "stopping" /\ clear.nodes \cap tasks = {}
    /\ clear' = [clear EXCEPT !.at = "deleting"]
    /\ UNCHANGED <<intake, parentOf, treeVars, tasks, stored, msgLog, savedVars, shaken, quietVars>>

\* The event loop's own thread writes the file: nothing changes meanwhile, so that a
\* thread that takes its snapshot during the write has the same.  An error is logged.
LoopWrites(state) ==
    /\ \/ disk' = state /\ outdated' = FALSE
       \/ disk' = disk /\ outdated' = TRUE
    /\ writing' = [w \in Saver |-> IF writing[w] = "fresh" THEN "late" ELSE writing[w]]
    /\ UNCHANGED snapshot

\* clear_all, which writes the file, and a new TreeQueueManager.
AllCleared ==
    /\ clear.at = "deleting" /\ clear.of = NoMsg /\ clear' = NoClear
    /\ stored' = EmptyStore.stored /\ msgLog' = {} /\ LoopWrites(EmptyStore)
    /\ trees' = {} /\ lookup' = {}
    /\ erased' = erased \cup clear.nodes
    /\ shaken' = shaken \cup {m \in Msg : intake[m] # "new"}
    /\ UNCHANGED <<intake, parentOf, rootOf, inGraph, tasks, clears, shutdowns, shuttingDown>>

\* remove_branch, which cancels anew if it is the whole tree, and the store's part.
BranchCleared ==
    /\ clear.at = "deleting" /\ clear.of # NoMsg /\ clear' = NoClear
    /\ LET b     == clear.of
           there == Resolves(<<"prompt", b>>)
           gone  == IF there THEN Branch(b) ELSE {}
       IN  /\ inGraph' = IF b = rootOf[b] THEN inGraph ELSE inGraph \ gone
           /\ trees'  = IF there THEN trees \ {b} ELSE trees
           /\ lookup' = lookup \ Ids(gone)
           /\ tasks'  = IF there /\ b = rootOf[b] THEN tasks \ gone ELSE tasks
           /\ stored' = IF there THEN [stored EXCEPT ![rootOf[b]] = @ \ gone] ELSE stored
           /\ shaken' = shaken \cup gone \cup InIntake(gone)
    /\ msgLog' = msgLog \ Ids(clear.nodes)
    /\ erased' = IF shuttingDown THEN erased ELSE erased \cup clear.nodes
    /\ UNCHANGED <<intake, parentOf, rootOf, savedVars, clears, shutdowns, shuttingDown>>

-----------------------------------------------------------------------------
(* The file and the restart.                                               *)

\* The thread of a timer has claimed it, and takes its snapshot.
TakeSnapshot(w) ==
    /\ writing[w] = "no"
    /\ writing' = [writing EXCEPT ![w] = "fresh"]
    /\ snapshot' = [snapshot EXCEPT ![w] = [stored |-> stored, msgLog |-> msgLog]]
    /\ UNCHANGED <<intake, parentOf, treeVars, tasks, stored, msgLog, disk, outdated, clear,
                   shaken, quietVars>>

\* os.replace, whatever has been written since; or an error, which is logged.
ThreadWrites(w) ==
    /\ writing[w] # "no"
    /\ \/ disk' = snapshot[w] /\ outdated' = (writing[w] = "late")
       \/ UNCHANGED <<disk, outdated>>
    /\ writing' = [writing EXCEPT ![w] = "no"]
    /\ snapshot' = [snapshot EXCEPT ![w] = EmptyStore]
    /\ UNCHANGED <<intake, parentOf, treeVars, tasks, stored, msgLog, clear, shaken, quietVars>>

\* AppRuntime.shutdown flushes first and stops the rest after it.
Shutdown ==
    /\ ~ shuttingDown /\ shutdowns < MaxShutdowns
    /\ shuttingDown' = TRUE /\ shutdowns' = shutdowns + 1
    /\ LoopWrites([stored |-> stored, msgLog |-> msgLog])
    /\ shaken' = shaken \cup {m \in Msg : intake[m] \in {"sending", "shown"}}
                        \cup clear.nodes
    /\ UNCHANGED <<intake, parentOf, treeVars, tasks, stored, msgLog, clear, clears, erased>>

\* derive_node_to_tree.
Derived(nodes) == Ids(nodes)

\* SessionStore._load, _restore_tree_state: the trees of the file, with the index derived
\* from them.  What was under way is lost, the daemon threads with it.  Nothing is claimed
\* of what an outdated file brings back, or has lost.
Restart ==
    /\ shuttingDown /\ shuttingDown' = FALSE /\ tasks' = {} /\ clear' = NoClear
    /\ stored' = disk.stored /\ msgLog' = disk.msgLog
    /\ inGraph' = UNION {disk.stored[r] : r \in Msg}
    /\ trees' = {r \in Msg : disk.stored[r] # {}} /\ lookup' = Derived(inGraph')
    /\ intake' = [m \in Msg |-> IF intake[m] \in {"sending", "shown"} THEN "refused" ELSE intake[m]]
    /\ writing' = [w \in Saver |-> "no"] /\ snapshot' = [w \in Saver |-> EmptyStore]
    /\ shaken' = IF outdated THEN shaken \cup {m \in Msg : intake[m] # "new"} ELSE shaken
    /\ erased' = IF outdated THEN {} ELSE erased
    /\ UNCHANGED <<parentOf, rootOf, disk, outdated, clears, shutdowns>>

ChatNext ==
    \/ ClearAll \/ ClearStopped \/ AllCleared \/ BranchCleared
    \/ Shutdown \/ Restart \/ \E w \in Saver : TakeSnapshot(w) \/ ThreadWrites(w)
    \/ \E m \in Msg : TakePrompt(m) \/ ShowStatus(m) \/ Admit(m) \/ Refuse(m) \/ TaskSaves(m)
    \/ \E id \in Ids(Msg) : ClearBranch(id)

ChatSpec == ChatInit /\ [][ChatNext]_chatVars
-----------------------------------------------------------------------------
(* Properties.                                                             *)

\* What a completed /clear covered does not come back, in the index or in the store:
\* neither by the tasks that outlive it (_save_tree), nor by the prompts that were taken
\* while it waited (add_to_tree), nor by a restart, unless its file is outdated: the write
\* of clear_all or of the flush failed, or a thread with an older snapshot came after it.
ErasedStaysErased ==
    ~ shuttingDown =>
      /\ erased \cap UNION {stored[r] : r \in Msg} = {}
      /\ \A m \in erased : Ids({m}) \cap lookup = {}

\* A prompt that no /clear and no shutdown overlapped is never refused, and once admitted
\* it is in its tree, found by its id and by its status, in the store and in the message
\* log: memory and store agree about it, before and after a restart from a file that is
\* not outdated.
UnshakenIsKnown ==
    \A m \in Msg \ shaken :
      /\ intake[m] # "refused"
      /\ intake[m] = "admitted" =>
           /\ \A id \in Ids({m}) : Resolves(id) /\ id \in msgLog
           /\ m \in stored[rootOf[m]]

\* What the store, the index and the message log know is what was said and not erased,
\* however prompts, tasks, /clear, shutdown and restart fall into each other.
KnownUntilErased == ErasedStaysErased /\ UnshakenIsKnown
=============================================================================
