----------------------------- MODULE AgentLoop -----------------------------
(***************************************************************************)
(* The native agent of the command line (src/cli/agent): one prompt is one *)
(* turn, in which a planner gives a plan, an executor calls tools until it *)
(* writes text without calls, and the planner is consulted again at each   *)
(* such stall (engine.py), with the retries of the requests to the models, *)
(* the history kept for the next turn and the context file of the          *)
(* workspace.                                                              *)
(*                                                                         *)
(* A message is its role, with the number of calls an assistant makes.  A  *)
(* reply of the planner is one of: nothing, a confirmation (a text with    *)
(* "task complete" in it), a step, or the bare word "complete", which is   *)
(* also the value that stands for a finished plan.                         *)
(***************************************************************************)
EXTENDS Naturals, Sequences

CONSTANTS
    MaxPrompts,     \* bound: prompts and /clear commands of a session
    MaxTurns,       \* agent_max_turns
    Retries,        \* attempts of a request, and of a consultation
    MaxToolCalls,   \* bound: tool calls in one reply of the executor
    MaxReplans      \* agent_max_replans, which nothing reads

ASSUME AgentAssumption == MaxToolCalls \in Nat

VARIABLES
    agentAt,        \* "prompt", "plan", "execute" or "replan"
    prompts,
    history,        \* engine.history
    messages,       \* the messages of the turn in progress
    posts,          \* attempts of the request in progress
    consults,       \* attempts of the consultation in progress
    turnsUsed,      \* _turn_idx
    replansUsed,
    signaled,       \* the executor's last text says the task is complete
    told,           \* how the last turn ended, as its user is told
    known,          \* the session store: the last decision, files seen
    contextFile,    \* context.md: the text kept as the user's, and the progress
    spoilt          \* has the last step's saving failed to read it, or emptied it (history)

savedVars == <<contextFile, spoilt>>
agentVars == <<agentAt, prompts, history, messages, posts, consults, turnsUsed,
               replansUsed, signaled, told, known, savedVars>>

Message(role, calls) == [role |-> role, calls |-> calls]

NothingKnown == [plan |-> "", files |-> FALSE]

AgentInit ==
    /\ agentAt = "prompt" /\ prompts = 0
    /\ history = <<>> /\ messages = <<>>
    /\ posts = 0 /\ consults = 0 /\ turnsUsed = 0 /\ replansUsed = 0
    /\ signaled = FALSE /\ told = "nothing"
    /\ known = NothingKnown /\ spoilt = FALSE
    /\ contextFile \in {[users |-> u, progress |-> NothingKnown] : u \in {"none", "mine"}}

---------------------------------------------------------------------------
(* The context file.  A tool that the executor has write to it, as to any  *)
(* other file, is not followed here.                                       *)

\* A seeded fault: only what stands before a mark is kept.
UsersTextForgotten(file) == IF file.progress = NothingKnown THEN "none" ELSE file.users

\* The text of the file that is kept as the user's.  Progress without a list
\* of files is not told from a text of the user.
UsersText(file) ==
    IF file.users = "none" /\ file.progress.plan # "" /\ ~file.progress.files
    THEN "stale"
    ELSE file.users

Saved(file, lost) == [file |-> file, lost |-> lost]

\* _save_workspace_context, which raises no error.  A file that cannot be read has no
\* text of the user, and is written over; a write may leave the file as it is, or empty.
Save(file, knowledge) ==
    IF knowledge = NothingKnown THEN {Saved(file, FALSE)}
    ELSE { Saved([users |-> UsersText(file), progress |-> knowledge], FALSE),
           Saved([users |-> "none", progress |-> knowledge], TRUE),
           Saved(file, FALSE),
           Saved([users |-> "none", progress |-> NothingKnown], TRUE) }

\* A step saves what it has learnt, and once more if run_turn ends with it.  Saving
\* after each of several calls leaves no file that saving once may not leave.
Saves(learns, ends) ==
    LET once == IF learns THEN Save(contextFile, known') ELSE {Saved(contextFile, FALSE)}
    IN  \E first \in once :
        \E last \in (IF ends THEN Save(first.file, known') ELSE {Saved(first.file, FALSE)}) :
            contextFile' = last.file /\ spoilt' = (first.lost \/ last.lost)

SeeFile == known' = [known EXCEPT !.files = TRUE]

---------------------------------------------------------------------------
(* Requests to the models.                                                 *)

AskExecutor == agentAt' = "execute" /\ posts' = 1

AskPlanner(phase) == agentAt' = phase /\ posts' = 1 /\ consults' = 1

\* The turn ends; what the user is told of it.
EndTurn(how) ==
    /\ agentAt' = "prompt" /\ told' = how
    /\ messages' = <<>> /\ posts' = 0 /\ consults' = 0 /\ turnsUsed' = 0

\* _compact_history: the system prompt is left out, long results are cut.
EndWholeTurn(exchange, completed) ==
    /\ EndTurn(IF completed THEN "finished" ELSE "unfinished")
    /\ history' = exchange

\* The next pass of the executor's loop, or its end.
NextTurn(exchange) ==
    IF turnsUsed + 1 < MaxTurns
    THEN /\ AskExecutor
         /\ turnsUsed' = turnsUsed + 1 /\ messages' = exchange
         /\ UNCHANGED <<consults, told, history>>
    ELSE EndWholeTurn(exchange, FALSE)

\* _post_json_retry: a transport error or a transient status, with an
\* attempt left.
PostAgain ==
    /\ agentAt # "prompt" /\ posts < Retries
    /\ posts' = posts + 1
    /\ UNCHANGED <<agentAt, prompts, history, messages, consults, turnsUsed,
                   replansUsed, signaled, told, known, savedVars>>

\* The executor's request fails at its last attempt, or with a client error
\* at once: the turn ends with the error and its exchange is not kept.
ExecutorFails ==
    /\ agentAt = "execute"
    /\ EndTurn("error")
    /\ UNCHANGED <<prompts, history, replansUsed, signaled, known>>
    /\ Saves(FALSE, TRUE)

---------------------------------------------------------------------------
(* The planner.                                                            *)

\* What the loop is handed for a reply, "" when every attempt failed.
Outcome(reply) ==
    CASE reply = "step" -> "directive"
      [] reply = "word" -> "complete"
      [] OTHER -> IF signaled THEN "complete" ELSE "directive"

\* _run_planner_phase: without a plan the request itself is the plan.
Planned ==
    /\ AskExecutor
    /\ consults' = 0
    /\ messages' = history
    /\ UNCHANGED <<history, turnsUsed, told, known, savedVars>>

\* _run_replan and what the loop does with it.
Replanned(reply) ==
    /\ known' = IF reply = "" THEN known ELSE [known EXCEPT !.plan = reply]
    /\ IF Outcome(reply) = "complete"
       THEN EndWholeTurn(messages, TRUE)
       ELSE NextTurn(Append(messages, Message("directive", 0)))
    /\ Saves(reply # "", agentAt' = "prompt")

PlannerAnswers(reply) ==
    /\ IF agentAt = "plan" THEN Planned ELSE Replanned(reply)
    /\ UNCHANGED <<prompts, replansUsed, signaled>>

\* _query_planner_streaming: a failed request, or an answer without text, is
\* asked for again.
PlannerFails ==
    /\ agentAt \in {"plan", "replan"}
    /\ IF consults < Retries
       THEN /\ consults' = consults + 1 /\ posts' = 1
            /\ UNCHANGED <<agentAt, prompts, history, messages, turnsUsed,
                           replansUsed, signaled, told, known, savedVars>>
       ELSE PlannerAnswers("")

PlannerReplies ==
    /\ agentAt \in {"plan", "replan"}
    /\ \E reply \in {"confirms", "step", "word"} : PlannerAnswers(reply)

---------------------------------------------------------------------------
(* The executor.                                                           *)

\* Text without calls: the planner is consulted, however often it has been.
ExecutorStalls(complete) ==
    /\ agentAt = "execute"
    /\ signaled' = complete
    /\ replansUsed' = replansUsed + 1
    /\ messages' = Append(messages, Message("assistant", 0))
    /\ AskPlanner("replan")
    /\ UNCHANGED <<prompts, history, turnsUsed, told, known, savedVars>>

\* Calls, run one after the other; a failed one adds a notice for the
\* executor.  A read, written or edited file goes to the session store.
Results(calls, failed) ==
    <<Message("assistant", calls)>>
        \o [i \in 1..calls |-> Message("tool", 0)]
        \o (IF failed THEN <<Message("notice", 0)>> ELSE <<>>)

ExecutorCalls(calls, failed, seesFile) ==
    /\ agentAt = "execute"
    /\ IF seesFile THEN SeeFile ELSE UNCHANGED known
    /\ NextTurn(messages \o Results(calls, failed))
    /\ Saves(seesFile, agentAt' = "prompt")
    /\ UNCHANGED <<prompts, replansUsed, signaled>>

\* Arguments that are no object: the tool reports an error, and reading the
\* path of a file tool's arguments raises out of the turn, and of run_turn.
ExecutorRaises(seenFile) ==
    /\ agentAt = "execute"
    /\ IF seenFile THEN SeeFile ELSE UNCHANGED known
    /\ EndTurn("raised")
    /\ Saves(seenFile, FALSE)
    /\ UNCHANGED <<prompts, history, replansUsed, signaled>>

\* A response without choices ends the loop.
ExecutorSaysNothing ==
    /\ agentAt = "execute"
    /\ EndWholeTurn(messages, FALSE)
    /\ UNCHANGED <<prompts, replansUsed, signaled, known>>
    /\ Saves(FALSE, TRUE)

---------------------------------------------------------------------------
(* The prompt.                                                             *)

Prompt ==
    /\ agentAt = "prompt" /\ prompts < MaxPrompts
    /\ prompts' = prompts + 1
    /\ history' = Append(history, Message("user", 0))
    /\ AskPlanner("plan")
    /\ replansUsed' = 0 /\ signaled' = FALSE /\ told' = "nothing"
    /\ UNCHANGED <<messages, turnsUsed, known, savedVars>>

\* /clear: the history and the session store, not the context file.
Clear ==
    /\ agentAt = "prompt" /\ prompts < MaxPrompts
    /\ prompts' = prompts + 1
    /\ history' = <<>> /\ known' = NothingKnown /\ told' = "nothing"
    /\ UNCHANGED <<agentAt, messages, posts, consults, turnsUsed, replansUsed,
                   signaled, savedVars>>

AgentNext ==
    \/ Prompt \/ Clear
    \/ PostAgain \/ PlannerFails \/ PlannerReplies
    \/ \E complete \in BOOLEAN : ExecutorStalls(complete)
    \/ \E calls \in 1..MaxToolCalls, failed, seesFile \in BOOLEAN :
          ExecutorCalls(calls, failed, seesFile)
    \/ ExecutorFails \/ (\E seenFile \in BOOLEAN : ExecutorRaises(seenFile)) \/ ExecutorSaysNothing

AgentSpec == AgentInit /\ [][AgentNext]_agentVars

---------------------------------------------------------------------------

Answered(exchange) ==
    \A i \in DOMAIN exchange :
        /\ exchange[i].role = "assistant" =>
              \A j \in (i + 1)..(i + exchange[i].calls) :
                  j \in DOMAIN exchange /\ exchange[j].role = "tool"
        /\ exchange[i].role = "tool" =>
              \E a \in 1..(i - 1) : exchange[a].role = "assistant" /\ i - a <= exchange[a].calls

\* Every call of an assistant message is followed by its results, in each
\* exchange that is kept for the next turn and in each that is sent to the
\* executor, whatever turns failed before: a provider refuses any other.
ExchangesAreAnswered ==
    Answered(history) /\ (agentAt = "execute" => Answered(messages))

\* A text the user wrote in the context file before the session is still what the next
\* save keeps as the user's, through every plan, call, error, end of a turn and /clear,
\* unless a save could not read the file or broke off in its write.
UsersTextIsKept ==
    [][contextFile.users = "mine" => contextFile'.users = "mine" \/ spoilt']_agentVars

\* A turn that its user is not told to be unfinished was ended by an executor
\* that said so, or by a planner that answered with the bare word.
TurnsEndCandidly == told = "finished" => signaled \/ known.plan = "word"

\* "On a mid-task stall the planner may NOT end the turn" (engine.py:352):
\* its word counts only after the executor's.
OnlyExecutorEnds == told = "finished" => signaled

\* "max_replans caps how many times the planner is re-consulted"
\* (config/settings.py:90).
ReplansAreCapped == replansUsed <= MaxReplans

\* What the engine keeps between turns and says of them is so: whole exchanges, the user's
\* text as far as the file can be read and written, and no end that nobody declared
\* (run_turn, _run_executor_loop, _run_replan, _save_workspace_context).
TurnsAddUp == []ExchangesAreAnswered /\ []TurnsEndCandidly /\ UsersTextIsKept
=============================================================================
