--------------------------- MODULE StatusMessage ---------------------------
(***************************************************************************)
(* What the chat is shown of one run of the CLI: the parser of its events  *)
(* (src/messaging/event_parser.py), the transcript they build              *)
(* (transcript/*.py), its rendering under a limit, and the editor that     *)
(* updates the status message at most once a second (ui_updates.py), as    *)
(* the node's pipeline drives them (node_event_pipeline.py,                *)
(* node_runner.py).                                                        *)
(*                                                                         *)
(* A text or a thought is a piece, numbered by its event.  A message of    *)
(* the CLI with several blocks is as many events here: nothing happens     *)
(* between the blocks but the updates of the status message.               *)
(***************************************************************************)
EXTENDS Naturals, Sequences, SequencesExt

CONSTANTS
    TaskId,         \* ids of Task calls
    ToolId,         \* ids of other calls
    Rough,          \* pairs of a Task's id and another id of which one is a
                    \* prefix of the other
    Said,           \* what is said: "text", "thinking"
    MaxPieces,      \* bound: events of a run
    ShownLimit,     \* limit_chars, in pieces
    TailMax         \* text_tail_max and thinking_tail_max, in pieces

\* The limit has room for a status, the marker and a piece.
ASSUME LimitAssumption ==
    /\ ShownLimit \in Nat /\ ShownLimit >= 3
    /\ TailMax \in Nat /\ TailMax >= 1

VARIABLES
    segments,       \* the transcript's segments
    openAt,         \* the open block of stream index 0: its segment, 0 if none
    taskStack,      \* SubagentState._stack
    lastStatus,     \* the pipeline's last status
    displayed,      \* _last_displayed_text: what the platform was handed last
    editLost,       \* the edit to it raised
    runEnd,         \* "running", or how the run ended
    unanswered,     \* calls of the CLI without a result
    spoken,         \* the pieces so far, with whether a Task was unanswered
    disturbed       \* a result closed other Tasks than its own

statusVars == <<segments, openAt, taskStack, lastStatus, displayed, editLost,
                runEnd, unanswered, spoken, disturbed>>

Nothing == [body |-> <<>>, cut |-> FALSE, status |-> "none"]

StatusInit ==
    /\ segments = <<>> /\ openAt = 0 /\ taskStack = <<>>
    /\ lastStatus = "none" /\ displayed = Nothing
    /\ editLost = FALSE /\ runEnd = "running"
    /\ unanswered = {} /\ spoken = <<>> /\ disturbed = FALSE

Segment(kind, parts) == [kind |-> kind, parts |-> parts]

---------------------------------------------------------------------------
(* Rendering.                                                              *)

\* Segment.render: the tail of a long text.
Drawn(segment) ==
    LET raw == segment.parts
    IN Segment(segment.kind, IF Len(raw) <= TailMax THEN raw
                             ELSE SubSeq(raw, Len(raw) - TailMax + 1, Len(raw)))

\* An empty text is left out.
DrawnSegments(parts) ==
    LET upTo[n \in 0 .. Len(parts)] ==
          IF n = 0 THEN <<>>
          ELSE IF parts[n].kind # "text" \/ parts[n].parts # <<>>
          THEN Append(upTo[n - 1], Drawn(parts[n]))
          ELSE upTo[n - 1]
    IN upTo[Len(parts)]

Size(segment) == IF segment.parts = <<>> THEN 1 ELSE Len(segment.parts)

SizeOf(body) ==
    LET upTo[n \in 0 .. Len(body)] == IF n = 0 THEN 0 ELSE upTo[n - 1] + Size(body[n])
    IN upTo[Len(body)]

\* render_segments: all of it, else the most of its end that fits with a
\* marker, else the tail of the newest segment.  A status takes one piece,
\* the marker another.
Render(parts, status) ==
    LET body == DrawnSegments(parts)
        fits(from) == SizeOf(SubSeq(body, from, Len(body))) + 2 <= ShownLimit
        from == {i \in DOMAIN body : fits(i)}
        longest == CHOOSE i \in from : \A j \in from : i <= j
        newest == Last(body)
        room == ShownLimit - 2
    IN IF SizeOf(body) + 1 <= ShownLimit
       THEN [body |-> body, cut |-> FALSE, status |-> status]
       ELSE [body |-> IF from # {}
                      THEN SubSeq(body, longest, Len(body))
                      ELSE <<Segment(newest.kind,
                                 SubSeq(newest.parts, Len(newest.parts) - room + 1, Len(newest.parts)))>>,
             cut |-> TRUE, status |-> status]

---------------------------------------------------------------------------
(* The editor.                                                             *)

\* ThrottledTranscriptEditor.update: an update that is not forced is left out
\* within a second of the last; the same text is not sent again, not even
\* after an edit that raised.
Edit(status) ==
    LET text == Render(segments', status) IN
    IF text = displayed
    THEN UNCHANGED <<displayed, editLost>>
    ELSE displayed' = text /\ editLost' \in BOOLEAN

UpdateMessage(status, force) ==
    \/ Edit(status)
    \/ ~force /\ UNCHANGED <<displayed, editLost>>

---------------------------------------------------------------------------
(* The transcript.                                                         *)

InSubagent == taskStack # <<>>

\* The CLI's side: what was said, and whether a Task was running then.
Say == spoken' = Append(spoken, unanswered \cap TaskId # {})

Piece == Len(spoken) + 1

\* A block of a whole message, never sent inside a streamed one: a segment of
\* its own.  Suppressed in a Task.
Chunk(kind) ==
    /\ openAt = 0
    /\ Say
    /\ segments' = IF InSubagent THEN segments ELSE Append(segments, Segment(kind, <<Piece>>))
    /\ UNCHANGED <<openAt, taskStack, unanswered, disturbed>>

\* content_block_start: what was open at the index is closed.
BlockStart(kind) ==
    /\ IF InSubagent
       THEN UNCHANGED <<segments, openAt>>
       ELSE segments' = Append(segments, Segment(kind, <<>>)) /\ openAt' = Len(segments) + 1
    /\ UNCHANGED <<taskStack, unanswered, spoken, disturbed>>

\* content_block_delta, of the block that was started: where none is open, as
\* its start was suppressed, one is opened.
BlockDelta(kind) ==
    /\ openAt > 0 => segments[openAt].kind = kind
    /\ Say
    /\ IF InSubagent
       THEN UNCHANGED <<segments, openAt>>
       ELSE IF openAt > 0
       THEN segments' = [segments EXCEPT ![openAt].parts = Append(@, Piece)] /\ UNCHANGED openAt
       ELSE segments' = Append(segments, Segment(kind, <<Piece>>)) /\ openAt' = Len(segments) + 1
    /\ UNCHANGED <<taskStack, unanswered, disturbed>>

\* content_block_stop: not suppressed in a Task.
BlockStop ==
    /\ openAt' = 0
    /\ UNCHANGED <<segments, taskStack, unanswered, spoken, disturbed>>

\* tool_use: a Task opens a subagent; a call in one replaces the call shown
\* under it.
Call(id) ==
    /\ openAt = 0 /\ id \notin unanswered
    /\ unanswered' = unanswered \cup {id}
    /\ IF id \in TaskId
       THEN taskStack' = Append(taskStack, id) /\ segments' = Append(segments, Segment("subagent", <<>>))
       ELSE /\ UNCHANGED taskStack
            /\ segments' = IF InSubagent THEN segments ELSE Append(segments, Segment("tool", <<>>))
    /\ UNCHANGED <<openAt, spoken, disturbed>>

Matches(marker, id) == marker = id \/ <<marker, id>> \in Rough

\* A seeded fault: only the Task opened last is looked at.
PoppedTop(id) ==
    IF InSubagent /\ Matches(Last(taskStack), id) THEN Front(taskStack) ELSE taskStack

\* SubagentState._pop: the newest Task that matches, and all above it.
Popped(id) ==
    LET matching == {i \in DOMAIN taskStack : Matches(taskStack[i], id)}
        newest == CHOOSE i \in matching : \A j \in matching : j <= i
    IN IF matching = {} THEN taskStack ELSE SubSeq(taskStack, 1, newest - 1)

\* tool_result; the results themselves are not shown in a chat.
Result(id) ==
    /\ id \in unanswered
    /\ unanswered' = unanswered \ {id}
    /\ taskStack' = Popped(id)
    /\ disturbed' = (disturbed \/ ToSet(taskStack) \ ToSet(taskStack') # {id} \cap ToSet(taskStack))
    /\ UNCHANGED <<segments, openAt, spoken>>

Fault ==
    /\ segments' = Append(segments, Segment("error", <<>>))
    /\ UNCHANGED <<openAt, taskStack, unanswered, spoken, disturbed>>

---------------------------------------------------------------------------
(* The pipeline: an event is applied, then the status message updated.     *)

Running == runEnd = "running" /\ Len(segments) + Len(spoken) < MaxPieces

StatusOf(kind) == IF kind = "text" THEN "working" ELSE "thinking"

ShowEvent(status) ==
    /\ UpdateMessage(status, FALSE)
    /\ lastStatus' = status
    /\ UNCHANGED runEnd

SayEvent(kind) ==
    /\ Running
    /\ Chunk(kind) \/ BlockStart(kind) \/ BlockDelta(kind)
    /\ ShowEvent(StatusOf(kind))

StopEvent ==
    /\ Running /\ openAt > 0
    /\ BlockStop
    /\ UpdateMessage(lastStatus, TRUE)
    /\ UNCHANGED <<lastStatus, runEnd>>

CallEvent(id) ==
    /\ Running
    /\ Call(id)
    /\ ShowEvent(IF id \in TaskId THEN "subagent" ELSE "tools")

ResultEvent(id) ==
    /\ Running
    /\ Result(id)
    /\ ShowEvent("tools")

ErrorEvent ==
    /\ Running
    /\ Fault
    /\ UpdateMessage("error", TRUE)
    /\ UNCHANGED <<lastStatus, runEnd>>

\* The exit of the CLI: with a code other than 0 an error is reported first.
\* "Done." stands for a run without a transcript.
ExitEvent(fails) ==
    /\ runEnd = "running"
    /\ IF fails THEN Fault
       ELSE IF segments = <<>> /\ spoken = <<>> THEN Chunk("text")
       ELSE UNCHANGED <<segments, openAt, taskStack, unanswered, spoken, disturbed>>
    /\ UpdateMessage("complete", TRUE)
    /\ runEnd' = IF fails THEN "failed" ELSE "complete"
    /\ UNCHANGED lastStatus

\* A stopped run shows its transcript; one that is cancelled otherwise, that
\* raises, or that gets no session of the pool, an error after it.
RunInterrupted(how) ==
    /\ runEnd = "running"
    /\ how = "full" => segments = <<>> /\ spoken = <<>> /\ unanswered = {}
    /\ IF how = "stopped"
       THEN UNCHANGED <<segments, openAt, taskStack, unanswered, spoken, disturbed>>
       ELSE Fault
    /\ UpdateMessage(how, TRUE)
    /\ runEnd' = how
    /\ UNCHANGED lastStatus

StatusNext ==
    \/ \E kind \in Said : SayEvent(kind)
    \/ StopEvent \/ ErrorEvent
    \/ \E id \in TaskId \cup ToolId : CallEvent(id) \/ ResultEvent(id)
    \/ \E fails \in BOOLEAN : ExitEvent(fails)
    \/ \E how \in {"stopped", "cancelled", "raised", "full"} : RunInterrupted(how)

StatusSpec == StatusInit /\ [][StatusNext]_statusVars

---------------------------------------------------------------------------

Shown == UNION {ToSet(segments[s].parts) : s \in DOMAIN segments}

SpokenOutsideTasks == {i \in DOMAIN spoken : ~ spoken[i]}

\* No id of a Task begins with another's.
TasksApart == \A a, b \in TaskId : Matches(a, b) => a = b

\* What is said is in the transcript once and in its order, and all of it that the main
\* agent says, where the ids of no two Tasks begin with one another.  What is said while a
\* Task is unanswered is not in it, unless a result closed another Task than its own (Tasks
\* answered out of order, ids of which one begins with the other).
TranscriptTellsAll ==
    /\ \A s, t \in DOMAIN segments :
         \A k \in DOMAIN segments[s].parts, l \in DOMAIN segments[t].parts :
           s < t \/ (s = t /\ k < l) => segments[s].parts[k] < segments[t].parts[l]
    /\ TasksApart => SpokenOutsideTasks \subseteq Shown
    /\ ~ disturbed => Shown = SpokenOutsideTasks

\* When the run has ended, the chat shows the end of its transcript, the
\* error of a failed run with it, unless that edit was lost.
ChatShowsTheEnd ==
    runEnd # "running" /\ ~editLost =>
        /\ displayed.status = (IF runEnd = "failed" THEN "complete" ELSE runEnd)
        /\ DrawnSegments(segments) # <<>> =>
              LET newest == Last(DrawnSegments(segments)) IN
              /\ displayed.body # <<>>
              /\ Last(displayed.body).kind = newest.kind
              /\ \E n \in 0 .. Len(newest.parts) :
                   Last(displayed.body).parts = SubSeq(newest.parts, n + 1, Len(newest.parts))
        /\ SizeOf(displayed.body) < ShownLimit
        /\ runEnd \in {"failed", "cancelled", "raised", "full"} => Last(displayed.body).kind = "error"

\* What the user of a chat is shown of a run: all that the main agent said, and how it
\* ended (TranscriptBuffer.apply, process_parsed_cli_event, ThrottledTranscriptEditor.update).
UserSeesTheRun == TranscriptTellsAll /\ ChatShowsTheEnd
=============================================================================
