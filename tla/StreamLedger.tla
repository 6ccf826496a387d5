---------------------------- MODULE StreamLedger ----------------------------
(***************************************************************************)
(* AnthropicStreamLedger (src/core/anthropic/streaming/ledger.py) and what *)
(* the OpenAI transport does to it (transports/openai_chat/tool_calls.py): *)
(* the blocks of the message being produced, as operators from ledger to   *)
(* ledger.  The events an operator produces are appended to the ledger's   *)
(* log; the stream takes them from there.                                  *)
(*                                                                         *)
(* Text is abstracted to whether there was any, the arguments of a tool    *)
(* to whether they are a complete and valid object ("whole").  A fragment  *)
(* of text is never blank.                                                 *)
(***************************************************************************)
EXTENDS Naturals, Sequences, FiniteSets, NumberSets

CONSTANT Calls         \* indices of the upstream's tool calls

BlockTypes == {"text", "thinking", "tool"}
Args       == {"none", "partial", "whole"}

\* "task": the arguments of a tool called Task are sent as one object;
\* "alias": so are those of a tool whose parameters have to be renamed.
ToolKind == {"plain", "task", "alias"}

NoCall == [kind |-> "unnamed", block |-> 0, early |-> FALSE,
           held |-> FALSE, done |-> FALSE]

NewLedger ==
    [started  |-> FALSE,     \* message_started
     blocks   |-> <<>>,      \* _content_blocks; next_index is their number
     text     |-> 0,         \* blocks.text_index, 0 for -1
     thinking |-> 0,         \* blocks.thinking_index, 0 for -1
     textOpen     |-> FALSE, \* blocks.text_started
     thinkingOpen |-> FALSE, \* blocks.thinking_started
     tools    |-> [c \in Calls |-> NoCall],   \* blocks.tool_states
     said     |-> FALSE,     \* accumulated_text is not empty
     thought  |-> FALSE,     \* accumulated_reasoning is not empty
     log      |-> <<>>]      \* events not yet passed on

Emit(l, kind, block, type) ==
    [l EXCEPT !.log = Append(@, [kind |-> kind, block |-> block, type |-> type])]

\* Takes what was logged.
Logged(l) == [l EXCEPT !.log = <<>>]

StartMessage(l) == [Emit(l, "start", 0, "message") EXCEPT !.started = TRUE]
Usage(l)        == Emit(l, "usage", 0, "message")
EndMessage(l)   == Emit(l, "end", 0, "message")
TopLevelError(l) == Emit(l, "error", 0, "message")

\* content_block_start and _record_block_start: a block of text or thinking becomes
\* the current one.
OpenBlock(l, type) ==
    LET b == Len(l.blocks) + 1
    IN  [Emit(l, "open", b, type) EXCEPT
           !.blocks = Append(@, [type |-> type, args |-> "none", deltas |-> 0]),
           !.text         = IF type = "text" THEN b ELSE @,
           !.textOpen     = @ \/ type = "text",
           !.thinking     = IF type = "thinking" THEN b ELSE @,
           !.thinkingOpen = @ \/ type = "thinking"]

Delta(l, b, args) ==
    [Emit(l, "delta", b, l.blocks[b].type) EXCEPT
       !.blocks[b].args = args, !.blocks[b].deltas = @ + 1]

\* content_block_stop, _record_block_stop and _clear_active_content_block.
StopBlock(l, b) ==
    [Emit(l, "stop", b, l.blocks[b].type) EXCEPT
       !.textOpen = @ /\ l.text # b, !.thinkingOpen = @ /\ l.thinking # b]

EnsureText(l) ==
    LET m == IF l.thinkingOpen THEN StopBlock(l, l.thinking) ELSE l
    IN  IF m.textOpen THEN m ELSE OpenBlock(m, "text")

EnsureThinking(l) ==
    LET m == IF l.textOpen THEN StopBlock(l, l.text) ELSE l
    IN  IF m.thinkingOpen THEN m ELSE OpenBlock(m, "thinking")

Say(l) ==
    LET m == EnsureText(l) IN [Delta(m, m.text, "none") EXCEPT !.said = TRUE]

Think(l) ==
    LET m == EnsureThinking(l) IN [Delta(m, m.thinking, "none") EXCEPT !.thought = TRUE]

CloseContent(l) ==
    LET m == IF l.thinkingOpen THEN StopBlock(l, l.thinking) ELSE l
    IN  IF m.textOpen THEN StopBlock(m, m.text) ELSE m

-----------------------------------------------------------------------------
(* Tools.                                                                  *)

HasTool(l)   == \E b \in DOMAIN l.blocks : l.blocks[b].type = "tool"
Generated(l) == l.text # 0 \/ l.thinking # 0 \/ HasTool(l)

\* Seeded fault: one complete tool is enough.
SomeToolWhole(l) ==
    \E b \in DOMAIN l.blocks : l.blocks[b].type = "tool" /\ l.blocks[b].args = "whole"

\* can_salvage_tool_use: there are tools, and every one has its arguments.
AllToolsWhole(l) ==
    /\ HasTool(l)
    /\ \A b \in DOMAIN l.blocks : l.blocks[b].type = "tool" => l.blocks[b].args = "whole"

\* The blocks of those calls that have one, and an event for each of some blocks.
BlocksOf(l, calls) == {l.tools[c].block : c \in calls} \ {0}
ForEach(kind, blocks) ==
    LET order == InOrder(blocks)
    IN  [i \in DOMAIN order |-> [kind |-> kind, block |-> order[i], type |-> "tool"]]

CloseAll(l) ==
    LET m == CloseContent(l)
    IN  [m EXCEPT !.log = @ \o ForEach("stop", BlocksOf(m, Calls))]

\* A tool call that the model wrote into its text: one whole block.
HeuristicTool(l, args) ==
    LET m == OpenBlock(CloseContent(l), "tool")
        b == Len(m.blocks)
    IN  StopBlock(Delta(m, b, args), b)

(***************************************************************************)
(* _emit_tool_arg_delta: a fragment for call c, after which the arguments  *)
(* are args.  Arguments that have to be sent as one object are held while  *)
(* they do not parse ("none" is emitted), and a Task has no more to say    *)
(* once they did.                                                          *)
(***************************************************************************)
Outcomes(l, c) ==
    CASE l.tools[c].kind = "plain" -> {"partial", "whole"}
      [] l.tools[c].kind = "alias" -> Args
      [] l.tools[c].kind = "task"  -> IF l.tools[c].done THEN {"none"} ELSE Args

GiveArgs(l, c, args) ==
    LET emitted == [Delta(l, l.tools[c].block, args) EXCEPT
                      !.tools[c].held = FALSE,
                      !.tools[c].done = l.tools[c].kind = "task"]
    IN  IF args # "none" THEN emitted
        ELSE [l EXCEPT !.tools[c].held = ~ l.tools[c].done]

\* process_tool_call up to the arguments: kind is that of the name the delta brings, or
\* "unnamed".  A block starts as soon as the call has a name, which is taken to come in
\* one piece: register_tool_name would also join fragments of it.
NameCall(l, c, kind) ==
    LET m == [CloseContent(l) EXCEPT
                !.tools[c].kind = IF @ = "unnamed" THEN kind ELSE @]
    IN  IF m.tools[c].kind = "unnamed" \/ m.tools[c].block # 0 THEN m
        ELSE [OpenBlock(m, "tool") EXCEPT !.tools[c].block = Len(m.blocks) + 1]

\* The ledgers that one delta of call c can lead to.  Arguments that came before the
\* name (pre_start_args) are emitted with those that come with it.
CallDelta(l, c, kind, hasArgs) ==
    LET m == NameCall(l, c, kind)
    IN  IF m.tools[c].block = 0
        THEN {[m EXCEPT !.tools[c].early = @ \/ hasArgs]}
        ELSE IF ~ hasArgs /\ ~ m.tools[c].early THEN {m}
        ELSE {[GiveArgs(m, c, args) EXCEPT !.tools[c].early = FALSE] :
                args \in Outcomes(m, c)}

\* flush_tool_argument_alias_buffers: what never parsed is sent as it is, and
\* flush_task_arg_buffers: a Task gets an object, an empty one if need be.
FlushHeld(l) ==
    LET Held(kind) ==
          BlocksOf(l, {c \in Calls : l.tools[c].held /\ l.tools[c].kind = kind})
        aliases == Held("alias")
        tasks   == Held("task")
        Flushed(b) ==
          [l.blocks[b] EXCEPT !.args = IF b \in tasks THEN "whole" ELSE "partial",
                              !.deltas = @ + 1]
    IN  [l EXCEPT
           !.log = @ \o ForEach("delta", aliases) \o ForEach("delta", tasks),
           !.blocks = [b \in DOMAIN l.blocks |->
                         IF b \in tasks \cup aliases THEN Flushed(b) ELSE l.blocks[b]],
           !.tools = [c \in Calls |->
              [l.tools[c] EXCEPT !.held = FALSE, !.done = @ \/ l.tools[c].block \in tasks]]]

-----------------------------------------------------------------------------
(* Ends of a message.                                                      *)

\* A message must have content, and one that only thinks gets a blank text.
Fill(l) ==
    IF ~ Generated(l) \/ (~ HasTool(l) /\ ~ l.said /\ l.thought)
    THEN Say(l) ELSE l

SuccessTail(l) == EndMessage(Usage(CloseAll(l)))

\* emit_error_tail: the error is a text for who got no tool, an error event otherwise.
ErrorTail(l) ==
    LET m     == CloseAll(l)
        shown == OpenBlock(m, "text")
        b     == Len(shown.blocks)
    IN  EndMessage(Usage(IF HasTool(m) THEN TopLevelError(m)
                         ELSE StopBlock([Delta(shown, b, "none") EXCEPT !.said = TRUE], b)))
=============================================================================
