--------------------------- MODULE ChatConversion ---------------------------
(***************************************************************************)
(* How a conversation reaches an OpenAI chat provider: the history of an   *)
(* Anthropic client, or the input items of an OpenAI Responses client made *)
(* Anthropic messages (src/core/openai_responses/input.py), converted to   *)
(* chat messages (src/core/anthropic/conversion.py).                       *)
(*                                                                         *)
(* The history grows by what a client adds, a message or an item at a      *)
(* time; Chat is what a request made of the history so far would send.     *)
(* The number of a piece is its place in the history; a result has that of *)
(* its call.                                                               *)
(***************************************************************************)
EXTENDS Naturals, Sequences, FiniteSets, SequencesExt

CONSTANT MaxPieces      \* bound: pieces of a history

ASSUME ConversionAssumption == MaxPieces \in Nat

VARIABLES
    client,         \* which client: "messages" or "responses"
    replay,         \* ReasoningReplayMode, of the two that providers use
    pieces,         \* the history, as the client sees it
    openCalls,      \* its calls without a result
    request,        \* the Anthropic messages
    heldReasoning,  \* _PendingReasoning: texts, and the numbers of opaque blocks
    quarantined     \* quarantined_function_call_ids

convVars == <<client, replay, pieces, openCalls, request, heldReasoning, quarantined>>

NoReasoning == [texts |-> <<>>, opaque |-> <<>>]

ConvInit ==
    /\ client \in {"messages", "responses"}
    /\ replay \in {"disabled", "reasoning_content"}
    /\ pieces = <<>> /\ openCalls = {} /\ request = <<>>
    /\ heldReasoning = NoReasoning /\ quarantined = {}

Piece(kind, id) == [kind |-> kind, id |-> id]

\* A message: whether its content is a string, its blocks, and the reasoning
\* beside them (reasoning_content).
RequestMessage(role, plain, blocks, reasoning) ==
    [role |-> role, plain |-> plain, blocks |-> blocks, reasoning |-> reasoning]

Fresh == Len(pieces) + 1

\* The blocks at these places, in their order.
Picked(blocks, places) ==
    LET upTo[n \in 0 .. Len(blocks)] ==
          IF n = 0 THEN <<>>
          ELSE IF n \in places THEN Append(upTo[n - 1], blocks[n]) ELSE upTo[n - 1]
    IN  upTo[Len(blocks)]

OfKind(kind, blocks) == Picked(blocks, {b \in DOMAIN blocks : blocks[b].kind = kind})

Ids(blocks) == [i \in DOMAIN blocks |-> blocks[i].id]

---------------------------------------------------------------------------
(* Responses items become messages.                                        *)

Opaque(held) == [i \in DOMAIN held.opaque |-> Piece("redacted", held.opaque[i])]

\* _append_pending_reasoning.
Flushed(asked, held) ==
    IF held = NoReasoning THEN asked
    ELSE Append(asked, RequestMessage("assistant", held.opaque = <<>>, Opaque(held), held.texts))

IsCallMessage(message) ==
    /\ message.role = "assistant" /\ ~message.plain
    /\ \E b \in DOMAIN message.blocks : message.blocks[b].kind = "call"
    /\ \A b \in DOMAIN message.blocks : message.blocks[b].kind \in {"call", "redacted"}

IsResultMessage(message) ==
    /\ message.role = "user" /\ ~message.plain
    /\ \A b \in DOMAIN message.blocks : message.blocks[b].kind = "result"

EndsWith(IsSuch(_)) == IF request = <<>> THEN FALSE ELSE IsSuch(Last(request))

WithReasoning(message, held) ==
    [message EXCEPT !.reasoning = @ \o held.texts, !.blocks = Opaque(held) \o @]

\* _append_tool_use_message.
WithCall(call) ==
    LET start == IF EndsWith(IsCallMessage) THEN request
                 ELSE Append(request, RequestMessage("assistant", FALSE, <<>>, <<>>))
        message == WithReasoning(Last(start), heldReasoning)
    IN Append(Front(start), [message EXCEPT !.blocks = Append(@, call)])

\* _append_pending_reasoning_before_tool_output and _append_tool_result_message.
WithResult(result) ==
    LET start == IF heldReasoning # NoReasoning /\ EndsWith(IsCallMessage)
                 THEN Append(Front(request), WithReasoning(Last(request), heldReasoning))
                 ELSE Flushed(request, heldReasoning)
    IN IF EndsWith(IsResultMessage) /\ start = request
       THEN Append(Front(start), [Last(start) EXCEPT !.blocks = Append(@, result)])
       ELSE Append(start, RequestMessage("user", FALSE, <<result>>, <<>>))

\* The outputs of a turn's calls come when the turn is over, one after another.
Answering == openCalls # {} /\ Last(pieces).kind = "result"

\* A prompt, a string or a list of parts.
PromptItem ==
    /\ openCalls = {}
    /\ LET prompt == Piece("prompt", Fresh) IN
       /\ pieces' = Append(pieces, prompt)
       /\ \E plain \in BOOLEAN :
             request' = Append(Flushed(request, heldReasoning),
                               RequestMessage("user", plain, <<prompt>>, <<>>))
    /\ heldReasoning' = NoReasoning
    /\ UNCHANGED <<openCalls, quarantined>>

TextItem ==
    /\ pieces # <<>> /\ ~Answering
    /\ LET text == Piece("text", Fresh) IN
       /\ pieces' = Append(pieces, text)
       /\ request' = Append(request, RequestMessage("assistant", FALSE,
                                                    Append(Opaque(heldReasoning), text),
                                                    heldReasoning.texts))
    /\ heldReasoning' = NoReasoning
    /\ UNCHANGED <<openCalls, quarantined>>

ReasoningItem ==
    /\ pieces # <<>> /\ ~Answering
    /\ \E kind \in {"thinking", "redacted"} :
          /\ pieces' = Append(pieces, Piece(kind, Fresh))
          /\ heldReasoning' =
                IF kind = "thinking" THEN [heldReasoning EXCEPT !.texts = Append(@, Fresh)]
                ELSE [heldReasoning EXCEPT !.opaque = Append(@, Fresh)]
    /\ UNCHANGED <<openCalls, request, quarantined>>

\* A call whose arguments are no JSON object is left out, with its result.
CallItem ==
    /\ pieces # <<>> /\ ~Answering
    /\ openCalls' = openCalls \cup {Fresh}
    /\ \/ /\ pieces' = Append(pieces, Piece("call", Fresh))
          /\ request' = WithCall(Piece("call", Fresh))
          /\ heldReasoning' = NoReasoning
          /\ UNCHANGED quarantined
       \/ /\ pieces' = Append(pieces, Piece("badCall", Fresh))
          /\ quarantined' = quarantined \cup {Fresh}
          /\ UNCHANGED <<request, heldReasoning>>

Output(id) ==
    IF id \in quarantined THEN UNCHANGED <<request, heldReasoning>>
    ELSE /\ request' = WithResult(Piece("result", id))
         /\ heldReasoning' = NoReasoning

OutputItem(id) ==
    /\ id \in openCalls
    /\ openCalls' = openCalls \ {id}
    /\ pieces' = Append(pieces, Piece("result", id))
    /\ Output(id)
    /\ UNCHANGED quarantined

Item ==
    /\ client = "responses" /\ Len(pieces) < MaxPieces
    /\ UNCHANGED <<client, replay>>
    /\ \/ PromptItem
       \/ TextItem
       \/ ReasoningItem
       \/ CallItem
       \/ \E id \in openCalls : OutputItem(id)

---------------------------------------------------------------------------
(* An Anthropic client adds a whole message.                               *)

Add(role, plain, blocks) ==
    /\ Len(pieces) + Len(blocks) <= MaxPieces
    /\ pieces' = pieces \o blocks
    /\ request' = Append(request, RequestMessage(role, plain, blocks, <<>>))
    /\ UNCHANGED <<client, replay, heldReasoning, quarantined>>

Numbered(kinds) == [k \in DOMAIN kinds |-> Piece(kinds[k], Len(pieces) + k)]

\* The model goes on: the calls that are still open are given up.
AssistantMessage ==
    /\ client = "messages" /\ request # <<>>
    /\ \E n \in 1 .. MaxPieces - Len(pieces) :
          \E kinds \in [1 .. n -> {"text", "thinking", "redacted", "call"}] :
             /\ Add("assistant", FALSE, Numbered(kinds))
             /\ openCalls' = {Len(pieces) + k : k \in {i \in 1 .. n : kinds[i] = "call"}}

\* A list in which a user answers some of the open calls, each once and in any
\* order, and says something (Silent is no call) before, between or after them.
Silent == 0

ListOf(said) ==
    [k \in DOMAIN said |-> IF said[k] = Silent THEN Piece("note", Len(pieces) + k)
                           ELSE Piece("result", said[k])]

UserList ==
    \E n \in 1 .. MaxPieces - Len(pieces) :
        \E said \in [1 .. n -> openCalls \cup {Silent}] :
            /\ \A j, k \in 1 .. n : j < k /\ said[j] = said[k] => said[j] = Silent /\ k > j + 1
            /\ Add("user", FALSE, ListOf(said))
            /\ openCalls' = openCalls \ ToSet(said)

\* A user says something, a string, or sends a list; a message may follow another
\* of the user's.
UserMessage ==
    /\ client = "messages"
    /\ \/ UserList
       \/ Add("user", TRUE, <<Piece("prompt", Fresh)>>) /\ UNCHANGED openCalls

---------------------------------------------------------------------------
(* Messages become chat messages.                                          *)

ChatMessage(role, text, calls, answers, reasoning) ==
    [role |-> role, text |-> text, calls |-> calls, answers |-> answers,
     reasoning |-> reasoning]

\* _convert_assistant_message, of blocks without a call; mode is the replay of reasoning.
AssistantChat(mode, blocks, reasoning) ==
    ChatMessage("assistant", OfKind("text", blocks), <<>>, 0,
                IF mode = "disabled" THEN <<>>
                ELSE IF reasoning # <<>> THEN reasoning ELSE Ids(OfKind("thinking", blocks)))

\* _convert_assistant_message_with_split: what comes before the first call goes
\* with the calls; what comes after it is deferred until they are answered.
CallsOf(blocks) == {b \in DOMAIN blocks : blocks[b].kind = "call"}
BeforeCalls(blocks) == {b \in DOMAIN blocks : \A c \in CallsOf(blocks) : b < c}
AmongCalls(blocks) == DOMAIN blocks \ (BeforeCalls(blocks) \cup CallsOf(blocks))

CallChat(mode, message) ==
    [AssistantChat(mode, Picked(message.blocks, BeforeCalls(message.blocks)), message.reasoning)
        EXCEPT !.calls = Ids(OfKind("call", message.blocks))]

NoneDeferred == [awaited |-> {}, blocks |-> <<>>, reasoning |-> <<>>]

DeferredOf(message) ==
    LET rest == Picked(message.blocks, AmongCalls(message.blocks))
    IN IF rest = <<>> THEN NoneDeferred
       ELSE [awaited |-> ToSet(Ids(OfKind("call", message.blocks))), blocks |-> rest,
             reasoning |-> message.reasoning]

\* The deferred text joins what has been converted.
Joined(mode, state) ==
    IF state.pending.blocks = <<>> THEN state
    ELSE [chat |-> Append(state.chat,
                          AssistantChat(mode, state.pending.blocks, state.pending.reasoning)),
          pending |-> NoneDeferred]

ToolChat(id) == ChatMessage("tool", <<>>, <<>>, id, <<>>)
UserChat(prompts) == ChatMessage("user", prompts, <<>>, 0, <<>>)

\* A seeded fault: the deferred text follows the first result.
AnsweredOnce(mode, state, id) == Joined(mode, [state EXCEPT !.chat = Append(@, ToolChat(id))])

\* One result: the last one that was awaited brings the deferred text.
ResultChat(mode, state, id) ==
    LET told == [chat |-> Append(state.chat, ToolChat(id)),
                 pending |-> [state.pending EXCEPT !.awaited = @ \ {id}]]
    IN IF told.pending.awaited = {} THEN Joined(mode, told) ELSE told

\* One block of a user's list; the texts of a list are one prompt here.
UserBlock(mode, state, block) ==
    IF block.kind = "result" THEN ResultChat(mode, state, block.id)
    ELSE [state EXCEPT !.chat = Append(@, UserChat(<<block>>))]

UserBlocks(mode, state, blocks) ==
    LET upTo[n \in 0 .. Len(blocks)] ==
          IF n = 0 THEN state ELSE UserBlock(mode, upTo[n - 1], blocks[n])
    IN  upTo[Len(blocks)]

\* convert_messages: one message.
Converted(mode, state, message) ==
    LET joined == Joined(mode, state)
        said == AssistantChat(mode, message.blocks, message.reasoning)
    IN  IF message.role = "user"
        THEN IF message.plain
             THEN [joined EXCEPT !.chat = Append(@, UserChat(message.blocks))]
             ELSE UserBlocks(mode, state, message.blocks)
        ELSE IF message.plain THEN [state EXCEPT !.chat = Append(@, said)]
        ELSE IF CallsOf(message.blocks) = {} THEN [joined EXCEPT !.chat = Append(@, said)]
        ELSE [chat |-> Append(joined.chat, CallChat(mode, message)),
              pending |-> DeferredOf(message)]

\* All messages.
Conversion(mode, messages) ==
    LET upTo[n \in 0 .. Len(messages)] ==
          IF n = 0 THEN [chat |-> <<>>, pending |-> NoneDeferred]
          ELSE Converted(mode, upTo[n - 1], messages[n])
    IN  upTo[Len(messages)]

\* What a request made now would send.
Chat == Joined(replay, Conversion(replay, Flushed(request, heldReasoning))).chat

ConvNext == Item \/ AssistantMessage \/ UserMessage

ConvSpec == ConvInit /\ [][ConvNext]_convVars

---------------------------------------------------------------------------
(* Properties.                                                             *)

\* The pieces of a chat message, in the order a reader meets them, and where they are told.
Told(message) ==
    message.text
        \o [c \in DOMAIN message.calls |-> Piece("call", message.calls[c])]
        \o (IF message.role = "tool" THEN <<Piece("result", message.answers)>> ELSE <<>>)

Spots(chat) == UNION {{<<m, t>> : t \in DOMAIN Told(chat[m])} : m \in DOMAIN chat}
ToldAt(chat, spot) == Told(chat[spot[1]])[spot[2]]
Earlier(r, s) == r[1] < s[1] \/ (r[1] = s[1] /\ r[2] < s[2])

\* What a provider must be told of a history: all but reasoning and calls left out.
MustBeTold(history) ==
    {p \in DOMAIN history :
        \/ history[p].kind \in {"prompt", "note", "text", "call"}
        \/ history[p].kind = "result" /\ history[history[p].id].kind = "call"}

\* Two pieces of one turn of the assistant, which may go on over several messages.
SameTurn(history, p, q) ==
    \A between \in (p + 1 .. q - 1) \cup (q + 1 .. p - 1) :
        history[between].kind \notin {"prompt", "note", "result"}

AnsweredBefore(history, id, q) ==
    \E r \in 1 .. q - 1 : history[r].kind = "result" /\ history[r].id = id

\* What the user says in a list while the text's turn waits for a result; the model
\* has not gone on since.
MeantimeNote(history, p, q) ==
    /\ history[q].kind = "note"
    /\ \A between \in p + 1 .. q - 1 :
          history[between].kind \in {"prompt", "note", "result"} \/ SameTurn(history, p, between)
    /\ \E c \in 1 .. q - 1 :
          history[c].kind = "call" /\ SameTurn(history, p, c) /\ ~ AnsweredBefore(history, c, q)

\* A text said among the calls of a turn may follow them and their results, and
\* what the user says in a list before the last result.
MayFollow(history, p, q) ==
    /\ history[p].kind = "text"
    /\ \/ history[q].kind = "call" /\ SameTurn(history, p, q)
       \/ history[q].kind = "result" /\ SameTurn(history, p, history[q].id)
       \/ MeantimeNote(history, p, q)

\* These pieces of a history are in a chat, each once, with nothing else, and in their
\* order but for what is deferred until the results of a turn's calls.
Tells(chat, history, places) ==
    LET told(s, p) == ToldAt(chat, s) = history[p]
    IN  /\ \A s \in Spots(chat) : \E p \in places : told(s, p)
        /\ \A p \in places : \E s \in Spots(chat) : told(s, p)
        /\ \A r, s \in Spots(chat) : ToldAt(chat, r) = ToldAt(chat, s) => r = s
        /\ \A p, q \in places : p < q /\ ~MayFollow(history, p, q) =>
              \A r, s \in Spots(chat) : told(r, p) /\ told(s, q) => Earlier(r, s)

\* Every prompt, text, call and result is told; and, when reasoning is replayed, so is
\* every piece of reasoning.
ChatTellsHistory ==
    LET chat == Chat
    IN  /\ Tells(chat, pieces, MustBeTold(pieces))
        /\ replay = "reasoning_content" =>
             \A p \in DOMAIN pieces : pieces[p].kind = "thinking" =>
                \E m \in DOMAIN chat : pieces[p].id \in ToSet(chat[m].reasoning)

AnsweredCalls(history) == {history[p].id : p \in {r \in DOMAIN history : history[r].kind = "result"}}

\* In a turn of a Responses client with these calls the model said something
\* after a call and before the outputs.
TextAfter(history, calls) ==
    \E id \in calls, p, q \in DOMAIN history :
        /\ p < q /\ history[p].kind = "call" /\ history[q].kind = "text"
        /\ SameTurn(history, p, q) /\ SameTurn(history, p, id)

\* The user said something before the result of one of these calls.
TalkedOver(history, calls) ==
    \E id \in calls, q \in DOMAIN history :
        id < q /\ history[q].kind \in {"prompt", "note"} /\ ~ AnsweredBefore(history, id, q)

ResultsFollow(chat, m) ==
    LET calls == ToSet(chat[m].calls)
    IN  /\ m + Cardinality(calls) <= Len(chat)
        /\ {chat[m + a].answers : a \in 1 .. Cardinality(calls)} = calls

\* The results of a message's calls follow it at once, as a chat provider
\* demands, when the client gave them all, unless a Responses client has a text
\* between a call and its output, or the user said something before a result:
\* the conversion leaves these there.
CallsAreAnsweredAtOnce ==
    LET chat == Chat
    IN \A m \in {n \in DOMAIN chat : chat[n].calls # <<>>} :
          \/ ~ ToSet(chat[m].calls) \subseteq AnsweredCalls(pieces)
          \/ client = "responses" /\ TextAfter(pieces, ToSet(chat[m].calls))
          \/ TalkedOver(pieces, ToSet(chat[m].calls))
          \/ ResultsFollow(chat, m)

\* A chat provider is told the whole conversation, in an order it accepts
\* (convert_request_to_anthropic_payload, AnthropicToOpenAIConverter.convert_messages).
ChatIsTheConversation == ChatTellsHistory /\ CallsAreAnsweredAtOnce
=============================================================================
