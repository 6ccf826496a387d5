-------------------------- MODULE MessagesGateway --------------------------
(***************************************************************************)
(* How the gateway answers one request after another: the handlers of      *)
(* /v1/messages and /v1/responses (src/api/handlers), the routing to a     *)
(* provider (model_router.py, provider_execution.py), the answers without  *)
(* one (detection.py, optimization_handlers.py), the local web tools       *)
(* (web_tools/*.py), and the folding of a stream into one message for a    *)
(* client that asked for no stream (core/anthropic/sse_aggregation.py).    *)
(*                                                                         *)
(* A provider's stream is any stream of StreamContract, cut anywhere by an *)
(* exception, and deltas and stops of any block may stray into it, as      *)
(* NativeStream passes them on.  A request is what decides its path; its   *)
(* messages are text, or lists of blocks, which compression empties        *)
(* (ContextHistory).                                                       *)
(***************************************************************************)
EXTENDS Naturals, Sequences, FiniteSets

CONSTANTS
    MaxRequests,    \* bound: requests
    MaxBlocks,      \* bound: blocks of a provider's stream
    MaxStream       \* bound: events of a provider's stream

ASSUME GateAssumption == MaxBlocks \in Nat

VARIABLES
    gateAt,         \* "idle", "fetching", "telling", "streaming"
    requests,
    asked,          \* of the request in progress, or the last one: its path,
                    \* and whether its client wants a stream
    stream,         \* the events of its stream
    folded,         \* the message folded from the stream: blocks and stop reason
    foldError,      \* a top-level error was folded
    whole,          \* of the tools folded, those whose parts make a JSON value
    answer          \* what the client got: its kind, and a message's content

gateVars == <<gateAt, requests, asked, stream, folded, foldError,
              whole, answer>>

Provider == {"chat", "native"}
\* A model names a provider, as a gateway id or as provider/model, or is a
\* Claude name, of a tier or not.  A probe is one of the requests that need no
\* model, told by its system prompt (a title) or by a message (a quota, a
\* command's prefix, a suggestion, file paths).
Requests ==
    [wire : {"messages", "responses"}, stream : BOOLEAN, empty : BOOLEAN,
     model : [named : Provider \cup {"none"}, tier : BOOLEAN],
     probe : {"none", "system", "message"}, tool : {"none", "listed", "search", "fetch"},
     form : {"text", "blocks"}]

\* Settings may be replaced between two requests (ProviderRuntimes).
Settings == [webTools : BOOLEAN, fast : BOOLEAN, tierModel : Provider \cup {"none"},
             model : Provider]

NothingFolded == [blocks |-> <<>>, stop |-> "none"]

NoAnswer == [kind |-> "none", content |-> <<>>, stop |-> "none"]

GateInit ==
    /\ gateAt = "idle" /\ requests = 0 /\ asked = [path |-> "none", stream |-> FALSE]
    /\ stream = <<>>
    /\ folded = NothingFolded /\ foldError = FALSE /\ whole = {} /\ answer = NoAnswer

---------------------------------------------------------------------------
(* Routing.                                                                *)

\* ModelRouter.resolve; a provider that is not supported is not named.
Resolve(model, settings) ==
    IF model.named # "none" THEN model.named
    ELSE IF model.tier /\ settings.tierModel # "none" THEN settings.tierModel
    ELSE settings.model

\* detection.py, over messages whose blocks compression has emptied.
Detected(request) ==
    \/ request.probe = "system"
    \/ request.probe = "message" /\ request.form = "text"

Forced(request) == request.tool \in {"search", "fetch"}

\* openai_chat_upstream_server_tool_error.
Unsupported(request, settings) ==
    IF Forced(request) THEN ~settings.webTools ELSE request.tool = "listed"

\* What the handler does with a request; nothing is awaited before.
Path(request, settings) ==
    LET provider == Resolve(request.model, settings) IN
    IF request.wire = "responses"
    THEN IF ~request.stream \/ request.empty THEN "refused" ELSE "provider"
    ELSE IF request.empty \/ (provider = "chat" /\ Unsupported(request, settings)) THEN "refused"
    ELSE IF Forced(request) /\ settings.webTools THEN "webTool"
    ELSE IF Detected(request) /\ settings.fast THEN "local"
    ELSE "provider"

---------------------------------------------------------------------------
(* Answering.                                                              *)

Answer(kind, message) ==
    /\ answer' = [kind |-> kind, content |-> message.blocks, stop |-> message.stop]
    /\ gateAt' = "idle"

Receive ==
    /\ gateAt = "idle" /\ requests < MaxRequests
    /\ requests' = requests + 1
    /\ stream' = <<>>
    /\ folded' = NothingFolded /\ foldError' = FALSE /\ whole' = {}
    /\ \E request \in Requests, settings \in Settings :
          LET path == Path(request, settings) IN
          /\ asked' = [path |-> path, stream |-> request.stream]
          /\ CASE path = "refused" -> Answer("error", NothingFolded)
               [] path = "local" ->
                     Answer("message", [blocks |-> <<[type |-> "text", parts |-> 1]>>,
                                        stop |-> "end_turn"])
               [] path = "webTool" -> gateAt' = "telling" /\ answer' = NoAnswer
               [] OTHER -> gateAt' = "streaming" /\ answer' = NoAnswer

\* provider.preflight_stream, or the lookup of the provider, raises.
PreflightRaises ==
    /\ gateAt = "streaming" /\ stream = <<>>
    /\ Answer("error", NothingFolded)
    /\ UNCHANGED <<requests, asked, stream, folded, foldError, whole>>

\* A block is begun, with the parts that came before, and a part is added: a
\* delta that no start went before begins a block of text.
Begun(blocks, event) ==
    [b \in DOMAIN blocks \cup {event.block} |->
        IF b # event.block THEN blocks[b]
        ELSE [type |-> event.type, parts |-> IF b \in DOMAIN blocks THEN blocks[b].parts ELSE 0]]

Added(blocks, block) ==
    [b \in DOMAIN blocks \cup {block} |->
        IF b # block THEN blocks[b]
        ELSE IF b \in DOMAIN blocks THEN [blocks[b] EXCEPT !.parts = @ + 1]
        ELSE [type |-> "text", parts |-> 1]]

\* A seeded fault: the parts of all blocks are kept together, for the block
\* with the highest number.
FoldInLast(event) ==
    LET last == CHOOSE b \in DOMAIN folded.blocks : \A c \in DOMAIN folded.blocks : c <= b IN
    IF event.kind = "open" THEN [folded EXCEPT !.blocks = Begun(@, event)]
    ELSE IF event.kind = "delta"
    THEN [folded EXCEPT !.blocks = Added(@, IF @ = <<>> THEN event.block ELSE last)]
    ELSE folded

\* aggregate_anthropic_sse_to_message: one event.
Fold(event) ==
    CASE event.kind = "open" -> [folded EXCEPT !.blocks = Begun(@, event)]
      [] event.kind = "delta" -> [folded EXCEPT !.blocks = Added(@, event.block)]
      [] event.kind = "usage" -> [folded EXCEPT !.stop = "told"]
      [] OTHER -> folded

\* The content of the message: the parts of a text are joined (thinking is
\* like text), and those of a tool are its arguments if they parse, or else
\* dropped for the input it was opened with, as a tool that was cut off; of
\* a block of any other type nothing but its start is kept.
Content(blocks, parsing) ==
    [b \in DOMAIN blocks |->
        IF blocks[b].type = "text" \/ b \in parsing THEN blocks[b]
        ELSE [blocks[b] EXCEPT !.parts = 0]]

Tell(event) ==
    /\ stream' = Append(stream, event)
    /\ IF asked.stream
       THEN UNCHANGED <<folded, foldError>>
       ELSE folded' = Fold(event) /\ foldError' = (foldError \/ event.kind = "error")

\* The end of a stream.  An error after some content is not told to a client
\* that asked for a message; a missing stop reason is "end_turn".
Finish(message, failed) ==
    /\ whole' \in SUBSET {b \in DOMAIN message.blocks : message.blocks[b].type = "tool"}
    /\ IF asked.stream
       THEN Answer("stream", NothingFolded)
       ELSE IF failed /\ message.blocks = <<>>
       THEN Answer("error", NothingFolded)
       ELSE Answer("message",
                   [blocks |-> Content(message.blocks, whole'),
                    stop |-> IF message.stop = "none" THEN "end_turn" ELSE message.stop])

---------------------------------------------------------------------------
(* A provider's stream.                                                    *)

Given == INSTANCE StreamContract WITH sent <- stream

ProviderEvents ==
    [kind : {"start", "error", "usage", "end"}, block : {0}, type : {"message"}]
        \cup [kind : {"open", "delta", "stop"}, block : 1..MaxBlocks,
              type : {"text", "tool", "other"}]

\* What NativeStream passes on as it came: its block is one that was not opened,
\* or is closed, or another's.
Strays(event) ==
    /\ event.kind \in {"delta", "stop"} /\ event.type = "text"
    /\ stream # <<>> /\ ~ Given!Has(stream, "end")

ProviderSends ==
    /\ gateAt = "streaming" /\ Len(stream) < MaxStream
    /\ \E event \in ProviderEvents :
          (Given!Legal(stream, event) \/ Strays(event)) /\ Tell(event)
    /\ UNCHANGED <<gateAt, requests, asked, whole, answer>>

ProviderEnds ==
    /\ gateAt = "streaming" /\ stream # <<>>
    /\ Finish(folded, foldError)
    /\ UNCHANGED <<requests, asked, stream, folded, foldError>>

\* The stream raises: a client that streams is cut off.
ProviderRaises ==
    /\ gateAt = "streaming" /\ stream # <<>>
    /\ Answer(IF asked.stream THEN "cut" ELSE "error", NothingFolded)
    /\ UNCHANGED <<requests, asked, stream, folded, foldError, whole>>

---------------------------------------------------------------------------
(* The local web tools.                                                    *)

E(kind, block, type) == [kind |-> kind, block |-> block, type |-> type]

\* stream_web_server_tool_response: the call, its result and a summary of it.
ToolTurn ==
    <<E("start", 0, "message"),
      E("open", 1, "other"), E("stop", 1, "other"),
      E("open", 2, "other"), E("stop", 2, "other"),
      E("open", 3, "text"), E("delta", 3, "text"), E("stop", 3, "text"),
      E("usage", 0, "message"), E("end", 0, "message")>>

FetchAfter == 3     \* the call is told before the tool runs

ToolTells ==
    /\ gateAt = "telling" /\ Len(stream) < Len(ToolTurn)
    /\ Tell(ToolTurn[Len(stream) + 1])
    /\ gateAt' = IF Len(stream) + 1 = FetchAfter THEN "fetching" ELSE gateAt
    /\ UNCHANGED <<requests, asked, whole, answer>>

ToolEnds ==
    /\ gateAt = "telling" /\ Len(stream) = Len(ToolTurn)
    /\ Finish(folded, foldError)
    /\ UNCHANGED <<requests, asked, stream, folded, foldError>>

\* _run_web_search or _run_web_fetch, which follows a bounded number of
\* redirects: a result, or a failure that is told as one.
ToolReturns ==
    /\ gateAt = "fetching"
    /\ gateAt' = "telling"
    /\ UNCHANGED <<requests, asked, stream, folded, foldError, whole, answer>>

GateNext ==
    \/ Receive \/ PreflightRaises
    \/ ProviderSends \/ ProviderEnds \/ ProviderRaises
    \/ ToolTells \/ ToolEnds \/ ToolReturns

GateSpec == GateInit /\ [][GateNext]_gateVars

---------------------------------------------------------------------------

Parts(block) ==
    Cardinality({i \in DOMAIN stream : stream[i].kind = "delta" /\ stream[i].block = block})

\* A client gets the kind of answer it asked for, unless the answer needed no
\* provider; and the message folded for it has every block that the stream
\* opened or wrote to, an error alone excepted: a text with all its parts, a
\* tool with all of them or, if they do not parse, with none.
AnswersInKind ==
    gateAt = "idle" /\ requests > 0 =>
        /\ answer.kind # "none"
        /\ ~asked.stream => answer.kind \in {"message", "error"}
        /\ asked.stream /\ answer.kind = "message" => asked.path = "local"
        /\ ~asked.stream /\ stream # <<>> /\ answer.kind = "message" =>
              /\ DOMAIN answer.content = Given!Blocks(stream, "open") \cup Given!Blocks(stream, "delta")
              /\ \A b \in DOMAIN answer.content :
                    LET type == answer.content[b].type IN
                    /\ answer.content[b].parts =
                          IF type = "text" \/ (type = "tool" /\ b \in whole) THEN Parts(b) ELSE 0
                    /\ IF b \in Given!Blocks(stream, "open")
                       THEN E("open", b, type) \in {stream[i] : i \in DOMAIN stream}
                       ELSE type = "text"
              /\ answer.content = <<>> => ~Given!Has(stream, "error")

\* The turn of a web tool keeps the contract of a stream, whatever the tool
\* does, as far as it has been told.
WebTurnKeepsContract ==
    asked.path = "webTool" =>
        \A k \in DOMAIN stream : Given!Legal(SubSeq(stream, 1, k - 1), stream[k])

\* A client of POST /v1/messages is answered in the form it asked for and with all that
\* was said, whichever of the paths answers (MessagesHandler.create).
AnswersKeepTheirForm == AnswersInKind /\ WebTurnKeepsContract
=============================================================================
