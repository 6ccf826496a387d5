------------------------------ MODULE TextFeed ------------------------------
(***************************************************************************)
(* The text of a model arrives in chunks that end anywhere: that of the    *)
(* bridge's head model goes to the leader parser                           *)
(* (src/providers/mahbub/client.py), that of an OpenAI model through the   *)
(* parser of thinking and then that of tool calls (run in                  *)
(* src/providers/transports/openai_chat/stream.py).                        *)
(***************************************************************************)
EXTENDS ToolTextParser, SequencesExt

CONSTANT MaxItems      \* bound: words and tags of the head model

Leader == INSTANCE LeaderParser

VARIABLES text, unread, leader, model
textVars == <<text, unread, leader, model>>

\* broken is a history variable: a chunk has ended where a call breaks off (Breaks).
NewModel == [think |-> NewThink, tools |-> NewTools, thinking |-> <<>>, ended |-> FALSE,
             broken |-> FALSE]

(***************************************************************************)
(* What models write: the reader it is for, the units of the text, and the *)
(* calls and the thinking that are meant by them.  The first call to Bash  *)
(* and the second to Write are in the form that the program's own prompt   *)
(* asks for (_format_tools_as_text, src/providers/ollama/client.py).       *)
(***************************************************************************)
Prose  == Piece("words", "w", 1)
Given  == Piece("words", "v", 1)
Gap    == Piece("space", "n", 1)
Bullet == Piece("bullet", "b", 1)
Markup == Given \o Piece("lt", "<", 1) \o Piece("word", "x", 1)
Listed == Given \o Bullet \o Given
Tool(n)         == Piece("function", n, 3)
Function(n)     == Bullet \o Tool(n)
Begin(k, v)     == Piece("parameter", k, 3) \o v
Parameter(k, v) == Begin(k, v) \o Piece("end", "parameter", 3)

Meant(units, calls, thinking) ==
    [reader |-> "model", units |-> units, calls |-> calls, thinking |-> thinking]
Says(units) == Meant(units, <<>>, <<>>)
Asks(units, calls) == Meant(units, calls, <<>>)

Bash(v)  == <<"Bash", [x \in {"command"} |-> v]>>
Write(v) == <<"Write", [x \in {"file_path", "content"} |->
                          IF x = "content" THEN v ELSE Given]>>
Path     == Parameter("path", Given)

ModelItem ==
    {Says(Prose), Says(Bullet \o Prose), Says(Piece("control", "c", 2)),
     Meant(Piece("think", "t", 2) \o Prose \o Piece("unthink", "t", 2), <<>>, Prose),
     Asks(Function("Bash") \o Gap \o Parameter("command", Markup) \o Gap, <<Bash(Markup)>>),
     Asks(Function("run_command") \o Parameter("cmd", Given) \o Piece("end", "function", 3),
            <<Bash(Given)>>),
     Asks(Tool("Bash") \o Parameter("cmd", Given), <<Bash(Given)>>),
     Says(Function("Write") \o Path),
     Asks(Function("Write") \o Gap \o Path \o Gap \o Parameter("content", Markup),
            <<Write(Markup)>>),
     Asks(Function("Write") \o Path \o Parameter("content", Listed), <<Write(Listed)>>),
     Asks(Function("Write") \o Path \o Begin("content", Given) \o Gap \o Function("Bash")
            \o Parameter("command", Given), <<Write(Given), Bash(Given)>>),
     Says(Function("Other") \o Path \o Prose),
     Asks(Piece("call", "json", 2), <<<<"json", <<>>>>>>)}

\* A call that the end of the text cuts off.
CutOff == Asks(Function("Bash") \o Begin("command", Given) \o Gap, <<Bash(Given)>>)

(***************************************************************************)
(* Where a call breaks off when a chunk ends after the n-th unit.  i is a  *)
(* function or a parameter, e the end of the parameter that comes next.    *)
(***************************************************************************)
Tags(s, kind) == At(s, kind, 3)
EndAfter(s, i) == First({e \in Tags(s, "end") : e > i})
Bound(s, i) ==
    IF EndAfter(s, i) = 0 \/ \E j \in Tags(s, "parameter") : i < j /\ j < EndAfter(s, i)
    THEN 0 ELSE EndAfter(s, i)

\* In the blanks before a parameter: the call is over for the parser.
BlankBreaks(s) == {i - 1 : i \in {j \in Tags(s, "parameter") : s[j - 1][1] = "space"}}
\* In a value, after a bullet in it: for the parser a new call begins at the bullet.
BulletBreaks(s) ==
    UNION {{n \in DOMAIN s : \E b \in Singles(s, "bullet") : i < b /\ b <= n /\ n < Bound(s, i) + 2} :
             i \in Tags(s, "parameter")}
\* Behind a function that is not registered, before its parameter ends: the parameter is
\* taken for a call of its own.
SkipBreaks(s) ==
    UNION {i + 2 .. EndAfter(s, i) + 1 : i \in {j \in Tags(s, "function") : s[j][2] = "Other"}}
\* Before the "=" of a function without a bullet, or within a call in another notation:
\* the beginning is passed on as text.
HalfBreaks(s) ==
    {i \in Tags(s, "function") : i = 1 \/ s[i - 1][1] # "bullet"} \cup At(s, "call", 2)

Breaks(s) == BlankBreaks(s) \cup BulletBreaks(s) \cup SkipBreaks(s) \cup HalfBreaks(s)

ModelText(a, b) ==
    LET units == a.units \o b.units
    IN  [reader |-> "model", units |-> units, breaks |-> Breaks(units),
         calls |-> a.calls \o b.calls, thinking |-> a.thinking \o b.thinking]

ModelTexts == {ModelText(a, b) : a \in ModelItem, b \in ModelItem \cup {CutOff}}

LeaderItem ==
    {Leader!Word("a"), Leader!Lt} \cup
    UNION {{Leader!Open(t), Leader!Close(t)} : t \in {"thinking", "delegate", "plan", "context"}}

LeaderTexts ==
    {[reader |-> "leader", units |-> FlattenSeq(items)] :
       items \in BoundedSeq(LeaderItem, MaxItems)}

TextInit ==
    /\ text \in ModelTexts \cup LeaderTexts /\ unread = text.units
    /\ leader = Leader!NewParser /\ model = NewModel

\* The thinking and the text that one chunk consists of, one after the other.
RECURSIVE ReadParts(_, _)
ReadParts(m, parts) ==
    IF parts = <<>> THEN m
    ELSE LET part == Head(parts)[2]
         IN  ReadParts(IF Head(parts)[1] = "thinking"
                       THEN [m EXCEPT !.thinking = @ \o part]
                       ELSE [m EXCEPT !.tools = FeedTools(@, part)],
                       Tail(parts))

ReadChunk(m, chunk) ==
    LET think == FeedThink(m.think, chunk)
    IN  ReadParts([m EXCEPT !.think = [think EXCEPT !.out = <<>>]], think.out)

\* What is left after the last chunk.  Text that the parser of thinking still held is
\* passed on as it is, before the call that is still open.
ReadEnd(m) ==
    LET left == FlushThink(m.think).out
        last == IF left # <<>> /\ left[1][1] = "text" THEN left[1][2] ELSE <<>>
    IN  [m EXCEPT !.think = NewThink, !.ended = TRUE,
           !.thinking = IF left # <<>> /\ left[1][1] = "thinking" THEN @ \o left[1][2] ELSE @,
           !.tools = FlushTools([@ EXCEPT !.text = @ \o last])]

\* The place in the text where a chunk of n units ends.
End(n) == Len(text.units) - Len(unread) + n

TakeChunk ==
    \E n \in 1 .. Len(unread) :
      LET chunk == SubSeq(unread, 1, n)
      IN  /\ unread' = From(unread, n + 1) /\ text' = text
          /\ IF text.reader = "leader"
             THEN leader' = Leader!Feed(leader, chunk) /\ UNCHANGED model
             ELSE /\ model' = ReadChunk([model EXCEPT !.broken = @ \/ End(n) \in text.breaks],
                                       chunk)
                  /\ UNCHANGED leader

EndText ==
    /\ unread = <<>> /\ ~ model.ended /\ UNCHANGED <<text, unread>>
    /\ model' = ReadEnd(model)
    /\ leader' = Leader!Finalize(leader)

TextNext == TakeChunk \/ EndText
TextSpec == TextInit /\ [][TextNext]_textVars
-----------------------------------------------------------------------------
(* Properties.                                                             *)

\* Wherever the chunks end, the leader parser finds the plan, the notes, the files, the
\* delegate and the thinking that it finds in the text as a whole (LeaderOutputParser.feed,
\* which holds back what may be the beginning of a tag).
LeaderReadsChunks ==
    model.ended /\ text.reader = "leader" =>
      leader = Leader!Finalize(Leader!Feed(Leader!NewParser, text.units))

Tagged(calls) == SelectSeq(calls, LAMBDA c : c[1] \in Allowed)

\* A chunk that ends where a call does not break off changes nothing in what is called: of
\* the calls that a model has written each is detected once, with the values it gave, and
\* those in tags in their order (HeuristicToolParser.feed and flush).
CallsSurviveChunks ==
    model.ended /\ text.reader = "model" /\ ~ model.broken =>
      /\ Tagged(model.tools.tools) = Tagged(text.calls)
      /\ Len(model.tools.tools) = Len(text.calls)

\* Wherever the chunks end, what the model thought is thinking, and nothing else is
\* (ThinkTagParser.feed and flush).
ThinkingSurvivesChunks ==
    model.ended /\ text.reader = "model" => model.thinking = text.thinking

Written ==
    {SubSeq(text.units, i + 3, IF EndAfter(text.units, i) = 0 THEN Len(text.units)
                               ELSE EndAfter(text.units, i) - 1) :
       i \in Tags(text.units, "parameter")}

\* Even of a call that breaks off, no value holds anything but the beginning of what the
\* model wrote for a parameter: never its end tag or a part of it.
ValuesAreWritten ==
    text.reader = "model" =>
      \A c \in Range(model.tools.tools) : \A k \in DOMAIN c[2] :
        \E v \in Written : IsPrefix(c[2][k], v)


\* What the parser says of itself: a parameter that arrives in a later chunk still attaches
\* to its call ("held instead so parameters arriving in later chunks still attach", in
\* HeuristicToolParser.feed), so that no command is run without its text.
ParametersAttach ==
    text.reader = "model" =>
      \A c \in Range(Tagged(model.tools.tools)) : c[1] = "Bash" => "command" \in DOMAIN c[2]
=============================================================================
