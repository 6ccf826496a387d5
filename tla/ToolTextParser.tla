--------------------------- MODULE ToolTextParser ---------------------------
(***************************************************************************)
(* How the text of a model is read, chunk by chunk: ThinkTagParser         *)
(* (src/core/anthropic/thinking.py), and HeuristicToolParser               *)
(* (src/core/anthropic/tools.py), which finds the tool calls that a model  *)
(* has written into its text.                                              *)
(*                                                                         *)
(* Text is a sequence of units <<kind, name, piece>>.  Kinds of one piece: *)
(* "words" (prose), "word" (one identifier), "space", "bullet", "lt" (a    *)
(* "<" that begins no tag).  Tags, and calls in another notation, are cut  *)
(* where a chunk can end in them:                                          *)
(*   call       a ca|ll (name: "json", "web" or "python")                  *)
(*   think      <th|ink>              unthink   </th|ink>                  *)
(*   control    <|na|me|>                                                  *)
(*   function   <function|=na|me>     parameter <parameter|=na|me>         *)
(*   end        <|/na|me>             the end of a parameter or a function *)
(***************************************************************************)
EXTENDS Naturals, Sequences, FiniteSetsExt

CONSTANT Allowed      \* allowed_tool_names, not empty

From(s, i) == SubSeq(s, i, Len(s))
First(S)   == IF S = {} THEN 0 ELSE Min(S)
Piece(kind, name, n) == [i \in 1 .. n |-> <<kind, name, i>>]

\* Where n pieces of a tag of this kind follow each other.
At(s, kind, n) ==
    {i \in 1 .. Len(s) - n + 1 :
       s[i][1] = kind /\ \A k \in 1 .. n : s[i + k - 1] = <<kind, s[i][2], k>>}
Singles(s, kind) == {i \in DOMAIN s : s[i][1] = kind}

-----------------------------------------------------------------------------
(* ThinkTagParser.                                                         *)

NewThink == [buffer |-> <<>>, inside |-> FALSE, out |-> <<>>, busy |-> FALSE]

\* ContentChunks are sequences of <<kind of content, text>>; empty ones are not yielded.
Chunks(p, kind, text) == IF text = <<>> THEN p.out ELSE Append(p.out, <<kind, text>>)

\* What may be passed on: all but a beginning of a tag at the end.
Safe(s, kinds) ==
    IF s # <<>> /\ s[Len(s)][1] \in kinds \cup {"lt"} /\ s[Len(s)][3] = 1
    THEN Len(s) - 1 ELSE Len(s)

OutsideThink(p) ==
    LET open   == First(At(p.buffer, "think", 2))
        orphan == First(At(p.buffer, "unthink", 2))
        tag    == IF orphan # 0 /\ (open = 0 \/ orphan < open) THEN orphan ELSE open
        cut    == IF tag # 0 THEN tag - 1 ELSE Safe(p.buffer, {"think", "unthink"})
    IN  [p EXCEPT !.out    = Chunks(p, "text", SubSeq(p.buffer, 1, cut)),
                  !.buffer = From(@, IF tag # 0 THEN tag + 2 ELSE cut + 1),
                  !.inside = tag # 0 /\ tag = open,
                  !.busy   = tag # 0]

InsideThink(p) ==
    LET end == First(At(p.buffer, "unthink", 2))
        cut == IF end # 0 THEN end - 1 ELSE Safe(p.buffer, {"unthink"})
    IN  [p EXCEPT !.out    = Chunks(p, "thinking", SubSeq(p.buffer, 1, cut)),
                  !.buffer = From(@, IF end # 0 THEN end + 2 ELSE cut + 1),
                  !.inside = end = 0,
                  !.busy   = end # 0]

RECURSIVE ThinkLoop(_)
ThinkLoop(p) == IF ~ p.busy THEN p
                ELSE ThinkLoop(IF p.inside THEN InsideThink(p) ELSE OutsideThink(p))

\* What is yielded replaces what the last chunk yielded.
FeedThink(p, chunk) ==
    ThinkLoop([p EXCEPT !.buffer = @ \o chunk, !.out = <<>>, !.busy = TRUE])

FlushThink(p) ==
    [p EXCEPT !.buffer = <<>>,
              !.out = Chunks([p EXCEPT !.out = <<>>],
                             IF p.inside THEN "thinking" ELSE "text", p.buffer)]

-----------------------------------------------------------------------------
(* HeuristicToolParser: the parts of the text it looks for.                *)

NewTools ==
    [state |-> "text", buffer |-> <<>>,
     name   |-> "none",      \* _current_function_name
     params |-> <<>>,        \* _current_parameters, a function from names
     open   |-> "none",      \* _open_param_name
     value  |-> <<>>,        \* _open_param_value
     text   |-> <<>>,        \* the text feed returns
     tools  |-> <<>>,        \* the calls detected, in their order
     busy   |-> FALSE]

Put(f, k, v) == [x \in DOMAIN f \cup {k} |-> IF x = k THEN v ELSE f[x]]

WithoutUnits(s, S) ==
    LET keep == SelectSeq([i \in 1 .. Len(s) |-> i], LAMBDA i : i \notin S)
    IN  [i \in DOMAIN keep |-> s[keep[i]]]

Covered(s, kind, n) == UNION {i .. i + n - 1 : i \in At(s, kind, n)}

\* _strip_control_tokens and strip_stray_tags.
StripControl(s) == WithoutUnits(s, Covered(s, "control", 2))
StripStray(s) ==
    WithoutUnits(s, Covered(s, "function", 3) \cup Covered(s, "parameter", 3)
                      \cup Covered(s, "end", 3))

(***************************************************************************)
(* Calls in another notation, wherever they are in the buffer:             *)
(* _extract_raw_json_tool_calls, then _extract_web_tool_json_calls, which  *)
(* takes all the text with it, then _extract_python_style_tool_calls.      *)
(***************************************************************************)
InNotation(p, n) ==
    LET whole == {i \in At(p.buffer, "call", 2) : p.buffer[i][2] = n}
    IN  [k \in 1 .. Cardinality(whole) |-> n]

JsonCalls(p)   == InNotation(p, "json")
WebCalls(p)    == InNotation(p, "web")
PythonCalls(p) == InNotation(p, "python")

Extract(p) ==
    LET found == JsonCalls(p) \o WebCalls(p) \o PythonCalls(p)
    IN  [p EXCEPT !.tools  = @ \o [i \in DOMAIN found |-> <<found[i], <<>>>>],
                  !.buffer = IF WebCalls(p) # <<>> THEN <<>>
                             ELSE WithoutUnits(@, Covered(@, "call", 2))]

ParamOpen(s)  == First(At(s, "parameter", 3))
\* _match_param_close accepts the end of this parameter and of any "parameter".
ParamClose(s, name) ==
    First({i \in At(s, "end", 3) : s[i][2] \in {name, "parameter"}})
EndMarker(s) == First(Singles(s, "bullet") \cup At(s, "function", 2))

\* is_potential_tool_call_start: after bullets and blanks, nothing, one identifier, or
\* a beginning of a tag.
PotentialStart(s) ==
    LET plain == {i \in DOMAIN s : s[i][1] \notin {"bullet", "space"}}
        rest  == From(s, Min(plain))
    IN  \/ plain = {}
        \/ rest[1][1] \in {"function", "parameter"} /\ rest[1][3] = 1
        \/ Len(rest) = 1 /\ rest[1][1] \in {"word", "lt"}

\* A parameter that stands where the buffer begins, without a function.
BareStart(s) ==
    LET b == First(At(s, "parameter", 3))
    IN  b # 0 /\ \A i \in 1 .. b - 1 : s[i][1] \in {"bullet", "space"}

\* The parameters that follow an unregistered function are skipped with it.
RECURSIVE Attached(_, _)
Attached(s, i) ==
    LET j   == CHOOSE k \in i .. Len(s) + 1 :
                 /\ \A m \in i .. k - 1 : s[m][1] = "space"
                 /\ k \in DOMAIN s => s[k][1] # "space"
        end == First({k \in At(s, "end", 3) : k > j})
    IN  IF j \in At(s, "parameter", 3) /\ end # 0 THEN Attached(s, end + 3) ELSE i

-----------------------------------------------------------------------------
(* Tools and their parameters, with one alias of each.                     *)

WriteTools == {"Write", "write_to_file"}
BashTools  == {"Bash", "run_command"}
ReadTools  == {"Read", "view_file"}

\* resolve_tool_name: the registered tool that a name stands for.
Resolve(name) ==
    LET same == UNION {F \in {WriteTools, BashTools, ReadTools} : name \in F} \cap Allowed
    IN  IF name \in Allowed THEN name
        ELSE IF same # {} THEN CHOOSE n \in same : TRUE ELSE "none"

\* normalize_tool_parameters: what a tool calls a parameter.
Canonical(tool, param) ==
    CASE param = "path" /\ tool \in WriteTools \cup ReadTools -> "file_path"
      [] param = "code" /\ tool = "Write"            -> "content"
      [] param = "content" /\ tool = "write_to_file" -> "code"
      [] param = "cmd" /\ tool \in BashTools         -> "command"
      [] OTHER -> param

\* The value that _first_nonempty_alias keeps.
Normalized(tool, params) ==
    [k \in {Canonical(tool, x) : x \in DOMAIN params} |->
       IF k \in DOMAIN params THEN params[k]
       ELSE params[CHOOSE x \in DOMAIN params : Canonical(tool, x) = k]]

\* is_complete_tool_call.
Complete(tool, given) ==
    tool \in WriteTools =>
      given \cap {"file_path", "path"} # {} /\ given \cap {"content", "code"} # {}

\* infer_tool_name_from_params.
Inferred(given) ==
    LET guess == IF given \cap {"content", "code"} # {} THEN "Write"
                 ELSE IF given \cap {"command", "cmd"} # {} THEN "Bash" ELSE "Read"
    IN  Resolve(guess)

-----------------------------------------------------------------------------
(* The states of feed; each operator is one turn of its loop.              *)

Say(p, n, m) == [p EXCEPT !.text = @ \o SubSeq(p.buffer, 1, n), !.buffer = From(@, m)]

InText(p) ==
    LET marks == Singles(p.buffer, "bullet") \cup At(p.buffer, "function", 2)
                   \cup (IF BareStart(p.buffer) THEN {1} ELSE {})
        cut   == First({i \in DOMAIN p.buffer :
                          p.buffer[i][1] = "control" /\ i + 1 > Len(p.buffer)})
    IN  IF marks # {}
        THEN [Say(p, Min(marks) - 1, Min(marks)) EXCEPT !.state = "matching"]
        ELSE [(IF cut > 1 THEN Say(p, cut - 1, cut)
               ELSE Say(p, Len(p.buffer), Len(p.buffer) + 1)) EXCEPT !.busy = FALSE]

\* What stands between a bullet and the function that is found after it is dropped.
Matching(p) ==
    LET f     == First(At(p.buffer, "function", 3))
        skip  == Attached(p.buffer, f + 3)
        bare  == First(At(p.buffer, "parameter", 2))
        begun == [p EXCEPT !.params = <<>>, !.state = "parameters"]
    IN  CASE f # 0 /\ Resolve(p.buffer[f][2]) = "none" ->
               [Say(p, skip - 1, skip) EXCEPT !.state = "text"]
          [] f # 0 /\ Resolve(p.buffer[f][2]) # "none" ->
               [begun EXCEPT !.name = Resolve(p.buffer[f][2]), !.buffer = From(@, f + 3)]
          [] f = 0 /\ bare # 0 ->
               [begun EXCEPT !.name = "none", !.buffer = From(@, bare)]
          [] f = 0 /\ bare = 0 /\ ~ PotentialStart(p.buffer) ->
               [Say(p, 1, 2) EXCEPT !.state = "text"]
          [] OTHER -> [p EXCEPT !.busy = FALSE]

Named(p) == IF p.name # "none" THEN p.name ELSE Inferred(DOMAIN p.params)

\* The end of a call; one that cannot be executed is dropped.
Finish(p) ==
    LET name == Named(p)
    IN  [p EXCEPT !.state = "text",
           !.tools = IF name = "none" \/ ~ Complete(name, DOMAIN p.params) THEN @
                     ELSE Append(@, <<name, Normalized(name, p.params)>>)]

\* Between the parameters of a call.
Between(p) ==
    LET open   == ParamOpen(p.buffer)
        marker == EndMarker(p.buffer)
        first  == First({i \in DOMAIN p.buffer : p.buffer[i][1] # "space"})
        tagged == \E i \in DOMAIN p.buffer :
                    p.buffer[i][1] \in {"parameter", "function"} /\ p.buffer[i][3] = 1
        isTag  == p.buffer[first][1] \notin {"word", "words", "call"}
    IN  CASE open # 0 /\ (marker = 0 \/ open < marker) ->
               [Say(p, open - 1, open + 3) EXCEPT !.open = p.buffer[open][2], !.value = <<>>]
          [] marker # 0 /\ (open = 0 \/ marker < open) ->
               Finish(Say(p, marker - 1, marker))
          [] open = 0 /\ marker = 0 /\ (tagged \/ p.buffer = <<>> \/ (first # 0 /\ isTag)) ->
               [p EXCEPT !.busy = FALSE]
          [] OTHER -> Finish(Say(p, Len(p.buffer), Len(p.buffer) + 1))

Value(p, n, m) == [p EXCEPT !.value = @ \o SubSeq(p.buffer, 1, n), !.buffer = From(@, m)]
\* str.strip.
Strip(s) ==
    LET solid == {i \in DOMAIN s : s[i][1] # "space"}
    IN  IF solid = {} THEN <<>> ELSE SubSeq(s, Min(solid), Max(solid))
Closed(p) ==
    [p EXCEPT !.params = Put(@, p.open, Strip(p.value)), !.open = "none", !.value = <<>>]


\* Inside the value of a parameter: up to its end; or up to the next parameter or call,
\* if the end has not come; or all that cannot be the beginning of its end.
InValue(p) ==
    LET close  == ParamClose(p.buffer, p.open)
        next   == ParamOpen(p.buffer)
        bounds == {next, EndMarker(p.buffer)} \ {0}
        slash  == First(At(p.buffer, "end", 2))
        last   == IF p.buffer = <<>> THEN <<"none", "none", 0>> ELSE p.buffer[Len(p.buffer)]
        keep   == IF slash # 0 THEN slash - 1
                  ELSE IF last[1] \in {"end", "lt"} /\ last[3] = 1 THEN Len(p.buffer) - 1
                  ELSE Len(p.buffer)
    IN  IF close # 0 /\ (next = 0 \/ close < next)
        THEN Closed(Value(p, close - 1, close + 3))
        ELSE IF bounds # {} THEN Closed(Value(p, Min(bounds) - 1, Min(bounds)))
        ELSE [Value(p, keep, keep + 1) EXCEPT !.busy = FALSE]

RECURSIVE ToolLoop(_)
ToolLoop(p) ==
    IF ~ p.busy THEN p
    ELSE ToolLoop(CASE p.state = "text"     -> InText(p)
                    [] p.state = "matching" -> Matching(p)
                    [] p.state = "parameters" /\ p.open = "none" -> Between(p)
                    [] OTHER -> InValue(p))

FeedTools(p, chunk) ==
    LET q == [p EXCEPT !.buffer = StripControl(@ \o chunk), !.busy = TRUE]
        r == ToolLoop(Extract([q EXCEPT !.text = <<>>]))
    IN  [r EXCEPT !.text = p.text \o StripStray(@)]

\* flush: a call that is still open ends, a parameter with all that was held.  What is
\* held elsewhere is dropped.
FlushTools(p) ==
    LET q    == [p EXCEPT !.buffer = StripControl(@)]
        done == IF q.open # "none"
                THEN Closed(Value(q, Len(q.buffer), Len(q.buffer) + 1)) ELSE q
    IN  IF p.state = "parameters" THEN [Finish(done) EXCEPT !.buffer = <<>>] ELSE p
=============================================================================
