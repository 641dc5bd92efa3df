--------------------------- MODULE ContentParsers ----------------------------
(***************************************************************************)
(* What becomes of the text of a streamed answer: ThinkTagParser           *)
(* (src/src/think_parser.rs) takes the thinking out of it, and             *)
(* HeuristicToolParser (src/src/heuristic_tool_parser.rs) the tool calls   *)
(* out of the rest, as the loops of openai_compat.rs, cloudflare.rs and    *)
(* puter.rs chain them.  The text arrives in chunks that may end anywhere, *)
(* in the middle of a tag or of a call.                                    *)
(*                                                                         *)
(* An answer is a sequence of symbols, the pieces into which chunks may    *)
(* cut tags and calls: "<" "th" "ink>" is an opening tag, "<" "function=F>" *)
(* the start of a call, "long" a run of more than 100 bytes.  A text that  *)
(* was taken from the answer is the sequence of the places in it where its *)
(* symbols stand: the parsers look at the symbols only, and the places     *)
(* tell where each has come from.                                          *)
(*                                                                         *)
(* A step is one turn of a loop of feed or flush.  ThinkTagParser::feed    *)
(* returns its chunks in a vector; here each is handled when it is found,  *)
(* which is the same, because the parsers know nothing of each other.      *)
(***************************************************************************)
EXTENDS Integers, Sequences, FiniteSetsExt

CONSTANTS
    Answers,      \* answers of a model, see below
    Functions,    \* symbols that end the opening of a bulleted call
    Parameters,   \* symbols that end the opening of a parameter
    JsonCalls     \* symbols for the name and number of a call with JSON

\* An answer: its symbols; the thinking, the text and the tools a reader finds
\* in it; and whether no chunk can make it ambiguous.
ASSUME ContentParsersAssumption ==
    \A a \in Answers :
        /\ DOMAIN a = {"symbols", "thinking", "text", "tools", "plain"}
        /\ a.symbols \in Seq(STRING)

VARIABLES
    answer,  \* the answer
    at,      \* where the loop is: "idle" between chunks, in feed of the "think"
             \* or the "tool" parser or of the tool parser for the "rest", at
             \* the "flush" of the tool parser or in its "last" loop, or "ended"
    got,     \* how many symbols have arrived
    think,   \* ThinkTagParser
    tool,    \* HeuristicToolParser, with the text and tools feed has so far
    shown    \* what the client has got: thinking, text and tools

vars == <<answer, at, got, think, tool, shown>>

(* -------------------------------- searching ------------------------------ *)

Symbol(b, i) == answer.symbols[b[i]]

StartsAt(b, i, p) ==
    i + Len(p) - 1 <= Len(b) /\ \A k \in DOMAIN p : Symbol(b, i + k - 1) = p[k]

\* Where one of the patterns starts.
Matches(b, ps) == {i \in DOMAIN b : \E p \in ps : StartsAt(b, i, p)}

From(b, i) == SubSeq(b, i, Len(b))
Before(b, i) == SubSeq(b, 1, i - 1)

(* ------------------------------ ThinkTagParser --------------------------- *)

Opens == {<<"<", "th", "ink>">>, <<"<", "th", "ought>">>}
CloseOf(open) == <<"<", "/th", open[3]>>
Closes == {CloseOf(o) : o \in Opens}
Outside == <<>>   \* current_close_tag is None

\* The tags that count: inside of thinking the one that closes it, outside all,
\* a stray closing tag too.
Tags(close) == IF close = Outside THEN Opens \cup Closes ELSE {close}
AfterTag(tag) == IF tag \in Opens THEN CloseOf(tag) ELSE Outside

\* A bug: what may be the start of a tag is not held back.
HeldFromNever(b, tags) == Len(b) + 1

\* A bug: everything is held back that begins like a tag.
HeldFromBracket(b, tags) ==
    LET brackets == Matches(b, {<<"<">>})
    IN  IF brackets # {} THEN Max(brackets) ELSE Len(b) + 1

\* Where the start of one of these tags is cut off, or else the end.
HeldFrom(b, tags) ==
    LET brackets == Matches(b, {<<"<">>})
        cut(i) == \E t \in tags :
                    Len(b) - i + 1 < Len(t) /\ StartsAt(b, i, SubSeq(t, 1, Len(b) - i + 1))
    IN  IF brackets # {} /\ cut(Max(brackets)) THEN Max(brackets) ELSE Len(b) + 1

(* --------------------------- HeuristicToolParser ------------------------- *)

NoParameters == [key \in {} |-> <<>>]
Detected(name, input) == [name |-> name, input |-> input]

\* strip_control_tokens.
ControlToken == <<"<", "bar", "c>">>
InToken(b) == UNION {{b[i], b[i + 1], b[i + 2]} : i \in Matches(b, {ControlToken})}
Stripped(b) ==
    LET stripped[n \in 0 .. Len(b)] ==
          IF n = 0 THEN <<>>
          ELSE IF b[n] \in InToken(b) THEN stripped[n - 1] ELSE Append(stripped[n - 1], b[n])
    IN  stripped[Len(b)]

\* FUNCTIONS_CALL_RE: from the first name with an opening brace to the last
\* closing brace there is.
JsonCallIn(b) ==
    LET ends(i) == {j \in i + 4 .. Len(b) : Symbol(b, j) = "}"}
        names == {<<"func", "tions.", c, "{">> : c \in JsonCalls}
        starts == {i \in Matches(b, names) : ends(i) # {}}
    IN  IF starts = {} THEN [first |-> 0, last |-> 0]
        ELSE [first |-> Min(starts), last |-> Max(ends(Min(starts)))]

\* The braces of well-formed arguments pair up, and the first with the last.
Depth(args, n) ==
    LET count(brace) == Cardinality({i \in 1..n : Symbol(args, i) = brace})
    IN  count("{") - count("}")
WellFormed(args) ==
    /\ Depth(args, Len(args)) = 0
    /\ \A n \in 1 .. Len(args) - 1 : Depth(args, n) > 0

JsonTool(b, m) ==
    LET args == SubSeq(b, m.first + 3, m.last)
    IN  Detected(b[m.first + 2], IF WellFormed(args) THEN [json |-> args] ELSE NoParameters)

\* FUNC_START_RE: a bullet, white space and the opening of a call.
FunctionIn(b) ==
    LET starts == {i \in DOMAIN b : Symbol(b, i) = "bullet" /\ \E j \in i + 1 .. Len(b) - 1 :
                     /\ \A k \in i + 1 .. j - 1 : Symbol(b, k) = "nl"
                     /\ Symbol(b, j) = "<" /\ Symbol(b, j + 1) \in Functions}
    IN  IF starts = {} THEN 0
        ELSE Min({j \in Min(starts) + 1 .. Len(b) : Symbol(b, j) \in Functions})

\* PARAM_RE, up to the closing tag or the end of the buffer.
ParamStarts(b) == Matches(b, {<<"<", p>> : p \in Parameters})
ParamEnd(b, i) ==
    LET ends == {j \in Matches(b, {<<"<", "/parameter>">>}) : j > i}
    IN  IF ends = {} THEN Len(b) + 1 ELSE Min(ends)
Trim(s) ==
    LET solid == {i \in DOMAIN s : Symbol(s, i) # "nl"}
    IN  IF solid = {} THEN <<>> ELSE SubSeq(s, Min(solid), Max(solid))

\* insert: a later parameter takes the place of one with the same key.
Inserted(input, key, value) ==
    [k \in DOMAIN input \cup {key} |-> IF k = key THEN value ELSE input[k]]

\* The first parameter is taken.
WithParameter(p) ==
    LET i == Min(ParamStarts(p.buffer))
        end == ParamEnd(p.buffer, i)
        value == Trim(SubSeq(p.buffer, i + 2, end - 1))
    IN  [p EXCEPT !.parameters = Inserted(@, Symbol(p.buffer, i + 1), value),
                  !.buffer = From(@, end + 2)]

\* The text before place i of the buffer is filtered text; the rest stays.
Filter(p, i) == [p EXCEPT !.text = @ \o Before(p.buffer, i), !.buffer = From(@, i)]

Finish(p) ==
    [p EXCEPT !.tools = Append(@, Detected(p.name, p.parameters)), !.state = "Text"]

(* -------------------------------- the loops ------------------------------ *)

FreshTool == [state |-> "Text", buffer |-> <<>>, name |-> 0, parameters |-> NoParameters,
              text |-> <<>>, tools |-> <<>>]

Init ==
    /\ answer \in Answers
    /\ at = "idle" /\ got = 0
    /\ think = [buffer |-> <<>>, close |-> Outside] /\ tool = FreshTool
    /\ shown = [thinking |-> <<>>, text |-> <<>>, tools |-> <<>>]

\* The next n symbols arrive and are fed to ThinkTagParser.
Receive(n) ==
    /\ at = "idle" /\ n \in 1 .. Len(answer.symbols) - got
    /\ think' = [think EXCEPT !.buffer = @ \o [i \in 1..n |-> got + i]]
    /\ got' = got + n /\ at' = "think"
    /\ UNCHANGED <<answer, tool, shown>>

\* The beginning of HeuristicToolParser::feed.
Feed(text) == tool' = [tool EXCEPT !.buffer = Stripped(@ \o text)]

\* A chunk of ThinkTagParser's is handled: thinking is shown, text goes on.
Handle(content) ==
    \/ /\ content = <<>> /\ at' = "think" /\ UNCHANGED <<tool, shown>>
    \/ /\ content # <<>> /\ think.close # Outside
       /\ shown' = [shown EXCEPT !.thinking = @ \o content]
       /\ at' = "think" /\ UNCHANGED tool
    \/ /\ content # <<>> /\ think.close = Outside
       /\ Feed(content)
       /\ at' = "tool" /\ UNCHANGED shown

\* parse_outside and parse_inside, with a tag that counts in the buffer.
TakeTag ==
    /\ at = "think" /\ Matches(think.buffer, Tags(think.close)) # {}
    /\ LET i == Min(Matches(think.buffer, Tags(think.close)))
           tag == CHOOSE t \in Tags(think.close) : StartsAt(think.buffer, i, t)
       IN  /\ Handle(Before(think.buffer, i))
           /\ think' = [buffer |-> From(think.buffer, i + 3), close |-> AfterTag(tag)]
    /\ UNCHANGED <<answer, got>>

\* Without one: all that cannot be the start of a tag.  Then feed is done.
TakeAll ==
    /\ at = "think" /\ Matches(think.buffer, Tags(think.close)) = {}
    /\ LET i == HeldFrom(think.buffer, Tags(think.close))
       IN  /\ IF i = 1 THEN at' = "idle" /\ UNCHANGED <<tool, shown>>
                       ELSE Handle(Before(think.buffer, i))
           /\ think' = [think EXCEPT !.buffer = From(@, i)]
    /\ UNCHANGED <<answer, got>>

(* ----------------------- HeuristicToolParser's loop ---------------------- *)

In(state) == at \in {"tool", "rest"} /\ tool.state = state

Continue(new) == tool' = new /\ UNCHANGED <<answer, at, got, think, shown>>

\* feed returns; its text is shown before its tools.
Return(new) ==
    /\ tool' = [new EXCEPT !.text = <<>>, !.tools = <<>>]
    /\ shown' = [shown EXCEPT !.text = @ \o new.text, !.tools = @ \o new.tools]
    /\ at' = IF at = "tool" THEN "think" ELSE "flush"
    /\ UNCHANGED <<answer, got, think>>

Bullets(b) == Matches(b, {<<"bullet">>})

TakeJsonCall ==
    /\ In("Text")
    /\ LET call == JsonCallIn(tool.buffer)
       IN  /\ call.first > 0
           /\ Continue([Filter(tool, call.first) EXCEPT
                !.tools = Append(@, JsonTool(tool.buffer, call)),
                !.buffer = From(tool.buffer, call.last + 1)])

FindBullet ==
    /\ In("Text") /\ JsonCallIn(tool.buffer).first = 0 /\ Bullets(tool.buffer) # {}
    /\ Continue([Filter(tool, Min(Bullets(tool.buffer))) EXCEPT !.state = "MatchingFunction"])

\* Where the last of these patterns starts, which may go on in the next chunk.
LastMatch(b, p) == LET found == Matches(b, {p}) IN IF found = {} THEN 0 ELSE Max(found)
HeldText(b) ==
    LET json == LastMatch(b, <<"func", "tions.">>)
        control == LastMatch(b, <<"<", "bar">>)
    IN  IF json > 0 /\ \A i \in json .. Len(b) : Symbol(b, i) # "}" THEN json
        ELSE IF control > 0 THEN control ELSE Len(b) + 1

PassText ==
    /\ In("Text") /\ JsonCallIn(tool.buffer).first = 0 /\ Bullets(tool.buffer) = {}
    /\ Return(Filter(tool, HeldText(tool.buffer)))

MatchFunction ==
    /\ In("MatchingFunction")
    /\ LET i == FunctionIn(tool.buffer)
       IN  /\ i > 0
           /\ Continue([tool EXCEPT !.name = tool.buffer[i], !.parameters = NoParameters,
                                    !.buffer = From(@, i + 1), !.state = "ParsingParameters"])

Long(b) == \E i \in DOMAIN b : Symbol(b, i) = "long"

\* No call after all: the bullet is text.
GiveUpFunction ==
    /\ In("MatchingFunction") /\ FunctionIn(tool.buffer) = 0 /\ Long(tool.buffer)
    /\ Continue([Filter(tool, 2) EXCEPT !.state = "Text"])

AwaitFunction ==
    /\ In("MatchingFunction") /\ FunctionIn(tool.buffer) = 0 /\ ~Long(tool.buffer)
    /\ Return(tool)

\* Whether the first parameter in the buffer has its closing tag.
HasParameter(b) == ParamStarts(b) # {} /\ ParamEnd(b, Min(ParamStarts(b))) <= Len(b)

TakeParameter ==
    /\ In("ParsingParameters") /\ HasParameter(tool.buffer)
    /\ Continue(WithParameter(tool))

FirstSolid(b) == LET s == Trim(b) IN IF s = <<>> THEN "" ELSE Symbol(s, 1)
EndsInText(b) == b # <<>> /\ FirstSolid(b) # "<" /\ ParamStarts(b) = {}

\* A bug: the text that ends a call stays in the buffer and is shown, too.
EndCallTwice ==
    /\ In("ParsingParameters") /\ ~HasParameter(tool.buffer)
    /\ \/ /\ Bullets(tool.buffer) # {}
          /\ Continue(Finish(Filter(tool, Min(Bullets(tool.buffer)))))
       \/ /\ Bullets(tool.buffer) = {} /\ EndsInText(tool.buffer)
          /\ Continue([Finish(Filter(tool, Len(tool.buffer) + 1)) EXCEPT !.buffer = tool.buffer])

\* The call ends at a bullet or at text that is not a tag.
EndCall ==
    /\ In("ParsingParameters") /\ ~HasParameter(tool.buffer)
    /\ \/ /\ Bullets(tool.buffer) # {}
          /\ Continue(Finish(Filter(tool, Min(Bullets(tool.buffer)))))
       \/ /\ Bullets(tool.buffer) = {} /\ EndsInText(tool.buffer)
          /\ Continue(Finish(Filter(tool, Len(tool.buffer) + 1)))

AwaitParameter ==
    /\ In("ParsingParameters") /\ ~HasParameter(tool.buffer)
    /\ Bullets(tool.buffer) = {} /\ ~EndsInText(tool.buffer)
    /\ Return(tool)

(* ---------------------------- the end of the stream ---------------------- *)

AllReceived == at = "idle" /\ got = Len(answer.symbols)

\* openai_compat.rs and cloudflare.rs show what ThinkTagParser held back.
EndOfStream ==
    /\ AllReceived
    /\ shown' = IF think.close = Outside THEN [shown EXCEPT !.text = @ \o think.buffer]
                ELSE [shown EXCEPT !.thinking = @ \o think.buffer]
    /\ think' = [think EXCEPT !.buffer = <<>>] /\ at' = "flush"
    /\ UNCHANGED <<answer, got, tool>>

\* puter.rs parses it, too, if it is text.
EndOfPuterStream ==
    /\ AllReceived /\ think.close = Outside /\ think.buffer # <<>>
    /\ Feed(think.buffer) /\ at' = "rest"
    /\ think' = [think EXCEPT !.buffer = <<>>]
    /\ UNCHANGED <<answer, got, shown>>

\* flush: other text that is held back is dropped.
Flush ==
    /\ at = "flush" /\ at' = "last"
    /\ tool' = [tool EXCEPT !.buffer = Stripped(@)]
    /\ UNCHANGED <<answer, got, think, shown>>

FlushParameter ==
    /\ at = "last" /\ tool.state = "ParsingParameters" /\ ParamStarts(tool.buffer) # {}
    /\ Continue(WithParameter(tool))

\* flush returns.
Done(new) ==
    /\ tool' = [new EXCEPT !.tools = <<>>]
    /\ shown' = [shown EXCEPT !.tools = @ \o new.tools]
    /\ at' = "ended"
    /\ UNCHANGED <<answer, got, think>>

\* A bug: the call that the end cuts short is dropped.
FlushCallNothing ==
    /\ at = "last" /\ tool.state = "ParsingParameters" /\ ParamStarts(tool.buffer) = {}
    /\ Done([tool EXCEPT !.state = "Text", !.buffer = <<>>])

\* A call without an end is one.
FlushCall ==
    /\ at = "last" /\ tool.state = "ParsingParameters" /\ ParamStarts(tool.buffer) = {}
    /\ Done([Finish(tool) EXCEPT !.buffer = <<>>])

FlushRest ==
    /\ at = "last" /\ tool.state # "ParsingParameters"
    /\ LET call == JsonCallIn(tool.buffer)
       IN  \/ /\ call.first > 0
              /\ Done([tool EXCEPT !.tools = <<JsonTool(tool.buffer, call)>>, !.buffer = <<>>])
           \/ call.first = 0 /\ Done(tool)

Next ==
    \/ \E n \in 1 .. Len(answer.symbols) : Receive(n)
    \/ TakeTag \/ TakeAll
    \/ TakeJsonCall \/ FindBullet \/ PassText
    \/ MatchFunction \/ GiveUpFunction \/ AwaitFunction
    \/ TakeParameter \/ EndCall \/ AwaitParameter
    \/ EndOfStream \/ EndOfPuterStream
    \/ Flush \/ FlushParameter \/ FlushCall \/ FlushRest

Spec == Init /\ [][Next]_vars

(* ------------------------------- properties ------------------------------ *)

TypeOK ==
    /\ got \in 0 .. Len(answer.symbols)
    /\ at \in {"idle", "think", "tool", "rest", "flush", "last", "ended"}
    /\ think.close \in Closes \cup {Outside}
    /\ at = "idle" =>
         Len(think.buffer) < 3 /\ (think.buffer # <<>> => Symbol(think.buffer, 1) = "<")
    /\ tool.state \in {"Text", "MatchingFunction", "ParsingParameters"}
    /\ tool.state = "MatchingFunction" /\ at # "ended" =>
         tool.buffer # <<>> /\ Symbol(tool.buffer, 1) = "bullet"

\* What a reader who sees the whole answer takes for thinking: reading tells for
\* every place with which closing tag the thinking ends that it is in.
Whole == [i \in DOMAIN answer.symbols |-> i]
ReadTag(close, i) == \E t \in Tags(close) : StartsAt(Whole, i, t)
ReadNext(close, i) ==
    IF ReadTag(close, i) THEN AfterTag(CHOOSE t \in Tags(close) : StartsAt(Whole, i, t)) ELSE close
Reading ==
    LET reading[i \in 0 .. Len(answer.symbols)] ==
          IF i = 0 THEN Outside ELSE ReadNext(reading[i - 1], i)
    IN  reading
IsTag(i) == \E j \in i - 2 .. i : j > 0 /\ ReadTag(Reading[j - 1], j)
Thinking == {i \in DOMAIN answer.symbols : Reading[i - 1] # Outside /\ ~IsTag(i)}

InOrder(s) == \A i, j \in DOMAIN s : i < j => s[i] < s[j]

\* README on thinking tags: "safely relocating their contents into ... thinking
\* blocks": wherever the chunks cut the answer, broken, stray and nested tags
\* included, exactly what is inside of the tags ends up as thinking, in order.
ThinkingSplit ==
    at = "ended" => InOrder(shown.thinking) /\ Range(shown.thinking) = Thinking

NamesOf(tools) == [i \in DOMAIN tools |-> tools[i].name]
PlacesIn(input) == UNION {Range(input[key]) : key \in DOMAIN input}
InputOf(tools) == UNION {PlacesIn(t.input) : t \in Range(tools)}

\* Nothing is shown twice, out of order or made up: the text the client has got
\* is in the order of the answer, and so are the names of the tools; no symbol is
\* both text and thinking, or text or thinking and part of a tool.
NothingInvented ==
    /\ InOrder(shown.text) /\ InOrder(NamesOf(shown.tools))
    /\ Range(shown.text) \cup Range(shown.thinking) \subseteq 1..got
    /\ Range(shown.text) \cap Range(shown.thinking) = {}
    /\ (Range(NamesOf(shown.tools)) \cup InputOf(shown.tools))
         \cap (Range(shown.text) \cup Range(shown.thinking)) = {}

Symbols(b) == [i \in DOMAIN b |-> answer.symbols[b[i]]]

ToolsShown ==
    LET inputOf(t) == [key \in DOMAIN t.input |-> Symbols(t.input[key])]
        shownTool(t) == Detected(answer.symbols[t.name], inputOf(t))
    IN  [i \in DOMAIN shown.tools |-> shownTool(shown.tools[i])]

AsExpected ==
    /\ Symbols(shown.text) = answer.text
    /\ Symbols(shown.thinking) = answer.thinking
    /\ ToolsShown = answer.tools

\* An answer of plain segments, a call or any control tokens among them, becomes
\* the same text, thinking and tool for every way of cutting it into chunks.  (Not
\* so for two calls: in one chunk the first takes the parameters of the second.
\* Nor for a control token cut in two that comes with the text after a call.)
ChunksDoNotMatter ==
    /\ at = "ended" /\ answer.plain
    /\ Len(answer.tools) + (IF "bar" \in Range(answer.symbols) THEN 1 ELSE 0) <= 1
    => AsExpected

\* README: the parser "parses their geometry on-the-fly and accurately converts
\* them": every call of an answer becomes a tool with its input.
CallsAccurate == at = "ended" => ToolsShown = answer.tools
=============================================================================
