--------------------------- MODULE MCContentParsers --------------------------
(* Answers for TLC: any few segments, one after the other.                   *)
EXTENDS ContentParsers, SequencesExt, TLC

CONSTANTS
    Segments,    \* what answers are made of
    MaxSegments  \* bound: segments of an answer

Text(s) == [symbols |-> s, thinking |-> <<>>, text |-> s, tools |-> <<>>, plain |-> TRUE]
Think(open) == [symbols |-> open \o <<"a">> \o CloseOf(open), thinking |-> <<"a">>,
                text |-> <<>>, tools |-> <<>>, plain |-> TRUE]
Ambiguous(s) == [symbols |-> s, thinking |-> <<>>, text |-> s, tools |-> <<>>, plain |-> FALSE]
Hidden(s) == [symbols |-> s, thinking |-> <<>>, text |-> <<>>, tools |-> <<>>, plain |-> TRUE]
Call(f, inner, input, plain) ==
    [symbols |-> <<"bullet", "<", f>> \o inner, thinking |-> <<>>, text |-> <<>>,
     tools |-> <<Detected(f, input)>>, plain |-> plain]

JsonCall(args) == [symbols |-> <<"func", "tions.", "A:0">> \o args, thinking |-> <<>>,
                   text |-> <<>>, tools |-> <<Detected("A:0", "json" :> args)>>, plain |-> FALSE]

P == <<"<", "k>", "v", "<", "/parameter>">>
K == "k>" :> <<"v">>

MCFunctions == {"F>"}
MCParameters == {"k>"}
MCJsonCalls == {"A:0"}

MCSegments ==
    {Text(<<"b">>), Think(<<"<", "th", "ink>">>), Think(<<"<", "th", "ought>">>),
     Hidden(ControlToken), Hidden(<<"<", "/th", "ink>">>),
     Call("F>", P, K, TRUE), Call("F>", <<>>, NoParameters, TRUE),
     Ambiguous(<<"<", "th">>), Ambiguous(<<"bullet">>), Ambiguous(<<"bullet", "long">>),
     Ambiguous(<<"func", "tions.">>),
     Call("F>", <<"nl">> \o P, K, FALSE), Call("F>", <<"<", "k>", "v">>, K, FALSE),
     Ambiguous(<<"<", "th", "ink>">>), JsonCall(<<"{", "v", "}">>), JsonCall(<<"{", "{", "v", "}", "}">>)}

\* Calls written as the documentation has them, one to a line.
MCCalls == {Call("F>", <<"nl">> \o P, K, FALSE)}

Joined(segments) ==
    LET all(field) == FlattenSeq([i \in DOMAIN segments |-> segments[i][field]])
    IN  [symbols |-> all("symbols"), thinking |-> all("thinking"), text |-> all("text"),
         tools |-> all("tools"), plain |-> \A s \in Range(segments) : s.plain]

MCAnswers == {Joined(s) : s \in SeqOf(Segments, MaxSegments) \ {<<>>}}
=============================================================================
