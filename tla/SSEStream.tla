------------------------------ MODULE SSEStream ------------------------------
(***************************************************************************)
(* One streamed answer: the loop of stream_response that reads a provider  *)
(* and the builder of the events the client gets (src/src/sse.rs).  There  *)
(* are three such loops: that of src/src/providers/openai_compat.rs, of    *)
(* which cloudflare.rs has a copy, that of kimi_oauth/provider.rs, which   *)
(* parses no text and never asks again, and that of puter.rs, which gets   *)
(* tool calls whole and goes on with a new stream where one breaks off.    *)
(*                                                                         *)
(* A step is one yield, one thing taken out of the provider's stream, or   *)
(* the bookkeeping between them.  The parsers are the provider's part: what *)
(* they make of a chunk arrives here as thinking, text or a tool found in  *)
(* the text, and what they flush arrives before the end of the stream.  A  *)
(* client may hang up at any yield; the answer is then never polled again, *)
(* which is a behaviour that stops.                                        *)
(***************************************************************************)
EXTENDS Integers, Sequences, SequencesExt

CONSTANTS
    Loops,          \* the loops to be checked
    Names,          \* for each tool call index: the names its chunks may carry
    Task,           \* the name whose input is held back until the end
    MaxAttempts,    \* 1, or tool_retry_max + 1 with enable_tool_retry
    MaxHttpRetries, \* max_http_retries of the Puter loop
    ArgsBound,      \* bound: fragments of input per tool call
    BlocksBound     \* bound: blocks before the provider's stream ends

ToolCalls == DOMAIN Names
NoTool == "none"

\* A name is a sequence of pieces: it may arrive whole, piece by piece or growing.
ASSUME SSEStreamAssumption ==
    /\ Loops \subseteq {"openai_compat", "kimi", "puter"}
    /\ ToolCalls \cap {"thinking", "text", "found", "error", NoTool} = {}
    /\ MaxAttempts \in Nat \ {0} /\ MaxHttpRetries \in Nat
    /\ ArgsBound \in Nat /\ BlocksBound \in Nat

\* What has a block of its own: the two kinds of content, a tool found in text
\* and an error message, which are written out at once, and native tool calls.
Content == {"thinking", "text"}
AtOnce == {"found", "error"}
Slots == Content \cup AtOnce \cup ToolCalls
Kinds == {"thinking", "text", "tool_use"}

Kind(slot) ==
    CASE slot = "thinking" -> "thinking"
      [] slot \in {"text", "error"} -> "text"
      [] OTHER -> "tool_use"

NoIndex == -1
NoCall == [tool |-> NoTool, name |-> <<>>, args |-> FALSE]

VARIABLES
    nextIndex,   \* ContentBlockManager.next_index
    index,       \* thinking_index, text_index, block_index of a call, or NoIndex
    open,        \* thinking_started, text_started, and blocks not yet stopped
    name,        \* ToolCallState.name
    contents,    \* ToolCallState.contents: the numbers of its fragments
    emitted,     \* calls with emitted_input
    loop,        \* whose stream_response it is
    at,          \* where it is
    call,        \* the tool call of the chunk in hand
    held,        \* fragments that came before the name, still to be passed on
    attempt,     \* tool_attempt
    httpAttempt, \* http_attempt of the Puter loop
    hadTool,     \* had_tool_call, attempt_had_tool included
    event,       \* the last event the client received
    sent,        \* history: fragments the provider has sent for a call
    got          \* history: fragments the client has got for a call, in order

builderVars == <<nextIndex, index, open, name, contents, emitted>>
tries == <<loop, attempt, httpAttempt>>
loopVars == <<at, call, held, tries, hadTool>>
history == <<sent, got>>
vars == <<builderVars, loopVars, event, history>>

Places == {"begin", "attempt", "reading", "thinking", "text", "found", "foundInput",
           "foundStop", "call", "held", "args", "retry", "filler", "flush", "finish",
           "error", "errorText", "errorStop", "last", "end"}

Fragments == 1 .. ArgsBound
AnyName == {<<>>} \cup UNION {Names[i] : i \in ToolCalls}
Calls == [tool : ToolCalls \cup {NoTool}, name : AnyName, args : BOOLEAN]

TypeOK ==
    /\ nextIndex \in Nat
    /\ index \in [Slots -> Nat \cup {NoIndex}]
    /\ open \subseteq Slots
    /\ DOMAIN name = ToolCalls
    /\ contents \in [ToolCalls -> Seq(Fragments)] /\ got \in [ToolCalls -> Seq(Fragments)]
    /\ emitted \subseteq ToolCalls
    /\ at \in Places /\ call \in Calls /\ held \in Seq(Fragments)
    /\ (at \in {"call", "held", "args"}) <=> call.tool \in ToolCalls
    /\ loop \in Loops
    /\ attempt \in 0 .. MaxAttempts - 1
    /\ httpAttempt \in 0 .. MaxHttpRetries
    /\ hadTool \in BOOLEAN
    /\ sent \in [ToolCalls -> 0 .. ArgsBound]

Init ==
    /\ nextIndex = 0
    /\ index = [s \in Slots |-> NoIndex]
    /\ open = {}
    /\ name = [i \in ToolCalls |-> <<>>]
    /\ contents = [i \in ToolCalls |-> <<>>]
    /\ emitted = {}
    /\ loop \in Loops
    /\ at = "begin"
    /\ call = NoCall
    /\ held = <<>>
    /\ attempt = 0 /\ httpAttempt = 0
    /\ hadTool = FALSE
    /\ event = [type |-> "none"]
    /\ sent = [i \in ToolCalls |-> 0]
    /\ got = [i \in ToolCalls |-> <<>>]

-----------------------------------------------------------------------------
(***************************************************************************)
(* The events of the builder, each with the bookkeeping that goes with it. *)
(***************************************************************************)
BlockEvent(type, slot) == [type |-> type, index |-> index'[slot], kind |-> Kind(slot)]

StartBlock(slot) ==
    /\ index' = [index EXCEPT ![slot] = nextIndex]
    /\ nextIndex' = nextIndex + 1
    /\ open' = open \cup {slot}
    /\ event' = BlockEvent("content_block_start", slot)

DeltaBlock(slot) ==
    /\ UNCHANGED <<nextIndex, index, open>>
    /\ event' = BlockEvent("content_block_delta", slot)

StopBlock(slot) ==
    /\ open' = open \ {slot}
    /\ UNCHANGED <<nextIndex, index>>
    /\ event' = BlockEvent("content_block_stop", slot)

MessageEvent(type) ==
    /\ UNCHANGED <<nextIndex, index, open>>
    /\ event' = [type |-> type]

NoEvent == UNCHANGED <<nextIndex, index, open, event>>

toolVars == <<name, contents, emitted>>
restVars == <<toolVars, call, held, history>>

MessageStart ==
    /\ at = "begin" /\ at' = "attempt"
    /\ MessageEvent("message_start")
    /\ UNCHANGED <<restVars, tries, hadTool>>

-----------------------------------------------------------------------------
(***************************************************************************)
(* The escalation ladder finds a provider that answers, or gives up.  The  *)
(* Puter loop counts the calls that failed on the way.                     *)
(***************************************************************************)
Attempt ==
    /\ at = "attempt" /\ at' \in {"reading", "error"}
    /\ httpAttempt' \in IF loop = "puter" THEN httpAttempt .. MaxHttpRetries ELSE {httpAttempt}
    /\ NoEvent
    /\ UNCHANGED <<restVars, loop, attempt, hadTool>>

\* Something to show comes out of the stream, or out of a parser's flush.  The
\* Puter loop writes native tool calls out like those found in text.
Receive ==
    /\ at = "reading" /\ nextIndex < BlocksBound
    /\ at' \in {"thinking", "text", "found"}
    /\ loop = "kimi" => at' # "found"
    /\ NoEvent
    /\ UNCHANGED <<restVars, tries, hadTool>>

\* A chunk brings a tool call, or more of one.
ReceiveCall(i) ==
    /\ loop # "puter"
    /\ at = "reading" /\ at' = "call" /\ nextIndex < BlocksBound
    /\ \E n \in Names[i] \cup {<<>>}, args \in BOOLEAN :
        /\ args => sent[i] < ArgsBound
        /\ call' = [tool |-> i, name |-> n, args |-> args]
        /\ sent' = IF args THEN [sent EXCEPT ![i] = @ + 1] ELSE sent
    /\ NoEvent
    /\ UNCHANGED <<toolVars, held, got, tries, hadTool>>

\* A call was announced, none was made, and another attempt is left.
MayRetry == loop # "kimi" /\ ~hadTool /\ attempt + 1 < MaxAttempts

\* The stream breaks off, or brings an error.  The Puter loop calls again, and
\* what comes then goes to the blocks that are open.
StreamBreaks ==
    /\ at = "reading"
    /\ \/ /\ loop # "puter" \/ httpAttempt = MaxHttpRetries
          /\ at' = "error"
          /\ UNCHANGED httpAttempt
       \/ /\ loop = "puter" /\ MayRetry
          /\ at' = "retry"
          /\ UNCHANGED httpAttempt
       \/ /\ loop = "puter" /\ httpAttempt < MaxHttpRetries
          /\ at' = "attempt"
          /\ httpAttempt' = httpAttempt + 1
    /\ NoEvent
    /\ UNCHANGED <<restVars, loop, attempt, hadTool>>

\* Where the answer goes when it is complete.
Flush == IF loop = "puter" THEN "finish" ELSE "flush"

\* Nothing has come that the client could show.
Empty == index["text"] = NoIndex /\ index["thinking"] = NoIndex /\ (loop # "puter" => ~hadTool)

\* A bug: attempts and retries are confused.
EndOfStreamOneMore ==
    /\ at = "reading"
    /\ \/ /\ loop # "kimi" /\ ~hadTool /\ attempt < MaxAttempts
          /\ at' = "retry"
       \/ at' = IF Empty THEN "filler" ELSE Flush
    /\ NoEvent
    /\ UNCHANGED <<restVars, tries, hadTool>>

EndOfStream ==
    /\ at = "reading"
    /\ \/ MayRetry /\ at' = "retry"
       \/ at' = IF Empty THEN "filler" ELSE Flush
    /\ NoEvent
    /\ UNCHANGED <<restVars, tries, hadTool>>

-----------------------------------------------------------------------------
(***************************************************************************)
(* ensure_thinking_block, ensure_text_block and close_content_blocks stop  *)
(* the content block that is in the way.                                   *)
(***************************************************************************)
InTheWay ==
    CASE at = "thinking" -> {"text"}
      [] at \in {"text", "filler"} -> {"thinking"}
      [] at \in {"found", "call", "retry", "finish", "error"} -> Content
      [] OTHER -> {}

CloseContent(slot) ==
    /\ slot \in InTheWay \cap open
    /\ StopBlock(slot)
    /\ UNCHANGED <<restVars, at, tries, hadTool>>

WayClear == InTheWay \cap open = {}

\* emit_thinking_delta and emit_text_delta, in a block that is there or new.
ShowContent(slot) ==
    /\ at = slot \/ (at = "filler" /\ slot = "text")
    /\ WayClear
    /\ \/ /\ slot \notin open
          /\ StartBlock(slot)
          /\ UNCHANGED at
       \/ /\ slot \in open
          /\ DeltaBlock(slot)
          /\ at' = IF at = "filler" THEN Flush ELSE "reading"
    /\ UNCHANGED <<restVars, tries, hadTool>>

\* A tool found in the text, or an error message: a block written out at once.
ShowAtOnce(slot) ==
    LET steps == IF slot = "found"
                 THEN <<"found", "foundInput", "foundStop", "reading">>
                 ELSE <<"error", "errorText", "errorStop", "finish">>
    IN  /\ \/ at = steps[1] /\ at' = steps[2] /\ WayClear /\ StartBlock(slot)
           \/ at = steps[2] /\ at' = steps[3] /\ DeltaBlock(slot)
           \/ at = steps[3] /\ at' = steps[4] /\ StopBlock(slot)
        /\ hadTool' = (hadTool \/ slot = "found")
        /\ UNCHANGED <<restVars, tries>>

-----------------------------------------------------------------------------
(***************************************************************************)
(* A native tool call.  Its block starts with the first name that is not   *)
(* empty; fragments that came before are passed on then, except for Task.  *)
(***************************************************************************)
\* ContentBlockManager::register_tool_name.
Registered(known, new) ==
    CASE IsPrefix(known, new) -> new
      [] ~IsPrefix(known, new) /\ IsPrefix(new, known) -> known
      [] OTHER -> known \o new

Started(i) == index[i] # NoIndex

LastFragment(i) == sent[i]

RegisterCall ==
    LET i == call.tool
        known == Registered(name[i], call.name)
    IN  /\ at = "call" /\ WayClear
        /\ name' = [name EXCEPT ![i] = known]
        /\ \/ /\ Started(i)
              /\ at' = "args"
              /\ NoEvent
              /\ UNCHANGED <<contents, call, held, hadTool>>
           \/ /\ ~Started(i) /\ known = <<>>
              /\ contents' = IF call.args THEN [contents EXCEPT ![i] = Append(@, LastFragment(i))]
                                          ELSE contents
              /\ at' = "reading" /\ call' = NoCall
              /\ NoEvent
              /\ UNCHANGED <<held, hadTool>>
           \/ /\ ~Started(i) /\ known # <<>>
              /\ StartBlock(i)
              /\ held' = IF known = Task THEN <<>> ELSE contents[i]
              /\ at' = "held" /\ hadTool' = TRUE
              /\ UNCHANGED <<contents, call>>
        /\ UNCHANGED <<emitted, tries, history>>

PassOnHeld ==
    /\ at = "held"
    /\ \/ /\ held # <<>>
          /\ DeltaBlock(call.tool)
          /\ got' = [got EXCEPT ![call.tool] = Append(@, Head(held))]
          /\ held' = Tail(held)
          /\ UNCHANGED at
       \/ /\ held = <<>>
          /\ at' = "args"
          /\ NoEvent
          /\ UNCHANGED <<got, held>>
    /\ UNCHANGED <<toolVars, call, tries, hadTool, sent>>

\* A bug: the input of a Task is passed on like any other, and again at the end.
PassOnArgsUnmarked ==
    LET i == call.tool
    IN  /\ at = "args" /\ at' = "reading" /\ call' = NoCall
        /\ contents' = IF call.args THEN [contents EXCEPT ![i] = Append(@, LastFragment(i))]
                                    ELSE contents
        /\ \/ /\ call.args
              /\ DeltaBlock(i)
              /\ got' = [got EXCEPT ![i] = Append(@, LastFragment(i))]
           \/ /\ ~call.args
              /\ NoEvent
              /\ UNCHANGED got
        /\ UNCHANGED <<name, emitted, held, tries, hadTool, sent>>

\* emit_tool_delta, or the buffer of a Task.
PassOnArgs ==
    LET i == call.tool
    IN  /\ at = "args" /\ at' = "reading" /\ call' = NoCall
        /\ contents' = IF call.args THEN [contents EXCEPT ![i] = Append(@, LastFragment(i))]
                                    ELSE contents
        /\ \/ /\ call.args /\ name[i] # Task
              /\ DeltaBlock(i)
              /\ got' = [got EXCEPT ![i] = Append(@, LastFragment(i))]
              /\ emitted' = emitted \cup {i}
           \/ /\ ~call.args \/ name[i] = Task
              /\ NoEvent
              /\ UNCHANGED <<got, emitted>>
        /\ UNCHANGED <<name, held, tries, hadTool, sent>>

-----------------------------------------------------------------------------
(***************************************************************************)
(* The ends.  HashMaps yield calls in any order.                           *)
(***************************************************************************)
\* A bug: retries are not counted.
RetryUncounted ==
    /\ at = "retry" /\ WayClear
    /\ at' = "attempt"
    /\ NoEvent
    /\ UNCHANGED <<restVars, tries, hadTool>>

\* The answer goes on with a corrective prompt; tool_states stays as it is.
Retry ==
    /\ at = "retry" /\ WayClear
    /\ attempt' = attempt + 1 /\ httpAttempt' = 0
    /\ at' = "attempt"
    /\ NoEvent
    /\ UNCHANGED <<restVars, loop, hadTool>>

HeldBack == {i \in ToolCalls : Started(i) /\ name[i] = Task /\ i \notin emitted}

\* flush_task_tool_inputs.
FlushTask(i) ==
    /\ at = "flush" /\ i \in HeldBack
    /\ DeltaBlock(i)
    /\ got' = [got EXCEPT ![i] = @ \o contents[i]]
    /\ emitted' = emitted \cup {i}
    /\ UNCHANGED <<name, contents, at, call, held, tries, hadTool, sent>>

AllFlushed ==
    /\ at = "flush" /\ HeldBack = {}
    /\ at' = "finish"
    /\ NoEvent
    /\ UNCHANGED <<restVars, tries, hadTool>>

\* close_all_blocks.
CloseTool(i) ==
    /\ at = "finish" /\ WayClear
    /\ i \in open
    /\ StopBlock(i)
    /\ UNCHANGED <<restVars, at, tries, hadTool>>

\* A bug: tool blocks are left to the client to close.
MessageDeltaEarly ==
    /\ at = "finish" /\ WayClear
    /\ at' = "last"
    /\ MessageEvent("message_delta")
    /\ UNCHANGED <<restVars, tries, hadTool>>

MessageDelta ==
    /\ at = "finish" /\ WayClear /\ open \cap ToolCalls = {}
    /\ at' = "last"
    /\ MessageEvent("message_delta")
    /\ UNCHANGED <<restVars, tries, hadTool>>

MessageStop ==
    /\ at = "last" /\ at' = "end"
    /\ MessageEvent("message_stop")
    /\ UNCHANGED <<restVars, tries, hadTool>>

\* What the loop does by itself, as long as the client polls.
Proceed ==
    \/ MessageStart \/ RegisterCall \/ PassOnHeld \/ PassOnArgs
    \/ \E slot \in Content : CloseContent(slot) \/ ShowContent(slot)
    \/ \E slot \in AtOnce : ShowAtOnce(slot)
    \/ Retry \/ AllFlushed \/ MessageDelta \/ MessageStop
    \/ \E i \in ToolCalls : FlushTask(i) \/ CloseTool(i)

\* What the providers do.
Ends == Attempt \/ StreamBreaks \/ EndOfStream

Next ==
    \/ Proceed
    \/ Ends
    \/ Receive
    \/ \E i \in ToolCalls : ReceiveCall(i)

Spec == Init /\ [][Next]_vars

\* The client goes on polling, an attempt has timeouts and a provider's stream
\* has an end.
FairSpec == Spec /\ WF_vars(Proceed) /\ SF_vars(Ends)

-----------------------------------------------------------------------------
(***************************************************************************)
(* What the client has been told so far, from the builder's books: the     *)
(* refinement mapping.                                                     *)
(***************************************************************************)
Phase ==
    CASE at = "begin" -> "begin"
      [] at = "last" -> "delta"
      [] at = "end" -> "end"
      [] OTHER -> "body"

OpenBlocks == {[index |-> index[s], kind |-> Kind(s)] : s \in open}

-----------------------------------------------------------------------------
\* README: the answer is streamed "using Anthropic's exact SSE (Server-Sent
\* Events) formatting and event sequences": whatever thinking, text, tool calls,
\* retries and errors the providers send in whatever order, the events the
\* client gets are those of a MessageStream.
Stream == INSTANCE MessageStream WITH phase <- Phase, next <- nextIndex, open <- OpenBlocks

StreamProtocol == Stream!Spec

\* An answer that ends without an error has passed every fragment of input of
\* every started call to the client, once and in order, whether it came before
\* the name, was held back for the end, or arrived in a later attempt.  (Not so
\* for a name that turns into Task, or ceases to be it, in the open block.)
InputComplete ==
    event.type = "message_delta" /\ index["error"] = NoIndex =>
        \A i \in ToolCalls : Started(i) => got[i] = [k \in 1 .. sent[i] |-> k]

\* "Keeping the connection open and preventing Claude Code from stalling"
\* (README on retries): every answer comes to its message_stop.
StreamEnds == <>(at = "end")

\* README, "exact ... event sequences": content blocks follow one another.
OneBlockAtATime == \A s, t \in open : s = t
=============================================================================
