--------------------------- MODULE SSEStreamProofs ---------------------------
(***************************************************************************)
(* The events of an answer follow the protocol of MessageStream, for any   *)
(* set of tool calls and names and any number of attempts, fragments and   *)
(* blocks.                                                                 *)
(*                                                                         *)
(* Where the loop is tells which blocks are open, and that bounds what it  *)
(* still yields before it asks the provider for more (OwnLeft).            *)
(***************************************************************************)
EXTENDS SSEStream, FiniteSetTheorems, SequenceTheorems, TLAPS

\* Blocks that are open have numbers of their own below next_index.
Numbered ==
    /\ nextIndex \in Nat
    /\ index \in [Slots -> Int]
    /\ open \subseteq Slots
    /\ \A s \in open : index[s] \in 0 .. nextIndex - 1
    /\ \A s, t \in open : index[s] = index[t] => s = t

\* Where the loop is tells which blocks are open: those written out at once only
\* while they are, a call's from its start until the end of the answer, and none
\* at all outside the body of the message.
Discipline ==
    /\ "found" \in open => at \in {"foundInput", "foundStop"}
    /\ at \in {"foundInput", "foundStop"} => "found" \in open
    /\ "error" \in open => at \in {"errorText", "errorStop"}
    /\ at \in {"errorText", "errorStop"} => "error" \in open
    /\ at \in {"begin", "last", "end"} => open = {}
    /\ at \in {"call", "held", "args"} => call.tool \in ToolCalls
    /\ at \in {"held", "args"} => Started(call.tool)
    /\ at \notin {"finish", "last", "end"} =>
           \A i \in ToolCalls : Started(i) => i \in open

IInv == Numbered /\ Discipline

-----------------------------------------------------------------------------
\* The slots are told apart by their names.
LEMMA SlotFacts ==
    /\ \A s \in Slots : Kind(s) \in Kinds
    /\ Content \subseteq Slots /\ AtOnce \subseteq Slots /\ ToolCalls \subseteq Slots
    /\ "found" \in Slots /\ "error" \in Slots
    /\ "found" \notin ToolCalls /\ "error" \notin ToolCalls
    /\ "text" \notin ToolCalls /\ "thinking" \notin ToolCalls
BY SSEStreamAssumption DEF SSEStreamAssumption, Slots, Kind, Kinds, Content, AtOnce

\* A block that starts gets the next number, which no open block has, and the
\* client sees a block of its kind open.
LEMMA StartIsBlockStart ==
    ASSUME Numbered, NEW slot \in Slots, slot \notin open, StartBlock(slot),
           Phase = "body", Phase' = "body"
    PROVE  Numbered' /\ Stream!BlockStart(Kind(slot)) /\ Kind(slot) \in Kinds
<1>1. /\ index' = [index EXCEPT ![slot] = nextIndex]
      /\ nextIndex' = nextIndex + 1
      /\ open' = open \cup {slot}
      /\ event' = [type |-> "content_block_start", index |-> nextIndex, kind |-> Kind(slot)]
  BY DEF StartBlock, BlockEvent, Numbered
<1>2. Numbered'
  BY <1>1 DEF Numbered
<1>3. OpenBlocks' = OpenBlocks \cup {[index |-> nextIndex, kind |-> Kind(slot)]}
  <2>1. \A s \in open : index'[s] = index[s]
    BY <1>1 DEF Numbered
  <2>2. index'[slot] = nextIndex
    BY <1>1 DEF Numbered
  <2>3. QED
    BY <1>1, <2>1, <2>2 DEF OpenBlocks, Kind
<1>4. QED
  BY <1>1, <1>2, <1>3, SlotFacts DEF Stream!BlockStart, Stream!Event

\* A delta goes to a block the client has open.
LEMMA DeltaIsBlockDelta ==
    ASSUME Numbered, NEW slot \in open, DeltaBlock(slot), Phase = "body", Phase' = "body"
    PROVE  Numbered' /\ \E block \in OpenBlocks : Stream!BlockDelta(block)
<1> DEFINE block == [index |-> index[slot], kind |-> Kind(slot)]
<1>1. UNCHANGED <<nextIndex, index, open>> /\ event' = Stream!Event("content_block_delta", block.index, block.kind)
  BY DEF DeltaBlock, BlockEvent, Stream!Event
<1>2. block \in OpenBlocks
  BY DEF OpenBlocks
<1>3. UNCHANGED OpenBlocks
  BY <1>1 DEF OpenBlocks
<1>4. Stream!BlockDelta(block)
  BY <1>1, <1>2, <1>3 DEF Stream!BlockDelta
<1>5. QED
  BY <1>1, <1>2, <1>4 DEF Numbered

\* A block is stopped once, and no other with it.
LEMMA StopIsBlockStop ==
    ASSUME Numbered, NEW slot \in open, StopBlock(slot), Phase = "body", Phase' = "body"
    PROVE  Numbered' /\ \E block \in OpenBlocks : Stream!BlockStop(block)
<1> DEFINE block == [index |-> index[slot], kind |-> Kind(slot)]
<1>1. /\ UNCHANGED <<nextIndex, index>> /\ open' = open \ {slot}
      /\ event' = Stream!Event("content_block_stop", block.index, block.kind)
  BY DEF StopBlock, BlockEvent, Stream!Event
<1>2. block \in OpenBlocks
  BY DEF OpenBlocks
<1>3. OpenBlocks' = {b \in OpenBlocks : b.index # block.index}
  BY <1>1 DEF OpenBlocks, Numbered, Kind
<1>4. Stream!BlockStop(block)
  BY <1>1, <1>2, <1>3 DEF Stream!BlockStop
<1>5. QED
  BY <1>1, <1>2, <1>4 DEF Numbered

\* What the client does not see changes nothing for it.
LEMMA NoEventStutters ==
    ASSUME Numbered, NoEvent, Phase' = Phase
    PROVE  Numbered' /\ UNCHANGED Stream!vars
BY DEF NoEvent, Numbered, OpenBlocks, Stream!vars

LEMMA PhaseFacts ==
    /\ at = "begin" => Phase = "begin"
    /\ at = "last" => Phase = "delta"
    /\ at = "end" => Phase = "end"
    /\ at \notin {"begin", "last", "end"} => Phase = "body"
BY DEF Phase

LEMMA PhaseFactsNext ==
    /\ at' = "last" => Phase' = "delta"
    /\ at' = "end" => Phase' = "end"
    /\ at' \notin {"begin", "last", "end"} => Phase' = "body"
BY DEF Phase

LEMMA InitCorrect == Init => IInv /\ Stream!Init
<1> SUFFICES ASSUME Init PROVE IInv /\ Stream!Init
  OBVIOUS
<1>1. Numbered
  BY DEF Init, Numbered, NoIndex
<1>2. Discipline
  BY DEF Init, Discipline, Started, Slots
<1>3. Stream!Init
  BY PhaseFacts DEF Init, Stream!Init, Stream!MessageEvent, OpenBlocks
<1>4. QED
  BY <1>1, <1>2, <1>3 DEF IInv

-----------------------------------------------------------------------------
\* Every step of the loop keeps the books in order and is one event of the
\* protocol or none.
LEMMA ProceedCorrect ==
    ASSUME IInv, Proceed
    PROVE  IInv' /\ [Stream!Next]_(Stream!vars)
<1> USE PhaseFacts, PhaseFactsNext, SlotFacts DEF IInv
<1>1. CASE MessageStart
  <2>1. Numbered'
    BY <1>1 DEF MessageStart, MessageEvent, Numbered
  <2>2. Discipline'
    BY <1>1 DEF MessageStart, MessageEvent, Discipline, Started
  <2>3. Stream!MessageStart
    BY <1>1 DEF MessageStart, MessageEvent, Stream!MessageStart, Stream!MessageEvent, OpenBlocks
  <2>4. QED
    BY <2>1, <2>2, <2>3 DEF Stream!Next
<1>2. ASSUME NEW slot \in Content, CloseContent(slot)
      PROVE  IInv' /\ [Stream!Next]_(Stream!vars)
  <2>1. at \notin {"begin", "last", "end"} /\ UNCHANGED at /\ slot \in open /\ StopBlock(slot)
    BY <1>2 DEF CloseContent, InTheWay
  <2>2. Numbered' /\ \E block \in OpenBlocks : Stream!BlockStop(block)
    BY <2>1, StopIsBlockStop
  <2>3. slot \notin ToolCalls /\ slot # "found" /\ slot # "error"
    BY DEF Content
  <2>4. Discipline'
    BY <1>2, <2>1, <2>3 DEF CloseContent, restVars, StopBlock, Discipline, Started
  <2>5. QED
    BY <2>2, <2>4 DEF Stream!Next
<1>3. ASSUME NEW slot \in Content, ShowContent(slot)
      PROVE  IInv' /\ [Stream!Next]_(Stream!vars)
  <2>1. at \notin {"begin", "last", "end"} /\ at' \notin {"begin", "last", "end"}
    BY <1>3 DEF ShowContent, Content, Flush
  <2>2. slot \notin ToolCalls /\ slot # "found" /\ slot # "error"
    BY DEF Content
  <2>3. CASE slot \notin open /\ StartBlock(slot) /\ UNCHANGED at
    <3>1. Numbered' /\ Stream!BlockStart(Kind(slot)) /\ Kind(slot) \in Kinds
      BY <2>1, <2>3, StartIsBlockStart
    <3>2. Discipline'
      BY <1>3, <2>1, <2>2, <2>3
      DEF ShowContent, restVars, StartBlock, Discipline, Started, Numbered
    <3>3. QED
      BY <3>1, <3>2 DEF Stream!Next
  <2>4. CASE slot \in open /\ DeltaBlock(slot) /\ at' \in {"flush", "finish", "reading"}
    <3>1. Numbered' /\ \E block \in OpenBlocks : Stream!BlockDelta(block)
      BY <2>1, <2>4, DeltaIsBlockDelta
    <3>2. Discipline'
      BY <1>3, <2>1, <2>4 DEF ShowContent, Content, restVars, DeltaBlock, Discipline, Started
    <3>3. QED
      BY <3>1, <3>2 DEF Stream!Next
  <2>5. QED
    BY <1>3, <2>3, <2>4 DEF ShowContent, Flush
<1>4. ASSUME NEW slot \in AtOnce, ShowAtOnce(slot)
      PROVE  IInv' /\ [Stream!Next]_(Stream!vars)
  <2>1. at \notin {"begin", "last", "end"} /\ at' \notin {"begin", "last", "end"}
    BY <1>4 DEF ShowAtOnce, AtOnce
  <2>2. slot \in {"found", "error"} /\ slot \notin ToolCalls
    BY DEF AtOnce
  <2>3. CASE at \in {"found", "error"}
    <3>1. /\ StartBlock(slot) /\ slot \notin open
          /\ slot = "found" => at' = "foundInput"
          /\ slot = "error" => at = "error" /\ at' = "errorText"
      BY <1>4, <2>2, <2>3 DEF ShowAtOnce, Discipline
    <3>2. Numbered' /\ Stream!BlockStart(Kind(slot)) /\ Kind(slot) \in Kinds
      BY <2>1, <3>1, StartIsBlockStart
    <3>3. Discipline'
      BY <1>4, <2>2, <2>3, <3>1
      DEF ShowAtOnce, restVars, StartBlock, Discipline, Started, Numbered
    <3>4. QED
      BY <3>2, <3>3 DEF Stream!Next
  <2>4. CASE at \in {"foundInput", "errorText"}
    <3>1. /\ DeltaBlock(slot) /\ slot \in open
          /\ at = "foundInput" => at' = "foundStop"
          /\ at = "errorText" => at' = "errorStop"
      BY <1>4, <2>2, <2>4 DEF ShowAtOnce, Discipline
    <3>2. Numbered' /\ \E block \in OpenBlocks : Stream!BlockDelta(block)
      BY <2>1, <3>1, DeltaIsBlockDelta
    <3>3. Discipline'
      BY <1>4, <2>4, <3>1 DEF ShowAtOnce, restVars, DeltaBlock, Discipline, Started
    <3>4. QED
      BY <3>2, <3>3 DEF Stream!Next
  <2>5. CASE at \in {"foundStop", "errorStop"}
    <3>1. /\ StopBlock(slot) /\ slot \in open
          /\ at = "foundStop" => slot = "found" /\ at' = "reading"
          /\ at = "errorStop" => slot = "error" /\ at' = "finish"
      BY <1>4, <2>2, <2>5 DEF ShowAtOnce, Discipline
    <3>2. Numbered' /\ \E block \in OpenBlocks : Stream!BlockStop(block)
      BY <2>1, <3>1, StopIsBlockStop
    <3>3. Discipline'
      BY <1>4, <2>2, <2>5, <3>1 DEF ShowAtOnce, restVars, StopBlock, Discipline, Started
    <3>4. QED
      BY <3>2, <3>3 DEF Stream!Next
  <2>6. QED
    BY <1>4, <2>2, <2>3, <2>4, <2>5 DEF ShowAtOnce
<1>5. CASE RegisterCall
  <2> DEFINE i == call.tool
  <2>1. i \in ToolCalls /\ at = "call"
    BY <1>5 DEF RegisterCall, Discipline
  <2>2. CASE Started(i)
    <3>1. NoEvent /\ at' = "args" /\ UNCHANGED call
      BY <1>5, <2>2 DEF RegisterCall
    <3>2. Discipline'
      BY <2>1, <2>2, <3>1 DEF NoEvent, Discipline, Started
    <3>3. QED
      BY <2>1, <3>1, <3>2, NoEventStutters
  <2>3. CASE ~Started(i) /\ at' = "reading" /\ NoEvent
    <3>1. Discipline'
      BY <2>1, <2>3 DEF NoEvent, Discipline, Started
    <3>2. QED
      BY <2>1, <2>3, <3>1, NoEventStutters
  <2>4. CASE ~Started(i) /\ at' = "held" /\ StartBlock(i) /\ UNCHANGED call
    <3>1. i \notin open
      BY <2>4 DEF Started, Numbered, NoIndex
    <3>2. Numbered' /\ Stream!BlockStart(Kind(i)) /\ Kind(i) \in Kinds
      BY <2>1, <2>4, <3>1, StartIsBlockStart
    <3>3. Discipline'
      <4>1. /\ index' = [index EXCEPT ![i] = nextIndex] /\ open' = open \cup {i}
            /\ at' = "held" /\ at = "call" /\ UNCHANGED call
        BY <2>1, <2>4 DEF StartBlock
      <4>2. Started(i)'
        BY <2>1, <4>1 DEF Started, Numbered, NoIndex
      <4>3. \A j \in ToolCalls : Started(j)' => j \in open'
        BY <2>1, <4>1 DEF Started, Numbered, Discipline
      <4>4. QED
        BY <2>1, <4>1, <4>2, <4>3 DEF Discipline, Started
    <3>4. QED
      BY <3>2, <3>3 DEF Stream!Next
  <2>5. QED
    BY <1>5, <2>2, <2>3, <2>4 DEF RegisterCall
<1>6. CASE PassOnHeld
  <2>1. at = "held" /\ call.tool \in open /\ UNCHANGED call
    BY <1>6 DEF PassOnHeld, Discipline
  <2>2. CASE DeltaBlock(call.tool) /\ UNCHANGED at
    <3>1. Numbered' /\ \E block \in OpenBlocks : Stream!BlockDelta(block)
      BY <2>1, <2>2, DeltaIsBlockDelta
    <3>2. Discipline'
      BY <2>1, <2>2 DEF DeltaBlock, Discipline, Started
    <3>3. QED
      BY <3>1, <3>2 DEF Stream!Next
  <2>3. CASE NoEvent /\ at' = "args"
    <3>1. Discipline'
      BY <2>1, <2>3 DEF NoEvent, Discipline, Started
    <3>2. QED
      BY <2>1, <2>3, <3>1, NoEventStutters
  <2>4. QED
    BY <1>6, <2>2, <2>3 DEF PassOnHeld
<1>7. CASE PassOnArgs
  <2>1. at = "args" /\ at' = "reading" /\ call.tool \in open
    BY <1>7 DEF PassOnArgs, Discipline
  <2>2. CASE DeltaBlock(call.tool)
    <3>1. Numbered' /\ \E block \in OpenBlocks : Stream!BlockDelta(block)
      BY <2>1, <2>2, DeltaIsBlockDelta
    <3>2. Discipline'
      BY <2>1, <2>2 DEF DeltaBlock, Discipline, Started
    <3>3. QED
      BY <3>1, <3>2 DEF Stream!Next
  <2>3. CASE NoEvent
    <3>1. Discipline'
      BY <2>1, <2>3 DEF NoEvent, Discipline, Started
    <3>2. QED
      BY <2>1, <2>3, <3>1, NoEventStutters
  <2>4. QED
    BY <1>7, <2>2, <2>3 DEF PassOnArgs
<1>8. CASE Retry \/ AllFlushed
  <2>1. NoEvent /\ at \in {"retry", "flush"} /\ at' \in {"attempt", "finish"}
    BY <1>8 DEF Retry, AllFlushed
  <2>2. Discipline'
    BY <2>1 DEF NoEvent, Discipline, Started
  <2>3. QED
    BY <2>1, <2>2, NoEventStutters
<1>9. CASE MessageDelta
  <2>1. at = "finish" /\ at' = "last" /\ MessageEvent("message_delta")
    BY <1>9 DEF MessageDelta
  <2>2. open = {}
    BY <1>9 DEF MessageDelta, WayClear, InTheWay, Discipline, Numbered, Slots, AtOnce
  <2>3. Numbered' /\ Discipline'
    BY <2>1, <2>2 DEF MessageEvent, Numbered, Discipline, Started
  <2>4. Stream!MessageDelta
    BY <2>1, <2>2 DEF MessageEvent, Stream!MessageDelta, Stream!MessageEvent, OpenBlocks
  <2>5. QED
    BY <2>3, <2>4 DEF Stream!Next
<1>10. CASE MessageStop
  <2>1. Numbered' /\ Discipline'
    BY <1>10 DEF MessageStop, MessageEvent, Numbered, Discipline, Started
  <2>2. Stream!MessageStop
    BY <1>10 DEF MessageStop, MessageEvent, Stream!MessageStop, Stream!MessageEvent, OpenBlocks
  <2>3. QED
    BY <2>1, <2>2 DEF Stream!Next
<1>11. ASSUME NEW i \in ToolCalls, FlushTask(i)
       PROVE  IInv' /\ [Stream!Next]_(Stream!vars)
  <2>1. at = "flush" /\ UNCHANGED at /\ i \in open /\ DeltaBlock(i)
    BY <1>11 DEF FlushTask, HeldBack, Discipline
  <2>2. Numbered' /\ \E block \in OpenBlocks : Stream!BlockDelta(block)
    BY <2>1, DeltaIsBlockDelta
  <2>3. Discipline'
    BY <2>1 DEF DeltaBlock, Discipline, Started
  <2>4. QED
    BY <2>2, <2>3 DEF Stream!Next
<1>12. ASSUME NEW i \in ToolCalls, CloseTool(i)
       PROVE  IInv' /\ [Stream!Next]_(Stream!vars)
  <2>1. at = "finish" /\ UNCHANGED at /\ i \in open /\ StopBlock(i)
    BY <1>12 DEF CloseTool
  <2>2. Numbered' /\ \E block \in OpenBlocks : Stream!BlockStop(block)
    BY <2>1, StopIsBlockStop
  <2>3. Discipline'
    BY <2>1 DEF StopBlock, Discipline, Started
  <2>4. QED
    BY <2>2, <2>3 DEF Stream!Next
<1>13. QED
  BY <1>1, <1>2, <1>3, <1>4, <1>5, <1>6, <1>7, <1>8, <1>9, <1>10, <1>11, <1>12 DEF Proceed

\* What the providers send is not an event for the client yet.
LEMMA ProviderCorrect ==
    ASSUME IInv, Ends \/ Receive \/ \E i \in ToolCalls : ReceiveCall(i)
    PROVE  IInv' /\ UNCHANGED Stream!vars
<1>1. /\ NoEvent /\ at \in {"attempt", "reading"}
      /\ at' \in {"attempt", "reading", "thinking", "text", "found", "call", "retry",
                   "filler", "flush", "finish", "error"}
      /\ at' = "call" => call'.tool \in ToolCalls
  BY DEF Ends, Attempt, StreamBreaks, EndOfStream, Flush, Receive, ReceiveCall
<1>2. Phase = "body" /\ Phase' = "body"
  BY <1>1, PhaseFacts, PhaseFactsNext
<1>3. Numbered' /\ UNCHANGED Stream!vars
  BY <1>1, <1>2, NoEventStutters DEF IInv
<1>4. Discipline'
  BY <1>1 DEF IInv, NoEvent, Discipline, Started
<1>5. QED
  BY <1>3, <1>4 DEF IInv

LEMMA StepCorrect == IInv /\ [Next]_vars => IInv' /\ [Stream!Next]_(Stream!vars)
<1> SUFFICES ASSUME IInv, [Next]_vars PROVE IInv' /\ [Stream!Next]_(Stream!vars)
  OBVIOUS
<1>1. CASE Proceed
  BY <1>1, ProceedCorrect
<1>2. CASE Ends \/ Receive \/ \E i \in ToolCalls : ReceiveCall(i)
  BY <1>2, ProviderCorrect
<1>3. CASE UNCHANGED vars
  <2>1. UNCHANGED <<nextIndex, index, open, at, call, event>>
    BY <1>3 DEF vars, builderVars, loopVars
  <2>2. UNCHANGED Phase /\ UNCHANGED OpenBlocks
    BY <2>1 DEF Phase, OpenBlocks
  <2>3. IInv'
    BY <2>1 DEF IInv, Numbered, Discipline, Started
  <2>4. QED
    BY <2>1, <2>2, <2>3 DEF Stream!vars
<1>4. QED
  BY <1>1, <1>2, <1>3 DEF Next

-----------------------------------------------------------------------------
\* sse.rs and stream_response: the events of an answer are those of the
\* protocol the client follows, whatever the providers send.
THEOREM FollowsProtocol == Spec => StreamProtocol
<1>1. Init => IInv /\ Stream!Init
  BY InitCorrect
<1>2. IInv /\ [Next]_vars => IInv' /\ [Stream!Next]_(Stream!vars)
  BY StepCorrect
<1>3. QED
  BY <1>1, <1>2, PTL DEF Spec, StreamProtocol, Stream!Spec

\* sse.rs: no two open blocks share a number, and none has a number that
\* allocate_index is still to give out.
THEOREM NumbersUnique == Spec => []Numbered
<1>1. IInv => Numbered
  BY DEF IInv
<1>2. QED
  BY <1>1, InitCorrect, StepCorrect, PTL DEF Spec

-----------------------------------------------------------------------------
(***************************************************************************)
(* Types.  A fragment in hand has been counted as sent, and an attempt     *)
(* that is about to begin has not been made.                               *)
(***************************************************************************)
TypeInv ==
    /\ TypeOK
    /\ call.args => call.tool \in ToolCalls /\ sent[call.tool] \in Fragments
    /\ at = "retry" => attempt + 1 < MaxAttempts

\* The builder's books after an event, or without one.
LEMMA EventTypes ==
    ASSUME TypeInv,
           \/ \E slot \in Slots : StartBlock(slot) \/ DeltaBlock(slot) \/ StopBlock(slot)
           \/ \E type : MessageEvent(type)
           \/ NoEvent
    PROVE  /\ nextIndex' \in Nat /\ index' \in [Slots -> Nat \cup {NoIndex}]
           /\ open' \subseteq Slots
<1>1. /\ nextIndex \in Nat /\ index \in [Slots -> Nat \cup {NoIndex}] /\ open \subseteq Slots
  BY DEF TypeInv, TypeOK
<1>2. ASSUME NEW slot \in Slots, StartBlock(slot)
      PROVE  /\ nextIndex' \in Nat /\ index' \in [Slots -> Nat \cup {NoIndex}]
             /\ open' \subseteq Slots
  <2>1. /\ index' = [index EXCEPT ![slot] = nextIndex] /\ nextIndex' = nextIndex + 1
        /\ open' = open \cup {slot}
    BY <1>2 DEF StartBlock
  <2>2. QED
    BY <1>1, <2>1
<1>3. ASSUME NEW slot \in Slots, StopBlock(slot)
      PROVE  UNCHANGED <<nextIndex, index>> /\ open' \subseteq open
  BY <1>3 DEF StopBlock
<1>4. ASSUME NEW slot \in Slots, DeltaBlock(slot)
      PROVE  UNCHANGED <<nextIndex, index, open>>
  BY <1>4 DEF DeltaBlock
<1>5. ASSUME NEW type, MessageEvent(type)
      PROVE  UNCHANGED <<nextIndex, index, open>>
  BY <1>5 DEF MessageEvent
<1>6. NoEvent => UNCHANGED <<nextIndex, index, open>>
  BY DEF NoEvent
<1>7. QED
  BY <1>1, <1>2, <1>3, <1>4, <1>5, <1>6

LEMMA NoCallTypes == NoCall \in Calls /\ NoCall.tool = NoTool /\ NoCall.args = FALSE /\ NoTool \notin ToolCalls
<1>1. NoTool \notin ToolCalls
  BY SSEStreamAssumption DEF SSEStreamAssumption, NoTool
<1>2. <<>> \in AnyName
  BY Zenon DEF AnyName
<1>3. NoCall \in Calls
  BY <1>2 DEF NoCall, Calls
<1>4. QED
  BY <1>1, <1>3 DEF NoCall

LEMMA InitTypes == Init => TypeInv
<1> SUFFICES ASSUME Init PROVE TypeInv
  OBVIOUS
<1>1. /\ nextIndex \in Nat /\ index \in [Slots -> Nat \cup {NoIndex}] /\ open \subseteq Slots
  BY DEF Init
<1>2. DOMAIN name = ToolCalls /\ emitted \subseteq ToolCalls
  BY DEF Init
<1>3. contents \in [ToolCalls -> Seq(Fragments)] /\ got \in [ToolCalls -> Seq(Fragments)]
  BY EmptySeq DEF Init
<1>4. held \in Seq(Fragments) /\ at \in Places /\ loop \in Loops /\ hadTool \in BOOLEAN
  BY EmptySeq DEF Init, Places
<1>5. /\ attempt \in 0 .. MaxAttempts - 1 /\ httpAttempt \in 0 .. MaxHttpRetries
      /\ sent \in [ToolCalls -> 0 .. ArgsBound]
  BY SSEStreamAssumption DEF SSEStreamAssumption, Init
<1>6. call \in Calls /\ call.tool \notin ToolCalls /\ ~call.args /\ at = "begin"
  BY NoCallTypes DEF Init
<1>7. QED
  BY <1>1, <1>2, <1>3, <1>4, <1>5, <1>6 DEF TypeInv, TypeOK

LEMMA TypesKept == TypeInv /\ [Next]_vars => TypeInv'
<1> SUFFICES ASSUME TypeInv, [Next]_vars PROVE TypeInv'
  OBVIOUS
<1> USE SlotFacts, NoCallTypes DEF Places
<1>1. ASSUME UNCHANGED <<toolVars, call, held, history, hadTool>>,
             \/ \E slot \in Slots : StartBlock(slot) \/ DeltaBlock(slot) \/ StopBlock(slot)
             \/ \E type : MessageEvent(type)
             \/ NoEvent,
             at' \in Places, at' \in {"call", "held", "args"} <=> at \in {"call", "held", "args"},
             loop' \in Loops /\ attempt' \in 0 .. MaxAttempts - 1 /\ httpAttempt' \in 0 .. MaxHttpRetries,
             at' = "retry" => attempt' + 1 < MaxAttempts
      PROVE  TypeInv'
  <2>1. UNCHANGED <<name, contents, emitted, call, held, sent, got, hadTool>>
    BY <1>1 DEF toolVars, history
  <2>2. /\ nextIndex' \in Nat /\ index' \in [Slots -> Nat \cup {NoIndex}]
        /\ open' \subseteq Slots
    BY <1>1, EventTypes
  <2>3. QED
    BY <1>1, <2>1, <2>2 DEF TypeInv, TypeOK
<1>2. CASE MessageStart \/ AllFlushed \/ MessageDelta \/ MessageStop \/ EndOfStream \/ Receive
  BY <1>1, <1>2
  DEF MessageStart, AllFlushed, MessageDelta, MessageStop, EndOfStream, Receive, MayRetry, Flush,
      restVars, tries, TypeInv, TypeOK
<1>3. CASE Attempt \/ StreamBreaks \/ Retry
  <2>1. loop' \in Loops /\ attempt' \in 0 .. MaxAttempts - 1 /\ httpAttempt' \in 0 .. MaxHttpRetries
    BY <1>3, SSEStreamAssumption
    DEF SSEStreamAssumption, Attempt, StreamBreaks, Retry, TypeInv, TypeOK
  <2>2. at' = "retry" => attempt' + 1 < MaxAttempts
    BY <1>3 DEF Attempt, StreamBreaks, Retry, MayRetry
  <2>3. QED
    BY <1>1, <1>3, <2>1, <2>2 DEF Attempt, StreamBreaks, Retry, restVars
<1>4. ASSUME NEW slot \in Content, CloseContent(slot) \/ ShowContent(slot)
      PROVE  TypeInv'
  BY <1>1, <1>4 DEF CloseContent, ShowContent, Flush, Content, restVars, tries, TypeInv, TypeOK
<1>5. ASSUME NEW slot \in AtOnce, ShowAtOnce(slot)
      PROVE  TypeInv'
  <2>1. /\ at' \in {"foundInput", "foundStop", "reading", "errorText", "errorStop", "finish"}
        /\ at \notin {"call", "held", "args"}
        /\ StartBlock(slot) \/ DeltaBlock(slot) \/ StopBlock(slot)
        /\ UNCHANGED <<restVars, tries>> /\ hadTool' \in BOOLEAN
    BY <1>5 DEF ShowAtOnce, AtOnce, TypeInv, TypeOK
  <2>2. UNCHANGED <<name, contents, emitted, call, held, sent, got, loop, attempt, httpAttempt>>
    BY <2>1 DEF restVars, toolVars, history, tries
  <2>3. /\ nextIndex' \in Nat /\ index' \in [Slots -> Nat \cup {NoIndex}]
        /\ open' \subseteq Slots
    BY <2>1, EventTypes
  <2>4. QED
    BY <2>1, <2>2, <2>3 DEF TypeInv, TypeOK
<1>6. ASSUME NEW i \in ToolCalls, ReceiveCall(i)
      PROVE  TypeInv'
  <2>1. PICK n \in Names[i] \cup {<<>>}, args \in BOOLEAN :
            /\ args => sent[i] < ArgsBound
            /\ call' = [tool |-> i, name |-> n, args |-> args]
            /\ sent' = IF args THEN [sent EXCEPT ![i] = @ + 1] ELSE sent
    BY <1>6 DEF ReceiveCall
  <2>2. n \in AnyName
    BY Zenon DEF AnyName
  <2>3. call' \in Calls
    BY <2>1, <2>2 DEF Calls
  <2>4. /\ sent' \in [ToolCalls -> 0 .. ArgsBound]
        /\ args => sent'[i] \in Fragments
    BY <2>1, SSEStreamAssumption DEF SSEStreamAssumption, TypeInv, TypeOK, Fragments
  <2>5. QED
    BY <1>6, <2>1, <2>3, <2>4, EventTypes DEF ReceiveCall, toolVars, tries, TypeInv, TypeOK
<1>7. CASE RegisterCall
  <2> DEFINE i == call.tool
  <2>1. at = "call" /\ i \in ToolCalls
    BY <1>7 DEF RegisterCall, TypeInv, TypeOK
  <2>2. call.args => LastFragment(i) \in Fragments
    BY DEF TypeInv, LastFragment
  <2>3. /\ DOMAIN name' = ToolCalls /\ contents' \in [ToolCalls -> Seq(Fragments)]
        /\ held' \in Seq(Fragments) /\ hadTool' \in BOOLEAN
    <3>1. contents[i] \in Seq(Fragments) /\ <<>> \in Seq(Fragments)
      BY <2>1, EmptySeq DEF TypeInv, TypeOK
    <3>2. call.args => Append(contents[i], LastFragment(i)) \in Seq(Fragments)
      BY <2>2, <3>1, AppendProperties
    <3>3. DOMAIN name' = ToolCalls /\ hadTool' \in BOOLEAN
      BY <1>7 DEF RegisterCall, TypeInv, TypeOK
    <3>4. contents' \in [ToolCalls -> Seq(Fragments)]
      <4>1. CASE contents' = [contents EXCEPT ![i] = Append(@, LastFragment(i))] /\ call.args
        BY <2>1, <3>2, <4>1 DEF TypeInv, TypeOK
      <4>2. CASE contents' = contents
        BY <4>2 DEF TypeInv, TypeOK
      <4>3. QED
        BY <1>7, <4>1, <4>2 DEF RegisterCall
    <3>5. held' \in Seq(Fragments)
      <4>1. held' \in {held, <<>>, contents[i]}
        BY <1>7 DEF RegisterCall
      <4>2. QED
        BY <3>1, <4>1 DEF TypeInv, TypeOK
    <3>6. QED
      BY <3>3, <3>4, <3>5
  <2>4. \/ at' \in {"args", "held"} /\ UNCHANGED call
        \/ at' = "reading" /\ call' = NoCall
    BY <1>7 DEF RegisterCall
  <2>5. /\ nextIndex' \in Nat /\ index' \in [Slots -> Nat \cup {NoIndex}]
        /\ open' \subseteq Slots
    BY <1>7, <2>1, EventTypes DEF RegisterCall
  <2>6. UNCHANGED <<emitted, loop, attempt, httpAttempt, sent, got>>
    BY <1>7 DEF RegisterCall, tries, history
  <2>7. QED
    BY <2>1, <2>3, <2>4, <2>5, <2>6 DEF TypeInv, TypeOK
<1>8. CASE PassOnHeld
  <2>1. /\ at = "held" /\ at' \in {"held", "args"} /\ call.tool \in ToolCalls
        /\ UNCHANGED <<name, contents, emitted, call, loop, attempt, httpAttempt, hadTool, sent>>
    BY <1>8 DEF PassOnHeld, toolVars, tries, TypeInv, TypeOK
  <2>2. held' \in Seq(Fragments) /\ got' \in [ToolCalls -> Seq(Fragments)]
    <3>1. CASE held # <<>> /\ held' = Tail(held)
               /\ got' = [got EXCEPT ![call.tool] = Append(@, Head(held))]
      <4>1. held \in Seq(Fragments) /\ got[call.tool] \in Seq(Fragments)
        BY <2>1 DEF TypeInv, TypeOK
      <4>2. Head(held) \in Fragments /\ Tail(held) \in Seq(Fragments)
        BY <3>1, <4>1, HeadTailProperties
      <4>3. Append(got[call.tool], Head(held)) \in Seq(Fragments)
        BY <4>1, <4>2, AppendProperties
      <4>4. QED
        BY <2>1, <3>1, <4>2, <4>3 DEF TypeInv, TypeOK
    <3>2. CASE UNCHANGED <<got, held>>
      BY <3>2 DEF TypeInv, TypeOK
    <3>3. QED
      BY <1>8, <3>1, <3>2 DEF PassOnHeld
  <2>3. /\ nextIndex' \in Nat /\ index' \in [Slots -> Nat \cup {NoIndex}]
        /\ open' \subseteq Slots
    BY <1>8, <2>1, EventTypes DEF PassOnHeld
  <2>4. QED
    BY <2>1, <2>2, <2>3 DEF TypeInv, TypeOK
<1>9. CASE PassOnArgs
  <2> DEFINE i == call.tool
  <2>1. /\ at = "args" /\ at' = "reading" /\ call' = NoCall /\ i \in ToolCalls
        /\ UNCHANGED <<name, held, loop, attempt, httpAttempt, hadTool, sent>>
    BY <1>9 DEF PassOnArgs, tries, TypeInv, TypeOK
  <2>2. call.args => LastFragment(i) \in Fragments
    BY DEF TypeInv, LastFragment
  <2>3. /\ contents' \in [ToolCalls -> Seq(Fragments)] /\ got' \in [ToolCalls -> Seq(Fragments)]
        /\ emitted' \subseteq ToolCalls
    <3>1. contents[i] \in Seq(Fragments) /\ got[i] \in Seq(Fragments)
      BY <2>1 DEF TypeInv, TypeOK
    <3>2. call.args => /\ Append(contents[i], LastFragment(i)) \in Seq(Fragments)
                       /\ Append(got[i], LastFragment(i)) \in Seq(Fragments)
      BY <2>2, <3>1, AppendProperties
    <3>3. contents' = IF call.args THEN [contents EXCEPT ![i] = Append(@, LastFragment(i))]
                                   ELSE contents
      BY <1>9 DEF PassOnArgs
    <3>4. \/ call.args /\ got' = [got EXCEPT ![i] = Append(@, LastFragment(i))]
          \/ UNCHANGED got
      BY <1>9 DEF PassOnArgs
    <3>5. emitted' \subseteq emitted \cup {i}
      BY <1>9 DEF PassOnArgs
    <3>6. contents' \in [ToolCalls -> Seq(Fragments)]
      BY <2>1, <3>2, <3>3 DEF TypeInv, TypeOK
    <3>7. got' \in [ToolCalls -> Seq(Fragments)]
      BY <2>1, <3>2, <3>4 DEF TypeInv, TypeOK
    <3>8. QED
      BY <2>1, <3>5, <3>6, <3>7 DEF TypeInv, TypeOK
  <2>4. /\ nextIndex' \in Nat /\ index' \in [Slots -> Nat \cup {NoIndex}]
        /\ open' \subseteq Slots
    BY <1>9, <2>1, EventTypes DEF PassOnArgs
  <2>5. QED
    BY <2>1, <2>3, <2>4 DEF TypeInv, TypeOK
<1>10. ASSUME NEW i \in ToolCalls, FlushTask(i)
       PROVE  TypeInv'
  <2>1. got' \in [ToolCalls -> Seq(Fragments)] /\ emitted' \subseteq ToolCalls
    BY <1>10 DEF FlushTask, TypeInv, TypeOK
  <2>2. QED
    BY <1>10, <2>1, EventTypes DEF FlushTask, tries, TypeInv, TypeOK
<1>11. ASSUME NEW i \in ToolCalls, CloseTool(i)
       PROVE  TypeInv'
  BY <1>1, <1>11 DEF CloseTool, restVars, tries, TypeInv, TypeOK
<1>12. CASE UNCHANGED vars
  BY <1>12 DEF vars, builderVars, loopVars, tries, history, TypeInv, TypeOK
<1>13. QED
  BY <1>2, <1>3, <1>4, <1>5, <1>6, <1>7, <1>8, <1>9, <1>10, <1>11, <1>12 DEF Next, Proceed, Ends

\* sse.rs and stream_response: every variable stays in its domain; attempts and
\* HTTP retries stay within what the settings allow, and a call is in hand
\* exactly while the loop deals with one.
THEOREM TypeCorrect == Spec => []TypeOK
<1>1. TypeInv => TypeOK
  BY DEF TypeInv
<1>2. QED
  BY <1>1, InitTypes, TypesKept, PTL DEF Spec

-----------------------------------------------------------------------------
(***************************************************************************)
(* The input of tool calls.  It depends on names that neither turn into    *)
(* Task nor cease to be it: a call whose chunks carry nothing but Task, or *)
(* names that all begin with another piece than Task does.                 *)
(***************************************************************************)
TaskOnly(i) == Names[i] \subseteq {Task}

NamesApart(Pieces) ==
    /\ Task \in Seq(Pieces) /\ Task # <<>>
    /\ \A i \in ToolCalls :
        /\ Names[i] \subseteq Seq(Pieces)
        /\ ~TaskOnly(i) => \A n \in Names[i] : n # <<>> => Head(n) # Head(Task)

\* A name that a call can have while its names are apart.
NameOf(i, n, Pieces) ==
    /\ n \in Seq(Pieces)
    /\ TaskOnly(i) => n \in {<<>>, Task}
    /\ ~TaskOnly(i) /\ n # <<>> => Head(n) # Head(Task)

\* register_tool_name gives such a name again, and never an empty one back.
LEMMA RegisteredApart ==
    ASSUME NEW Pieces, NamesApart(Pieces), NEW i \in ToolCalls,
           NEW known, NEW new, NameOf(i, known, Pieces), NameOf(i, new, Pieces)
    PROVE  /\ NameOf(i, Registered(known, new), Pieces)
           /\ known # <<>> => Registered(known, new) # <<>>
           /\ known = <<>> => Registered(known, new) = new
<1>1. known \in Seq(Pieces) /\ new \in Seq(Pieces) /\ Task \in Seq(Pieces) /\ Task # <<>>
  BY DEF NameOf, NamesApart
<1>2. CASE known = <<>>
  <2>1. IsPrefix(known, new)
    BY <1>1, <1>2 DEF IsPrefix
  <2>2. QED
    BY <1>2, <2>1 DEF Registered
<1>3. CASE known # <<>> /\ new = <<>>
  <2>1. ~IsPrefix(known, new) /\ IsPrefix(new, known)
    BY <1>1, <1>3 DEF IsPrefix
  <2>2. QED
    BY <1>3, <2>1 DEF Registered
<1>4. CASE known # <<>> /\ new # <<>> /\ TaskOnly(i)
  <2>1. known = Task /\ new = Task
    BY <1>4 DEF NameOf
  <2>2. IsPrefix(known, new)
    BY <1>1, <2>1 DEF IsPrefix
  <2>3. QED
    BY <1>4, <2>2 DEF Registered
<1>5. CASE known # <<>> /\ new # <<>> /\ ~TaskOnly(i)
  <2>1. Registered(known, new) \in {known, new, known \o new}
    BY DEF Registered
  <2>2. /\ known \o new \in Seq(Pieces) /\ known \o new # <<>>
        /\ Head(known \o new) = Head(known)
    BY <1>1, <1>5
  <2>3. QED
    BY <1>5, <2>1, <2>2 DEF NameOf
<1>6. QED
  BY <1>2, <1>3, <1>4, <1>5

-----------------------------------------------------------------------------
\* The first n fragments of a call, and how many the loop has dealt with.
Upto(n) == [k \in 1 .. n |-> k]
Handled(i) == IF call.tool = i /\ call.args THEN sent[i] - 1 ELSE sent[i]

\* What is still to be passed on for a call that is in hand.
Pending(i) == IF call.tool = i THEN held ELSE <<>>

\* Every fragment dealt with is in contents.  A call has got all of them, or what
\* it lacks is still to be passed on, or all are held back for the end.
Delivery(i) ==
    /\ contents[i] = Upto(Handled(i))
    /\ ~Started(i) => name[i] = <<>> /\ got[i] = <<>> /\ i \notin emitted
    /\ Started(i) => name[i] # <<>>
    /\ Started(i) /\ name[i] # Task => got[i] \o Pending(i) = contents[i]
    /\ Started(i) /\ name[i] = Task =>
        /\ Pending(i) = <<>>
        /\ i \notin emitted => got[i] = <<>>
        /\ i \in emitted => got[i] = contents[i] /\ at \in {"flush", "finish", "last", "end"}

\* Where the loop is, as far as it matters for the input.
InputPlaces ==
    /\ at # "held" => held = <<>>
    /\ loop = "puter" => (\A i \in ToolCalls : ~Started(i)) /\ call.tool \notin ToolCalls
    /\ at \in {"finish", "last", "end"} /\ index["error"] = NoIndex => HeldBack = {}
    /\ at \in {"errorText", "errorStop"} => index["error"] # NoIndex
    /\ event.type = "message_delta" => at = "last"

InputInv(Pieces) ==
    /\ TypeInv /\ IInv
    /\ \A i \in ToolCalls : NameOf(i, name[i], Pieces) /\ Delivery(i)
    /\ call.tool \in ToolCalls => NameOf(call.tool, call.name, Pieces)
    /\ InputPlaces

LEMMA UptoFacts ==
    /\ Upto(0) = <<>>
    /\ \A n \in Nat : /\ Upto(n) \in Seq(Nat) /\ Len(Upto(n)) = n
                       /\ Append(Upto(n), n + 1) = Upto(n + 1)
BY DEF Upto

LEMMA FragmentSeqs == Seq(Fragments) \subseteq Seq(Nat)
<1>1. Fragments \subseteq Nat
  BY DEF Fragments
<1>2. QED
  BY <1>1, SeqMonotonic

LEMMA InputAtStart == ASSUME NEW Pieces, NamesApart(Pieces), Init PROVE InputInv(Pieces)
<1>1. TypeInv /\ IInv
  BY InitTypes, InitCorrect
<1>2. /\ \A i \in ToolCalls : /\ ~Started(i) /\ name[i] = <<>> /\ got[i] = <<>> /\ i \notin emitted
                              /\ contents[i] = <<>> /\ sent[i] = 0
      /\ call = NoCall /\ held = <<>> /\ at = "begin" /\ event.type = "none"
  BY SlotFacts DEF Init, Started
<1>3. call.tool \notin ToolCalls
  BY <1>2, NoCallTypes
<1>4. \A i \in ToolCalls : Handled(i) = 0
  BY <1>2, <1>3, NoCallTypes DEF Handled
<1>5. \A i \in ToolCalls : NameOf(i, name[i], Pieces) /\ Delivery(i)
  BY <1>2, <1>4, UptoFacts, EmptySeq DEF Delivery, NameOf
<1>6. InputPlaces
  BY <1>2, <1>3 DEF InputPlaces
<1>7. QED
  BY <1>1, <1>3, <1>5, <1>6 DEF InputInv

\* Once the answer is complete the loop only goes on to its end.
Ending == {"flush", "finish", "last", "end"}

\* A step that leaves calls and fragments alone.
Quiet ==
    /\ UNCHANGED <<name, contents, emitted, got, sent, held, call, loop>>
    /\ \A i \in ToolCalls : index'[i] = index[i]
    /\ at \in Ending => at' \in Ending
    /\ at = "held" <=> at' = "held"

LEMMA QuietDelivery ==
    ASSUME NEW Pieces, InputInv(Pieces), Quiet
    PROVE  /\ \A i \in ToolCalls : NameOf(i, name'[i], Pieces) /\ Delivery(i)'
           /\ \A i \in ToolCalls : Started(i)' = Started(i)
           /\ call'.tool \in ToolCalls => NameOf(call'.tool, call'.name, Pieces)
           /\ at' # "held" => held' = <<>>
           /\ loop' = "puter" => (\A i \in ToolCalls : ~Started(i)') /\ call'.tool \notin ToolCalls
           /\ HeldBack' = HeldBack
<1>1. /\ \A i \in ToolCalls : Started(i)' = Started(i)
  BY DEF Quiet, Started
<1>2. \A i : Handled(i)' = Handled(i) /\ Pending(i)' = Pending(i)
  BY DEF Quiet, Handled, Pending
<1>3. \A i \in ToolCalls : NameOf(i, name'[i], Pieces) /\ Delivery(i)'
  BY <1>1, <1>2 DEF InputInv, Delivery, Quiet, Ending
<1>4. QED
  BY <1>1, <1>3 DEF InputInv, InputPlaces, Quiet, HeldBack

\* The steps that show something, and those between the provider and the loop.
LEMMA QuietSteps ==
    ASSUME NEW Pieces, InputInv(Pieces),
           \/ MessageStart \/ Retry \/ AllFlushed \/ MessageDelta \/ MessageStop
           \/ Ends \/ Receive
           \/ \E slot \in Content : CloseContent(slot) \/ ShowContent(slot)
           \/ \E slot \in AtOnce : ShowAtOnce(slot)
           \/ \E i \in ToolCalls : CloseTool(i)
           \/ UNCHANGED vars
    PROVE  Quiet /\ InputPlaces'
<1> USE SlotFacts
<1>0. index \in [Slots -> Nat \cup {NoIndex}] /\ nextIndex \in Nat
  BY DEF InputInv, TypeInv, TypeOK
<1>1. CASE MessageStart \/ Retry \/ AllFlushed \/ MessageDelta \/ MessageStop \/ Ends \/ Receive
  <2>1. UNCHANGED <<name, contents, emitted, got, sent, held, call, loop, index>>
    BY <1>1
    DEF MessageStart, Retry, AllFlushed, MessageDelta, MessageStop, Ends, Attempt, StreamBreaks,
        EndOfStream, Receive, restVars, toolVars, history, tries, MessageEvent, NoEvent
  <2>2. /\ at \in Ending => at' \in Ending
        /\ at # "held" /\ at' # "held"
        /\ at' \notin {"errorText", "errorStop"}
        /\ at' \in {"last", "end"} => at \in {"finish", "last"}
    BY <1>1
    DEF MessageStart, Retry, AllFlushed, MessageDelta, MessageStop, Ends, Attempt, StreamBreaks,
        EndOfStream, Receive, Flush, Ending
  <2>3. Quiet
    BY <2>1, <2>2 DEF Quiet
  <2>4. at' = "finish" => HeldBack' = {}
    <3>1. CASE AllFlushed
      BY <2>3, <3>1, QuietDelivery DEF AllFlushed
    <3>2. CASE EndOfStream /\ at' = "finish"
      <4>1. loop = "puter"
        BY <3>2 DEF EndOfStream, Flush
      <4>2. \A i \in ToolCalls : ~Started(i)
        BY <4>1 DEF InputInv, InputPlaces
      <4>3. QED
        BY <2>3, <4>2, QuietDelivery DEF HeldBack
    <3>3. CASE ~AllFlushed /\ ~(EndOfStream /\ at' = "finish")
      BY <1>1, <3>3 DEF MessageStart, Retry, MessageDelta, MessageStop, Ends, Attempt, StreamBreaks, Receive
    <3>4. QED
      BY <3>1, <3>2, <3>3
  <2>5. at' \in {"finish", "last", "end"} /\ index'["error"] = NoIndex => HeldBack' = {}
    BY <2>1, <2>2, <2>3, <2>4, QuietDelivery DEF InputInv, InputPlaces
  <2>6. event'.type = "message_delta" => at' = "last"
    BY <1>1
    DEF MessageStart, Retry, AllFlushed, MessageDelta, MessageStop, Ends, Attempt, StreamBreaks,
        EndOfStream, Receive, MessageEvent, NoEvent, InputInv, InputPlaces
  <2>7. QED
    BY <2>2, <2>3, <2>5, <2>6, QuietDelivery DEF InputPlaces
<1>2. ASSUME NEW slot \in Content, CloseContent(slot) \/ ShowContent(slot)
      PROVE  Quiet /\ InputPlaces'
  <2>1. UNCHANGED <<name, contents, emitted, got, sent, held, call, loop>>
    BY <1>2 DEF CloseContent, ShowContent, restVars, toolVars, history, tries
  <2>2. /\ \A i \in ToolCalls : index'[i] = index[i]
        /\ index'["error"] = index["error"] /\ event'.type # "message_delta"
    <3>1. slot \notin ToolCalls /\ slot # "error" /\ slot \in Slots
      BY DEF Content
    <3>2. StartBlock(slot) \/ DeltaBlock(slot) \/ StopBlock(slot)
      BY <1>2 DEF CloseContent, ShowContent
    <3>3. QED
      BY <1>0, <3>1, <3>2 DEF StartBlock, DeltaBlock, StopBlock, BlockEvent
  <2>3. /\ at \notin {"held", "flush", "last", "end"} /\ at' \notin {"held", "last", "end"}
        /\ at = "finish" => at' = "finish"
        /\ at' \in {"errorText", "errorStop"} => at' = at
        /\ at' = "finish" => at = "finish" \/ loop = "puter"
    BY <1>2 DEF CloseContent, ShowContent, InTheWay, Content, Flush
  <2>4. Quiet
    BY <2>1, <2>2, <2>3 DEF Quiet, Ending
  <2>5. at' = "finish" /\ index'["error"] = NoIndex => HeldBack' = {}
    <3>1. CASE at = "finish"
      BY <2>2, <2>4, <3>1, QuietDelivery DEF InputInv, InputPlaces
    <3>2. CASE loop = "puter"
      BY <2>4, <3>2, QuietDelivery DEF InputInv, InputPlaces, HeldBack
    <3>3. QED
      BY <2>3, <3>1, <3>2
  <2>6. QED
    BY <2>2, <2>3, <2>4, <2>5, QuietDelivery DEF InputInv, InputPlaces
<1>3. ASSUME NEW slot \in AtOnce, ShowAtOnce(slot)
      PROVE  Quiet /\ InputPlaces'
  <2>1. UNCHANGED <<name, contents, emitted, got, sent, held, call, loop>>
    BY <1>3 DEF ShowAtOnce, restVars, toolVars, history, tries
  <2>2. StartBlock(slot) \/ DeltaBlock(slot) \/ StopBlock(slot)
    BY <1>3 DEF ShowAtOnce
  <2>3. slot \in Slots /\ slot \notin ToolCalls /\ slot \in {"found", "error"}
    BY DEF AtOnce
  <2>4. /\ \A i \in ToolCalls : index'[i] = index[i]
        /\ event'.type # "message_delta"
        /\ StartBlock(slot) => index'[slot] # NoIndex
        /\ ~StartBlock(slot) => index' = index
    BY <1>0, <2>2, <2>3 DEF StartBlock, DeltaBlock, StopBlock, BlockEvent, NoIndex
  <2>5. /\ at \notin Ending /\ at # "held" /\ at' \notin {"held", "last", "end"}
        /\ at' = "finish" => at = "errorStop" /\ slot = "error"
        /\ at' = "errorText" => StartBlock(slot) /\ slot = "error"
        /\ at' = "errorStop" => at = "errorText"
    BY <1>3, <2>3 DEF ShowAtOnce, Ending
  <2>6. Quiet
    BY <2>1, <2>4, <2>5 DEF Quiet
  <2>7. index["error"] # NoIndex => index'["error"] # NoIndex
    BY <1>0, <2>2, <2>3, <2>4 DEF StartBlock, NoIndex
  <2>8. at' \in {"errorText", "errorStop"} => index'["error"] # NoIndex
    BY <2>4, <2>5, <2>7 DEF InputInv, InputPlaces
  <2>9. at' = "finish" => index'["error"] # NoIndex
    BY <2>5, <2>7 DEF InputInv, InputPlaces
  <2>10. QED
    BY <2>4, <2>5, <2>6, <2>8, <2>9, QuietDelivery DEF InputPlaces
<1>4. ASSUME NEW i \in ToolCalls, CloseTool(i)
      PROVE  Quiet /\ InputPlaces'
  <2>1. /\ UNCHANGED <<name, contents, emitted, got, sent, held, call, loop, at, index>>
        /\ at = "finish" /\ event'.type # "message_delta"
    BY <1>4 DEF CloseTool, restVars, toolVars, history, tries, StopBlock, BlockEvent
  <2>2. Quiet
    BY <2>1 DEF Quiet
  <2>3. QED
    BY <2>1, <2>2, QuietDelivery DEF InputInv, InputPlaces
<1>5. CASE UNCHANGED vars
  <2>1. UNCHANGED <<name, contents, emitted, got, sent, held, call, loop, at, index, event>>
    BY <1>5 DEF vars, builderVars, loopVars, tries, history
  <2>2. Quiet
    BY <2>1 DEF Quiet
  <2>3. QED
    BY <2>1, <2>2, QuietDelivery DEF InputInv, InputPlaces
<1>6. QED
  BY <1>1, <1>2, <1>3, <1>4, <1>5

\* A call that a step does not deal with.
LEMMA OtherCall ==
    ASSUME NEW Pieces, InputInv(Pieces), NEW i \in ToolCalls, at \notin Ending,
           name'[i] = name[i], contents'[i] = contents[i], got'[i] = got[i], index'[i] = index[i],
           i \in emitted' <=> i \in emitted, Handled(i)' = Handled(i), Pending(i)' = Pending(i)
    PROVE  Delivery(i)'
<1>1. Started(i)' = Started(i)
  BY DEF Started
<1>2. QED
  BY <1>1 DEF InputInv, Delivery, Ending

LEMMA ReceiveCallDelivers ==
    ASSUME NEW Pieces, NamesApart(Pieces), InputInv(Pieces), NEW i \in ToolCalls, ReceiveCall(i)
    PROVE  /\ \A j \in ToolCalls : NameOf(j, name'[j], Pieces) /\ Delivery(j)'
           /\ call'.tool \in ToolCalls => NameOf(call'.tool, call'.name, Pieces)
           /\ InputPlaces'
<1>1. PICK n \in Names[i] \cup {<<>>}, args \in BOOLEAN :
          /\ args => sent[i] < ArgsBound
          /\ call' = [tool |-> i, name |-> n, args |-> args]
          /\ sent' = IF args THEN [sent EXCEPT ![i] = @ + 1] ELSE sent
  BY DEF ReceiveCall
<1>2. /\ at = "reading" /\ at' = "call" /\ loop # "puter"
      /\ UNCHANGED <<name, contents, emitted, held, got, loop, index, event>>
  BY DEF ReceiveCall, toolVars, tries, NoEvent
<1>3. call.tool \notin ToolCalls /\ held = <<>> /\ sent \in [ToolCalls -> 0 .. ArgsBound]
  BY <1>2 DEF InputInv, InputPlaces, TypeInv, TypeOK
<1>4. ASSUME NEW j \in ToolCalls
      PROVE  Handled(j)' = Handled(j) /\ Pending(j)' = Pending(j)
  BY <1>1, <1>2, <1>3 DEF Handled, Pending
<1>5. \A j \in ToolCalls : Delivery(j)'
  BY <1>2, <1>4, OtherCall DEF Ending
<1>6. NameOf(i, n, Pieces)
  BY EmptySeq DEF NamesApart, NameOf, TaskOnly
<1>7. InputPlaces'
  BY <1>2, <1>3 DEF InputInv, InputPlaces
<1>8. QED
  BY <1>1, <1>2, <1>5, <1>6, <1>7 DEF InputInv

LEMMA RegisterCallDelivers ==
    ASSUME NEW Pieces, NamesApart(Pieces), InputInv(Pieces), RegisterCall
    PROVE  /\ \A j \in ToolCalls : NameOf(j, name'[j], Pieces) /\ Delivery(j)'
           /\ call'.tool \in ToolCalls => NameOf(call'.tool, call'.name, Pieces)
           /\ InputPlaces'
<1>0. PICK i \in ToolCalls : i = call.tool
  BY DEF RegisterCall, InputInv, TypeInv, TypeOK
<1> DEFINE known == Registered(name[i], call.name)
<1>1. /\ at = "call" /\ held = <<>> /\ loop # "puter"
      /\ DOMAIN name = ToolCalls /\ contents \in [ToolCalls -> Seq(Fragments)]
      /\ index \in [Slots -> Nat \cup {NoIndex}] /\ nextIndex \in Nat
      /\ NameOf(i, name[i], Pieces) /\ NameOf(i, call.name, Pieces) /\ Delivery(i)
      /\ call.args => sent[i] \in Nat \ {0}
      /\ sent \in [ToolCalls -> 0 .. ArgsBound]
  BY <1>0 DEF RegisterCall, InputInv, InputPlaces, TypeInv, TypeOK, Fragments
<1>2. /\ name' = [name EXCEPT ![i] = known]
      /\ UNCHANGED <<emitted, sent, got, loop>>
  BY <1>0 DEF RegisterCall, tries, history
<1>3. /\ NameOf(i, known, Pieces)
      /\ name[i] # <<>> => known # <<>>
      /\ name[i] = <<>> => known = call.name
  BY <1>1, RegisteredApart
<1>4. \A j \in ToolCalls : NameOf(j, name'[j], Pieces)
  BY <1>1, <1>2, <1>3 DEF InputInv
<1>5. name'[i] = known /\ \A j \in ToolCalls \ {i} : name'[j] = name[j]
  BY <1>1, <1>2
<1>6. name[i] # <<>> => (known = Task <=> name[i] = Task)
  BY <1>1, <1>3 DEF NameOf, NamesApart
<1>7. CASE /\ Started(i) /\ at' = "args"
           /\ UNCHANGED <<contents, call, held, index, event>>
  <2>1. \A j \in ToolCalls : Started(j)' = Started(j) /\ Handled(j)' = Handled(j) /\ Pending(j)' = Pending(j)
    BY <1>2, <1>7 DEF Started, Handled, Pending
  <2>2. \A j \in ToolCalls \ {i} : Delivery(j)'
    BY <1>1, <1>2, <1>5, <1>7, <2>1, OtherCall DEF Ending
  <2>3. Delivery(i)'
    BY <1>1, <1>2, <1>3, <1>5, <1>6, <1>7, <2>1 DEF Delivery
  <2>4. InputPlaces'
    BY <1>1, <1>2, <1>7 DEF InputInv, InputPlaces
  <2>5. QED
    BY <1>0, <1>1, <1>4, <1>7, <2>2, <2>3, <2>4
<1>8. CASE /\ ~Started(i) /\ known = <<>>
           /\ contents' = IF call.args THEN [contents EXCEPT ![i] = Append(@, LastFragment(i))]
                                       ELSE contents
           /\ at' = "reading" /\ call' = NoCall
           /\ UNCHANGED <<held, index, event>>
  <2>1. \A j \in ToolCalls : Started(j)' = Started(j) /\ Pending(j) = <<>> /\ Pending(j)' = <<>>
    BY <1>1, <1>8 DEF Started, Pending
  <2>2. \A j \in ToolCalls : Handled(j)' = sent[j]
    BY <1>2, <1>8, NoCallTypes DEF Handled
  <2>3. \A j \in ToolCalls \ {i} : Delivery(j)'
    <3>1. \A j \in ToolCalls \ {i} : contents'[j] = contents[j] /\ Handled(j) = sent[j]
      BY <1>0, <1>1, <1>8 DEF Handled
    <3>2. QED
      BY <1>1, <1>2, <1>5, <1>8, <2>1, <2>2, <3>1, OtherCall DEF Ending
  <2>4. contents'[i] = Upto(sent[i])
    <3>1. CASE call.args
      <4>1. contents[i] = Upto(sent[i] - 1)
        BY <1>0, <1>1, <3>1 DEF Delivery, Handled
      <4>2. contents'[i] = Append(Upto(sent[i] - 1), sent[i])
        BY <1>1, <1>8, <3>1, <4>1 DEF LastFragment
      <4>3. PICK n \in Nat : sent[i] = n + 1 /\ sent[i] - 1 = n
        BY <1>1, <3>1
      <4>4. QED
        BY <4>2, <4>3, UptoFacts
    <3>2. CASE ~call.args
      BY <1>0, <1>1, <1>8, <3>2 DEF Delivery, Handled
    <3>3. QED
      BY <3>1, <3>2
  <2>5. Delivery(i)'
    BY <1>1, <1>2, <1>5, <1>8, <2>1, <2>2, <2>4 DEF Delivery
  <2>6. InputPlaces'
    BY <1>1, <1>2, <1>8 DEF InputInv, InputPlaces
  <2>7. QED
    BY <1>4, <1>8, <2>3, <2>5, <2>6, NoCallTypes
<1>9. CASE /\ ~Started(i) /\ known # <<>> /\ StartBlock(i)
           /\ held' = IF known = Task THEN <<>> ELSE contents[i]
           /\ at' = "held" /\ UNCHANGED <<contents, call>>
  <2>1. /\ index' = [index EXCEPT ![i] = nextIndex] /\ event'.type # "message_delta"
        /\ index'[i] # NoIndex
    BY <1>1, <1>9, SlotFacts DEF StartBlock, BlockEvent, NoIndex
  <2>2. Started(i)'
    BY <2>1 DEF Started
  <2>3. \A j \in ToolCalls \ {i} : Delivery(j)'
    <3>1. \A j \in ToolCalls \ {i} : /\ index'[j] = index[j]
                                     /\ Handled(j)' = Handled(j) /\ Pending(j)' = Pending(j)
      BY <1>0, <1>1, <1>2, <1>9, <2>1, SlotFacts DEF Handled, Pending
    <3>2. QED
      BY <1>1, <1>2, <1>5, <1>9, <3>1, OtherCall DEF Ending
  <2>4. /\ contents[i] \in Seq(Fragments) /\ contents[i] = Upto(Handled(i))
        /\ got[i] = <<>> /\ i \notin emitted
    BY <1>1, <1>9 DEF Delivery
  <2>5. Handled(i)' = Handled(i) /\ Pending(i)' = held'
    BY <1>0, <1>2, <1>9 DEF Handled, Pending
  <2>6. <<>> \o contents[i] = contents[i]
    BY <2>4, ConcatEmptySeq
  <2>7. Delivery(i)'
    BY <1>2, <1>5, <1>9, <2>2, <2>4, <2>5, <2>6 DEF Delivery
  <2>8. InputPlaces'
    BY <1>1, <1>2, <1>9, <2>1 DEF InputPlaces
  <2>9. QED
    BY <1>0, <1>1, <1>4, <1>9, <2>3, <2>7, <2>8
<1>10. QED
  BY <1>0, <1>7, <1>8, <1>9 DEF RegisterCall, NoEvent

LEMMA PassOnHeldDelivers ==
    ASSUME NEW Pieces, InputInv(Pieces), PassOnHeld
    PROVE  /\ \A j \in ToolCalls : NameOf(j, name'[j], Pieces) /\ Delivery(j)'
           /\ call'.tool \in ToolCalls => NameOf(call'.tool, call'.name, Pieces)
           /\ InputPlaces'
<1>0. PICK i \in ToolCalls : i = call.tool
  BY DEF PassOnHeld, InputInv, TypeInv, TypeOK
<1>1. /\ at = "held" /\ held \in Seq(Fragments) /\ got \in [ToolCalls -> Seq(Fragments)]
      /\ Started(i) /\ Delivery(i) /\ loop # "puter"
      /\ UNCHANGED <<name, contents, emitted, call, sent, loop, index>>
  BY <1>0
  DEF PassOnHeld, InputInv, InputPlaces, IInv, Discipline, TypeInv, TypeOK, toolVars, tries, DeltaBlock, NoEvent
<1>2. \A j \in ToolCalls : Started(j)' = Started(j) /\ Handled(j)' = Handled(j)
  BY <1>1 DEF Started, Handled
<1>3. /\ event'.type # "message_delta" /\ at' \in {"held", "args"}
      /\ at' = "args" => held' = <<>>
  BY <1>1 DEF PassOnHeld, DeltaBlock, BlockEvent, NoEvent, InputInv, InputPlaces
<1>4. \A j \in ToolCalls \ {i} : got'[j] = got[j] /\ Pending(j)' = Pending(j)
  BY <1>0, <1>1 DEF PassOnHeld, Pending
<1>5. \A j \in ToolCalls \ {i} : Delivery(j)'
  BY <1>1, <1>2, <1>4, OtherCall DEF Ending
<1>6. ASSUME held # <<>>, held' = Tail(held), got' = [got EXCEPT ![i] = Append(@, Head(held))]
      PROVE  Delivery(i)'
  <2>1. /\ Head(held) \in Fragments /\ Tail(held) \in Seq(Fragments)
        /\ held = <<Head(held)>> \o Tail(held)
    BY <1>1, <1>6, HeadTailProperties
  <2>2. Append(got[i], Head(held)) = got[i] \o <<Head(held)>>
    BY <1>1, <2>1, AppendIsConcat
  <2>3. <<Head(held)>> \in Seq(Fragments)
    BY <2>1
  <2>4. got'[i] \o held' = got[i] \o held
    BY <1>1, <1>6, <2>1, <2>2, <2>3, ConcatAssociative
  <2>5. Pending(i) = held /\ Pending(i)' = held'
    BY <1>0, <1>1 DEF Pending
  <2>6. name[i] # Task
    BY <1>1, <1>6, <2>5 DEF Delivery
  <2>7. Started(i)' /\ name'[i] # Task /\ name'[i] # <<>> /\ contents'[i] = Upto(Handled(i)')
    BY <1>1, <1>2, <2>6 DEF Delivery
  <2>8. got'[i] \o Pending(i)' = contents'[i]
    BY <1>1, <2>4, <2>5, <2>6 DEF Delivery
  <2>9. QED
    BY <2>7, <2>8 DEF Delivery
<1>7. ASSUME held = <<>>, UNCHANGED <<got, held>>
      PROVE  Delivery(i)'
  <2>1. Pending(i)' = Pending(i) /\ Handled(i)' = Handled(i) /\ Started(i)' = Started(i)
    BY <1>1, <1>2, <1>7 DEF Pending
  <2>2. got'[i] = got[i] /\ contents'[i] = contents[i] /\ name'[i] = name[i] /\ emitted' = emitted
    BY <1>1, <1>7
  <2>3. at \notin Ending /\ at' \notin Ending
    BY <1>1, <1>3 DEF Ending
  <2>4. QED
    BY <1>1, <2>1, <2>2, <2>3 DEF Delivery, Ending
<1>8. Delivery(i)'
  BY <1>0, <1>6, <1>7 DEF PassOnHeld
<1>9. InputPlaces'
  BY <1>1, <1>3 DEF InputInv, InputPlaces
<1>10. QED
  BY <1>1, <1>5, <1>8, <1>9 DEF InputInv

LEMMA PassOnArgsDelivers ==
    ASSUME NEW Pieces, InputInv(Pieces), PassOnArgs
    PROVE  /\ \A j \in ToolCalls : NameOf(j, name'[j], Pieces) /\ Delivery(j)'
           /\ call'.tool \in ToolCalls => NameOf(call'.tool, call'.name, Pieces)
           /\ InputPlaces'
<1>0. PICK i \in ToolCalls : i = call.tool
  BY DEF PassOnArgs, InputInv, TypeInv, TypeOK
<1>1. /\ at = "args" /\ at' = "reading" /\ call' = NoCall /\ held = <<>>
      /\ contents \in [ToolCalls -> Seq(Fragments)] /\ got \in [ToolCalls -> Seq(Fragments)]
      /\ sent \in [ToolCalls -> 0 .. ArgsBound]
      /\ call.args => sent[i] \in Nat \ {0}
      /\ Started(i) /\ Delivery(i) /\ loop # "puter" /\ event'.type # "message_delta"
      /\ UNCHANGED <<name, held, sent, loop, index>>
  BY <1>0
  DEF PassOnArgs, InputInv, InputPlaces, IInv, Discipline, TypeInv, TypeOK, Fragments, tries,
      DeltaBlock, BlockEvent, NoEvent
<1>2. /\ contents' = IF call.args THEN [contents EXCEPT ![i] = Append(@, sent[i])] ELSE contents
      /\ \/ /\ call.args /\ name[i] # Task
            /\ got' = [got EXCEPT ![i] = Append(@, sent[i])] /\ emitted' = emitted \cup {i}
         \/ ~call.args /\ UNCHANGED <<got, emitted>>
         \/ name[i] = Task /\ UNCHANGED <<got, emitted>>
  BY <1>0 DEF PassOnArgs, LastFragment
<1>3. \A j \in ToolCalls : Started(j)' = Started(j) /\ Pending(j) = <<>> /\ Pending(j)' = <<>>
  BY <1>1 DEF Started, Pending
<1>4. \A j \in ToolCalls : Handled(j)' = sent[j]
  BY <1>1, NoCallTypes DEF Handled
<1>5. \A j \in ToolCalls \ {i} : Delivery(j)'
  <2>1. \A j \in ToolCalls \ {i} : contents'[j] = contents[j] /\ got'[j] = got[j] /\ Handled(j) = sent[j]
    BY <1>0, <1>1, <1>2 DEF Handled
  <2>2. \A j \in ToolCalls \ {i} : j \in emitted' <=> j \in emitted
    BY <1>2
  <2>3. QED
    BY <1>1, <1>3, <1>4, <2>1, <2>2, OtherCall DEF Ending
<1>6. contents'[i] = Upto(sent[i])
  <2>1. CASE call.args
    <3>0. sent[i] \in Nat \ {0}
      BY <1>1, <2>1
    <3>1. PICK n \in Nat : sent[i] = n + 1 /\ sent[i] - 1 = n
      <4>1. sent[i] - 1 \in Nat /\ sent[i] = (sent[i] - 1) + 1
        BY <3>0
      <4>2. QED
        BY <4>1
    <3>2. contents[i] = Upto(n)
      BY <1>0, <1>1, <2>1, <3>1 DEF Delivery, Handled
    <3>3. contents'[i] = Append(Upto(n), n + 1)
      BY <1>1, <1>2, <2>1, <3>1, <3>2
    <3>4. QED
      BY <3>1, <3>3, UptoFacts
  <2>2. CASE ~call.args
    BY <1>0, <1>1, <1>2, <2>2 DEF Delivery, Handled
  <2>3. QED
    BY <2>1, <2>2
<1>7. Delivery(i)'
  <2>1. CASE name[i] = Task
    <3>1. i \notin emitted /\ got[i] = <<>> /\ UNCHANGED <<got, emitted>>
      BY <1>1, <1>2, <2>1 DEF Delivery
    <3>2. QED
      BY <1>1, <1>3, <1>4, <1>6, <2>1, <3>1 DEF Delivery
  <2>2. CASE name[i] # Task
    <3>1. got[i] = contents[i]
      <4>1. got[i] \o <<>> = got[i]
        BY <1>1, ConcatEmptySeq
      <4>2. QED
        BY <1>1, <1>3, <2>2, <4>1 DEF Delivery
    <3>2. got'[i] = contents'[i]
      BY <1>1, <1>2, <2>2, <3>1
    <3>3. got'[i] \o <<>> = got'[i]
      <4>1. got'[i] \in Seq(Nat)
        <5>1. sent[i] \in Nat
          BY <1>1
        <5>2. QED
          BY <1>6, <3>2, <5>1, UptoFacts
      <4>2. QED
        BY <4>1, ConcatEmptySeq
    <3>4. QED
      BY <1>1, <1>3, <1>4, <1>6, <2>2, <3>2, <3>3 DEF Delivery
  <2>3. QED
    BY <2>1, <2>2
<1>8. InputPlaces'
  BY <1>1, NoCallTypes DEF InputInv, InputPlaces
<1>9. QED
  BY <1>1, <1>5, <1>7, <1>8, NoCallTypes DEF InputInv

LEMMA FlushTaskDelivers ==
    ASSUME NEW Pieces, InputInv(Pieces), NEW i \in ToolCalls, FlushTask(i)
    PROVE  /\ \A j \in ToolCalls : NameOf(j, name'[j], Pieces) /\ Delivery(j)'
           /\ call'.tool \in ToolCalls => NameOf(call'.tool, call'.name, Pieces)
           /\ InputPlaces'
<1>1. /\ at = "flush" /\ Started(i) /\ name[i] = Task /\ i \notin emitted /\ Delivery(i)
      /\ got' = [got EXCEPT ![i] = @ \o contents[i]] /\ emitted' = emitted \cup {i}
      /\ UNCHANGED <<name, contents, at, call, held, sent, loop, index>>
      /\ event'.type # "message_delta"
      /\ contents \in [ToolCalls -> Seq(Fragments)] /\ got \in [ToolCalls -> Seq(Fragments)]
  BY DEF FlushTask, HeldBack, InputInv, TypeInv, TypeOK, tries, DeltaBlock, BlockEvent
<1>2. \A j \in ToolCalls : /\ Started(j)' = Started(j) /\ Handled(j)' = Handled(j)
                          /\ Pending(j)' = Pending(j)
  BY <1>1 DEF Started, Handled, Pending
<1>3. got'[i] = contents[i]
  <2>1. <<>> \o contents[i] = contents[i]
    BY <1>1, ConcatEmptySeq
  <2>2. QED
    BY <1>1, <2>1 DEF Delivery
<1>4. Delivery(i)'
  BY <1>1, <1>2, <1>3 DEF Delivery
<1>5. ASSUME NEW j \in ToolCalls \ {i}
      PROVE  Delivery(j)'
  <2>1. got'[j] = got[j] /\ (j \in emitted' <=> j \in emitted) /\ Delivery(j)
    BY <1>1 DEF InputInv
  <2>2. QED
    BY <1>1, <1>2, <2>1 DEF Delivery
<1>6. InputPlaces'
  BY <1>1, <1>2 DEF InputInv, InputPlaces
<1>7. QED
  BY <1>1, <1>4, <1>5, <1>6 DEF InputInv

LEMMA InputKept ==
    ASSUME NEW Pieces, NamesApart(Pieces), InputInv(Pieces), [Next]_vars
    PROVE  InputInv(Pieces)'
<1>1. TypeInv' /\ IInv'
  BY TypesKept, StepCorrect DEF InputInv
<1>2. CASE \/ MessageStart \/ Retry \/ AllFlushed \/ MessageDelta \/ MessageStop
           \/ Ends \/ Receive
           \/ \E slot \in Content : CloseContent(slot) \/ ShowContent(slot)
           \/ \E slot \in AtOnce : ShowAtOnce(slot)
           \/ \E i \in ToolCalls : CloseTool(i)
           \/ UNCHANGED vars
  <2>1. Quiet /\ InputPlaces'
    BY <1>2, QuietSteps
  <2>2. QED
    BY <1>1, <2>1, QuietDelivery DEF InputInv
<1>3. CASE \E i \in ToolCalls : ReceiveCall(i)
  BY <1>1, <1>3, ReceiveCallDelivers DEF InputInv
<1>4. CASE RegisterCall
  BY <1>1, <1>4, RegisterCallDelivers DEF InputInv
<1>5. CASE PassOnHeld
  BY <1>1, <1>5, PassOnHeldDelivers DEF InputInv
<1>6. CASE PassOnArgs
  BY <1>1, <1>6, PassOnArgsDelivers DEF InputInv
<1>7. CASE \E i \in ToolCalls : FlushTask(i)
  BY <1>1, <1>7, FlushTaskDelivers DEF InputInv
<1>8. QED
  BY <1>2, <1>3, <1>4, <1>5, <1>6, <1>7 DEF Next, Proceed

LEMMA InputDelivered == ASSUME NEW Pieces, InputInv(Pieces) PROVE InputComplete
<1> SUFFICES ASSUME event.type = "message_delta", index["error"] = NoIndex,
                    NEW i \in ToolCalls, Started(i)
             PROVE  got[i] = [k \in 1 .. sent[i] |-> k]
  BY DEF InputComplete
<1>1. at = "last" /\ held = <<>> /\ HeldBack = {} /\ Delivery(i)
  BY DEF InputInv, InputPlaces
<1>2. call.tool \notin ToolCalls
  BY <1>1 DEF InputInv, TypeInv, TypeOK
<1>3. contents[i] = [k \in 1 .. sent[i] |-> k] /\ Pending(i) = <<>>
  BY <1>1, <1>2 DEF Delivery, Handled, Pending, Upto
<1>4. CASE name[i] = Task
  BY <1>1, <1>3, <1>4 DEF Delivery, HeldBack
<1>5. CASE name[i] # Task
  <2>1. got[i] \o <<>> = got[i]
    BY ConcatEmptySeq DEF InputInv, TypeInv, TypeOK
  <2>2. QED
    BY <1>1, <1>3, <1>5, <2>1 DEF Delivery
<1>6. QED
  BY <1>4, <1>5

\* stream_response, register_tool_name and flush_task_tool_inputs: as long as no
\* name turns into Task or ceases to be it, an answer that ends without an error
\* has passed on the whole input of every call, once and in order.
THEOREM InputNeverLost ==
    ASSUME NEW Pieces, NamesApart(Pieces)
    PROVE  Spec => []InputComplete
<1>1. Init => InputInv(Pieces)
  BY InputAtStart
<1>2. InputInv(Pieces) /\ [Next]_vars => InputInv(Pieces)'
  BY InputKept
<1>3. InputInv(Pieces) => InputComplete
  BY InputDelivered
<1>4. QED
  BY <1>1, <1>2, <1>3, PTL DEF Spec

-----------------------------------------------------------------------------
(***************************************************************************)
(* What the loop does by itself, between two things it takes out of the    *)
(* provider's stream, comes to an end, and so do the attempts.             *)
(***************************************************************************)
Blocks == Cardinality(open)
Flushes == Cardinality(HeldBack)

\* The loop is neither reading nor waiting for a provider, nor through.
Yielding == at \notin {"reading", "attempt", "end"}

\* The events and the bookkeeping it has before it at the most.
OwnLeft ==
    CASE at \in {"begin", "last"} -> 1
      [] at = "retry" -> Blocks + 1
      [] at \in Content -> Blocks + (IF at \in open THEN 1 ELSE 3)
      [] at = "found" -> Blocks + 6
      [] at = "foundInput" -> Blocks + 4
      [] at = "foundStop" -> Blocks + 3
      [] at = "call" -> Blocks + Len(contents[call.tool]) + 5
      [] at = "held" -> Blocks + Len(held) + 2
      [] at = "args" -> Blocks + 1
      [] at = "error" -> Blocks + 7
      [] at = "errorText" -> Blocks + 5
      [] at = "errorStop" -> Blocks + 4
      [] at = "filler" -> Blocks + Flushes + (IF "text" \in open THEN 4 ELSE 6)
      [] at = "flush" -> Blocks + Flushes + 3
      [] at = "finish" -> Blocks + 2
      [] OTHER -> 0

OwnTable ==
    /\ at \in {"begin", "last"} => OwnLeft = 1
    /\ at = "retry" => OwnLeft = Blocks + 1
    /\ at \in Content /\ at \in open => OwnLeft = Blocks + 1
    /\ at \in Content /\ at \notin open => OwnLeft = Blocks + 3
    /\ at = "found" => OwnLeft = Blocks + 6
    /\ at = "foundInput" => OwnLeft = Blocks + 4
    /\ at = "foundStop" => OwnLeft = Blocks + 3
    /\ at = "call" => OwnLeft = Blocks + Len(contents[call.tool]) + 5
    /\ at = "held" => OwnLeft = Blocks + Len(held) + 2
    /\ at = "args" => OwnLeft = Blocks + 1
    /\ at = "error" => OwnLeft = Blocks + 7
    /\ at = "errorText" => OwnLeft = Blocks + 5
    /\ at = "errorStop" => OwnLeft = Blocks + 4
    /\ at = "filler" /\ "text" \in open => OwnLeft = Blocks + Flushes + 4
    /\ at = "filler" /\ "text" \notin open => OwnLeft = Blocks + Flushes + 6
    /\ at = "flush" => OwnLeft = Blocks + Flushes + 3
    /\ at = "finish" => OwnLeft = Blocks + 2

LEMMA OwnIs == OwnTable
<1> USE DEF OwnLeft, Content
<1>1. at \in {"begin", "last"} => OwnLeft = 1
  OBVIOUS
<1>2. at \in Content /\ at \in open => OwnLeft = Blocks + 1
  OBVIOUS
<1>3. at \in Content /\ at \notin open => OwnLeft = Blocks + 3
  OBVIOUS
<1>4. /\ at = "retry" => OwnLeft = Blocks + 1
      /\ at = "found" => OwnLeft = Blocks + 6
      /\ at = "foundInput" => OwnLeft = Blocks + 4
      /\ at = "foundStop" => OwnLeft = Blocks + 3
  OBVIOUS
<1>5. /\ at = "call" => OwnLeft = Blocks + Len(contents[call.tool]) + 5
      /\ at = "held" => OwnLeft = Blocks + Len(held) + 2
      /\ at = "args" => OwnLeft = Blocks + 1
  OBVIOUS
<1>6. /\ at = "error" => OwnLeft = Blocks + 7
      /\ at = "errorText" => OwnLeft = Blocks + 5
      /\ at = "errorStop" => OwnLeft = Blocks + 4
  OBVIOUS
<1>7. /\ at = "filler" /\ "text" \in open => OwnLeft = Blocks + Flushes + 4
      /\ at = "filler" /\ "text" \notin open => OwnLeft = Blocks + Flushes + 6
  OBVIOUS
<1>8. /\ at = "flush" => OwnLeft = Blocks + Flushes + 3
      /\ at = "finish" => OwnLeft = Blocks + 2
  OBVIOUS
<1> HIDE DEF OwnLeft, Content
<1>9. QED
  BY <1>1, <1>2, <1>3, <1>4, <1>5, <1>6, <1>7, <1>8 DEF OwnTable

LEMMA OwnIsNext == OwnTable'
BY OwnIs, PTL

\* Finitely many blocks are open, and a call whose input is held back is open as
\* long as the answer is not being finished.
FewOpen == IsFiniteSet(open)

OwnInv == TypeInv /\ IInv /\ FewOpen

LEMMA Opened ==
    ASSUME FewOpen, NEW slot, open' = open \cup {slot}
    PROVE  FewOpen' /\ Blocks \in Nat /\ Blocks' \in Nat /\ Blocks' <= Blocks + 1
<1>1. /\ IsFiniteSet(open \cup {slot}) /\ Cardinality(open) \in Nat
      /\ Cardinality(open \cup {slot}) = IF slot \in open THEN Cardinality(open) ELSE Cardinality(open) + 1
  BY FS_AddElement, FS_CardinalityType DEF FewOpen
<1>2. QED
  BY <1>1 DEF FewOpen, Blocks

LEMMA Closed ==
    ASSUME FewOpen, NEW slot, open' = open \ {slot}
    PROVE  /\ FewOpen' /\ Blocks \in Nat /\ Blocks' \in Nat /\ Blocks' <= Blocks + 1
           /\ slot \in open => Blocks' = Blocks - 1
<1>1. /\ IsFiniteSet(open \ {slot}) /\ Cardinality(open) \in Nat /\ Cardinality(open \ {slot}) \in Nat
      /\ Cardinality(open \ {slot}) = IF slot \in open THEN Cardinality(open) - 1 ELSE Cardinality(open)
  BY FS_RemoveElement, FS_CardinalityType DEF FewOpen
<1>2. QED
  BY <1>1 DEF FewOpen, Blocks

LEMMA Fewer ==
    ASSUME NEW a \in Nat, NEW b \in Nat, NEW k \in Nat, b <= a + 1
    PROVE  /\ b + 1 < a + 3 /\ b + 2 < a + 4 /\ b + 4 < a + 6 /\ b + 5 < a + 7
           /\ b + k + 4 < a + k + 6
OBVIOUS

LEMMA Untouched ==
    ASSUME FewOpen, open' = open
    PROVE  FewOpen' /\ Blocks \in Nat /\ Blocks' = Blocks
BY FS_CardinalityType DEF FewOpen, Blocks

LEMMA FewFlushes ==
    ASSUME OwnInv, at \notin {"finish", "last", "end"}
    PROVE  IsFiniteSet(HeldBack) /\ Flushes \in Nat
<1>1. HeldBack \subseteq open
  BY DEF HeldBack, OwnInv, IInv, Discipline
<1>2. IsFiniteSet(HeldBack)
  BY <1>1, FS_Subset DEF OwnInv, FewOpen
<1>3. QED
  BY <1>2, FS_CardinalityType DEF Flushes

LEMMA SameFlushes ==
    ASSUME UNCHANGED <<name, emitted>>, \A i \in ToolCalls : index'[i] = index[i]
    PROVE  Flushes' = Flushes
<1>1. HeldBack' = HeldBack
  BY DEF HeldBack, Started
<1>2. QED
  BY <1>1 DEF Flushes

LEMMA Lengths ==
    ASSUME OwnInv
    PROVE  Len(held) \in Nat /\ (at = "call" => Len(contents[call.tool]) \in Nat)
BY DEF OwnInv, TypeInv, TypeOK

OwnCounted == OwnLeft \in Nat

LEMMA CountOwn == OwnInv => OwnCounted
<1> SUFFICES ASSUME OwnInv PROVE OwnLeft \in Nat
  BY DEF OwnCounted
<1>1. Blocks \in Nat
  BY FS_CardinalityType DEF Blocks, OwnInv, FewOpen
<1>2. at \notin {"finish", "last", "end"} => Flushes \in Nat
  BY FewFlushes
<1>3. CASE Yielding
  <2>1. at \in Places \ {"reading", "attempt", "end"}
    BY <1>3 DEF OwnInv, TypeInv, TypeOK, Yielding
  <2>2. CASE at \in {"begin", "last", "retry", "found", "foundInput", "foundStop", "args",
                     "error", "errorText", "errorStop", "finish"}
    BY <1>1, <2>2, OwnIs DEF OwnTable
  <2>3. CASE at \in {"call", "held"}
    BY <1>1, <2>3, OwnIs, Lengths DEF OwnTable
  <2>4. CASE at \in {"filler", "flush"}
    BY <1>1, <1>2, <2>4, OwnIs DEF OwnTable
  <2>5. CASE at \in {"thinking", "text"}
    BY <1>1, <2>5, OwnIs DEF OwnTable, Content
  <2>6. QED
    BY <2>1, <2>2, <2>3, <2>4, <2>5 DEF Places
<1>4. CASE ~Yielding
  BY <1>4 DEF Yielding, OwnLeft, Content
<1>5. QED
  BY <1>3, <1>4

-----------------------------------------------------------------------------
\* Each of the loop's own steps.
Shrinks == at' \in {"reading", "attempt", "end"} \/ OwnLeft' < OwnLeft

LEMMA RegisterShrinks == ASSUME OwnInv, RegisterCall PROVE Shrinks /\ FewOpen'
<1>1. at = "call" /\ FewOpen /\ Len(contents[call.tool]) \in Nat
  BY Lengths DEF RegisterCall, OwnInv
<1>2. OwnLeft = Blocks + Len(contents[call.tool]) + 5
  BY <1>1, OwnIs DEF OwnTable
<1>3. CASE at' \in {"args", "reading"} /\ NoEvent
  <2>1. FewOpen' /\ Blocks \in Nat /\ Blocks' = Blocks
    BY <1>1, <1>3, Untouched DEF NoEvent
  <2>2. at' = "args" => OwnLeft' = Blocks' + 1
    BY OwnIsNext DEF OwnTable
  <2>3. QED
    BY <1>1, <1>2, <1>3, <2>1, <2>2 DEF Shrinks
<1>4. CASE /\ StartBlock(call.tool) /\ at' = "held"
           /\ held' = <<>> \/ held' = contents[call.tool]
  <2>1. FewOpen' /\ Blocks \in Nat /\ Blocks' \in Nat /\ Blocks' <= Blocks + 1
    BY <1>1, <1>4, Opened DEF StartBlock
  <2>2. OwnLeft' = Blocks' + Len(held') + 2
    BY <1>4, OwnIsNext DEF OwnTable
  <2>3. Len(held') \in Nat /\ Len(held') <= Len(contents[call.tool])
    <3>1. CASE held' = <<>>
      BY <1>1, <3>1
    <3>2. CASE held' = contents[call.tool]
      BY <1>1, <3>2
    <3>3. QED
      BY <1>4, <3>1, <3>2
  <2>4. QED
    BY <1>1, <1>2, <2>1, <2>2, <2>3 DEF Shrinks
<1>5. QED
  BY <1>3, <1>4 DEF RegisterCall

LEMMA PassOnShrinks == ASSUME OwnInv, PassOnHeld \/ PassOnArgs PROVE Shrinks /\ FewOpen'
<1>1. CASE PassOnHeld
  <2>1. at = "held" /\ open' = open
    BY <1>1 DEF PassOnHeld, DeltaBlock, NoEvent
  <2>2. FewOpen' /\ Blocks \in Nat /\ Blocks' = Blocks
    BY <2>1, Untouched DEF OwnInv
  <2>3. OwnLeft = Blocks + Len(held) + 2 /\ Len(held) \in Nat
    BY <2>1, OwnIs, Lengths DEF OwnTable
  <2>4. CASE held # <<>> /\ held' = Tail(held) /\ at' = at
    <3>1. Len(held') = Len(held) - 1
      BY <2>4, HeadTailProperties DEF OwnInv, TypeInv, TypeOK
    <3>2. OwnLeft' = Blocks' + Len(held') + 2
      BY <2>1, <2>4, OwnIsNext DEF OwnTable
    <3>3. QED
      BY <2>2, <2>3, <3>1, <3>2 DEF Shrinks
  <2>5. CASE at' = "args"
    <3>1. OwnLeft' = Blocks' + 1
      BY <2>5, OwnIsNext DEF OwnTable
    <3>2. QED
      BY <2>2, <2>3, <3>1 DEF Shrinks
  <2>6. QED
    BY <1>1, <2>4, <2>5 DEF PassOnHeld
<1>2. CASE PassOnArgs
  <2>1. at' = "reading" /\ open' = open
    BY <1>2 DEF PassOnArgs, DeltaBlock, NoEvent
  <2>2. QED
    BY <2>1, Untouched DEF Shrinks, OwnInv
<1>3. QED
  BY <1>1, <1>2

LEMMA CloseShrinks ==
    ASSUME OwnInv, NEW slot \in Content, CloseContent(slot)
    PROVE  Shrinks /\ FewOpen'
<1>1. /\ open' = open \ {slot} /\ slot \in open /\ slot \in InTheWay
      /\ UNCHANGED <<index, at, name, contents, emitted, call, held>>
  BY DEF CloseContent, StopBlock, restVars, toolVars
<1>2. FewOpen' /\ Blocks \in Nat /\ Blocks' \in Nat /\ Blocks' = Blocks - 1
  BY <1>1, Closed DEF OwnInv
<1>3. Flushes' = Flushes
  BY <1>1, SameFlushes
<1>4. CASE at \in {"thinking", "text"}
  <2>1. at \in open' <=> at \in open
    BY <1>1, <1>4 DEF InTheWay
  <2>2. at' = at /\ at \in Content
    BY <1>1, <1>4 DEF Content
  <2>3. \/ OwnLeft = Blocks + 1 /\ OwnLeft' = Blocks' + 1
        \/ OwnLeft = Blocks + 3 /\ OwnLeft' = Blocks' + 3
    <3>1. CASE at \in open
      BY <2>1, <2>2, <3>1, OwnIs, OwnIsNext DEF OwnTable
    <3>2. CASE at \notin open
      BY <2>1, <2>2, <3>2, OwnIs, OwnIsNext DEF OwnTable
    <3>3. QED
      BY <3>1, <3>2
  <2>4. QED
    BY <1>2, <2>3 DEF Shrinks
<1>5. CASE at = "filler"
  <2>1. "text" \in open' <=> "text" \in open
    BY <1>1, <1>5 DEF InTheWay
  <2>2. Flushes \in Nat
    BY <1>5, FewFlushes
  <2>3. \/ OwnLeft = Blocks + Flushes + 4 /\ OwnLeft' = Blocks' + Flushes' + 4
        \/ OwnLeft = Blocks + Flushes + 6 /\ OwnLeft' = Blocks' + Flushes' + 6
    BY <1>1, <1>5, <2>1, OwnIs, OwnIsNext DEF OwnTable
  <2>4. QED
    BY <1>2, <1>3, <2>2, <2>3 DEF Shrinks
<1>6. CASE at = "call"
  <2>1. /\ OwnLeft = Blocks + Len(contents[call.tool]) + 5
        /\ OwnLeft' = Blocks' + Len(contents[call.tool]) + 5
    BY <1>1, <1>6, OwnIs, OwnIsNext DEF OwnTable
  <2>2. QED
    BY <1>2, <1>6, <2>1, Lengths DEF Shrinks
<1>7. CASE at \in {"found", "retry", "finish", "error"}
  BY <1>1, <1>2, <1>7, OwnIs, OwnIsNext DEF OwnTable, Shrinks
<1>8. at \in {"thinking", "text", "filler", "call", "found", "retry", "finish", "error"}
  BY <1>1 DEF InTheWay
<1>9. QED
  BY <1>2, <1>4, <1>5, <1>6, <1>7, <1>8

LEMMA ShowShrinks ==
    ASSUME OwnInv, NEW slot \in Content, ShowContent(slot)
    PROVE  Shrinks /\ FewOpen'
<1>1. /\ at = slot \/ (at = "filler" /\ slot = "text")
      /\ UNCHANGED <<name, emitted>> /\ FewOpen
  BY DEF ShowContent, restVars, toolVars, OwnInv
<1>2. CASE slot \notin open /\ StartBlock(slot) /\ at' = at
  <2>1. open' = open \cup {slot} /\ slot \in open' /\ index' = [index EXCEPT ![slot] = nextIndex]
    BY <1>2 DEF StartBlock
  <2>2. FewOpen' /\ Blocks \in Nat /\ Blocks' \in Nat /\ Blocks' <= Blocks + 1
    BY <1>1, <2>1, Opened
  <2>3. CASE at = slot
    <3>1. OwnLeft = Blocks + 3 /\ OwnLeft' = Blocks' + 1
      BY <1>2, <2>1, <2>3, OwnIs, OwnIsNext DEF OwnTable
    <3>2. Blocks' + 1 < Blocks + 3
      BY <2>2, Fewer
    <3>3. QED
      BY <2>2, <3>1, <3>2 DEF Shrinks
  <2>4. CASE at = "filler" /\ slot = "text"
    <3>1. \A i \in ToolCalls : index'[i] = index[i]
      BY <2>1, <2>4, SlotFacts DEF OwnInv, IInv, Numbered
    <3>2. Flushes' = Flushes /\ Flushes \in Nat
      BY <1>1, <2>4, <3>1, SameFlushes, FewFlushes
    <3>3. OwnLeft = Blocks + Flushes + 6 /\ OwnLeft' = Blocks' + Flushes' + 4
      BY <1>2, <2>1, <2>4, OwnIs, OwnIsNext DEF OwnTable
    <3>4. Blocks' + Flushes + 4 < Blocks + Flushes + 6
      BY <2>2, <3>2, Fewer
    <3>5. QED
      BY <2>2, <3>2, <3>3, <3>4 DEF Shrinks
  <2>5. QED
    BY <1>1, <2>3, <2>4
<1>3. CASE slot \in open /\ DeltaBlock(slot) /\ at' = IF at = "filler" THEN Flush ELSE "reading"
  <2>1. open' = open /\ index' = index
    BY <1>3 DEF DeltaBlock
  <2>2. FewOpen' /\ Blocks \in Nat /\ Blocks' = Blocks
    BY <1>1, <2>1, Untouched
  <2>3. CASE at = "filler" /\ slot = "text"
    <3>1. Flushes' = Flushes /\ Flushes \in Nat
      BY <1>1, <2>1, <2>3, SameFlushes, FewFlushes
    <3>2. OwnLeft = Blocks + Flushes + 4
      BY <1>3, <2>3, OwnIs DEF OwnTable
    <3>3. at' \in {"flush", "finish"}
      BY <1>3, <2>3 DEF Flush
    <3>4. OwnLeft' = Blocks' + Flushes' + 3 \/ OwnLeft' = Blocks' + 2
      BY <3>3, OwnIsNext DEF OwnTable
    <3>5. QED
      BY <2>2, <3>1, <3>2, <3>4 DEF Shrinks
  <2>4. CASE at = slot
    <3>1. at # "filler"
      BY <2>4 DEF Content
    <3>2. QED
      BY <1>3, <2>2, <3>1 DEF Shrinks
  <2>5. QED
    BY <1>1, <2>3, <2>4
<1>4. QED
  BY <1>2, <1>3 DEF ShowContent

LEMMA AtOnceShrinks ==
    ASSUME OwnInv, NEW slot \in AtOnce, ShowAtOnce(slot)
    PROVE  Shrinks /\ FewOpen'
<1>1. FewOpen
  BY DEF OwnInv
<1>2. CASE slot = "found"
  <2>1. \/ at = "found" /\ at' = "foundInput" /\ StartBlock(slot)
        \/ at = "foundInput" /\ at' = "foundStop" /\ DeltaBlock(slot)
        \/ at = "foundStop" /\ at' = "reading" /\ StopBlock(slot)
    BY <1>2 DEF ShowAtOnce
  <2>2. CASE at = "found" /\ at' = "foundInput" /\ StartBlock(slot)
    <3>1. FewOpen' /\ Blocks \in Nat /\ Blocks' \in Nat /\ Blocks' <= Blocks + 1
      BY <1>1, <2>2, Opened DEF StartBlock
    <3>2. OwnLeft = Blocks + 6 /\ OwnLeft' = Blocks' + 4
      BY <2>2, OwnIs, OwnIsNext DEF OwnTable
    <3>3. Blocks' + 4 < Blocks + 6
      BY <3>1, Fewer
    <3>4. QED
      BY <3>1, <3>2, <3>3 DEF Shrinks
  <2>3. CASE at = "foundInput" /\ at' = "foundStop" /\ DeltaBlock(slot)
    <3>1. FewOpen' /\ Blocks \in Nat /\ Blocks' = Blocks
      BY <1>1, <2>3, Untouched DEF DeltaBlock
    <3>2. OwnLeft = Blocks + 4 /\ OwnLeft' = Blocks' + 3
      BY <2>3, OwnIs, OwnIsNext DEF OwnTable
    <3>3. QED
      BY <3>1, <3>2 DEF Shrinks
  <2>4. CASE at' = "reading" /\ StopBlock(slot)
    BY <1>1, <2>4, Closed DEF StopBlock, Shrinks
  <2>5. QED
    BY <2>1, <2>2, <2>3, <2>4
<1>3. CASE slot = "error"
  <2>1. \/ at = "error" /\ at' = "errorText" /\ StartBlock(slot)
        \/ at = "errorText" /\ at' = "errorStop" /\ DeltaBlock(slot)
        \/ at = "errorStop" /\ at' = "finish" /\ StopBlock(slot)
    BY <1>3 DEF ShowAtOnce
  <2>2. CASE at = "error" /\ at' = "errorText" /\ StartBlock(slot)
    <3>1. FewOpen' /\ Blocks \in Nat /\ Blocks' \in Nat /\ Blocks' <= Blocks + 1
      BY <1>1, <2>2, Opened DEF StartBlock
    <3>2. OwnLeft = Blocks + 7 /\ OwnLeft' = Blocks' + 5
      BY <2>2, OwnIs, OwnIsNext DEF OwnTable
    <3>3. Blocks' + 5 < Blocks + 7
      BY <3>1, Fewer
    <3>4. QED
      BY <3>1, <3>2, <3>3 DEF Shrinks
  <2>3. CASE at = "errorText" /\ at' = "errorStop" /\ DeltaBlock(slot)
    <3>1. FewOpen' /\ Blocks \in Nat /\ Blocks' = Blocks
      BY <1>1, <2>3, Untouched DEF DeltaBlock
    <3>2. OwnLeft = Blocks + 5 /\ OwnLeft' = Blocks' + 4
      BY <2>3, OwnIs, OwnIsNext DEF OwnTable
    <3>3. QED
      BY <3>1, <3>2 DEF Shrinks
  <2>4. CASE at = "errorStop" /\ at' = "finish" /\ StopBlock(slot)
    <3>1. FewOpen' /\ Blocks \in Nat /\ Blocks' \in Nat /\ Blocks' <= Blocks + 1
      BY <1>1, <2>4, Closed DEF StopBlock
    <3>2. OwnLeft = Blocks + 4 /\ OwnLeft' = Blocks' + 2
      BY <2>4, OwnIs, OwnIsNext DEF OwnTable
    <3>3. Blocks' + 2 < Blocks + 4
      BY <3>1, Fewer
    <3>4. QED
      BY <3>1, <3>2, <3>3 DEF Shrinks
  <2>5. QED
    BY <2>1, <2>2, <2>3, <2>4
<1>4. QED
  BY <1>2, <1>3 DEF AtOnce

LEMMA EndShrinks ==
    ASSUME OwnInv, \/ AllFlushed \/ MessageDelta \/ MessageStop \/ MessageStart \/ Retry
                   \/ \E i \in ToolCalls : FlushTask(i) \/ CloseTool(i)
    PROVE  Shrinks /\ FewOpen'
<1>1. FewOpen
  BY DEF OwnInv
<1>2. CASE MessageStop \/ MessageStart \/ Retry
  <2>1. at' \in {"attempt", "end"} /\ open' = open
    BY <1>2 DEF MessageStop, MessageStart, Retry, MessageEvent, NoEvent
  <2>2. QED
    BY <1>1, <2>1, Untouched DEF Shrinks
<1>3. CASE AllFlushed
  <2>1. at = "flush" /\ at' = "finish" /\ open' = open
    BY <1>3 DEF AllFlushed, NoEvent
  <2>2. FewOpen' /\ Blocks \in Nat /\ Blocks' = Blocks /\ Flushes \in Nat
    BY <1>1, <2>1, Untouched, FewFlushes
  <2>3. OwnLeft = Blocks + Flushes + 3 /\ OwnLeft' = Blocks' + 2
    BY <2>1, OwnIs, OwnIsNext DEF OwnTable
  <2>4. QED
    BY <2>2, <2>3 DEF Shrinks
<1>4. CASE MessageDelta
  <2>1. at = "finish" /\ at' = "last" /\ open' = open
    BY <1>4 DEF MessageDelta, MessageEvent
  <2>2. FewOpen' /\ Blocks \in Nat
    BY <1>1, <2>1, Untouched
  <2>3. OwnLeft = Blocks + 2 /\ OwnLeft' = 1
    BY <2>1, OwnIs, OwnIsNext DEF OwnTable
  <2>4. QED
    BY <2>2, <2>3 DEF Shrinks
<1>5. ASSUME NEW i \in ToolCalls, FlushTask(i) PROVE Shrinks /\ FewOpen'
  <2>1. /\ at = "flush" /\ at' = at /\ i \in HeldBack /\ open' = open
        /\ UNCHANGED <<index, name>> /\ emitted' = emitted \cup {i}
    BY <1>5 DEF FlushTask, DeltaBlock
  <2>2. FewOpen' /\ Blocks \in Nat /\ Blocks' = Blocks
    BY <1>1, <2>1, Untouched
  <2>3. HeldBack' = HeldBack \ {i}
    BY <2>1 DEF HeldBack, Started
  <2>4. IsFiniteSet(HeldBack) /\ Flushes \in Nat
    BY <2>1, FewFlushes
  <2>5. Flushes' = Flushes - 1
    BY <2>1, <2>3, <2>4, FS_RemoveElement DEF Flushes
  <2>6. OwnLeft = Blocks + Flushes + 3 /\ OwnLeft' = Blocks' + Flushes' + 3
    BY <2>1, OwnIs, OwnIsNext DEF OwnTable
  <2>7. QED
    BY <2>2, <2>4, <2>5, <2>6 DEF Shrinks
<1>6. ASSUME NEW i \in ToolCalls, CloseTool(i) PROVE Shrinks /\ FewOpen'
  <2>1. at = "finish" /\ at' = at /\ i \in open /\ open' = open \ {i}
    BY <1>6 DEF CloseTool, StopBlock
  <2>2. FewOpen' /\ Blocks \in Nat /\ Blocks' = Blocks - 1
    BY <1>1, <2>1, Closed
  <2>3. OwnLeft = Blocks + 2 /\ OwnLeft' = Blocks' + 2
    BY <2>1, OwnIs, OwnIsNext DEF OwnTable
  <2>4. QED
    BY <2>2, <2>3 DEF Shrinks
<1>7. QED
  BY <1>2, <1>3, <1>4, <1>5, <1>6

LEMMA ProceedShrinks == ASSUME OwnInv, Proceed PROVE Shrinks /\ FewOpen'
BY RegisterShrinks, PassOnShrinks, CloseShrinks, ShowShrinks, AtOnceShrinks, EndShrinks DEF Proceed

\* A provider's step leaves the blocks alone.
LEMMA ProvidersWait ==
    ASSUME OwnInv, Ends \/ Receive \/ (\E i \in ToolCalls : ReceiveCall(i)) \/ UNCHANGED vars
    PROVE  FewOpen' /\ (~Yielding \/ UNCHANGED vars)
<1>1. open' = open
  BY DEF Ends, Attempt, StreamBreaks, EndOfStream, Receive, ReceiveCall, NoEvent, vars, builderVars
<1>2. ~Yielding \/ UNCHANGED vars
  BY DEF Ends, Attempt, StreamBreaks, EndOfStream, Receive, ReceiveCall, Yielding
<1>3. QED
  BY <1>1, <1>2, Untouched DEF OwnInv

LEMMA StepOwn == OwnInv /\ [Next]_vars => OwnInv'
<1> SUFFICES ASSUME OwnInv, [Next]_vars PROVE OwnInv'
  OBVIOUS
<1>1. TypeInv' /\ IInv'
  BY TypesKept, StepCorrect DEF OwnInv
<1>2. FewOpen'
  BY ProceedShrinks, ProvidersWait DEF Next
<1>3. QED
  BY <1>1, <1>2 DEF OwnInv

LEMMA InitOwn == Init => OwnInv
BY InitTypes, InitCorrect, FS_EmptySet DEF Init, OwnInv, FewOpen

\* Whatever the loop has to yield and to close, it has less of it after each step.
OwnStepsSpent ==
    [][Yielding => at' \in {"reading", "attempt", "end"} \/ OwnLeft' < OwnLeft]_vars

\* Calls of a provider are counted: a new one within an answer is one attempt or one
\* retry more, and neither count, both bounded, is set back within its own.
CallsCounted ==
    [][/\ attempt' >= attempt
       /\ attempt' = attempt => httpAttempt' >= httpAttempt
       /\ at' = "attempt" /\ at \notin {"begin", "attempt"}
             => attempt' > attempt \/ httpAttempt' > httpAttempt]_vars

LEMMA StepCounted ==
    ASSUME OwnInv, [Next]_vars, ~UNCHANGED vars
    PROVE  /\ attempt' >= attempt
           /\ attempt' = attempt => httpAttempt' >= httpAttempt
           /\ at' = "attempt" /\ at \notin {"begin", "attempt"}
                 => attempt' > attempt \/ httpAttempt' > httpAttempt
<1>1. attempt \in Nat /\ httpAttempt \in Nat
  BY SSEStreamAssumption DEF SSEStreamAssumption, OwnInv, TypeInv, TypeOK
<1>2. CASE Attempt
  <2>1. /\ at = "attempt" /\ attempt' = attempt
        /\ httpAttempt' \in httpAttempt .. MaxHttpRetries \/ httpAttempt' = httpAttempt
    BY <1>2 DEF Attempt
  <2>2. QED
    BY <1>1, <2>1, SSEStreamAssumption DEF SSEStreamAssumption
<1>3. CASE StreamBreaks
  <2>1. /\ attempt' = attempt
        /\ \/ at' \in {"error", "retry"} /\ httpAttempt' = httpAttempt
           \/ at' = "attempt" /\ httpAttempt' = httpAttempt + 1
    BY <1>3 DEF StreamBreaks
  <2>2. QED
    BY <1>1, <2>1
<1>4. CASE Retry
  <2>1. attempt' = attempt + 1
    BY <1>4 DEF Retry
  <2>2. QED
    BY <1>1, <2>1
<1>5. CASE ~Attempt /\ ~StreamBreaks /\ ~Retry
  <2>1. UNCHANGED <<attempt, httpAttempt>>
    BY <1>5 DEF Next, Proceed, Ends, EndOfStream, Receive, ReceiveCall, MessageStart, RegisterCall,
                PassOnHeld, PassOnArgs, CloseContent, ShowContent, ShowAtOnce, AllFlushed,
                MessageDelta, MessageStop, FlushTask, CloseTool, tries, vars, loopVars
  <2>2. at' = "attempt" => at \in {"begin", "attempt"}
    <3>1. CASE Ends \/ Receive \/ \E i \in ToolCalls : ReceiveCall(i)
      BY <1>5, <3>1 DEF Ends, EndOfStream, Flush, Receive, ReceiveCall
    <3>2. CASE MessageStart \/ RegisterCall \/ PassOnHeld \/ PassOnArgs
      BY <3>2 DEF MessageStart, RegisterCall, PassOnHeld, PassOnArgs
    <3>3. CASE \E slot \in Content : CloseContent(slot) \/ ShowContent(slot)
      BY <3>3 DEF CloseContent, ShowContent, Content, Flush
    <3>4. CASE \E slot \in AtOnce : ShowAtOnce(slot)
      BY <3>4 DEF ShowAtOnce, AtOnce
    <3>5. CASE \/ AllFlushed \/ MessageDelta \/ MessageStop
               \/ \E i \in ToolCalls : FlushTask(i) \/ CloseTool(i)
      BY <3>5 DEF AllFlushed, MessageDelta, MessageStop, FlushTask, CloseTool
    <3>6. QED
      BY <1>5, <3>1, <3>2, <3>3, <3>4, <3>5 DEF Next, Proceed
  <2>3. QED
    BY <1>1, <2>1, <2>2
<1>6. QED
  BY <1>2, <1>3, <1>4, <1>5

\* sse.rs and the loops of stream_response: between two things taken out of the
\* provider's stream the loop yields finitely many events, and an answer makes
\* finitely many calls: what StreamEnds needs besides the providers' streams
\* ending and the client's polling.
THEOREM TheLoopComesBack == Spec => []OwnCounted /\ OwnStepsSpent /\ CallsCounted
<1>1. OwnInv /\ [Next]_vars
        => [Yielding => at' \in {"reading", "attempt", "end"} \/ OwnLeft' < OwnLeft]_vars
  BY ProceedShrinks, ProvidersWait DEF Next, Shrinks
<1>2. OwnInv /\ [Next]_vars
        => [/\ attempt' >= attempt
            /\ attempt' = attempt => httpAttempt' >= httpAttempt
            /\ at' = "attempt" /\ at \notin {"begin", "attempt"}
                  => attempt' > attempt \/ httpAttempt' > httpAttempt]_vars
  BY StepCounted
<1>3. QED
  BY <1>1, <1>2, InitOwn, StepOwn, CountOwn, PTL DEF Spec, OwnStepsSpent, CallsCounted
=============================================================================
