---------------------------- MODULE MessageStream ----------------------------
(***************************************************************************)
(* What the client of a streamed answer relies on, event by event: the     *)
(* sequence of server-sent events of Anthropic's messages API, as far as   *)
(* the builder (src/src/sse.rs) promises it.  Blocks are numbered from 0   *)
(* as they start, a delta fits a block that is open, a block is stopped    *)
(* once, and the message ends after all of them.                           *)
(***************************************************************************)
EXTENDS Naturals

CONSTANT Kinds   \* kinds of content blocks

VARIABLES
    phase,   \* how far the message is: "begin", "body", "delta" or "end"
    next,    \* the number of the next block
    open,    \* blocks that have started and not stopped
    event    \* the last event the client received

vars == <<phase, next, open, event>>

Event(type, index, kind) == [type |-> type, index |-> index, kind |-> kind]
MessageEvent(type) == [type |-> type]

Init ==
    /\ phase = "begin"
    /\ next = 0
    /\ open = {}
    /\ event = MessageEvent("none")

MessageStart ==
    /\ phase = "begin" /\ phase' = "body"
    /\ event' = MessageEvent("message_start")
    /\ UNCHANGED <<next, open>>

BlockStart(kind) ==
    /\ phase = "body"
    /\ open' = open \cup {[index |-> next, kind |-> kind]}
    /\ next' = next + 1
    /\ event' = Event("content_block_start", next, kind)
    /\ UNCHANGED phase

BlockDelta(block) ==
    /\ phase = "body" /\ block \in open
    /\ event' = Event("content_block_delta", block.index, block.kind)
    /\ UNCHANGED <<phase, next, open>>

BlockStop(block) ==
    /\ phase = "body" /\ block \in open
    /\ open' = {b \in open : b.index # block.index}
    /\ event' = Event("content_block_stop", block.index, block.kind)
    /\ UNCHANGED <<phase, next>>

MessageDelta ==
    /\ phase = "body" /\ phase' = "delta"
    /\ open = {}
    /\ event' = MessageEvent("message_delta")
    /\ UNCHANGED <<next, open>>

MessageStop ==
    /\ phase = "delta" /\ phase' = "end"
    /\ event' = MessageEvent("message_stop")
    /\ UNCHANGED <<next, open>>

Next ==
    \/ MessageStart
    \/ \E kind \in Kinds : BlockStart(kind)
    \/ \E block \in open : BlockDelta(block) \/ BlockStop(block)
    \/ MessageDelta
    \/ MessageStop

Spec == Init /\ [][Next]_vars
=============================================================================
