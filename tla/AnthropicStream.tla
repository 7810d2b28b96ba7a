--------------------------- MODULE AnthropicStream ---------------------------
(***************************************************************************)
(* The Anthropic Messages stream renderer of crates/south-north-codec/src/ *)
(* anthropic_sse.rs: anthropic_frames, one event at a time, and a client   *)
(* that follows the frames with nothing but the protocol's rules.          *)
(* A usage report is its input count and the cached part of it, 0 where    *)
(* it names none; a stop is a reason and whether a stop sequence matched.  *)
(***************************************************************************)
EXTENDS Integers, Sequences, FiniteSets, SequencesExt

CONSTANTS Slots,      \* IR tool slots
          MaxInput,   \* the largest count of a report
          Reasons     \* finish reasons, "stop" among them and without "none"

ReasonAssumption == MaxInput \in Nat /\ "stop" \in Reasons /\ "none" \notin Reasons

Closed == -1
Optional == Reasons \union {"none"}
Stops == [reason : Optional, sequence : BOOLEAN]
NoStop == [reason |-> "none", sequence |-> FALSE]
Counts == [input : 0..MaxInput, cached : 0..MaxInput]
NoCount == [input |-> 0, cached |-> 0]

VARIABLES state,    \* AnthropicSseState
          client,   \* what the client has made of the frames
          truth     \* history: what the events said of the current message

vars == <<state, client, truth>>

(* AnthropicSseState::new *)
Fresh == [started |-> FALSE, next |-> 0, thinking |-> Closed, text |-> Closed,
          tools |-> [slot \in Slots |-> Closed], usage |-> NoCount, pending |-> NoStop, terminated |-> FALSE]

(* Usage::absorb: in every field the last count that is not zero stays. *)
Absorb(usage, later) == [field \in DOMAIN usage |-> IF later[field] > 0 THEN later[field] ELSE usage[field]]

(* uncached_input_tokens *)
Uncached(usage) == IF usage.input > usage.cached THEN usage.input - usage.cached ELSE 0

(* Each half of what a Done carries wins over the half a Finish parked. *)
OrElse(stop, parked) ==
    [reason |-> IF stop.reason # "none" THEN stop.reason ELSE parked.reason,
     sequence |-> stop.sequence \/ parked.sequence]

(* stop_reason: no reason is a normal end of the turn. *)
StopReason(stop) == [stop EXCEPT !.reason = IF @ = "none" THEN "stop" ELSE @]

Frame(event) == [event |-> event]
Block(event, index) == [event |-> event, index |-> index]

(* The client of the wire: blocks are numbered from 0 and are open between *)
(* their start and their stop; the message ends with none open; nothing    *)
(* follows an error.                                                       *)
NewClient == [inside |-> FALSE, open |-> {}, next |-> 0, uncached |-> 0, cached |-> 0, stop |-> NoStop,
              finished |-> FALSE, failed |-> FALSE, broken |-> FALSE]

Break(c) == [c EXCEPT !.broken = TRUE]

Receive(c, f) ==
    IF c.failed THEN Break(c)
    ELSE CASE f.event = "message_start" ->
                IF c.inside THEN Break(c)
                ELSE [NewClient EXCEPT !.inside = TRUE, !.uncached = f.uncached, !.cached = f.cached]
           [] f.event = "block_start" ->
                IF ~c.inside \/ f.index # c.next THEN Break(c)
                ELSE [c EXCEPT !.open = @ \union {f.index}, !.next = @ + 1]
           [] f.event = "block_delta" -> IF f.index \in c.open THEN c ELSE Break(c)
           [] f.event = "block_stop" ->
                IF f.index \in c.open THEN [c EXCEPT !.open = @ \ {f.index}] ELSE Break(c)
           [] f.event = "message_delta" ->
                IF ~c.inside \/ c.open # {} THEN Break(c)
                ELSE [c EXCEPT !.stop = f.stop,
                                !.uncached = IF f.named THEN f.uncached ELSE @,
                                !.cached = IF f.cached > 0 THEN f.cached ELSE @]
           [] f.event = "message_stop" ->
                IF c.inside THEN [c EXCEPT !.inside = FALSE, !.finished = TRUE] ELSE Break(c)
           [] f.event = "error" -> [c EXCEPT !.failed = TRUE]

TypeOK ==
    /\ state.next \in 0..(2 + Cardinality(Slots))
    /\ state.pending \in Stops /\ state.usage \in Counts
    /\ {state.thinking, state.text} \union {state.tools[slot] : slot \in Slots} \subseteq Closed..(state.next - 1)
    /\ client.open \subseteq 0..(client.next - 1)
    /\ truth \in [usage : Counts, stop : Stops, over : BOOLEAN]

Silence == [usage |-> NoCount, stop |-> NoStop, over |-> FALSE]

Init == state = Fresh /\ client = NewClient /\ truth = Silence
-----------------------------------------------------------------------------
(* ensure_message_start *)
MessageStart(s) ==
    IF s.started THEN <<>>
    ELSE <<[event |-> "message_start", uncached |-> Uncached(s.usage), cached |-> s.usage.cached]>>

(* open_block: the frames of a new block *)
OpenBlock(s) == Append(MessageStart(s), Block("block_start", s.next))

(* ... and the state behind it *)
Opened(s) == [s EXCEPT !.started = TRUE, !.next = @ + 1]

Send(frames) == client' = FoldLeft(Receive, client, frames)

(* A message the next event belongs to. *)
Current == IF truth.over THEN Silence ELSE truth

Live == ~state.terminated

\* A field of the state that holds a block: "thinking" or "text".
BlockDelta(field) ==
    /\ Live
    /\ IF state[field] = Closed
       THEN /\ state' = [Opened(state) EXCEPT ![field] = state.next]
            /\ Send(Append(OpenBlock(state), Block("block_delta", state.next)))
       ELSE Send(<<Block("block_delta", state[field])>>) /\ UNCHANGED state
    /\ truth' = Current

ThinkingDelta == BlockDelta("thinking")
Delta == BlockDelta("text")

(* An empty fragment only announces its call. *)
ToolCallDelta(slot, empty) ==
    /\ Live
    /\ LET isNew == state.tools[slot] = Closed
           index == IF isNew THEN state.next ELSE state.tools[slot]
           delta == IF empty THEN <<>> ELSE <<Block("block_delta", index)>>
       IN  /\ Send((IF isNew THEN OpenBlock(state) ELSE <<>>) \o delta)
           /\ state' = IF isNew THEN [Opened(state) EXCEPT !.tools[slot] = index] ELSE state
    /\ truth' = Current

(* A signature without an open thinking block says nothing. *)
SignatureDelta ==
    /\ Live
    /\ Send(IF state.thinking = Closed THEN <<>> ELSE <<Block("block_delta", state.thinking)>>)
    /\ truth' = Current
    /\ UNCHANGED state

UsageReport(usage) ==
    /\ Live
    /\ state' = [state EXCEPT !.usage = Absorb(@, usage)]
    /\ truth' = [Current EXCEPT !.usage = Absorb(@, usage)]
    /\ UNCHANGED client

Finish(stop) ==
    /\ Live
    /\ state' = [state EXCEPT !.pending = OrElse(stop, @)]
    /\ truth' = [Current EXCEPT !.stop = OrElse(stop, @)]
    /\ UNCHANGED client

\* Mutant: the terminal frames leave the tool blocks open.
OpenBlocksNoTools(s) == ({s.thinking, s.text}) \ {Closed}

OpenBlocks(s) == ({s.thinking, s.text} \union {s.tools[slot] : slot \in Slots}) \ {Closed}

(* terminal_usage names the input when it is known. *)
TerminalUsage(s) == [named |-> s.usage.input > 0, uncached |-> Uncached(s.usage), cached |-> s.usage.cached]

(* close_open_blocks: the order of the stops carries no meaning. *)
Terminal(s, stop) ==
    MessageStart(s)
    \o SetToSeq({Block("block_stop", index) : index \in OpenBlocks(s)})
    \o <<[event |-> "message_delta", stop |-> StopReason(OrElse(stop, s.pending))] @@ TerminalUsage(s),
         Frame("message_stop")>>

\* Mutant: what a finish parked stays for the next message.
ResetKeepsPending(s) == [Fresh EXCEPT !.pending = s.pending]

(* reset_message *)
Reset(s) == Fresh

Done(stop) ==
    /\ Live
    /\ Send(Terminal(state, stop))
    /\ state' = Reset(state)
    /\ truth' = [Current EXCEPT !.stop = OrElse(stop, @), !.over = TRUE]

Error ==
    /\ Live
    /\ Send(<<Frame("error")>>)
    /\ state' = [state EXCEPT !.terminated = TRUE]
    /\ UNCHANGED truth

(* Redacted thinking, and every event after an error, makes no frame. *)
Ignored == UNCHANGED vars

Next ==
    \/ ThinkingDelta \/ Delta \/ SignatureDelta \/ Error \/ Ignored
    \/ \E slot \in Slots, empty \in BOOLEAN : ToolCallDelta(slot, empty)
    \/ \E usage \in Counts : UsageReport(usage)
    \/ \E stop \in Stops : Finish(stop) \/ Done(stop)

Spec == Init /\ [][Next]_vars
-----------------------------------------------------------------------------
(* Whatever the order of events, the client finds every block it is told   *)
(* of open, numbered in sequence and closed by the end of its message, one *)
(* message at a time, and nothing behind an error: ensure_message_start,   *)
(* open_block, close_open_blocks and terminated agree across messages      *)
(* (anthropic_sse.rs:102-213, 232).                                        *)
ClientFollows ==
    /\ ~client.broken
    /\ client.inside = state.started
    /\ client.inside => client.open = OpenBlocks(state) /\ client.next = state.next

(* When a message has ended the client, which reads the start and then the *)
(* message_delta, knows the counts reported for this message, early or     *)
(* late ("a client reading the last report reads the whole truth",         *)
(* anthropic_sse.rs:111-118, 334-352), and the stop reported for it, by    *)
(* its Done or else its last Finish, never the parked stop of the message  *)
(* before (anthropic_sse.rs:282-295, 312).                                 *)
ClientKnowsTheMessage ==
    client.finished /\ truth.over =>
        /\ client.uncached = Uncached(truth.usage) /\ client.cached = truth.usage.cached
        /\ client.stop = StopReason(truth.stop)
=============================================================================
