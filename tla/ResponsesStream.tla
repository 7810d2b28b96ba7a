--------------------------- MODULE ResponsesStream ---------------------------
(***************************************************************************)
(* The Responses stream renderer of crates/south-north-codec/src/          *)
(* responses/stream.rs: responses_frames over one ResponsesSseState, in    *)
(* calls of one or more canonical events, with the rollback of a failed    *)
(* call and the bounded reasoning-replay carrier.                          *)
(*                                                                         *)
(* A fragment is empty or one byte long and a slot keeps only how much it  *)
(* was given; a fragment of opaque reasoning also says how many bytes JSON *)
(* takes to spell it, which is more where it escapes.  A tool is named by  *)
(* its kind; every kind is declared by the request.  A call id is one byte *)
(* long, or "long", one byte too long for a carrier.  A usage report is    *)
(* "some" or, when its total does not fit 64 bits, "huge".                 *)
(***************************************************************************)
EXTENDS Integers, Sequences, FiniteSets, SequencesExt, FiniteSetsExt

CONSTANTS ChoiceIds,         \* choice indexes
          Blocks,          \* content block indexes of a choice, naturals
          ToolIndexes,     \* the index of a tool-call fragment
          Events,          \* the events a provider may send
          Modes,           \* presentations of reasoning, "raw" or "summary"
          MaxBlockBytes, MaxTotalBytes, MaxLayout,   \* bounds of a carrier
          MaxEncoded,      \* bound on its base64 text
          BlockAllowance,  \* what the decoder grants a block beside its fields
          MaxEvents,       \* bound on the events of a stream
          MaxBatch         \* bound on the events of a call

ReplayAssumption ==
    /\ Blocks \subseteq Nat /\ Modes \subseteq {"raw", "summary"}
    /\ {MaxBlockBytes, MaxTotalBytes, MaxLayout, MaxEncoded, BlockAllowance, MaxEvents, MaxBatch} \subseteq Nat

Indexes == ChoiceIds \union ToolIndexes
NoBlock == [kind |-> "none", bytes |-> 0, spelled |-> 0, signed |-> FALSE]

(* ResponsesSseState::new *)
NewState(mode, tolerant, tools) ==
    [mode |-> mode, tolerant |-> tolerant, tools |-> tools, status |-> "Active", created |-> FALSE, sequence |-> 0,
     slots |-> <<>>, usage |-> "none", finish |-> "none",
     blocks |-> [c \in ChoiceIds |-> [b \in Blocks |-> NoBlock]], layout |-> <<>>,
     last |-> [c \in ChoiceIds |-> -1], bytes |-> [i \in Indexes |-> 0], count |-> [i \in Indexes |-> 0],
     oversized |-> {}, active |-> {}, carriers |-> {}]

(* A call in progress: the state, the frames so far, and whether it failed. *)
Refuse(w) == [w EXCEPT !.ok = FALSE]

(* emit *)
Emit(w, event, item) ==
    IF ~w.ok THEN w
    ELSE [w EXCEPT !.out = Append(@, [event |-> event, sequence |-> w.s.sequence, item |-> item]),
                   !.s.sequence = @ + 1]

EmitAll(w, events, item) == FoldLeft(LAMBDA v, event : Emit(v, event, item), w, events)

NoItem == 0   \* frames of the response itself; output items count from 1

(* start *)
Start(w) == IF w.s.created THEN w ELSE Emit([w EXCEPT !.s.created = TRUE], "created", NoItem)

\* Mutant: a slot that is done is filled again.
OpenSlotAny(s, kind, index) ==
    LET open == {p \in DOMAIN s.slots : s.slots[p].kind = kind /\ s.slots[p].source = index}
    IN  IF open = {} THEN 0 ELSE Max(open)

(* The open slot of a kind and index, or 0; at most one is open. *)
OpenSlot(s, kind, index) ==
    LET open == {p \in DOMAIN s.slots :
                    s.slots[p].kind = kind /\ s.slots[p].source = index /\ ~s.slots[p].closed}
    IN  IF open = {} THEN 0 ELSE Max(open)

(* slot, when no slot is open *)
AddSlot(w, kind, index) ==
    [w EXCEPT !.s.slots = Append(@, [kind |-> kind, source |-> index, text |-> 0, id |-> "none",
                                      name |-> "none", bad |-> FALSE, closed |-> FALSE])]

AddText(w, p, bytes) == IF w.ok THEN [w EXCEPT !.s.slots[p].text = @ + bytes] ELSE w

HasBlocks(s, index) == index \in ChoiceIds /\ \E b \in Blocks : s.blocks[index][b] # NoBlock

IdBytes(id) == IF id = "long" THEN MaxBlockBytes + 1 ELSE 1

\* Mutant: an id too long for a carrier is forgotten.
PreflightForgets(s, index, blockBytes, added, newLayout) ==
    /\ blockBytes + added <= MaxBlockBytes
    /\ s.bytes[index] + added <= MaxTotalBytes
    /\ s.count[index] + newLayout <= MaxLayout

(* preflight_replay_append *)
Preflight(s, index, blockBytes, added, newLayout) ==
    /\ index \notin s.oversized
    /\ blockBytes + added <= MaxBlockBytes
    /\ s.bytes[index] + added <= MaxTotalBytes
    /\ s.count[index] + newLayout <= MaxLayout

(* record_replay_append *)
Record(w, index, added, newLayout) ==
    [w EXCEPT !.s.bytes[index] = @ + added, !.s.count[index] = @ + newLayout]

(* record_non_replay_layout *)
RecordReference(w, index, added) ==
    LET recorded == Record(w, index, added, 1)
    IN  IF added > MaxBlockBytes THEN [recorded EXCEPT !.s.oversized = @ \union {index}] ELSE recorded

(* The references of a layout entry that belong to a choice: the slots of  *)
(* build_replay_carrier, selected by source_index.                         *)
CarrierSlots(s, c) ==
    {e.slot : e \in {x \in Range(s.layout) : x.kind = "slot" /\ s.slots[x.slot].source = c}}

UsedBlocks(s, c) == {b \in Blocks : s.blocks[c][b] # NoBlock}
CarrierCalls(s, c) == {p \in CarrierSlots(s, c) : s.slots[p].kind = "tool"}

(* The bytes the carrier's fields hold, and those of its JSON document: a  *)
(* byte for the envelope and for each block, and the fields as spelled.    *)
FieldBytes(s, c) ==
    MapThenSumSet(LAMBDA b : s.blocks[c][b].bytes, UsedBlocks(s, c))
    + MapThenSumSet(LAMBDA p : IdBytes(s.slots[p].id), CarrierCalls(s, c))

Document(s, c) ==
    1 + Cardinality(UsedBlocks(s, c)) + Cardinality(CarrierSlots(s, c))
    + MapThenSumSet(LAMBDA b : s.blocks[c][b].spelled, UsedBlocks(s, c))
    + MapThenSumSet(LAMBDA p : IdBytes(s.slots[p].id), CarrierCalls(s, c))

(* base64 without padding *)
Base64Length(bytes) == (4 * bytes + 2) \div 3

(* validate, on both sides of a carrier *)
Valid(s, c) ==
    /\ Cardinality(UsedBlocks(s, c)) + Cardinality(CarrierSlots(s, c)) <= MaxLayout
    /\ \A b \in UsedBlocks(s, c) : s.blocks[c][b].bytes <= MaxBlockBytes
    /\ \A p \in CarrierCalls(s, c) : IdBytes(s.slots[p].id) <= MaxBlockBytes
    /\ FieldBytes(s, c) <= MaxTotalBytes

(* build_replay_carrier and encode_reasoning_replay_carrier: every         *)
(* thinking block needs its signature, and the base64 text has a bound.    *)
CarrierBuilds(s, c) ==
    /\ \A b \in Blocks : s.blocks[c][b].kind = "thinking" => s.blocks[c][b].signed
    /\ Valid(s, c)
    /\ Base64Length(Document(s, c)) <= MaxEncoded

(* decode_reasoning_replay_carrier bounds the document as well. *)
CarrierDecodes(s, c) ==
    /\ Base64Length(Document(s, c)) <= MaxEncoded
    /\ Document(s, c) <= MaxTotalBytes + MaxLayout * BlockAllowance
    /\ Valid(s, c)

(* tool_item and custom_input refuse what the arguments do not spell. *)
ItemFails(slot) ==
    /\ slot.kind = "tool"
    /\ \/ slot.name \in {"shell", "custom"} /\ slot.bad
       \/ slot.name = "shell" /\ slot.text = 0

DoneFrames(s, slot) ==
    CASE slot.kind = "text" -> <<"text.done", "part.done">>
      [] slot.kind = "reasoning" ->
           IF s.mode = "raw" THEN <<"reasoning.done">> ELSE <<"summary.done", "summary_part.done">>
      [] slot.kind = "tool" ->
           (CASE slot.name = "custom" -> IF slot.text > 0 THEN <<"input.delta", "input.done">> ELSE <<"input.done">>
              [] slot.name = "shell" -> <<"item.added">>
              [] OTHER -> <<"arguments.done">>)

(* close *)
Close(w, p) ==
    LET slot == w.s.slots[p]
    IN  IF ~w.ok \/ slot.closed THEN w
        ELSE IF ItemFails(slot) THEN Refuse(w)
        ELSE [EmitAll(w, Append(DoneFrames(w.s, slot), "item.done"), p) EXCEPT !.s.slots[p].closed = TRUE]

CloseAll(w, positions) ==
    FoldLeft(Close, w, SetToSortSeq(positions, LAMBDA a, b : a < b))

(* close_raw_reasoning *)
CloseRawReasoning(w, index) ==
    IF index \in w.s.active \/ w.s.mode # "raw" THEN w
    ELSE CloseAll(w, {p \in DOMAIN w.s.slots : w.s.slots[p].kind = "reasoning" /\ w.s.slots[p].source = index})
-----------------------------------------------------------------------------
\* Mutant: the layout starts with the first reasoning block.
EnterAfterBlocks(w, index, added) ==
    IF ~HasBlocks(w.s, index) THEN w
    ELSE IF ~Preflight(w.s, index, 0, added, 1) THEN Refuse(w)
    ELSE RecordReference([w EXCEPT !.s.layout = Append(@, [kind |-> "slot", slot |-> Len(w.s.slots)])], index, added)

(* The slot a text or a tool call adds, with its entry in the layout. *)
Enter(w, index, added) ==
    LET p == Len(w.s.slots)
        entered == [w EXCEPT !.s.layout = Append(@, [kind |-> "slot", slot |-> p])]
    IN  IF HasBlocks(w.s, index) /\ ~Preflight(w.s, index, 0, added, 1) THEN Refuse(w)
        ELSE RecordReference(entered, index, added)

RenderDelta(w0, e) ==
    LET w == CloseRawReasoning(w0, e.index)
        p == OpenSlot(w.s, "text", e.index)
        opened == EmitAll(Enter(AddSlot(w, "text", e.index), e.index, 0), <<"item.added", "part.added">>, Len(w.s.slots) + 1)
    IN  IF ~w.ok THEN w
        ELSE IF p = 0 THEN Emit(AddText(opened, Len(w.s.slots) + 1, 1), "text.delta", Len(w.s.slots) + 1)
        ELSE Emit(AddText(w, p, 1), "text.delta", p)

(* The reasoning slot of a choice, announced when it is new. *)
ReasoningSlot(w, index, announce) ==
    IF OpenSlot(w.s, "reasoning", index) # 0 THEN w
    ELSE EmitAll(AddSlot(w, "reasoning", index), announce, Len(w.s.slots) + 1)

(* ensure_replay_block_order refuses a block behind the last one. *)
PutBlock(w, e, block) ==
    LET isNew == w.s.blocks[e.index][e.block] = NoBlock
        put == [w EXCEPT !.s.blocks[e.index][e.block] = block]
    IN  IF ~isNew THEN put
        ELSE IF e.block <= w.s.last[e.index] THEN Refuse(w)
        ELSE [put EXCEPT !.s.last[e.index] = e.block,
                         !.s.layout = Append(@, [kind |-> "block", choice |-> e.index, block |-> e.block])]

(* render_thinking_delta; the fragment may be empty *)
RenderThinking(w, e) ==
    LET block == w.s.blocks[e.index][e.block]
        new == IF block = NoBlock THEN 1 ELSE 0
        put == PutBlock(w, e, [block EXCEPT !.kind = "thinking", !.bytes = @ + e.bytes,
                                                    !.spelled = @ + e.spelled])
        ready == ReasoningSlot(Record(put, e.index, e.bytes, new), e.index,
                               IF w.s.mode = "summary" THEN <<"item.added", "summary_part.added">> ELSE <<"item.added">>)
        p == OpenSlot(ready.s, "reasoning", e.index)
    IN  IF block.kind = "redacted" \/ ~Preflight(w.s, e.index, block.bytes, e.bytes, new) \/ ~put.ok THEN Refuse(w)
        ELSE Emit(AddText(ready, p, e.bytes), IF w.s.mode = "raw" THEN "reasoning.delta" ELSE "summary.delta", p)

(* render_signature_delta *)
RenderSignature(w, e) ==
    LET block == w.s.blocks[e.index][e.block]
        signed == [w EXCEPT !.s.blocks[e.index][e.block] =
                               [@ EXCEPT !.bytes = @ + e.bytes, !.spelled = @ + e.spelled,
                                         !.signed = @ \/ e.bytes > 0],
                            !.s.active = IF e.bytes > 0 THEN @ \union {e.index} ELSE @]
    IN  IF block.kind # "thinking" \/ ~Preflight(w.s, e.index, block.bytes, e.bytes, 0) THEN Refuse(w)
        ELSE ReasoningSlot(Record(signed, e.index, e.bytes, 0), e.index, <<"item.added">>)

(* render_redacted *)
RenderRedacted(w, e) ==
    LET put == PutBlock(w, e, [kind |-> "redacted", bytes |-> 1, spelled |-> e.spelled, signed |-> FALSE])
        ready == [Record(put, e.index, 1, 1) EXCEPT !.s.active = @ \union {e.index}]
    IN  IF w.s.blocks[e.index][e.block] # NoBlock \/ ~Preflight(w.s, e.index, 0, 1, 1) \/ ~put.ok THEN Refuse(w)
        ELSE ReasoningSlot(ready, e.index, <<"item.added">>)

(* A new tool call; without tolerance its first fragment names it. *)
OpenTool(w, e) ==
    LET p == Len(w.s.slots) + 1
        id == IF e.id = "none" THEN "fallback" ELSE e.id
        entered == Enter(AddSlot(w, "tool", e.index), e.index, IdBytes(id))
        named == [entered EXCEPT !.s.slots[p] = [@ EXCEPT !.id = id, !.name = e.name]]
    IN  IF (~w.s.tolerant /\ "none" \in {e.id, e.name}) \/ ~entered.ok THEN Refuse(w)
        ELSE IF e.name = "shell" THEN named ELSE Emit(named, "item.added", p)

(* A later fragment may not change the identity. *)
SameTool(w, p, e) ==
    LET slot == w.s.slots[p]
        late == slot.name = "none" /\ w.s.tolerant
    IN  IF e.id \notin {"none", slot.id} THEN Refuse(w)
        ELSE IF e.name = "none" THEN w
        ELSE IF late THEN [w EXCEPT !.s.slots[p].name = e.name]
        ELSE IF e.name # slot.name THEN Refuse(w) ELSE w

(* render_tool *)
RenderTool(w0, e) ==
    LET w == CloseRawReasoning(w0, e.index)
        open == OpenSlot(w.s, "tool", e.index)
        p == IF open = 0 THEN Len(w.s.slots) + 1 ELSE open
        ready == IF open = 0 THEN OpenTool(w, e) ELSE SameTool(w, open, e)
        filled == [AddText(ready, p, e.bytes) EXCEPT !.s.slots[p].bad = @ \/ e.bad]
    IN  IF ~w.ok \/ ~ready.ok THEN Refuse(w)
        ELSE IF filled.s.slots[p].name \in {"custom", "shell"} THEN filled
        ELSE Emit(filled, "arguments.delta", p)

(* Done: the carriers, then every slot in order, then the response. *)
RenderDone(w, e) ==
    LET carried == [w EXCEPT !.s.carriers = w.s.active]
        closed == CloseAll(carried, DOMAIN w.s.slots)
        finish == IF e.finish # "none" THEN e.finish ELSE w.s.finish
        ended == Emit(closed, IF finish = "length" THEN "incomplete" ELSE "completed", NoItem)
    IN  IF (\E c \in w.s.active : ~CarrierBuilds(w.s, c)) \/ ~closed.ok THEN Refuse(w)
        ELSE IF w.s.usage = "huge" THEN Refuse(w)
        ELSE [ended EXCEPT !.s.finish = finish, !.s.status = "Completed"]

Handle(w, e) ==
    CASE e.kind = "text" -> RenderDelta(w, e)
      [] e.kind = "thinking" -> RenderThinking(w, e)
      [] e.kind = "signature" -> RenderSignature(w, e)
      [] e.kind = "redacted" -> RenderRedacted(w, e)
      [] e.kind = "tool" -> RenderTool(w, e)
      [] e.kind = "usage" -> [w EXCEPT !.s.usage = e.usage]
      [] e.kind = "finish" -> [w EXCEPT !.s.finish = e.finish]
      [] e.kind = "done" -> RenderDone(w, e)
      [] e.kind = "error" -> [Emit(w, "failed", NoItem) EXCEPT !.s.status = "Failed"]

(* Events after a terminal, and all but an error after a failed call. *)
Skips(s, e) ==
    \/ s.status \in {"Completed", "Failed"}
    \/ (s.status = "AwaitingError" /\ e.kind # "error")

(* The request's tools are parsed before the first normal event. *)
RenderEvent(w, e) ==
    IF ~w.ok \/ Skips(w.s, e) THEN w
    ELSE IF ~w.s.tools /\ e.kind # "error" THEN Refuse(w)
    ELSE Handle(Start(w), e)

(* render *)
Render(s, batch) ==
    LET w == [s |-> s, out |-> <<>>, ok |-> TRUE]
    IN  IF batch = <<>> /\ s.status = "Active" THEN Start(w) ELSE FoldLeft(RenderEvent, w, batch)

\* Mutant: the sequence number is not rolled back.
RolledBackPartly(before, after) ==
    [NewState(before.mode, before.tolerant, before.tools) EXCEPT
        !.usage = after.usage, !.finish = after.finish,
        !.sequence = after.sequence, !.created = before.created, !.status = "AwaitingError"]

(* What responses_frames keeps of a failed call: clear_failed_buffers. *)
RolledBack(before, after) ==
    [NewState(before.mode, before.tolerant, before.tools) EXCEPT
        !.usage = after.usage, !.finish = after.finish,
        !.sequence = before.sequence, !.created = before.created, !.status = "AwaitingError"]
-----------------------------------------------------------------------------
VARIABLES state,      \* the ResponsesSseState
          sent,       \* the frames returned so far
          events,     \* history: the events given
          refused     \* history: a call has failed

vars == <<state, sent, events, refused>>

TypeOK ==
    /\ state.status \in {"Active", "AwaitingError", "Completed", "Failed"}
    /\ state.sequence = Len(sent)
    /\ state.active \subseteq ChoiceIds /\ state.carriers \subseteq state.active
    /\ events \in Seq(Events) /\ Len(events) <= MaxEvents
    /\ refused \in BOOLEAN

Init ==
    /\ \E mode \in Modes, tolerant \in BOOLEAN, tools \in BOOLEAN : state = NewState(mode, tolerant, tools)
    /\ sent = <<>>
    /\ events = <<>>
    /\ refused = FALSE

Batches == UNION {[1..n -> Events] : n \in 0..MaxBatch}

(* responses_frames *)
Call(batch) ==
    LET w == Render(state, batch)
    IN  /\ Len(events) + Len(batch) <= MaxEvents
        /\ events' = events \o batch
        /\ IF w.ok THEN state' = w.s /\ sent' = sent \o w.out /\ UNCHANGED refused
           ELSE state' = RolledBack(state, w.s) /\ refused' = TRUE /\ UNCHANGED sent

Next == \E batch \in Batches : Call(batch)

Spec == Init /\ [][Next]_vars
-----------------------------------------------------------------------------
At(p, event) == {k \in DOMAIN sent : sent[k].item = p /\ sent[k].event = event}
Terminals == {"completed", "incomplete", "failed"}
Deltas == {"text.delta", "reasoning.delta", "summary.delta", "arguments.delta", "input.delta"}
Items == {sent[k].item : k \in DOMAIN sent} \ {NoItem}

(* The client sees created first and once, numbers without a gap, and at   *)
(* most one terminal, last, also across calls that failed and were rolled  *)
(* back (stream.rs:543-559).                                               *)
OneNumberedLifecycle ==
    /\ \A k \in DOMAIN sent : sent[k].sequence = k - 1
    /\ \A k \in DOMAIN sent : sent[k].event = "created" <=> k = 1
    /\ \A k \in DOMAIN sent : sent[k].event \in Terminals => k = Len(sent)
    /\ (state.status \in {"Completed", "Failed"}) <=> (sent # <<>> /\ Last(sent).event \in Terminals)

(* An item is announced once before its fragments, which stop when it is   *)
(* done; a completed response has left none open.  Tools whose name comes  *)
(* late are exempt: the kind they turn out to have may need another        *)
(* announcement.                                                           *)
ItemsBalanced ==
    ~state.tolerant =>
    \A p \in Items :
        /\ Cardinality(At(p, "item.added")) = 1
        /\ Cardinality(At(p, "item.done")) <= 1
        /\ \A k \in DOMAIN sent : sent[k].item = p =>
              /\ \A a \in At(p, "item.added") : sent[k].event \in Deltas => a < k
              /\ \A d \in At(p, "item.done") : k <= d
        /\ state.status = "Completed" => At(p, "item.done") # {}

(* How the events are cut into calls changes no frame, as long as no call  *)
(* fails (the batching tests of the crate).                                *)
BatchesDoNotShow ==
    ~refused /\ (sent # <<>> \/ events # <<>>) =>
        LET whole == Render(NewState(state.mode, state.tolerant, state.tools), events)
        IN  whole.ok /\ sent = whole.out

(* No string of the choice's reasoning is longer in JSON than it is. *)
Unescaped(c) == \A b \in Blocks : state.blocks[c][b].spelled = state.blocks[c][b].bytes

(* What the appends let through is a valid carrier at every moment, calls  *)
(* that came before the first block included; and when JSON escapes        *)
(* nothing it fits both the encoder's and the decoder's bound on the text  *)
(* (stream.rs:397-436, replay.rs:71-104, 136-150).                         *)
CarrierWithinBounds ==
    \A c \in state.active :
        /\ Valid(state, c)
        /\ Unescaped(c) => CarrierDecodes(state, c)

(* How often the carriers of the response's output items name a slot. *)
References(p) ==
    Cardinality({q \in DOMAIN state.slots :
        /\ state.slots[q].kind = "reasoning" /\ state.slots[q].source \in state.carriers
        /\ p \in CarrierSlots(state, state.slots[q].source)})

(* decode_reasoning_replay_carrier and materialize_replay_message on the   *)
(* output given back as the next request's input: every carrier decodes,   *)
(* and each text and each tool call is named exactly once.                 *)
Accepted ==
    state.carriers # {} =>
        /\ \A c \in state.carriers : CarrierDecodes(state, c)
        /\ \A p \in DOMAIN state.slots : state.slots[p].kind # "reasoning" => References(p) = 1

(* A choice has one reasoning item.  Raw reasoning that was closed before  *)
(* its signature came has two, and both get the carrier.                   *)
OneReasoningItem(c) ==
    Cardinality({p \in DOMAIN state.slots :
                    state.slots[p].kind = "reasoning" /\ state.slots[p].source = c}) <= 1

(* A completed turn can be given back, with three exceptions: a tool call  *)
(* whose index is not its choice's (the finding of EveryTurnReplays),      *)
(* strings that JSON escapes, which may encode and not decode, and raw     *)
(* reasoning in two items.                                                 *)
ReplayAccepted ==
    /\ state.status = "Completed"
    /\ \A p \in DOMAIN state.slots : state.slots[p].source \in ChoiceIds
    /\ \A c \in ChoiceIds : Unescaped(c) /\ OneReasoningItem(c)
    => Accepted

(* Every output part and tool call is named exactly once by the carrier    *)
(* (docs/design/2026-09-28-responses-north-codec.md:43-45).                *)
EveryTurnReplays == state.status = "Completed" /\ state.mode = "summary" => Accepted
=============================================================================
