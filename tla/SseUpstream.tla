---------------------------- MODULE SseUpstream -----------------------------
(***************************************************************************)
(* What the text adapters of south-component-conformance put on a stream:  *)
(* the kernel's StreamEvent (external), with deltas reduced to what the    *)
(* properties tell apart, and the usage of the kernel's IR.                *)
(***************************************************************************)
EXTENDS Integers, Sequences, FiniteSets, SequencesExt, FiniteSetsExt, TLC

CONSTANT MaxCount       \* u64::MAX

ASSUME MaxCountAssumption == MaxCount \in Nat

Absent == -1            \* a key that is missing
Bad == -2               \* a value of the wrong type
Null == -3              \* a key that is null

(* A count that cannot be read, and the count that is: missing is zero. *)
Unusable(count, required) == count = Bad \/ (required /\ count \in {Absent, Null})
Got(count) == IF count < 0 THEN 0 ELSE count

Only(set) == CHOOSE x \in set : TRUE

Capped(n) == IF n > MaxCount THEN MaxCount ELSE n

(* token_station_protocol::Usage *)
NoUsage == [input |-> 0, output |-> 0, cache_read |-> 0, explicit_read |-> 0, cache_write |-> 0,
            cache_write_5m |-> 0, cache_write_1h |-> 0, reasoning |-> 0]

(* token_station_protocol::StreamEvent *)
Event(kind, at, what) == [kind |-> kind, at |-> at, what |-> what, text |-> <<>>, usage |-> {}]
TextEvent(kind, at, text) == [Event(kind, at, "text") EXCEPT !.text = text]
UsageEvent(usage) == [Event("usage", 0, "") EXCEPT !.usage = {usage}]

(* What a frame does: the parser, the events, the error. *)
Step(p, events) == [parser |-> p, events |-> events, error |-> "none"]
Refuse(p) == [parser |-> p, events |-> <<>>, error |-> "protocol"]
-----------------------------------------------------------------------------
(***************************************************************************)
(* The Anthropic Messages adapter's stream parser,                         *)
(* crates/south-component-conformance/src/reference_anthropic.rs: the      *)
(* parser's state, what one event does to it, and how the wire's usage     *)
(* reports are folded.                                                     *)
(*                                                                         *)
(* A frame is a record: the event's name, whether its data is JSON, the    *)
(* block index (Bad: not a u32), what the payload is and whether it is     *)
(* empty, the stop reason ("" for none) and the usage object, if any.  A   *)
(* count is a natural number, Absent, or Bad.                              *)
(***************************************************************************)

(* One usage object as the wire carries it; tiers is <<>> when             *)
(* cache_creation is absent, <<Bad>> when it is no object, else the        *)
(* five-minute and the one-hour count.                                     *)
WireReport(input, output, read, write, tiers) ==
    [input |-> input, output |-> output, read |-> read, write |-> write, tiers |-> tiers]

(* WireUsage::of refuses: a required count missing, a tier breakdown       *)
(* without its total or that does not add up to it, an overflow.  A        *)
(* message reports both sides, a stream's start the input side, its delta  *)
(* the output side.                                                        *)
ReportRefused(raw, report) ==
    \/ Unusable(raw.input, report # "delta")
    \/ Unusable(raw.output, report # "start")
    \/ Unusable(raw.read, FALSE)
    \/ Unusable(raw.write, FALSE)
    \/ raw.tiers # <<>> /\ \/ Len(raw.tiers) # 2
                           \/ raw.write \in {Absent, Null}
                           \/ \E k \in 1..2 : Unusable(raw.tiers[k], TRUE)
                           \/ raw.tiers[1] + raw.tiers[2] # raw.write
    \/ Got(raw.input) + Got(raw.read) + Got(raw.write) > MaxCount

WireUsageOf(raw) ==
    [uncached_input |-> Got(raw.input), output |-> Got(raw.output),
     cache_read |-> Got(raw.read), cache_write |-> Got(raw.write),
     cache_write_5m |-> IF raw.tiers = <<>> THEN 0 ELSE raw.tiers[1],
     cache_write_1h |-> IF raw.tiers = <<>> THEN 0 ELSE raw.tiers[2]]

NoWireUsage == WireUsageOf(WireReport(0, 0, 0, 0, <<>>))

Buckets == {"uncached_input", "output", "cache_read", "cache_write"}

(* A cumulative count shrank. *)
Shrank(earlier, later) == \E b \in Buckets : later[b] # 0 /\ later[b] < earlier[b]

HasSplit(usage) == usage.cache_write_5m > 0 \/ usage.cache_write_1h > 0

\* Mutant: the tiers are folded one by one.
TakesGroupNever(earlier, later) == FALSE

(* The cache-write count and its tiers travel as one group. *)
TakesGroup(earlier, later) ==
    \/ later.cache_write > earlier.cache_write
    \/ later.cache_write = earlier.cache_write /\ HasSplit(later) /\ ~HasSplit(earlier)

(* absorb, for reports that did not shrink. *)
Absorb(earlier, later) ==
    LET kept == IF TakesGroup(earlier, later) THEN later ELSE earlier
        cumulative(b) == IF later[b] = 0 THEN earlier[b] ELSE later[b]
    IN  [kept EXCEPT !.uncached_input = cumulative("uncached_input"),
                     !.output = cumulative("output"),
                     !.cache_read = cumulative("cache_read")]

(* to_ir: input is the whole prompt, the cache buckets inside it. *)
AnthropicIr(usage) ==
    [NoUsage EXCEPT !.input = Capped(Capped(usage.uncached_input + usage.cache_read) + usage.cache_write),
                    !.output = usage.output, !.cache_read = usage.cache_read,
                    !.cache_write = usage.cache_write,
                    !.cache_write_5m = usage.cache_write_5m, !.cache_write_1h = usage.cache_write_1h]
-----------------------------------------------------------------------------
(* AnthropicSseParser                                                      *)

NewAnthropic ==
    [closed |-> FALSE, saw_finish |-> FALSE, reason |-> "", done_emitted |-> FALSE,
     open |-> {}, seen |-> {}, usage |-> NoWireUsage]

stop_reason_to_finish(raw) ==
    CASE raw = "end_turn" -> "stop"
      [] raw = "max_tokens" -> "length"
      [] raw = "tool_use" -> "tool_calls"
      [] raw = "stop_sequence" -> "stop_sequence"
      [] OTHER -> raw

error_type_code(type) ==
    CASE type = "overloaded_error" -> "capacity"
      [] type = "rate_limit_error" -> "rate_limit"
      [] type \in {"authentication_error", "permission_error"} -> "auth"
      [] type \in {"invalid_request_error", "not_found_error"} -> "invalid_request"
      [] OTHER -> "upstream_unavailable"

(* report_usage: every report carries the whole usage so far. *)
ReportUsage(p, raw, report) ==
    LET later == WireUsageOf(raw)
        folded == Absorb(p.usage, later)
    IN  IF ReportRefused(raw, report) \/ Shrank(p.usage, later) THEN Refuse(p)
        ELSE Step([p EXCEPT !.usage = folded], <<UsageEvent(AnthropicIr(folded))>>)

AnthropicStart(p, f) ==
    IF f.usage = {} THEN Step(p, <<>>) ELSE ReportUsage(p, Only(f.usage), "start")

(* What opening a block of a kind puts on the stream. *)
BlockStart(f) ==
    CASE f.what = "redacted_thinking" -> IF f.empty THEN <<>> ELSE <<Event("redacted", f.index, f.what)>>
      [] f.what = "thinking" -> <<Event("thinking", f.index, "")>>
      [] f.what = "tool_use" -> <<Event("tool_call", f.index, "opened")>>
      [] OTHER -> <<>>

AnthropicBlockStart(p, f) ==
    IF f.index = Bad \/ f.index \in p.seen THEN Refuse(p)
    ELSE Step([p EXCEPT !.open = @ \union {f.index}, !.seen = @ \union {f.index}], BlockStart(f))

BlockDelta(f) ==
    CASE f.what = "input_json_delta" -> <<Event("tool_call", f.index, "more")>>
      [] f.what = "text_delta" /\ ~f.empty -> <<Event("delta", 0, "text")>>
      [] f.what = "thinking_delta" /\ ~f.empty -> <<Event("thinking", f.index, "text")>>
      [] f.what = "signature_delta" /\ ~f.empty -> <<Event("signature", f.index, "text")>>
      [] OTHER -> <<>>

AnthropicBlockDelta(p, f) == IF f.index \notin p.open THEN Refuse(p) ELSE Step(p, BlockDelta(f))

AnthropicBlockStop(p, f) ==
    IF f.index \notin p.open THEN Refuse(p) ELSE Step([p EXCEPT !.open = @ \ {f.index}], <<>>)

StillOpen(p) == p.open # {}

(* message_delta: a stop reason is held until usage comes with it. *)
AnthropicMessageDelta(p, f) ==
    LET reason == stop_reason_to_finish(f.reason)
        told == ReportUsage([p EXCEPT !.saw_finish = FALSE, !.reason = "", !.done_emitted = TRUE],
                            Only(f.usage), "delta")
    IN  IF StillOpen(p) THEN Refuse(p)
        ELSE IF f.reason = "" THEN Step(p, <<>>)
        ELSE IF f.usage = {}
             THEN Step([p EXCEPT !.saw_finish = TRUE, !.done_emitted = FALSE, !.reason = reason], <<>>)
        ELSE [told EXCEPT !.events = <<Event("finish", 0, reason)>> \o @ \o <<Event("done", 0, "")>>]

(* fail: the parser closes. *)
Fail(p, code) == Step([p EXCEPT !.closed = TRUE], <<Event("error", 0, code)>>)

Closed(p) == p.closed

(* frame and events_of: a frame without an event name carries nothing, and *)
(* a failure after the terminal Done changes nothing.                      *)
AnthropicFrame(p, f) ==
    IF f.event = "message" THEN Step(p, <<>>)
    ELSE IF ~f.json THEN Refuse(p)
    ELSE IF Closed(p) THEN Step(p, <<>>)
    ELSE CASE f.event = "message_start" -> AnthropicStart(p, f)
           [] f.event = "content_block_start" -> AnthropicBlockStart(p, f)
           [] f.event = "content_block_delta" -> AnthropicBlockDelta(p, f)
           [] f.event = "content_block_stop" -> AnthropicBlockStop(p, f)
           [] f.event = "message_delta" -> AnthropicMessageDelta(p, f)
           [] f.event = "error" /\ ~p.done_emitted -> Fail(p, error_type_code(f.what))
           [] OTHER -> Step(p, <<>>)

(* end_of_stream: a finish still held leaves now, without usage. *)
AnthropicEnd(p) ==
    IF p.closed THEN Step(p, <<>>)
    ELSE IF p.done_emitted THEN Step([p EXCEPT !.done_emitted = FALSE], <<>>)
    ELSE IF ~p.saw_finish THEN Step(p, <<>>)
    ELSE Step([p EXCEPT !.saw_finish = FALSE, !.reason = "", !.done_emitted = TRUE],
              <<Event("finish", 0, p.reason), Event("done", 0, "")>>)
-----------------------------------------------------------------------------
(***************************************************************************)
(* The OpenAI-compatible Chat Completions adapter's stream parser,         *)
(* crates/south-component-conformance/src/reference.rs: the held finish,   *)
(* what one frame does, and the usage object.                              *)
(*                                                                         *)
(* A frame is a record: the SSE event name, its data ("[DONE]", "json" or  *)
(* "bad"), whether it embeds an error, its choices ("array", "absent" or   *)
(* "invalid") and what each delta carries, and its usage: {}, or the       *)
(* object, or {} with invalid_usage.                                       *)
(***************************************************************************)

Details(raw, has, field) == IF raw[has] = "object" THEN raw[field] ELSE Absent

(* A cached count in the details wins, null included; else the top-level   *)
(* hit count of Kimi and DeepSeek.                                         *)
Cached(raw) ==
    LET detail == Details(raw, "pdetails", "cached") IN IF detail # Absent THEN detail ELSE raw.hit

(* The presence of the creation key is Bailian's explicit-cache mode. *)
ExplicitCache(raw) == Details(raw, "pdetails", "creation") # Absent

CacheWrite(raw) == Details(raw, "pdetails", IF ExplicitCache(raw) THEN "creation" ELSE "write")

(* usage_of's value: orchestration counts fold into the buckets. *)
ChatIr(raw) ==
    LET read == Got(Cached(raw)) + Got(Details(raw, "pdetails", "orch_cached"))
    IN  [NoUsage EXCEPT
            !.input = Got(raw.prompt) + Got(Details(raw, "pdetails", "orch_in")),
            !.output = Got(raw.completion) + Got(Details(raw, "cdetails", "orch_out")),
            !.cache_read = read,
            !.explicit_read = IF ExplicitCache(raw) THEN read ELSE 0,
            !.cache_write = Got(CacheWrite(raw)),
            !.reasoning = Got(Details(raw, "cdetails", "reasoning"))]

(* usage_of refuses: a count missing or of the wrong type, a total that    *)
(* does not add up, a subset larger than its whole, an overflow.           *)
ChatUsageRefused(raw) ==
    LET ir == ChatIr(raw)
        orchestrated == Got(Details(raw, "pdetails", "orch_in"))
        plain == Got(raw.prompt) + Got(raw.completion)
    IN  \/ \E f \in {"prompt", "completion", "total"} : Unusable(raw[f], TRUE)
        \/ "bad" \in {raw.pdetails, raw.cdetails}
        \/ Bad \in {Details(raw, "pdetails", "orch_in"), Details(raw, "pdetails", "orch_cached"),
                    Details(raw, "cdetails", "orch_out"), Details(raw, "cdetails", "reasoning"),
                    Cached(raw), CacheWrite(raw)}
        \/ Got(Details(raw, "pdetails", "orch_cached")) > orchestrated
        \/ raw.total \notin {plain, plain + orchestrated}
        \/ \E n \in {plain, ir.input, ir.output, ir.cache_read, ir.cache_read + ir.cache_write} : n > MaxCount
        \/ ir.cache_read + ir.cache_write > ir.input
        \/ ir.reasoning > ir.output
-----------------------------------------------------------------------------
(* PendingFinish and OpenAiSseParser                                       *)

NewChat == [seen |-> FALSE, reason |-> "", done_emitted |-> FALSE]

TakeFinish(p) == IF p.seen THEN <<Event("finish", 0, p.reason)>> ELSE <<>>

(* finish_marker, for [DONE] and the end of input. *)
FinishMarker(p) ==
    IF p.done_emitted THEN Step([p EXCEPT !.done_emitted = FALSE], <<>>)
    ELSE Step([seen |-> FALSE, reason |-> "", done_emitted |-> TRUE],
              TakeFinish(p) \o <<Event("done", 0, "")>>)

(* What a choice's delta carries: thinking, text, tool calls. *)
DeltaEvents(choice) ==
    (IF choice.thinking THEN <<Event("thinking", 0, "text")>> ELSE <<>>) \o
    (IF choice.content THEN <<Event("delta", choice.index, "text")>> ELSE <<>>) \o
    [k \in DOMAIN choice.calls |-> Event("tool_call", choice.calls[k], "more")]

(* A choice's finish reason is recorded; the last one wins. *)
Recorded(p, choices) ==
    LET told == SelectSeq(choices, LAMBDA c : c.reason # "")
    IN  IF told = <<>> THEN p
        ELSE [p EXCEPT !.seen = TRUE, !.reason = Last(told).reason, !.done_emitted = FALSE]

(* Usage releases the finish held before it, and closes it with Done. *)
UsageCloses(p, raw) ==
    Step([p EXCEPT !.seen = FALSE, !.reason = IF p.seen THEN "" ELSE @, !.done_emitted = @ \/ p.seen],
         TakeFinish(p) \o <<UsageEvent(ChatIr(raw))>> \o
         (IF p.seen THEN <<Event("done", 0, "")>> ELSE <<>>))

(* events_of_frame *)
ChatEvents(p, f) ==
    LET choices == IF f.choices = "array" THEN f.list ELSE <<>>
        deltas == FoldLeft(LAMBDA all, c : all \o DeltaEvents(c), <<>>, choices)
        held == Recorded(p, choices)
        raw == Only(f.usage)
        closed == UsageCloses(held, raw)
    IN  IF f.data = "bad" \/ f.embeds_error \/ f.invalid_usage \/ f.choices = "invalid" THEN Refuse(p)
        ELSE IF f.choices = "absent" /\ f.usage = {} THEN Refuse(p)
        ELSE IF f.usage = {} THEN Step(held, deltas)
        ELSE IF ChatUsageRefused(raw) THEN Refuse(p)
        ELSE [closed EXCEPT !.events = deltas \o @]

(* frame: an error event is reported and the parser reads on. *)
ChatFrame(p, f) ==
    IF f.event = "error" THEN Step(p, <<Event("error", 0, "protocol")>>)
    ELSE IF f.data = "[DONE]" THEN FinishMarker(p)
    ELSE ChatEvents(p, f)

(* flush_pending_finish *)
ChatEnd(p) == IF p.seen THEN FinishMarker(p) ELSE Step(p, <<>>)
-----------------------------------------------------------------------------
(***************************************************************************)
(* The OpenAI Responses adapter's stream parser and terminal response,     *)
(* crates/south-component-conformance/src/reference_openai_responses.rs.   *)
(*                                                                         *)
(* A frame is a record with every key an event can carry; strings are ""   *)
(* and counts Absent where the key is missing, objects are {} or one       *)
(* record.  A text is a sequence; an item is "sound" when its parts have   *)
(* the shapes output_item reads.                                           *)
(***************************************************************************)

(* usage_of refuses. *)
ResponsesUsageRefused(usage) ==
    \/ usage = {}
    \/ LET raw == Only(usage)
       IN  \/ \E f \in {"input", "output", "total"} : Unusable(raw[f], TRUE)
           \/ raw.total # Got(raw.input) + Got(raw.output)
           \/ Got(raw.input) + Got(raw.output) > MaxCount
           \/ raw.details_bad
           \/ \E f \in {"cached", "write", "reasoning"} : Unusable(raw[f], FALSE)
           \/ Got(raw.cached) + Got(raw.write) > raw.input
           \/ Got(raw.reasoning) > raw.output

ResponsesIr(raw) ==
    [NoUsage EXCEPT !.input = Got(raw.input), !.output = Got(raw.output), !.cache_read = Got(raw.cached),
                    !.cache_write = Got(raw.write), !.reasoning = Got(raw.reasoning)]

(* check_tool_usage: a hosted tool's non-zero counter has no meter. *)
ToolUsageRefused(tool_usage) == tool_usage \notin {"absent", "zero"}

(* terminal_status: what settles, and what does not. *)
Settles(resp) ==
    \/ resp.status = "completed"
    \/ resp.status = "incomplete" /\ resp.reason \in {"max_output_tokens", "content_filter"}

terminal_status(resp) ==
    IF resp.status = "completed" THEN "stop"
    ELSE IF resp.reason = "max_output_tokens" THEN "length" ELSE "content_filter"

Calls(resp) == SelectSeq(resp.output, LAMBDA item : item.type = "function_call")

(* response_of refuses: not a response, an embedded error, a status that   *)
(* does not settle, a hosted tool's cost, an item it cannot represent, a   *)
(* call without arguments, usage that is no evidence.                      *)
ResponseRefused(resp) ==
    \/ resp.object # "response"
    \/ resp.embeds_error
    \/ ~Settles(resp)
    \/ ToolUsageRefused(resp.tool_usage)
    \/ ~resp.has_output
    \/ \E k \in DOMAIN resp.output : ~resp.output[k].sound
    \/ \E k \in DOMAIN Calls(resp) : Calls(resp)[k].arguments = {}
    \/ ResponsesUsageRefused(resp.usage)

(* A response with calls finishes for them, whatever its status. *)
FinishOf(resp) == IF Calls(resp) # <<>> THEN "tool_calls" ELSE terminal_status(resp)

(* failure_code *)
failure_code(code) ==
    CASE code = "content_policy_violation" -> "content_policy"
      [] code = "context_length_exceeded" -> "context_length"
      [] code = "rate_limit_exceeded" -> "rate_limit"
      [] code = "server_error" -> "upstream_unavailable"
      [] code \in {"invalid_prompt", "image_content_policy_violation"} -> "content_policy"
      [] code = "insufficient_quota" -> "payment_required"
      [] code = "vector_store_timeout" -> "timeout"
      [] code = "invalid_image" -> "invalid_request"
      [] OTHER -> "internal"
-----------------------------------------------------------------------------
(* ResponsesStreamParser                                                   *)

NewResponses ==
    [ended |-> FALSE, last_sequence |-> Absent, response_id |-> "",
     items |-> <<>>, parts |-> <<>>, calls |-> <<>>, blocks |-> <<>>]

Put(map, key, value) == (key :> value) @@ map

Item(output_index, kind, done) == [output_index |-> output_index, kind |-> kind, done |-> done]

(* bind_response: the id is there, and the same all along. *)
BindRefused(p, resp) ==
    \/ resp = {}
    \/ Only(resp).id = ""
    \/ p.response_id \notin {"", Only(resp).id}

Bound(p, resp) == [p EXCEPT !.response_id = Only(resp).id]

Lacks(f, keys) == \E k \in keys : f[k] < 0

\* Mutant: final arguments are taken on trust.
ContradictsNever(call, arguments) == FALSE

(* The final arguments do not extend what was emitted. *)
Contradicts(call, arguments) == ~IsPrefix(call.emitted, arguments)

(* settle_arguments: what extends the emitted prefix is emitted once. *)
Settled(p, id, arguments, done) ==
    LET call == p.calls[id]
        rest == SubSeq(arguments, Len(call.emitted) + 1, Len(arguments))
        after == [p EXCEPT !.calls[id].emitted = arguments, !.calls[id].done = @ \/ done]
    IN  IF Contradicts(call, arguments) THEN Refuse(p)
        ELSE Step(after, IF rest = <<>> THEN <<>> ELSE <<TextEvent("tool_call", call.ordinal, rest)>>)

(* added and done disagree. *)
ItemRefused(p, f, item, done) ==
    item.id \in DOMAIN p.items /\
    LET previous == p.items[item.id]
    IN  ~done \/ previous.done \/ previous.output_index # f.output_index \/ previous.kind # item.type

(* output_item_event *)
OutputItemEvent(p, f, done) ==
    LET item == Only(f.item)
        known == [p EXCEPT !.items = Put(@, item.id, Item(f.output_index, item.type, done))]
        arguments == IF item.arguments = {} THEN <<>> ELSE Only(item.arguments)
        ordinal == Cardinality(DOMAIN p.calls)
    IN  IF Lacks(f, {"output_index"}) \/ f.item = {} THEN Refuse(p)
        ELSE IF ~item.sound \/ item.id = "" \/ ItemRefused(p, f, item, done) THEN Refuse(p)
        ELSE IF item.type # "function_call" THEN Step(known, <<>>)
        ELSE IF done /\ item.arguments = {} THEN Refuse(p)
        ELSE IF item.id \in DOMAIN p.calls
             THEN IF p.calls[item.id].call_id # item.call_id \/ p.calls[item.id].name # item.name
                  THEN Refuse(p)
                  ELSE Settled(known, item.id, arguments, TRUE)
        ELSE Step([known EXCEPT !.calls =
                      Put(@, item.id, [ordinal |-> ordinal, call_id |-> item.call_id, name |-> item.name,
                                       emitted |-> arguments, done |-> done])],
                  <<TextEvent("tool_call", ordinal, arguments)>>)

(* content_part_event *)
ContentPartEvent(p, f, done) ==
    LET key == <<f.item_id, f.output_index, f.index>>
        known == key \in DOMAIN p.parts
    IN  IF f.item_id = "" \/ Lacks(f, {"output_index", "index"}) THEN Refuse(p)
        ELSE IF f.part \notin {"output_text", "refusal", "reasoning_text"} THEN Refuse(p)
        ELSE IF known /\ (~done \/ p.parts[key].done \/ p.parts[key].kind # f.part) THEN Refuse(p)
        ELSE Step([p EXCEPT !.parts = Put(@, key, [kind |-> f.part, done |-> done])], <<>>)

(* arguments_event *)
ArgumentsEvent(p, f, done) ==
    LET call == p.calls[f.item_id]
    IN  IF f.item_id = "" \/ Lacks(f, {"output_index"}) \/ f.text = {} THEN Refuse(p)
        ELSE IF f.item_id \notin DOMAIN p.calls THEN Refuse(p)
        ELSE IF call.done THEN Refuse(p)
        ELSE IF done /\ f.name \notin {"", call.name} THEN Refuse(p)
        ELSE IF done THEN Settled(p, f.item_id, Only(f.text), FALSE)
        ELSE IF Only(f.text) = <<>> THEN Step(p, <<>>)
        ELSE Step([p EXCEPT !.calls[f.item_id].emitted = @ \o Only(f.text)],
                  <<TextEvent("tool_call", call.ordinal, Only(f.text))>>)

(* reasoning_event: blocks are numbered as they are first seen. *)
ReasoningEvent(p, f, content, done) ==
    LET key == <<f.item_id, content, f.index>>
        block == IF key \in DOMAIN p.blocks THEN p.blocks[key] ELSE Cardinality(DOMAIN p.blocks)
    IN  IF f.item_id = "" \/ Lacks(f, {"output_index", "index"}) \/ f.text = {} THEN Refuse(p)
        ELSE IF done \/ Only(f.text) = <<>> THEN Step(p, <<>>)
        ELSE Step([p EXCEPT !.blocks = Put(@, key, block)], <<TextEvent("thinking", block, Only(f.text))>>)

(* Text and refusal deltas, their ends, annotations. *)
ContentEvent(p, f, delta) ==
    IF f.item_id = "" \/ Lacks(f, {"output_index", "index"}) \/ f.text = {} THEN Refuse(p)
    ELSE Step(p, IF delta /\ Only(f.text) # <<>> THEN <<TextEvent("delta", 0, Only(f.text))>> ELSE <<>>)

SummaryPartEvent(p, f) ==
    IF f.item_id = "" \/ Lacks(f, {"output_index", "index"}) \/ f.part # "summary_text"
    THEN Refuse(p) ELSE Step(p, <<>>)

(* terminal: the triple leaves only with a response that settles. *)
Terminal(p, f, status) ==
    LET resp == Only(f.resp)
    IN  IF BindRefused(p, f.resp) THEN Refuse(p)
        ELSE IF resp.status # status \/ ResponseRefused(resp) THEN Refuse(p)
        ELSE Step([Bound(p, f.resp) EXCEPT !.ended = TRUE],
                  <<Event("finish", 0, FinishOf(resp)), UsageEvent(ResponsesIr(Only(resp.usage))),
                    Event("done", 0, "")>>)

(* failure_of: response.failed, error, or any frame with an error object. *)
IsFailure(f) == f.type \in {"response.failed", "error"} \/ f.error # ""

FailureCode(f) ==
    failure_code(IF f.type = "response.failed" /\ f.resp # {} /\ Only(f.resp).error # ""
                 THEN Only(f.resp).error ELSE f.error)

(* failure: exact usage of a failed exchange is still told. *)
Failure(p, f) ==
    LET usage == IF f.resp = {} THEN {} ELSE Only(f.resp).usage
        told == IF f.type = "response.failed" /\ ~ResponsesUsageRefused(usage)
                THEN <<UsageEvent(ResponsesIr(Only(usage)))>> ELSE <<>>
    IN  IF f.resp # {} /\ BindRefused(p, f.resp) THEN Refuse(p)
        ELSE Step([(IF f.resp = {} THEN p ELSE Bound(p, f.resp)) EXCEPT !.ended = TRUE],
                  Append(told, Event("error", 0, FailureCode(f))))

AfterTerminal(p) == p.ended

(* Sequence numbers strictly increase. *)
OutOfSequence(p, f) == f.seq < 0 \/ (p.last_sequence # Absent /\ f.seq <= p.last_sequence)

(* frame: the closed list of events. *)
ResponsesEvent(p, f) ==
    CASE f.type \in {"response.created", "response.in_progress", "response.queued"} ->
            IF BindRefused(p, f.resp) THEN Refuse(p) ELSE Step(Bound(p, f.resp), <<>>)
      [] f.type = "response.completed" -> Terminal(p, f, "completed")
      [] f.type = "response.incomplete" -> Terminal(p, f, "incomplete")
      [] f.type = "output_item.added" -> OutputItemEvent(p, f, FALSE)
      [] f.type = "output_item.done" -> OutputItemEvent(p, f, TRUE)
      [] f.type = "content_part.added" -> ContentPartEvent(p, f, FALSE)
      [] f.type = "content_part.done" -> ContentPartEvent(p, f, TRUE)
      [] f.type \in {"output_text.delta", "refusal.delta"} -> ContentEvent(p, f, TRUE)
      [] f.type \in {"output_text.done", "refusal.done", "annotation.added"} -> ContentEvent(p, f, FALSE)
      [] f.type = "arguments.delta" -> ArgumentsEvent(p, f, FALSE)
      [] f.type = "arguments.done" -> ArgumentsEvent(p, f, TRUE)
      [] f.type \in {"summary_part.added", "summary_part.done"} -> SummaryPartEvent(p, f)
      [] f.type = "summary_text.delta" -> ReasoningEvent(p, f, FALSE, FALSE)
      [] f.type = "summary_text.done" -> ReasoningEvent(p, f, FALSE, TRUE)
      [] f.type = "reasoning_text.delta" -> ReasoningEvent(p, f, TRUE, FALSE)
      [] f.type = "reasoning_text.done" -> ReasoningEvent(p, f, TRUE, TRUE)
      [] OTHER -> Refuse(p)

ResponsesFrame(p, f) ==
    IF ~f.object \/ AfterTerminal(p) THEN Refuse(p)
    ELSE IF f.type # "" /\ f.sse \notin {"message", f.type} THEN Refuse(p)
    ELSE IF IsFailure(f) THEN Failure(p, f)
    ELSE IF OutOfSequence(p, f) THEN Refuse(p)
    ELSE ResponsesEvent([p EXCEPT !.last_sequence = f.seq], f)

(* The end of input: a stream without its terminal frame was truncated. *)
ResponsesEnd(p) == IF p.ended THEN Step(p, <<>>) ELSE [Refuse(p) EXCEPT !.error = "truncated"]
-----------------------------------------------------------------------------
(***************************************************************************)
(* The stream parser of the :generateContent wire,                         *)
(* crates/south-component-conformance/src/gemini_text.rs.  A frame is a    *)
(* record: whether its data is JSON, the parts of its first candidate, the *)
(* finish reason of any candidate ("" for none, "bad" for no string) and   *)
(* usageMetadata ("absent", "bad" or "object" with its counts).  A part is *)
(* a call, a text or a thought, with a name, whether it is empty, and its  *)
(* signature.                                                              *)
(***************************************************************************)

(* STREAM_USAGE_COUNTS *)
GeminiCounts == {"prompt", "candidates", "thoughts", "tool_use", "cached", "total"}

(* usage_of refuses: no prompt or total, more cached than prompted, a      *)
(* total that does not add up, or candidates unreported that it needs.     *)
GeminiUsageRefused(meta) ==
    LET known == Got(meta.prompt) + Got(meta.tool_use) + Got(meta.thoughts)
    IN  \/ Unusable(meta.prompt, TRUE) \/ Unusable(meta.total, TRUE)
        \/ \E c \in {"cached", "tool_use", "thoughts", "candidates"} : Unusable(meta[c], FALSE)
        \/ Got(meta.cached) > meta.prompt
        \/ known + Got(meta.candidates) # meta.total
        \/ known + Got(meta.candidates) > MaxCount

(* Thoughts are reported outside the candidates; both are output. *)
GeminiIr(meta) ==
    [NoUsage EXCEPT !.input = meta.prompt + Got(meta.tool_use),
                    !.output = Got(meta.candidates) + Got(meta.thoughts),
                    !.cache_read = Got(meta.cached), !.reasoning = Got(meta.thoughts)]
-----------------------------------------------------------------------------
(* GeminiSseParser                                                         *)

NewGemini == [calls |-> 0, seen |-> [c \in GeminiCounts |-> 0], terminated |-> FALSE]

finish_reason_of(raw, called) ==
    IF called THEN "tool_calls"
    ELSE CASE raw = "STOP" -> "stop"
           [] raw = "MAX_TOKENS" -> "length"
           [] raw \in {"SAFETY", "PROHIBITED_CONTENT", "BLOCKLIST"} -> "content_filter"
           [] OTHER -> raw

(* The counts a chunk is held to: an intermediate one's own, the terminal  *)
(* one's all.                                                              *)
Observed(meta, terminal) == {c \in GeminiCounts : terminal \/ meta[c] \notin {Absent, Null}}

Decrease(p, meta, terminal) ==
    \E c \in Observed(meta, terminal) : meta[c] = Bad \/ Got(meta[c]) < p.seen[c]

(* observe_counts *)
Observe(p, meta, terminal) ==
    [p EXCEPT !.seen = [c \in GeminiCounts |-> IF c \in Observed(meta, terminal) THEN Got(meta[c]) ELSE @[c]]]

(* The event of one part; a call's number is the count of calls before it. *)
PartEvents(parts, calls) ==
    LET number(k) == calls + Len(SelectSeq(SubSeq(parts, 1, k - 1), LAMBDA q : q.kind = "call"))
        event(k) == CASE parts[k].kind = "call" -> <<Event("tool_call", number(k), parts[k].name)>>
                      [] parts[k].empty -> <<>>
                      [] parts[k].kind = "thought" -> <<Event("thinking", 0, "text")>>
                      [] parts[k].kind = "text" -> <<Event("delta", 0, "text")>>
                      [] OTHER -> <<>>
    IN  FlattenSeq([k \in DOMAIN parts |-> event(k)])

CallsIn(parts) == Len(SelectSeq(parts, LAMBDA q : q.kind = "call"))

(* events_of: the terminal chunk is the one with a finish reason, and only *)
(* its counts are usage.                                                   *)
GeminiEvents(p, f) ==
    LET called == [p EXCEPT !.calls = @ + CallsIn(f.parts)]
        events == PartEvents(f.parts, p.calls)
        finish == Event("finish", 0, finish_reason_of(f.reason, called.calls > 0))
        ended == [called EXCEPT !.terminated = TRUE]
    IN  IF p.terminated \/ (\E k \in DOMAIN f.parts : f.parts[k].kind = "call" /\ f.parts[k].sig = "bad")
           \/ f.reason = "bad" THEN Refuse(p)
        ELSE IF f.reason = ""
        THEN IF f.meta = "absent" THEN Step(called, events)
             ELSE IF f.meta = "bad" \/ Decrease(p, f.counts, FALSE) THEN Refuse(p)
             ELSE Step(Observe(called, f.counts, FALSE), events)
        ELSE IF f.meta = "absent" THEN Step(ended, events \o <<finish, Event("done", 0, "")>>)
        ELSE IF f.meta = "bad" \/ GeminiUsageRefused(f.counts) \/ Decrease(p, f.counts, TRUE) THEN Refuse(p)
        ELSE Step(Observe(ended, f.counts, TRUE),
                  events \o <<finish, UsageEvent(GeminiIr(f.counts)), Event("done", 0, "")>>)

GeminiFrame(p, f) == IF ~f.json THEN Refuse(p) ELSE GeminiEvents(p, f)

(* The end of input adds no terminal. *)
GeminiEnd(p) == Step(p, <<>>)
-----------------------------------------------------------------------------
(***************************************************************************)
(* The Bedrock Converse adapter's stream parser,                           *)
(* crates/south-component-conformance/src/reference_bedrock_converse.rs.   *)
(* The host has decoded the binary frames and hands each event on as one   *)
(* text frame (EventStream), so a frame here is a record: the event's name *)
(* ("" when the frame has none), its data, the block index (Bad: not a     *)
(* u32), what the payload is, the stop reason and the usage object.        *)
(***************************************************************************)

(* One usage object; details is "absent", "list" or "bad", and tiers lists *)
(* its entries as (ttl, count).                                            *)
ConverseReport(input, output, total, read, write, details, tiers) ==
    [input |-> input, output |-> output, total |-> total, read |-> read, write |-> write,
     details |-> details, tiers |-> tiers]

TierCount(tiers, ttl) ==
    LET of == SelectSeq(tiers, LAMBDA t : t.ttl = ttl) IN IF of = <<>> THEN 0 ELSE of[1].tokens

(* cache_write_tiers refuses: an unknown or repeated ttl, no count, or a   *)
(* split that does not add up to the write.                                *)
TiersRefused(raw) ==
    \/ raw.details = "bad"
    \/ /\ raw.details = "list"
       /\ \/ \E k \in DOMAIN raw.tiers :
                \/ raw.tiers[k].tokens < 0
                \/ raw.tiers[k].ttl \notin {"5m", "1h"}
                \/ \E m \in 1..(k - 1) : raw.tiers[m].ttl = raw.tiers[k].ttl
          \/ TierCount(raw.tiers, "5m") + TierCount(raw.tiers, "1h") # Got(raw.write)

(* usage_of refuses: a count missing, or a total that is not the sum of    *)
(* the input, both cache buckets and the output.                           *)
ConverseUsageRefused(raw) ==
    \/ \E n \in {raw.input, raw.output, raw.total} : Unusable(n, TRUE)
    \/ raw.input + Got(raw.read) + Got(raw.write) + raw.output # raw.total
    \/ raw.total > MaxCount
    \/ TiersRefused(raw)

(* The whole prompt is the uncached input and both cache buckets. *)
ConverseIr(raw) ==
    [NoUsage EXCEPT !.input = raw.input + Got(raw.read) + Got(raw.write), !.output = raw.output,
                    !.cache_read = Got(raw.read), !.cache_write = Got(raw.write),
                    !.cache_write_5m = TierCount(raw.tiers, "5m"),
                    !.cache_write_1h = TierCount(raw.tiers, "1h")]
-----------------------------------------------------------------------------
(* ConverseSseParser                                                       *)

NewConverse == [pending_finish |-> "", closed |-> FALSE, open |-> {}, seen |-> {}]

converse_stop_reason(raw) ==
    CASE raw \in {"", "end_turn"} -> "stop"
      [] raw = "tool_use" -> "tool_calls"
      [] raw = "max_tokens" -> "length"
      [] raw \in {"content_filtered", "guardrail_intervened"} -> "content_filter"
      [] OTHER -> raw

exception_code(name) ==
    CASE name = "throttling" -> "rate_limit"
      [] name = "model_timeout" -> "timeout"
      [] name \in {"service_unavailable", "model_not_ready"} -> "upstream_unavailable"
      [] name \in {"model_error", "internal_server"} -> "capacity"
      [] name = "model_stream_error" -> "transport_truncated"
      [] name \in {"access_denied", "unrecognized_client"} -> "auth"
      [] name \in {"validation", "resource_not_found"} -> "invalid_request"
      [] OTHER -> "internal"

OpenBlock(p, index) == [p EXCEPT !.open = @ \union {index}, !.seen = @ \union {index}]

ConverseBlockStart(p, f) ==
    IF f.index = Bad \/ f.index \in p.seen THEN Refuse(p)
    ELSE Step(OpenBlock(p, f.index), IF f.what = "tool_use" THEN <<Event("tool_call", f.index, "opened")>> ELSE <<>>)

ConverseDelta(f) ==
    CASE f.what = "text" -> <<Event("delta", 0, "text")>>
      [] f.what = "tool_use" -> <<Event("tool_call", f.index, "more")>>
      [] f.what = "reasoning" -> <<Event("thinking", f.index, "text")>>
      [] f.what = "signature" -> <<Event("signature", f.index, "text")>>
      [] f.what = "redacted" -> <<Event("redacted", f.index, "redacted_thinking")>>
      [] OTHER -> <<>>

(* open_block_for_delta: the first delta of a block opens it. *)
ConverseBlockDelta(p, f) ==
    IF f.index = Bad \/ f.index \in p.seen \ p.open THEN Refuse(p)
    ELSE Step(OpenBlock(p, f.index), ConverseDelta(f))

(* close_block: a block never announced may stop once. *)
ConverseBlockStop(p, f) ==
    IF f.index = Bad \/ f.index \in p.seen \ p.open THEN Refuse(p)
    ELSE Step([p EXCEPT !.open = @ \ {f.index}, !.seen = @ \union {f.index}], <<>>)

ConverseMessageStop(p, f) ==
    LET reason == converse_stop_reason(f.reason)
    IN  IF p.open # {} THEN Refuse(p)
        ELSE Step([p EXCEPT !.pending_finish = reason], <<Event("finish", 0, reason)>>)

(* metadata: the usage, then the terminal Done. *)
ConverseMetadata(p, f) ==
    IF p.open # {} \/ f.usage = {} \/ \E u \in f.usage : ConverseUsageRefused(u) THEN Refuse(p)
    ELSE Step([p EXCEPT !.closed = TRUE, !.pending_finish = ""],
              <<UsageEvent(ConverseIr(Only(f.usage))), Event("done", 0, p.pending_finish)>>)

ConverseFail(p, code) == Step([p EXCEPT !.closed = TRUE], <<Event("error", 0, code)>>)

(* parse_chunk's loop and events_of. *)
ConverseFrame(p, f) ==
    IF f.data = "bytes" THEN Refuse(p)
    ELSE IF f.event = "" THEN Step(p, <<>>)
    ELSE IF f.data = "bad" THEN Refuse(p)
    ELSE IF p.closed THEN Step(p, <<>>)
    ELSE CASE f.event = "contentBlockStart" -> ConverseBlockStart(p, f)
           [] f.event = "contentBlockDelta" -> ConverseBlockDelta(p, f)
           [] f.event = "contentBlockStop" -> ConverseBlockStop(p, f)
           [] f.event = "messageStop" -> ConverseMessageStop(p, f)
           [] f.event = "metadata" -> ConverseMetadata(p, f)
           [] f.event = "exception" -> ConverseFail(p, exception_code(f.what))
           [] f.event = "error" -> ConverseFail(p, "upstream_unavailable")
           [] OTHER -> Step(p, <<>>)

(* An end without metadata emits nothing: no Done is the truncation. *)
ConverseEnd(p) == Step(p, <<>>)
-----------------------------------------------------------------------------
(***************************************************************************)
(* The Kiro adapter's stream parser and its buffered reading,              *)
(* crates/south-component-conformance/src/reference_kiro.rs.  A frame is a *)
(* record: the event ("" when the frame has none), its data, the call it   *)
(* names, whether it stops the call, and its text.                         *)
(***************************************************************************)

(* KiroStreamParser: the calls so far, by position. *)
NewKiro == [parsed |-> FALSE, closed |-> FALSE, calls |-> <<>>]

(* Calls are keyed by their id, whatever came between. *)
KnownCall(p, id) == {k \in DOMAIN p.calls : p.calls[k] = id}

(* tool_events: the first event of a call opens and names it. *)
KiroToolUse(p, f) ==
    LET known == KnownCall(p, f.id)
    IN  IF f.stop THEN Step(p, <<>>)
        ELSE IF known = {}
             THEN Step([p EXCEPT !.calls = Append(@, f.id)], <<TextEvent("tool_call", Len(p.calls), f.text)>>)
        ELSE IF f.text = <<>> THEN Step(p, <<>>)
        ELSE Step(p, <<TextEvent("tool_call", Min(known) - 1, f.text)>>)

kiro_exception_code(name) ==
    CASE name \in {"validation", "resource_not_found"} -> "invalid_request"
      [] name \in {"access_denied", "unrecognized_client"} -> "auth"
      [] name = "model_timeout" -> "timeout"
      [] name = "throttling" -> "rate_limit"
      [] name \in {"internal_server", "service_unavailable"} -> "upstream_unavailable"
      [] OTHER -> "internal"

KiroFail(p, code) == Step([p EXCEPT !.closed = TRUE], <<Event("error", 0, code)>>)

(* parse_chunk's loop and events_of. *)
KiroFrame(q, f) ==
    LET p == [q EXCEPT !.parsed = TRUE]
    IN  IF f.data = "bytes" THEN Refuse(q)
        ELSE IF f.event = "" THEN Step(q, <<>>)
        ELSE IF f.data = "bad" THEN Refuse(q)
        ELSE IF q.closed THEN Step(q, <<>>)
        ELSE CASE f.event = "assistantResponseEvent" ->
                     Step(p, IF f.text = <<>> THEN <<>> ELSE <<TextEvent("delta", 0, f.text)>>)
               [] f.event = "toolUseEvent" -> KiroToolUse(p, f)
               [] f.event = "exception" -> KiroFail(p, kiro_exception_code(f.what))
               [] f.event = "error" -> KiroFail(p, "upstream_unavailable")
               [] OTHER -> Step(p, <<>>)

(* end_of_body: the wire has no terminal event, so the end completes the   *)
(* answer; before any frame an empty chunk is not the end.                 *)
KiroEnd(p) ==
    LET reason == IF p.calls = <<>> THEN "stop" ELSE "tool_calls"
    IN  IF p.closed \/ ~p.parsed THEN Step(p, <<>>)
        ELSE Step([p EXCEPT !.closed = TRUE], <<Event("finish", 0, reason), Event("done", 0, reason)>>)

(* parse_response: the buffered answer, folded from the stream's events;   *)
(* a fragment for a call never opened would be an internal error.          *)
KiroResponse(events) ==
    FoldLeft(LAMBDA got, e :
                IF got.error # "none" THEN got
                ELSE CASE e.kind = "delta" -> [got EXCEPT !.text = @ \o e.text]
                       [] e.kind = "tool_call" /\ e.at = Len(got.calls) -> [got EXCEPT !.calls = Append(@, e.text)]
                       [] e.kind = "tool_call" /\ e.at < Len(got.calls) -> [got EXCEPT !.calls[e.at + 1] = @ \o e.text]
                       [] e.kind = "tool_call" /\ e.at > Len(got.calls) -> [got EXCEPT !.error = "internal"]
                       [] e.kind = "error" -> [got EXCEPT !.error = e.what]
                       [] e.kind = "done" -> [got EXCEPT !.reason = e.what]
                       [] OTHER -> got,
             [text |-> <<>>, calls |-> <<>>, reason |-> "stop", error |-> "none"], events)
=============================================================================
