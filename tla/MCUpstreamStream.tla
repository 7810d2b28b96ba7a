-------------------------- MODULE MCUpstreamStream --------------------------
(***************************************************************************)
(* A provider's streamed answer as an adapter reads it: the host pushes    *)
(* chunks, each completes some frames and may end in a refusal of the      *)
(* splitter (SseSplitter), and an empty chunk is the clean end of input.   *)
(* The parser is the one of the stream's dialect.  An error of parse_chunk *)
(* ends the stream and the events of its chunk are lost with it.           *)
(***************************************************************************)
EXTENDS SseUpstream

CONSTANTS Plans,            \* what a provider may send: a name, the dialect, how many frames
          Alphabet(_),      \* the frames of a plan, by its name
          MaxFramesInChunk

VARIABLES plan,     \* the stream's plan, with its dialect
          parser,   \* the dialect's parser
          fed,      \* history: the chunks
          out,      \* history: the events released
          error     \* "none", the error that ended the stream, or "ended"

streamVars == <<plan, parser, fed, out, error>>

Frame(dialect, p, f) ==
    CASE dialect = "anthropic" -> AnthropicFrame(p, f)
      [] dialect = "chat" -> ChatFrame(p, f)
      [] dialect = "responses" -> ResponsesFrame(p, f)
      [] dialect = "converse" -> ConverseFrame(p, f)
      [] dialect = "gemini" -> GeminiFrame(p, f)
      [] dialect = "kiro" -> KiroFrame(p, f)

NewParser(dialect) ==
    CASE dialect = "anthropic" -> NewAnthropic
      [] dialect = "chat" -> NewChat
      [] dialect = "responses" -> NewResponses
      [] dialect = "converse" -> NewConverse
      [] dialect = "gemini" -> NewGemini
      [] dialect = "kiro" -> NewKiro

EndOfInput(dialect, p) ==
    CASE dialect = "anthropic" -> AnthropicEnd(p)
      [] dialect = "chat" -> ChatEnd(p)
      [] dialect = "responses" -> ResponsesEnd(p)
      [] dialect = "converse" -> ConverseEnd(p)
      [] dialect = "gemini" -> GeminiEnd(p)
      [] dialect = "kiro" -> KiroEnd(p)

(* The dialects whose frames come from the host's own re-encoding: no      *)
(* splitter refuses them, and a frame not complete at the end is dropped.  *)
Reencoded(dialect) == dialect \in {"converse", "kiro"}

Chunk(frames, refused) == [frames |-> frames, refused |-> refused]

(* Frames one after another, up to the first error. *)
ReadFrames(dialect, start, frames) ==
    FoldLeft(LAMBDA read, f :
                IF read.error # "none" THEN read
                ELSE LET did == Frame(dialect, read.parser, f)
                     IN  [did EXCEPT !.events = read.events \o @],
             start, frames)

Refused(read, refused) == IF refused /\ read.error = "none" THEN [read EXCEPT !.error = "split"] ELSE read

\* Mutant: the splitter's refusal is reported before the frames are judged.
ParseChunkRefusalFirst(dialect, p, chunk) ==
    IF chunk.refused THEN [Refuse(p) EXCEPT !.error = "split"]
    ELSE ReadFrames(dialect, Step(p, <<>>), chunk.frames)

(* parse_chunk: the frames completed before a refusal are judged first. *)
ParseChunk(dialect, p, chunk) ==
    Refused(ReadFrames(dialect, Step(p, <<>>), chunk.frames), chunk.refused)

(* parse_chunk of the empty chunk: a frame the splitter still held, then   *)
(* the end; a Responses stream that never began is tolerated.              *)
ParseEnd(dialect, p, last, began) ==
    LET read == Refused(ReadFrames(dialect, Step(p, <<>>), last.frames), last.refused)
        end == EndOfInput(dialect, read.parser)
    IN  IF dialect = "responses" /\ ~began THEN Step(p, <<>>)
        ELSE IF read.error # "none" THEN read
        ELSE [end EXCEPT !.events = read.events \o @]

FramesFed(chunks) == FoldLeft(LAMBDA all, c : all \o c.frames, <<>>, chunks)

StreamInit ==
    /\ plan \in Plans
    /\ parser = NewParser(plan.dialect)
    /\ fed = <<>>
    /\ out = <<>>
    /\ error = "none"

Released(read, chunk, end) ==
    /\ parser' = read.parser
    /\ out' = IF read.error = "none" THEN out \o read.events ELSE out
    /\ error' = IF read.error = "none" THEN end ELSE read.error
    /\ fed' = Append(fed, chunk)
    /\ UNCHANGED plan

(* Frames as the provider numbers them: a Responses frame of a plan gives  *)
(* its distance from its place in the stream.                              *)
Sent(frames) ==
    IF plan.dialect # "responses" THEN frames
    ELSE [k \in DOMAIN frames |-> [frames[k] EXCEPT !.seq = @ + k + Len(FramesFed(fed))]]

(* A chunk; one that completes no frame still begins the stream. *)
PushChunk ==
    /\ error = "none"
    /\ \E n \in 0..Min({MaxFramesInChunk, plan.frames - Len(FramesFed(fed))}) :
       \E frames \in [1..n -> Alphabet(plan.name)], refused \in BOOLEAN :
          LET chunk == Chunk(Sent(frames), refused)
          IN  /\ n = 0 /\ ~refused => fed = <<>>
              /\ Reencoded(plan.dialect) => ~refused
              /\ Released(ParseChunk(plan.dialect, parser, chunk), chunk, "none")

PushEnd ==
    /\ error = "none"
    /\ \E n \in 0..Min({1, plan.frames - Len(FramesFed(fed))}) :
       \E frames \in [1..n -> Alphabet(plan.name)], refused \in BOOLEAN :
          LET last == Chunk(Sent(frames), refused)
          IN  /\ n + Len(fed) = 0 => ~refused
              /\ n = 1 => fed # <<>>
              /\ Reencoded(plan.dialect) => n = 0 /\ ~refused
              /\ Released(ParseEnd(plan.dialect, parser, last, fed # <<>>), last, "ended")

StreamNext == PushChunk \/ PushEnd

StreamSpec == StreamInit /\ [][StreamNext]_streamVars
-----------------------------------------------------------------------------
Kinds(events, kind) == SelectSeq(events, LAMBDA e : e.kind = kind)

(* The frames fed one by one, then the refusal or the end. *)
OneByOne ==
    LET read == ReadFrames(plan.dialect, Step(NewParser(plan.dialect), <<>>), FramesFed(fed))
        end == EndOfInput(plan.dialect, read.parser)
    IN  IF read.error # "none" \/ error \notin {"ended", "truncated"} THEN read
        ELSE [end EXCEPT !.events = read.events \o @]

(* The error a stream reports is its first one in byte order and the       *)
(* events released are those before it, whatever the chunking: as many as  *)
(* the chunks before its own carried (reference.rs:1034-1036,              *)
(* reference_anthropic.rs:1104-1106, reference_openai_responses.rs:1312,   *)
(* gemini_text.rs:679-681).                                                *)
FirstErrorStands ==
    LET whole == OneByOne
    IN  /\ IsPrefix(out, whole.events)
        /\ error = "none" => whole.error = "none" /\ out = whole.events
        /\ error = "ended" /\ Len(fed) > 1 => whole.error = "none" /\ out = whole.events
        /\ error \in {"protocol", "truncated"} => whole.error = error
        /\ error = "split" => whole.error = "none"

(* The stop reason an upstream reported last, and was read. *)
Reported(frames) ==
    IF plan.dialect = "anthropic"
    THEN LET told == SelectSeq(frames, LAMBDA f : f.event = "message_delta" /\ f.reason # "")
         IN  IF told = <<>> THEN "" ELSE stop_reason_to_finish(Last(told).reason)
    ELSE IF plan.dialect = "chat"
    THEN LET told == SelectSeq(FoldLeft(LAMBDA all, f : all \o f.list, <<>>, frames), LAMBDA c : c.reason # "")
         IN  IF told = <<>> THEN "" ELSE Last(told).reason
    ELSE ""

(* The text of a tool call's deltas. *)
Arguments(index) ==
    FoldLeft(LAMBDA text, e : IF e.at = index THEN text \o e.text ELSE text, <<>>, Kinds(out, "tool_call"))

(* The fragments a Kiro upstream sent for a call. *)
Fragments(id) ==
    FoldLeft(LAMBDA text, f : IF f.event = "toolUseEvent" /\ ~f.stop /\ f.id = id THEN text \o f.text ELSE text,
             <<>>, FramesFed(fed))

(* What a released stream promises its consumer.  A finish is followed by  *)
(* its usage, if any, and by Done, before anything else; a Converse stream *)
(* finishes first and is done only with its usage, with the reason it gave *)
(* last (reference_bedrock_converse.rs:735-745).  Except for Chat and      *)
(* Messages, a stream closes once and for good, and none but Chat goes on  *)
(* after an error (reference_anthropic.rs:931-933,                         *)
(* reference_bedrock_converse.rs:813-814); Chat does (reference.rs:1009),  *)
(* which is what NothingAfterError finds.  A finish reason the upstream    *)
(* sent is not lost or changed by the end of the stream; a stream that     *)
(* made a call finishes because of it (gemini_text.rs:379-381).  A tool    *)
(* call's argument deltas add up to the arguments the upstream settled on  *)
(* (reference_openai_responses.rs:947-948), or sent for that call whatever *)
(* it interleaved (reference_kiro.rs:559-562); no fragment names a call    *)
(* never opened (reference_kiro.rs:772-774), and calls are numbered in     *)
(* order.                                                                  *)
StreamSound ==
    /\ plan.dialect # "converse" => \A k \in DOMAIN out : out[k].kind = "finish" =>
          \/ k + 1 <= Len(out) /\ out[k + 1].kind = "done"
          \/ k + 2 <= Len(out) /\ out[k + 1].kind = "usage" /\ out[k + 2].kind = "done"
    /\ plan.dialect = "converse" => \A k \in DOMAIN out : out[k].kind = "done" =>
          /\ k > 1 /\ out[k - 1].kind = "usage"
          /\ out[k].what = IF Kinds(out, "finish") = <<>> THEN "" ELSE Last(Kinds(out, "finish")).what
    /\ plan.dialect # "chat" =>
          \A k \in DOMAIN out : out[k].kind = "error" \/ (out[k].kind = "done" /\ plan.dialect # "anthropic")
             => k = Len(out)
    /\ plan.dialect \in {"anthropic", "chat"} /\ error = "ended" /\ Kinds(out, "error") = <<>> /\ Reported(FramesFed(fed)) # "" =>
          Kinds(out, "finish") # <<>> /\ Last(Kinds(out, "finish")).what = Reported(FramesFed(fed))
    /\ plan.dialect \in {"gemini", "kiro"} =>
          /\ \A k \in DOMAIN out : out[k].kind = "finish" => (out[k].what = "tool_calls" <=> Kinds(out, "tool_call") # <<>>)
          /\ \A k \in DOMAIN Kinds(out, "tool_call") : Kinds(out, "tool_call")[k].at < k
    /\ plan.dialect = "kiro" => KiroResponse(out).error \in {"none"} \union {e.what : e \in Range(Kinds(out, "error"))}
    /\ plan.dialect = "kiro" /\ ~parser.closed /\ error = "none" =>
          /\ Len(KiroResponse(out).calls) = Len(parser.calls)
          /\ \A k \in DOMAIN parser.calls : KiroResponse(out).calls[k] = Fragments(parser.calls[k])
    /\ plan.dialect = "responses" /\ error \in {"none", "ended"} =>
          \A id \in DOMAIN parser.calls : parser.calls[id].emitted = Arguments(parser.calls[id].ordinal)

(* The usage objects a Messages stream's parser read. *)
ReadReports ==
    {Only(f.usage) : f \in {g \in Range(FramesFed(fed)) :
        g.usage # {} /\ (g.event = "message_start" \/ (g.event = "message_delta" /\ g.reason # ""))}}

(* Usage is funds evidence: in every report the cache buckets are parts of *)
(* the input and reasoning of the output, the tiers of a cache write add   *)
(* up to it or are absent; and the reports of a Messages stream fold to    *)
(* the largest count of each bucket whatever their order, with the tiers   *)
(* of the largest cache write, if any report of it had them; what a Gemini *)
(* stream reports at its end is no less than any count it carried before   *)
(* (reference_anthropic.rs:704-722, reference.rs:723-748,                  *)
(* gemini_text.rs:526-541, reference_bedrock_converse.rs:606-611).         *)
UsageIsEvidence ==
    /\ \A k \in DOMAIN out : \A u \in out[k].usage :
          /\ u.input = MaxCount \/ u.cache_read + u.cache_write <= u.input
          /\ u.reasoning <= u.output
          /\ u.explicit_read \in {0, u.cache_read}
          /\ u.cache_write_5m + u.cache_write_1h \in {0, u.cache_write}
    /\ plan.dialect = "anthropic" /\ error \in {"none", "ended"} /\ Kinds(out, "error") = <<>> =>
          LET reports == {WireUsageOf(raw) : raw \in ReadReports}
              largest == {r \in reports : \A other \in reports : other.cache_write <= r.cache_write}
          IN  /\ \A b \in Buckets : parser.usage[b] = Max({0} \union {r[b] : r \in reports})
              /\ (\E r \in largest : HasSplit(r)) = HasSplit(parser.usage)
    /\ plan.dialect = "gemini" /\ error \in {"none", "ended"} =>
          \A e \in Range(Kinds(out, "usage")) : \A u \in e.usage :
             \A f \in {g \in Range(FramesFed(fed)) : g.meta = "object"} :
                /\ Got(f.counts.prompt) <= u.input /\ Got(f.counts.cached) <= u.cache_read
                /\ Got(f.counts.thoughts) <= u.reasoning
                /\ Got(f.counts.candidates) + u.reasoning <= u.output

(* The usage as a consumer folds it that keeps the last value of each      *)
(* field that is not zero.                                                 *)
ConsumerFold(reports) ==
    FoldLeft(LAMBDA kept, e : [f \in DOMAIN kept |-> LET u == Only(e.usage)
                                                     IN  IF u[f] = 0 THEN kept[f] ELSE u[f]],
             NoUsage, reports)

(* Every usage report carries the whole usage so far, "which a             *)
(* last-nonzero-wins consumer absorbs to the same result"                  *)
(* (reference_anthropic.rs:880-888).                                       *)
ConsumerAgrees ==
    LET reports == Kinds(out, "usage")
    IN  reports # <<>> => ConsumerFold(reports) = Only(Last(reports).usage)

(* No event follows an error, on any wire: "The kernel's                   *)
(* `StreamEvent::Error` contract forbids events after it, so the parser    *)
(* closes" (reference_anthropic.rs:931-933).  The Chat parser does not     *)
(* close, and this is violated (reference.rs:1009-1019).                   *)
NothingAfterError == \A k \in DOMAIN out : out[k].kind = "error" => k = Len(out)
-----------------------------------------------------------------------------
(***************************************************************************)
(* UpstreamStream for TLC: for each dialect, plans that put every frame    *)
(* the parser tells apart in every order, a few frames at a time.          *)
(***************************************************************************)

(* Anthropic Messages *)
Am(event) == [event |-> event, json |-> TRUE, index |-> 0, what |-> "", empty |-> FALSE,
              reason |-> "", usage |-> {}]
Base == WireReport(1, 1, Absent, Absent, <<>>)

AmBlocks ==
    {[Am("content_block_start") EXCEPT !.index = i, !.what = w] :
        i \in {0, 1}, w \in {"text", "thinking", "redacted_thinking", "tool_use"}} \union
    {[Am("content_block_delta") EXCEPT !.index = 0, !.what = w] :
        w \in {"text_delta", "thinking_delta", "signature_delta", "input_json_delta", "citations_delta"}} \union
    {[Am("content_block_start") EXCEPT !.index = Bad], [Am("content_block_start") EXCEPT !.index = 1, !.what = "redacted_thinking", !.empty = TRUE],
     [Am("content_block_delta") EXCEPT !.what = "text_delta", !.empty = TRUE], Am("content_block_stop"),
     [Am("message_delta") EXCEPT !.reason = "end_turn", !.usage = {Base}]}

AmEnds ==
    {[Am("message_delta") EXCEPT !.reason = r, !.usage = u] :
        r \in {"", "end_turn", "max_tokens", "tool_use", "stop_sequence", "pause_turn"}, u \in {{}, {Base}}} \union
    {[Am("error") EXCEPT !.what = w] :
        w \in {"overloaded_error", "rate_limit_error", "permission_error", "not_found_error", "api_error"}} \union
    {Am("message"), Am("ping"), [Am("ping") EXCEPT !.json = FALSE], Am("message_start"),
     [Am("content_block_start") EXCEPT !.what = "text"], Am("content_block_stop")}

Writes == {WireReport(1, 1, Absent, w, t) :
              w \in {Absent, 1, 2, 3}, t \in {<<>>, <<0, 1>>, <<2, 0>>, <<1, 1>>, <<0, 3>>}}
Counts == {[Base EXCEPT ![b] = n] : b \in {"input", "output", "read"}, n \in {Bad, Absent, 0, 2, 3}} \union
          {[Base EXCEPT !.tiers = <<Bad>>], [Base EXCEPT !.tiers = <<1, Absent>>, !.write = 1], [Base EXCEPT !.write = Bad]}

AmUsage ==
    {[Am("message_start") EXCEPT !.usage = {u}] : u \in Writes \union Counts} \union
    {[Am("message_delta") EXCEPT !.reason = "end_turn", !.usage = {u}] : u \in Writes \union Counts}

(* Chat Completions *)
Choice == [index |-> 0, thinking |-> FALSE, content |-> FALSE, calls |-> <<>>, reason |-> ""]
ChatUsage == [prompt |-> 2, completion |-> 1, total |-> 3, cached |-> Absent, hit |-> Absent,
              write |-> Absent, creation |-> Absent, orch_in |-> Absent, orch_cached |-> Absent,
              orch_out |-> Absent, reasoning |-> Absent, pdetails |-> "object", cdetails |-> "object"]
Ct == [event |-> "message", data |-> "json", embeds_error |-> FALSE, choices |-> "array",
       list |-> <<>>, usage |-> {}, invalid_usage |-> FALSE]

ChatFrames ==
    {Ct, [Ct EXCEPT !.event = "error"], [Ct EXCEPT !.data = "[DONE]"], [Ct EXCEPT !.data = "bad"],
     [Ct EXCEPT !.embeds_error = TRUE], [Ct EXCEPT !.invalid_usage = TRUE], [Ct EXCEPT !.choices = "invalid"],
     [Ct EXCEPT !.choices = "absent"], [Ct EXCEPT !.choices = "absent", !.usage = {ChatUsage}],
     [Ct EXCEPT !.usage = {ChatUsage}],
     [Ct EXCEPT !.list = <<[Choice EXCEPT !.thinking = TRUE, !.content = TRUE, !.calls = <<0, 1>>]>>],
     [Ct EXCEPT !.list = <<[Choice EXCEPT !.content = TRUE, !.reason = "stop"]>>],
     [Ct EXCEPT !.list = <<[Choice EXCEPT !.reason = "length"], [Choice EXCEPT !.index = 1, !.reason = "odd"]>>],
     [Ct EXCEPT !.list = <<[Choice EXCEPT !.reason = "tool_calls"]>>, !.usage = {ChatUsage}],
     [Ct EXCEPT !.usage = {[ChatUsage EXCEPT !.total = 4]}]}

(* Every pair of usage fields edited. *)
ChatEdits(u) ==
    {[u EXCEPT ![f] = n] : f \in {"prompt", "total", "cached", "hit", "write", "creation", "orch_in",
                                  "orch_cached", "orch_out", "reasoning"},
                           n \in {Bad, Absent, Null, 0, 1, 2, 5}} \union
    {[u EXCEPT ![f] = d] : f \in {"pdetails", "cdetails"}, d \in {"absent", "bad"}}

ChatUsages == {[Ct EXCEPT !.choices = "absent", !.usage = {u}] : u \in UNION {ChatEdits(e) : e \in ChatEdits(ChatUsage)}}

(* Responses *)
ResponsesUsage == [input |-> 2, output |-> 1, total |-> 3, cached |-> 1, write |-> Absent, reasoning |-> 1,
                   details_bad |-> FALSE]
Resp == [id |-> "r1", object |-> "response", embeds_error |-> FALSE, status |-> "completed", reason |-> "",
         tool_usage |-> "absent", has_output |-> TRUE, output |-> <<>>, usage |-> {ResponsesUsage}, error |-> ""]
Call == [type |-> "function_call", id |-> "i1", sound |-> TRUE, call_id |-> "c1", name |-> "n", arguments |-> {<<>>}]
Message == [Call EXCEPT !.type = "message", !.id = "i2", !.arguments = {}]
Rs(type) == [object |-> TRUE, sse |-> "message", type |-> type, seq |-> 0, error |-> "", resp |-> {}, item |-> {},
             item_id |-> "i1", output_index |-> 0, index |-> 0, text |-> {<<"a">>}, part |-> "output_text", name |-> ""]

(* One frame also repeats its predecessor's number, or has none. *)
Misnumbered == {[Rs("output_text.delta") EXCEPT !.seq = n] : n \in {-1, -9}}

RsItems ==
    {[Rs("output_item.added") EXCEPT !.item = {[Call EXCEPT !.arguments = a]}] : a \in {{}, {<<"a">>}}} \union
    {[Rs("output_item.done") EXCEPT !.item = {[Call EXCEPT !.arguments = a]}] : a \in {{}, {<<"a">>}, {<<"a", "b">>}}} \union
    {[Rs("output_item.done") EXCEPT !.item = {i}] :
        i \in {Message, [Message EXCEPT !.sound = FALSE], [Call EXCEPT !.name = "other"], [Call EXCEPT !.id = "i2", !.arguments = {<<"b">>}]}} \union
    {[Rs("output_item.added") EXCEPT !.item = {Message}], [Rs("output_item.added") EXCEPT !.output_index = Absent]} \union
    {[Rs("arguments.delta") EXCEPT !.text = t] : t \in {{}, {<<>>}, {<<"a">>}, {<<"b">>}}} \union
    {[Rs("arguments.done") EXCEPT !.text = {t}, !.name = n] : t \in {<<"a">>, <<"a", "b">>}, n \in {"", "other"}} \union
    {[Rs("arguments.delta") EXCEPT !.item_id = "i2"]}

RsTexts ==
    {Rs(t) : t \in {"content_part.added", "content_part.done", "output_text.delta", "refusal.done", "annotation.added",
                    "summary_text.delta", "summary_text.done", "reasoning_text.delta", "reasoning_text.done"}} \union
    {[Rs("summary_text.delta") EXCEPT !.index = 1], [Rs("output_text.delta") EXCEPT !.text = {}],
     [Rs("content_part.done") EXCEPT !.part = "refusal"], [Rs("content_part.added") EXCEPT !.part = "audio"],
     [Rs("summary_part.added") EXCEPT !.part = "summary_text"], Rs("summary_part.done"),
     [Rs("output_text.delta") EXCEPT !.item_id = ""], Rs("response.unknown"), Rs("")}

RsTerminals ==
    {[Rs(t) EXCEPT !.resp = {r}] :
        t \in {"response.completed", "response.incomplete"},
        r \in {Resp, [Resp EXCEPT !.status = "incomplete", !.reason = "max_output_tokens"],
               [Resp EXCEPT !.status = "incomplete", !.reason = "content_filter"], [Resp EXCEPT !.status = "incomplete"],
               [Resp EXCEPT !.id = "r2"], [Resp EXCEPT !.object = "list"], [Resp EXCEPT !.embeds_error = TRUE],
               [Resp EXCEPT !.tool_usage = "counted"], [Resp EXCEPT !.tool_usage = "zero"], [Resp EXCEPT !.has_output = FALSE],
               [Resp EXCEPT !.output = <<Message, Call>>], [Resp EXCEPT !.output = <<[Call EXCEPT !.arguments = {}]>>],
               [Resp EXCEPT !.usage = {}], [Resp EXCEPT !.usage = {[ResponsesUsage EXCEPT !.cached = 3]}],
               [Resp EXCEPT !.usage = {[ResponsesUsage EXCEPT !.reasoning = 2]}]}} \union
    {[Rs("response.created") EXCEPT !.resp = r] : r \in {{}, {Resp}, {[Resp EXCEPT !.id = ""]}}} \union
    {[Rs("response.failed") EXCEPT !.resp = r] :
        r \in {{}, {[Resp EXCEPT !.error = "server_error"]}, {[Resp EXCEPT !.error = "context_length_exceeded", !.usage = {}]}}} \union
    {[Rs("error") EXCEPT !.error = c] :
        c \in {"content_policy_violation", "rate_limit_exceeded", "invalid_prompt", "insufficient_quota",
               "vector_store_timeout", "invalid_image", ""}} \union
    {[Rs("output_text.delta") EXCEPT !.error = "server_error"], [Rs("output_text.delta") EXCEPT !.sse = "error"],
     [Rs("output_text.delta") EXCEPT !.object = FALSE], Rs("output_text.delta")}

(* Converse *)
Cv(event) == [event |-> event, data |-> "json", index |-> 0, what |-> "", reason |-> "", usage |-> {}]
CvUsage == ConverseReport(1, 1, 2, Absent, Absent, "absent", <<>>)
Tier(ttl, n) == [ttl |-> ttl, tokens |-> n]

CvBlocks ==
    {[Cv("contentBlockStart") EXCEPT !.index = i, !.what = w] : i \in {0, 1, Bad}, w \in {"text", "tool_use"}} \union
    {[Cv("contentBlockDelta") EXCEPT !.index = i, !.what = w] :
        i \in {0, Bad}, w \in {"text", "tool_use", "reasoning", "signature", "redacted", "other"}} \union
    {[Cv("contentBlockStop") EXCEPT !.index = i] : i \in {0, 1, Bad}} \union
    {Cv("messageStop"), [Cv("metadata") EXCEPT !.usage = {CvUsage}]}

CvEnds ==
    {[Cv("messageStop") EXCEPT !.reason = r] :
        r \in {"", "end_turn", "tool_use", "max_tokens", "stop_sequence", "content_filtered", "odd"}} \union
    {[Cv("exception") EXCEPT !.what = w] :
        w \in {"throttling", "model_timeout", "model_not_ready", "model_error", "model_stream_error",
               "access_denied", "validation", "odd"}} \union
    {Cv("error"), Cv(""), Cv("messageStart"), [Cv("messageStop") EXCEPT !.data = "bad"],
     [Cv("") EXCEPT !.data = "bytes"], Cv("metadata"), [Cv("metadata") EXCEPT !.usage = {CvUsage}],
     [Cv("contentBlockDelta") EXCEPT !.what = "text"], Cv("contentBlockStop")}

CvUsages ==
    {[Cv("metadata") EXCEPT !.usage = {u}] :
        u \in {ConverseReport(i, 1, t, r, w, "absent", <<>>) :
                  i \in {Absent, 1, 4}, t \in {Bad, 2, 3, 4, 7}, r \in {Absent, Bad, 1, 2}, w \in {Absent, 0, 1}} \union
              {ConverseReport(1, 1, 2 + Got(w), Absent, w, d, tiers) :
                  w \in {Absent, 1, 2}, d \in {"list", "bad"},
                  tiers \in UNION {[1..n -> {Tier("5m", 1), Tier("1h", 1), Tier("5m", Bad), Tier("1h", 0), Tier("9m", 1)}] : n \in 0..3}}}

(* Gemini *)
Gm == [json |-> TRUE, parts |-> <<>>, reason |-> "", meta |-> "absent",
       counts |-> [c \in GeminiCounts |-> Absent]]
Part(kind) == [kind |-> kind, empty |-> FALSE, name |-> "n", sig |-> "none"]
Metered(f, counts) == [f EXCEPT !.meta = "object", !.counts = counts]
Sum == [c \in GeminiCounts |-> CASE c = "total" -> 2 [] c \in {"prompt", "candidates"} -> 1 [] OTHER -> Absent]

GmFrames ==
    {Gm, [Gm EXCEPT !.json = FALSE], [Gm EXCEPT !.meta = "bad"], [Gm EXCEPT !.reason = "bad"],
     [Gm EXCEPT !.parts = <<Part("text"), Part("thought"), [Part("text") EXCEPT !.empty = TRUE], Part("other")>>],
     [Gm EXCEPT !.parts = <<Part("call"), [Part("call") EXCEPT !.sig = "s"]>>],
     [Gm EXCEPT !.parts = <<[Part("call") EXCEPT !.sig = "bad"]>>],
     [Gm EXCEPT !.parts = <<Part("call")>>, !.reason = "STOP"], Metered([Gm EXCEPT !.reason = "MAX_TOKENS"], Sum),
     [Gm EXCEPT !.reason = "SAFETY"], [Gm EXCEPT !.reason = "RECITATION", !.meta = "bad"]}

GmCounts ==
    {Metered([Gm EXCEPT !.reason = r], [Sum EXCEPT ![c] = n, !["total"] = t]) :
        r \in {"", "STOP"}, c \in GeminiCounts \ {"total"}, n \in {Absent, Bad, 0, 2}, t \in {Absent, 1, 2, 3}}

(* Kiro *)
Ki(event) == [event |-> event, data |-> "json", id |-> "c1", stop |-> FALSE, text |-> <<>>, what |-> ""]

KiFrames ==
    {[Ki("toolUseEvent") EXCEPT !.id = i, !.text = t] : i \in {"c1", "c2", ""}, t \in {<<>>, <<"a">>, <<"b">>}} \union
    {[Ki("toolUseEvent") EXCEPT !.stop = TRUE], [Ki("assistantResponseEvent") EXCEPT !.text = <<"a">>],
     Ki("assistantResponseEvent"), Ki("meteringEvent"), Ki("error"), Ki(""),
     [Ki("") EXCEPT !.data = "bytes"], [Ki("toolUseEvent") EXCEPT !.data = "bad"]} \union
    {[Ki("exception") EXCEPT !.what = w] :
        w \in {"validation", "access_denied", "model_timeout", "throttling", "internal_server", "odd"}}

MCAlphabet(name) ==
    CASE name = "blocks" -> AmBlocks
      [] name = "ends" -> AmEnds
      [] name = "usage" -> AmUsage
      [] name = "chat" -> ChatFrames
      [] name = "chat_usage" -> ChatUsages
      [] name = "items" -> RsItems
      [] name = "texts" -> RsTexts
      [] name = "terminals" -> RsTerminals \union Misnumbered
      [] name = "converse_blocks" -> CvBlocks
      [] name = "converse_ends" -> CvEnds
      [] name = "converse_usage" -> CvUsages
      [] name = "gemini" -> GmFrames
      [] name = "gemini_counts" -> GmCounts
      [] name = "kiro" -> KiFrames

Plan(name, dialect, frames) == [name |-> name, dialect |-> dialect, frames |-> frames]

MCPlans == {Plan("blocks", "anthropic", 3), Plan("ends", "anthropic", 3), Plan("usage", "anthropic", 2),
            Plan("chat", "chat", 3), Plan("chat_usage", "chat", 1),
            Plan("items", "responses", 3), Plan("texts", "responses", 3), Plan("terminals", "responses", 2),
            Plan("converse_blocks", "converse", 3), Plan("converse_ends", "converse", 3),
            Plan("converse_usage", "converse", 1), Plan("gemini", "gemini", 3),
            Plan("gemini_counts", "gemini", 2), Plan("kiro", "kiro", 3)}
=============================================================================
