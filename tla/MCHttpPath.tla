----------------------------- MODULE MCHttpPath -----------------------------
(***************************************************************************)
(* What one raw HTTP call goes through: the request is built and checked   *)
(* on its way to the wire (RawCall), the transport exchanges it            *)
(* (HttpExchange) and records the connection in a history that concurrent  *)
(* exchanges share (ConnectionHistory), and a streamed body is decoded in  *)
(* the framing its provider uses: server-sent events, as the host decodes  *)
(* them (SseDecoder) and as a component splits them (SseSplitter), or the  *)
(* AWS event stream (EventStream).                                         *)
(*                                                                         *)
(* The legs share no state: an exchange ignores what the history answers   *)
(* and the history sees only when requests start and responses arrive.     *)
(* `leg` says which one a behaviour is about, the others stay at one       *)
(* initial state.                                                          *)
(***************************************************************************)
EXTENDS HttpExchange, ConnectionHistory

CONSTANTS
    MAX_PROVIDER_HEADER_COUNT, MAX_PROVIDER_HEADER_TOTAL_BYTES, MAX_QUERY_TOTAL_BYTES,
    MAX_DECLARED_SECRET_HEADERS, MAX_RESPONSE_TRANSCRIPT_COUNT,
    MAX_RESPONSE_TRANSCRIPT_TOTAL_BYTES, MAX_METADATA_VALUE_BYTES, ResponseHeaders,  \* RawCall
    Symbols, MaxLine, MaxEvent, MaxInput, MaxChunk,            \* SseDecoder
    SplitSymbols, MaxSplit, SplitInput, SplitChunk,            \* SseSplitter
    Bodies, MaxFrame, MaxHeaders, AwsChunk                     \* EventStream

VARIABLES
    leg,           \* "request", "exchange", "history" or "body"
    framing,       \* "sse", "split" or "eventstream", for the whole body
    raw, at, refusal, request, wire, response, metadata,       \* RawCall
    decoder, input, decoded, ended,                            \* SseDecoder
    splitter, pushed, frames, outcome,                         \* SseSplitter
    stream, fed, buffer, taken, failure, messages, ending      \* EventStream

Raw == INSTANCE RawCall WITH failure <- refusal

Sse == INSTANCE SseDecoder WITH events <- decoded, result <- ended

Split == INSTANCE SseSplitter WITH
            Symbols <- SplitSymbols, MaxInput <- SplitInput, MaxChunk <- SplitChunk,
            input <- pushed, result <- outcome

Aws == INSTANCE EventStream WITH
            MaxChunk <- AwsChunk, body <- stream, read <- taken, result <- ending

ASSUME FramingAssumption == Sse!SseAssumption /\ Aws!FrameAssumption

rawVars == <<raw, at, refusal, request, wire, response, metadata>>
sseVars == <<decoder, input, decoded, ended>>
splitVars == <<splitter, pushed, frames, outcome>>
awsVars == <<stream, fed, buffer, taken, failure, messages, ending>>
framingVars == <<framing, sseVars, splitVars, awsVars>>

FramingInit ==
    /\ framing \in {"sse", "split", "eventstream"}
    /\ framing = "eventstream" \/ (framing # "eventstream" /\ stream = <<>>)
    /\ Sse!Init /\ Split!SplitInit /\ Aws!Init

FramingNext ==
    \/ framing = "sse" /\ Sse!Next /\ UNCHANGED <<framing, splitVars, awsVars>>
    \/ framing = "split" /\ Split!SplitNext /\ UNCHANGED <<framing, sseVars, awsVars>>
    \/ framing = "eventstream" /\ Aws!Next /\ UNCHANGED <<framing, sseVars, splitVars>>

ExchangeUnused ==
    /\ mode = "text" /\ encodable = TRUE
    /\ answer = [status |-> "success", length |-> 0, declared |-> FALSE, utf8 |-> TRUE, valid |-> TRUE]

PathNext ==
    \/ leg = "request" /\ Raw!RawNext /\ UNCHANGED <<leg, vars, historyVars, framingVars>>
    \/ leg = "exchange" /\ Next /\ UNCHANGED <<leg, rawVars, historyVars, framingVars>>
    \/ leg = "history" /\ HistoryNext /\ UNCHANGED <<leg, rawVars, vars, framingVars>>
    \/ leg = "body" /\ FramingNext /\ UNCHANGED <<leg, rawVars, vars, historyVars>>
-----------------------------------------------------------------------------
(* A raw call with bad fields is refused for the first in the documented   *)
(* order, a good one reaches the wire inside its binding, with no header   *)
(* given twice, and what its answer echoes of a secret is hidden (RawCall: *)
(* raw.rs, declared.rs, secret_header.rs).                                 *)
RawCallSound == leg = "request" => Raw!FirstFieldTold /\ Raw!WireSound /\ Raw!EchoHidden

(* However a body is cut into chunks, what is decoded (sse.rs), deframed   *)
(* (eventstream.rs:203-208, 322-326) or split is what the whole body would *)
(* give, a refusal of the splitter swallows no frame completed before it   *)
(* (sse_split.rs:5-14, 20-23), and a caller that pulls until nothing comes *)
(* holds no more than one unfinished line (sse.rs:234-236), or less than a *)
(* frame whose lengths were accepted (eventstream.rs:24-26, 210-212).      *)
SameAsWhole ==
    leg = "body" =>
        /\ Sse!ChunkIndependent /\ Aws!DeframedAsWhole /\ Split!SplitAsWhole
        /\ Sse!DrainedIsBounded /\ Aws!DrainedHoldsPartOfAFrame
-----------------------------------------------------------------------------
(***************************************************************************)
(* The path for TLC.  Requests: one call of each shape, edited twice.      *)
(* Exchanges: bodies up to and beyond every cap, reads longer than the     *)
(* smallest, more socket pairs than the history holds.  Bodies: SSE lines  *)
(* and events so short that short inputs reach every limit, and            *)
(* event-stream bodies of two frames, right or wrong in every field, whole *)
(* or cut short.                                                           *)
(***************************************************************************)

(* The checksum as the sender computes it *)
Sum(bytes) == FoldLeft(LAMBDA sum, byte : sum + byte, 1, bytes) % 5

Opening(length, headers, good) == <<length, headers, Sum(<<length, headers>>) + (IF good THEN 0 ELSE 1)>>

Whole(start, rest, good) == LET f == start \o rest IN Append(f, Sum(f) + (IF good THEN 0 ELSE 1))

(* Well-formed frames, then one wrong in each way. *)
Frames ==
    {Whole(Opening(4, 0, TRUE), <<>>, TRUE), Whole(Opening(6, 1, TRUE), <<2, 7>>, TRUE),
     Whole(Opening(7, 2, TRUE), <<2, 3, 7>>, TRUE)} \union
    {Whole(Opening(4, 0, FALSE), <<>>, TRUE), Whole(Opening(3, 0, TRUE), <<>>, TRUE),
     Whole(Opening(8, 0, TRUE), <<>>, TRUE), Whole(Opening(7, 3, TRUE), <<1, 2, 3>>, TRUE),
     Whole(Opening(5, 2, TRUE), <<1>>, TRUE), Whole(Opening(5, 0, TRUE), <<7>>, FALSE),
     Whole(Opening(5, 1, TRUE), <<0>>, TRUE), Whole(Opening(5, 1, TRUE), <<9>>, TRUE),
     Whole(Opening(6, 2, TRUE), <<2, 2>>, TRUE)}

MCBodies ==
    {<<>>} \union {f \o g : f \in Frames, g \in Frames} \union {Front(f \o g) : f \in Frames, g \in Frames}
-----------------------------------------------------------------------------
(* A call of each shape, right in every field *)
Header(name) == [name |-> name, size |-> 1, long |-> "no", valid |-> TRUE]
Arm(arm, names) == [arm |-> arm, names |-> names]
Base(shape, auth, declared) ==
    [shape |-> shape, auth |-> auth, secret_headers |-> declared, quota |-> <<>>, query |-> {},
     user_agent |-> "none", endpoint |-> [form |-> "http", path |-> <<"name">>],
     bound_slot |-> "primary", requested_slot |-> "primary", path |-> <<"name">>,
     headers |-> <<>>, body |-> "good", boundary |-> "good",
     resolver |-> [expected |-> {}, oversized |-> FALSE]]
Bases ==
    {Base("json", Arm("Bearer", <<>>), <<>>),
     Base("get", Arm("HeaderSecret", <<"x-api-key">>), <<>>),
     Base("json", Arm("BearerAndHeaderSecret", <<"x-goog-api-key">>), <<>>),
     Base("multipart", Arm("DeclaredHeaderSecret", <<"x-acme">>), <<"x-acme">>),
     Base("signed", Arm("HostSigned", <<"authorization", "x-amz-date">>), <<>>)}

(* The values one field is changed to: the limits and one past them,       *)
(* reserved and repeated names, every kind of path segment                 *)
Segments == DOMAIN Raw!SegmentTable
Paths == {<<>>, <<"empty", "name">>, <<"name", "empty">>}
         \union {<<s>> : s \in Segments} \union {<<"name", s>> : s \in Segments}
HeaderLists ==
    {<<Header(n)>> : n \in {"x-a", "accept", "content-type", "authorization", "x-api-key", "x-zeta",
                            "x-goog-api-key", "x-acme", "user-agent", "x-amz-date", "bad name"}}
    \union {<<Header("x-a"), Header("x-a")>>,
            <<Header("x-a"), [Header("x-b") EXCEPT !.valid = FALSE]>>,
            <<[Header("x-a") EXCEPT !.long = "NameTooLong"]>>,
            <<[Header("x-a") EXCEPT !.long = "ValueTooLong"]>>,
            <<[Header("x-a") EXCEPT !.size = 3], Header("x-b")>>,
            <<[Header("x-a") EXCEPT !.size = 4], Header("x-b")>>,
            <<Header("x-a"), Header("x-b"), Header("x-c")>>,
            <<Header("x-a"), Header("x-b"), Header("x-c"), Header("x-d")>>}
Pair(name, declared) == [name |-> name, declared |-> declared, admitted |-> TRUE]
Foreign == [Pair("task_id", FALSE) EXCEPT !.admitted = FALSE]
Queries ==
    {<<>>, <<Pair("alt", FALSE)>>, <<Pair("trace", TRUE), Pair("api-version", FALSE)>>,
     <<Pair("zone", TRUE), Pair("trace", TRUE)>>, <<Pair("api_version", TRUE)>>,
     <<Pair("a.lt", TRUE)>>, <<Pair("api-key", TRUE)>>, <<Pair("alt", FALSE), Pair("alt", FALSE)>>,
     <<Pair("alt", FALSE), Pair("alt", FALSE), Foreign>>, <<Foreign>>,
     <<Pair("file_id", FALSE), Pair("GroupId", FALSE), Pair("alt", FALSE)>>}
Quotas ==
    {<<<<"x-acme", 1>>>>, <<<<"x-left", 1>>, <<"x-zeta", 2>>>>, <<<<"x-left", 1>>, <<"x-zeta", 1>>>>,
     <<<<"x-left", 1>>, <<"x-left", 2>>>>, <<<<"retry-after", 1>>>>}
Signed == {<<>>, <<"authorization", "authorization">>, <<"x-amz-security-token", "authorization">>}
Declared ==
    {<<"x-acme">>, <<"x-acme", "x-zeta">>, <<"x-zeta">>, <<"x-zeta", "x-zeta">>, <<"accept">>,
     <<"content-type">>, <<"x-ratelimit-reset-tokens">>, <<"x-request-id">>, <<"x-acme", "x-zeta", "x-a">>}

Edits(c) ==
    {[c EXCEPT !.path = p] : p \in Paths}
    \union {[c EXCEPT !.endpoint.path = p] : p \in Paths}
    \union {[c EXCEPT !.endpoint.form = "other"], [c EXCEPT !.bound_slot = "Bad"],
            [c EXCEPT !.requested_slot = "Bad"], [c EXCEPT !.bound_slot = "second"],
            [c EXCEPT !.boundary = "ends in space"], [c EXCEPT !.resolver.oversized = TRUE]}
    \union {[c EXCEPT !.body = b] : b \in {"large", "malformed", "epilogue", "unterminated"}}
    \union {[c EXCEPT !.user_agent = a] : a \in {"ours", "spaced"}}
    \union {[c EXCEPT !.resolver.expected = {s}] : s \in {"primary", "second"}}
    \union {[c EXCEPT !.headers = h] : h \in HeaderLists}
    \union {[c EXCEPT !.query = {q}] : q \in Queries}
    \union {[c EXCEPT !.quota = q] : q \in Quotas}
    \union (IF c.shape = "signed"
            THEN {[c EXCEPT !.auth.names = n] : n \in Signed}
            ELSE {[c EXCEPT !.secret_headers = n] : n \in Declared}
                 \union {[c EXCEPT !.auth = Arm("DeclaredHeaderSecret", <<n>>)] :
                            n \in {"x-zeta", "x-acme", "x-request-id"}})

Answer(name) == [name |-> name, size |-> 1, text |-> TRUE]
MCResponseHeaders ==
    {<<>>}
    \union {<<Answer(n)>> : n \in {"x-acme", "x-zeta", "x-api-key", "authorization", "x-left", "x-request-id",
                                   "x-ratelimit-reset-tokens", "retry-after", "content-type", "x-goog-api-key"}}
    \union {<<Answer(a), Answer(b)>> : a, b \in {"x-acme", "x-left", "content-type", "retry-after"}}
    \union {<<Answer("x-acme"), [Answer("x-left") EXCEPT !.size = 2], Answer("x-zeta")>>,
            <<Answer("x-left"), Answer("x-request-id"), Answer("x-a")>>,
            <<[Answer("x-acme") EXCEPT !.text = FALSE]>>,
            <<[Answer("x-a") EXCEPT !.text = FALSE], Answer("x-zeta")>>,
            <<[Answer("retry-after") EXCEPT !.size = 5]>>,
            <<[Answer("content-type") EXCEPT !.text = FALSE]>>,
            <<[Answer("x-left") EXCEPT !.size = 5], Answer("x-left")>>,
            <<[Answer("x-left") EXCEPT !.size = 3], [Answer("x-a") EXCEPT !.size = 3], Answer("x-b")>>}
-----------------------------------------------------------------------------
PathInit ==
    /\ leg \in {"request", "exchange", "history", "body"}
    /\ leg = "exchange" \/ (leg # "exchange" /\ ExchangeUnused)
    /\ Init
    /\ HistoryInit
    /\ leg = "body" \/ (leg # "body" /\ framing = "sse")
    /\ FramingInit
    /\ \/ leg = "request" /\ \E b \in Bases : \E c \in Edits(b) : Raw!RawStarts(Edits(c))
       \/ leg # "request" /\ \E b \in Bases : b.shape = "get" /\ Raw!RawStarts({b})
=============================================================================
