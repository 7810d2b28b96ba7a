---------------------------- MODULE FramingSuite ----------------------------
(***************************************************************************)
(* The eventstream framing suite (south-provider-conformance/src/          *)
(* eventstream_framing.rs, runner.rs, encoder.rs) run against a host that  *)
(* feeds a component: the reference host of the suite's own tests, or the  *)
(* same host with wiring mistakes.                                         *)
(*                                                                         *)
(* A frame is four cells on the wire, the first two its prelude; a body    *)
(* that is not framed is a row of cells that start no frame.               *)
(***************************************************************************)
EXTENDS Naturals, Sequences, FiniteSets, SequencesExt
-----------------------------------------------------------------------------
(* The fixtures: bodies frame by frame, and the server-sent events a          *)
(* component must be fed for each.                                           *)
(* The bodies *)
FrameOf(type, event, compact) ==
    [type |-> type, event |-> event, compact |-> compact, json |-> TRUE, crc |-> TRUE]

EventFrame(event) == FrameOf("event", event, TRUE)

MessageStart == EventFrame("messageStart")

Cells(frame) == [part \in 1..4 |-> [cell |-> part, of |-> frame]]

Frames(frames) == FlattenSeq([n \in DOMAIN frames |-> Cells(frames[n])])

SseText == [n \in 1..4 |-> [cell |-> 0, of |-> FrameOf("text", "delta", TRUE)]]

ConverseStream ==
    Frames(<<FrameOf("event", "messageStart", FALSE), FrameOf("event", "contentBlockDelta", FALSE),
             EventFrame("contentBlockStop"), FrameOf("event", "messageStop", FALSE),
             EventFrame("metadata")>>)

ExceptionAndError ==
    Frames(<<MessageStart, FrameOf("exception", "throttlingException", TRUE),
             FrameOf("error", "InternalFailure", TRUE)>>)

ChecksumMismatchMidStream ==
    Frames(<<MessageStart, [EventFrame("contentBlockStop") EXCEPT !.crc = FALSE],
             EventFrame("messageStop")>>)

TruncatedTail == Cells(MessageStart) \o SubSeq(Cells(EventFrame("messageStop")), 1, 3)

NonJsonPayload ==
    Frames(<<MessageStart, [FrameOf("event", "contentBlockDelta", FALSE) EXCEPT !.json = FALSE]>>)

(* The fixtures.  A canonical SSE frame names its event and carries the    *)
(* compacted payload.                                                      *)
Sse(event, data) == [event |-> event, data |-> data]

Canonical(events) == [n \in DOMAIN events |-> Sse(events[n], "canonical")]

ConverseStreamSse ==
    Canonical(<<"messageStart", "contentBlockDelta", "contentBlockStop", "messageStop", "metadata">>)

ExceptionAndErrorSse == Canonical(<<"messageStart", "throttlingException", "InternalFailure">>)

FirstMessageSse == Canonical(<<"messageStart">>)

Fixture(id, path, split, bodies, delivered, completes) ==
    [id |-> id, path |-> path, split |-> split, bodies |-> bodies, delivered |-> delivered,
     completes |-> completes]

FramingFixtures ==
    <<Fixture("BytesFramingPassesBytesUnchanged", "bytes", "every", <<SseText>>, SseText, TRUE),
      Fixture("EventFramesReencodeCanonically", "aws", "whole", <<ConverseStream>>, ConverseStreamSse, TRUE),
      Fixture("ExceptionAndErrorFramesPassThrough", "aws", "whole", <<ExceptionAndError>>,
              ExceptionAndErrorSse, TRUE),
      Fixture("SplitAtEveryByteBoundaryIsIdentical", "aws", "every", <<ConverseStream>>,
              ConverseStreamSse, TRUE),
      Fixture("ChecksumMismatchFailsAfterEarlierMessages", "aws", "whole", <<ChecksumMismatchMidStream>>,
              FirstMessageSse, FALSE),
      Fixture("TruncatedTailFailsAtEndOfInput", "aws", "whole", <<TruncatedTail>>, FirstMessageSse, FALSE),
      Fixture("NonJsonPayloadFails", "aws", "whole", <<NonJsonPayload>>, FirstMessageSse, FALSE),
      Fixture("BufferedPathConcatenatesTheReencoding", "buffered", "whole", <<ConverseStream>>,
              ConverseStreamSse, TRUE),
      Fixture("BufferedPathFailsOnAnyFramingError", "buffered", "whole",
              <<ChecksumMismatchMidStream, TruncatedTail, NonJsonPayload>>, <<>>, FALSE)>>
-----------------------------------------------------------------------------

FramingFaults ==
    {"DeframesBytesFraming", "PassesEventstreamRaw", "PayloadNotCompacted",
     "DropsExceptionAndErrorFrames", "FreshDeframerPerChunk", "ResyncsPastBadFrame",
     "SkipsFinish", "PassesNonJsonPayloadRaw", "FailsWithoutDelivering",
     "BufferedPayloadNotCompacted", "BufferedKeepsPartialResult"}
-----------------------------------------------------------------------------
(* variants: cut at each interior point, then one cell per chunk *)
Variants(fixture, bytes) ==
    IF fixture.split = "whole" THEN <<<<bytes>>>>
    ELSE Append([point \in 1..(Len(bytes) - 1) |->
                    <<SubSeq(bytes, 1, point), SubSeq(bytes, point + 1, Len(bytes))>>],
                [n \in DOMAIN bytes |-> <<bytes[n]>>])

(* The harness calls of a case, in order. *)
CallsOf(fixture) ==
    FlattenSeq([n \in DOMAIN fixture.bodies |-> Variants(fixture, fixture.bodies[n])])
-----------------------------------------------------------------------------
VARIABLES faults,      \* the wiring mistakes of the host under test
          k, variant,  \* the runner: the case, and the variant of it
          pc,          \* the host: "push", "drain", "finish" or "returned"
          left,        \* chunks not yet pushed
          held,        \* the deframer's buffer
          fed, outcome,   \* what the component was fed, and how the call ended
          mismatches

framingVars == <<faults, k, variant, pc, left, held, fed, outcome, mismatches>>

InSuite == k <= Len(FramingFixtures)
Case == FramingFixtures[k]
Buffered == Case.path = "buffered"
Streaming(fault) == fault \in faults /\ ~Buffered

CallHost(chunks) ==
    /\ pc' = "push"
    /\ left' = chunks
    /\ held' = <<>>
    /\ fed' = <<>>
    /\ outcome' = "open"

FramingStarts(mistakes) ==
    /\ faults \in mistakes
    /\ k = 1 /\ variant = 1
    /\ pc = "push" /\ left = CallsOf(FramingFixtures[1])[1]
    /\ held = <<>> /\ fed = <<>> /\ outcome = "open"
    /\ mismatches = <<>>
-----------------------------------------------------------------------------
(* The host (tests/eventstream_framing_suite_v1.rs): stream, buffered, the *)
(* loop they share, encode.                                                *)
Deframes ==
    \/ Buffered
    \/ /\ Case.path = "aws" \/ "DeframesBytesFraming" \in faults
       /\ "PassesEventstreamRaw" \notin faults

Decode(cells) ==
    IF Len(cells) < 2 THEN "more"
    ELSE IF cells[1].cell # 1 \/ cells[2].cell # 2 THEN "not a frame"
    ELSE IF Len(cells) < 4 THEN "more"
    ELSE IF cells[1].of.crc THEN "message" ELSE "corrupt"

Uncompacted(frame) == Sse(frame.event, IF frame.compact THEN "canonical" ELSE "as framed")

(* encode: the SSE frames fed for a message; {} when it fails to encode *)
Encode(frame) ==
    LET dropped == Streaming("DropsExceptionAndErrorFrames") /\ frame.type # "event"
        raw == \/ Streaming("PayloadNotCompacted")
               \/ Buffered /\ "BufferedPayloadNotCompacted" \in faults
               \/ Streaming("PassesNonJsonPayloadRaw") /\ ~frame.json
        passes == frame.json \/ Streaming("PassesNonJsonPayloadRaw")
    IN  IF dropped THEN {<<>>}
        ELSE IF ~passes THEN {}
        ELSE {<<IF raw THEN Uncompacted(frame) ELSE Sse(frame.event, "canonical")>>}

(* A failed call: the streaming path has fed what it fed, the buffered     *)
(* path hands nothing to parse-response.                                   *)
Failed ==
    /\ pc' = "returned"
    /\ LET kept == Buffered /\ "BufferedKeepsPartialResult" \in faults
           lost == Buffered \/ "FailsWithoutDelivering" \in faults
       IN  /\ outcome' = IF kept THEN "completed" ELSE "failed"
           /\ fed' = IF lost /\ ~kept THEN <<>> ELSE fed
    /\ UNCHANGED <<left, held>>

Completed == pc' = "returned" /\ outcome' = "completed" /\ UNCHANGED <<left, held, fed>>

Push ==
    /\ pc = "push" /\ left # <<>>
    /\ left' = Tail(left)
    /\ IF Deframes THEN held' = held \o Head(left) /\ pc' = "drain" /\ UNCHANGED fed
       ELSE fed' = fed \o Head(left) /\ UNCHANGED <<pc, held>>
    /\ UNCHANGED outcome

NextMessage ==
    LET frame == held[1].of
        rest == SubSeq(held, 5, Len(held))
        skipped == Streaming("ResyncsPastBadFrame")
    IN  /\ pc = "drain"
        /\ CASE Decode(held) = "message" /\ Encode(frame) # {} ->
                  /\ fed' = fed \o CHOOSE sse \in Encode(frame) : TRUE
                  /\ held' = rest
                  /\ UNCHANGED <<pc, left, outcome>>
             [] Decode(held) = "corrupt" /\ skipped -> held' = rest /\ UNCHANGED <<pc, left, fed, outcome>>
             [] Decode(held) = "more" ->
                  /\ pc' = IF Streaming("FreshDeframerPerChunk") THEN "finish" ELSE "push"
                  /\ UNCHANGED <<left, held, fed, outcome>>
             [] OTHER -> Failed

(* finish: a part of a frame that is left over is a truncated tail *)
Finish ==
    LET truncated == Deframes /\ held # <<>> /\ ~Streaming("SkipsFinish")
    IN  /\ pc = "finish" \/ (pc = "push" /\ left = <<>>)
        /\ IF truncated THEN Failed
           ELSE IF left # <<>> THEN pc' = "push" /\ held' = <<>> /\ UNCHANGED <<left, fed, outcome>>
           ELSE Completed

Host == (Push \/ NextMessage \/ Finish) /\ UNCHANGED <<faults, k, variant, mismatches>>
-----------------------------------------------------------------------------
(* run_case: the first variant that differs ends its case *)
Differences ==
    (IF fed # Case.delivered THEN <<"Delivered">> ELSE <<>>)
      \o (IF (outcome = "completed") # Case.completes THEN <<"Outcome">> ELSE <<>>)

NextCall ==
    LET last == Differences # <<>> \/ variant = Len(CallsOf(Case))
    IN  /\ pc = "returned"
        /\ mismatches' = mismatches \o
              [n \in DOMAIN Differences |-> [id |-> Case.id, variant |-> variant, category |-> Differences[n]]]
        /\ k' = IF last THEN k + 1 ELSE k
        /\ variant' = IF last THEN 1 ELSE variant + 1
        /\ IF k' <= Len(FramingFixtures) THEN CallHost(CallsOf(FramingFixtures[k'])[variant'])
           ELSE pc' = "done" /\ UNCHANGED <<left, held, fed, outcome>>
        /\ UNCHANGED faults

FramingNext == InSuite /\ (Host \/ NextCall)
-----------------------------------------------------------------------------
(* What the suite's tests say each mistake fails. *)
FailsCases(fault) ==
    CASE fault = "DeframesBytesFraming" -> {1}
      [] fault = "PassesEventstreamRaw" -> 2..7
      [] fault = "PayloadNotCompacted" -> {2, 4}
      [] fault = "DropsExceptionAndErrorFrames" -> {3}
      [] fault = "FreshDeframerPerChunk" -> {4}
      [] fault = "ResyncsPastBadFrame" -> {5}
      [] fault = "SkipsFinish" -> {6}
      [] fault = "PassesNonJsonPayloadRaw" -> {7}
      [] fault = "FailsWithoutDelivering" -> 5..7
      [] fault = "BufferedPayloadNotCompacted" -> {8}
      [] fault = "BufferedKeepsPartialResult" -> {9}

(* The framing suite passes the host that deframes as South does and fails *)
(* every other one: a single mistake on exactly the cases that guard it,   *)
(* and two mistakes together never hide each other                         *)
(* (runner.rs:251-316, tests/eventstream_framing_suite_v1.rs:374-411).     *)
FramingJudged ==
    ~InSuite =>
        LET failed == {n \in DOMAIN FramingFixtures :
                          \E m \in DOMAIN mismatches : mismatches[m].id = FramingFixtures[n].id}
        IN  /\ (failed = {}) = (faults = {})
            /\ \A fault \in faults : faults = {fault} => failed = FailsCases(fault)
=============================================================================
