----------------------------- MODULE EventStream -----------------------------
(***************************************************************************)
(* The AWS eventstream deframer of crates/south-contracts/src/             *)
(* eventstream.rs: AwsEventStreamDeframerV1 fed with a body cut anywhere,  *)
(* against deframe_aws_eventstream_v1 on the whole body.                   *)
(*                                                                         *)
(* A frame keeps its layout with one byte per part: frame length, header   *)
(* length, prelude checksum, the headers, the payload, message checksum.   *)
(* A header is the byte of its name: 0 is an empty name, 9 a header that   *)
(* is malformed in another way.  The checksum is a sum modulo 5.           *)
(***************************************************************************)
EXTENDS Integers, Sequences, SequencesExt, FiniteSetsExt

CONSTANTS Bodies,       \* the bodies an upstream may send
          MaxFrame,     \* MAX_EVENTSTREAM_FRAME_BYTES
          MaxHeaders,   \* MAX_EVENTSTREAM_HEADERS_BYTES
          MaxChunk      \* bound on a chunk's length

Prelude == 3
MinFrame == Prelude + 1

FrameAssumption ==
    /\ \A body \in Bodies : \A k \in DOMAIN body : body[k] \in Nat
    /\ {MaxFrame, MaxHeaders, MaxChunk} \subseteq Nat

Crc(bytes) == FoldLeft(LAMBDA sum, byte : sum + byte, 1, bytes) % 5

More == [kind |-> "more"]
Error(error) == [kind |-> "error", error |-> error]
Message(headers, payload, length) ==
    [kind |-> "message", headers |-> headers, payload |-> payload, length |-> length]

(* parse_headers stops at the first bad header; "none" when there is none. *)
HeaderError(block) ==
    LET bad == {k \in DOMAIN block : block[k] \in {0, 9} \/ \E j \in 1..(k - 1) : block[j] = block[k]}
        k == Min(bad)
    IN  IF bad = {} THEN "none"
        ELSE IF block[k] = 0 THEN "EmptyHeaderName"
        ELSE IF block[k] = 9 THEN "MalformedHeader" ELSE "DuplicateHeader"

(* The prelude is checked as soon as it is there. *)
NeedsMore(bytes) == Len(bytes) < Prelude

(* decode_frame *)
DecodeFrame(bytes) ==
    LET length == bytes[1]
        headers == bytes[2]
        covered == SubSeq(bytes, 1, length - 1)
        block == SubSeq(bytes, Prelude + 1, Prelude + headers)
    IN  IF NeedsMore(bytes) THEN More
        ELSE IF Crc(SubSeq(bytes, 1, 2)) # bytes[3] THEN Error("PreludeChecksumMismatch")
        ELSE IF length < MinFrame THEN Error("FrameTooShort")
        ELSE IF length > MaxFrame THEN Error("FrameTooLarge")
        ELSE IF headers > MaxHeaders THEN Error("HeadersTooLarge")
        ELSE IF headers > length - MinFrame THEN Error("HeadersExceedFrame")
        ELSE IF Len(bytes) < length THEN More
        ELSE IF Crc(covered) # bytes[length] THEN Error("MessageChecksumMismatch")
        ELSE IF HeaderError(block) # "none" THEN Error(HeaderError(block))
        ELSE Message(block, SubSeq(bytes, Prelude + headers + 1, length - 1), length)

(* deframe_aws_eventstream_v1: a frame is decoded where the last one ended *)
Deframed(body, r, at) ==
    LET frame == DecodeFrame(SubSeq(body, at, Len(body)))
    IN  IF at # r.next THEN r
        ELSE CASE frame.kind = "more" -> [r EXCEPT !.error = "TruncatedFrame", !.next = 0]
               [] frame.kind = "error" -> [r EXCEPT !.error = frame.error, !.next = 0]
               [] frame.kind = "message" -> [r EXCEPT !.messages = Append(@, frame), !.next = at + frame.length]

Deframe(body) ==
    FoldLeft(LAMBDA r, at : Deframed(body, r, at), [messages |-> <<>>, error |-> "none", next |-> 1],
             [at \in DOMAIN body |-> at])
-----------------------------------------------------------------------------
VARIABLES body,      \* what the upstream sends
          fed,       \* bytes of it pushed so far
          buffer, read, failure,   \* the deframer
          messages,  \* history: the messages pulled
          result     \* what finish returned, or "open"

vars == <<body, fed, buffer, read, failure, messages, result>>

Pending == SubSeq(buffer, read + 1, Len(buffer))

TypeOK ==
    /\ body \in Bodies /\ fed \in 0..Len(body)
    /\ buffer \in Seq(Nat) /\ read \in 0..Len(buffer)
    /\ failure \in STRING
    /\ result \in STRING

Init ==
    /\ body \in Bodies
    /\ fed = 0
    /\ buffer = <<>>
    /\ read = 0
    /\ failure = "none"
    /\ messages = <<>>
    /\ result = "open"

(* push drains what was read; after an error the bytes are discarded. *)
Push(n) ==
    /\ result = "open" /\ fed + n <= Len(body)
    /\ fed' = fed + n
    /\ IF failure # "none" THEN UNCHANGED <<buffer, read>>
       ELSE buffer' = Pending \o SubSeq(body, fed + 1, fed + n) /\ read' = 0
    /\ UNCHANGED <<body, failure, messages, result>>

(* next_message *)
Pull ==
    LET frame == DecodeFrame(Pending)
    IN  \/ /\ failure = "none" /\ frame.kind = "message"
           /\ messages' = Append(messages, frame)
           /\ IF read + frame.length = Len(buffer) THEN buffer' = <<>> /\ read' = 0
              ELSE read' = read + frame.length /\ UNCHANGED buffer
           /\ UNCHANGED failure
        \/ /\ failure = "none" /\ frame.kind = "error"
           /\ failure' = frame.error /\ buffer' = <<>> /\ read' = 0
           /\ UNCHANGED messages
        \/ /\ failure # "none" \/ frame.kind = "more"
           /\ UNCHANGED <<buffer, read, failure, messages>>

NextMessage == result = "open" /\ Pull /\ UNCHANGED <<body, fed, result>>

(* finish: every byte must have belonged to a returned message. *)
Finish ==
    /\ result = "open"
    /\ LET frame == DecodeFrame(Pending)
       IN  result' = IF failure # "none" THEN failure
                     ELSE IF frame.kind = "message" THEN "UndrainedMessage"
                     ELSE IF frame.kind = "error" THEN frame.error
                     ELSE IF Pending = <<>> THEN "ended" ELSE "TruncatedFrame"
    /\ UNCHANGED <<body, fed, buffer, read, failure, messages>>

Next == NextMessage \/ Finish \/ \E n \in 0..MaxChunk : Push(n)

Spec == Init /\ [][Next]_vars
-----------------------------------------------------------------------------
(* However the body is cut and whenever the caller pulls, the messages and *)
(* the first error are those of the whole-body function on what was        *)
(* pushed (eventstream.rs:203-208, 322-326).                               *)
DeframedAsWhole ==
    LET whole == Deframe(SubSeq(body, 1, fed))
    IN  /\ IsPrefix(messages, whole.messages)
        /\ result = "UndrainedMessage" => Len(messages) < Len(whole.messages)
        /\ result \notin {"open", "UndrainedMessage"} =>
              messages = whole.messages /\ result = (IF whole.error = "none" THEN "ended" ELSE whole.error)

(* A caller that drains holds less than one frame, and less than one       *)
(* prelude of a frame whose lengths are refused (eventstream.rs:24-26,     *)
(* 210-212).                                                               *)
DrainedHoldsPartOfAFrame ==
    failure = "none" /\ DecodeFrame(Pending) = More =>
        \/ Len(Pending) < Prelude
        \/ Len(Pending) < Pending[1] /\ Pending[1] <= MaxFrame
=============================================================================
