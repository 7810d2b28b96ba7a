----------------------------- MODULE SseDecoder -----------------------------
(***************************************************************************)
(* The server-sent events decoder of crates/south-host-grammars/src/sse.rs:*)
(* SseDecoderV1 fed by a caller that pushes chunks cut anywhere, pulls     *)
(* events when it likes and finishes when it likes, against decode_sse_v1  *)
(* on the whole input.                                                     *)
(*                                                                         *)
(* Input is a sequence of symbols: CR, LF, the byte order mark, "d" and    *)
(* "e" for the field prefixes data: and event: (with their optional        *)
(* space), "x" for any other text, "!" for a byte that is not UTF-8.  A    *)
(* line is a data or event field when its first symbol is the prefix.      *)
(* Lengths count symbols.                                                  *)
(***************************************************************************)
EXTENDS Integers, Sequences, SequencesExt, FiniteSetsExt

CONSTANTS Symbols,      \* the symbols of the input
          MaxLine,      \* MAX_SSE_LINE_BYTES
          MaxEvent,     \* MAX_SSE_EVENT_BYTES
          MaxInput,     \* bound on the input's length
          MaxChunk      \* bound on a chunk's length

SseAssumption ==
    /\ Symbols \subseteq {"CR", "LF", "BOM", "d", "e", "x", "!"}
    /\ {MaxLine, MaxEvent, MaxInput, MaxChunk} \subseteq Nat

NoEvent == [none |-> TRUE]
Event(event, data) == [event |-> event, data |-> data]
-----------------------------------------------------------------------------
(* EventBuilder                                                            *)

NewBuilder == [start |-> TRUE, type |-> <<>>, data |-> <<>>]

(* What a line does: the builder, the event it dispatches, its error. *)
Did(b, event, error) == [builder |-> b, event |-> event, error |-> error]

(* dispatch drops the last LF of the data and names the event; "message"   *)
(* is the default type.                                                    *)
Dispatch(b) ==
    LET reset == [b EXCEPT !.type = <<>>, !.data = <<>>]
    IN  IF b.data = <<>> THEN Did(reset, NoEvent, "none")
        ELSE Did(reset, Event(IF b.type = <<>> THEN <<"message">> ELSE b.type, Front(b.data)), "none")

WithoutBom(b, text) == IF b.start /\ text # <<>> /\ Head(text) = "BOM" THEN Tail(text) ELSE text

(* line: one line without its terminator. *)
Line(b0, text) ==
    LET b == [b0 EXCEPT !.start = FALSE]
        line == WithoutBom(b0, text)
        value == Tail(line)
    IN  IF Len(text) > MaxLine THEN Did(b0, NoEvent, "LineTooLong")
        ELSE IF Contains(line, "!") THEN Did(b, NoEvent, "NotUtf8")
        ELSE IF line = <<>> THEN Dispatch(b)
        ELSE IF Head(line) = "e"
             THEN IF Len(value) + Len(b.data) > MaxEvent THEN Did(b, NoEvent, "EventTooLarge")
                  ELSE Did([b EXCEPT !.type = value], NoEvent, "none")
        ELSE IF Head(line) = "d"
             THEN IF Len(b.type) + Len(b.data) + Len(value) + 1 > MaxEvent
                  THEN Did(b, NoEvent, "EventTooLarge")
                  ELSE Did([b EXCEPT !.data = b.data \o value \o <<"LF">>], NoEvent, "none")
        ELSE Did(b, NoEvent, "none")
-----------------------------------------------------------------------------
(* decode_sse_v1, which also says where each event's frame ends            *)

Terminators(text) == {k \in DOMAIN text : text[k] \in {"CR", "LF"}}

CrLf(text, k) == text[k] = "CR" /\ k < Len(text) /\ text[k + 1] = "LF"

Add(events, event, end) == IF event = NoEvent THEN events ELSE Append(events, [of |-> event, end |-> end])

RECURSIVE DecodeFrom(_, _, _, _)
DecodeFrom(rest, offset, builder, events) ==
    IF Terminators(rest) = {}
    THEN LET all == offset + Len(rest)
             last == IF rest = <<>> THEN Did(builder, NoEvent, "none") ELSE Line(builder, rest)
         IN  IF last.error # "none" THEN [events |-> events, error |-> last.error]
             ELSE [events |-> Add(Add(events, last.event, all), Dispatch(last.builder).event, all),
                   error |-> "none"]
    ELSE LET k == Min(Terminators(rest))
             next == k + IF CrLf(rest, k) THEN 1 ELSE 0
             did == Line(builder, SubSeq(rest, 1, k - 1))
         IN  IF did.error # "none" THEN [events |-> events, error |-> did.error]
             ELSE DecodeFrom(SubSeq(rest, next + 1, Len(rest)), offset + next, did.builder,
                             Add(events, did.event, offset + next))

Decode(body) == DecodeFrom(body, 0, NewBuilder, <<>>)
-----------------------------------------------------------------------------
(* SseDecoderV1.  Positions are offsets from 0, as in the code.            *)

VARIABLES decoder,  \* the SseDecoderV1
          input,    \* history: every symbol pushed
          events,   \* history: the events pulled, with position() after each
          result    \* what finish returned, or "open"

vars == <<decoder, input, events, result>>

NewDecoder == [buffer |-> <<>>, read |-> 0, scan |-> 0, position |-> 0,
               builder |-> NewBuilder, failure |-> "none"]

TypeOK ==
    /\ decoder.buffer \in Seq(Symbols)
    /\ decoder.read \in 0..Len(decoder.buffer)
    /\ decoder.scan \in 0..Len(decoder.buffer)
    /\ decoder.position \in 0..Len(input)
    /\ decoder.failure \in {"none", "NotUtf8", "LineTooLong", "EventTooLarge"}

Init ==
    /\ decoder = NewDecoder
    /\ input = <<>>
    /\ events = <<>>
    /\ result = "open"

(* push drains what was read and appends the chunk. *)
Pushed(d, chunk) ==
    IF d.failure # "none" THEN d
    ELSE [d EXCEPT !.buffer = SubSeq(d.buffer, d.read + 1, Len(d.buffer)) \o chunk,
                   !.scan = Max({d.scan - d.read, 0}),
                   !.read = 0]

Advanced(d, event, error) == [decoder |-> d, event |-> event, error |-> error]

(* A CR that may be the first half of a CRLF. *)
HeldBack(d, k) == d.buffer[k] = "CR" /\ k = Len(d.buffer)

\* Mutant: an unfinished line is never too long.
UnfinishedTooLongNever(d) == FALSE

UnfinishedTooLong(d) == Len(d.buffer) - d.read > MaxLine

(* What reading a line adds to the position: its terminator is included. *)
Consumed(d, k, next) == next - d.read

(* advance: lines up to the next event, from where the last scan stopped. *)
RECURSIVE Advance(_)
Advance(d) ==
    LET from == Max({d.scan, d.read})
        found == {k \in Terminators(d.buffer) : k > from}
        k == Min(found)
        next == IF CrLf(d.buffer, k) THEN k + 1 ELSE k
        did == Line(d.builder, SubSeq(d.buffer, d.read + 1, k - 1))
        after == [d EXCEPT !.read = next, !.scan = next, !.position = @ + Consumed(d, k, next),
                           !.builder = did.builder]
    IN  IF found = {}
        THEN IF UnfinishedTooLong(d) THEN Advanced(d, NoEvent, "LineTooLong")
             ELSE IF d.read = Len(d.buffer)
                  THEN Advanced([d EXCEPT !.buffer = <<>>, !.read = 0, !.scan = 0], NoEvent, "none")
                  ELSE Advanced([d EXCEPT !.scan = Len(d.buffer)], NoEvent, "none")
        ELSE IF k - 1 - d.read > MaxLine THEN Advanced(d, NoEvent, "LineTooLong")
        ELSE IF HeldBack(d, k) THEN Advanced([d EXCEPT !.scan = k - 1], NoEvent, "none")
        ELSE IF did.error # "none" THEN Advanced(after, NoEvent, did.error)
        ELSE IF did.event # NoEvent THEN Advanced(after, did.event, "none")
        ELSE Advance(after)

(* next_event: the first error sticks and empties the buffer. *)
Pull(d) ==
    IF d.failure # "none" THEN Advanced(d, NoEvent, d.failure)
    ELSE LET a == Advance(d)
         IN  IF a.error = "none" THEN a
             ELSE [a EXCEPT !.decoder.failure = a.error, !.decoder.buffer = <<>>,
                            !.decoder.read = 0, !.decoder.scan = 0]

Push ==
    /\ result = "open"
    /\ \E n \in 0..Min({MaxChunk, MaxInput - Len(input)}) : \E chunk \in [1..n -> Symbols] :
          /\ decoder' = Pushed(decoder, chunk)
          /\ input' = input \o chunk
    /\ UNCHANGED <<events, result>>

NextEvent ==
    /\ result = "open"
    /\ LET a == Pull(decoder)
       IN  /\ decoder' = a.decoder
           /\ events' = Add(events, a.event, a.decoder.position)
    /\ UNCHANGED <<input, result>>

(* The line finish reads: the rest without a final CR. *)
LastLine(rest) == IF Last(rest) = "CR" THEN Front(rest) ELSE rest

(* finish: an event not pulled is an error; what is left is a last line,   *)
(* and the pending event is dispatched.                                    *)
Finish ==
    /\ result = "open"
    /\ LET a == Pull(decoder)
           d == a.decoder
           rest == SubSeq(d.buffer, d.read + 1, Len(d.buffer))
           did == IF rest = <<>> THEN Did(d.builder, NoEvent, "none") ELSE Line(d.builder, LastLine(rest))
           event == IF did.event # NoEvent THEN did.event ELSE Dispatch(did.builder).event
           end == d.position + Len(rest)
       IN  IF a.error # "none" THEN result' = a.error /\ UNCHANGED events
           ELSE IF a.event # NoEvent THEN result' = "UndrainedEvent" /\ UNCHANGED events
           ELSE IF did.error # "none" THEN result' = did.error /\ UNCHANGED events
           ELSE result' = "ended" /\ events' = Add(events, event, end)
    /\ UNCHANGED <<decoder, input>>

Next == Push \/ NextEvent \/ Finish

Spec == Init /\ [][Next]_vars
-----------------------------------------------------------------------------
(* However the input is cut and whenever the caller pulls, the events,     *)
(* their positions and the first error are those of decode_sse_v1 on the   *)
(* whole input, and finish refuses only when an event was left unpulled    *)
(* (sse.rs:218-222).                                                       *)
ChunkIndependent ==
    LET whole == Decode(input)
    IN  /\ IsPrefix(events, whole.events)
        /\ result \notin {"open", "UndrainedEvent"} =>
              events = whole.events /\ result = (IF whole.error = "none" THEN "ended" ELSE whole.error)
        /\ result = "UndrainedEvent" => Len(events) < Len(whole.events)

(* A caller that pulls until nothing comes holds one unfinished line at    *)
(* most, and the CR that may end it (sse.rs:234-236).                      *)
DrainedIsBounded ==
    Pull(decoder).decoder = decoder => Len(decoder.buffer) - decoder.read <= MaxLine + 1
=============================================================================
