----------------------------- MODULE SseSplitter -----------------------------
(***************************************************************************)
(* The event splitter a component links,                                   *)
(* crates/south-component-conformance/src/sse_split.rs: the same event     *)
(* stream rules as SseDecoder, read by a second implementation that        *)
(* returns the events of a chunk together with the refusal that stopped    *)
(* it.                                                                     *)
(*                                                                         *)
(* Symbols are those of SseDecoder, except that the byte order mark is the *)
(* two symbols "B1" "B2", so that a chunk can end inside it; on its own    *)
(* either one is not UTF-8.                                                *)
(***************************************************************************)
EXTENDS Integers, Sequences, SequencesExt, FiniteSetsExt

CONSTANTS Symbols,      \* the symbols of the input
          MaxSplit,     \* MAX_SSE_SPLIT_BYTES
          MaxInput,     \* bound on the input's length
          MaxChunk      \* bound on a chunk's length

VARIABLES splitter,     \* the SseSplitterV1
          input,        \* history: every symbol pushed
          frames,       \* history: the frames returned
          result        \* "open", the refusal, or "ended"

splitVars == <<splitter, input, frames, result>>

(* decode_sse_v1 with limits no input reaches. *)
Whole == INSTANCE SseDecoder WITH
            MaxLine <- MaxInput, MaxEvent <- 2 * MaxInput, decoder <- splitter, events <- frames

NewSplitter == [tail |-> <<>>, bom_settled |-> FALSE, after_cr |-> FALSE,
                event |-> <<>>, data |-> <<>>, has_data |-> FALSE]

Bom == <<"B1", "B2">>

(* The input in SseDecoder's symbols. *)
RECURSIVE Text(_)
Text(bytes) ==
    IF bytes = <<>> THEN <<>>
    ELSE IF IsPrefix(Bom, bytes) THEN <<"BOM">> \o Text(SubSeq(bytes, 3, Len(bytes)))
    ELSE <<IF Head(bytes) \in {"B1", "B2"} THEN "!" ELSE Head(bytes)>> \o Text(Tail(bytes))

(* from_utf8 of a line. *)
NotUtf8(line) == Contains(Text(line), "!")

(* What reading on does: the splitter, the frames completed, the refusal. *)
Read(s, out, error) == [splitter |-> s, frames |-> out, error |-> error]

(* Data lines are joined with LF. *)
Joined(s, value) == IF s.has_data THEN s.data \o <<"LF">> \o value ELSE value

(* line: one line without its terminator. *)
Line(s, out, line) ==
    LET value == Tail(line)
        joined == [s EXCEPT !.data = Joined(s, value), !.has_data = TRUE]
    IN  IF line = <<>>
        THEN IF ~s.has_data THEN Read([s EXCEPT !.event = <<>>], out, "none")
             ELSE Read([s EXCEPT !.event = <<>>, !.has_data = FALSE, !.data = <<>>],
                       Append(out, Whole!Event(IF s.event = <<>> THEN <<"message">> ELSE s.event, s.data)),
                       "none")
        ELSE IF Head(line) = "e" THEN Read([s EXCEPT !.event = value], out, "none")
        ELSE IF Head(line) = "d"
             THEN Read(joined, out, IF Len(joined.data) > MaxSplit THEN "TooLarge" ELSE "none")
        ELSE Read(s, out, "none")

(* The lines of the tail, up to the first one refused. *)
RECURSIVE Lines(_, _)
Lines(s, out) ==
    LET ends == Whole!Terminators(s.tail)
        k == Min(ends)
        next == IF Whole!CrLf(s.tail, k) THEN k + 1 ELSE k
        line == SubSeq(s.tail, 1, k - 1)
        after == [s EXCEPT !.tail = SubSeq(s.tail, next + 1, Len(s.tail)),
                           !.after_cr = s.tail[k] = "CR" /\ k = Len(s.tail)]
        did == Line(after, out, line)
    IN  IF ends = {}
        THEN Read(s, out, IF Len(s.tail) > MaxSplit THEN "TooLarge" ELSE "none")
        ELSE IF NotUtf8(line) THEN Read(s, out, "NotUtf8")
        ELSE IF did.error # "none" THEN did
        ELSE Lines(did.splitter, did.frames)

\* Mutant: the LF of a CRLF cut by the chunk boundary is read as a blank line.
WithoutSplitLfNever(s, chunk) == chunk

(* The LF of a CRLF that the last chunk cut belongs to the line end. *)
WithoutSplitLf(s, chunk) == IF s.after_cr /\ Head(chunk) = "LF" THEN Tail(chunk) ELSE chunk

(* The byte order mark may still be arriving. *)
BomPending(tail) == Len(tail) < Len(Bom) /\ IsPrefix(tail, Bom)

(* push_into of a chunk that is not empty. *)
Pushed(s, chunk) ==
    LET tail == s.tail \o WithoutSplitLf(s, chunk)
        held == [s EXCEPT !.tail = tail, !.after_cr = FALSE]
        text == IF ~s.bom_settled /\ IsPrefix(Bom, tail) THEN SubSeq(tail, 3, Len(tail)) ELSE tail
    IN  IF ~s.bom_settled /\ BomPending(tail) THEN Read(held, <<>>, "none")
        ELSE Lines([held EXCEPT !.bom_settled = TRUE, !.tail = text], <<>>)

(* finish: an unterminated last line, then the blank line. *)
Finished(s) ==
    LET settled == [s EXCEPT !.bom_settled = TRUE, !.after_cr = FALSE, !.tail = <<>>]
        last == IF s.tail = <<>> THEN Read(settled, <<>>, "none") ELSE Line(settled, <<>>, s.tail)
    IN  IF NotUtf8(s.tail) THEN Read(settled, <<>>, "NotUtf8")
        ELSE IF last.error # "none" THEN last
        ELSE Line(last.splitter, <<>>, <<>>)

SplitInit == splitter = NewSplitter /\ input = <<>> /\ frames = <<>> /\ result = "open"

SplitPush ==
    /\ result = "open"
    /\ \E n \in 1..Min({MaxChunk, MaxInput - Len(input)}) : \E chunk \in [1..n -> Symbols] :
          LET read == Pushed(splitter, chunk)
          IN  /\ splitter' = read.splitter
              /\ frames' = frames \o read.frames
              /\ result' = IF read.error = "none" THEN "open" ELSE read.error
              /\ input' = input \o chunk

SplitFinish ==
    /\ result = "open"
    /\ LET read == Finished(splitter)
       IN  /\ splitter' = read.splitter
           /\ frames' = frames \o read.frames
           /\ result' = IF read.error = "none" THEN "ended" ELSE read.error
    /\ UNCHANGED input

SplitNext == SplitPush \/ SplitFinish
-----------------------------------------------------------------------------
(* No line and no event's data is longer than the bound. *)
FitsWhole ==
    /\ \A i, j \in 1..Len(input) :
          j - i >= MaxSplit /\ i <= j => \E k \in i..j : input[k] \in {"CR", "LF"}
    /\ \A event \in Range(Whole!Decode(Text(input)).events) : Len(event.of.data) <= MaxSplit

(* However the stream is cut, the component's splitter returns the frames  *)
(* the host's decoder reads from the whole input, in order; frames         *)
(* completed before a refusal are not lost with it, whatever chunk they    *)
(* came in; a refusal is the first one of the whole input, or a line or    *)
(* data over the bound (sse_split.rs:5-14, 20-23).                         *)
SplitAsWhole ==
    LET whole == Whole!Decode(Text(input))
        events == [k \in DOMAIN whole.events |-> whole.events[k].of]
        read == [k \in DOMAIN frames |-> Whole!Event(Text(frames[k].event), Text(frames[k].data))]
    IN  /\ IsPrefix(read, events)
        /\ result \in {"ended", "NotUtf8"} =>
              read = events /\ whole.error = (IF result = "ended" THEN "none" ELSE result)
        /\ result = "TooLarge" => ~FitsWhole
        /\ result = "open" => Len(splitter.tail) <= MaxSplit /\ Len(splitter.data) <= MaxSplit
=============================================================================
