------------------------------ MODULE ChatStream ------------------------------
(***************************************************************************)
(* The two OpenAI Chat stream renderers of crates/south-north-codec/src:   *)
(* openai_chat_frames (sse.rs) and OpenAiChatStream::frames                *)
(* (chat_stream.rs), which renders its deltas through the former. Both are *)
(* given the same events; the second one in calls of any size.             *)
(***************************************************************************)
EXTENDS Integers, Sequences, FiniteSets, SequencesExt

CONSTANTS ChoiceIds,   \* choice indexes, 0 among them
          Reasons,     \* finish reasons, "null" among them
          U64Max,      \* the largest token count
          Reports,     \* usage reports: [input, output]
          MaxEvents,   \* bound: events of a stream
          MaxBatch     \* bound: events of a call

CountAssumption ==
    /\ 0 \in ChoiceIds /\ U64Max \in Nat
    /\ Reports \subseteq [input : 0..U64Max, output : 0..U64Max]

Events ==
    [kind : {"delta"}, index : ChoiceIds] \union [kind : {"finish"}, reason : Reasons]
    \union [kind : {"usage"}, usage : Reports] \union [kind : {"tool", "signature", "done", "error"}]

VARIABLES chat,     \* OpenAiChatStream
          sent,     \* history: the frames of its calls that succeeded
          older,    \* OpenAiChatSseState of a stream rendered by openai_chat_frames
          chunks,   \* history: the chunks of that stream
          events    \* history: the events given so far

vars == <<chat, sent, older, chunks, events>>

None == "none"
NoUsage == [input |-> 0, output |-> 0]
NoReport == [input |-> -1, output |-> -1, total |-> -1]
NewInner == [terminated |-> FALSE, panicked |-> FALSE, pending |-> None, usage |-> NoUsage]
NewChat == [inner |-> NewInner, roles |-> {}, folded |-> FALSE, finishSeen |-> FALSE, usageSent |-> FALSE]

(* Usage::absorb: in every field the last count that is not zero stays. *)
Absorb(usage, later) == [field \in DOMAIN usage |-> IF later[field] > 0 THEN later[field] ELSE usage[field]]

Delta(index, role) == [kind |-> "delta", index |-> index, role |-> role]
Terminal(reason, report) == [kind |-> "terminal", reason |-> reason, report |-> report]
UsageFrame(report) == [kind |-> "usage", report |-> report]

(* A usage object, its sum a u64 *)
Report(usage) ==
    [input |-> usage.input, output |-> usage.output, total |-> (usage.input + usage.output) % (U64Max + 1)]

(* The choice a content event goes to: tool fragments are on choice 0. *)
ChoiceOf(e) == IF e.kind = "tool" THEN 0 ELSE e.index
-----------------------------------------------------------------------------
(* flush_pending *)
Flushed(inner) == IF inner.pending = None THEN <<>> ELSE <<Terminal(inner.pending, NoReport)>>

\* Mutant: the total of a frame wraps.
OverflowsNever(usage) == FALSE

(* The sum does not fit: openai_chat_usage refuses it. *)
Overflows(usage) == usage.input + usage.output > U64Max

UsageChunk(inner, usage) ==
    IF inner.pending = None THEN UsageFrame(Report(usage)) ELSE Terminal(inner.pending, Report(usage))

(* One event of openai_chat_frames. r has the state and the chunks so far. *)
(* usage_chunk does not check its sum: every build has overflow checks, so *)
(* one that does not fit panics, and the stream is over.                   *)
Older(r, e) ==
    LET inner == r.inner
        unpended == [inner EXCEPT !.pending = None]
        usage == Absorb(inner.usage, e.usage)
        over == inner.terminated \/ inner.panicked
    IN  CASE over \/ e.kind = "signature" -> r
          [] e.kind \in {"delta", "tool"} /\ ~over ->
                [inner |-> unpended, out |-> r.out \o Flushed(inner) \o <<Delta(ChoiceOf(e), FALSE)>>]
          [] e.kind = "finish" /\ ~over ->
                [inner |-> [inner EXCEPT !.pending = e.reason], out |-> r.out \o Flushed(inner)]
          [] e.kind = "usage" /\ ~over /\ Overflows(usage) ->
                [inner |-> [unpended EXCEPT !.usage = usage, !.panicked = TRUE], out |-> r.out]
          [] e.kind = "usage" /\ ~over /\ ~Overflows(usage) ->
                [inner |-> [unpended EXCEPT !.usage = usage], out |-> Append(r.out, UsageChunk(inner, usage))]
          [] e.kind = "done" /\ ~over -> [inner |-> unpended, out |-> r.out \o Flushed(inner)]
          [] e.kind = "error" /\ ~over -> [inner |-> [inner EXCEPT !.terminated = TRUE], out |-> r.out]
-----------------------------------------------------------------------------
(* flush_terminal: the pending finish is taken, also when its usage cannot *)
(* be rendered.                                                            *)
FlushTerminal(r) ==
    IF r.chat.inner.pending = None THEN r
    ELSE LET taken == [r EXCEPT !.chat.inner.pending = None]
         IN  IF r.chat.folded /\ Overflows(r.chat.inner.usage) THEN [taken EXCEPT !.failed = TRUE]
             ELSE [taken EXCEPT !.out = Append(@, Terminal(r.chat.inner.pending,
                                                        IF r.chat.folded THEN Report(r.chat.inner.usage) ELSE NoReport))]

(* push_deltas: through the older renderer, and the role for a new choice *)
PushDeltas(r, e) ==
    LET choice == ChoiceOf(e)
        rendered == Older([inner |-> r.chat.inner, out |-> <<>>], e)
        framed == [i \in DOMAIN rendered.out |-> Delta(rendered.out[i].index, choice \notin r.chat.roles)]
    IN  [r EXCEPT !.chat.inner = rendered.inner, !.chat.roles = @ \union {choice}, !.out = @ \o framed]

UsageDue(s) == ~s.finishSeen /\ s.folded /\ ~s.usageSent

DoneUsage(r) ==
    IF ~UsageDue(r.chat) THEN r
    ELSE IF Overflows(r.chat.inner.usage) THEN [r EXCEPT !.failed = TRUE]
    ELSE [r EXCEPT !.chat.usageSent = TRUE, !.out = Append(@, UsageFrame(Report(r.chat.inner.usage)))]

\* Mutant: a second finish takes the place of the pending one.
RenderFinishDrops(r, e) == [r EXCEPT !.chat.finishSeen = TRUE, !.chat.inner.pending = e.reason]

RenderFinish(r, e) ==
    LET flushed == FlushTerminal(r)
    IN  IF flushed.failed THEN flushed
        ELSE [flushed EXCEPT !.chat.finishSeen = TRUE,
                             !.chat.inner = Older([inner |-> flushed.chat.inner, out |-> <<>>], e).inner]

(* render *)
RenderEvent(r, e) ==
    LET flushed == FlushTerminal(r)
    IN  CASE e.kind \in {"delta", "tool"} -> IF flushed.failed THEN flushed ELSE PushDeltas(flushed, e)
          [] e.kind = "signature" -> r
          [] e.kind = "finish" -> RenderFinish(r, e)
          [] e.kind = "usage" -> [r EXCEPT !.chat.inner.usage = Absorb(@, e.usage), !.chat.folded = TRUE]
          [] e.kind = "done" -> IF flushed.failed THEN flushed ELSE DoneUsage(flushed)
          [] e.kind = "error" -> [r EXCEPT !.chat.inner.terminated = TRUE]

(* One turn of the loop of frames: nothing after an error, and a refused   *)
(* total ends the stream.                                                  *)
Step(r, e) ==
    IF r.chat.inner.terminated THEN r
    ELSE LET s == RenderEvent(r, e) IN IF s.failed THEN [s EXCEPT !.chat.inner.terminated = TRUE] ELSE s

RenderAll(s, batch) == FoldLeft(Step, [chat |-> s, out |-> <<>>, failed |-> FALSE], batch)

Init == chat = NewChat /\ sent = <<>> /\ older = NewInner /\ chunks = <<>> /\ events = <<>>

(* frames: a call that fails, or panics, returns none of its frames. *)
Frames(batch) ==
    /\ Len(events) + Len(batch) <= MaxEvents
    /\ LET r == RenderAll(chat, batch)
           o == FoldLeft(Older, [inner |-> older, out |-> <<>>], batch)
       IN  /\ chat' = r.chat
           /\ sent' = IF r.failed THEN sent ELSE sent \o r.out
           /\ older' = o.inner
           /\ chunks' = IF o.inner.panicked THEN chunks ELSE chunks \o o.out
    /\ events' = events \o batch

Next == \E batch \in UNION {[1..n -> Events] : n \in 1..MaxBatch} : Frames(batch)

Spec == Init /\ [][Next]_vars
-----------------------------------------------------------------------------
TypeOK ==
    /\ chat.inner.pending \in Reasons \union {None} /\ older.pending \in Reasons \union {None}
    /\ chat.inner.usage \in [input : 0..U64Max, output : 0..U64Max]
    /\ chat.roles \subseteq ChoiceIds
    /\ chat.inner.pending # None => chat.finishSeen
    /\ chat.usageSent => chat.folded

(* Every total sent is the sum of its counts: a sum that does not fit is   *)
(* refused, "reported rather than wrapped" (chat_stream.rs:236-245).       *)
TotalsAddUp ==
    \A i \in DOMAIN sent :
        sent[i].kind # "delta" /\ sent[i].report # NoReport =>
            sent[i].report.total = sent[i].report.input + sent[i].report.output

(* Frames do not depend on the calls: they are those of the events one by  *)
(* one, up to the call that failed, and a failed stream stays silent       *)
(* (chat_stream.rs:74-75, 113-125).                                        *)
BatchesDoNotShow ==
    LET whole == RenderAll(NewChat, events)
    IN  IsPrefix(sent, whole.out) /\ (~chat.inner.terminated => sent = whole.out)

(* What a stream says, without roles and counts *)
Content(frames) ==
    LET said == SelectSeq(frames, LAMBDA f : f.kind # "usage")
    IN  [i \in DOMAIN said |-> IF said[i].kind = "delta" THEN Delta(said[i].index, FALSE)
                               ELSE Terminal(said[i].reason, NoReport)]

(* Both renderers say the same deltas and finishes in the same order. The  *)
(* newer one is behind by no more than the finish it holds, until one of   *)
(* them ends, with an error or a panic (sse.rs:61-114,                     *)
(* chat_stream.rs:127-197).                                                *)
SameContent ==
    LET held(inner) == IF inner.pending = None THEN <<>> ELSE <<Terminal(inner.pending, NoReport)>>
        new == Content(sent) \o held(chat.inner)
        old == Content(chunks) \o held(older)
    IN  CASE ~chat.inner.terminated /\ ~older.panicked -> new = old
          [] chat.inner.terminated /\ ~older.panicked -> IsPrefix(Content(sent), old)
          [] ~chat.inner.terminated /\ older.panicked -> IsPrefix(old, new)
          [] OTHER -> IsPrefix(Content(sent), old) \/ IsPrefix(old, new)
=============================================================================
