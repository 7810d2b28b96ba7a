--------------------------- MODULE StreamingCall ---------------------------
(***************************************************************************)
(* The pulls of one opened stream: StreamingCallV1::next_chunk             *)
(* (crates/south-core/src/lib.rs) over ReqwestStreamSource::next_chunk     *)
(* (crates/south-transport-reqwest/src/lib.rs).                            *)
(*                                                                         *)
(* The body is the bytes 1, 2, 3 ...; the network hands them over in reads *)
(* of any size.  Time is kept as what is left of the deadline and how long *)
(* the current read has waited, so that it can pass forever.               *)
(***************************************************************************)
EXTENDS Naturals, Sequences

CONSTANTS MaxBytes,     \* bound on the length of the body
          MaxRead,      \* the longest network read
          MaxChunk,     \* MAX_STREAM_CHUNK_BYTES
          IdleTimeout,  \* the client's read_timeout, in ticks
          StreamDeadlines,  \* deadlines a stream may be opened with, in ticks
          Unlimited,    \* the None deadline
          MaxEmpty,     \* bound on the network reads that carry no byte
          MaxPulls      \* bound on the pulls of the reader

ASSUME StreamAssumption ==
    /\ {MaxBytes, MaxRead, MaxEmpty, MaxPulls} \subseteq Nat
    /\ {MaxChunk, IdleTimeout} \subseteq Nat \ {0}
    /\ StreamDeadlines \subseteq Nat /\ Unlimited \notin Nat

Bytes == 1..MaxBytes
Unarmed == IdleTimeout + 1
Outcomes == {"Chunk", "End", "StreamCancelled", "StreamDeadlineExceeded",
             "StreamIdleTimeout", "StreamReadFailed"}

VARIABLES left,       \* ticks left until the deadline
          aborted,    \* the cancellation token
          finished,   \* StreamingCallV1::finished
          pull,       \* where next_chunk is
          pending,    \* ReqwestStreamSource::pending
          wire,       \* network reads not yet taken: byte sequences, then an end
          sent,       \* bytes the upstream has sent
          empty,      \* reads without a byte it has sent
          waited,     \* ticks since the unanswered read was first polled
          delivered,  \* the bytes the reader has been given
          outcomes,   \* what the pulls returned, oldest first
          late        \* chunks returned after a signal

streamVars == <<left, aborted, finished, pull, pending, wire, sent, empty, waited, delivered,
                outcomes, late>>

StreamTypeOK ==
    /\ left \in Nat \union {Unlimited}
    /\ aborted \in BOOLEAN /\ finished \in BOOLEAN
    /\ pull \in {"idle", "cancelCheck", "deadlineCheck", "select", "read", "timer"}
    /\ pending \in Seq(Bytes)
    /\ wire \in Seq([bytes : Seq(Bytes), last : {"no", "End", "StreamReadFailed"}])
    /\ sent \in 0..MaxBytes /\ empty \in 0..MaxEmpty
    /\ waited \in 0..Unarmed
    /\ delivered \in Seq(Bytes)
    /\ outcomes \in Seq(Outcomes)
    /\ late \in Nat

StreamInit ==
    /\ left \in StreamDeadlines \union {Unlimited}
    /\ aborted = FALSE
    /\ finished = FALSE
    /\ pull = "idle"
    /\ pending = <<>>
    /\ wire = <<>>
    /\ sent = 0
    /\ empty = 0
    /\ waited = Unarmed
    /\ delivered = <<>>
    /\ outcomes = <<>>
    /\ late = 0
-----------------------------------------------------------------------------
(* StreamingCallV1::next_chunk                                             *)

DeadlinePassed == left = 0

source == <<pending, wire, sent, empty, waited>>

(* The pull ends the stream: every outcome other than a chunk does. *)
Terminate(outcome) ==
    /\ finished' = TRUE
    /\ pull' = "idle"
    /\ outcomes' = Append(outcomes, outcome)
    /\ UNCHANGED <<left, aborted, delivered, late>>

Proceed(label) ==
    /\ pull' = label
    /\ UNCHANGED <<left, aborted, finished, delivered, outcomes, late>>

(* A pull of a finished stream answers None and touches nothing. *)
Pull ==
    /\ pull = "idle" /\ Len(outcomes) < MaxPulls
    /\ \/ finished /\ Terminate("End")
       \/ ~finished /\ Proceed("cancelCheck")
    /\ UNCHANGED source

PullCancelCheck ==
    /\ pull = "cancelCheck"
    /\ \/ aborted /\ Terminate("StreamCancelled")
       \/ ~aborted /\ Proceed("deadlineCheck")
    /\ UNCHANGED source

\* Mutant: the deadline is left to timeout_at.
DeadlineUnchecked ==
    /\ pull = "deadlineCheck"
    /\ Proceed("select")
    /\ UNCHANGED source

PullDeadlineCheck ==
    /\ pull = "deadlineCheck"
    /\ \/ DeadlinePassed /\ Terminate("StreamDeadlineExceeded")
       \/ ~DeadlinePassed /\ Proceed("select")
    /\ UNCHANGED source

(* One poll: the token, then the source, then the deadline's delay. *)
PullSelect ==
    /\ pull = "select"
    /\ \/ aborted /\ Terminate("StreamCancelled")
       \/ ~aborted /\ Proceed("read")
    /\ UNCHANGED source

PullTimer ==
    /\ pull = "timer"
    /\ \/ DeadlinePassed /\ Terminate("StreamDeadlineExceeded")
       \/ ~DeadlinePassed /\ Proceed("select")
    /\ UNCHANGED source

\* Mutant: the pull owns the split remainder, so dropping it loses bytes.
DropPullLosesBytes ==
    /\ pull = "select"
    /\ Proceed("idle")
    /\ wire' = IF wire = <<>> THEN wire ELSE Tail(wire)
    /\ UNCHANGED <<pending, sent, empty, waited>>

(* The reader drops the suspended pull: nothing of it stays behind. *)
DropPull ==
    /\ pull = "select"
    /\ Proceed("idle")
    /\ UNCHANGED source
-----------------------------------------------------------------------------
(* ReqwestStreamSource::next_chunk                                         *)

Split == IF Len(pending) < MaxChunk THEN Len(pending) ELSE MaxChunk

(* Buffered bytes are handed over without a read, MaxChunk at a time. *)
Deliver ==
    /\ pull = "read" /\ pending # <<>>
    /\ delivered' = delivered \o SubSeq(pending, 1, Split)
    /\ pending' = SubSeq(pending, Split + 1, Len(pending))
    /\ outcomes' = Append(outcomes, "Chunk")
    /\ late' = IF aborted \/ DeadlinePassed THEN late + 1 ELSE late
    /\ pull' = "idle"
    /\ UNCHANGED <<left, aborted, finished, wire, sent, empty, waited>>

Expired == waited = IdleTimeout

(* response.chunk() yields: bytes, which may be none, or the end. *)
Read ==
    /\ pull = "read" /\ pending = <<>> /\ wire # <<>>
    /\ \/ /\ Head(wire).last = "no"
          /\ pending' = Head(wire).bytes
          /\ wire' = Tail(wire)
          /\ waited' = Unarmed
          /\ UNCHANGED <<sent, empty, pull, left, aborted, finished, delivered, outcomes, late>>
       \/ /\ Head(wire).last # "no"
          /\ Terminate(Head(wire).last)
          /\ UNCHANGED source

(* response.chunk() has nothing yet: the idle guard starts with the first  *)
(* poll that finds nothing.                                                *)
Wait ==
    /\ pull = "read" /\ pending = <<>> /\ wire = <<>> /\ ~Expired
    /\ waited' = IF waited = Unarmed THEN 0 ELSE waited
    /\ Proceed("timer")
    /\ UNCHANGED <<pending, wire, sent, empty>>

(* The idle guard fires, also when bytes arrived after it expired. *)
IdleGuard ==
    /\ pull = "read" /\ pending = <<>> /\ Expired
    /\ Terminate("StreamIdleTimeout")
    /\ UNCHANGED source

PullStep == PullCancelCheck \/ PullDeadlineCheck \/ PullSelect \/ PullTimer \/ Deliver \/ Read \/ Wait \/ IdleGuard
-----------------------------------------------------------------------------
(* The upstream, the clock and the token.                                  *)

Open == \A k \in DOMAIN wire : wire[k].last = "no"

UpstreamSends ==
    /\ Open /\ Len(wire) < 2
    /\ \E n \in 0..MaxRead :
          /\ sent + n <= MaxBytes /\ (n = 0 => empty < MaxEmpty)
          /\ sent' = sent + n
          /\ empty' = IF n = 0 THEN empty + 1 ELSE empty
          /\ wire' = Append(wire, [bytes |-> [k \in 1..n |-> sent + k], last |-> "no"])
    /\ UNCHANGED <<left, aborted, finished, pull, pending, waited, delivered, outcomes, late>>

UpstreamCloses ==
    /\ Open
    /\ \E last \in {"End", "StreamReadFailed"} :
          wire' = Append(wire, [bytes |-> <<>>, last |-> last])
    /\ UNCHANGED <<left, aborted, finished, pull, pending, sent, empty, waited, delivered, outcomes, late>>

StreamTick ==
    /\ left' = IF left \in {0, Unlimited} THEN left ELSE left - 1
    /\ waited' = IF waited < IdleTimeout THEN waited + 1 ELSE waited
    /\ UNCHANGED <<aborted, finished, pull, pending, wire, sent, empty, delivered, outcomes, late>>

StreamCancel ==
    /\ ~aborted
    /\ aborted' = TRUE
    /\ UNCHANGED <<left, finished, pull, pending, wire, sent, empty, waited, delivered, outcomes, late>>

StreamNext ==
    \/ Pull \/ PullStep \/ DropPull
    \/ UpstreamSends \/ UpstreamCloses \/ StreamTick \/ StreamCancel

(* The executor keeps polling a pull, and time passes. *)
StreamSpec == StreamInit /\ [][StreamNext]_streamVars /\ WF_streamVars(PullStep) /\ WF_streamVars(StreamTick)
-----------------------------------------------------------------------------
(* A ready source cannot keep delivering past cancellation or the          *)
(* deadline: only the pull already in flight may still return a chunk      *)
(* (lib.rs:1312-1313).                                                     *)
AtMostOneLateChunk == late <= 1

(* Every pull returns, also without a deadline and from a silent upstream: *)
(* the idle guard is not optional (lib.rs:1366-1367).                      *)
PullReturns == pull # "idle" ~> pull = "idle"

(* The stream is the abstract byte stream: splitting a read, and dropping  *)
(* a pull half-way, lose and repeat nothing (lib.rs:1211-1213); a clean    *)
(* end is the end of the body; after the terminal outcome pulls touch      *)
(* nothing and answer None (lib.rs:1286-1287).                             *)
Promise == INSTANCE ByteStream WITH closed <- finished, Failures <- Outcomes \ {"Chunk", "End"}

RefinesByteStream == Promise!Spec

(* What the reader of a stream may rely on, its signals included. *)
StreamKept == RefinesByteStream /\ []AtMostOneLateChunk
=============================================================================
