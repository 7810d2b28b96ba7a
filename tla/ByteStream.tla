----------------------------- MODULE ByteStream -----------------------------
(***************************************************************************)
(* What an opened stream promises its reader: the bytes 1, 2, 3 ... that   *)
(* the upstream sent, in order, none twice and none left out, in pieces of *)
(* at most MaxChunk; then one terminal outcome, which is a clean end only  *)
(* after the whole body; and nothing but "End" after that.                 *)
(***************************************************************************)
EXTENDS Naturals, Sequences

CONSTANTS MaxBytes,   \* bound on the length of the body
          MaxChunk,   \* MAX_STREAM_CHUNK_BYTES
          Failures    \* the terminal outcomes other than a clean end

VARIABLES sent,       \* bytes the upstream has sent
          delivered,  \* the bytes the reader has been given
          outcomes,   \* what its pulls returned
          closed

vars == <<sent, delivered, outcomes, closed>>

Init == sent = 0 /\ delivered = <<>> /\ outcomes = <<>> /\ closed = FALSE

Send ==
    /\ sent' \in sent..MaxBytes
    /\ UNCHANGED <<delivered, outcomes, closed>>

Deliver ==
    /\ ~closed
    /\ \E n \in 1..MaxChunk :
          /\ Len(delivered) + n <= sent
          /\ delivered' = [k \in 1..(Len(delivered) + n) |-> k]
    /\ outcomes' = Append(outcomes, "Chunk")
    /\ UNCHANGED <<sent, closed>>

Close ==
    /\ ~closed /\ closed' = TRUE
    /\ \/ Len(delivered) = sent /\ outcomes' = Append(outcomes, "End")
       \/ \E failure \in Failures : outcomes' = Append(outcomes, failure)
    /\ UNCHANGED <<sent, delivered>>

AfterClose ==
    /\ closed
    /\ outcomes' = Append(outcomes, "End")
    /\ UNCHANGED <<sent, delivered, closed>>

Spec == Init /\ [][Send \/ Deliver \/ Close \/ AfterClose]_vars
=============================================================================
