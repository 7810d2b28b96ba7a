---------------------------- MODULE HttpExchange ----------------------------
(***************************************************************************)
(* One exchange of the reqwest transports                                  *)
(* (crates/south-transport-reqwest/src/lib.rs): fetch_buffered for both    *)
(* buffered arms, open_one for the streaming one, with the observer's      *)
(* events.  Bytes are counted, not carried; the client's timers and the    *)
(* network may fail a send or a read at any moment.                        *)
(***************************************************************************)
EXTENDS Naturals, Sequences, SequencesExt

CONSTANTS TextCap,     \* MAX_RESPONSE_BODY_BYTES
          BinaryCap,   \* MAX_BINARY_RESPONSE_BODY_BYTES
          ErrorCap,    \* MAX_STREAM_ERROR_BODY_BYTES
          MaxBody,     \* the longest body an upstream sends
          MaxRead      \* the longest network read

ASSUME ExchangeAssumption ==
    /\ {TextCap, BinaryCap, ErrorCap, MaxBody} \subseteq Nat
    /\ MaxRead \in Nat \ {0}

(* What the upstream will answer.  A declared length is the body's own:    *)
(* the client fails a body that ends early or late.                        *)
Answers == {a \in [status : {"success", "redirect", "other"},
                   length : 0..MaxBody,
                   declared : BOOLEAN,
                   utf8 : BOOLEAN,
                   valid : BOOLEAN] :   \* content-type, retry-after, quota metadata
               a.length = 0 => a.utf8}

Modes == {"text", "binary", "streaming"}

(* body_cap of a buffered arm, and the cap on an error body. *)
Cap == [text |-> TextCap, binary |-> BinaryCap, streaming |-> ErrorCap]

SendErrors == {"ConnectFailed", "TransportTimeout", "RequestFailed"}
ReadErrors == {"TransportTimeout", "ResponseReadFailed"}
Results == SendErrors \union ReadErrors \union
           {"None", "RedirectDenied", "ResponseBodyTooLarge", "ResponseMetadataInvalid",
            "ResponseBodyNotUtf8", "Ok", "Opened", "Rejected"}

EventNames == {"send_start", "send_error", "headers_ready", "connection",
               "first_chunk", "body_error", "body_rejected", "body_complete"}

VARIABLES mode,      \* the arm: two buffered ones and the streaming open
          encodable, \* assemble_headers can encode every header
          answer,    \* the upstream's answer
          pc,
          read,      \* bytes of the body the network has delivered
          body,      \* bytes buffered
          result,    \* what the exchange returns
          events     \* the observer's events, oldest first

exchange == <<mode, encodable, answer>>
buffered == mode # "streaming"
cap == Cap[mode]
vars == <<exchange, pc, read, body, result, events>>

TypeOK ==
    /\ mode \in Modes
    /\ encodable \in BOOLEAN
    /\ answer \in Answers
    /\ pc \in {"assemble", "send", "head", "metadata", "body", "errorBody", "done"}
    /\ read \in 0..MaxBody /\ body \in 0..read
    /\ result \in Results
    /\ events \in Seq(EventNames)

Init ==
    /\ mode \in Modes
    /\ encodable \in BOOLEAN
    /\ answer \in Answers
    /\ pc = "assemble"
    /\ read = 0
    /\ body = 0
    /\ result = "None"
    /\ events = <<>>
-----------------------------------------------------------------------------
(* Only buffered exchanges are observed; without an observer the same      *)
(* steps report nothing.                                                   *)
Event(e) == events' = IF buffered THEN events \o e ELSE events

End(outcome) == pc' = "done" /\ result' = outcome
Goto(label) == pc' = label /\ UNCHANGED result

(* assemble_headers, then the send begins. *)
Assemble ==
    /\ pc = "assemble"
    /\ \/ ~encodable /\ End("RequestFailed") /\ UNCHANGED events
       \/ encodable /\ Goto("send") /\ Event(<<"send_start">>)
    /\ UNCHANGED <<exchange, read, body>>

SendFails ==
    /\ pc = "send"
    /\ \E error \in SendErrors : End(error)
    /\ Event(<<"send_error">>)
    /\ UNCHANGED <<exchange, read, body>>

HeadersReady ==
    /\ pc = "send"
    /\ Goto("head")
    /\ Event(<<"headers_ready", "connection">>)
    /\ UNCHANGED <<exchange, read, body>>

DeclaredTooLarge == buffered /\ answer.declared /\ answer.length > cap

(* Redirects are refused, and a declared length beyond a buffered cap. *)
CheckHead ==
    /\ pc = "head"
    /\ \/ answer.status = "redirect" /\ End("RedirectDenied")
       \/ answer.status # "redirect" /\ DeclaredTooLarge /\ End("ResponseBodyTooLarge")
       \/ answer.status # "redirect" /\ ~DeclaredTooLarge /\ Goto("metadata")
    /\ UNCHANGED <<exchange, read, body, events>>

(* Every header is read before the body is: a 2xx stream is opened, any    *)
(* other streaming answer is drained as an error body.                     *)
Metadata ==
    /\ pc = "metadata"
    /\ \/ ~answer.valid /\ End("ResponseMetadataInvalid")
       \/ answer.valid /\ buffered /\ Goto("body")
       \/ answer.valid /\ ~buffered /\ answer.status = "success" /\ End("Opened")
       \/ answer.valid /\ ~buffered /\ answer.status # "success" /\ Goto("errorBody")
    /\ UNCHANGED <<exchange, read, body, events>>

FirstChunk == IF Contains(events, "first_chunk") THEN <<>> ELSE <<"first_chunk">>

\* Mutant: the cap is tested on what was buffered before the read.
ReadBodyStaleLength(n) ==
    /\ pc = "body"
    /\ read' = read + n
    /\ \/ body > cap /\ End("ResponseBodyTooLarge") /\ UNCHANGED body
          /\ Event(FirstChunk \o <<"body_rejected">>)
       \/ body <= cap /\ Goto("body") /\ body' = body + n /\ Event(FirstChunk)
    /\ UNCHANGED exchange

\* Mutant: the observer hears of the rejection only when nothing is buffered.
ReadBodySilentReject(n) ==
    /\ pc = "body"
    /\ read' = read + n
    /\ \/ body + n > cap /\ End("ResponseBodyTooLarge") /\ UNCHANGED body /\ Event(FirstChunk)
       \/ body + n <= cap /\ Goto("body") /\ body' = body + n /\ Event(FirstChunk)
    /\ UNCHANGED exchange

(* read_bounded_body_observed takes a read of n bytes: the sum is checked  *)
(* before the bytes are buffered.                                          *)
ReadBody(n) ==
    /\ pc = "body"
    /\ read' = read + n
    /\ \/ /\ body + n > cap
          /\ End("ResponseBodyTooLarge")
          /\ Event(FirstChunk \o <<"body_rejected">>)
          /\ UNCHANGED body
       \/ /\ body + n <= cap
          /\ body' = body + n
          /\ Goto("body")
          /\ Event(FirstChunk)
    /\ UNCHANGED exchange

(* The body is complete; only the text arm then asks whether it is UTF-8. *)
BodyEnds ==
    /\ pc = "body" /\ read = answer.length
    /\ End(IF mode = "text" /\ ~answer.utf8 THEN "ResponseBodyNotUtf8" ELSE "Ok")
    /\ Event(<<"body_complete">>)
    /\ UNCHANGED <<exchange, read, body>>

BodyFails ==
    /\ pc = "body"
    /\ \E error \in ReadErrors : End(error)
    /\ Event(<<"body_error">>)
    /\ UNCHANGED <<exchange, read, body>>

(* read_bounded_error_body buffers reads until the cap is passed ...       *)
ReadErrorBody(n) ==
    /\ pc = "errorBody" /\ body <= cap
    /\ read' = read + n
    /\ body' = body + n
    /\ UNCHANGED <<exchange, pc, result, events>>

\* Mutant: a failed read of the error body is the exchange's outcome.
ErrorBodyFailureWins ==
    /\ pc = "errorBody"
    /\ \/ (body > cap \/ read = answer.length) /\ End("Rejected")
       \/ End("ResponseReadFailed")
    /\ body' = IF body > cap THEN cap ELSE body
    /\ UNCHANGED <<exchange, read, events>>

(* ... or until the body ends or a read fails, and cuts what it has: the   *)
(* rejection stands in every case.                                         *)
ErrorBodyDone ==
    /\ pc = "errorBody"
    /\ End("Rejected")
    /\ body' = IF body > cap THEN cap ELSE body
    /\ UNCHANGED <<exchange, read, events>>

(* A read may carry no byte. *)
Reads == {n \in 0..MaxRead : read + n <= answer.length}

Next ==
    \/ Assemble \/ SendFails \/ HeadersReady \/ CheckHead \/ Metadata
    \/ \E n \in Reads : ReadBody(n) \/ ReadErrorBody(n)
    \/ BodyEnds \/ BodyFails \/ ErrorBodyDone

Spec == Init /\ [][Next]_vars
-----------------------------------------------------------------------------
(* The body of an Ok response is the whole body the upstream sent, text    *)
(* where the arm promises text; an exchange is refused as too large only   *)
(* for a body that is; and no more is ever buffered than the cap, but for  *)
(* the last read of an error body, until it is cut (lib.rs:230-235, 527).  *)
WholeBody ==
    /\ body <= cap \/ (~buffered /\ pc # "done" /\ body <= cap + MaxRead)
    /\ result = "Ok" => body = answer.length /\ (mode = "text" => answer.utf8)
    /\ result = "ResponseBodyNotUtf8" => body = answer.length /\ mode = "text"
    /\ result = "ResponseBodyTooLarge" => answer.length > cap

(* Whatever happens while the error body of a refused stream is drained,   *)
(* the caller learns of the rejection; and only a 2xx answer becomes a     *)
(* stream (lib.rs:380-425, 522-527).                                       *)
RejectionStands ==
    /\ result = "Opened" => answer.status = "success"
    /\ pc = "done" /\ ~buffered /\ answer.status = "other" /\ answer.valid =>
          result \in SendErrors \union {"Rejected"}

(* A buffered answer is the whole body within its cap or an error, and a   *)
(* rejected stream stays rejected whatever its error body does             *)
(* (fetch_buffered, open_one).                                             *)
WholeBodyOrRefused == WholeBody /\ RejectionStands

(* The observer of an exchange that got as far as its body hears one first *)
(* chunk at most and the ending that the caller gets; a body that is not   *)
(* UTF-8 was still read to its end.                                        *)
ObserverAgrees ==
    LET ending == [Ok |-> "body_complete", ResponseBodyNotUtf8 |-> "body_complete",
                   TransportTimeout |-> "body_error", ResponseReadFailed |-> "body_error",
                   ResponseBodyTooLarge |-> "body_rejected"]
    IN  /\ \A j, k \in 1..Len(events) : events[j] = "first_chunk" /\ events[k] = "first_chunk" => j = k
        /\ buffered /\ read > 0 => Contains(events, "first_chunk")
        /\ buffered /\ result \in DOMAIN ending /\ Contains(events, "headers_ready")
              /\ ~(answer.declared /\ answer.length > cap)
              => Last(events) = ending[result]
=============================================================================
