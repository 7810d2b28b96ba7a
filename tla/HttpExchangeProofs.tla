------------------------- MODULE HttpExchangeProofs -------------------------
(***************************************************************************)
(* What an exchange guarantees for every cap, body and read length.  The   *)
(* inductive invariant: where the exchange is says what has been read,     *)
(* buffered, returned and reported.                                        *)
(***************************************************************************)
EXTENDS HttpExchange, SequenceTheorems, TLAPS

(* What has been read and buffered at each step. *)
Counted ==
    /\ read <= answer.length
    /\ pc \in {"assemble", "send", "head", "metadata"} => read = 0 /\ body = 0
    /\ pc = "body" => buffered /\ body = read /\ body <= cap
    /\ pc = "errorBody" => ~buffered /\ body = read /\ body <= cap + MaxRead
    /\ pc = "done" => body <= cap

(* What the head was found to be at each step. *)
HeadRead ==
    /\ pc \in {"metadata", "body", "errorBody"} => answer.status # "redirect" /\ ~DeclaredTooLarge
    /\ pc \in {"body", "errorBody"} => answer.valid
    /\ pc = "errorBody" => answer.status = "other"

(* What the exchange returns, and when. *)
Returned ==
    /\ pc # "done" <=> result = "None"
    /\ result = "Ok" => body = answer.length /\ (mode = "text" => answer.utf8)
    /\ result = "ResponseBodyNotUtf8" => body = answer.length /\ mode = "text"
    /\ result = "ResponseBodyTooLarge" => answer.length > cap
    /\ result = "Opened" => answer.status = "success"
    /\ pc = "done" /\ ~buffered /\ answer.status = "other" /\ answer.valid =>
          result \in SendErrors \union {"Rejected"}

Heard(e) == Contains(events, e)

FirstIn(es) == \A j, k \in 1..Len(es) : es[j] = "first_chunk" /\ es[k] = "first_chunk" => j = k

(* What the observer has heard at each step. *)
Reported ==
    /\ FirstIn(events)
    /\ pc \in {"assemble", "send"} => ~Heard("headers_ready")
    /\ pc \in {"assemble", "send", "head", "metadata"} => ~Heard("first_chunk")
    /\ buffered /\ read > 0 => Heard("first_chunk")
    /\ buffered /\ result \in {"Ok", "ResponseBodyNotUtf8"} => Last(events) = "body_complete"
    /\ buffered /\ result \in ReadErrors /\ Heard("headers_ready") => Last(events) = "body_error"
    /\ buffered /\ result = "ResponseBodyTooLarge" =>
          (answer.declared /\ answer.length > cap) \/ Last(events) = "body_rejected"

ExchangeInv == TypeOK /\ Counted /\ HeadRead /\ Returned /\ Reported

(* The constants' and the state's numbers are numbers. *)
LEMMA ExchangeNumbers ==
    ASSUME TypeOK
    PROVE  /\ cap \in Nat /\ MaxBody \in Nat /\ MaxRead \in Nat /\ MaxRead > 0
           /\ read \in Nat /\ read <= MaxBody /\ body \in Nat /\ body <= read
           /\ answer.length \in Nat /\ answer.length <= MaxBody
<1>1. mode \in {"text", "binary", "streaming"}
  BY DEF TypeOK, Modes
<1>2. cap \in {TextCap, BinaryCap, ErrorCap}
  BY <1>1 DEF cap, Cap
<1> QED  BY <1>2, ExchangeAssumption DEF TypeOK, Answers

(* One more event. *)
LEMMA OneEvent ==
    ASSUME NEW es \in Seq(EventNames), NEW x \in EventNames
    PROVE  /\ es \o <<x>> \in Seq(EventNames)
           /\ Len(es) \in Nat /\ Len(es \o <<x>>) = Len(es) + 1
           /\ (es \o <<x>>)[Len(es) + 1] = x
           /\ \A i \in 1..Len(es) : (es \o <<x>>)[i] = es[i]
<1>1. <<x>> \in Seq(EventNames) /\ Len(<<x>>) = 1 /\ <<x>>[1] = x
  OBVIOUS
<1>2. Len(es) \in Nat
  BY LenProperties, Zenon
<1>3. /\ es \o <<x>> \in Seq(EventNames)
      /\ Len(es \o <<x>>) = Len(es) + Len(<<x>>)
      /\ \A i \in 1..Len(es) + Len(<<x>>) : (es \o <<x>>)[i] = IF i <= Len(es) THEN es[i] ELSE <<x>>[i - Len(es)]
  BY <1>1, ConcatProperties, Zenon
<1>4. Len(es) + 1 \in 1..Len(es) + Len(<<x>>) /\ (Len(es) + 1) - Len(es) = 1 /\ ~(Len(es) + 1 <= Len(es))
  BY <1>1, <1>2
<1>5. (es \o <<x>>)[Len(es) + 1] = x
  BY <1>1, <1>3, <1>4
<1>6. ASSUME NEW i \in 1..Len(es) PROVE (es \o <<x>>)[i] = es[i]
  <2>1. i \in 1..Len(es) + Len(<<x>>) /\ i <= Len(es)
    BY <1>1, <1>2
  <2> QED  BY <1>3, <2>1
<1> QED  BY <1>1, <1>2, <1>3, <1>5, <1>6

(* What the observer has heard after one more event. *)
LEMMA OneMoreHeard ==
    ASSUME NEW es \in Seq(EventNames), NEW x \in EventNames
    PROVE  /\ Last(es \o <<x>>) = x
           /\ \A e : Contains(es \o <<x>>, e) <=> Contains(es, e) \/ e = x
           /\ Contains(es \o <<x>>, x)
<1> DEFINE next == es \o <<x>>
<1>1. /\ Len(es) \in Nat /\ Len(next) = Len(es) + 1 /\ next[Len(es) + 1] = x
      /\ \A i \in 1..Len(es) : next[i] = es[i]
  BY OneEvent
<1> HIDE DEF next
<1>2. Last(next) = x
  BY <1>1 DEF Last
<1>3. Len(es) + 1 \in 1..Len(next)
  BY <1>1
<1>4. Contains(next, x)
  BY <1>1, <1>3 DEF Contains
<1>5. ASSUME NEW e PROVE Contains(next, e) <=> Contains(es, e) \/ e = x
  <2>1. ASSUME Contains(next, e) PROVE Contains(es, e) \/ e = x
    <3>1. PICK i \in 1..Len(next) : next[i] = e
      BY <2>1 DEF Contains
    <3>2. i \in 1..Len(es) \/ i = Len(es) + 1
      BY <1>1
    <3> QED  BY <1>1, <3>1, <3>2 DEF Contains
  <2>2. ASSUME Contains(es, e) PROVE Contains(next, e)
    <3>1. PICK i \in 1..Len(es) : es[i] = e
      BY <2>2 DEF Contains
    <3>2. i \in 1..Len(next)
      BY <1>1
    <3> QED  BY <1>1, <3>1, <3>2 DEF Contains
  <2> QED  BY <1>4, <2>1, <2>2
<1> QED  BY <1>2, <1>4, <1>5 DEF next

(* A first chunk is the only one if none was heard before. *)
LEMMA StillOneFirst ==
    ASSUME NEW es \in Seq(EventNames), NEW x \in EventNames, FirstIn(es),
           x = "first_chunk" => ~Contains(es, "first_chunk")
    PROVE  FirstIn(es \o <<x>>)
<1> DEFINE next == es \o <<x>>
<1>1. /\ Len(es) \in Nat /\ Len(next) = Len(es) + 1 /\ next[Len(es) + 1] = x
      /\ \A i \in 1..Len(es) : next[i] = es[i]
  BY OneEvent
<1> HIDE DEF next
<1>2. ASSUME NEW j \in 1..Len(next), NEW k \in 1..Len(next),
             next[j] = "first_chunk", next[k] = "first_chunk"
      PROVE  j = k
  <2>1. (j \in 1..Len(es) \/ j = Len(es) + 1) /\ (k \in 1..Len(es) \/ k = Len(es) + 1)
    BY <1>1
  <2>2. CASE j \in 1..Len(es) /\ k \in 1..Len(es)
    BY <1>1, <1>2, <2>2 DEF FirstIn
  <2>3. CASE j = Len(es) + 1 /\ k \in 1..Len(es)
    BY <1>1, <1>2, <2>3 DEF Contains
  <2>4. CASE k = Len(es) + 1 /\ j \in 1..Len(es)
    BY <1>1, <1>2, <2>4 DEF Contains
  <2> QED  BY <2>1, <2>2, <2>3, <2>4
<1> QED  BY <1>2 DEF FirstIn, next

(* An exchange begins with nothing read and nothing said. *)
LEMMA ExchangeInit ==
    ASSUME Init
    PROVE  ExchangeInv
<1> USE DEF Init
<1>1. TypeOK
  BY ExchangeAssumption DEF TypeOK, Results
<1>2. Counted
  BY <1>1, ExchangeNumbers DEF Counted
<1>3. HeadRead /\ Returned
  BY DEF HeadRead, Returned
<1>4. Len(events) = 0
  OBVIOUS
<1>5. Reported
  BY <1>4 DEF Reported, FirstIn, Heard, Contains, ReadErrors
<1> QED  BY <1>1, <1>2, <1>3, <1>5 DEF ExchangeInv

(* The parts of an exchange that no step changes. *)
LEMMA Constant ==
    ASSUME UNCHANGED exchange
    PROVE  /\ mode' = mode /\ encodable' = encodable /\ answer' = answer /\ cap' = cap
           /\ buffered' = buffered /\ DeclaredTooLarge' = DeclaredTooLarge
  BY DEF exchange, cap, buffered, DeclaredTooLarge

(* The steps before the body is read. *)
LEMMA HeadKeeps ==
    ASSUME ExchangeInv, Assemble \/ SendFails \/ HeadersReady \/ CheckHead \/ Metadata
    PROVE  ExchangeInv'
<1> USE DEF ExchangeInv
<1>0. /\ UNCHANGED exchange /\ UNCHANGED <<read, body>> /\ read = 0 /\ body = 0
      /\ pc \in {"assemble", "send", "head", "metadata"} /\ result = "None"
  BY DEF Assemble, SendFails, HeadersReady, CheckHead, Metadata, Counted, Returned
<1>1. /\ mode' = mode /\ encodable' = encodable /\ answer' = answer /\ cap' = cap
      /\ buffered' = buffered /\ DeclaredTooLarge' = DeclaredTooLarge
  BY <1>0, Constant
<1>2. /\ cap \in Nat /\ MaxRead \in Nat /\ answer.length \in Nat /\ events \in Seq(EventNames)
      /\ answer.status \in {"success", "redirect", "other"}
  BY ExchangeNumbers DEF TypeOK, Answers
<1>3. /\ ~Heard("first_chunk") /\ FirstIn(events) /\ (pc \in {"assemble", "send"} => ~Heard("headers_ready"))
  BY <1>0 DEF Reported
<1>4. ASSUME events' \in Seq(EventNames), pc' \in {"send", "head", "metadata", "body", "errorBody", "done"}, result' \in Results
      PROVE  TypeOK'
  BY <1>0, <1>1, <1>4 DEF TypeOK
<1>5. ASSUME pc' = "body" => buffered, pc' = "errorBody" => ~buffered
      PROVE  Counted'
  BY <1>0, <1>1, <1>2, <1>5 DEF Counted
<1>6. CASE Assemble
  <2>1. /\ pc = "assemble" /\ pc' \in {"done", "send"}
        /\ (pc' = "done" /\ result' = "RequestFailed" /\ events' = events)
           \/ (pc' = "send" /\ result' = "None" /\ events' = IF buffered THEN events \o <<"send_start">> ELSE events)
    BY <1>0, <1>6 DEF Assemble, End, Goto, Event
  <2>2. events' \in Seq(EventNames) /\ FirstIn(events') /\ ~Contains(events', "first_chunk") /\ ~Contains(events', "headers_ready")
    <3>1. "send_start" \in EventNames
      BY DEF EventNames
    <3>2. events \o <<"send_start">> \in Seq(EventNames)
      BY <1>2, <3>1, OneEvent
    <3>3. ~Contains(events \o <<"send_start">>, "first_chunk") /\ ~Contains(events \o <<"send_start">>, "headers_ready")
      BY <1>2, <1>3, <2>1, <3>1, OneMoreHeard DEF Heard
    <3>4. FirstIn(events \o <<"send_start">>)
      BY <1>2, <1>3, <3>1, StillOneFirst
    <3> QED  BY <1>2, <1>3, <2>1, <3>2, <3>3, <3>4, Zenon DEF Heard
  <2>3. TypeOK' /\ Counted'
    BY <1>4, <1>5, <2>1, <2>2 DEF Results, SendErrors
  <2>4. HeadRead' /\ Returned'
    BY <1>1, <2>1 DEF HeadRead, Returned, SendErrors
  <2>5. Reported'
    BY <1>0, <1>1, <2>1, <2>2 DEF Reported, Heard, ReadErrors
  <2> QED  BY <2>3, <2>4, <2>5
<1>7. CASE SendFails
  <2>1. /\ pc = "send" /\ pc' = "done" /\ result' \in SendErrors
        /\ events' = IF buffered THEN events \o <<"send_error">> ELSE events
    BY <1>7 DEF SendFails, End, Event
  <2>2. events' \in Seq(EventNames) /\ FirstIn(events') /\ ~Contains(events', "headers_ready")
    <3>1. "send_error" \in EventNames
      BY DEF EventNames
    <3>2. events \o <<"send_error">> \in Seq(EventNames)
      BY <1>2, <3>1, OneEvent
    <3>3. ~Contains(events \o <<"send_error">>, "headers_ready")
      BY <1>2, <1>3, <2>1, <3>1, OneMoreHeard DEF Heard
    <3>4. FirstIn(events \o <<"send_error">>)
      BY <1>2, <1>3, <3>1, StillOneFirst
    <3> QED  BY <1>2, <1>3, <2>1, <3>2, <3>3, <3>4 DEF Heard
  <2>3. TypeOK' /\ Counted'
    BY <1>4, <1>5, <2>1, <2>2 DEF Results
  <2>4. HeadRead' /\ Returned'
    BY <1>1, <2>1 DEF HeadRead, Returned, SendErrors
  <2>5. Reported'
    BY <1>0, <1>1, <2>1, <2>2 DEF Reported, Heard, ReadErrors, SendErrors
  <2> QED  BY <2>3, <2>4, <2>5
<1>8. CASE HeadersReady
  <2>1. /\ pc = "send" /\ pc' = "head" /\ result' = "None"
        /\ events' = IF buffered THEN events \o <<"headers_ready", "connection">> ELSE events
    BY <1>0, <1>8 DEF HeadersReady, Goto, Event
  <2>2. events' \in Seq(EventNames) /\ FirstIn(events') /\ ~Contains(events', "first_chunk")
    <3> DEFINE once == events \o <<"headers_ready">>
    <3>1. "headers_ready" \in EventNames /\ "connection" \in EventNames
      BY DEF EventNames
    <3>2. once \in Seq(EventNames) /\ FirstIn(once) /\ ~Contains(once, "first_chunk")
      BY <1>2, <1>3, <3>1, OneEvent, StillOneFirst, OneMoreHeard DEF Heard
    <3>3. events \o <<"headers_ready", "connection">> = once \o <<"connection">>
      <4>1. <<"headers_ready">> \in Seq(EventNames) /\ <<"connection">> \in Seq(EventNames)
        BY <3>1
      <4>2. <<"headers_ready", "connection">> = <<"headers_ready">> \o <<"connection">>
        OBVIOUS
      <4>3. events \in Seq(EventNames)
        BY <1>2
      <4> QED  BY <4>1, <4>2, <4>3, ConcatAssociative
    <3> HIDE DEF once
    <3>4. once \o <<"connection">> \in Seq(EventNames) /\ FirstIn(once \o <<"connection">>)
          /\ ~Contains(once \o <<"connection">>, "first_chunk")
      BY <3>1, <3>2, OneEvent, StillOneFirst, OneMoreHeard
    <3> QED  BY <1>2, <1>3, <2>1, <3>3, <3>4, Zenon DEF Heard
  <2>3. TypeOK' /\ Counted'
    BY <1>4, <1>5, <2>1, <2>2 DEF Results
  <2>4. HeadRead' /\ Returned'
    BY <1>1, <2>1 DEF HeadRead, Returned
  <2>5. Reported'
    BY <1>0, <1>1, <2>1, <2>2 DEF Reported, Heard, ReadErrors
  <2> QED  BY <2>3, <2>4, <2>5
<1>9. CASE CheckHead
  <2>1. /\ pc = "head" /\ events' = events
        /\ \/ pc' = "done" /\ result' = "RedirectDenied" /\ answer.status = "redirect"
           \/ pc' = "done" /\ result' = "ResponseBodyTooLarge" /\ DeclaredTooLarge
           \/ pc' = "metadata" /\ result' = "None" /\ answer.status # "redirect" /\ ~DeclaredTooLarge
    BY <1>0, <1>9 DEF CheckHead, End, Goto
  <2>2. TypeOK' /\ Counted'
    BY <1>2, <1>4, <1>5, <2>1 DEF Results
  <2>3. HeadRead' /\ Returned'
    BY <1>1, <2>1 DEF HeadRead, Returned, DeclaredTooLarge
  <2>4. Reported'
    BY <1>0, <1>1, <1>3, <2>1 DEF Reported, Heard, ReadErrors, DeclaredTooLarge
  <2> QED  BY <2>2, <2>3, <2>4
<1>10. CASE Metadata
  <2>0. pc = "metadata" /\ events' = events
    BY <1>10 DEF Metadata
  <2>1. \/ pc' = "done" /\ result' = "ResponseMetadataInvalid" /\ ~answer.valid
        \/ pc' = "done" /\ result' = "Opened" /\ answer.status = "success"
        \/ pc' = "body" /\ result' = "None" /\ buffered /\ answer.valid
        \/ pc' = "errorBody" /\ result' = "None" /\ ~buffered /\ answer.valid /\ answer.status # "success"
    BY <1>0, <1>10 DEF Metadata, End, Goto
  <2>2. answer.status # "redirect" /\ ~DeclaredTooLarge
    BY <2>0 DEF HeadRead
  <2>3. TypeOK' /\ Counted'
    BY <1>2, <1>4, <1>5, <2>0, <2>1 DEF Results
  <2>4. HeadRead' /\ Returned'
    BY <1>1, <1>2, <2>1, <2>2 DEF HeadRead, Returned
  <2>5. Reported'
    BY <1>0, <1>1, <1>3, <2>0, <2>1 DEF Reported, Heard, ReadErrors
  <2> QED  BY <2>3, <2>4, <2>5
<1> QED  BY <1>6, <1>7, <1>8, <1>9, <1>10

(* One read of a body reports a first chunk if it is the first. *)
LEMMA ChunkHeard ==
    ASSUME TypeOK, FirstIn(events)
    PROVE  LET es == events \o FirstChunk
           IN  es \in Seq(EventNames) /\ FirstIn(es) /\ Contains(es, "first_chunk")
<1>1. events \in Seq(EventNames) /\ "first_chunk" \in EventNames
  BY DEF TypeOK, EventNames
<1>2. CASE Contains(events, "first_chunk")
  <2>1. events \o FirstChunk = events
    BY <1>1, <1>2, ConcatEmptySeq DEF FirstChunk
  <2> QED  BY <1>1, <1>2, <2>1
<1>3. CASE ~Contains(events, "first_chunk")
  <2>1. FirstChunk = <<"first_chunk">>
    BY <1>3 DEF FirstChunk
  <2>2. /\ events \o <<"first_chunk">> \in Seq(EventNames)
        /\ FirstIn(events \o <<"first_chunk">>)
        /\ Contains(events \o <<"first_chunk">>, "first_chunk")
    BY <1>1, <1>3, OneEvent, StillOneFirst, OneMoreHeard
  <2> QED  BY <2>1, <2>2
<1> QED  BY <1>2, <1>3

(* The steps that read the body of a buffered exchange. *)
LEMMA BodyKeeps ==
    ASSUME ExchangeInv,
           (\E n \in Reads : ReadBody(n)) \/ BodyEnds \/ BodyFails
    PROVE  ExchangeInv'
<1> USE DEF ExchangeInv
<1>0. UNCHANGED exchange /\ pc = "body" /\ buffered /\ body = read /\ result = "None"
  BY DEF ReadBody, BodyEnds, BodyFails, Counted, Returned
<1>1. /\ mode' = mode /\ encodable' = encodable /\ answer' = answer /\ cap' = cap
      /\ buffered' = buffered /\ DeclaredTooLarge' = DeclaredTooLarge
  BY <1>0, Constant
<1>2. /\ cap \in Nat /\ MaxBody \in Nat /\ MaxRead \in Nat /\ answer.length \in Nat /\ answer.length <= MaxBody
      /\ read \in Nat /\ body \in Nat /\ read <= answer.length /\ body <= cap
      /\ events \in Seq(EventNames) /\ FirstIn(events)
  BY <1>0, ExchangeNumbers DEF TypeOK, Counted, Reported
<1>3. answer.valid /\ answer.status # "redirect" /\ ~DeclaredTooLarge
  BY <1>0 DEF HeadRead
<1>4. ASSUME NEW n \in Reads, ReadBody(n) PROVE ExchangeInv'
  <2> DEFINE heard == events \o FirstChunk
  <2>0. heard \in Seq(EventNames) /\ FirstIn(heard) /\ Contains(heard, "first_chunk")
    BY <1>2, ChunkHeard
  <2>1. n \in Nat /\ n <= MaxRead /\ read + n <= answer.length /\ read' = read + n
    BY <1>2, <1>4 DEF Reads, ReadBody
  <2>2. CASE body + n > cap
    <3>1. /\ pc' = "done" /\ result' = "ResponseBodyTooLarge" /\ body' = body
          /\ events' = events \o (FirstChunk \o <<"body_rejected">>)
      BY <1>0, <1>2, <1>4, <2>1, <2>2 DEF ReadBody, End, Event
    <3>2. events' = heard \o <<"body_rejected">>
      <4>0. "first_chunk" \in EventNames /\ "body_rejected" \in EventNames
        BY DEF EventNames
      <4>1. FirstChunk \in {<<>>, <<"first_chunk">>}
        BY DEF FirstChunk
      <4>2. events \o (FirstChunk \o <<"body_rejected">>) = (events \o FirstChunk) \o <<"body_rejected">>
        <5>1. <<>> \in Seq(EventNames) /\ <<"first_chunk">> \in Seq(EventNames) /\ <<"body_rejected">> \in Seq(EventNames)
          BY <4>0
        <5>2. FirstChunk \in Seq(EventNames)
          BY <4>1, <5>1, Zenon
        <5> QED  BY <1>2, <5>1, <5>2, ConcatAssociative
      <4> QED  BY <3>1, <4>2
    <3> HIDE DEF heard
    <3>3. "body_rejected" \in EventNames
      BY DEF EventNames
    <3>4. /\ events' \in Seq(EventNames) /\ FirstIn(events')
          /\ Contains(events', "first_chunk") /\ Last(events') = "body_rejected"
      BY <2>0, <3>2, <3>3, OneEvent, StillOneFirst, OneMoreHeard
    <3>5. read' \in 0..MaxBody /\ body' \in 0..read'
      BY <1>0, <1>2, <2>1, <3>1
    <3>6. TypeOK'
      BY <1>1, <3>1, <3>4, <3>5 DEF TypeOK, Results
    <3>7. Counted'
      BY <1>1, <1>2, <2>1, <3>1 DEF Counted
    <3>8. answer.length > cap
      BY <1>0, <1>2, <2>1, <2>2
    <3>9. HeadRead' /\ Returned'
      BY <1>0, <1>1, <3>1, <3>8 DEF HeadRead, Returned
    <3>10. Reported'
      BY <1>0, <1>1, <3>1, <3>4 DEF Reported, Heard, ReadErrors
    <3> QED  BY <3>6, <3>7, <3>9, <3>10
  <2>3. CASE body + n <= cap
    <3>1. pc' = "body" /\ result' = "None" /\ body' = body + n /\ events' = heard
      BY <1>0, <1>2, <1>4, <2>1, <2>3 DEF ReadBody, Goto, Event
    <3> HIDE DEF heard
    <3>2. read' \in 0..MaxBody /\ body' \in 0..read' /\ body' = read' /\ body' <= cap /\ read' <= answer.length
      BY <1>0, <1>2, <2>1, <2>3, <3>1
    <3>3. TypeOK'
      BY <1>1, <2>0, <3>1, <3>2 DEF TypeOK, Results
    <3>4. Counted'
      BY <1>0, <1>1, <3>1, <3>2 DEF Counted
    <3>5. HeadRead' /\ Returned'
      BY <1>1, <1>3, <3>1 DEF HeadRead, Returned
    <3>6. Reported'
      BY <1>1, <2>0, <3>1 DEF Reported, Heard, ReadErrors
    <3> QED  BY <3>3, <3>4, <3>5, <3>6
  <2> QED  BY <1>2, <2>1, <2>2, <2>3
<1>5. ASSUME NEW x \in {"body_complete", "body_error"}, events' = events \o <<x>>, pc' = "done",
             UNCHANGED <<read, body>>, result' \in Results \ {"None", "Opened", "ResponseBodyTooLarge"},
             result' \in ReadErrors <=> x = "body_error",
             result' \in {"Ok", "ResponseBodyNotUtf8"} <=> x = "body_complete",
             Returned'
      PROVE  ExchangeInv'
  <2>1. x \in EventNames /\ x # "first_chunk"
    BY DEF EventNames
  <2>2. /\ events' \in Seq(EventNames) /\ FirstIn(events') /\ Last(events') = x
        /\ (Contains(events, "first_chunk") => Contains(events', "first_chunk"))
    BY <1>2, <1>5, <2>1, OneEvent, StillOneFirst, OneMoreHeard, Zenon
  <2>3. TypeOK'
    BY <1>1, <1>5, <2>2 DEF TypeOK
  <2>4. Counted'
    BY <1>1, <1>2, <1>5 DEF Counted
  <2>5. HeadRead'
    BY <1>5 DEF HeadRead
  <2>6. read > 0 => Contains(events, "first_chunk")
    BY <1>0 DEF Reported, Heard
  <2>7. Reported'
    BY <1>0, <1>1, <1>5, <2>2, <2>6 DEF Reported, Heard
  <2> QED  BY <1>5, <2>3, <2>4, <2>5, <2>7
<1>6. CASE BodyEnds
  <2>1. /\ read = answer.length /\ pc' = "done" /\ UNCHANGED <<read, body>>
        /\ result' = (IF mode = "text" /\ ~answer.utf8 THEN "ResponseBodyNotUtf8" ELSE "Ok")
        /\ events' = events \o <<"body_complete">>
    BY <1>0, <1>6 DEF BodyEnds, End, Event
  <2>2. Returned'
    BY <1>0, <1>1, <2>1 DEF Returned
  <2>3. result' \in Results \ {"None", "Opened", "ResponseBodyTooLarge"} /\ result' \notin ReadErrors
        /\ result' \in {"Ok", "ResponseBodyNotUtf8"}
    BY <2>1 DEF Results, ReadErrors
  <2> QED  BY <1>5, <2>1, <2>2, <2>3
<1>7. CASE BodyFails
  <2>1. /\ pc' = "done" /\ UNCHANGED <<read, body>> /\ result' \in ReadErrors
        /\ events' = events \o <<"body_error">>
    BY <1>0, <1>7 DEF BodyFails, End, Event
  <2>2. Returned'
    BY <1>0, <1>1, <2>1 DEF Returned, ReadErrors
  <2>3. result' \in Results \ {"None", "Opened", "ResponseBodyTooLarge"} /\ result' \notin {"Ok", "ResponseBodyNotUtf8"}
    BY <2>1 DEF Results, ReadErrors
  <2> QED  BY <1>5, <2>1, <2>2, <2>3
<1> QED  BY <1>4, <1>6, <1>7

(* The steps that drain the error body of a refused stream. *)
LEMMA ErrorBodyKeeps ==
    ASSUME ExchangeInv,
           (\E n \in Reads : ReadErrorBody(n)) \/ ErrorBodyDone
    PROVE  ExchangeInv'
<1> USE DEF ExchangeInv
<1>0. /\ UNCHANGED exchange /\ pc = "errorBody" /\ ~buffered /\ body = read /\ result = "None" /\ events' = events
  BY DEF ReadErrorBody, ErrorBodyDone, Counted, Returned
<1>1. /\ mode' = mode /\ encodable' = encodable /\ answer' = answer /\ cap' = cap
      /\ buffered' = buffered /\ DeclaredTooLarge' = DeclaredTooLarge
  BY <1>0, Constant
<1>2. /\ cap \in Nat /\ MaxBody \in Nat /\ MaxRead \in Nat /\ answer.length \in Nat /\ answer.length <= MaxBody
      /\ read \in Nat /\ body \in Nat /\ read <= MaxBody /\ read <= answer.length
      /\ events \in Seq(EventNames) /\ FirstIn(events)
  BY <1>0, ExchangeNumbers DEF TypeOK, Counted, Reported
<1>3. ASSUME NEW n \in Reads, ReadErrorBody(n) PROVE ExchangeInv'
  <2>1. /\ n \in Nat /\ n <= MaxRead /\ read + n <= answer.length /\ read' = read + n
        /\ body' = body + n /\ body <= cap /\ pc' = pc /\ result' = result
    BY <1>2, <1>3 DEF Reads, ReadErrorBody
  <2>2. read' \in 0..MaxBody /\ body' \in 0..read' /\ body' = read' /\ body' <= cap + MaxRead /\ read' <= answer.length
    BY <1>0, <1>2, <2>1
  <2>3. TypeOK'
    BY <1>0, <1>1, <2>1, <2>2 DEF TypeOK
  <2>4. Counted'
    BY <1>0, <1>1, <2>1, <2>2 DEF Counted
  <2>5. HeadRead' /\ Returned'
    BY <1>0, <1>1, <2>1 DEF HeadRead, Returned
  <2>6. Reported'
    BY <1>0, <1>1, <1>2, <2>1 DEF Reported, Heard
  <2> QED  BY <2>3, <2>4, <2>5, <2>6
<1>4. CASE ErrorBodyDone
  <2>1. pc' = "done" /\ result' = "Rejected" /\ body' = (IF body > cap THEN cap ELSE body) /\ read' = read
    BY <1>4 DEF ErrorBodyDone, End
  <2>2. read' \in 0..MaxBody /\ body' \in 0..read' /\ body' <= cap
    BY <1>0, <1>2, <2>1
  <2>3. TypeOK'
    BY <1>0, <1>1, <2>1, <2>2 DEF TypeOK, Results
  <2>4. Counted'
    BY <1>0, <1>1, <1>2, <2>1, <2>2 DEF Counted
  <2>5. HeadRead' /\ Returned'
    BY <1>0, <1>1, <2>1 DEF HeadRead, Returned
  <2>6. Reported'
    BY <1>0, <1>1, <1>2, <2>1 DEF Reported, Heard
  <2> QED  BY <2>3, <2>4, <2>5, <2>6
<1> QED  BY <1>3, <1>4

(* Every step of an exchange keeps its invariant. *)
THEOREM ExchangeInvariance == Spec => []ExchangeInv
<1>1. Init => ExchangeInv
  BY ExchangeInit
<1>2. ExchangeInv /\ [Next]_vars => ExchangeInv'
  <2> SUFFICES ASSUME ExchangeInv, [Next]_vars PROVE ExchangeInv'
    OBVIOUS
  <2>1. CASE UNCHANGED vars
    <3>1. UNCHANGED exchange /\ UNCHANGED <<pc, read, body, result, events>>
      BY <2>1 DEF vars
    <3>2. /\ mode' = mode /\ encodable' = encodable /\ answer' = answer /\ cap' = cap
          /\ buffered' = buffered /\ DeclaredTooLarge' = DeclaredTooLarge
      BY <3>1, Constant
    <3> QED  BY <3>1, <3>2 DEF ExchangeInv, TypeOK, Counted, HeadRead, Returned, Reported, Heard
  <2>2. CASE Next
    BY <2>2, HeadKeeps, BodyKeeps, ErrorBodyKeeps DEF Next
  <2> QED  BY <2>1, <2>2
<1> QED  BY <1>1, <1>2, PTL DEF Spec

(* A buffered answer is the whole body within its cap or an error, and a   *)
(* refused stream stays refused whatever its error body does               *)
(* (lib.rs:230-235, 380-425, 522-527).                                     *)
THEOREM WholeOrRefused == Spec => []WholeBodyOrRefused
<1>1. ExchangeInv => WholeBodyOrRefused
  <2> SUFFICES ASSUME ExchangeInv PROVE WholeBodyOrRefused
    OBVIOUS
  <2>1. /\ cap \in Nat /\ MaxRead \in Nat /\ body \in Nat
    BY ExchangeNumbers DEF ExchangeInv
  <2>2. body <= cap \/ (~buffered /\ pc # "done" /\ body <= cap + MaxRead)
    BY <2>1 DEF ExchangeInv, TypeOK, Counted
  <2> QED  BY <2>2 DEF ExchangeInv, Returned, WholeBodyOrRefused, WholeBody, RejectionStands
<1> QED  BY <1>1, ExchangeInvariance, PTL

(* The observer hears one first chunk at most and the ending the caller    *)
(* gets (lib.rs: send_observed, read_bounded_body_observed).               *)
THEOREM ObserverHears == Spec => []ObserverAgrees
<1>1. ExchangeInv => ObserverAgrees
  BY DEF ExchangeInv, Reported, FirstIn, Heard, ReadErrors, ObserverAgrees
<1> QED  BY <1>1, ExchangeInvariance, PTL
=============================================================================
