-------------------------- MODULE SafeFetchProofs ---------------------------
(***************************************************************************)
(* What the reference executor's fetch of an artifact guarantees outside   *)
(* its suite, for every environment.                                       *)
(***************************************************************************)
EXTENDS SafeFetch, TLAPS

Fetches ==
  [url : Urls, addresses : Seq(Addresses), connect : SUBSET Addresses,
   response : SUBSET Responses, chunks : Nat, held : Nat, hop : Nat]

(* The fields of a record, whatever the queries were. *)
RecordOK(r) ==
  /\ r = [resolver_calls |-> r.resolver_calls, queries |-> r.queries,
          connected_to |-> r.connected_to, only_accept |-> r.only_accept,
          named_target |-> r.named_target]
  /\ r.resolver_calls \in Nat
  /\ r.connected_to \in Seq(Addresses)

FetchTypeOK ==
  /\ fetchFaults = {} /\ fetchCase = 0
  /\ AnyEnvironment
  /\ fetch \in Fetches /\ fetch.url = input.url
  /\ RecordOK(record)
  /\ fetchPc \in {"parse", "resolve", "check", "connect", "exchanging", "reading",
                  "stalled", "returned"}
  /\ fetchPc # "returned" => result = {}

(* Who is asked and connected to, at each point of the fetch. *)
Pinned ==
  /\ fetchPc \in {"parse", "resolve"} => record.resolver_calls = 0
  /\ record.resolver_calls <= 1
  /\ fetchPc \in {"parse", "resolve", "check", "connect"} => record.connected_to = <<>>
  /\ Len(record.connected_to) <= 1
  /\ fetchPc = "connect" =>
       /\ fetch.addresses # <<>> /\ fetch.connect = {Head(fetch.addresses)}
       /\ \A a \in Given(fetch.addresses) : Allowed(a)
  /\ record.connected_to # <<>> =>
       /\ record.connected_to[1] \in Given(fetch.addresses)
       /\ \A a \in Given(fetch.addresses) : Allowed(a)

Picked == CHOOSE r \in fetch.response : TRUE

(* What has been read is the running total of the chunks so far. *)
ReadSoFar(t) ==
  /\ t[0] = 0 /\ t[fetch.chunks] = fetch.held
  /\ \A i \in 1..fetch.chunks : t[i] = t[i - 1] + Picked.chunks[i]

Reading ==
  /\ fetchPc \in {"parse", "resolve", "check", "connect", "exchanging"} =>
       fetch.held = 0 /\ fetch.chunks = 0
  /\ fetchPc = "reading" =>
       /\ fetch.response # {} /\ fetch.response = {s.response : s \in Server}
       /\ Picked.status \in 200..299
       /\ fetch.chunks <= Len(Picked.chunks)
       /\ \E t \in [0..fetch.chunks -> 0..Limit] : ReadSoFar(t)

ArtifactWhole ==
  \A r \in result :
    r.kind = "Artifact" =>
      \E s \in Server :
        /\ s.response.status \in 200..299 /\ ~s.response.stalls
        /\ \E t \in RunningTotals(s.response.chunks, MaxBinaryBody) :
             r.body = <<t[Len(s.response.chunks)], TRUE>>
        /\ r.body[1] \in 1..input.limit

FetchInv == FetchTypeOK /\ Pinned /\ Reading /\ ArtifactWhole

-----------------------------------------------------------------------------
LEMMA NewFetchOK == ASSUME NEW u \in Urls PROVE NewFetch(u) \in Fetches
  BY DEF NewFetch, Fetches

LEMMA FetchStartsInv == FetchStarts => FetchInv
<1> SUFFICES ASSUME FetchStarts PROVE FetchInv
  OBVIOUS
<1> USE DEF FetchStarts
<1>1. input.url \in Urls
  BY DEF AnyEnvironment
<1>2. FetchTypeOK
  BY <1>1, NewFetchOK DEF FetchTypeOK, RecordOK, NewRecord, NewFetch
<1>3. Pinned
  BY DEF Pinned, NewRecord
<1>4. Reading
  BY DEF Reading, NewFetch
<1> QED  BY <1>2, <1>3, <1>4 DEF FetchInv, ArtifactWhole

(* The answer to one question. *)
LEMMA AnswerOK ==
    ASSUME AnyEnvironment, NEW name, Resolves(name)
    PROVE  Answer(name) \in Seq(Addresses)
  BY DEF AnyEnvironment, Resolves, Answer, Resolutions

(* What a question leaves in the record. *)
LEMMA AskedRecord ==
    ASSUME RecordOK(record), NEW name
    PROVE  /\ RecordOK(Asked(name))
           /\ Asked(name).resolver_calls = record.resolver_calls + 1
           /\ Asked(name).connected_to = record.connected_to
<1>1. PICK q : Asked(name) = [record EXCEPT !.resolver_calls = @ + 1, !.queries = q]
  BY Zenon DEF Asked
<1>2. Asked(name) = [resolver_calls |-> record.resolver_calls + 1, queries |-> q,
                     connected_to |-> record.connected_to, only_accept |-> record.only_accept,
                     named_target |-> record.named_target]
  BY <1>1, Zenon DEF RecordOK
<1> QED  BY <1>2 DEF RecordOK

(* The environment of a fetch never changes. *)
Settled == UNCHANGED <<fetchFaults, input, net, fetchCase>>

LEMMA EnvironmentKept ==
    ASSUME FetchTypeOK, Settled
    PROVE  /\ fetchFaults' = {} /\ fetchCase' = 0
           /\ AnyEnvironment' /\ Limit' = Limit
           /\ fetch' = fetch => (Server' = Server /\ Picked' = Picked)
  BY DEF FetchTypeOK, Settled, AnyEnvironment, Limit, FetchHas, Server, Picked

(* A fetch that fails returns no artifact. *)
LEMMA FailureKeeps ==
    ASSUME FetchInv, Settled, NEW code, Return(Failure(code)), fetch' = fetch,
           RecordOK(record'), record'.resolver_calls <= 1,
           record'.connected_to = record.connected_to
    PROVE  FetchInv'
<1> USE DEF FetchInv
<1>1. FetchTypeOK'
  BY EnvironmentKept DEF FetchTypeOK, Return, Settled
<1>2. Pinned'
  BY DEF Pinned, Return
<1>3. Reading'
  BY DEF Reading, Return
<1>4. ArtifactWhole'
  BY DEF ArtifactWhole, Return, Failure
<1> QED  BY <1>1, <1>2, <1>3, <1>4

LEMMA ParseUrlInv == ASSUME FetchInv, ParseUrl, fetchCase' = fetchCase PROVE FetchInv'
<1> USE DEF FetchInv
<1>0. Settled /\ fetch' = fetch /\ record' = record
  BY DEF ParseUrl, Settled
<1>1. CASE UrlError(fetch.url) # "none"
  BY <1>0, <1>1, FailureKeeps DEF ParseUrl, FetchTypeOK, Pinned
<1>2. CASE UrlError(fetch.url) = "none"
  <2>1. fetchPc = "parse" /\ fetchPc' = "resolve" /\ result' = result
    BY <1>2 DEF ParseUrl, Goes
  <2>2. FetchTypeOK'
    BY <1>0, <2>1, EnvironmentKept DEF FetchTypeOK, Settled
  <2>3. Pinned'
    BY <1>0, <2>1 DEF Pinned
  <2>4. Reading'
    BY <1>0, <2>1 DEF Reading
  <2>5. ArtifactWhole'
    BY <2>1 DEF ArtifactWhole, FetchTypeOK
  <2> QED  BY <2>2, <2>3, <2>4, <2>5
<1> QED  BY <1>1, <1>2

LEMMA ResolveHostInv == ASSUME FetchInv, ResolveHost, fetchCase' = fetchCase PROVE FetchInv'
<1> USE DEF FetchInv
<1>0. Settled /\ fetchPc = "resolve" /\ result = {} /\ record.resolver_calls = 0
  BY DEF ResolveHost, Settled, FetchTypeOK, Pinned
<1>1. /\ fetch.url \in Urls /\ RecordOK(record) /\ AnyEnvironment
      /\ record.connected_to = <<>> /\ fetch.held = 0 /\ fetch.chunks = 0 /\ fetch \in Fetches
      /\ \A a, b \in fetch.url.literal : a = b
  BY <1>0 DEF FetchTypeOK, Fetches, Pinned, Reading, AnyEnvironment
<1>2. RecordOK(record') /\ record'.resolver_calls <= 1 /\ record'.connected_to = <<>>
  <2>1. CASE fetch.url.literal # {}
    BY <1>0, <1>1, <2>1 DEF ResolveHost, Lookup
  <2>2. CASE fetch.url.literal = {}
    BY <1>0, <1>1, <2>2, AskedRecord DEF ResolveHost, Lookup
  <2> QED  BY <2>1, <2>2
<1>3. ASSUME NEW as \in Seq(Addresses), fetch' = [fetch EXCEPT !.addresses = as], Goes("check")
      PROVE  FetchInv'
  <2>1. fetch' \in Fetches /\ fetch'.url = fetch.url /\ fetch'.held = 0 /\ fetch'.chunks = 0
    BY <1>1, <1>3, Zenon DEF Fetches
  <2>2. FetchTypeOK'
    BY <1>0, <1>2, <1>3, <2>1, EnvironmentKept DEF FetchTypeOK, Settled, Goes
  <2>3. Pinned'
    BY <1>2, <1>3 DEF Pinned, Goes
  <2>4. Reading'
    BY <1>3, <2>1 DEF Reading, Goes
  <2>5. ArtifactWhole'
    BY <1>0, <1>3 DEF ArtifactWhole, Goes
  <2> QED  BY <2>2, <2>3, <2>4, <2>5
<1>4. CASE fetch.url.literal # {}
  <2>1. PICK a \in Addresses : fetch.url.literal = {a}
    BY <1>1, <1>4 DEF Urls
  <2>2. (CHOOSE b \in fetch.url.literal : TRUE) = a
    BY <2>1
  <2>3. fetch' = [fetch EXCEPT !.addresses = <<a>>] /\ Goes("check")
    BY <1>4, <2>2, Zenon DEF ResolveHost, Lookup
  <2>4. <<a>> \in Seq(Addresses)
    OBVIOUS
  <2> QED  BY <1>3, <2>3, <2>4, Zenon
<1>5. CASE fetch.url.literal = {} /\ ~Resolves(fetch.url.name)
  <2>1. Return(Failure("ResolutionFailed")) /\ fetch' = fetch
    BY <1>5 DEF ResolveHost, Lookup
  <2> QED  BY <1>0, <1>1, <1>2, <2>1, FailureKeeps
<1>6. CASE fetch.url.literal = {} /\ Resolves(fetch.url.name) /\ net.dns[fetch.url.name].stalls
  <2>1. Goes("stalled") /\ fetch' = fetch
    BY <1>6 DEF ResolveHost, Lookup
  <2>2. FetchTypeOK'
    BY <1>0, <1>2, <2>1, EnvironmentKept DEF FetchTypeOK, Settled, Goes
  <2>3. Pinned'
    BY <1>2, <2>1 DEF Pinned, Goes
  <2>4. Reading'
    BY <2>1 DEF Reading, Goes
  <2>5. ArtifactWhole'
    BY <1>0, <2>1 DEF ArtifactWhole, Goes
  <2> QED  BY <2>2, <2>3, <2>4, <2>5
<1>7. CASE fetch.url.literal = {} /\ Resolves(fetch.url.name) /\ ~net.dns[fetch.url.name].stalls
  <2>1. fetch' = [fetch EXCEPT !.addresses = Answer(fetch.url.name)] /\ Goes("check")
    BY <1>7 DEF ResolveHost, Lookup
  <2> QED  BY <1>1, <1>3, <1>7, <2>1, AnswerOK
<1> QED  BY <1>4, <1>5, <1>6, <1>7

LEMMA CheckAddressesInv == ASSUME FetchInv, CheckAddresses, fetchCase' = fetchCase PROVE FetchInv'
<1> USE DEF FetchInv
<1>0. Settled /\ fetchPc = "check" /\ result = {} /\ record' = record
  BY DEF CheckAddresses, Settled, FetchTypeOK
<1>1. /\ fetch \in Fetches /\ fetch.addresses \in Seq(Addresses) /\ RecordOK(record)
      /\ record.connected_to = <<>> /\ fetch.held = 0 /\ fetch.chunks = 0 /\ fetchFaults = {}
      /\ record.resolver_calls <= 1
  BY <1>0 DEF FetchTypeOK, Fetches, Pinned, Reading
<1>2. CASE fetch.addresses = <<>>
  BY <1>0, <1>1, <1>2, FailureKeeps DEF CheckAddresses
<1>3. CASE fetch.addresses # <<>>
  <2>1. fetch' = [fetch EXCEPT !.connect = {Head(fetch.addresses)}]
    BY <1>3 DEF CheckAddresses
  <2>2. /\ fetch' \in Fetches /\ fetch'.url = fetch.url /\ fetch'.held = 0 /\ fetch'.chunks = 0
        /\ fetch'.addresses = fetch.addresses /\ fetch'.connect = {Head(fetch.addresses)}
    BY <1>1, <1>3, <2>1 DEF Fetches
  <2>3. CASE Refused(fetch.addresses, Forbids)
    <3>1. Return(Failure("ForbiddenAddress"))
      BY <1>3, <2>3 DEF CheckAddresses
    <3>2. FetchTypeOK'
      BY <1>0, <1>1, <2>2, <3>1, EnvironmentKept DEF FetchTypeOK, Settled, Return
    <3>3. Pinned'
      BY <1>0, <1>1, <3>1 DEF Pinned, Return
    <3>4. Reading' /\ ArtifactWhole'
      BY <3>1 DEF Reading, ArtifactWhole, Return, Failure
    <3> QED  BY <3>2, <3>3, <3>4
  <2>4. CASE ~Refused(fetch.addresses, Forbids)
    <3>1. Goes("connect")
      BY <1>1, <1>3, <2>4 DEF CheckAddresses, FetchHas
    <3>2. \A a \in Given(fetch.addresses) : Allowed(a)
      BY <1>1, <2>4 DEF Refused, Forbids, FetchHas, Given, Allowed
    <3>3. FetchTypeOK'
      BY <1>0, <1>1, <2>2, <3>1, EnvironmentKept DEF FetchTypeOK, Settled, Goes
    <3>4. Pinned'
      BY <1>0, <1>1, <1>3, <2>2, <3>1, <3>2 DEF Pinned, Goes, Allowed, is_forbidden_egress_address
    <3>5. Reading' /\ ArtifactWhole'
      BY <1>0, <2>2, <3>1 DEF Reading, ArtifactWhole, Goes
    <3> QED  BY <3>3, <3>4, <3>5
  <2> QED  BY <2>3, <2>4
<1> QED  BY <1>2, <1>3

LEMMA ConnectInv == ASSUME FetchInv, Connect, fetchCase' = fetchCase PROVE FetchInv'
<1> USE DEF FetchInv
<1>0. Settled /\ fetchPc = "connect" /\ result = {} /\ fetch' = fetch
  BY DEF Connect, Settled, FetchTypeOK
<1>1. /\ fetch \in Fetches /\ fetch.addresses \in Seq(Addresses) /\ fetch.addresses # <<>>
      /\ fetch.connect = {Head(fetch.addresses)} /\ \A a \in Given(fetch.addresses) : Allowed(a)
      /\ RecordOK(record) /\ record.connected_to = <<>> /\ record.resolver_calls <= 1
      /\ ~UsesProxy
  BY <1>0 DEF FetchTypeOK, Fetches, Pinned, UsesProxy, FetchHas
<1>2. (CHOOSE a \in fetch.connect : TRUE) = Head(fetch.addresses)
  BY <1>1
<1> DEFINE only == record.only_accept /\ ~FetchHas("SendsCredentials")
           named == record.named_target /\ fetch.url.name = net.target.name
                                        /\ fetch.url.path = net.target.path
<1>3. record' = [record EXCEPT !.resolver_calls = record.resolver_calls,
                               !.connected_to = Append(@, Head(fetch.addresses)),
                               !.only_accept = only, !.named_target = named]
  BY <1>1, <1>2, Zenon DEF Connect
<1> HIDE DEF only, named
<1>4. Goes("exchanging")
  BY <1>1, Zenon DEF Connect
<1>5. record' = [resolver_calls |-> record.resolver_calls, queries |-> record.queries,
                 connected_to |-> <<Head(fetch.addresses)>>, only_accept |-> only,
                 named_target |-> named]
  <2>1. Append(record.connected_to, Head(fetch.addresses)) = <<Head(fetch.addresses)>>
    BY <1>1
  <2> QED  BY <1>1, <1>3, <2>1, Zenon DEF RecordOK
<1>6. Head(fetch.addresses) \in Addresses /\ Head(fetch.addresses) \in Given(fetch.addresses)
  BY <1>1 DEF Given
<1>7. /\ RecordOK(record') /\ record'.resolver_calls = record.resolver_calls
      /\ record'.connected_to = <<Head(fetch.addresses)>>
  BY <1>1, <1>5, <1>6 DEF RecordOK
<1>8. FetchTypeOK'
  BY <1>0, <1>4, <1>7, EnvironmentKept DEF FetchTypeOK, Settled, Goes
<1>9. Pinned'
  BY <1>0, <1>1, <1>4, <1>6, <1>7 DEF Pinned, Goes
<1>10. Reading' /\ ArtifactWhole'
  BY <1>0, <1>4 DEF Reading, ArtifactWhole, Goes
<1> QED  BY <1>8, <1>9, <1>10

LEMMA ExchangeAnswersInv == ASSUME FetchInv, ExchangeAnswers, fetchCase' = fetchCase PROVE FetchInv'
<1> USE DEF FetchInv
<1> DEFINE served == {s.response : s \in Server}
           status == (CHOOSE r \in served : TRUE).status
<1>0. Settled /\ fetchPc = "exchanging" /\ result = {} /\ record' = record /\ fetchFaults = {}
  BY Zenon DEF ExchangeAnswers, Settled, FetchTypeOK
<1>1. /\ fetch \in Fetches /\ RecordOK(record) /\ record.resolver_calls <= 1
      /\ fetch.held = 0 /\ fetch.chunks = 0
  BY <1>0 DEF FetchTypeOK, Pinned, Reading
<1>2. CASE served # {} /\ status \in 200..299
  <2>1. fetch' = [fetch EXCEPT !.response = served] /\ Goes("reading")
    BY <1>2, Zenon DEF ExchangeAnswers
  <2>2. served \subseteq Responses
    BY DEF FetchTypeOK, AnyEnvironment, Server
  <2>3. /\ fetch' \in Fetches /\ fetch'.url = fetch.url /\ fetch'.held = 0 /\ fetch'.chunks = 0
        /\ fetch'.addresses = fetch.addresses /\ fetch'.response = served
    BY <1>1, <2>1, <2>2 DEF Fetches
  <2>4. Server' = Server /\ Limit' = Limit
    BY <1>0, <2>3, EnvironmentKept DEF Server, Settled
  <2>5. FetchTypeOK'
    BY <1>0, <1>1, <2>1, <2>3, EnvironmentKept DEF FetchTypeOK, Settled, Goes
  <2>6. Pinned'
    BY <1>0, <2>1, <2>3 DEF Pinned, Goes
  <2>7. Reading'
    <3>1. fetch'.response # {} /\ fetch'.response = {s.response : s \in Server'}
      BY <1>2, <2>3, <2>4
    <3>2. Picked'.status \in 200..299
      BY <1>2, <2>3 DEF Picked
    <3>3. Picked' \in Responses /\ Len(Picked'.chunks) \in Nat
      BY <1>2, <2>2, <2>3 DEF Picked, Responses
    <3>4. Limit \in Nat
      BY FetchAssumption DEF FetchTypeOK, AnyEnvironment, Limit
    <3>5. \E t \in [0..0 -> 0..Limit] : t[0] = 0
      <4>1. [i \in 0..0 |-> 0] \in [0..0 -> 0..Limit] /\ [i \in 0..0 |-> 0][0] = 0
        BY <3>4
      <4> QED  BY <4>1, Zenon
    <3>6. \E t \in [0..fetch'.chunks -> 0..Limit'] : ReadSoFar(t)'
      BY <2>3, <2>4, <3>5 DEF ReadSoFar
    <3>7. fetchPc' = "reading" /\ fetch'.chunks <= Len(Picked'.chunks)
      BY <2>1, <2>3, <3>3 DEF Goes
    <3> QED  BY <3>1, <3>2, <3>6, <3>7 DEF Reading
  <2>8. ArtifactWhole'
    BY <1>0, <2>1 DEF ArtifactWhole, Goes
  <2> QED  BY <2>5, <2>6, <2>7, <2>8
<1>3. CASE served = {}
  <2>1. fetch' = fetch /\ Return(Failure("TransportFailed"))
    BY <1>3 DEF ExchangeAnswers
  <2> QED  BY <1>0, <1>1, <2>1, FailureKeeps
<1>4. CASE served # {} /\ status \notin 200..299
  <2>1. ~FetchHas("FollowsRedirects")
    BY <1>0 DEF FetchHas
  <2> DEFINE code == IF status \in 300..399 THEN "Redirect" ELSE "UpstreamStatus"
  <2>2. fetch' = fetch /\ Return(Failure(code))
    BY <1>4, <2>1 DEF ExchangeAnswers
  <2> HIDE DEF code
  <2> QED  BY <1>0, <1>1, <2>2, FailureKeeps
<1> QED  BY <1>2, <1>3, <1>4

(* What is let through stays within the limit. *)
LEMMA WithinLimit ==
    ASSUME NEW l \in Nat, NEW h \in Nat, NEW c \in Nat, ~(c > l - h)
    PROVE  h + c \in 0..l
  OBVIOUS

(* The chunk that was read extends the running total. *)
LEMMA OneMoreChunk ==
    ASSUME FetchInv, fetchPc = "reading", Picked \in Responses, Limit \in Nat,
           fetch.chunks < Len(Picked.chunks),
           ~TooLarge(Picked.chunks[fetch.chunks + 1], fetch.held),
           fetch' = [fetch EXCEPT !.chunks = @ + 1,
                                  !.held = @ + Picked.chunks[fetch.chunks + 1]],
           Picked' = Picked
    PROVE  \E t \in [0..fetch'.chunks -> 0..Limit] : ReadSoFar(t)'
<1> DEFINE n == fetch.chunks
           c == Picked.chunks[n + 1]
<1>1. fetch \in Fetches /\ n \in Nat /\ fetch.held \in Nat
  BY DEF FetchInv, FetchTypeOK, Fetches
<1>2. c \in Nat /\ Len(Picked.chunks) \in Nat
  BY <1>1 DEF Responses
<1>3. fetch'.chunks = n + 1 /\ fetch'.held = fetch.held + c
  BY <1>1 DEF Fetches
<1>4. PICK t \in [0..n -> 0..Limit] : ReadSoFar(t)
  BY DEF FetchInv, Reading
<1>5. fetch.held + c \in 0..Limit
  <2>1. ~(c > Limit - fetch.held)
    BY Zenon DEF TooLarge
  <2> HIDE DEF c
  <2> QED  BY <1>1, <1>2, <2>1, WithinLimit
<1> DEFINE u == [i \in 0..(n + 1) |-> IF i = n + 1 THEN fetch.held + c ELSE t[i]]
<1>6. u \in [0..(n + 1) -> 0..Limit]
  BY <1>1, <1>4, <1>5
<1>7. u[0] = 0 /\ u[n + 1] = fetch.held + c /\ u[n] = fetch.held
  BY <1>1, <1>4 DEF ReadSoFar
<1>8. ASSUME NEW i \in 1..(n + 1) PROVE u[i] = u[i - 1] + Picked.chunks[i]
  <2>1. CASE i = n + 1
    BY <1>1, <1>7, <2>1
  <2>2. CASE i # n + 1
    <3>1. i \in 1..n /\ i \in 0..(n + 1) /\ i - 1 \in 0..(n + 1) /\ i - 1 # n + 1
      BY <1>1, <2>2
    <3> QED  BY <1>4, <3>1, <2>2 DEF ReadSoFar
  <2> QED  BY <2>1, <2>2
<1> HIDE DEF u
<1>9. PICK v \in [0..(n + 1) -> 0..Limit] : v = u
  BY <1>6
<1>10. v[0] = 0 /\ v[n + 1] = fetch.held + c /\ \A i \in 1..(n + 1) : v[i] = v[i - 1] + Picked.chunks[i]
  BY <1>7, <1>8, <1>9
<1> HIDE DEF n, c
<1>11. ReadSoFar(v)'
  BY <1>3, <1>10 DEF ReadSoFar
<1> QED  BY <1>3, <1>11

LEMMA ReadChunkInv == ASSUME FetchInv, ReadChunk, fetchCase' = fetchCase PROVE FetchInv'
<1> USE DEF FetchInv
<1>0. Settled /\ fetchPc = "reading" /\ result = {} /\ record' = record /\ fetchFaults = {}
  BY DEF ReadChunk, Settled, FetchTypeOK
<1>1. /\ fetch \in Fetches /\ RecordOK(record) /\ record.resolver_calls <= 1
      /\ fetch.response # {} /\ fetch.response = {s.response : s \in Server}
      /\ fetch.response \subseteq Responses /\ fetch.chunks \in Nat /\ fetch.held \in Nat
      /\ Picked.status \in 200..299 /\ fetch.chunks <= Len(Picked.chunks)
  BY <1>0 DEF FetchTypeOK, Pinned, Reading, Fetches
<1>2. Picked \in Responses /\ Picked.chunks \in Seq(Nat)
  BY <1>1 DEF Picked, Responses
<1>3. Limit \in Nat /\ Limit <= MaxBinaryBody /\ Limit <= input.limit /\ input.limit \in Nat
  BY <1>0, FetchAssumption DEF FetchTypeOK, AnyEnvironment, Limit, FetchHas
<1>4. CASE fetch.chunks < Len(Picked.chunks) /\ TooLarge(Picked.chunks[fetch.chunks + 1], fetch.held)
  <2>1. Return(Failure("BodyTooLarge")) /\ fetch' = fetch
    BY <1>4 DEF ReadChunk, Picked
  <2> QED  BY <1>0, <1>1, <2>1, FailureKeeps
<1>5. CASE fetch.chunks < Len(Picked.chunks) /\ ~TooLarge(Picked.chunks[fetch.chunks + 1], fetch.held)
  <2>1. /\ fetch' = [fetch EXCEPT !.chunks = @ + 1, !.held = @ + Picked.chunks[fetch.chunks + 1]]
        /\ Goes("reading")
    BY <1>5 DEF ReadChunk, Picked
  <2>2. Picked.chunks[fetch.chunks + 1] \in Nat
    BY <1>1, <1>2, <1>5
  <2>3. /\ fetch' \in Fetches /\ fetch'.url = fetch.url /\ fetch'.response = fetch.response
        /\ fetch'.chunks = fetch.chunks + 1 /\ fetch'.addresses = fetch.addresses
    <3>1. fetch.held + Picked.chunks[fetch.chunks + 1] \in Nat /\ fetch.chunks + 1 \in Nat
      BY <1>1, <2>2
    <3> QED  BY <1>1, <2>1, <3>1, Zenon DEF Fetches
  <2>4. Server' = Server /\ Limit' = Limit /\ Picked' = Picked
    BY <1>0, <2>3, EnvironmentKept DEF Server, Settled, Picked
  <2>5. FetchTypeOK'
    BY <1>0, <1>1, <2>1, <2>3, EnvironmentKept DEF FetchTypeOK, Settled, Goes
  <2>6. Pinned'
    BY <1>0, <2>1, <2>3 DEF Pinned, Goes
  <2>7. Reading'
    <3>1. \E t \in [0..fetch'.chunks -> 0..Limit'] : ReadSoFar(t)'
      BY <1>0, <1>2, <1>3, <1>5, <2>1, <2>4, OneMoreChunk
    <3>2. fetchPc' = "reading" /\ fetch'.chunks <= Len(Picked'.chunks)
      BY <1>1, <1>2, <1>5, <2>1, <2>3, <2>4 DEF Goes
    <3> QED  BY <1>1, <2>3, <2>4, <3>1, <3>2 DEF Reading
  <2>8. ArtifactWhole'
    BY <1>0, <2>1 DEF ArtifactWhole, Goes
  <2> QED  BY <2>5, <2>6, <2>7, <2>8
<1>6. CASE ~(fetch.chunks < Len(Picked.chunks)) /\ Picked.stalls
  <2>1. Goes("stalled") /\ fetch' = fetch
    BY <1>6 DEF ReadChunk, Picked
  <2>2. FetchTypeOK'
    BY <1>0, <1>1, <2>1, EnvironmentKept DEF FetchTypeOK, Settled, Goes
  <2>3. Pinned'
    BY <1>0, <2>1 DEF Pinned, Goes
  <2>4. Reading' /\ ArtifactWhole'
    BY <1>0, <2>1 DEF Reading, ArtifactWhole, Goes
  <2> QED  BY <2>2, <2>3, <2>4
<1>7. CASE ~(fetch.chunks < Len(Picked.chunks)) /\ ~Picked.stalls /\ fetch.held = 0
  <2>1. Return(Failure("EmptyBody")) /\ fetch' = fetch
    BY <1>0, <1>7 DEF ReadChunk, Picked, FetchHas
  <2> QED  BY <1>0, <1>1, <2>1, FailureKeeps
<1>8. CASE ~(fetch.chunks < Len(Picked.chunks)) /\ ~Picked.stalls /\ fetch.held # 0
  <2> DEFINE whole == Artifact(<<fetch.held, TRUE>>, "png", Picked.content_type)
  <2>1. Return(whole) /\ fetch' = fetch
    BY <1>0, <1>8, Zenon DEF ReadChunk, Picked, FetchHas
  <2>2. fetch.chunks = Len(Picked.chunks)
    BY <1>1, <1>2, <1>8
  <2>3. PICK t \in [0..fetch.chunks -> 0..Limit] : ReadSoFar(t)
    BY <1>0 DEF Reading
  <2>4. t \in RunningTotals(Picked.chunks, MaxBinaryBody) /\ t[Len(Picked.chunks)] = fetch.held
    BY <1>3, <2>2, <2>3, FetchAssumption DEF RunningTotals, ReadSoFar
  <2>5. fetch.held \in 1..input.limit
    <3>1. fetch.held \in 0..Limit
      BY <1>1, <2>3 DEF ReadSoFar
    <3> QED  BY <1>3, <1>8, <3>1
  <2>6. PICK s \in Server : s.response = Picked
    BY <1>1 DEF Picked
  <2>7. Server' = Server /\ input' = input
    BY <1>0, <2>1, EnvironmentKept DEF Settled
  <2>8. ArtifactWhole'
    <3>1. result' = {whole} /\ whole.body = <<fetch.held, TRUE>> /\ whole.body[1] = fetch.held
      BY <2>1, Zenon DEF Return, Artifact
    <3> HIDE DEF whole
    <3> QED  BY <1>1, <1>8, <2>4, <2>5, <2>6, <2>7, <3>1 DEF ArtifactWhole
  <2>9. FetchTypeOK'
    BY <1>0, <1>1, <2>1, EnvironmentKept DEF FetchTypeOK, Settled, Return
  <2>10. Pinned' /\ Reading'
    BY <1>0, <2>1 DEF Pinned, Reading, Return
  <2> QED  BY <2>8, <2>9, <2>10
<1> QED  BY <1>4, <1>5, <1>6, <1>7, <1>8

LEMMA DeadlineInv ==
    ASSUME FetchInv, NEW where, Deadline(where), fetchCase' = fetchCase PROVE FetchInv'
<1>1. Settled /\ fetch' = fetch /\ record' = record /\ Return(Failure("Timeout"))
  BY DEF FetchInv, FetchTypeOK, Deadline, Settled, FetchHas
<1> QED  BY <1>1, FailureKeeps, Zenon DEF FetchInv, FetchTypeOK, Pinned

LEMMA FetchNextInv == FetchInv /\ [FetchNext]_fetchSuiteVars => FetchInv'
<1> SUFFICES ASSUME FetchInv, [FetchNext]_fetchSuiteVars PROVE FetchInv'
  OBVIOUS
<1>1. CASE ExecutorNext /\ fetchCase' = fetchCase
  <2>1. ~ResolveAgain
    BY DEF ResolveAgain, FetchInv, FetchTypeOK
  <2> QED  BY <1>1, <2>1, ParseUrlInv, ResolveHostInv, CheckAddressesInv, ConnectInv,
              ExchangeAnswersInv, ReadChunkInv DEF ExecutorNext
<1>2. CASE Deadline(IF fetchCase = 0 THEN AwaitPoints ELSE {"stalled"}) /\ fetchCase' = fetchCase
  BY <1>2, DeadlineInv
<1>3. CASE UNCHANGED fetchSuiteVars
  <2>1. /\ Settled /\ fetch' = fetch /\ record' = record /\ result' = result /\ fetchPc' = fetchPc
        /\ input' = input
    BY <1>3 DEF fetchSuiteVars, fetchVars, Settled
  <2>2. Server' = Server /\ Picked' = Picked /\ Limit' = Limit
    BY <2>1, EnvironmentKept DEF FetchInv
  <2>3. FetchTypeOK'
    BY <2>1, EnvironmentKept DEF FetchInv, FetchTypeOK
  <2>4. Pinned' /\ ArtifactWhole'
    BY <2>1, <2>2, Zenon DEF FetchInv, Pinned, ArtifactWhole
  <2>5. Reading'
    BY <2>1, <2>2 DEF FetchInv, Reading, ReadSoFar
  <2> QED  BY <2>3, <2>4, <2>5 DEF FetchInv
<1>4. ~Compare /\ ~NextFixture
  BY DEF Compare, NextFixture, FetchInv, FetchTypeOK
<1> QED  BY <1>1, <1>2, <1>3, <1>4 DEF FetchNext

(* Whatever is fetched, resolved and answered, and whenever the deadline     *)
(* comes, the fetch stays within its invariant.                              *)
THEOREM FetchInvariance == FetchSpec => []FetchInv
  BY FetchStartsInv, FetchNextInv, PTL DEF FetchSpec

(* For every URL, resolver, server, limit and moment of the deadline: the    *)
(* fetch resolves once, connects once, to an address it checked, and returns *)
(* a whole body within both limits or no artifact.                           *)
THEOREM FetchIsSafe == FetchSpec => []FetchSafe
<1>1. FetchInv => FetchSafe
  BY Zenon DEF FetchInv, FetchSafe, Pinned, ArtifactWhole
<1> QED  BY <1>1, FetchInvariance, PTL
=============================================================================
