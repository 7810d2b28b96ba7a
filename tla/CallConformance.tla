-------------------------- MODULE CallConformance ---------------------------
(***************************************************************************)
(* The call-conformance runners of south-testkit: a runner drives one      *)
(* executor through a fixture table and judges each observation.  The      *)
(* reference executor runs the orchestrated call of ProviderCall with the  *)
(* scripted resolver, transport, byte source, token and clock of its case. *)
(* A foreign executor, an adapter under test, answers what it likes; three *)
(* kinds of wrong adapters are modelled.                                   *)
(***************************************************************************)
EXTENDS ProviderCall, CallSuites, FiniteSets

VARIABLES suite,       \* the suite the runner was started for
          executor,    \* who executes the cases
          k,           \* index of the current fixture
          progress,    \* where the runner stands with it
          pulls,       \* the opened stream of the current case
          observation, \* what the executor returned for the current case
          passed,      \* case ids, in table order
          mismatches   \* pairs of case id and category

runner == <<suite, executor>>

report == <<observation, passed, mismatches>>

suiteVars == <<runner, k, progress, pulls, report>>

Suites ==
    [provider_call |-> CallSuite, provider_stream |-> StreamSuite, header_auth |-> HeaderAuthSuite,
     quota |-> QuotaSuite, user_agent |-> UserAgentSuite, query |-> QuerySuite, get |-> GetSuite,
     binary |-> BinarySuite, media_binary |-> MediaSuite, multipart |-> MultipartSuite]

Fixtures == Suites[suite].fixtures

f == Fixtures[k]
-----------------------------------------------------------------------------
(* What the reference executors do with a raw input before they call core. *)

ReservedHeaders == {"authorization", "sanctioned", "user-agent"}

(* parse_reference_input_declaring: the path, then the headers. *)
parse_input ==
    IF f.path = "escaping" THEN map_contract_error("InvalidRelativePath")
    ELSE IF f.header \in ReservedHeaders \union f.declares THEN header_policy_error_code
    ELSE None

(* The same for a body that fixes its content type, multipart or text. *)
parse_framed_input ==
    IF parse_input # None THEN parse_input
    ELSE IF f.body = "other_boundary" THEN map_contract_error("InvalidMultipartBody")
    ELSE IF f.header = "content-type" THEN map_contract_error("ContentTypeHeaderNotPermitted")
    ELSE None

refused ==
    IF f.body \in {"multipart", "other_boundary", "text"} THEN parse_framed_input
    ELSE IF parse_input # None THEN parse_input
    ELSE IF declare_user_agent(f) # None THEN declare_user_agent(f)
    ELSE declare_query(f)

(* The binding and the request handed to the entry point of the fixture.   *)
(* Deadlines: one tick where the case lets it expire, never otherwise.     *)
CallOf ==
    [mode |-> IF f.entry = "open" THEN "streaming" ELSE "buffered",
     signed |-> FALSE, contained |-> TRUE, auth |-> [arm |-> f.arm, emits |-> <<>>],
     declares |-> f.declares # {}, slot |-> f.slot, bound |-> "bound",
     deadline |-> IF f.control \in {"ExpireWhileTransportPending", "ExpireWhileChunkPending"} THEN 1
                  ELSE IF f.entry = "open" THEN NoDeadline ELSE MaxTime + 1]
-----------------------------------------------------------------------------
(* What the transports answer.                                             *)

Answered(outcome) == [state |-> "ok", outcome |-> outcome, error |-> None]

Failed(error) == [state |-> "failed", outcome |-> NotReached, error |-> error]

(* BufferedHttpResponseV1::try_from_parts: the size before the encoding. *)
BufferedHttpResponse(raw) ==
    IF raw.body \in {"over_text", "over_binary"} THEN Failed("ResponseBodyTooLarge")
    ELSE IF raw.body = "bytes" THEN Failed("ResponseBodyNotUtf8")
    ELSE Answered(raw)

(* BufferedBinaryResponseV1::try_from_parts: its own cap, any encoding. *)
BufferedBinaryResponse(raw) ==
    IF raw.body = "over_binary" THEN Failed("ResponseBodyTooLarge") ELSE Answered(raw)

(* StreamRejectedV1::new keeps the first 64 KiB of the body. *)
StreamRejected(raw) ==
    [state |-> "rejected", error |-> None,
     outcome |-> [raw EXCEPT !.body = IF @ = "over_error" THEN "at_error" ELSE @]]

Answer ==
    CASE f.upstream.kind = "Response" ->
            IF f.entry = "binary" THEN BufferedBinaryResponse(f.upstream)
            ELSE BufferedHttpResponse(f.upstream)
      [] f.upstream.kind \in {"Stream", "Metadata"} -> Answered(f.upstream)
      [] f.upstream.kind = "Rejected" -> StreamRejected(f.upstream)
      [] f.upstream.kind = "TransportFailure" -> Failed(f.upstream.error)
      [] f.upstream.kind = "NotReached" -> Failed("RequestFailed")
      [] f.upstream.kind = "Pending" -> [Failed(None) EXCEPT !.state = "pending"]

(* ResponseTranscriptV1::capture_redacting: without the credential headers *)
(* every transcript leaves out and the ones this request declared.         *)
Transcript == f.echoes \ ({"sanctioned", "authorization"} \union f.declares)
-----------------------------------------------------------------------------
(* The wire the recording transports see, and what they conclude from it.  *)

Reached == transport.uses > 0

(* RequestParts: what core makes of the request besides its auth headers. *)
Wire ==
    [method |-> IF f.entry = "get" THEN "GET" ELSE "POST",
     bodies |-> IF f.entry = "get" THEN {} ELSE {f.body},
     content_type |-> f.body, query |-> QueryString(f.query), user_agent |-> f.user_agent]

(* expected_wire_auth_header_v1, for the arm of the row. *)
ExpectedAuth ==
    LET bearer == [name |-> "authorization", form |-> "bearer", slot |-> "bound"]
        secret(name) == [name |-> name, form |-> "verbatim", slot |-> "bound"]
    IN  CASE f.arm = "Bearer" -> <<bearer>>
          [] f.arm = "HeaderSecret" -> <<secret("sanctioned")>>
          [] f.arm = "DeclaredHeaderSecret" -> <<secret("declared")>>
          [] f.arm = "BearerAndHeaderSecret" -> <<bearer, secret("sanctioned")>>

CallProbe ==
    [resolver |-> CountOf(resolver.uses), transport |-> CountOf(transport.uses)]

PendingProbe ==
    CallProbe @@ [resolver_dropped |-> resolver.state = "dropped",
                  transport_dropped |-> transport.state = "dropped"]

StreamProbe ==
    CallProbe @@ [resolver_dropped |-> resolver.state = "dropped",
                  transport_dropped |-> pulls.dropped, pulled |-> Len(pulls.chunks),
                  poststream |-> pulls.poststream]

HeaderAuthProbe ==
    CallProbe @@ [sanctioned_exact |-> Reached /\ transport.auth = ExpectedAuth,
                  authorization_absent |->
                      \A j \in DOMAIN transport.auth : transport.auth[j].name # "authorization"]

\* Mutant: the probe does not ask whether a user agent was declared.
UserAgentProbeAbsentIsExact ==
    CallProbe @@ [user_agent_exact |-> Reached /\ Wire.user_agent = f.user_agent]

UserAgentProbe ==
    CallProbe @@ [user_agent_exact |-> Reached /\ f.user_agent # {} /\ Wire.user_agent = f.user_agent]

QueryProbe ==
    CallProbe @@ [query_exact |-> Reached /\ f.query # <<>> /\ Wire.query = QueryString(f.query)]

GetProbe ==
    QueryProbe @@ [method_get |-> Reached /\ Wire.method = "GET",
                   body_absent |-> Reached => Wire.bodies = {},
                   auth_exact |-> Reached /\ transport.auth = ExpectedAuth]

BinaryProbe ==
    CallProbe @@ [binary_observed |-> Reached /\ f.entry = "binary",
                  returned_exact |-> result = "Response" /\ Answer.outcome.body = f.upstream.body]

MultipartProbe ==
    CallProbe @@ [content_type_exact |-> Reached /\ Wire.content_type = "multipart",
                  request_exact |-> Reached /\ Wire.bodies = {f.body},
                  auth_exact |-> Reached /\ transport.auth = ExpectedAuth]

MediaProbe ==
    CallProbe @@ [content_type_exact |-> Reached /\ Wire.content_type = f.body,
                  request_exact |-> Reached /\ Wire.bodies = {f.body},
                  binary_observed |-> Reached,
                  auth_exact |-> Reached /\ transport.auth = ExpectedAuth]

(* The observed outcome.  A buffered executor hands on the response; one   *)
(* that opens streams also folds a broken stream into a failure; only the  *)
(* stream suite tells a rejection and the end of the stream apart.         *)
Unanswered == Failure(map_provider_call_error(result, Answer.error))

BufferedOutcome == IF result = "Response" THEN Answer.outcome ELSE Unanswered

OpenedOutcome ==
    Opened(f.upstream.status, f.upstream.content_type, f.upstream.retry_after, pulls.chunks)

EitherOutcome ==
    IF result = "Response" /\ f.entry = "open"
    THEN IF pulls.poststream # None THEN Failure("RequestFailed") ELSE OpenedOutcome
    ELSE BufferedOutcome

StreamOutcome ==
    IF result = "Response" THEN OpenedOutcome
    ELSE IF result = "Rejected" THEN Answer.outcome
    ELSE Unanswered

(* execute_case of each suite: what it observes of an input it did not refuse. *)

Observed(outcome, evidence) == [outcome |-> outcome, evidence |-> evidence, transcript |-> Transcript]

ExecuteCall == Observed(BufferedOutcome, PendingProbe)

ExecuteStream == Observed(StreamOutcome, StreamProbe)

ExecuteHeaderAuth == Observed(EitherOutcome, HeaderAuthProbe)

ExecuteQuota == Observed(BufferedOutcome, CallProbe)

ExecuteUserAgent == Observed(EitherOutcome, UserAgentProbe)

ExecuteQuery == Observed(EitherOutcome, QueryProbe)

ExecuteGet == Observed(BufferedOutcome, GetProbe)

ExecuteBinary == Observed(BufferedOutcome, BinaryProbe)

ExecuteMedia == Observed(BufferedOutcome, MediaProbe)

ExecuteMultipart == Observed(BufferedOutcome, MultipartProbe)

Executed ==
    CASE suite = "provider_call" -> ExecuteCall
      [] suite = "provider_stream" -> ExecuteStream
      [] suite = "header_auth" -> ExecuteHeaderAuth
      [] suite = "quota" -> ExecuteQuota
      [] suite = "user_agent" -> ExecuteUserAgent
      [] suite = "query" -> ExecuteQuery
      [] suite = "get" -> ExecuteGet
      [] suite = "binary" -> ExecuteBinary
      [] suite = "media_binary" -> ExecuteMedia
      [] suite = "multipart" -> ExecuteMultipart

(* A refused input is a failure with the evidence of a call never made. *)
ReferenceObservation ==
    [Executed EXCEPT !.outcome = IF refused = None THEN @ ELSE Failure(refused)]
-----------------------------------------------------------------------------
(* Foreign executors.  One that is right except for one value of one case, *)
(* one whose evidence carries a constant in place of a measurement, and    *)
(* one that concludes a claim from the mere fact that the transport ran.   *)

SomeOutcome(kind) ==
    [x \in DOMAIN Suites[suite].outcome[kind] \union {"kind"} |->
        IF x = "kind" THEN kind
        ELSE CHOOSE v \in Suites[suite].outcome[kind][x].values : TRUE]

Deviates(part) == executor.kind = "deviant" /\ executor.at = k /\ executor.part = part

ForeignOutcome ==
    IF Deviates("kind") THEN SomeOutcome(executor.value)
    ELSE IF Deviates("outcome") THEN [f.expected EXCEPT ![executor.field] = executor.value]
    ELSE f.expected

ForeignEvidence ==
    IF executor.kind = "hardcoded" \/ Deviates("evidence")
    THEN [f.evidence EXCEPT ![executor.field] = executor.value]
    ELSE IF executor.kind = "reached"
    THEN [f.evidence EXCEPT ![executor.field] = f.evidence.transport # "Zero"]
    ELSE f.evidence

ForeignObservation ==
    [outcome |-> ForeignOutcome, evidence |-> ForeignEvidence,
     transcript |-> IF Deviates("transcript") THEN executor.value
                    ELSE UNION {t.retained : t \in f.transcript}]

Another(values, expected) == CHOOSE v \in values : v # expected

Executors ==
    \/ executor = [kind |-> "reference"]
    \/ \E x \in DOMAIN Suites[suite].evidence : \E v \in Suites[suite].evidence[x].values :
          executor = [kind |-> "hardcoded", field |-> x, value |-> v]
    \/ \E x \in DOMAIN Suites[suite].evidence :
          /\ Suites[suite].evidence[x].category \in {"WireUserAgent", "WireQuery"}
          /\ executor = [kind |-> "reached", field |-> x]
    \/ \E n \in DOMAIN Fixtures : LET row == Fixtures[n] IN
          \/ \E x \in DOMAIN row.evidence :
                executor = [kind |-> "deviant", at |-> n, part |-> "evidence", field |-> x,
                            value |-> Another(Suites[suite].evidence[x].values, row.evidence[x])]
          \/ \E x \in DOMAIN row.expected \ {"kind"} :
                executor = [kind |-> "deviant", at |-> n, part |-> "outcome", field |-> x,
                            value |-> Another(Suites[suite].outcome[row.expected.kind][x].values,
                                              row.expected[x])]
          \/ \E v \in DOMAIN Suites[suite].outcome \ {row.expected.kind} :
                executor = [kind |-> "deviant", at |-> n, part |-> "kind", field |-> "kind", value |-> v]
          \/ \E t \in row.transcript : \E v \in SUBSET (t.retained \union t.redacted) :
                /\ compare_transcript(row.transcript, v) # {}
                /\ executor = [kind |-> "deviant", at |-> n, part |-> "transcript",
                               field |-> "transcript", value |-> v]

Reference == executor.kind = "reference"
-----------------------------------------------------------------------------
NoPulls == [state |-> "none", next |-> 0, since |-> 0, chunks |-> <<>>, poststream |-> None,
            finished |-> FALSE, again |-> FALSE, dropped |-> FALSE]

NoObservation == [outcome |-> NotReached]

ReportInit ==
    /\ k = 1
    /\ progress = "start"
    /\ pulls = NoPulls
    /\ observation = NoObservation
    /\ passed = <<>>
    /\ mismatches = {}

RunnerInit ==
    /\ suite \in DOMAIN Suites
    /\ Executors
    /\ ReportInit
    /\ now = 0 /\ cancelled = FALSE /\ pc = "returned" /\ stage = "resolve"
    /\ call = CallOf
    /\ resolver = [state |-> "idle", slots |-> {}, uses |-> 0]
    /\ finalizer = [state |-> "idle", emitted |-> <<>>, slots |-> {}, uses |-> 0]
    /\ transport = [state |-> "idle", auth |-> <<>>, sent |-> 0, budget |-> 0, uses |-> 0]
    /\ result = "None" /\ fresh = TRUE

(* execute_case begins: fresh counters, a fresh token, and the entry point *)
(* unless the input is refused on the way.                                 *)
StartCase ==
    /\ progress = "start"
    /\ progress' = IF Reference /\ refused = None THEN "call" ELSE "executed"
    /\ now' = 0 /\ cancelled' = FALSE /\ call' = CallOf
    /\ pc' = "prepare" /\ stage' = "resolve" /\ result' = "None" /\ fresh' = TRUE
    /\ resolver' = [state |-> "idle", slots |-> {}, uses |-> 0]
    /\ finalizer' = [state |-> "idle", emitted |-> <<>>, slots |-> {}, uses |-> 0]
    /\ transport' = [state |-> "idle", auth |-> <<>>, sent |-> 0, budget |-> 0, uses |-> 0]
    /\ pulls' = NoPulls
    /\ UNCHANGED <<runner, k, report>>

(* The entry point of core runs. *)
CoreStep ==
    /\ progress = "call"
    /\ CallStep
    /\ UNCHANGED <<runner, k, progress, pulls, report>>

(* The entry point returned: an opened stream is pulled, the rest observed. *)
CoreReturns ==
    /\ progress = "call" /\ pc = "returned"
    /\ IF result = "Response" /\ f.entry = "open"
       THEN progress' = "pull" /\ pulls' = [pulls EXCEPT !.state = "pulling"]
       ELSE progress' = "executed" /\ UNCHANGED pulls
    /\ UNCHANGED <<vars, runner, k, report>>

(* The scripted resolver answers at once, except in the case that cancels it. *)
ResolverReplies ==
    /\ progress = "call" /\ resolver.state = "pending"
    /\ f.control # "CancelWhileResolverPending"
    /\ resolver' = [resolver EXCEPT !.state = "ok"]
    /\ UNCHANGED <<now, cancelled, call, pc, stage, finalizer, transport, result, fresh>>
    /\ UNCHANGED <<runner, k, progress, pulls, report>>

(* The recording transport answers what the row's upstream does. *)
TransportReplies ==
    /\ progress = "call" /\ transport.state = "pending"
    /\ Answer.state # "pending"
    /\ transport' = [transport EXCEPT !.state = Answer.state]
    /\ UNCHANGED <<now, cancelled, call, pc, stage, resolver, finalizer, result, fresh>>
    /\ UNCHANGED <<runner, k, progress, pulls, report>>

Stalled == progress = "pull" /\ pulls.state = "stalled"

(* The cancel driver waits for the notice that the future it is to cut has *)
(* started.                                                                *)
CancelDriver ==
    /\ ~cancelled
    /\ \/ f.control = "CancelWhileResolverPending" /\ progress = "call" /\ resolver.state = "pending"
       \/ f.control = "CancelWhileChunkPending" /\ Stalled
    /\ cancelled' = TRUE
    /\ UNCHANGED <<now, call, pc, stage, resolver, finalizer, transport, result, fresh>>
    /\ UNCHANGED <<runner, k, progress, pulls, report>>

(* So does the clock driver: the harness advances paused time once.        *)
ClockDriver ==
    /\ now = 0
    /\ \/ f.control = "ExpireWhileTransportPending" /\ progress = "call" /\ transport.state = "pending"
       \/ f.control \in {"ExpireWhileChunkPending", "AdvanceIdleWhileChunkPending"} /\ Stalled
    /\ now' = now + 1
    /\ UNCHANGED <<cancelled, call, pc, stage, resolver, finalizer, transport, result, fresh>>
    /\ UNCHANGED <<runner, k, progress, pulls, report>>

(* ReferenceStreamSource: the scripted chunks, then the terminal. *)
SourceAnswer ==
    IF pulls.next < Len(f.upstream.chunks) THEN "Chunk"
    ELSE CASE f.upstream.terminal = "CleanEof" -> "End"
           [] f.upstream.terminal = "Break" -> "StreamReadFailed"
           [] f.upstream.terminal = "IdleStall" ->
                IF pulls.state = "stalled" /\ now > pulls.since THEN "StreamIdleTimeout" ELSE "Pending"
           [] f.upstream.terminal = "PendingForever" -> "Pending"

\* Mutant: a terminal error does not finish the call.
NextChunkNeverFinishes ==
    IF cancelled THEN "StreamCancelled"
    ELSE IF Passed THEN "StreamDeadlineExceeded"
    ELSE SourceAnswer

(* StreamingCallV1::next_chunk, polled: finished, token, deadline, source. *)
NextChunk ==
    IF pulls.finished THEN "End"
    ELSE IF cancelled THEN "StreamCancelled"
    ELSE IF Passed THEN "StreamDeadlineExceeded"
    ELSE SourceAnswer

(* pull_until_terminal: after an error one pull more, which must end.      *)
PullChunks ==
    /\ progress = "pull" /\ pulls.state \in {"pulling", "stalled"}
    /\ pulls' =
         CASE NextChunk = "Pending" -> [pulls EXCEPT !.state = "stalled", !.since = IF pulls.state = "stalled" THEN @ ELSE now]
           [] NextChunk = "End" -> [pulls EXCEPT !.state = "ended"]
           [] NextChunk = "Chunk" ->
                [pulls EXCEPT !.chunks = Append(@, f.upstream.chunks[pulls.next + 1]),
                              !.next = @ + 1, !.state = IF pulls.again THEN "ended" ELSE @]
           [] OTHER ->
                [pulls EXCEPT !.poststream = NextChunk, !.finished = TRUE, !.again = TRUE,
                              !.state = IF pulls.again THEN "ended" ELSE "pulling",
                              !.dropped = @ \/ (pulls.state = "stalled"
                                                /\ f.upstream.terminal = "PendingForever")]
    /\ UNCHANGED <<vars, runner, k, progress, report>>

PullsEnd ==
    /\ progress = "pull" /\ pulls.state = "ended"
    /\ progress' = "executed"
    /\ UNCHANGED <<vars, runner, k, pulls, report>>

(* execute_case returns to the runner. *)
Observe ==
    /\ progress = "executed"
    /\ progress' = "observed"
    /\ observation' = IF Reference THEN ReferenceObservation ELSE ForeignObservation
    /\ UNCHANGED <<vars, runner, k, pulls, passed, mismatches>>
-----------------------------------------------------------------------------
(* The runner: compare_outcome, compare_transcript and compare_evidence,   *)
(* one mismatch per differing field, and the case passes if there is none. *)

Differing(fields, expected, observed) ==
    {fields[x].category : x \in {x \in DOMAIN fields : expected[x] # observed[x]}}

compare_outcome(expected, observed) ==
    IF expected.kind # observed.kind THEN {"OutcomeKind"}
    ELSE Differing(Suites[suite].outcome[expected.kind], expected, observed)

compare_evidence(expected, observed) == Differing(Suites[suite].evidence, expected, observed)

Found ==
    compare_outcome(f.expected, observation.outcome)
    \union (IF observation.outcome.kind = "Response"
            THEN compare_transcript(f.transcript, observation.transcript) ELSE {})
    \union compare_evidence(f.evidence, observation.evidence)

\* Mutant: the run stops at the first case that differs.
JudgeStopsEarly ==
    /\ progress = "observed"
    /\ observation' = NoObservation
    /\ mismatches' = mismatches \union {[case |-> f.case, category |-> c] : c \in Found}
    /\ passed' = IF Found = {} THEN Append(passed, f.case) ELSE passed
    /\ IF k = Len(Fixtures) \/ Found # {} THEN progress' = "done" /\ UNCHANGED k
                                          ELSE progress' = "start" /\ k' = k + 1
    /\ UNCHANGED <<vars, runner, pulls>>

Judge ==
    /\ progress = "observed"
    /\ observation' = NoObservation
    /\ mismatches' = mismatches \union {[case |-> f.case, category |-> c] : c \in Found}
    /\ passed' = IF Found = {} THEN Append(passed, f.case) ELSE passed
    /\ IF k = Len(Fixtures) THEN progress' = "done" /\ UNCHANGED k
                            ELSE progress' = "start" /\ k' = k + 1
    /\ UNCHANGED <<vars, runner, pulls>>

Script == ResolverReplies \/ TransportReplies \/ CancelDriver \/ ClockDriver

RunnerNext == StartCase \/ CoreStep \/ CoreReturns \/ PullChunks \/ PullsEnd \/ Observe \/ Judge \/ Script
-----------------------------------------------------------------------------
(* In every interleaving of the call with its scripted surroundings the    *)
(* reference executor, which is core itself, meets the table: outcome,     *)
(* order of refusals, number of resolver and transport calls, futures      *)
(* dropped while pending, chunks pulled, and what the wire carried; and    *)
(* every case of the suite is run once.                                    *)
ReferenceConforms ==
    Reference =>
        /\ mismatches = {}
        /\ progress = "done" => {passed[n] : n \in DOMAIN passed} = Suites[suite].cases
                             /\ Len(passed) = Cardinality(Suites[suite].cases)

(* The verdict is exact: an executor wrong in one value of one case fails  *)
(* with one mismatch, for that case, while every other case is still run   *)
(* and listed as passed in table order; and the category tells which value *)
(* was wrong (record_if and the report of every runner).                   *)
DeviationReported ==
    progress = "done" /\ executor.kind = "deviant" =>
        /\ Cardinality(mismatches) = 1
        /\ \A m \in mismatches :
              /\ m.case = Fixtures[executor.at].case
              /\ executor.part = "evidence" <=>
                    m.category \in {Suites[suite].evidence[x].category : x \in DOMAIN Suites[suite].evidence}
              /\ executor.part = "evidence" =>
                    {x \in DOMAIN Suites[suite].evidence :
                        Suites[suite].evidence[x].category = m.category} = {executor.field}
        /\ passed = SelectSeq([n \in DOMAIN Fixtures |-> Fixtures[n].case],
                              LAMBDA id : id # Fixtures[executor.at].case)
        /\ Cardinality(mismatches) <= Suites[suite].max

(* The claims no row of a table can refute: a stream case never drops a    *)
(* pending resolver, and no GET row carries a body.                        *)
OneSided == {<<"provider_stream", "resolver_dropped">>, <<"get", "body_absent">>}

(* An adapter whose probe answers a constant, or answers from the call     *)
(* count alone what it should read off the prepared request, does not pass *)
(* (controlled_query.rs:44, controlled_user_agent.rs:457, header_auth.rs:36,*)
(* quota.rs:34), the one-sided claims excepted.                            *)
HardcodedProbeCaught ==
    progress = "done" /\ executor.kind \in {"hardcoded", "reached"} =>
        mismatches # {} \/ <<suite, executor.field>> \in OneSided

(* A wrong adapter fails, and for what it got wrong: the two together, for *)
(* every kind of wrong adapter the runners of south-testkit can meet       *)
(* (record_if and the report of every runner).                             *)
WrongAdaptersFail == DeviationReported /\ HardcodedProbeCaught
=============================================================================
