----------------------------- MODULE CallSuites -----------------------------
(***************************************************************************)
(* The canonical fixture tables of south-provider-conformance and what the *)
(* runners of south-testkit compare.  A fixture is a raw input, what the   *)
(* scripted upstream does, the expected outcome and the expected boundary  *)
(* evidence.  Values the suites never tell apart (endpoint, bodies of the  *)
(* same kind, metadata texts) are one model value each.                    *)
(***************************************************************************)
EXTENDS Naturals, Sequences, TLC

None == "None"

(* ProviderCallCountV1::from_count *)
CountOf(n) == IF n = 0 THEN "Zero" ELSE IF n = 1 THEN "One" ELSE "MoreThanOne"

Counts == {"Zero", "One", "MoreThanOne"}

(* The closed failure codes of the buffered suites ... *)
FailureCodes ==
    {"InvalidEndpoint", "InvalidRelativePath", "InvalidCredentialSlot", "InvalidJsonBody",
     "RequestBodyTooLarge", "UrlOutsideBinding", "CredentialBindingMismatch",
     "CredentialResolutionFailed", "Cancelled", "DeadlineExceeded", "ClientBuildFailed",
     "TransportTimeout", "ConnectFailed", "RequestFailed", "ResponseReadFailed",
     "ResponseBodyTooLarge", "ResponseBodyNotUtf8", "ResponseMetadataInvalid", "RedirectDenied"}

(* ... into which a refused contract value folds, a newer error included, *)
map_contract_error(error) ==
    IF error \in {"InvalidEndpoint", "InvalidRelativePath", "InvalidCredentialSlot",
                  "InvalidJsonBody", "RequestBodyTooLarge"}
    THEN error
    ELSE IF error \in {"InvalidQueryValue", "DuplicateQueryParameter", "EmptyQuery", "QueryTooLarge",
                       "InvalidUserAgentValue", "InvalidMultipartBoundary", "InvalidMultipartBody",
                       "ContentTypeHeaderNotPermitted", "UnsupportedTextMediaType",
                       "InvalidQueryDeclaration"}
    THEN "InvalidRelativePath"
    ELSE "RequestFailed"

(* ... a header the policy refuses, *)
header_policy_error_code == "RequestFailed"

(* ... and the outcome of a call that returned no response.                *)
map_provider_call_error(result, error) ==
    IF result = "TransportError" THEN error
    ELSE IF result = "DestinationRefused" THEN "UrlOutsideBinding"
    ELSE IF result \in {"CredentialBindingMismatch", "CredentialResolutionFailed",
                        "Cancelled", "DeadlineExceeded"} THEN result
    ELSE "RequestFailed"

Response(status, body, content_type, retry_after) ==
    [kind |-> "Response", status |-> status, body |-> body,
     content_type |-> content_type, retry_after |-> retry_after]

Opened(status, content_type, retry_after, chunks) ==
    [kind |-> "Opened", status |-> status, content_type |-> content_type,
     retry_after |-> retry_after, chunks |-> chunks]

Rejected(status, content_type, retry_after, body) ==
    [kind |-> "Rejected", status |-> status, content_type |-> content_type,
     retry_after |-> retry_after, body |-> body]

Failure(code) == [kind |-> "Failure", code |-> code]

TransportFailure(error) == [kind |-> "TransportFailure", error |-> error]

Stream(content_type, chunks, terminal) ==
    [kind |-> "Stream", status |-> 200, content_type |-> content_type, retry_after |-> None,
     chunks |-> chunks, terminal |-> terminal]

NotReached == [kind |-> "NotReached"]

NeverAnswers == [kind |-> "Pending"]

Statuses == {200, 201, 429, 502}

Texts == {None, "type", "retry"}

Bodies == {"json", "bytes", "over_text", "over_binary", "over_error", "at_error", "other"}

(* A raw input and its driver; a fixture states only where it differs.     *)
Defaults ==
    [entry |-> "json", arm |-> "Bearer", control |-> "Complete", path |-> "contained",
     slot |-> "bound", header |-> "ordinary", declares |-> {}, body |-> "json",
     user_agent |-> {}, query |-> <<>>, echoes |-> {}]

Fixture(case, differing, upstream, expected, evidence) ==
    differing @@ [case |-> case, upstream |-> upstream, expected |-> expected,
                  evidence |-> evidence, transcript |-> {}] @@ Defaults

(* The fields of an outcome and of the evidence, what each may be, and the *)
(* mismatch category the runner files a difference under.                  *)
Field(category, values) == [category |-> category, values |-> values]

ResponseFields ==
    [status |-> Field("Status", Statuses), body |-> Field("Body", Bodies),
     content_type |-> Field("ContentType", Texts), retry_after |-> Field("RetryAfter", Texts)]

OpenedFields ==
    [status |-> Field("Status", Statuses), content_type |-> Field("ContentType", Texts),
     retry_after |-> Field("RetryAfter", Texts),
     chunks |-> Field("ChunkBytes", {<<>>, <<"a">>, <<"a", "b">>, <<"a", "b", "c">>})]

RejectedFields ==
    [status |-> Field("Status", Statuses), content_type |-> Field("ContentType", Texts),
     retry_after |-> Field("RetryAfter", Texts), body |-> Field("RejectedBody", Bodies)]

CallFields == [resolver |-> Field("ResolverCallCount", Counts),
               transport |-> Field("TransportCallCount", Counts)]
-----------------------------------------------------------------------------
(* south.provider-call.v1: lib.rs of both crates.                          *)

CallCaseIds ==
    {"Success", "InvalidRelativePath", "CredentialSlotMismatch", "RedirectDenied",
     "ResponseBodyTooLarge", "Cancelled", "DeadlineExceeded"}

CallEvidence(resolver, transport, resolver_dropped, transport_dropped) ==
    [resolver |-> resolver, transport |-> transport,
     resolver_dropped |-> resolver_dropped, transport_dropped |-> transport_dropped]

CallFixtures ==
    <<Fixture("Success", <<>>, Response(201, "json", "type", "retry"),
              Response(201, "json", "type", "retry"), CallEvidence("One", "One", FALSE, FALSE)),
      Fixture("InvalidRelativePath", [path |-> "escaping"], NotReached,
              Failure("InvalidRelativePath"), CallEvidence("Zero", "Zero", FALSE, FALSE)),
      Fixture("CredentialSlotMismatch", [slot |-> "other"], NotReached,
              Failure("CredentialBindingMismatch"), CallEvidence("Zero", "Zero", FALSE, FALSE)),
      Fixture("RedirectDenied", <<>>, TransportFailure("RedirectDenied"),
              Failure("RedirectDenied"), CallEvidence("One", "One", FALSE, FALSE)),
      Fixture("ResponseBodyTooLarge", <<>>, TransportFailure("ResponseBodyTooLarge"),
              Failure("ResponseBodyTooLarge"), CallEvidence("One", "One", FALSE, FALSE)),
      Fixture("Cancelled", [control |-> "CancelWhileResolverPending"], NotReached,
              Failure("Cancelled"), CallEvidence("One", "Zero", TRUE, FALSE)),
      Fixture("DeadlineExceeded", [control |-> "ExpireWhileTransportPending"], NeverAnswers,
              Failure("DeadlineExceeded"), CallEvidence("One", "One", FALSE, TRUE))>>

CallOutcomeFields == [Response |-> ResponseFields, Failure |-> [code |-> Field("ErrorCode", FailureCodes)]]

CallEvidenceFields ==
    CallFields @@ [resolver_dropped |-> Field("ResolverPendingDrop", BOOLEAN),
                   transport_dropped |-> Field("TransportPendingDrop", BOOLEAN)]

CallSuite == [cases |-> CallCaseIds, fixtures |-> CallFixtures, outcome |-> CallOutcomeFields,
              evidence |-> CallEvidenceFields, max |-> 70]
-----------------------------------------------------------------------------
(* south.provider-stream.v1: stream.rs of both crates.                     *)

StreamCaseIds ==
    {"StreamSuccess", "RejectedUpstreamStatus", "RedirectDenied", "CancelBetweenChunks",
     "IdleTimeoutMidStream", "DeadlineMidStream", "UpstreamBreakMidStream",
     "InvalidRelativePath", "ErrorBodyTooLargeIsTruncated"}

StreamReadErrors ==
    {None, "StreamReadFailed", "StreamIdleTimeout", "StreamDeadlineExceeded", "StreamCancelled",
     "ChunkNotDeliverable"}

StreamEvidence(resolver, transport, transport_dropped, pulled, poststream) ==
    [resolver |-> resolver, transport |-> transport, resolver_dropped |-> FALSE,
     transport_dropped |-> transport_dropped, pulled |-> pulled, poststream |-> poststream]

StreamFixtures ==
    <<Fixture("StreamSuccess", [entry |-> "open"], Stream("type", <<"a", "b", "c">>, "CleanEof"),
              Opened(200, "type", None, <<"a", "b", "c">>),
              StreamEvidence("One", "One", FALSE, 3, None)),
      Fixture("RejectedUpstreamStatus", [entry |-> "open"], Rejected(429, "type", "retry", "json"),
              Rejected(429, "type", "retry", "json"), StreamEvidence("One", "One", FALSE, 0, None)),
      Fixture("RedirectDenied", [entry |-> "open"], TransportFailure("RedirectDenied"),
              Failure("RedirectDenied"), StreamEvidence("One", "One", FALSE, 0, None)),
      Fixture("CancelBetweenChunks", [entry |-> "open", control |-> "CancelWhileChunkPending"],
              Stream("type", <<"a">>, "PendingForever"), Opened(200, "type", None, <<"a">>),
              StreamEvidence("One", "One", TRUE, 1, "StreamCancelled")),
      Fixture("IdleTimeoutMidStream", [entry |-> "open", control |-> "AdvanceIdleWhileChunkPending"],
              Stream("type", <<"a">>, "IdleStall"), Opened(200, "type", None, <<"a">>),
              StreamEvidence("One", "One", FALSE, 1, "StreamIdleTimeout")),
      Fixture("DeadlineMidStream", [entry |-> "open", control |-> "ExpireWhileChunkPending"],
              Stream("type", <<"a">>, "PendingForever"), Opened(200, "type", None, <<"a">>),
              StreamEvidence("One", "One", TRUE, 1, "StreamDeadlineExceeded")),
      Fixture("UpstreamBreakMidStream", [entry |-> "open"], Stream("type", <<"a">>, "Break"),
              Opened(200, "type", None, <<"a">>),
              StreamEvidence("One", "One", FALSE, 1, "StreamReadFailed")),
      Fixture("InvalidRelativePath", [entry |-> "open", path |-> "escaping"], NotReached,
              Failure("InvalidRelativePath"), StreamEvidence("Zero", "Zero", FALSE, 0, None)),
      Fixture("ErrorBodyTooLargeIsTruncated", [entry |-> "open"],
              Rejected(502, None, None, "over_error"), Rejected(502, None, None, "at_error"),
              StreamEvidence("One", "One", FALSE, 0, None))>>

StreamOutcomeFields ==
    [Opened |-> OpenedFields, Rejected |-> RejectedFields,
     Failure |-> [code |-> Field("ErrorCode", FailureCodes)]]

StreamEvidenceFields ==
    CallEvidenceFields @@ [pulled |-> Field("ChunksPulled", 0..3),
                           poststream |-> Field("PoststreamErrorCode", StreamReadErrors)]

StreamSuite == [cases |-> StreamCaseIds, fixtures |-> StreamFixtures, outcome |-> StreamOutcomeFields,
                evidence |-> StreamEvidenceFields, max |-> 117]
-----------------------------------------------------------------------------
(* south.header-auth.v1: header_auth.rs of both crates.                    *)

HeaderAuthCaseIds ==
    {"BufferedHeaderSecretSuccess", "StreamingHeaderSecretSuccess", "HeaderSecretSlotMismatch",
     "BufferedBearerAndHeaderSecretSuccess", "BufferedDeclaredHeaderSecretSuccess",
     "DeclaredHeaderSmuggledThroughOrdinaryChannel", "DeclaredHeaderRedactedFromTranscript"}

HeaderAuthEvidence(calls, exact, absent) ==
    [resolver |-> calls, transport |-> calls, sanctioned_exact |-> exact,
     authorization_absent |-> absent]

HeaderAuthFixtures ==
    <<Fixture("BufferedHeaderSecretSuccess", [arm |-> "HeaderSecret"],
              Response(201, "json", "type", "retry"), Response(201, "json", "type", "retry"),
              HeaderAuthEvidence("One", TRUE, TRUE)),
      Fixture("StreamingHeaderSecretSuccess", [arm |-> "HeaderSecret", entry |-> "open"],
              Stream("type", <<"a", "b">>, "CleanEof"), Opened(200, "type", None, <<"a", "b">>),
              HeaderAuthEvidence("One", TRUE, TRUE)),
      Fixture("HeaderSecretSlotMismatch", [arm |-> "HeaderSecret", slot |-> "other"], NotReached,
              Failure("CredentialBindingMismatch"), HeaderAuthEvidence("Zero", FALSE, TRUE)),
      Fixture("BufferedBearerAndHeaderSecretSuccess", [arm |-> "BearerAndHeaderSecret"],
              Response(200, "json", "type", None), Response(200, "json", "type", None),
              HeaderAuthEvidence("One", TRUE, FALSE)),
      Fixture("BufferedDeclaredHeaderSecretSuccess",
              [arm |-> "DeclaredHeaderSecret", declares |-> {"declared"}],
              Response(201, "json", "type", "retry"), Response(201, "json", "type", "retry"),
              HeaderAuthEvidence("One", TRUE, TRUE)),
      Fixture("DeclaredHeaderSmuggledThroughOrdinaryChannel",
              [arm |-> "DeclaredHeaderSecret", declares |-> {"declared"}, header |-> "declared"],
              NotReached, Failure("RequestFailed"), HeaderAuthEvidence("Zero", FALSE, TRUE)),
      Fixture("DeclaredHeaderRedactedFromTranscript",
              [arm |-> "DeclaredHeaderSecret", declares |-> {"declared"},
               echoes |-> {"declared", "sanctioned", "control"},
               transcript |-> {[retained |-> {"control"}, redacted |-> {"declared", "sanctioned"}]}],
              Response(200, "json", "type", None), Response(200, "json", "type", None),
              HeaderAuthEvidence("One", TRUE, TRUE))>>

HeaderAuthOutcomeFields ==
    [Response |-> ResponseFields, Opened |-> OpenedFields,
     Failure |-> [code |-> Field("ErrorCode", FailureCodes)]]

HeaderAuthEvidenceFields ==
    CallFields @@ [sanctioned_exact |-> Field("SanctionedHeader", BOOLEAN),
                   authorization_absent |-> Field("AuthorizationPresence", BOOLEAN)]

(* compare_transcript: a row without an expectation accepts any transcript. *)
compare_transcript(expected, observed) ==
    IF \A t \in expected : t.retained \subseteq observed /\ t.redacted \intersect observed = {}
    THEN {} ELSE {"Transcript"}

HeaderAuthSuite == [cases |-> HeaderAuthCaseIds, fixtures |-> HeaderAuthFixtures,
                    outcome |-> HeaderAuthOutcomeFields,
                    evidence |-> HeaderAuthEvidenceFields, max |-> 84]
-----------------------------------------------------------------------------
(* south.provider-quota-metadata.v1: quota.rs of both crates.              *)

QuotaCaseIds == {"AllFields", "NoFields", "CredentialSlotMismatch"}

QuotaNames ==
    {"XRateLimitLimitTokens", "XRateLimitRemainingTokens", "XRateLimitResetTokens",
     "AnthropicRateLimitTokensLimit", "AnthropicRateLimitTokensRemaining",
     "AnthropicRateLimitTokensReset", "AnthropicRateLimitUnifiedLimit",
     "AnthropicRateLimitUnifiedRemaining", "AnthropicRateLimitUnifiedReset"}

Metadata(value) == [kind |-> "Metadata"] @@ [name \in QuotaNames |-> value]

\* Mutant: the table without its refusal row.
QuotaFixturesSuccessesOnly ==
    <<Fixture("AllFields", <<>>, Metadata("given"), Metadata("given"),
              [resolver |-> "One", transport |-> "One"]),
      Fixture("NoFields", <<>>, Metadata(None), Metadata(None),
              [resolver |-> "One", transport |-> "One"])>>

QuotaFixtures ==
    <<Fixture("AllFields", <<>>, Metadata("given"), Metadata("given"),
              [resolver |-> "One", transport |-> "One"]),
      Fixture("NoFields", <<>>, Metadata(None), Metadata(None),
              [resolver |-> "One", transport |-> "One"]),
      Fixture("CredentialSlotMismatch", [slot |-> "other"], NotReached,
              Failure("CredentialBindingMismatch"), [resolver |-> "Zero", transport |-> "Zero"])>>

QuotaOutcomeFields ==
    [Metadata |-> [name \in QuotaNames |-> Field(name, {None, "given"})],
     Failure |-> [code |-> Field("FailureCode", FailureCodes)]]

QuotaSuite == [cases |-> QuotaCaseIds, fixtures |-> QuotaFixtures, outcome |-> QuotaOutcomeFields,
               evidence |-> CallFields, max |-> 39]
-----------------------------------------------------------------------------
(***************************************************************************)
(* The suites of south-provider-conformance whose evidence is read off the *)
(* prepared request: the controlled user agent and query, the buffered GET,*)
(* the binary response, and the multipart and text bodies.                 *)
(***************************************************************************)

Full == Response(200, "json", "type", None)

Hinted == Response(201, "json", "type", "retry")

Plain == Response(200, "json", None, None)

Audio == Response(200, "bytes", "type", None)

TwoChunks == Stream("type", <<"a", "b">>, "CleanEof")

TwoChunksOpened == Opened(200, "type", None, <<"a", "b">>)

-----------------------------------------------------------------------------
(* south.controlled-user-agent.v1                                          *)

UserAgentCaseIds ==
    {"BufferedUserAgentSuccess", "StreamingUserAgentSuccess", "InvalidUserAgentValueRejected",
     "UserAgentFreeRequestReachesTheWire", "ReservedHeaderDeclarationStillRejected",
     "BufferedDeclaredUserAgentSuccess", "StreamingDeclaredUserAgentSuccess",
     "DeclaredUserAgentWithLineBreakRejected"}

(* Where the value comes from, and whether the grammar admits it. *)
UserAgent(source, admitted) == [source |-> source, admitted |-> admitted]

UserAgentEvidence(calls, exact) ==
    [resolver |-> calls, transport |-> calls, user_agent_exact |-> exact]

UserAgentFixtures ==
    <<Fixture("BufferedUserAgentSuccess", [user_agent |-> {UserAgent("HostLiteral", TRUE)}],
              Hinted, Hinted, UserAgentEvidence("One", TRUE)),
      Fixture("StreamingUserAgentSuccess",
              [user_agent |-> {UserAgent("HostLiteral", TRUE)}, entry |-> "open"],
              TwoChunks, TwoChunksOpened, UserAgentEvidence("One", TRUE)),
      Fixture("InvalidUserAgentValueRejected", [user_agent |-> {UserAgent("HostLiteral", FALSE)}],
              NotReached, Failure("InvalidRelativePath"), UserAgentEvidence("Zero", FALSE)),
      Fixture("UserAgentFreeRequestReachesTheWire", <<>>, Plain, Plain,
              UserAgentEvidence("One", FALSE)),
      Fixture("ReservedHeaderDeclarationStillRejected", [header |-> "user-agent"],
              NotReached, Failure("RequestFailed"), UserAgentEvidence("Zero", FALSE)),
      Fixture("BufferedDeclaredUserAgentSuccess", [user_agent |-> {UserAgent("Manifest", TRUE)}],
              Full, Full, UserAgentEvidence("One", TRUE)),
      Fixture("StreamingDeclaredUserAgentSuccess",
              [user_agent |-> {UserAgent("Manifest", TRUE)}, entry |-> "open"],
              TwoChunks, TwoChunksOpened, UserAgentEvidence("One", TRUE)),
      Fixture("DeclaredUserAgentWithLineBreakRejected",
              [user_agent |-> {UserAgent("Manifest", FALSE)}],
              NotReached, Failure("InvalidRelativePath"), UserAgentEvidence("Zero", FALSE))>>

UserAgentOutcomeFields ==
    [Response |-> ResponseFields, Opened |-> OpenedFields,
     Failure |-> [code |-> Field("ErrorCode", FailureCodes)]]

UserAgentEvidenceFields == CallFields @@ [user_agent_exact |-> Field("WireUserAgent", BOOLEAN)]

UserAgentSuite == [cases |-> UserAgentCaseIds, fixtures |-> UserAgentFixtures,
                   outcome |-> UserAgentOutcomeFields, evidence |-> UserAgentEvidenceFields, max |-> 80]

(* declared_user_agent: the literal and the manifest value meet the same grammar. *)
declare_user_agent(f) ==
    IF \E agent \in f.user_agent : ~agent.admitted
    THEN map_contract_error("InvalidUserAgentValue") ELSE None
-----------------------------------------------------------------------------
(* south.controlled-query.v1                                               *)

QueryCaseIds ==
    {"BufferedQuerySuccess", "StreamingQuerySuccess", "InvalidQueryValueRejected",
     "ReversedDeclarationOrderIsCanonicalized", "QueryFreeRequestReachesTheWire",
     "BufferedGroupIdQuerySuccess", "BufferedDeclaredQuerySuccess",
     "DeclaredQueryValueOutsideSyntaxRejected", "ReservedDeclaredNameRejected"}

SanctionedParameters == <<"api-version", "alt", "GroupId", "task_id", "file_id">>

(* One parameter of a declared query: a sanctioned one, or one a package   *)
(* declares, whose name may be reserved; and whether its value is admitted.*)
Parameter(name, admitted) == [name |-> name, reserved |-> FALSE, admitted |-> admitted]

QueryEvidence(calls, exact) == [resolver |-> calls, transport |-> calls, query_exact |-> exact]

QueryFixtures ==
    <<Fixture("BufferedQuerySuccess", [query |-> <<Parameter("api-version", TRUE)>>],
              Hinted, Hinted, QueryEvidence("One", TRUE)),
      Fixture("StreamingQuerySuccess", [query |-> <<Parameter("alt", TRUE)>>, entry |-> "open"],
              TwoChunks, TwoChunksOpened, QueryEvidence("One", TRUE)),
      Fixture("InvalidQueryValueRejected", [query |-> <<Parameter("api-version", FALSE)>>],
              NotReached, Failure("InvalidRelativePath"), QueryEvidence("Zero", FALSE)),
      Fixture("ReversedDeclarationOrderIsCanonicalized",
              [query |-> <<Parameter("alt", TRUE), Parameter("api-version", TRUE)>>],
              Full, Full, QueryEvidence("One", TRUE)),
      Fixture("QueryFreeRequestReachesTheWire", <<>>, Plain, Plain, QueryEvidence("One", FALSE)),
      Fixture("BufferedGroupIdQuerySuccess", [query |-> <<Parameter("GroupId", TRUE)>>],
              Full, Full, QueryEvidence("One", TRUE)),
      Fixture("BufferedDeclaredQuerySuccess",
              [query |-> <<Parameter("api-version", TRUE), Parameter("declared-mode", TRUE)>>],
              Full, Full, QueryEvidence("One", TRUE)),
      Fixture("DeclaredQueryValueOutsideSyntaxRejected",
              [query |-> <<Parameter("declared-region", FALSE)>>],
              NotReached, Failure("InvalidRelativePath"), QueryEvidence("Zero", FALSE)),
      Fixture("ReservedDeclaredNameRejected",
              [query |-> <<[name |-> "api_key", reserved |-> TRUE, admitted |-> TRUE]>>],
              NotReached, Failure("InvalidRelativePath"), QueryEvidence("Zero", FALSE))>>

QueryOutcomeFields ==
    [Response |-> ResponseFields, Opened |-> OpenedFields,
     Failure |-> [code |-> Field("ErrorCode", FailureCodes)]]

QueryEvidenceFields == CallFields @@ [query_exact |-> Field("WireQuery", BOOLEAN)]

QuerySuite == [cases |-> QueryCaseIds, fixtures |-> QueryFixtures,
               outcome |-> QueryOutcomeFields, evidence |-> QueryEvidenceFields, max |-> 90]

(* declared_query: the declared names first, then the values. *)
declare_query(f) ==
    IF \E k \in DOMAIN f.query : f.query[k].reserved
    THEN map_contract_error("InvalidQueryDeclaration")
    ELSE IF \E k \in DOMAIN f.query : ~f.query[k].admitted
    THEN map_contract_error("InvalidQueryValue") ELSE None

(* QueryStringV1::try_from_iter: the sanctioned parameters in their order, *)
(* then the declared ones (the tables declare at most one).                *)
QueryString(query) ==
    LET names == {query[k].name : k \in DOMAIN query}
        sanctioned == SelectSeq(SanctionedParameters, LAMBDA name : name \in names)
        Declared(p) == \A k \in DOMAIN SanctionedParameters : SanctionedParameters[k] # p.name
    IN  sanctioned \o [k \in DOMAIN SelectSeq(query, Declared) |-> SelectSeq(query, Declared)[k].name]
-----------------------------------------------------------------------------
(* south.provider-get.v1                                                   *)

GetCaseIds ==
    {"BufferedGetBearerSuccess", "BufferedGetHeaderSecretSuccess", "GetSlotMismatch",
     "BufferedGetTaskIdQuerySuccess"}

GetEvidence(calls, reached, query_exact) ==
    [resolver |-> calls, transport |-> calls, method_get |-> reached, body_absent |-> TRUE,
     query_exact |-> query_exact, auth_exact |-> reached]

GetFixtures ==
    <<Fixture("BufferedGetBearerSuccess", [entry |-> "get"],
              Response(200, "json", "type", "retry"), Response(200, "json", "type", "retry"),
              GetEvidence("One", TRUE, FALSE)),
      Fixture("BufferedGetHeaderSecretSuccess", [entry |-> "get", arm |-> "HeaderSecret"],
              Full, Full, GetEvidence("One", TRUE, FALSE)),
      Fixture("GetSlotMismatch", [entry |-> "get", slot |-> "other"], NotReached,
              Failure("CredentialBindingMismatch"), GetEvidence("Zero", FALSE, FALSE)),
      Fixture("BufferedGetTaskIdQuerySuccess",
              [entry |-> "get", query |-> <<Parameter("task_id", TRUE)>>],
              Full, Full, GetEvidence("One", TRUE, TRUE))>>

GetOutcomeFields == [Response |-> ResponseFields, Failure |-> [code |-> Field("ErrorCode", FailureCodes)]]

GetEvidenceFields ==
    CallFields @@ [method_get |-> Field("WireMethod", BOOLEAN),
                   body_absent |-> Field("WireBody", BOOLEAN),
                   query_exact |-> Field("WireQuery", BOOLEAN),
                   auth_exact |-> Field("WireAuth", BOOLEAN)]

GetSuite == [cases |-> GetCaseIds, fixtures |-> GetFixtures,
             outcome |-> GetOutcomeFields, evidence |-> GetEvidenceFields, max |-> 48]
-----------------------------------------------------------------------------
(* south.provider-binary.v1                                                *)

BinaryCaseIds ==
    {"BinarySuccessNonUtf8Body", "BinaryRejectionCarriesJsonBody",
     "BinaryBodyAboveTextCapSucceeds", "BinaryBodyAboveBinaryCapRefused", "BinarySlotMismatch",
     "TextArmStillRefusesNonUtf8"}

BinaryEvidence(calls, observed, exact) ==
    [resolver |-> calls, transport |-> calls, binary_observed |-> observed, returned_exact |-> exact]

BinaryFixtures ==
    <<Fixture("BinarySuccessNonUtf8Body", [entry |-> "binary"], Audio, Audio,
              BinaryEvidence("One", TRUE, TRUE)),
      Fixture("BinaryRejectionCarriesJsonBody", [entry |-> "binary"],
              Response(429, "json", "type", "retry"), Response(429, "json", "type", "retry"),
              BinaryEvidence("One", TRUE, TRUE)),
      Fixture("BinaryBodyAboveTextCapSucceeds", [entry |-> "binary"],
              Response(200, "over_text", "type", None), Response(200, "over_text", "type", None),
              BinaryEvidence("One", TRUE, TRUE)),
      Fixture("BinaryBodyAboveBinaryCapRefused", [entry |-> "binary"],
              Response(200, "over_binary", "type", None), Failure("ResponseBodyTooLarge"),
              BinaryEvidence("One", TRUE, FALSE)),
      Fixture("BinarySlotMismatch", [entry |-> "binary", slot |-> "other"], NotReached,
              Failure("CredentialBindingMismatch"), BinaryEvidence("Zero", FALSE, FALSE)),
      Fixture("TextArmStillRefusesNonUtf8", <<>>, Audio, Failure("ResponseBodyNotUtf8"),
              BinaryEvidence("One", FALSE, FALSE))>>

BinaryOutcomeFields ==
    [Response |-> ResponseFields, Failure |-> [code |-> Field("ErrorCode", FailureCodes)]]

BinaryEvidenceFields ==
    CallFields @@ [binary_observed |-> Field("WireBinaryResponse", BOOLEAN),
                   returned_exact |-> Field("WireBodyBytes", BOOLEAN)]

BinarySuite == [cases |-> BinaryCaseIds, fixtures |-> BinaryFixtures,
                outcome |-> BinaryOutcomeFields, evidence |-> BinaryEvidenceFields, max |-> 60]
-----------------------------------------------------------------------------
(* south.provider-media-binary.v1                                          *)

MediaCaseIds ==
    {"MultipartBinarySuccess", "MultipartBinaryRejectionCarriesBody", "TextBinaryBearerSuccess",
     "TextBinaryHeaderSecretSuccess", "TextBinarySlotMismatch", "TextContentTypeSmuggled"}

MediaEvidence(calls, reached) ==
    [resolver |-> calls, transport |-> calls, content_type_exact |-> reached,
     request_exact |-> reached, binary_observed |-> reached, auth_exact |-> reached]

MediaFixtures ==
    <<Fixture("MultipartBinarySuccess", [entry |-> "binary", body |-> "multipart"], Audio, Audio,
              MediaEvidence("One", TRUE)),
      Fixture("MultipartBinaryRejectionCarriesBody",
              [entry |-> "binary", body |-> "multipart", arm |-> "HeaderSecret"],
              Response(429, "json", "type", "retry"), Response(429, "json", "type", "retry"),
              MediaEvidence("One", TRUE)),
      Fixture("TextBinaryBearerSuccess", [entry |-> "binary", body |-> "text"], Audio, Audio,
              MediaEvidence("One", TRUE)),
      Fixture("TextBinaryHeaderSecretSuccess",
              [entry |-> "binary", body |-> "text", arm |-> "HeaderSecret"], Audio, Audio,
              MediaEvidence("One", TRUE)),
      Fixture("TextBinarySlotMismatch", [entry |-> "binary", body |-> "text", slot |-> "other"],
              NotReached, Failure("CredentialBindingMismatch"), MediaEvidence("Zero", FALSE)),
      Fixture("TextContentTypeSmuggled",
              [entry |-> "binary", body |-> "text", header |-> "content-type"],
              NotReached, Failure("InvalidRelativePath"), MediaEvidence("Zero", FALSE))>>

MediaOutcomeFields ==
    [Response |-> ResponseFields, Failure |-> [code |-> Field("ErrorCode", FailureCodes)]]

MediaEvidenceFields ==
    CallFields @@ [content_type_exact |-> Field("WireContentType", BOOLEAN),
                   request_exact |-> Field("WireRequestBody", BOOLEAN),
                   binary_observed |-> Field("WireBinaryResponse", BOOLEAN),
                   auth_exact |-> Field("WireAuth", BOOLEAN)]

MediaSuite == [cases |-> MediaCaseIds, fixtures |-> MediaFixtures,
               outcome |-> MediaOutcomeFields, evidence |-> MediaEvidenceFields, max |-> 72]
-----------------------------------------------------------------------------
(* south.provider-multipart.v1                                             *)

MultipartCaseIds ==
    {"BufferedMultipartBearerSuccess", "BufferedMultipartHeaderSecretSuccess",
     "MultipartSlotMismatch", "MultipartBodyBoundaryMismatch", "MultipartContentTypeSmuggled"}

MultipartEvidence(calls, reached) ==
    [resolver |-> calls, transport |-> calls, content_type_exact |-> reached,
     request_exact |-> reached, auth_exact |-> reached]

MultipartFixtures ==
    <<Fixture("BufferedMultipartBearerSuccess", [body |-> "multipart"], Full, Full,
              MultipartEvidence("One", TRUE)),
      Fixture("BufferedMultipartHeaderSecretSuccess",
              [body |-> "multipart", arm |-> "HeaderSecret"], Full, Full,
              MultipartEvidence("One", TRUE)),
      Fixture("MultipartSlotMismatch", [body |-> "multipart", slot |-> "other"], NotReached,
              Failure("CredentialBindingMismatch"), MultipartEvidence("Zero", FALSE)),
      Fixture("MultipartBodyBoundaryMismatch", [body |-> "other_boundary"], NotReached,
              Failure("InvalidRelativePath"), MultipartEvidence("Zero", FALSE)),
      Fixture("MultipartContentTypeSmuggled", [body |-> "multipart", header |-> "content-type"],
              NotReached, Failure("InvalidRelativePath"), MultipartEvidence("Zero", FALSE))>>

MultipartOutcomeFields ==
    [Response |-> ResponseFields, Failure |-> [code |-> Field("ErrorCode", FailureCodes)]]

MultipartEvidenceFields ==
    CallFields @@ [content_type_exact |-> Field("WireContentType", BOOLEAN),
                   request_exact |-> Field("WireBodyBytes", BOOLEAN),
                   auth_exact |-> Field("WireAuth", BOOLEAN)]

MultipartSuite == [cases |-> MultipartCaseIds, fixtures |-> MultipartFixtures,
                   outcome |-> MultipartOutcomeFields, evidence |-> MultipartEvidenceFields, max |-> 55]
=============================================================================
