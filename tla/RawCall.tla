------------------------------- MODULE RawCall -------------------------------
(***************************************************************************)
(* A host's untyped call on its way to the wire and its answer on the way  *)
(* back: the contracts' constructors (south-contracts/src/lib.rs,          *)
(* declared.rs, secret_header.rs), the raw entry points                    *)
(* (south-core/src/raw.rs), the assembly of the prepared request and of    *)
(* the header map, and the metadata read off the response.                 *)
(*                                                                         *)
(* A header name stands for all its spellings (every comparison in the     *)
(* code is made in lower case); a value is its size and whether it is well *)
(* formed; a path is a sequence of segments of SegmentTable.               *)
(***************************************************************************)
EXTENDS Naturals, Sequences, FiniteSets, SequencesExt, FiniteSetsExt

CONSTANTS MAX_PROVIDER_HEADER_COUNT, MAX_PROVIDER_HEADER_TOTAL_BYTES, MAX_QUERY_TOTAL_BYTES,
          MAX_DECLARED_SECRET_HEADERS, MAX_RESPONSE_TRANSCRIPT_COUNT,
          MAX_RESPONSE_TRANSCRIPT_TOTAL_BYTES,
          MAX_METADATA_VALUE_BYTES,  \* the one bound of every metadata value
          ResponseHeaders            \* the header lists an upstream may answer

VARIABLES raw, at, failure, request, wire, response, metadata

rawVars == <<raw, at, failure, request, wire, response, metadata>>
-----------------------------------------------------------------------------
RESERVED_HEADERS == {
    "api-key", "authorization", "connection", "content-length", "cookie", "expect", "host",
    "keep-alive", "ocp-apim-subscription-key", "proxy-authorization", "proxy-connection",
    "set-cookie", "te", "trailer", "transfer-encoding", "upgrade", "user-agent",
    "x-amz-content-sha256", "x-amz-date", "x-amz-security-token", "x-api-key", "x-goog-api-key",
    "xi-api-key"}

RESPONSE_TRANSCRIPT_DENIED_HEADERS == {
    "api-key", "authorization", "connection", "keep-alive", "ocp-apim-subscription-key",
    "proxy-authenticate", "proxy-authorization", "proxy-connection", "set-cookie", "set-cookie2",
    "te", "trailer", "transfer-encoding", "upgrade", "x-api-key", "x-goog-api-key", "xi-api-key"}

ProviderQuotaMetadataField == {
    "x-ratelimit-limit-tokens", "x-ratelimit-remaining-tokens", "x-ratelimit-reset-tokens",
    "anthropic-ratelimit-tokens-limit", "anthropic-ratelimit-tokens-remaining",
    "anthropic-ratelimit-tokens-reset", "anthropic-ratelimit-unified-limit",
    "anthropic-ratelimit-unified-remaining", "anthropic-ratelimit-unified-reset"}

ResponseDiagnosticField == {
    "x-request-id", "request-id", "anthropic-request-id", "openai-organization",
    "openai-processing-ms", "openai-version", "cf-ray", "server"}

SecretHeader == {"api-key", "x-api-key", "x-goog-api-key", "xi-api-key", "ocp-apim-subscription-key"}

SignedHeader == {"authorization", "x-amz-date", "x-amz-content-sha256", "x-amz-security-token"}

UNDECLARABLE_SECRET_HEADER_NAMES == {
    "accept", "accept-encoding", "anthropic-ratelimit-tokens-limit",
    "anthropic-ratelimit-tokens-remaining", "anthropic-ratelimit-tokens-reset",
    "anthropic-ratelimit-unified-limit", "anthropic-ratelimit-unified-remaining",
    "anthropic-ratelimit-unified-reset", "anthropic-request-id", "api-key", "authorization",
    "cf-ray", "connection", "content-encoding", "content-length", "content-type", "cookie",
    "expect", "forwarded", "host", "http2-settings", "keep-alive", "ocp-apim-subscription-key",
    "openai-organization", "openai-processing-ms", "openai-version", "proxy-authenticate",
    "proxy-authorization", "proxy-connection", "request-id", "retry-after", "server", "set-cookie",
    "set-cookie2", "te", "trailer", "transfer-encoding", "upgrade", "user-agent", "via",
    "www-authenticate", "x-amz-content-sha256", "x-amz-date", "x-amz-security-token", "x-api-key",
    "x-goog-api-key", "x-ratelimit-limit-tokens", "x-ratelimit-remaining-tokens",
    "x-ratelimit-reset-tokens", "x-request-id", "xi-api-key"}

PROVIDER_QUOTA_HEADER_DENIED_NAMES == {
    "authorization", "connection", "content-encoding", "content-length", "content-type", "cookie",
    "keep-alive", "location", "proxy-authenticate", "proxy-authorization", "proxy-connection",
    "retry-after", "set-cookie", "set-cookie2", "te", "trailer", "transfer-encoding", "upgrade",
    "www-authenticate"}
-----------------------------------------------------------------------------
(* Paths.  `escape` is the byte a segment's escape stands for, `pieces` what *)
(* the segment decodes to, `url` what the url crate makes of it.             *)
Seg(text, escape, pieces, url) == [text |-> text, escape |-> escape, pieces |-> pieces, url |-> url]
SegmentTable ==
    [name       |-> Seg("plain", "none", <<"text">>, "keep"),
     empty      |-> Seg("plain", "none", <<"empty">>, "keep"),
     dot        |-> Seg("plain", "none", <<"dot">>, "drop"),
     dots       |-> Seg("plain", "none", <<"dot">>, "pop"),
     escDot     |-> Seg("plain", "dot", <<"dot">>, "drop"),
     escDots    |-> Seg("plain", "dot", <<"dot">>, "pop"),
     escOther   |-> Seg("plain", "other", <<"text">>, "keep"),
     escSlash   |-> Seg("plain", "slash", <<"text", "text">>, "keep"),
     slashEnd   |-> Seg("plain", "slash", <<"text", "empty">>, "keep"),
     dotsSlash  |-> Seg("plain", "slash", <<"dot", "text">>, "keep"),
     escCut     |-> Seg("plain", "bad", <<"text">>, "keep"),
     escPercent |-> Seg("plain", "percent", <<"text">>, "keep"),
     scheme     |-> Seg("scheme", "none", <<"text">>, "keep"),
     space      |-> Seg("forbidden", "none", <<"text">>, "keep"),
     query      |-> Seg("delimiter", "none", <<"text">>, "keep")]

(* segment_has_invalid_or_forbidden_escape *)
EscapeRefused(segment, admitSlash) ==
    LET s == SegmentTable[segment]
    IN  \/ s.escape \in {"bad", "dot", "percent"}
        \/ s.escape = "slash" /\ ~(admitSlash /\ \A n \in DOMAIN s.pieces : s.pieces[n] = "text")

(* has_safe_segments, with the literal bytes and the first segment's scheme *)
SafeSegments(path) == \A n \in DOMAIN path : path[n] \notin {"empty", "dot", "dots"}
PlainBytes(path) == \A n \in DOMAIN path : SegmentTable[path[n]].text # "forbidden"
SchemeLike(path) == path # <<>> /\ SegmentTable[path[1]].text = "scheme"

(* ProviderEndpointV1::parse: the path of an endpoint may end in a slash *)
WithoutTrailing(path) == IF path # <<>> /\ Last(path) = "empty" THEN Front(path) ELSE path
EndpointParses(endpoint) ==
    /\ endpoint.form = "http"
    /\ LET path == WithoutTrailing(endpoint.path)
       IN  /\ PlainBytes(path) /\ SafeSegments(path) /\ ~SchemeLike(path)
           /\ \A n \in DOMAIN path :
                 ~EscapeRefused(path[n], FALSE) /\ SegmentTable[path[n]].text # "delimiter"

(* RelativePathV1::parse *)
RelativePathParses(path) ==
    /\ path # <<>> /\ PlainBytes(path) /\ SafeSegments(path) /\ ~SchemeLike(path)
    /\ \A n \in DOMAIN path :
          ~EscapeRefused(path[n], TRUE) /\ SegmentTable[path[n]].text # "delimiter"

(* The url crate's path of a destination: dot segments are resolved. *)
UrlPath(path) ==
    FoldLeft(LAMBDA done, segment :
                 CASE SegmentTable[segment].url = "drop" -> done
                   [] SegmentTable[segment].url = "pop" -> IF done = <<>> THEN done ELSE Front(done)
                   [] OTHER -> Append(done, segment),
             <<>>, path)

(* resolve_against_with_query *)
Destination(base, path) == UrlPath(base \o path)
OutsideBinding(base, path) ==
    \/ "query" \in ToSet(path)
    \/ ~IsPrefix(base, Destination(base, path))
-----------------------------------------------------------------------------
(* SafeHeaders::try_from_iter_with_secret_headers: the first error of the  *)
(* list, "none" when it is admitted                                        *)
\* Mutant: the package's own declaration is not looked up.
ReservedHereFixed(name, declared) == name \in RESERVED_HEADERS

ReservedHere(name, declared) == name \in RESERVED_HEADERS \/ name \in declared

HeaderBytes(headers, n) == FoldLeft(LAMBDA sum, h : sum + h.size, 0, SubSeq(headers, 1, n))

HeaderError(headers, n, declared) ==
    LET header == headers[n]
    IN  CASE n > MAX_PROVIDER_HEADER_COUNT -> "TooManyHeaders"
          [] header.long # "no" -> header.long  \* NameTooLong or ValueTooLong
          [] HeaderBytes(headers, n) > MAX_PROVIDER_HEADER_TOTAL_BYTES -> "TotalSizeExceeded"
          [] header.name = "bad name" -> "InvalidName"
          [] ReservedHere(header.name, declared) -> "ReservedHeader"
          [] ~header.valid -> "InvalidValue"
          [] \E m \in 1..(n - 1) : headers[m].name = header.name -> "DuplicateHeader"
          [] OTHER -> "none"

HeadersError(headers, declared) ==
    LET refused == {n \in DOMAIN headers : HeaderError(headers, n, declared) # "none"}
    IN  IF refused = {} THEN "none" ELSE HeaderError(headers, Min(refused), declared)

(* DeclaredSecretHeaderV1::parse and DeclaredSecretHeadersV1::try_from_names *)
SecretHeadersError(names) ==
    IF \E n \in DOMAIN names : names[n] \in UNDECLARABLE_SECRET_HEADER_NAMES \union {"bad name"}
    THEN "InvalidSecretHeaderName"
    ELSE IF Len(names) > MAX_DECLARED_SECRET_HEADERS \/ Cardinality(ToSet(names)) # Len(names)
    THEN "InvalidSecretHeaderSet" ELSE "none"

(* SignedHeaderSetV1::new *)
SignedSetError(emits) ==
    IF emits = <<>> THEN "Empty" ELSE IF Cardinality(ToSet(emits)) # Len(emits) THEN "Duplicate" ELSE "none"

(* ProviderQuotaHeaderMapV1::try_from_iter: entries of a header and a field *)
QuotaMapError(entries) ==
    IF \/ entries = <<>>
       \/ \E n \in DOMAIN entries :
             \/ entries[n][1] \in PROVIDER_QUOTA_HEADER_DENIED_NAMES \union {"bad name"}
             \/ \E m \in 1..(n - 1) : entries[m][1] = entries[n][1] \/ entries[m][2] = entries[n][2]
    THEN "InvalidQuotaHeaderDeclaration" ELSE "none"

(* QueryParameterV1::ALL in order, with each name's normal form *)
SanctionedQuery == <<"api-version", "alt", "GroupId", "task_id", "file_id">>
NormalName == [n \in ToSet(SanctionedQuery) \union {"api_version", "a.lt", "api-key", "trace", "zone"} |->
    CASE n \in {"api-version", "api_version"} -> "apiversion" [] n \in {"alt", "a.lt"} -> "alt"
      [] n = "GroupId" -> "groupid" [] n = "task_id" -> "taskid" [] n = "file_id" -> "fileid"
      [] n = "api-key" -> "apikey" [] OTHER -> n]

(* is_declared_query_name; "apikey" stands for the denied fragments *)
DeclarableQuery(name) ==
    NormalName[name] # "apikey" /\ \A s \in ToSet(SanctionedQuery) : NormalName[s] # NormalName[name]

(* canonical_key: sanctioned names in their order, then the declared ones by name *)
CanonicalOrder == SanctionedQuery \o <<"trace", "zone">>
QueryKey(name) == CHOOSE n \in DOMAIN CanonicalOrder : CanonicalOrder[n] = name

(* QueryStringV1::try_from_iter, over parameters that declare `declared` *)
QueryError(parameters) ==
    LET names == [n \in DOMAIN parameters |-> parameters[n].name]
    IN  CASE \E n \in DOMAIN parameters : parameters[n].declared /\ ~DeclarableQuery(names[n]) ->
                 "InvalidQueryDeclaration"
          [] \E n \in DOMAIN parameters :
                /\ ~parameters[n].admitted
                /\ IsInjective(SubSeq(names, 1, n - 1)) -> "InvalidQueryValue"
          [] ~IsInjective(names) -> "DuplicateQueryParameter"
          [] parameters = <<>> -> "EmptyQuery"
          [] 2 * Len(parameters) > MAX_QUERY_TOTAL_BYTES -> "QueryTooLarge"
          [] OTHER -> "none"
Serialized(parameters) ==
    SortSeq([n \in DOMAIN parameters |-> parameters[n].name], LAMBDA a, b : QueryKey(a) < QueryKey(b))
-----------------------------------------------------------------------------
FailWith(error) ==
    /\ failure' = error /\ at' = "done"
    /\ UNCHANGED <<raw, request, wire, response, metadata>>

\* a host-signed package declares no secret header
Declared == IF raw.shape = "signed" THEN {} ELSE ToSet(raw.secret_headers)

(* user_agent_grammar_admits, for a literal and for a declared value *)
UserAgentError(value) ==
    IF value \in {"empty", "long", "spaced", "control"} THEN "InvalidUserAgentValue" ELSE "none"

(* The typed values a host brings to the raw entry points. *)
BuildErrors ==
    <<[field |-> "secret_headers", code |-> SecretHeadersError(raw.secret_headers)],
      [field |-> "quota", code |-> IF raw.quota = <<>> THEN "none" ELSE QuotaMapError(raw.quota)],
      [field |-> "auth", code |-> IF raw.auth.arm = "HostSigned" THEN SignedSetError(raw.auth.names)
                                  ELSE IF raw.auth.arm = "DeclaredHeaderSecret"
                                  THEN SecretHeadersError(raw.auth.names) ELSE "none"],
      [field |-> "query",
       code |-> IF raw.query = {} THEN "none" ELSE QueryError(CHOOSE q \in raw.query : TRUE)],
      [field |-> "user_agent", code |-> UserAgentError(raw.user_agent)]>>

(* MultipartBoundaryV1::parse *)
BoundaryError(boundary) ==
    IF boundary \in {"empty", "long", "other byte", "ends in space"} THEN "InvalidMultipartBoundary" ELSE "none"

(* MultipartBodyV1::parse *)
MultipartBodyError(body) ==
    CASE body = "large" -> "RequestBodyTooLarge"
      [] body \in {"unopened", "unterminated", "epilogue"} -> "InvalidMultipartBody"
      [] OTHER -> "none"

(* JsonBodyV1::parse *)
JsonBodyError(body) ==
    CASE body = "large" -> "RequestBodyTooLarge"
      [] body \in {"malformed", "epilogue"} -> "InvalidJsonBody"
      [] OTHER -> "none"

BodyErrors ==
    CASE raw.shape = "get" -> <<>>
      [] raw.shape = "multipart" -> <<[field |-> "boundary", code |-> BoundaryError(raw.boundary)],
                                      [field |-> "body", code |-> MultipartBodyError(raw.body)]>>
      [] OTHER -> <<[field |-> "body", code |-> JsonBodyError(raw.body)]>>

(* parse_raw_call, parse_raw_signed_call, parse_raw_get_call and               *)
(* parse_raw_multipart_call, in the order they look                            *)
Slot(field, valid) == [field |-> field, code |-> IF valid THEN "none" ELSE "InvalidCredentialSlot"]
\* Mutant: the path is looked at before the slots.
BindingErrorsPathFirst ==
    <<[field |-> "endpoint", code |-> IF EndpointParses(raw.endpoint) THEN "none" ELSE "InvalidEndpoint"],
      [field |-> "relative_path",
       code |-> IF RelativePathParses(raw.path) THEN "none" ELSE "InvalidRelativePath"],
      Slot("bound_slot", raw.bound_slot # "Bad"), Slot("requested_slot", raw.requested_slot # "Bad")>>

BindingErrors ==
    <<[field |-> "endpoint", code |-> IF EndpointParses(raw.endpoint) THEN "none" ELSE "InvalidEndpoint"],
      Slot("bound_slot", raw.bound_slot # "Bad"), Slot("requested_slot", raw.requested_slot # "Bad"),
      [field |-> "relative_path",
       code |-> IF RelativePathParses(raw.path) THEN "none" ELSE "InvalidRelativePath"]>>

(* check_declared *)
AuthDeclared ==
    raw.auth.arm = "DeclaredHeaderSecret" => raw.auth.names[1] \in Declared

ParseErrors ==
    BindingErrors \o BodyErrors \o
    <<[field |-> "headers", code |-> HeadersError(raw.headers, Declared)],
      [field |-> "auth", code |-> IF AuthDeclared THEN "none" ELSE "UndeclaredSecretHeader"],
      [field |-> "headers", code |-> IF /\ raw.shape = "multipart"
                                        /\ \E n \in DOMAIN raw.headers : raw.headers[n].name = "content-type"
                                     THEN "ContentTypeHeaderNotPermitted" ELSE "none"]>>

Refused(errors) == {n \in DOMAIN errors : errors[n].code # "none"}
FirstOf(errors) == errors[Min(Refused(errors))]

Build ==
    /\ at = "build"
    /\ IF Refused(BuildErrors) # {} THEN FailWith(FirstOf(BuildErrors))
       ELSE at' = "parse" /\ UNCHANGED <<raw, failure, request, wire, response, metadata>>

Parse ==
    /\ at = "parse"
    /\ IF Refused(ParseErrors) # {} THEN FailWith(FirstOf(ParseErrors))
       ELSE /\ at' = "prepare"
            /\ request' = [base |-> WithoutTrailing(raw.endpoint.path), path |-> raw.path,
                           headers |-> {raw.headers[n].name : n \in DOMAIN raw.headers},
                           query |-> IF raw.query = {} THEN <<>>
                                     ELSE Serialized(CHOOSE q \in raw.query : TRUE)]
            /\ UNCHANGED <<raw, failure, wire, response, metadata>>

(* The headers an auth arm binds: assemble, or the finalizer's set. *)
AuthHeaders ==
    CASE raw.auth.arm = "Bearer" -> {"authorization"}
      [] raw.auth.arm = "HeaderSecret" -> SecretHeader \intersect ToSet(raw.auth.names)
      [] raw.auth.arm = "BearerAndHeaderSecret" ->
             {"authorization"} \union (SecretHeader \intersect ToSet(raw.auth.names))
      [] raw.auth.arm = "DeclaredHeaderSecret" -> ToSet(raw.auth.names)
      [] raw.auth.arm = "HostSigned" -> SignedHeader \intersect ToSet(raw.auth.names)

(* PreparedSecretResolverV1 within BoundedResolverV1: an expected slot that *)
(* is another, or a secret above the host's cap, resolves nothing.          *)
Resolves == ~raw.resolver.oversized /\ \A slot \in raw.resolver.expected : slot = raw.requested_slot

(* The destination, the slot check, the credential and the arm's own check *)
Call(refused, code) == [field |-> "call", code |-> IF refused THEN code ELSE "none"]
PrepareErrors ==
    <<Call(OutsideBinding(request.base, request.path), "UrlOutsideBinding"),
      Call(raw.bound_slot # raw.requested_slot, "CredentialBindingMismatch"),
      Call(raw.shape # "signed" /\ ~Resolves, "CredentialResolutionFailed"),
      Call(~AuthDeclared, "UnsupportedAuthShape")>>

(* RequestBodyRefV1::content_type: a multipart body brings its own, a JSON body none *)
RenderedMediaType == IF raw.shape = "multipart" THEN {"content-type"} ELSE {}

(* The header map (assemble_headers): what each source inserts, in order. *)
Prepare ==
    /\ at = "prepare"
    /\ IF Refused(PrepareErrors) # {} THEN FailWith(FirstOf(PrepareErrors))
       ELSE /\ at' = "answer"
            /\ wire' = [path |-> Destination(request.base, request.path), query |-> request.query,
                        inserts |-> <<{"accept"}, request.headers,
                                      RenderedMediaType,
                                      IF raw.user_agent = "none" THEN {} ELSE {"user-agent"}, AuthHeaders>>]
            /\ UNCHANGED <<raw, failure, request, response, metadata>>
-----------------------------------------------------------------------------
(* What is read off a response's headers, a list of names, sizes and texts. *)
Occurrences(name) == {n \in DOMAIN response : response[n].name = name}

(* response_metadata: content-type and retry-after refuse what the rest drop *)
MetadataInvalid ==
    \E name \in {"content-type", "retry-after"} :
        \/ Cardinality(Occurrences(name)) > 1
        \/ \E n \in Occurrences(name) : response[n].size > MAX_METADATA_VALUE_BYTES \/ ~response[n].text

(* optional_single_header and optional_quota_metadata *)
SingleHeader(name) ==
    /\ Cardinality(Occurrences(name)) = 1
    /\ \A n \in Occurrences(name) : response[n].size <= MAX_METADATA_VALUE_BYTES /\ response[n].text

QuotaEntries ==
    IF raw.quota = <<>> THEN {<<name, name>> : name \in ProviderQuotaMetadataField} ELSE ToSet(raw.quota)

(* ProviderQuotaMetadataV1::try_from_iter and ResponseDiagnosticsV1::try_from_iter: *)
(* the fields' sizes together, within one bound for each field                      *)
TotalExceeded(names, fields) ==
    MapThenSumSet(LAMBDA n : IF response[n].name \in names THEN response[n].size ELSE 0, DOMAIN response)
        > Cardinality(fields) * MAX_METADATA_VALUE_BYTES
Quota == {e \in QuotaEntries : e[1] \notin Declared /\ SingleHeader(e[1])}
Diagnostics == {name \in ResponseDiagnosticField : SingleHeader(name)}

\* Mutant: the transcript knows the fixed list of denied names only.
HiddenFixed(name) == name \in RESPONSE_TRANSCRIPT_DENIED_HEADERS

Hidden(name) == name \in RESPONSE_TRANSCRIPT_DENIED_HEADERS \/ name \in Declared

(* ResponseTranscriptV1::capture_redacting *)
CaptureRedacting ==
    FoldLeft(LAMBDA done, header :
        CASE ~header.text -> [done EXCEPT !.truncated = TRUE]
          [] Hidden(header.name) -> done
          [] \/ header.size > MAX_METADATA_VALUE_BYTES
             \/ Len(done.captured) >= MAX_RESPONSE_TRANSCRIPT_COUNT
             \/ done.bytes + header.size > MAX_RESPONSE_TRANSCRIPT_TOTAL_BYTES -> [done EXCEPT !.truncated = TRUE]
          [] OTHER -> [done EXCEPT !.captured = Append(@, header.name), !.bytes = @ + header.size],
        [captured |-> <<>>, bytes |-> 0, truncated |-> FALSE], response)

Answer ==
    /\ at = "answer" /\ at' = "metadata"
    /\ response' \in ResponseHeaders
    /\ UNCHANGED <<raw, failure, request, wire, metadata>>

ReadMetadata ==
    /\ at = "metadata"
    /\ IF \/ MetadataInvalid
          \/ TotalExceeded({e[1] : e \in Quota}, ProviderQuotaMetadataField)
          \/ TotalExceeded(Diagnostics, ResponseDiagnosticField)
       THEN FailWith([field |-> "response", code |-> "ResponseMetadataInvalid"])
       ELSE /\ metadata' = [quota |-> Quota, diagnostics |-> Diagnostics,
                            transcript |-> CaptureRedacting]
            /\ at' = "done" /\ UNCHANGED <<raw, failure, request, wire, response>>
-----------------------------------------------------------------------------
RawStarts(calls) ==
    /\ raw \in calls
    /\ at = "build" /\ failure = [field |-> "none", code |-> "none"] /\ response = <<>>
    /\ request = [base |-> <<>>, path |-> <<>>, headers |-> {}, query |-> <<>>]
    /\ wire = [path |-> <<>>, query |-> <<>>, inserts |-> <<>>]
    /\ metadata = [quota |-> {}, diagnostics |-> {},
                   transcript |-> [captured |-> <<>>, bytes |-> 0, truncated |-> FALSE]]

RawNext == Build \/ Parse \/ Prepare \/ Answer \/ ReadMetadata
-----------------------------------------------------------------------------
(* A call that parses always resolves inside its binding, and stays there  *)
(* for an upstream that decodes escapes before it routes: every piece of   *)
(* the decoded path is a name, and the url crate has changed nothing.  The *)
(* header map never overwrites: no two sources of the wire's headers give  *)
(* one name, but for the accept a host may replace.  The query's order is  *)
(* that of its names, never that of the host's list.                       *)
WireSound ==
    /\ failure.code # "UrlOutsideBinding"
    /\ wire.path = request.base \o request.path \/ wire.path = <<>>
    /\ \A n \in DOMAIN wire.path :
          \A p \in DOMAIN SegmentTable[wire.path[n]].pieces : SegmentTable[wire.path[n]].pieces[p] = "text"
    /\ \A m, n \in DOMAIN wire.inserts :
          m < n /\ m > 1 => wire.inserts[m] \intersect wire.inserts[n] = {}
    /\ wire.query = SelectSeq(CanonicalOrder, LAMBDA name : name \in ToSet(wire.query))

ReportOrder ==
    <<"endpoint", "bound_slot", "requested_slot", "relative_path", "boundary", "body", "headers", "auth">>

Faulty(field) ==
    CASE field = "endpoint" -> ~EndpointParses(raw.endpoint)
      [] field = "bound_slot" -> raw.bound_slot = "Bad"
      [] field = "requested_slot" -> raw.requested_slot = "Bad"
      [] field = "relative_path" -> ~RelativePathParses(raw.path)
      [] field = "boundary" -> raw.shape = "multipart" /\ BoundaryError(raw.boundary) # "none"
      [] field = "body" ->
            CASE raw.shape = "get" -> FALSE
              [] raw.shape = "multipart" -> MultipartBodyError(raw.body) # "none"
              [] OTHER -> JsonBodyError(raw.body) # "none"
      [] field = "headers" -> HeadersError(raw.headers, Declared) # "none"
      [] field = "auth" -> ~AuthDeclared

(* A call with several bad fields is refused for the first of them in the  *)
(* order a host that pre-checks is promised (raw.rs:546-550), with nothing *)
(* of it on the wire; and a call that reaches the wire has none.           *)
FirstFieldTold ==
    LET bad == {n \in DOMAIN ReportOrder : Faulty(ReportOrder[n])}
    IN  /\ at = "done" /\ Refused(BuildErrors) = {} /\ bad # {} =>
              failure.field = ReportOrder[Min(bad)] /\ wire.inserts = <<>>
        /\ wire.inserts # <<>> => bad = {}

(* A header that carried the resolved secret never comes back to a reader: *)
(* not in the transcript, and a declared one not as quota metadata.  What  *)
(* the transcript leaves out it either must or says it did, within bounds, *)
(* and only a content type or a retry-after can fail the exchange.         *)
EchoHidden ==
    LET transcript == metadata.transcript
        bound == IF raw.auth.arm = "HostSigned" THEN {} ELSE AuthHeaders
    IN  /\ failure.code = "ResponseMetadataInvalid" => MetadataInvalid
        /\ at = "done" /\ failure.code = "none" =>
            /\ ToSet(transcript.captured) \intersect (bound \union Declared) = {}
            /\ \A e \in metadata.quota : e[1] \notin Declared
            /\ metadata.diagnostics \intersect bound = {}
            /\ Len(transcript.captured) <= MAX_RESPONSE_TRANSCRIPT_COUNT
            /\ transcript.bytes <= MAX_RESPONSE_TRANSCRIPT_TOTAL_BYTES
            /\ ~transcript.truncated =>
                  transcript.captured = SelectSeq([n \in DOMAIN response |-> response[n].name],
                                                  LAMBDA name : ~Hidden(name))
=============================================================================
