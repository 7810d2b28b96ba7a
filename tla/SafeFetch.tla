----------------------------- MODULE SafeFetch ------------------------------
(* Fetching an artifact from a URL an upstream returned.  The executor       *)
(* parses the URL, resolves its host once, refuses the whole answer when any *)
(* of its addresses is forbidden, connects to the address it checked, and    *)
(* reads a bounded body before a deadline.  The suite drives it through      *)
(* scripted resolvers and servers, and judges the outcome and what the ports *)
(* recorded.                                                                 *)
(*                                                                           *)
(* An address is its range, and for the IPv6 forms that embed an IPv4        *)
(* address the range of the embedded one.  Body lengths are in units.        *)
EXTENDS Naturals, Sequences, FiniteSets

CONSTANTS
  MaxBinaryBody,   \* MAX_BINARY_RESPONSE_BODY_BYTES
  MaxHops          \* how often an executor that follows redirects does so

ASSUME FetchAssumption == MaxBinaryBody \in Nat

VARIABLES
  fetchFaults,   \* the executor's deliberate mistakes
  input,    \* [url, limit]: what is to be fetched
  net,      \* [dns, servers, proxy, target]: the scripted environment
  fetchPc,       \* where the executor stands
  fetch,    \* [url, addresses, connect, response, chunks, held, hop]
  record,   \* what the ports recorded
  result    \* {} until the fetch returns

fetchVars == <<fetchFaults, input, net, fetchPc, fetch, record, result>>

\* The ways a safe fetch goes wrong that the suite's own tests inject.
FetchFaults ==
  {"FollowsRedirects", "ReResolvesToConnect", "SkipsEmbeddedV4Check",
   "ChecksFirstAddressOnly", "HonoursSystemProxy", "SendsCredentials",
   "HostLimitOnly", "AdoptsUpstreamMediaType", "DropsUpstreamContentType",
   "CorruptsBody", "AcceptsEmptyBody", "NoTimeout"}

FetchHas(fault) == fault \in fetchFaults

----------------------------------------------------------------------------
(* Addresses and URLs. *)

V4(range, n) == [form |-> "v4", range |-> range, n |-> n]
V6(form, range) == [form |-> form, range |-> range, n |-> 0]

ForbiddenV4Ranges ==
  {"loopback", "private", "link_local", "unspecified", "broadcast",
   "multicast", "this_network", "shared", "protocol_assignments",
   "benchmarking", "reserved"}
forbidden_v4(range) == range \in ForbiddenV4Ranges

\* The IPv6 ranges refused as such, and the forms that embed an IPv4 address.
ForbiddenV6Forms ==
  {"loopback6", "unspecified6", "multicast6", "unique_local", "link_local6",
   "site_local", "nat64_local"}
EmbeddingForms == {"v4_mapped", "v4_compatible", "nat64", "6to4"}
forbidden_v6(address) ==
  \/ address.form \in ForbiddenV6Forms
  \/ address.form \in EmbeddingForms /\ forbidden_v4(address.range)

is_forbidden_egress_address(address) ==
  IF address.form = "v4" THEN forbidden_v4(address.range) ELSE forbidden_v6(address)

\* A URL: whether it parses, its scheme, its userinfo and its host, which is
\* a name or a literal address.
Url(name) ==
  [defect |-> "none", https |-> TRUE, userinfo |-> FALSE, name |-> name,
   literal |-> {}, path |-> "artifact"]
LiteralUrl(name, address) == [Url(name) EXCEPT !.literal = {address}]

Localhosts == {"localhost", "sub.localhost", "empty"}

\* ArtifactUrlV1::parse: the first rule the URL breaks, or "none".
UrlError(url) ==
  CASE url.defect = "too_long" -> "UrlTooLong"
    [] url.defect = "invalid" -> "InvalidUrl"
    [] url.defect = "none" /\ ~url.https -> "NotHttps"
    [] url.defect = "none" /\ url.https /\ url.userinfo -> "Userinfo"
    [] OTHER ->
         IF url.literal = {}
         THEN IF url.name \in Localhosts THEN "ForbiddenHost" ELSE "none"
         ELSE IF \E a \in url.literal : is_forbidden_egress_address(a)
              THEN "ForbiddenAddress" ELSE "none"

----------------------------------------------------------------------------
(* The ports. *)

NewRecord == [resolver_calls |-> 0, queries |-> [n \in {} |-> 0],
              connected_to |-> <<>>, only_accept |-> TRUE, named_target |-> TRUE]

Queries(name) == IF name \in DOMAIN record.queries THEN record.queries[name] ELSE 0

\* A resolver answers the same every time, differently the second time, or
\* never.
HostAnswers(addresses) == [first |-> addresses, later |-> addresses, stalls |-> FALSE]
Rebinding(first, later) == [first |-> first, later |-> later, stalls |-> FALSE]
Stall == [first |-> <<>>, later |-> <<>>, stalls |-> TRUE]

Resolves(name) == name \in DOMAIN net.dns
Answer(name) ==
  IF Queries(name) = 0 THEN net.dns[name].first ELSE net.dns[name].later

Asked(name) ==
  [record EXCEPT
     !.resolver_calls = @ + 1,
     !.queries = IF Resolves(name)
                 THEN [n \in DOMAIN @ \cup {name} |->
                         IF n = name THEN Queries(name) + 1 ELSE @[n]]
                 ELSE @]

----------------------------------------------------------------------------
(* The executor. *)

NewFetch(url) ==
  [url |-> url, addresses |-> <<>>, connect |-> {}, response |-> {},
   chunks |-> 0, held |-> 0, hop |-> 1]

Failure(code) == [kind |-> "Failure", code |-> code, body |-> <<0, TRUE>>,
                  media_type |-> "none", content_type |-> "none"]
\* A body is its length, and whether its bytes are the upstream's.
Artifact(body, media_type, content_type) ==
  [kind |-> "Artifact", code |-> "none", body |-> body,
   media_type |-> media_type, content_type |-> content_type]

Return(outcome) == fetchPc' = "returned" /\ result' = {outcome}
Goes(where) == fetchPc' = where /\ result' = result

ParseUrl ==
  /\ fetchPc = "parse"
  /\ IF UrlError(fetch.url) # "none" THEN Return(Failure(UrlError(fetch.url)))
     ELSE Goes("resolve")
  /\ UNCHANGED <<fetchFaults, input, net, fetch, record>>

\* The host is a literal, an unknown name, a name that never resolves or one
\* that does; `next` is where the executor goes with the answer.
Lookup(next, onAnswer(_)) ==
  IF fetch.url.literal # {}
  THEN record' = record /\ onAnswer(<<CHOOSE a \in fetch.url.literal : TRUE>>) /\ Goes(next)
  ELSE /\ record' = Asked(fetch.url.name)
       /\ IF ~Resolves(fetch.url.name)
          THEN Return(Failure("ResolutionFailed")) /\ fetch' = fetch
          ELSE IF net.dns[fetch.url.name].stalls
          THEN Goes("stalled") /\ fetch' = fetch
          ELSE onAnswer(Answer(fetch.url.name)) /\ Goes(next)

ResolveHost ==
  /\ fetchPc = "resolve"
  /\ Lookup("check", LAMBDA a : fetch' = [fetch EXCEPT !.addresses = a])
  /\ UNCHANGED <<fetchFaults, input, net>>

Refused(addresses, forbidden(_)) ==
  IF FetchHas("ChecksFirstAddressOnly") THEN forbidden(Head(addresses))
  ELSE \E i \in DOMAIN addresses : forbidden(addresses[i])

Forbids(address) ==
  /\ is_forbidden_egress_address(address)
  /\ ~(FetchHas("SkipsEmbeddedV4Check")
       /\ address.form \in EmbeddingForms \cup {"loopback6", "unspecified6", "nat64_local"})

CheckAddresses ==
  /\ fetchPc = "check"
  /\ fetch' = IF fetch.addresses = <<>> THEN fetch
              ELSE [fetch EXCEPT !.connect = {Head(fetch.addresses)}]
  /\ IF fetch.addresses = <<>> THEN Return(Failure("ResolutionFailed"))
     ELSE IF Refused(fetch.addresses, Forbids)
     THEN Return(Failure("ForbiddenAddress"))
     ELSE Goes(IF FetchHas("ReResolvesToConnect") THEN "resolve_again" ELSE "connect")
  /\ UNCHANGED <<fetchFaults, input, net, record>>

\* The mistake of connecting by name: the connector resolves a second time.
ResolveAgain ==
  /\ fetchPc = "resolve_again"
  /\ Lookup("connect",
            LAMBDA a : fetch' = [fetch EXCEPT !.connect =
                                   IF a = <<>> THEN {} ELSE {Head(a)}])
  /\ UNCHANGED <<fetchFaults, input, net>>

UsesProxy == FetchHas("HonoursSystemProxy") /\ net.proxy # {}

\* The exchange is recorded, and then waits for the server.
Connect ==
  /\ fetchPc = "connect"
  /\ LET calls == IF UsesProxy THEN record.resolver_calls + 1
                  ELSE record.resolver_calls
         to == IF UsesProxy THEN net.proxy ELSE fetch.connect
     IN IF fetch.connect = {} \/ to = {} THEN Return(Failure("ResolutionFailed")) /\ record' = record
        ELSE /\ record' =
                  [record EXCEPT
                     !.resolver_calls = calls,
                     !.connected_to = Append(@, CHOOSE a \in to : TRUE),
                     !.only_accept = @ /\ ~FetchHas("SendsCredentials"),
                     !.named_target = @ /\ fetch.url.name = net.target.name
                                        /\ fetch.url.path = net.target.path]
             /\ Goes("exchanging")
  /\ UNCHANGED <<fetchFaults, input, net, fetch>>

Server == {s \in net.servers : s.name = fetch.url.name}

ExchangeAnswers ==
  /\ fetchPc = "exchanging"
  /\ LET served == {s.response : s \in Server}
         status == (CHOOSE r \in served : TRUE).status
         location == (CHOOSE r \in served : TRUE).location
     IN IF served = {} THEN Return(Failure("TransportFailed")) /\ fetch' = fetch
        ELSE IF status \in 200..299
        THEN fetch' = [fetch EXCEPT !.response = served] /\ Goes("reading")
        ELSE IF status \in 300..399 /\ FetchHas("FollowsRedirects") /\ location # {}
        THEN IF fetch.hop < MaxHops
             THEN /\ fetch' = [NewFetch(CHOOSE u \in location : TRUE)
                               EXCEPT !.hop = fetch.hop + 1]
                  /\ Goes("parse")
             ELSE Return(Failure("Redirect")) /\ fetch' = fetch
        ELSE /\ Return(Failure(IF status \in 300..399 THEN "Redirect"
                               ELSE "UpstreamStatus"))
             /\ fetch' = fetch
  /\ UNCHANGED <<fetchFaults, input, net, record>>

Limit ==
  IF FetchHas("HostLimitOnly") \/ input.limit < MaxBinaryBody THEN input.limit
  ELSE MaxBinaryBody

\* As ReadChunk's test, the chunk that reaches the limit let through.
TooLargeOffByOne(chunk, held) == chunk > Limit - held + 1
TooLarge(chunk, held) == chunk > Limit - held

\* A body ends, stalls for ever, or yields its next chunk.
ReadChunk ==
  /\ fetchPc = "reading"
  /\ LET response == CHOOSE r \in fetch.response : TRUE
         read == fetch.chunks
         type == IF FetchHas("AdoptsUpstreamMediaType") /\ response.content_type # "none"
                 THEN response.content_type ELSE "png"
         content == IF FetchHas("DropsUpstreamContentType") THEN "none"
                    ELSE response.content_type
         body == <<fetch.held, ~(FetchHas("CorruptsBody") /\ fetch.held > 0)>>
     IN IF read < Len(response.chunks)
        THEN IF TooLarge(response.chunks[read + 1], fetch.held)
             THEN Return(Failure("BodyTooLarge")) /\ fetch' = fetch
             ELSE /\ fetch' = [fetch EXCEPT !.chunks = @ + 1,
                                            !.held = @ + response.chunks[read + 1]]
                  /\ Goes("reading")
        ELSE /\ fetch' = fetch
             /\ IF response.stalls THEN Goes("stalled")
                ELSE IF fetch.held = 0 /\ ~FetchHas("AcceptsEmptyBody")
                THEN Return(Failure("EmptyBody"))
                ELSE Return(Artifact(body, type, content))
  /\ UNCHANGED <<fetchFaults, input, net, record>>

AwaitPoints == {"stalled", "exchanging", "reading", "resolve", "resolve_again"}

\* The total timeout fires while the executor waits; without one the runner
\* gives up on the fetch itself.
Deadline(where) ==
  /\ fetchPc \in where
  /\ IF FetchHas("NoTimeout") THEN fetchPc' = "returned" /\ result' = {}
     ELSE Return(Failure("Timeout"))
  /\ UNCHANGED <<fetchFaults, input, net, fetch, record>>

ExecutorNext ==
  \/ ParseUrl \/ ResolveHost \/ CheckAddresses \/ ResolveAgain \/ Connect
  \/ ExchangeAnswers \/ ReadChunk
-----------------------------------------------------------------------------
(* The safe-fetch suite: its 26 fixtures, and the runner that gives each one *)
(* to the executor, bounds its wait, and compares the outcome and the ports' *)
(* record with what the fixture expects.                                     *)

VARIABLES
  fetchCase,           \* the fixture being run; 0 outside the suite
  fetchMismatches   \* what the comparison recorded: {<<case, category>>}

fetchSuiteVars == <<fetchVars, fetchCase, fetchMismatches>>

----------------------------------------------------------------------------
(* Names, addresses and responses. *)

PUBLIC == V4("public", 10)
MIRROR_PUBLIC == V4("public", 20)
PROXY_PUBLIC == V4("public", 99)
PRIVATE == V4("private", 1)
PRIVATE_HOME == V4("private", 168)

CDN_URL == Url("cdn")
CDN_TARGET == [name |-> "cdn", path |-> "artifact"]

HOST_LIMIT_SMALL == 2
DefaultLimit == MaxBinaryBody - 1

Response(status, content_type, location, chunks, stalls) ==
  [status |-> status, content_type |-> content_type, location |-> location,
   chunks |-> chunks, stalls |-> stalls]
ok_response(content_type, chunks) == Response(200, content_type, {}, chunks, FALSE)
ARTIFACT_RESPONSE == ok_response("png", <<1>>)

Serves(name, response) == [name |-> name, response |-> response]
environment(dns, servers) ==
  [dns |-> dns, servers |-> servers, proxy |-> {}, target |-> CDN_TARGET]

Entry(name, resolution) == [n \in {name} |-> resolution]
cdn_resolution(resolution) ==
  environment(Entry("cdn", resolution), {Serves("cdn", ARTIFACT_RESPONSE)})
cdn_resolves_to(addresses) == cdn_resolution(HostAnswers(addresses))
public_cdn_answering(response) ==
  environment(Entry("cdn", HostAnswers(<<PUBLIC>>)), {Serves("cdn", response)})
literal_host(name, dns, path) ==
  [environment(dns, {Serves(name, ARTIFACT_RESPONSE)})
     EXCEPT !.target = [name |-> name, path |-> path]]

(* Expectations: the outcome, and the ports' record. *)

Expected(ends, calls, connected) ==
  [outcome |-> ends, resolver_calls |-> calls, connected_to |-> connected]
refused_unresolved(code) == Expected(Failure(code), 0, <<>>)
refused_after_resolution(code) == Expected(Failure(code), 1, <<>>)
refused_after_exchange(code) == Expected(Failure(code), 1, <<PUBLIC>>)
fetched(length, content_type) ==
  Expected(Artifact(<<length, TRUE>>, "png", content_type), 1, <<PUBLIC>>)

fixture(case, url, limit, env, expected) ==
  [case |-> case, url |-> url, limit |-> limit, env |-> env, expected |-> expected]
plain(case, env, expected) == fixture(case, CDN_URL, DefaultLimit, env, expected)

\* A URL refused as it is written never reaches the resolver.
RefusedUrls ==
  <<fixture("HttpRefused", [CDN_URL EXCEPT !.https = FALSE], DefaultLimit,
            cdn_resolves_to(<<PUBLIC>>), refused_unresolved("NotHttps")),
    fixture("UserinfoRefused", [CDN_URL EXCEPT !.userinfo = TRUE], DefaultLimit,
            cdn_resolves_to(<<PUBLIC>>), refused_unresolved("Userinfo")),
    fixture("LocalhostRefused", Url("localhost"), DefaultLimit,
            literal_host("localhost", Entry("localhost", HostAnswers(<<PUBLIC>>)), "artifact"),
            refused_unresolved("ForbiddenHost")),
    fixture("LoopbackLiteralRefused", LiteralUrl("127.0.0.1", V4("loopback", 1)),
            DefaultLimit, literal_host("127.0.0.1", [n \in {} |-> 0], "artifact"),
            refused_unresolved("ForbiddenAddress")),
    fixture("MetadataLiteralRefused",
            [LiteralUrl("169.254.169.254", V4("link_local", 254)) EXCEPT !.path = "latest"],
            DefaultLimit, literal_host("169.254.169.254", [n \in {} |-> 0], "latest"),
            refused_unresolved("ForbiddenAddress"))>>

RefusesAnswer(case, addresses) ==
  plain(case, cdn_resolves_to(addresses), refused_after_resolution("ForbiddenAddress"))

\* A name whose answer holds a forbidden address, holds none, or never comes.
RefusedAnswers ==
  <<RefusesAnswer("ResolvesToPrivateRefused", <<PRIVATE>>),
    RefusesAnswer("AnyResolvedAddressForbiddenRefused", <<PUBLIC, PRIVATE_HOME>>),
    RefusesAnswer("V4MappedRefused", <<V6("v4_mapped", "private")>>),
    RefusesAnswer("V4CompatibleRefused", <<V6("v4_compatible", "private")>>),
    RefusesAnswer("Nat64Refused", <<V6("nat64", "private")>>),
    RefusesAnswer("SixToFourRefused", <<V6("6to4", "private")>>),
    RefusesAnswer("SiteLocalRefused", <<V6("site_local", "none")>>),
    plain("NoAddressesRefused", cdn_resolves_to(<<>>),
          refused_after_resolution("ResolutionFailed")),
    plain("ResolutionStallTimesOut", cdn_resolution(Stall),
          refused_after_resolution("Timeout"))>>

Redirects(location) == Response(302, "none", {location}, <<0>>, FALSE)

\* What the server says after the connection was allowed: no redirect is
\* followed, whatever it points to, and no other status is a success.
RefusedExchanges ==
  <<plain("RedirectToInternalRefused",
          public_cdn_answering(Redirects(LiteralUrl("10.0.0.1", PRIVATE))),
          refused_after_exchange("Redirect")),
    plain("RedirectToPublicRefused",
          environment([n \in {"cdn", "mirror"} |->
                         HostAnswers(<<IF n = "cdn" THEN PUBLIC ELSE MIRROR_PUBLIC>>)],
                      {Serves("cdn", Redirects(Url("mirror"))),
                       Serves("mirror", ARTIFACT_RESPONSE)}),
          refused_after_exchange("Redirect")),
    plain("NonSuccessStatusRefused",
          public_cdn_answering(Response(404, "html", {}, <<1>>, FALSE)),
          refused_after_exchange("UpstreamStatus"))>>

\* What is fetched, from where, and within which limits.
FetchedCases ==
  <<plain("PublicFetchSucceeds", cdn_resolves_to(<<PUBLIC>>), fetched(1, "png")),
    plain("ConnectionPinnedToCheckedAddress",
          cdn_resolution(Rebinding(<<PUBLIC>>, <<PRIVATE>>)), fetched(1, "png")),
    plain("SystemProxyIgnored",
          [cdn_resolves_to(<<PUBLIC>>) EXCEPT !.proxy = {PROXY_PUBLIC}],
          fetched(1, "png")),
    plain("DeclaredMediaTypeWins", public_cdn_answering(ok_response("html", <<1>>)),
          fetched(1, "html")),
    fixture("HostLimitExactSucceeds", CDN_URL, HOST_LIMIT_SMALL,
            public_cdn_answering(ok_response("none", <<1, 1>>)), fetched(2, "none")),
    fixture("HostLimitExceededRefused", CDN_URL, HOST_LIMIT_SMALL,
            public_cdn_answering(ok_response("png", <<1, 2>>)),
            refused_after_exchange("BodyTooLarge")),
    fixture("BinaryCapBelowHostLimitRefused", CDN_URL, 2 * MaxBinaryBody,
            public_cdn_answering(ok_response("png", [i \in 1..(MaxBinaryBody + 1) |-> 1])),
            refused_after_exchange("BodyTooLarge")),
    plain("EmptyBodyRefused", public_cdn_answering(ok_response("png", <<0>>)),
          refused_after_exchange("EmptyBody")),
    plain("BodyStallTimesOut",
          public_cdn_answering(Response(200, "png", {}, <<1>>, TRUE)),
          refused_after_exchange("Timeout"))>>

SAFE_FETCH_FIXTURES == RefusedUrls \o RefusedAnswers \o RefusedExchanges \o FetchedCases
N == Len(SAFE_FETCH_FIXTURES)

----------------------------------------------------------------------------
(* The runner. *)

Starts(i) ==
  /\ input' = [url |-> SAFE_FETCH_FIXTURES[i].url, limit |-> SAFE_FETCH_FIXTURES[i].limit]
  /\ net' = SAFE_FETCH_FIXTURES[i].env
  /\ fetch' = NewFetch(SAFE_FETCH_FIXTURES[i].url)
  /\ record' = NewRecord
  /\ result' = {}
  /\ fetchPc' = "parse"

\* The first difference of kind, or every difference of an artifact's parts.
OutcomeMismatches(expected, outcome) ==
  IF outcome = {} THEN {"Deadline"}
  ELSE LET got == CHOOSE o \in outcome : TRUE
       IN IF got.kind # expected.kind THEN {"OutcomeKind"}
          ELSE {c \in {"Body", "MediaType", "UpstreamContentType", "ErrorCode"} :
                  \/ c = "Body" /\ got.body # expected.body
                  \/ c = "MediaType" /\ got.media_type # expected.media_type
                  \/ c = "UpstreamContentType" /\ got.content_type # expected.content_type
                  \/ c = "ErrorCode" /\ got.code # expected.code}

EvidenceMismatches(expected) ==
  {c \in {"ResolverCallCount", "ConnectedAddresses", "WireHeaders", "WireTarget"} :
     \/ c = "ResolverCallCount" /\ record.resolver_calls # expected.resolver_calls
     \/ c = "ConnectedAddresses" /\ record.connected_to # expected.connected_to
     \/ c = "WireHeaders" /\ ~record.only_accept
     \/ c = "WireTarget" /\ ~record.named_target}

Compare ==
  /\ fetchCase # 0
  /\ fetchPc = "returned"
  /\ LET f == SAFE_FETCH_FIXTURES[fetchCase]
     IN fetchMismatches' = fetchMismatches \cup
          {<<f.case, c>> : c \in OutcomeMismatches(f.expected.outcome, result)
                                 \cup EvidenceMismatches(f.expected)}
  /\ fetchPc' = "compared"
  /\ UNCHANGED <<fetchFaults, input, net, fetch, record, result, fetchCase>>

NextFixture ==
  /\ fetchCase # 0
  /\ fetchPc = "compared"
  /\ fetchCase' = fetchCase + 1
  /\ IF fetchCase < N THEN Starts(fetchCase + 1)
     ELSE fetchPc' = "reported" /\ UNCHANGED <<input, net, fetch, record, result>>
  /\ UNCHANGED <<fetchFaults, fetchMismatches>>

Reported == fetchPc = "reported"

----------------------------------------------------------------------------
(* Outside the suite: any answer of any resolver, any server, and a deadline *)
(* that may come at every point where the executor waits.                    *)

LiveAddresses == {PUBLIC, MIRROR_PUBLIC, PRIVATE, V6("nat64", "private"), V6("nat64", "public")}
LiveUrls == {CDN_URL, Url("unknown"), Url("localhost"), [Url("cdn") EXCEPT !.defect = "invalid"],
             LiteralUrl("203.0.113.10", PUBLIC), LiteralUrl("10.0.0.1", PRIVATE)}
LiveChunks == {<<>>, <<0>>, <<1>>, <<1, 1>>, <<2, 1>>, <<1, 2>>, <<4>>, <<4, 1>>}

FetchLiveStarts ==
  /\ fetchFaults = {}
  /\ fetchCase = 0
  /\ fetchMismatches = {}
  /\ \E url \in LiveUrls, limit \in {HOST_LIMIT_SMALL, 2 * MaxBinaryBody},
        first \in UNION {[1..n -> LiveAddresses] : n \in 0..2}, later \in {<<PUBLIC>>, <<PRIVATE>>},
        status \in {200, 302, 404}, chunks \in LiveChunks, stalls \in BOOLEAN,
        server \in {"cdn", "203.0.113.10"} :
       /\ status # 200 => chunks = <<1>> /\ ~stalls
       /\ url # CDN_URL => first = <<>> /\ later = <<PUBLIC>>
       /\ input = [url |-> url, limit |-> limit]
       /\ net = environment(Entry("cdn", Rebinding(first, later)),
                            {Serves(server, Response(status, "png", {Url("mirror")},
                                                     chunks, stalls))})
       /\ fetch = NewFetch(url)
  /\ record = NewRecord
  /\ result = {}
  /\ fetchPc = "parse"

FetchSuiteStarts(mistakes) ==
  /\ fetchFaults = mistakes
  /\ fetchCase = 1
  /\ fetchMismatches = {}
  /\ input = [url |-> SAFE_FETCH_FIXTURES[1].url, limit |-> SAFE_FETCH_FIXTURES[1].limit]
  /\ net = SAFE_FETCH_FIXTURES[1].env
  /\ fetch = NewFetch(SAFE_FETCH_FIXTURES[1].url)
  /\ record = NewRecord
  /\ result = {}
  /\ fetchPc = "parse"

\* In the suite the clock is paused: a deadline comes only to who waits on it.
FetchNext ==
  \/ ExecutorNext /\ UNCHANGED <<fetchCase, fetchMismatches>>
  \/ Deadline(IF fetchCase = 0 THEN AwaitPoints ELSE {"stalled"}) /\ UNCHANGED <<fetchCase, fetchMismatches>>
  \/ Compare
  \/ NextFixture

\* Without bounds: any URL, whose host is a name or one literal address, any
\* resolver and any servers.
Addresses == [form : STRING, range : STRING, n : Nat]
Urls ==
  [defect : STRING, https : BOOLEAN, userinfo : BOOLEAN, name : STRING,
   literal : SUBSET Addresses, path : STRING]
Resolutions == [first : Seq(Addresses), later : Seq(Addresses), stalls : BOOLEAN]
Responses ==
  [status : Nat, content_type : STRING, location : SUBSET Urls,
   chunks : Seq(Nat), stalls : BOOLEAN]

AnyEnvironment ==
  /\ input \in [url : Urls, limit : Nat]
  /\ \A a, b \in input.url.literal : a = b
  /\ \A name \in DOMAIN net.dns : net.dns[name] \in Resolutions
  /\ net.servers \subseteq [name : STRING, response : Responses]

FetchStarts ==
  /\ fetchFaults = {} /\ fetchCase = 0
  /\ AnyEnvironment
  /\ fetch = NewFetch(input.url)
  /\ record = NewRecord
  /\ result = {}
  /\ fetchPc = "parse"

FetchSpec == FetchStarts /\ [][FetchNext]_fetchSuiteVars

----------------------------------------------------------------------------

\* The report is clean for the reference executor and for no executor with one
\* mistake or several: no mistake hides another from the runner's comparison.
FetchJudged == Reported => (fetchMismatches = {} <=> fetchFaults = {})

Allowed(address) == ~is_forbidden_egress_address(address)

\* The lengths a reader of these chunks holds, none of them above `most`.
RunningTotals(chunks, most) ==
  {t \in [0..Len(chunks) -> 0..most] :
     t[0] = 0 /\ \A i \in 1..Len(chunks) : t[i] = t[i - 1] + chunks[i]}

\* The addresses of an answer.
Given(addresses) == {addresses[i] : i \in DOMAIN addresses}

\* The reference executor asks the resolver at most once and connects at most
\* once, to an allowed address of an answer that holds no forbidden one,
\* whatever a second answer would have been and wherever the server points;
\* an artifact is the whole body of a 2xx answer, which was never held above
\* either limit, and a deadline that comes first leaves no artifact.
FetchSafe ==
  fetchFaults = {} =>
    /\ record.resolver_calls <= 1
    /\ Len(record.connected_to) <= 1
    /\ record.connected_to # <<>> =>
         /\ record.connected_to[1] \in Given(fetch.addresses)
         /\ \A a \in Given(fetch.addresses) : Allowed(a)
    /\ \A r \in result :
         r.kind = "Artifact" =>
           \E s \in Server :
             /\ s.response.status \in 200..299 /\ ~s.response.stalls
             /\ \E t \in RunningTotals(s.response.chunks, MaxBinaryBody) :
                  r.body = <<t[Len(s.response.chunks)], TRUE>>
             /\ r.body[1] \in 1..input.limit
=============================================================================
