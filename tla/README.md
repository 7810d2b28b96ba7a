# Verification of token-station-south

TLA+ models of token-station-south, the TLC configurations that check them on small instances, and TLAPS proofs.
`PROJECT.json` lists every component, run, mutant, mapped definition, finding, hazard and theorem; this file explains
them.

In this directory, a run is `tlc -workers 2 -config MCHostCalls.cfg MCHostCalls`, a proof is
`tlapm TaskProofs.tla`.

## 1. The system

South is a Rust workspace that sits between a host application and the providers of language models. Paths are below
`src/crates` unless they begin with another directory.

| part | what it does | state, concurrency | modules |
| --- | --- | --- | --- |
| south-core `lib.rs` | one provider call: resolves or signs, assembles, dispatches; pulls of an opened stream | futures, a cancellation token, deadlines | `ProviderCall`, `StreamingCall`, `ByteStream` |
| south-core `raw.rs`, south-contracts | the parsed fields of an untyped call, the prepared headers, the metadata of the answer | sequential | `RawCall` |
| south-transport-reqwest | HTTP exchanges with bounded bodies, the stream source, the observer, the connection history | network; a mutex shared by requests | `HttpExchange`, `ConnectionHistory`, `StreamingCall` |
| south-task-core | submits, observes, cancels and waits for long tasks over a host's store | crashes, lost replies, compare-and-swap | `TaskWorkflow`, `TaskWait` |
| south-task-conformance | the atomic suite a host's store must pass | sequential scenarios | `TaskConformance` |
| south-provider-runtime | loads packages of WebAssembly guests and calls them: instance replacement, stream permits, epoch ticker, host functions | threads, a mutex, an atomic counter | `ComponentRuntime`, `PackageSet` |
| south-host-grammars `sse.rs`, south-contracts `eventstream.rs`, south-component-conformance `sse_split.rs` | incremental decoders of SSE and AWS eventstream | input in chunks | `SseDecoder`, `EventStream`, `SseSplitter` |
| south-component-conformance, stream parsers | provider events to canonical events, six dialects | state carried over chunks | `SseUpstream` |
| south-component-conformance, text adapters | conversations, opaque reasoning and request knobs to a provider's request, and its answer back | none in a call; a conversation carries over | `TextRequests`, `Conversation`, `RequestRules` |
| south-component-conformance, task adapters | the twelve task-v2 dialects of nine adapters | a task's life over several calls | `TaskDialects`, `TaskLifecycle` |
| south-north-codec, stream renderers | canonical events to OpenAI Chat, Anthropic Messages or OpenAI Responses streams | state carried over calls | `ChatStream`, `AnthropicStream`, `ResponsesStream` |
| south-provider-conformance, south-testkit | the suites a host runs against itself, the reference hosts, and the suites of the call core | scripted surroundings; concurrent resolves | `CallSuites`, `CallConformance`, `Passthrough`, `SafeFetch`, `CredentialRecipe`, `SigningSuite`, `FramingSuite` |
| south-provider-api `credentials.rs`, south-component-conformance `credential_recipe.rs` | the gate over a credentials section; the interpreter of its recipes | sequential | `RecipeRun` |
| `components/*` | packages that export an adapter | - | not modelled: no logic of their own |

How the parts meet: a host calls south-core, which asks the host's resolver or finalizer for an identity and then a
transport to send. A streaming answer comes back as a source of bytes that the host pulls, deframes (SSE or
eventstream), lets a guest component parse into canonical events, and renders in the dialect of its own client. Long
tasks go through the task workflows, over the host's store. The suites are how a host finds out whether its own
resolver, relay, fetcher, signer and deframer keep the promises the rest relies on.

The repository has about 99,000 lines of Rust without tests. The map in `PROJECT.json` covers a third of them; what is
left is mostly adapters without a conversation or a settlement, document conversions and fixtures (section 7).

## 2. Modules

Every module names its source in its header, keeps the source's names, and leaves out wording, JSON and logging. The
definition right after a comment `Mutant:` is a plausible mistake in the definition that follows it; it is used in no
specification.

**Calls.** `ProviderCall` is one orchestrated call: `execute_buffered`, `execute_signed_buffered` and the two
streaming opens, which differ in whether a secret is resolved or a finalizer signs and in whether a deadline is
required, so they share their actions. Each poll of the future goes through its steps (token, execution, timer) one
action at a time; the clock, the token and the answers of resolver, finalizer and transport move in between, and the
host may drop the future. `StreamingCall` is the pulls of an opened stream, `StreamingCallV1::next_chunk` over
`ReqwestStreamSource`; the body is the bytes 1, 2, 3 and so on, so that order, loss and repetition show. `ByteStream`
is what the reader is promised; `StreamingCall` implements it with `closed <- finished`. `TaskWait` is `wait` and
`controlled`, arm by arm. `MCHostCalls` puts the three in one specification, and the suites of the next paragraph
beside them: a behaviour is one future a host awaits, or one run of a suite.

**Suites of the call core.** `CallSuites` holds the fixture tables of the ten call-conformance suites,
`CallConformance` the runner: it drives the modelled `ProviderCall` with the scripted resolver, transport, token and
clock of a fixture, compares and reports.

**Tasks.** `TaskWorkflow` is `submit`, `observe`, `apply_observation` and `cancel`, await by await, with an upstream
that accepts, rejects, progresses and loses answers. Its first part is the host's store as the effect traits use it
(external). `TaskConformance` runs every scenario of the repository's atomic suite against that store, so the store is
one a conforming host may have.

**Guests.** `ComponentRuntime` is the load of a package (import scan, identity probe), the main instance behind its
mutex, poisoned by a panic and replaced when stale, the host functions that poll a future without parking, the streams
with their permits and the order in which a dropped stream frees them, and the epoch ticker with its owners.
`PackageSet` is `load_package_set`: the walk, the gates in order, claims, pins and the report.

**The HTTP path.** `RawCall` is the constructors an untyped call goes through and the metadata read off its answer.
`HttpExchange` is one exchange of the reqwest transport, both buffered arms and the streaming open, with the observer's
events; bytes are counted. `ConnectionHistory` is the history that concurrent requests share. `SseDecoder`,
`EventStream` and `SseSplitter` are the incremental decoders, symbol by symbol, each next to the whole-body function it
must agree with. `MCHttpPath` makes each of them a leg of one specification; they share no state.

**Streams.** `SseUpstream` is the stream parsers of the reference adapters, over events that are the fields a parser
reads (AWS eventstream messages reach them re-encoded as SSE). `ChatStream`, `AnthropicStream` and `ResponsesStream` are the renderers: `ChatStream` runs both
OpenAI renderers on the same events, `AnthropicStream` has a client that knows only the protocol, `ResponsesStream`
has the replay carrier with its size in bytes, as it is built, encoded, decoded and checked by the request side.

**Adapters.** `TextRequests` is each text adapter's translation of messages and of a whole answer, with the layout
checks of opaque reasoning; `Conversation` lets a conversation move between dialects turn by turn. `RequestRules` is
sampling, caps, thinking, tool choice, effort and the caller's own fields. `TaskDialects` is every operation of the
task-v2 adapters, `TaskLifecycle` one task from its request to its settlement.

**Host suites.** `Passthrough` is the reference relay (frames withheld until a call is clean, failure events,
settlement), the runner and its deliberate mistakes. `SafeFetch` is the reference fetcher with its URL and address
policy. `CredentialRecipe` is the suite over credential rows and, next to it, the reference host alone under concurrent
resolves, operator writes and expiry. `SigningSuite` has the timestamp arithmetic as it is. `FramingSuite` is the
eventstream suite at every cut. `RecipeRun` is the gate over credentials sections (south-provider-api) and the
interpreter of their recipes (south-component-conformance). `MCHostSuites` chooses one of them for a behaviour.

Each `MC` module supplies the values of constants and states the properties of its run. Each `...Proofs` module extends
the modules it is about.

## 3. Runs

| run | bounds | states | properties |
| --- | --- | --- | --- |
| `host_calls` | 2 slots, 2 headers, emissions of up to 2, clock to 2; 4 bytes, reads of up to 3, chunks of 2, idle timeout 2, deadlines 0 and 2, 4 pulls; waits with deadlines 0, 1, 4, 5 and intervals 0, 1, 2, 6; the ten suites' own fixtures and every wrong adapter of three kinds | 185,359 | `WireAuthorized`, `AskedAtMostOnce`, `CallDisciplined`, `StreamKept`, `WaitDisciplined`, `AwaitsEnd`, `ReferenceConforms`, `WrongAdaptersFail`, `SuiteEnds` |
| `task_workflow` | 2 submitters, 2 observers, 1 canceller, 2 requests | 1,338,652 | `SuitePasses`, `SentAtMostOnce`, `ClosedOnEvidence`, `OneFinalAnswer` |
| `provider_runtime` | 2 threads, 2 streams, 1 permit, a timeout of one and a half ticks; 3 directories, 2 worlds, 2 families, 2 digests | 175,171 | `GuestsEntered`, `StreamsBounded`, `SetLoads`, `CallsEnd` |
| `http_path` | scaled header, query and transcript limits; caps 2, 3, 4, bodies to 6, reads to 3; 2 requests, 3 pairs, history of 2, TTL 2, 3 identifiers, 4 responses; SSE inputs of 5 symbols in chunks of up to 2 or 3; bodies of 2 frames | 607,313 | `RawCallSound`, `WholeBodyOrRefused`, `ObserverAgrees`, `HistoryIsTrue`, `SameAsWhole` |
| `north_stream` | Chat: 2 choices, 5 events, calls of up to 2, two-bit counts; Anthropic: 2 tool slots, counts to 2; Responses: 2 blocks, 4 or 5 events, calls of up to 2, carriers of up to 3 entries and 4 bytes | 1,148,537 | `ChatTold`, `AnthropicFollows`, `ResponsesTurnWhole` |
| `upstream_stream` | six parsers, each with its alphabet of events, one or two to a chunk, counts to 6 | 940,490 | `FirstErrorStands`, `StreamSound`, `UsageIsEvidence` |
| `adapters` | conversations over five dialects with one edit; every knob of every model; twelve task dialects | 747,547 | `ConversationKept`, `OpaqueStaysHome`, `RequestObeysModel`, `TaskNeverLost`, `SettledOnEvidence`, `ReservationCoversBill` |
| `host_suites` | streams of 3 frames, bodies of 4, 3 hops; 2 callers, 2 operator writes, 2 refreshes; 3,000 days | 546,802 | `SuitesJudged`, `RelaySound`, `FetchSafe`, `RowSound`, `DateIsTheCalendars`, `RecipesSound` |
| `passthrough_cut` | streams of 2 frames | - | `FailureEventDispatched`, violated |
| `component_own_host` | as `provider_runtime` | - | `OwnHostLinked`, violated |
| `responses_turns` | 2 tool indexes, 5 events | - | `EveryTurnReplays`, violated |
| `after_error` | as `upstream_stream` | - | `NothingAfterError`, violated |

What the passing runs show, beyond the comments at the properties:

- A call never sends what its binding does not authorise, asks each party at most once, and leaves nothing running
  when it returns, wherever the deadline, the token or a drop strikes. A reader that drops and repeats pulls gets every
  byte once and in order. A wait answers a signal before an answer and never inspects in a loop.
- The call suites accept core and reject every adapter that is wrong in one value.
- Racing submitters, observers and a canceller, each of whom may crash or lose a reply, send a task at most once, close
  it only on evidence and agree on the final answer.
- No thread enters an instance that another one broke; streams stay within their permits; a guest that loops is
  interrupted, also when a stream outlives every other handle.
- A buffered answer is the whole body or an error; the observer hears what the caller gets; how input is cut into
  chunks, or events into calls, does not show in what is decoded or rendered.
- A completed Responses turn can be given back: its carrier keeps the bounds of both sides and names each text and
  tool call once. This is claimed for tool calls numbered by their choice (finding `responses_turns`), for strings that
  JSON does not escape and for one reasoning item (section 6).
- A refused raw call names the first bad field in the order the parsers run, whatever else is wrong with it.
- The first error of an upstream stream stands, and the usage a parser reports is what the upstream said. Five of the
  six parsers fall silent after an error; the Chat parser does not (finding `after_error`).
- A conversation keeps its content, calls with their arguments included, across dialects. Signed thinking and
  signatures go back only to the family that issued them; a redacted block goes to a Claude that replays, and also to
  Gemini when its turn carries no mark of its origin (section 6). A model that takes automatic tool choice only is
  sent no forced one by any adapter, with one exception (section 6). A task is settled on the upstream's evidence
  within what was reserved.
- An admitted recipe sends each step at most once and in order, lacks an input only where its producer was jumped
  over, is optional or is a probe, and mints nothing outside its clamps.
- The host suites accept exactly the hosts without a mistake, for every single mistake the tests of the repository
  name.

**Bounds.** Each is one beyond the smallest that makes the interesting case happen: two slots to confuse, a read
longer than a chunk, one stream more than permits, one socket pair more than the history, a body longer than each
cap, a second observer of a claim. Every property has a mutant of the code that breaks it within its run's bounds.
Counters whose overflow panics or is refused in the code (connection identifiers, usage totals, carrier budgets) are
scaled down so that they reach their limits. The bounds on histories (`MaxReports`, `MaxPulls`, `ChatEvents` and the
like) only end behaviours. `CHECK_DEADLOCK FALSE` stands in every run because every machine here is scoped to a
request, a suite or a load and really stops. In `north_stream` the Responses renderer starts twice: once in every mode,
for the lifecycle, and once over longer streams of reasoning events.

**Symmetry** is used in `task_workflow` alone (submitters, observers and requests, which are only compared for
equality). Its temporal property is made of action properties, which symmetry leaves sound.

**Fairness.** `ProviderCall`, `StreamingCall`, `TaskWait`: weak fairness of the future's own steps (an executor polls a
woken task, and a timer or token wakes it) and of the clock; none of resolver, finalizer, transport, upstream or task
host, which may stay silent. `CallConformance`: of the runner and of its scripted clock and token, which are tasks of
the same executor. `ComponentRuntime`: weak fairness of the ticker thread while it is owned, of a thread's host code
and of a signer's end, strong fairness of the trap at an epoch check once the deadline is over (wasmtime checks the
epoch at loop back-edges and calls, and a guest in between may be in a host function); none of guests returning.

**Type invariants.** Modules state their types as `TypeOK`, which documents the shape of the state. It is part of each
inductive invariant below; the runs are spent on the other properties.

## 4. Proofs

Eight modules of theorems. Each inductive invariant was first checked as an invariant on the run's instance, then
proved: it holds initially, every action keeps it (one step per action), and it implies the property.

| module | theorems | for every |
| --- | --- | --- |
| `HostCallsProofs`, calls | `TypeCorrect`, `AtMostOnce` (`AskedAtMostOnce`), `WireSafe` (`WireAuthorized`), `BudgetSafe`, `PreparationSafe`, `CancellationFirst`, `Disciplined` (`CallDisciplined`) | slots, headers, declarations, emissions, bound on the clock |
| `HostCallsProofs`, pulls | `Invariance`, `OneLateChunk`, `Refinement`, `Kept` (`StreamKept`) | lengths of body, read and chunk, timeouts, deadlines, number of pulls |
| `TaskProofs`, workflows | `Invariance`, `SentOnce` (`SentAtMostOnce`), `EvidenceFirst` (`ClosedOnEvidence`), `OneAnswer` (`OneFinalAnswer`) | sets of submitters, observers, cancellers and requests |
| `TaskProofs`, waits | `WaitInvariance`, `SignalsFirst`, `NeverBusy`, `Disciplined` (`WaitDisciplined`) | deadline and interval |
| `TaskLifecycleProofs` | `TaskInvariance`, `NeverLost` (`TaskNeverLost`), `SettledByEvidence` (`SettledOnEvidence`), `ReservationCovers` (`ReservationCoversBill`) | requests and upstream answers of the twelve dialects, limits on references and artifacts |
| `ComponentRuntimeProofs` | `Invariance`, `EnteredSafely` (`GuestsEntered`), `StreamLimit` (`StreamsBounded`) | threads, finite set of streams, limit, timeout and tick |
| `HttpExchangeProofs` | `ExchangeInvariance`, `WholeOrRefused` (`WholeBodyOrRefused`), `ObserverHears` (`ObserverAgrees`) | caps, bodies, lengths of a read |
| `ConnectionHistoryProofs` | `HistoryInvariance`, `HistoryTrue` (`HistoryIsTrue`) | requests, pairs, capacity, idle time, last identifier, number of responses |
| `SafeFetchProofs` | `FetchInvariance`, `FetchIsSafe` (`FetchSafe`) | URLs, resolvers, servers, bodies, limits |
| `CredentialRecipeProofs` | `RowInvariance`, `RowIsSound` (`RowSound`) | callers, exchanges, operator writes, replies |

In brackets is the property of a run that the theorem states: the run's module extends the component's, so it is the
same definition. `GuestsEntered` and the like say nothing of the other components of their run, which stay at one
initial state. The assumptions on constants are named in the component modules (`CallAssumption`, `StreamAssumption`,
`WaitAssumption`, `StoreAssumption`, `RolesAssumption`, `RuntimeAssumption`, `ExchangeAssumption`,
`HistoryAssumption`, `FetchAssumption`, `RowAssumption`, `ReferencesAssumption`, `UrlsAssumption`,
`RequestsAssumption`, `AnswersAssumption`): numbers are natural, the model values that stand for "none" are not, roles
are disjoint, streams are finitely many. `RowAssumption` also says that the endpoint never issues a token twice and
that no operator writes one it issued. `AnswersAssumption` bounds what an upstream may say: a list of URLs, counts
given once or not at all, inline bytes and an output video from Gemini Omni alone, no meter in a MiniMax answer that is
no task, a Bailian `code` that is a string or is absent. TLC evaluates all of them on the runs' values.

**ProviderCall.** That a request on the wire is authorised depends on what was true when it was built.
`IInv == TypeOK /\ Asked /\ Cleared /\ Staged /\ Sent /\ Returned`: a future's use count is one exactly when it has
left "idle", for the request's slot (`Asked`); past the preparation no refusal applies (`Cleared`); which future is
awaited agrees with the arm, and at the budget step the identity is at hand (`Staged`); what the transport holds was
built from that identity (`Sent`); an ended call has no pending future, and no preparation error after a send
(`Returned`). `WireSafe` adds the argument about `diff_finalized`: equal counts and one non-empty emission for each
declared name leave no room for a repeated name.

**StreamingCall.** That the next chunk continues the last one is a fact about all the bytes on their way.
`Consecutive` gives each read on the wire an offset: the first is what was delivered and buffered, each next one is
further by the length of its read, the last is what was sent; a delivery, a dropped pull or an arriving read moves the
offsets and nothing else. `EndIsLast` and `OpenInside` say that an end has nothing behind it and that only a pull in
progress has a chunk in hand; `LateStops` that a pull begun after a signal returns no chunk. The refinement maps every
step to a step of `ByteStream` or to a stutter; `Kept` adds the late chunk.

**TaskWait.** `NeverBusy` needs arithmetic over the whole history: `Spaced` says that all inspections but the last are
each paid for by an interval of time, or by a sleep that lasts until the deadline. `Polled` says what the current poll
has already ruled out when it reaches an arm.

**TaskWorkflow.** No property is inductive, since a worker acts on a record it read some awaits ago. `IInv` says that
nobody sends, queries or applies for a task that was not dispatched (`Founded`); that the dispatch claim was won by one
worker, who has sent or is about to (`OneSender`); that what each worker holds (a fact in flight, a record it loaded, an
outcome it returned) is evidence of something that has happened or of a record that was durable; and that a final
record is what every later read returns. `OneAnswer` adds two action properties: a final record never changes, and a
cancellation decides nothing of a dispatched task.

**TaskLifecycle.** The life of a task is short; the weight is in the twelve adapters. `TaskInv` says that a prepared
body is what `Prepare` makes of the request, that a final observation is backed by the last answer (`Evidence`: the
state it states, the artifacts that are there, the counts and the meter), that a task with a final observation is not
polled, that a rejected one never started and that an accepted name can be followed. One lemma per dialect shows that
its reading of an answer is evidence, one per dialect that its estimate covers every bill.

**ComponentRuntime.** `Exclusive`: one thread at a time is in a call, and the mutex is not poisoned while it is held.
`Flagged`: an instance is broken exactly when the stale flag or the poison says so, and nobody past the lock is on a
broken one. `Gated` and `Faced`: a package that got this far passed the scan and the probe, and a call is one of its
world's. `Permitted`: a permit is held as long as its instance lives; `StreamLimit` counts the streams by these states
with the cardinality theorems, which is where the finite set of streams is needed.

**HttpExchange.** `Counted` and `HeadRead`: where the exchange is says how much has been read and buffered, against
which cap, and what the head was found to be; `Returned` and `Reported`: what is returned goes with what was read, and
what the observer has heard so far is the prefix that belongs to this point, so that the ending it hears is the one
returned.

**ConnectionHistory.** The history forgets, so a promise about fingerprints for ever is about the reports:
`HistoryInv` says that an entry was announced by the report that gave its pair the identifier, at the moment the pair
was first seen (`Good`, `Sound`), and that no identifier above `next_id` was ever announced (`Consistent`). Expiry and
eviction keep a part of the entries in their order (`RetainedSound`), a recorded pair goes to the back
(`AppendSound`).

**SafeFetch.** `Pinned`: nothing is connected to before every address of the one answer was checked, and the connection
is to one of them. `Reading`: there are running totals of the chunks read so far, none above the limit, the last of
which is what is held. `ArtifactWhole` carries them to the artifact: it is the sum of all chunks of a 2xx answer. The
specification of the proof starts from any environment; the run's start is one of its instances.

**CredentialRecipe.** That a secret is spent once is about pairs of requests made at different times. `RowInv` says
that one caller at a time is between the read and the write-back (`OneAtATime`), that no request was made with a
version of the row newer than the present one, and those made with the present one failed (`Versioned`), that every
token stored or presented is an operator's or was issued by an earlier exchange (`Sourced`), and for every pair of
requests that the later one was made with the same version only after a transient failure, and with the same token
only if the earlier one replaced nothing (`PairsSpent`). `Stands` is the claim about the operator.

Two definitions are written for the prover's sake without a change of meaning: `Retained` keeps entries by their rank
among those still fresh, where `SelectSeq` could not be reasoned about, and `ObserverAgrees` speaks of positions of
events.

**Only model-checked.** The liveness properties `AwaitsEnd`, `CallsEnd` and `SuiteEnds`: liveness under fairness is out
of the prover's reach. What the decoders, parsers, renderers and adapters compute (`SameAsWhole`, `ChatTold`,
`AnthropicFollows`, `ResponsesTurnWhole`, `FirstErrorStands`, `StreamSound`, `UsageIsEvidence`, `ConversationKept`,
`OpaqueStaysHome`, `RequestObeysModel`): recursive operators and folds over sequences, where every step would be an
induction over data.
`SetLoads` and `RawCallSound`: filters, sorts and folds over sequences, for the same reason. `SuitePasses`,
`ReferenceConforms`, `WrongAdaptersFail`, `SuitesJudged`: finite tables of fixtures, which a run covers completely.
`RelaySound` and `RecipesSound`: not proved yet. `DateIsTheCalendars`: arithmetic with nested divisions.

## 5. Findings

- `passthrough_cut`: a frame that the end of the input dispatched without its blank line is forwarded as it is, so the
  failure event the reference host writes next is not an event of its own for the client.
- `component_own_host`: a task-v1 package that imports its own world's host interface passes the import scan and
  cannot be instantiated, because the linked interface is the provider world's.
- `responses_turns`: a tool call numbered by its content block is left out of the replay carrier, so the finished turn
  is refused when the client gives it back.
- `after_error`: the Chat Completions parser answers an `error` event with an error and goes on; what the upstream
  sends next, the held finish and `Done` follow it. The comment on its sibling says "The kernel's `StreamEvent::Error`
  contract forbids events after it" (`reference_anthropic.rs:931`).

## 6. Seen while modelling, without a run

- A host-signed request given to an unsigned entry point has its slot resolved before it is refused (south-core
  `lib.rs:1043`; south-contracts `lib.rs:1607` says "South never resolves this slot").
- A manifest that names a family twice contests it with itself (`package_set.rs:141`; `:74` says "A family two or more
  admitted packages of one world declare.").
- An over-long line that is not data is accepted when it is complete in one chunk and refused when it is split
  (`sse_split.rs:18`).
- Bailian estimates five seconds when the duration is absent or unparseable, while `task_v2.rs:854` calls
  `requested_seconds` "the duration actually present in the prepared request".
- Converse drops text blocks that do not parse; Kiro drops replay carriers; Gemini's synthetic call ids repeat between
  turns; redacted thinking goes to Gemini as a thought signature (`gemini_text.rs:154`; `OpaqueStaysHome` names the
  case).
- A forced choice in the Messages spelling, `{"type": "tool", "name": ...}`, goes through the Responses adapter to a
  model that takes automatic choice only. `anthropic_dialect.rs:146` says of a choice without `function.name` that it
  is "left out downstream, so it does not force anything"; `reference_openai_responses.rs:304` reads it as a named
  tool. `AutoOnlyKept` of `RequestRules` states the rule without the exception and fails.
- The Messages parser reports usage more than once, "which a last-nonzero-wins consumer absorbs to the same result"
  (`reference_anthropic.rs:880-888`). A count that goes back to zero is not absorbed: `ConsumerAgrees` of
  `MCUpstreamStream` fails. `UsageIsEvidence` is what holds.
- A recipe may present a signed JWT for longer than it is valid when its clamp's lower end is above the JWT's lifetime,
  while the gate says that what is presented "must not outlive the token's own exp" (`credentials.rs:789`).
  `JwtNotOutlived` of `RecipeRun` fails.
- The gate admits extractions on a probe step, which the interpreter never makes (`credential_recipe.rs:622`); a later
  step that needs one fails as transient each time. `InputsMade` names the case. The endpoint of an auth step is not
  checked as that of the other steps is (`credentials.rs:1013`).
- A carrier of strings that JSON escapes may be encoded (up to 8 MiB of base64) and not decoded (4 MiB and 32 KiB of
  document). Raw reasoning closed before its signature came is two items, and both get the carrier, so that the turn
  is refused when it comes back. `ReplayAccepted` of `ResponsesStream` excludes both.
- `usage_chunk` (north-codec `sse.rs:131`) adds counts unchecked, which panics under the workspace's overflow checks
  where its twin in `chat_stream.rs` refuses.
- A later SSE frame that begins with a byte order mark decodes differently alone than in its stream.
- A thinking block behind a redacted one sends summary text of a part that was not announced
  (`responses/stream.rs:688`); raw reasoning stays open in front of a tool call whose index is not the choice's
  (`responses/stream.rs:778`).

## 7. Not modelled

- Anything without state that converts or validates a document: request mapping, buffered responses, manifests,
  media, image, speech and embeddings documents, and the adapters for these.
- TLS, client construction, header bytes, DNS and proxies of the transport: below the interface the code uses.
- WASI shims and guests' own code; what the loader's gates look at inside a manifest.
- The event-count bound of the whole-body SSE function; the re-encoding of eventstream messages as SSE.
- In the task suite, the digests of resources and the branch for hosts that reserve none.
- In the adapters, image blocks of Kiro, the layout of bodies and of client answers, tool declarations beyond their
  presence.
- The packages, which hold no logic of their own.

## 8. Next

A proof of `RelaySound` (the client sees nothing complete before it is settled) for streams of any length, and of the
interpreter's part of `RecipesSound`.
