--------------------------- MODULE TaskLifecycle ----------------------------
(***************************************************************************)
(* What the nine task-v2 reference adapters prepare (build_submit_request):*)
(* the refusals, the media, count, duration and resolution that go into    *)
(* the upstream body, and the estimate the host reserves funds by.         *)
(*                                                                         *)
(* A request is a record of what the adapters tell apart:                  *)
(*   shape      the model family; "none" when no model is named            *)
(*   prompt     "none", "empty" or "text"                                  *)
(*   first, last, video, audio   "none", "url", "data" (inline bytes) or   *)
(*              "bad" (not a usable string)                                *)
(*   images, videos   sequences of the same kinds (reference lists);       *)
(*   refsBad    the reference list is not an array                         *)
(*   duration, n   {} or {k};  durationBad, nBad   present, not a number   *)
(*   tier       the resolution: "none", a tier, or "odd"                   *)
(*   extra      a switch one adapter reads: see each adapter               *)
(* A prepared task is what the body asks (`body`) and what the estimate    *)
(* says (`estimate`), or a refusal.  Left out: aliases of one input,       *)
(* reference audios (bounded like reference videos), and options that are  *)
(* copied or refused whatever the rest of the request is.                  *)
(***************************************************************************)
EXTENDS Integers, Sequences, FiniteSets, TaskDialects

CONSTANTS MaxVeoReferences, MaxXaiReferences, MaxBytePlusReferences, MaxOmniImages

ASSUME ReferencesAssumption ==
    /\ MaxVeoReferences \in Nat /\ MaxXaiReferences \in Nat
    /\ MaxBytePlusReferences \in Nat /\ MaxOmniImages \in Nat

NoFacts == [seconds |-> {}, images |-> {}, outputs |-> {}, tier |-> "none"]
Refusal == [ok |-> FALSE, body |-> NoFacts, estimate |-> NoFacts, inputVideo |-> FALSE, rate |-> {}]
Prepared(body, estimate) ==
    [ok |-> TRUE, body |-> body, estimate |-> estimate, inputVideo |-> FALSE, rate |-> {}]
PreparedIf(ok, body, estimate) == IF ok THEN Prepared(body, estimate) ELSE Refusal

Facts(seconds, images, outputs, tier) ==
    [seconds |-> seconds, images |-> images, outputs |-> outputs, tier |-> tier]

Given(field) == field # "none"
Text(field) == field \in {"url", "data"}
Count(field) == IF Text(field) THEN 1 ELSE 0
AllIn(list, kinds) == \A i \in 1..Len(list) : list[i] \in kinds
Positive(optional) == \A k \in optional : k >= 1

-----------------------------------------------------------------------------
\* Veo: images are inline bytes, a duration and a count are positive.
VeoPrepare(r) ==
    LET images == Count(r.first) + Count(r.last) + Len(r.images)
        outputs == IF r.n = {} THEN {1} ELSE r.n
    IN PreparedIf(
         /\ Given(r.shape) /\ Given(r.prompt)
         /\ r.first # "url" /\ r.last # "url"
         /\ ~r.refsBad /\ Len(r.images) <= MaxVeoReferences /\ AllIn(r.images, {"data"})
         /\ ~r.durationBad /\ Positive(r.duration)
         /\ ~r.nBad /\ Positive(r.n),
         Facts(r.duration, {images}, outputs, r.tier),
         Facts(r.duration, {images}, outputs, IF r.tier = "odd" THEN "none" ELSE r.tier))

\* xAI: 1 to 15 seconds, at most seven references, one clip.
XaiPrepare(r) ==
    LET images == Count(r.first) + Count(r.last) + Len(r.images)
    IN PreparedIf(
         /\ Given(r.shape) /\ Given(r.prompt)
         /\ ~r.durationBad /\ \A k \in r.duration : k \in 1..15
         /\ ~r.refsBad /\ Len(r.images) <= MaxXaiReferences /\ AllIn(r.images, {"url", "data"}),
         Facts(r.duration, {images}, {}, r.tier),
         Facts(r.duration, {images}, {1}, "none"))

\* BytePlus writes its defaults (five seconds, 720p) into the body.
BytePlusPrepare(r) ==
    LET images == Count(r.first) + Count(r.last) + Len(r.images)
        seconds == IF r.duration = {} THEN {5} ELSE r.duration
        tier == IF r.tier = "none" THEN "720P" ELSE r.tier
    IN PreparedIf(
         /\ Given(r.shape) /\ Given(r.prompt)
         /\ ~r.refsBad /\ Len(r.images) <= MaxBytePlusReferences /\ AllIn(r.images, {"url", "data"})
         /\ ~r.durationBad /\ Positive(r.duration),
         Facts(seconds, {images}, {}, tier),
         Facts(seconds, {images}, {1}, IF tier = "odd" THEN "none" ELSE tier))

-----------------------------------------------------------------------------
\* Kling: `extra` names the operation and its switches.
\*   op         text, omni, motion or another;  customize   multi_shot with
\*   shot_type customize;  multi   multi_prompt is there;  sound;  mode;
\*   base       the first video of the list is to be edited
\* The video of an omni request is its list: "bad" is a list that is there
\* and empty.
text_body(r) ==
    /\ Given(r.prompt) \/ r.extra.customize
    /\ r.extra.customize => r.extra.multi

omni_body(r) ==
    /\ ~(Text(r.video) /\ r.extra.sound)
    /\ r.extra.customize => r.extra.multi
    /\ r.extra.customize \/ r.prompt = "text"
    /\ r.extra.mode # "none"

motion_body(r) == Text(r.first) /\ Text(r.video) /\ r.extra.oriented

\* An edited base video and a motion clip carry no duration.
Timed(r) ==
    \/ r.extra.op = "text"
    \/ r.extra.op = "omni" /\ ~(Text(r.video) /\ r.extra.base)

\* Milliunits per second of each offer; {} where the pack has no rate.  The
\* estimate passes whether the list is there, not whether it is empty.
request_unit_rate(r, reference) ==
    LET mode == IF r.extra.mode = "none" THEN "std" ELSE r.extra.mode
        sound == r.extra.sound
    IN CASE r.shape = "kling-v3" /\ r.extra.op = "motion" -> {1200}
         [] r.shape = "kling-v3" /\ r.extra.op # "motion" /\ ~reference ->
              CASE mode = "std" -> {IF sound THEN 900 ELSE 600}
                [] mode = "pro" -> {IF sound THEN 1200 ELSE 800}
                [] mode = "4k" -> {3000}
                [] OTHER -> {}
         [] r.shape = "kling-v3-omni" /\ r.extra.op # "motion" ->
              CASE mode = "std" /\ ~(sound /\ reference) ->
                     {IF reference THEN 900 ELSE IF sound THEN 800 ELSE 600}
                [] mode = "pro" /\ ~(sound /\ reference) ->
                     {IF reference THEN 1200 ELSE IF sound THEN 1000 ELSE 800}
                [] mode = "4k" /\ ~reference -> {3000}
                [] OTHER -> {}
         [] r.shape = "kling-video-o1" /\ r.extra.op # "motion" /\ ~sound ->
              CASE mode = "std" -> {IF reference THEN 900 ELSE 600}
                [] mode = "pro" -> {IF reference THEN 1200 ELSE 800}
                [] OTHER -> {}
         [] OTHER -> {}

KlingPrepare(r) ==
    LET seconds == IF ~Timed(r) THEN {} ELSE IF r.duration = {} THEN {5} ELSE r.duration
    IN IF /\ Given(r.shape)
          /\ CASE r.extra.op = "text" -> text_body(r)
               [] r.extra.op = "omni" -> omni_body(r)
               [] r.extra.op = "motion" -> motion_body(r)
               [] OTHER -> FALSE
          /\ Timed(r) => ~r.durationBad /\ \A k \in r.duration : k >= 0
       THEN [Prepared(Facts(seconds, {}, {}, "none"), Facts(seconds, {}, {}, "none"))
               EXCEPT !.rate = request_unit_rate(r, r.extra.op = "omni" /\ Given(r.video))]
       ELSE Refusal

-----------------------------------------------------------------------------
\* MiniMax: whole positive seconds; the tier is normalised or refused.
seconds_ok(r) == ~r.durationBad /\ Positive(r.duration)

HailuoPrepare(r) ==
    LET images == Count(r.first) + Count(r.last)
        seconds == IF r.duration = {} THEN {6} ELSE r.duration
        tier == IF r.tier = "none" THEN "768P" ELSE r.tier
    IN PreparedIf(
         /\ r.shape \in {"hailuo-02", "hailuo-2.3"}
         /\ Given(r.prompt) \/ Text(r.first) \/ Text(r.last)
         /\ Text(r.last) => r.shape = "hailuo-02"
         /\ tier \in {"512P", "768P", "1080P"}
         /\ ~(Text(r.last) /\ tier = "512P")
         /\ seconds_ok(r),
         Facts(seconds, {images}, {}, tier),
         Facts(seconds, {images}, {}, tier))

prepare_h3(r) ==
    LET images == Count(r.first) + Count(r.last) + Len(r.images)
        seconds == IF r.duration = {} THEN {5} ELSE r.duration
        tier == IF r.tier = "none" THEN "768P" ELSE r.tier
    IN PreparedIf(
         /\ ~Given(r.video) /\ ~Given(r.audio)
         /\ r.prompt = "text"
         /\ Text(r.last) => Text(r.first)
         /\ ~r.refsBad /\ Len(r.images) <= 9 /\ AllIn(r.images, {"url", "data"})
         /\ r.images # << >> => ~Text(r.first) /\ r.shape # "h3-max"
         /\ tier \in {"480P", "768P", "2K"}
         /\ seconds_ok(r)
         /\ ~r.extra.adaptive,
         Facts(seconds, {images}, {}, tier),
         Facts(seconds, {images}, {}, tier))

MiniMaxPrepare(r) == IF r.shape \in {"h3", "h3-max"} THEN prepare_h3(r) ELSE HailuoPrepare(r)

-----------------------------------------------------------------------------
\* Omni: Vertex takes images but no other length or count than its own;
\* the Gemini line is text only.  The clip is always ten seconds.
vertex_input(r) ==
    /\ ~Given(r.last) /\ ~Given(r.video)
    /\ ~r.durationBad /\ r.duration \subseteq {10}
    /\ ~r.nBad /\ r.n \subseteq {1}
    /\ r.first \in {"none", "data"}
    /\ ~r.refsBad /\ AllIn(r.images, {"data"})
    /\ Count(r.first) + Len(r.images) <= MaxOmniImages

OmniPrepare(vertex, r) ==
    LET images == IF vertex THEN Count(r.first) + Len(r.images) ELSE 0
    IN PreparedIf(
         /\ Given(r.shape) /\ Given(r.prompt)
         /\ IF vertex THEN ~r.extra.adaptive /\ vertex_input(r)
            ELSE ~Given(r.first) /\ ~Given(r.last) /\ r.images = << >> /\ ~r.refsBad,
         Facts({}, {images}, {}, "none"),
         Facts({10}, {images}, {1}, "none"))

-----------------------------------------------------------------------------
\* GMI images: URLs only; reference images only where the model has them.
\* `extra.limit` is the model's reference limit, 0 for none.
GmiPrepare(r) ==
    LET outputs == IF r.n = {} THEN {1} ELSE r.n
    IN PreparedIf(
         /\ Given(r.shape) /\ ~r.extra.b64 /\ Given(r.prompt)
         /\ ~r.nBad /\ Positive(r.n)
         /\ ~r.refsBad /\ AllIn(r.images, {"url", "data"})
         /\ Len(r.images) <= r.extra.limit,
         Facts({}, {Len(r.images)}, outputs, "none"),
         Facts({}, {Len(r.images)}, outputs, "none"))

\* Wan images: one to four; a count that is not named is not sent.
WanPrepare(r) ==
    PreparedIf(
         /\ Given(r.shape)
         /\ ~r.nBad /\ r.n \subseteq 1..4
         /\ ~r.refsBad /\ AllIn(r.images, {"url", "data"}),
         Facts({}, {Len(r.images)}, r.n, "none"),
         Facts({}, {Len(r.images)}, IF r.n = {} THEN {1} ELSE r.n, "none"))

-----------------------------------------------------------------------------
\* Bailian's older shapes: first-and-last frame (kf2v), happyhorse
\* references (r2v), and the rest.  A duration that does not parse is passed
\* on and estimated as five seconds.
BailianLegacy(r) ==
    LET kf == r.shape = "kf2v"
        r2v == r.shape = "r2v"
        images == CASE kf -> Count(r.first) + Count(r.last)
                    [] r2v -> Len(r.images)
                    [] OTHER -> Count(r.first)
        seconds == IF kf \/ r.duration = {} \/ \E k \in r.duration : k < 0 THEN {5} ELSE r.duration
    IN PreparedIf(
         /\ Given(r.prompt)
         /\ kf => Text(r.first) /\ ~r.durationBad /\ r.duration \subseteq {5}
         /\ r2v => /\ ~Given(r.first) /\ ~r.refsBad
                   /\ Len(r.images) \in 1..9 /\ AllIn(r.images, {"url", "data"})
         /\ \A k \in seconds : k > 0,
         Facts(IF kf THEN {} ELSE r.duration, {images}, {}, r.tier),
         Facts(seconds, {images}, {}, IF r.tier = "odd" THEN "none" ELSE r.tier))

\* Wan's media shapes: which inputs a shape takes.
WanShapes == {"wan3", "wan-i2v", "wan-r2v", "wan-edit"}

accepts(shape, r) ==
    /\ Given(r.first) => shape # "wan-edit"
    /\ Given(r.last) => shape \in {"wan3", "wan-i2v"}
    /\ r.images # << >> \/ r.refsBad => shape # "wan-i2v"
    /\ r.videos # << >> => shape \in {"wan3", "wan-r2v"}
    /\ Given(r.video) => shape # "wan-r2v"
    /\ Given(r.audio) => shape = "wan-i2v"

Tiers(shape) == IF shape = "wan3" THEN {"480P", "720P", "1080P"} ELSE {"720P", "1080P"}

\* Every URL is a non-empty string.
InputsRead(r) ==
    /\ \A field \in {r.first, r.last, r.video, r.audio} : field # "bad"
    /\ ~r.refsBad /\ AllIn(r.images, {"url", "data"}) /\ AllIn(r.videos, {"url", "data"})

\* The combinations and counts a shape takes.
media(shape, r) ==
    CASE shape = "wan3" ->
            /\ Given(r.last) => Given(r.first)
            /\ ~(Given(r.first) /\ (r.images # << >> \/ r.videos # << >> \/ Given(r.video)))
            /\ Len(r.images) <= 10 /\ Len(r.videos) + Count(r.video) <= 5
      [] shape = "wan-i2v" ->
            /\ Given(r.first) # Given(r.video)
            /\ ~(Given(r.video) /\ Given(r.audio))
      [] shape = "wan-r2v" -> Len(r.images) + Len(r.videos) \in 1..5
      [] shape = "wan-edit" -> Given(r.video) /\ Len(r.images) <= 4

InputVideo(shape, r) ==
    CASE shape = "wan-r2v" -> r.videos # << >>
      [] shape = "wan3" -> r.videos # << >> \/ Given(r.video)
      [] OTHER -> Given(r.video)

\* The lengths a shape takes (-1 lets wan3 choose, 0 keeps the edit's).
Lengths(shape, input) ==
    CASE shape = "wan3" -> {-1} \cup (2..30)
      [] shape = "wan-i2v" -> 2..15
      [] shape = "wan-r2v" -> 2..(IF input THEN 10 ELSE 15)
      [] shape = "wan-edit" -> {0} \cup (2..10)

Lower(a, b) == IF a < b THEN a ELSE b
Upper(a, b) == IF a < b THEN b ELSE a

\* Mutant: a continuation is reserved by its own length only.
BilledOutputOnly(shape, duration, input) ==
    LET seconds == CHOOSE k \in duration \cup {5} : duration # {} => k \in duration
    IN CASE shape = "wan3" ->
              IF duration = {-1} \/ (duration = {} /\ input) THEN 30
              ELSE IF input THEN Lower(15 + seconds, 30) ELSE seconds
         [] shape = "wan-i2v" -> seconds
         [] shape = "wan-r2v" -> IF input THEN seconds + 5 ELSE seconds
         [] shape = "wan-edit" -> 10 + (IF duration = {} \/ seconds <= 0 THEN 10 ELSE seconds)

\* The upper bound of the `usage.duration` the upstream bills.
billed_seconds(shape, duration, input) ==
    LET seconds == CHOOSE k \in duration \cup {5} : duration # {} => k \in duration
    IN CASE shape = "wan3" ->
              IF duration = {-1} \/ (duration = {} /\ input) THEN 30
              ELSE IF input THEN Lower(15 + seconds, 30) ELSE seconds
         [] shape = "wan-i2v" -> IF input THEN Upper(seconds, 10) ELSE seconds
         [] shape = "wan-r2v" -> IF input THEN seconds + 5 ELSE seconds
         [] shape = "wan-edit" -> 10 + (IF duration = {} \/ seconds <= 0 THEN 10 ELSE seconds)

WanMedia(r) ==
    LET input == InputVideo(r.shape, r)
        images == Count(r.first) + Count(r.last) + Len(r.images)
        empty == ~(Given(r.first) \/ Given(r.video)) /\ r.images = << >> /\ r.videos = << >>
        tier == IF r.tier = "none" THEN "1080P" ELSE r.tier
    IN IF /\ accepts(r.shape, r) /\ InputsRead(r) /\ media(r.shape, r)
          /\ r.shape = "wan-r2v" \/ (r.shape = "wan3" /\ empty) => Given(r.prompt)
          /\ ~r.durationBad /\ r.duration \subseteq Lengths(r.shape, input)
          /\ tier \in Tiers(r.shape)
       THEN [Prepared(Facts(r.duration, {images}, {}, tier),
                      Facts({billed_seconds(r.shape, r.duration, input)}, {images}, {}, tier))
               EXCEPT !.inputVideo = input]
       ELSE Refusal

BailianPrepare(r) ==
    CASE ~Given(r.shape) -> Refusal
      [] r.shape \in WanShapes -> WanMedia(r)
      [] OTHER -> BailianLegacy(r)

-----------------------------------------------------------------------------
Prepare(dialect, r) ==
    CASE dialect \in {"veo_gemini", "veo_vertex"} -> VeoPrepare(r)
      [] dialect \in {"omni_gemini", "omni_vertex"} -> OmniPrepare(dialect = "omni_vertex", r)
      [] dialect \in {"hailuo", "h3"} -> MiniMaxPrepare(r)
      [] dialect = "xai" -> XaiPrepare(r)
      [] dialect = "byteplus" -> BytePlusPrepare(r)
      [] dialect = "kling" -> KlingPrepare(r)
      [] dialect = "gmi" -> GmiPrepare(r)
      [] dialect = "wan" -> WanPrepare(r)
      [] dialect = "bailian" -> BailianPrepare(r)

\* External: what the upstream can bill for a prepared body, as the comments
\* on the estimates describe it.  A Wan shape bills its input clip too.
Clips(input) == IF input THEN 2..15 ELSE {0}
Ran(asked) == IF asked = {} THEN {5} ELSE asked

Wan3Bills(asked, input) ==
    {Lower(clip + out, 30) : clip \in Clips(input),
       out \in IF asked = {-1} \/ (asked = {} /\ input) THEN 2..30 ELSE Ran(asked)}

I2vBills(asked, input) == {Upper(clip, out) : clip \in Clips(input) \cap 0..10, out \in Ran(asked)}

R2vBills(asked, input) == {Lower(clip, 5) + out : clip \in Clips(input), out \in Ran(asked)}

EditBills(asked) ==
    {clip + (IF asked \subseteq {0} THEN clip ELSE Lower(clip, CHOOSE k \in asked : TRUE)) : clip \in 2..10}

Bills(dialect, r, prepared) ==
    LET asked == prepared.body.seconds
        input == prepared.inputVideo
    IN CASE dialect = "bailian" /\ r.shape = "wan3" -> Wan3Bills(asked, input)
         [] dialect = "bailian" /\ r.shape = "wan-i2v" -> I2vBills(asked, input)
         [] dialect = "bailian" /\ r.shape = "wan-r2v" -> R2vBills(asked, input)
         [] dialect = "bailian" /\ r.shape = "wan-edit" -> EditBills(asked)
         [] dialect = "bailian" /\ r.shape \notin WanShapes /\ asked = {} -> {5}
         [] dialect \in {"omni_gemini", "omni_vertex"} -> {10}
         [] OTHER -> asked
-----------------------------------------------------------------------------
(***************************************************************************)
(* One task of one task-v2 dialect, from the request to its answer.  The   *)
(* adapter is stateless: the host keeps the locator (here the dialect) and *)
(* the identifier of an accepted task, and calls prepare, submit, poll,    *)
(* fetch and render in that order.  The upstream answers as it likes,      *)
(* within what an answer can truthfully say of whether it started a task.  *)
(***************************************************************************)

CONSTANTS
    Requests(_),        \* the requests of a dialect
    SubmitAnswers(_),   \* the answers to a submission
    PollAnswers(_),     \* the answers to a query
    FileAnswers         \* the answers to a file retrieval

\* A number is given once or not at all.
Optionally(values, optional) == optional \subseteq values /\ \A a, b \in optional : a = b

\* Any requests and answers of these shapes: media are inline in Omni's
\* answers only, Bailian's `code` is a string or is not there, and H3's
\* meter is a member of its `task`.
ASSUME RequestsAssumption ==
    \A d \in Dialects : \A r \in Requests(d) : Optionally(Int, r.duration)

ASSUME AnswersAssumption ==
    /\ \A said \in SubmitAnswers("bailian") : said.code \in {"absent", "error"}
    /\ \A d \in MiniMax : \A said \in PollAnswers(d) : said.flag # "task" => said.meter = "absent"
    /\ \A d \in Dialects : \A said \in SubmitAnswers(d) \cup PollAnswers(d) :
          /\ said.urls \in Seq(UrlKinds)
          /\ d \notin Omni => said.urls \in Seq(UrlKinds \ {"elided", "raw"}) /\ said.output = "none"
          /\ said.usage \in TokenCounts
          /\ \A counts \in {said.usage.text, said.usage.image, said.usage.input} :
                Optionally(Nat, counts)

VARIABLES
    dialect,       \* the adapter, and the line the locator names
    pc,            \* "start", "prepared", "sent", "polling", "observed", "done"
    request,       \* what the client asked
    prepared,      \* what the adapter made of it
    started,       \* whether the upstream runs a task
    answer,        \* the answer to the submission, then the one that ended the task
    id,            \* the identifier the host keeps
    outcome,       \* the submission's outcome
    observation,   \* the last observation
    fetched,       \* the file retrieval's answer
    result         \* "none", "refused", "rejected", "unclear", "rendered", "failed", "stuck"

taskVars == <<dialect, pc, request, prepared, started, answer, id, outcome, observation, fetched,
              result>>

NoRequest == [shape |-> "none", prompt |-> "none", first |-> "none", last |-> "none",
              video |-> "none", audio |-> "none", images |-> << >>, videos |-> << >>,
              refsBad |-> FALSE, duration |-> {}, n |-> {}, durationBad |-> FALSE, nBad |-> FALSE,
              tier |-> "none",
              extra |-> [op |-> "text", customize |-> FALSE, multi |-> FALSE, sound |-> FALSE,
                         mode |-> "none", base |-> FALSE, oriented |-> FALSE, adaptive |-> FALSE,
                         b64 |-> FALSE, limit |-> 0]]

\* External: what an upstream's answer to a submission admits.  A refusal
\* starts nothing, an error code beside nothing that can name a task starts
\* nothing (what starts with '-' is no name to MiniMax), and a named
\* or delivered task was started; a failed or unreadable answer, or an error
\* code beside a name, says nothing.
Truthful(said, runs) ==
    /\ said.status = "4xx" => ~runs
    /\ /\ Readable(said) /\ said.code = "error"
       /\ ~identifier(said.id) \/ (dialect \in MiniMax /\ said.id = "dash")
       => ~runs
    /\ Readable(said) /\ said.code \in {"absent", "zero"}
         /\ (said.id # "none" \/ said.outer # "none" \/ said.urls # << >>) => runs

\* build_submit_request.
PrepareTask ==
    /\ pc = "start"
    /\ \E asked \in Requests(dialect) :
          LET made == Prepare(dialect, asked)
          IN /\ request' = asked
             /\ prepared' = made
             /\ pc' = IF made.ok THEN "prepared" ELSE "done"
             /\ result' = IF made.ok THEN "none" ELSE "refused"
    /\ UNCHANGED <<dialect, started, answer, id, outcome, observation, fetched>>

\* External: the host sends the prepared request.  From here it holds the
\* locator, not the request.
SendTask ==
    /\ pc = "prepared"
    /\ pc' = "sent" /\ request' = NoRequest /\ prepared' = Refusal
    /\ UNCHANGED <<dialect, started, answer, id, outcome, observation, fetched, result>>

\* The upstream's answer and parse_submit_response.
SubmitTask ==
    /\ pc = "sent"
    /\ \E said \in SubmitAnswers(dialect), runs \in BOOLEAN :
          LET out == Submit(dialect, said)
          IN /\ Truthful(said, runs)
             /\ started' = runs
             /\ answer' = said
             /\ outcome' = out
             /\ id' = out.id
             /\ observation' = out.observation
             /\ pc' = CASE out.kind = "accepted" -> "polling"
                        [] out.kind = "terminal" -> "observed"
                        [] OTHER -> "done"
             /\ result' = CASE out.kind = "rejected" -> "rejected"
                            [] out.kind = "unknown" -> "unclear"
                            [] OTHER -> "none"
    /\ UNCHANGED <<dialect, request, prepared, fetched>>

\* build_observe_request and parse_observation; an identifier the adapter
\* will not put in a URL is never asked about.
PollTask ==
    /\ pc = "polling" /\ Polls(dialect, id)
    /\ \E said \in PollAnswers(dialect) :
          LET seen == Observe(dialect, said)
          IN /\ answer' = IF Terminal(seen) THEN said ELSE answer
             /\ observation' = seen
             /\ pc' = IF Terminal(seen) THEN "observed" ELSE "polling"
    /\ UNCHANGED <<dialect, request, prepared, started, id, outcome, fetched, result>>

PollRefused ==
    /\ pc = "polling" /\ ~Polls(dialect, id)
    /\ pc' = "done" /\ result' = "stuck"
    /\ UNCHANGED <<dialect, request, prepared, started, answer, id, outcome, observation, fetched>>

\* build_artifact_request, the retrieval when there is one, and
\* render_success or map_terminal_failure.
SettleTask ==
    /\ pc = "observed"
    /\ LET fetch == Fetch(dialect, observation)
       IN \E file \in IF fetch = "fetch" THEN FileAnswers ELSE {NoAnswer} :
            /\ fetched' = file
            /\ result' = CASE observation.kind = "failed" ->
                                IF Failure(dialect, observation) THEN "failed" ELSE "stuck"
                           [] observation.kind = "succeeded" /\ fetch = "refused" -> "stuck"
                           [] observation.kind = "succeeded" /\ fetch # "refused" ->
                                IF Render(dialect, observation, id, file) THEN "rendered" ELSE "stuck"
    /\ pc' = "done"
    /\ UNCHANGED <<dialect, request, prepared, started, answer, id, outcome, observation>>

TaskStart ==
    /\ pc = "start" /\ request = NoRequest /\ prepared = Refusal /\ started = FALSE
    /\ answer = NoAnswer /\ id = "none" /\ outcome = Unclear /\ observation = Blank
    /\ fetched = NoAnswer /\ result = "none"

TaskInit == dialect \in Dialects /\ TaskStart

TaskNext == PrepareTask \/ SendTask \/ SubmitTask \/ PollTask \/ PollRefused \/ SettleTask

TaskSpec == TaskInit /\ [][TaskNext]_taskVars

-----------------------------------------------------------------------------
\* A submission is reported rejected, so that the host returns the funds and
\* may submit again, only when the upstream runs no task; and an accepted
\* task can be asked about, except under a name with a '/' (which the
\* adapters take but will not put in a path), a Veo name of the other line,
\* or a Hailuo name that is not a number.
TaskNeverLost ==
    /\ result = "rejected" => ~started
    /\ outcome.kind = "accepted" =>
         \/ Polls(dialect, id)
         \/ HasSlash(id)
         \/ dialect = "hailuo"

\* A task is settled on what the upstream said.  A terminal observation comes
\* from a readable answer; every one of them is turned into an answer (a file
\* that is not to be had excepted), also when it came with the submission
\* and no identifier is known; every URL delivered is one the upstream gave;
\* a count that is billed is what was delivered, or at most one more where
\* the upstream reports it; a meter is the one reported, and a report that
\* cannot be read is no success where the bill is made from it; Omni's
\* buckets add up.
SettledOnEvidence ==
    /\ Terminal(observation) => Readable(answer)
    /\ result = "stuck" /\ Terminal(observation) => observation.ref = "file"
    /\ outcome.kind = "terminal" => outcome.observation.ref \in {"urls", "none"}
    /\ observation.kind = "succeeded" =>
         /\ observation.ref \in {"urls", "inline"} =>
               LET primaries == {i \in 1..Len(observation.roles) : observation.roles[i] = "primary"}
                   there == IF answer.output \in {"good", "elided"} THEN 1..1
                            ELSE {i \in 1..Len(answer.urls) : answer.urls[i] \in {"good", "elided"}}
               IN /\ Cardinality(primaries) = Cardinality(there) \/ dialect \in {"xai", "byteplus", "bailian", "h3", "hailuo"}
                  /\ Cardinality(primaries) <= Cardinality(there)
                  /\ \A count \in observation.outputs :
                        \/ count = Cardinality(primaries)
                        \/ dialect = "wan" /\ answer.meter = "extra" /\ count = Cardinality(primaries) + 1
         /\ observation.meter \subseteq {answer.meter}
         /\ dialect \in {"byteplus", "kling"} \cup MiniMax => answer.meter # "invalid"
         /\ dialect \in Omni =>
               LET b == observation.buckets
               IN /\ b.video = b.output /\ b.output # {}
                  /\ \A t \in b.text, i \in b.image, all \in b.input : t + i = all

\* What is reserved covers what can be billed: the images and the count are
\* the body's, and the seconds are at least any length the upstream may bill
\* for that body, input clips included; Kling's rate is at least the one of
\* the videos the list really holds.
ReservationCoversBill ==
    prepared.ok =>
        /\ prepared.estimate.images = prepared.body.images
        /\ prepared.body.outputs # {} => prepared.estimate.outputs = prepared.body.outputs
        /\ \A reserved \in prepared.estimate.seconds, bill \in Bills(dialect, request, prepared) :
              bill <= reserved
        /\ prepared.body.seconds # {} => prepared.estimate.seconds # {}
        /\ dialect = "kling" =>
              \A reserved \in prepared.rate,
                 rate \in request_unit_rate(request, request.extra.op = "omni" /\ Text(request.video)) :
                 rate <= reserved
=============================================================================
