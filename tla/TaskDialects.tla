---------------------------- MODULE TaskDialects ----------------------------
(***************************************************************************)
(* What the nine task-v2 reference adapters share: the shapes an upstream  *)
(* answer can have, the identifiers it can name a task by, and the         *)
(* observation and artifact contract of south-contracts/src/task_v2.rs.    *)
(*                                                                         *)
(* An identifier is the class of strings the adapters tell apart:          *)
(*   none      absent, or not a string        empty    ""                  *)
(*   padded    surrounded by white space      dots     "." or ".."         *)
(*   control   holds a control character      dash     starts with '-'     *)
(*   digits    ASCII digits only              plain    letters, '-', '_'   *)
(*   odd       other printable characters     slash    holds a '/'         *)
(*   models    models/<m>/operations/<id>     projects projects/<p>/...    *)
(*   publisher projects/.../publishers/google/models/<m>/operations/<id>,  *)
(*             over 128 bytes                                              *)
(*   long      over 128 bytes                 huge     over 8 KiB          *)
(* A URL is "good", "empty", "huge", "bad" (not a string), or for inline   *)
(* media "elided" (a $south.blob) or "raw" (bytes left in place).          *)
(* Optional numbers are sets: {} when absent, {n} when present.            *)
(***************************************************************************)
EXTENDS Integers, Sequences, FiniteSets

CONSTANT MAX_ARTIFACT_URLS

\* A video and its last frame fit.
ASSUME UrlsAssumption == MAX_ARTIFACT_URLS \in Nat \ {0, 1}

Ids == {"none", "empty", "padded", "dots", "control", "dash", "digits", "plain", "odd",
        "slash", "models", "projects", "publisher", "long", "huge"}

HasSlash(id) == id \in {"slash", "models", "projects", "publisher"}

\* `identifier` of xAI, BytePlus, GMI, Wan and Bailian: non-empty, trimmed,
\* not a dot segment, at most MAX_TASK_ID_BYTES, no control character.
identifier(id) == id \in {"dash", "digits", "plain", "odd", "slash", "models", "projects"}

\* Bounded by the 8 KiB artifact limit instead, and white space is kept.
valid_id(id) == identifier(id) \/ id \in {"padded", "publisher", "long"}

\* An answer of the upstream. Each adapter reads the members it knows.
\*   id, outer   the task (or file) identifier and Kling's second place
\*   code        an error code beside a 2xx: absent, zero, error or malformed
\*   word        the status word; "" when there is none
\*   urls        what the media member delivers, in order
\*   output      Omni's output_video
\*   frame       BytePlus's last frame
\*   meter       what the usage reports: absent, zero, some, more or invalid
\*   text        the size of the message and code strings
\*   flag        Veo: "done" with no error, "error" or "filtered";
\*               MiniMax: "task" when the H3 member `task` is there
\*   usage       Omni's token counts
NoUsage == [input |-> {}, output |-> {}, thoughts |-> {}, text |-> {}, image |-> {}, video |-> {},
            cached |-> {}, total |-> {}]

TokenCounts == [input : SUBSET Nat, output : SUBSET Nat, thoughts : SUBSET Nat, text : SUBSET Nat,
                image : SUBSET Nat, video : SUBSET Nat, cached : SUBSET Nat, total : SUBSET Nat]

NoAnswer == [status |-> "5xx", json |-> FALSE, id |-> "none", outer |-> "none", code |-> "absent",
             word |-> "", urls |-> << >>, output |-> "none", frame |-> "none", meter |-> "absent", text |-> "short",
             flag |-> "none", usage |-> NoUsage]

Readable(answer) == answer.status = "2xx" /\ answer.json

-----------------------------------------------------------------------------
\* Observations (TaskObservationV2): `failure` names the kind of a Failed.
Blank == [kind |-> "unknown", ref |-> "none", urls |-> << >>, roles |-> << >>, outputs |-> {},
          meter |-> {}, buckets |-> NoUsage, failure |-> "none", policy |-> FALSE, text |-> "short",
          running |-> FALSE]

Unknown == Blank
Progress(running) == [Blank EXCEPT !.kind = "progress", !.running = running]
Failed(kind, text) == [Blank EXCEPT !.kind = "failed", !.failure = kind, !.text = text]
Succeeded(ref, urls, outputs, meter) ==
    [Blank EXCEPT !.kind = "succeeded", !.ref = ref, !.urls = urls,
                  !.roles = [i \in 1..Len(urls) |-> "primary"],
                  !.outputs = outputs, !.meter = meter]

UrlKinds == {"good", "empty", "huge", "bad", "elided", "raw"}

\* The URLs of the wanted kinds, in order.
Kept(urls, wanted) ==
    LET kept[n \in 0..Len(urls)] ==
          IF n = 0 THEN << >>
          ELSE IF urls[n] \in wanted THEN Append(kept[n - 1], urls[n]) ELSE kept[n - 1]
    IN kept[Len(urls)]

\* TaskArtifactV2::new: a URL that is there, not empty and within its bound.
GoodUrl(url) == url = "good"

\* TaskArtifactRefV2::validate on a direct set: not empty, not over the
\* limit (companions counted), at least one primary artifact.
ValidUrls(roles) ==
    /\ Len(roles) \in 1..MAX_ARTIFACT_URLS
    /\ \E i \in 1..Len(roles) : roles[i] = "primary"

\* TaskObservationV2::validate.
Valid(observation) ==
    /\ observation.kind = "succeeded" /\ observation.ref = "urls" => ValidUrls(observation.roles)
    /\ observation.text # "huge"

\* `bounded`: a message or code over the bound is dropped.
Bounded(text) == IF text = "huge" THEN "none" ELSE text

Terminal(observation) == observation.kind \in {"succeeded", "failed"}

\* Outcomes of a submission (SubmitOutcomeV2).
Rejected == [kind |-> "rejected", id |-> "none", observation |-> Blank]
Unclear == [kind |-> "unknown", id |-> "none", observation |-> Blank]
Accepted(id) == [kind |-> "accepted", id |-> id, observation |-> Blank]
AcceptedTerminal(observation) ==
    [kind |-> "terminal", id |-> "none", observation |-> observation]
AcceptedIf(ok, id) == IF ok THEN Accepted(id) ELSE Unclear
-----------------------------------------------------------------------------
(***************************************************************************)
(* How the nine task-v2 reference adapters read the answers of their       *)
(* upstreams: one `Submit` (parse_submit_response), `Polls`                *)
(* (build_observe_request), `Observe` (parse_observation), `Fetch`         *)
(* (build_artifact_request), `Render` (render_success) and `Failure`       *)
(* (map_terminal_failure) per adapter.  Adapters with two lines (Veo and   *)
(* Omni on Gemini or Vertex, MiniMax Hailuo or H3) are two dialects: the   *)
(* saved locator or the configured family tells them apart.                *)
(***************************************************************************)

Veo == {"veo_gemini", "veo_vertex"}
Omni == {"omni_gemini", "omni_vertex"}
MiniMax == {"hailuo", "h3"}
Dialects == Veo \cup Omni \cup MiniMax
              \cup {"xai", "byteplus", "kling", "gmi", "wan", "bailian"}

\* `(400..500)` is a rejection, another status or a body that is not JSON
\* says nothing; otherwise the body decides.
FromBody(answer, outcome) ==
    CASE answer.status = "4xx" -> Rejected
      [] answer.status # "4xx" /\ ~Readable(answer) -> Unclear
      [] OTHER -> outcome

\* A failed query or a body that is not JSON is unknown.
FromQuery(answer, observation) == IF Readable(answer) THEN observation ELSE Unknown

-----------------------------------------------------------------------------
\* Veo
gemini_operation_name(name) == name = "models"
vertex_operation_name(name) == name \in {"projects", "publisher"}

\* A sample without a URI the contract can carry is left out.
Samples(urls) == Kept(urls, {"good"})

observe_operation(answer) ==
    LET samples == Samples(answer.urls)
        good == Succeeded("urls", samples, {Len(samples)}, {})
    IN CASE answer.flag = "none" -> Progress(TRUE)
         [] answer.flag = "error" -> Failed("failed", Bounded(answer.text))
         [] answer.flag \in {"done", "filtered"} /\ samples # << >> ->
                IF ValidUrls(good.roles) THEN good ELSE Unknown
         [] answer.flag = "filtered" /\ samples = << >> ->
                [Failed("failed", Bounded(answer.text)) EXCEPT !.policy = TRUE]
         [] OTHER -> Unknown

VeoSubmit(answer) ==
    FromBody(answer,
        IF answer.id # "none"
        THEN AcceptedIf(gemini_operation_name(answer.id) \/ vertex_operation_name(answer.id), answer.id)
        ELSE LET observation == observe_operation(answer)
             IN IF Terminal(observation) THEN AcceptedTerminal(observation) ELSE Unclear)

\* Each family polls only its own operation names.
VeoPolls(dialect, id) ==
    IF dialect = "veo_gemini" THEN gemini_operation_name(id) ELSE vertex_operation_name(id)

VeoObserve(answer) == FromQuery(answer, observe_operation(answer))
VeoRender(observation) == Valid(observation) /\ observation.ref = "urls"
VeoFailure(observation) == Valid(observation) /\ observation.kind = "failed"

-----------------------------------------------------------------------------
\* xAI
XaiSubmit(answer) == FromBody(answer, AcceptedIf(identifier(answer.id), answer.id))
XaiPolls(id) == identifier(id) /\ ~HasSlash(id)

\* `seconds`: a duration that is not a finite number >= 0 reads as absent.
LenientMeter(meter) == IF meter \in {"zero", "some", "more"} THEN {meter} ELSE {}

XaiObserve(answer) ==
    FromQuery(answer,
        CASE answer.word = "pending" -> Progress(FALSE)
          [] answer.word = "done" ->
                IF answer.urls # << >> /\ GoodUrl(answer.urls[1])
                THEN Succeeded("urls", <<"good">>, {1}, LenientMeter(answer.meter))
                ELSE Unknown
          [] answer.word = "failed" -> Failed("failed", Bounded(answer.text))
          [] answer.word = "expired" -> Failed("expired", "short")
          [] OTHER -> Unknown)

XaiRender(observation, id) == Valid(observation) /\ observation.ref = "urls" /\ id # "none"
XaiFailure(observation) == Valid(observation) /\ observation.kind = "failed"

-----------------------------------------------------------------------------
\* BytePlus
BytePlusSubmit(answer) == FromBody(answer, AcceptedIf(identifier(answer.id), answer.id))
BytePlusPolls(id) == identifier(id) /\ ~HasSlash(id)

\* The last frame rides behind the video as a companion.
BytePlusSucceeded(answer) ==
    LET framed == answer.frame \notin {"none", "empty"}
        roles == IF framed THEN <<"primary", "last_frame">> ELSE <<"primary">>
        urls == IF framed THEN <<"good", "good">> ELSE <<"good">>
        meter == IF answer.meter = "absent" THEN {} ELSE {answer.meter}
    IN IF /\ answer.urls # << >> /\ GoodUrl(answer.urls[1])
          /\ framed => GoodUrl(answer.frame)
          /\ answer.meter # "invalid"
       THEN [Succeeded("urls", urls, {1}, meter) EXCEPT !.roles = roles]
       ELSE Unknown

BytePlusObserve(answer) ==
    FromQuery(answer,
        CASE answer.word \in {"queued", "running"} -> Progress(answer.word = "running")
          [] answer.word = "succeeded" -> BytePlusSucceeded(answer)
          [] answer.word = "failed" -> Failed("failed", Bounded(answer.text))
          [] answer.word = "expired" -> Failed("expired", Bounded(answer.text))
          [] OTHER -> Unknown)

\* A last frame is written onto the video before it.
BytePlusRender(observation, id) ==
    /\ Valid(observation) /\ observation.ref = "urls" /\ id # "none"
    /\ observation.roles[1] = "primary"
BytePlusFailure(observation) == Valid(observation) /\ observation.kind = "failed"

-----------------------------------------------------------------------------
\* Kling: no status of a submission is a rejection.
KlingSubmit(answer) ==
    LET id == IF valid_id(answer.id) THEN answer.id ELSE answer.outer
    IN IF Readable(answer) THEN AcceptedIf(valid_id(id), id) ELSE Unclear
KlingPolls(id) == valid_id(id) /\ ~HasSlash(id)

\* No entry is left out: that would move the artifact indexes.
KlingSucceeded(answer) ==
    LET good == Succeeded("urls", answer.urls, {},
                          IF answer.meter = "absent" THEN {} ELSE {answer.meter})
    IN IF /\ \A i \in 1..Len(answer.urls) : GoodUrl(answer.urls[i])
          /\ ValidUrls(good.roles)
          /\ answer.meter # "invalid"
       THEN good ELSE Unknown

KlingObserve(answer) ==
    FromQuery(answer,
        LET observation ==
              CASE answer.word \in {"submitted", "processing"} -> Progress(answer.word = "processing")
                [] answer.word = "succeed" -> KlingSucceeded(answer)
                [] answer.word = "failed" -> Failed("failed", answer.text)
                [] OTHER -> Unknown
        IN IF Valid(observation) THEN observation ELSE Unknown)

KlingRender(observation, id) == Valid(observation) /\ observation.ref = "urls" /\ id # "none"
KlingFailure(observation) == Valid(observation) /\ observation.kind = "failed"

-----------------------------------------------------------------------------
\* MiniMax: identifiers may be numbers, are trimmed, and never start with '-'.
MiniMaxId(id) ==
    CASE id = "padded" -> "plain"
      [] id # "padded" /\ valid_id(id) /\ id # "dash" -> id
      [] OTHER -> "none"

\* An error code beside an identifier leaves it open whether a task runs.
MiniMaxSubmit(answer) ==
    LET id == MiniMaxId(answer.id)
    IN FromBody(answer,
         CASE answer.code \in {"absent", "zero"} -> AcceptedIf(id # "none", id)
           [] answer.code = "error" -> IF id # "none" THEN Unclear ELSE Rejected
           [] OTHER -> Unclear)

\* Hailuo carries the id in the query, whose grammar is digits only; H3 as
\* one path segment.
MiniMaxPolls(dialect, id) ==
    IF dialect = "h3" THEN valid_id(id) /\ ~HasSlash(id) ELSE id = "digits"

observe_h3(answer) ==
    CASE answer.word \in {"queued", "running"} -> Progress(answer.word = "running")
      [] answer.word = "succeeded" ->
            IF answer.urls # << >> /\ GoodUrl(answer.urls[1]) /\ answer.meter # "invalid"
            THEN Succeeded("urls", <<"good">>, {}, IF answer.meter = "absent" THEN {} ELSE {answer.meter})
            ELSE Unknown
      [] answer.word \in {"failed", "cancelled"} /\ answer.text # "huge" ->
            Failed(answer.word, answer.text)
      [] OTHER -> Unknown

\* The member `task`, not the locator, decides which generation is read.
MiniMaxObserve(answer) ==
    FromQuery(answer,
        CASE answer.flag = "task" -> observe_h3(answer)
          [] answer.flag # "task" /\ answer.code \notin {"absent", "zero"} -> Unknown
          [] answer.flag # "task" /\ answer.code \in {"absent", "zero"} ->
             CASE answer.word \in {"Preparing", "Queueing", "Processing"} ->
                    Progress(answer.word = "Processing")
               [] answer.word = "Success" /\ MiniMaxId(answer.id) # "none" ->
                    Succeeded("file", <<MiniMaxId(answer.id)>>, {}, {})
               [] answer.word = "Fail" -> Failed("failed", "short")
               [] OTHER -> Unknown)

\* A file is fetched on the Hailuo line only, by a digits-only query.
MiniMaxFetch(dialect, observation) ==
    CASE observation.ref # "file" -> "none"
      [] observation.ref = "file" /\ dialect = "hailuo" /\ observation.urls[1] = "digits" -> "fetch"
      [] OTHER -> "refused"

MiniMaxRender(observation, id, fetched) ==
    /\ Valid(observation) /\ id # "none"
    /\ \/ observation.ref = "urls" /\ Len(observation.urls) = 1
       \/ /\ observation.ref = "file"
          /\ Readable(fetched) /\ fetched.code \in {"absent", "zero"}
          /\ fetched.urls # << >> /\ GoodUrl(fetched.urls[1])
MiniMaxFailure(observation) == Valid(observation) /\ observation.kind = "failed"

-----------------------------------------------------------------------------
\* Gemini Omni
interaction_id(id) == id \in {"dash", "digits", "plain"}

\* output_video counts where it carries a URI that is not empty or bytes, and
\* then the steps are not looked at.
Videos(answer) ==
    IF answer.output \in UrlKinds \ {"empty", "bad"} THEN <<answer.output>> ELSE answer.urls

\* A URI is a URL artifact; bytes are an artifact only where the host elided
\* them.  More than one video among the steps is no answer.
find_video(answer) ==
    LET videos == Videos(answer)
    IN CASE Len(videos) = 1 /\ GoodUrl(videos[1]) -> "urls"
         [] Len(videos) = 1 /\ videos[1] = "elided" -> "inline"
         [] OTHER -> "none"

OrZero(optional) == IF optional = {} THEN 0 ELSE CHOOSE n \in optional : TRUE

\* Whether the usage is billable: the three totals and the video tokens are
\* reported, each breakdown adds up to its total, the cached tokens lie
\* within the input, and a grand total is the sum of the three.
token_buckets(usage) ==
    /\ usage.input # {} /\ usage.output # {} /\ usage.thoughts # {} /\ usage.video # {}
    /\ usage.text \cup usage.image # {} => OrZero(usage.text) + OrZero(usage.image) = OrZero(usage.input)
    /\ usage.video = usage.output
    /\ usage.cached # {} => OrZero(usage.cached) <= OrZero(usage.input)
    /\ usage.total # {} =>
          OrZero(usage.total) = OrZero(usage.input) + OrZero(usage.output) + OrZero(usage.thoughts)

observe_interaction(answer) ==
    CASE answer.word = "in_progress" -> Progress(TRUE)
      [] answer.word = "completed" ->
            IF find_video(answer) # "none" /\ token_buckets(answer.usage)
            THEN [Succeeded(find_video(answer), Videos(answer), {1}, {})
                    EXCEPT !.buckets = [answer.usage EXCEPT !.total = {}]]
            ELSE Unknown
      [] OTHER -> Unknown

\* Mutant: any success settles from the submission.
OmniSubmitInline(answer) ==
    LET observation == observe_interaction(answer)
    IN FromBody(answer,
         IF answer.word = "completed" /\ observation.kind = "succeeded"
         THEN AcceptedTerminal(observation)
         ELSE AcceptedIf(interaction_id(answer.id), answer.id))

\* Inline bytes cannot be settled from the submission: they are polled for.
OmniSubmit(answer) ==
    LET observation == observe_interaction(answer)
    IN FromBody(answer,
         IF answer.word = "completed" /\ observation.kind = "succeeded" /\ observation.ref = "urls"
         THEN AcceptedTerminal(observation)
         ELSE AcceptedIf(interaction_id(answer.id), answer.id))

OmniPolls(id) == interaction_id(id)
OmniObserve(answer) == FromQuery(answer, observe_interaction(answer))
OmniRender(observation) == Valid(observation) /\ observation.ref \in {"urls", "inline"}
OmniFailure(observation) == Valid(observation) /\ observation.kind = "failed"

-----------------------------------------------------------------------------
\* GMI: delivered media come before any status word.
media_urls(urls) == Kept(urls, UrlKinds \ {"empty", "bad"})

observe_gmi(answer) ==
    LET urls == media_urls(answer.urls)
        good == Succeeded("urls", urls, {Len(urls)}, {})
    IN CASE urls # << >> ->
              IF ValidUrls(good.roles) /\ \A i \in 1..Len(urls) : GoodUrl(urls[i])
              THEN good ELSE Unknown
         [] urls = << >> /\ answer.word \in {"success", "finished"} -> Failed("failed", "short")
         [] urls = << >> /\ answer.word \in {"failed", "cancelled", "canceled", "error"} ->
              Failed("failed", Bounded(answer.text))
         [] urls = << >> /\ answer.word = "huge" -> Unknown
         [] OTHER -> Progress(TRUE)

GmiSubmit(answer) ==
    FromBody(answer,
        IF media_urls(answer.urls) # << >>
        THEN LET observation == observe_gmi(answer)
             IN IF observation.kind = "succeeded" THEN AcceptedTerminal(observation) ELSE Unclear
        ELSE AcceptedIf(identifier(answer.id), answer.id))
GmiPolls(id) == identifier(id) /\ ~HasSlash(id)
GmiObserve(answer) == FromQuery(answer, observe_gmi(answer))
GmiRender(observation) == Valid(observation) /\ observation.ref = "urls"
GmiFailure(observation) == Valid(observation) /\ observation.kind = "failed"

-----------------------------------------------------------------------------
\* Wan images: the billed count is the reported one when it is positive and
\* at most one above what was delivered.
billed_count(meter, delivered) ==
    LET reported == CASE meter = "some" -> delivered
                      [] meter = "more" -> delivered + 2
                      [] meter = "extra" -> delivered + 1
                      [] OTHER -> 0
    IN IF reported \in 1..(delivered + 1) THEN reported ELSE delivered

WanSubmit(answer) == FromBody(answer, AcceptedIf(identifier(answer.id), answer.id))
WanPolls(id) == identifier(id) /\ ~HasSlash(id)

WanObserve(answer) ==
    LET urls == media_urls(answer.urls)
        good == Succeeded("urls", urls, {billed_count(answer.meter, Len(urls))}, {})
    IN FromQuery(answer,
        CASE answer.word \in {"PENDING", "RUNNING"} -> Progress(answer.word = "RUNNING")
          [] answer.word = "SUCCEEDED" /\ urls = << >> -> Failed("failed", "short")
          [] answer.word = "SUCCEEDED" /\ urls # << >> ->
                IF ValidUrls(good.roles) /\ \A i \in 1..Len(urls) : GoodUrl(urls[i])
                THEN good ELSE Unknown
          [] answer.word = "CANCELED" -> Failed("cancelled", Bounded(answer.text))
          [] answer.word \in {"FAILED", "UNKNOWN"} -> Failed("failed", Bounded(answer.text))
          [] OTHER -> Unknown)
WanRender(observation) == Valid(observation) /\ observation.ref = "urls"
WanFailure(observation) == Valid(observation) /\ observation.kind = "failed"

-----------------------------------------------------------------------------
\* Mutant: an error code is a rejection whatever else the body names.
BailianSubmitCode(answer) ==
    LET id == IF identifier(answer.id) THEN answer.id ELSE "none"
    IN FromBody(answer,
         IF answer.code # "absent" THEN Rejected ELSE AcceptedIf(id # "none", id))

\* Bailian video: an error code beside an identifier is no rejection.
BailianSubmit(answer) ==
    LET id == IF identifier(answer.id) THEN answer.id ELSE "none"
    IN FromBody(answer,
         IF answer.code # "absent"
         THEN IF id # "none" THEN Unclear ELSE Rejected
         ELSE AcceptedIf(id # "none", id))

BailianPolls(id) == identifier(id) /\ ~HasSlash(id)

BailianObserve(answer) ==
    FromQuery(answer,
        CASE answer.word \in {"PENDING", "RUNNING"} -> Progress(answer.word = "RUNNING")
          [] answer.word = "SUCCEEDED" ->
                IF answer.urls # << >> /\ GoodUrl(answer.urls[1])
                THEN Succeeded("urls", <<"good">>, {}, LenientMeter(answer.meter))
                ELSE Unknown
          [] answer.word \in {"FAILED", "CANCELED"} ->
                Failed(IF answer.word = "CANCELED" THEN "cancelled" ELSE "failed", Bounded(answer.text))
          [] OTHER -> Unknown)
BailianRender(observation, id) == Valid(observation) /\ observation.ref = "urls" /\ id # "none"
BailianFailure(observation) == Valid(observation) /\ observation.kind = "failed"

-----------------------------------------------------------------------------
\* The adapter of a dialect (TaskComponentV2).
Submit(dialect, answer) ==
    CASE dialect \in Veo -> VeoSubmit(answer)
      [] dialect \in Omni -> OmniSubmit(answer)
      [] dialect \in MiniMax -> MiniMaxSubmit(answer)
      [] dialect = "xai" -> XaiSubmit(answer)
      [] dialect = "byteplus" -> BytePlusSubmit(answer)
      [] dialect = "kling" -> KlingSubmit(answer)
      [] dialect = "gmi" -> GmiSubmit(answer)
      [] dialect = "wan" -> WanSubmit(answer)
      [] dialect = "bailian" -> BailianSubmit(answer)

Polls(dialect, id) ==
    CASE dialect \in Veo -> VeoPolls(dialect, id)
      [] dialect \in Omni -> OmniPolls(id)
      [] dialect \in MiniMax -> MiniMaxPolls(dialect, id)
      [] dialect = "xai" -> XaiPolls(id)
      [] dialect = "byteplus" -> BytePlusPolls(id)
      [] dialect = "kling" -> KlingPolls(id)
      [] dialect = "gmi" -> GmiPolls(id)
      [] dialect = "wan" -> WanPolls(id)
      [] dialect = "bailian" -> BailianPolls(id)

Observe(dialect, answer) ==
    CASE dialect \in Veo -> VeoObserve(answer)
      [] dialect \in Omni -> OmniObserve(answer)
      [] dialect \in MiniMax -> MiniMaxObserve(answer)
      [] dialect = "xai" -> XaiObserve(answer)
      [] dialect = "byteplus" -> BytePlusObserve(answer)
      [] dialect = "kling" -> KlingObserve(answer)
      [] dialect = "gmi" -> GmiObserve(answer)
      [] dialect = "wan" -> WanObserve(answer)
      [] dialect = "bailian" -> BailianObserve(answer)

Fetch(dialect, observation) ==
    IF dialect \in MiniMax THEN MiniMaxFetch(dialect, observation) ELSE "none"

Render(dialect, observation, id, fetched) ==
    CASE dialect \in Veo -> VeoRender(observation)
      [] dialect \in Omni -> OmniRender(observation)
      [] dialect \in MiniMax -> MiniMaxRender(observation, id, fetched)
      [] dialect = "xai" -> XaiRender(observation, id)
      [] dialect = "byteplus" -> BytePlusRender(observation, id)
      [] dialect = "kling" -> KlingRender(observation, id)
      [] dialect = "gmi" -> GmiRender(observation)
      [] dialect = "wan" -> WanRender(observation)
      [] dialect = "bailian" -> BailianRender(observation, id)

Failure(dialect, observation) ==
    CASE dialect \in Veo -> VeoFailure(observation)
      [] dialect \in Omni -> OmniFailure(observation)
      [] dialect \in MiniMax -> MiniMaxFailure(observation)
      [] dialect = "xai" -> XaiFailure(observation)
      [] dialect = "byteplus" -> BytePlusFailure(observation)
      [] dialect = "kling" -> KlingFailure(observation)
      [] dialect = "gmi" -> GmiFailure(observation)
      [] dialect = "wan" -> WanFailure(observation)
      [] dialect = "bailian" -> BailianFailure(observation)
=============================================================================
