----------------------------- MODULE MCAdapters -----------------------------
(***************************************************************************)
(* The request side of the components' adapters                            *)
(* (crates/south-component-conformance): what a conversation becomes on    *)
(* each wire and comes back as (Conversation), what a request's knobs      *)
(* become under the words declared for its model (RequestRules), and a     *)
(* task from its request to its answer (TaskLifecycle).  The adapters      *)
(* share no state: `adapter` says which one a behaviour is about, the      *)
(* others stay at one initial state.                                       *)
(***************************************************************************)
EXTENDS TaskLifecycle

CONSTANTS MAX_BLOCKS, Says, Targets, Answers(_, _), Outputs(_), Plans, MaxEdits    \* Conversation

VARIABLES
    adapter,                              \* "talk", "rules" or "task"
    history, notes, target, sent, turn,   \* Conversation
    asked, body                           \* RequestRules

Talk == INSTANCE Conversation WITH pc <- turn

Rules == INSTANCE RequestRules WITH request <- asked

talkVars == <<history, notes, target, sent, turn>>
rulesVars == <<asked, body>>

TaskUnused == dialect = "xai" /\ TaskStart

AdaptersNext ==
    \/ adapter = "talk" /\ Talk!ConversationNext /\ UNCHANGED <<adapter, rulesVars, taskVars>>
    \/ adapter = "rules" /\ Rules!RulesNext /\ UNCHANGED <<adapter, talkVars, taskVars>>
    \/ adapter = "task" /\ TaskNext /\ UNCHANGED <<adapter, talkVars, rulesVars>>
-----------------------------------------------------------------------------
(* A turn goes back to a Claude model block for block as it was sent, and  *)
(* every request says what the conversation said, once and in order        *)
(* (Conversation: reasoning_replay.rs and the adapters' bodies).           *)
ConversationKept == adapter = "talk" => Talk!ReplayedVerbatim /\ Talk!ConversationKept

(* One provider's signatures, encrypted reasoning and replay carriers      *)
(* reach no other provider; redacted thinking reaches no other but Gemini, *)
(* and that only from a turn without replay markers (Conversation:         *)
(* refuse_foreign_reasoning_replay and part in gemini_text.rs, and the     *)
(* adapters' handling of signatures).                                      *)
OpaqueStaysHome == adapter = "talk" => Talk!OpaqueStaysHome

(* Every Claude body obeys the words the host declared for its model, no   *)
(* wire forces a tool on a model declared to take none, but for the one    *)
(* spelling the Responses wires alone render, and every body keeps the     *)
(* caller's cap and tool choice (RequestRules: anthropic_dialect.rs and    *)
(* the adapters' body_of).                                                 *)
RequestObeysModel == adapter = "rules" => Rules!RequestObeysModel
-----------------------------------------------------------------------------
(***************************************************************************)
(* Adapters for TLC: conversations of up to five messages over the six     *)
(* text wires, requests with the knobs of every family, and a small set of *)
(* requests and answers for every task dialect (two artifact URLs are the  *)
(* limit, so three exceed it; every list length, duration and count has a  *)
(* member on each side of its bound).                                      *)
(***************************************************************************)

Wire == INSTANCE TextRequests

Spoken(words) == Wire!ContentPart("text", words)
Marked(words, marker) == [Spoken(words) EXCEPT !.marker = marker]
Shown(form) == [Wire!ContentPart("image", <<"pic">>) EXCEPT !.form = form]
Odd(form) == [Wire!ContentPart("unknown", <<form>>) EXCEPT !.form = form, !.id = "c1", !.name = "f"]
Signed(signature) == [Wire!ContentPart("thinking", <<"th">>) EXCEPT !.signature = signature]

Brought ==
    {[Wire!Message("assistant", "parts", <<Wire!ContentPart("thinking", <<"th">>), Spoken(<<"b1">>)>>) EXCEPT
        !.family = "openai", !.layout = {<<Wire!ItemEntry(0), Wire!ContentEntry(1)>>}, !.items = {<<"i1">>}],
     Wire!Message("assistant", "parts", <<Signed("claude"), Wire!ContentPart("redacted", <<"rd">>), Spoken(<<"b2">>)>>),
     [Wire!Message("assistant", "parts", <<Spoken(<<"b3">>), Odd("tool_use")>>) EXCEPT
        !.calls = <<Wire!ToolCall("c2", "g", "empty")>>]}

MCSays ==
    {Wire!Message("user", "text", <<Spoken(<<"u1">>)>>),
     Wire!Message("user", "parts", <<Marked(<<"u2">>, "1h"), Shown("url")>>),
     Wire!Message("user", "parts", <<Shown("inline"), Odd("audio")>>),
     Wire!Message("user", "parts", <<Odd("tool_result"), Spoken(<<"u3">>)>>),
     Wire!Message("system", "text", <<Spoken(<<"s1">>)>>),
     Wire!Message("system", "parts", <<Marked(<<"s2">>, "default"), Spoken(<<"s3">>)>>)} \cup Brought

Thought(signature) == [Wire!Block("thinking", <<"th">>) EXCEPT !.signature = signature]
Told(word) == Wire!Block("text", <<word>>)
Use(call, name) ==
    [Wire!Block("call", <<>>) EXCEPT !.id = call, !.name = name, !.input = IF name = "f" THEN "object" ELSE "object2"]

MCAnswers(wire, n) ==
    LET all == CASE wire \in {"anthropic", "converse"} ->
                      <<<<Thought("claude"), Told("a1"), Use("c1", "f")>>,
                        <<Wire!Block("redacted", <<"rd">>), Use("c1", "f"), Thought("claude"),
                          Wire!Block("other", <<>>), Use("c2", "g"), Told("a2")>>,
                        <<Told("a1"), Use("c1", "f"), Told("a2"), Use("c2", "g")>>,
                        <<Thought("none"), Told("a1")>>,
                        <<Thought("claude"), Use("c1", "f"), Use("c1", "g")>>,
                        <<>>>>
                 [] wire = "chat" ->
                      <<<<Thought("none"), Told("a1"), Use("c1", "f"),
                          [Use("c2", "g") EXCEPT !.input = "broken"]>>,
                        <<Told("a1"), [Use("c1", "f") EXCEPT !.input = "empty"]>>,
                        <<Wire!Block("text", <<>>), Use("", "f")>>>>
                 [] wire = "responses" ->
                      <<<<Thought("none"), Thought("none"), Told("a1"), Use("c1", "f"), Told("a2")>>,
                        <<Thought("none")>>>>
                 [] wire = "gemini" ->
                      <<<<[Use("", "f") EXCEPT !.signature = "gemini"], Thought("gemini"), Told("a1"), Use("", "g")>>,
                        <<Use("", "f"), Use("", "f"), Told("a2")>>,
                        <<[Use("", "f") EXCEPT !.signature = "empty"]>>>>
                 [] wire = "kiro" -> <<<<Told("a1"), Use("c1", "f"), Use("c2", "g")>>, <<>>>>
    IN  {all[k] : k \in 1 .. (IF n = 0 THEN Len(all) ELSE 1)}

MCOutputs(n) ==
    {<<Marked(<<"r1">>, "default"), Spoken(<<"r2">>)>>, <<Spoken(<<"r3">>), Shown("url")>>}
        \ (IF n > 2 THEN {<<Spoken(<<"r3">>), Shown("url")>>} ELSE {})

MCPlans ==
    {<<"user", "answer", "tool", "tool">>, <<"system", "user", "answer", "tool">>,
     <<"user", "answer", "tool", "answer", "tool">>, <<"user", "answer", "user", "tool">>,
     <<"user", "answer", "tool", "system", "tool">>, <<"user", "answer", "answer", "tool">>,
     <<"assistant", "user", "answer", "tool">>, <<"system", "system", "user", "system", "user">>}

Claude == {"reasoning_replay.claude.v1"}

Model(d, w) == [dialect |-> d, words |-> w, login |-> FALSE, attempt |-> "minted"]

MCTargets ==
    {Model(d, w) : d \in {"anthropic", "converse"}, w \in {{}, Claude}}
    \cup {[Model("anthropic", Claude) EXCEPT !.login = TRUE],
          Model("converse", Claude \cup {"cache_point", "cache_point.ttl_1h"}),
          Model("chat", {}), Model("chat", {"reasoning_content"}),
          Model("responses", {}), Model("responses", {"reasoning_replay.openai.v1"}),
          Model("gemini", {}),
          Model("kiro", {}), [Model("kiro", {}) EXCEPT !.attempt = "absent"]}
-----------------------------------------------------------------------------
(* What a request may ask of a model, and the words the model declares:    *)
(* every shape of thinking, cap, sampling and tool choice for the Claude   *)
(* wires; parallel tools, users and streams for the others; the split      *)
(* caps; the fields a caller passes on.                                    *)
Plain ==
    [family |-> "anthropic", model |-> "m", words |-> {}, temperature |-> {}, top_p |-> {}, top_k |-> {},
     cap |-> {}, mode |-> "unset", old_mode |-> "unset", budget |-> {}, effort |-> "unset",
     tools |-> FALSE, choice |-> "unset", parallel |-> {}, stop |-> FALSE, stream |-> FALSE,
     user |-> "unset", cap_field |-> "unset", api_version |-> "dated", enable_thinking |-> {},
     thinking_field |-> {}, thinking_budget |-> {}, client_fields |-> {}, auth |-> "secret"]
Shapes == {{}, {"thinking.budget"}, {"thinking.adaptive"}, {"thinking.adaptive", "effort.xhigh"},
           {"thinking.budget", "thinking.adaptive"}}
Samplings == {{}, {"sampling.none"}, {"sampling.exclusive"}, {"sampling.none", "sampling.exclusive"}}
AutoOnly == {"tool_choice.auto_only"}
ToolAsks == {<<FALSE, "required">>} \cup
            {<<TRUE, choice>> : choice \in {"unset", "auto", "none", "required", "named", "messages", "foreign"}}

ClaudeAsks ==
    \E shape \in Shapes, sampling \in Samplings, auto \in {{}, AutoOnly}, s \in {{}, {1}},
       cap \in {{}, {1024}, {1025}}, t \in ToolAsks \ {<<TRUE, "foreign">>},
       mode \in {"unset", "enabled", "disabled"}, effort \in {"unset", "minimal", "low", "xhigh", "odd"},
       f \in {"anthropic-bedrock-invoke", "bedrock-converse"} :
        asked = [Plain EXCEPT !.family = f, !.words = {shape \cup sampling \cup auto},
                    !.temperature = s, !.top_p = s, !.top_k = s, !.cap = cap, !.tools = t[1],
                    !.choice = t[2], !.mode = mode, !.effort = effort,
                    !.budget = IF mode = "enabled" THEN {2000} ELSE {}]

WireAsks ==
    \E f \in Rules!Messages \cup {"anthropic-bedrock-invoke", "bedrock-converse", "gemini", "vertex-ai",
                                  "kiro", "openai-responses", "openai-codex"},
       auth \in {"none", "secret"}, user \in {"unset", "hash", "malformed"}, p \in {{}, {TRUE}, {FALSE}},
       t \in ToolAsks, stream, stop \in BOOLEAN, m \in {"", "m"}, w \in {{}, {{}}, {AutoOnly}} :
        asked = [Plain EXCEPT !.family = f, !.auth = auth, !.user = user, !.parallel = p,
                    !.tools = t[1], !.choice = t[2], !.stream = stream, !.stop = stop, !.model = m,
                    !.words = w, !.temperature = {1}, !.top_p = {1}, !.top_k = {1}, !.cap = {9}]

ChatAsks ==
    \E f \in {"openai-compatible", "azure-openai-v1", "azure-openai-dated", "gemini-openai-compatible", "other"},
       w \in {{}, {{}}, {{"reasoning_effort"}}, {AutoOnly}}, cf \in {"unset", "max_tokens", "odd"},
       v \in {"dated", "undated"}, m \in {"", "m"}, t \in ToolAsks, mode \in {"unset", "enabled"},
       old \in {"unset", "adaptive"}, auth \in {"none", "secret"} :
        asked = [Plain EXCEPT !.family = f, !.words = w, !.cap_field = cf, !.api_version = v,
                    !.model = m, !.tools = t[1], !.choice = t[2], !.mode = mode, !.old_mode = old,
                    !.effort = "high", !.cap = {9}, !.auth = auth]

SplitAsks ==
    \E f \in {"bailian-openai-compatible", "glm-coding", "openai-compatible"},
       w \in {{}, {{}}, {{"thinking_budget"}}}, cap \in {{}, {4}, {5}, {6}, {9}},
       on \in {{}, {TRUE}, {FALSE}}, tf \in {{}, {"enabled"}}, tb \in {{}, {-1}, {0}, {2}, {20}},
       b \in {{}, {1}, {20}}, mode \in {"unset", "enabled", "disabled", "adaptive"} :
        asked = [Plain EXCEPT !.family = f, !.words = w, !.cap = cap, !.enable_thinking = on,
                    !.thinking_field = tf, !.thinking_budget = tb, !.budget = b, !.mode = mode]

FieldAsks ==
    \E f \in {"openai-responses", "openai-codex"}, c \in SUBSET {"user", "metadata", "bad"},
       stream, stop \in BOOLEAN, t \in ToolAsks, mode \in {"unset", "adaptive"},
       w \in {{}, {{}}, {{"reasoning_effort"}}, {{"reasoning_replay.openai.v1", "tool_choice.auto_only"}}} :
        asked = [Plain EXCEPT !.family = f, !.client_fields = c, !.stream = stream, !.stop = stop,
                    !.tools = t[1], !.choice = t[2], !.mode = mode, !.effort = "low", !.words = w]
-----------------------------------------------------------------------------
Failures == {[NoAnswer EXCEPT !.status = s, !.json = j] : s \in {"4xx", "5xx"}, j \in BOOLEAN}
              \cup {[NoAnswer EXCEPT !.status = "2xx"]}
Said == [NoAnswer EXCEPT !.status = "2xx", !.json = TRUE]
Named == {[Said EXCEPT !.id = name] : name \in Ids}

UrlLists == {<< >>, <<"good">>, <<"empty">>, <<"huge">>, <<"bad">>, <<"good", "good">>,
             <<"good", "bad">>, <<"bad", "good">>, <<"good", "huge">>, <<"good", "empty">>,
             <<"good", "good", "good">>}
OmniLists == UrlLists \cup {<<"elided">>, <<"raw">>, <<"elided", "good">>}
Meters == {"absent", "zero", "some", "more", "extra", "invalid"}
Sizes == {"short", "huge"}

Usages == {[NoUsage EXCEPT !.input = {3}, !.output = {4}, !.thoughts = th, !.text = t, !.image = i,
                           !.video = v, !.cached = c, !.total = all] :
             th \in {{}, {2}}, t \in {{}, {1}, {3}}, i \in {{}, {2}}, v \in {{}, {4}, {5}},
             c \in {{}, {3}, {4}}, all \in {{}, {7}, {9}}}
OmniAnswers ==
    {[Said EXCEPT !.id = name, !.word = w, !.urls = u] :
       name \in {"none", "plain", "odd"}, w \in {"", "in_progress", "other"}, u \in {<<>>, <<"good">>}}
      \cup {[Said EXCEPT !.id = name, !.word = "completed", !.urls = u, !.usage = us] :
              name \in {"none", "plain"}, u \in OmniLists,
              us \in {NoUsage, [NoUsage EXCEPT !.input = {3}, !.output = {4}, !.thoughts = {2}, !.video = {4}]}}
      \cup {[Said EXCEPT !.word = "completed", !.urls = <<"good">>, !.usage = us] : us \in Usages}
      \cup {[Said EXCEPT !.id = "plain", !.word = "completed", !.urls = u, !.output = o, !.usage = us] :
              u \in {<<>>, <<"good">>, <<"good", "bad">>, <<"good", "good">>}, o \in UrlKinds,
              us \in {NoUsage, [NoUsage EXCEPT !.input = {3}, !.output = {4}, !.thoughts = {2}, !.video = {4}]}}

VeoAnswers == {[Said EXCEPT !.flag = f, !.urls = u, !.text = t] :
                 f \in {"none", "done", "error", "filtered"}, u \in UrlLists, t \in Sizes}

MCSubmitAnswers(d) ==
    Failures \cup Named \cup
    CASE d \in Veo -> VeoAnswers
      [] d \in Omni -> OmniAnswers
      [] d \in MiniMax -> {[Said EXCEPT !.id = name, !.code = c] :
                              name \in {"none", "empty", "digits", "plain", "padded", "dash"},
                              c \in {"zero", "error", "malformed"}}
      [] d = "bailian" -> {[Said EXCEPT !.id = name, !.code = "error"] :
                              name \in {"none", "empty", "digits", "plain"}}
      [] d = "kling" -> {[Said EXCEPT !.id = name, !.outer = out] : name \in Ids, out \in Ids}
      [] d = "gmi" -> {[Said EXCEPT !.id = name, !.urls = u, !.word = w] :
                         name \in {"none", "plain"}, u \in UrlLists, w \in {"", "success", "failed"}}
      [] OTHER -> {}

StatusWords(d) ==
    CASE d = "xai" -> {"pending", "done", "failed", "expired", ""}
      [] d = "byteplus" -> {"queued", "running", "succeeded", "failed", "expired", ""}
      [] d = "kling" -> {"submitted", "processing", "succeed", "failed", ""}
      [] d \in MiniMax -> {"queued", "running", "succeeded", "failed", "cancelled", "Preparing",
                           "Processing", "Success", "Fail", ""}
      [] d = "gmi" -> {"success", "failed", "canceled", "queued", "huge", ""}
      [] OTHER -> {"PENDING", "RUNNING", "SUCCEEDED", "FAILED", "CANCELED", "UNKNOWN", ""}

MCPollAnswers(d) ==
    Failures \cup
    CASE d \in Veo -> VeoAnswers
      [] d \in Omni -> OmniAnswers
      [] d \in MiniMax ->
           {[Said EXCEPT !.flag = "task", !.word = w, !.urls = u, !.meter = m, !.text = t] :
              w \in StatusWords(d), u \in {<< >>, <<"good">>, <<"huge">>},
              m \in {"absent", "some", "invalid"}, t \in Sizes}
             \cup {[Said EXCEPT !.word = w, !.code = c, !.id = name] :
                     w \in StatusWords(d), c \in {"absent", "error"}, name \in Ids}
      [] d = "byteplus" ->
           {[Said EXCEPT !.word = w, !.urls = u, !.meter = m, !.frame = f, !.text = "short"] :
              w \in StatusWords(d), u \in {<< >>, <<"good">>, <<"huge">>}, m \in Meters,
              f \in {"none", "empty", "good", "huge"}}
             \cup {[Said EXCEPT !.word = w, !.text = "huge"] : w \in StatusWords(d)}
      [] OTHER ->
           {[Said EXCEPT !.word = w, !.urls = u, !.meter = m] :
              w \in StatusWords(d), u \in UrlLists, m \in Meters}
             \cup {[Said EXCEPT !.word = w, !.text = "huge"] : w \in StatusWords(d)}

MCFileAnswers ==
    Failures \cup {[Said EXCEPT !.code = c, !.urls = u] :
                     c \in {"absent", "zero", "error"}, u \in {<< >>, <<"good">>, <<"huge">>}}

-----------------------------------------------------------------------------
Fields == {"none", "url", "data", "bad"}
Optional(values) == {{}} \cup {{v} : v \in values}
Lists(kinds, lengths) == {[i \in 1..n |-> k] : k \in kinds, n \in lengths}

\* A list or number may also be there and unreadable.
Spoiled == {NoRequest, [NoRequest EXCEPT !.refsBad = TRUE], [NoRequest EXCEPT !.durationBad = TRUE],
            [NoRequest EXCEPT !.nBad = TRUE], [NoRequest EXCEPT !.extra.adaptive = TRUE],
            [NoRequest EXCEPT !.extra.b64 = TRUE]}
With(shape, prompt) == {[b EXCEPT !.shape = shape, !.prompt = prompt] : b \in Spoiled}
Incomplete == With("none", "text") \cup With("m", "none")

VideoRequests(shapes, durations, most, tiers) ==
    Incomplete
      \cup {[NoRequest EXCEPT !.shape = shape, !.prompt = "text", !.first = f, !.last = l,
                              !.images = im, !.duration = d, !.tier = t] :
              shape \in shapes, f \in Fields, l \in {"none", "url", "data"},
              im \in Lists({"url", "data"}, {0, most, most + 1}), d \in durations, t \in tiers}
      \cup UNION {With(shape, prompt) : shape \in shapes, prompt \in {"none", "text"}}

ImageRequests(counts, limits) ==
    Incomplete
      \cup {[b EXCEPT !.images = im, !.n = n, !.extra.limit = most] :
              b \in With("m", "text"), im \in Lists({"url", "bad"}, {0, 1, 2, 3}), n \in counts,
              most \in limits}

KlingRequests ==
    {[NoRequest EXCEPT !.shape = s, !.prompt = p, !.first = f, !.video = v, !.duration = d,
                       !.durationBad = bad, !.extra.op = op, !.extra.sound = so, !.extra.mode = mo,
                       !.extra.base = ba, !.extra.oriented = ba] :
       s \in {"kling-v3", "kling-v3-omni", "kling-video-o1", "m"}, p \in {"none", "text"},
       f \in {"none", "url"}, v \in {"none", "url", "bad"}, d \in Optional({-1, 3}), bad \in BOOLEAN,
       op \in {"text", "omni", "motion"}, so \in BOOLEAN, mo \in {"none", "std", "pro", "4k"},
       ba \in BOOLEAN}
      \cup {[NoRequest EXCEPT !.shape = s, !.prompt = "text", !.extra.op = "other"] : s \in {"none", "m"}}
      \cup {NoRequest}
      \cup {[NoRequest EXCEPT !.shape = "kling-v3", !.extra.op = op, !.extra.customize = c,
                              !.extra.multi = mu, !.extra.mode = mo] :
              op \in {"text", "omni"}, c \in BOOLEAN, mu \in BOOLEAN, mo \in {"none", "std"}}

WanMediaRequests ==
    {[NoRequest EXCEPT !.shape = s, !.prompt = p, !.first = f, !.last = l, !.video = v, !.audio = a,
                       !.images = im, !.videos = vs, !.duration = d] :
       s \in WanShapes, p \in {"none", "text"}, f \in {"none", "url", "bad"}, l \in {"none", "url"},
       v \in {"none", "url"}, a \in {"none", "url"}, im \in Lists({"url"}, {0, 4, 5, 11}),
       vs \in Lists({"url"}, {0, 1, 6}), d \in Optional({-1, 0, 2, 10, 15, 30, 31})}
      \cup {[b EXCEPT !.tier = t, !.video = "url"] :
              b \in UNION {With(s, "text") : s \in WanShapes}, t \in {"none", "480P", "720P", "odd"}}

LegacyRequests ==
    Incomplete
      \cup UNION {{[b EXCEPT !.first = f, !.last = l, !.images = im, !.duration = d, !.tier = t] :
                     b \in With(shape, "text"), f \in {"none", "url", "bad"}, l \in {"none", "url"},
                     im \in Lists({"url"}, {0, 1, 10}), d \in Optional({-1, 0, 4, 5}),
                     t \in {"none", "odd"}} : shape \in {"kf2v", "r2v", "other"}}

MCRequests(d) ==
    CASE d \in Veo -> {[r EXCEPT !.n = n] : n \in Optional({0, 2}),
                         r \in VideoRequests({"m"}, Optional({0, 4}), MaxVeoReferences, {"none", "odd"})}
      [] d = "xai" -> VideoRequests({"m"}, Optional({0, 1, 15, 16}), MaxXaiReferences, {"none"})
      [] d = "byteplus" -> VideoRequests({"m"}, Optional({0, 4}), MaxBytePlusReferences, {"none", "480P", "odd"})
      [] d = "kling" -> KlingRequests
      [] d = "hailuo" -> VideoRequests({"hailuo-02", "hailuo-2.3", "other"}, Optional({0, 6}), 0,
                                       {"none", "512P", "1080P", "odd"})
      [] d = "h3" -> {[r EXCEPT !.video = v] : v \in {"none", "url"},
                        r \in VideoRequests({"h3", "h3-max"}, Optional({0, 6}), 9, {"none", "2K", "odd"})}
      [] d \in Omni -> {[r EXCEPT !.n = n] : n \in Optional({1, 2}),
                          r \in VideoRequests({"m"}, Optional({5, 10}), MaxOmniImages, {"none"})}
      [] d = "gmi" -> ImageRequests(Optional({0, 1, 4}), {0, 2})
      [] d = "wan" -> ImageRequests(Optional({0, 1, 4, 5}), {0})
      [] d = "bailian" -> WanMediaRequests \cup LegacyRequests
-----------------------------------------------------------------------------
AdaptersInit ==
    /\ body = {} /\ Talk!ConversationInit
    /\ \/ adapter = "talk" /\ asked = Plain /\ TaskUnused
       \/ adapter = "rules" /\ TaskUnused
             /\ (ClaudeAsks \/ WireAsks \/ ChatAsks \/ SplitAsks \/ FieldAsks)
       \/ adapter = "task" /\ asked = Plain /\ TaskInit
=============================================================================
