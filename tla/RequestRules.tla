----------------------------- MODULE RequestRules -----------------------------
(***************************************************************************)
(* What a request's knobs become on the wire: sampling, the output cap,    *)
(* thinking, the tool choice and the caller's own fields, in the text      *)
(* adapters of crates/south-component-conformance/src, under the words     *)
(* the host declared for the model (anthropic_dialect.rs and each          *)
(* adapter's body_of).  The messages are Conversation's subject.           *)
(*                                                                         *)
(* A knob the caller left out is {} or "unset".  One step builds the body. *)
(***************************************************************************)
EXTENDS Integers, FiniteSets, FiniteSetsExt

VARIABLES
    request,
    body

----------------------------------------------------------------------------
(* The dialect of Claude models (anthropic_dialect.rs). *)

BudgetOf == [low |-> 1024, medium |-> 4096, high |-> 16384, xhigh |-> 16384]

Efforts == {"none", "minimal", "low", "medium", "high", "xhigh"}

Dialects == {"sampling.none", "tool_choice.auto_only", "thinking.adaptive", "thinking.budget", "effort.xhigh",
             "sampling.exclusive"}

(* The model's words when the host lists it, none otherwise. *)
Declared(r) == UNION r.words

IsClaude(r) == Declared(r) \cap Dialects # {}

(* "messages" is the choice {"type": "tool", "name": n}, "foreign" any     *)
(* other object without function.name.                                     *)
ForcesTool(r) == r.choice \in {"required", "named"} /\ r.tools

\* Mutant: only a choice of any tool counts as forcing one.
RefusesForcedToolRequired(r) == "tool_choice.auto_only" \in Declared(r) /\ r.choice = "required" /\ r.tools

RefusesForcedTool(r) == "tool_choice.auto_only" \in Declared(r) /\ ForcesTool(r)

TwoShapes(r) == {"thinking.adaptive", "thinking.budget"} \subseteq Declared(r)

Thinking(type, budget, effort) == [type |-> type, budget |-> budget, effort |-> effort]

AdaptiveEffort(r) ==
    CASE r.effort \in {"none", "minimal", "low"} -> "low"
      [] r.effort = "medium" -> "medium"
      [] r.effort = "xhigh" /\ "effort.xhigh" \in Declared(r) -> "xhigh"
      [] OTHER -> "high"

\* Mutant: a budget that takes the whole cap fits.
FitsWhole(budget, max) == max # {} /\ \A n \in max : budget <= n

Fits(budget, max) == max # {} /\ \A n \in max : budget < n

(* Dialect::thinking: the caller's own mode word for word, else the        *)
(* declared shape of the effort.                                           *)
EffortRefused(r, verbatim) ==
    /\ ~(verbatim /\ r.mode # "unset")
    /\ Declared(r) \cap {"thinking.adaptive", "thinking.budget"} # {}
    /\ r.effort \notin Efforts \cup {"unset"}

ThinkingOf(r, max, verbatim) ==
    IF verbatim /\ r.mode # "unset" THEN {Thinking(r.mode, r.budget, r.effort)}
    ELSE IF r.effort = "unset" THEN {}
    ELSE IF "thinking.adaptive" \in Declared(r) THEN {Thinking("adaptive", {}, AdaptiveEffort(r))}
    ELSE IF "thinking.budget" \notin Declared(r) \/ r.effort \notin DOMAIN BudgetOf THEN {}
    ELSE IF Fits(BudgetOf[r.effort], max) /\ ~ForcesTool(r)
         THEN {Thinking("enabled", {BudgetOf[r.effort]}, "unset")}
    ELSE {}

IsOn(thinking) == \E t \in thinking : t.type # "disabled"

KeepsSampling(r, thinking) == "sampling.none" \notin Declared(r) /\ ~IsOn(thinking)

Exclusive(r) == "sampling.exclusive" \in Declared(r) /\ "sampling.none" \notin Declared(r)

----------------------------------------------------------------------------
(* What is sent. *)

NoBody ==
    [refused |-> "no", temperature |-> {}, top_p |-> {}, top_k |-> {}, cap |-> {}, cap_field |-> "max_tokens",
     thinking |-> {}, effort |-> "unset", enable_thinking |-> {}, thinking_budget |-> {}, tools |-> FALSE,
     choice |-> "unset", serial |-> FALSE, stop |-> FALSE, stream |-> FALSE, fields |-> {}, include |-> FALSE,
     auth |-> "none"]

Refuse(code) == [NoBody EXCEPT !.refused = code]

(* The sampling knobs of a Claude body, Messages and Converse alike. *)
Sampled(r, keeps) ==
    [NoBody EXCEPT
        !.temperature = IF keeps THEN r.temperature ELSE {},
        !.top_p = IF keeps /\ (r.temperature = {} \/ ~Exclusive(r)) THEN r.top_p ELSE {},
        !.stop = r.stop]

(* "any" stands for the wire's own spelling of required, "tool" of named.  *)
ClaudeChoice(r) ==
    CASE r.choice = "auto" -> "auto"
      [] r.choice = "required" -> "any"
      [] r.choice = "named" -> "tool"
      [] OTHER -> "unset"

(* reference_anthropic.rs tools_of. *)
AnthropicTools(r, sent) ==
    LET serial == r.choice # "none" /\ r.tools /\ r.parallel = {FALSE}
    IN  [sent EXCEPT
            !.tools = r.choice # "none" /\ r.tools,
            !.choice = IF serial /\ ClaudeChoice(r) = "unset" THEN "auto" ELSE ClaudeChoice(r),
            !.serial = serial]

DEFAULT_MAX_TOKENS == 4096

(* checked_body_of and body_of of reference_anthropic.rs; user is the      *)
(* host's end_user_hash.                                                   *)
MessagesBody(r) ==
    LET max == IF r.cap = {} THEN {DEFAULT_MAX_TOKENS} ELSE r.cap
        thinking == ThinkingOf(r, max, TRUE)
    IN  IF TwoShapes(r) \/ RefusesForcedTool(r) \/ EffortRefused(r, TRUE) THEN Refuse("capability")
        ELSE IF r.user = "malformed" THEN Refuse("internal")
        ELSE [AnthropicTools(r, Sampled(r, KeepsSampling(r, thinking))) EXCEPT
                !.top_k = IF KeepsSampling(r, thinking) THEN r.top_k ELSE {},
                !.cap = max,
                !.thinking = thinking,
                !.stream = r.stream,
                !.fields = IF r.user = "hash" THEN {"metadata"} ELSE {}]

AnthropicRules(r) ==
    [MessagesBody(r) EXCEPT !.auth = CASE r.auth = "none" -> "none"
                                       [] r.family = "claude-code-setup-token" -> "bearer"
                                       [] OTHER -> "x-api-key"]

(* InvokeModel names the model and the mode in the URL, so the body names  *)
(* neither, and the host signs.                                            *)
InvokeRules(r) ==
    IF r.model = "" THEN Refuse("capability")
    ELSE [MessagesBody(r) EXCEPT !.stream = FALSE]

(* Converse: no default cap, the caller's mode and top_k for Claude models *)
(* only, a tool choice only beside tools.                                  *)
ConverseRules(r) ==
    LET thinking == ThinkingOf(r, r.cap, IsClaude(r))
        keeps == KeepsSampling(r, thinking)
        tools == r.choice # "none" /\ r.tools
    IN  IF r.model = "" \/ TwoShapes(r) \/ RefusesForcedTool(r) \/ EffortRefused(r, IsClaude(r))
        THEN Refuse("capability")
        ELSE [Sampled(r, keeps) EXCEPT
                !.top_k = IF keeps /\ IsClaude(r) THEN r.top_k ELSE {},
                !.cap = r.cap,
                !.thinking = thinking,
                !.tools = tools,
                !.choice = IF tools THEN ClaudeChoice(r) ELSE "unset"]

----------------------------------------------------------------------------
(* OpenAI Chat and the families that share its body (reference.rs). *)

ThinkingRequested(r) == r.mode \in {"enabled", "adaptive"} \/ r.old_mode \in {"enabled", "adaptive"}

(* reasoning_effort_allowed, in Chat and Responses alike. *)
EffortAllowed(r) ==
    IF r.words = {} THEN ~ThinkingRequested(r)
    ELSE "reasoning_effort" \in Declared(r) \/ (~ThinkingRequested(r) /\ Declared(r) = {})

Azure == {"azure-openai-v1", "azure-openai-dated"}

CapField(r) ==
    IF r.family \notin Azure THEN "max_tokens"
    ELSE IF r.cap_field = "unset" THEN "max_completion_tokens" ELSE r.cap_field

ClientFamilies == Azure \cup {"openai-compatible", "github-copilot", "glm-coding", "kimi-code",
                              "bailian-openai-compatible"}

(* body_of of reference.rs: the tool choice goes out as it came. *)
ChatFields(r) ==
    [NoBody EXCEPT
        !.temperature = r.temperature,
        !.top_p = r.top_p,
        !.cap = r.cap,
        !.cap_field = CapField(r),
        !.stop = r.stop,
        !.stream = r.stream,
        !.choice = r.choice,
        !.tools = r.tools,
        !.serial = r.tools /\ r.parallel = {FALSE},
        !.effort = IF EffortAllowed(r) THEN r.effort ELSE "unset"]

(* forward_client_fields, then render_glm_thinking where the caller sent   *)
(* no thinking object of its own.                                          *)
WithClientFields(r, sent) ==
    LET client == IF r.family \in ClientFamilies THEN r.thinking_field ELSE {}
    IN  [sent EXCEPT
            !.enable_thinking = IF r.family \in ClientFamilies THEN r.enable_thinking ELSE {},
            !.thinking =
                IF client # {} THEN {Thinking(t, {}, "unset") : t \in client}
                ELSE IF r.family = "glm-coding" /\ r.mode \in {"enabled", "disabled"}
                     THEN {Thinking(r.mode, {}, "unset")}
                ELSE {}]

CAP_OVERHEAD == 3

MIN_SPLIT_CAP == CAP_OVERHEAD + 2

Clamp(n, low, high) == IF n < low THEN low ELSE IF n > high THEN high ELSE n

(* The caller's thinking_budget, else the typed budget, else half. *)
SplitBudget(r, cap) ==
    LET wanted == IF r.thinking_budget # {} THEN r.thinking_budget
                  ELSE IF r.budget # {} THEN r.budget
                  ELSE {(cap - CAP_OVERHEAD) \div 2}
    IN  Clamp(CHOOSE n \in wanted : TRUE, 1, cap - CAP_OVERHEAD - 1)

(* split_bailian_cap: the upstream counts thinking apart from the answer,  *)
(* so the one cap the caller gave is split between the two.                *)
SplitCap(r, sent) ==
    LET off == sent.enable_thinking = {FALSE} \/ (sent.enable_thinking = {} /\ r.mode = "disabled")
        marked == [sent EXCEPT !.enable_thinking = IF @ = {} /\ off THEN {FALSE} ELSE @]
        cap == CHOOSE n \in r.cap : TRUE
        budget == SplitBudget(r, cap)
    IN  IF r.family # "bailian-openai-compatible" \/ "thinking_budget" \notin Declared(r) THEN sent
        ELSE IF off \/ r.cap = {} THEN marked
        ELSE IF cap < MIN_SPLIT_CAP \/ -1 \in r.thinking_budget THEN Refuse("capability")
        ELSE [marked EXCEPT !.thinking_budget = {budget}, !.cap = {cap - CAP_OVERHEAD - budget}]

(* azure_dated_url before the body, the family's presentation after it. *)
DatedRefusal(r) ==
    IF r.family # "azure-openai-dated" THEN "no"
    ELSE IF r.api_version = "undated" THEN "internal"
    ELSE IF r.model = "" THEN "capability" ELSE "no"

ChatAuth(r) ==
    CASE r.auth = "none" -> "none"
      [] r.family \in Azure -> "api-key"
      [] r.family = "gemini-openai-compatible" -> "bearer and x-goog-api-key"
      [] OTHER -> "bearer"

ChatRules(r) ==
    LET sent == SplitCap(r, WithClientFields(r, ChatFields(r)))
    IN  IF RefusesForcedTool(r) THEN Refuse("capability")
        ELSE IF DatedRefusal(r) # "no" THEN Refuse(DatedRefusal(r))
        ELSE IF CapField(r) \notin {"max_tokens", "max_completion_tokens"} THEN Refuse("internal")
        ELSE IF sent.refused # "no" THEN sent
        ELSE IF r.family \notin ClientFamilies \cup {"gemini-openai-compatible"} THEN Refuse("capability")
        ELSE [sent EXCEPT !.auth = ChatAuth(r)]

----------------------------------------------------------------------------
(* OpenAI Responses (reference_openai_responses.rs). *)

\* tool_choice: both spellings of a named tool name the function.
ResponsesChoice(r) ==
    CASE r.choice \in {"named", "messages"} -> "tool"
      [] r.choice = "required" -> "any"
      [] OTHER -> r.choice

Codex(r) == r.family = "openai-codex"

ResponsesRules(r) ==
    IF RefusesForcedTool(r) \/ (Codex(r) /\ ~r.stream) \/ r.choice = "foreign" THEN Refuse("capability")
    ELSE IF ~Codex(r) /\ "bad" \in r.client_fields THEN Refuse("invalid_request")
    ELSE IF r.stop THEN Refuse("capability")
    ELSE [NoBody EXCEPT
            !.temperature = IF Codex(r) THEN {} ELSE r.temperature,
            !.top_p = r.top_p,
            !.cap = IF Codex(r) THEN {} ELSE r.cap,
            !.cap_field = "max_output_tokens",
            !.tools = r.tools,
            !.serial = r.tools /\ r.parallel = {FALSE},
            !.choice = ResponsesChoice(r),
            !.effort = IF EffortAllowed(r) THEN r.effort ELSE "unset",
            !.fields = IF Codex(r) THEN {} ELSE r.client_fields,
            !.include = "reasoning_replay.openai.v1" \in Declared(r),
            !.stream = r.stream,
            !.auth = IF r.auth = "none" THEN "none" ELSE "bearer"]

----------------------------------------------------------------------------
(* Gemini and Vertex (gemini_text.rs), Kiro (reference_kiro.rs). *)

GeminiRules(r) ==
    IF r.model = "" \/ RefusesForcedTool(r) THEN Refuse("capability")
    ELSE [NoBody EXCEPT
            !.temperature = r.temperature,
            !.top_p = r.top_p,
            !.top_k = r.top_k,
            !.cap = r.cap,
            !.cap_field = "maxOutputTokens",
            !.stop = r.stop,
            !.tools = r.choice # "none" /\ r.tools,
            !.choice = IF r.choice = "none" THEN "none" ELSE ClaudeChoice(r),
            !.auth = CASE r.auth = "none" -> "none"
                       [] r.family = "gemini" -> "x-goog-api-key"
                       [] OTHER -> "bearer"]

(* The wire has no slot for sampling, a cap or a choice. *)
KiroRules(r) ==
    IF RefusesForcedTool(r) THEN Refuse("capability")
    ELSE [NoBody EXCEPT !.tools = r.choice # "none" /\ r.tools,
                        !.auth = IF r.auth = "none" THEN "none" ELSE "bearer"]

----------------------------------------------------------------------------
Messages == {"anthropic", "claude-code-login", "claude-code-setup-token"}

RulesOf(r) ==
    CASE r.family \in Messages -> AnthropicRules(r)
      [] r.family = "anthropic-bedrock-invoke" -> InvokeRules(r)
      [] r.family = "bedrock-converse" -> ConverseRules(r)
      [] r.family \in {"openai-responses", "openai-codex"} -> ResponsesRules(r)
      [] r.family \in {"gemini", "vertex-ai"} -> GeminiRules(r)
      [] r.family = "kiro" -> KiroRules(r)
      [] OTHER -> ChatRules(r)

(* build_http_request, once. *)
BuildRequest ==
    /\ body = {}
    /\ body' = {RulesOf(request)}
    /\ UNCHANGED request

RulesNext == BuildRequest

----------------------------------------------------------------------------
(* Properties. *)

Claude(r) == r.family \in Messages \cup {"anthropic-bedrock-invoke", "bedrock-converse"}

Forced == {"any", "tool", "required", "named"}

(* What a Claude model's declared words rule out is never sent to it. *)
ObeysDialect(r, b) ==
    /\ "sampling.none" \in Declared(r) \/ IsOn(b.thinking) => b.temperature \cup b.top_p \cup b.top_k = {}
    /\ "sampling.exclusive" \in Declared(r) => b.temperature = {} \/ b.top_p = {}
    /\ \A t \in b.thinking :
        r.mode = "unset" =>
            /\ t.type = "adaptive" => "thinking.adaptive" \in Declared(r)
            /\ t.type = "enabled" =>
                /\ "thinking.budget" \in Declared(r)
                /\ \A n \in t.budget, max \in b.cap : n < max
                /\ b.cap # {}
                /\ ~(b.tools /\ b.choice \in Forced)
            /\ t.effort = "xhigh" => "effort.xhigh" \in Declared(r)

ForcedOnAutoOnly(r, b) == "tool_choice.auto_only" \in Declared(r) /\ b.tools /\ b.choice \in Forced

(* The one forced choice forces_tool does not see: {"type": "tool", name}, *)
(* which the Responses wires, and no other, render as a named function.    *)
UnseenChoice(r) == r.family \in {"openai-responses", "openai-codex"} /\ r.choice = "messages"

(* A split cap never adds up to more than the caller authorised, and       *)
(* leaves the answer and the thinking at least a token each.               *)
CapKept(r, b) ==
    IF b.thinking_budget = {} THEN b.cap \subseteq r.cap \cup (IF r.cap = {} THEN {DEFAULT_MAX_TOKENS} ELSE {})
    ELSE \A cap \in r.cap, n \in b.cap, t \in b.thinking_budget :
            n >= 1 /\ t >= 1 /\ n + t + CAP_OVERHEAD = cap

(* Every body for a Claude wire obeys the words the host declared for its  *)
(* model: no sampling beside thinking or where the model takes none, a     *)
(* thinking budget below the cap and only in a declared shape.  On every   *)
(* wire a model declared to take an automatic tool choice only is sent no  *)
(* forced one, but for UnseenChoice (AutoOnlyKept is the claim without the *)
(* exception, and fails); the caller's output cap is kept; a forced choice *)
(* is kept wherever the wire has a slot for one; no tool is offered under  *)
(* a choice of none; and reasoning_effort goes beside a caller's thinking  *)
(* only where the model declares it.                                       *)
RequestObeysModel ==
    \A b \in body :
        b.refused = "no" =>
            /\ Claude(request) => ObeysDialect(request, b)
            /\ ForcedOnAutoOnly(request, b) => UnseenChoice(request)
            /\ CapKept(request, b)
            /\ ForcesTool(request) /\ request.family # "kiro" => b.choice \in Forced
            /\ request.choice = "none" => ~b.tools \/ b.choice = "none"
            /\ b.effort # "unset" /\ ThinkingRequested(request) => "reasoning_effort" \in Declared(request)

(* A model that only takes an automatic tool choice is never sent a forced *)
(* one: anthropic_dialect.rs:146-148 takes a choice without function.name  *)
(* to be "left out downstream, so it does not force anything".             *)
AutoOnlyKept == \A b \in body : b.refused = "no" => ~ForcedOnAutoOnly(request, b)
==============================================================================
