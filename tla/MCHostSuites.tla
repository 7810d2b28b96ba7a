---------------------------- MODULE MCHostSuites ----------------------------
(***************************************************************************)
(* What South asks of a host beyond the provider call, each with the suite *)
(* that judges it: relaying a pass-through stream (Passthrough), fetching  *)
(* an artifact (SafeFetch), keeping a credential row that concurrent calls *)
(* refresh (CredentialRecipe), deframing (FramingSuite),                   *)
(* signing (SigningSuite), and the interpreter of credential recipes       *)
(* behind the gate that admits them (RecipeRun).  They share no state:     *)
(* `suite` says which one a behaviour is about, the others stay at one     *)
(* initial state.                                                          *)
(***************************************************************************)
EXTENDS Passthrough, SafeFetch, CredentialRecipe, RecipeRun

CONSTANT CalendarDays    \* SigningSuite

VARIABLES
    suite,   \* "relay", "fetch", "row", "framing", "signing" or "gate"
    framingFaults, framingCase, cut, deframer, left, held, fed, ending, framingMismatches,
    signingFaults, signingCase, signingMismatches, days, date, walked

Framing == INSTANCE FramingSuite WITH
              faults <- framingFaults, k <- framingCase, variant <- cut, pc <- deframer,
              outcome <- ending, mismatches <- framingMismatches

Signing == INSTANCE SigningSuite WITH
              faults <- signingFaults, k <- signingCase, mismatches <- signingMismatches

relayVars == <<relayHostVars, relaySuiteVars>>
framingVars == <<framingFaults, framingCase, cut, deframer, left, held, fed, ending,
                 framingMismatches>>
signingVars == <<signingFaults, signingCase, signingMismatches, days, date, walked>>

(* The correct host, for the parts a behaviour is not about *)
RelayUnused == RelaySuiteStarts({[protocol |-> "Responses", faults |-> {}, keep_alive |-> FALSE]})
FetchUnused == FetchSuiteStarts({})
RowUnused == RowLiveStarts
FramingUnused == Framing!FramingStarts({{}})
SigningUnused == signingCase = 1 /\ Signing!SigningStarts({{}})

SuitesNext ==
    \/ /\ suite = "relay" /\ PassthroughNext
       /\ UNCHANGED <<suite, fetchSuiteVars, rowVars, framingVars, signingVars, runVars>>
    \/ /\ suite = "fetch" /\ FetchNext
       /\ UNCHANGED <<suite, relayVars, rowVars, framingVars, signingVars, runVars>>
    \/ /\ suite = "row" /\ RecipeNext
       /\ UNCHANGED <<suite, relayVars, fetchSuiteVars, framingVars, signingVars, runVars>>
    \/ /\ suite = "framing" /\ Framing!FramingNext
       /\ UNCHANGED <<suite, relayVars, fetchSuiteVars, rowVars, signingVars, runVars>>
    \/ /\ suite = "signing" /\ Signing!SigningNext
       /\ UNCHANGED <<suite, relayVars, fetchSuiteVars, rowVars, framingVars, runVars>>
    \/ /\ suite = "gate" /\ RunNext
       /\ UNCHANGED <<suite, relayVars, fetchSuiteVars, rowVars, framingVars, signingVars>>
-----------------------------------------------------------------------------
(* Each suite passes the host without mistakes and fails every host with   *)
(* one or two, whatever the interleaving: no mistake hides another from    *)
(* the runner (the suites of south-provider-conformance).                  *)
SuitesJudged ==
    /\ suite = "relay" => PassthroughJudged
    /\ suite = "fetch" => FetchJudged
    /\ suite = "row" => RecipesJudged
    /\ suite = "framing" => Framing!FramingJudged
    /\ suite = "signing" => Signing!SigningJudged

(* Whatever an upstream sends and a component answers, the money moves     *)
(* before the client hears of it, once, and the client gets a prefix of    *)
(* what the upstream sent (Passthrough: the reference executor).           *)
RelaySound == suite = "relay" => FundsBeforeClient /\ RelaysAPrefix

(* The timestamp arithmetic names every day as the calendar does           *)
(* (SigningSuite: sigv4.rs:46-71).                                         *)
DateIsTheCalendars == suite = "signing" => Signing!DateIsTheCalendars

(* A recipe the gate admits goes forward, finds the inputs its steps were  *)
(* promised, blames a field for what an operator must mend, mints within   *)
(* its clamps and exports only what its declarations admit; with three     *)
(* exceptions, which RecipeRun states: the endpoint_of of an               *)
(* authorization, the extractions of a probe, and a signed token whose exp *)
(* is below the clamp (RecipeRun: credential_recipe.rs behind the          *)
(* manifest's checks, credentials.rs:789, 1013 and 1033).                  *)
RecipesSound == suite = "gate" => GateSound /\ InputsMade /\ MintedInRange /\ AttributesAdmitted
-----------------------------------------------------------------------------
(***************************************************************************)
(* HostSuites for TLC: every host with up to two of its mistakes against   *)
(* its suite, live relays of up to MaxFrames frames, live fetches and      *)
(* rows, walks of the calendar, and a credentials section changed in one   *)
(* way that bears on each rule of the gate.                                *)
(***************************************************************************)

CONSTANT MaxFrames    \* the longest upstream stream of a live relay

Field(secret, syntax) == CredentialField(secret, FALSE, syntax, None)
Does(what) == [goto |-> None, does |-> what]
GoTo(id) == [goto |-> {id}, does |-> "Goto"]
InHost(field) == [field |-> field, in_host |-> TRUE, pointer |-> FALSE]
InPath(field) == [field |-> field, in_host |-> FALSE, pointer |-> FALSE]
Pointer == Extract("pointer", FALSE, None)
In(field, values) == [kind |-> "field_in", fields |-> {field}, values |-> values]
Rule(when, recipe_) == [when |-> when, recipe |-> recipe_]

TokenStep ==
    [Step("token", "Oauth2Token", None) EXCEPT
        !.fills = {InHost("region")}, !.requires = <<"refresh">>,
        !.params = "refresh_token" :> FromField("refresh"),
        !.on_status = 401 :> Does("ReauthRequired") @@ 4 :> Does("Transient"),
        !.extract = "access" :> Pointer @@ "expires" :> Extract("relative_seconds", FALSE, None)
                    @@ "next" :> Extract("pointer", TRUE, None)]
Rotating ==
    [Recipe(<<TokenStep>>, <<OutputOf("token", "access")>>) EXCEPT
        !.rotates = {TRUE}, !.write_back = "refresh" :> <<"token", "next">>,
        !.attributes = "region" :> Attribute({"region"}, FALSE, TRUE)]

SignStep ==
    [Step("sign", "JwtSign", None) EXCEPT
        !.key = {FromField("key")},
        !.claims = "iss" :> FromField("client") @@ "aud" :> EndpointOf("token") @@ "exp" :> NowPlus(3600)]
BearerStep ==
    [Step("token", "Oauth2Token", None) EXCEPT
        !.params = "assertion" :> FromOutput("sign", "jwt"),
        !.extract = "access" :> Extract("pointer", FALSE, {"client"})
                    @@ "expires" :> Extract("epoch_seconds", FALSE, None)]
Bearer == [Recipe(<<SignStep, BearerStep>>, <<OutputOf("token", "access")>>) EXCEPT !.default_seconds = {300}]

SelfSigned ==
    [Recipe(<<[SignStep EXCEPT !.claims = "iss" :> FromField("client") @@ "exp" :> NowPlus(3600)]>>,
            <<OutputOf("sign", "jwt")>>) EXCEPT !.default_seconds = {1800}]

ProbeStep ==
    [Step("probe", "HttpProbe", {"Get"}) EXCEPT
        !.auth = {FromField("access")}, !.on_status = 401 :> GoTo("exchange")]
ExchangeStep ==
    [Step("exchange", "HttpExchange", {"Post"}) EXCEPT
        !.fills = {InPath("client")}, !.headers = "x" :> FromConst,
        !.params = "key" :> [FromField("key") EXCEPT !.pointer = "/a"], !.encoding = {"Json"},
        !.extract = "access" :> Pointer]
Probing ==
    [Recipe(<<ProbeStep, ExchangeStep>>, <<OutputOf("exchange", "access"), FieldFor("access", 3600)>>)
        EXCEPT !.use_stored = TRUE]

Rules == <<Rule({In("mode", {"rotating"})}, "rotating"), Rule({In("mode", {"bearer"})}, "bearer"),
           Rule({[kind |-> "all_present", fields |-> {"access"}, values |-> {}]}, "probing"),
           Rule(None, "self")>>

Base ==
    [fields |-> "refresh" :> Field(TRUE, "none") @@ "key" :> Field(TRUE, "none")
                @@ "access" :> Field(TRUE, "none") @@ "client" :> Field(FALSE, "plain")
                @@ "region" :> CredentialField(FALSE, FALSE, "label", {"good"})
                @@ "mode" :> CredentialField(FALSE, TRUE, "plain", None)
                @@ "note" :> Field(FALSE, "none"),
     require_one_of |-> {{"key", "refresh"}}, import |-> {"refresh"}, seed |-> {"token"},
     secret_slots |-> {"token"}, slots |-> "token" :> [kind |-> "minted", name |-> "choose"],
     attributes |-> "client" :> Attribute({"client"}, FALSE, FALSE),
     recipes |-> "choose" :> Selector(Rules, "recipe" :> Attribute(None, TRUE, FALSE))
                 @@ "rotating" :> Rotating @@ "bearer" :> Bearer @@ "self" :> SelfSigned
                 @@ "probing" :> Probing]

With(name, changed) == [Base EXCEPT !.recipes[name] = changed]
RotatingWith(token) == With("rotating", [Rotating EXCEPT !.steps = <<token>>])
ProbingWith(steps) == With("probing", [Probing EXCEPT !.steps = steps])
BearerWith(steps) == With("bearer", [Bearer EXCEPT !.steps = steps])
SelfWith(exp, default) ==
    With("self", [SelfSigned EXCEPT !.steps[1].claims["exp"] = exp, !.default_seconds = default])
Claim(name, source) == BearerWith(<<[SignStep EXCEPT !.claims = (name :> source) @@ @], BearerStep>>)

GateSections == [
  none |-> Base,
  goto_back |-> ProbingWith(<<ProbeStep, [ExchangeStep EXCEPT !.on_status = 5 :> GoTo("probe")]>>),
  goto_self |-> ProbingWith(<<[ProbeStep EXCEPT !.on_status = 4 :> GoTo("probe")], ExchangeStep>>),
  goto_success |-> ProbingWith(<<[ProbeStep EXCEPT !.on_status = 200 :> GoTo("exchange")], ExchangeStep>>),
  no_goto |-> ProbingWith(<<[ProbeStep EXCEPT !.on_status = NoEntries], ExchangeStep>>),
  no_method |-> ProbingWith(<<ProbeStep, [ExchangeStep EXCEPT !.method = None]>>),
  auth_endpoint |-> ProbingWith(<<[ProbeStep EXCEPT !.auth = {EndpointOf("nowhere")}], ExchangeStep>>),
  param_endpoint |-> ProbingWith(<<ProbeStep, [ExchangeStep EXCEPT !.params = "a" :> EndpointOf("nowhere")]>>),
  output_later |-> ProbingWith(<<[ProbeStep EXCEPT !.headers = "x" :> FromOutput("exchange", "access")], ExchangeStep>>),
  no_source |-> ProbingWith(<<ProbeStep, [ExchangeStep EXCEPT !.params = "a" :> ValueSource]>>),
  two_sources |-> ProbingWith(<<ProbeStep, [ExchangeStep EXCEPT !.params = "a" :> [FromConst EXCEPT !.field = {"key"}]]>>),
  same_id |-> ProbingWith(<<ProbeStep, [ExchangeStep EXCEPT !.id = "probe"]>>),
  five_steps |-> ProbingWith(<<ProbeStep, ExchangeStep, ExchangeStep, ExchangeStep, ExchangeStep>>),
  probe_extracts |-> ProbingWith(<<[ProbeStep EXCEPT !.extract = "a" :> Pointer,
                                        !.on_status = NoEntries],
                                   [ExchangeStep EXCEPT !.params = "a" :> FromOutput("probe", "a")]>>),
  fill_secret |-> ProbingWith(<<ProbeStep, [ExchangeStep EXCEPT !.fills = {InPath("key")}]>>),
  fill_free_text |-> ProbingWith(<<ProbeStep, [ExchangeStep EXCEPT !.fills = {InPath("note")}]>>),
  fill_unknown |-> ProbingWith(<<ProbeStep, [ExchangeStep EXCEPT !.fills = {InPath("nothing")}]>>),
  host_plain |-> RotatingWith([TokenStep EXCEPT !.fills = {InHost("client")}]),
  margin_59 |-> With("rotating", [Rotating EXCEPT !.margin = {59}]),
  margin_60 |-> With("rotating", [Rotating EXCEPT !.margin = {60}]),
  margin_narrowed |-> With("rotating", [Rotating EXCEPT !.margin = {90}, !.min_ttl = {120}]),
  max_narrowed |-> With("rotating", [Rotating EXCEPT !.max_ttl = {600}]),
  max_30 |-> With("rotating", [Rotating EXCEPT !.max_ttl = {30}]),
  min_over_max |-> With("rotating", [Rotating EXCEPT !.min_ttl = {600}, !.max_ttl = {300}]),
  no_write_back |-> With("rotating", [Rotating EXCEPT !.write_back = NoEntries]),
  not_rotating |-> With("rotating", [Rotating EXCEPT !.rotates = {FALSE}]),
  undecided |-> With("rotating", [Rotating EXCEPT !.rotates = None]),
  write_back_region |-> With("rotating", [Rotating EXCEPT !.write_back = "region" :> <<"token", "next">>]),
  write_back_unknown |-> With("rotating", [Rotating EXCEPT !.write_back = "refresh" :> <<"token", "nothing">>]),
  use_stored |-> With("rotating", [Rotating EXCEPT !.use_stored = TRUE]),
  no_clock |-> RotatingWith([TokenStep EXCEPT !.extract = "access" :> Pointer @@ "next" :> Pointer]),
  clock_compared |-> RotatingWith([TokenStep EXCEPT !.extract["expires"] = Extract("epoch_millis", FALSE, {"note"})]),
  clock_optional |-> RotatingWith([TokenStep EXCEPT !.extract["expires"] = Extract("epoch_millis", TRUE, None)]),
  jump_over_input |-> ProbingWith(<<[ProbeStep EXCEPT !.on_status = 4 :> GoTo("last")],
                                    ExchangeStep,
                                    [ExchangeStep EXCEPT !.id = "last", !.params = "a" :> FromOutput("exchange", "access")]>>),
  optional_input |-> ProbingWith(<<[ExchangeStep EXCEPT !.id = "first", !.extract = "a" :> Extract("pointer", TRUE, None)],
                                   [ExchangeStep EXCEPT !.params = "a" :> FromOutput("first", "a")]>>),
  fixed_unset |-> RotatingWith([TokenStep EXCEPT !.extract["expires"] = Extract("fixed_window", FALSE, None)]),
  fixed_set |-> With("rotating", [Rotating EXCEPT !.fixed_validity = {90000},
                       !.steps[1].extract["expires"] = Extract("fixed_window", FALSE, None)]),
  get_token |-> RotatingWith([TokenStep EXCEPT !.method = {"Get"}]),
  must_equal_unknown |-> RotatingWith([TokenStep EXCEPT !.extract["next"] = Extract("pointer", TRUE, {"nothing"})]),
  requires_unknown |-> RotatingWith([TokenStep EXCEPT !.requires = <<"nothing">>]),
  aud_constant |-> Claim("aud", FromConst),
  aud_elsewhere |-> Claim("aud", EndpointOf("nowhere")),
  sub_constant |-> Claim("sub", FromConst),
  iss_endpoint |-> Claim("iss", EndpointOf("token")),
  sent_twice |-> BearerWith(<<SignStep, BearerStep, [BearerStep EXCEPT !.id = "again"]>>),
  key_public |-> BearerWith(<<[SignStep EXCEPT !.key = {FromField("client")}], BearerStep>>),
  no_key |-> BearerWith(<<[SignStep EXCEPT !.key = None], BearerStep>>),
  short_exp |-> SelfWith(NowPlus(30), {30}),
  long_default |-> SelfWith(NowPlus(3600), {4000}),
  constant_exp |-> SelfWith(FromConst, {1800}),
  no_default |-> SelfWith(NowPlus(3600), None),
  present_unknown |-> With("self", [SelfSigned EXCEPT !.present = {<<OutputOf("sign", "other")>>}]),
  present_nothing |-> With("self", [SelfSigned EXCEPT !.present = {<<>>}]),
  present_public |-> With("self", [SelfSigned EXCEPT !.present = {<<FieldFor("client", 60)>>}]),
  present_brief |-> With("self", [SelfSigned EXCEPT !.present = {<<FieldFor("key", 30)>>}]),
  present_twice |-> With("self", [SelfSigned EXCEPT !.present = {<<FieldFor("key", 60), FieldFor("key", 60)>>}]),
  selector_loops |-> With("choose", Selector(<<Rule(None, "choose")>>, NoEntries)),
  selector_gap |-> With("choose", Selector(SubSeq(Rules, 1, 3), NoEntries)),
  selector_unknown |-> With("choose", Selector(<<Rule(None, "nothing")>>, NoEntries)),
  selects_secret |-> With("choose", Selector(<<Rule({In("key", {"good"})}, "bearer"), Rule(None, "self")>>, NoEntries)),
  selector_clamps |-> With("choose", [Selector(Rules, NoEntries) EXCEPT !.margin = {5}]),
  shared_attribute |-> With("choose", Selector(Rules, "region" :> Attribute(None, TRUE, FALSE))),
  section_attribute |-> [Base EXCEPT !.attributes = "region" :> Attribute({"client"}, FALSE, FALSE)],
  secret_attribute |-> [Base EXCEPT !.attributes = "client" :> Attribute({"key"}, FALSE, FALSE)],
  free_attribute |-> [Base EXCEPT !.attributes = "client" :> Attribute({"note"}, FALSE, FALSE)],
  bad_default |-> [Base EXCEPT !.fields["region"].default = {"bad"}],
  slot_static |-> [Base EXCEPT !.slots["token"].kind = "static"],
  slot_field |-> [Base EXCEPT !.slots["token"] = [kind |-> "field", name |-> "access"], !.seed = None],
  slot_unknown |-> [Base EXCEPT !.slots["token"].name = "nothing"] ]

AllGood(mode) == [f \in DOMAIN Base.fields |-> IF f = "mode" THEN mode ELSE "good"]
GateStored ==
    LET good == {AllGood(mode) : mode \in {"rotating", "bearer", "good"}} \union
                {[AllGood("good") EXCEPT !["access"] = "empty"], [AllGood("good") EXCEPT !["key"] = "empty"]}
    IN  good \union {[s EXCEPT ![field] = value] :
                        s \in good, field \in DOMAIN Base.fields, value \in {"absent", "bad"}}
GateInstants == {-5, 59, 60, 3600, 60999, 86401}
GateStatuses == {200, 302, 400, 401, 503}
-----------------------------------------------------------------------------
(* A live row: what its endpoint says, issues, and operators write *)
RowReplies ==
    {ok("at", "rt", HOUR), ok("at", "absent", HOUR), ok("", "rt", HOUR), reply(401), reply(503)}
RowRotations == <<"rt2", "rt3">>
RowOperators == <<"op1", "op2">>
-----------------------------------------------------------------------------
(* None, one or two of them *)
Mistakes(all) == {{}} \union {{a, b} : a, b \in all}

Relays ==
    UNION {{[protocol |-> p, faults |-> fs, keep_alive |-> FALSE] : fs \in Mistakes(Faults)}
             \union {[protocol |-> p, faults |-> {}, keep_alive |-> TRUE]} : p \in Protocols}

RunUnused ==
    section = NoEntries /\ admitted = FALSE /\ stored = NoEntries /\ persisted = NoEntries /\ RunFresh

LiveRelay == suite = "relay" /\ RelayLiveStarts(MaxFrames)

RelayInit ==
    /\ LiveRelay \/ (suite = "relay" /\ RelaySuiteStarts(Relays))
    /\ FetchUnused /\ RowUnused /\ FramingUnused /\ SigningUnused /\ RunUnused

SuitesInit ==
    \/ RelayInit
    \/ /\ suite = "fetch"
       /\ FetchLiveStarts \/ \E f \in Mistakes(FetchFaults) : FetchSuiteStarts(f)
       /\ RelayUnused /\ RowUnused /\ FramingUnused /\ SigningUnused /\ RunUnused
    \/ /\ suite = "row"
       /\ RowLiveStarts \/ \E f \in Mistakes(RecipeFaults) : RowSuiteStarts(f)
       /\ RelayUnused /\ FetchUnused /\ FramingUnused /\ SigningUnused /\ RunUnused
    \/ /\ suite = "framing" /\ Framing!FramingStarts(Mistakes(Framing!FramingFaults))
       /\ RelayUnused /\ FetchUnused /\ RowUnused /\ SigningUnused /\ RunUnused
    \/ /\ suite = "signing" /\ Signing!SigningStarts(Mistakes(Signing!SigningFaults))
       /\ RelayUnused /\ FetchUnused /\ RowUnused /\ FramingUnused /\ RunUnused
    \/ /\ suite = "gate" /\ RunStarts
       /\ RelayUnused /\ FetchUnused /\ RowUnused /\ FramingUnused /\ SigningUnused

CutInit ==
    /\ LiveRelay
    /\ FetchUnused /\ RowUnused /\ FramingUnused /\ SigningUnused /\ RunUnused
=============================================================================
