----------------------------- MODULE RecipeRun ------------------------------
(***************************************************************************)
(* What gate one admits of a package's credentials section                 *)
(* (south-provider-api/src/credentials.rs).  A refusal is one error with a *)
(* wording, so the checks are predicates; names, pointers and templates    *)
(* are well formed or not.  An optional value is a set of at most one.     *)
(***************************************************************************)
EXTENDS Integers, Sequences, FiniteSets, TLC, Functions

MAX_RECIPE_STEPS == 4
MAX_PRESENT_CANDIDATES == 4
HOST_MIN_TTL_SECONDS == 60
HOST_MAX_TTL_SECONDS == 86400

None == {}
The(option) == CHOOSE value \in option : TRUE
OrElse(option, default) == IF option = {} THEN default ELSE The(option)
NoEntries == <<>>   \* an empty map
Has(map, key) == key \in DOMAIN map
Values(map) == {map[key] : key \in DOMAIN map}
-----------------------------------------------------------------------------
(* The parts of a section *)
CredentialField(secret, required, syntax, default) ==
    [secret |-> secret, required |-> required, syntax |-> syntax, default |-> default]

ValueSource ==
    [constant |-> FALSE, field |-> None, pointer |-> "none", output |-> None, now_plus |-> None,
     endpoint_of |-> None]
FromConst == [ValueSource EXCEPT !.constant = TRUE]
FromField(field) == [ValueSource EXCEPT !.field = {field}]
FromOutput(step, name) == [ValueSource EXCEPT !.output = {<<step, name>>}]
NowPlus(seconds) == [ValueSource EXCEPT !.now_plus = {seconds}]
EndpointOf(step) == [ValueSource EXCEPT !.endpoint_of = {step}]

Attribute(field, selected, persist) ==
    [field |-> field, selected_recipe |-> selected, export |-> TRUE, persist |-> persist]

(* An extraction reads a pointer, a clock or a fixed window. *)
Extract(source, optional, must_equal_field) ==
    [sources |-> {source}, optional |-> optional, must_equal_field |-> must_equal_field]

(* `endpoint` is a template, its parameters `fills` named by field. *)
Step(id, kind, method) ==
    [id |-> id, kind |-> kind, method |-> method,
     endpoint |-> IF kind = "JwtSign" THEN "absent" ELSE "template", fills |-> {},
     encoding |-> {"Form"}, params |-> NoEntries, headers |-> NoEntries, auth |-> None,
     requires |-> <<>>, on_status |-> NoEntries, extract |-> NoEntries,
     alg |-> kind = "JwtSign", key |-> None, claims |-> NoEntries]

Recipe(steps, present) ==
    [steps |-> steps, present |-> {present}, rotates |-> {FALSE}, write_back |-> NoEntries,
     margin |-> None, use_stored |-> FALSE, default_seconds |-> None, fixed_validity |-> None,
     min_ttl |-> None, max_ttl |-> None, select |-> <<>>, attributes |-> NoEntries]

Selector(rules, attributes) ==
    [Recipe(<<>>, <<>>) EXCEPT !.present = None, !.rotates = None, !.select = rules,
                               !.attributes = attributes]

OutputOf(step, name) == [output |-> {<<step, name>>}, field |-> None, validity |-> 0]
FieldFor(field, validity) == [output |-> None, field |-> {field}, validity |-> validity]
-----------------------------------------------------------------------------
IsSecret(section, field, secret) ==
    Has(section.fields, field) /\ section.fields[field].secret = secret

(* check_fields *)
CheckFields(section) ==
    /\ \A name \in DOMAIN section.fields :
          LET field == section.fields[name]
          IN  /\ field.syntax # "malformed"
              /\ field.default # None =>
                    ~field.secret /\ (field.syntax # "none" => The(field.default) = "good")
    /\ \A group \in section.require_one_of : group # {} /\ group \subseteq DOMAIN section.fields
    /\ \A field \in section.import : Has(section.fields, field)

\* Mutant: an output need not be one of an earlier step.
CheckSourceAnyOutput(section, source, outputs) ==
    /\ Cardinality({kind \in {"constant", "field", "output", "now_plus", "endpoint_of"} :
                       IF kind = "constant" THEN source.constant ELSE source[kind] # None}) = 1
    /\ source.pointer # "none" => source.field # None
    /\ source.field # None => Has(section.fields, The(source.field)) /\ source.pointer # "malformed"

(* check_source *)
CheckSource(section, source, outputs) ==
    /\ Cardinality({kind \in {"constant", "field", "output", "now_plus", "endpoint_of"} :
                       IF kind = "constant" THEN source.constant ELSE source[kind] # None}) = 1
    /\ source.pointer # "none" => source.field # None
    /\ source.field # None => Has(section.fields, The(source.field)) /\ source.pointer # "malformed"
    /\ source.output \subseteq outputs

(* check_http_step *)
CheckHttpStep(section, step) ==
    /\ step.endpoint = "template"
    /\ \A fill \in step.fills :
          LET field == section.fields[fill.field]
          IN  /\ Has(section.fields, fill.field)
              /\ ~field.secret /\ field.syntax # "none" /\ ~fill.pointer
              /\ fill.in_host => field.syntax = "label"
    /\ IF step.kind = "Oauth2Token" THEN step.method # {"Get"} ELSE step.method # None
    /\ step.params # NoEntries /\ step.method # {"Get"} => step.encoding # None
    /\ ~step.alg /\ step.key = None /\ step.claims = NoEntries

(* check_jwt_step *)
CheckJwtStep(section, step, outputs) ==
    /\ step.endpoint = "absent" /\ step.method = None /\ step.params = NoEntries
    /\ step.headers = NoEntries /\ step.auth = None /\ step.on_status = NoEntries
    /\ step.extract = NoEntries
    /\ step.alg /\ step.key # None /\ step.claims # NoEntries
    /\ \E field \in The(step.key).field : IsSecret(section, field, TRUE)
    /\ \A claim \in DOMAIN step.claims :
          LET source == step.claims[claim]
          IN  /\ CheckSource(section, source, outputs)
              /\ claim = "sub" => ~source.constant
              /\ source.endpoint_of # None => claim = "aud"

(* check_extractions *)
CheckExtractions(section, step) ==
    \A name \in DOMAIN step.extract :
        LET extract == step.extract[name]
        IN  /\ Cardinality(extract.sources) = 1 /\ extract.sources # {"malformed"}
            /\ extract.must_equal_field \subseteq DOMAIN section.fields

\* Mutant: a goto may name any step, itself included.
ForwardAnywhere(action, ids, index) ==
    action.goto # None => \E n \in DOMAIN ids : ids[n] = The(action.goto)

(* Forward only, so that the graph is acyclic by construction. *)
Forward(action, ids, index) ==
    action.goto # None => \E n \in (index + 1)..Len(ids) : ids[n] = The(action.goto)

(* check_step *)
CheckStep(section, step, outputs, ids, index) ==
    /\ \A n \in DOMAIN step.requires : Has(section.fields, step.requires[n])
    /\ IF step.kind = "JwtSign" THEN CheckJwtStep(section, step, outputs) ELSE CheckHttpStep(section, step)
    /\ \A source \in Values(step.params) \union Values(step.headers) :
          CheckSource(section, source, outputs) /\ source.endpoint_of = None
    /\ \A value \in step.auth : CheckSource(section, value, outputs)
    /\ \A action \in Values(step.on_status) : Forward(action, ids, index)
    /\ CheckExtractions(section, step)

(* The outputs of the steps before `index`. *)
StepOutputs(step) ==
    {<<step.id, name>> : name \in DOMAIN step.extract} \union
    {<<step.id, name>> : name \in (IF step.kind = "JwtSign" THEN {"jwt"} ELSE {})}
OutputsBefore(steps, index) == UNION {StepOutputs(steps[n]) : n \in 1..(index - 1)}

(* check_attributes *)
CheckAttributes(section, attributes) ==
    \A attribute \in Values(attributes) :
        /\ attribute.export /\ ~attribute.selected_recipe /\ attribute.field # None
        /\ IsSecret(section, The(attribute.field), FALSE)
        /\ section.fields[The(attribute.field)].syntax # "none"

(* check_present *)
CheckPresent(section, present, outputs) ==
    /\ Len(present) \in 1..MAX_PRESENT_CANDIDATES
    /\ \A m, n \in DOMAIN present : present[m] = present[n] => m = n
    /\ \A n \in DOMAIN present :
          /\ present[n].output \subseteq outputs
          /\ \A field \in present[n].field :
                /\ IsSecret(section, field, TRUE)
                /\ present[n].validity \in HOST_MIN_TTL_SECONDS..HOST_MAX_TTL_SECONDS

(* The steps that send the assertion a step signs. *)
Receivers(steps, signer) ==
    {n \in DOMAIN steps :
        \E source \in Values(steps[n].params) \union Values(steps[n].headers) \union steps[n].auth :
            source.output = {<<signer.id, "jwt">>}}

(* check_assertions: an assertion that is sent carries its destination *)
CheckAssertions(steps) ==
    \A m \in {n \in DOMAIN steps : steps[n].kind = "JwtSign"} :
        LET signer == steps[m]
            receivers == Receivers(steps, signer)
            aud == IF Has(signer.claims, "aud") THEN signer.claims["aud"].endpoint_of ELSE None
        IN  /\ \A source \in Values(signer.claims) : \A target \in source.endpoint_of :
                  \E n \in DOMAIN steps : steps[n].id = target /\ steps[n].kind # "JwtSign"
            /\ Cardinality(receivers) <= 1
            /\ \A n \in receivers : aud = {steps[n].id}

\* Mutant: default_seconds is not compared with the lifetime.
CheckPresentedJwtUnbounded(recipe) ==
    \A n \in DOMAIN recipe.steps :
        LET step == recipe.steps[n]
            lifetime == IF Has(step.claims, "exp") THEN step.claims["exp"].now_plus ELSE None
            presented == \E c \in DOMAIN The(recipe.present) :
                            The(recipe.present)[c].output = {<<step.id, "jwt">>}
        IN  step.kind = "JwtSign" /\ presented => lifetime # None /\ recipe.default_seconds # None

(* A JWT that is presented has its expiry from default_seconds. *)
CheckPresentedJwt(recipe) ==
    \A n \in DOMAIN recipe.steps :
        LET step == recipe.steps[n]
            lifetime == IF Has(step.claims, "exp") THEN step.claims["exp"].now_plus ELSE None
            presented == \E c \in DOMAIN The(recipe.present) :
                            The(recipe.present)[c].output = {<<step.id, "jwt">>}
        IN  step.kind = "JwtSign" /\ presented =>
                /\ lifetime # None /\ recipe.default_seconds # None
                /\ The(recipe.default_seconds) <= The(lifetime)

\* Mutant: the margin is compared with nothing.
CheckClampsLoose(recipe) == TRUE

CheckClamps(recipe) ==
    /\ recipe.min_ttl # None /\ recipe.max_ttl # None => The(recipe.min_ttl) <= The(recipe.max_ttl)
    /\ recipe.margin # None => The(recipe.margin) < OrElse(recipe.min_ttl, HOST_MIN_TTL_SECONDS)
    /\ recipe.min_ttl \union recipe.max_ttl \subseteq HOST_MIN_TTL_SECONDS..HOST_MAX_TTL_SECONDS

(* check_selector *)
CheckSelector(section, name, recipe) ==
    /\ recipe = Selector(recipe.select, recipe.attributes)
    /\ \A attribute \in Values(recipe.attributes) :
          attribute.export /\ attribute.selected_recipe /\ attribute.field = None /\ ~attribute.persist
    /\ \A n \in DOMAIN recipe.select : (recipe.select[n].when = None) = (n = Len(recipe.select))
    /\ \A n \in DOMAIN recipe.select :
          LET rule == recipe.select[n]
          IN  /\ Has(section.recipes, rule.recipe) /\ rule.recipe # name
              /\ section.recipes[rule.recipe].select = <<>>
              /\ DOMAIN recipe.attributes \intersect DOMAIN section.recipes[rule.recipe].attributes = {}
              /\ \A test \in rule.when :
                    /\ test.fields # {} /\ test.fields \subseteq DOMAIN section.fields
                    /\ test.kind = "field_in" =>
                          /\ test.values # {}
                          /\ \A field \in test.fields : IsSecret(section, field, FALSE)

(* check_recipe *)
CheckRecipe(section, name, recipe) ==
    LET steps == recipe.steps
        ids == [n \in DOMAIN steps |-> steps[n].id]
        outputs == OutputsBefore(steps, Len(steps) + 1)
        fixed == \E n \in DOMAIN steps : \E e \in Values(steps[n].extract) : e.sources = {"fixed_window"}
    IN  IF recipe.select # <<>> THEN CheckSelector(section, name, recipe)
        ELSE /\ Len(steps) \in 1..MAX_RECIPE_STEPS
             /\ recipe.rotates # None
             /\ The(recipe.rotates) = (recipe.write_back # NoEntries)
             /\ CheckClamps(recipe)
             /\ CheckAttributes(section, recipe.attributes)
             /\ \A n \in DOMAIN steps :
                   /\ \A m \in 1..(n - 1) : ids[m] # ids[n]
                   /\ CheckStep(section, steps[n], OutputsBefore(steps, n), ids, n)
             /\ fixed => recipe.fixed_validity # None
             /\ recipe.present # None /\ CheckPresent(section, The(recipe.present), outputs)
             /\ CheckPresentedJwt(recipe)
             /\ \A field \in DOMAIN recipe.write_back :
                   IsSecret(section, field, TRUE) /\ recipe.write_back[field] \in outputs
             /\ CheckAssertions(steps)

(* check, for the slots of permissions.secrets and the seed of one *)
CheckSlots(section) ==
    /\ DOMAIN section.slots = section.secret_slots
    /\ \A source \in Values(section.slots) :
          /\ source.kind # "static"
          /\ IF source.kind = "minted" THEN Has(section.recipes, source.name)
             ELSE IsSecret(section, source.name, TRUE)
    /\ \A seed \in section.seed : Has(section.slots, seed) /\ section.slots[seed].kind = "minted"

Check(section) ==
    /\ CheckFields(section)
    /\ CheckSlots(section)
    /\ CheckAttributes(section, section.attributes)
    /\ \A recipe \in Values(section.recipes) :
          DOMAIN recipe.attributes \intersect DOMAIN section.attributes = {}
    /\ \A name \in DOMAIN section.recipes : CheckRecipe(section, name, section.recipes[name])

(* admits_attribute, where `value` names a field's value or a recipe *)
AdmitsAttribute(section, name, value) ==
    LET declaring == {r \in DOMAIN section.recipes : Has(section.recipes[r].attributes, name)}
        fieldAdmits(attribute) ==
            \E field \in attribute.field :
                Has(section.fields, field) /\ section.fields[field].syntax # "none" /\ value = "good"
        recipeAdmits(recipe) ==
            LET attribute == recipe.attributes[name]
            IN  IF attribute.selected_recipe
                THEN \E n \in DOMAIN recipe.select : recipe.select[n].recipe = value
                ELSE fieldAdmits(attribute)
    IN  IF Has(section.attributes, name) THEN fieldAdmits(section.attributes[name])
        ELSE \E r \in declaring : recipeAdmits(section.recipes[r])
-----------------------------------------------------------------------------
(***************************************************************************)
(* One run of a slot's recipe: the interpreter of                          *)
(* south-component-conformance/src/credential_recipe.rs over a section     *)
(* that gate one admitted or not, stored fields and an upstream that       *)
(* answers anything.  Instants are relative to the run's `now`.  The maps  *)
(* of a section are read in name order; names have no order here, so which *)
(* of several failures of one map is reported is left open.                *)
(***************************************************************************)

CONSTANTS Sections,   \* the sections a run may start from, by name
          Stored,     \* the stored fields, functions from fields to values
          Statuses,   \* statuses an upstream may answer
          Instants    \* expiries an upstream may state

VARIABLES section,    \* the credentials section
          admitted,   \* whether gate one admits it
          stored,     \* the stored fields: "absent", "empty", "bad", "good" or a mode
          persisted,  \* attributes kept from earlier exports
          exported,   \* attributes exported ahead of the run
          stage,      \* "export", "resolve", "steps", "answer", "present" or "done"
          fields,     \* the present fields
          chosen,     \* the recipe that runs, after any selector
          at,         \* the step to enter
          jumped,     \* entered by a goto
          outputs, clocks, requests, outcome

runVars == <<section, admitted, stored, persisted, exported, stage, fields, chosen, at, jumped,
             outputs, clocks, requests, outcome>>

recipe == section.recipes[chosen]
step == recipe.steps[at]
-----------------------------------------------------------------------------
(* `absent` is the output a step reads and no step made; `jwt` the exp of  *)
(* a presented assertion.                                                  *)
NoOutcome == [kind |-> "none", field |-> None, at |-> None, absent |-> None, ttl |-> 0,
              jwt |-> None, write_back |-> {}, attributes |-> NoEntries]
Configuration(field) == [NoOutcome EXCEPT !.kind = "Configuration", !.field = field]
Transient(id) == [NoOutcome EXCEPT !.kind = "Transient", !.at = id]
Absent(output) == [Transient({output[1]}) EXCEPT !.absent = {output}]
ReauthRequired(id) == [NoOutcome EXCEPT !.kind = "ReauthRequired", !.at = {id}]
UseStored == [NoOutcome EXCEPT !.kind = "UseStored"]

(* A JSON value: its text, and what it says when it is an assertion. *)
Value(text) == [text |-> text, aud |-> None, exp |-> None]

Stop(failures) ==
    /\ \E failure \in failures : outcome' = failure
    /\ stage' = "done"
    /\ UNCHANGED <<section, admitted, stored, persisted, exported, fields, chosen, at, jumped,
                   outputs, clocks, requests>>
-----------------------------------------------------------------------------
(* resolve_fields *)
Present(name) ==
    IF stored[name] \notin {"absent", "empty"} THEN {stored[name]} ELSE section.fields[name].default

Admits(name, value) == section.fields[name].syntax # "none" => value # "bad"

\* Mutant: a present value is taken with no look at its syntax.
FieldFailuresNoSyntax ==
    {Configuration({name}) : name \in {n \in DOMAIN section.fields :
                                          Present(n) = None /\ section.fields[n].required}}

FieldFailures ==
    {Configuration({name}) :
        name \in {n \in DOMAIN section.fields :
                     IF Present(n) = None THEN section.fields[n].required
                     ELSE ~Admits(n, The(Present(n)))}}

GroupFailures ==
    {Configuration({CHOOSE field \in group : TRUE}) :
        group \in {g \in section.require_one_of : \A field \in g : Present(field) = None}}

StoredFailures == IF FieldFailures # {} THEN FieldFailures ELSE GroupFailures

Resolved ==
    [name \in {n \in DOMAIN section.fields : Present(n) # None} |-> The(Present(name))]

(* select *)
Matches(rule, present) ==
    \A test \in rule.when :
        CASE test.kind = "field_in" ->
                 \A field \in test.fields : Has(present, field) /\ present[field] \in test.values
          [] OTHER -> test.fields \subseteq DOMAIN present

Select(name, present) ==
    LET rules == section.recipes[name].select
        matching == {n \in DOMAIN rules : Matches(rules[n], present)}
        first == rules[CHOOSE n \in matching : \A m \in matching : n <= m].recipe
    IN  IF ~Has(section.recipes, name) THEN None
        ELSE IF rules = <<>> THEN {name}
        ELSE IF matching = {} THEN None
        ELSE {r \in {first} : Has(section.recipes, r) /\ section.recipes[r].select = <<>>}
-----------------------------------------------------------------------------
(* field_attributes and attributes *)
FieldAttributes(declared, present) ==
    [name \in {n \in DOMAIN declared :
                  /\ declared[n].export /\ ~declared[n].selected_recipe
                  /\ \E field \in declared[n].field : IsSecret(section, field, FALSE) /\ Has(present, field)}
        |-> present[The(declared[name].field)]]

AttributesOf(slot, name, present) ==
    LET declared == section.recipes[slot.name].attributes
    IN  FieldAttributes(section.recipes[name].attributes, present) @@
        [n \in {a \in DOMAIN declared : declared[a].export /\ declared[a].selected_recipe
                                        /\ name # slot.name} |-> name]

theSlot == section.slots["token"]
minted == Has(section.slots, "token") /\ theSlot.kind = "minted"

(* exported_attributes_v1, which the host calls ahead of any run: the      *)
(* recipe's value of an attribute replaces the section's.                  *)
KeptAttributes(declared) == {n \in DOMAIN declared : declared[n].persist}

Export ==
    LET present == Resolved
        names == IF minted THEN Select(theSlot.name, present) ELSE None
        now == (IF names = None THEN NoEntries ELSE AttributesOf(theSlot, The(names), present)) @@
               FieldAttributes(section.attributes, present)
        keep == KeptAttributes(section.attributes) \union
                UNION {KeptAttributes(section.recipes[name].attributes) : name \in names}
        kept == [n \in {a \in keep : Has(persisted, a) /\ ~Has(now, a)} |-> persisted[n]]
        fails == StoredFailures # {} \/ (minted /\ names = None)
    IN  /\ stage = "export" /\ stage' = "resolve"
        /\ exported' = IF fails THEN exported ELSE now @@ kept
        /\ persisted' = IF fails THEN persisted
                        ELSE Restrict(now, keep \intersect DOMAIN now) @@ persisted
        /\ UNCHANGED <<section, admitted, stored, fields, chosen, at, jumped, outputs, clocks,
                       requests, outcome>>
-----------------------------------------------------------------------------
(* stored_slot_value_v1: the value of a slot that names a field *)
StoredSlot ==
    /\ stage = "resolve" /\ Has(section.slots, "token") /\ theSlot.kind = "field"
    /\ Stop(IF StoredFailures # {} THEN StoredFailures
            ELSE IF Has(Resolved, theSlot.name) THEN {UseStored}
            ELSE {Configuration({theSlot.name})})

(* mint, up to its steps *)
Resolve ==
    /\ stage = "resolve" /\ theSlot.kind # "field"
    /\ LET names == IF minted THEN Select(theSlot.name, Resolved) ELSE None
       IN  IF StoredFailures # {} THEN Stop(StoredFailures)
           ELSE IF names = None THEN Stop({Configuration(None)})
           ELSE /\ fields' = Resolved /\ chosen' = The(names) /\ stage' = "steps"
                /\ UNCHANGED <<section, admitted, stored, persisted, exported, at, jumped, outputs,
                               clocks, requests, outcome>>

(* url_of *)
UrlFailures(id) ==
    LET steps == recipe.steps
        found == {n \in DOMAIN steps : steps[n].id = id}
        target == steps[CHOOSE n \in found : \A m \in found : n <= m]
        checked(fill) == IsSecret(section, fill.field, FALSE) /\ ~fill.pointer
                         /\ section.fields[fill.field].syntax # "none"
    IN  IF found = {} THEN {Configuration(None)}
        ELSE IF target.endpoint # "template" THEN {Configuration(None)}
        ELSE {Configuration(None) : fill \in {f \in target.fills : ~checked(f)}} \union
             {Configuration({fill.field}) :
                 fill \in {f \in target.fills : checked(f) /\ ~Has(fields, f.field)}}

(* source: what keeps a value from being read, in the order the code looks *)
SourceFailures(source) ==
    IF source.constant THEN {}
    ELSE IF source.field # None
         THEN {Configuration({f}) :
                  f \in {g \in source.field :
                            ~Has(fields, g) \/ (source.pointer # "none" /\ fields[g] = "bad")}}
    ELSE IF source.output # None
         THEN {Absent(output) : output \in source.output \ DOMAIN outputs}
    ELSE IF source.now_plus # None THEN {}
    ELSE IF source.endpoint_of # None THEN UrlFailures(The(source.endpoint_of))
    ELSE {Configuration(None)}

FailuresOf(sources) == UNION {SourceFailures(source) : source \in sources}

(* The steps a goto names, which are never fallen into. *)
GotoTargets(steps) ==
    UNION {action.goto : action \in UNION {Values(steps[n].on_status) : n \in DOMAIN steps}}

FallsInto == ~jumped /\ at \in 2..Len(recipe.steps) /\ step.id \in GotoTargets(recipe.steps)

(* steps, at the head of its loop *)
StepsEnd ==
    /\ stage = "steps"
    /\ at > Len(recipe.steps) \/ FallsInto
    /\ stage' = "present"
    /\ UNCHANGED <<section, admitted, stored, persisted, exported, fields, chosen, at, jumped,
                   outputs, clocks, requests, outcome>>

Missing == {n \in DOMAIN step.requires : ~Has(fields, step.requires[n])}
Enters == stage = "steps" /\ at <= Len(recipe.steps) /\ ~FallsInto

RequirementMissing ==
    /\ Enters /\ Missing # {}
    /\ LET first == CHOOSE n \in Missing : \A m \in Missing : n <= m
       IN  Stop({IF recipe.use_stored THEN UseStored ELSE Configuration({step.requires[first]})})

(* sign *)
SignFailures ==
    IF ~step.alg \/ step.key = None THEN {Configuration(None)}
    ELSE IF FailuresOf(step.key) # {} THEN FailuresOf(step.key)
    ELSE FailuresOf(Values(step.claims))

Assertion ==
    [text |-> "text",
     aud |-> IF Has(step.claims, "aud") THEN step.claims["aud"].endpoint_of ELSE None,
     exp |-> IF Has(step.claims, "exp") THEN step.claims["exp"].now_plus ELSE None]

Sign ==
    /\ Enters /\ Missing = {} /\ step.kind = "JwtSign"
    /\ \/ SignFailures # {} /\ Stop(SignFailures)
       \/ SignFailures = {} /\ Stop({Configuration(The(step.key).field)})   \* the key cannot sign
       \/ /\ SignFailures = {}
          /\ outputs' = (<<step.id, "jwt">> :> Assertion) @@ outputs
          /\ at' = at + 1 /\ jumped' = FALSE
          /\ UNCHANGED <<section, admitted, stored, persisted, exported, stage, fields, chosen,
                         clocks, requests, outcome>>

(* render: the method, the URL, the headers, the authorization, the parameters *)
RenderFailures ==
    IF step.kind # "Oauth2Token" /\ step.method = None THEN {Configuration(None)}
    ELSE IF UrlFailures(step.id) # {} THEN UrlFailures(step.id)
    ELSE IF FailuresOf(Values(step.headers)) # {} THEN FailuresOf(Values(step.headers))
    ELSE IF FailuresOf(step.auth) # {} THEN FailuresOf(step.auth)
    ELSE FailuresOf(Values(step.params))

(* The assertions a step sends. *)
Carried ==
    {outputs[output] : output \in DOMAIN outputs \intersect UNION
        {source.output : source \in Values(step.headers) \union step.auth \union Values(step.params)}}

Send ==
    /\ Enters /\ Missing = {} /\ step.kind # "JwtSign"
    /\ IF RenderFailures # {} THEN Stop(RenderFailures)
       ELSE /\ requests' = Append(requests, [step |-> at, id |-> step.id, auds |->
                               {value.aud : value \in {v \in Carried : v.exp # None}}])
            /\ stage' = "answer" /\ jumped' = FALSE
            /\ UNCHANGED <<section, admitted, stored, persisted, exported, fields, chosen, at,
                           outputs, clocks, outcome>>
-----------------------------------------------------------------------------
(* transition: a status's own action, its class's (4 or 5), or the default *)
Action(status) ==
    IF Has(step.on_status, status) THEN {step.on_status[status]}
    ELSE IF status \in 200..299 \/ ~Has(step.on_status, status \div 100) THEN None
    ELSE {step.on_status[status \div 100]}
Transition(status) ==
    LET action == Action(status)
    IN  IF action # None THEN The(action)
        ELSE [goto |-> None,
              does |-> IF status \in 200..299 THEN "Success"
                       ELSE IF status \in 400..499 THEN "ReauthRequired" ELSE "Transient"]

NoAnswer == stage = "answer" /\ Stop({Transient({step.id})})

RefusedByStatus ==
    /\ stage = "answer"
    /\ \E status \in Statuses :
          LET next == Transition(status)
          IN  /\ next.goto = None /\ next.does # "Success"
              /\ Stop({IF next.does = "ReauthRequired" THEN ReauthRequired(step.id)
                       ELSE Transient({step.id})})

Goto ==
    /\ stage = "answer"
    /\ \E status \in Statuses : \E target \in Transition(status).goto :
          LET found == {n \in DOMAIN recipe.steps : recipe.steps[n].id = target}
              first == CHOOSE n \in found : \A m \in found : n <= m
          IN  IF found = {} \/ first <= at THEN Stop({Configuration(None)})
              ELSE /\ at' = first /\ jumped' = TRUE /\ stage' = "steps"
                   /\ UNCHANGED <<section, admitted, stored, persisted, exported, fields, chosen,
                                  outputs, clocks, requests, outcome>>

(* clock: what an extraction of an instant makes of an answer *)
ClockForms == {"relative_seconds", "epoch_seconds", "epoch_millis", "jwt_exp", "fixed_window"}
FormOf(rule) == CHOOSE form \in rule.sources : TRUE
IsClock(rule) == rule.sources \intersect ClockForms # {}
Read(rule, answer) ==
    CASE FormOf(rule) = "fixed_window" -> recipe.fixed_validity
      [] FormOf(rule) = "epoch_millis" -> {instant \div 1000 : instant \in answer.instant}
      [] OTHER -> answer.instant

(* extract: `answer` is the text found, None if absent, and the instant    *)
(* stated.  A clock's value is the number of its expiry, or the default's. *)
Extracted(rule, answer) ==
    IF ~IsClock(rule) THEN answer.text
    ELSE IF Read(rule, answer) \union recipe.default_seconds # None THEN {"number"} ELSE None

(* Every value extracted is compared, a clock's too; a clock is never optional. *)
ExtractFailures(rule, answer) ==
    IF Extracted(rule, answer) = None
    THEN {Transient({step.id}) : required \in {TRUE} \ {rule.optional /\ ~IsClock(rule)}}
    ELSE {ReauthRequired(step.id) :
             field \in {f \in rule.must_equal_field :
                           Has(fields, f) /\ The(Extracted(rule, answer)) # fields[f]}}

Expiry(rule, answer) == OrElse(Read(rule, answer), OrElse(recipe.default_seconds, 0))

Answers == {[text |-> text, instant |-> None] : text \in {None, {"good"}, {"empty"}, {"number"}}}
           \union {[text |-> {"good"}, instant |-> {instant}] : instant \in Instants}

Success ==
    /\ stage = "answer"
    /\ \E status \in Statuses : Transition(status).goto = None /\ Transition(status).does = "Success"
    /\ IF step.kind = "HttpProbe"
       THEN /\ at' = at + 1 /\ stage' = "steps"
            /\ UNCHANGED <<section, admitted, stored, persisted, exported, fields, chosen, jumped,
                           outputs, clocks, requests, outcome>>
       ELSE \E answers \in [DOMAIN step.extract -> Answers] :
            LET failures == UNION {ExtractFailures(step.extract[n], answers[n]) : n \in DOMAIN answers}
                expiries == {Expiry(step.extract[n], answers[n]) :
                                n \in {m \in DOMAIN answers : IsClock(step.extract[m])}}
                read == {n \in DOMAIN answers : Extracted(step.extract[n], answers[n]) # None}
            IN  /\ \A n \in DOMAIN answers :   \* an instant matters to a clock only
                      IF IsClock(step.extract[n]) THEN answers[n].text = {"good"}
                      ELSE answers[n].instant = None
                /\ IF failures # {} THEN Stop(failures)
                   ELSE /\ outputs' = [o \in {<<step.id, n>> : n \in read} |->
                                          Value(The(Extracted(step.extract[o[2]], answers[o[2]])))]
                                      @@ outputs
                        /\ IF expiries = {} THEN UNCHANGED clocks
                           ELSE \E expiry \in expiries : clocks' = (step.id :> expiry) @@ clocks
                        /\ at' = at + 1 /\ stage' = "steps"
                        /\ UNCHANGED <<section, admitted, stored, persisted, exported, fields,
                                       chosen, jumped, requests, outcome>>
-----------------------------------------------------------------------------
(* presented: the first candidate that is present and not empty *)
Found(candidate) ==
    \/ \E output \in candidate.output :
          output \in DOMAIN outputs /\ outputs[output].text \notin {"empty", "number"}
    \/ \E field \in candidate.field : Has(fields, field)

(* outcome: the host's range, narrowed by the recipe *)
Larger(a, b) == IF a > b THEN a ELSE b
Smaller(a, b) == IF a < b THEN a ELSE b
Clamped(expiry) ==
    LET floor == Larger(OrElse(recipe.min_ttl, HOST_MIN_TTL_SECONDS), HOST_MIN_TTL_SECONDS)
        ceiling == Larger(Smaller(OrElse(recipe.max_ttl, HOST_MAX_TTL_SECONDS), HOST_MAX_TTL_SECONDS), floor)
    IN  Smaller(Larger(expiry, floor), ceiling)

WriteBack ==
    {field \in DOMAIN recipe.write_back :
        LET output == recipe.write_back[field]
        IN  output \in DOMAIN outputs /\ outputs[output].text # "empty"}

Minted(expiry, jwt) ==
    [NoOutcome EXCEPT !.kind = "Minted", !.ttl = Clamped(expiry), !.jwt = jwt, !.write_back = WriteBack,
                      !.attributes = AttributesOf(theSlot, chosen, fields)]

Presents ==
    /\ stage = "present"
    /\ LET candidates == OrElse(recipe.present, <<>>)
           found == {n \in DOMAIN candidates : Found(candidates[n])}
           first == candidates[CHOOSE n \in found : \A m \in found : n <= m]
           output == The(first.output)
           firstStep == {candidates[n].output : n \in DOMAIN candidates} \ {None}
       IN  IF candidates = <<>> THEN Stop({Configuration(None)})
           ELSE IF found = {} THEN Stop({Transient(IF firstStep = {} THEN None ELSE {The(The(firstStep))[1]})})
           ELSE IF first.field # None THEN Stop({Minted(first.validity, None)})
           ELSE IF Has(clocks, output[1]) THEN Stop({Minted(clocks[output[1]], outputs[output].exp)})
           ELSE IF recipe.default_seconds = None THEN Stop({Transient({output[1]})})
           ELSE Stop({Minted(The(recipe.default_seconds), outputs[output].exp)})
-----------------------------------------------------------------------------
RunFresh ==
    /\ exported = NoEntries /\ stage = "export" /\ fields = NoEntries /\ chosen = "none"
    /\ at = 1 /\ jumped = FALSE /\ outputs = NoEntries /\ clocks = NoEntries /\ requests = <<>>
    /\ outcome = NoOutcome

RunStarts ==
    /\ \E name \in DOMAIN Sections : section = Sections[name]
    /\ admitted = Check(section)
    /\ RunFresh
    /\ stored \in Stored
    /\ persisted \in {NoEntries, "region" :> "good"}

RunNext ==
    \/ Export \/ StoredSlot \/ Resolve \/ StepsEnd \/ RequirementMissing \/ Sign \/ Send
    \/ NoAnswer \/ RefusedByStatus \/ Goto \/ Success \/ Presents
-----------------------------------------------------------------------------
(* A section gate one admits never ends a run with a configuration error   *)
(* that names no field, which is one no operator can mend: except that the *)
(* gate does not look where an authorization's endpoint_of points          *)
(* (credentials.rs:1013).  Each step is sent at most once and in order,    *)
(* and an assertion is sent only to the endpoint its aud names (rule 2 of  *)
(* the recipes).                                                           *)
GateSound ==
    admitted =>
        /\ outcome.kind = "Configuration" /\ outcome.field = None =>
              \E value \in step.auth : value.endpoint_of # None
        /\ \A m, n \in DOMAIN requests : m < n => requests[m].step < requests[n].step
        /\ \A n \in DOMAIN requests : requests[n].auds \subseteq {{requests[n].id}}

(* A step an admitted recipe enters finds its inputs: the output it reads  *)
(* is an earlier step's, and is absent only when that step was jumped      *)
(* over, when the extraction is optional, or when the step is a probe,     *)
(* whose extractions the gate admits and the interpreter never makes.      *)
InputsMade ==
    admitted => \A output \in outcome.absent :
        \E n \in 1..(at - 1) :
            LET producer == recipe.steps[n]
            IN  /\ producer.id = output[1]
                /\ \/ n \notin {requests[m].step : m \in DOMAIN requests}
                   \/ producer.kind = "HttpProbe"
                   \/ producer.extract[output[2]].optional

(* The lower end of the clamp. *)
Floor == OrElse(recipe.min_ttl, HOST_MIN_TTL_SECONDS)

(* A value minted by an admitted recipe lives within the host's clamp and  *)
(* the recipe's own, and longer than the margin its refresh starts at, so  *)
(* a value is never due again as soon as it is minted.  An assertion the   *)
(* recipe signs and presents is kept no longer than its own exp, unless    *)
(* the clamp's lower end is longer than that.                              *)
MintedInRange ==
    admitted /\ outcome.kind = "Minted" =>
        /\ outcome.ttl \in Floor..OrElse(recipe.max_ttl, HOST_MAX_TTL_SECONDS)
        /\ OrElse(recipe.margin, 0) < outcome.ttl
        /\ \A field \in outcome.write_back : IsSecret(section, field, TRUE)
        /\ \A exp \in outcome.jwt : outcome.ttl <= exp \/ outcome.ttl = Floor

(* What an admitted section exports, ahead of a run or with a minted      *)
(* value, is a value its declarations admit, under one name each: a run   *)
(* never mints with an attribute that differs from the one exported.      *)
AttributesAdmitted ==
    admitted =>
        /\ \A name \in DOMAIN exported : AdmitsAttribute(section, name, exported[name])
        /\ \A name \in DOMAIN outcome.attributes :
              Has(exported, name) /\ exported[name] = outcome.attributes[name]

(* "A presented JWT the recipe signs itself has no response to read an     *)
(* expiry from, so the host caches it for `default_seconds`; that must not *)
(* outlive the token's own `exp`" (credentials.rs:789-790).                *)
JwtNotOutlived ==
    admitted /\ outcome.kind = "Minted" => \A exp \in outcome.jwt : outcome.ttl <= exp
=============================================================================
