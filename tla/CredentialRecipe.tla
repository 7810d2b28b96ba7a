-------------------------- MODULE CredentialRecipe --------------------------
(***************************************************************************)
(* A credential row that concurrent calls refresh: the reference host of   *)
(* the credential-recipe suite, and the suite that judges it.  First the   *)
(* fixtures: stored generations, endpoint replies, the steps of each case  *)
(* and what they expect; then the host; then the runner.                   *)
(***************************************************************************)
EXTENDS Integers, Sequences, FiniteSets

Names == {"refresh_token", "client_id", "client_secret", "account_id", "label", "workspace"}

NoFields == [n \in Names |-> "absent"]

MintedValue(value, remaining) == {[value |-> value, remaining |-> remaining]}

Generation(known, minted) == [fields |-> known, minted |-> minted]

\* `access` and `expires_in` are absent ("", -1) where the body lacks them.
Body(access, refresh, expires_in) ==
  [access |-> access, refresh |-> refresh, expires_in |-> expires_in]

NoBody == Body("", "absent", -1)

Reply(status, document, hold) == [status |-> status, body |-> document, hold |-> hold]

Unreachable == 0

Answered(value) == [kind |-> "Minted", value |-> value]

Refuses(what) == [kind |-> what, value |-> "none"]

Refresh(token) == [NoFields EXCEPT !.refresh_token = token]

CLIENT_FIELDS == [NoFields EXCEPT !.client_id = "id", !.client_secret = "secret"]

AccountFields(account) == [CLIENT_FIELDS EXCEPT !.account_id = account]

ACCOUNT_1_IN_WORKSPACE ==
  [AccountFields("a1") EXCEPT !.label = "label", !.workspace = "workspace"]

EXPIRED == -60

HOUR == 3600

ROTATING_SEED == Generation(Refresh("seed"), MintedValue("at_seed", EXPIRED))

\* The kinds of step a fixture is made of.
RowStep(do, value, expected) == [do |-> do, value |-> value, expected |-> expected]

NoGeneration == Generation(NoFields, {})

resolve(value) == RowStep("Resolve", NoGeneration, {Answered(value)})

REAUTH == RowStep("Resolve", NoGeneration, {Refuses("ReauthRequired")})

TRANSIENT == RowStep("Resolve", NoGeneration, {Refuses("Transient")})

ResolveConcurrently(value) == RowStep("ResolveConcurrently", NoGeneration, {Answered(value)})

ResolveAgainst(winner, value) == RowStep("ResolveAgainstCompetingWrite", winner, {Answered(value)})

write(generation) == RowStep("WriteGeneration", generation, {})

Probe == RowStep("Probe", NoGeneration, {})

calls(n) == RowStep("ExpectEndpointCalls", NoGeneration, {n})

storedAfter(known, value, remaining, previous) ==
  RowStep("ExpectStored", Generation(known, MintedValue(value, remaining)), previous)

storedIs(known, value, remaining) == storedAfter(known, value, remaining, {})

attributes(account, selected, label) ==
  RowStep("ExpectAttributes", NoGeneration,
       {[account_id |-> account, credential_kind |-> selected, label |-> label]})

ok(access, refresh, expires_in) == Reply(200, Body(access, refresh, expires_in), "none")

reply(status) == Reply(status, NoBody, "none")

holding(answered, hold) == [answered EXCEPT !.hold = hold]

ROTATED_1_HOUR == ok("at1", "rt2", HOUR)

ROTATED_2_HOUR == ok("at2", "rt3", HOUR)

RowFixture(case, recipe, seed, replies, steps, exchanges) ==
  [case |-> case, recipe |-> recipe, seed |-> seed, replies |-> replies,
   steps |-> steps, exchanges |-> exchanges]

Rotates(case, replies, steps, exchanges) ==
  RowFixture(case, "Rotating", ROTATING_SEED, replies, steps, exchanges)

RefusalCases ==
  <<Rotates("ExchangeFailureWritesNothing",
            <<reply(503), reply(Unreachable)>>,
            <<TRANSIENT, calls(1), storedIs(Refresh("seed"), "at_seed", EXPIRED),
              write(ROTATING_SEED), TRANSIENT, calls(2),
              storedIs(Refresh("seed"), "at_seed", EXPIRED)>>,
            <<"seed", "seed">>),
    Rotates("ReauthRequiredIsNotRetried",
            <<reply(401), reply(400), ROTATED_1_HOUR>>,
            <<REAUTH, REAUTH, calls(1), storedIs(Refresh("seed"), "at_seed", EXPIRED),
              write(Generation(Refresh("op1"), {})), REAUTH, REAUTH, calls(2),
              write(Generation(Refresh("op2"), {})), resolve("at1"), calls(3),
              storedIs(Refresh("rt2"), "at1", HOUR)>>,
            <<"seed", "op1", "op2">>),
    Rotates("ConcurrentRefreshIsSingleFlight",
            <<holding(ROTATED_1_HOUR, "delay"), ROTATED_2_HOUR>>,
            <<ResolveConcurrently("at1"), calls(1), storedIs(Refresh("rt2"), "at1", HOUR)>>,
            <<"seed">>)>>

ClampCases ==
  <<Rotates("ExpiryIsClampedToHostRange",
            <<ok("at1", "rt2", 10), ok("at2", "rt3", 604800)>>,
            <<resolve("at1"), storedIs(Refresh("rt2"), "at1", 60),
              write(Generation(Refresh("rt2"), MintedValue("at1", EXPIRED))),
              resolve("at2"), storedIs(Refresh("rt3"), "at2", 86400), calls(2)>>,
            <<"seed", "rt2">>),
    RowFixture("ExpiryIsClampedToRecipeRange", "NonRotating", Generation(CLIENT_FIELDS, {}),
            <<ok("at1", "absent", 10), ok("at2", "absent", 604800)>>,
            <<resolve("at1"), storedIs(CLIENT_FIELDS, "at1", 120),
              write(Generation(CLIENT_FIELDS, MintedValue("at1", EXPIRED))),
              resolve("at2"), storedIs(CLIENT_FIELDS, "at2", 3600), calls(2)>>,
            <<"secret", "secret">>)>>

RotationCases ==
  <<Rotates("RotationWritesBackAndKeepsPreviousGeneration", <<ROTATED_1_HOUR>>,
            <<resolve("at1"), calls(1),
              storedAfter(Refresh("rt2"), "at1", HOUR, {Refresh("seed")})>>,
            <<"seed">>),
    Rotates("EmptyRotationDoesNotWipe",
            <<ok("at1", "absent", HOUR), ok("at2", "", HOUR), ok("at3", "null", HOUR)>>,
            <<resolve("at1"), storedIs(Refresh("seed"), "at1", HOUR),
              write(Generation(Refresh("seed"), MintedValue("at1", EXPIRED))),
              resolve("at2"), storedIs(Refresh("seed"), "at2", HOUR),
              write(Generation(Refresh("seed"), MintedValue("at2", EXPIRED))),
              resolve("at3"), storedIs(Refresh("seed"), "at3", HOUR), calls(3)>>,
            <<"seed", "seed", "seed">>),
    Rotates("CasLoserRereadsTheWinner",
            <<holding(ok("at_loser", "rt_loser", HOUR), "until_competing_write")>>,
            <<ResolveAgainst(Generation(Refresh("winner"), MintedValue("at_winner", HOUR)), "at_winner"),
              calls(1), storedIs(Refresh("winner"), "at_winner", HOUR)>>,
            <<"seed">>),
    Rotates("ProbeDoesNotRotate", <<ROTATED_1_HOUR>>,
            <<Probe, calls(0), storedIs(Refresh("seed"), "at_seed", EXPIRED)>>, <<>>),
    Rotates("TransientFailureIsRetried",
            <<reply(503), reply(Unreachable), ROTATED_1_HOUR>>,
            <<TRANSIENT, calls(1), TRANSIENT, calls(2), resolve("at1"), calls(3),
              storedIs(Refresh("rt2"), "at1", HOUR)>>,
            <<"seed", "seed", "seed">>)>>

Attributed(case, seed, steps) ==
  RowFixture(case, "Attributed", Generation(seed, {}), <<>>, steps, <<>>)

AttributeCases ==
  <<Attributed("ExportedAttributesFollowTheCredential", ACCOUNT_1_IN_WORKSPACE,
       <<attributes("a1", "workspace_credentials", "label"),
         write(Generation(AccountFields("a2"), {})),
         attributes("a2", "client_credentials", "absent"), calls(0)>>),
    Attributed("PersistedAttributeOutlivesItsField", AccountFields("a1"),
       <<attributes("a1", "client_credentials", "absent"),
         write(Generation(CLIENT_FIELDS, {})),
         attributes("a1", "client_credentials", "absent"),
         write(Generation(AccountFields("a2"), {})),
         attributes("a2", "client_credentials", "absent"),
         write(Generation(CLIENT_FIELDS, {})),
         attributes("a2", "client_credentials", "absent"), calls(0)>>)>>

FIXTURES == RefusalCases \o ClampCases \o RotationCases \o AttributeCases
-----------------------------------------------------------------------------
(* Minting a credential from a stored one.  A host keeps one row per         *)
(* credential: its fields, the generation they replaced, the minted value    *)
(* and a version.  A resolve returns the minted value while it is fresh;     *)
(* otherwise it takes the refresh lock, reads again, exchanges the refresh   *)
(* material at the token endpoint, and writes the outcome back only if the   *)
(* version it read is still the stored one.  Operators write new generations *)
(* at any moment.                                                            *)
(*                                                                           *)
(* Remaining seconds stand for expiry instants.  A token endpoint answers    *)
(* with what a recipe extracts from its body.                                *)

CONSTANTS
  Callers   \* the tasks that resolve

VARIABLES
  rowFaults,    \* the host's deliberate mistakes
  recipeKind,      \* the credential's recipe
  row,       \* the stored credential
  lock,      \* who holds the refresh lock: at most one caller
  callers,        \* where each caller stands
  seen,      \* what each caller last read of the row: material and version
  answer,    \* what each caller's resolve returned
  endpoint   \* [replies, requests, held, released]

rowHostVars == <<rowFaults, recipeKind, row, lock, callers, seen, answer, endpoint>>

RecipeFaults ==
  {"WritesOnTransientFailure", "RetriesAfterReauth", "NoSingleFlight",
   "IgnoresHostClamp", "IgnoresRecipeClamp", "KeepsNoPreviousGeneration",
   "WipesOnEmptyRotation", "CasOverwrites", "ProbeRefreshes",
   "LatchesTransientFailure", "PersistsEveryAttribute",
   "ForgetsPersistedAttributes"}

RowHas(fault) == fault \in rowFaults

----------------------------------------------------------------------------
(* The three recipes. *)

HOST_MIN_TTL == 60
HOST_MAX_TTL == 86400
Unbounded == 1000000
REFRESH_MARGIN == 30

\* One exchange of `material`; `writes_back` names the field a rotation
\* replaces; `selects` is the field whose presence picks the other recipe.
rotating_credentials ==
  [material |-> "refresh_token", rotates |-> TRUE, writes_back |-> {"refresh_token"},
   min_ttl |-> 0, max_ttl |-> Unbounded, selects |-> {}, attributes |-> {}]
non_rotating_credentials ==
  [material |-> "client_secret", rotates |-> FALSE, writes_back |-> {},
   min_ttl |-> 120, max_ttl |-> 3600, selects |-> {}, attributes |-> {}]
attributed_credentials ==
  [material |-> "client_secret", rotates |-> FALSE, writes_back |-> {},
   min_ttl |-> 0, max_ttl |-> Unbounded, selects |-> {"workspace"},
   attributes |-> {"account_id", "label"}]

Persisted(attribute) == attribute = "account_id"

credentials ==
  CASE recipeKind = "Rotating" -> rotating_credentials
    [] recipeKind = "NonRotating" -> non_rotating_credentials
    [] recipeKind = "Attributed" -> attributed_credentials

----------------------------------------------------------------------------
(* The stored row. *)

Holds(fields, name) == fields[name] \notin {"absent", ""}

EmptyRow ==
  [fields |-> NoFields, previous |-> NoFields, minted |-> {}, version |-> 0,
   reauth_at |-> 0, persisted |-> [a \in {"account_id", "label"} |-> "absent"]]

replace(kept, generation) ==
  [kept EXCEPT !.fields = generation.fields, !.minted = generation.minted,
                 !.version = @ + 1]

fresh(kept) == {m \in kept.minted : m.remaining > REFRESH_MARGIN}
latched(kept) == kept.reauth_at = kept.version /\ ~RowHas("RetriesAfterReauth")

Max2(a, b) == IF a > b THEN a ELSE b
Min2(a, b) == IF a < b THEN a ELSE b

\* The narrower of the host's range and the recipe's.
clamp(ttl) ==
  LET low == IF RowHas("IgnoresHostClamp") THEN credentials.min_ttl
             ELSE IF RowHas("IgnoresRecipeClamp") THEN HOST_MIN_TTL
             ELSE Max2(HOST_MIN_TTL, credentials.min_ttl)
      high == IF RowHas("IgnoresHostClamp") THEN credentials.max_ttl
              ELSE IF RowHas("IgnoresRecipeClamp") THEN HOST_MAX_TTL
              ELSE Min2(HOST_MAX_TTL, credentials.max_ttl)
  IN Max2(low, Min2(ttl, high))

----------------------------------------------------------------------------
(* The fake token endpoint: replies in call order, each possibly held. *)

UNSCRIPTED == Reply(500, NoBody, "none")

NewEndpoint(replies) ==
  [replies |-> replies, requests |-> <<>>, held |-> 0, released |-> FALSE]

ReplyAt(i) == IF i <= Len(endpoint.replies) THEN endpoint.replies[i] ELSE UNSCRIPTED
Calls == Len(endpoint.requests)

\* Recording a request; `scripted` extends the replies where they are free.
Exchanged(caller, material, version, scripted) ==
  LET replies == endpoint.replies \o scripted
      i == Calls + 1
      said == IF i <= Len(replies) THEN replies[i] ELSE UNSCRIPTED
  IN [endpoint EXCEPT
        !.replies = replies,
        !.requests = Append(@, [caller |-> caller, material |-> material, version |-> version]),
        !.held = IF said.hold = "until_competing_write" THEN @ + 1 ELSE @]

release == [endpoint EXCEPT !.released = TRUE]

RequestOf(c) == CHOOSE i \in 1..Calls :
  endpoint.requests[i].caller = c /\ \A j \in (i + 1)..Calls : endpoint.requests[j].caller # c

----------------------------------------------------------------------------
(* One resolve. *)

Resting == "idle"
Returns(c, value) ==
  answer' = [answer EXCEPT ![c] = {value}] /\ callers' = [callers EXCEPT ![c] = Resting]

\* What a read of the row settles: a fresh value, a latched refusal, or the
\* step that follows.
Decide(c, kept, otherwise) ==
  IF fresh(kept) # {}
  THEN Returns(c, Answered((CHOOSE m \in fresh(kept) : TRUE).value)) /\ UNCHANGED <<lock, endpoint>>
  ELSE IF latched(kept)
  THEN Returns(c, Refuses("ReauthRequired")) /\ UNCHANGED <<lock, endpoint>>
  ELSE otherwise

Snapshot == [material |-> row.fields[credentials.material], version |-> row.version]
NothingSeen == [material |-> "absent", version |-> 0]

Exchange(c, snapshot, scripted) ==
  /\ endpoint' = Exchanged(c, snapshot.material, snapshot.version, scripted)
  /\ callers' = [callers EXCEPT ![c] = "exchanging"]
  /\ answer' = answer

\* The row is read; what is neither fresh nor latched waits for the lock.
ReadRow(c, scripted) ==
  /\ callers[c] = "start"
  /\ seen' = [seen EXCEPT ![c] = Snapshot]
  /\ Decide(c, row,
       IF RowHas("NoSingleFlight") THEN Exchange(c, Snapshot, scripted) /\ lock' = lock
       ELSE callers' = [callers EXCEPT ![c] = "locking"] /\ UNCHANGED <<lock, answer, endpoint>>)
  /\ UNCHANGED <<rowFaults, recipeKind, row>>

\* As ReadAgain, the row read before the lock used under it.
ExchangeUnread(c, scripted) ==
  /\ callers[c] = "locking"
  /\ lock = {}
  /\ Exchange(c, seen[c], scripted) /\ lock' = {c}
  /\ UNCHANGED <<rowFaults, recipeKind, row, seen>>

\* The lock is taken and the row read again: whoever held the lock before may
\* have refreshed it.
ReadAgain(c, scripted) ==
  /\ callers[c] = "locking"
  /\ lock = {}
  /\ seen' = [seen EXCEPT ![c] = Snapshot]
  /\ Decide(c, row, Exchange(c, Snapshot, scripted) /\ lock' = {c})
  /\ UNCHANGED <<rowFaults, recipeKind, row>>

\* on_status is empty in the three recipes: 4xx asks for a new login.
classify(status) == IF status \in 400..499 THEN "ReauthRequired" ELSE "Transient"

Failed(said) ==
  \/ said.status \notin 200..299
  \/ said.body.access = "" \/ said.body.expires_in < 0

FailureOf(said) ==
  IF said.status = Unreachable \/ said.status \in 200..299 THEN "Transient"
  ELSE classify(said.status)

\* A failed exchange changes no field of the row it was made for: a refusal
\* is latched to its version, a transient failure leaves no trace.
AfterFailure(c, what) ==
  IF row.version # seen[c].version THEN row
  ELSE IF what = "ReauthRequired" \/ RowHas("LatchesTransientFailure")
  THEN [row EXCEPT !.reauth_at = row.version]
  ELSE IF RowHas("WritesOnTransientFailure") THEN [row EXCEPT !.minted = {}]
  ELSE row

\* What a reply may say instead of new material.
NoToken == {"absent", "", "null"}

Rotated(refresh) ==
  IF refresh \notin NoToken THEN {refresh}
  ELSE IF RowHas("WipesOnEmptyRotation") THEN {""} ELSE {}

\* The rotated material replaces the field it came from, which is kept as the
\* previous generation; an empty rotation replaces nothing.
WrittenBack(body) ==
  LET rotated == Rotated(body.refresh)
      replaced(n) == n \in credentials.writes_back /\ rotated # {}
  IN [row EXCEPT
        !.fields = [n \in Names |->
                      IF replaced(n) THEN CHOOSE v \in rotated : TRUE ELSE @[n]],
        !.previous = [n \in Names |->
                        IF replaced(n) /\ ~RowHas("KeepsNoPreviousGeneration")
                           /\ row.fields[n] # "absent"
                        THEN row.fields[n] ELSE @[n]],
        !.minted = MintedValue(body.access, clamp(body.expires_in)),
        !.version = @ + 1]

\* As CasLost, the version read before the exchange never compared.
CasNeverLost(c) == FALSE

CasLost(c) == row.version # seen[c].version /\ ~RowHas("CasOverwrites")

Released(said) == said.hold = "until_competing_write" => endpoint.released

\* The reply arrives; the outcome is written if nothing was written since, and
\* otherwise the stored winner is the answer.
Settle(c) ==
  /\ callers[c] = "exchanging"
  /\ LET said == ReplyAt(RequestOf(c))
     IN /\ Released(said)
        /\ IF Failed(said)
           THEN /\ row' = AfterFailure(c, FailureOf(said))
                /\ Returns(c, Refuses(FailureOf(said)))
           ELSE IF CasLost(c)
           THEN /\ row' = row
                /\ Returns(c, IF fresh(row) = {} THEN Refuses("Transient")
                              ELSE Answered((CHOOSE m \in fresh(row) : TRUE).value))
           ELSE /\ row' = WrittenBack(said.body)
                /\ Returns(c, Answered(said.body.access))
  /\ lock' = lock \ {c}
  /\ seen' = [seen EXCEPT ![c] = NothingSeen]
  /\ UNCHANGED <<rowFaults, recipeKind, endpoint>>

ResolvesStart(cs) ==
  /\ \A c \in cs : callers[c] = Resting
  /\ callers' = [c \in Callers |-> IF c \in cs THEN "start" ELSE callers[c]]
  /\ answer' = [c \in Callers |-> IF c \in cs THEN {} ELSE answer[c]]

WriteGeneration(generation) == row' = replace(row, generation)

----------------------------------------------------------------------------
(* Attributes the host exports of the stored fields. *)

\* The recipe the selector picks; a recipe without one is its own.
chosenRecipe(fields) ==
  IF \E n \in credentials.selects : Holds(fields, n) THEN "workspace_credentials"
  ELSE "client_credentials"

Persists(attribute) ==
  IF RowHas("PersistsEveryAttribute") THEN TRUE
  ELSE IF RowHas("ForgetsPersistedAttributes") THEN FALSE
  ELSE Persisted(attribute)

\* The persisted values after an export, and the exported ones.
Remembered ==
  [a \in {"account_id", "label"} |->
     IF a \in credentials.attributes /\ Holds(row.fields, a) /\ Persists(a)
     THEN row.fields[a] ELSE row.persisted[a]]

exported_attributes ==
  [a \in {"account_id", "label", "credential_kind"} |->
     IF a = "credential_kind" THEN chosenRecipe(row.fields)
     ELSE IF Holds(row.fields, a) THEN row.fields[a]
     ELSE IF Persists(a) THEN row.persisted[a] ELSE "absent"]
-----------------------------------------------------------------------------
(* The credential-recipe suite: its 12 fixtures, and the runner that opens a *)
(* session per fixture, walks its steps and compares what the host answers,  *)
(* stores, exports and sends with what the fixture expects.  A live host is  *)
(* the same one with several callers, any replies and operators that write   *)
(* at any moment.                                                            *)
CONSTANTS
  MaxWrites,     \* operator writes of a live host
  MaxRequests,   \* exchanges of a live host
  LiveReplies,   \* what the endpoint of a live host may say
  Rotations,     \* the material it issues, exchange by exchange
  Operators      \* the material operators write, write by write

\* What is issued and what is written is always new; "rt" in a reply stands
\* for what the exchange issues.
ASSUME RowAssumption ==
  /\ MaxWrites \in Nat /\ MaxRequests \in Nat
  /\ LiveReplies \subseteq
       [status : Nat, hold : {"none"},
        body : [access : STRING, refresh : NoToken \cup {"rt"}, expires_in : Int]]
  /\ Rotations \in Seq(STRING \ (NoToken \cup {"seed"})) /\ MaxRequests <= Len(Rotations)
  /\ Operators \in Seq(STRING \ (NoToken \cup {"seed"})) /\ MaxWrites <= Len(Operators)
  /\ \A i, j \in 1..Len(Rotations) : Rotations[i] = Rotations[j] => i = j
  /\ \A i, j \in 1..Len(Operators) : Operators[i] = Operators[j] => i = j
  /\ \A i \in 1..Len(Rotations), j \in 1..Len(Operators) : Rotations[i] # Operators[j]

VARIABLES
  rowCase,            \* the fixture being run; 0 for a live host
  rowStep,           \* the step of the fixture
  walking,      \* whether the step is under way
  written,      \* the version of the last generation an operator wrote
  rowMismatches    \* {<<case, category>>}

rowVars == <<rowHostVars, rowCase, rowStep, walking, written, rowMismatches>>

RowCases == Len(FIXTURES)

----------------------------------------------------------------------------
(* The runner. *)

F == FIXTURES[rowCase]
S == F.steps[rowStep]
RowReported == rowCase = RowCases + 1
Walks == rowCase # 0 /\ ~RowReported /\ rowStep \in 1..Len(F.steps)

First == CHOOSE c \in Callers : TRUE
Second == CHOOSE c \in Callers : c # First
Active == IF S.do = "ResolveConcurrently" THEN {First, Second} ELSE {First}
AllIdle == \A c \in Callers : callers[c] = Resting

Done(categories) ==
  /\ rowMismatches' = rowMismatches \cup {<<F.case, c>> : c \in categories}
  /\ rowStep' = rowStep + 1
  /\ walking' = FALSE
  /\ UNCHANGED <<rowCase, written>>

\* A resolve begins, alone or with a second one.
BeginResolve ==
  /\ Walks /\ ~walking
  /\ \/ S.do \in {"Resolve", "ResolveConcurrently", "ResolveAgainstCompetingWrite"}
     \/ S.do = "Probe" /\ (~credentials.rotates \/ RowHas("ProbeRefreshes"))
  /\ ResolvesStart(Active)
  /\ walking' = TRUE
  /\ UNCHANGED <<rowFaults, recipeKind, row, lock, seen, endpoint, rowCase, rowStep, written, rowMismatches>>

EndResolve ==
  /\ Walks /\ walking /\ AllIdle
  /\ S.do = "ResolveAgainstCompetingWrite" => endpoint.released
  /\ Done(IF S.do = "Probe" \/ \A c \in Active : answer[c] = S.expected THEN {}
          ELSE {"Resolve"})
  /\ UNCHANGED rowHostVars

\* The competing write comes while the exchange is held, and releases it; a
\* resolve that never was held is reported.
CompetingWrite ==
  /\ Walks /\ walking /\ S.do = "ResolveAgainstCompetingWrite" /\ ~endpoint.released
  /\ \A c \in Callers : callers[c] \in {Resting, "exchanging"}
  /\ endpoint' = release
  /\ IF AllIdle THEN Done({"CompetingWriteNotReached"}) /\ row' = row
     ELSE WriteGeneration(S.value) /\ UNCHANGED <<rowCase, rowStep, walking, written, rowMismatches>>
  /\ UNCHANGED <<rowFaults, recipeKind, lock, callers, seen, answer>>

\* As StoredMismatches, the generation that was replaced never compared.
StoredNowMismatches ==
  {c \in {"StoredFields", "StoredMinted", "StoredExpiry"} :
     LET want == CHOOSE m \in S.value.minted : TRUE
     IN \/ c = "StoredFields" /\ row.fields # S.value.fields
        \/ c = "StoredMinted" /\ ~\E m \in row.minted : m.value = want.value
        \/ c = "StoredExpiry" /\ ~\E m \in row.minted : m.remaining = want.remaining}

StoredMismatches ==
  {c \in {"StoredFields", "StoredMinted", "StoredExpiry", "PreviousGeneration"} :
     LET want == CHOOSE m \in S.value.minted : TRUE
     IN \/ c = "StoredFields" /\ row.fields # S.value.fields
        \/ c = "StoredMinted" /\ ~\E m \in row.minted : m.value = want.value
        \/ c = "StoredExpiry" /\ ~\E m \in row.minted : m.remaining = want.remaining
        \/ c = "PreviousGeneration" /\ S.expected # {} /\ row.previous \notin S.expected}

ExpectStep ==
  /\ Walks /\ ~walking
  /\ \/ /\ S.do = "WriteGeneration"
        /\ WriteGeneration(S.value) /\ Done({})
     \/ /\ S.do = "Probe" /\ credentials.rotates /\ ~RowHas("ProbeRefreshes")
        /\ row' = row /\ Done({})
     \/ /\ S.do = "ExpectEndpointCalls"
        /\ row' = row /\ Done(IF Calls \in S.expected THEN {} ELSE {"EndpointCalls"})
     \/ /\ S.do = "ExpectStored"
        /\ row' = row /\ Done(StoredMismatches)
     \/ /\ S.do = "ExpectAttributes"
        /\ row' = [row EXCEPT !.persisted = Remembered]
        /\ Done(IF exported_attributes \in S.expected THEN {} ELSE {"Attributes"})
  /\ UNCHANGED <<rowFaults, recipeKind, lock, callers, seen, answer, endpoint>>

Opened(f) == replace(EmptyRow, f.seed)

\* The exchanges are compared once the session is dropped; the next fixture
\* opens a session of its own.
EndCase ==
  /\ rowCase # 0 /\ ~RowReported /\ rowStep = Len(F.steps) + 1
  /\ LET sent == [i \in 1..Calls |-> endpoint.requests[i].material]
         next == FIXTURES[rowCase + 1]
     IN /\ rowMismatches' = rowMismatches \cup
             (IF sent = F.exchanges THEN {} ELSE {<<F.case, "Exchange">>})
        /\ rowCase' = rowCase + 1 /\ rowStep' = 1
        /\ IF rowCase < RowCases
           THEN /\ recipeKind' = next.recipe
                /\ row' = Opened(next)
                /\ endpoint' = NewEndpoint(next.replies)
           ELSE UNCHANGED <<recipeKind, row, endpoint>>
  /\ UNCHANGED <<rowFaults, lock, callers, seen, answer, walking, written>>

\* A delayed reply comes once every caller that could move has moved.
DelayOver(c) ==
  ReplyAt(RequestOf(c)).hold = "delay" => \A d \in Callers : callers[d] # "start"

----------------------------------------------------------------------------
(* A live host. *)

\* A rotation always issues new material.
Issued(answered) ==
  IF answered.body.refresh = "rt"
  THEN [answered EXCEPT !.body.refresh = Rotations[Calls + 1]]
  ELSE answered

CanAsk == rowCase = 0 => Calls < MaxRequests
Scripts == IF rowCase = 0 THEN {<<Issued(r)>> : r \in LiveReplies} ELSE {<<>>}

LiveResolve(c) ==
  /\ rowCase = 0 /\ callers[c] = Resting
  /\ ResolvesStart({c})
  /\ UNCHANGED <<rowFaults, recipeKind, row, lock, seen, endpoint, rowCase, rowStep, walking, written, rowMismatches>>

OperatorWrites ==
  /\ rowCase = 0 /\ walking = FALSE /\ rowStep <= MaxWrites
  /\ \E minted \in {{}, MintedValue("at_op", HOUR)} :
       WriteGeneration(Generation(Refresh(Operators[rowStep]), minted))
  /\ rowStep' = rowStep + 1
  /\ written' = row.version + 1
  /\ UNCHANGED <<rowFaults, recipeKind, lock, callers, seen, answer, endpoint, rowCase, walking, rowMismatches>>

Expires ==
  /\ rowCase = 0 /\ fresh(row) # {}
  /\ row' = [row EXCEPT !.minted = {[m EXCEPT !.remaining = EXPIRED] : m \in @}]
  /\ UNCHANGED <<rowFaults, recipeKind, lock, callers, seen, answer, endpoint, rowCase, rowStep, walking, written, rowMismatches>>

----------------------------------------------------------------------------

HostInit(recipe, generation, replies) ==
  /\ recipeKind = recipe
  /\ row = replace(EmptyRow, generation)
  /\ lock = {}
  /\ callers = [c \in Callers |-> Resting]
  /\ seen = [c \in Callers |-> NothingSeen]
  /\ answer = [c \in Callers |-> {}]
  /\ endpoint = NewEndpoint(replies)
  /\ rowStep = 1 /\ walking = FALSE /\ written = 1 /\ rowMismatches = {}

RowSuiteStarts(mistakes) ==
  /\ rowFaults = mistakes /\ rowCase = 1
  /\ HostInit(FIXTURES[1].recipe, FIXTURES[1].seed, FIXTURES[1].replies)

RowLiveStarts ==
  /\ rowFaults = {} /\ rowCase = 0
  /\ HostInit("Rotating", ROTATING_SEED, <<>>)

CallerNext(c) ==
  \/ CanAsk /\ \E scripted \in Scripts : ReadRow(c, scripted)
  \/ CanAsk /\ \E scripted \in Scripts : ReadAgain(c, scripted)
  \/ Settle(c) /\ DelayOver(c)

RecipeNext ==
  \/ \E c \in Callers : CallerNext(c) /\ UNCHANGED <<rowCase, rowStep, walking, written, rowMismatches>>
  \/ BeginResolve \/ EndResolve \/ CompetingWrite \/ ExpectStep \/ EndCase
  \/ \E c \in Callers : LiveResolve(c)
  \/ OperatorWrites \/ Expires

----------------------------------------------------------------------------

\* The report is clean for the reference host and for no host with one
\* mistake or several, in every order in which two concurrent resolves and a
\* competing write interleave.
RecipesJudged == RowReported => (rowMismatches = {} <=> rowFaults = {})

Succeeds(i) == ~Failed(ReplyAt(i))

\* Material is presented twice for one stored version only after a transient
\* failure: concurrent resolves exchange once, a refused credential is not
\* presented again until it changes, and no rotated token is spent twice.
SpentOnce ==
  rowFaults = {} /\ rowCase = 0 =>
    \A i, j \in 1..Calls :
      i < j =>
        /\ endpoint.requests[i].version = endpoint.requests[j].version
             => Failed(ReplyAt(i)) /\ FailureOf(ReplyAt(i)) = "Transient"
        /\ endpoint.requests[i].material = endpoint.requests[j].material
             => ~Succeeds(i) \/ Rotated(ReplyAt(i).body.refresh) = {}

\* The material of the last generation that was written from outside.
LastWritten == IF rowStep = 1 THEN "seed" ELSE Operators[rowStep - 1]

\* What an operator wrote stands until it is itself exchanged: the stored
\* material is what was written last, or the outcome of an exchange made with
\* a version no older than that write; it is never empty.
OperatorStands ==
  rowFaults = {} /\ rowCase = 0 =>
    /\ Holds(row.fields, "refresh_token")
    /\ \/ row.fields.refresh_token = LastWritten
       \/ \E i \in 1..Calls :
            /\ ReplyAt(i).body.refresh = row.fields.refresh_token
            /\ endpoint.requests[i].version >= written

\* Concurrent calls spend a refresh token once, and what an operator wrote is
\* never lost to a refresh that started before (the reference host).
RowSound == SpentOnce /\ OperatorStands

RowSpec == RowLiveStarts /\ [][RecipeNext]_rowVars
=============================================================================
