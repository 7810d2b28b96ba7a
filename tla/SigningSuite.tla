---------------------------- MODULE SigningSuite ----------------------------
(***************************************************************************)
(* The request signing suite (south-provider-conformance/src/              *)
(* request_signing.rs, runner.rs, sigv4.rs) run against a SigV4 finalizer: *)
(* the reference finalizer of the suite's own tests, or the same with      *)
(* mistakes.  A hash or a signature is the record of what it is computed   *)
(* over.  The timestamp arithmetic is run day by day beside a calendar.    *)
(***************************************************************************)
EXTENDS Integers, Sequences, FiniteSets, SequencesExt

CONSTANT CalendarDays   \* how many days each walk of the calendar takes

SigningFaults ==
    {"HashesReserializedBody", "OmitsSecurityToken", "SecurityTokenNotSigned",
     "EmitsEmptySecurityToken", "HardCodesBedrockService", "HardCodesRegion",
     "ReadsCredentialFieldsByInputName", "EncodesPathOnce", "SignsWithEmptySecret",
     "IgnoresInjectedClock", "HostNotSigned"}
-----------------------------------------------------------------------------
(* The fixtures.  `inputs` is the declaration's mapping of signing inputs  *)
(* to credential fields, `fields` the fields the credential has.           *)
STANDARD_INPUTS == [access_key_id |-> "access_key_id", secret_access_key |-> "secret_access_key"]
TOKEN_INPUTS ==
    [access_key_id |-> "access_key_id", secret_access_key |-> "secret_access_key",
     session_token |-> "session_token"]
MAPPED_INPUTS == [access_key_id |-> "aws_key", secret_access_key |-> "aws_secret"]
STANDARD_FIELDS == [access_key_id |-> "AKID", secret_access_key |-> "SECRET"]

THREE == {"authorization", "x-amz-date", "x-amz-content-sha256"}
FOUR == THREE \union {"x-amz-security-token"}

BEDROCK_CONVERSE ==
    [service |-> "bedrock", region_param |-> "region", config |-> [region |-> "us-east-1"],
     inputs |-> STANDARD_INPUTS, fields |-> STANDARD_FIELDS, now |-> 2, host |-> "bedrock-runtime",
     path |-> "plain", body |-> "compact", expected |-> THREE]

SigningFixtures ==
    <<[BEDROCK_CONVERSE EXCEPT !.now = 1, !.body = "pretty"],
      [BEDROCK_CONVERSE EXCEPT !.inputs = TOKEN_INPUTS, !.expected = FOUR,
                               !.fields = [session_token |-> "TOKEN"] @@ @],
      [BEDROCK_CONVERSE EXCEPT !.inputs = TOKEN_INPUTS],
      [BEDROCK_CONVERSE EXCEPT !.service = "sagemaker", !.region_param = "aws_region",
                               !.config = [aws_region |-> "eu-central-1"], !.host = "runtime.sagemaker"],
      [BEDROCK_CONVERSE EXCEPT !.inputs = MAPPED_INPUTS,
                               !.fields = [aws_key |-> "AKID2", aws_secret |-> "SECRET2"]],
      [BEDROCK_CONVERSE EXCEPT !.path = "escaped"],
      [BEDROCK_CONVERSE EXCEPT !.fields = [access_key_id |-> "AKID"], !.expected = {}]>>

SIGNING_CASES ==
    <<"PostSignsTheExactBodyBytes", "SessionTokenIsSentAndSigned", "AbsentSessionTokenEmitsThreeHeaders",
      "ServiceAndRegionComeFromTheDeclaration", "CredentialFieldsComeFromTheMapping",
      "PathSegmentsAreEncodedTwice", "MissingSecretAccessKeyIsRefused">>
-----------------------------------------------------------------------------
(* sigv4.rs *)
canonical_uri(path) == IF path = "escaped" THEN "escaped twice" ELSE path
sha256_hex(bytes) == <<"sha256", bytes>>

canonical_request(uri, headers, hash) == [uri |-> uri, headers |-> headers, hash |-> hash]

signature(secret, date, region, service, canonical) ==
    [secret |-> secret, date |-> date, region |-> region, service |-> service, canonical |-> canonical]

Credential(key, date, region, service) == <<key, date, region, service>>

(* The value of a declared signing input: {} or {value} *)
InputValue(case, input) ==
    IF input \in DOMAIN case.inputs /\ case.inputs[input] \in DOMAIN case.fields
    THEN {case.fields[case.inputs[input]]} ELSE {}

TheOr(set, default) == IF set = {} THEN default ELSE CHOOSE v \in set : TRUE
-----------------------------------------------------------------------------
(* The finalizer (tests/request_signing_suite_v1.rs): {} refuses, else the *)
(* one set of headers it emits.                                            *)
Field(case, faults, input) ==
    IF "ReadsCredentialFieldsByInputName" \notin faults THEN InputValue(case, input)
    ELSE IF input \in DOMAIN case.fields THEN {case.fields[input]} ELSE {}

SignedBy(case, faults) ==
    LET key == Field(case, faults, "access_key_id")
        secret == Field(case, faults, "secret_access_key")
        token == Field(case, faults, "session_token")
        region == IF "HardCodesRegion" \in faults THEN "us-east-1" ELSE case.config[case.region_param]
        service == IF "HardCodesBedrockService" \in faults THEN "bedrock" ELSE case.service
        date == IF "IgnoresInjectedClock" \in faults THEN case.now + 1 ELSE case.now
        hash == sha256_hex(IF "HashesReserializedBody" \in faults THEN "compact" ELSE case.body)
        uri == IF "EncodesPathOnce" \in faults THEN case.path ELSE canonical_uri(case.path)
        signed == [name \in {"content-type", "x-amz-content-sha256", "x-amz-date"}
                              \union {n \in {"host"} : "HostNotSigned" \notin faults}
                              \union {n \in {"x-amz-security-token"} :
                                         token # {} /\ "SecurityTokenNotSigned" \notin faults} |->
                     CASE name = "content-type" -> <<"json">>
                       [] name = "x-amz-content-sha256" -> hash
                       [] name = "x-amz-date" -> <<date>>
                       [] name = "host" -> <<case.host>>
                       [] name = "x-amz-security-token" -> <<TheOr(token, "")>>]
        authorization ==
            [credential |-> Credential(TheOr(key, ""), date, region, service), names |-> DOMAIN signed,
             signature |-> signature(TheOr(secret, ""), date, region, service,
                                     canonical_request(uri, signed, hash))]
        sendsToken == \/ token # {} /\ "OmitsSecurityToken" \notin faults
                      \/ /\ token = {} /\ "EmitsEmptySecurityToken" \in faults
                         /\ "session_token" \in DOMAIN case.inputs
    IN  IF key = {} \/ (secret = {} /\ "SignsWithEmptySecret" \notin faults) THEN {}
        ELSE {[authorization |-> {authorization}, date |-> {date}, sha256 |-> {hash},
               token |-> IF sendsToken THEN {TheOr(token, "")} ELSE {}]}
-----------------------------------------------------------------------------
(* runner.rs *)
EmittedNames(emitted) ==
    THREE \union {n \in {"x-amz-security-token"} : emitted.token # {}}

\* Mutant: the session token need not be among the signed headers.
RequiredNamesBare(emitted) == {"host", "x-amz-date", "x-amz-content-sha256"}

(* canonical_headers: the names a signature must cover *)
RequiredNames(emitted) ==
    {"host", "x-amz-date", "x-amz-content-sha256"}
       \union {n \in {"x-amz-security-token"} : emitted.token # {}}

(* A name the request does not carry has no value. *)
Carried(emitted) ==
    {"host", "x-amz-date", "x-amz-content-sha256", "content-type"}
       \union {n \in {"x-amz-security-token"} : emitted.token # {}}

canonical_headers(case, emitted, names) ==
    [name \in names |->
        CASE name = "content-type" -> <<"json">>
          [] name = "x-amz-content-sha256" -> CHOOSE hash \in emitted.sha256 : TRUE
          [] name = "x-amz-date" -> <<CHOOSE date \in emitted.date : TRUE>>
          [] name = "host" -> <<case.host>>
          [] name = "x-amz-security-token" -> <<TheOr(emitted.token, "")>>]

(* verify: the categories that differ, in order *)
Verified(case, emitted) ==
    LET hash == sha256_hex(case.body)
        region == case.config[case.region_param]
        auth == CHOOSE a \in emitted.authorization : TRUE
        covered == RequiredNames(emitted) \subseteq auth.names /\ auth.names \subseteq Carried(emitted)
        secret == TheOr(InputValue(case, "secret_access_key"), "")
        scope == Credential(TheOr(InputValue(case, "access_key_id"), ""), case.now, region, case.service)
        rebuilt == signature(secret, case.now, region, case.service,
                             canonical_request(canonical_uri(case.path),
                                               canonical_headers(case, emitted, auth.names), hash))
        checks == <<<<"EmittedHeaders", EmittedNames(emitted) # case.expected>>,
                    <<"Date", emitted.date # {case.now}>>,
                    <<"ContentSha256", emitted.sha256 # {hash}>>,
                    <<"SecurityToken", /\ "x-amz-security-token" \in case.expected
                                       /\ emitted.token # InputValue(case, "session_token")>>,
                    <<"CredentialScope", auth.credential # scope>>,
                    <<"SignedHeaders", ~covered>>,
                    <<"Signature", covered /\ rebuilt # auth.signature>>>>
        differs == SelectSeq(checks, LAMBDA check : check[2])
    IN  [n \in DOMAIN differs |-> differs[n][1]]

(* run_case *)
Judged(case, signed) ==
    IF case.expected = {} THEN (IF signed = {} THEN <<>> ELSE <<"NotRefused">>)
    ELSE IF signed = {} THEN <<"Refused">>
    ELSE Verified(case, CHOOSE emitted \in signed : TRUE)
-----------------------------------------------------------------------------
(* amz_date: civil_from_days.  None when the year is out of range. *)
CivilFromDays(days) ==
    LET shifted == days + 719468
        era == shifted \div 146097
        dayOfEra == shifted % 146097
        yearOfEra == (dayOfEra - dayOfEra \div 1460 + dayOfEra \div 36524 - dayOfEra \div 146096) \div 365
        dayOfYear == dayOfEra - (365 * yearOfEra + yearOfEra \div 4 - yearOfEra \div 100)
        monthIndex == (5 * dayOfYear + 2) \div 153
        month == IF monthIndex < 10 THEN monthIndex + 3 ELSE monthIndex - 9
    IN  <<yearOfEra + era * 400 + (IF month <= 2 THEN 1 ELSE 0), month,
          dayOfYear - (153 * monthIndex + 2) \div 5 + 1>>

\* Mutant: the century is not taken out of the year of the era.
AmzDateNoCentury(days) ==
    LET shifted == days + 719468
        dayOfEra == shifted % 146097
        yearOfEra == (dayOfEra - dayOfEra \div 1460) \div 365
        dayOfYear == dayOfEra - (365 * yearOfEra + yearOfEra \div 4 - yearOfEra \div 100)
        monthIndex == (5 * dayOfYear + 2) \div 153
        month == IF monthIndex < 10 THEN monthIndex + 3 ELSE monthIndex - 9
    IN  {<<yearOfEra + (shifted \div 146097) * 400 + (IF month <= 2 THEN 1 ELSE 0), month,
           dayOfYear - (153 * monthIndex + 2) \div 5 + 1>>}

AmzDate(days) == {date \in {CivilFromDays(days)} : date[1] \in 1970..9999}

(* The calendar, one day at a time. *)
Leap(year) == (year % 4 = 0 /\ year % 100 # 0) \/ year % 400 = 0
MonthDays(year, month) ==
    IF month = 2 THEN (IF Leap(year) THEN 29 ELSE 28) ELSE IF month \in {4, 6, 9, 11} THEN 30 ELSE 31

DayAfter(date) ==
    IF date[3] < MonthDays(date[1], date[2]) THEN [date EXCEPT ![3] = @ + 1]
    ELSE IF date[2] < 12 THEN <<date[1], date[2] + 1, 1>> ELSE <<date[1] + 1, 1, 1>>
-----------------------------------------------------------------------------
VARIABLES faults,      \* the mistakes of the finalizer under test
          k,           \* the case the runner is at, or 0 in a walk of the calendar
          mismatches,
          days, date, walked   \* a day since the epoch, and the calendar's name for it

signingVars == <<faults, k, mismatches, days, date, walked>>

InSuite == k \in DOMAIN SigningFixtures

(* The finalizer is judged case by case, or the calendar is walked from    *)
(* just before the epoch, through the turn of a century, or up to the last *)
(* year.                                                                   *)
SigningStarts(mistakes) ==
    /\ mismatches = <<>> /\ walked = 0
    /\ \/ faults \in mistakes /\ k = 1 /\ days = 0 /\ date = <<1970, 1, 1>>
       \/ /\ faults = {} /\ k = 0
          /\ \/ days = -3 /\ date = <<1969, 12, 29>>
             \/ days = 10926 /\ date = <<1999, 12, 1>>
             \/ days = 47451 /\ date = <<2099, 12, 1>>
             \/ days = 157023 /\ date = <<2399, 12, 1>>
             \/ days = 2932890 /\ date = <<9999, 12, 25>>

RunCase ==
    LET case == SigningFixtures[k]
        differs == Judged(case, SignedBy(case, faults))
    IN  /\ InSuite
        /\ mismatches' = mismatches \o
              [n \in DOMAIN differs |-> [id |-> SIGNING_CASES[k], category |-> differs[n]]]
        /\ k' = k + 1
        /\ UNCHANGED <<faults, days, date, walked>>

Midnight ==
    /\ k = 0 /\ walked < CalendarDays
    /\ days' = days + 1
    /\ date' = DayAfter(date)
    /\ walked' = walked + 1
    /\ UNCHANGED <<faults, k, mismatches>>

SigningNext == RunCase \/ Midnight
-----------------------------------------------------------------------------
FailsCases(fault) ==
    CASE fault = "HashesReserializedBody" -> {1}
      [] fault \in {"OmitsSecurityToken", "SecurityTokenNotSigned"} -> {2}
      [] fault = "EmitsEmptySecurityToken" -> {3}
      [] fault \in {"HardCodesBedrockService", "HardCodesRegion"} -> {4}
      [] fault = "ReadsCredentialFieldsByInputName" -> {5}
      [] fault = "EncodesPathOnce" -> {6}
      [] fault = "SignsWithEmptySecret" -> {7}
      [] fault \in {"IgnoresInjectedClock", "HostNotSigned"} -> 1..6

(* The signing suite passes the finalizer that signs as SigV4 does and     *)
(* fails every other one, a single mistake on exactly the cases that guard *)
(* it, and two mistakes together never hide each other                     *)
(* (runner.rs:260-417, tests/request_signing_suite_v1.rs:365-392).         *)
SigningJudged ==
    k > Len(SigningFixtures) =>
        LET failed == {n \in DOMAIN SigningFixtures :
                          \E m \in DOMAIN mismatches : mismatches[m].id = SIGNING_CASES[n]}
        IN  /\ (failed = {}) = (faults = {})
            /\ \A fault \in faults : faults = {fault} => failed = FailsCases(fault)

(* The timestamp arithmetic names every day as the calendar does, over     *)
(* leap days, centuries and eras, and names none before 1970 or after 9999 *)
(* (sigv4.rs:46-71: "None before the epoch or after year 9999").           *)
DateIsTheCalendars ==
    k = 0 => AmzDate(days) = (IF date[1] \in 1970..9999 THEN {date} ELSE {})
=============================================================================
