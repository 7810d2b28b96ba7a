------------------------ MODULE TaskLifecycleProofs -------------------------
(***************************************************************************)
(* What the task adapters guarantee for every request and every answer.    *)
(* The inductive invariant says that a prepared task is what its dialect   *)
(* makes of the request at hand, that a rejection and an accepted name     *)
(* come from the answer that was read, that only a terminal observation is *)
(* settled, and that it rests on the answer kept beside it.  What a        *)
(* dialect reads in one answer is a lemma per dialect; the lists of URLs   *)
(* that are filtered on the way are reasoned about by induction on their   *)
(* length, in the form of a set of numbers.                                *)
(***************************************************************************)
EXTENDS TaskLifecycle, FiniteSetTheorems, WellFoundedInduction, TLAPS

-----------------------------------------------------------------------------
(* The least-number principle, from the well-founded order of Nat, and     *)
(* induction in the form of a set: the provers instantiate no operator.    *)
LEMMA LeastNumber == ASSUME NEW T, T \subseteq Nat, T # {} PROVE \E x \in T : \A y \in T : x <= y
<1> DEFINE R == OpToRel(<, Nat)
<1>1. IsWellFoundedOn(R, Nat)
  BY NatLessThanWellFounded, Zenon
<1>2. \A x, y \in Nat : y < x => <<y, x>> \in R
  BY DEF OpToRel
<1> HIDE DEF R
<1>3. PICK x \in T : \A y \in T : ~(<<y, x>> \in R)
  BY <1>1, WFMin, Zenon
<1>4. \A y \in T : ~(y < x)
  BY <1>2, <1>3, Zenon
<1> QED  BY <1>4

LEMMA InductiveSet == ASSUME NEW T, 0 \in T, \A n \in Nat : n \in T => n + 1 \in T PROVE Nat \subseteq T
<1> SUFFICES ASSUME Nat \ T # {} PROVE FALSE
  OBVIOUS
<1>1. PICK x \in Nat \ T : \A y \in Nat \ T : x <= y
  BY LeastNumber, Zenon
<1>2. x # 0 /\ x - 1 \in Nat
  OBVIOUS
<1>3. x - 1 \in T
  BY <1>1, <1>2
<1> QED  BY <1>2, <1>3

(* The recursion of Kept is well defined. *)
Keeps(f, urls, wanted, n) ==
    f = [i \in 0..n |->
           IF i = 0 THEN << >>
           ELSE IF urls[i] \in wanted THEN Append(f[i - 1], urls[i]) ELSE f[i - 1]]

LEMMA KeepsExists == ASSUME NEW urls, NEW wanted PROVE \A n \in Nat : \E f : Keeps(f, urls, wanted, n)
<1> DEFINE T == {n \in Nat : \E f : Keeps(f, urls, wanted, n)}
<1>1. 0 \in T
  <2>1. Keeps([i \in 0..0 |-> << >>], urls, wanted, 0)
    BY DEF Keeps
  <2> QED  BY <2>1
<1>2. ASSUME NEW n \in Nat, n \in T PROVE n + 1 \in T
  <2>1. PICK f : Keeps(f, urls, wanted, n)
    BY <1>2
  <2> DEFINE last == IF urls[n + 1] \in wanted THEN Append(f[n], urls[n + 1]) ELSE f[n]
             g == [i \in 0..(n + 1) |-> IF i = n + 1 THEN last ELSE f[i]]
  <2>2. \A i \in 0..n : g[i] = f[i]
    OBVIOUS
  <2>3. g[n + 1] = last
    OBVIOUS
  <2>4. \A i \in 0..n :
          f[i] = IF i = 0 THEN << >>
                 ELSE IF urls[i] \in wanted THEN Append(f[i - 1], urls[i]) ELSE f[i - 1]
    BY <2>1, Zenon DEF Keeps
  <2>5. \A i \in 0..(n + 1) :
          g[i] = IF i = 0 THEN << >>
                 ELSE IF urls[i] \in wanted THEN Append(g[i - 1], urls[i]) ELSE g[i - 1]
    <3> SUFFICES ASSUME NEW i \in 0..(n + 1)
                 PROVE  g[i] = IF i = 0 THEN << >>
                               ELSE IF urls[i] \in wanted THEN Append(g[i - 1], urls[i]) ELSE g[i - 1]
      OBVIOUS
    <3> HIDE DEF g
    <3>1. CASE i = n + 1
      <4>1. i # 0 /\ n \in 0..n /\ i - 1 = n
        BY <3>1
      <4>2. g[i - 1] = f[n]
        BY <2>2, <4>1
      <4> QED  BY <2>3, <3>1, <4>1, <4>2
    <3>2. CASE i \in 0..n
      <4>1. i # 0 => i - 1 \in 0..n
        BY <3>2
      <4> QED  BY <2>2, <2>4, <3>2, <4>1
    <3> QED  BY <3>1, <3>2
  <2>6. Keeps(g, urls, wanted, n + 1)
    <3>1. g = [i \in 0..(n + 1) |-> g[i]]
      OBVIOUS
    <3> HIDE DEF g
    <3> QED  BY <2>5, <3>1 DEF Keeps
  <2> QED  BY <2>6
<1> HIDE DEF T
<1>3. Nat \subseteq T
  BY <1>1, <1>2, InductiveSet
<1> QED  BY <1>3 DEF T

(* What Kept keeps. *)
Selected(urls, wanted, n) == {i \in 1..n : urls[i] \in wanted}

KeptUpTo(kept, urls, wanted, n) ==
    /\ kept \in Seq(UrlKinds)
    /\ IsFiniteSet(Selected(urls, wanted, n)) /\ Len(kept) = Cardinality(Selected(urls, wanted, n))
    /\ \A i \in Selected(urls, wanted, n) : \E k \in 1..Len(kept) : kept[k] = urls[i]
    /\ \A k \in 1..Len(kept) : kept[k] \in wanted

LEMMA KeptFacts ==
    ASSUME NEW urls \in Seq(UrlKinds), NEW wanted
    PROVE  KeptUpTo(Kept(urls, wanted), urls, wanted, Len(urls))
<1> DEFINE N == Len(urls)
           f == CHOOSE g : Keeps(g, urls, wanted, N)
           T == {n \in Nat : n <= N => KeptUpTo(f[n], urls, wanted, n)}
<1>1. N \in Nat
  OBVIOUS
<1>2. Kept(urls, wanted) = f[N]
  BY DEF Kept, Keeps
<1>3. Keeps(f, urls, wanted, N)
  BY <1>1, KeepsExists
<1> HIDE DEF f, N
<1>4. \A i \in 0..N :
        f[i] = IF i = 0 THEN << >>
               ELSE IF urls[i] \in wanted THEN Append(f[i - 1], urls[i]) ELSE f[i - 1]
  BY <1>3, Zenon DEF Keeps
<1>5. 0 \in T
  <2>1. f[0] = << >> /\ Selected(urls, wanted, 0) = {}
    BY <1>1, <1>4 DEF Selected
  <2>2. KeptUpTo(<< >>, urls, wanted, 0)
    BY <2>1, FS_EmptySet DEF KeptUpTo
  <2> QED  BY <2>1, <2>2
<1>6. ASSUME NEW n \in Nat, n \in T PROVE n + 1 \in T
  <2> SUFFICES ASSUME n + 1 <= N PROVE KeptUpTo(f[n + 1], urls, wanted, n + 1)
    OBVIOUS
  <2> DEFINE S == Selected(urls, wanted, n)
             S1 == Selected(urls, wanted, n + 1)
  <2>1. KeptUpTo(f[n], urls, wanted, n)
    BY <1>1, <1>6
  <2>2. f[n + 1] = IF urls[n + 1] \in wanted THEN Append(f[n], urls[n + 1]) ELSE f[n]
    BY <1>1, <1>4
  <2>3. urls[n + 1] \in UrlKinds
    BY <1>1 DEF N
  <2>4. n + 1 \notin S
    BY DEF Selected
  <2>5. CASE urls[n + 1] \in wanted
    <3>1. S1 = S \cup {n + 1}
      BY <2>5 DEF Selected
    <3>2. IsFiniteSet(S1) /\ Cardinality(S1) = Cardinality(S) + 1
      BY <2>1, <2>4, <3>1, FS_AddElement DEF KeptUpTo
    <3>3. PICK kept : kept = f[n] /\ kept \in Seq(UrlKinds)
      BY <2>1 DEF KeptUpTo
    <3>4. PICK more : more = Append(kept, urls[n + 1])
      BY Zenon
    <3>5. /\ more \in Seq(UrlKinds) /\ Len(more) = Len(kept) + 1 /\ Len(kept) \in Nat
          /\ more[Len(kept) + 1] = urls[n + 1] /\ \A k \in 1..Len(kept) : more[k] = kept[k]
      BY <2>3, <3>3, <3>4
    <3>6. \A i \in S1 : \E k \in 1..Len(more) : more[k] = urls[i]
      <4> SUFFICES ASSUME NEW i \in S1 PROVE \E k \in 1..Len(more) : more[k] = urls[i]
        OBVIOUS
      <4>1. CASE i = n + 1
        <5>1. Len(kept) + 1 \in 1..Len(more)
          BY <3>5
        <5> QED  BY <3>5, <4>1, <5>1
      <4>2. CASE i \in S
        <5>1. PICK k \in 1..Len(kept) : kept[k] = urls[i]
          BY <2>1, <3>3, <4>2 DEF KeptUpTo
        <5>2. k \in 1..Len(more)
          BY <3>5
        <5> QED  BY <3>5, <5>1, <5>2
      <4> QED  BY <3>1, <4>1, <4>2
    <3>7. \A k \in 1..Len(more) : more[k] \in wanted
      <4> SUFFICES ASSUME NEW k \in 1..Len(more) PROVE more[k] \in wanted
        OBVIOUS
      <4>1. k \in 1..Len(kept) \/ k = Len(kept) + 1
        BY <3>5
      <4> QED  BY <2>1, <2>5, <3>3, <3>5, <4>1, Zenon DEF KeptUpTo
    <3>8. f[n + 1] = more
      BY <2>2, <2>5, <3>3, <3>4
    <3>9. Len(more) = Cardinality(S1)
      BY <2>1, <3>2, <3>3, <3>5 DEF KeptUpTo
    <3> QED  BY <3>2, <3>5, <3>6, <3>7, <3>8, <3>9 DEF KeptUpTo
  <2>6. CASE urls[n + 1] \notin wanted
    <3>1. S1 = S
      BY <2>6 DEF Selected
    <3> QED  BY <2>1, <2>2, <2>6, <3>1 DEF KeptUpTo
  <2> QED  BY <2>5, <2>6
<1> HIDE DEF T
<1>7. Nat \subseteq T
  BY <1>5, <1>6, InductiveSet
<1>8. KeptUpTo(f[N], urls, wanted, N)
  BY <1>1, <1>7 DEF T
<1> QED  BY <1>2, <1>8 DEF N

-----------------------------------------------------------------------------
(* What an observation made from an answer says, where it is terminal: the *)
(* clauses of SettledOnEvidence, and that it can be turned into an answer. *)
Primaries(seen) == {i \in 1..Len(seen.roles) : seen.roles[i] = "primary"}
There(said) ==
    IF said.output \in {"good", "elided"} THEN 1..1
    ELSE {i \in 1..Len(said.urls) : said.urls[i] \in {"good", "elided"}}

Counted(d, said, seen) ==
    /\ \/ Cardinality(Primaries(seen)) = Cardinality(There(said))
       \/ d \in {"xai", "byteplus", "bailian", "h3", "hailuo"}
    /\ Cardinality(Primaries(seen)) <= Cardinality(There(said))
    /\ \A count \in seen.outputs :
          \/ count = Cardinality(Primaries(seen))
          \/ d = "wan" /\ said.meter = "extra" /\ count = Cardinality(Primaries(seen)) + 1

Metered(d, said, seen) ==
    /\ seen.meter \subseteq {said.meter}
    /\ d \in {"byteplus", "kling"} \cup MiniMax => said.meter # "invalid"
    /\ d \in Omni =>
          /\ seen.buckets.video = seen.buckets.output /\ seen.buckets.output # {}
          /\ \A t \in seen.buckets.text, i \in seen.buckets.image, all \in seen.buckets.input :
                t + i = all

Renderable(d, seen) ==
    /\ Valid(seen)
    /\ \/ seen.ref = "urls"
       \/ seen.ref = "inline" /\ d \in Omni
       \/ seen.ref = "file" /\ d \in MiniMax
    /\ d \in MiniMax /\ seen.ref = "urls" => Len(seen.urls) = 1
    /\ d = "byteplus" => seen.roles[1] = "primary"

Evidence(d, said, seen) ==
    Terminal(seen) =>
        /\ Readable(said)
        /\ seen.kind = "failed" => Valid(seen) /\ seen.ref = "none"
        /\ seen.kind = "succeeded" =>
             /\ seen.ref # "file" => Counted(d, said, seen)
             /\ Metered(d, said, seen) /\ Renderable(d, seen)

(* What TaskNeverLost says of a name that was accepted. *)
Followed(d, name) == Polls(d, name) \/ HasSlash(name) \/ d = "hailuo"

(* The dialects that answer with the name a task was accepted under. *)
Keyed == {"xai", "byteplus", "kling", "bailian"} \cup MiniMax

TaskInv ==
    /\ dialect \in Dialects
    /\ prepared.ok => request \in Requests(dialect) /\ prepared = Prepare(dialect, request)
    /\ Evidence(dialect, answer, observation)
    /\ pc \in {"start", "prepared", "sent", "polling"} => ~Terminal(observation)
    /\ pc = "observed" => Terminal(observation) /\ (dialect \in Keyed => id # "none")
    /\ pc \in {"polling", "observed"} => result # "stuck"
    /\ result = "stuck" /\ Terminal(observation) => observation.ref = "file"
    /\ outcome.kind = "terminal" => outcome.observation.ref \in {"urls", "none"}
    /\ result = "rejected" => ~started
    /\ outcome.kind = "accepted" => Followed(dialect, id)

-----------------------------------------------------------------------------
LEMMA QuietEvidence ==
    ASSUME NEW d, NEW said
    PROVE  /\ Evidence(d, said, Unknown) /\ ~Terminal(Blank) /\ Unknown = Blank
           /\ \A running : Evidence(d, said, Progress(running))
  BY DEF Evidence, Unknown, Blank, Progress, Terminal

LEMMA FailedEvidence ==
    ASSUME NEW d, NEW said, Readable(said), NEW kind, NEW text, text # "huge"
    PROVE  Evidence(d, said, Failed(kind, text))
<1>1. Failed(kind, text).kind = "failed" /\ Failed(kind, text).ref = "none" /\ Failed(kind, text).text = text
  BY DEF Failed, Blank
<1> QED  BY <1>1 DEF Evidence, Valid

LEMMA BoundedText == \A text : Bounded(text) # "huge"
  BY DEF Bounded

LEMMA QueryEvidence ==
    ASSUME NEW d, NEW said, NEW seen, Readable(said) => Evidence(d, said, seen)
    PROVE  Evidence(d, said, FromQuery(said, seen))
  BY QuietEvidence DEF FromQuery

LEMMA SucceededFields ==
    ASSUME NEW ref, NEW urls, NEW outputs, NEW meter
    PROVE  LET seen == Succeeded(ref, urls, outputs, meter)
           IN  /\ seen.kind = "succeeded" /\ seen.ref = ref /\ seen.urls = urls
               /\ seen.roles = [i \in 1..Len(urls) |-> "primary"]
               /\ seen.outputs = outputs /\ seen.meter = meter /\ seen.text = "short"
  BY DEF Succeeded, Blank

(* Every URL delivered is a primary artifact. *)
LEMMA PrimaryRoles ==
    ASSUME NEW n \in Nat, NEW roles, roles = [i \in 1..n |-> "primary"]
    PROVE  /\ Len(roles) = n /\ {i \in 1..Len(roles) : roles[i] = "primary"} = 1..n
           /\ n \in 1..MAX_ARTIFACT_URLS <=> ValidUrls(roles)
<1>1. Len(roles) = n /\ roles \in Seq({"primary"}) /\ \A i \in 1..n : roles[i] = "primary"
  OBVIOUS
<1> QED  BY <1>1, UrlsAssumption DEF ValidUrls

LEMMA ThereFinite ==
    ASSUME NEW said, said.urls \in Seq(UrlKinds)
    PROVE  IsFiniteSet(There(said)) /\ Cardinality(There(said)) \in Nat
<1>1. There(said) \subseteq 1..1 \/ There(said) \subseteq 1..Len(said.urls)
  BY DEF There
<1>2. 1 \in Int /\ Len(said.urls) \in Int
  OBVIOUS
<1>3. IsFiniteSet(1..1) /\ IsFiniteSet(1..Len(said.urls))
  BY <1>2, FS_Interval
<1> QED  BY <1>1, <1>3, FS_Subset, FS_CardinalityType, Zenon

(* One URL, and the answer gave at least one. *)
LEMMA FirstUrl ==
    ASSUME NEW said, said.urls \in Seq(UrlKinds), said.urls # << >>, GoodUrl(said.urls[1])
    PROVE  Cardinality(There(said)) >= 1
<1>1. 1 \in There(said)
  BY DEF There, GoodUrl
<1>2. Cardinality(There(said)) # 0
  BY <1>1, ThereFinite, FS_EmptySet
<1> QED  BY <1>2, ThereFinite

LEMMA OneToN == ASSUME NEW n \in Nat PROVE IsFiniteSet(1..n) /\ Cardinality(1..n) = n
  BY FS_Interval

-----------------------------------------------------------------------------
LEMMA OneUrlEvidence ==
    ASSUME NEW d \in {"xai", "bailian", "h3", "hailuo"}, NEW said, Readable(said),
           said.urls \in Seq(UrlKinds), said.urls # << >>, GoodUrl(said.urls[1]),
           NEW outputs, outputs \subseteq {1}, NEW meter, meter \subseteq {said.meter},
           d \in MiniMax => said.meter # "invalid"
    PROVE  Evidence(d, said, Succeeded("urls", <<"good">>, outputs, meter))
<1>0. PICK urls : urls = <<"good">> /\ Len(urls) = 1
  <2>1. Len(<<"good">>) = 1
    OBVIOUS
  <2> QED  BY <2>1, Zenon
<1>1. PICK seen : seen = Succeeded("urls", urls, outputs, meter)
  OBVIOUS
<1>2. /\ seen.kind = "succeeded" /\ seen.ref = "urls" /\ seen.urls = urls
      /\ seen.roles = [i \in 1..Len(urls) |-> "primary"] /\ seen.outputs = outputs
      /\ seen.meter = meter /\ seen.text = "short"
  BY <1>1, SucceededFields
<1>3. Len(seen.urls) = 1
  BY <1>0, <1>2
<1>4. seen.roles = [i \in 1..1 |-> "primary"]
  BY <1>0, <1>2
<1>5. Primaries(seen) = 1..1 /\ ValidUrls(seen.roles)
  <2>1. 1 \in Nat /\ 1 \in 1..MAX_ARTIFACT_URLS
    BY UrlsAssumption
  <2>2. /\ {i \in 1..Len(seen.roles) : seen.roles[i] = "primary"} = 1..1
        /\ 1 \in 1..MAX_ARTIFACT_URLS <=> ValidUrls(seen.roles)
    BY <1>4, <2>1, PrimaryRoles, Zenon
  <2> QED  BY <2>1, <2>2 DEF Primaries
<1>6. Cardinality(Primaries(seen)) = 1
  BY <1>5, OneToN, Zenon
<1>7. Counted(d, said, seen)
  BY <1>2, <1>6, FirstUrl, Zenon DEF Counted
<1>8. Metered(d, said, seen)
  BY <1>2 DEF Metered, MiniMax, Omni
<1>9. Renderable(d, seen)
  BY <1>2, <1>3, <1>5 DEF Renderable, Valid
<1>10. Evidence(d, said, seen)
  BY <1>2, <1>7, <1>8, <1>9 DEF Evidence
<1> QED  BY <1>0, <1>1, <1>10

(* All the URLs delivered, as many as the answer gave. *)
LEMMA AllUrlsEvidence ==
    ASSUME NEW d \in Veo \cup {"gmi", "wan", "kling"}, NEW said, Readable(said),
           NEW urls \in Seq(UrlKinds), Len(urls) = Cardinality(There(said)),
           NEW outputs, NEW meter, meter \subseteq {said.meter},
           \A count \in outputs :
              \/ count = Len(urls)
              \/ d = "wan" /\ said.meter = "extra" /\ count = Len(urls) + 1,
           d = "kling" => said.meter # "invalid",
           ValidUrls(Succeeded("urls", urls, outputs, meter).roles)
    PROVE  Evidence(d, said, Succeeded("urls", urls, outputs, meter))
<1>1. PICK seen : seen = Succeeded("urls", urls, outputs, meter)
  OBVIOUS
<1>2. /\ seen.kind = "succeeded" /\ seen.ref = "urls" /\ seen.urls = urls
      /\ seen.roles = [i \in 1..Len(urls) |-> "primary"] /\ seen.outputs = outputs
      /\ seen.meter = meter /\ seen.text = "short"
  BY <1>1, SucceededFields
<1>3. Len(urls) \in Nat
  OBVIOUS
<1>4. Primaries(seen) = 1..Len(urls)
  BY <1>2, <1>3, PrimaryRoles DEF Primaries
<1>5. Cardinality(Primaries(seen)) = Len(urls)
  BY <1>3, <1>4, OneToN
<1>6. Counted(d, said, seen)
  BY <1>2, <1>3, <1>5 DEF Counted
<1>7. Metered(d, said, seen)
  BY <1>2 DEF Metered, MiniMax, Omni, Veo
<1>8. Renderable(d, seen)
  BY <1>1, <1>2 DEF Renderable, Valid, MiniMax, Veo
<1>9. Evidence(d, said, seen)
  BY <1>2, <1>6, <1>7, <1>8 DEF Evidence
<1> QED  BY <1>1, <1>9

(* The URLs kept are those there, when all of them are good. *)
LEMMA KeptAreThere ==
    ASSUME NEW said, said.urls \in Seq(UrlKinds \ {"elided", "raw"}), said.output = "none",
           NEW wanted, "good" \in wanted,
           \A k \in 1..Len(Kept(said.urls, wanted)) : GoodUrl(Kept(said.urls, wanted)[k])
    PROVE  /\ Kept(said.urls, wanted) \in Seq(UrlKinds)
           /\ Len(Kept(said.urls, wanted)) = Cardinality(There(said))
<1>0. said.urls \in Seq(UrlKinds) /\ \A i \in 1..Len(said.urls) : said.urls[i] \in UrlKinds \ {"elided", "raw"}
  OBVIOUS
<1>1. PICK kept : kept = Kept(said.urls, wanted)
  OBVIOUS
<1>2. KeptUpTo(kept, said.urls, wanted, Len(said.urls))
  BY <1>0, <1>1, KeptFacts
<1>3. \A i \in Selected(said.urls, wanted, Len(said.urls)) : said.urls[i] = "good"
  BY <1>1, <1>2 DEF KeptUpTo, GoodUrl
<1>4. Selected(said.urls, wanted, Len(said.urls)) = There(said)
  BY <1>0, <1>3 DEF Selected, There
<1> QED  BY <1>1, <1>2, <1>4 DEF KeptUpTo

-----------------------------------------------------------------------------
(* How each adapter observes. *)
Shaped(d, said) ==
    /\ said.urls \in Seq(UrlKinds)
    /\ d \notin Omni => said.urls \in Seq(UrlKinds \ {"elided", "raw"}) /\ said.output = "none"

LEMMA VeoEvidence ==
    ASSUME NEW d \in Veo, NEW said, Shaped(d, said), Readable(said)
    PROVE  Evidence(d, said, observe_operation(said))
<1> DEFINE samples == Samples(said.urls)
           good == Succeeded("urls", samples, {Len(samples)}, {})
<1>1. said.urls \in Seq(UrlKinds \ {"elided", "raw"}) /\ said.urls \in Seq(UrlKinds) /\ said.output = "none"
  BY DEF Shaped, Veo, Omni
<1>2. \A k \in 1..Len(samples) : GoodUrl(samples[k])
  BY <1>1, KeptFacts DEF KeptUpTo, Samples, GoodUrl
<1>3. samples \in Seq(UrlKinds) /\ Len(samples) = Cardinality(There(said))
  BY <1>1, <1>2, KeptAreThere, Zenon DEF Samples
<1>4. ValidUrls(good.roles) => Evidence(d, said, good)
  <2> HIDE DEF samples
  <2> QED  BY <1>3, AllUrlsEvidence DEF Veo
<1>5. Evidence(d, said, Failed("failed", Bounded(said.text)))
  BY FailedEvidence, BoundedText
<1>6. Evidence(d, said, [Failed("failed", Bounded(said.text)) EXCEPT !.policy = TRUE])
  BY BoundedText DEF Evidence, Failed, Blank, Valid
<1> HIDE DEF good
<1>7. \/ observe_operation(said) = Progress(TRUE)
      \/ observe_operation(said) = Unknown
      \/ observe_operation(said) = Failed("failed", Bounded(said.text))
      \/ observe_operation(said) = [Failed("failed", Bounded(said.text)) EXCEPT !.policy = TRUE]
      \/ ValidUrls(good.roles) /\ observe_operation(said) = good
  BY Zenon DEF observe_operation, good
<1> QED  BY <1>4, <1>5, <1>6, <1>7, QuietEvidence, Zenon

LEMMA XaiEvidence ==
    ASSUME NEW said, Shaped("xai", said) PROVE Evidence("xai", said, XaiObserve(said))
<1> DEFINE good == Succeeded("urls", <<"good">>, {1}, LenientMeter(said.meter))
           seen == CASE said.word = "pending" -> Progress(FALSE)
                     [] said.word = "done" ->
                           IF said.urls # << >> /\ GoodUrl(said.urls[1]) THEN good ELSE Unknown
                     [] said.word = "failed" -> Failed("failed", Bounded(said.text))
                     [] said.word = "expired" -> Failed("expired", "short")
                     [] OTHER -> Unknown
<1>1. ASSUME Readable(said) PROVE Evidence("xai", said, seen)
  <2>1. said.urls # << >> /\ GoodUrl(said.urls[1]) => Evidence("xai", said, good)
    BY <1>1, OneUrlEvidence DEF LenientMeter, MiniMax, Shaped
  <2>2. /\ Evidence("xai", said, Failed("failed", Bounded(said.text)))
        /\ Evidence("xai", said, Failed("expired", "short"))
    BY <1>1, FailedEvidence, BoundedText
  <2> HIDE DEF good
  <2> QED  BY <2>1, <2>2, QuietEvidence, Zenon
<1>2. XaiObserve(said) = FromQuery(said, seen)
  BY DEF XaiObserve
<1> HIDE DEF seen
<1> QED  BY <1>1, <1>2, QueryEvidence

LEMMA BytePlusEvidence ==
    ASSUME NEW said, Shaped("byteplus", said) PROVE Evidence("byteplus", said, BytePlusObserve(said))
<1> DEFINE seen == CASE said.word \in {"queued", "running"} -> Progress(said.word = "running")
                     [] said.word = "succeeded" -> BytePlusSucceeded(said)
                     [] said.word = "failed" -> Failed("failed", Bounded(said.text))
                     [] said.word = "expired" -> Failed("expired", Bounded(said.text))
                     [] OTHER -> Unknown
<1>1. ASSUME Readable(said), BytePlusSucceeded(said) # Unknown
      PROVE  Evidence("byteplus", said, BytePlusSucceeded(said))
  <2> DEFINE framed == said.frame \notin {"none", "empty"}
             roles == IF framed THEN <<"primary", "last_frame">> ELSE <<"primary">>
             urls == IF framed THEN <<"good", "good">> ELSE <<"good">>
             meter == IF said.meter = "absent" THEN {} ELSE {said.meter}
             good == [Succeeded("urls", urls, {1}, meter) EXCEPT !.roles = roles]
  <2>1. /\ BytePlusSucceeded(said) = good /\ said.urls # << >> /\ GoodUrl(said.urls[1])
        /\ said.meter # "invalid"
    BY <1>1 DEF BytePlusSucceeded
  <2>2. /\ good.kind = "succeeded" /\ good.ref = "urls" /\ good.roles = roles /\ good.outputs = {1}
        /\ good.meter = meter /\ good.text = "short"
    BY DEF Succeeded, Blank
  <2>3. Primaries(good) = {1} /\ ValidUrls(good.roles) /\ good.roles[1] = "primary"
    <3> HIDE DEF good
    <3>1. CASE framed
      BY <2>2, <3>1, UrlsAssumption DEF Primaries, ValidUrls
    <3>2. CASE ~framed
      BY <2>2, <3>2, UrlsAssumption DEF Primaries, ValidUrls
    <3> QED  BY <3>1, <3>2
  <2>4. meter \subseteq {said.meter}
    OBVIOUS
  <2> HIDE DEF good, meter
  <2>5. Cardinality(Primaries(good)) = 1 /\ Cardinality(There(said)) >= 1
    BY <2>1, <2>3, FS_Singleton, FirstUrl, Zenon DEF Shaped
  <2>6. Counted("byteplus", said, good)
    BY <2>2, <2>5 DEF Counted
  <2>7. Metered("byteplus", said, good)
    BY <2>1, <2>2, <2>4 DEF Metered, MiniMax, Omni
  <2>8. Renderable("byteplus", good)
    BY <2>2, <2>3 DEF Renderable, Valid, MiniMax
  <2> QED  BY <1>1, <2>1, <2>2, <2>6, <2>7, <2>8 DEF Evidence
<1>2. ASSUME Readable(said) PROVE Evidence("byteplus", said, seen)
  <2>1. \A kind : Evidence("byteplus", said, Failed(kind, Bounded(said.text)))
    BY <1>2, FailedEvidence, BoundedText
  <2> QED  BY <1>1, <1>2, <2>1, QuietEvidence, Zenon
<1>3. BytePlusObserve(said) = FromQuery(said, seen)
  BY DEF BytePlusObserve
<1> HIDE DEF seen
<1> QED  BY <1>2, <1>3, QueryEvidence

LEMMA KlingEvidence ==
    ASSUME NEW said, Shaped("kling", said) PROVE Evidence("kling", said, KlingObserve(said))
<1> DEFINE meter == IF said.meter = "absent" THEN {} ELSE {said.meter}
           good == Succeeded("urls", said.urls, {}, meter)
           raw == CASE said.word \in {"submitted", "processing"} -> Progress(said.word = "processing")
                    [] said.word = "succeed" -> KlingSucceeded(said)
                    [] said.word = "failed" -> Failed("failed", said.text)
                    [] OTHER -> Unknown
           seen == IF Valid(raw) THEN raw ELSE Unknown
<1>1. ASSUME Readable(said), KlingSucceeded(said) # Unknown
      PROVE  Evidence("kling", said, KlingSucceeded(said))
  <2>1. /\ KlingSucceeded(said) = good /\ ValidUrls(good.roles) /\ said.meter # "invalid"
        /\ \A i \in 1..Len(said.urls) : said.urls[i] = "good"
    BY <1>1 DEF KlingSucceeded, GoodUrl
  <2>2. There(said) = 1..Len(said.urls) /\ said.urls \in Seq(UrlKinds) /\ Len(said.urls) \in Nat
    <3>1. said.output = "none" /\ said.urls \in Seq(UrlKinds)
      BY DEF Shaped, Omni
    <3>2. said.output \notin {"good", "elided"}
      BY <3>1
    <3> QED  BY <2>1, <3>1, <3>2 DEF There
  <2>3. Len(said.urls) = Cardinality(There(said))
    BY <2>2, OneToN
  <2>4. meter \subseteq {said.meter}
    OBVIOUS
  <2> HIDE DEF meter
  <2> QED  BY <1>1, <2>1, <2>2, <2>3, <2>4, AllUrlsEvidence, Zenon
<1>2. ASSUME Readable(said) PROVE Evidence("kling", said, seen)
  <2>1. Valid(Failed("failed", said.text)) => Evidence("kling", said, Failed("failed", said.text))
    <3>1. Failed("failed", said.text).text = said.text
      BY DEF Failed, Blank
    <3> QED  BY <1>2, <3>1, FailedEvidence DEF Valid
  <2> QED  BY <1>1, <1>2, <2>1, QuietEvidence
<1>3. KlingObserve(said) = FromQuery(said, seen)
  BY DEF KlingObserve
<1> HIDE DEF seen
<1> QED  BY <1>2, <1>3, QueryEvidence

LEMMA H3Evidence ==
    ASSUME NEW d \in MiniMax, NEW said, Shaped(d, said), Readable(said)
    PROVE  Evidence(d, said, observe_h3(said))
<1> DEFINE meter == IF said.meter = "absent" THEN {} ELSE {said.meter}
           good == Succeeded("urls", <<"good">>, {}, meter)
<1>1. said.urls # << >> /\ GoodUrl(said.urls[1]) /\ said.meter # "invalid" => Evidence(d, said, good)
  <2>1. meter \subseteq {said.meter} /\ d \in {"xai", "bailian", "h3", "hailuo"}
    BY DEF MiniMax
  <2> HIDE DEF meter
  <2> QED  BY <2>1, OneUrlEvidence DEF Shaped
<1>2. said.text # "huge" => Evidence(d, said, Failed(said.word, said.text))
  BY FailedEvidence
<1> HIDE DEF good
<1>3. \/ observe_h3(said) = Progress(said.word = "running")
      \/ observe_h3(said) = Unknown
      \/ said.text # "huge" /\ observe_h3(said) = Failed(said.word, said.text)
      \/ /\ said.urls # << >> /\ GoodUrl(said.urls[1]) /\ said.meter # "invalid"
         /\ observe_h3(said) = good
  BY DEF observe_h3, good
<1>9. Evidence(d, said, Progress(said.word = "running"))
  BY DEF Evidence, Progress, Terminal, Blank
<1> QED  BY <1>1, <1>2, <1>3, <1>9, QuietEvidence

LEMMA MiniMaxEvidence ==
    ASSUME NEW d \in MiniMax, NEW said, Shaped(d, said), said.flag # "task" => said.meter = "absent"
    PROVE  Evidence(d, said, MiniMaxObserve(said))
<1> DEFINE file == Succeeded("file", <<MiniMaxId(said.id)>>, {}, {})
<1>1. ASSUME Readable(said), said.flag # "task" PROVE Evidence(d, said, file)
  <2>1. PICK urls : urls = <<MiniMaxId(said.id)>>
    BY Zenon
  <2>2. PICK seen : seen = Succeeded("file", urls, {}, {})
    OBVIOUS
  <2>3. seen.kind = "succeeded" /\ seen.ref = "file" /\ seen.meter = {} /\ seen.text = "short"
    BY <2>2 DEF Succeeded, Blank
  <2>4. Metered(d, said, seen)
    BY <1>1, <2>3 DEF Metered, MiniMax, Omni
  <2>5. Renderable(d, seen)
    BY <2>3 DEF Renderable, Valid, MiniMax
  <2>6. Evidence(d, said, seen)
    BY <1>1, <2>3, <2>4, <2>5 DEF Evidence
  <2> QED  BY <2>1, <2>2, <2>6
<1>2. Readable(said) => Evidence(d, said, observe_h3(said)) /\ Evidence(d, said, Failed("failed", "short"))
  BY H3Evidence, FailedEvidence
<1> HIDE DEF file
<1>3. \/ MiniMaxObserve(said) = Unknown
      \/ Readable(said) /\ MiniMaxObserve(said) = observe_h3(said)
      \/ Readable(said) /\ MiniMaxObserve(said) = Progress(said.word = "Processing")
      \/ Readable(said) /\ said.flag # "task" /\ MiniMaxObserve(said) = file
      \/ Readable(said) /\ MiniMaxObserve(said) = Failed("failed", "short")
  BY DEF MiniMaxObserve, FromQuery, file
<1>9. Evidence(d, said, Progress(said.word = "Processing"))
  BY DEF Evidence, Progress, Terminal, Blank
<1> QED  BY <1>1, <1>2, <1>3, <1>9, QuietEvidence

LEMMA BailianEvidence ==
    ASSUME NEW said, Shaped("bailian", said) PROVE Evidence("bailian", said, BailianObserve(said))
<1> DEFINE good == Succeeded("urls", <<"good">>, {}, LenientMeter(said.meter))
           kind == IF said.word = "CANCELED" THEN "cancelled" ELSE "failed"
<1>1. Readable(said) /\ said.urls # << >> /\ GoodUrl(said.urls[1]) => Evidence("bailian", said, good)
  BY OneUrlEvidence DEF LenientMeter, MiniMax, Shaped
<1>2. Readable(said) => Evidence("bailian", said, Failed(kind, Bounded(said.text)))
  BY FailedEvidence, BoundedText
<1> HIDE DEF good, kind
<1>3. \/ BailianObserve(said) = Unknown
      \/ BailianObserve(said) = Progress(said.word = "RUNNING")
      \/ Readable(said) /\ BailianObserve(said) = Failed(kind, Bounded(said.text))
      \/ /\ Readable(said) /\ said.urls # << >> /\ GoodUrl(said.urls[1])
         /\ BailianObserve(said) = good
  BY DEF BailianObserve, FromQuery, good, kind
<1>9. Evidence("bailian", said, Progress(said.word = "RUNNING"))
  BY DEF Evidence, Progress, Terminal, Blank
<1> QED  BY <1>1, <1>2, <1>3, <1>9, QuietEvidence

LEMMA GmiEvidence ==
    ASSUME NEW said, Shaped("gmi", said), Readable(said)
    PROVE  Evidence("gmi", said, observe_gmi(said))
<1> DEFINE urls == media_urls(said.urls)
           good == Succeeded("urls", urls, {Len(urls)}, {})
<1>1. said.urls \in Seq(UrlKinds \ {"elided", "raw"}) /\ said.output = "none"
  BY DEF Shaped, Omni
<1>2. ASSUME \A i \in 1..Len(urls) : GoodUrl(urls[i])
      PROVE  urls \in Seq(UrlKinds) /\ Len(urls) = Cardinality(There(said))
  <2>1. "good" \in UrlKinds \ {"empty", "bad"}
    BY DEF UrlKinds
  <2> QED  BY <1>1, <1>2, <2>1, KeptAreThere, Zenon DEF media_urls
<1> HIDE DEF urls
<1>3. (\A i \in 1..Len(urls) : GoodUrl(urls[i])) /\ ValidUrls(good.roles) => Evidence("gmi", said, good)
  BY <1>2, AllUrlsEvidence, Zenon
<1>4. /\ Evidence("gmi", said, Failed("failed", "short"))
      /\ Evidence("gmi", said, Failed("failed", Bounded(said.text)))
  BY FailedEvidence, BoundedText
<1> HIDE DEF good
<1>5. \/ observe_gmi(said) = Unknown
      \/ observe_gmi(said) = Progress(TRUE)
      \/ observe_gmi(said) = Failed("failed", "short")
      \/ observe_gmi(said) = Failed("failed", Bounded(said.text))
      \/ /\ \A i \in 1..Len(urls) : GoodUrl(urls[i])
         /\ ValidUrls(good.roles) /\ observe_gmi(said) = good
  BY Zenon DEF observe_gmi, urls, good
<1> QED  BY <1>3, <1>4, <1>5, QuietEvidence, Zenon

LEMMA WanEvidence ==
    ASSUME NEW said, Shaped("wan", said) PROVE Evidence("wan", said, WanObserve(said))
<1> DEFINE urls == media_urls(said.urls)
           count == billed_count(said.meter, Len(urls))
           good == Succeeded("urls", urls, {count}, {})
<1>1. said.urls \in Seq(UrlKinds \ {"elided", "raw"}) /\ said.output = "none"
  BY DEF Shaped, Omni
<1>2. ASSUME \A i \in 1..Len(urls) : GoodUrl(urls[i])
      PROVE  urls \in Seq(UrlKinds) /\ Len(urls) = Cardinality(There(said))
  <2>1. "good" \in UrlKinds \ {"empty", "bad"}
    BY DEF UrlKinds
  <2> QED  BY <1>1, <1>2, <2>1, KeptAreThere, Zenon DEF media_urls
<1> HIDE DEF urls
<1>3. Len(urls) \in Nat => count = Len(urls) \/ (said.meter = "extra" /\ count = Len(urls) + 1)
  BY DEF billed_count
<1> HIDE DEF count
<1>4. /\ Readable(said) /\ ValidUrls(good.roles) /\ \A i \in 1..Len(urls) : GoodUrl(urls[i])
      => Evidence("wan", said, good)
  <2> SUFFICES ASSUME Readable(said), ValidUrls(good.roles), \A i \in 1..Len(urls) : GoodUrl(urls[i])
               PROVE  Evidence("wan", said, good)
    OBVIOUS
  <2>1. urls \in Seq(UrlKinds) /\ Len(urls) \in Nat /\ Len(urls) = Cardinality(There(said))
    BY <1>2
  <2>2. \A n \in {count} : n = Len(urls) \/ ("wan" = "wan" /\ said.meter = "extra" /\ n = Len(urls) + 1)
    BY <1>3, <2>1
  <2> QED  BY <2>1, <2>2, AllUrlsEvidence, Zenon
<1>5. Readable(said) => /\ Evidence("wan", said, Failed("failed", "short"))
                        /\ \A kind : Evidence("wan", said, Failed(kind, Bounded(said.text)))
  BY FailedEvidence, BoundedText
<1> HIDE DEF good
<1>6. \/ WanObserve(said) = Unknown
      \/ WanObserve(said) = Progress(said.word = "RUNNING")
      \/ Readable(said) /\ WanObserve(said) = Failed("failed", "short")
      \/ Readable(said) /\ WanObserve(said) = Failed("cancelled", Bounded(said.text))
      \/ Readable(said) /\ WanObserve(said) = Failed("failed", Bounded(said.text))
      \/ /\ Readable(said) /\ ValidUrls(good.roles) /\ \A i \in 1..Len(urls) : GoodUrl(urls[i])
         /\ WanObserve(said) = good
  BY DEF WanObserve, FromQuery, urls, count, good
<1>9. Evidence("wan", said, Progress(said.word = "RUNNING"))
  BY DEF Evidence, Progress, Terminal, Blank
<1> QED  BY <1>4, <1>5, <1>6, <1>9, QuietEvidence

LEMMA OrZeroOfOne == ASSUME NEW k PROVE OrZero({k}) = k
<1>1. (CHOOSE n \in {k} : TRUE) \in {k}
  OBVIOUS
<1> QED  BY <1>1 DEF OrZero

(* What is said of the token counts in AnswersAssumption. *)
Tallied(said) ==
    /\ said.usage \in TokenCounts
    /\ \A counts \in {said.usage.text, said.usage.image, said.usage.input} : Optionally(Nat, counts)

LEMMA OmniEvidence ==
    ASSUME NEW d \in Omni, NEW said, Shaped(d, said), Tallied(said), Readable(said)
    PROVE  Evidence(d, said, observe_interaction(said))
<1> DEFINE ref == find_video(said)
           videos == Videos(said)
           good == [Succeeded(ref, videos, {1}, {}) EXCEPT !.buckets = [said.usage EXCEPT !.total = {}]]
<1>1. ASSUME ref # "none", token_buckets(said.usage) PROVE Evidence(d, said, good)
  <2>1. Len(videos) = 1 /\ videos[1] \in {"good", "elided"} /\ ref \in {"urls", "inline"}
    BY <1>1 DEF find_video, GoodUrl
  <2>5. There(said) = 1..1
    <3>1. CASE said.output \in UrlKinds \ {"empty", "bad"}
      BY <2>1, <3>1 DEF Videos, There
    <3>2. CASE said.output \notin UrlKinds \ {"empty", "bad"}
      <4>1. videos = said.urls /\ said.output \notin {"good", "elided"}
        BY <3>2 DEF Videos, UrlKinds
      <4> QED  BY <2>1, <4>1 DEF There
    <3> QED  BY <3>1, <3>2
  <2> HIDE DEF ref, videos
  <2>2. PICK seen : seen = good
    BY Zenon
  <2>3. /\ seen.kind = "succeeded" /\ seen.ref = ref /\ seen.roles = [i \in 1..Len(videos) |-> "primary"]
        /\ seen.outputs = {1} /\ seen.meter = {} /\ seen.text = "short"
        /\ seen.buckets = [said.usage EXCEPT !.total = {}]
    BY <2>2 DEF Succeeded, Blank
  <2>4. /\ seen.buckets.video = said.usage.video /\ seen.buckets.output = said.usage.output
        /\ seen.buckets.text = said.usage.text /\ seen.buckets.image = said.usage.image
        /\ seen.buckets.input = said.usage.input
    BY <2>3 DEF Tallied, TokenCounts
  <2>6. Primaries(seen) = 1..1 /\ ValidUrls(seen.roles)
    <3>0. seen.roles = [i \in 1..1 |-> "primary"]
      BY <2>1, <2>3
    <3>1. 1 \in Nat /\ 1 \in 1..MAX_ARTIFACT_URLS
      BY UrlsAssumption
    <3>2. /\ {i \in 1..Len(seen.roles) : seen.roles[i] = "primary"} = 1..1
          /\ 1 \in 1..MAX_ARTIFACT_URLS <=> ValidUrls(seen.roles)
      BY <3>0, <3>1, PrimaryRoles, Zenon
    <3> QED  BY <3>1, <3>2 DEF Primaries
  <2>7. Cardinality(Primaries(seen)) = 1 /\ Cardinality(There(said)) = 1
    BY <2>5, <2>6, OneToN, Zenon
  <2>8. Counted(d, said, seen)
    BY <2>3, <2>7 DEF Counted
  <2>9. ASSUME NEW t \in said.usage.text, NEW i \in said.usage.image, NEW all \in said.usage.input
        PROVE  t + i = all
    <3>1. said.usage.text = {t} /\ said.usage.image = {i} /\ said.usage.input = {all}
      BY <2>9 DEF Tallied, Optionally
    <3>2. OrZero(said.usage.text) = t /\ OrZero(said.usage.image) = i /\ OrZero(said.usage.input) = all
      BY <3>1, OrZeroOfOne, Zenon
    <3>3. said.usage.text \cup said.usage.image # {}
      OBVIOUS
    <3> QED  BY <1>1, <3>2, <3>3 DEF token_buckets
  <2>10. Metered(d, said, seen)
    BY <1>1, <2>3, <2>4, <2>9 DEF Metered, MiniMax, Omni, token_buckets
  <2>11. Renderable(d, seen)
    BY <2>1, <2>3, <2>6 DEF Renderable, Valid, MiniMax, Omni
  <2>12. Evidence(d, said, seen)
    BY <2>3, <2>8, <2>10, <2>11 DEF Evidence
  <2> QED  BY <2>2, <2>12
<1> HIDE DEF good
<1>2. \/ observe_interaction(said) = Unknown
      \/ observe_interaction(said) = Progress(TRUE)
      \/ ref # "none" /\ token_buckets(said.usage) /\ observe_interaction(said) = good
  BY Zenon DEF observe_interaction, good
<1> QED  BY <1>1, <1>2, QuietEvidence, Zenon

(* Every observation that ends a task rests on the answer it was read from. *)
LEMMA ObserveEvidence ==
    ASSUME NEW d \in Dialects, NEW said \in PollAnswers(d) PROVE Evidence(d, said, Observe(d, said))
<1>1. Shaped(d, said) /\ Tallied(said)
  BY AnswersAssumption DEF Shaped, Tallied
<1>2. CASE d \in Veo
  <2>1. Observe(d, said) = FromQuery(said, observe_operation(said))
    BY <1>2 DEF Observe, VeoObserve, MiniMax, Veo, Omni
  <2> QED  BY <1>1, <1>2, <2>1, VeoEvidence, QueryEvidence
<1>3. CASE d \in Omni
  <2>1. Observe(d, said) = FromQuery(said, observe_interaction(said))
    BY <1>3 DEF Observe, OmniObserve, MiniMax, Veo, Omni
  <2> QED  BY <1>1, <1>3, <2>1, OmniEvidence, QueryEvidence
<1>4. CASE d \in MiniMax
  <2>1. Observe(d, said) = MiniMaxObserve(said)
    BY <1>4 DEF Observe, MiniMax, Veo, Omni
  <2>2. said.flag # "task" => said.meter = "absent"
    BY <1>4, AnswersAssumption
  <2> QED  BY <1>1, <1>4, <2>1, <2>2, MiniMaxEvidence
<1>5. CASE d = "xai"
  <2>1. Observe(d, said) = XaiObserve(said)
    BY <1>5 DEF Observe, MiniMax, Veo, Omni
  <2> QED  BY <1>1, <1>5, <2>1, XaiEvidence
<1>6. CASE d = "byteplus"
  <2>1. Observe(d, said) = BytePlusObserve(said)
    BY <1>6 DEF Observe, MiniMax, Veo, Omni
  <2> QED  BY <1>1, <1>6, <2>1, BytePlusEvidence
<1>7. CASE d = "kling"
  <2>1. Observe(d, said) = KlingObserve(said)
    BY <1>7 DEF Observe, MiniMax, Veo, Omni
  <2> QED  BY <1>1, <1>7, <2>1, KlingEvidence
<1>8. CASE d = "gmi"
  <2>1. Observe(d, said) = FromQuery(said, observe_gmi(said))
    BY <1>8 DEF Observe, GmiObserve, MiniMax, Veo, Omni
  <2> QED  BY <1>1, <1>8, <2>1, GmiEvidence, QueryEvidence
<1>9. CASE d = "wan"
  <2>1. Observe(d, said) = WanObserve(said)
    BY <1>9 DEF Observe, MiniMax, Veo, Omni
  <2> QED  BY <1>1, <1>9, <2>1, WanEvidence
<1>10. CASE d = "bailian"
  <2>1. Observe(d, said) = BailianObserve(said)
    BY <1>10 DEF Observe, MiniMax, Veo, Omni
  <2> QED  BY <1>1, <1>10, <2>1, BailianEvidence
<1> QED  BY <1>2, <1>3, <1>4, <1>5, <1>6, <1>7, <1>8, <1>9, <1>10 DEF Dialects

(* An observation that rests on its answer is turned into a result, unless *)
(* a file has to be fetched first.                                         *)
LEMMA SettleRenders ==
    ASSUME NEW d \in Dialects, NEW said, NEW seen, Terminal(seen), Evidence(d, said, seen),
           seen.ref # "file", NEW name, d \in Keyed => name # "none", NEW file
    PROVE  /\ Fetch(d, seen) # "refused"
           /\ seen.kind = "failed" => Failure(d, seen)
           /\ seen.kind = "succeeded" => Render(d, seen, name, file)
<1>1. Fetch(d, seen) # "refused"
  BY DEF Fetch, MiniMaxFetch
<1>2. ASSUME seen.kind = "failed" PROVE Failure(d, seen)
  <2>1. Valid(seen)
    BY <1>2 DEF Evidence, Terminal
  <2> QED  BY <1>2, <2>1, Zenon DEF Failure, VeoFailure, OmniFailure, MiniMaxFailure, XaiFailure, BytePlusFailure,
                             KlingFailure, GmiFailure, WanFailure, BailianFailure, Dialects, MiniMax, Veo, Omni
<1>3. ASSUME seen.kind = "succeeded" PROVE Render(d, seen, name, file)
  <2>1. Renderable(d, seen)
    BY <1>3 DEF Evidence, Terminal
  <2>2. /\ Valid(seen) /\ (seen.ref = "urls" \/ (seen.ref = "inline" /\ d \in Omni))
        /\ d \in MiniMax => Len(seen.urls) = 1 /\ seen.ref = "urls"
        /\ d = "byteplus" => seen.roles[1] = "primary"
    BY <2>1 DEF Renderable, MiniMax, Omni
  <2> QED  BY <2>2, Zenon DEF Render, VeoRender, OmniRender, MiniMaxRender, XaiRender, BytePlusRender,
                       KlingRender, GmiRender, WanRender, BailianRender, Dialects, Keyed, MiniMax, Veo, Omni
<1> QED  BY <1>1, <1>2, <1>3

-----------------------------------------------------------------------------
(* What an outcome of a submission says of the answer. *)
Denied(d, said) ==
    \/ said.status = "4xx"
    \/ /\ Readable(said) /\ said.code = "error"
       /\ ~identifier(said.id) \/ (d \in MiniMax /\ said.id = "dash")

Outcome(d, said, out) ==
    /\ out.kind = "rejected" => Denied(d, said)
    /\ out.kind = "accepted" => Followed(d, out.id)
    /\ out.kind = "terminal" =>
          /\ Terminal(out.observation) /\ Evidence(d, said, out.observation)
          /\ out.observation.ref \in {"urls", "none"} /\ d \notin Keyed
    /\ out.kind # "terminal" => ~Terminal(out.observation)

LEMMA Outcomes ==
    /\ Rejected.kind = "rejected" /\ Unclear.kind = "unknown"
    /\ \A name : Accepted(name).kind = "accepted" /\ Accepted(name).id = name
    /\ \A name : ~Terminal(Accepted(name).observation)
    /\ ~Terminal(Rejected.observation) /\ ~Terminal(Unclear.observation)
    /\ \A seen : AcceptedTerminal(seen).kind = "terminal" /\ AcceptedTerminal(seen).observation = seen
<1>1. Blank.kind = "unknown"
  BY DEF Blank
<1> QED  BY <1>1 DEF Rejected, Unclear, Accepted, AcceptedTerminal, Terminal

(* A submission settled at once: the observation rests on that answer. *)
LEMMA SettledOutcome ==
    ASSUME NEW d, NEW said, NEW seen, Terminal(seen), Evidence(d, said, seen),
           d \notin Keyed, d \in Omni => seen.ref = "urls"
    PROVE  Outcome(d, said, AcceptedTerminal(seen))
<1>1. seen.ref \in {"urls", "none"}
  BY DEF Evidence, Terminal, Renderable, Keyed
<1> QED  BY <1>1, Outcomes DEF Outcome

LEMMA AcceptedOutcome ==
    ASSUME NEW d, NEW said, NEW name, NEW ok, ok => Followed(d, name)
    PROVE  Outcome(d, said, AcceptedIf(ok, name))
  BY Outcomes DEF Outcome, AcceptedIf

LEMMA FromBodyOutcome ==
    ASSUME NEW d, NEW said, NEW out, Readable(said) => Outcome(d, said, out)
    PROVE  Outcome(d, said, FromBody(said, out))
  BY Outcomes DEF Outcome, FromBody, Denied

LEMMA SubmitOutcome ==
    ASSUME NEW d \in Dialects, NEW said \in SubmitAnswers(d)
    PROVE  Outcome(d, said, Submit(d, said))
<1> DEFINE named == identifier(said.id)
<1>0. Shaped(d, said) /\ Tallied(said)
  BY AnswersAssumption DEF Shaped, Tallied
<1>1. CASE d \in Veo
  <2> DEFINE known == gemini_operation_name(said.id) \/ vertex_operation_name(said.id)
             seen == observe_operation(said)
             settled == IF Terminal(seen) THEN AcceptedTerminal(seen) ELSE Unclear
             out == IF said.id # "none" THEN AcceptedIf(known, said.id) ELSE settled
  <2>1. known => Followed(d, said.id)
    BY DEF Followed, HasSlash, gemini_operation_name, vertex_operation_name
  <2>2. ASSUME Readable(said) PROVE Outcome(d, said, settled)
    <3>1. Evidence(d, said, seen) /\ d \notin Keyed /\ d \notin Omni
      BY <1>1, <1>0, <2>2, VeoEvidence DEF Keyed, MiniMax, Veo, Omni
    <3> QED  BY <3>1, SettledOutcome, Outcomes DEF Outcome
  <2>3. Readable(said) => Outcome(d, said, out)
    BY <2>1, <2>2, AcceptedOutcome, Zenon
  <2>4. Submit(d, said) = FromBody(said, out)
    BY <1>1 DEF Submit, VeoSubmit, MiniMax, Veo, Omni
  <2> QED  BY <2>3, <2>4, FromBodyOutcome
<1>2. CASE d \in Omni
  <2> DEFINE seen == observe_interaction(said)
             out == IF said.word = "completed" /\ seen.kind = "succeeded" /\ seen.ref = "urls"
                    THEN AcceptedTerminal(seen)
                    ELSE AcceptedIf(interaction_id(said.id), said.id)
  <2>1. interaction_id(said.id) => Followed(d, said.id)
    BY <1>2, Zenon DEF Followed, Polls, OmniPolls, MiniMax, Veo, Omni
  <2>2. ASSUME Readable(said), seen.kind = "succeeded", seen.ref = "urls"
        PROVE  Outcome(d, said, AcceptedTerminal(seen))
    <3>1. Evidence(d, said, seen) /\ d \notin Keyed /\ Terminal(seen)
      BY <1>2, <1>0, <2>2, OmniEvidence DEF Keyed, MiniMax, Veo, Omni, Terminal
    <3> QED  BY <2>2, <3>1, SettledOutcome
  <2>3. Readable(said) => Outcome(d, said, out)
    BY <2>1, <2>2, AcceptedOutcome
  <2>4. Submit(d, said) = FromBody(said, out)
    BY <1>2 DEF Submit, OmniSubmit, MiniMax, Veo, Omni
  <2> QED  BY <2>3, <2>4, FromBodyOutcome
<1>3. CASE d \in MiniMax
  <2> DEFINE name == MiniMaxId(said.id)
             out == CASE said.code \in {"absent", "zero"} -> AcceptedIf(name # "none", name)
                      [] said.code = "error" -> IF name # "none" THEN Unclear ELSE Rejected
                      [] OTHER -> Unclear
  <2>1. name # "none" => Followed(d, name)
    BY <1>3, Zenon DEF Followed, Polls, MiniMaxPolls, MiniMaxId, valid_id, identifier, HasSlash, MiniMax, Veo, Omni
  <2>2. name = "none" => ~identifier(said.id) \/ said.id = "dash"
    BY DEF MiniMaxId, valid_id, identifier
  <2>3. ASSUME Readable(said) PROVE Outcome(d, said, out)
    <3>1. CASE said.code \in {"absent", "zero"}
      BY <2>1, <3>1, AcceptedOutcome, Zenon
    <3>2. CASE said.code = "error"
      BY <1>3, <2>2, <2>3, <3>2, Outcomes DEF Outcome, Denied
    <3>3. CASE said.code \notin {"absent", "zero", "error"}
      BY <3>3, Outcomes DEF Outcome
    <3> QED  BY <3>1, <3>2, <3>3
  <2>4. Submit(d, said) = FromBody(said, out)
    BY <1>3 DEF Submit, MiniMaxSubmit, MiniMax, Veo, Omni
  <2> QED  BY <2>3, <2>4, FromBodyOutcome
<1>4. CASE d \in {"xai", "byteplus", "wan"}
  <2>1. named => Followed(d, said.id)
    BY <1>4, Zenon DEF Followed, Polls, XaiPolls, BytePlusPolls, WanPolls, MiniMax, Veo, Omni
  <2>2. Submit(d, said) = FromBody(said, AcceptedIf(named, said.id))
    BY <1>4 DEF Submit, XaiSubmit, BytePlusSubmit, WanSubmit, MiniMax, Veo, Omni
  <2> QED  BY <2>1, <2>2, AcceptedOutcome, FromBodyOutcome
<1>5. CASE d = "kling"
  <2> DEFINE name == IF valid_id(said.id) THEN said.id ELSE said.outer
  <2>1. valid_id(name) => Followed(d, name)
    BY <1>5 DEF Followed, Polls, KlingPolls, MiniMax, Veo, Omni
  <2>2. Submit(d, said) = IF Readable(said) THEN AcceptedIf(valid_id(name), name) ELSE Unclear
    BY <1>5 DEF Submit, KlingSubmit, MiniMax, Veo, Omni
  <2>3. Outcome(d, said, Unclear)
    BY Outcomes DEF Outcome
  <2> QED  BY <2>1, <2>2, <2>3, AcceptedOutcome
<1>6. CASE d = "gmi"
  <2> DEFINE seen == observe_gmi(said)
             settled == IF seen.kind = "succeeded" THEN AcceptedTerminal(seen) ELSE Unclear
             out == IF media_urls(said.urls) # << >> THEN settled ELSE AcceptedIf(named, said.id)
  <2>1. named => Followed(d, said.id)
    BY <1>6 DEF Followed, Polls, GmiPolls, MiniMax, Veo, Omni
  <2>2. ASSUME Readable(said) PROVE Outcome(d, said, settled)
    <3>1. Evidence(d, said, seen) /\ d \notin Keyed /\ d \notin Omni
      BY <1>6, <1>0, <2>2, GmiEvidence DEF Keyed, MiniMax, Veo, Omni
    <3>2. seen.kind = "succeeded" => Terminal(seen)
      BY DEF Terminal
    <3> QED  BY <3>1, <3>2, SettledOutcome, Outcomes DEF Outcome
  <2>3. Readable(said) => Outcome(d, said, out)
    BY <2>1, <2>2, AcceptedOutcome
  <2>4. Submit(d, said) = FromBody(said, out)
    BY <1>6 DEF Submit, GmiSubmit, MiniMax, Veo, Omni
  <2> QED  BY <2>3, <2>4, FromBodyOutcome
<1>7. CASE d = "bailian"
  <2> DEFINE name == IF named THEN said.id ELSE "none"
             out == IF said.code # "absent"
                    THEN IF name # "none" THEN Unclear ELSE Rejected
                    ELSE AcceptedIf(name # "none", name)
  <2>1. name # "none" => Followed(d, name)
    BY <1>7 DEF Followed, Polls, BailianPolls, MiniMax, Veo, Omni
  <2>2. name = "none" => ~named
    BY DEF identifier
  <2>3. said.code \in {"absent", "error"}
    BY <1>7, AnswersAssumption
  <2>4. ASSUME Readable(said) PROVE Outcome(d, said, out)
    <3>1. CASE said.code = "absent"
      BY <2>1, <3>1, AcceptedOutcome, Zenon
    <3>2. CASE said.code # "absent"
      BY <2>2, <2>3, <2>4, <3>2, Outcomes, Zenon DEF Outcome, Denied
    <3> QED  BY <3>1, <3>2
  <2>5. Submit(d, said) = FromBody(said, out)
    BY <1>7 DEF Submit, BailianSubmit, MiniMax, Veo, Omni
  <2> QED  BY <2>4, <2>5, FromBodyOutcome
<1> QED  BY <1>1, <1>2, <1>3, <1>4, <1>5, <1>6, <1>7 DEF Dialects

-----------------------------------------------------------------------------
(* The reservation of a prepared task, dialect by dialect. *)
Covers(d, r, made) ==
    /\ made.estimate.images = made.body.images
    /\ made.body.outputs # {} => made.estimate.outputs = made.body.outputs
    /\ \A reserved \in made.estimate.seconds, bill \in Bills(d, r, made) : bill <= reserved
    /\ made.body.seconds # {} => made.estimate.seconds # {}
    /\ d = "kling" =>
          \A reserved \in made.rate,
             rate \in request_unit_rate(r, r.extra.op = "omni" /\ Text(r.video)) :
             rate <= reserved

(* What is asked is reserved as it is, or the asked length is defaulted. *)
LEMMA PreparedFields ==
    ASSUME NEW ok, NEW b, NEW e, PreparedIf(ok, b, e).ok
    PROVE  PreparedIf(ok, b, e).body = b /\ PreparedIf(ok, b, e).estimate = e
  BY DEF PreparedIf, Prepared, Refusal

LEMMA FactFields ==
    ASSUME NEW s, NEW i, NEW o, NEW t
    PROVE  /\ Facts(s, i, o, t).seconds = s /\ Facts(s, i, o, t).images = i
           /\ Facts(s, i, o, t).outputs = o
  BY DEF Facts

(* The adapters that reserve the asked length, or a default where none is  *)
(* asked.                                                                  *)
LEMMA PlainCovers ==
    ASSUME NEW d, NEW r, NEW made, d \notin {"bailian", "kling"} \cup Omni,
           made.estimate.images = made.body.images,
           made.body.outputs # {} => made.estimate.outputs = made.body.outputs,
           Optionally(Int, made.body.seconds),
           made.body.seconds # {} => made.estimate.seconds = made.body.seconds
    PROVE  Covers(d, r, made)
<1>1. Bills(d, r, made) = made.body.seconds
  BY DEF Bills, Omni
<1>2. \A reserved, bill \in made.body.seconds : bill <= reserved
  BY DEF Optionally
<1>3. \A reserved \in made.estimate.seconds, bill \in made.body.seconds : bill <= reserved
  BY <1>2
<1> QED  BY <1>1, <1>3 DEF Covers

LEMMA VeoCovers ==
    ASSUME NEW d \in Veo, NEW r, Optionally(Int, r.duration), VeoPrepare(r).ok
    PROVE  Covers(d, r, VeoPrepare(r))
<1> DEFINE images == Count(r.first) + Count(r.last) + Len(r.images)
           outputs == IF r.n = {} THEN {1} ELSE r.n
           b == Facts(r.duration, {images}, outputs, r.tier)
           e == Facts(r.duration, {images}, outputs, IF r.tier = "odd" THEN "none" ELSE r.tier)
<1>1. VeoPrepare(r).body = b /\ VeoPrepare(r).estimate = e
  <2> HIDE DEF images, outputs, b, e
  <2>1. PICK ok : VeoPrepare(r) = PreparedIf(ok, b, e)
    BY Zenon DEF VeoPrepare, images, outputs, b, e
  <2> QED  BY <2>1, PreparedFields
<1>2. d \notin {"bailian", "kling"} \cup Omni
  BY DEF Veo, Omni, MiniMax
<1> QED  BY <1>1, <1>2, FactFields, PlainCovers

LEMMA XaiCovers ==
    ASSUME NEW d \in {"xai"}, NEW r, Optionally(Int, r.duration), XaiPrepare(r).ok
    PROVE  Covers(d, r, XaiPrepare(r))
<1> DEFINE images == Count(r.first) + Count(r.last) + Len(r.images)
           b == Facts(r.duration, {images}, {}, r.tier)
           e == Facts(r.duration, {images}, {1}, "none")
<1>1. XaiPrepare(r).body = b /\ XaiPrepare(r).estimate = e
  <2> HIDE DEF images, b, e
  <2>1. PICK ok : XaiPrepare(r) = PreparedIf(ok, b, e)
    BY Zenon DEF XaiPrepare, images, b, e
  <2> QED  BY <2>1, PreparedFields
<1>2. d \notin {"bailian", "kling"} \cup Omni
  BY DEF Veo, Omni, MiniMax
<1> QED  BY <1>1, <1>2, FactFields, PlainCovers

LEMMA BytePlusCovers ==
    ASSUME NEW d \in {"byteplus"}, NEW r, Optionally(Int, r.duration), BytePlusPrepare(r).ok
    PROVE  Covers(d, r, BytePlusPrepare(r))
<1> DEFINE images == Count(r.first) + Count(r.last) + Len(r.images)
           seconds == IF r.duration = {} THEN {5} ELSE r.duration
           tier == IF r.tier = "none" THEN "720P" ELSE r.tier
           b == Facts(seconds, {images}, {}, tier)
           e == Facts(seconds, {images}, {1}, IF tier = "odd" THEN "none" ELSE tier)
<1>1. BytePlusPrepare(r).body = b /\ BytePlusPrepare(r).estimate = e
  <2> HIDE DEF images, seconds, tier, b, e
  <2>1. PICK ok : BytePlusPrepare(r) = PreparedIf(ok, b, e)
    BY Zenon DEF BytePlusPrepare, images, seconds, tier, b, e
  <2> QED  BY <2>1, PreparedFields
<1>2. d \notin {"bailian", "kling"} \cup Omni
  BY DEF Veo, Omni, MiniMax
<1>3. Optionally(Int, seconds)
  BY DEF Optionally
<1> QED  BY <1>1, <1>2, <1>3, FactFields, PlainCovers

LEMMA HailuoCovers ==
    ASSUME NEW d \in MiniMax, NEW r, Optionally(Int, r.duration), HailuoPrepare(r).ok
    PROVE  Covers(d, r, HailuoPrepare(r))
<1> DEFINE images == Count(r.first) + Count(r.last)
           seconds == IF r.duration = {} THEN {6} ELSE r.duration
           tier == IF r.tier = "none" THEN "768P" ELSE r.tier
           b == Facts(seconds, {images}, {}, tier)
           e == Facts(seconds, {images}, {}, tier)
<1>1. HailuoPrepare(r).body = b /\ HailuoPrepare(r).estimate = e
  <2> HIDE DEF images, seconds, tier, b, e
  <2>1. PICK ok : HailuoPrepare(r) = PreparedIf(ok, b, e)
    BY Zenon DEF HailuoPrepare, images, seconds, tier, b, e
  <2> QED  BY <2>1, PreparedFields
<1>2. d \notin {"bailian", "kling"} \cup Omni
  BY DEF Veo, Omni, MiniMax
<1>3. Optionally(Int, seconds)
  BY DEF Optionally
<1> QED  BY <1>1, <1>2, <1>3, FactFields, PlainCovers

LEMMA H3Covers ==
    ASSUME NEW d \in MiniMax, NEW r, Optionally(Int, r.duration), prepare_h3(r).ok
    PROVE  Covers(d, r, prepare_h3(r))
<1> DEFINE images == Count(r.first) + Count(r.last) + Len(r.images)
           seconds == IF r.duration = {} THEN {5} ELSE r.duration
           tier == IF r.tier = "none" THEN "768P" ELSE r.tier
           b == Facts(seconds, {images}, {}, tier)
           e == Facts(seconds, {images}, {}, tier)
<1>1. prepare_h3(r).body = b /\ prepare_h3(r).estimate = e
  <2> HIDE DEF images, seconds, tier, b, e
  <2>1. PICK ok : prepare_h3(r) = PreparedIf(ok, b, e)
    BY Zenon DEF prepare_h3, images, seconds, tier, b, e
  <2> QED  BY <2>1, PreparedFields
<1>2. d \notin {"bailian", "kling"} \cup Omni
  BY DEF Veo, Omni, MiniMax
<1>3. Optionally(Int, seconds)
  BY DEF Optionally
<1> QED  BY <1>1, <1>2, <1>3, FactFields, PlainCovers

LEMMA GmiCovers ==
    ASSUME NEW d \in {"gmi"}, NEW r, Optionally(Int, r.duration), GmiPrepare(r).ok
    PROVE  Covers(d, r, GmiPrepare(r))
<1> DEFINE outputs == IF r.n = {} THEN {1} ELSE r.n
           b == Facts({}, {Len(r.images)}, outputs, "none")
           e == Facts({}, {Len(r.images)}, outputs, "none")
<1>1. GmiPrepare(r).body = b /\ GmiPrepare(r).estimate = e
  <2> HIDE DEF outputs, b, e
  <2>1. PICK ok : GmiPrepare(r) = PreparedIf(ok, b, e)
    BY Zenon DEF GmiPrepare, outputs, b, e
  <2> QED  BY <2>1, PreparedFields
<1>2. d \notin {"bailian", "kling"} \cup Omni
  BY DEF Veo, Omni, MiniMax
<1>3. Optionally(Int, {})
  BY DEF Optionally
<1> QED  BY <1>1, <1>2, <1>3, FactFields, PlainCovers

LEMMA WanCovers ==
    ASSUME NEW d \in {"wan"}, NEW r, Optionally(Int, r.duration), WanPrepare(r).ok
    PROVE  Covers(d, r, WanPrepare(r))
<1> DEFINE outputs == IF r.n = {} THEN {1} ELSE r.n
           b == Facts({}, {Len(r.images)}, r.n, "none")
           e == Facts({}, {Len(r.images)}, outputs, "none")
<1>1. WanPrepare(r).body = b /\ WanPrepare(r).estimate = e
  <2> HIDE DEF outputs, b, e
  <2>1. PICK ok : WanPrepare(r) = PreparedIf(ok, b, e)
    BY Zenon DEF WanPrepare, outputs, b, e
  <2> QED  BY <2>1, PreparedFields
<1>2. d \notin {"bailian", "kling"} \cup Omni
  BY DEF Veo, Omni, MiniMax
<1>3. Optionally(Int, {})
  BY DEF Optionally
<1> QED  BY <1>1, <1>2, <1>3, FactFields, PlainCovers

LEMMA OmniCovers ==
    ASSUME NEW d \in Omni, NEW r, NEW vertex, OmniPrepare(vertex, r).ok
    PROVE  Covers(d, r, OmniPrepare(vertex, r))
<1> DEFINE images == IF vertex THEN Count(r.first) + Len(r.images) ELSE 0
           b == Facts({}, {images}, {}, "none")
           e == Facts({10}, {images}, {1}, "none")
           made == OmniPrepare(vertex, r)
<1>1. made.body = b /\ made.estimate = e
  <2> HIDE DEF images, b, e
  <2>1. PICK ok : OmniPrepare(vertex, r) = PreparedIf(ok, b, e)
    BY Zenon DEF OmniPrepare, images, b, e
  <2> QED  BY <2>1, PreparedFields
<1>2. Bills(d, r, made) = {10}
  <2> HIDE DEF made
  <2> QED  BY DEF Bills, Omni
<1>3. d # "kling"
  BY DEF Omni
<1> QED  BY <1>1, <1>2, <1>3, FactFields DEF Covers

(* A rate with a reference video is never the lower one. *)
LEMMA RatesOrdered ==
    ASSUME NEW r
    PROVE  /\ \A reserved, rate \in request_unit_rate(r, TRUE) : rate <= reserved
           /\ \A reserved, rate \in request_unit_rate(r, FALSE) : rate <= reserved
           /\ \A reserved \in request_unit_rate(r, TRUE), rate \in request_unit_rate(r, FALSE) :
                 rate <= reserved
  BY DEF request_unit_rate

LEMMA KlingCovers ==
    ASSUME NEW r, Optionally(Int, r.duration), KlingPrepare(r).ok
    PROVE  Covers("kling", r, KlingPrepare(r))
<1> DEFINE seconds == IF ~Timed(r) THEN {} ELSE IF r.duration = {} THEN {5} ELSE r.duration
           b == Facts(seconds, {}, {}, "none")
           listed == r.extra.op = "omni" /\ Given(r.video)
           made == KlingPrepare(r)
<1>1. made.body = b /\ made.estimate = b /\ made.rate = request_unit_rate(r, listed)
  BY DEF KlingPrepare, Refusal, Prepared
<1>2. Bills("kling", r, made) = seconds
  <2> HIDE DEF made, seconds
  <2>1. made.body.seconds = seconds
    BY <1>1, FactFields
  <2> QED  BY <2>1 DEF Bills
<1>3. \A reserved, bill \in seconds : bill <= reserved
  BY DEF Optionally
<1>4. \A reserved \in request_unit_rate(r, listed),
         rate \in request_unit_rate(r, r.extra.op = "omni" /\ Text(r.video)) : rate <= reserved
  <2>1. r.extra.op = "omni" /\ Text(r.video) => listed
    BY DEF Text, Given
  <2>2. CASE listed = (r.extra.op = "omni" /\ Text(r.video))
    BY <2>2, RatesOrdered, Zenon
  <2>3. CASE listed /\ ~(r.extra.op = "omni" /\ Text(r.video))
    BY <2>3, RatesOrdered, Zenon
  <2> QED  BY <2>1, <2>2, <2>3
<1>5. Covers("kling", r, made)
  <2> HIDE DEF made, seconds, listed
  <2> QED  BY <1>1, <1>2, <1>3, <1>4, FactFields DEF Covers
<1> QED  BY <1>5

LEMMA LegacyCovers ==
    ASSUME NEW r, Optionally(Int, r.duration), r.shape \notin WanShapes, BailianLegacy(r).ok
    PROVE  Covers("bailian", r, BailianLegacy(r))
<1> DEFINE kf == r.shape = "kf2v"
           images == CASE kf -> Count(r.first) + Count(r.last)
                       [] r.shape = "r2v" -> Len(r.images)
                       [] OTHER -> Count(r.first)
           seconds == IF kf \/ r.duration = {} \/ \E k \in r.duration : k < 0 THEN {5} ELSE r.duration
           asked == IF kf THEN {} ELSE r.duration
           billed == IF asked = {} THEN {5} ELSE asked
           b == Facts(asked, {images}, {}, r.tier)
           e == Facts(seconds, {images}, {}, IF r.tier = "odd" THEN "none" ELSE r.tier)
           made == BailianLegacy(r)
<1>1. made.body = b /\ made.estimate = e
  <2> HIDE DEF kf, images, seconds, asked, b, e
  <2>1. PICK ok : BailianLegacy(r) = PreparedIf(ok, b, e)
    BY Zenon DEF BailianLegacy, kf, images, seconds, asked, b, e
  <2> QED  BY <2>1, PreparedFields
<1>2. Bills("bailian", r, made) = billed
  <2> HIDE DEF made, asked, seconds, images, kf
  <2>1. made.body.seconds = asked
    BY <1>1, FactFields
  <2> QED  BY <2>1 DEF Bills, WanShapes, Omni
<1>3. \A reserved \in seconds, bill \in billed : bill <= reserved
  BY DEF Optionally
<1>4. asked # {} => seconds # {}
  OBVIOUS
<1>5. Covers("bailian", r, made)
  <2> HIDE DEF asked, seconds, billed, images, kf
  <2>1. /\ made.estimate.images = {images} /\ made.body.images = {images} /\ made.body.outputs = {}
        /\ made.estimate.seconds = seconds /\ made.body.seconds = asked
    BY <1>1, FactFields
  <2> HIDE DEF made
  <2>2. \A reserved \in made.estimate.seconds, bill \in Bills("bailian", r, made) : bill <= reserved
    BY <1>2, <1>3, <2>1
  <2> QED  BY <1>4, <2>1, <2>2 DEF Covers
<1> QED  BY <1>5

(* The length a Wan shape is billed by is the asked one, or five seconds. *)
LEMMA AskedSeconds ==
    ASSUME NEW duration, Optionally(Int, duration)
    PROVE  LET seconds == CHOOSE k \in duration \cup {5} : duration # {} => k \in duration
           IN  /\ seconds \in Int
               /\ duration = {} => seconds = 5
               /\ \A k \in duration : k = seconds
<1> DEFINE seconds == CHOOSE k \in duration \cup {5} : duration # {} => k \in duration
<1>1. \E k \in duration \cup {5} : duration # {} => k \in duration
  OBVIOUS
<1>2. seconds \in duration \cup {5} /\ (duration # {} => seconds \in duration)
  BY <1>1
<1> HIDE DEF seconds
<1>3. seconds \in Int /\ (duration = {} => seconds = 5) /\ \A k \in duration : k = seconds
  BY <1>2 DEF Optionally
<1> QED  BY <1>3 DEF seconds

(* No bill for a Wan shape, its input clip included, exceeds the           *)
(* reservation.                                                            *)
LEMMA WanBilled ==
    ASSUME NEW r, r.shape \in WanShapes, NEW input, Optionally(Int, r.duration),
           r.duration \subseteq Lengths(r.shape, input),
           NEW made, made.body.seconds = r.duration, made.inputVideo = input
    PROVE  \A bill \in Bills("bailian", r, made) : bill <= billed_seconds(r.shape, r.duration, input)
<1> DEFINE seconds == CHOOSE k \in r.duration \cup {5} : r.duration # {} => k \in r.duration
<1>1. /\ seconds \in Int /\ (r.duration = {} => seconds = 5)
      /\ (r.duration = {} \/ r.duration = {seconds})
  BY AskedSeconds
<1>2. \A out \in Ran(r.duration) : out = seconds
  <2> HIDE DEF seconds
  <2> QED  BY <1>1 DEF Ran
<1>3. \A clip \in Clips(input) : clip \in 0..15 /\ (~input => clip = 0)
  BY DEF Clips
<1> SUFFICES ASSUME NEW bill \in Bills("bailian", r, made)
             PROVE  bill <= billed_seconds(r.shape, r.duration, input)
  OBVIOUS
<1>4. CASE r.shape = "wan3"
  <2> DEFINE free == r.duration = {-1} \/ (r.duration = {} /\ input)
  <2>1. bill \in Wan3Bills(r.duration, input)
    BY <1>4 DEF Bills
  <2>2. PICK clip \in Clips(input), out \in IF free THEN 2..30 ELSE Ran(r.duration) :
          bill = Lower(clip + out, 30)
    BY <2>1 DEF Wan3Bills
  <2>3. billed_seconds(r.shape, r.duration, input) =
          IF free THEN 30 ELSE IF input THEN Lower(15 + seconds, 30) ELSE seconds
    BY <1>4 DEF billed_seconds
  <2> HIDE DEF seconds
  <2>4. CASE free
    <3>1. out \in 2..30 /\ clip \in 0..15
      BY <1>3, <2>2, <2>4
    <3> QED  BY <2>2, <2>3, <2>4, <3>1 DEF Lower
  <2>5. CASE ~free
    <3>1. out = seconds /\ clip \in 0..15 /\ (~input => clip = 0)
      BY <1>2, <1>3, <2>2, <2>5
    <3> HIDE DEF free
    <3> QED  BY <1>1, <2>2, <2>3, <2>5, <3>1 DEF Lower
  <2> QED  BY <2>4, <2>5
<1>5. CASE r.shape = "wan-i2v"
  <2>1. bill \in I2vBills(r.duration, input)
    BY <1>5 DEF Bills
  <2>2. PICK clip \in Clips(input) \cap 0..10, out \in Ran(r.duration) : bill = Upper(clip, out)
    BY <2>1 DEF I2vBills
  <2>3. billed_seconds(r.shape, r.duration, input) = IF input THEN Upper(seconds, 10) ELSE seconds
    BY <1>5 DEF billed_seconds
  <2>4. r.duration \subseteq 2..15
    BY <1>5 DEF Lengths
  <2> HIDE DEF seconds
  <2>5. out = seconds /\ seconds \in 2..15 /\ clip \in 0..10 /\ (~input => clip = 0)
    BY <1>1, <1>2, <1>3, <2>2, <2>4
  <2> QED  BY <2>2, <2>3, <2>5 DEF Upper
<1>6. CASE r.shape = "wan-r2v"
  <2>1. bill \in R2vBills(r.duration, input)
    BY <1>6 DEF Bills
  <2>2. PICK clip \in Clips(input), out \in Ran(r.duration) : bill = Lower(clip, 5) + out
    BY <2>1 DEF R2vBills
  <2>3. billed_seconds(r.shape, r.duration, input) = IF input THEN seconds + 5 ELSE seconds
    BY <1>6 DEF billed_seconds
  <2> HIDE DEF seconds
  <2>4. out = seconds /\ clip \in 0..15 /\ (~input => clip = 0)
    BY <1>2, <1>3, <2>2
  <2> QED  BY <1>1, <2>2, <2>3, <2>4 DEF Lower
<1>7. CASE r.shape = "wan-edit"
  <2>1. bill \in EditBills(r.duration)
    BY <1>7 DEF Bills
  <2>2. PICK clip \in 2..10 :
          bill = clip + (IF r.duration \subseteq {0} THEN clip
                         ELSE Lower(clip, CHOOSE k \in r.duration : TRUE))
    BY <2>1 DEF EditBills
  <2>3. billed_seconds(r.shape, r.duration, input) =
          10 + (IF r.duration = {} \/ seconds <= 0 THEN 10 ELSE seconds)
    BY <1>7 DEF billed_seconds
  <2> HIDE DEF seconds
  <2>4. r.duration # {} => (CHOOSE k \in r.duration : TRUE) = seconds
    BY <1>1
  <2>5. CASE r.duration \subseteq {0}
    <3>1. r.duration = {} \/ seconds = 0
      BY <1>1, <2>5
    <3> QED  BY <2>2, <2>3, <2>5, <3>1
  <2>6. CASE ~(r.duration \subseteq {0})
    <3>1. r.duration # {} /\ bill = clip + Lower(clip, seconds) /\ seconds \in 2..10
      BY <1>1, <1>7, <2>2, <2>4, <2>6 DEF Lengths
    <3> QED  BY <2>2, <2>3, <3>1 DEF Lower
  <2> QED  BY <2>5, <2>6
<1> QED  BY <1>4, <1>5, <1>6, <1>7 DEF WanShapes

LEMMA WanMediaCovers ==
    ASSUME NEW r, Optionally(Int, r.duration), r.shape \in WanShapes, WanMedia(r).ok
    PROVE  Covers("bailian", r, WanMedia(r))
<1> DEFINE input == InputVideo(r.shape, r)
           images == Count(r.first) + Count(r.last) + Len(r.images)
           tier == IF r.tier = "none" THEN "1080P" ELSE r.tier
           most == billed_seconds(r.shape, r.duration, input)
           b == Facts(r.duration, {images}, {}, tier)
           e == Facts({most}, {images}, {}, tier)
           made == WanMedia(r)
<1>1. made.body = b /\ made.estimate = e /\ made.inputVideo = input
      /\ r.duration \subseteq Lengths(r.shape, input)
  <2> HIDE DEF input, images, tier, most, b, e
  <2>1. WanMedia(r) = [Prepared(b, e) EXCEPT !.inputVideo = input]
        /\ r.duration \subseteq Lengths(r.shape, input)
    BY DEF WanMedia, Refusal, input, images, tier, most, b, e
  <2> QED  BY <2>1 DEF Prepared
<1>2. Covers("bailian", r, made)
  <2> HIDE DEF made, input, images, tier, most
  <2>1. \A bill \in Bills("bailian", r, made) : bill <= most
    BY <1>1, FactFields, WanBilled DEF most
  <2> QED  BY <1>1, <2>1, FactFields DEF Covers
<1> QED  BY <1>2

LEMMA PrepareCovers ==
    ASSUME NEW d \in Dialects, NEW r, Optionally(Int, r.duration), Prepare(d, r).ok
    PROVE  Covers(d, r, Prepare(d, r))
<1>1. CASE d \in Veo
  <2>1. Prepare(d, r) = VeoPrepare(r)
    BY <1>1, Zenon DEF Prepare, Veo
  <2> QED  BY <1>1, <2>1, VeoCovers
<1>2. CASE d \in Omni
  <2>1. Prepare(d, r) = OmniPrepare(d = "omni_vertex", r)
    BY <1>2, Zenon DEF Prepare, Omni
  <2> QED  BY <1>2, <2>1, OmniCovers
<1>3. CASE d \in MiniMax
  <2>1. Prepare(d, r) = prepare_h3(r) \/ Prepare(d, r) = HailuoPrepare(r)
    BY <1>3 DEF Prepare, MiniMaxPrepare, MiniMax
  <2> QED  BY <1>3, <2>1, H3Covers, HailuoCovers
<1>4. CASE d = "xai"
  <2>1. Prepare(d, r) = XaiPrepare(r)
    BY <1>4 DEF Prepare
  <2> QED  BY <1>4, <2>1, XaiCovers
<1>5. CASE d = "byteplus"
  <2>1. Prepare(d, r) = BytePlusPrepare(r)
    BY <1>5 DEF Prepare
  <2> QED  BY <1>5, <2>1, BytePlusCovers
<1>6. CASE d = "kling"
  <2>1. Prepare(d, r) = KlingPrepare(r)
    BY <1>6 DEF Prepare
  <2> QED  BY <1>6, <2>1, KlingCovers
<1>7. CASE d = "gmi"
  <2>1. Prepare(d, r) = GmiPrepare(r)
    BY <1>7 DEF Prepare
  <2> QED  BY <1>7, <2>1, GmiCovers
<1>8. CASE d = "wan"
  <2>1. Prepare(d, r) = WanPrepare(r)
    BY <1>8 DEF Prepare
  <2> QED  BY <1>8, <2>1, WanCovers
<1>9. CASE d = "bailian"
  <2>1. Prepare(d, r) = BailianPrepare(r)
    BY <1>9 DEF Prepare
  <2>2. ~Refusal.ok
    BY DEF Refusal
  <2>3. CASE r.shape \in WanShapes
    <3>1. BailianPrepare(r) = WanMedia(r)
      BY <2>3 DEF BailianPrepare, WanShapes, Given
    <3> QED  BY <1>9, <2>1, <2>3, <3>1, WanMediaCovers
  <2>4. CASE r.shape \notin WanShapes
    <3>1. BailianPrepare(r) \in {Refusal, BailianLegacy(r)}
      BY <2>4 DEF BailianPrepare
    <3> QED  BY <1>9, <2>1, <2>2, <2>4, <3>1, LegacyCovers
  <2> QED  BY <2>3, <2>4
<1> QED  BY <1>1, <1>2, <1>3, <1>4, <1>5, <1>6, <1>7, <1>8, <1>9 DEF Dialects

-----------------------------------------------------------------------------
(* Only what names a task is asked about. *)
LEMMA PollsNamed == ASSUME NEW d \in Keyed, NEW name, Polls(d, name) PROVE name # "none"
  BY Zenon DEF Keyed, MiniMax, Veo, Omni, Polls, XaiPolls, BytePlusPolls, KlingPolls, BailianPolls, MiniMaxPolls,
         identifier, valid_id

LEMMA TaskInitInv == TaskInit => TaskInv
<1>1. ~Terminal(Blank)
  BY QuietEvidence
<1> QED  BY <1>1 DEF TaskInit, TaskStart, TaskInv, Refusal, Unclear, Evidence

LEMMA TaskNextInv == TaskInv /\ [TaskNext]_taskVars => TaskInv'
<1> SUFFICES ASSUME TaskInv, [TaskNext]_taskVars PROVE TaskInv'
  OBVIOUS
<1> USE DEF TaskInv
<1>1. CASE PrepareTask
  <2>1. PICK asked \in Requests(dialect) :
          /\ request' = asked /\ prepared' = Prepare(dialect, asked)
          /\ result' = IF Prepare(dialect, asked).ok THEN "none" ELSE "refused"
          /\ pc' = IF Prepare(dialect, asked).ok THEN "prepared" ELSE "done"
    BY <1>1 DEF PrepareTask
  <2>2. pc = "start" /\ UNCHANGED <<dialect, started, answer, id, outcome, observation>>
    BY <1>1 DEF PrepareTask
  <2>3. Evidence(dialect, answer, observation)'
    BY <2>2
  <2> QED  BY <2>1, <2>2, <2>3
<1>2. CASE SendTask
  <2>1. /\ pc = "prepared" /\ pc' = "sent" /\ prepared' = Refusal
        /\ UNCHANGED <<dialect, started, answer, id, outcome, observation, result>>
    BY <1>2 DEF SendTask
  <2>2. Evidence(dialect, answer, observation)' /\ ~Refusal.ok
    BY <2>1, Zenon DEF Refusal
  <2> QED  BY <2>1, <2>2, Zenon
<1>3. CASE SubmitTask
  <2>1. PICK said \in SubmitAnswers(dialect), runs \in BOOLEAN :
          /\ Truthful(said, runs) /\ started' = runs /\ answer' = said
          /\ outcome' = Submit(dialect, said) /\ id' = Submit(dialect, said).id
          /\ observation' = Submit(dialect, said).observation
          /\ pc' = CASE Submit(dialect, said).kind = "accepted" -> "polling"
                     [] Submit(dialect, said).kind = "terminal" -> "observed"
                     [] OTHER -> "done"
          /\ result' = CASE Submit(dialect, said).kind = "rejected" -> "rejected"
                         [] Submit(dialect, said).kind = "unknown" -> "unclear"
                         [] OTHER -> "none"
    BY <1>3 DEF SubmitTask
  <2>2. UNCHANGED <<dialect, request, prepared>>
    BY <1>3 DEF SubmitTask
  <2>3. PICK out : out = Submit(dialect, said)
    BY Zenon
  <2>4. Outcome(dialect, said, out)
    BY <2>3, SubmitOutcome
  <2>5. result' # "stuck" /\ (result' = "rejected" => out.kind = "rejected")
    BY <2>1, <2>3
  <2>6. /\ pc' \in {"polling", "observed", "done"}
        /\ pc' = "observed" => out.kind = "terminal"
        /\ pc' = "polling" => out.kind = "accepted"
    BY <2>1, <2>3
  <2>7. out.kind = "rejected" => ~started'
    BY <2>1, <2>4 DEF Outcome, Denied, Truthful
  <2>8. Evidence(dialect, answer, observation)'
    <3>1. Evidence(dialect, said, out.observation)
      BY <2>4, Zenon DEF Outcome, Evidence
    <3> QED  BY <2>1, <2>2, <2>3, <3>1
  <2>9. outcome' = out /\ observation' = out.observation /\ id' = out.id
    BY <2>1, <2>3
  <2> QED  BY <2>2, <2>4, <2>5, <2>6, <2>7, <2>8, <2>9, Zenon DEF Outcome
<1>4. CASE PollTask
  <2>1. PICK said \in PollAnswers(dialect) :
          /\ answer' = IF Terminal(Observe(dialect, said)) THEN said ELSE answer
          /\ observation' = Observe(dialect, said)
          /\ pc' = IF Terminal(Observe(dialect, said)) THEN "observed" ELSE "polling"
    BY <1>4, Zenon DEF PollTask
  <2>2. /\ pc = "polling" /\ Polls(dialect, id)
        /\ UNCHANGED <<dialect, request, prepared, started, id, outcome, result>>
    BY <1>4 DEF PollTask
  <2>3. PICK seen : seen = Observe(dialect, said)
    BY Zenon
  <2>4. Evidence(dialect, answer, observation)'
    <3>1. Evidence(dialect, said, seen)
      BY <2>3, ObserveEvidence
    <3>2. CASE Terminal(seen)
      BY <2>1, <2>2, <2>3, <3>1, <3>2, Zenon
    <3>3. CASE ~Terminal(seen)
      BY <2>1, <2>2, <2>3, <3>3, Zenon DEF Evidence
    <3> QED  BY <3>2, <3>3
  <2>5. dialect \in Keyed => id # "none"
    BY <2>2, PollsNamed, Zenon
  <2>6. result # "stuck" /\ result' = result
    BY <2>2
  <2> QED  BY <2>1, <2>2, <2>3, <2>4, <2>5, <2>6, Zenon
<1>5. CASE PollRefused
  <2>1. /\ pc = "polling" /\ pc' = "done" /\ result' = "stuck"
        /\ UNCHANGED <<dialect, request, prepared, started, answer, id, outcome, observation>>
    BY <1>5, Zenon DEF PollRefused
  <2>2. Evidence(dialect, answer, observation)' /\ ~Terminal(observation)'
    BY <2>1
  <2> QED  BY <2>1, <2>2
<1>6. CASE SettleTask
  <2>1. /\ pc = "observed" /\ Terminal(observation) /\ pc' = "done"
        /\ UNCHANGED <<dialect, request, prepared, started, answer, id, outcome, observation>>
    BY <1>6 DEF SettleTask
  <2>2. PICK file :
          result' = CASE observation.kind = "failed" ->
                           IF Failure(dialect, observation) THEN "failed" ELSE "stuck"
                      [] observation.kind = "succeeded" /\ Fetch(dialect, observation) = "refused" -> "stuck"
                      [] observation.kind = "succeeded" /\ Fetch(dialect, observation) # "refused" ->
                           IF Render(dialect, observation, id, file) THEN "rendered" ELSE "stuck"
    BY <1>6 DEF SettleTask
  <2>3. observation.kind = "failed" \/ observation.kind = "succeeded"
    BY <2>1, Zenon DEF Terminal
  <2>4. result' # "rejected"
    BY <2>2, <2>3
  <2>5. result' = "stuck" => observation.ref = "file"
    <3> SUFFICES ASSUME observation.ref # "file" PROVE result' # "stuck"
      BY Zenon
    <3>1. /\ Fetch(dialect, observation) # "refused"
          /\ observation.kind = "failed" => Failure(dialect, observation)
          /\ observation.kind = "succeeded" => Render(dialect, observation, id, file)
      BY <2>1, SettleRenders, Zenon
    <3> QED  BY <2>2, <2>3, <3>1
  <2>6. Evidence(dialect, answer, observation)'
    BY <2>1, Zenon
  <2> QED  BY <2>1, <2>4, <2>5, <2>6
<1>7. CASE UNCHANGED taskVars
  <2>1. UNCHANGED <<dialect, pc, request, prepared, started, answer, id, outcome, observation, result>>
    BY <1>7, Zenon DEF taskVars
  <2>2. Evidence(dialect, answer, observation)'
    BY <2>1
  <2> QED  BY <2>1, <2>2
<1> QED  BY <1>1, <1>2, <1>3, <1>4, <1>5, <1>6, <1>7, Zenon DEF TaskNext

(* Whatever is asked and answered, a task stays within its invariant. *)
THEOREM TaskInvariance == TaskSpec => []TaskInv
  BY TaskInitInv, TaskNextInv, PTL DEF TaskSpec

(* For every answer to a submission: parse_submit_response reports it      *)
(* rejected only when no task runs, and what it accepts can be asked about *)
(* or is one of the named exceptions.                                      *)
THEOREM NeverLost == TaskSpec => []TaskNeverLost
<1>1. TaskInv => TaskNeverLost
  BY DEF TaskInv, TaskNeverLost, Followed
<1> QED  BY <1>1, TaskInvariance, PTL

(* For every answer to a submission and to every poll: a task is settled   *)
(* only by what parse_submit_response or parse_observation read in one of  *)
(* them, and what they read can be rendered or reported.                   *)
THEOREM SettledByEvidence == TaskSpec => []SettledOnEvidence
<1>1. TaskInv => SettledOnEvidence
  BY Zenon DEF TaskInv, SettledOnEvidence, Evidence, Counted, Metered, Primaries, There, Terminal
<1> QED  BY <1>1, TaskInvariance, PTL

(* For every request of every dialect: what build_submit_request estimates *)
(* covers whatever the upstream may bill for the body it sends.            *)
THEOREM ReservationCovers == TaskSpec => []ReservationCoversBill
<1>1. TaskInv => ReservationCoversBill
  <2> SUFFICES ASSUME TaskInv, prepared.ok PROVE Covers(dialect, request, prepared)
    BY DEF ReservationCoversBill, Covers
  <2>1. /\ dialect \in Dialects /\ prepared = Prepare(dialect, request)
        /\ Optionally(Int, request.duration)
    BY RequestsAssumption DEF TaskInv
  <2> QED  BY <2>1, PrepareCovers
<1> QED  BY <1>1, TaskInvariance, PTL
=============================================================================
