---------------------- MODULE ConnectionHistoryProofs -----------------------
(***************************************************************************)
(* What the connection history guarantees for every capacity, idle time    *)
(* and number of requests.  The inductive invariant: an entry was          *)
(* announced by the report that gave its pair the identifier, at the       *)
(* moment the pair was first seen; and no identifier above next_id was     *)
(* ever announced.                                                         *)
(***************************************************************************)
EXTENDS ConnectionHistory, SequenceTheorems, FiniteSetTheorems, TLAPS

(* What an entry e of a history at time t is. *)
Good(e, t, n, told) ==
    /\ e \in Entry /\ e.last <= t /\ e.id <= n
    /\ \E j \in 1..Len(told) : told[j].fingerprint = e.id /\ told[j].pair = e.pair /\ told[j].at = e.first

(* The entries: each good, no pair twice, in the order of last use. *)
Sound(es, t, n, told) ==
    /\ es \in Seq(Entry)
    /\ \A k \in 1..Len(es) : Good(es[k], t, n, told)
    /\ \A j, k \in 1..Len(es) : j < k => es[j].pair # es[k].pair /\ es[j].last <= es[k].last

(* The reports: identifiers up to n, each of one pair, and reuse as told. *)
Consistent(told, n) ==
    /\ told \in Seq(Report)
    /\ \A k \in 1..Len(told) : told[k].fingerprint <= n
    /\ \A j, k \in 1..Len(told) :
          told[j].fingerprint = told[k].fingerprint =>
              told[j].fingerprint = Unknown \/ told[j].pair = told[k].pair
    /\ \A k \in 1..Len(told) : told[k].reused =>
          \E j \in 1..(k - 1) : told[j].fingerprint = told[k].fingerprint /\ told[j].at < told[k].started

HistoryInv ==
    /\ HistoryTypeOK
    /\ Len(entries) <= MaxHistory
    /\ Sound(entries, now, next_id, reports)
    /\ Consistent(reports, next_id)

(* The bounds are numbers. *)
LEMMA Bounds ==
    /\ MaxHistory \in Nat /\ MaxHistory > 0 /\ TTL \in Nat
           /\ MaxId \in Nat /\ MaxTime \in Nat /\ MaxReports \in Nat
  BY HistoryAssumption

(* Some of the entries, in their order, are as sound as all of them. *)
LEMMA SelectionSound ==
    ASSUME NEW es, NEW t, NEW n, NEW told, Sound(es, t, n, told),
           NEW some \in Seq(Entry), NEW g \in [1..Len(some) -> 1..Len(es)],
           \A i \in 1..Len(some) : some[i] = es[g[i]],
           \A i, j \in 1..Len(some) : i < j => g[i] < g[j]
    PROVE  Sound(some, t, n, told)
<1>1. ASSUME NEW k \in 1..Len(some) PROVE Good(some[k], t, n, told)
  BY <1>1 DEF Sound
<1>2. ASSUME NEW j \in 1..Len(some), NEW k \in 1..Len(some), j < k
      PROVE  some[j].pair # some[k].pair /\ some[j].last <= some[k].last
  <2>1. g[j] \in 1..Len(es) /\ g[k] \in 1..Len(es) /\ g[j] < g[k] /\ some[j] = es[g[j]] /\ some[k] = es[g[k]]
    BY <1>2
  <2> QED  BY <2>1 DEF Sound
<1> QED  BY <1>1, <1>2 DEF Sound

(* A new last entry. *)
LEMMA AppendSound ==
    ASSUME NEW es, NEW t \in Nat, NEW n, NEW told, Sound(es, t, n, told),
           NEW e, Good(e, t, n, told), e.last = t,
           \A k \in 1..Len(es) : es[k].pair # e.pair
    PROVE  Sound(Append(es, e), t, n, told) /\ Len(Append(es, e)) = Len(es) + 1
<1> DEFINE more == Append(es, e)
<1>1. es \in Seq(Entry) /\ e \in Entry /\ Len(es) \in Nat
  BY LenProperties DEF Sound, Good
<1>2. /\ more \in Seq(Entry) /\ Len(more) = Len(es) + 1 /\ more[Len(es) + 1] = e
      /\ \A i \in 1..Len(es) : more[i] = es[i]
  BY <1>1, AppendProperties
<1> HIDE DEF more
<1>3. ASSUME NEW k \in 1..Len(more) PROVE Good(more[k], t, n, told)
  <2>1. k \in 1..Len(es) \/ k = Len(es) + 1
    BY <1>1, <1>2
  <2> QED  BY <1>2, <2>1 DEF Sound
<1>4. ASSUME NEW j \in 1..Len(more), NEW k \in 1..Len(more), j < k
      PROVE  more[j].pair # more[k].pair /\ more[j].last <= more[k].last
  <2>1. j \in 1..Len(es) /\ (k \in 1..Len(es) \/ k = Len(es) + 1)
    BY <1>1, <1>2, <1>4
  <2>2. CASE k \in 1..Len(es)
    BY <1>2, <1>4, <2>1, <2>2 DEF Sound
  <2>3. CASE k = Len(es) + 1
    BY <1>2, <2>1, <2>3 DEF Sound, Good
  <2> QED  BY <2>1, <2>2, <2>3
<1>5. Sound(more, t, n, told)
  BY <1>2, <1>3, <1>4 DEF Sound
<1> QED  BY <1>2, <1>5 DEF more

(* More time, more identifiers and one more report leave it sound. *)
LEMMA LaterSound ==
    ASSUME NEW es, NEW t \in Nat, NEW n \in Nat, NEW told \in Seq(Report), Sound(es, t, n, told),
           NEW t2 \in Nat, t <= t2, NEW n2 \in Nat, n <= n2, NEW r \in Report
    PROVE  Sound(es, t2, n2, told) /\ Sound(es, t2, n2, Append(told, r))
<1> DEFINE more == Append(told, r)
<1>1. /\ Len(told) \in Nat /\ Len(more) = Len(told) + 1
      /\ \A i \in 1..Len(told) : more[i] = told[i] /\ i \in 1..Len(more)
  <2>1. Len(told) \in Nat
    BY LenProperties, Zenon
  <2>2. Len(more) = Len(told) + 1 /\ \A i \in 1..Len(told) : more[i] = told[i]
    BY AppendProperties
  <2> QED  BY <2>1, <2>2
<1> HIDE DEF more
<1>2. ASSUME NEW e, Good(e, t, n, told) PROVE Good(e, t2, n2, told) /\ Good(e, t2, n2, more)
  <2>1. e \in Entry /\ e.last \in Nat /\ e.id \in Nat
    BY <1>2, Bounds DEF Good, Entry
  <2>2. e.last <= t2 /\ e.id <= n2
    BY <1>2, <2>1 DEF Good
  <2> QED  BY <1>1, <1>2, <2>1, <2>2 DEF Good
<1>3. Sound(es, t2, n2, told) /\ Sound(es, t2, n2, more)
  BY <1>2 DEF Sound
<1> QED  BY <1>3 DEF more

(* One more report of a known pair, or under a new identifier, or none. *)
LEMMA AppendConsistent ==
    ASSUME NEW told, NEW n \in Nat, Consistent(told, n), NEW n2 \in Nat, n <= n2, NEW r \in Report,
           r.fingerprint <= n2,
           \A j \in 1..Len(told) : told[j].fingerprint = r.fingerprint =>
               r.fingerprint = Unknown \/ told[j].pair = r.pair,
           r.reused => \E j \in 1..Len(told) : told[j].fingerprint = r.fingerprint /\ told[j].at < r.started
    PROVE  Consistent(Append(told, r), n2)
<1> DEFINE more == Append(told, r)
<1>1. told \in Seq(Report)
  BY DEF Consistent
<1>2. Len(told) \in Nat
  BY <1>1, LenProperties, Zenon
<1>3. /\ more \in Seq(Report) /\ Len(more) = Len(told) + 1 /\ more[Len(told) + 1] = r
      /\ \A i \in 1..Len(told) : more[i] = told[i]
  BY <1>1, AppendProperties
<1> HIDE DEF more
<1>4. \A k \in 1..Len(more) : k \in 1..Len(told) \/ k = Len(told) + 1
  BY <1>2, <1>3
<1>5. \A k \in 1..Len(told) : told[k].fingerprint \in Nat
  <2>1. \A k \in 1..Len(told) : told[k] \in Report
    BY <1>1, ElementOfSeq, Zenon
  <2>2. \A x \in Report : x.fingerprint \in Nat
    BY Bounds DEF Report
  <2> QED  BY <2>1, <2>2
<1>6. ASSUME NEW k \in 1..Len(more) PROVE more[k].fingerprint <= n2
  <2>1. CASE k \in 1..Len(told)
    <3>1. told[k].fingerprint \in Nat /\ told[k].fingerprint <= n
      BY <1>5, <2>1 DEF Consistent
    <3> QED  BY <1>3, <2>1, <3>1
  <2>2. CASE k = Len(told) + 1
    BY <1>3, <2>2
  <2> QED  BY <1>4, <2>1, <2>2
<1>7. ASSUME NEW j \in 1..Len(more), NEW k \in 1..Len(more), more[j].fingerprint = more[k].fingerprint
      PROVE  more[j].fingerprint = Unknown \/ more[j].pair = more[k].pair
  <2>1. CASE j \in 1..Len(told) /\ k \in 1..Len(told)
    BY <1>3, <1>7, <2>1 DEF Consistent
  <2>2. CASE j = Len(told) + 1 /\ k \in 1..Len(told)
    BY <1>3, <1>7, <2>2
  <2>3. CASE k = Len(told) + 1 /\ j \in 1..Len(told)
    BY <1>3, <1>7, <2>3
  <2> QED  BY <1>4, <2>1, <2>2, <2>3
<1>8. ASSUME NEW k \in 1..Len(more), more[k].reused
      PROVE  \E j \in 1..(k - 1) : more[j].fingerprint = more[k].fingerprint /\ more[j].at < more[k].started
  <2>1. CASE k \in 1..Len(told)
    <3>1. PICK j \in 1..(k - 1) : told[j].fingerprint = told[k].fingerprint /\ told[j].at < told[k].started
      BY <1>3, <1>8, <2>1 DEF Consistent
    <3>2. j \in 1..Len(told)
      BY <1>2, <2>1
    <3> QED  BY <1>3, <2>1, <3>1, <3>2
  <2>2. CASE k = Len(told) + 1
    <3>1. PICK j \in 1..Len(told) : told[j].fingerprint = r.fingerprint /\ told[j].at < r.started
      BY <1>3, <1>8, <2>2
    <3>2. j \in 1..(k - 1)
      BY <1>2, <2>2
    <3> QED  BY <1>3, <2>2, <3>1, <3>2
  <2> QED  BY <1>4, <2>1, <2>2
<1>9. Consistent(more, n2)
  BY <1>3, <1>6, <1>7, <1>8 DEF Consistent
<1> QED  BY <1>9 DEF more
-----------------------------------------------------------------------------
(* Rank numbers the entries that are kept from 1 on, in their order.       *)
LEMMA RankCounts ==
    ASSUME entries \in Seq(Entry)
    PROVE  /\ Cardinality(Fresh) \in Nat /\ Cardinality(Fresh) <= Len(entries) /\ Len(entries) \in Nat
           /\ \A k \in Fresh : Rank(k) \in 1..Cardinality(Fresh)
           /\ \A j, k \in Fresh : j < k => Rank(j) < Rank(k)
           /\ \A i \in 1..Cardinality(Fresh) : \E k \in Fresh : Rank(k) = i
<1> DEFINE upto(k) == {j \in Fresh : j <= k}
<1>1. Len(entries) \in Nat /\ Fresh \in SUBSET (1..Len(entries))
  BY LenProperties, Zenon DEF Fresh
<1>2. IsFiniteSet(1..Len(entries)) /\ Cardinality(1..Len(entries)) = Len(entries)
  <2>1. 1 \in Int /\ Len(entries) \in Int
    BY <1>1
  <2>2. /\ IsFiniteSet(1..Len(entries))
        /\ Cardinality(1..Len(entries)) = IF 1 > Len(entries) THEN 0 ELSE Len(entries) - 1 + 1
    BY <2>1, FS_Interval, Zenon
  <2> QED  BY <1>1, <2>2
<1>3. IsFiniteSet(Fresh) /\ Cardinality(Fresh) <= Len(entries)
  <2>1. IsFiniteSet(Fresh) /\ Cardinality(Fresh) <= Cardinality(1..Len(entries))
    BY <1>1, <1>2, FS_Subset, Zenon
  <2> QED  BY <1>2, <2>1
<1>4. Cardinality(Fresh) \in Nat
  BY <1>3, FS_CardinalityType, Zenon
<1>5. ASSUME NEW k
      PROVE  upto(k) \in SUBSET Fresh /\ IsFiniteSet(upto(k)) /\ Cardinality(upto(k)) \in Nat
             /\ Cardinality(upto(k)) <= Cardinality(Fresh)
  <2>1. upto(k) \in SUBSET Fresh
    OBVIOUS
  <2>2. IsFiniteSet(upto(k)) /\ Cardinality(upto(k)) <= Cardinality(Fresh)
    BY <1>3, <2>1, FS_Subset, Zenon
  <2> QED  BY <2>1, <2>2, FS_CardinalityType, Zenon
<1>6. \A k : Rank(k) = Cardinality(upto(k))
  BY DEF Rank
<1>7. ASSUME NEW j \in Fresh, NEW k \in Fresh, j < k PROVE Rank(j) < Rank(k)
  <2>0. j \in Int /\ k \in Int
    BY <1>1
  <2>1. upto(j) \in SUBSET upto(k) /\ k \in upto(k) /\ k \notin upto(j)
    <3>1. \A i \in Fresh : i \in Int
      BY <1>1
    <3>2. ASSUME NEW i \in Fresh, i <= j PROVE i <= k
      <4>1. i \in Int
        BY <3>1
      <4> QED  BY <1>7, <2>0, <3>2, <4>1
    <3>3. upto(j) \in SUBSET upto(k)
      BY <3>2
    <3>4. k <= k /\ ~(k <= j)
      BY <1>7, <2>0
    <3> QED  BY <3>3, <3>4
  <2>2. Cardinality(upto(j)) <= Cardinality(upto(k)) /\ (Cardinality(upto(k)) = Cardinality(upto(j)) => upto(k) = upto(j))
    BY <1>5, <2>1, FS_Subset, Zenon
  <2>3. upto(k) # upto(j)
    BY <2>1
  <2>4. Cardinality(upto(j)) \in Nat /\ Cardinality(upto(k)) \in Nat
    BY <1>5, Zenon
  <2> HIDE DEF upto
  <2>5. Cardinality(upto(j)) < Cardinality(upto(k))
    BY <2>2, <2>3, <2>4
  <2> QED  BY <1>6, <2>5
<1>8. ASSUME NEW k \in Fresh PROVE Rank(k) \in 1..Cardinality(Fresh)
  <2>1. k \in upto(k)
    BY <1>1
  <2>2. Cardinality(upto(k)) # 0
    <3>1. upto(k) # {} /\ IsFiniteSet(upto(k))
      BY <1>5, <2>1, Zenon
    <3> QED  BY <3>1, FS_EmptySet, Zenon
  <2>3. Cardinality(upto(k)) \in Nat /\ Cardinality(upto(k)) <= Cardinality(Fresh)
    BY <1>5, Zenon
  <2> HIDE DEF upto
  <2>4. Cardinality(upto(k)) \in 1..Cardinality(Fresh)
    BY <1>4, <2>2, <2>3
  <2> QED  BY <1>6, <2>4
<1> DEFINE ranks == [k \in Fresh |-> Rank(k)]
<1>9. ranks \in Injection(Fresh, 1..Cardinality(Fresh))
  <2>1. ranks \in [Fresh -> 1..Cardinality(Fresh)]
    BY <1>8
  <2>2. ASSUME NEW j \in Fresh, NEW k \in Fresh, ranks[j] = ranks[k] PROVE j = k
    <3>1. j \in Int /\ k \in Int /\ Rank(j) = Rank(k)
      BY <1>1, <2>2
    <3>2. Rank(j) \in Int /\ Rank(k) \in Int
      BY <1>8
    <3>3. ~(j < k) /\ ~(k < j)
      BY <1>7, <3>1, <3>2
    <3> QED  BY <3>1, <3>3
  <2> QED  BY <2>1, <2>2 DEF Injection, IsInjective
<1>10. ranks \in Surjection(Fresh, 1..Cardinality(Fresh))
  <2>1. IsFiniteSet(1..Cardinality(Fresh)) /\ Cardinality(1..Cardinality(Fresh)) = Cardinality(Fresh)
    <3>1. 1 \in Int /\ Cardinality(Fresh) \in Int
      BY <1>4
    <3>2. /\ IsFiniteSet(1..Cardinality(Fresh))
          /\ Cardinality(1..Cardinality(Fresh)) = IF 1 > Cardinality(Fresh) THEN 0 ELSE Cardinality(Fresh) - 1 + 1
      BY <3>1, FS_Interval, Zenon
    <3> QED  BY <1>4, <3>2
  <2> QED  BY <1>9, <2>1, FS_Injection, Zenon
<1>11. ASSUME NEW i \in 1..Cardinality(Fresh) PROVE \E k \in Fresh : Rank(k) = i
  <2>1. \E k \in Fresh : ranks[k] = i
    BY <1>10, Zenon DEF Surjection
  <2> QED  BY <2>1
<1> QED  BY <1>1, <1>3, <1>4, <1>7, <1>8, <1>11

(* retain keeps some of the entries, in their order. *)
LEMMA RetainedSound ==
    ASSUME NEW t, NEW n, NEW told, Sound(entries, t, n, told)
    PROVE  Sound(Retained, t, n, told) /\ Len(Retained) <= Len(entries)
<1> DEFINE g == [i \in 1..Cardinality(Fresh) |-> CHOOSE k \in Fresh : Rank(k) = i]
<1>1. entries \in Seq(Entry)
  BY DEF Sound
<1>2. /\ Cardinality(Fresh) \in Nat /\ Cardinality(Fresh) <= Len(entries) /\ Len(entries) \in Nat
      /\ \A k \in Fresh : Rank(k) \in 1..Cardinality(Fresh)
      /\ \A j, k \in Fresh : j < k => Rank(j) < Rank(k)
      /\ \A i \in 1..Cardinality(Fresh) : \E k \in Fresh : Rank(k) = i
  BY <1>1, RankCounts
<1>3. \A i \in 1..Cardinality(Fresh) : g[i] \in Fresh /\ Rank(g[i]) = i
  BY <1>2
<1>4. Fresh \subseteq 1..Len(entries)
  BY DEF Fresh
<1>5. g \in [1..Cardinality(Fresh) -> 1..Len(entries)]
  BY <1>3, <1>4, Zenon
<1>6. Retained = [i \in 1..Cardinality(Fresh) |-> entries[g[i]]]
  BY DEF Retained
<1>7. \A i \in 1..Cardinality(Fresh) : entries[g[i]] \in Entry
  BY <1>1, <1>5, ElementOfSeq, Zenon
<1> HIDE DEF g
<1>8. Retained \in [1..Cardinality(Fresh) -> Entry]
  BY <1>6, <1>7
<1>9. Retained \in Seq(Entry)
  BY <1>2, <1>8, SeqDef
<1>10. Len(Retained) = Cardinality(Fresh)
  BY <1>2, <1>8, <1>9, LenProperties
<1>11. ASSUME NEW i \in 1..Len(Retained), NEW j \in 1..Len(Retained), i < j PROVE g[i] < g[j]
  <2>1. g[i] \in Fresh /\ g[j] \in Fresh /\ Rank(g[i]) = i /\ Rank(g[j]) = j /\ i \in Int /\ j \in Int
    BY <1>2, <1>3, <1>10
  <2>2. g[i] \in Int /\ g[j] \in Int
    <3>1. g[i] \in 1..Len(entries) /\ g[j] \in 1..Len(entries)
      BY <1>4, <2>1, Zenon
    <3> QED  BY <3>1
  <2>3. g[i] # g[j]
    BY <1>11, <2>1
  <2>4. ~(g[j] < g[i])
    BY <1>2, <1>11, <2>1
  <2> QED  BY <2>2, <2>3, <2>4
<1>12. \A i \in 1..Len(Retained) : Retained[i] = entries[g[i]]
  BY <1>6, <1>10, Zenon
<1>13. g \in [1..Len(Retained) -> 1..Len(entries)]
  BY <1>5, <1>10
<1>14. Sound(Retained, t, n, told)
  BY <1>9, <1>11, <1>12, <1>13, SelectionSound
<1> QED  BY <1>2, <1>10, <1>14

(* Taking one entry out leaves the others in their order. *)
LEMMA RemovedSound ==
    ASSUME NEW es, NEW t, NEW n, NEW told, Sound(es, t, n, told), NEW k \in 1..Len(es)
    PROVE  /\ Sound(RemoveAt(es, k), t, n, told)
           /\ Len(RemoveAt(es, k)) + 1 = Len(es) /\ Len(es) \in Nat /\ Len(RemoveAt(es, k)) \in Nat
           /\ \A i \in 1..Len(RemoveAt(es, k)) : RemoveAt(es, k)[i].pair # es[k].pair
<1> DEFINE before == SubSeq(es, 1, k - 1)
           after == SubSeq(es, k + 1, Len(es))
           rest == before \o after
           g == [i \in 1..(Len(es) - 1) |-> IF i < k THEN i ELSE i + 1]
<1>1. es \in Seq(Entry) /\ Len(es) \in Nat /\ k \in Nat
  BY LenProperties DEF Sound
<1>2. \A i \in 1..Len(es) : es[i] \in Entry
  BY <1>1, ElementOfSeq, Zenon
<1>3. /\ before \in Seq(Entry) /\ Len(before) = k - 1
      /\ \A i \in 1..(k - 1) : before[i] = es[i]
  <2>1. 1 \in Int /\ k - 1 \in Int /\ \A i \in 1..(k - 1) : es[i] \in Entry
    BY <1>1, <1>2
  <2>2. /\ before \in Seq(Entry)
        /\ Len(before) = IF 1 <= k - 1 THEN (k - 1) - 1 + 1 ELSE 0
        /\ \A i \in 1..((k - 1) - 1 + 1) : before[i] = es[1 + i - 1]
    BY <2>1, SubSeqProperties
  <2>3. (k - 1) - 1 + 1 = k - 1 /\ \A i \in 1..(k - 1) : 1 + i - 1 = i
    BY <1>1
  <2> HIDE DEF before
  <2> QED  BY <1>1, <2>2, <2>3
<1>4. /\ after \in Seq(Entry) /\ Len(after) = Len(es) - k
      /\ \A i \in 1..(Len(es) - k) : after[i] = es[k + i]
  <2>1. k + 1 \in Int /\ Len(es) \in Int /\ \A i \in (k + 1)..Len(es) : es[i] \in Entry
    BY <1>1, <1>2
  <2>2. /\ after \in Seq(Entry)
        /\ Len(after) = IF k + 1 <= Len(es) THEN Len(es) - (k + 1) + 1 ELSE 0
        /\ \A i \in 1..(Len(es) - (k + 1) + 1) : after[i] = es[(k + 1) + i - 1]
    BY <2>1, SubSeqProperties
  <2>3. Len(es) - (k + 1) + 1 = Len(es) - k /\ \A i \in 1..(Len(es) - k) : (k + 1) + i - 1 = k + i
    BY <1>1
  <2> HIDE DEF after
  <2>4. Len(after) = Len(es) - k
    BY <1>1, <2>2
  <2>5. ASSUME NEW i \in 1..(Len(es) - k) PROVE after[i] = es[k + i]
    <3>1. i \in 1..(Len(es) - (k + 1) + 1) /\ (k + 1) + i - 1 = k + i
      BY <1>1
    <3> QED  BY <2>2, <3>1
  <2> QED  BY <2>2, <2>4, <2>5
<1> HIDE DEF before, after
<1>5. /\ rest \in Seq(Entry) /\ Len(rest) = Len(before) + Len(after)
      /\ \A i \in 1..(Len(before) + Len(after)) : rest[i] = IF i <= Len(before) THEN before[i] ELSE after[i - Len(before)]
  BY <1>3, <1>4, ConcatProperties, Zenon
<1>6. Len(rest) = Len(es) - 1
  BY <1>1, <1>3, <1>4, <1>5
<1> HIDE DEF rest
<1>7. ASSUME NEW i \in 1..Len(rest) PROVE rest[i] = es[g[i]] /\ g[i] \in 1..Len(es) /\ g[i] # k
  <2>1. i \in 1..(Len(es) - 1) /\ g[i] = (IF i < k THEN i ELSE i + 1) /\ i \in Int
    BY <1>1, <1>6
  <2>2. i \in 1..(Len(before) + Len(after))
    BY <1>1, <1>3, <1>4, <2>1
  <2>3. CASE i < k
    <3>1. i <= Len(before) /\ i \in 1..(k - 1) /\ g[i] = i
      BY <1>1, <1>3, <2>1, <2>3
    <3>2. rest[i] = es[i]
      BY <1>3, <1>5, <2>2, <3>1
    <3> QED  BY <1>1, <2>1, <2>3, <3>1, <3>2
  <2>4. CASE ~(i < k)
    <3>1. ~(i <= Len(before)) /\ i - Len(before) \in 1..(Len(es) - k) /\ k + (i - Len(before)) = i + 1 /\ g[i] = i + 1
      BY <1>1, <1>3, <2>1, <2>4
    <3>2. rest[i] = after[i - Len(before)]
      BY <1>5, <2>2, <3>1
    <3>3. after[i - Len(before)] = es[k + (i - Len(before))]
      BY <1>4, <3>1
    <3>4. g[i] \in 1..Len(es) /\ g[i] # k
      BY <1>1, <2>1, <2>4, <3>1
    <3> QED  BY <3>1, <3>2, <3>3, <3>4
  <2> QED  BY <2>3, <2>4
<1>8. g \in [1..Len(rest) -> 1..Len(es)]
  BY <1>1, <1>6
<1>9. \A i, j \in 1..Len(rest) : i < j => g[i] < g[j]
  BY <1>1, <1>6
<1> HIDE DEF g
<1>10. Sound(rest, t, n, told)
  <2>1. \A i \in 1..Len(rest) : rest[i] = es[g[i]]
    BY <1>7
  <2> QED  BY <1>5, <1>8, <1>9, <2>1, SelectionSound, Zenon
<1>11. ASSUME NEW i \in 1..Len(rest) PROVE rest[i].pair # es[k].pair
  <2>1. rest[i] = es[g[i]] /\ g[i] \in 1..Len(es) /\ g[i] # k
    BY <1>7
  <2>2. g[i] < k \/ k < g[i]
    BY <1>1, <2>1
  <2> QED  BY <2>1, <2>2 DEF Sound
<1>12. RemoveAt(es, k) = rest
  BY DEF RemoveAt, rest, before, after
<1>13. Len(rest) + 1 = Len(es) /\ Len(rest) \in Nat
  BY <1>1, <1>6
<1> QED  BY <1>1, <1>10, <1>11, <1>12, <1>13

(* Dropping the front leaves the others in their order. *)
LEMMA TailSound ==
    ASSUME NEW es, NEW t, NEW n, NEW told, Sound(es, t, n, told), es # <<>>
    PROVE  /\ Sound(Tail(es), t, n, told) /\ Len(Tail(es)) = Len(es) - 1
           /\ \A i \in 1..Len(Tail(es)) : i + 1 \in 1..Len(es) /\ Tail(es)[i] = es[i + 1]
<1> DEFINE g == [i \in 1..Len(Tail(es)) |-> i + 1]
<1>1. es \in Seq(Entry)
  BY DEF Sound
<1>2. Tail(es) \in Seq(Entry) /\ Len(Tail(es)) = Len(es) - 1 /\ \A i \in 1..Len(Tail(es)) : Tail(es)[i] = es[i + 1]
  BY <1>1, HeadTailProperties, Zenon
<1>3. Len(es) \in Nat
  BY <1>1, LenProperties, Zenon
<1>4. \A i \in 1..Len(Tail(es)) : i + 1 \in 1..Len(es)
  BY <1>2, <1>3
<1>5. g \in [1..Len(Tail(es)) -> 1..Len(es)] /\ \A i, j \in 1..Len(Tail(es)) : i < j => g[i] < g[j]
  BY <1>2, <1>3, <1>4
<1>6. \A i \in 1..Len(Tail(es)) : Tail(es)[i] = es[g[i]]
  BY <1>2
<1> HIDE DEF g
<1>7. Sound(Tail(es), t, n, told)
  BY <1>2, <1>5, <1>6, SelectionSound, Zenon
<1> QED  BY <1>2, <1>4, <1>7
-----------------------------------------------------------------------------
(* A history begins empty. *)
LEMMA HistoryInitInv ==
    ASSUME HistoryInit
    PROVE  HistoryInv
<1> USE DEF HistoryInit
<1>1. /\ MaxHistory \in Nat /\ MaxId \in Nat /\ MaxTime \in Nat
  BY Bounds
<1>2. HistoryTypeOK
  BY <1>1 DEF HistoryTypeOK, Idle
<1>3. Len(entries) = 0 /\ Len(reports) = 0
  OBVIOUS
<1> QED  BY <1>1, <1>2, <1>3 DEF HistoryInv, HistoryTypeOK, Sound, Consistent

(* record, whatever the clock, the history and the start of the request:   *)
(* a known pair is refreshed, a new one is admitted, or none is left.      *)
LEMMA RecordKeeps ==
    ASSUME HistoryInv, NEW pair \in Pairs, NEW start \in 0..MaxTime,
           Record(pair, start), UNCHANGED now, started' \in [Requests -> 0..Idle]
    PROVE  HistoryInv'
<1>0. /\ MaxHistory \in Nat /\ MaxHistory > 0 /\ MaxId \in Nat /\ MaxTime \in Nat
      /\ now \in 0..MaxTime /\ now \in Nat /\ next_id \in 0..MaxId /\ next_id \in Nat
      /\ reports \in Seq(Report) /\ Consistent(reports, next_id)
  BY Bounds DEF HistoryInv, HistoryTypeOK
<1> DEFINE live == Retained
           hits == {k \in DOMAIN live : live[k].pair = pair}
<1>1. Sound(live, now, next_id, reports) /\ Len(live) <= Len(entries)
  BY RetainedSound DEF HistoryInv
<1>2. live \in Seq(Entry) /\ Len(live) \in Nat /\ DOMAIN live = 1..Len(live) /\ Len(live) <= MaxHistory
  <2>1. live \in Seq(Entry) /\ entries \in Seq(Entry)
    BY <1>1 DEF Sound, HistoryInv
  <2>2. Len(live) \in Nat /\ DOMAIN live = 1..Len(live) /\ Len(entries) \in Nat
    BY <2>1, LenProperties, Zenon
  <2>3. Len(entries) <= MaxHistory
    BY DEF HistoryInv
  <2> QED  BY <1>0, <1>1, <2>1, <2>2, <2>3
<1>3. ASSUME NEW n \in 0..MaxId, next_id <= n, next_id' = n,
             NEW r \in Report, reports' = Append(reports, r), Consistent(reports', n),
             NEW es, entries' = es, Sound(es, now, n, reports'), Len(es) <= MaxHistory
      PROVE  HistoryInv'
  <2>1. HistoryTypeOK'
    BY <1>0, <1>3 DEF HistoryTypeOK, Sound, Consistent
  <2> QED  BY <1>0, <1>3, <2>1 DEF HistoryInv
<1>4. ASSUME NEW k \in hits, entries' = Refresh(live, k), next_id' = next_id,
             Answered(pair, start, live[k].id, KnownBefore(live[k], start))
      PROVE  HistoryInv'
  <2> DEFINE e == live[k]
             back == [live[k] EXCEPT !.last = now]
             rest == RemoveAt(live, k)
             r == [pair |-> pair, started |-> start, at |-> now, fingerprint |-> e.id, reused |-> KnownBefore(e, start)]
  <2>1. k \in 1..Len(live) /\ e.pair = pair /\ Good(e, now, next_id, reports)
    BY <1>1, <1>2 DEF Sound
  <2>2. /\ e \in Entry /\ e.id \in 1..MaxId /\ e.id \in Nat /\ e.id <= next_id /\ e.first \in 0..MaxTime /\ e.first \in Nat
    BY <1>0, <2>1 DEF Good, Entry
  <2>3. PICK j \in 1..Len(reports) :
           reports[j].fingerprint = e.id /\ reports[j].pair = e.pair /\ reports[j].at = e.first
    BY <2>1 DEF Good
  <2>4. r \in Report
    BY <1>0, <2>2 DEF Report, KnownBefore
  <2>5. reports' = Append(reports, r)
    BY <1>4 DEF Answered
  <2>6. Consistent(Append(reports, r), next_id)
    <3>1. r.fingerprint = e.id /\ r.pair = pair /\ r.started = start /\ (r.reused <=> e.first < start)
      BY Zenon DEF KnownBefore
    <3> HIDE DEF r
    <3>2. r.fingerprint <= next_id /\ next_id <= next_id
      BY <1>0, <2>2, <3>1
    <3>3. ASSUME NEW i \in 1..Len(reports), reports[i].fingerprint = r.fingerprint
          PROVE  r.fingerprint = Unknown \/ reports[i].pair = r.pair
      BY <1>0, <2>1, <2>3, <3>1, <3>3 DEF Consistent
    <3>4. r.reused => \E i \in 1..Len(reports) : reports[i].fingerprint = r.fingerprint /\ reports[i].at < r.started
      BY <2>3, <3>1
    <3> QED  BY <1>0, <2>4, <3>2, <3>3, <3>4, AppendConsistent
  <2>7. back \in Entry /\ back.pair = pair /\ back.last = now /\ back.id = e.id /\ back.first = e.first
    BY <1>0, <2>1, <2>2, Zenon DEF Entry
  <2> HIDE DEF back, e
  <2>8. Good(back, now, next_id, reports)
    BY <1>0, <2>1, <2>2, <2>3, <2>7 DEF Good
  <2>9. /\ Sound(rest, now, next_id, reports) /\ Len(rest) + 1 = Len(live) /\ Len(rest) \in Nat
        /\ \A i \in 1..Len(rest) : rest[i].pair # back.pair
    BY <1>1, <2>1, <2>7, RemovedSound, Zenon DEF e
  <2> HIDE DEF rest, live
  <2>10. Sound(Append(rest, back), now, next_id, reports) /\ Len(Append(rest, back)) = Len(rest) + 1
    <3>1. now \in Nat /\ back.last = now
      BY <1>0, <2>7
    <3> HIDE DEF r
    <3>2. Sound(rest, now, next_id, reports) /\ \A i \in 1..Len(rest) : rest[i].pair # back.pair
      BY <2>9
    <3> QED  BY <2>8, <3>1, <3>2, AppendSound
  <2> HIDE DEF r
  <2>11. Sound(Append(rest, back), now, next_id, reports')
    <3>1. next_id <= next_id /\ now <= now
      BY <1>0
    <3> QED  BY <1>0, <2>4, <2>5, <2>10, <3>1, LaterSound
  <2>12. entries' = Append(rest, back)
    BY <1>4 DEF Refresh, rest, back
  <2>13. Len(Append(rest, back)) <= MaxHistory /\ next_id <= next_id
    BY <1>0, <1>2, <2>9, <2>10
  <2> QED  BY <1>0, <1>3, <1>4, <2>4, <2>5, <2>6, <2>11, <2>12, <2>13, Zenon
<1>5. ASSUME hits = {}, ~Exhausted, next_id' = FreshId, entries' = Admit(live, pair), Answered(pair, start, FreshId, FALSE)
      PROVE  HistoryInv'
  <2> DEFINE new == [pair |-> pair, id |-> FreshId, first |-> now, last |-> now]
             base == IF Len(live) = MaxHistory THEN Tail(live) ELSE live
             r == [pair |-> pair, started |-> start, at |-> now, fingerprint |-> FreshId, reused |-> FALSE]
  <2>1. FreshId \in 1..MaxId /\ FreshId \in 0..MaxId /\ FreshId \in Nat /\ FreshId = next_id + 1 /\ next_id <= FreshId
    BY <1>0, <1>5 DEF FreshId, Exhausted
  <2>2. r \in Report /\ new \in Entry
    BY <1>0, <2>1 DEF Report, Entry
  <2>3. reports' = Append(reports, r)
    BY <1>5 DEF Answered
  <2>4. Consistent(Append(reports, r), FreshId)
    <3>1. r.fingerprint = FreshId /\ r.reused = FALSE
      OBVIOUS
    <3>2. r.fingerprint <= FreshId
      BY <2>1, <3>1
    <3>3. ASSUME NEW i \in 1..Len(reports) PROVE reports[i].fingerprint # r.fingerprint
      <4>1. reports[i] \in Report
        BY <1>0, ElementOfSeq, Zenon
      <4>2. reports[i].fingerprint \in Nat /\ reports[i].fingerprint <= next_id
        BY <1>0, <4>1 DEF Report, Consistent
      <4> QED  BY <1>0, <2>1, <3>1, <4>2
    <3> HIDE DEF r
    <3> QED  BY <1>0, <2>1, <2>2, <3>1, <3>2, <3>3, AppendConsistent, Zenon
  <2>5. \A k \in 1..Len(live) : live[k].pair # pair
    BY <1>2, <1>5
  <2> HIDE DEF live
  <2>6. /\ Sound(base, now, next_id, reports) /\ Len(base) + 1 <= MaxHistory /\ Len(base) \in Nat
        /\ \A k \in 1..Len(base) : base[k].pair # pair
    <3>1. CASE Len(live) = MaxHistory
      <4>1. live # <<>>
        BY <1>0, <1>2, <3>1
      <4>2. base = Tail(live)
        BY <3>1
      <4>3. /\ Sound(Tail(live), now, next_id, reports) /\ Len(Tail(live)) = Len(live) - 1
            /\ \A i \in 1..Len(Tail(live)) : i + 1 \in 1..Len(live) /\ Tail(live)[i] = live[i + 1]
        BY <1>1, <4>1, TailSound
      <4>4. \A i \in 1..Len(Tail(live)) : Tail(live)[i].pair # pair
        BY <2>5, <4>3
      <4>5. Len(Tail(live)) + 1 <= MaxHistory /\ Len(Tail(live)) \in Nat
        BY <1>0, <1>2, <3>1, <4>3
      <4> QED  BY <4>2, <4>3, <4>4, <4>5
    <3>2. CASE Len(live) # MaxHistory
      <4>1. base = live
        BY <3>2
      <4>2. Len(live) + 1 <= MaxHistory
        <5>1. Len(live) \in Nat /\ Len(live) <= MaxHistory /\ MaxHistory \in Nat
          BY <1>0, <1>2
        <5>2. \A a, b \in Nat : a <= b /\ a # b => a + 1 <= b
          OBVIOUS
        <5> QED  BY <3>2, <5>1, <5>2, Zenon
      <4> QED  BY <1>1, <1>2, <2>5, <4>1, <4>2, Zenon
    <3> QED  BY <3>1, <3>2, Zenon
  <2>7. Sound(base, now, FreshId, reports')
    <3> HIDE DEF base, r
    <3>1. now <= now
      BY <1>0
    <3> QED  BY <1>0, <2>1, <2>2, <2>3, <2>6, <3>1, LaterSound
  <2>8. Good(new, now, FreshId, reports')
    <3>1. Len(reports) \in Nat
      BY <1>0, LenProperties, Zenon
    <3>2. Len(reports') = Len(reports) + 1 /\ reports'[Len(reports) + 1] = r
      BY <1>0, <2>2, <2>3, AppendProperties
    <3>3. Len(reports) + 1 \in 1..Len(reports')
      BY <3>1, <3>2
    <3>4. new.last <= now /\ new.id <= FreshId
      BY <1>0, <2>1
    <3> QED  BY <2>2, <3>2, <3>3, <3>4 DEF Good
  <2>9. Sound(Append(base, new), now, FreshId, reports') /\ Len(Append(base, new)) = Len(base) + 1
    <3>1. new.pair = pair /\ new.last = now
      OBVIOUS
    <3> HIDE DEF base, new
    <3> QED  BY <1>0, <2>6, <2>7, <2>8, <3>1, AppendSound
  <2>10. entries' = Append(base, new)
    BY <1>5 DEF Admit
  <2>11. Len(Append(base, new)) <= MaxHistory
    <3> HIDE DEF base, new
    <3> QED  BY <1>0, <2>6, <2>9
  <2> HIDE DEF base, new, r
  <2> QED  BY <1>3, <1>5, <2>1, <2>2, <2>3, <2>4, <2>9, <2>10, <2>11, Zenon
<1>6. ASSUME entries' = live, Answered(pair, start, Unknown, FALSE), next_id' = next_id
      PROVE  HistoryInv'
  <2> DEFINE r == [pair |-> pair, started |-> start, at |-> now, fingerprint |-> Unknown, reused |-> FALSE]
  <2>1. r \in Report
    BY <1>0 DEF Report, Unknown
  <2>2. reports' = Append(reports, r)
    BY <1>6 DEF Answered
  <2>3. r.fingerprint = Unknown /\ r.fingerprint <= next_id /\ next_id <= next_id /\ now <= now /\ r.reused = FALSE
    BY <1>0 DEF Unknown
  <2> HIDE DEF r, live
  <2>4. Consistent(Append(reports, r), next_id)
    BY <1>0, <2>1, <2>3, AppendConsistent
  <2>5. Sound(live, now, next_id, reports')
    BY <1>0, <1>1, <2>1, <2>2, <2>3, LaterSound
  <2> QED  BY <1>0, <1>2, <1>3, <1>6, <2>1, <2>2, <2>3, <2>4, <2>5
<1> QED  BY <1>4, <1>5, <1>6, Zenon DEF Record

(* Every step keeps the history sound and its reports consistent. *)
THEOREM HistoryInvariance == HistorySpec => []HistoryInv
<1>1. HistoryInit => HistoryInv
  BY HistoryInitInv
<1>2. HistoryInv /\ [HistoryNext]_historyVars => HistoryInv'
  <2> SUFFICES ASSUME HistoryInv, [HistoryNext]_historyVars PROVE HistoryInv'
    OBVIOUS
  <2>0. /\ MaxTime \in Nat /\ now \in 0..MaxTime /\ now \in Nat /\ next_id \in Nat /\ Idle = MaxTime + 1
        /\ started \in [Requests -> 0..Idle] /\ reports \in Seq(Report)
    BY Bounds DEF HistoryInv, HistoryTypeOK, Idle
  <2>1. CASE UNCHANGED historyVars
    BY <2>1 DEF historyVars, HistoryInv, HistoryTypeOK
  <2>2. ASSUME NEW r \in Requests, Start(r) PROVE HistoryInv'
    <3>1. started' \in [Requests -> 0..Idle]
      BY <2>0, <2>2 DEF Start
    <3> QED  BY <2>2, <3>1 DEF Start, HistoryInv, HistoryTypeOK
  <2>3. ASSUME NEW r \in Requests, NEW pair \in Pairs, Respond(r, pair) PROVE HistoryInv'
    <3>1. started[r] \in 0..MaxTime /\ Idle \in 0..Idle
      BY <2>0, <2>3 DEF Respond
    <3>2. started' \in [Requests -> 0..Idle]
      BY <2>0, <2>3, <3>1 DEF Respond
    <3> QED  BY <2>3, <3>1, <3>2, RecordKeeps DEF Respond
  <2>4. CASE HistoryTick
    <3>1. now' = now + 1 /\ now' \in 0..MaxTime /\ now' \in Nat /\ now <= now' /\ next_id <= next_id
          /\ UNCHANGED <<entries, next_id, started, reports>>
      BY <2>0, <2>4 DEF HistoryTick
    <3>2. Sound(entries, now', next_id, reports)
      <4>1. Sound(entries, now, next_id, reports)
        BY DEF HistoryInv
      <4>2. ASSUME NEW e, Good(e, now, next_id, reports) PROVE Good(e, now', next_id, reports)
        <5>1. e.last \in Nat /\ e.last <= now
          BY <2>0, <4>2 DEF Good, Entry
        <5>2. e.last <= now'
          BY <2>0, <3>1, <5>1
        <5> QED  BY <4>2, <5>2 DEF Good
      <4> QED  BY <4>1, <4>2 DEF Sound
    <3> QED  BY <3>1, <3>2 DEF HistoryInv, HistoryTypeOK
  <2> QED  BY <2>1, <2>2, <2>3, <2>4 DEF HistoryNext
<1> QED  BY <1>1, <1>2, PTL DEF HistorySpec

(* The history stays bounded, holds a pair once and is ordered by last     *)
(* use, and every report is true whichever order responses arrive in       *)
(* (observation.rs:42-58).                                                 *)
THEOREM HistoryTrue == HistorySpec => []HistoryIsTrue
<1>1. HistoryInv => HistoryIsTrue
  <2> SUFFICES ASSUME HistoryInv PROVE HistoryIsTrue
    OBVIOUS
  <2>1. entries \in Seq(Entry) /\ reports \in Seq(Report)
    BY DEF HistoryInv, HistoryTypeOK
  <2>2. DOMAIN entries = 1..Len(entries) /\ DOMAIN reports = 1..Len(reports)
    BY <2>1, LenProperties, Zenon
  <2> QED  BY <2>2 DEF HistoryInv, Sound, Consistent, HistoryIsTrue, BoundedLeastRecentlyUsed, FingerprintNamesOnePair, ReusedWasSeenBefore
<1> QED  BY <1>1, HistoryInvariance, PTL
=============================================================================
