----------------------- MODULE CredentialRecipeProofs -----------------------
(***************************************************************************)
(* What the credential row that concurrent calls refresh guarantees        *)
(* outside its suite, for every set of callers, every reply of the token   *)
(* endpoint and every write of an operator.  The inductive invariant: one  *)
(* caller exchanges at a time, with what it read under the lock; an        *)
(* exchange that ended and was made for the stored version failed, for     *)
(* good only if the row says so; what an ended exchange replaced is not    *)
(* what the row holds.                                                     *)
(***************************************************************************)
EXTENDS CredentialRecipe, TLAPS

Materials ==
  NoToken \cup {"seed"} \cup {Rotations[k] : k \in 1..Len(Rotations)}
          \cup {Operators[k] : k \in 1..Len(Operators)}

RowShape(r) ==
  /\ r = [fields |-> r.fields, previous |-> r.previous, minted |-> r.minted,
          version |-> r.version, reauth_at |-> r.reauth_at, persisted |-> r.persisted]
  /\ r.fields \in [Names -> Materials] /\ r.version \in Nat /\ r.reauth_at \in Nat

Requests == [caller : Callers, material : Materials, version : Nat]
Bodies == [access : STRING, refresh : Materials, expires_in : Int]
Replies == [status : Nat, body : Bodies, hold : {"none"}]
Endpoints ==
  [replies : Seq(Replies), requests : Seq(Requests), held : Nat, released : BOOLEAN]

RowTypeOK ==
  /\ rowFaults = {} /\ rowCase = 0 /\ recipeKind = "Rotating"
  /\ RowShape(row)
  /\ rowStep \in 1..(MaxWrites + 1) /\ written \in Nat
  /\ endpoint \in Endpoints /\ Len(endpoint.replies) = Calls /\ Calls <= MaxRequests
  /\ callers \in [Callers -> {"idle", "start", "locking", "exchanging"}]
  /\ seen \in [Callers -> [material : Materials, version : Nat]]
  /\ lock \subseteq Callers

(* One exchange at a time, made with what was read under the lock. *)
OneAtATime ==
  /\ \A c \in Callers : callers[c] = "exchanging" <=> c \in lock
  /\ \A c, d \in lock : c = d
  /\ \A c \in lock :
       /\ Calls > 0
       /\ endpoint.requests[Calls] =
            [caller |-> c, material |-> seen[c].material, version |-> seen[c].version]

RowToken == row.fields.refresh_token
Presented(i) == endpoint.requests[i].material
VersionOf(i) == endpoint.requests[i].version
Ended(i) == lock = {} \/ i < Calls

(* What is known of the exchanges made for the stored version. *)
Versioned ==
  /\ written \in 1..row.version /\ row.reauth_at <= row.version
  /\ \A i \in 1..Calls : VersionOf(i) <= row.version
  /\ \A i \in 1..Calls :
       Ended(i) /\ VersionOf(i) = row.version =>
         Failed(ReplyAt(i)) /\ (FailureOf(ReplyAt(i)) = "Transient" \/ row.reauth_at = row.version)

(* Material written or issued so far, by the first n exchanges. *)
Known(m, n) ==
  \/ m = "seed"
  \/ \E k \in 1..(rowStep - 1) : m = Operators[k]
  \/ \E k \in 1..n : m = Rotations[k]

Replaces(i) == ~Failed(ReplyAt(i)) /\ ReplyAt(i).body.refresh \notin NoToken

(* Where the material comes from, and what is no longer stored. *)
Sourced ==
  /\ Known(RowToken, IF lock = {} THEN Calls ELSE Calls - 1)
  /\ \A i \in 1..Calls :
       /\ Known(Presented(i), i - 1)
       /\ ReplyAt(i).body.refresh \in NoToken \cup {Rotations[i]}
       /\ Ended(i) /\ Replaces(i) => Presented(i) # RowToken
       /\ ~Ended(i) /\ VersionOf(i) < row.version => Presented(i) # RowToken

(* SpentOnce and OperatorStands of the host without mistakes. *)
PairsSpent ==
  \A i, j \in 1..Calls :
    i < j =>
      /\ VersionOf(i) = VersionOf(j) =>
           Failed(ReplyAt(i)) /\ FailureOf(ReplyAt(i)) = "Transient"
      /\ Presented(i) = Presented(j) => ~Replaces(i)

Stands ==
  \/ RowToken = LastWritten
  \/ \E i \in 1..Calls : ReplyAt(i).body.refresh = RowToken /\ VersionOf(i) >= written

RowInv == RowTypeOK /\ OneAtATime /\ Versioned /\ Sourced /\ PairsSpent /\ Stands

-----------------------------------------------------------------------------
(* A generation written from outside. *)
LEMMA ReplacedRow ==
    ASSUME NEW r, RowShape(r), NEW token \in Materials, NEW minted, NEW q,
           q = replace(r, Generation(Refresh(token), minted))
    PROVE  /\ RowShape(q) /\ q.version = r.version + 1 /\ q.reauth_at = r.reauth_at
           /\ q.fields.refresh_token = token
<1>1. Refresh(token) \in [Names -> Materials] /\ Refresh(token).refresh_token = token
  <2>1. NoFields \in [Names -> Materials] /\ "refresh_token" \in Names
    BY Zenon DEF NoFields, Names, Materials, NoToken
  <2> QED  BY <2>1 DEF Refresh
<1>2. q = [r EXCEPT !.fields = Refresh(token), !.minted = minted, !.version = r.version + 1]
  BY DEF replace, Generation
<1>3. q = [fields |-> Refresh(token), previous |-> r.previous, minted |-> minted,
           version |-> r.version + 1, reauth_at |-> r.reauth_at, persisted |-> r.persisted]
  BY <1>2, Zenon DEF RowShape
<1> QED  BY <1>1, <1>3 DEF RowShape

(* The outcome of an exchange, written back. *)
LEMMA WrittenBackRow ==
    ASSUME RowTypeOK, NEW body \in Bodies, NEW q, q = WrittenBack(body)
    PROVE  /\ RowShape(q) /\ q.version = row.version + 1 /\ q.reauth_at = row.reauth_at
           /\ q.fields.refresh_token =
                IF Rotated(body.refresh) = {} THEN RowToken ELSE body.refresh
<1>1. RowShape(row) /\ rowFaults = {} /\ credentials.writes_back = {"refresh_token"}
  BY DEF RowTypeOK, credentials, rotating_credentials
<1>2. Rotated(body.refresh) \in {{}, {body.refresh}} /\ body.refresh \in Materials
  BY <1>1 DEF Rotated, RowHas, Bodies
<1> DEFINE fs == [n \in Names |-> IF n \in credentials.writes_back /\ Rotated(body.refresh) # {}
                                  THEN CHOOSE v \in Rotated(body.refresh) : TRUE ELSE row.fields[n]]
           ps == [n \in Names |-> IF (n \in credentials.writes_back /\ Rotated(body.refresh) # {})
                                     /\ ~RowHas("KeepsNoPreviousGeneration") /\ row.fields[n] # "absent"
                                  THEN row.fields[n] ELSE row.previous[n]]
           ms == MintedValue(body.access, clamp(body.expires_in))
<1>3. q = [row EXCEPT !.fields = fs, !.previous = ps, !.minted = ms, !.version = row.version + 1]
  BY DEF WrittenBack
<1>4. /\ fs \in [Names -> Materials]
      /\ fs["refresh_token"] = IF Rotated(body.refresh) = {} THEN row.fields["refresh_token"] ELSE body.refresh
  BY <1>1, <1>2 DEF RowShape, Names
<1> HIDE DEF fs, ps, ms
<1>5. q = [fields |-> fs, previous |-> ps, minted |-> ms, version |-> row.version + 1,
           reauth_at |-> row.reauth_at, persisted |-> row.persisted]
  BY <1>1, <1>3, Zenon DEF RowShape
<1> QED  BY <1>1, <1>4, <1>5 DEF RowShape, RowToken

(* A reply to a live host, with what it issues. *)
LEMMA IssuedReply ==
    ASSUME RowTypeOK, NEW r \in LiveReplies, Calls < MaxRequests
    PROVE  /\ Issued(r) \in Replies
           /\ Issued(r).body.refresh \in NoToken \cup {Rotations[Calls + 1]}
<1>1. Calls \in Nat /\ Rotations[Calls + 1] \in Materials
  BY RowAssumption DEF RowTypeOK, Endpoints, Calls, Materials
<1>2. /\ r = [status |-> r.status, body |-> r.body, hold |-> "none"] /\ r.status \in Nat
      /\ r.body = [access |-> r.body.access, refresh |-> r.body.refresh, expires_in |-> r.body.expires_in]
      /\ r.body.access \in STRING /\ r.body.refresh \in NoToken \cup {"rt"} /\ r.body.expires_in \in Int
  BY RowAssumption
<1>3. CASE r.body.refresh = "rt"
  <2>1. Issued(r) = [status |-> r.status, hold |-> "none",
                     body |-> [access |-> r.body.access, refresh |-> Rotations[Calls + 1],
                               expires_in |-> r.body.expires_in]]
    BY <1>2, <1>3 DEF Issued
  <2> QED  BY <1>1, <1>2, <2>1 DEF Replies, Bodies
<1>4. CASE r.body.refresh # "rt"
  <2>1. Issued(r) = r
    BY <1>4 DEF Issued
  <2>2. r.body.refresh \in NoToken
    BY <1>2, <1>4
  <2>3. r.body.refresh \in Materials
    BY <2>2 DEF Materials
  <2> QED  BY <1>2, <2>1, <2>2, <2>3 DEF Replies, Bodies
<1> QED  BY <1>3, <1>4

(* A request more, and the reply to it. *)
LEMMA ExchangedEndpoint ==
    ASSUME RowTypeOK, NEW c \in Callers, NEW m \in Materials, NEW v \in Nat, NEW p \in Replies,
           NEW e, e = Exchanged(c, m, v, <<p>>)
    PROVE  /\ e \in Endpoints /\ Len(e.requests) = Calls + 1 /\ Len(e.replies) = Calls + 1
           /\ e.requests[Calls + 1] = [caller |-> c, material |-> m, version |-> v]
           /\ e.replies[Calls + 1] = p
           /\ \A i \in 1..Calls : /\ e.requests[i] = endpoint.requests[i]
                                  /\ e.replies[i] = endpoint.replies[i]
<1>1. /\ endpoint = [replies |-> endpoint.replies, requests |-> endpoint.requests,
                     held |-> endpoint.held, released |-> endpoint.released]
      /\ endpoint.replies \in Seq(Replies) /\ endpoint.requests \in Seq(Requests)
      /\ endpoint.held \in Nat /\ endpoint.released \in BOOLEAN
      /\ Len(endpoint.replies) = Calls /\ Calls \in Nat /\ Calls = Len(endpoint.requests)
  BY DEF RowTypeOK, Endpoints, Calls
<1> DEFINE ps == endpoint.replies \o <<p>>
           q == [caller |-> c, material |-> m, version |-> v]
           qs == Append(endpoint.requests, q)
<1>2. /\ ps \in Seq(Replies) /\ Len(ps) = Calls + 1 /\ ps[Calls + 1] = p
      /\ \A i \in 1..Calls : ps[i] = endpoint.replies[i]
  BY <1>1
<1>3. q \in Requests
  BY DEF Requests
<1>4. /\ qs \in Seq(Requests) /\ Len(qs) = Calls + 1 /\ qs[Calls + 1] = q
      /\ \A i \in 1..Calls : qs[i] = endpoint.requests[i]
  BY <1>1, <1>3
<1>5. p.hold = "none"
  BY DEF Replies
<1>6. e = [endpoint EXCEPT !.replies = ps, !.requests = qs, !.held = @]
  <2> DEFINE said == IF Calls + 1 <= Len(ps) THEN ps[Calls + 1] ELSE UNSCRIPTED
  <2>1. said.hold # "until_competing_write"
    BY <1>1, <1>2, <1>5
  <2>2. e = [endpoint EXCEPT !.replies = ps, !.requests = qs,
                             !.held = IF said.hold = "until_competing_write" THEN @ + 1 ELSE @]
    BY Zenon DEF Exchanged
  <2> HIDE DEF said, ps, qs
  <2> QED  BY <2>1, <2>2
<1> HIDE DEF ps, qs
<1>7. e = [replies |-> ps, requests |-> qs, held |-> endpoint.held, released |-> endpoint.released]
  BY <1>1, <1>6, Zenon
<1>8. e.replies = ps /\ e.requests = qs /\ e \in Endpoints
  BY <1>1, <1>2, <1>4, <1>7 DEF Endpoints
<1> QED  BY <1>2, <1>4, <1>8

LEMMA RowStartsInv == RowLiveStarts => RowInv
<1> SUFFICES ASSUME RowLiveStarts PROVE RowInv
  OBVIOUS
<1> USE DEF RowLiveStarts, HostInit
<1>1. "seed" \in Materials /\ "absent" \in Materials
  BY DEF Materials, NoToken
<1>2. NoFields \in [Names -> Materials] /\ RowShape(EmptyRow) /\ EmptyRow.version = 0 /\ EmptyRow.reauth_at = 0
  BY <1>1, Zenon DEF NoFields, RowShape, EmptyRow
<1>3. RowShape(row) /\ row.version = 1 /\ row.reauth_at = 0 /\ RowToken = "seed"
  BY <1>1, <1>2, ReplacedRow DEF ROTATING_SEED, RowToken
<1>4. endpoint \in Endpoints /\ Calls = 0 /\ Len(endpoint.replies) = 0
  BY DEF NewEndpoint, Endpoints, Calls
<1>5. RowTypeOK
  BY <1>1, <1>3, <1>4, RowAssumption DEF RowTypeOK, Resting, NothingSeen
<1>6. OneAtATime
  BY DEF OneAtATime, Resting
<1>7. Versioned /\ PairsSpent
  BY <1>3, <1>4 DEF Versioned, PairsSpent
<1>8. Sourced /\ Stands
  BY <1>3, <1>4 DEF Sourced, Stands, Known, LastWritten
<1> QED  BY <1>5, <1>6, <1>7, <1>8 DEF RowInv

(* A step that touches neither the material, the exchanges nor the lock. *)
LEMMA QuietRow ==
    ASSUME RowInv, UNCHANGED <<rowFaults, recipeKind, lock, endpoint, rowCase, rowStep, written>>,
           RowShape(row'), row'.version = row.version, row'.reauth_at = row.reauth_at,
           row'.fields = row.fields,
           callers' \in [Callers -> {"idle", "start", "locking", "exchanging"}],
           seen' \in [Callers -> [material : Materials, version : Nat]],
           \A c \in Callers : callers'[c] = "exchanging" <=> callers[c] = "exchanging",
           \A c \in lock : seen'[c] = seen[c]
    PROVE  RowInv'
<1> USE DEF RowInv
<1>1. RowTypeOK'
  BY DEF RowTypeOK, Calls
<1>2. OneAtATime'
  BY DEF OneAtATime, Calls
<1>3. Versioned'
  BY DEF Versioned, Calls, VersionOf, Ended, ReplyAt
<1>4. Sourced'
  BY DEF Sourced, Calls, VersionOf, Ended, ReplyAt, Known, RowToken, Presented, Replaces
<1>5. PairsSpent'
  BY Zenon DEF PairsSpent, Calls, VersionOf, ReplyAt, Presented, Replaces
<1>6. Stands'
  BY Zenon DEF Stands, Calls, VersionOf, ReplyAt, RowToken, LastWritten
<1> QED  BY <1>1, <1>2, <1>3, <1>4, <1>5, <1>6

(* What a read of the row shows. *)
LEMMA SnapshotOK ==
    ASSUME RowTypeOK
    PROVE  /\ Snapshot = [material |-> RowToken, version |-> row.version]
           /\ Snapshot \in [material : Materials, version : Nat]
<1>1. credentials.material = "refresh_token"
  BY DEF RowTypeOK, credentials, rotating_credentials
<1>2. RowToken \in Materials /\ row.version \in Nat
  BY DEF RowTypeOK, RowShape, RowToken, Names
<1>3. Snapshot = [material |-> RowToken, version |-> row.version]
  BY <1>1 DEF Snapshot, RowToken
<1> QED  BY <1>2, <1>3

Unexchanging == {"idle", "start", "locking"}

(* A caller that reads the row and does not exchange. *)
LEMMA ReadOnly ==
    ASSUME RowInv, NEW c \in Callers, callers[c] # "exchanging", NEW where \in Unexchanging,
           callers' = [callers EXCEPT ![c] = where],
           seen' \in {seen, [seen EXCEPT ![c] = Snapshot]},
           UNCHANGED <<rowFaults, recipeKind, row, lock, endpoint, rowCase, rowStep, written>>
    PROVE  RowInv'
<1>1. RowTypeOK /\ c \notin lock
  BY DEF RowInv, OneAtATime
<1>2. /\ callers' \in [Callers -> {"idle", "start", "locking", "exchanging"}]
      /\ \A d \in Callers : callers'[d] = "exchanging" <=> callers[d] = "exchanging"
  BY <1>1 DEF RowTypeOK, Unexchanging
<1>3. /\ seen' \in [Callers -> [material : Materials, version : Nat]]
      /\ \A d \in lock : seen'[d] = seen[d]
  BY <1>1, SnapshotOK DEF RowTypeOK
<1> QED  BY <1>1, <1>2, <1>3, QuietRow DEF RowTypeOK

LEMMA ReadRowInv ==
    ASSUME RowInv, NEW c \in Callers, NEW scripted, ReadRow(c, scripted),
           UNCHANGED <<rowCase, rowStep, written>>
    PROVE  RowInv'
<1>1. ~RowHas("NoSingleFlight")
  BY DEF RowInv, RowTypeOK, RowHas
<1>2. \E where \in Unexchanging : callers' = [callers EXCEPT ![c] = where]
  BY <1>1 DEF ReadRow, Decide, Returns, Resting, Unexchanging
<1>3. UNCHANGED <<lock, endpoint>>
  BY <1>1 DEF ReadRow, Decide
<1> QED  BY <1>2, <1>3, ReadOnly, Zenon DEF ReadRow

LEMMA LiveResolveInv ==
    ASSUME RowInv, NEW c \in Callers, LiveResolve(c) PROVE RowInv'
<1>1. callers \in [Callers -> {"idle", "start", "locking", "exchanging"}]
  BY DEF RowInv, RowTypeOK
<1>2. callers[c] = "idle" /\ callers' = [callers EXCEPT ![c] = "start"]
  BY <1>1, Zenon DEF LiveResolve, ResolvesStart, Resting
<1> QED  BY <1>2, ReadOnly, Zenon DEF LiveResolve, Unexchanging

LEMMA ExpiresInv == ASSUME RowInv, Expires PROVE RowInv'
<1>1. RowTypeOK /\ RowShape(row)
  BY DEF RowInv, RowTypeOK
<1>2. PICK ms : row' = [row EXCEPT !.minted = ms]
  BY Zenon DEF Expires
<1>3. row' = [fields |-> row.fields, previous |-> row.previous, minted |-> ms,
              version |-> row.version, reauth_at |-> row.reauth_at, persisted |-> row.persisted]
  BY <1>1, <1>2 DEF RowShape
<1>4. RowShape(row') /\ row'.version = row.version /\ row'.reauth_at = row.reauth_at
      /\ row'.fields = row.fields
  BY <1>1, <1>3 DEF RowShape
<1> QED  BY <1>1, <1>4, QuietRow DEF Expires, RowTypeOK

(* The lock is free and the row neither fresh nor latched: one exchange more. *)
LEMMA ExchangeInv ==
    ASSUME RowInv, NEW c \in Callers, lock = {}, ~latched(row), Calls < MaxRequests,
           NEW p \in Replies, p.body.refresh \in NoToken \cup {Rotations[Calls + 1]},
           Exchange(c, Snapshot, <<p>>), lock' = {c}, seen' = [seen EXCEPT ![c] = Snapshot],
           UNCHANGED <<rowFaults, recipeKind, row, rowCase, rowStep, written>>
    PROVE  RowInv'
<1> USE DEF RowInv
<1> DEFINE q == [caller |-> c, material |-> RowToken, version |-> row.version]
<1>0. PICK n \in Nat : n = Calls
  BY DEF RowTypeOK, Endpoints, Calls
<1>1. /\ RowTypeOK /\ n \in Nat /\ n = Calls /\ row.version \in Nat /\ row.reauth_at # row.version
      /\ rowFaults = {}
  BY <1>0 DEF RowTypeOK, RowShape, latched, RowHas
<1>2. /\ Snapshot = [material |-> RowToken, version |-> row.version] /\ RowToken \in Materials
  BY <1>1, SnapshotOK
<1>3. endpoint' = Exchanged(c, RowToken, row.version, <<p>>)
  BY <1>2 DEF Exchange
<1>4. /\ endpoint' \in Endpoints /\ Len(endpoint'.requests) = n + 1 /\ Len(endpoint'.replies) = n + 1
      /\ endpoint'.requests[n + 1] = q /\ endpoint'.replies[n + 1] = p
      /\ \A i \in 1..n : /\ endpoint'.requests[i] = endpoint.requests[i]
                         /\ endpoint'.replies[i] = endpoint.replies[i]
  <2>1. PICK e : e = endpoint'
    OBVIOUS
  <2>2. /\ e \in Endpoints /\ Len(e.requests) = Calls + 1 /\ Len(e.replies) = Calls + 1
        /\ e.requests[Calls + 1] = q /\ e.replies[Calls + 1] = p
        /\ \A i \in 1..Calls : e.requests[i] = endpoint.requests[i] /\ e.replies[i] = endpoint.replies[i]
    <3>1. PICK m \in Materials, v \in Nat : m = RowToken /\ v = row.version
      BY <1>1, <1>2, Zenon
    <3>2. e = Exchanged(c, m, v, <<p>>) /\ q = [caller |-> c, material |-> m, version |-> v]
      BY <1>3, <2>1, <3>1, Zenon
    <3> HIDE DEF q
    <3> QED  BY <1>1, <3>2, ExchangedEndpoint
  <2> QED  BY <1>1, <2>1, <2>2, Zenon
<1>5. Calls' = n + 1 /\ VersionOf(n + 1)' = row.version /\ Presented(n + 1)' = RowToken
      /\ ReplyAt(n + 1)' = p
  BY <1>1, <1>4 DEF Calls, VersionOf, Presented, ReplyAt
<1>6. ASSUME NEW i \in 1..n
      PROVE  /\ VersionOf(i)' = VersionOf(i) /\ Presented(i)' = Presented(i)
             /\ ReplyAt(i)' = ReplyAt(i) /\ Ended(i) /\ Ended(i)' /\ Replaces(i)' = Replaces(i)
  <2>1. VersionOf(i)' = VersionOf(i) /\ Presented(i)' = Presented(i) /\ ReplyAt(i)' = ReplyAt(i)
    BY <1>1, <1>4 DEF VersionOf, Presented, ReplyAt, RowTypeOK
  <2> QED  BY <1>1, <1>5, <2>1 DEF Ended, Replaces
<1>7. /\ ~Ended(n + 1)' /\ \A i \in 1..(n + 1) : i \in 1..n \/ i = n + 1
      /\ RowToken' = RowToken /\ row' = row /\ written' = written
  BY <1>1, <1>5 DEF Ended, RowToken
<1>8. RowTypeOK'
  <2>1. callers' \in [Callers -> {"idle", "start", "locking", "exchanging"}]
    BY <1>1 DEF RowTypeOK, Exchange
  <2>2. seen' \in [Callers -> [material : Materials, version : Nat]]
    BY <1>1, <1>2, Zenon DEF RowTypeOK
  <2>3. Len(endpoint'.replies) = Calls' /\ Calls' <= MaxRequests
    BY <1>1, <1>4, <1>5, RowAssumption
  <2> QED  BY <1>1, <1>4, <2>1, <2>2, <2>3, Zenon DEF RowTypeOK
<1>9. OneAtATime'
  <2>1. callers' = [callers EXCEPT ![c] = "exchanging"] /\ seen'[c] = Snapshot
    BY <1>1, Zenon DEF Exchange, RowTypeOK
  <2>2. \A d \in Callers : callers'[d] = "exchanging" <=> d \in lock'
    BY <1>1, <2>1, Zenon DEF OneAtATime, RowTypeOK
  <2>3. endpoint'.requests[Calls'] = [caller |-> c, material |-> seen'[c].material, version |-> seen'[c].version]
    BY <1>2, <1>4, <1>5, <2>1
  <2> QED  BY <1>1, <1>5, <2>2, <2>3 DEF OneAtATime
<1>10. Versioned'
  <2>1. written' \in 1..row'.version /\ row'.reauth_at <= row'.version
    BY <1>7 DEF Versioned
  <2>2. \A i \in 1..(n + 1) : VersionOf(i)' <= row'.version
    BY <1>1, <1>5, <1>6, <1>7 DEF Versioned
  <2>3. \A i \in 1..(n + 1) : (Ended(i) /\ VersionOf(i) = row.version)' =>
          (Failed(ReplyAt(i)) /\ (FailureOf(ReplyAt(i)) = "Transient" \/ row.reauth_at = row.version))'
    BY <1>1, <1>6, <1>7 DEF Versioned
  <2> QED  BY <1>5, <2>1, <2>2, <2>3, Zenon DEF Versioned
<1>11. Sourced'
  <2>1. \A m, k : Known(m, k)' = Known(m, k)
    BY Zenon DEF Known
  <2>2. Known(RowToken, n)
    BY <1>1 DEF Sourced
  <2>3. lock' # {} /\ Calls' - 1 = n
    BY <1>1, <1>5
  <2>4. \A i \in 1..(n + 1) :
          /\ Known(Presented(i)', i - 1)
          /\ ReplyAt(i)'.body.refresh \in NoToken \cup {Rotations[i]}
          /\ Ended(i)' /\ Replaces(i)' => Presented(i)' # RowToken'
          /\ ~Ended(i)' /\ VersionOf(i)' < row'.version => Presented(i)' # RowToken'
    <3> SUFFICES ASSUME NEW i \in 1..(n + 1)
                 PROVE  /\ Known(Presented(i)', i - 1)
                        /\ ReplyAt(i)'.body.refresh \in NoToken \cup {Rotations[i]}
                        /\ Ended(i)' /\ Replaces(i)' => Presented(i)' # RowToken'
                        /\ ~Ended(i)' /\ VersionOf(i)' < row'.version => Presented(i)' # RowToken'
      OBVIOUS
    <3>1. CASE i \in 1..n
      BY <1>1, <1>6, <1>7, <3>1 DEF Sourced
    <3>2. CASE i = n + 1
      <4>1. i - 1 = n
        BY <1>1, <3>2
      <4> QED  BY <1>1, <1>5, <1>7, <2>2, <3>2, <4>1
    <3> QED  BY <1>7, <3>1, <3>2, Zenon
  <2> QED  BY <1>5, <1>7, <2>1, <2>2, <2>3, <2>4, Zenon DEF Sourced
<1>12. PairsSpent'
  <2> SUFFICES ASSUME NEW i \in 1..(n + 1), NEW j \in 1..(n + 1), i < j
               PROVE  /\ VersionOf(i)' = VersionOf(j)' =>
                           Failed(ReplyAt(i)') /\ FailureOf(ReplyAt(i)') = "Transient"
                      /\ Presented(i)' = Presented(j)' => ~Replaces(i)'
    BY <1>5, Zenon DEF PairsSpent, Failed, FailureOf
  <2>1. i \in 1..n
    BY <1>1, <1>7
  <2>2. CASE j \in 1..n
    BY <1>1, <1>6, <2>1, <2>2, Zenon DEF PairsSpent
  <2>3. CASE j = n + 1
    BY <1>1, <1>5, <1>6, <2>1, <2>3, Zenon DEF Versioned, Sourced
  <2> QED  BY <1>7, <2>2, <2>3
<1>13. Stands'
  BY <1>1, <1>5, <1>6, <1>7 DEF Stands, LastWritten
<1> QED  BY <1>8, <1>9, <1>10, <1>11, <1>12, <1>13

LEMMA ReadAgainInv ==
    ASSUME RowInv, NEW c \in Callers, NEW r \in LiveReplies, Calls < MaxRequests,
           ReadAgain(c, <<Issued(r)>>), UNCHANGED <<rowCase, rowStep, written>>
    PROVE  RowInv'
<1>0. lock = {} /\ callers[c] = "locking" /\ seen' = [seen EXCEPT ![c] = Snapshot]
      /\ UNCHANGED <<rowFaults, recipeKind, row>>
  BY DEF ReadAgain
<1>1. CASE fresh(row) # {} \/ latched(row)
  <2>1. callers' = [callers EXCEPT ![c] = "idle"] /\ UNCHANGED <<lock, endpoint>>
    BY <1>1 DEF ReadAgain, Decide, Returns, Resting
  <2> QED  BY <1>0, <2>1, ReadOnly, Zenon DEF Unexchanging
<1>2. CASE fresh(row) = {} /\ ~latched(row)
  <2>1. Exchange(c, Snapshot, <<Issued(r)>>) /\ lock' = {c}
    BY <1>2 DEF ReadAgain, Decide
  <2> QED  BY <1>0, <1>2, <2>1, IssuedReply, ExchangeInv, Zenon DEF RowInv
<1> QED  BY <1>1, <1>2

(* The holder of the lock made the last request. *)
LEMMA HolderAsked ==
    ASSUME RowInv, NEW c \in Callers, callers[c] = "exchanging"
    PROVE  /\ lock = {c} /\ Calls \in Nat \ {0} /\ RequestOf(c) = Calls
           /\ seen[c].version = VersionOf(Calls) /\ seen[c].material = Presented(Calls)
           /\ ReplyAt(Calls) \in Replies
<1>1. RowTypeOK /\ OneAtATime /\ c \in lock /\ Calls \in Nat /\ Calls > 0
  <2>1. RowTypeOK /\ OneAtATime
    BY DEF RowInv
  <2>2. Calls \in Nat
    BY <2>1 DEF RowTypeOK, Endpoints, Calls
  <2> QED  BY <2>1, <2>2, Zenon DEF OneAtATime
<1>2. endpoint.requests[Calls] =
        [caller |-> c, material |-> seen[c].material, version |-> seen[c].version]
  BY <1>1 DEF OneAtATime
<1>3. lock = {c}
  BY <1>1 DEF OneAtATime
<1>4. \A j \in (Calls + 1)..Calls : endpoint.requests[j].caller # c
  BY <1>1
<1>5. ASSUME NEW i \in 1..Calls, \A j \in (i + 1)..Calls : endpoint.requests[j].caller # c
      PROVE  i = Calls
  <2>1. CASE i < Calls
    <3>1. Calls \in (i + 1)..Calls
      BY <1>1, <2>1
    <3> QED  BY <1>2, <1>5, <3>1
  <2> QED  BY <1>1, <2>1
<1>6. RequestOf(c) = Calls
  <2>1. Calls \in 1..Calls /\ endpoint.requests[Calls].caller = c
    BY <1>1, <1>2
  <2> QED  BY <1>4, <1>5, <2>1 DEF RequestOf
<1>7. ReplyAt(Calls) \in Replies
  BY <1>1 DEF ReplyAt, RowTypeOK, Endpoints
<1> QED  BY <1>1, <1>2, <1>3, <1>6, <1>7 DEF VersionOf, Presented

(* The end of an exchange, by what it does to the row. *)
LEMMA ExchangeEnds ==
    ASSUME RowInv, NEW c \in Callers, callers[c] = "exchanging",
           callers' = [callers EXCEPT ![c] = "idle"], seen' = [seen EXCEPT ![c] = NothingSeen],
           lock' = lock \ {c},
           UNCHANGED <<rowFaults, recipeKind, endpoint, rowCase, rowStep, written>>,
           RowShape(row'), row'.version \in {row.version, row.version + 1},
           row'.reauth_at <= row'.version,
           row'.version = row.version /\ row.reauth_at = row.version => row'.reauth_at = row'.version,
           VersionOf(Calls) = row'.version =>
             Failed(ReplyAt(Calls)) /\ (FailureOf(ReplyAt(Calls)) = "Transient" \/ row'.reauth_at = row'.version),
           Known(row'.fields.refresh_token, Calls),
           \A i \in 1..Calls : Replaces(i) => Presented(i) # row'.fields.refresh_token,
           Stands'
    PROVE  RowInv'
<1> USE DEF RowInv
<1>1. PICK n \in Nat \ {0} : n = Calls
  BY HolderAsked, Zenon
<1>2. /\ RowTypeOK /\ n = Calls /\ Calls' = n /\ lock = {c} /\ lock' = {} /\ row.version \in Nat
      /\ row'.version \in Nat /\ row'.reauth_at \in Nat /\ row'.version >= row.version
  BY <1>1, HolderAsked DEF RowTypeOK, Calls, RowShape
<1>3. ASSUME NEW i \in 1..n
      PROVE  /\ VersionOf(i)' = VersionOf(i) /\ Presented(i)' = Presented(i)
             /\ ReplyAt(i)' = ReplyAt(i) /\ Ended(i)' /\ Replaces(i)' = Replaces(i)
             /\ i # n => Ended(i)
             /\ VersionOf(i) \in Nat /\ VersionOf(i) <= row.version
  <2>1. VersionOf(i) \in Nat
    <3>1. endpoint.requests \in Seq(Requests) /\ i \in 1..Len(endpoint.requests)
      BY <1>2, Zenon DEF RowTypeOK, Endpoints, Calls
    <3>2. endpoint.requests[i] \in Requests
      BY <3>1
    <3> QED  BY <3>2, Zenon DEF VersionOf, Requests
  <2> QED  BY <1>2, <2>1 DEF VersionOf, Presented, ReplyAt, Ended, Replaces, Versioned
<1>4. RowTypeOK'
  <2>1. NothingSeen \in [material : Materials, version : Nat]
    BY DEF NothingSeen, Materials, NoToken
  <2> QED  BY <1>2, <2>1 DEF RowTypeOK
<1>5. OneAtATime'
  BY <1>2, Zenon DEF OneAtATime, RowTypeOK
<1>6. Versioned'
  <2>1. written' \in 1..row'.version
    BY <1>2 DEF Versioned, RowTypeOK
  <2>2. \A i \in 1..n : VersionOf(i)' <= row'.version
    BY <1>2, <1>3
  <2>3. ASSUME NEW i \in 1..n, VersionOf(i)' = row'.version
        PROVE  Failed(ReplyAt(i)) /\ (FailureOf(ReplyAt(i)) = "Transient" \/ row'.reauth_at = row'.version)
    <3>1. CASE i = n
      BY <1>2, <1>3, <2>3, <3>1
    <3>2. CASE i # n
      <4>1. row'.version = row.version /\ VersionOf(i) = row.version /\ Ended(i)
        BY <1>2, <1>3, <2>3, <3>2
      <4> QED  BY <1>2, <4>1 DEF Versioned
    <3> QED  BY <3>1, <3>2
  <2> QED  BY <1>2, <1>3, <2>1, <2>2, <2>3, Zenon DEF Versioned
<1>7. Sourced'
  <2>1. \A m, k : Known(m, k)' = Known(m, k)
    BY Zenon DEF Known
  <2>2. RowToken' = row'.fields.refresh_token
    BY DEF RowToken
  <2>3. \A i \in 1..n : Known(Presented(i), i - 1) /\ ReplyAt(i).body.refresh \in NoToken \cup {Rotations[i]}
    BY <1>2 DEF Sourced
  <2> QED  BY <1>2, <1>3, <2>1, <2>2, <2>3, Zenon DEF Sourced
<1>8. PairsSpent'
  BY <1>2, <1>3 DEF PairsSpent
<1> QED  BY <1>4, <1>5, <1>6, <1>7, <1>8

LEMMA SettleInv ==
    ASSUME RowInv, NEW c \in Callers, Settle(c), UNCHANGED <<rowCase, rowStep, written>>
    PROVE  RowInv'
<1> DEFINE said == ReplyAt(Calls)
<1>0. callers[c] = "exchanging" /\ lock' = lock \ {c} /\ seen' = [seen EXCEPT ![c] = NothingSeen]
      /\ UNCHANGED <<rowFaults, recipeKind, endpoint>> /\ callers' = [callers EXCEPT ![c] = "idle"]
  BY Zenon DEF Settle, Returns, Resting
<1>1. /\ lock = {c} /\ Calls \in Nat \ {0} /\ RequestOf(c) = Calls
      /\ seen[c].version = VersionOf(Calls) /\ said \in Replies
  BY <1>0, HolderAsked
<1>2. /\ RowTypeOK /\ RowShape(row) /\ row.version \in Nat /\ row.reauth_at \in Nat
      /\ row.reauth_at <= row.version /\ rowFaults = {} /\ Versioned /\ Sourced /\ Stands
      /\ written \in 1..row.version
  BY DEF RowInv, RowTypeOK, RowShape, Versioned
<1>3. Known(RowToken, Calls - 1) /\ Known(RowToken, Calls)
  <2>1. Known(RowToken, Calls - 1)
    BY <1>1, <1>2, Zenon DEF Sourced
  <2>2. 1..(Calls - 1) \subseteq 1..Calls
    BY <1>1
  <2> QED  BY <2>1, <2>2 DEF Known
<1>4. \A i \in 1..Calls : i # Calls /\ Replaces(i) => Presented(i) # RowToken
  BY <1>1, <1>2 DEF Sourced, Ended
<1>5. row'.fields = row.fields => Stands' /\ row'.fields.refresh_token = RowToken
  BY <1>0, <1>2 DEF Stands, RowToken, LastWritten, ReplyAt, VersionOf, Calls
<1>6. VersionOf(Calls) <= row.version /\ VersionOf(Calls) \in Nat
  <2>1. endpoint.requests \in Seq(Requests) /\ Calls \in 1..Calls
    BY <1>1, <1>2 DEF RowTypeOK, Endpoints
  <2>2. endpoint.requests[Calls] \in Requests
    BY <2>1 DEF Calls
  <2>3. VersionOf(Calls) \in Nat
    BY <2>2 DEF VersionOf, Requests
  <2> QED  BY <1>2, <2>1, <2>3 DEF Versioned
<1>7. CASE Failed(said)
  <2>1. row' = AfterFailure(c, FailureOf(said))
    BY <1>1, <1>7, Zenon DEF Settle
  <2>2. ~Replaces(Calls)
    BY <1>7 DEF Replaces
  <2>3. FailureOf(said) \in {"Transient", "ReauthRequired"}
    BY DEF FailureOf, classify
  <2>4. CASE row.version # seen[c].version \/ FailureOf(said) = "Transient"
    <3>1. row' = row
      BY <1>2, <2>1, <2>4 DEF AfterFailure, RowHas
    <3> QED  BY <1>0, <1>1, <1>2, <1>3, <1>4, <1>5, <1>7, <2>2, <2>4, <3>1, ExchangeEnds, Zenon
  <2>5. CASE row.version = seen[c].version /\ FailureOf(said) = "ReauthRequired"
    <3>1. row' = [row EXCEPT !.reauth_at = row.version]
      BY <2>1, <2>5 DEF AfterFailure
    <3>2. row' = [fields |-> row.fields, previous |-> row.previous, minted |-> row.minted,
                  version |-> row.version, reauth_at |-> row.version, persisted |-> row.persisted]
      BY <1>2, <3>1 DEF RowShape
    <3>3. RowShape(row') /\ row'.fields = row.fields /\ row'.version = row.version /\ row'.reauth_at = row.version
      BY <1>2, <3>2 DEF RowShape
    <3>4. \A i \in 1..Calls : Replaces(i) => Presented(i) # row'.fields.refresh_token
      BY <1>4, <1>5, <2>2, <3>3
    <3>5. row'.version \in {row.version, row.version + 1} /\ row'.reauth_at <= row'.version
          /\ row'.reauth_at = row'.version
      BY <1>2, <3>3
    <3>6. Known(row'.fields.refresh_token, Calls) /\ Stands'
      BY <1>3, <1>5, <3>3
    <3> QED  BY <1>0, <1>7, <3>3, <3>4, <3>5, <3>6, ExchangeEnds, Zenon
  <2> QED  BY <2>3, <2>4, <2>5
<1>8. CASE ~Failed(said) /\ CasLost(c)
  <2>1. row' = row /\ row.version # seen[c].version
    BY <1>1, <1>8, Zenon DEF Settle, CasLost
  <2>2. Presented(Calls) # RowToken
    BY <1>1, <1>2, <1>6, <2>1 DEF Sourced, Ended
  <2> QED  BY <1>0, <1>1, <1>2, <1>3, <1>4, <1>5, <2>1, <2>2, ExchangeEnds, Zenon
<1>9. CASE ~Failed(said) /\ ~CasLost(c)
  <2>1. row' = WrittenBack(said.body) /\ row.version = VersionOf(Calls)
    BY <1>1, <1>2, <1>9, Zenon DEF Settle, CasLost, RowHas
  <2>2. said.body \in Bodies
    BY <1>1 DEF Replies
  <2>3. /\ RowShape(row') /\ row'.version = row.version + 1 /\ row'.reauth_at = row.reauth_at
        /\ row'.fields.refresh_token =
             IF Rotated(said.body.refresh) = {} THEN RowToken ELSE said.body.refresh
    BY <1>2, <2>1, <2>2, WrittenBackRow, Zenon
  <2>4. /\ row'.version \in {row.version, row.version + 1} /\ row'.reauth_at <= row'.version
        /\ row'.version # row.version /\ VersionOf(Calls) # row'.version
    BY <1>2, <1>6, <2>3
  <2>5. CASE said.body.refresh \in NoToken
    <3>1. row'.fields.refresh_token = RowToken /\ ~Replaces(Calls)
      BY <1>2, <2>3, <2>5, Zenon DEF Rotated, RowHas, Replaces
    <3>2. Stands'
      BY <1>0, <1>2, <3>1 DEF Stands, RowToken, LastWritten, ReplyAt, VersionOf, Calls
    <3>3. \A i \in 1..Calls : Replaces(i) => Presented(i) # row'.fields.refresh_token
      BY <1>4, <3>1
    <3>4. Known(row'.fields.refresh_token, Calls)
      BY <1>3, <3>1
    <3> QED  BY <1>0, <2>3, <2>4, <3>2, <3>3, <3>4, ExchangeEnds, Zenon
  <2>6. CASE said.body.refresh \notin NoToken
    <3>1. row'.fields.refresh_token = Rotations[Calls] /\ said.body.refresh = Rotations[Calls]
      <4>1. said.body.refresh = Rotations[Calls]
        BY <1>1, <1>2, <2>6 DEF Sourced
      <4>2. Rotated(said.body.refresh) # {}
        BY <2>6 DEF Rotated
      <4> QED  BY <2>3, <4>1, <4>2, Zenon
    <3>2. \A i \in 1..Calls : Presented(i) # Rotations[Calls]
      <4> SUFFICES ASSUME NEW i \in 1..Calls PROVE Presented(i) # Rotations[Calls]
        OBVIOUS
      <4>1. Known(Presented(i), i - 1)
        BY <1>2 DEF Sourced
      <4>2. Calls <= Len(Rotations) /\ rowStep - 1 <= Len(Operators) /\ rowStep \in Nat \ {0}
            /\ Len(Rotations) \in Nat /\ Len(Operators) \in Nat
        BY <1>1, <1>2, RowAssumption DEF RowTypeOK
      <4>3. Rotations[Calls] # "seed"
        BY <1>1, <4>2, RowAssumption
      <4>4. \A k \in 1..(rowStep - 1) : Operators[k] # Rotations[Calls]
        BY <1>1, <4>2, RowAssumption
      <4>5. \A k \in 1..(i - 1) : Rotations[k] # Rotations[Calls]
        BY <1>1, <4>2, RowAssumption
      <4> QED  BY <4>1, <4>3, <4>4, <4>5 DEF Known
    <3>3. Stands'
      <4>1. PICK n \in 1..Calls : n = Calls
        BY <1>1
      <4>2. ReplyAt(n)' = ReplyAt(n) /\ VersionOf(n)' = VersionOf(n) /\ Calls' = Calls /\ written' = written
        BY <1>0 DEF ReplyAt, VersionOf, Calls
      <4>3. VersionOf(n) >= written
        BY <1>2, <2>1, <4>1
      <4> QED  BY <3>1, <4>1, <4>2, <4>3 DEF Stands, RowToken
    <3>4. Known(row'.fields.refresh_token, Calls)
      BY <1>1, <3>1 DEF Known
    <3>5. \A i \in 1..Calls : Replaces(i) => Presented(i) # row'.fields.refresh_token
      BY <3>1, <3>2
    <3> QED  BY <1>0, <2>3, <2>4, <3>3, <3>4, <3>5, ExchangeEnds, Zenon
  <2> QED  BY <2>5, <2>6
<1> QED  BY <1>7, <1>8, <1>9

LEMMA OperatorWritesInv == ASSUME RowInv, OperatorWrites PROVE RowInv'
<1> USE DEF RowInv
<1>0. PICK token : token = Operators[rowStep]
  OBVIOUS
<1>1. PICK minted : row' = replace(row, Generation(Refresh(token), minted))
  BY <1>0 DEF OperatorWrites, WriteGeneration
<1>2. /\ rowStep' = rowStep + 1 /\ written' = row.version + 1 /\ rowStep <= MaxWrites
      /\ UNCHANGED <<rowFaults, recipeKind, lock, callers, seen, endpoint, rowCase>>
  BY DEF OperatorWrites
<1>3. /\ RowTypeOK /\ RowShape(row) /\ row.version \in Nat /\ row.reauth_at \in Nat
      /\ rowStep \in Nat \ {0} /\ rowStep \in 1..Len(Operators) /\ Calls \in Nat
      /\ Calls <= Len(Rotations) /\ MaxWrites \in Nat
  BY <1>2, RowAssumption DEF RowTypeOK, RowShape, Endpoints, Calls
<1>4. token \in Materials
  BY <1>0, <1>3 DEF Materials
<1>5. /\ RowShape(row') /\ row'.version = row.version + 1 /\ row'.reauth_at = row.reauth_at
      /\ row'.fields.refresh_token = token
  BY <1>1, <1>3, <1>4, ReplacedRow
<1>6. PICK n \in Nat : n = Calls
  BY <1>3
<1>7. ASSUME NEW i \in 1..n
      PROVE  /\ VersionOf(i)' = VersionOf(i) /\ Presented(i)' = Presented(i)
             /\ ReplyAt(i)' = ReplyAt(i) /\ Ended(i)' = Ended(i) /\ Replaces(i)' = Replaces(i)
             /\ VersionOf(i) \in Nat /\ VersionOf(i) <= row.version
  <2>1. endpoint.requests[i] \in Requests
    <3>1. endpoint.requests \in Seq(Requests) /\ i \in 1..Len(endpoint.requests)
      BY <1>3, <1>6, Zenon DEF RowTypeOK, Endpoints, Calls
    <3> QED  BY <3>1
  <2>2. VersionOf(i) \in Nat
    BY <2>1 DEF VersionOf, Requests
  <2> QED  BY <1>2, <1>6, <2>2, Zenon DEF VersionOf, Presented, ReplyAt, Ended, Replaces, Versioned, Calls
<1>8. Calls' = n /\ RowToken' = token
  BY <1>2, <1>5, <1>6 DEF Calls, RowToken
<1>9. \A m, k : Known(m, k) => Known(m, k)'
  <2>1. 1..(rowStep - 1) \subseteq 1..(rowStep' - 1)
    BY <1>2, <1>3
  <2> QED  BY <2>1 DEF Known
<1>10. Known(token, 0)'
  <2>1. rowStep \in 1..(rowStep' - 1)
    BY <1>2, <1>3
  <2> QED  BY <1>0, <2>1 DEF Known
<1>11. \A i \in 1..n : Presented(i) # token
  <2> SUFFICES ASSUME NEW i \in 1..n PROVE Presented(i) # token
    OBVIOUS
  <2>1. Known(Presented(i), i - 1)
    BY <1>6 DEF Sourced
  <2>2. token # "seed"
    BY <1>0, <1>3, RowAssumption
  <2>3. \A k \in 1..(rowStep - 1) : Operators[k] # token
    BY <1>0, <1>3, RowAssumption
  <2>4. \A k \in 1..(i - 1) : Rotations[k] # token
    BY <1>0, <1>3, <1>6, RowAssumption
  <2> QED  BY <2>1, <2>2, <2>3, <2>4 DEF Known
<1>12. RowTypeOK'
  BY <1>2, <1>3, <1>5 DEF RowTypeOK, Calls
<1>13. OneAtATime'
  BY <1>2, Zenon DEF OneAtATime, Calls
<1>14. Versioned'
  <2>1. written' \in 1..row'.version /\ row'.reauth_at <= row'.version
    BY <1>2, <1>3, <1>5 DEF Versioned
  <2>2. \A i \in 1..n : VersionOf(i)' <= row'.version /\ VersionOf(i)' # row'.version
    BY <1>3, <1>5, <1>7
  <2> QED  BY <1>8, <2>1, <2>2 DEF Versioned
<1>15. Sourced'
  <2>1. \A k : Known(token, k)'
    BY <1>10 DEF Known
  <2>2. \A i \in 1..n : Known(Presented(i), i - 1)' /\ ReplyAt(i)'.body.refresh \in NoToken \cup {Rotations[i]}
    BY <1>6, <1>7, <1>9, Zenon DEF Sourced
  <2> QED  BY <1>7, <1>8, <1>11, <2>1, <2>2, Zenon DEF Sourced
<1>16. PairsSpent'
  BY <1>6, <1>7, <1>8 DEF PairsSpent
<1>17. Stands'
  BY <1>0, <1>2, <1>3, <1>8 DEF Stands, LastWritten
<1> QED  BY <1>12, <1>13, <1>14, <1>15, <1>16, <1>17

LEMMA RecipeNextInv == RowInv /\ [RecipeNext]_rowVars => RowInv'
<1> SUFFICES ASSUME RowInv, [RecipeNext]_rowVars PROVE RowInv'
  OBVIOUS
<1>0. RowTypeOK /\ rowCase = 0
  BY DEF RowInv, RowTypeOK
<1>1. ASSUME NEW c \in Callers, CallerNext(c), UNCHANGED <<rowCase, rowStep, walking, written, rowMismatches>>
      PROVE  RowInv'
  <2>1. CASE CanAsk /\ \E scripted \in Scripts : ReadRow(c, scripted)
    BY <1>1, <2>1, ReadRowInv
  <2>2. CASE CanAsk /\ \E scripted \in Scripts : ReadAgain(c, scripted)
    <3>1. Calls < MaxRequests /\ \E r \in LiveReplies : ReadAgain(c, <<Issued(r)>>)
      BY <1>0, <2>2 DEF CanAsk, Scripts
    <3> QED  BY <1>1, <3>1, ReadAgainInv
  <2>3. CASE Settle(c)
    BY <1>1, <2>3, SettleInv
  <2> QED  BY <1>1, <2>1, <2>2, <2>3 DEF CallerNext
<1>2. ~BeginResolve /\ ~EndResolve /\ ~CompetingWrite /\ ~ExpectStep /\ ~EndCase
  BY <1>0 DEF BeginResolve, EndResolve, CompetingWrite, ExpectStep, EndCase, Walks
<1>3. CASE UNCHANGED rowVars
  BY <1>0, <1>3, QuietRow DEF rowVars, rowHostVars, RowTypeOK
<1> QED  BY <1>1, <1>2, <1>3, LiveResolveInv, OperatorWritesInv, ExpiresInv DEF RecipeNext

(* Whatever callers resolve, operators write and the endpoint answers, the   *)
(* row and the exchanges stay within their invariant.                        *)
THEOREM RowInvariance == RowSpec => []RowInv
  BY RowStartsInv, RecipeNextInv, PTL DEF RowSpec

(* The properties of the host without mistakes follow. *)
LEMMA InvSound == RowInv => RowSound
<1> SUFFICES ASSUME RowInv PROVE RowSound
  OBVIOUS
<1>1. RowTypeOK /\ rowFaults = {} /\ PairsSpent /\ Stands /\ Sourced
  BY DEF RowInv, RowTypeOK
<1>2. SpentOnce
  BY <1>1 DEF SpentOnce, PairsSpent, VersionOf, Presented, Replaces, Succeeds, Rotated, RowHas
<1>3. RowToken \notin {"absent", ""}
  <2>1. PICK n \in Nat : n <= Calls /\ Known(RowToken, n) /\ Calls \in Nat
    <3>1. Calls \in Nat /\ (lock # {} => Calls > 0)
      <4>1. Calls \in Nat
        BY <1>1 DEF RowTypeOK, Endpoints, Calls
      <4> QED  BY <1>1, <4>1, Zenon DEF RowInv, OneAtATime, RowTypeOK
    <3> QED  BY <1>1, <3>1 DEF Sourced
  <2>2. n <= Len(Rotations) /\ rowStep - 1 <= Len(Operators) /\ rowStep \in Nat \ {0}
        /\ Len(Rotations) \in Nat /\ Len(Operators) \in Nat
    BY <1>1, <2>1, RowAssumption DEF RowTypeOK
  <2>3. \A k \in 1..n : Rotations[k] \notin NoToken
    BY <2>2, RowAssumption
  <2>4. \A k \in 1..(rowStep - 1) : Operators[k] \notin NoToken
    BY <2>2, RowAssumption
  <2> QED  BY <2>1, <2>3, <2>4, Zenon DEF Known, NoToken
<1>4. OperatorStands
  BY <1>1, <1>3, Zenon DEF OperatorStands, Holds, Stands, RowToken, VersionOf
<1> QED  BY <1>2, <1>4 DEF RowSound

(* For every number of callers, of exchanges and of operators' writes, and   *)
(* every order of their steps: material is presented again only after a      *)
(* transient failure, a rotated token never, and what an operator wrote      *)
(* stands until it is itself exchanged.                                      *)
THEOREM RowIsSound == RowSpec => []RowSound
  BY RowInvariance, InvSound, PTL
=============================================================================
