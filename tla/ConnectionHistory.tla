-------------------------- MODULE ConnectionHistory --------------------------
(***************************************************************************)
(* The bounded connection history of the reqwest transport                 *)
(* (crates/south-transport-reqwest/src/observation.rs).  Concurrent        *)
(* requests share one History behind a mutex; when a response arrives its  *)
(* request records the socket pair that carried it and learns a            *)
(* fingerprint and whether the pair was already known when the request     *)
(* started.                                                                *)
(***************************************************************************)
EXTENDS Integers, Sequences, FiniteSets, SequencesExt

CONSTANTS Requests,     \* the requests sharing one tracker
          Pairs,        \* socket pairs
          MaxHistory,   \* MAX_CONNECTION_HISTORY
          TTL,          \* CONNECTION_HISTORY_TTL, in ticks
          MaxId,        \* u64::MAX, the last identifier
          MaxTime,      \* bound on the clock
          MaxReports    \* bound on the number of responses

ASSUME HistoryAssumption ==
    /\ MaxHistory \in Nat \ {0}
    /\ TTL \in Nat \ {0}
    /\ {MaxId, MaxTime, MaxReports} \subseteq Nat

VARIABLES now,       \* the monotonic clock
          entries,   \* History::entries, front first
          next_id,   \* History::next_id
          started,   \* each request's ObserveContext::start, or Idle
          reports    \* the observer's connection callbacks, oldest first

historyVars == <<now, entries, next_id, started, reports>>

Idle == MaxTime + 1

Unknown == 0    \* no fingerprint: the observer gets south_connection_unknown

Entry == [pair : Pairs, id : 1..MaxId, first : 0..MaxTime, last : 0..MaxTime]

Report == [pair : Pairs, started : 0..MaxTime, at : 0..MaxTime,
           fingerprint : 0..MaxId, reused : BOOLEAN]

HistoryTypeOK ==
    /\ now \in 0..MaxTime
    /\ entries \in Seq(Entry)
    /\ next_id \in 0..MaxId
    /\ started \in [Requests -> 0..Idle]
    /\ reports \in Seq(Report)

HistoryInit ==
    /\ now = 0
    /\ entries = <<>>
    /\ next_id = 0
    /\ started = [r \in Requests |-> Idle]
    /\ reports = <<>>
-----------------------------------------------------------------------------
(* The entries History::record keeps: those seen less than the TTL ago, in *)
(* the order they were in (retain).                                        *)
Fresh == {k \in 1..Len(entries) : now - entries[k].last < TTL}
Rank(k) == Cardinality({j \in Fresh : j <= k})
Retained == [i \in 1..Cardinality(Fresh) |-> entries[CHOOSE k \in Fresh : Rank(k) = i]]

\* Mutant: a known pair keeps its place.
RefreshInPlace(live, k) == [live EXCEPT ![k].last = now]

(* A known pair is refreshed and moved to the back. *)
Refresh(live, k) == Append(RemoveAt(live, k), [live[k] EXCEPT !.last = now])

\* Mutant: an entry first seen at the instant the request started counts.
KnownBeforeOrAt(e, start) == e.first <= start

(* Was the pair of e in the history before a request that began at start? *)
KnownBefore(e, start) == e.first < start

FreshId == next_id + 1

(* checked_add fails: no identifier is left. *)
Exhausted == next_id = MaxId

(* A new pair takes the next identifier; a full history drops its front. *)
Admit(live, pair) ==
    Append(IF Len(live) = MaxHistory THEN Tail(live) ELSE live,
           [pair |-> pair, id |-> FreshId, first |-> now, last |-> now])

Answered(pair, start, fingerprint, reused) ==
    reports' = Append(reports, [pair |-> pair, started |-> start, at |-> now,
                                fingerprint |-> fingerprint, reused |-> reused])

(* History::record, called under the tracker's lock with the clock read    *)
(* inside the lock.                                                        *)
Record(pair, start) ==
    LET live == Retained
        hits == {k \in DOMAIN live : live[k].pair = pair}
    IN  \/ \E k \in hits :
              /\ \A j \in hits : k <= j
              /\ entries' = Refresh(live, k)
              /\ Answered(pair, start, live[k].id, KnownBefore(live[k], start))
              /\ UNCHANGED next_id
        \/ /\ hits = {} /\ ~Exhausted
           /\ next_id' = FreshId
           /\ entries' = Admit(live, pair)
           /\ Answered(pair, start, FreshId, FALSE)
        \/ /\ hits = {} /\ Exhausted
           /\ entries' = live
           /\ Answered(pair, start, Unknown, FALSE)
           /\ UNCHANGED next_id

(* ObserveContext::new: a request starts and remembers when. *)
Start(r) ==
    /\ started[r] = Idle
    /\ started' = [started EXCEPT ![r] = now]
    /\ UNCHANGED <<now, entries, next_id, reports>>

(* ObserveContext::connection: the response of r arrived over pair. *)
Respond(r, pair) ==
    /\ started[r] # Idle
    /\ Len(reports) < MaxReports
    /\ Record(pair, started[r])
    /\ started' = [started EXCEPT ![r] = Idle]
    /\ UNCHANGED now

HistoryTick ==
    /\ now < MaxTime
    /\ now' = now + 1
    /\ UNCHANGED <<entries, next_id, started, reports>>

HistoryNext ==
    \/ \E r \in Requests : Start(r) \/ \E pair \in Pairs : Respond(r, pair)
    \/ HistoryTick

HistorySpec == HistoryInit /\ [][HistoryNext]_historyVars
-----------------------------------------------------------------------------
(* The history never outgrows MAX_CONNECTION_HISTORY, holds a pair at most *)
(* once, and is kept in order of last use, so that pop_front evicts the    *)
(* least recently used pair and never a fresher one.                       *)
BoundedLeastRecentlyUsed ==
    /\ Len(entries) <= MaxHistory
    /\ \A j, k \in DOMAIN entries :
          j < k => /\ entries[j].pair # entries[k].pair
                   /\ entries[j].last <= entries[k].last

(* A fingerprint names one socket pair forever: neither expiry, eviction   *)
(* nor identifier exhaustion makes record hand an identifier of one pair   *)
(* to another.                                                             *)
FingerprintNamesOnePair ==
    \A j, k \in DOMAIN reports :
        reports[j].fingerprint = reports[k].fingerprint
            => \/ reports[j].fingerprint = Unknown
               \/ reports[j].pair = reports[k].pair

(* record says "reused" only when the same fingerprint was first reported  *)
(* before this request started, whichever order the responses of           *)
(* overlapping requests arrive in.                                         *)
ReusedWasSeenBefore ==
    \A k \in DOMAIN reports :
        reports[k].reused =>
            \E j \in 1..(k - 1) :
                /\ reports[j].fingerprint = reports[k].fingerprint
                /\ reports[j].at < reports[k].started

(* The history is what record's answers are true of. *)
HistoryIsTrue == BoundedLeastRecentlyUsed /\ FingerprintNamesOnePair /\ ReusedWasSeenBefore
=============================================================================
