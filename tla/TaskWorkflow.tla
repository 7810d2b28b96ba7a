---------------------------- MODULE TaskWorkflow ----------------------------
(***************************************************************************)
(* The task workflows of crates/south-task-core/src/lib.rs over the record *)
(* a host keeps.                                                           *)
(*                                                                         *)
(* First the record of one task, as the effect traits require it and as    *)
(* the atomic suite of crates/south-task-conformance/src/lib.rs probes it. *)
(* Each operator is one transaction: a guard, and the record it commits.   *)
(***************************************************************************)
EXTENDS Naturals

CONSTANTS Requests,    \* the requests that share the idempotency identity
          NoRequest

ASSUME StoreAssumption == NoRequest \notin Requests

Completions == {"Succeeded", "Failed", "CancelledUnknown", "CancelledNoCharge"}
Finals == {"Succeeded", "Failed", "Cancelled"}
Executions == {"Absent", "Queued", "Running", "Unknown"} \union Finals

Stores == [request : Requests \union {NoRequest},
           execution : Executions,
           dispatched : BOOLEAN,
           held : BOOLEAN,      \* resources are reserved
           reserves : Nat, closes : Nat, events : Nat,
           version : Nat,       \* the guard of a compare-and-swap
           intent : BOOLEAN]    \* cancellation was asked for

Empty == [request |-> NoRequest, execution |-> "Absent", dispatched |-> FALSE, held |-> FALSE,
          reserves |-> 0, closes |-> 0, events |-> 0, version |-> 0, intent |-> FALSE]

Terminal(s) == s.execution \in Finals

(* What a caller is shown. *)
Outcome(s) == [execution |-> s.execution, held |-> s.held]

Execution(completion) == IF completion \in {"Succeeded", "Failed"} THEN completion ELSE "Cancelled"
-----------------------------------------------------------------------------
(* prepare: created once, replayed for the same request, refused for       *)
(* another.                                                                *)
Verdict(s, request) ==
    IF s.request = NoRequest THEN "Created"
    ELSE IF s.request = request THEN "Replayed" ELSE "Conflict"

Prepared(s, request) ==
    IF s.request # NoRequest THEN s
    ELSE [request |-> request, execution |-> "Queued", dispatched |-> FALSE, held |-> TRUE,
          reserves |-> s.reserves + 1, closes |-> s.closes, events |-> s.events,
          version |-> s.version + 1, intent |-> FALSE]

(* begin_dispatch: the claim is won once, and never on a closed task. *)
MayDispatch(s) == s.request # NoRequest /\ ~s.dispatched /\ ~Terminal(s)

Dispatched(s) == [s EXCEPT !.dispatched = TRUE, !.version = s.version + 1]

(* A new owner fences the previous one. *)
TakenOver(s) == [s EXCEPT !.version = s.version + 1]

\* Mutant: the guard is not compared.
MayApplyUnfenced(s, guard, completion) ==
    /\ s.dispatched
    /\ ~Terminal(s) \/ (s.held /\ completion = "CancelledNoCharge")

\* Mutant: a terminal task takes another completion.
MayApplyTwice(s, guard, completion) == s.dispatched /\ s.version = guard

(* apply and record_submission: the guard still holds and the task is      *)
(* open, or it was cancelled at an unknown cost that is now known.         *)
MayApply(s, guard, completion) ==
    /\ s.dispatched /\ s.version = guard
    /\ ~Terminal(s) \/ (s.execution = "Cancelled" /\ s.held /\ completion = "CancelledNoCharge")

(* A completion closes the resources unless its cost is unknown, with one  *)
(* terminal event.                                                         *)
Completed(s, completion) ==
    [s EXCEPT !.execution = Execution(completion),
              !.held = completion = "CancelledUnknown",
              !.closes = IF completion = "CancelledUnknown" THEN s.closes ELSE s.closes + 1,
              !.events = IF Terminal(s) THEN s.events ELSE s.events + 1,
              !.version = s.version + 1]

(* An open execution fact: acceptance, or that nothing is known. *)
Progressed(s, execution) == [s EXCEPT !.execution = execution, !.version = s.version + 1]

(* cancel_prepared: only with proof that nothing was dispatched. *)
MayCancelPrepared(s) == s.request # NoRequest /\ ~s.dispatched /\ ~Terminal(s)

CancelledPrepared(s) == Completed(s, "CancelledNoCharge")

(* record_cancel_intent leaves a terminal task alone. *)
Intended(s) == IF Terminal(s) THEN s ELSE [s EXCEPT !.intent = TRUE]
-----------------------------------------------------------------------------
(***************************************************************************)
(* The task workflows submit, observe and cancel of                        *)
(* crates/south-task-core/src/lib.rs, run concurrently by any number of    *)
(* host workers over one durable task (above) and one upstream.            *)
(*                                                                         *)
(* Every await of the code is a step.  A host operation commits and        *)
(* replies, fails, or commits and loses its reply; a workflow's future may *)
(* be dropped, or its process crash, between any two steps.                *)
(***************************************************************************)

CONSTANTS Submitters, Observers, Cancellers

(* A worker runs one workflow. *)
ASSUME RolesAssumption ==
    /\ Submitters \intersect Observers = {} /\ Submitters \intersect Cancellers = {}
    /\ Observers \intersect Cancellers = {}

Workers == Submitters \union Observers \union Cancellers

(* What the upstream has made of the task. *)
Upstreams == {"unsent", "accepted", "rejected"} \union Completions

NoOutcome == [execution |-> "Absent", held |-> FALSE]

Outcomes == [execution : Executions, held : BOOLEAN]

Results == [kind : {"none", "Ok", "Err"},
            disposition : {"none", "Applied", "Replayed", "Conflict"},
            outcome : Outcomes]

NoResult == [kind |-> "none", disposition |-> "none", outcome |-> NoOutcome]

VARIABLES store, upstream,
          sends,      \* how often a worker has sent the task
          pc,         \* where each worker is
          claim,      \* the guard a worker's task handle carries
          fact,       \* what a worker's send or query told it
          result      \* what a worker's workflow returned

vars == <<store, upstream, sends, pc, claim, fact, result>>

Labels == {"start", "begin", "send", "record", "reload", "query", "apply",
           "cancelPrepared", "intent", "done"}

Facts == {"none", "Accepted", "Rejected", "Unknown", "Running"} \union Completions

TypeOK ==
    /\ store \in Stores
    /\ upstream \in Upstreams
    /\ sends \in Nat
    /\ pc \in [Workers -> Labels]
    /\ claim \in [Workers -> Nat]
    /\ fact \in [Workers -> Facts]
    /\ result \in [Workers -> Results]

Init ==
    /\ store = Empty
    /\ upstream = "unsent"
    /\ sends = 0
    /\ pc = [w \in Workers |-> "start"]
    /\ claim = [w \in Workers |-> 0]
    /\ fact = [w \in Workers |-> "none"]
    /\ result = [w \in Workers |-> NoResult]
-----------------------------------------------------------------------------
Goto(w, label) == pc' = [pc EXCEPT ![w] = label] /\ UNCHANGED result

Return(w, disposition, outcome) ==
    /\ pc' = [pc EXCEPT ![w] = "done"]
    /\ result' = [result EXCEPT ![w] =
                     [kind |-> "Ok", disposition |-> disposition, outcome |-> outcome]]

(* The ? of a failed host operation. *)
Fail(w) ==
    /\ pc' = [pc EXCEPT ![w] = "done"]
    /\ result' = [result EXCEPT ![w] =
                     [kind |-> "Err", disposition |-> "none", outcome |-> NoOutcome]]

(* The transaction that would commit s fails: before its commit, or after  *)
(* it with its reply lost.                                                 *)
Faulted(w, s) == store' \in {store, s} /\ Fail(w)

Keep == UNCHANGED <<upstream, sends, claim, fact>>
-----------------------------------------------------------------------------
(* submit                                                                  *)

Prepare(w, request) ==
    /\ w \in Submitters /\ pc[w] = "start"
    /\ \/ /\ store' = Prepared(store, request)
          /\ IF Verdict(store, request) = "Created" THEN Goto(w, "begin")
             ELSE Return(w, Verdict(store, request), Outcome(store))
       \/ Faulted(w, Prepared(store, request))
    /\ Keep

(* Only the winner of the dispatch claim goes on to send. *)
Begin(w) ==
    /\ pc[w] = "begin"
    /\ \/ /\ MayDispatch(store)
          /\ store' = Dispatched(store)
          /\ claim' = [claim EXCEPT ![w] = store.version + 1]
          /\ Goto(w, "send")
       \/ /\ ~MayDispatch(store)
          /\ Goto(w, "reload")
          /\ UNCHANGED <<store, claim>>
       \/ /\ Faulted(w, IF MayDispatch(store) THEN Dispatched(store) ELSE store)
          /\ UNCHANGED claim
    /\ UNCHANGED <<upstream, sends, fact>>

\* Mutant: a failed send counts as a definite rejection.
SendErrorRejects(w) ==
    /\ pc[w] = "send"
    /\ sends' = sends + 1
    /\ upstream' \in {"unsent", "accepted", "rejected"}
    /\ \E known \in BOOLEAN :
          fact' = [fact EXCEPT ![w] = IF known /\ upstream' = "accepted" THEN "Accepted" ELSE "Rejected"]
    /\ Goto(w, "record")
    /\ UNCHANGED <<store, claim>>

\* Mutant: a send that failed is sent again.
SendRetries(w) ==
    /\ pc[w] = "send" /\ sends < 2
    /\ sends' = sends + 1
    /\ upstream' \in {"unsent", "accepted", "rejected"}
    /\ \/ Goto(w, "send") /\ UNCHANGED fact
       \/ Goto(w, "record") /\ fact' = [fact EXCEPT ![w] = "Unknown"]
    /\ UNCHANGED <<store, claim>>

(* The send reaches the upstream or not; the answer arrives or the error   *)
(* is recorded as Unknown.                                                 *)
Send(w) ==
    /\ pc[w] = "send"
    /\ sends' = sends + 1
    /\ \/ upstream' = "accepted" /\ fact' = [fact EXCEPT ![w] = "Accepted"]
       \/ upstream' = "rejected" /\ fact' = [fact EXCEPT ![w] = "Rejected"]
       \/ upstream' \in {"unsent", "accepted", "rejected"} /\ fact' = [fact EXCEPT ![w] = "Unknown"]
    /\ Goto(w, "record")
    /\ UNCHANGED <<store, claim>>

(* record_submission commits the fact under the dispatch claim. *)
Recorded(s, f) ==
    IF f = "Rejected" THEN Completed(s, "Failed")
    ELSE Progressed(s, IF f = "Accepted" THEN "Running" ELSE "Unknown")

\* Mutant: the loser of the compare-and-swap answers with its own fact.
RecordLoserAnswers(w) ==
    /\ pc[w] = "record"
    /\ \/ /\ MayApply(store, claim[w], "Failed")
          /\ store' = Recorded(store, fact[w])
       \/ /\ ~MayApply(store, claim[w], "Failed")
          /\ UNCHANGED store
    /\ Return(w, "Applied", Outcome(Recorded(store, fact[w])))
    /\ Keep

Record(w) ==
    /\ pc[w] = "record"
    /\ \/ /\ MayApply(store, claim[w], "Failed")
          /\ store' = Recorded(store, fact[w])
          /\ Return(w, "Applied", Outcome(Recorded(store, fact[w])))
       \/ /\ ~MayApply(store, claim[w], "Failed")
          /\ UNCHANGED store
          /\ Goto(w, "reload")
       \/ Faulted(w, IF MayApply(store, claim[w], "Failed") THEN Recorded(store, fact[w])
                     ELSE store)
    /\ Keep

(* The loser of a compare-and-swap reads the winner. *)
Reload(w) ==
    /\ pc[w] = "reload"
    /\ \/ Return(w, IF w \in Submitters THEN "Replayed" ELSE "none", Outcome(store))
       \/ Fail(w)
    /\ UNCHANGED store /\ Keep
-----------------------------------------------------------------------------
(* observe and apply_observation                                           *)

Claimable(s) == s.dispatched /\ (Terminal(s) => s.held)

(* load restores the task and claims it, or returns what is durable. *)
Load(w) ==
    /\ w \in Observers /\ pc[w] = "start"
    /\ \/ /\ Claimable(store)
          /\ store' = TakenOver(store)
          /\ claim' = [claim EXCEPT ![w] = store.version + 1]
          /\ Goto(w, "query")
       \/ /\ Return(w, "none", Outcome(store))
          /\ UNCHANGED <<store, claim>>
       \/ /\ Faulted(w, IF Claimable(store) THEN TakenOver(store) ELSE store)
          /\ UNCHANGED claim
    /\ UNCHANGED <<upstream, sends, fact>>

(* query and normalize: the upstream's state when asked; a failed query,   *)
(* or a task the upstream does not know, is an error or stays Unknown.     *)
Observation ==
    IF upstream \in Completions THEN upstream
    ELSE IF upstream = "rejected" THEN "Failed"
    ELSE IF upstream = "accepted" THEN "Running" ELSE "Unknown"

Query(w) ==
    /\ pc[w] = "query"
    /\ \/ /\ \E f \in {Observation, "Unknown"} : fact' = [fact EXCEPT ![w] = f]
          /\ Goto(w, "apply")
       \/ Fail(w) /\ UNCHANGED fact
    /\ UNCHANGED <<store, upstream, sends, claim>>

Observed(s, f) == IF f \in Completions THEN Completed(s, f) ELSE Progressed(s, f)

Apply(w) ==
    /\ pc[w] = "apply"
    /\ \/ /\ MayApply(store, claim[w], fact[w])
          /\ store' = Observed(store, fact[w])
          /\ Return(w, "none", Outcome(Observed(store, fact[w])))
       \/ /\ ~MayApply(store, claim[w], fact[w])
          /\ UNCHANGED store
          /\ Goto(w, "reload")
       \/ Faulted(w, IF MayApply(store, claim[w], fact[w]) THEN Observed(store, fact[w])
                     ELSE store)
    /\ Keep
-----------------------------------------------------------------------------
(* cancel                                                                  *)

(* load_for_cancel decides on what it reads, and holds no claim. *)
LoadForCancel(w) ==
    /\ w \in Cancellers /\ pc[w] = "start"
    /\ \/ /\ store.request = NoRequest \/ Terminal(store)
          /\ Return(w, "none", Outcome(store))
       \/ MayCancelPrepared(store) /\ Goto(w, "cancelPrepared")
       \/ store.dispatched /\ ~Terminal(store) /\ Goto(w, "intent")
       \/ Fail(w)
    /\ UNCHANGED store /\ Keep

\* Mutant: the plan that was loaded is trusted.
CancelPreparedStale(w) ==
    /\ pc[w] = "cancelPrepared"
    /\ store' = CancelledPrepared(store)
    /\ Return(w, "none", Outcome(CancelledPrepared(store)))
    /\ Keep

CancelPrepared(w) ==
    /\ pc[w] = "cancelPrepared"
    /\ \/ /\ MayCancelPrepared(store)
          /\ store' = CancelledPrepared(store)
          /\ Return(w, "none", Outcome(CancelledPrepared(store)))
       \/ /\ ~MayCancelPrepared(store)
          /\ UNCHANGED store
          /\ Goto(w, "intent")
       \/ Faulted(w, IF MayCancelPrepared(store) THEN CancelledPrepared(store) ELSE store)
    /\ Keep

RecordCancelIntent(w) ==
    /\ pc[w] = "intent"
    /\ \/ store' = Intended(store) /\ Return(w, "none", Outcome(Intended(store)))
       \/ Faulted(w, Intended(store))
    /\ Keep
-----------------------------------------------------------------------------
(* The host drops a workflow, or the worker's process crashes. *)
Drop(w) ==
    /\ pc[w] # "done"
    /\ Fail(w)
    /\ UNCHANGED store /\ Keep

(* The upstream finishes a task it accepted, and may learn its cost later. *)
UpstreamProgress ==
    /\ \/ upstream = "accepted" /\ upstream' \in Completions
       \/ upstream = "CancelledUnknown" /\ upstream' = "CancelledNoCharge"
    /\ UNCHANGED <<store, sends, pc, claim, fact, result>>

Step(w) ==
    \/ \E request \in Requests : Prepare(w, request)
    \/ Begin(w) \/ Send(w) \/ Record(w) \/ Reload(w)
    \/ Load(w) \/ Query(w) \/ Apply(w)
    \/ LoadForCancel(w) \/ CancelPrepared(w) \/ RecordCancelIntent(w)
    \/ Drop(w)

Next == UpstreamProgress \/ \E w \in Workers : Step(w)

Spec == Init /\ [][Next]_vars
-----------------------------------------------------------------------------
(* However many workers submit, replay, crash or lose replies, the task is *)
(* sent at most once (lib.rs:74, 89).                                      *)
SentAtMostOnce == sends <= 1

(* Resources are released, and a final fact recorded, only on evidence: a  *)
(* definite rejection, a completion the upstream reported, or a            *)
(* cancellation before dispatch.  A failed send or query releases nothing  *)
(* (lib.rs:74, 105, 198-200).                                              *)
ClosedOnEvidence ==
    Terminal(store) =>
        \/ ~store.dispatched /\ sends = 0 /\ store.execution = "Cancelled"
        \/ upstream = "rejected" /\ store.execution = "Failed"
        \/ upstream \in Completions /\ store.execution = Execution(upstream)
           /\ (~store.held => upstream # "CancelledUnknown")

(* A final outcome a workflow returns is the durable one, and so the same  *)
(* for every worker: the loser of a compare-and-swap never answers with    *)
(* its own fact (lib.rs:35, 86, 106-116).                                  *)
FinalAnswersAgree ==
    \A w \in Workers : result[w].outcome.execution \in Finals =>
        result[w].outcome.execution = store.execution

(* A terminal execution never changes, its event and its close happen      *)
(* once, and what was released stays released (lib.rs:79, 311).            *)
TerminalIsFinal ==
    [][Terminal(store) => /\ store'.execution = store.execution
                          /\ store'.events = store.events
                          /\ ~store.held => ~store'.held /\ store'.closes = store.closes]_vars

(* A cancellation never closes a dispatched task: it only leaves its       *)
(* intent (lib.rs:317).                                                    *)
CancelNeverFreesDispatched ==
    [][\A w \in Cancellers : pc[w] # pc'[w] /\ store.dispatched =>
          store'.execution = store.execution /\ store'.held = store.held]_vars

(* A task has one final answer: the durable one, which every worker gives, *)
(* which never changes, and which no cancellation of a dispatched task     *)
(* decides (lib.rs:35, 79, 86, 106-116, 311-317).                          *)
OneFinalAnswer == []FinalAnswersAgree /\ TerminalIsFinal /\ CancelNeverFreesDispatched
=============================================================================
