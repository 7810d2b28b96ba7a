---------------------------- MODULE ProviderCall ----------------------------
(***************************************************************************)
(* One orchestrated provider call of crates/south-core/src/lib.rs:         *)
(* execute_buffered, execute_signed_buffered and the two streaming opens.  *)
(*                                                                         *)
(* The call is a future: the executor polls it, and each poll runs in      *)
(* steps between which other threads may advance the clock, fire the       *)
(* cancellation token or complete the resolver, the finalizer or the       *)
(* transport.  A poll reads the token first (the biased select!), then     *)
(* runs the execution as far as it goes, then reads the timer (timeout_at  *)
(* polls the wrapped future before its delay).                             *)
(***************************************************************************)
EXTENDS Naturals, Sequences

CONSTANTS Slots,        \* credential slots
          Headers,      \* names a finalizer may emit
          Declarations, \* SignedHeaderSetV1 values: headers in canonical order
          Emissions,    \* FinalizedHeadersV1 values a finalizer may return
          NoDeadline,   \* the None deadline of a streaming open
          MaxTime       \* bound on the clock

ASSUME CallAssumption ==
    /\ MaxTime \in Nat
    /\ NoDeadline \notin Nat
    /\ Declarations \subseteq Seq(Headers)
    /\ \A d \in Declarations :
          d # <<>> /\ \A j, k \in DOMAIN d : d[j] = d[k] => j = k
    /\ Emissions \subseteq Seq([name : Headers, empty : BOOLEAN])

CredentialArms == {"Bearer", "HeaderSecret", "DeclaredHeaderSecret", "BearerAndHeaderSecret"}

(* ProviderAuthV1 without its slot; only HostSigned declares headers. *)
Auths == [arm : CredentialArms, emits : {<<>>}] \union [arm : {"HostSigned"}, emits : Declarations]

(* What the caller hands over: the entry point (response mode, and whether *)
(* a finalizer takes the resolver's place), the request and the binding.   *)
(* Only a streaming open takes a None deadline.                            *)
Calls ==
    {c \in [mode : {"buffered", "streaming"},
            signed : BOOLEAN,
            contained : BOOLEAN,   \* the path resolves inside the endpoint
            auth : Auths,
            declares : BOOLEAN,    \* secret_headers() names the declared header
            slot : Slots,          \* request.auth.credential_slot()
            bound : Slots,         \* binding.credential_slot
            deadline : (0..MaxTime) \union {NoDeadline}] :
        c.mode = "buffered" => c.deadline # NoDeadline}

(* One auth header of a prepared request: its name, how its value was made *)
(* and the slot whose secret or identity the value carries.                *)
AuthHeader == [name : Headers \union {"authorization", "sanctioned", "declared"},
               form : {"bearer", "verbatim", "signed"}, slot : Slots]

Emitted == [name : Headers, empty : BOOLEAN]

(* Errors of the phases before the call first waits ...                    *)
Refusals == {"DestinationRefused", "CredentialBindingMismatch", "UnsupportedAuthShape"}

(* ... and every error the code classes as preparation, the two races left out. *)
PreparationErrors == Refusals \union {"CredentialResolutionFailed", "RequestFinalizationFailed",
                                      "RequestFinalizationRejected"}

Results == PreparationErrors \union {"None", "Response", "Rejected", "TransportError",
                                     "Cancelled", "DeadlineExceeded"}

FutureStates == {"idle", "pending", "ok", "rejected", "failed", "dropped"}

VARIABLES now,         \* the clock
          cancelled,   \* the cancellation token
          call,        \* the arguments
          pc,          \* where the call's code is
          stage,       \* the await the execution is at
          resolver,    \* the resolve future and the slots it was asked for
          finalizer,   \* the finalize future and what it emitted
          transport,   \* the dispatch/open future, its request and its budget
          result,
          fresh        \* the token had not fired when the current poll began

vars == <<now, cancelled, call, pc, stage, resolver, finalizer, transport, result, fresh>>

TypeOK ==
    /\ now \in 0..MaxTime
    /\ cancelled \in BOOLEAN
    /\ call \in Calls
    /\ pc \in {"prepare", "cancelCheck", "deadlineCheck", "select", "execute", "budget",
               "timer", "returned"}
    /\ stage \in {"resolve", "finalize", "transport"}
    /\ resolver \in [state : FutureStates, slots : SUBSET Slots, uses : Nat]
    /\ finalizer \in [state : FutureStates, emitted : Seq(Emitted), slots : SUBSET Slots,
                      uses : Nat]
    /\ transport \in [state : FutureStates, auth : Seq(AuthHeader), sent : 0..MaxTime,
                      budget : (0..MaxTime) \union {NoDeadline}, uses : Nat]
    /\ result \in Results
    /\ fresh \in BOOLEAN

Init ==
    /\ now = 0
    /\ cancelled \in BOOLEAN
    /\ call \in Calls
    /\ pc = "prepare"
    /\ stage = IF call.signed THEN "finalize" ELSE "resolve"
    /\ resolver = [state |-> "idle", slots |-> {}, uses |-> 0]
    /\ finalizer = [state |-> "idle", emitted |-> <<>>, slots |-> {}, uses |-> 0]
    /\ transport = [state |-> "idle", auth |-> <<>>, sent |-> 0, budget |-> 0, uses |-> 0]
    /\ result = "None"
    /\ fresh = TRUE
-----------------------------------------------------------------------------
(* Pure parts of the flow.                                                 *)

Passed == call.deadline # NoDeadline /\ now >= call.deadline

(* Containment, then (signed entry) the arm, then the binding check. *)
Refusal ==
    IF ~call.contained THEN "DestinationRefused"
    ELSE IF call.signed /\ call.auth.arm # "HostSigned" THEN "UnsupportedAuthShape"
    ELSE IF call.slot # call.bound THEN "CredentialBindingMismatch"
    ELSE "None"

Header(name, form) == [name |-> name, form |-> form, slot |-> call.slot]

(* PreparedHttpRequestV1::assemble: which arms bind a resolved secret ...  *)
Assembles ==
    \/ call.auth.arm \in {"Bearer", "HeaderSecret", "BearerAndHeaderSecret"}
    \/ call.auth.arm = "DeclaredHeaderSecret" /\ call.declares

(* ... and to which headers.                                               *)
Assembled ==
    IF call.auth.arm = "Bearer" THEN <<Header("authorization", "bearer")>>
    ELSE IF call.auth.arm = "HeaderSecret" THEN <<Header("sanctioned", "verbatim")>>
    ELSE IF call.auth.arm = "DeclaredHeaderSecret" THEN <<Header("declared", "verbatim")>>
    ELSE <<Header("authorization", "bearer"), Header("sanctioned", "verbatim")>>

\* Mutant: the second pass of diff_finalized is dropped.
DiffsIgnoresMissing(emits, emitted) ==
    \A k \in DOMAIN emitted :
        /\ \E j \in DOMAIN emits : emits[j] = emitted[k].name
        /\ ~emitted[k].empty
        /\ \A j \in DOMAIN emitted : j < k => emitted[j].name # emitted[k].name

(* diff_finalized: nothing undeclared, empty or twice, and nothing missing. *)
Diffs(emits, emitted) ==
    /\ \A k \in DOMAIN emitted :
          /\ \E j \in DOMAIN emits : emits[j] = emitted[k].name
          /\ ~emitted[k].empty
          /\ \A j \in DOMAIN emitted : j < k => emitted[j].name # emitted[k].name
    /\ \A j \in DOMAIN emits : \E k \in DOMAIN emitted : emitted[k].name = emits[j]

(* The headers diff_finalized binds: the declaration's, in its order. *)
Bound(emits) == [j \in 1..Len(emits) |-> Header(emits[j], "signed")]
-----------------------------------------------------------------------------
(* The call.                                                               *)

Dropped(future) == [future EXCEPT !.state = IF @ = "pending" THEN "dropped" ELSE @]

(* The call resolves; the futures it still held are dropped with it. *)
Finish(outcome) ==
    /\ pc' = "returned"
    /\ result' = outcome
    /\ resolver' = Dropped(resolver)
    /\ finalizer' = Dropped(finalizer)
    /\ transport' = Dropped(transport)
    /\ UNCHANGED <<now, cancelled, call, stage>>

Enter(label) ==
    /\ pc' = label
    /\ UNCHANGED <<now, cancelled, call, stage, resolver, finalizer, transport, result>>

Return(outcome) == Finish(outcome) /\ UNCHANGED fresh

Goto(label) == Enter(label) /\ UNCHANGED fresh

(* Destination, arm and binding, before anything is awaited. *)
Prepare ==
    /\ pc = "prepare"
    /\ \/ Refusal # "None" /\ Return(Refusal)
       \/ Refusal = "None" /\ Goto("cancelCheck")

CancelCheck ==
    /\ pc = "cancelCheck"
    /\ \/ cancelled /\ Return("Cancelled")
       \/ ~cancelled /\ Goto("deadlineCheck")

DeadlineCheck ==
    /\ pc = "deadlineCheck"
    /\ \/ Passed /\ Return("DeadlineExceeded")
       \/ ~Passed /\ Goto("select")

\* Mutant: the select! is not biased, a ready execution may win over the token.
SelectUnbiased ==
    /\ pc = "select"
    /\ fresh' = ~cancelled
    /\ (cancelled /\ Finish("Cancelled")) \/ Enter("execute")

(* A poll of the biased select!: the token first, then the execution. *)
Select ==
    /\ pc = "select"
    /\ fresh' = ~cancelled
    /\ \/ cancelled /\ Finish("Cancelled")
       \/ ~cancelled /\ Enter("execute")

(* The future the execution awaits is not ready: timeout_at turns to its delay. *)
Pending(future) ==
    /\ future.state = "pending"
    /\ Goto("timer")

\* Mutant: a failed resolution is retried within the call.
ResolveRetries ==
    /\ pc = "execute" /\ stage = "resolve"
    /\ \/ /\ resolver.state = "idle" \/ (resolver.state = "failed" /\ resolver.uses < 2)
          /\ resolver' = [state |-> "pending", slots |-> resolver.slots \union {call.slot},
                          uses |-> resolver.uses + 1]
          /\ UNCHANGED <<now, cancelled, call, pc, stage, finalizer, transport, result, fresh>>
       \/ Pending(resolver)
       \/ resolver.state = "ok" /\ Assembles /\ Goto("budget")

(* resolver.resolve(requested_slot).await, then assemble. *)
Resolve ==
    /\ pc = "execute" /\ stage = "resolve"
    /\ \/ /\ resolver.state = "idle"
          /\ resolver' = [state |-> "pending", slots |-> resolver.slots \union {call.slot},
                          uses |-> resolver.uses + 1]
          /\ UNCHANGED <<now, cancelled, call, pc, stage, finalizer, transport, result, fresh>>
       \/ Pending(resolver)
       \/ resolver.state = "failed" /\ Return("CredentialResolutionFailed")
       \/ resolver.state = "ok" /\ ~Assembles /\ Return("UnsupportedAuthShape")
       \/ resolver.state = "ok" /\ Assembles /\ Goto("budget")

(* finalize_into: the finalizer signs the unsigned request, its output is  *)
(* diffed against the declaration and bound.                               *)
Finalize ==
    /\ pc = "execute" /\ stage = "finalize"
    /\ \/ /\ finalizer.state = "idle"
          /\ finalizer' = [state |-> "pending", emitted |-> finalizer.emitted,
                           slots |-> finalizer.slots \union {call.slot},
                           uses |-> finalizer.uses + 1]
          /\ UNCHANGED <<now, cancelled, call, pc, stage, resolver, transport, result, fresh>>
       \/ Pending(finalizer)
       \/ finalizer.state = "failed" /\ Return("RequestFinalizationFailed")
       \/ /\ finalizer.state = "ok" /\ ~Diffs(call.auth.emits, finalizer.emitted)
          /\ Return("RequestFinalizationRejected")
       \/ /\ finalizer.state = "ok" /\ Diffs(call.auth.emits, finalizer.emitted)
          /\ Goto("budget")

(* Hands the prepared request to the transport with what is left of the    *)
(* deadline; a streaming open passes no budget.                            *)
Dispatch(budget) ==
    /\ transport' = [state |-> "pending", sent |-> now, budget |-> budget,
                     uses |-> transport.uses + 1,
                     auth |-> IF call.signed THEN Bound(call.auth.emits) ELSE Assembled]
    /\ stage' = "transport"
    /\ pc' = "execute"
    /\ UNCHANGED <<now, cancelled, call, resolver, finalizer, result, fresh>>

\* Mutant: a budget of zero is handed to the transport.
BudgetMayBeZero ==
    /\ pc = "budget"
    /\ \/ call.mode = "buffered" /\ now > call.deadline /\ Return("DeadlineExceeded")
       \/ call.mode = "buffered" /\ now <= call.deadline /\ Dispatch(call.deadline - now)
       \/ call.mode = "streaming" /\ Dispatch(NoDeadline)

(* The buffered flows read the clock once more before they dispatch; the   *)
(* streaming opens go straight to the transport.                           *)
Budget ==
    /\ pc = "budget"
    /\ \/ call.mode = "buffered" /\ Passed /\ Return("DeadlineExceeded")
       \/ call.mode = "buffered" /\ ~Passed /\ Dispatch(call.deadline - now)
       \/ call.mode = "streaming" /\ Dispatch(NoDeadline)

(* dispatch(..).await / transport.open(..).await *)
Await ==
    /\ pc = "execute" /\ stage = "transport"
    /\ \/ Pending(transport)
       \/ transport.state = "ok" /\ Return("Response")
       \/ transport.state = "rejected" /\ Return("Rejected")
       \/ transport.state = "failed" /\ Return("TransportError")

\* Mutant: the timeout wraps the preparation and not the exchange.
TimerOnlyWhilePreparing ==
    /\ pc = "timer"
    /\ \/ stage # "transport" /\ Passed /\ Return("DeadlineExceeded")
       \/ (stage = "transport" \/ ~Passed) /\ Goto("select")

(* timeout_at's delay, read after the execution was found pending.  The    *)
(* task then suspends until it is polled again.                            *)
Timer ==
    /\ pc = "timer"
    /\ \/ Passed /\ Return("DeadlineExceeded")
       \/ ~Passed /\ Goto("select")

CallStep ==
    \/ Prepare \/ CancelCheck \/ DeadlineCheck
    \/ Select \/ Resolve \/ Finalize \/ Budget \/ Await \/ Timer
-----------------------------------------------------------------------------
(* The surroundings: clock, token, and the host's implementations.         *)

Tick ==
    /\ now < MaxTime
    /\ now' = now + 1
    /\ UNCHANGED <<cancelled, call, pc, stage, resolver, finalizer, transport, result, fresh>>

Cancel ==
    /\ ~cancelled
    /\ cancelled' = TRUE
    /\ UNCHANGED <<now, call, pc, stage, resolver, finalizer, transport, result, fresh>>

ResolverAnswers ==
    /\ resolver.state = "pending"
    /\ \E answer \in {"ok", "failed"} : resolver' = [resolver EXCEPT !.state = answer]
    /\ UNCHANGED <<now, cancelled, call, pc, stage, finalizer, transport, result, fresh>>

FinalizerAnswers ==
    /\ finalizer.state = "pending"
    /\ \/ finalizer' = [finalizer EXCEPT !.state = "failed"]
       \/ \E emitted \in Emissions :
             finalizer' = [finalizer EXCEPT !.state = "ok", !.emitted = emitted]
    /\ UNCHANGED <<now, cancelled, call, pc, stage, resolver, transport, result, fresh>>

(* Only a streaming open collapses a non-2xx answer into a rejection. *)
TransportAnswers ==
    /\ transport.state = "pending"
    /\ \E answer \in {"ok", "failed"} \union (IF call.mode = "streaming" THEN {"rejected"} ELSE {}) :
          transport' = [transport EXCEPT !.state = answer]
    /\ UNCHANGED <<now, cancelled, call, pc, stage, resolver, finalizer, result, fresh>>

(* The host drops the call's future while it is suspended. *)
HostDrops ==
    /\ pc = "select" /\ {resolver.state, finalizer.state} # {"idle"}
    /\ Return("None")

Next ==
    \/ CallStep
    \/ Tick \/ Cancel
    \/ ResolverAnswers \/ FinalizerAnswers \/ TransportAnswers
    \/ HostDrops

(* The executor polls the task again and again, and time passes.  Nothing  *)
(* is assumed of the resolver, the finalizer, the transport or the host.   *)
Fairness == WF_vars(CallStep) /\ WF_vars(Tick)

Spec == Init /\ [][Next]_vars /\ Fairness
-----------------------------------------------------------------------------
(* A request reaches the transport only inside the bound endpoint, with at *)
(* least one auth header, each under a name of its own and carrying the    *)
(* identity of the binding's slot; a host-signed one carries exactly the   *)
(* declared headers, each emitted once and non-empty by the finalizer, and *)
(* any other one a resolved secret (assemble, diff_finalized, lib.rs:1031).*)
WireAuthorized ==
    transport.uses > 0 =>
        LET auth == transport.auth
        IN  /\ call.contained /\ auth # <<>>
            /\ \A k \in DOMAIN auth : auth[k].slot = call.bound
            /\ \A j, k \in DOMAIN auth : auth[j].name = auth[k].name => j = k
            /\ IF call.auth.arm = "HostSigned"
               THEN /\ finalizer.state = "ok"
                    /\ Len(auth) = Len(call.auth.emits)
                    /\ \A k \in DOMAIN auth :
                          /\ auth[k].name = call.auth.emits[k]
                          /\ \E j \in DOMAIN finalizer.emitted :
                                /\ finalizer.emitted[j] = [name |-> auth[k].name, empty |-> FALSE]
                                /\ \A i \in DOMAIN finalizer.emitted :
                                      finalizer.emitted[i].name = auth[k].name => i = j
               ELSE /\ resolver.state = "ok"
                    /\ \A k \in DOMAIN auth : auth[k].form # "signed"

(* However often the call is polled, it asks the resolver, the finalizer   *)
(* and the transport at most once each, never both resolver and finalizer, *)
(* and only for the slot the binding authorizes ("called at most once: a   *)
(* retry is a new call", lib.rs:1074).                                     *)
AskedAtMostOnce ==
    /\ {resolver.uses, finalizer.uses, transport.uses} \subseteq {0, 1}
    /\ resolver.uses + finalizer.uses <= 1
    /\ resolver.slots \union finalizer.slots \subseteq {call.bound}

(* A buffered request is dispatched strictly before the deadline, with a   *)
(* budget that ends at the deadline however long resolving took            *)
(* (remaining_timeout, lib.rs:1048 and 1150).                              *)
BudgetEndsAtDeadline ==
    transport.uses > 0 /\ call.mode = "buffered" =>
        transport.sent < call.deadline /\ transport.sent + transport.budget = call.deadline

(* A preparation error means that nothing reached the network              *)
(* (lib.rs:1078-1081); and whatever the outcome, no future the call        *)
(* started is still running when it has returned or been dropped.          *)
PreparationErrorSendsNothing ==
    pc = "returned" =>
        /\ result \in PreparationErrors => transport.uses = 0
        /\ "pending" \notin {resolver.state, finalizer.state, transport.state}

(* When the token has fired before a poll begins, that poll reports        *)
(* Cancelled whatever else became ready in the meantime (the biased        *)
(* select!, lib.rs:1055).                                                  *)
CancellationPrecedence == ~fresh => pc = "returned" /\ result = "Cancelled"

(* The discipline of a call in time: its budget ends at its deadline, an   *)
(* error of the preparation means that nothing was sent and nothing is     *)
(* left running, and cancellation is seen first.                           *)
CallDisciplined == BudgetEndsAtDeadline /\ PreparationErrorSendsNothing /\ CancellationPrecedence

(* A call with a deadline returns even if neither the resolver, the        *)
(* finalizer nor the transport ever answers (timeout_at), and a cancelled  *)
(* one returns also without a deadline.                                    *)
CallEnds == call.deadline # NoDeadline \/ cancelled ~> pc = "returned"
=============================================================================
