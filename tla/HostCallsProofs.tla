-------------------------- MODULE HostCallsProofs ---------------------------
(***************************************************************************)
(* What the host's two kinds of call guarantee for every value of their    *)
(* constants.  ProviderCall, for every set of slots, headers, declarations *)
(* and emissions and every bound on the clock: the inductive invariant     *)
(* says which futures a call may have started at each point of its code,   *)
(* and what the request held by the transport was built from.              *)
(* StreamingCall: the pulls of an opened stream implement the abstract     *)
(* byte stream, for every size of body, read and chunk and every number of *)
(* pulls, and a signal lets at most one more chunk through.                *)
(***************************************************************************)
EXTENDS ProviderCall, StreamingCall, SequenceTheorems, TLAPS

(* The identity a request may be sent with has been obtained: the secret   *)
(* resolved and assemblable, or the emission finished and accepted.        *)
Identified ==
    IF call.signed
    THEN finalizer.state = "ok" /\ Diffs(call.auth.emits, finalizer.emitted)
    ELSE resolver.state = "ok" /\ Assembles

(* A future is asked for once, when it leaves "idle", and for the slot of  *)
(* the request.                                                            *)
Once(future) ==
    \/ future.state = "idle" /\ future.uses = 0
    \/ future.state # "idle" /\ future.uses = 1

Asked ==
    /\ Once(resolver) /\ Once(finalizer) /\ Once(transport)
    /\ resolver.slots \subseteq {call.slot} /\ finalizer.slots \subseteq {call.slot}
    /\ call.signed => resolver.uses = 0 /\ resolver.slots = {}
    /\ ~call.signed => finalizer.uses = 0 /\ finalizer.slots = {}

(* Nothing is asked of anyone before the refusals are ruled out. *)
Cleared ==
    /\ pc \in {"cancelCheck", "deadlineCheck", "select", "execute", "budget", "timer"} => Refusal = "None"
    /\ resolver.uses + finalizer.uses + transport.uses > 0 => Refusal = "None"
    /\ resolver.slots # {} \/ finalizer.slots # {} => Refusal = "None"
    /\ pc \in {"prepare", "cancelCheck", "deadlineCheck"} =>
          resolver.uses = 0 /\ finalizer.uses = 0 /\ transport.uses = 0

Staged ==
    /\ stage = "transport" <=> transport.uses > 0
    /\ stage = "resolve" => ~call.signed
    /\ stage = "finalize" => call.signed
    /\ pc = "budget" => stage # "transport" /\ Identified

Sent ==
    transport.uses > 0 =>
        /\ Identified
        /\ transport.auth = IF call.signed THEN Bound(call.auth.emits) ELSE Assembled
        /\ call.mode = "buffered" =>
              /\ transport.sent < call.deadline
              /\ transport.sent + transport.budget = call.deadline

Returned ==
    /\ pc # "returned" => result = "None"
    /\ result \in PreparationErrors => transport.uses = 0
    /\ pc = "returned" => "pending" \notin {resolver.state, finalizer.state, transport.state}
    /\ CancellationPrecedence

IInv == TypeOK /\ Asked /\ Cleared /\ Staged /\ Sent /\ Returned
-----------------------------------------------------------------------------
(* A call's components have their types. *)
LEMMA CallType ==
    ASSUME call \in Calls
    PROVE  /\ call.mode \in {"buffered", "streaming"}
           /\ call.signed \in BOOLEAN
           /\ call.auth.emits \in Seq(Headers)
           /\ call.auth.arm = "HostSigned" => call.auth.emits \in Declarations
           /\ call.slot \in Slots
           /\ call.deadline \in (0..MaxTime) \union {NoDeadline}
           /\ call.mode = "buffered" => call.deadline \in 0..MaxTime
<1>1. call.auth \in Auths
  BY DEF Calls
<1>2. <<>> \in Seq(Headers)
  OBVIOUS
<1>3. call.auth.emits \in Seq(Headers) /\ (call.auth.arm = "HostSigned" => call.auth.emits \in Declarations)
  <2>1. CASE call.auth \in [arm : CredentialArms, emits : {<<>>}]
    BY <2>1, <1>2, Zenon DEF CredentialArms
  <2>2. CASE call.auth \in [arm : {"HostSigned"}, emits : Declarations]
    BY <2>2, CallAssumption
  <2> QED  BY <1>1, <2>1, <2>2 DEF Auths
<1> QED  BY <1>3 DEF Calls

(* The headers a request is dispatched with are auth headers. *)
LEMMA AuthType ==
    ASSUME call \in Calls, Identified
    PROVE  (IF call.signed THEN Bound(call.auth.emits) ELSE Assembled) \in Seq(AuthHeader)
<1>1. CASE call.signed
  <2>1. Len(call.auth.emits) \in Nat
    BY CallType
  <2>2. \A j \in 1..Len(call.auth.emits) : Header(call.auth.emits[j], "signed") \in AuthHeader
    BY CallType DEF Header, AuthHeader
  <2> QED  BY <1>1, <2>1, <2>2 DEF Bound
<1>2. CASE ~call.signed
  <2>1. \A f \in {"bearer", "verbatim"} : \A n \in {"authorization", "sanctioned", "declared"} :
           Header(n, f) \in AuthHeader
    BY CallType DEF Header, AuthHeader
  <2>2. Assembles
    BY <1>2 DEF Identified
  <2>3. CASE call.auth.arm = "Bearer"
    BY <2>1, <2>3, <1>2 DEF Assembled
  <2>4. CASE call.auth.arm = "HeaderSecret"
    BY <2>1, <2>4, <1>2 DEF Assembled
  <2>5. CASE call.auth.arm = "DeclaredHeaderSecret"
    BY <2>1, <2>5, <1>2 DEF Assembled
  <2>6. CASE call.auth.arm = "BearerAndHeaderSecret"
    BY <2>1, <2>6, <1>2 DEF Assembled
  <2> QED  BY <2>2, <2>3, <2>4, <2>5, <2>6 DEF Assembles
<1> QED  BY <1>1, <1>2

(* Refusal is a function of the call. *)
LEMMA RefusalStable == call' = call => Refusal' = Refusal
  BY DEF Refusal

(* Whether the identity has been obtained depends on the answers only: it  *)
(* stays obtained while an answered future keeps its answer.               *)
LEMMA IdentifiedStable ==
    ASSUME call' = call, Identified,
           resolver.state = "ok" => resolver' = resolver,
           finalizer.state = "ok" => finalizer' = finalizer
    PROVE  Identified'
  BY DEF Identified, Assembles, Diffs

(* Initially nothing has been asked of anyone. *)
LEMMA InitInv == Init => IInv
<1> SUFFICES ASSUME Init PROVE IInv
  OBVIOUS
<1> USE DEF Init
<1>1. TypeOK
  BY CallAssumption DEF TypeOK, FutureStates, Results, PreparationErrors, Refusals
<1>2. Asked
  BY DEF Asked, Once
<1>3. Cleared /\ Staged /\ Sent
  BY CallType DEF Cleared, Staged, Sent
<1>4. Returned
  BY DEF Returned, PreparationErrors, Refusals, CancellationPrecedence
<1> QED  BY <1>1, <1>2, <1>3, <1>4 DEF IInv

(* Returning keeps the invariant: a preparation error needs an untouched   *)
(* transport, and after a poll that saw the token only Cancelled will do.  *)
LEMMA FinishInv ==
    ASSUME IInv, NEW outcome \in Results, Finish(outcome), fresh' \in BOOLEAN,
           outcome \in PreparationErrors => transport.uses = 0,
           ~fresh' => outcome = "Cancelled"
    PROVE  IInv'
<1> USE DEF IInv, Finish
<1>1. TypeOK'
  BY Zenon DEF TypeOK, Dropped, FutureStates
<1>2. Asked'
  BY DEF Asked, Once, Dropped, TypeOK
<1>3. Cleared'
  BY RefusalStable DEF Cleared, Dropped, TypeOK
<1>4. Staged'
  BY DEF Staged, Dropped, TypeOK
<1>5. Sent'
  <2>1. Identified => Identified'
    BY IdentifiedStable DEF Dropped, TypeOK
  <2>2. transport'.auth = transport.auth /\ transport'.uses = transport.uses
        /\ transport'.sent = transport.sent /\ transport'.budget = transport.budget
    BY DEF Dropped, TypeOK
  <2>3. Bound(call.auth.emits)' = Bound(call.auth.emits) /\ Assembled' = Assembled
    BY DEF Bound, Assembled, Header
  <2> QED  BY <2>1, <2>2, <2>3 DEF Sent
<1>6. Returned'
  BY DEF Returned, Dropped, TypeOK, CancellationPrecedence
<1> QED  BY <1>1, <1>2, <1>3, <1>4, <1>5, <1>6

(* Moving on keeps it, once the refusals are ruled out and, on the way to  *)
(* the budget check, the identity is obtained.                             *)
LEMMA EnterInv ==
    ASSUME IInv, pc # "returned", Refusal = "None",
           NEW label \in {"cancelCheck", "deadlineCheck", "select", "execute", "budget", "timer"},
           Enter(label), fresh' = TRUE,
           label \in {"cancelCheck", "deadlineCheck"} =>
               resolver.uses = 0 /\ finalizer.uses = 0 /\ transport.uses = 0,
           label = "budget" => stage # "transport" /\ Identified
    PROVE  IInv'
<1> USE DEF IInv, Enter
<1>1. TypeOK'
  BY DEF TypeOK
<1>2. Asked'
  BY DEF Asked, Once
<1>3. Cleared'
  BY RefusalStable DEF Cleared
<1>4. Identified => Identified'
  BY IdentifiedStable
<1>5. Staged'
  BY <1>4 DEF Staged
<1>6. Bound(call.auth.emits)' = Bound(call.auth.emits) /\ Assembled' = Assembled
  BY DEF Bound, Assembled, Header
<1>7. Sent'
  BY <1>4, <1>6 DEF Sent
<1>8. Returned'
  BY DEF Returned, CancellationPrecedence
<1> QED  BY <1>1, <1>2, <1>3, <1>5, <1>7, <1>8

(* Dispatching keeps it: the request is built from the obtained identity. *)
LEMMA DispatchInv ==
    ASSUME IInv, pc = "budget", NEW budget \in (0..MaxTime) \union {NoDeadline}, Dispatch(budget),
           call.mode = "buffered" => now < call.deadline /\ now + budget = call.deadline
    PROVE  IInv'
<1> USE DEF IInv, Dispatch
<1>1. Identified /\ Refusal = "None" /\ transport.uses = 0 /\ fresh = TRUE
  BY DEF Staged, Cleared, Returned, CancellationPrecedence, Asked, Once, TypeOK
<1>2. Identified'
  BY <1>1, IdentifiedStable
<1>3. TypeOK'
  BY <1>1, AuthType DEF TypeOK, FutureStates
<1>4. Asked'
  BY <1>1 DEF Asked, Once, TypeOK
<1>5. Cleared'
  BY <1>1, RefusalStable DEF Cleared, TypeOK
<1>6. Staged'
  BY <1>1 DEF Staged, TypeOK
<1>7. Sent'
  <2>1. Bound(call.auth.emits)' = Bound(call.auth.emits) /\ Assembled' = Assembled
    BY DEF Bound, Assembled, Header
  <2> QED  BY <1>2, <2>1 DEF Sent
<1>8. Returned'
  BY <1>1 DEF Returned, CancellationPrecedence, PreparationErrors, Refusals
<1> QED  BY <1>3, <1>4, <1>5, <1>6, <1>7, <1>8

(* Every step of the call keeps the invariant. *)
LEMMA CallStepInv == IInv /\ CallStep => IInv'
<1> SUFFICES ASSUME IInv, CallStep PROVE IInv'
  OBVIOUS
<1>a. fresh \in BOOLEAN /\ (pc # "returned" => fresh = TRUE)
  BY DEF IInv, TypeOK, Returned, CancellationPrecedence
<1>b. pc \in {"cancelCheck", "deadlineCheck", "select", "execute", "budget", "timer"} => Refusal = "None"
  BY DEF IInv, Cleared
<1>c. pc \in {"prepare", "cancelCheck", "deadlineCheck"} =>
         resolver.uses = 0 /\ finalizer.uses = 0 /\ transport.uses = 0
  BY DEF IInv, Cleared
<1>d. stage # "transport" => transport.uses = 0
  BY DEF IInv, Staged, TypeOK
<1>p. \A o \in {"DestinationRefused", "CredentialBindingMismatch", "UnsupportedAuthShape",
                "CredentialResolutionFailed", "RequestFinalizationFailed",
                "RequestFinalizationRejected"} :
         Return(o) /\ pc # "returned" /\ transport.uses = 0 => IInv'
  BY <1>a, FinishInv DEF Return, Results, PreparationErrors, Refusals
<1>o. \A o \in {"Response", "Rejected", "TransportError", "Cancelled", "DeadlineExceeded"} :
         Return(o) /\ pc # "returned" => IInv'
  BY <1>a, FinishInv DEF Return, Results, PreparationErrors, Refusals
<1>g. \A l \in {"cancelCheck", "deadlineCheck", "select", "execute", "timer"} :
         /\ Goto(l) /\ pc # "returned" /\ Refusal = "None"
         /\ l \in {"cancelCheck", "deadlineCheck"} =>
               resolver.uses = 0 /\ finalizer.uses = 0 /\ transport.uses = 0
         => IInv'
  BY <1>a, EnterInv DEF Goto
<1>e. Goto("budget") /\ pc = "execute" /\ stage # "transport" /\ Identified => IInv'
  BY <1>a, <1>b, EnterInv DEF Goto
<1>1. CASE Prepare
  <2>1. CASE Refusal # "None" /\ Return(Refusal)
    BY <1>1, <2>1, <1>c, <1>p DEF Prepare, Refusal
  <2>2. CASE Refusal = "None" /\ Goto("cancelCheck")
    BY <1>1, <2>2, <1>c, <1>g DEF Prepare
  <2> QED  BY <1>1, <2>1, <2>2 DEF Prepare
<1>2. CASE CancelCheck
  BY <1>2, <1>b, <1>c, <1>o, <1>g DEF CancelCheck
<1>3. CASE DeadlineCheck
  BY <1>3, <1>b, <1>c, <1>o, <1>g DEF DeadlineCheck
<1>4. CASE Select
  <2>1. CASE cancelled /\ Finish("Cancelled")
    <3>1. fresh' \in BOOLEAN
      BY <1>4 DEF Select, IInv, TypeOK
    <3> QED  BY <2>1, <3>1, FinishInv DEF Results, PreparationErrors, Refusals
  <2>2. CASE ~cancelled /\ Enter("execute")
    <3>1. fresh' = TRUE
      BY <1>4, <2>2, Zenon DEF Select
    <3> QED  BY <1>4, <2>2, <3>1, <1>b, EnterInv, Zenon DEF Select
  <2> QED  BY <1>4, <2>1, <2>2 DEF Select
<1>5. CASE Resolve
  <2>1. stage = "resolve" /\ pc = "execute" /\ ~call.signed /\ Refusal = "None"
    BY <1>5, <1>b DEF Resolve, IInv, Staged
  <2>2. CASE Pending(resolver)
    BY <2>1, <2>2, <1>g DEF Pending
  <2>3. CASE resolver.state = "failed" /\ Return("CredentialResolutionFailed")
    BY <2>1, <2>3, <1>d, <1>p
  <2>4. CASE resolver.state = "ok" /\ ~Assembles /\ Return("UnsupportedAuthShape")
    BY <2>1, <2>4, <1>d, <1>p
  <2>5. CASE resolver.state = "ok" /\ Assembles /\ Goto("budget")
    BY <2>1, <2>5, <1>e DEF Identified
  <2>6. CASE /\ resolver.state = "idle"
             /\ resolver' = [state |-> "pending", slots |-> resolver.slots \union {call.slot},
                             uses |-> resolver.uses + 1]
             /\ UNCHANGED <<now, cancelled, call, pc, stage, finalizer, transport, result, fresh>>
    <3>1. transport.uses = 0
      BY <2>1, <1>d
    <3>2. TypeOK'
      BY <2>6, CallType DEF IInv, TypeOK, FutureStates
    <3>3. Asked'
      BY <2>1, <2>6 DEF IInv, Asked, Once, TypeOK
    <3>4. Cleared'
      BY <2>1, <2>6, RefusalStable DEF IInv, Cleared
    <3>5. Staged' /\ Sent'
      BY <2>1, <2>6, <3>1 DEF IInv, Staged, Sent
    <3>6. Returned'
      BY <2>1, <2>6 DEF IInv, Returned, CancellationPrecedence
    <3> QED  BY <3>2, <3>3, <3>4, <3>5, <3>6 DEF IInv
  <2> QED  BY <1>5, <2>2, <2>3, <2>4, <2>5, <2>6 DEF Resolve
<1>6. CASE Finalize
  <2>1. stage = "finalize" /\ pc = "execute" /\ call.signed /\ Refusal = "None"
    BY <1>6, <1>b DEF Finalize, IInv, Staged
  <2>2. CASE Pending(finalizer)
    BY <2>1, <2>2, <1>g DEF Pending
  <2>3. CASE finalizer.state = "failed" /\ Return("RequestFinalizationFailed")
    BY <2>1, <2>3, <1>d, <1>p
  <2>4. CASE Return("RequestFinalizationRejected")
    BY <2>1, <2>4, <1>d, <1>p
  <2>5. CASE finalizer.state = "ok" /\ Diffs(call.auth.emits, finalizer.emitted) /\ Goto("budget")
    BY <2>1, <2>5, <1>e DEF Identified
  <2>6. CASE /\ finalizer.state = "idle"
             /\ finalizer' = [state |-> "pending", emitted |-> finalizer.emitted,
                              slots |-> finalizer.slots \union {call.slot},
                              uses |-> finalizer.uses + 1]
             /\ UNCHANGED <<now, cancelled, call, pc, stage, resolver, transport, result, fresh>>
    <3>1. transport.uses = 0
      BY <2>1, <1>d
    <3>2. TypeOK'
      BY <2>6, CallType DEF IInv, TypeOK, FutureStates
    <3>3. Asked'
      BY <2>1, <2>6 DEF IInv, Asked, Once, TypeOK
    <3>4. Cleared'
      BY <2>1, <2>6, RefusalStable DEF IInv, Cleared
    <3>5. Staged' /\ Sent'
      BY <2>1, <2>6, <3>1 DEF IInv, Staged, Sent
    <3>6. Returned'
      BY <2>1, <2>6 DEF IInv, Returned, CancellationPrecedence, TypeOK
    <3> QED  BY <3>2, <3>3, <3>4, <3>5, <3>6 DEF IInv
  <2> QED  BY <1>6, <2>2, <2>3, <2>4, <2>5, <2>6 DEF Finalize
<1>7. CASE Budget
  <2>1. CASE call.mode = "buffered" /\ Passed /\ Return("DeadlineExceeded")
    BY <1>7, <2>1, <1>o DEF Budget
  <2>2. CASE call.mode = "buffered" /\ ~Passed /\ Dispatch(call.deadline - now)
    <3>1. call.deadline \in 0..MaxTime /\ now \in 0..MaxTime
      BY <2>2, CallType DEF IInv, TypeOK
    <3>2. now < call.deadline
      BY <2>2, <3>1, CallAssumption DEF Passed
    <3>3. call.deadline - now \in 0..MaxTime /\ now + (call.deadline - now) = call.deadline
      BY <3>1, <3>2, CallAssumption
    <3> QED  BY <1>7, <2>2, <3>2, <3>3, DispatchInv DEF Budget
  <2>3. CASE call.mode = "streaming" /\ Dispatch(NoDeadline)
    BY <1>7, <2>3, DispatchInv, Zenon DEF Budget
  <2> QED  BY <1>7, <2>1, <2>2, <2>3 DEF Budget
<1>8. CASE Await
  BY <1>8, <1>b, <1>o, <1>g DEF Await, Pending
<1>9. CASE Timer
  BY <1>9, <1>b, <1>o, <1>g DEF Timer
<1> QED  BY <1>1, <1>2, <1>3, <1>4, <1>5, <1>6, <1>7, <1>8, <1>9 DEF CallStep

(* The surroundings keep the invariant: an answer only fills in a future   *)
(* that was waiting for it.                                                *)
LEMMA SurroundingsInv ==
    ASSUME IInv,
           Tick \/ Cancel \/ ResolverAnswers \/ FinalizerAnswers \/ TransportAnswers
    PROVE  IInv'
<1>1. call' = call /\ pc' = pc /\ stage' = stage /\ result' = result /\ fresh' = fresh
  BY Zenon DEF Tick, Cancel, ResolverAnswers, FinalizerAnswers, TransportAnswers
<1>2. TypeOK'
  <2>1. CASE Tick \/ Cancel
    <3>1. now' \in 0..MaxTime
      BY <2>1, CallAssumption DEF IInv, TypeOK, Tick, Cancel
    <3>2. cancelled' \in BOOLEAN
      BY <2>1, Zenon DEF IInv, TypeOK, Tick, Cancel
    <3> QED  BY <2>1, <3>1, <3>2 DEF IInv, TypeOK, Tick, Cancel
  <2>2. CASE ResolverAnswers
    <3>1. PICK a \in {"ok", "failed"} : resolver' = [resolver EXCEPT !.state = a]
      BY <2>2 DEF ResolverAnswers
    <3>2. resolver' \in [state : FutureStates, slots : SUBSET Slots, uses : Nat]
      BY <3>1, Zenon DEF IInv, TypeOK, FutureStates
    <3> QED  BY <2>2, <3>2, Zenon DEF IInv, TypeOK, ResolverAnswers
  <2>3. CASE FinalizerAnswers
    <3>1. finalizer' \in [state : FutureStates, emitted : Seq(Emitted), slots : SUBSET Slots, uses : Nat]
      <4>1. CASE finalizer' = [finalizer EXCEPT !.state = "failed"]
        BY <4>1 DEF IInv, TypeOK, FutureStates
      <4>2. ASSUME NEW e \in Emissions, finalizer' = [finalizer EXCEPT !.state = "ok", !.emitted = e]
            PROVE  finalizer' \in [state : FutureStates, emitted : Seq(Emitted), slots : SUBSET Slots,
                                   uses : Nat]
        <5>1. e \in Seq(Emitted)
          BY CallAssumption, Zenon DEF Emitted
        <5> QED  BY <4>2, <5>1, Zenon DEF IInv, TypeOK, FutureStates
      <4> QED  BY <2>3, <4>1, <4>2, Zenon DEF FinalizerAnswers
    <3> QED  BY <2>3, <3>1, Zenon DEF IInv, TypeOK, FinalizerAnswers
  <2>4. CASE TransportAnswers
    <3>1. PICK a \in FutureStates : transport' = [transport EXCEPT !.state = a]
      BY <2>4 DEF TransportAnswers, FutureStates
    <3>2. transport' \in [state : FutureStates, auth : Seq(AuthHeader), sent : 0..MaxTime,
                          budget : (0..MaxTime) \union {NoDeadline}, uses : Nat]
      BY <3>1 DEF IInv, TypeOK
    <3> QED  BY <2>4, <3>2 DEF IInv, TypeOK, TransportAnswers
  <2> QED  BY <2>1, <2>2, <2>3, <2>4
<1>3. /\ resolver'.uses = resolver.uses /\ resolver'.slots = resolver.slots
      /\ resolver.state # "pending" => resolver' = resolver
      /\ resolver.state = "pending" => resolver'.state # "idle"
  BY Zenon DEF IInv, TypeOK, Tick, Cancel, ResolverAnswers, FinalizerAnswers, TransportAnswers
<1>4. /\ finalizer'.uses = finalizer.uses /\ finalizer'.slots = finalizer.slots
      /\ finalizer.state # "pending" => finalizer' = finalizer
      /\ finalizer.state = "pending" => finalizer'.state # "idle"
  BY Zenon DEF IInv, TypeOK, Tick, Cancel, ResolverAnswers, FinalizerAnswers, TransportAnswers
<1>5. /\ transport'.uses = transport.uses /\ transport'.auth = transport.auth
      /\ transport'.sent = transport.sent /\ transport'.budget = transport.budget
      /\ transport.state # "pending" => transport' = transport
      /\ transport.state = "pending" => transport'.state # "idle"
  BY Zenon DEF IInv, TypeOK, Tick, Cancel, ResolverAnswers, FinalizerAnswers, TransportAnswers
<1>6. Asked'
  BY <1>1, <1>3, <1>4, <1>5 DEF IInv, Asked, Once
<1>7. Cleared'
  BY <1>1, <1>3, <1>4, <1>5, RefusalStable DEF IInv, Cleared
<1>8. Identified => Identified'
  BY <1>1, <1>3, <1>4, IdentifiedStable
<1>9. Staged'
  BY <1>1, <1>5, <1>8 DEF IInv, Staged
<1>10. Sent'
  <2>1. Bound(call.auth.emits)' = Bound(call.auth.emits) /\ Assembled' = Assembled
    BY <1>1 DEF Bound, Assembled, Header
  <2> QED  BY <1>1, <1>5, <1>8, <2>1 DEF IInv, Sent
<1>11. Returned'
  BY <1>1, <1>3, <1>4, <1>5 DEF IInv, Returned, CancellationPrecedence
<1> QED  BY <1>2, <1>6, <1>7, <1>9, <1>10, <1>11 DEF IInv

(* The invariant is inductive. *)
LEMMA NextInv == IInv /\ [Next]_vars => IInv'
<1> SUFFICES ASSUME IInv, [Next]_vars PROVE IInv'
  OBVIOUS
<1>1. CASE HostDrops
  <2>1. Return("None") /\ fresh = TRUE
    BY <1>1 DEF HostDrops, IInv, Returned, CancellationPrecedence, TypeOK
  <2> QED  BY <2>1, FinishInv DEF Return, Results, PreparationErrors, Refusals
<1>2. CASE UNCHANGED vars
  <2> USE <1>2 DEF IInv, vars
  <2>1. TypeOK' /\ Asked'
    BY DEF TypeOK, Asked, Once
  <2>2. Identified => Identified'
    BY IdentifiedStable
  <2>3. Cleared' /\ Staged'
    BY <2>2, RefusalStable DEF Cleared, Staged
  <2>4. Bound(call.auth.emits)' = Bound(call.auth.emits) /\ Assembled' = Assembled
    BY DEF Bound, Assembled, Header
  <2>5. Sent' /\ Returned'
    BY <2>2, <2>4 DEF Sent, Returned, CancellationPrecedence
  <2> QED  BY <2>1, <2>3, <2>5
<1> QED  BY <1>1, <1>2, CallStepInv, SurroundingsInv DEF Next

(* The call never leaves its types, for any constants. *)
THEOREM TypeCorrect == Spec => []TypeOK
<1>1. IInv => TypeOK
  BY DEF IInv
<1> QED  BY <1>1, InitInv, NextInv, PTL DEF Spec

(* Resolver, finalizer and transport are asked at most once each, and only *)
(* for the slot the binding authorizes, over every interleaving.           *)
THEOREM AtMostOnce == Spec => []AskedAtMostOnce
<1>1. IInv => AskedAtMostOnce
  <2> SUFFICES ASSUME IInv PROVE AskedAtMostOnce
    OBVIOUS
  <2>1. resolver.slots # {} \/ finalizer.slots # {} => call.slot = call.bound
    BY DEF IInv, Cleared, Refusal
  <2>2. resolver.slots \union finalizer.slots \subseteq {call.bound}
    BY <2>1 DEF IInv, Asked
  <2>3. {resolver.uses, finalizer.uses, transport.uses} \subseteq {0, 1}
    BY DEF IInv, Asked, Once
  <2>4. resolver.uses + finalizer.uses <= 1
    BY <2>3 DEF IInv, Asked, TypeOK
  <2> QED  BY <2>2, <2>3, <2>4 DEF AskedAtMostOnce
<1> QED  BY <1>1, InitInv, NextInv, PTL DEF Spec

(* What reaches the transport is authorized: contained, bound to the slot  *)
(* of the binding, and carrying exactly the declared auth headers.         *)
THEOREM WireSafe == Spec => []WireAuthorized
<1>1. IInv => WireAuthorized
  <2> SUFFICES ASSUME IInv, transport.uses > 0 PROVE WireAuthorized
    BY DEF WireAuthorized
  <2>1. call.contained /\ call.slot = call.bound /\ (call.signed => call.auth.arm = "HostSigned")
    <3>1. Refusal = "None"
      BY DEF IInv, Cleared, TypeOK
    <3> QED  BY <3>1 DEF Refusal
  <2>2. Identified /\ transport.auth = IF call.signed THEN Bound(call.auth.emits) ELSE Assembled
    BY DEF IInv, Sent
  <2>3. call \in Calls
    BY DEF IInv, TypeOK
  <2>4. CASE call.signed
    <3> DEFINE emits == call.auth.emits
               auth == transport.auth
               emitted == finalizer.emitted
    <3>1. emits \in Declarations /\ emits \in Seq(Headers) /\ emits # <<>>
          /\ \A j, k \in DOMAIN emits : emits[j] = emits[k] => j = k
      BY <2>1, <2>3, <2>4, CallType, CallAssumption
    <3>2. Len(emits) \in Nat \ {0} /\ DOMAIN emits = 1..Len(emits)
      BY <3>1
    <3>3. auth = [j \in 1..Len(emits) |-> Header(emits[j], "signed")]
      BY <2>2, <2>4 DEF Bound
    <3>4. DOMAIN auth = 1..Len(emits) /\ Len(auth) = Len(emits) /\ auth # <<>>
      BY <3>2, <3>3
    <3>5. \A k \in DOMAIN auth : auth[k].slot = call.bound /\ auth[k].name = emits[k]
      BY <2>1, <3>3, <3>4 DEF Header
    <3>6. \A j, k \in DOMAIN auth : auth[j].name = auth[k].name => j = k
      BY <3>1, <3>2, <3>4, <3>5
    <3>7. finalizer.state = "ok" /\ Diffs(emits, emitted)
      BY <2>2, <2>4 DEF Identified
    <3>8. emitted \in Seq(Emitted)
      BY DEF IInv, TypeOK
    <3>9. ASSUME NEW k \in DOMAIN auth
          PROVE  \E j \in DOMAIN emitted :
                    /\ emitted[j] = [name |-> auth[k].name, empty |-> FALSE]
                    /\ \A i \in DOMAIN emitted : emitted[i].name = auth[k].name => i = j
      <4>1. PICK j \in DOMAIN emitted : emitted[j].name = emits[k]
        BY <3>2, <3>4, <3>7 DEF Diffs
      <4>2. emitted[j] \in Emitted /\ ~emitted[j].empty
        BY <3>7, <3>8, <4>1 DEF Diffs
      <4>3. emitted[j] = [name |-> auth[k].name, empty |-> FALSE]
        BY <3>5, <4>1, <4>2, Zenon DEF Emitted
      <4>4. \A i \in DOMAIN emitted : emitted[i].name = auth[k].name => i = j
        <5>1. DOMAIN emitted \subseteq Nat
          BY <3>8
        <5>2. \A m, n \in DOMAIN emitted : m < n => emitted[m].name # emitted[n].name
          BY <3>7 DEF Diffs
        <5> QED  BY <3>5, <4>1, <5>1, <5>2
      <4> QED  BY <4>1, <4>3, <4>4
    <3> QED  BY <2>1, <2>4, <3>4, <3>5, <3>6, <3>7, <3>9 DEF WireAuthorized
  <2>5. CASE ~call.signed
    <3>1. resolver.state = "ok" /\ Assembles /\ transport.auth = Assembled
      BY <2>2, <2>5 DEF Identified
    <3>2. call.auth.arm # "HostSigned"
      BY <3>1 DEF Assembles
    <3> QED  BY <2>1, <3>1, <3>2 DEF Assembled, Header, WireAuthorized
  <2> QED  BY <2>3, <2>4, <2>5, CallType
<1> QED  BY <1>1, InitInv, NextInv, PTL DEF Spec

(* A buffered exchange starts before the deadline and its budget ends at   *)
(* the deadline.                                                           *)
THEOREM BudgetSafe == Spec => []BudgetEndsAtDeadline
<1>1. IInv => BudgetEndsAtDeadline
  BY DEF IInv, Sent, BudgetEndsAtDeadline
<1> QED  BY <1>1, InitInv, NextInv, PTL DEF Spec

(* A preparation error means nothing reached the transport, and a returned *)
(* call leaves nothing running.                                            *)
THEOREM PreparationSafe == Spec => []PreparationErrorSendsNothing
<1>1. IInv => PreparationErrorSendsNothing
  BY DEF IInv, Returned, PreparationErrorSendsNothing
<1> QED  BY <1>1, InitInv, NextInv, PTL DEF Spec

(* A poll that begins after cancellation reports Cancelled. *)
THEOREM CancellationFirst == Spec => []CancellationPrecedence
<1>1. IInv => CancellationPrecedence
  BY DEF IInv, Returned
<1> QED  BY <1>1, InitInv, NextInv, PTL DEF Spec

(* The discipline of a call in time: the three results above, together.    *)
THEOREM Disciplined == Spec => []CallDisciplined
<1>1. BudgetEndsAtDeadline /\ PreparationErrorSendsNothing /\ CancellationPrecedence => CallDisciplined
  BY DEF CallDisciplined
<1> QED  BY <1>1, BudgetSafe, PreparationSafe, CancellationFirst, PTL

-----------------------------------------------------------------------------
(* The bytes still on their way: read k of the wire carries the bytes that *)
(* follow off[k], the buffer those that follow what was delivered, and     *)
(* together they are the bytes sent.                                       *)
Follows(off) ==
    /\ off[1] = Len(delivered) + Len(pending)
    /\ off[Len(wire) + 1] = sent
    /\ \A k \in DOMAIN wire :
          /\ off[k + 1] = off[k] + Len(wire[k].bytes)
          /\ \A j \in DOMAIN wire[k].bytes : wire[k].bytes[j] = off[k] + j
    /\ \A k \in 1..(Len(wire) + 1) : off[k] <= sent

Consecutive ==
    /\ \A k \in DOMAIN delivered : delivered[k] = k
    /\ \A k \in DOMAIN pending : pending[k] = Len(delivered) + k
    /\ \E off \in [1..(Len(wire) + 1) -> Nat] : Follows(off)

(* An end is the last thing on the wire and carries no bytes. *)
EndIsLast ==
    \A k \in DOMAIN wire : wire[k].last # "no" => k = Len(wire) /\ wire[k].bytes = <<>>

(* A pull is in progress only while the stream is open. *)
OpenInside == pull # "idle" => ~finished

(* After a late chunk the signal stays up, and the pull that meets it does *)
(* not get past the checks.                                                *)
LateStops ==
    /\ late \in {0, 1}
    /\ late = 1 => /\ aborted \/ DeadlinePassed
                   /\ pull \in {"idle", "cancelCheck", "deadlineCheck"}
                   /\ pull = "deadlineCheck" => DeadlinePassed

StreamInv == StreamTypeOK /\ Consecutive /\ EndIsLast /\ OpenInside /\ LateStops

(* What the wire carries. *)
WireReads == [bytes : Seq(Bytes), last : {"no", "End", "StreamReadFailed"}]
-----------------------------------------------------------------------------
(* Initially nothing was sent, and nothing is on its way. *)
LEMMA StreamInitInv ==
    ASSUME StreamInit
    PROVE  StreamInv
<1> USE DEF StreamInit
<1>1. StreamTypeOK
  <2>1. MaxBytes \in Nat /\ MaxEmpty \in Nat /\ IdleTimeout \in Nat /\ left \in Nat \union {Unlimited}
    BY StreamAssumption
  <2>2. waited \in 0..Unarmed /\ sent \in 0..MaxBytes /\ empty \in 0..MaxEmpty
    BY <2>1 DEF Unarmed
  <2>3. /\ pending \in Seq(Bytes) /\ delivered \in Seq(Bytes) /\ outcomes \in Seq(Outcomes)
        /\ wire \in Seq([bytes : Seq(Bytes), last : {"no", "End", "StreamReadFailed"}])
    BY EmptySeq
  <2> QED  BY <2>1, <2>2, <2>3, Zenon DEF StreamTypeOK
<1>2. Consecutive
  <2> DEFINE off == [k \in 1..1 |-> 0]
  <2>1. off \in [1..(Len(wire) + 1) -> Nat] /\ Follows(off)
    BY DEF Follows
  <2> QED  BY <2>1 DEF Consecutive
<1>3. EndIsLast /\ OpenInside /\ LateStops
  BY DEF EndIsLast, OpenInside, LateStops
<1> QED  BY <1>1, <1>2, <1>3 DEF StreamInv

(* A step that moves no byte keeps the bytes in order. *)
LEMMA BytesKept ==
    ASSUME StreamInv, UNCHANGED <<pending, wire, sent, delivered>>
    PROVE  Consecutive' /\ EndIsLast'
<1>1. EndIsLast'
  BY DEF StreamInv, EndIsLast
<1>2. PICK off \in [1..(Len(wire) + 1) -> Nat] : Follows(off)
  BY DEF StreamInv, Consecutive
<1>3. Follows(off)'
  BY <1>2 DEF Follows
<1> QED  BY <1>1, <1>2, <1>3 DEF StreamInv, Consecutive

(* The pull ends the stream or goes on: no byte moves. *)
LEMMA TerminateInv ==
    ASSUME StreamInv, NEW outcome \in Outcomes, Terminate(outcome), UNCHANGED source
    PROVE  StreamInv'
<1> USE DEF Terminate, source
<1>1. StreamTypeOK'
  BY DEF StreamInv, StreamTypeOK
<1>2. Consecutive' /\ EndIsLast'
  BY BytesKept
<1>3. OpenInside' /\ LateStops'
  BY DEF StreamInv, OpenInside, LateStops, DeadlinePassed
<1> QED  BY <1>1, <1>2, <1>3 DEF StreamInv

(* A step inside a pull that moves no bytes. *)
LEMMA GotoInv ==
    ASSUME StreamInv, UNCHANGED <<pending, wire, sent, empty>>, waited' \in 0..Unarmed,
           NEW label \in {"idle", "cancelCheck", "deadlineCheck", "select", "read", "timer"}, Proceed(label),
           label # "idle" => ~finished,
           late = 1 => label \in {"idle", "cancelCheck", "deadlineCheck"} /\ (label = "deadlineCheck" => DeadlinePassed)
    PROVE  StreamInv'
<1> USE DEF Proceed
<1>1. StreamTypeOK'
  BY DEF StreamInv, StreamTypeOK
<1>2. Consecutive' /\ EndIsLast'
  BY BytesKept
<1>3. OpenInside' /\ LateStops'
  BY DEF StreamInv, OpenInside, LateStops, DeadlinePassed
<1> QED  BY <1>1, <1>2, <1>3 DEF StreamInv

(* A chunk is the next bytes: the buffer's first ones, in order. *)
LEMMA DeliverBytes ==
    ASSUME StreamInv, Deliver
    PROVE  /\ Split \in Nat /\ Split \in 1..MaxChunk /\ Split <= Len(pending) /\ Len(pending) \in Nat /\ Len(delivered) \in Nat
           /\ delivered' \in Seq(Bytes) /\ Len(delivered') = Len(delivered) + Split
           /\ \A k \in 1..Len(delivered') : delivered'[k] = k
           /\ pending' \in Seq(Bytes) /\ Len(pending') = Len(pending) - Split
           /\ \A k \in 1..Len(pending') : pending'[k] = Len(delivered') + k
<1>0. pending \in Seq(Bytes) /\ delivered \in Seq(Bytes) /\ pending # <<>>
  BY DEF StreamInv, StreamTypeOK, Deliver
<1>1. /\ \A k \in 1..Len(delivered) : delivered[k] = k
      /\ \A k \in 1..Len(pending) : pending[k] = Len(delivered) + k
  <2>1. DOMAIN pending = 1..Len(pending) /\ DOMAIN delivered = 1..Len(delivered)
    BY <1>0, LenProperties
  <2> QED  BY <2>1 DEF StreamInv, Consecutive
<1>2. Len(pending) \in Nat \ {0} /\ Len(delivered) \in Nat /\ \A k \in 1..Len(pending) : pending[k] \in Bytes
  BY <1>0, EmptySeq, LenProperties, ElementOfSeq
<1>3. Split \in Nat /\ Split \in 1..MaxChunk /\ Split <= Len(pending)
  BY <1>2, StreamAssumption DEF Split
<1> DEFINE chunk == SubSeq(pending, 1, Split)
<1>4. chunk \in Seq(Bytes) /\ Len(chunk) = Split /\ \A k \in 1..Split : chunk[k] = pending[k]
  BY <1>2, <1>3, SubSeqProperties
<1> DEFINE rest == SubSeq(pending, Split + 1, Len(pending))
<1>5. rest \in Seq(Bytes) /\ Len(rest) = Len(pending) - Split /\ \A k \in 1..Len(rest) : rest[k] = pending[Split + k]
  BY <1>2, <1>3, SubSeqProperties
<1>6. delivered' = delivered \o chunk /\ pending' = rest
  BY DEF Deliver
<1> HIDE DEF chunk, rest
<1>7. /\ delivered' \in Seq(Bytes) /\ Len(delivered') = Len(delivered) + Split
      /\ \A k \in 1..(Len(delivered) + Split) :
            delivered'[k] = IF k <= Len(delivered) THEN delivered[k] ELSE chunk[k - Len(delivered)]
  <2>1. /\ delivered \o chunk \in Seq(Bytes) /\ Len(delivered \o chunk) = Len(delivered) + Len(chunk)
        /\ \A k \in 1..(Len(delivered) + Len(chunk)) : (delivered \o chunk)[k] =
              IF k <= Len(delivered) THEN delivered[k] ELSE chunk[k - Len(delivered)]
    BY <1>0, <1>4, ConcatProperties, Zenon
  <2> QED  BY <1>4, <1>6, <2>1
<1>8. \A k \in 1..Len(delivered') : delivered'[k] = k
  <2> SUFFICES ASSUME NEW k \in 1..(Len(delivered) + Split) PROVE delivered'[k] = k
    BY <1>7
  <2>1. CASE k <= Len(delivered)
    BY <1>1, <1>2, <1>7, <2>1
  <2>2. CASE ~(k <= Len(delivered))
    <3>1. k - Len(delivered) \in 1..Split /\ k - Len(delivered) \in 1..Len(pending)
      BY <1>2, <1>3, <2>2
    <3>2. delivered'[k] = chunk[k - Len(delivered)]
      BY <1>7, <2>2
    <3>3. chunk[k - Len(delivered)] = Len(delivered) + (k - Len(delivered))
      BY <1>1, <1>4, <3>1
    <3> QED  BY <1>2, <1>3, <3>2, <3>3
  <2> QED  BY <2>1, <2>2
<1>9. \A k \in 1..Len(pending') : pending'[k] = Len(delivered') + k
  <2> SUFFICES ASSUME NEW k \in 1..Len(rest) PROVE rest[k] = Len(delivered) + Split + k
    BY <1>6, <1>7
  <2>1. Split + k \in 1..Len(pending)
    BY <1>2, <1>3, <1>5
  <2> QED  BY <1>1, <1>2, <1>3, <1>5, <2>1
<1> QED  BY <1>2, <1>3, <1>5, <1>6, <1>7, <1>8, <1>9

(* Handing a chunk to the reader. *)
LEMMA DeliverInv ==
    ASSUME StreamInv, Deliver
    PROVE  StreamInv'
<1>1. StreamTypeOK'
  <2>1. late' \in Nat /\ outcomes \in Seq(Outcomes) /\ "Chunk" \in Outcomes /\ outcomes' = Append(outcomes, "Chunk")
    BY DEF Deliver, StreamInv, StreamTypeOK, Outcomes
  <2>2. outcomes' \in Seq(Outcomes)
    BY <2>1, AppendProperties
  <2> QED  BY <2>1, <2>2, DeliverBytes, Zenon DEF Deliver, StreamInv, StreamTypeOK
<1>2. Consecutive'
  <2>1. PICK off \in [1..(Len(wire) + 1) -> Nat] : Follows(off)
    BY DEF StreamInv, Consecutive
  <2>2. wire' = wire /\ sent' = sent
    BY DEF Deliver
  <2>3. Len(delivered') + Len(pending') = Len(delivered) + Len(pending)
    <3>1. /\ Split \in Nat /\ Len(pending) \in Nat /\ Len(delivered) \in Nat
          /\ Len(delivered') = Len(delivered) + Split /\ Len(pending') = Len(pending) - Split
      BY DeliverBytes
    <3> QED  BY <3>1
  <2>4. Follows(off)'
    BY <2>1, <2>2, <2>3 DEF Follows
  <2>5. DOMAIN pending' = 1..Len(pending') /\ DOMAIN delivered' = 1..Len(delivered')
    BY DeliverBytes, LenProperties
  <2> QED  BY <2>1, <2>2, <2>4, <2>5, DeliverBytes, Zenon DEF Consecutive
<1>3. EndIsLast' /\ OpenInside'
  BY DEF Deliver, StreamInv, EndIsLast, OpenInside
<1>4. LateStops'
  BY DEF Deliver, StreamInv, LateStops, DeadlinePassed
<1> QED  BY <1>1, <1>2, <1>3, <1>4 DEF StreamInv

(* A read takes the first of the wire into the empty buffer. *)
LEMMA ReadInv ==
    ASSUME StreamInv, Read
    PROVE  StreamInv'
<1>0. /\ pull = "read" /\ pending = <<>> /\ wire # <<>> /\ wire \in Seq(WireReads)
      /\ Len(wire) \in Nat \ {0} /\ DOMAIN wire = 1..Len(wire) /\ Head(wire) = wire[1] /\ wire[1] \in WireReads
  <2>1. wire \in Seq(WireReads) /\ wire # <<>>
    BY DEF Read, StreamInv, StreamTypeOK, WireReads
  <2>2. Len(wire) \in Nat \ {0} /\ DOMAIN wire = 1..Len(wire)
    BY <2>1, EmptySeq, LenProperties
  <2>3. wire[1] \in WireReads
    BY <2>1, <2>2, ElementOfSeq
  <2>4. Head(wire) = wire[1]
    BY <2>1
  <2> QED  BY <2>1, <2>2, <2>3, <2>4 DEF Read
<1>1. CASE Head(wire).last # "no" /\ Terminate(Head(wire).last) /\ UNCHANGED source
  <2>1. Head(wire).last \in Outcomes
    BY <1>0, <1>1 DEF WireReads, Outcomes
  <2> QED  BY <1>1, <2>1, TerminateInv
<1>2. CASE /\ Head(wire).last = "no"
           /\ pending' = Head(wire).bytes /\ wire' = Tail(wire) /\ waited' = Unarmed
           /\ UNCHANGED <<sent, empty, pull, left, aborted, finished, delivered, outcomes, late>>
  <2>1. /\ wire' \in Seq(WireReads) /\ Len(wire') = Len(wire) - 1
        /\ \A k \in 1..Len(wire') : wire'[k] = wire[k + 1]
    BY <1>0, <1>2, HeadTailProperties
  <2>2. DOMAIN wire' = 1..Len(wire')
    BY <2>1, LenProperties
  <2>3. pending' = wire[1].bytes /\ pending' \in Seq(Bytes)
    BY <1>0, <1>2 DEF WireReads
  <2>4. StreamTypeOK'
    <3>1. Unarmed \in 0..Unarmed
      BY StreamAssumption DEF Unarmed
    <3> QED  BY <1>2, <2>1, <2>3, <3>1 DEF StreamInv, StreamTypeOK, WireReads
  <2>5. PICK off \in [1..(Len(wire) + 1) -> Nat] : Follows(off)
    BY DEF StreamInv, Consecutive
  <2>6. /\ off[1] = Len(delivered) + Len(pending) /\ off[Len(wire) + 1] = sent
        /\ \A k \in 1..Len(wire) :
              /\ off[k + 1] = off[k] + Len(wire[k].bytes)
              /\ \A j \in DOMAIN wire[k].bytes : wire[k].bytes[j] = off[k] + j
        /\ \A k \in 1..(Len(wire) + 1) : off[k] <= sent
    BY <1>0, <2>5 DEF Follows
  <2>7. Len(pending) = 0 /\ Len(delivered) \in Nat /\ Len(pending') \in Nat /\ DOMAIN pending' = 1..Len(pending')
    BY <1>0, <2>3, LenProperties DEF StreamInv, StreamTypeOK
  <2>8. /\ off[1] = Len(delivered) /\ off[1 + 1] = Len(delivered) + Len(pending')
        /\ \A k \in 1..Len(pending') : pending'[k] = Len(delivered) + k
    <3>1. 1 \in 1..Len(wire)
      BY <1>0
    <3>2. off[1] = Len(delivered)
      BY <2>6, <2>7
    <3> QED  BY <2>3, <2>6, <2>7, <3>1, <3>2, Zenon
  <2>9. PICK next \in [1..Len(wire) -> Nat] : \A k \in 1..Len(wire) : next[k] = off[k + 1]
    <3>1. [k \in 1..Len(wire) |-> off[k + 1]] \in [1..Len(wire) -> Nat]
      BY <1>0
    <3> QED  BY <3>1, Zenon
  <2>10. next \in [1..(Len(wire') + 1) -> Nat]
    BY <1>0, <2>1
  <2>11. Follows(next)'
    <3>1. next[1] = Len(delivered') + Len(pending') /\ next[Len(wire') + 1] = sent'
      BY <1>0, <1>2, <2>1, <2>6, <2>8, <2>9
    <3>2. ASSUME NEW k \in 1..Len(wire')
          PROVE  /\ next[k + 1] = next[k] + Len(wire'[k].bytes)
                 /\ \A j \in DOMAIN wire'[k].bytes : wire'[k].bytes[j] = next[k] + j
      <4>1. k + 1 \in 1..Len(wire) /\ k \in 1..Len(wire) /\ wire'[k] = wire[k + 1]
        BY <1>0, <2>1
      <4>2. next[k] = off[k + 1] /\ next[k + 1] = off[(k + 1) + 1]
        BY <2>9, <4>1
      <4>3. /\ off[(k + 1) + 1] = off[k + 1] + Len(wire[k + 1].bytes)
            /\ \A j \in DOMAIN wire[k + 1].bytes : wire[k + 1].bytes[j] = off[k + 1] + j
        BY <2>6, <4>1
      <4> QED  BY <4>1, <4>2, <4>3
    <3>3. \A k \in 1..(Len(wire') + 1) : next[k] <= sent'
      BY <1>0, <1>2, <2>1, <2>6, <2>9
    <3> QED  BY <2>2, <3>1, <3>2, <3>3 DEF Follows
  <2>12. Consecutive'
    <3>1. \A k \in DOMAIN delivered' : delivered'[k] = k
      BY <1>2 DEF StreamInv, Consecutive
    <3>2. \A k \in DOMAIN pending' : pending'[k] = Len(delivered') + k
      BY <1>2, <2>7, <2>8, Zenon
    <3> QED  BY <2>10, <2>11, <3>1, <3>2 DEF Consecutive
  <2>13. EndIsLast'
    <3> SUFFICES ASSUME NEW k \in 1..Len(wire'), wire'[k].last # "no"
                 PROVE  k = Len(wire') /\ wire'[k].bytes = <<>>
      BY <2>2, Zenon DEF EndIsLast
    <3>1. k + 1 \in DOMAIN wire /\ wire'[k] = wire[k + 1]
      BY <1>0, <2>1
    <3>2. k + 1 = Len(wire) /\ wire[k + 1].bytes = <<>>
      BY <3>1 DEF StreamInv, EndIsLast
    <3>3. Len(wire) \in Nat /\ Len(wire') = Len(wire) - 1 /\ k \in Nat
      BY <1>0, <2>1
    <3>4. k = Len(wire')
      BY <3>2, <3>3
    <3> QED  BY <3>1, <3>2, <3>4, Zenon
  <2>14. OpenInside' /\ LateStops'
    BY <1>2 DEF StreamInv, OpenInside, LateStops, DeadlinePassed
  <2> QED  BY <2>4, <2>12, <2>13, <2>14 DEF StreamInv
<1> QED  BY <1>1, <1>2 DEF Read

(* Nothing to read: the pull goes on to the deadline's delay. *)
LEMMA WaitInv ==
    ASSUME StreamInv, Wait
    PROVE  StreamInv'
<1>1. waited' \in 0..Unarmed
  BY StreamAssumption DEF Wait, StreamInv, StreamTypeOK, Unarmed
<1>2. ~finished /\ late # 1
  BY DEF Wait, StreamInv, OpenInside, LateStops
<1> QED  BY <1>1, <1>2, GotoInv DEF Wait

(* The steps of a pull. *)
LEMMA StreamCallStepInv ==
    ASSUME StreamInv, Pull \/ PullStep \/ DropPull
    PROVE  StreamInv'
<1>0. waited \in 0..Unarmed
  BY DEF StreamInv, StreamTypeOK
<1>1. CASE Pull
  <2>1. CASE Terminate("End") /\ UNCHANGED source
    BY <2>1, TerminateInv DEF Outcomes
  <2>2. CASE ~finished /\ Proceed("cancelCheck") /\ UNCHANGED source
    BY <1>0, <2>2, GotoInv DEF source
  <2> QED  BY <1>1, <2>1, <2>2 DEF Pull
<1>2. CASE PullCancelCheck
  <2>1. CASE Terminate("StreamCancelled") /\ UNCHANGED source
    BY <2>1, TerminateInv DEF Outcomes
  <2>2. CASE ~aborted /\ Proceed("deadlineCheck") /\ UNCHANGED source
    <3>1. ~finished /\ (late = 1 => DeadlinePassed)
      BY <1>2, <2>2 DEF PullCancelCheck, StreamInv, OpenInside, LateStops
    <3> QED  BY <1>0, <2>2, <3>1, GotoInv DEF source
  <2> QED  BY <1>2, <2>1, <2>2 DEF PullCancelCheck
<1>3. CASE PullDeadlineCheck
  <2>1. CASE Terminate("StreamDeadlineExceeded") /\ UNCHANGED source
    BY <2>1, TerminateInv DEF Outcomes
  <2>2. CASE ~DeadlinePassed /\ Proceed("select") /\ UNCHANGED source
    <3>1. ~finished /\ late # 1
      BY <1>3, <2>2 DEF PullDeadlineCheck, StreamInv, OpenInside, LateStops
    <3> QED  BY <1>0, <2>2, <3>1, GotoInv DEF source
  <2> QED  BY <1>3, <2>1, <2>2 DEF PullDeadlineCheck
<1>4. CASE PullSelect \/ PullTimer
  <2>1. ASSUME NEW outcome \in {"StreamCancelled", "StreamDeadlineExceeded"}, Terminate(outcome), UNCHANGED source
        PROVE  StreamInv'
    BY <2>1, TerminateInv DEF Outcomes
  <2>2. ASSUME NEW label \in {"read", "select"}, Proceed(label), UNCHANGED source
        PROVE  StreamInv'
    <3>1. ~finished /\ late # 1
      BY <1>4 DEF PullSelect, PullTimer, StreamInv, OpenInside, LateStops
    <3> QED  BY <1>0, <2>2, <3>1, GotoInv DEF source
  <2> QED  BY <1>4, <2>1, <2>2 DEF PullSelect, PullTimer
<1>5. CASE Deliver
  BY <1>5, DeliverInv
<1>6. CASE Read
  BY <1>6, ReadInv
<1>7. CASE Wait
  BY <1>7, WaitInv
<1>8. CASE IdleGuard
  BY <1>8, TerminateInv DEF IdleGuard, Outcomes
<1>9. CASE DropPull
  BY <1>0, <1>9, GotoInv DEF DropPull, source
<1> QED  BY <1>1, <1>2, <1>3, <1>4, <1>5, <1>6, <1>7, <1>8, <1>9 DEF PullStep

(* Whatever is put on an open wire follows what is there. *)
LEMMA WireGrows ==
    ASSUME StreamInv, Open, NEW n \in Nat, sent + n <= MaxBytes, sent' = sent + n,
           NEW read \in WireReads, wire' = Append(wire, read), Len(read.bytes) = n,
           \A j \in DOMAIN read.bytes : read.bytes[j] = sent + j,
           read.last # "no" => read.bytes = <<>>,
           UNCHANGED <<pending, delivered>>
    PROVE  wire' \in Seq(WireReads) /\ Consecutive' /\ EndIsLast'
<1>0. wire \in Seq(WireReads) /\ sent \in Nat
  BY StreamAssumption DEF StreamInv, StreamTypeOK, WireReads
<1>1. /\ wire' \in Seq(WireReads) /\ Len(wire') = Len(wire) + 1
      /\ \A k \in 1..Len(wire) : wire'[k] = wire[k]
      /\ wire'[Len(wire) + 1] = read
  BY <1>0, AppendProperties
<1>2. Len(wire) \in Nat /\ DOMAIN wire = 1..Len(wire) /\ DOMAIN wire' = 1..(Len(wire) + 1)
  BY <1>0, <1>1, LenProperties
<1>3. PICK off \in [1..(Len(wire) + 1) -> Nat] : Follows(off)
  BY DEF StreamInv, Consecutive
<1>4. PICK more \in [1..(Len(wire) + 2) -> Nat] :
         \A k \in 1..(Len(wire) + 2) : more[k] = IF k = Len(wire) + 2 THEN sent + n ELSE off[k]
  <2>1. [k \in 1..(Len(wire) + 2) |-> IF k = Len(wire) + 2 THEN sent + n ELSE off[k]] \in [1..(Len(wire) + 2) -> Nat]
    BY <1>0, <1>2
  <2> QED  BY <2>1, Zenon
<1>5. /\ off[1] = Len(delivered) + Len(pending) /\ off[Len(wire) + 1] = sent
      /\ \A k \in 1..Len(wire) :
            /\ off[k + 1] = off[k] + Len(wire[k].bytes)
            /\ \A j \in DOMAIN wire[k].bytes : wire[k].bytes[j] = off[k] + j
      /\ \A k \in 1..(Len(wire) + 1) : off[k] <= sent
  BY <1>2, <1>3, Zenon DEF Follows
<1>6. Follows(more)'
  <2>0. more[Len(wire) + 2] = sent + n /\ \A k \in 1..(Len(wire) + 1) : more[k] = off[k]
    <3>1. Len(wire) + 2 \in 1..(Len(wire) + 2)
      BY <1>2
    <3>2. ASSUME NEW k \in 1..(Len(wire) + 1) PROVE k \in 1..(Len(wire) + 2) /\ k # Len(wire) + 2
      BY <1>2, <3>2
    <3> QED  BY <1>4, <3>1, <3>2
  <2>1. more[1] = Len(delivered') + Len(pending') /\ more[Len(wire') + 1] = sent'
    BY <1>1, <1>2, <1>5, <2>0
  <2>2. ASSUME NEW k \in 1..(Len(wire) + 1)
        PROVE  /\ more[k + 1] = more[k] + Len(wire'[k].bytes)
               /\ \A j \in DOMAIN wire'[k].bytes : wire'[k].bytes[j] = more[k] + j
    <3>1. CASE k = Len(wire) + 1
      <4>1. more[k + 1] = sent + n /\ more[k] = sent /\ wire'[k] = read
        <5>1. k + 1 = Len(wire) + 2
          BY <1>2, <3>1
        <5> QED  BY <1>1, <1>5, <2>0, <3>1, <5>1
      <4> QED  BY <4>1
    <3>2. CASE k \in 1..Len(wire)
      <4>1. more[k + 1] = off[k + 1] /\ more[k] = off[k] /\ wire'[k] = wire[k]
        <5>1. k + 1 \in 1..(Len(wire) + 1) /\ k \in 1..(Len(wire) + 1)
          BY <1>2, <3>2
        <5> QED  BY <1>1, <2>0, <3>2, <5>1
      <4> QED  BY <1>5, <3>2, <4>1
    <3> QED  BY <1>2, <3>1, <3>2
  <2>3. ASSUME NEW k \in 1..(Len(wire') + 1)
        PROVE  more[k] <= sent'
    <3>1. k \in 1..(Len(wire) + 2)
      BY <1>1, <1>2
    <3>2. CASE k = Len(wire) + 2
      BY <1>0, <2>0, <3>2
    <3>3. CASE k \in 1..(Len(wire) + 1)
      <4>1. more[k] = off[k] /\ off[k] <= sent /\ off[k] \in Nat
        BY <1>5, <2>0, <3>3, Zenon
      <4> QED  BY <1>0, <4>1
    <3> QED  BY <1>2, <3>1, <3>2, <3>3
  <2> QED  BY <1>2, <2>1, <2>2, <2>3 DEF Follows
<1>7. more \in [1..(Len(wire') + 1) -> Nat]
  BY <1>1, <1>2
<1>8. Consecutive'
  BY <1>6, <1>7 DEF StreamInv, Consecutive
<1>9. EndIsLast'
  <2> SUFFICES ASSUME NEW k \in 1..(Len(wire) + 1), wire'[k].last # "no"
               PROVE  k = Len(wire) + 1 /\ wire'[k].bytes = <<>>
    BY <1>1, <1>2 DEF EndIsLast
  <2>1. k = Len(wire) + 1
    BY <1>1, <1>2 DEF Open
  <2> QED  BY <1>1, <2>1
<1> QED  BY <1>1, <1>8, <1>9

(* The upstream sends or closes; the clock and the token move. *)
LEMMA StreamSurroundingsInv ==
    ASSUME StreamInv, UpstreamSends \/ UpstreamCloses \/ StreamTick \/ StreamCancel
    PROVE  StreamInv'
<1>1. CASE UpstreamSends
  <2>1. PICK n \in 0..MaxRead :
           /\ sent + n <= MaxBytes /\ (n = 0 => empty < MaxEmpty)
           /\ sent' = sent + n
           /\ empty' = IF n = 0 THEN empty + 1 ELSE empty
           /\ wire' = Append(wire, [bytes |-> [k \in 1..n |-> sent + k], last |-> "no"])
    BY <1>1, Zenon DEF UpstreamSends
  <2>2. n \in Nat /\ sent \in Nat /\ MaxBytes \in Nat /\ sent' \in 0..MaxBytes /\ empty' \in 0..MaxEmpty
    <3>1. MaxRead \in Nat /\ MaxBytes \in Nat /\ MaxEmpty \in Nat
      BY StreamAssumption
    <3>2. sent \in 0..MaxBytes /\ empty \in 0..MaxEmpty
      BY DEF StreamInv, StreamTypeOK
    <3> QED  BY <2>1, <3>1, <3>2
  <2> DEFINE bytes == [k \in 1..n |-> sent + k]
             read == [bytes |-> bytes, last |-> "no"]
  <2>3. bytes \in Seq(Bytes) /\ Len(bytes) = n /\ DOMAIN bytes = 1..n /\ \A k \in 1..n : bytes[k] = sent + k
    <3>1. \A k \in 1..n : sent + k \in Bytes
      BY <2>1, <2>2 DEF Bytes
    <3> QED  BY <2>2, <3>1
  <2>4. read \in WireReads /\ read.bytes = bytes /\ read.last = "no"
    BY <2>3 DEF WireReads
  <2>5. wire' = Append(wire, read)
    BY <2>1
  <2> HIDE DEF bytes, read
  <2>6. wire' \in Seq(WireReads) /\ Consecutive' /\ EndIsLast'
    BY <1>1, <2>1, <2>2, <2>3, <2>4, <2>5, WireGrows, Zenon DEF UpstreamSends
  <2>7. StreamTypeOK'
    BY <1>1, <2>2, <2>6 DEF UpstreamSends, StreamInv, StreamTypeOK, WireReads
  <2>8. OpenInside' /\ LateStops'
    BY <1>1 DEF UpstreamSends, StreamInv, OpenInside, LateStops, DeadlinePassed
  <2> QED  BY <2>6, <2>7, <2>8 DEF StreamInv
<1>2. CASE UpstreamCloses
  <2>1. PICK last \in {"End", "StreamReadFailed"} : wire' = Append(wire, [bytes |-> <<>>, last |-> last])
    BY <1>2 DEF UpstreamCloses
  <2> DEFINE read == [bytes |-> <<>>, last |-> last]
  <2>2. read \in WireReads /\ read.bytes = <<>> /\ Len(read.bytes) = 0 /\ DOMAIN read.bytes = {}
    BY EmptySeq DEF WireReads
  <2>3. sent + 0 <= MaxBytes /\ sent' = sent + 0
    <3>1. sent \in Nat /\ sent <= MaxBytes
      <4>1. sent \in 0..MaxBytes
        BY DEF StreamInv, StreamTypeOK
      <4>2. MaxBytes \in Nat
        BY StreamAssumption
      <4> QED  BY <4>1, <4>2
    <3>2. sent' = sent
      BY <1>2 DEF UpstreamCloses
    <3> QED  BY <3>1, <3>2
  <2>4. wire' = Append(wire, read)
    BY <2>1
  <2> HIDE DEF read
  <2>5. wire' \in Seq(WireReads) /\ Consecutive' /\ EndIsLast'
    BY <1>2, <2>2, <2>3, <2>4, WireGrows DEF UpstreamCloses
  <2>6. StreamTypeOK'
    BY <1>2, <2>5 DEF UpstreamCloses, StreamInv, StreamTypeOK, WireReads
  <2>7. OpenInside' /\ LateStops'
    BY <1>2 DEF UpstreamCloses, StreamInv, OpenInside, LateStops, DeadlinePassed
  <2> QED  BY <2>5, <2>6, <2>7 DEF StreamInv
<1>3. CASE StreamTick
  <2>1. left' \in Nat \union {Unlimited} /\ waited' \in 0..Unarmed
    <3>1. IdleTimeout \in Nat /\ left \in Nat \union {Unlimited} /\ waited \in 0..(IdleTimeout + 1)
      BY StreamAssumption DEF StreamInv, StreamTypeOK, Unarmed
    <3>2. left' \in Nat \union {Unlimited}
      BY <1>3, <3>1 DEF StreamTick
    <3>3. waited' \in 0..(IdleTimeout + 1)
      BY <1>3, <3>1 DEF StreamTick
    <3> QED  BY <3>2, <3>3 DEF Unarmed
  <2>2. StreamTypeOK' /\ OpenInside'
    BY <1>3, <2>1 DEF StreamTick, StreamInv, StreamTypeOK, OpenInside
  <2>3. Consecutive' /\ EndIsLast'
    BY <1>3, BytesKept DEF StreamTick
  <2>4. LateStops'
    BY <1>3 DEF StreamTick, StreamInv, LateStops, DeadlinePassed
  <2> QED  BY <2>2, <2>3, <2>4 DEF StreamInv
<1>4. CASE StreamCancel
  <2>1. StreamTypeOK' /\ OpenInside' /\ LateStops'
    BY <1>4 DEF StreamCancel, StreamInv, StreamTypeOK, OpenInside, LateStops, DeadlinePassed
  <2>2. Consecutive' /\ EndIsLast'
    BY <1>4, BytesKept DEF StreamCancel
  <2> QED  BY <2>1, <2>2 DEF StreamInv
<1> QED  BY <1>1, <1>2, <1>3, <1>4

(* Every step of the call, of the upstream and of the clock. *)
LEMMA StreamNextInv ==
    ASSUME StreamInv, [StreamNext]_streamVars
    PROVE  StreamInv'
<1>1. CASE StreamNext
  BY <1>1, StreamCallStepInv, StreamSurroundingsInv DEF StreamNext
<1>2. CASE UNCHANGED streamVars
  <2>1. StreamTypeOK' /\ OpenInside' /\ LateStops'
    BY <1>2 DEF streamVars, StreamInv, StreamTypeOK, OpenInside, LateStops, DeadlinePassed
  <2>2. Consecutive' /\ EndIsLast'
    BY <1>2, BytesKept DEF streamVars
  <2> QED  BY <2>1, <2>2 DEF StreamInv
<1> QED  BY <1>1, <1>2
-----------------------------------------------------------------------------
(* The pulls keep the bytes in order. *)
THEOREM Invariance == StreamSpec => []StreamInv
<1>1. StreamInit => StreamInv
  BY StreamInitInv
<1>2. StreamInv /\ [StreamNext]_streamVars => StreamInv'
  BY StreamNextInv
<1> QED  BY <1>1, <1>2, PTL DEF StreamSpec

(* At most one chunk is returned after cancellation or the deadline        *)
(* (south-core lib.rs:1312-1313).                                          *)
THEOREM OneLateChunk == StreamSpec => []AtMostOneLateChunk
<1>1. StreamInv => AtMostOneLateChunk
  BY DEF StreamInv, LateStops, AtMostOneLateChunk
<1> QED  BY <1>1, Invariance, PTL

(* A terminal outcome of an open stream closes the abstract one. *)
LEMMA TerminateCloses ==
    ASSUME ~finished, NEW outcome \in Outcomes \ {"Chunk"}, Terminate(outcome), UNCHANGED sent,
           outcome = "End" => Len(delivered) = sent
    PROVE  Promise!Close
  BY DEF Terminate, Promise!Close

(* Every step is one of the abstract stream, or shows nothing. *)
LEMMA StepRefines ==
    ASSUME StreamInv, [StreamNext]_streamVars
    PROVE  [Promise!Send \/ Promise!Deliver \/ Promise!Close \/ Promise!AfterClose]_<<sent, delivered, outcomes, finished>>
<1> USE DEF source
<1>1. ASSUME NEW label, Proceed(label), UNCHANGED sent
      PROVE  UNCHANGED <<sent, delivered, outcomes, finished>>
  BY <1>1 DEF Proceed
<1>2. CASE Pull
  <2>1. CASE finished /\ Terminate("End") /\ UNCHANGED source
    BY <2>1 DEF Terminate, Promise!AfterClose
  <2> QED  BY <1>1, <1>2, <2>1 DEF Pull
<1>3. CASE PullCancelCheck \/ PullDeadlineCheck \/ PullSelect \/ PullTimer \/ IdleGuard \/ Wait \/ DropPull
  <2>1. ~finished
    BY <1>3 DEF PullCancelCheck, PullDeadlineCheck, PullSelect, PullTimer, IdleGuard, Wait, DropPull, StreamInv, OpenInside
  <2>2. ASSUME NEW outcome \in {"StreamCancelled", "StreamDeadlineExceeded", "StreamIdleTimeout"},
               Terminate(outcome), UNCHANGED source
        PROVE  Promise!Close
    BY <2>1, <2>2, TerminateCloses DEF Outcomes
  <2> QED  BY <1>1, <1>3, <2>2 DEF PullCancelCheck, PullDeadlineCheck, PullSelect, PullTimer, IdleGuard, Wait, DropPull
<1>4. CASE Deliver
  <2>1. ~finished /\ UNCHANGED <<sent, finished>> /\ outcomes' = Append(outcomes, "Chunk")
    BY <1>4 DEF Deliver, StreamInv, OpenInside
  <2>2. Len(delivered) + Split <= sent
    <3>1. PICK off \in [1..(Len(wire) + 1) -> Nat] : Follows(off)
      BY DEF StreamInv, Consecutive
    <3>2. Len(wire) \in Nat /\ sent \in Nat
      BY LenProperties, StreamAssumption DEF StreamInv, StreamTypeOK
    <3>3. Len(delivered) + Len(pending) <= sent
      BY <3>1, <3>2 DEF Follows
    <3>4. Split \in Nat /\ Split <= Len(pending) /\ Len(pending) \in Nat /\ Len(delivered) \in Nat
      BY <1>4, DeliverBytes
    <3> QED  BY <3>2, <3>3, <3>4
  <2>3. delivered' = [k \in 1..(Len(delivered) + Split) |-> k]
    <3>1. /\ delivered' \in Seq(Bytes) /\ Len(delivered') = Len(delivered) + Split
          /\ \A k \in 1..Len(delivered') : delivered'[k] = k
      BY <1>4, DeliverBytes
    <3>2. delivered' = [k \in 1..Len(delivered') |-> delivered'[k]]
      BY <3>1, LenProperties
    <3> QED  BY <3>1, <3>2
  <2>4. Split \in 1..MaxChunk
    BY <1>4, DeliverBytes
  <2> QED  BY <2>1, <2>2, <2>3, <2>4 DEF Promise!Deliver
<1>5. CASE Read
  <2>1. ~finished /\ pending = <<>> /\ wire # <<>>
    BY <1>5 DEF Read, StreamInv, OpenInside
  <2>2. CASE Head(wire).last # "no" /\ Terminate(Head(wire).last) /\ UNCHANGED source
    <3>1. /\ wire \in Seq(WireReads) /\ Len(wire) \in Nat \ {0} /\ DOMAIN wire = 1..Len(wire)
      BY <2>1, EmptySeq, LenProperties DEF StreamInv, StreamTypeOK, WireReads
    <3>2. Head(wire) = wire[1] /\ wire[1] \in WireReads /\ 1 \in DOMAIN wire
      BY <2>1, <3>1, ElementOfSeq
    <3>3. Len(wire) = 1 /\ wire[1].bytes = <<>>
      BY <2>2, <3>2, Zenon DEF StreamInv, EndIsLast
    <3>4. PICK off \in [1..(Len(wire) + 1) -> Nat] : Follows(off)
      BY DEF StreamInv, Consecutive
    <3>5. off[1] = Len(delivered) /\ off[1 + 1] = off[1] + 0 /\ off[1 + 1] = sent
      <4>1. Len(pending) = 0 /\ Len(wire[1].bytes) = 0 /\ Len(delivered) \in Nat
        BY <2>1, <3>3, LenProperties DEF StreamInv, StreamTypeOK
      <4> QED  BY <3>2, <3>3, <3>4, <4>1 DEF Follows
    <3>6. Len(delivered) = sent
      BY <3>4, <3>5, <3>3
    <3>7. Head(wire).last \in Outcomes \ {"Chunk"}
      BY <2>2, <3>2 DEF WireReads, Outcomes
    <3> QED  BY <2>1, <2>2, <3>6, <3>7, TerminateCloses
  <2> QED  BY <1>5, <2>2 DEF Read
<1>6. CASE UpstreamSends
  <2>1. PICK n \in 0..MaxRead : sent + n <= MaxBytes /\ sent' = sent + n
    BY <1>6 DEF UpstreamSends
  <2>2. sent' \in sent..MaxBytes
    BY <2>1, StreamAssumption DEF StreamInv, StreamTypeOK
  <2> QED  BY <1>6, <2>2 DEF UpstreamSends, Promise!Send
<1>7. CASE UpstreamCloses \/ StreamTick \/ StreamCancel \/ UNCHANGED streamVars
  BY <1>7 DEF UpstreamCloses, StreamTick, StreamCancel, streamVars
<1> QED  BY <1>2, <1>3, <1>4, <1>5, <1>6, <1>7 DEF StreamNext, PullStep

(* The pulls of an opened stream are those of the abstract byte stream:    *)
(* every byte once and in order, a clean end only at the end of the body,  *)
(* and nothing but None after the terminal outcome (lib.rs:1211-1213,      *)
(* 1286-1287).                                                             *)
THEOREM Refinement == StreamSpec => RefinesByteStream
<1>1. StreamInit => Promise!Init
  BY DEF StreamInit, Promise!Init
<1>2. StreamInv /\ [StreamNext]_streamVars =>
         [Promise!Send \/ Promise!Deliver \/ Promise!Close \/ Promise!AfterClose]_Promise!vars
  BY StepRefines DEF Promise!vars
<1> QED  BY <1>1, <1>2, Invariance, PTL DEF StreamSpec, RefinesByteStream, Promise!Spec

(* The stream keeps its promise, signals included: the byte stream above,  *)
(* and at most one chunk after a signal (lib.rs:1211-1213, 1312-1313).     *)
THEOREM Kept == StreamSpec => StreamKept
  BY Refinement, OneLateChunk, PTL DEF StreamKept
=============================================================================
