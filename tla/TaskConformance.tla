-------------------------- MODULE TaskConformance ---------------------------
(***************************************************************************)
(* The atomic suite of crates/south-task-conformance/src/lib.rs run        *)
(* against the store the workflows run over, for a host that reserves      *)
(* resources.  Every scenario starts from a store without the task and is  *)
(* the list of calls its code makes, each with the reply and the facts the *)
(* code requires.                                                          *)
(***************************************************************************)
EXTENDS TaskWorkflow, Sequences, SequencesExt, TLC

(* A call: the operation, its argument and injected fault, the reply the   *)
(* suite requires, and what it requires of the snapshot afterwards.        *)
Call(op, arg, fault, reply, check) ==
    [op |-> op, arg |-> arg, fault |-> fault, reply |-> reply, check |-> check]

FirstPrepare == Call("prepare", FALSE, "None", "Created", "prepared")
FirstDispatch == Call("dispatch", FALSE, "None", TRUE, "none")
Guard == Call("guard", FALSE, "None", "any", "unchanged")
Applied(completion, fault, reply, check) == Call("apply", completion, fault, reply, check)
Close(completion) == <<Guard, Applied(completion, "None", TRUE, completion)>>
Dispatching == <<FirstPrepare, FirstDispatch, Guard>>

(* run_case and run_observation_case *)
Script == [
    prepare_rollback |->
        <<Call("prepare", FALSE, "BeforeCommit", "Err", "unchanged"), FirstPrepare>>,
    prepare_reply_loss |->
        <<Call("prepare", FALSE, "AfterCommit", "Err", "prepared"),
          Call("prepare", FALSE, "None", "Replayed", "unchanged")>>,
    prepare_replay |->
        <<FirstPrepare, Call("prepare", FALSE, "None", "Replayed", "unchanged"),
          Call("prepare", TRUE, "None", "Conflict", "unchanged")>>,
    cancel_before_dispatch |->
        <<FirstPrepare, Call("cancel_prepared", FALSE, "None", TRUE, "CancelledNoCharge"),
          Call("dispatch", FALSE, "None", FALSE, "unchanged"),
          Call("cancel_prepared", FALSE, "None", FALSE, "unchanged")>>,
    dispatch_before_cancel |->
        <<FirstPrepare, FirstDispatch,
          Call("cancel_prepared", FALSE, "None", FALSE, "unchanged"),
          Call("dispatch", FALSE, "None", FALSE, "unchanged")>>,
    apply_rollback |->
        Dispatching \o <<Applied("Succeeded", "BeforeCommit", "Err", "unchanged")>>
                    \o Close("Succeeded"),
    apply_reply_loss |->
        Dispatching \o <<Applied("Succeeded", "AfterCommit", "Err", "Succeeded"),
                         Applied("Succeeded", "None", FALSE, "unchanged")>>,
    terminal_replay |->
        Dispatching \o <<Applied("Succeeded", "None", TRUE, "Succeeded"),
                         Applied("Failed", "None", FALSE, "unchanged")>>
                    \o <<Guard, Applied("Succeeded", "None", FALSE, "unchanged")>>,
    stale_owner |->
        Dispatching \o <<Call("takeover", FALSE, "None", "any", "fenced"),
                         Applied("Succeeded", "None", FALSE, "unchanged")>>
                    \o Close("Succeeded"),
    cancel_unknown_then_evidence |->
        Dispatching \o <<Applied("CancelledUnknown", "None", TRUE, "kept")>>
                    \o Close("CancelledNoCharge"),
    failure_closes |->
        Dispatching \o Close("Failed")]

-----------------------------------------------------------------------------
(* A scenario in progress: the request it prepares, the store, the last    *)
(* guard it read, and whether every requirement so far held.               *)
Fixture(request, fresh) == [request |-> request, store |-> fresh, guard |-> 0, passed |-> TRUE]

Argument(run, call) == IF call.arg THEN CHOOSE r \in Requests : r # run.request ELSE run.request

(* The transaction a call runs: whether it commits, and what. *)
May(run, call) ==
    CASE call.op = "dispatch" -> MayDispatch(run.store)
      [] call.op = "apply" -> MayApply(run.store, run.guard, call.arg)
      [] call.op = "cancel_prepared" -> MayCancelPrepared(run.store)
      [] OTHER -> TRUE

Committed(run, call) ==
    CASE call.op = "prepare" -> Prepared(run.store, Argument(run, call))
      [] call.op = "dispatch" -> Dispatched(run.store)
      [] call.op = "apply" -> Completed(run.store, call.arg)
      [] call.op = "cancel_prepared" -> CancelledPrepared(run.store)
      [] call.op = "takeover" -> TakenOver(run.store)
      [] call.op = "guard" -> run.store

After(run, call) ==
    IF May(run, call) /\ call.fault # "BeforeCommit" THEN Committed(run, call) ELSE run.store

Reply(run, call) ==
    IF call.fault # "None" THEN "Err"
    ELSE IF call.op = "prepare" THEN Verdict(run.store, Argument(run, call))
    ELSE IF call.op \in {"dispatch", "apply", "cancel_prepared"} THEN May(run, call)
    ELSE "any"

(* closed: the terminal facts of a completion, each effect exactly once. *)
Closed(s, completion) ==
    /\ s.execution = Execution(completion) /\ ~s.held
    /\ s.events = 1 /\ s.reserves = 1 /\ s.closes = 1

Holds(check, run, after) ==
    CASE check = "none" -> TRUE
      [] check = "unchanged" -> after = run.store
      [] check = "prepared" -> after.request = run.request /\ ~Terminal(after) /\ after.events = 0
                               /\ after.reserves = 1 /\ after.closes = 0
      [] check = "fenced" -> after.version # run.guard
      [] check = "kept" -> after.execution = "Cancelled" /\ after.held
                           /\ after.events = 1 /\ after.closes = 0
      [] check \in Completions -> Closed(after, check)

RunCall(run, call) ==
    [run EXCEPT !.store = After(run, call),
                !.guard = IF call.op = "guard" THEN run.store.version ELSE run.guard,
                !.passed = /\ run.passed
                           /\ Reply(run, call) = call.reply
                           /\ Holds(call.check, run, After(run, call))]

(* run_atomic_suite *)
RunCase(name, request, fresh) == FoldLeft(RunCall, Fixture(request, fresh), Script[name])
-----------------------------------------------------------------------------
(* The store the workflows run over passes every scenario of               *)
(* run_atomic_suite (south-task-conformance/src/lib.rs:101-340) whenever   *)
(* it does not hold the task yet, also after submissions that failed, and  *)
(* so is one a conforming host may have.                                   *)
SuitePasses ==
    store.request = NoRequest =>
        \A name \in DOMAIN Script, request \in Requests : RunCase(name, request, store).passed
-----------------------------------------------------------------------------
(***************************************************************************)
(* TaskWorkflow for TLC: two submitters of two requests, two observers and *)
(* a canceller, all interchangeable within their roles, over a store that  *)
(* is put through the atomic suite.                                        *)
(***************************************************************************)

Symmetry == Permutations(Submitters) \union Permutations(Observers) \union Permutations(Requests)
=============================================================================
