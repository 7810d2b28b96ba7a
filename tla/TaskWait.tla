------------------------------ MODULE TaskWait ------------------------------
(***************************************************************************)
(* wait and controlled of crates/south-task-core/src/lib.rs: one waiter    *)
(* that inspects a task until it may be delivered, within a deadline.      *)
(*                                                                         *)
(* Every poll of controlled is three steps, one per arm, so that the token *)
(* and the clock can change between them.  Time is what is left of the     *)
(* deadline and of the current sleep.                                      *)
(***************************************************************************)
EXTENDS Integers, FiniteSetsExt

CONSTANTS WaitDeadlines,  \* ticks until the deadline when wait is called
          Intervals       \* polling intervals, in ticks

ASSUME WaitAssumption == WaitDeadlines \subseteq Nat /\ Intervals \subseteq Nat

VARIABLES deadline, interval,
          remaining,  \* ticks until the deadline, 0 once it has passed
          token,      \* control.cancelled() is ready
          arm,        \* the arm that is polled next
          phase,      \* what this controlled runs: "inspect" or "sleep"
          reading,    \* the inspection: not begun, begun, or what it answers
          nap,        \* ticks left of the interval's sleep
          inspected,  \* inspections begun
          seen,       \* history: token and time left when the current poll began
          answer

waitVars == <<deadline, interval, remaining, token, arm, phase, reading, nap, inspected, seen, answer>>

Readings == {"unbegun", "begun", "Pending", "Ready", "Host"}

WaitTypeOK ==
    /\ deadline \in WaitDeadlines /\ interval \in Intervals
    /\ remaining \in 0..deadline /\ nap \in 0..remaining
    /\ token \in BOOLEAN
    /\ arm \in {"enter", "pollCancel", "pollTimer", "pollOperation", "done"}
    /\ phase \in {"inspect", "sleep"}
    /\ reading \in Readings
    /\ inspected \in Nat
    /\ seen \in [token : BOOLEAN, left : 0..deadline]
    /\ answer \in {"none", "InvalidInterval", "Host", "Ready", "TimedOut", "Cancelled"}

WaitInit ==
    /\ deadline \in WaitDeadlines
    /\ interval \in Intervals
    /\ remaining = deadline
    /\ token \in BOOLEAN
    /\ arm = "enter"
    /\ phase = "inspect"
    /\ reading = "unbegun"
    /\ nap = 0
    /\ inspected = 0
    /\ seen = [token |-> FALSE, left |-> deadline]
    /\ answer = "none"
-----------------------------------------------------------------------------
WaitReturns(outcome) == arm' = "done" /\ answer' = outcome
WaitGoto(label) == arm' = label /\ UNCHANGED answer

WaitEnter ==
    /\ arm = "enter"
    /\ IF interval = 0 THEN WaitReturns("InvalidInterval") ELSE WaitGoto("pollCancel")
    /\ UNCHANGED <<deadline, interval, remaining, token, phase, reading, nap, inspected, seen>>

(* controlled: the cancellation arm ... *)
PollCancel ==
    /\ arm = "pollCancel"
    /\ seen' = [token |-> token, left |-> remaining]
    /\ IF token THEN WaitReturns("Cancelled") ELSE WaitGoto("pollTimer")
    /\ UNCHANGED <<deadline, interval, remaining, token, phase, reading, nap, inspected>>

\* Mutant: the deadline is looked at only between inspections.
PollTimerAsleep ==
    /\ arm = "pollTimer"
    /\ IF remaining = 0 /\ phase = "sleep" THEN WaitReturns("TimedOut") ELSE WaitGoto("pollOperation")
    /\ UNCHANGED <<deadline, interval, remaining, token, phase, reading, nap, inspected, seen>>

\* Mutant: the deadline loses to an answer that is ready.
PollTimerAfterReady ==
    /\ arm = "pollTimer"
    /\ IF remaining = 0 /\ reading \notin {"Ready", "Host"} THEN WaitReturns("TimedOut") ELSE WaitGoto("pollOperation")
    /\ UNCHANGED <<deadline, interval, remaining, token, phase, reading, nap, inspected, seen>>

(* ... then the deadline ... *)
PollTimer ==
    /\ arm = "pollTimer"
    /\ IF remaining = 0 THEN WaitReturns("TimedOut") ELSE WaitGoto("pollOperation")
    /\ UNCHANGED <<deadline, interval, remaining, token, phase, reading, nap, inspected, seen>>

(* The sleep between inspections is clipped to the budget. *)
Sleep == Min({interval, remaining})

(* ... then the operation.  The inspection begins with its first poll.     *)
(* An answer of Pending leads to the sleep in the same poll of wait.       *)
PollInspect ==
    /\ arm = "pollOperation" /\ phase = "inspect"
    /\ \/ /\ reading = "unbegun"
          /\ reading' = "begun" /\ inspected' = inspected + 1
          /\ WaitGoto("pollOperation")
          /\ UNCHANGED <<phase, nap>>
       \/ /\ reading = "begun"
          /\ WaitGoto("pollCancel")
          /\ UNCHANGED <<reading, inspected, phase, nap>>
       \/ /\ reading \in {"Ready", "Host"}
          /\ WaitReturns(reading)
          /\ UNCHANGED <<reading, inspected, phase, nap>>
       \/ /\ reading = "Pending"
          /\ phase' = "sleep" /\ nap' = Sleep
          /\ WaitGoto("pollCancel")
          /\ UNCHANGED <<reading, inspected>>
    /\ UNCHANGED <<deadline, interval, remaining, token, seen>>

PollSleep ==
    /\ arm = "pollOperation" /\ phase = "sleep"
    /\ WaitGoto("pollCancel")
    /\ \/ nap > 0 /\ UNCHANGED <<phase, reading>>
       \/ nap = 0 /\ phase' = "inspect" /\ reading' = "unbegun"
    /\ UNCHANGED <<deadline, interval, remaining, token, nap, inspected, seen>>

Poll == WaitEnter \/ PollCancel \/ PollTimer \/ PollInspect \/ PollSleep
-----------------------------------------------------------------------------
(* The host answers an inspection; it need not. *)
HostAnswers ==
    /\ reading = "begun" /\ arm # "done"
    /\ reading' \in {"Pending", "Ready", "Host"}
    /\ UNCHANGED <<deadline, interval, remaining, token, arm, phase, nap, inspected, seen, answer>>

WaitCancel ==
    /\ ~token /\ arm # "done"
    /\ token' = TRUE
    /\ UNCHANGED <<deadline, interval, remaining, arm, phase, reading, nap, inspected, seen, answer>>

Less(n) == IF n = 0 THEN 0 ELSE n - 1

WaitTick ==
    /\ remaining' = Less(remaining)
    /\ nap' = Less(nap)
    /\ UNCHANGED <<deadline, interval, token, arm, phase, reading, inspected, seen, answer>>

WaitNext == Poll \/ HostAnswers \/ WaitCancel \/ WaitTick

(* The executor polls the waiter again after every wake-up and time        *)
(* passes; the host may never answer.                                      *)
WaitSpec == WaitInit /\ [][WaitNext]_waitVars /\ WF_waitVars(Poll) /\ WF_waitVars(WaitTick)
-----------------------------------------------------------------------------
(* Cancellation wins over the deadline and the deadline over an answer:    *)
(* neither an answer nor an inspection gets past a signal that was up when *)
(* the poll began (lib.rs:253, 335-353).                                   *)
SignalsComeFirst ==
    /\ answer \in {"Ready", "Host"} => ~seen.token /\ seen.left > 0
    /\ answer = "TimedOut" => ~seen.token /\ remaining = 0
    /\ arm = "pollOperation" => ~seen.token /\ seen.left > 0

(* Waiting is not busy waiting: the inspections begun so far fit the time  *)
(* that has passed, one interval apart (lib.rs:228, 261).                  *)
NoBusyLoop ==
    IF interval = 0 THEN inspected = 0
    ELSE inspected <= (deadline - remaining) \div interval + 1

(* A wait heeds its signals and its interval. *)
WaitDisciplined == SignalsComeFirst /\ NoBusyLoop

(* The wait ends, also when an inspection never answers. *)
WaitEnds == <>(arm = "done")
=============================================================================
