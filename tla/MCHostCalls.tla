---------------------------- MODULE MCHostCalls -----------------------------
(***************************************************************************)
(* The three futures a host awaits: a provider call (ProviderCall), a pull *)
(* of the stream such a call opened (StreamingCall) and a wait for a task  *)
(* (TaskWait).  Each is polled by the executor, and each must answer to    *)
(* its cancellation token and its deadline.  They share no state: `entry`  *)
(* says which one a behaviour is about.  A fourth kind of behaviour is one *)
(* run of a call-conformance suite (CallConformance), whose reference      *)
(* executor makes one provider call per row of the suite's table.          *)
(***************************************************************************)
EXTENDS CallConformance, StreamingCall, TaskWait, SequencesExt

VARIABLE entry    \* "call", "pull", "wait" or "suite"

hostVars == <<entry, vars, streamVars, waitVars, suiteVars>>

\* What a behaviour is not about stays at one initial state.
HostInit ==
    /\ entry \in {"call", "pull", "wait", "suite"}
    /\ entry = "pull" \/ (entry # "pull" /\ left = Unlimited)
    /\ \/ entry = "wait"
       \/ /\ entry # "wait"
          /\ deadline = (CHOOSE d \in WaitDeadlines : TRUE)
          /\ interval = (CHOOSE i \in Intervals : TRUE)
          /\ token = FALSE
    /\ \/ entry \in {"call", "suite"}
       \/ entry \in {"pull", "wait"} /\ call = (CHOOSE c \in Calls : TRUE) /\ cancelled = FALSE
    /\ StreamInit /\ WaitInit
    /\ \/ entry = "suite" /\ RunnerInit
       \/ /\ entry # "suite" /\ Init
          /\ suite = "provider_call" /\ executor = [kind |-> "reference"] /\ ReportInit

OfCall(step) == entry = "call" /\ step /\ UNCHANGED <<entry, streamVars, waitVars, suiteVars>>
OfPull(step) == entry = "pull" /\ step /\ UNCHANGED <<entry, vars, waitVars, suiteVars>>
OfWait(step) == entry = "wait" /\ step /\ UNCHANGED <<entry, vars, streamVars, suiteVars>>
OfSuite(step) == entry = "suite" /\ step /\ UNCHANGED <<entry, streamVars, waitVars>>

HostNext == OfCall(Next) \/ OfPull(StreamNext) \/ OfWait(WaitNext) \/ OfSuite(RunnerNext)

(* The executor polls the future it runs again and again, and time passes. *)
(* In a suite the task under test and the scripted futures joined to it    *)
(* are all polled; neither starves the other.                              *)
Polled == OfCall(CallStep) \/ OfPull(PullStep) \/ OfWait(Poll) \/ OfSuite(RunnerNext)
Ticks == OfCall(Tick) \/ OfPull(StreamTick) \/ OfWait(WaitTick) \/ OfSuite(Script)

HostSpec == HostInit /\ [][HostNext]_hostVars /\ WF_hostVars(Polled) /\ WF_hostVars(Ticks)
-----------------------------------------------------------------------------
(* Every await ends: a call with a deadline or a fired token returns       *)
(* whatever its resolver, finalizer and transport do; a pull returns also  *)
(* without a deadline and from a silent upstream, by the idle guard        *)
(* (lib.rs:1366-1367); a wait ends though an inspection never answers.     *)
AwaitsEnd ==
    /\ entry = "call" => CallEnds
    /\ PullReturns
    /\ entry = "wait" => WaitEnds

(* Every run of a suite ends, the cases that cancel, stall or expire       *)
(* included: no driver waits for a notice that never comes.                *)
SuiteEnds == entry = "suite" => <>(progress = "done")
-----------------------------------------------------------------------------
(***************************************************************************)
(* HostCalls for TLC.  Calls: two slots, two signable headers, and         *)
(* emissions of up to two headers, so that every way to fail               *)
(* diff_finalized occurs.  Pulls: network reads longer than a chunk, empty *)
(* reads, deadlines of zero or two ticks or none.  Waits: deadlines that   *)
(* are and are not multiples of the interval, one already passed, and the  *)
(* zero interval.  Suites: the tables are the instance; the slots are the  *)
(* ones their rows name.                                                   *)
(***************************************************************************)

MCHeaders == {"authorization", "x-amz-date"}

MCDeclarations == {<<"authorization">>, <<"authorization", "x-amz-date">>}

MCEmissions == BoundedSeq([name : MCHeaders, empty : BOOLEAN], 2)
=============================================================================
