------------------------- MODULE MCProviderRuntime --------------------------
(***************************************************************************)
(* crates/south-provider-runtime: a set of packages is loaded from a       *)
(* directory (PackageSet), and a loaded component is called                *)
(* (ComponentRuntime).  They share no state: `stage` says which one a      *)
(* behaviour is about.                                                     *)
(***************************************************************************)
EXTENDS ComponentRuntime, Sequences

CONSTANTS Directories, PackageWorlds, Families, Digests, Declarations, PackageFaults, NoPin

VARIABLES
    stage,         \* "set" or "component"
    packages, pins, next, passed, withheld, report, phase

Set == INSTANCE PackageSet WITH Worlds <- PackageWorlds, Faults <- PackageFaults, loaded <- passed

ASSUME SetAssumption == Set!PackageAssumption

setVars == <<packages, pins, next, passed, withheld, report, phase>>
runtimeVars == <<stage, vars, setVars>>

OfSet(step) == stage = "set" /\ step /\ UNCHANGED <<stage, vars>>
OfComponent(step) == stage = "component" /\ step /\ UNCHANGED <<stage, setVars>>
-----------------------------------------------------------------------------
(* A package set is judged by its sound packages alone, and every          *)
(* directory is reported once (package_set.rs:5-16, 123-192).              *)
SetLoads == Set!SetLoads
-----------------------------------------------------------------------------
(***************************************************************************)
(* ProviderRuntime for TLC.  A component is a sound provider package under *)
(* full load, two calling threads and two streams for one permit, asking   *)
(* for a function it has and for one it has not; or one thread that asks   *)
(* one function of a package of any two worlds, any import and any         *)
(* identity.  The call timeout is not a multiple of the tick.  A package   *)
(* set has three directories; a manifest names one family, both, or one    *)
(* twice.                                                                  *)
(***************************************************************************)

MCDeclarations == {<<"a">>, <<"a", "b">>, <<"a", "a">>}
MCFaults == {{}, {"OutsideRange", "Probe"}}

Sample == [world |-> "provider", exports |-> "provider", honest |-> TRUE, declared |-> TRUE,
           imports |-> {"wasi:cli", "token-station:adapter/host"}]

Busy == package = Sample /\ calls = {"build_http_request", "parse_observation"}

(* With no call to make, only the load is explored. *)
Varied ==
    \/ /\ calls = {}
       /\ \E world, exports \in Worlds, import \in Imports, honest \in BOOLEAN :
            package = [world |-> world, exports |-> exports, honest |-> honest, declared |-> FALSE,
                       imports |-> {"wasi:cli", import}]
    \/ \E world \in Worlds, o \in Operations :
          /\ calls = {o}
          /\ package = [world |-> world, exports |-> world, honest |-> TRUE, declared |-> world = "task",
                        imports |-> Linked(world)]

Empty == [world |-> "provider", providers |-> <<"a">>, digest |-> "d1", faults |-> {}]

(* A behaviour of a set has no component that could step.  The first       *)
(* directory's package is of the provider world and has the first digest:  *)
(* worlds and digests are alike.                                           *)
MCInit ==
    \/ /\ stage = "component" /\ (Busy \/ Varied)
       /\ packages = [d \in 1..Directories |-> Empty] /\ pins = [f \in Families |-> NoPin]
       /\ Set!Init /\ Loading
    \/ /\ stage = "set" /\ package = Sample /\ calls = {}
       /\ Set!Init
       /\ packages[1].world = "provider" /\ packages[1].digest = "d1" /\ pins["b"] # "d2"
       /\ load = "refused" /\ held = FALSE /\ Untouched

(* Outside the busy case one thread calls and one stream opens. *)
FirstThread == CHOOSE t \in Threads : TRUE
FirstStream == CHOOSE s \in Streams : TRUE
MCComponent ==
    /\ Next
    /\ \A t \in Threads : pc'[t] # "idle" => Cardinality(calls) = 2 \/ (t = FirstThread /\ calls # {})
    /\ \A s \in Streams : stream'[s] # "none" => Cardinality(calls) = 2 \/ (s = FirstStream /\ calls # {})

MCNext == OfComponent(MCComponent) \/ OfSet(Set!Next)

MCSpec == MCInit /\ [][MCNext]_runtimeVars /\ Fairness
=============================================================================
