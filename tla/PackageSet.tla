------------------------------ MODULE PackageSet ------------------------------
(***************************************************************************)
(* load_package_set of crates/south-provider-runtime/src/package_set.rs    *)
(* and the load gates of loader.rs and component.rs: the directories in    *)
(* their order, each judged on its own, then the families more than one    *)
(* package claims. A package is what its files hold.                       *)
(***************************************************************************)
EXTENDS Naturals, Sequences, FiniteSets, SequencesExt

CONSTANTS Directories,    \* how many package directories the root has
          Worlds, Families, Digests,
          Declarations,   \* manifests' providers: non-empty sequences of families
          Faults,         \* the sets of gates a package may fail
          NoPin

(* The gates in the order load_one meets them. *)
Gates == <<"UnreadableManifest", "ManifestSyntax", "Manifest", "OutsideRange", "UnreadableComponent",
           "NotAComponent", "ForbiddenImport", "Probe", "IdentityMismatch">>

PackageAssumption ==
    /\ Directories \in Nat /\ NoPin \notin Digests
    /\ \A faults \in Faults : faults \subseteq ToSet(Gates)
    /\ \A providers \in Declarations : providers # <<>> /\ ToSet(providers) \subseteq Families

Packages == [world : Worlds, providers : Declarations, digest : Digests, faults : Faults]

VARIABLES packages,   \* by directory, in sorted order
          pins,       \* the operator's pins: family to digest
          next,       \* the directory to load next
          loaded,     \* the directories that passed every gate, in order
          withheld,   \* for each directory the families it may not serve
          report,     \* PackageSetReportV1
          phase

vars == <<packages, pins, next, loaded, withheld, report, phase>>

Init ==
    /\ packages \in [1..Directories -> Packages]
    /\ pins \in [Families -> Digests \union {NoPin}]
    /\ next = 1 /\ loaded = <<>>
    /\ withheld = [d \in 1..Directories |-> {}]
    /\ report = [admitted |-> <<>>, refused |-> <<>>, contested |-> {}]
    /\ phase = "load"
-----------------------------------------------------------------------------
(* load_one: the first gate a package fails is the one it is refused for. *)
LoadError(package) == SelectSeq(Gates, LAMBDA gate : gate \in package.faults)

Refuse(d, reason) == [directory |-> d, reason |-> reason]

\* Mutant: a package that fails a gate ends the whole load.
LoadAborts ==
    /\ phase = "load" /\ next <= Directories
    /\ LET failed == LoadError(packages[next])
       IN  IF failed = <<>> THEN loaded' = Append(loaded, next) /\ UNCHANGED report /\ next' = next + 1
           ELSE /\ report' = [report EXCEPT !.refused = Append(@, Refuse(next, failed[1]))]
                /\ next' = Directories + 1 /\ UNCHANGED loaded
    /\ UNCHANGED <<packages, pins, withheld, phase>>

Load ==
    /\ phase = "load" /\ next <= Directories
    /\ next' = next + 1
    /\ LET failed == LoadError(packages[next])
       IN  IF failed = <<>> THEN loaded' = Append(loaded, next) /\ UNCHANGED report
           ELSE report' = [report EXCEPT !.refused = Append(@, Refuse(next, failed[1]))] /\ UNCHANGED loaded
    /\ UNCHANGED <<packages, pins, withheld, phase>>

(* The claims of one world and family: a package claims a family once for  *)
(* each time its manifest names it.                                        *)
Claimants(world, family) ==
    FlattenSeq([i \in DOMAIN loaded |->
        IF packages[loaded[i]].world # world THEN <<>>
        ELSE [k \in DOMAIN SelectSeq(packages[loaded[i]].providers, LAMBDA f : f = family) |-> loaded[i]]])

Contested(world, family) == Len(Claimants(world, family)) > 1

Matching(world, family) == SelectSeq(Claimants(world, family), LAMBDA d : packages[d].digest = pins[family])

\* Mutant: the first claimant with the pinned digest is taken.
PinnedFirst(world, family) ==
    IF Matching(world, family) = <<>> THEN {} ELSE {Matching(world, family)[1]}

(* A pin selects a claimant when exactly one claim has its digest. *)
Pinned(world, family) ==
    IF Len(Matching(world, family)) = 1 THEN {Matching(world, family)[1]} ELSE {}

Withheld(d) ==
    {f \in Families : \E w \in Worlds : Contested(w, f) /\ d \in ToSet(Claimants(w, f)) \ Pinned(w, f)}

Contest ==
    /\ phase = "load" /\ next > Directories
    /\ phase' = "report"
    /\ withheld' = [d \in 1..Directories |-> Withheld(d)]
    /\ report' = [report EXCEPT !.contested =
            {[world |-> c[1], family |-> c[2], packages |-> Claimants(c[1], c[2]), pinned |-> Pinned(c[1], c[2])] :
                c \in {wf \in Worlds \X Families : Contested(wf[1], wf[2])}}]
    /\ UNCHANGED <<packages, pins, next, loaded>>

(* The families a package may still serve, in its own order *)
Served(d) == SelectSeq(packages[d].providers, LAMBDA f : f \notin withheld[d])

Sorted(refused) == SortSeq(refused, LAMBDA a, b : a.directory < b.directory)

Report ==
    /\ phase = "report"
    /\ phase' = "done"
    /\ LET serving == SelectSeq(loaded, LAMBDA d : Served(d) # <<>>)
           idle == SelectSeq(loaded, LAMBDA d : Served(d) = <<>>)
       IN  report' = [report EXCEPT
               !.admitted = [i \in DOMAIN serving |-> [directory |-> serving[i], families |-> Served(serving[i])]],
               !.refused = Sorted(@ \o [i \in DOMAIN idle |-> Refuse(idle[i], "EveryFamilyContested")])]
    /\ UNCHANGED <<packages, pins, next, loaded, withheld>>

Done == phase = "done" /\ UNCHANGED vars

Next == Load \/ Contest \/ Report \/ Done

Spec == Init /\ [][Next]_vars
-----------------------------------------------------------------------------
Increasing(directories) == \A i, j \in DOMAIN directories : i < j => directories[i] < directories[j]

TypeOK ==
    /\ Increasing(loaded) /\ ToSet(loaded) \subseteq 1..Directories
    /\ next \in 1..(Directories + 1) /\ phase \in {"load", "report", "done"}
    /\ \A d \in 1..Directories : withheld[d] \subseteq ToSet(packages[d].providers)

Sound(d) == packages[d].faults = {}
Rivals(d, f) ==
    {e \in 1..Directories \ {d} : Sound(e) /\ packages[e].world = packages[d].world /\ f \in ToSet(packages[e].providers)}
NamesOnce(d) == IsInjective(packages[d].providers)

(* What a package serves depends on no order and on no refused package: a  *)
(* family it declares is served when no other sound package of its world   *)
(* declares it, or when the family's pin is the digest of this package and *)
(* of none of the others (package_set.rs:9-16, 137-166).                   *)
ServedByRule ==
    phase = "done" => \A d \in 1..Directories : Sound(d) /\ NamesOnce(d) =>
        UNION {ToSet(a.families) : a \in {b \in ToSet(report.admitted) : b.directory = d}}
            = {f \in ToSet(packages[d].providers) :
                  \/ Rivals(d, f) = {}
                  \/ pins[f] = packages[d].digest /\ \A e \in Rivals(d, f) : packages[e].digest # pins[f]}

(* The load never fails as a whole: every directory is in the report, once *)
(* and in the order of the directories, and a package that failed a gate   *)
(* is refused for the earliest one (package_set.rs:5-7, 123-134, 168-191). *)
ReportComplete ==
    phase = "done" =>
        LET admitted == [i \in DOMAIN report.admitted |-> report.admitted[i].directory]
            refused == [i \in DOMAIN report.refused |-> report.refused[i].directory]
        IN  /\ Increasing(admitted) /\ Increasing(refused)
            /\ ToSet(admitted) \intersect ToSet(refused) = {}
            /\ ToSet(admitted) \union ToSet(refused) = 1..Directories
            /\ \A i \in DOMAIN report.refused :
                   LET package == packages[report.refused[i].directory]
                   IN  package.faults # {} => \A k \in DOMAIN Gates : Gates[k] = report.refused[i].reason =>
                           Gates[k] \in package.faults /\ \A j \in 1..(k - 1) : Gates[j] \notin package.faults

(* The set is loaded package by package: who serves what follows the rule, *)
(* and the report leaves nobody out (package_set.rs:5-16, 123-192).        *)
SetLoads == ServedByRule /\ ReportComplete
=============================================================================
