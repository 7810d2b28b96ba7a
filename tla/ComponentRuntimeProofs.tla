----------------------- MODULE ComponentRuntimeProofs -----------------------
(***************************************************************************)
(* Proofs about the component runtime, for every number of threads and     *)
(* streams and every limit: guests are entered only clean and through      *)
(* their own face, and stream instances stay within the limit.             *)
(***************************************************************************)
EXTENDS ComponentRuntime, FiniteSetTheorems, TLAPS

(* One thread at a time is in a call, a call has the component, and the    *)
(* mutex is not poisoned while it is held.                                 *)
Exclusive ==
    /\ \A t \in Threads : pc[t] # "idle" => mutex = t /\ Admitted
    /\ mutex # NoThread => ~poisoned

(* A broken instance is known to be broken, and only a broken one is. *)
Flagged ==
    /\ stale \/ poisoned => instance = "broken"
    /\ instance = "broken" => stale \/ poisoned
    /\ \A t \in Threads : pc[t] \notin {"idle", "locked"} => instance = "clean"

(* What a package that got this far has been found to be. *)
Gated ==
    /\ load \in {"probe", "admitted", "dropped"} =>
          package.imports \subseteq Linked(package.world) /\ package.exports = package.world
    /\ load \in {"admitted", "dropped"} => package.honest

(* A guest that runs was asked for a function of its face. *)
Faced ==
    \A t \in Threads :
        /\ pc[t] \in {"running", "signing", "waiting"} => op[t] \in Face(package.world)
        /\ pc[t] = "signing" => package.imports \intersect SigningHosts # {} /\ package.declared

Taken == {s \in Streams : stream[s] # "none"}

(* A permit is held for as long as its stream is not gone, and the         *)
(* instance for less; a stream began with the component loaded.            *)
Permitted ==
    /\ active = Cardinality(Taken)
    /\ active <= MaxStreams
    /\ \A s \in Streams :
          /\ body[s] # "none" => stream[s] \in {"idle", "running"}
          /\ stream[s] # "none" => load \in {"admitted", "dropped"}
          /\ stream[s] = "running" => package.world = "provider"

IInv == TypeOK /\ Exclusive /\ Flagged /\ Gated /\ Faced /\ Permitted
-----------------------------------------------------------------------------
(* The deadline of a call is at least one tick. *)
LEMMA TicksArePositive == DeadlineTicks \in Nat \ {0}
<1> DEFINE ticks == (CallTimeout + EpochTick - 1) \div EpochTick
<1>1. CallTimeout + EpochTick - 1 \in Nat
  BY RuntimeAssumption
<1>2. ticks \in Nat
  BY <1>1, RuntimeAssumption
<1> HIDE DEF ticks
<1>3. DeadlineTicks = IF ticks = 0 THEN 1 ELSE ticks
  BY DEF DeadlineTicks, ticks
<1> QED  BY <1>2, <1>3

(* The streams that hold a permit are finitely many. *)
LEMMA TakenIsFinite ==
    /\ IsFiniteSet(Taken)
    /\ Cardinality(Taken) \in Nat
    /\ Cardinality(Streams) \in Nat
    /\ Cardinality(Taken) <= Cardinality(Streams)
<1>1. Taken \in SUBSET Streams /\ IsFiniteSet(Streams)
  BY RuntimeAssumption DEF Taken
<1>2. IsFiniteSet(Taken) /\ Cardinality(Taken) <= Cardinality(Streams)
  BY <1>1, FS_Subset, Zenon
<1>3. Cardinality(Taken) \in Nat /\ Cardinality(Streams) \in Nat
  BY <1>1, <1>2, FS_CardinalityType, Zenon
<1> QED  BY <1>2, <1>3

(* While one thread is in a call the others are idle. *)
LEMMA OthersIdle ==
    ASSUME Exclusive, NEW t \in Threads, pc[t] # "idle"
    PROVE  mutex = t /\ Admitted /\ ~poisoned /\ \A u \in Threads \ {t} : pc[u] = "idle"
  BY RuntimeAssumption DEF Exclusive

(* A package is loaded before anything calls it. *)
LEMMA InitInv ==
    ASSUME Init
    PROVE  IInv
<1> USE DEF Init, Loading, Untouched
<1>1. Taken = {}
  BY DEF Taken
<1>2. Cardinality(Taken) = 0
  BY <1>1, FS_EmptySet, Zenon
<1>3. 0 \in 0..DeadlineTicks /\ 0 \in 0..Cardinality(Streams) /\ 0 \in 0..MaxRepolls
  BY TicksArePositive, TakenIsFinite, RuntimeAssumption
<1>4. TypeOK
  <2>1. package \in Packages /\ calls \subseteq Operations /\ load = "gates" /\ held \in BOOLEAN
    OBVIOUS
  <2>2. streamLeft \in [Streams -> 0..DeadlineTicks] /\ left \in 0..DeadlineTicks /\ polls \in 0..MaxRepolls
    BY <1>3
  <2>3. active \in 0..Cardinality(Streams)
    BY <1>3
  <2> QED  BY <2>1, <2>2, <2>3, Zenon DEF TypeOK, Health
<1>5. Exclusive /\ Flagged /\ Gated /\ Faced
  BY DEF Exclusive, Flagged, Gated, Faced
<1>6. Permitted
  BY <1>2, RuntimeAssumption DEF Permitted
<1> QED  BY <1>4, <1>5, <1>6 DEF IInv

(* The gates: nothing calls a component that is being loaded. *)
LEMMA LoadKeeps ==
    ASSUME IInv, ScanImports \/ Instantiate \/ ProbeReturns \/ ProbeTraps
    PROVE  IInv'
<1> USE DEF IInv
<1>0. /\ load \in {"gates", "instantiate", "probe"} /\ LoadAside
      /\ left' \in {left, DeadlineTicks}
      /\ load' \in {"instantiate", "probe", "admitted", "refused", "unlinked"}
  BY DEF ScanImports, Instantiate, ProbeReturns, ProbeTraps, Goes
<1>1. \A t \in Threads : pc[t] = "idle"
  BY <1>0 DEF Exclusive, Admitted
<1>2. \A s \in Streams : stream[s] = "none"
  BY <1>0 DEF Permitted
<1>3. TypeOK'
  BY <1>0, TicksArePositive DEF TypeOK, LoadAside, given, streaming
<1>4. Exclusive' /\ Flagged' /\ Faced'
  BY <1>0, <1>1 DEF Exclusive, Flagged, Faced, LoadAside, given, streaming
<1>5. Gated'
  <2>1. CASE ScanImports
    BY <2>1 DEF ScanImports, Goes, Gated
  <2>2. CASE Instantiate
    BY <2>2 DEF Instantiate, Goes, Gated, LoadAside, given
  <2>3. CASE ProbeReturns
    BY <2>3 DEF ProbeReturns, Goes, Gated, LoadAside, given
  <2>4. CASE ProbeTraps
    BY <2>4 DEF ProbeTraps, Goes, Gated
  <2> QED  BY <2>1, <2>2, <2>3, <2>4
<1>6. Permitted'
  <2>1. UNCHANGED <<stream, body, active, package>>
    BY <1>0 DEF LoadAside, given, streaming
  <2>2. Taken' = Taken
    BY <2>1 DEF Taken
  <2> QED  BY <1>2, <2>1, <2>2 DEF Permitted
<1> QED  BY <1>3, <1>4, <1>5, <1>6
-----------------------------------------------------------------------------
(* A call leaves the load and the streams alone. *)
LEMMA AsideKeeps ==
    ASSUME IInv, Aside
    PROVE  Gated' /\ Permitted'
<1>1. UNCHANGED <<package, load, stream, body, active>>
  BY DEF Aside, given, streaming
<1>2. Gated'
  BY <1>1 DEF IInv, Gated
<1>3. Taken' = Taken
  BY <1>1 DEF Taken
<1> QED  BY <1>1, <1>2, <1>3 DEF IInv, Permitted

(* Taking the lock: the poison a panic left becomes staleness. *)
LEMMA LockKeeps ==
    ASSUME IInv, NEW t \in Threads, Lock(t)
    PROVE  IInv'
<1> USE DEF IInv
<1>0. Aside /\ Admitted /\ mutex = NoThread /\ mutex' = t /\ t # NoThread
      /\ UNCHANGED <<load, package, instance, left, polls>>
  BY RuntimeAssumption DEF Lock, Ask, Aside, given
<1>1. \A u \in Threads : pc[u] = "idle"
  BY <1>0, RuntimeAssumption DEF Exclusive
<1>2. PICK o \in calls : op' = [op EXCEPT ![t] = o]
  BY Zenon DEF Lock, Ask
<1>3. pc' = [pc EXCEPT ![t] = "locked"] /\ poisoned' = FALSE /\ stale' = (stale \/ poisoned)
  BY DEF Lock, Ask, Goto
<1>4. TypeOK'
  BY <1>0, <1>2, <1>3, Zenon DEF TypeOK, Aside, given, streaming
<1>5. Exclusive'
  BY <1>0, <1>1, <1>3 DEF Exclusive, TypeOK, Admitted
<1>6. Flagged'
  BY <1>0, <1>1, <1>3 DEF Flagged, TypeOK
<1>7. Faced'
  BY <1>0, <1>1, <1>3 DEF Faced, TypeOK
<1> QED  BY <1>0, <1>4, <1>5, <1>6, <1>7, AsideKeeps

(* A call that returns: every thread is idle after it. *)
LEMMA ReturnKeeps ==
    ASSUME IInv, NEW t \in Threads, pc[t] # "idle", Return(t), Aside,
           stale' \in BOOLEAN, poisoned' \in BOOLEAN, instance' \in Health,
           left' \in 0..DeadlineTicks, polls' \in 0..MaxRepolls,
           stale' \/ poisoned' <=> instance' = "broken"
    PROVE  IInv'
<1> USE DEF IInv
<1>1. \A u \in Threads \ {t} : pc[u] = "idle"
  BY OthersIdle
<1>2. pc' = [pc EXCEPT ![t] = "idle"] /\ mutex' = NoThread /\ op' = [op EXCEPT ![t] = "none"]
  BY DEF Return, Goto
<1>3. \A u \in Threads : pc'[u] = "idle"
  BY <1>1, <1>2 DEF TypeOK
<1>4. TypeOK'
  BY <1>2 DEF TypeOK, Aside, given, streaming
<1>5. Exclusive' /\ Flagged' /\ Faced'
  BY <1>2, <1>3 DEF Exclusive, Flagged, Faced
<1> QED  BY <1>4, <1>5, AsideKeeps

(* A call that goes on. *)
LEMMA GoesOn ==
    ASSUME IInv, NEW t \in Threads, pc[t] # "idle", Aside,
           NEW label \in {"ready", "running", "signing", "waiting"}, Goto(t, label),
           UNCHANGED <<op, mutex, poisoned>>,
           stale' = FALSE, instance' = "clean",
           left' \in 0..DeadlineTicks, polls' \in 0..MaxRepolls,
           label # "ready" => op[t] \in Face(package.world),
           label = "signing" => package.imports \intersect SigningHosts # {} /\ package.declared
    PROVE  IInv'
<1> USE DEF IInv
<1>1. mutex = t /\ Admitted /\ ~poisoned /\ \A u \in Threads \ {t} : pc[u] = "idle"
  BY OthersIdle
<1>2. pc' = [pc EXCEPT ![t] = label] /\ UNCHANGED <<load, package>>
  BY DEF Goto, Aside, given
<1>3. pc'[t] = label /\ \A u \in Threads \ {t} : pc'[u] = "idle"
  BY <1>1, <1>2 DEF TypeOK
<1>4. TypeOK'
  BY <1>2, Zenon DEF TypeOK, Aside, given, streaming, Health
<1>5. Exclusive'
  BY <1>1, <1>2, <1>3 DEF Exclusive, Admitted
<1>6. Flagged'
  BY <1>1, <1>2, <1>3 DEF Flagged
<1>7. Faced'
  BY <1>2, <1>3 DEF Faced
<1> QED  BY <1>4, <1>5, <1>6, <1>7, AsideKeeps

(* In a call the instance is flagged by staleness alone, and one that has  *)
(* been entered is clean.                                                  *)
LEMMA InCall ==
    ASSUME IInv, NEW t \in Threads, pc[t] # "idle"
    PROVE  /\ stale \in BOOLEAN /\ poisoned = FALSE /\ instance \in Health
           /\ left \in 0..DeadlineTicks /\ polls \in 0..MaxRepolls
           /\ stale <=> instance = "broken"
           /\ pc[t] # "locked" => instance = "clean" /\ stale = FALSE
<1>1. poisoned = FALSE
  BY OthersIdle DEF IInv, TypeOK
<1> QED  BY <1>1 DEF IInv, TypeOK, Flagged, Health

(* The steps of a call, on the host's side and on the guest's. *)
LEMMA CallKeeps ==
    ASSUME IInv, NEW t \in Threads,
           Progress(t) \/ GuestReturns(t) \/ GuestTraps(t) \/ Sign(t) \/ SignerEnds(t) \/ HostWait(t)
    PROVE  IInv'
<1>0. pc[t] # "idle"
  BY DEF Progress, Refresh, Operate, Poll, GuestReturns, GuestTraps, Sign, SignerEnds, SignerReturns,
         SignerPanics, HostWait
<1>1. /\ stale \in BOOLEAN /\ poisoned = FALSE /\ instance \in Health
      /\ left \in 0..DeadlineTicks /\ polls \in 0..MaxRepolls
      /\ stale <=> instance = "broken"
      /\ pc[t] # "locked" => instance = "clean" /\ stale = FALSE
  BY <1>0, InCall, Zenon
<1>2. DeadlineTicks \in 0..DeadlineTicks /\ MaxRepolls \in 0..MaxRepolls /\ 0 \in 0..MaxRepolls
  BY TicksArePositive, RuntimeAssumption
<1>3. pc[t] \in {"running", "signing", "waiting"} => op[t] \in Face(package.world)
  BY DEF IInv, Faced
<1>4. CASE Refresh(t)
  <2>0. Aside /\ UNCHANGED <<poisoned, left, polls>>
    BY <1>4 DEF Refresh
  <2>1. CASE Return(t) /\ UNCHANGED <<stale, instance>>
    BY <1>0, <1>1, <2>0, <2>1, ReturnKeeps, Zenon
  <2>2. CASE Goto(t, "ready") /\ UNCHANGED <<op, mutex>> /\ stale' = FALSE /\ instance' = "clean"
    BY <1>0, <1>1, <2>0, <2>2, GoesOn, Zenon
  <2>3. ~stale => stale = FALSE /\ instance = "clean"
    BY <1>1 DEF Health
  <2> QED  BY <1>4, <2>1, <2>2, <2>3, Zenon DEF Refresh
<1>5. CASE Operate(t)
  <2>0. Aside /\ UNCHANGED <<poisoned, instance, polls>> /\ left' = DeadlineTicks /\ pc[t] = "ready"
    BY <1>5 DEF Operate
  <2>1. CASE Return(t) /\ stale' = FALSE
    BY <1>0, <1>1, <1>2, <2>0, <2>1, ReturnKeeps, Zenon
  <2>2. CASE op[t] \in Face(package.world) /\ Goto(t, "running") /\ UNCHANGED <<op, mutex, stale>>
    BY <1>0, <1>1, <1>2, <2>0, <2>2, GoesOn, Zenon
  <2> QED  BY <1>5, <2>1, <2>2, Zenon DEF Operate
<1>6. CASE GuestReturns(t)
  BY <1>0, <1>1, <1>6, ReturnKeeps, Zenon DEF GuestReturns
<1>7. ASSUME Broken(t), polls' \in 0..MaxRepolls PROVE IInv'
  BY <1>0, <1>1, <1>7, ReturnKeeps, Zenon DEF Broken, Health
<1>8. CASE GuestTraps(t)
  BY <1>1, <1>7, <1>8 DEF GuestTraps
<1>9. CASE Sign(t)
  <2>1. /\ pc[t] = "running" /\ Aside /\ Goto(t, "signing") /\ UNCHANGED <<op, mutex, poisoned, stale, instance, left, polls>>
        /\ package.imports \intersect SigningHosts # {} /\ package.declared
    BY <1>9 DEF Sign, Stay
  <2> QED  BY <1>0, <1>1, <1>3, <2>1, GoesOn, Zenon
<1>10. CASE SignerReturns(t)
  <2>1. /\ pc[t] = "signing" /\ Aside /\ Goto(t, "running") /\ UNCHANGED <<op, mutex, poisoned, stale, instance, left, polls>>
    BY <1>10 DEF SignerReturns, Stay
  <2> QED  BY <1>0, <1>1, <1>3, <2>1, GoesOn, Zenon
<1>11. CASE SignerPanics(t)
  BY <1>0, <1>1, <1>11, ReturnKeeps DEF SignerPanics, Health
<1>12. CASE HostWait(t)
  <2>1. /\ pc[t] = "running" /\ Aside /\ Goto(t, "waiting") /\ UNCHANGED <<op, mutex, poisoned, stale, instance, left>>
        /\ polls' = MaxRepolls
    BY <1>12 DEF HostWait, Stay
  <2> QED  BY <1>0, <1>1, <1>2, <1>3, <2>1, GoesOn, Zenon
<1>13. CASE Poll(t)
  <2>0. pc[t] = "waiting"
    BY <1>13 DEF Poll
  <2>1. CASE Ready(t)
    <3>1. Aside /\ Goto(t, "running") /\ UNCHANGED <<op, mutex, poisoned, stale, instance, left>> /\ polls' = 0
      BY <2>1 DEF Ready, Stay
    <3> QED  BY <1>0, <1>1, <1>2, <1>3, <2>0, <3>1, GoesOn, Zenon
  <2>2. CASE polls > 1 /\ polls' = polls - 1 /\ UNCHANGED pc /\ Stay
    <3>1. polls' \in 0..MaxRepolls
      BY <1>1, <2>2, RuntimeAssumption
    <3>2. Aside /\ UNCHANGED <<op, mutex, poisoned, stale, instance, left>>
      BY <2>2 DEF Stay
    <3>3. Goto(t, "waiting")
      BY <2>0, <2>2 DEF Goto, IInv, TypeOK
    <3> QED  BY <1>0, <1>1, <1>3, <2>0, <3>1, <3>2, <3>3, GoesOn, Zenon
  <2>3. CASE Stalled(t)
    BY <1>2, <1>7, <2>3 DEF Stalled
  <2> QED  BY <1>13, <2>1, <2>2, <2>3 DEF Poll
<1> QED  BY <1>4, <1>5, <1>6, <1>8, <1>9, <1>10, <1>11, <1>12, <1>13 DEF Progress, SignerEnds
-----------------------------------------------------------------------------
(* A stream leaves the calls alone. *)
LEMMA StreamAside ==
    ASSUME IInv, UNCHANGED <<given, load, main, held>>
    PROVE  Exclusive' /\ Flagged' /\ Gated' /\ Faced'
<1>1. UNCHANGED <<package, load, pc, op, mutex, poisoned, stale, instance>>
  BY DEF given, main
<1> QED  BY <1>1 DEF IInv, Exclusive, Flagged, Gated, Faced, Admitted

(* A stream whose label stays on the same side of "none" keeps its permit. *)
LEMMA SameTaken ==
    ASSUME TypeOK, NEW s \in Streams, NEW label, Move(s, label), stream[s] # "none", label # "none"
    PROVE  Taken' = Taken
  BY DEF TypeOK, Move, Taken

(* Giving a permit back. *)
LEMMA Released ==
    ASSUME TypeOK, NEW s \in Streams, Move(s, "none"), stream[s] # "none"
    PROVE  Cardinality(Taken') = Cardinality(Taken) - 1
<1>1. Taken' = Taken \ {s} /\ s \in Taken
  BY DEF TypeOK, Move, Taken
<1> QED  BY <1>1, TakenIsFinite, FS_RemoveElement, Zenon

(* The count of permits stays within its type. *)
LEMMA CountedType ==
    ASSUME active' = Cardinality(Taken')
    PROVE  active' \in 0..Cardinality(Streams)
<1>1. Taken' \in SUBSET Streams /\ IsFiniteSet(Streams)
  BY RuntimeAssumption DEF Taken
<1>2. IsFiniteSet(Taken') /\ Cardinality(Taken') <= Cardinality(Streams)
  BY <1>1, FS_Subset, Zenon
<1>3. Cardinality(Taken') \in Nat /\ Cardinality(Streams) \in Nat
  BY <1>1, <1>2, FS_CardinalityType, Zenon
<1> QED  BY <1>2, <1>3

(* Opening, using and dropping a stream. *)
LEMMA StreamKeeps ==
    ASSUME IInv, NEW s \in Streams,
           Acquire(s) \/ Open(s) \/ ParseChunk(s) \/ ChunkReturns(s) \/ ChunkTraps(s) \/ DropStream(s)
    PROVE  IInv'
<1>0. UNCHANGED <<given, load, main, held>>
  BY DEF Acquire, Open, ParseChunk, ChunkReturns, ChunkTraps, DropStream
<1>1. Exclusive' /\ Flagged' /\ Gated' /\ Faced'
  BY <1>0, StreamAside
<1>2. active \in Nat /\ active = Cardinality(Taken) /\ active <= MaxStreams /\ MaxStreams \in Nat
  BY TakenIsFinite, RuntimeAssumption DEF IInv, Permitted
<1>3. UNCHANGED <<package, calls, load, pc, op, mutex, poisoned, stale, instance, left, polls, held>>
  BY <1>0 DEF given, main
<1>4. ASSUME NEW label \in {"none", "permit", "idle", "running", "dropping"}, Move(s, label),
             NEW health \in Health \union {"none"}, body' = [body EXCEPT ![s] = health],
             streamLeft' \in [Streams -> 0..DeadlineTicks],
             active' = Cardinality(Taken'), active' <= MaxStreams,
             health # "none" => label \in {"idle", "running"},
             label # "none" => load \in {"admitted", "dropped"},
             label = "running" => package.world = "provider"
      PROVE  IInv'
  <2>1. TypeOK'
    <3>1. active' \in 0..Cardinality(Streams)
      BY <1>4, CountedType
    <3>2. active' \in 0..Cardinality(Streams)'
      BY <3>1
    <3> QED  BY <1>3, <1>4, <3>2 DEF IInv, TypeOK, Move
  <2>2. \A r \in Streams : stream'[r] = (IF r = s THEN label ELSE stream[r]) /\ body'[r] = (IF r = s THEN health ELSE body[r])
    BY <1>4 DEF IInv, TypeOK, Move
  <2>3. Permitted'
    BY <1>3, <1>4, <2>2 DEF IInv, Permitted
  <2> QED  BY <1>1, <2>1, <2>3 DEF IInv
<1>5. body[s] \in Health \union {"none"} /\ streamLeft \in [Streams -> 0..DeadlineTicks]
      /\ body = [body EXCEPT ![s] = body[s]]
  BY DEF IInv, TypeOK
<1>6. stream[s] # "none" => load \in {"admitted", "dropped"}
  BY DEF IInv, Permitted
<1>7. body[s] # "none" => stream[s] \in {"idle", "running"}
  BY DEF IInv, Permitted
<1>8. CASE Acquire(s)
  <2>1. /\ stream[s] = "none" /\ Move(s, "permit") /\ active' = active + 1 /\ active < MaxStreams
        /\ UNCHANGED <<body, streamLeft>> /\ load = "admitted"
    BY <1>8 DEF Acquire, Admitted
  <2>2. Taken' = Taken \union {s} /\ s \notin Taken
    BY <2>1 DEF IInv, TypeOK, Move, Taken
  <2>3. Cardinality(Taken') = Cardinality(Taken) + 1
    BY <2>2, TakenIsFinite, FS_AddElement, Zenon
  <2>4. active' <= MaxStreams
    BY <1>2, <2>1
  <2> QED  BY <1>2, <1>4, <1>5, <1>7, <2>1, <2>3, <2>4
<1>9. ASSUME Move(s, "none"), stream[s] # "none", active' = active - 1, UNCHANGED <<body, streamLeft>>,
             body[s] = "none"
      PROVE  IInv'
  <2>1. active' = Cardinality(Taken')
    BY <1>2, <1>9, Released DEF IInv
  <2>2. active' <= MaxStreams
    BY <1>2, <1>9
  <2> QED  BY <1>4, <1>5, <1>9, <2>1, <2>2
<1>10. CASE Open(s)
  <2>1. stream[s] = "permit" /\ UNCHANGED streamLeft /\ body[s] = "none"
    BY <1>7, <1>10 DEF Open
  <2>2. CASE Move(s, "idle") /\ body' = [body EXCEPT ![s] = "clean"] /\ UNCHANGED active
    <3>1. Taken' = Taken
      BY <2>1, <2>2, SameTaken DEF IInv
    <3> QED  BY <1>2, <1>4, <1>5, <1>6, <2>1, <2>2, <3>1 DEF Health
  <2>3. CASE Move(s, "none") /\ active' = active - 1 /\ UNCHANGED body
    BY <1>9, <2>1, <2>3
  <2> QED  BY <1>10, <2>2, <2>3 DEF Open
<1>11. CASE ParseChunk(s)
  <2>1. /\ stream[s] = "idle" /\ Move(s, "running") /\ UNCHANGED <<body, active>> /\ package.world = "provider"
        /\ streamLeft' = [streamLeft EXCEPT ![s] = DeadlineTicks]
    BY <1>11 DEF ParseChunk
  <2>2. streamLeft' \in [Streams -> 0..DeadlineTicks]
    BY <1>5, <2>1, TicksArePositive
  <2>3. Taken' = Taken
    BY <2>1, SameTaken DEF IInv
  <2> QED  BY <1>2, <1>4, <1>5, <1>6, <2>1, <2>2, <2>3
<1>12. CASE ChunkReturns(s)
  <2>1. stream[s] = "running" /\ Move(s, "idle") /\ UNCHANGED <<body, active, streamLeft>>
    BY <1>12 DEF ChunkReturns
  <2>2. Taken' = Taken
    BY <2>1, SameTaken DEF IInv
  <2> QED  BY <1>2, <1>4, <1>5, <1>6, <2>1, <2>2
<1>13. CASE ChunkTraps(s)
  <2>1. stream[s] = "running" /\ Move(s, "idle") /\ body' = [body EXCEPT ![s] = "broken"] /\ UNCHANGED <<active, streamLeft>>
    BY <1>13 DEF ChunkTraps
  <2>2. Taken' = Taken
    BY <2>1, SameTaken DEF IInv
  <2> QED  BY <1>2, <1>4, <1>5, <1>6, <2>1, <2>2 DEF Health
<1>14. CASE DropStream(s)
  <2>1. UNCHANGED streamLeft
    BY <1>14 DEF DropStream
  <2>2. CASE stream[s] = "idle" /\ Move(s, "dropping") /\ body' = [body EXCEPT ![s] = "none"] /\ UNCHANGED active
    <3>1. Taken' = Taken
      BY <2>2, SameTaken DEF IInv
    <3> QED  BY <1>2, <1>4, <1>5, <1>6, <2>1, <2>2, <3>1, Zenon
  <2>3. CASE stream[s] = "dropping" /\ Move(s, "none") /\ active' = active - 1 /\ UNCHANGED body
    BY <1>7, <1>9, <2>1, <2>3
  <2> QED  BY <1>14, <2>2, <2>3 DEF DropStream
<1> QED  BY <1>8, <1>10, <1>11, <1>12, <1>13, <1>14
-----------------------------------------------------------------------------
(* The host's handles and the ticker. *)
LEMMA OthersKeep ==
    ASSUME IInv, HostDrops \/ Tick
    PROVE  IInv'
<1> USE DEF IInv
<1>1. CASE HostDrops
  <2>0. /\ UNCHANGED <<package, calls, pc, op, mutex, poisoned, stale, instance, left, polls, stream, body, streamLeft, active>>
        /\ load' = load \/ (load = "admitted" /\ load' = "dropped" /\ \A t \in Threads : pc[t] = "idle")
        /\ held' \in BOOLEAN
    BY <1>1, Zenon DEF HostDrops, given, main, streaming, Admitted, Goes, TypeOK
  <2>1. TypeOK'
    BY <2>0 DEF TypeOK
  <2>2. Exclusive' /\ Flagged' /\ Gated' /\ Faced'
    BY <2>0 DEF Exclusive, Flagged, Gated, Faced, Admitted
  <2>3. Taken' = Taken
    BY <2>0 DEF Taken
  <2>4. Permitted'
    BY <2>0, <2>3 DEF Permitted
  <2> QED  BY <2>1, <2>2, <2>4
<1>2. CASE Tick
  <2>0. /\ UNCHANGED <<package, calls, load, pc, op, mutex, poisoned, stale, instance, polls, stream, body, active, held>>
        /\ left' = Less(left) /\ streamLeft' = [s \in Streams |-> Less(streamLeft[s])]
    BY <1>2 DEF Tick, given
  <2>1. \A n \in 0..DeadlineTicks : Less(n) \in 0..DeadlineTicks
    BY TicksArePositive DEF Less
  <2>2. TypeOK'
    <3>1. left' \in 0..DeadlineTicks
      BY <2>0, <2>1 DEF TypeOK
    <3>2. streamLeft' \in [Streams -> 0..DeadlineTicks]
      BY <2>0, <2>1 DEF TypeOK
    <3> QED  BY <2>0, <3>1, <3>2 DEF TypeOK
  <2>3. Exclusive' /\ Flagged' /\ Gated' /\ Faced'
    BY <2>0 DEF Exclusive, Flagged, Gated, Faced, Admitted
  <2>4. Taken' = Taken
    BY <2>0 DEF Taken
  <2>5. Permitted'
    BY <2>0, <2>4 DEF Permitted
  <2> QED  BY <2>2, <2>3, <2>5
<1> QED  BY <1>1, <1>2

(* A step that changes nothing. *)
LEMMA Stutter ==
    ASSUME IInv, UNCHANGED vars
    PROVE  IInv'
<1>1. UNCHANGED <<package, calls, load, pc, op, mutex, poisoned, stale, instance, left, polls, stream, body, streamLeft, active, held>>
  BY DEF vars, given, main, streaming
<1>2. Taken' = Taken
  BY <1>1 DEF Taken
<1> QED  BY <1>1, <1>2 DEF IInv, TypeOK, Exclusive, Flagged, Gated, Faced, Permitted, Admitted

(* Every step of the runtime keeps the invariant. *)
THEOREM Invariance == Spec => []IInv
<1>1. Init => IInv
  BY InitInv
<1>2. IInv /\ [Next]_vars => IInv'
  <2> SUFFICES ASSUME IInv, [Next]_vars PROVE IInv'
    OBVIOUS
  <2>1. CASE UNCHANGED vars
    BY <2>1, Stutter
  <2>2. CASE \E t \in Threads : \/ Lock(t) \/ Progress(t) \/ GuestReturns(t) \/ GuestTraps(t)
                                \/ Sign(t) \/ SignerEnds(t) \/ HostWait(t)
    BY <2>2, LockKeeps, CallKeeps
  <2>3. CASE \E s \in Streams : \/ Acquire(s) \/ Open(s) \/ ParseChunk(s)
                                \/ ChunkReturns(s) \/ ChunkTraps(s) \/ DropStream(s)
    BY <2>3, StreamKeeps
  <2> QED  BY <2>1, <2>2, <2>3, LoadKeeps, OthersKeep DEF Next
<1> QED  BY <1>1, <1>2, PTL DEF Spec

(* No guest call is made on an instance a trap, a deadline or a panic      *)
(* broke, and none but through the gates and the guest's own face          *)
(* (component.rs:310-336, 1064-1088; loader.rs:236-268).                   *)
THEOREM EnteredSafely == Spec => []GuestsEntered
<1>1. IInv => EnteredClean
  BY DEF IInv, Exclusive, Flagged, EnteredClean
<1>2. IInv => OwnFaceOnly
  <2> SUFFICES ASSUME IInv PROVE OwnFaceOnly
    OBVIOUS
  <2>1. package.world \in Worlds
    BY DEF IInv, TypeOK, Packages
  <2>2. ASSUME Admitted
        PROVE  /\ package.honest /\ package.exports = package.world
               /\ package.imports \subseteq Linked(package.world)
    BY <2>2 DEF Admitted, IInv, Gated
  <2>3. Admitted => package.imports \intersect (FORBIDDEN_IMPORTS \union {"other:package/host"}) = {}
    BY <2>2 DEF Linked, FORBIDDEN_IMPORTS
  <2>4. ASSUME NEW t \in Threads
        PROVE  /\ pc[t] \in {"running", "signing", "waiting"} => op[t] \in Face(package.exports)
               /\ pc[t] = "signing" => HostImport(package.world) = "Linked" /\ package.declared
    <3>1. pc[t] # "idle" => Admitted
      BY DEF IInv, Exclusive
    <3>2. pc[t] \in {"running", "signing", "waiting"} => op[t] \in Face(package.exports)
      BY <2>2, <3>1 DEF IInv, Faced
    <3>3. ASSUME pc[t] = "signing" PROVE HostImport(package.world) = "Linked" /\ package.declared
      <4>1. package.imports \intersect SigningHosts # {} /\ package.declared
        BY <3>3 DEF IInv, Faced
      <4>2. package.imports \subseteq Linked(package.world)
        BY <2>2, <3>1, <3>3
      <4>3. HostImport(package.world) # "Linked" => Linked(package.world) = {"wasi:cli"}
        BY DEF Linked
      <4> QED  BY <4>1, <4>2, <4>3 DEF SigningHosts
    <3> QED  BY <3>2, <3>3
  <2>5. ASSUME NEW s \in Streams, stream[s] = "running" PROVE package.exports = "provider"
    BY <2>5 DEF IInv, Permitted, Gated
  <2> QED  BY <2>2, <2>3, <2>4, <2>5 DEF OwnFaceOnly
<1> QED  BY <1>1, <1>2, Invariance, PTL DEF GuestsEntered

(* Live stream instances never exceed the limit and no permit leaks,       *)
(* whatever opens, fails to open and closes at the same time               *)
(* (component.rs:1030, runtime.rs:57, 128-137).                            *)
THEOREM StreamLimit == Spec => []StreamsBounded
<1>1. IInv => StreamsBounded
  <2> SUFFICES ASSUME IInv PROVE StreamsBounded
    OBVIOUS
  <2> DEFINE live == {s \in Streams : body[s] # "none"}
  <2>1. live \in SUBSET Taken
    BY DEF IInv, Permitted, Taken
  <2>2. Cardinality(live) <= Cardinality(Taken) /\ IsFiniteSet(live)
    BY <2>1, TakenIsFinite, FS_Subset, Zenon
  <2>3. Cardinality(live) \in Nat
    BY <2>2, FS_CardinalityType, Zenon
  <2>4. active = Cardinality(Taken) /\ Cardinality(Taken) <= MaxStreams /\ Cardinality(Taken) \in Nat /\ MaxStreams \in Nat
    BY TakenIsFinite, RuntimeAssumption DEF IInv, Permitted
  <2>5. Cardinality(live) <= MaxStreams
    BY <2>2, <2>3, <2>4
  <2> QED  BY <2>4, <2>5 DEF StreamsBounded, Taken
<1> QED  BY <1>1, Invariance, PTL
=============================================================================
