-------------------------- MODULE ComponentRuntime --------------------------
(***************************************************************************)
(* The component runtime of crates/south-provider-runtime/src.             *)
(*                                                                         *)
(* First the component worlds: the functions each world's face has         *)
(* (component.rs), what a world offers a guest, and which imports the load *)
(* gates refuse (loader.rs).                                               *)
(***************************************************************************)
EXTENDS Integers, FiniteSets

Worlds == {"provider", "task", "task_v2", "embeddings", "image", "speech"}

ProviderFace == {"model_capabilities", "build_http_request", "parse_response", "map_provider_error"}

TaskFace == {"build_submit_request", "parse_submit_response", "build_observe_request", "parse_observation",
             "build_artifact_request", "render_success", "map_terminal_failure"}

TaskV2Face == {"build_submit_request_v2", "parse_submit_response_v2", "build_observe_request_v2",
               "parse_observation_v2", "build_artifact_request_v2", "render_success_v2", "map_terminal_failure_v2"}

EmbeddingsFace == {"build_embeddings_request", "parse_embeddings_response", "map_embeddings_provider_error"}

ImageFace == {"image_model_capabilities", "image_prepare", "image_parse_response", "image_render"}

SpeechFace == {"speech_model_capabilities", "speech_prepare", "speech_parse_response"}

(* InstanceKind: the accessors answer a mismatch for any other world. *)
Face(world) ==
    CASE world = "provider"   -> ProviderFace
      [] world = "task"       -> TaskFace
      [] world = "task_v2"    -> TaskV2Face
      [] world = "embeddings" -> EmbeddingsFace
      [] world = "image"      -> ImageFace
      [] world = "speech"     -> SpeechFace

Operations == UNION {Face(world) : world \in Worlds}
-----------------------------------------------------------------------------
(* Imports by what the scan tells apart: plain WASI, the network, the two  *)
(* host interfaces of the signing worlds, another South interface and a    *)
(* host interface of somebody else's package.                              *)
Imports == {"wasi:cli", "wasi:http", "wasi:sockets", "token-station:adapter/host",
            "token-station:task-adapter/host", "token-station:other", "other:package/host"}

FORBIDDEN_IMPORTS == {"wasi:sockets", "wasi:http"}

SigningHosts == {"token-station:adapter/host", "token-station:task-adapter/host"}

IsHostInterface(name) == name \in SigningHosts \union {"other:package/host"}

(* WorldSchemaV1::host_import *)
HostImport(world) ==
    CASE world \in {"provider", "task"} -> "Linked"
      [] world = "task_v2"              -> "Unlinked"
      [] OTHER                          -> "Pure"

HostRefused(world, name) ==
    CASE HostImport(world) = "Linked"   -> FALSE
      [] HostImport(world) = "Unlinked" -> name \in SigningHosts
      [] HostImport(world) = "Pure"     -> name \in SigningHosts \union {"token-station:other"} \/ IsHostInterface(name)

(* gate_component: the imports the scan refuses a package of the world for *)
Forbidden(world, imports) == {name \in imports : HostRefused(world, name) \/ name \in FORBIDDEN_IMPORTS}

(* The imports admit's linker can satisfy: WASI, and wit_host, which is    *)
(* the provider world's host interface, for the worlds that link a host.   *)
Linked(world) ==
    {"wasi:cli"} \union IF HostImport(world) = "Linked" THEN {"token-station:adapter/host"} ELSE {}

(* The interface a world's own WIT imports as host *)
OwnHost(world) ==
    CASE world = "provider" -> {"token-station:adapter/host"}
      [] world = "task"     -> {"token-station:task-adapter/host"}
      [] OTHER              -> {}
-----------------------------------------------------------------------------
(***************************************************************************)
(* One component of crates/south-provider-runtime/src: the gates it is     *)
(* loaded through, threads that share its main instance through            *)
(* LoadedComponentV1::call, streams that own an instance each, the stream  *)
(* permits, the host functions a guest calls, and the epoch ticker that    *)
(* interrupts a guest.  A guest returns, traps, calls a signer that        *)
(* panics, waits in a host function, or never returns.                     *)
(***************************************************************************)

CONSTANTS Threads, NoThread,
          Streams,        \* the streams the host may have open
          MaxStreams,     \* MAX_STREAM_INSTANCES
          CallTimeout,    \* limits.call_timeout, in milliseconds
          EpochTick,      \* EPOCH_TICK, in milliseconds
          MaxRepolls      \* MAX_REPOLLS

ASSUME RuntimeAssumption ==
    /\ NoThread \notin Threads /\ IsFiniteSet(Streams)
    /\ MaxStreams \in Nat /\ MaxRepolls \in Nat \ {0}
    /\ CallTimeout \in Nat /\ EpochTick \in Nat \ {0}

(* A package: the world its manifest declares, the world its bytes export, *)
(* their imports, whether they report the manifest's identity, and whether *)
(* the manifest declares the secret the guest asks for.                    *)
Packages == [world : Worlds, exports : Worlds, imports : SUBSET Imports, honest : BOOLEAN, declared : BOOLEAN]

VARIABLES package,
          calls,       \* the operations the host's threads ask for
          load,        \* where the load is
          pc,          \* where each thread's call is
          op,          \* what it asks for
          mutex,       \* the thread that holds main
          poisoned, stale,
          instance,    \* the main instance
          left,        \* epoch ticks left of the guest in main
          polls,       \* polls left of the host function the guest waits in
          held,        \* the host still holds its ComponentRuntimeV1
          stream,      \* where each stream is
          body,        \* each stream's instance
          streamLeft,
          active       \* active_streams

main == <<pc, op, mutex, poisoned, stale, instance, left, polls>>
streaming == <<stream, body, streamLeft, active>>
given == <<package, calls>>
vars == <<given, load, main, streaming, held>>

Health == {"clean", "broken"}
Admitted == load = "admitted"

(* deadline_ticks: rounded up and never zero. *)
DeadlineTicks ==
    LET ticks == (CallTimeout + EpochTick - 1) \div EpochTick
    IN  IF ticks = 0 THEN 1 ELSE ticks

TypeOK ==
    /\ package \in Packages /\ calls \subseteq Operations
    /\ load \in {"gates", "instantiate", "probe", "admitted", "refused", "unlinked", "dropped"}
    /\ pc \in [Threads -> {"idle", "locked", "ready", "running", "signing", "waiting"}]
    /\ op \in [Threads -> Operations \union {"none"}]
    /\ mutex \in Threads \union {NoThread}
    /\ poisoned \in BOOLEAN /\ stale \in BOOLEAN
    /\ instance \in Health
    /\ left \in 0..DeadlineTicks /\ polls \in 0..MaxRepolls
    /\ held \in BOOLEAN
    /\ stream \in [Streams -> {"none", "permit", "idle", "running", "dropping"}]
    /\ body \in [Streams -> Health \union {"none"}]
    /\ streamLeft \in [Streams -> 0..DeadlineTicks]
    /\ active \in 0..Cardinality(Streams)

Untouched ==
    /\ pc = [t \in Threads |-> "idle"]
    /\ op = [t \in Threads |-> "none"]
    /\ mutex = NoThread
    /\ poisoned = FALSE
    /\ stale = FALSE
    /\ instance = "clean"
    /\ left = 0 /\ polls = 0
    /\ stream = [s \in Streams |-> "none"]
    /\ body = [s \in Streams |-> "none"]
    /\ streamLeft = [s \in Streams |-> 0]
    /\ active = 0

(* A package that passed gate 1, whose bytes are to be looked at *)
Loading == load = "gates" /\ held = TRUE /\ Untouched

Init ==
    /\ package \in Packages
    /\ calls \in SUBSET Operations
    /\ Loading
-----------------------------------------------------------------------------
(* gate_component and admit                                                *)

Goes(step) == load' = step

LoadAside == UNCHANGED <<given, pc, op, mutex, poisoned, stale, instance, polls, streaming, held>>

ScanImports ==
    /\ load = "gates"
    /\ Goes(IF Forbidden(package.world, package.imports) = {} THEN "instantiate" ELSE "refused")
    /\ left' = DeadlineTicks
    /\ LoadAside

(* instantiate: the linker offers what the world links, the bytes are      *)
(* bound as the declared world, and the guest's start code runs.           *)
Instantiate ==
    /\ load = "instantiate"
    /\ left' = DeadlineTicks
    /\ Goes(IF package.imports \subseteq Linked(package.world)
             THEN IF package.exports = package.world THEN "probe" ELSE "refused"
             ELSE "unlinked")
    /\ LoadAside

\* Mutant: the identity the guest reports is not compared.
ProbeReturnsUnread ==
    /\ load = "probe"
    /\ Goes("admitted")
    /\ UNCHANGED left /\ LoadAside

(* call_metadata: the guest answers with the manifest's identity or with   *)
(* another.                                                                *)
ProbeReturns ==
    /\ load = "probe"
    /\ Goes(IF package.honest THEN "admitted" ELSE "refused")
    /\ UNCHANGED left /\ LoadAside

(* The start code or the probe traps. *)
ProbeTraps ==
    /\ load \in {"instantiate", "probe"}
    /\ Goes("refused")
    /\ UNCHANGED left /\ LoadAside
-----------------------------------------------------------------------------
(* LoadedComponentV1::call                                                 *)

Goto(t, label) == pc' = [pc EXCEPT ![t] = label]

(* The guard is dropped and the call returns, with whatever outcome. *)
Return(t) == Goto(t, "idle") /\ op' = [op EXCEPT ![t] = "none"] /\ mutex' = NoThread

Aside == UNCHANGED <<given, load, streaming, held>>

(* A call takes the lock once its payloads are within the limit; a larger  *)
(* one is refused before (bounded).                                        *)
Ask(t) ==
    /\ Admitted /\ pc[t] = "idle" /\ mutex = NoThread
    /\ mutex' = t
    /\ \E o \in calls : op' = [op EXCEPT ![t] = o]
    /\ Goto(t, "locked")

\* Mutant: the poison is cleared and the instance kept.
LockKeepsInstance(t) ==
    /\ Ask(t)
    /\ poisoned' = FALSE
    /\ UNCHANGED <<stale, instance, left, polls>> /\ Aside

Lock(t) ==
    /\ Ask(t)
    /\ poisoned' = FALSE
    /\ stale' = (stale \/ poisoned)
    /\ UNCHANGED <<instance, left, polls>> /\ Aside

(* A stale instance is replaced; if the new one cannot start, the call     *)
(* fails and the instance stays stale.                                     *)
Refresh(t) ==
    /\ pc[t] = "locked"
    /\ \/ /\ ~stale
          /\ Goto(t, "ready")
          /\ UNCHANGED <<op, mutex, stale, instance>>
       \/ /\ stale
          /\ instance' = "clean" /\ stale' = FALSE
          /\ Goto(t, "ready")
          /\ UNCHANGED <<op, mutex>>
       \/ /\ stale
          /\ Return(t)
          /\ UNCHANGED <<stale, instance>>
    /\ UNCHANGED <<poisoned, left, polls>> /\ Aside

(* The deadline is armed and the operation begins, unless the component    *)
(* does not have this face: a mismatch never reaches the guest.            *)
Operate(t) ==
    /\ pc[t] = "ready"
    /\ left' = DeadlineTicks
    /\ \/ op[t] \in Face(package.world) /\ Goto(t, "running") /\ UNCHANGED <<op, mutex, stale>>
       \/ op[t] \notin Face(package.world) /\ Return(t) /\ stale' = FALSE
    /\ UNCHANGED <<poisoned, instance, polls>> /\ Aside

(* The guest returns a payload or an error of its own, of any size. *)
GuestReturns(t) ==
    /\ pc[t] = "running"
    /\ Return(t)
    /\ stale' = FALSE
    /\ UNCHANGED <<poisoned, instance, left, polls>> /\ Aside

Broken(t) ==
    /\ Return(t)
    /\ instance' = "broken"
    /\ stale' = TRUE
    /\ UNCHANGED <<poisoned, left>> /\ Aside

(* A trap, or the epoch deadline: the instance cannot be entered again. *)
GuestTraps(t) == pc[t] = "running" /\ Broken(t) /\ UNCHANGED polls
-----------------------------------------------------------------------------
(* Host functions the guest calls                                          *)

Stay == UNCHANGED <<op, mutex, poisoned, stale, instance, left>> /\ Aside

(* Host::sign, through a linked import: the signer sees only a secret the  *)
(* manifest declares; any other is refused to the guest.                   *)
Sign(t) ==
    /\ pc[t] = "running"
    /\ package.imports \intersect SigningHosts # {} /\ package.declared
    /\ Goto(t, "signing")
    /\ UNCHANGED polls /\ Stay

SignerReturns(t) ==
    /\ pc[t] = "signing"
    /\ Goto(t, "running")
    /\ UNCHANGED polls /\ Stay

(* The host's signer panics: the guard unwinds and poisons the mutex. *)
SignerPanics(t) ==
    /\ pc[t] = "signing"
    /\ Return(t)
    /\ instance' = "broken"
    /\ poisoned' = TRUE
    /\ UNCHANGED <<stale, left, polls>> /\ Aside

(* A blocking wasi:io function: finish drives its future on this thread,   *)
(* where the epoch ticker interrupts nothing.                              *)
HostWait(t) ==
    /\ pc[t] = "running"
    /\ Goto(t, "waiting")
    /\ polls' = MaxRepolls
    /\ Stay

Ready(t) == Goto(t, "running") /\ polls' = 0 /\ Stay

(* Stalled: the function answers with a trap. *)
Stalled(t) == Broken(t) /\ polls' = 0

(* One poll: ready; pending and woken, then or earlier, by itself or by    *)
(* another thread, and polled again while polls are left; pending and not  *)
(* woken, or a panic inside the future.                                    *)
Poll(t) ==
    /\ pc[t] = "waiting"
    /\ \/ Ready(t)
       \/ polls > 1 /\ polls' = polls - 1 /\ UNCHANGED pc /\ Stay
       \/ Stalled(t)
-----------------------------------------------------------------------------
(* open_stream and ComponentStreamV1                                       *)

Move(s, label) == stream' = [stream EXCEPT ![s] = label]

(* try_acquire_stream; over the limit the caller gets StreamLimit. *)
Acquire(s) ==
    /\ Admitted /\ stream[s] = "none" /\ active < MaxStreams
    /\ active' = active + 1
    /\ Move(s, "permit")
    /\ UNCHANGED <<body, streamLeft, given, load, main, held>>

(* The stream's own instance starts, or fails and gives its permit back. *)
Open(s) ==
    /\ stream[s] = "permit"
    /\ \/ Move(s, "idle") /\ body' = [body EXCEPT ![s] = "clean"] /\ UNCHANGED active
       \/ Move(s, "none") /\ active' = active - 1 /\ UNCHANGED body
    /\ UNCHANGED <<streamLeft, given, load, main, held>>

(* parse_chunk arms the deadline; only a provider has a face for chunks,   *)
(* and wasmtime refuses to enter a broken instance: neither changes more.  *)
ParseChunk(s) ==
    /\ stream[s] = "idle" /\ body[s] = "clean"
    /\ package.world = "provider"
    /\ streamLeft' = [streamLeft EXCEPT ![s] = DeadlineTicks]
    /\ Move(s, "running")
    /\ UNCHANGED <<body, active, given, load, main, held>>

ChunkReturns(s) ==
    /\ stream[s] = "running"
    /\ Move(s, "idle")
    /\ UNCHANGED <<body, streamLeft, active, given, load, main, held>>

ChunkTraps(s) ==
    /\ stream[s] = "running"
    /\ body' = [body EXCEPT ![s] = "broken"]
    /\ Move(s, "idle")
    /\ UNCHANGED <<streamLeft, active, given, load, main, held>>

\* Mutant: the permit goes before the instance.
DropPermitFirst(s) ==
    /\ \/ stream[s] = "idle" /\ Move(s, "dropping") /\ active' = active - 1 /\ UNCHANGED body
       \/ stream[s] = "dropping" /\ Move(s, "none") /\ body' = [body EXCEPT ![s] = "none"] /\ UNCHANGED active
    /\ UNCHANGED <<streamLeft, given, load, main, held>>

(* Dropping a stream frees its instance, then its permit: the order of the *)
(* fields of ComponentStreamV1.                                            *)
DropStream(s) ==
    /\ \/ stream[s] = "idle" /\ Move(s, "dropping") /\ body' = [body EXCEPT ![s] = "none"] /\ UNCHANGED active
       \/ stream[s] = "dropping" /\ Move(s, "none") /\ active' = active - 1 /\ UNCHANGED body
    /\ UNCHANGED <<streamLeft, given, load, main, held>>
-----------------------------------------------------------------------------
(* The host drops its handles; a load borrows the runtime and a call the   *)
(* component.                                                              *)
HostDrops ==
    /\ \/ held /\ load \notin {"gates", "instantiate", "probe"} /\ held' = FALSE /\ UNCHANGED load
       \/ /\ Admitted /\ \A t \in Threads : pc[t] = "idle"
          /\ \A s \in Streams : stream[s] # "permit"
          /\ Goes("dropped") /\ UNCHANGED held
    /\ UNCHANGED <<given, main, streaming>>

\* Mutant: the ticker is the host handle's alone.
TickerRunsWithHost == held

(* TickerGuard: the thread ticks while any clone of the runtime lives, and *)
(* the component and every stream hold one.                                *)
TickerRuns == held \/ Admitted \/ \E s \in Streams : stream[s] \in {"idle", "running"}

Less(n) == IF n = 0 THEN 0 ELSE n - 1

Tick ==
    /\ TickerRuns
    /\ left' = Less(left)
    /\ streamLeft' = [s \in Streams |-> Less(streamLeft[s])]
    /\ UNCHANGED <<given, load, pc, op, mutex, poisoned, stale, instance, polls, stream, body, active, held>>

(* The host's part of a call, and the trap at an epoch check. *)
Progress(t) == Refresh(t) \/ Operate(t) \/ Poll(t)
SignerEnds(t) == SignerReturns(t) \/ SignerPanics(t)
Interrupted(t) == left = 0 /\ GuestTraps(t)
StreamInterrupted(s) == streamLeft[s] = 0 /\ ChunkTraps(s)
ProbeInterrupted == left = 0 /\ ProbeTraps

Next ==
    \/ ScanImports \/ Instantiate \/ ProbeReturns \/ ProbeTraps
    \/ \E t \in Threads : \/ Lock(t) \/ Progress(t)
                          \/ GuestReturns(t) \/ GuestTraps(t)
                          \/ Sign(t) \/ SignerEnds(t) \/ HostWait(t)
    \/ \E s \in Streams : \/ Acquire(s) \/ Open(s) \/ ParseChunk(s)
                          \/ ChunkReturns(s) \/ ChunkTraps(s) \/ DropStream(s)
    \/ HostDrops
    \/ Tick

(* The ticker thread runs, threads are scheduled and a signer answers or   *)
(* panics; a guest need not return by itself.                              *)
Fairness ==
    /\ WF_vars(Tick) /\ WF_vars(ScanImports) /\ WF_vars(ProbeInterrupted)
    /\ \A t \in Threads : WF_vars(Progress(t)) /\ WF_vars(SignerEnds(t)) /\ SF_vars(Interrupted(t))
    /\ \A s \in Streams : WF_vars(StreamInterrupted(s))

Spec == Init /\ [][Next]_vars /\ Fairness
-----------------------------------------------------------------------------
(* No guest call is made on an instance that trapped, hit its deadline or  *)
(* was left by a panic, whichever thread broke it, and only such a call    *)
(* costs the others the instance and its state (component.rs:1064-1088).   *)
EnteredClean ==
    /\ \A t \in Threads : pc[t] \notin {"idle", "locked"} => mutex = t /\ instance = "clean"
    /\ stale => instance = "broken"

(* A guest is entered only through the world its bytes export and the      *)
(* manifest declares, having reported the manifest's identity, and its     *)
(* host's signer runs only for a world that links it and a declared secret *)
(* (component.rs:46-61, 97-102, 310-336, 1122-1129; loader.rs:236-268).    *)
OwnFaceOnly ==
    /\ Admitted => /\ package.honest /\ package.exports = package.world
                 /\ package.imports \intersect (FORBIDDEN_IMPORTS \union {"other:package/host"}) = {}
    /\ \A t \in Threads :
          /\ pc[t] \in {"running", "signing", "waiting"} => op[t] \in Face(package.exports)
          /\ pc[t] = "signing" => HostImport(package.world) = "Linked" /\ package.declared
    /\ \A s \in Streams : stream[s] = "running" => package.exports = "provider"

(* Guests are entered only clean and only through their own face: the      *)
(* shared instance and the gates together (component.rs:310-336,           *)
(* 1064-1088).                                                             *)
GuestsEntered == EnteredClean /\ OwnFaceOnly

(* Live stream instances never exceed the limit, also while streams are    *)
(* being opened and dropped, and the permits in use are those of streams   *)
(* that are open, opening or closing: one that fails to open leaks none    *)
(* (component.rs:1030, runtime.rs:57, 128-137).                            *)
StreamsBounded ==
    /\ Cardinality({s \in Streams : body[s] # "none"}) <= MaxStreams
    /\ active = Cardinality({s \in Streams : stream[s] # "none"})

(* A load ends, and a guest that never returns is interrupted, in a call,  *)
(* in a host function that does not complete and in a stream that outlives *)
(* the component and the host's runtime handle (runtime.rs:16-18, 72,      *)
(* nonblocking_io.rs:14-24, 96-121).                                       *)
CallsEnd ==
    /\ load = "gates" ~> load \notin {"gates", "instantiate", "probe"}
    /\ \A t \in Threads : pc[t] # "idle" ~> pc[t] = "idle"
    /\ \A s \in Streams : stream[s] = "running" ~> stream[s] # "running"

(* A guest may import the host interface of a world that links one: an     *)
(* honest package that imports nothing but WASI and its own world's host   *)
(* interface is not refused for what it imports                            *)
(* (south-provider-api/src/manifest.rs:90-92).                             *)
OwnHostLinked ==
    load = "unlinked" => ~ package.imports \subseteq {"wasi:cli"} \union OwnHost(package.world)
=============================================================================
