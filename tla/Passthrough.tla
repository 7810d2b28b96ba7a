---------------------------- MODULE Passthrough -----------------------------
(***************************************************************************)
(* Relaying a pass-through stream: the reference executor of               *)
(* south-testkit/src/north_passthrough.rs, and the delivery suites of      *)
(* south-provider-conformance/src/north_passthrough that judge it.         *)
(* First the fixtures for the three protocols: the upstream bodies, the    *)
(* scripts of the component double, the cases; then the executor; then the *)
(* runner.                                                                 *)
(***************************************************************************)
EXTENDS Naturals, Sequences, FiniteSets, FiniteSetsExt, SequencesExt

\* One upstream frame: its type, its sequence number and the identity of its
\* response object when it has them, the candidates it finishes, whether it
\* carries the upstream's failure text, and the line ends it lacks.
Frame(type) ==
  [type |-> type, sequence |-> {}, identity |-> {}, finishes |-> {},
   failure |-> FALSE, missing |-> 0]

Numbered(type, n) == [Frame(type) EXCEPT !.sequence = {n}]

Lifecycle(type, n) == [Numbered(type, n) EXCEPT !.identity = {1}]

Failing(frame) == [frame EXCEPT !.failure = TRUE]

Finishes(candidate) == [Frame("part") EXCEPT !.finishes = {candidate}]

Frames(types) == [n \in DOMAIN types |-> Frame(types[n])]

\* The last frame loses `lines` of its two line ends.
Cut(frames, lines) == [frames EXCEPT ![Len(frames)].missing = lines]

\* A Responses stream of n frames ending in `last`.
ResponsesStream(n, last) ==
  [i \in 1..n |->
     IF i = 1 THEN Lifecycle("response.created", 0)
     ELSE IF i = n THEN Lifecycle(last, n - 1) ELSE Numbered("delta", i - 1)]

Parts(n) == [i \in 1..n |-> Frame("part")]

MessagesMixed == Frames(<<"message_start", "ping", "message_delta", "message_stop">>)

MessagesText ==
  Frames(<<"message_start", "content_block_start", "content_block_delta",
           "content_block_delta", "content_block_stop", "message_delta",
           "message_stop">>)

MessagesUnknownBlock ==
  Frames(<<"message_start", "content_block_start", "content_block_delta",
           "content_block_stop", "content_block_start", "content_block_stop",
           "message_delta", "ping", "message_stop">>)

ErrorFrame == Failing(Frame("error"))

NoScript == [frames |-> <<>>, rest |-> {"Trap"}, finish |-> {"Clean"},
             settlement |-> {"Persists"}, refusable |-> FALSE]

Completes == [completes |-> TRUE, relayed |-> 0, fed |-> 0]

FailsAfter(relayed, given) ==
  [completes |-> FALSE, relayed |-> relayed, fed |-> given]

Case(id, path) ==
  [case |-> id, path |-> path, setups |-> <<>>, expected |-> TRUE,
   body |-> <<>>, split |-> "Whole", script |-> NoScript,
   outcome |-> Completes, status |-> 200, verdict |-> "Parses"]

Setup(inbound, declared, tools) ==
  [inbound |-> inbound, declared |-> declared, tools |-> tools]

DeliveryCase(id, setups, passes) ==
  [Case(id, "Delivery") EXCEPT !.setups = setups, !.expected = passes]

StreamCase(id, frames, verdicts, ends) ==
  [Case(id, "Stream") EXCEPT !.body = frames, !.script.frames = verdicts,
                             !.outcome = ends]

BufferedCase(id, status, verdict, forwarded) ==
  [Case(id, "Buffered") EXCEPT !.status = status, !.verdict = verdict,
                               !.expected = forwarded]

Everywhere(case) == [case EXCEPT !.split = "EveryByteBoundary"]

Finishing(case, finish) == [case EXCEPT !.script.finish = {finish}]

Unsettled(case) == [case EXCEPT !.script.settlement = {"Fails"}]

E(n) == [i \in 1..n |-> "Events"]

\* north_passthrough_fixtures_v1
ResponsesFixtures ==
  LET mixed == ResponsesStream(3, "response.completed")
      head == SubSeq(mixed, 1, 2)
      same == <<Setup("Responses", {"Responses"}, "functions"),
                Setup("Responses", {"Responses"}, "none")>>
      done == E(2) \o <<"Done">>
  IN <<DeliveryCase("DeliveryPassesThroughWhenEveryConditionHolds", same, TRUE),
       DeliveryCase("LossyToolMapRenders",
                    <<Setup("Responses", {"Responses"}, "namespaced")>>, FALSE),
       DeliveryCase("UndeclaredFamilyRenders",
                    <<Setup("Responses", {}, "functions")>>, FALSE),
       DeliveryCase("OtherSurfaceRenders",
                    <<Setup("ChatCompletions", {"Responses"}, "functions"),
                      Setup("Messages", {"Responses"}, "functions"),
                      Setup("Responses", {"ChatCompletions"}, "functions")>>, FALSE),
       Everywhere(StreamCase("ForwardedUnchanged", mixed, done, Completes)),
       StreamCase("ForwardAfterReturn", ResponsesStream(4, "response.completed"),
                  E(3) \o <<"Done">>, Completes),
       StreamCase("TerminalWithheldUntilSettled", mixed, done, Completes),
       StreamCase("IncompleteIsTerminal", ResponsesStream(3, "response.incomplete"),
                  E(2) \o <<"Done">>, Completes),
       StreamCase("TerminalTypeWithoutDoneParks", mixed, E(3), FailsAfter(2, 3)),
       StreamCase("DoneWithoutTerminalTypeParks", mixed,
                  <<"Events", "Done", "Done">>, FailsAfter(1, 2)),
       Finishing(StreamCase("LaggingComponentParks", mixed, E(3),
                            FailsAfter(2, 3)), "Done"),
       StreamCase("UpstreamFailureReplaced",
                  <<Lifecycle("response.created", 0),
                    Lifecycle("response.in_progress", 1),
                    Failing(Lifecycle("response.failed", 2))>>,
                  E(2) \o <<"Error">>, FailsAfter(2, 3)),
       StreamCase("ErrorEventReplaced", head \o <<ErrorFrame>>,
                  E(2) \o <<"Error">>, FailsAfter(2, 3)),
       StreamCase("ComponentErrorForwardsNothing", mixed,
                  <<"Events", "Error", "Done">>, FailsAfter(1, 2)),
       StreamCase("ComponentTrapForwardsNothing", mixed,
                  <<"Events", "Trap", "Done">>, FailsAfter(1, 2)),
       StreamCase("FailureBeforeFirstFrame", <<ErrorFrame>>, <<"Error">>,
                  FailsAfter(0, 1)),
       Finishing(StreamCase("TruncatedStreamFails", head, E(2),
                            FailsAfter(2, 2)), "Truncated"),
       Unsettled(StreamCase("SettlementFailureWithholdsTerminal", mixed, done,
                            FailsAfter(2, 3))),
       StreamCase("TerminalAtEndOfInputIsRepaired", Cut(mixed, 1), done, Completes),
       StreamCase("TerminalAtEndOfInputIsRepaired", Cut(mixed, 2), done, Completes),
       BufferedCase("BufferedForwardedAfterParseAndSettlement", 200, "Parses", TRUE),
       BufferedCase("BufferedParseFailureNotRelayed", 200, "Refuses", FALSE),
       BufferedCase("BufferedNon2xxNotRelayed", 429, "Parses", FALSE)>>

\* The generateContent cases of north_passthrough_fixtures_v2
GenerateContentFixtures ==
  LET mixed == Parts(2) \o <<Finishes(1)>>
      done == E(2) \o <<"Done">>
  IN <<DeliveryCase("DeliveryPassesThroughWhenEveryConditionHolds",
                    <<Setup("GenerateContent", {"GenerateContent"}, "declarations"),
                      Setup("GenerateContent", {"GenerateContent"}, "none")>>, TRUE),
       DeliveryCase("UndeclaredFamilyRenders",
                    <<Setup("GenerateContent", {}, "declarations")>>, FALSE),
       DeliveryCase("OtherSurfaceRenders",
                    <<Setup("Responses", {"GenerateContent"}, "functions"),
                      Setup("ChatCompletions", {"GenerateContent"}, "functions"),
                      Setup("Messages", {"GenerateContent"}, "functions"),
                      Setup("GenerateContent", {"Responses"}, "declarations")>>,
                    FALSE),
       Everywhere(StreamCase("ForwardedUnchanged", mixed, done, Completes)),
       StreamCase("ForwardAfterReturn", mixed, done, Completes),
       StreamCase("TerminalWithheldUntilSettled", mixed, done, Completes),
       StreamCase("OtherFinishReasonIsTerminal", Parts(1) \o <<Finishes(1)>>,
                  <<"Events", "Done">>, Completes),
       StreamCase("FinishReasonOnAnyCandidateIsTerminal",
                  Parts(1) \o <<Finishes(2)>>, <<"Events", "Done">>, Completes),
       StreamCase("TerminalTypeWithoutDoneParks", mixed, E(3), FailsAfter(2, 3)),
       StreamCase("DoneWithoutTerminalTypeParks", mixed,
                  <<"Events", "Done", "Done">>, FailsAfter(1, 2)),
       Finishing(StreamCase("LaggingComponentParks", mixed, E(3),
                            FailsAfter(2, 3)), "Done"),
       StreamCase("UpstreamErrorFrameNotRelayed", Parts(2) \o <<ErrorFrame>>,
                  E(2) \o <<"Error">>, FailsAfter(2, 3)),
       StreamCase("ComponentErrorForwardsNothing", mixed,
                  <<"Events", "Error", "Done">>, FailsAfter(1, 2)),
       StreamCase("ComponentTrapForwardsNothing", mixed,
                  <<"Events", "Trap", "Done">>, FailsAfter(1, 2)),
       StreamCase("FailureBeforeFirstFrame", <<ErrorFrame>>, <<"Error">>,
                  FailsAfter(0, 1)),
       Finishing(StreamCase("TruncatedStreamFails", Parts(2), E(2),
                            FailsAfter(2, 2)), "Truncated"),
       Unsettled(StreamCase("SettlementFailureWithholdsTerminal", mixed, done,
                            FailsAfter(2, 3))),
       StreamCase("TerminalAtEndOfInputIsRepaired", Cut(mixed, 1), done, Completes),
       StreamCase("TerminalAtEndOfInputIsRepaired", Cut(mixed, 2), done, Completes),
       BufferedCase("BufferedForwardedAfterParseAndSettlement", 200, "Parses", TRUE),
       BufferedCase("BufferedParseFailureNotRelayed", 200, "Refuses", FALSE),
       BufferedCase("BufferedNon2xxDeliveredAsSent", 429, "Parses", TRUE)>>

\* The messages cases of north_passthrough_fixtures_v2
MessagesFixtures ==
  LET mixed == MessagesMixed
      done == E(2) \o <<"Done", "Events">>
  IN <<DeliveryCase("DeliveryPassesThroughWhenEveryConditionHolds",
                    <<Setup("Messages", {"Messages"}, "declarations"),
                      Setup("Messages", {"Messages"}, "none")>>, TRUE),
       DeliveryCase("UndeclaredFamilyRenders",
                    <<Setup("Messages", {}, "declarations")>>, FALSE),
       DeliveryCase("OtherSurfaceRenders",
                    <<Setup("Responses", {"Messages"}, "functions"),
                      Setup("ChatCompletions", {"Messages"}, "functions"),
                      Setup("GenerateContent", {"Messages"}, "declarations"),
                      Setup("Messages", {"Responses"}, "declarations")>>, FALSE),
       Everywhere(StreamCase("ForwardedUnchanged", mixed, done, Completes)),
       StreamCase("ForwardAfterReturn", MessagesText,
                  E(5) \o <<"Done", "Events">>, Completes),
       StreamCase("TerminalWithheldUntilSettled", mixed, done, Completes),
       StreamCase("UnknownContentForwardedUnchanged", MessagesUnknownBlock,
                  E(6) \o <<"Done">> \o E(2), Completes),
       StreamCase("TerminalTypeWithoutDoneParks", mixed, E(4), FailsAfter(3, 4)),
       StreamCase("DoneWithoutTerminalTypeParks", mixed,
                  <<"Events", "Done", "Done", "Done">>, FailsAfter(1, 2)),
       Finishing(StreamCase("LaggingComponentParks", mixed, E(4),
                            FailsAfter(3, 4)), "Done"),
       StreamCase("ErrorEventReplaced",
                  SubSeq(MessagesText, 1, 4) \o <<ErrorFrame>>,
                  E(4) \o <<"Error">>, FailsAfter(4, 5)),
       StreamCase("ComponentErrorForwardsNothing", mixed,
                  <<"Events", "Error", "Done", "Events">>, FailsAfter(1, 2)),
       StreamCase("ComponentTrapForwardsNothing", mixed,
                  <<"Events", "Trap", "Done", "Events">>, FailsAfter(1, 2)),
       StreamCase("FailureBeforeFirstFrame", <<ErrorFrame>>, <<"Error">>,
                  FailsAfter(0, 1)),
       Finishing(StreamCase("TruncatedStreamFails", SubSeq(mixed, 1, 3),
                            E(2) \o <<"Done">>, FailsAfter(2, 3)), "Truncated"),
       Unsettled(StreamCase("SettlementFailureWithholdsTerminal", mixed, done,
                            FailsAfter(2, 4))),
       StreamCase("TerminalAtEndOfInputIsRepaired", Cut(mixed, 1), done, Completes),
       StreamCase("TerminalAtEndOfInputIsRepaired", Cut(mixed, 2), done, Completes),
       BufferedCase("BufferedForwardedAfterParseAndSettlement", 200, "Parses", TRUE),
       BufferedCase("BufferedParseFailureNotRelayed", 200, "Refuses", FALSE),
       BufferedCase("BufferedNon2xxNotRelayed", 429, "Parses", FALSE)>>

Fixtures(protocol) ==
  CASE protocol = "Responses" -> ResponsesFixtures
    [] protocol = "GenerateContent" -> GenerateContentFixtures
    [] OTHER -> MessagesFixtures
-----------------------------------------------------------------------------
(* Pass-through delivery of a northbound stream, as the reference host of    *)
(* south-testkit does it: the upstream's own bytes are cut into frames, each *)
(* frame is fed to the component in one call, and a frame goes to the client *)
(* only after its call returned.  The frame that ends a success goes out     *)
(* only after the settlement is persisted; any failure is recorded once, and *)
(* then ends the client's stream with an event of the host's own.            *)
(*                                                                           *)
(* Bytes are tokens: a frame is its first half, its second half and the two  *)
(* line ends of its blank line; a frame that the end of the input dispatched *)
(* lacks one or both of the line ends.                                       *)

VARIABLES
  host,      \* [protocol, faults, keep_alive]: the executor
  body,      \* the upstream's frames
  script,    \* what the component double and the ledger answer
  queue,     \* the frames still to handle, grouped as the chunks bring them
  run        \* the executor's state: steps, calls, identity, ...

relayHostVars == <<host, body, script, queue, run>>

Protocols == {"Responses", "GenerateContent", "Messages"}
Verdicts == {"Events", "Done", "Error", "Trap"}
FinishVerdicts == {"Clean", "Done", "Truncated"}
Settlements == {"Persists", "Fails"}

\* The deliberate mistakes the reference executor can be built with.
Faults ==
  {"ForwardBeforeReturn", "CoalesceFrames", "ReleaseTerminalBeforeSettlement",
   "TerminalOnDoneAlone", "TerminalOnTypeAlone", "RelayFailureFrame",
   "FailureEventBeforeFunds", "WrongFailureSequence", "LeakUpstreamMessage",
   "ForwardTerminalWhenSettlementFails", "NoTerminatorRepair",
   "KeepAliveMidFrame", "TruncationSettles", "DeliveryIgnoresLossless",
   "DeliveryIgnoresDeclaration", "DeliveryIgnoresSurface",
   "BufferedForwardBeforeSettlement", "BufferedRelaysFailure",
   "GenerateContentFailureFrame", "GenerateContentNon2xxReplaced",
   "GenerateContentNon2xxStatusRewritten", "TerminalOnFirstCandidateOnly",
   "MessagesNoFailureEvent", "MessagesForwardDoneFrame"}

Is(fault) == fault \in host.faults

----------------------------------------------------------------------------
(* Frames and what is written to the client. *)

Token(kind, n, part, id, message) ==
  [kind |-> kind, n |-> n, part |-> part, id |-> id, message |-> message]

FrameTokens(n, parts) ==
  [p \in 1..parts |-> Token("frame", n, p, 0, "none")]

Comment == Token("comment", 0, 0, 0, "none")

\* An event of the host's own: its sequence number, the response it names
\* and the message it carries.
HostEvent(name, sequence, id, message) == Token(name, sequence, 0, id, message)

Bytes(n) == FrameTokens(n, 4 - body[n].missing)

\* north_passthrough_terminator_v1: the line ends the frame lacks.
Repaired(n) == FrameTokens(n, 4)

RelayStep(name) == [step |-> name, data |-> <<>>, status |-> 0]
Fed(bytes) == [RelayStep("Fed") EXCEPT !.data = bytes]
Forwarded(bytes) == [RelayStep("Forwarded") EXCEPT !.data = bytes]
StatusWritten(status) == [RelayStep("StatusWritten") EXCEPT !.status = status]

TerminalTypes == {"response.completed", "response.incomplete"}

IsTerminalData(protocol, frame) ==
  CASE protocol = "Responses" -> frame.type \in TerminalTypes
    [] protocol = "GenerateContent" -> frame.finishes # {}
    [] OTHER -> frame.type = "message_stop"

\* Run::is_terminal
IsTerminal(frame) ==
  IF host.protocol = "GenerateContent" /\ Is("TerminalOnFirstCandidateOnly")
  THEN 1 \in frame.finishes
  ELSE IsTerminalData(host.protocol, frame)

----------------------------------------------------------------------------
(* The steps of one exchange.  Each takes the run and returns it changed.    *)

NewRun ==
  [steps |-> <<>>, calls |-> 0, identity |-> {}, last_sequence |-> {},
   done |-> FALSE, armed |-> FALSE, held |-> <<>>, withheld |-> {}]

Push(r, steps) == [r EXCEPT !.steps = @ \o steps]

End(r) == [Push(r, <<RelayStep("Ended")>>) EXCEPT !.done = TRUE]

\* The frame goes to the client; its identity and its number are noted.
RelayForward(r, bytes, data) ==
  LET half == Len(bytes) \div 2
      comment == IF host.keep_alive THEN <<Forwarded(<<Comment>>)>> ELSE <<>>
      written ==
        IF Is("KeepAliveMidFrame")
        THEN <<Forwarded(SubSeq(bytes, 1, half)), Forwarded(<<Comment>>),
               Forwarded(SubSeq(bytes, half + 1, Len(bytes)))>>
        ELSE <<Forwarded(bytes)>>
  IN [r EXCEPT
        !.steps = @ \o comment \o written,
        !.identity = IF @ = {} THEN data.identity ELSE @,
        !.last_sequence = IF data.sequence # {} THEN data.sequence ELSE @]

\* The message of a failure event: the host's fixed one.
FailureMessage(failing) ==
  IF Is("LeakUpstreamMessage") /\ (\E f \in failing : f.failure)
  THEN "upstream" ELSE "fixed"

\* A response.failed that follows the relayed numbers, or, when no identity
\* was relayed, a response.created and a response.failed of a minted one.
FailureEvent(r, failing) ==
  LET skip == IF Is("WrongFailureSequence") THEN 2 ELSE 1
      failed(id, sequence) ==
        HostEvent("response.failed", sequence, id, FailureMessage(failing))
  IN IF r.identity = {}
     THEN <<HostEvent("response.created", 0, 0, "none"), failed(0, skip)>>
     ELSE <<failed(CHOOSE id \in r.identity : TRUE,
                   IF r.last_sequence = {} THEN 0
                   ELSE skip + CHOOSE n \in r.last_sequence : TRUE)>>

MessagesFailureEvent(failing) ==
  <<HostEvent("error", 0, 0, FailureMessage(failing))>>

\* Run::fail: the funds transition, then what the client sees of it.
Fail(r, funds, failing) ==
  LET event ==
        CASE host.protocol = "GenerateContent" ->
               IF Is("GenerateContentFailureFrame")
               THEN <<HostEvent("data", 0, 0, "fixed")>> ELSE <<>>
          [] host.protocol = "Messages" ->
               IF Is("MessagesNoFailureEvent") THEN <<>>
               ELSE MessagesFailureEvent(failing)
          [] OTHER -> FailureEvent(r, failing)
      shown == IF event = <<>> THEN <<>> ELSE <<Forwarded(event)>>
  IN End(Push(r, IF /\ Is("FailureEventBeforeFunds")
                    /\ host.protocol # "GenerateContent"
                 THEN shown \o <<RelayStep(funds)>>
                 ELSE <<RelayStep(funds)>> \o shown))

\* As Release, the frames written before the settlement is asked for.
ReleaseUnsettled(r, frames, settlement) ==
  End(Push(r, [n \in DOMAIN frames |-> Forwarded(frames[n])]
                \o <<RelayStep("SettlementPersisted")>>))

\* Run::release and Run::release_held: the withheld frames go out once the
\* settlement persists, the last one with its blank line.
Release(r, frames, settlement) ==
  LET out == [n \in DOMAIN frames |-> Forwarded(frames[n])]
      early == Is("ReleaseTerminalBeforeSettlement")
      before == IF early THEN out ELSE <<>>
      after == IF early THEN <<>> ELSE out
      unsettled == IF Is("ForwardTerminalWhenSettlementFails") THEN out ELSE <<>>
  IN IF settlement = "Persists"
     THEN End(Push(r, before \o <<RelayStep("SettlementPersisted")>> \o after))
     ELSE Fail(Push(r, before \o unsettled), "MarkedDeliveryUnknown", {})

\* As GroupBytes, nothing repaired.
GroupBytesUnrepaired(frames, repair) ==
  FlattenSeq([n \in DOMAIN frames |-> Bytes(frames[n])])

\* The bytes of a group of frames, the last repaired when the end of the
\* input dispatched it.
GroupBytes(frames, repair) ==
  FlattenSeq([n \in DOMAIN frames |->
                IF repair THEN Repaired(frames[n]) ELSE Bytes(frames[n])])

\* Run::handle, for Responses and generateContent.
HandleFrame(r, group, verdict, settlement) ==
  LET data == body[group.frames[1]]
      bytes == GroupBytes(group.frames, FALSE)
      terminal == IsTerminal(data)
      early == Is("ForwardBeforeReturn") /\ verdict = "Events" /\ ~terminal
      fed == [Push(r, <<Fed(bytes)>>) EXCEPT !.calls = @ + 1]
      returned == Push(IF early THEN RelayForward(fed, bytes, data) ELSE fed,
                       <<RelayStep("Returned")>>)
      releases ==
        IF Is("TerminalOnDoneAlone") THEN verdict = "Done"
        ELSE IF Is("TerminalOnTypeAlone")
        THEN terminal /\ verdict \in {"Events", "Done"}
        ELSE terminal /\ verdict = "Done"
      repair == group.at_end /\ ~Is("NoTerminatorRepair")
  IN CASE verdict = "Error" ->
            Fail(Push(returned, IF Is("RelayFailureFrame")
                                THEN <<Forwarded(bytes)>> ELSE <<>>),
                 "SettledAsFailure", {data})
       [] verdict # "Error" /\ verdict # "Trap" /\ releases ->
            Release(returned, <<GroupBytes(group.frames, repair)>>, settlement)
       [] verdict = "Events" /\ ~terminal /\ ~releases ->
            IF early THEN returned ELSE RelayForward(returned, bytes, data)
       [] OTHER -> Fail(returned, "MarkedDeliveryUnknown", {})

\* Run::handle_messages: Done comes on message_delta; from it on every frame
\* is withheld, and message_stop releases them all.
HandleMessages(r, group, verdict, settlement) ==
  LET data == body[group.frames[1]]
      bytes == GroupBytes(group.frames, FALSE)
      terminal == data.type = "message_stop"
      early == /\ Is("ForwardBeforeReturn") /\ verdict = "Events"
               /\ ~r.armed /\ ~terminal
      fed == [Push(r, <<Fed(bytes)>>) EXCEPT !.calls = @ + 1]
      returned == Push(IF early THEN RelayForward(fed, bytes, data) ELSE fed,
                       <<RelayStep("Returned")>>)
      arms == /\ verdict = "Done" /\ ~r.armed
              /\ data.type = "message_delta" \/ Is("TerminalOnDoneAlone")
      repair == group.at_end /\ ~Is("NoTerminatorRepair")
  IN CASE verdict = "Error" ->
            Fail(Push(returned, IF Is("RelayFailureFrame")
                                THEN <<Forwarded(bytes)>> ELSE <<>>),
                 "SettledAsFailure", {data})
       [] arms ->
            [IF Is("MessagesForwardDoneFrame")
             THEN RelayForward(returned, bytes, data)
             ELSE [returned EXCEPT !.held = Append(@, bytes)]
             EXCEPT !.armed = TRUE, !.withheld = {group.frames[1]}]
       [] verdict = "Events" /\ r.armed /\ data.type = "ping" ->
            [returned EXCEPT !.held = Append(@, bytes)]
       [] /\ verdict = "Events" /\ terminal
          /\ r.armed \/ Is("TerminalOnTypeAlone") ->
            Release([returned EXCEPT !.held = <<>>],
                    Append(r.held, GroupBytes(group.frames, repair)),
                    settlement)
       [] verdict = "Events" /\ ~r.armed /\ ~terminal ->
            IF early THEN returned ELSE RelayForward(returned, bytes, data)
       [] OTHER -> Fail(returned, "MarkedDeliveryUnknown", {})

\* Run::finish: the end of the input with no terminal frame released.
FinishRun(r, finish) ==
  LET finished == Push(r, <<RelayStep("Finished")>>)
  IN IF finish \in {"Clean", "Truncated"} /\ Is("TruncationSettles")
     THEN End(Push(finished, <<RelayStep("SettlementPersisted")>>))
     ELSE Fail(finished, "MarkedDeliveryUnknown", {})

----------------------------------------------------------------------------
(* The loop of the executor's `stream` over the chunks. *)

\* What the decoder yields for each chunk: the frames it completes, in one
\* group per frame.  A frame without its blank line comes at the end.
Groups(batches, coalesce) ==
  LET ended(f) == body[f].missing = 0
      singles(fs) == [n \in DOMAIN fs |-> [frames |-> <<fs[n]>>, at_end |-> FALSE]]
      grouped(fs) == IF coalesce /\ Len(fs) > 1
                     THEN <<[frames |-> fs, at_end |-> FALSE]>> ELSE singles(fs)
      open == SelectSeq([f \in DOMAIN body |-> f], LAMBDA f : ~ended(f))
  IN FlattenSeq([b \in DOMAIN batches |-> grouped(SelectSeq(batches[b], ended))])
       \o [n \in DOMAIN open |-> [frames |-> <<open[n]>>, at_end |-> TRUE]]

\* NorthPassthroughScriptV1::frame: a call the script does not name traps.
ScriptFrame(n) ==
  IF n + 1 \in DOMAIN script.frames THEN {script.frames[n + 1]} ELSE script.rest

Handle ==
  /\ queue # <<>> /\ ~run.done
  /\ \E verdict \in ScriptFrame(run.calls), settlement \in script.settlement :
       run' = IF host.protocol = "Messages"
              THEN HandleMessages(run, Head(queue), verdict, settlement)
              ELSE HandleFrame(run, Head(queue), verdict, settlement)
  /\ queue' = Tail(queue)
  /\ UNCHANGED <<host, body, script>>

\* The decoder refuses the rest of the input.
DecoderRefuses ==
  /\ script.refusable /\ queue # <<>> /\ ~run.done
  /\ run' = Fail(run, "MarkedDeliveryUnknown", {})
  /\ queue' = <<>>
  /\ UNCHANGED <<host, body, script>>

Finish ==
  /\ queue = <<>> /\ ~run.done
  /\ \E finish \in script.finish : run' = FinishRun(run, finish)
  /\ UNCHANGED <<host, body, script, queue>>

StreamNext == Handle \/ DecoderRefuses \/ Finish

----------------------------------------------------------------------------
(* The other two decisions of the executor. *)

\* Pass the upstream's bytes through, or render the component's IR.
PassesThrough(setup) ==
  LET lossless == \/ setup.inbound \in {"GenerateContent", "Messages"}
                  \/ Is("DeliveryIgnoresLossless")
                  \/ setup.tools \in {"none", "functions"}
      declared == IF Is("DeliveryIgnoresDeclaration") /\ setup.declared = {}
                  THEN {setup.inbound} ELSE setup.declared
      matches == IF Is("DeliveryIgnoresSurface") THEN declared # {}
                 ELSE declared = {setup.inbound}
  IN matches /\ lossless

Is2xx(status) == status \in 200..299

BodyToken == Token("body", 0, 0, 0, "upstream")

\* A buffered answer: the steps of its timeline.
BufferedSteps(status, verdict) ==
  LET success == Is2xx(status) /\ verdict = "Parses"
      asSent == /\ host.protocol = "GenerateContent" /\ ~Is2xx(status)
                /\ ~Is("GenerateContentNon2xxReplaced")
      written == IF Is("GenerateContentNon2xxStatusRewritten") THEN 502 ELSE status
      relayed == Forwarded(<<BodyToken>>)
      own == Forwarded(<<HostEvent("answer", 0, 0, "fixed")>>)
      settled == RelayStep("SettlementPersisted")
  IN <<Fed(<<>>), RelayStep("Returned")>>
     \o (CASE asSent ->
                <<RelayStep("SettledAsFailure"), StatusWritten(written), relayed>>
           [] ~asSent /\ success ->
                IF Is("BufferedForwardBeforeSettlement")
                THEN <<relayed, settled>> ELSE <<settled, relayed>>
           [] OTHER ->
                <<RelayStep("SettledAsFailure"),
                  IF Is("BufferedRelaysFailure") THEN relayed ELSE own>>)
     \o <<RelayStep("Ended")>>
-----------------------------------------------------------------------------
(* The runner: it drives a host through the fixtures and judges the timeline *)
(* of each case.  The host here is the reference executor, with any of its   *)
(* deliberate mistakes.                                                      *)
VARIABLES
  relayCase,           \* the fixture being run
  chunking,     \* which chunking of its body
  phase,       \* where the runner stands in the fixture
  timeline,    \* the bytes the client got, who wrote them, what they match
  relayMismatches   \* the (case, category) pairs recorded so far

relaySuiteVars == <<relayCase, chunking, phase, timeline, relayMismatches>>

NoTimeline == [raw |-> <<>>, owners |-> <<>>,
               matched |-> [pos |-> 1, starts |-> <<>>, right |-> TRUE]]

----------------------------------------------------------------------------
(* The fixtures. *)

\* The chunkings of a body, each as the frames every chunk completes: the
\* whole body, every cut in two, and one byte at a time.
Variants(fixture) ==
  LET n == Len(fixture.body)
      upTo(a, b) == [i \in 1..(b - a + 1) |-> a + i - 1]
  IN IF fixture.split = "Whole" THEN <<<<upTo(1, n)>>>>
     ELSE [j \in 1..n |-> <<upTo(1, j - 1), upTo(j, n)>>]
            \o <<[i \in 1..n |-> <<i>>]>>

----------------------------------------------------------------------------
(* The checks on one timeline. *)

Positions(steps, name) == {i \in DOMAIN steps : steps[i].step = name}
FundsSteps(steps) ==
  Positions(steps, "MarkedDeliveryUnknown") \cup Positions(steps, "SettledAsFailure")
EndedOnceLast(steps) == Positions(steps, "Ended") = {Len(steps)}

\* The forwarded bytes, and the step that wrote each of them.
ForwardSteps(steps) ==
  SelectSeq([i \in DOMAIN steps |-> i], LAMBDA i : steps[i].step = "Forwarded")
Raw(steps) ==
  LET at == ForwardSteps(steps)
  IN FlattenSeq([i \in DOMAIN at |-> steps[at[i]].data])
Owners(steps) ==
  LET at == ForwardSteps(steps)
  IN FlattenSeq([i \in DOMAIN at |-> [j \in DOMAIN steps[at[i]].data |-> at[i]]])

\* Finds the segments in the raw bytes in order, comment lines only between
\* them: where the ones found start, and the first byte after them.  Only the
\* last segment can be shorter than a whole frame.
Matched(raw, segments) ==
  LET content == SelectSeq([i \in DOMAIN raw |-> i], LAMBDA i : raw[i] # Comment)
      at(n) == IF n < Len(content) THEN content[n + 1] ELSE Len(raw) + 1
      start(i) == at(4 * (i - 1))
      found(i) == LET end == start(i) + Len(segments[i]) - 1
                  IN end <= Len(raw) /\ SubSeq(raw, start(i), end) = segments[i]
      count == Max({n \in 0..Len(segments) : \A i \in 1..n : found(i)})
      after == IF count = 0 THEN 0 ELSE 4 * (count - 1) + Len(segments[count])
  IN [pos |-> at(after), starts |-> [i \in 1..count |-> start(i)],
      right |-> count = Len(segments)]

\* The frames the outcome says were relayed, as they were forwarded.
Segments(outcome) ==
  LET n == Len(body)
  IN [i \in 1..(IF outcome.completes THEN n ELSE outcome.relayed) |->
        IF outcome.completes /\ i = n THEN Repaired(i) ELSE Bytes(i)]

\* NorthPassthroughFrameV1::first_withheld
FirstWithheld(frames) ==
  LET deltas == {i \in DOMAIN frames : frames[i].type = "message_delta"}
  IN IF host.protocol = "Messages" /\ deltas # {} THEN Min(deltas) ELSE Len(frames)

\* As FailureEventRight, the numbers not compared.
FailureEventRightUnnumbered(tail, relayed) ==
  /\ tail # <<>> /\ Last(tail).kind = "response.failed" /\ Last(tail).message = "fixed"
  /\ Len(tail) = (IF relayed = 0 THEN 2 ELSE 1)

\* One response.failed numbered after the last relayed frame and naming the
\* relayed response, or a created and a failed event of one response.
FailureEventRight(tail, relayed) ==
  IF relayed = 0
  THEN /\ Len(tail) = 2
       /\ tail[1].kind = "response.created" /\ tail[2].kind = "response.failed"
       /\ tail[2].id = tail[1].id /\ tail[2].n = tail[1].n + 1
       /\ tail[2].message = "fixed"
  ELSE /\ Len(tail) = 1
       /\ tail[1].kind = "response.failed" /\ tail[1].message = "fixed"
       /\ \E n \in body[relayed].sequence : tail[1].n = n + 1
       /\ \E f \in 1..relayed : tail[1].id \in body[f].identity

MessagesFailureEventRight(tail) ==
  Len(tail) = 1 /\ tail[1].kind = "error" /\ tail[1].message = "fixed"

\* check_stream: the categories in which the timeline is wrong.
StreamMismatches(steps, raw, owners, m, outcome) ==
  LET n == Len(body)
      relayed == IF outcome.completes THEN n ELSE outcome.relayed
      fedCount == IF outcome.completes THEN n ELSE outcome.fed
      fed == SelectSeq(steps, LAMBDA s : s.step = "Fed")
      tail == SubSeq(raw, m.pos, Len(raw))
      starts == m.starts
      settled == Positions(steps, "SettlementPersisted")
      funds == FundsSteps(steps)
      first == FirstWithheld(body)
      wrong ==
        [Fed |-> ~(/\ Len(fed) = fedCount
                   /\ \A i \in DOMAIN fed : i <= n => fed[i].data = Bytes(i)),
         Forwarded |-> ~m.right \/ (outcome.completes /\ tail # <<>>),
         Order |-> \E i \in DOMAIN starts :
                     Cardinality({s \in Positions(steps, "Returned") :
                                    s < owners[starts[i]]}) < i,
         Terminal |-> IF outcome.completes
                      THEN ~(/\ Cardinality(settled) = 1
                             /\ Len(starts) = relayed
                             /\ Min(settled) < owners[starts[first]])
                      ELSE settled # {},
         Funds |-> IF outcome.completes THEN funds # {}
                   ELSE ~(/\ Cardinality(funds) = 1
                          /\ m.pos <= Len(owners) => Min(funds) < owners[m.pos]),
         FailureEvent |->
           /\ ~outcome.completes
           /\ CASE host.protocol = "Responses" -> ~FailureEventRight(tail, relayed)
                [] host.protocol = "GenerateContent" -> tail # <<>>
                [] OTHER -> ~MessagesFailureEventRight(tail),
         Leak |-> \E i \in DOMAIN raw :
                    \/ raw[i].kind = "frame" /\ body[raw[i].n].failure
                    \/ raw[i].message = "upstream",
         Ended |-> ~EndedOnceLast(steps)]
  IN {category \in DOMAIN wrong : wrong[category]}

\* check_buffered
BufferedMismatches(steps, fixture) ==
  LET raw == Raw(steps)
      forward == Positions(steps, "Forwarded")
      settled == Positions(steps, "SettlementPersisted")
      funds == FundsSteps(steps)
      written == Positions(steps, "StatusWritten")
      precedes(some) == forward # {} /\ some # {} /\ Min(some) < Min(forward)
      asSent == fixture.expected /\ ~Is2xx(fixture.status)
      statusRight == /\ Cardinality(written) = 1 /\ precedes(written)
                     /\ \A i \in written : steps[i].status = fixture.status
      fundsRight == /\ Cardinality(funds) = 1
                    /\ forward # {} => Min(funds) <= Min(forward)
      wrong ==
        [Forwarded |-> IF fixture.expected
                       THEN raw # <<BodyToken>> \/ (asSent /\ ~statusRight)
                       ELSE raw = <<>>,
         Order |-> fixture.expected /\ ~precedes(Positions(steps, "Returned")),
         Terminal |-> IF fixture.expected /\ ~asSent
                      THEN Cardinality(settled) # 1 \/ ~precedes(settled)
                      ELSE settled # {},
         Funds |-> IF fixture.expected /\ ~asSent THEN funds # {} ELSE ~fundsRight,
         Leak |-> ~fixture.expected /\ \E i \in DOMAIN raw : raw[i] = BodyToken,
         Ended |-> ~EndedOnceLast(steps)]
  IN {category \in DOMAIN wrong : wrong[category]}

DeliveryMismatches(fixture) ==
  {"Delivery" : setup \in {s \in ToSet(fixture.setups) :
                             PassesThrough(s) # fixture.expected}}

----------------------------------------------------------------------------
(* The runner. *)

Fixture == Fixtures(host.protocol)[relayCase]

\* The mismatches of the case, each recorded once, and on to the next one.
Record(categories) ==
  relayMismatches' = relayMismatches \cup {<<Fixture.case, c>> : c \in categories}

RunDelivery ==
  /\ phase = "next" /\ relayCase <= Len(Fixtures(host.protocol))
  /\ Fixture.path = "Delivery"
  /\ Record(DeliveryMismatches(Fixture))
  /\ relayCase' = relayCase + 1
  /\ UNCHANGED <<relayHostVars, chunking, phase, timeline>>

RunBuffered ==
  /\ phase = "next" /\ relayCase <= Len(Fixtures(host.protocol))
  /\ Fixture.path = "Buffered"
  /\ Record(BufferedMismatches(BufferedSteps(Fixture.status, Fixture.verdict), Fixture))
  /\ relayCase' = relayCase + 1
  /\ UNCHANGED <<relayHostVars, chunking, phase, timeline>>

StartBody ==
  /\ phase = "next" /\ relayCase <= Len(Fixtures(host.protocol))
  /\ Fixture.path = "Stream"
  /\ body' = Fixture.body
  /\ script' = Fixture.script
  /\ run' = NewRun
  /\ phase' = "chunking"
  /\ UNCHANGED <<host, queue, relayCase, chunking, timeline, relayMismatches>>

FeedChunks ==
  /\ phase = "chunking"
  /\ queue' = Groups(Variants(Fixture)[chunking], Is("CoalesceFrames"))
  /\ phase' = "streaming"
  /\ UNCHANGED <<host, body, script, run, relayCase, chunking, timeline, relayMismatches>>

ReadTimeline ==
  /\ phase = "streaming" /\ run.done
  /\ timeline' = [timeline EXCEPT !.raw = Raw(run.steps), !.owners = Owners(run.steps)]
  /\ phase' = "matching"
  /\ UNCHANGED <<relayHostVars, relayCase, chunking, relayMismatches>>

MatchFrames ==
  /\ phase = "matching"
  /\ timeline' = [timeline EXCEPT !.matched = Matched(timeline.raw, Segments(Fixture.outcome))]
  /\ phase' = "checking"
  /\ UNCHANGED <<relayHostVars, relayCase, chunking, relayMismatches>>

CheckStream ==
  /\ phase = "checking"
  /\ Record(StreamMismatches(run.steps, timeline.raw, timeline.owners,
                             timeline.matched, Fixture.outcome))
  /\ IF chunking < Len(Variants(Fixture))
     THEN chunking' = chunking + 1 /\ relayCase' = relayCase
     ELSE chunking' = 1 /\ relayCase' = relayCase + 1
  /\ timeline' = NoTimeline
  /\ phase' = "next"
  /\ UNCHANGED relayHostVars

Report ==
  /\ phase = "next" /\ relayCase > Len(Fixtures(host.protocol))
  /\ phase' = "reported"
  /\ UNCHANGED <<relayHostVars, relayCase, chunking, timeline, relayMismatches>>

RunnerNext ==
  RunDelivery \/ RunBuffered \/ StartBody \/ FeedChunks \/ ReadTimeline
    \/ MatchFrames \/ CheckStream \/ Report

PassthroughNext ==
  \/ RunnerNext
  \/ phase \in {"streaming", "live"} /\ StreamNext /\ UNCHANGED relaySuiteVars

----------------------------------------------------------------------------
(* Where a behaviour starts: a host at the first case of its suite, or a live *)
(* host with an upstream that sends up to `most` frames.                      *)

Idle == relayCase = 1 /\ chunking = 1 /\ timeline = NoTimeline /\ relayMismatches = {}

RelaySuiteStarts(hosts) ==
  /\ Idle /\ phase = "next"
  /\ host \in hosts
  /\ body = <<>> /\ script = NoScript /\ queue = <<>> /\ run = NewRun

\* The frames an upstream of the protocol may send as its n-th.
Upstream(protocol, n) ==
  CASE protocol = "Responses" ->
         {Lifecycle("response.created", n - 1), Numbered("delta", n - 1),
          Lifecycle("response.completed", n - 1), ErrorFrame}
    [] protocol = "GenerateContent" ->
         {Frame("part"), Finishes(1), Finishes(2), ErrorFrame}
    [] OTHER ->
         {Frame("message_start"), Frame("ping"), Frame("message_delta"),
          Frame("message_stop"), ErrorFrame}

AnyAnswer == [frames |-> <<>>, rest |-> Verdicts, finish |-> FinishVerdicts,
              settlement |-> Settlements, refusable |-> TRUE]

RelayLiveStarts(most) ==
  /\ Idle /\ phase = "live"
  /\ \E p \in Protocols, ka \in BOOLEAN, n \in 1..most, cut \in 0..2 :
       /\ host = [protocol |-> p, faults |-> {}, keep_alive |-> ka]
       /\ \E sent \in [1..n -> UNION {Upstream(p, i) : i \in 1..n}] :
            /\ \A i \in 1..n : sent[i] \in Upstream(p, i)
            /\ body = Cut(sent, cut)
  /\ script = AnyAnswer /\ run = NewRun
  /\ queue = Groups(<<[i \in DOMAIN body |-> i]>>, FALSE)

----------------------------------------------------------------------------
\* The mistakes that show in some case of a protocol's suite.
Bearing(protocol) ==
  CASE protocol = "Responses" ->
         Faults \ {"GenerateContentFailureFrame", "GenerateContentNon2xxReplaced",
                   "GenerateContentNon2xxStatusRewritten",
                   "TerminalOnFirstCandidateOnly", "MessagesNoFailureEvent",
                   "MessagesForwardDoneFrame"}
    [] protocol = "GenerateContent" ->
         Faults \ {"FailureEventBeforeFunds", "WrongFailureSequence",
                   "LeakUpstreamMessage", "DeliveryIgnoresLossless",
                   "MessagesNoFailureEvent", "MessagesForwardDoneFrame"}
    [] OTHER ->
         Faults \ {"WrongFailureSequence", "DeliveryIgnoresLossless",
                   "GenerateContentFailureFrame", "GenerateContentNon2xxReplaced",
                   "GenerateContentNon2xxStatusRewritten",
                   "TerminalOnFirstCandidateOnly"}

\* The runner accepts exactly the hosts without a mistake that bears on the
\* protocol: the correct host passes with and without its own keep-alive
\* comments, every mistake is caught, and no second mistake hides a first.
PassthroughJudged ==
  phase = "reported" =>
    (relayMismatches = {} <=> host.faults \cap Bearing(host.protocol) = {})

Live == phase = "live"
ClientRaw == Raw(run.steps)
HostKinds == {"response.created", "response.failed", "error", "data"}

\* Whatever the upstream sends and the component answers, the money comes
\* before the client: a terminal frame, and on the Messages wire every frame
\* from the armed message_delta on, is written only after the settlement
\* persisted (never, where it fails), an event of the host's own only after
\* the funds transition, and the exchange records exactly one of the two.
FundsBeforeClient ==
  Live /\ run.done =>
    LET steps == run.steps
        settled == Positions(steps, "SettlementPersisted")
        funds == FundsSteps(steps)
        before(some, t) == \E s \in some : s < t
    IN /\ Cardinality(settled \cup funds) = 1
       /\ \A t \in Positions(steps, "Forwarded") :
            LET token == Head(steps[t].data)
            IN /\ token.kind = "frame" /\ IsTerminalData(host.protocol, body[token.n])
                    => before(settled, t)
               /\ token.kind \in HostKinds => before(funds, t)
               /\ token.kind = "frame" /\ (\E w \in run.withheld : token.n >= w) => before(settled, t)

\* What the client gets of the upstream is a prefix of what the upstream sent,
\* whole frames in order and nothing twice, the last one completed by its
\* blank line when it ends a settled exchange; a frame goes out after its call
\* returned, and the frame a failure happened on never does.
RelaysAPrefix ==
  Live /\ run.done =>
    LET sent == SelectSeq(ClientRaw, LAMBDA t : t.kind = "frame")
        n == Cardinality({t.n : t \in ToSet(sent)})
        settled == Positions(run.steps, "SettlementPersisted") # {}
        whole == [i \in 1..n |-> IF settled /\ i = n THEN Repaired(i) ELSE Bytes(i)]
    IN /\ sent = (IF n = 0 THEN <<>> ELSE FlattenSeq(whole))
       /\ \A t \in Positions(run.steps, "Forwarded") :
            LET token == Head(run.steps[t].data)
            IN token.kind = "frame" =>
                 Cardinality({s \in Positions(run.steps, "Returned") : s < t}) >= token.n
       /\ \A t \in FundsSteps(run.steps) :
            t > 1 /\ run.steps[t - 1].step = "Returned" => n < run.calls

\* A standard client dispatches the host's failure event as an event of its
\* own: the bytes before it end with a blank line.
FailureEventDispatched ==
  Live =>
    \A i \in 2..Len(ClientRaw) :
      ClientRaw[i].kind \in HostKinds /\ ClientRaw[i - 1].kind = "frame"
        => ClientRaw[i - 1].part = 4
=============================================================================
