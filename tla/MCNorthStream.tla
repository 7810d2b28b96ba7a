--------------------------- MODULE MCNorthStream ----------------------------
(***************************************************************************)
(* A response streamed to a client in the dialect it asked for: OpenAI     *)
(* Chat (ChatStream), Anthropic Messages (AnthropicStream) or OpenAI       *)
(* Responses (ResponsesStream).  "reasoning" is Responses again, for a     *)
(* provider that thinks: other events, and a carrier at its bounds.        *)
(***************************************************************************)
EXTENDS Integers, Sequences

CONSTANTS ChatChoices, ChatReasons, U64Max, Reports, ChatEvents, ChatBatch,
          Slots, MaxInput, Reasons,
          ChoiceIds, Blocks, ToolIndexes, Modes, MaxBlockBytes, MaxTotalBytes, MaxLayout, MaxEncoded, BlockAllowance,
          LifecycleKinds, LifecycleLength, LifecycleBatch,
          ReasoningKinds, ReasoningLength

VARIABLES dialect,
          chat, chatSent, older, chunks, chatEvents,    \* of ChatStream
          message, client, truth,                       \* of AnthropicStream
          response, sent, events, refused               \* of ResponsesStream

Chat == INSTANCE ChatStream WITH
            ChoiceIds <- ChatChoices, Reasons <- ChatReasons, MaxEvents <- ChatEvents,
            MaxBatch <- ChatBatch, sent <- chatSent, events <- chatEvents

Anthropic == INSTANCE AnthropicStream WITH state <- message

Responses == INSTANCE ResponsesStream WITH
            Events <- LifecycleKinds, MaxEvents <- LifecycleLength, MaxBatch <- LifecycleBatch,
            state <- response

Reasoning == INSTANCE ResponsesStream WITH
            Events <- ReasoningKinds, MaxEvents <- ReasoningLength, MaxBatch <- 1,
            state <- response

ASSUME NorthAssumption ==
    Chat!CountAssumption /\ Anthropic!ReasonAssumption
    /\ Responses!ReplayAssumption /\ Reasoning!ReplayAssumption

chatVars == <<chat, chatSent, older, chunks, chatEvents>>
anthropicVars == <<message, client, truth>>
responsesVars == <<response, sent, events, refused>>
vars == <<dialect, chatVars, anthropicVars, responsesVars>>

Init ==
    /\ dialect \in {"chat", "anthropic", "responses", "reasoning"}
    /\ Chat!Init /\ Anthropic!Init /\ Responses!Init
    /\ dialect \in {"chat", "anthropic"} => response = Responses!NewState("raw", FALSE, TRUE)
    /\ dialect = "reasoning" => response.tools /\ ~response.tolerant

Next ==
    /\ \/ dialect = "chat" /\ Chat!Next /\ UNCHANGED <<anthropicVars, responsesVars>>
       \/ dialect = "anthropic" /\ Anthropic!Next /\ UNCHANGED <<chatVars, responsesVars>>
       \/ dialect = "responses" /\ Responses!Next /\ UNCHANGED <<chatVars, anthropicVars>>
       \/ dialect = "reasoning" /\ Reasoning!Next /\ UNCHANGED <<chatVars, anthropicVars>>
    /\ UNCHANGED dialect

Spec == Init /\ [][Next]_vars
-----------------------------------------------------------------------------
(* A Chat client is told the truth: every total is the sum of its counts,  *)
(* also when they came in separate reports; both renderers say the same    *)
(* deltas and finishes in the same order; and how the caller cuts the      *)
(* events into calls does not show (chat_stream.rs:74-75, 113-197,         *)
(* 236-245, sse.rs:61-114).                                                *)
ChatTold ==
    /\ Chat!TotalsAddUp /\ Chat!SameContent
    /\ dialect = "chat" => Chat!BatchesDoNotShow

(* An Anthropic client is never lost, whatever the order of events and     *)
(* messages, and ends each message with that message's counts and stop     *)
(* (anthropic_sse.rs:102-213, 232, 282-295, 334-352).                      *)
AnthropicFollows == Anthropic!ClientFollows /\ Anthropic!ClientKnowsTheMessage

(* A Responses client sees created first and once, numbers without a gap   *)
(* and at most one terminal, last, also across calls that failed and were  *)
(* rolled back; items announced, filled and closed in this order, once     *)
(* each; the same frames however the events are cut into calls; and a      *)
(* completed turn it can give back, whose carrier is valid, fits both      *)
(* sides' bounds and names each text and tool call exactly once.  The last *)
(* is claimed for tool calls with their choice's index, strings that JSON  *)
(* does not escape, and one reasoning item: ReplayAccepted says why        *)
(* (responses/stream.rs:339-436, 537-583, responses/replay.rs:71-150).     *)
ResponsesTurnWhole ==
    /\ Responses!OneNumberedLifecycle /\ Responses!ItemsBalanced
    /\ dialect = "responses" => Responses!BatchesDoNotShow
    /\ Reasoning!CarrierWithinBounds /\ Reasoning!ReplayAccepted
-----------------------------------------------------------------------------
(***************************************************************************)
(* NorthStream for TLC: counts of two bits, so that two reports can be too *)
(* much together; one Responses choice with two content blocks, and a few  *)
(* events of every kind.                                                   *)
(***************************************************************************)

MCReports == {[input |-> 1, output |-> 0], [input |-> 0, output |-> 1], [input |-> 3, output |-> 0]}

Text == [kind |-> "text", index |-> 0]
Thinking(b) == [kind |-> "thinking", index |-> 0, block |-> b, bytes |-> 1, spelled |-> 1]
Control(b) == [Thinking(b) EXCEPT !.spelled = 6]    \* JSON escapes a control character with six
BlockStart(b) == [Thinking(b) EXCEPT !.bytes = 0, !.spelled = 0]
Signature(b, n) == [kind |-> "signature", index |-> 0, block |-> b, bytes |-> n, spelled |-> n]
Redacted(b) == [kind |-> "redacted", index |-> 0, block |-> b, spelled |-> 1]
Tool(i, id, name, bytes, bad) ==
    [kind |-> "tool", index |-> i, id |-> id, name |-> name, bytes |-> bytes, bad |-> bad]
Usage(u) == [kind |-> "usage", usage |-> u]
Finish(f) == [kind |-> "finish", finish |-> f]
Done(f) == [kind |-> "done", finish |-> f]
Failure == [kind |-> "error"]

LifecycleEvents ==
    {Text, Thinking(0), Tool(0, "a", "function", 1, FALSE), Tool(0, "a", "custom", 1, TRUE),
     Tool(0, "none", "none", 1, FALSE), Tool(0, "b", "shell", 0, FALSE), Usage("some"), Usage("huge"), Finish("length"),
     Done("none"), Done("stop"), Failure}

ReplayEvents ==
    {Text, BlockStart(0), Thinking(0), Thinking(1), Signature(0, 1), Signature(1, 1), Redacted(0), Redacted(1),
     Control(1), Tool(0, "a", "function", 1, FALSE), Tool(0, "long", "function", 1, FALSE), Done("stop")}

(* A provider that numbers a tool call with its content block. *)
BlockNumberedEvents ==
    {Thinking(0), Thinking(1), Signature(0, 1), Redacted(0), Tool(1, "a", "function", 0, FALSE), Done("stop")}

TurnsInit == Init /\ dialect = "reasoning" /\ response.mode = "summary"
TurnsSpec == TurnsInit /\ [][Next]_vars

(* Every output part and tool call of a completed turn is named exactly    *)
(* once by the carrier (docs/design/2026-09-28-responses-north-codec.md:   *)
(* 43-45).                                                                 *)
EveryTurnReplays == Reasoning!EveryTurnReplays
=============================================================================
