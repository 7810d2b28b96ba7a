---------------------------- MODULE TextRequests ----------------------------
(***************************************************************************)
(* The conversation the text adapters translate: the canonical messages of *)
(* token_station_protocol as the request builders of                       *)
(* crates/south-component-conformance/src read them, and the one           *)
(* vocabulary in which the model writes down what each dialect's body      *)
(* carries.                                                                *)
(*                                                                         *)
(* A text is a sequence of words, empty for ""; a word stands for any      *)
(* text the properties tell apart from the others.  A message's content is *)
(* "none", "text" (one part) or "parts".                                   *)
(***************************************************************************)
EXTENDS Naturals, Sequences, FiniteSets, SequencesExt, TLC

FlatMap(Op(_), s) == FoldLeft(LAMBDA acc, x : acc \o Op(x), <<>>, s)

Joined(texts, separator) ==
    FlatMap(LAMBDA i : (IF i = 1 THEN <<>> ELSE separator) \o texts[i], [i \in DOMAIN texts |-> i])

----------------------------------------------------------------------------
(* The canonical message. *)

(* form tells images apart (inline, odd, raw, url) and the blocks the      *)
(* canonical form does not model (audio, foreign, tool_use, tool_result).  *)
ContentPart(kind, text) ==
    [kind |-> kind, text |-> text, signature |-> "none", marker |-> "none", form |-> "none", id |-> "", name |-> ""]

(* A call's arguments are a JSON object, "empty" or "broken" (any text     *)
(* that is no object).                                                     *)
Objects == {"object", "object2"}

ToolCall(id, name, arguments) == [id |-> id, name |-> name, arguments |-> arguments, signature |-> "none"]

Message(role, content, parts) ==
    [role |-> role, content |-> content, parts |-> parts, calls |-> <<>>, call |-> "none", family |-> "none",
     layout |-> {}, items |-> {}]

TextOf(parts) == FlatMap(LAMBDA p : IF p.kind = "text" THEN p.text ELSE <<>>, parts)

ClaudeFamily(messages) == \E i \in DOMAIN messages : messages[i].family = "claude"

OpenAiFamily(messages) == \E i \in DOMAIN messages : messages[i].family = "openai"

(* marker_only_text and without_markers: a list of text parts that is a    *)
(* list only for its prompt-cache markers reads as one text, joined by     *)
(* line ends.                                                              *)
MarkerOnly(m) ==
    /\ m.content = "parts"
    /\ \A i \in DOMAIN m.parts : m.parts[i].kind = "text"
    /\ \E i \in DOMAIN m.parts : m.parts[i].marker # "none"

MarkerOnlyText(m) == Joined([i \in DOMAIN m.parts |-> m.parts[i].text], <<"\n">>)

WithoutMarkers(m) ==
    IF MarkerOnly(m) THEN [m EXCEPT !.content = "text", !.parts = <<ContentPart("text", MarkerOnlyText(m))>>]
    ELSE m

----------------------------------------------------------------------------
(* What a body carries: blocks in turns, next to the system texts. *)

Block(kind, text) ==
    [kind |-> kind, text |-> text, id |-> "", name |-> "", input |-> "none", signature |-> "none", marker |-> "none"]

CallBlock(call, input) == [Block("call", <<>>) EXCEPT !.id = call.id, !.name = call.name, !.input = input]

ResultBlock(id, text) == [Block("result", text) EXCEPT !.id = id]

Turn(role, blocks) == [role |-> role, blocks |-> blocks]

Body(system, turns) == [refused |-> FALSE, system |-> system, turns |-> turns]

Refusal == [refused |-> TRUE, system |-> <<>>, turns |-> <<>>]

(* An adapter's answer: the assistant message its parse_response returns. *)
Answered(content, parts, calls) == [Message("assistant", content, parts) EXCEPT !.calls = calls]

(* The buffered answer's shape every adapter gives: the thinking first,    *)
(* then the joined text; a bare text when there is no thinking.            *)
ThinkingThenText(thinking, hasText, text) ==
    IF thinking = <<>>
    THEN [content |-> IF hasText THEN "text" ELSE "none",
          parts |-> IF hasText THEN <<ContentPart("text", text)>> ELSE <<>>]
    ELSE [content |-> "parts", parts |-> thinking \o (IF hasText THEN <<ContentPart("text", text)>> ELSE <<>>)]
-----------------------------------------------------------------------------
(***************************************************************************)
(* The replay markers of an assistant turn,                                *)
(* crates/south-component-conformance/src/reasoning_replay.rs.             *)
(*                                                                         *)
(* A turn that reasoned carries a family and a layout: one entry for each  *)
(* block the upstream sent, naming the part (by ordinal, from 0), the tool *)
(* call (by id) or the reasoning item (by index) that holds it.  A layout  *)
(* is valid when its entries name every part, call and item exactly once.  *)
(***************************************************************************)

CONSTANT MAX_BLOCKS

ContentEntry(ordinal) == [kind |-> "content", ordinal |-> ordinal, call |-> ""]

CallEntry(id) == [kind |-> "tool_call", ordinal |-> 0, call |-> id]

ItemEntry(index) == [kind |-> "reasoning_item", ordinal |-> index, call |-> ""]

LayoutOf(m) == CHOOSE l \in m.layout : TRUE

ItemsOf(m) == CHOOSE s \in m.items : TRUE

CallIdsDistinct(m) ==
    /\ \A i \in DOMAIN m.calls : m.calls[i].id # ""
    /\ \A i, j \in DOMAIN m.calls : m.calls[i].id = m.calls[j].id => i = j

(* What an entry names, <<"none", 0>> for nothing. *)
Names(m, e) ==
    IF e.kind = "content" /\ e.ordinal < Len(m.parts) THEN <<"part", e.ordinal + 1>>
    ELSE IF e.kind = "reasoning_item" /\ e.ordinal < (IF m.items = {} THEN 0 ELSE Len(ItemsOf(m)))
    THEN <<"item", e.ordinal + 1>>
    ELSE IF e.kind = "tool_call" /\ \E i \in DOMAIN m.calls : m.calls[i].id = e.call
    THEN <<"call", CHOOSE i \in DOMAIN m.calls : m.calls[i].id = e.call>>
    ELSE <<"none", 0>>

Named(m) == [k \in DOMAIN LayoutOf(m) |-> Names(m, LayoutOf(m)[k])]

(* Mutant: the last check, that nothing was left out, is dropped. *)
NothingLeftOutUnchecked(m, refs) == TRUE

(* validated_layout's last check: every part and every call was named. *)
NothingLeftOut(m, refs) ==
    /\ \A i \in DOMAIN m.parts : <<"part", i>> \in ToSet(refs)
    /\ \A i \in DOMAIN m.calls : <<"call", i>> \in ToSet(refs)

(* A part Claude takes back: text, encrypted thinking, signed thinking. *)
Replayable(p) == p.kind \in {"text", "redacted"} \/ (p.kind = "thinking" /\ p.signature \notin {"none", "empty"})

HasMarkers(m) == m.family # "none" \/ m.layout # {}

(* validated_layout on a message with markers. *)
ClaudeLayoutValid(m) ==
    /\ m.family = "claude" /\ m.layout # {} /\ m.role = "assistant"
    /\ Len(LayoutOf(m)) <= MAX_BLOCKS /\ m.content = "parts" /\ CallIdsDistinct(m)
    /\ LET refs == Named(m)
       IN  /\ IsInjective(refs)
           /\ \A k \in DOMAIN refs : /\ refs[k][1] \in {"part", "call"}
                                     /\ refs[k][1] = "part" => Replayable(m.parts[refs[k][2]])
           /\ NothingLeftOut(m, refs)

ClaudeLayoutRefused(m) == HasMarkers(m) /\ ~ClaudeLayoutValid(m)

(* valid_item: a reasoning item with an encrypted content that is not one  *)
(* of the host's own tickets; the others are "bad".                        *)
ItemsValid(m) == \A i \in DOMAIN ItemsOf(m) : ItemsOf(m)[i] # "bad"

OpenAiLeavesOut(m, refs) ==
    {i \in DOMAIN m.parts : <<"part", i>> \notin ToSet(refs)}

(* openai_layout on a message of the family. *)
OpenAiLayoutValid(m) ==
    /\ m.layout # {} /\ m.items # {} /\ m.role = "assistant"
    /\ Len(LayoutOf(m)) <= MAX_BLOCKS /\ ItemsValid(m) /\ m.content # "text" /\ CallIdsDistinct(m)
    /\ LET refs == Named(m)
       IN  /\ IsInjective(refs)
           /\ \A k \in DOMAIN refs : /\ refs[k][1] # "none"
                                     /\ refs[k][1] = "part" => m.parts[refs[k][2]].kind = "text"
           /\ \A i \in OpenAiLeavesOut(m, refs) : m.parts[i].kind = "thinking" /\ m.parts[i].signature = "none"
           /\ \A i \in DOMAIN ItemsOf(m) : <<"item", i>> \in ToSet(refs)
           /\ \A i \in DOMAIN m.calls : <<"call", i>> \in ToSet(refs)

OpenAiLayoutRefused(m) == m.family = "openai" /\ ~OpenAiLayoutValid(m)
-----------------------------------------------------------------------------
(***************************************************************************)
(* The Messages adapter's conversation,                                    *)
(* crates/south-component-conformance/src/reference_anthropic.rs: the body *)
(* it builds from the canonical messages and the message it reads from a   *)
(* buffered answer.                                                        *)
(***************************************************************************)

(* system_text_of: the non-empty texts, each with its marker. *)
AnthropicSystemTexts(m) == SelectSeq(m.parts, LAMBDA p : p.kind = "text" /\ p.text # <<>>)

(* system_of: one joined text, or a block each where one is marked. *)
AnthropicSystem(texts) ==
    IF texts = <<>> THEN <<>>
    ELSE IF \A i \in DOMAIN texts : texts[i].marker = "none"
    THEN <<Block("text", Joined([i \in DOMAIN texts |-> texts[i].text], <<"\n">>))>>
    ELSE [i \in DOMAIN texts |-> [Block("text", texts[i].text) EXCEPT !.marker = texts[i].marker]]

(* inject_claude_code_identity: first, unless the client already said it. *)
WithIdentity(system) ==
    IF system # <<>> /\ system[1].text # <<>> /\ system[1].text[1] = "identity" THEN system
    ELSE <<Block("text", <<"identity">>)>> \o system

(* assistant_part_to_block *)
AnthropicPart(p, replay) ==
    CASE p.kind = "thinking" /\ ~replay -> <<Block("thinking", p.text)>>
      [] p.kind = "thinking" /\ replay -> <<[Block("thinking", p.text) EXCEPT !.signature = p.signature]>>
      [] p.kind = "redacted" -> IF replay THEN <<Block("redacted", p.text)>> ELSE <<>>
      [] OTHER -> <<[Block(p.kind, p.text) EXCEPT !.marker = p.marker]>>

AnthropicParts(m) == FlatMap(LAMBDA p : AnthropicPart(p, FALSE), m.parts)

(* tool_use_block refuses a call without id or name. *)
Anonymous(call) == call.id = "" \/ call.name = ""

(* A replayed turn: its blocks in the layout's order. *)
LayoutBlocks(m) ==
    FlatMap(LAMBDA ref : IF ref[1] = "part" THEN AnthropicPart(m.parts[ref[2]], TRUE)
                         ELSE <<CallBlock(m.calls[ref[2]], m.calls[ref[2]].arguments)>>,
            Named(m))

(* Content that is an empty text gives an assistant turn no block. *)
AnthropicAssistant(m) ==
    IF HasMarkers(m) THEN LayoutBlocks(m)
    ELSE (IF m.content = "text" /\ m.parts[1].text = <<>> THEN <<>> ELSE AnthropicParts(m))
            \o [k \in DOMAIN m.calls |-> CallBlock(m.calls[k], m.calls[k].arguments)]

(* tool_result_block: the last part's marker is the block's. *)
AnthropicResult(m) ==
    [ResultBlock(m.call, TextOf(m.parts)) EXCEPT
        !.marker = IF m.content = "parts" /\ m.parts # <<>> THEN Last(m.parts).marker ELSE "none"]

AnthropicTurn(m) ==
    CASE m.role = "system" -> <<>>
      [] m.role = "user" -> <<Turn("user", AnthropicParts(m))>>
      [] m.role = "assistant" -> <<Turn("assistant", AnthropicAssistant(m))>>
      [] m.role = "tool" -> <<Turn("user", <<AnthropicResult(m)>>)>>

AnthropicRefusesMessage(m) ==
    \/ ClaudeLayoutRefused(m)
    \/ m.role = "assistant" /\ \E k \in DOMAIN m.calls : Anonymous(m.calls[k])
    \/ m.role = "tool" /\ m.call \in {"none", ""}

(* checked_body_of: a replayed turn needs a model that takes it. *)
ReplayRefused(messages, words) == ClaudeFamily(messages) /\ "reasoning_replay.claude.v1" \notin words

(* build_http_request, body_of and conversation_of. *)
AnthropicBody(messages, words, login) ==
    IF \/ \E i \in DOMAIN messages : AnthropicRefusesMessage(messages[i])
       \/ ReplayRefused(messages, words)
    THEN Refusal
    ELSE LET system == AnthropicSystem(FlatMap(LAMBDA m : IF m.role = "system" THEN AnthropicSystemTexts(m) ELSE <<>>,
                                               messages))
         IN  Body(IF login THEN WithIdentity(system) ELSE system, FlatMap(AnthropicTurn, messages))

----------------------------------------------------------------------------
(* parse_response: a block is [kind, text, signature, id, name]; kinds     *)
(* the adapter does not know are skipped.                                  *)

Known(blocks) == SelectSeq(blocks, LAMBDA b : b.kind \in {"text", "thinking", "redacted", "call"})

PartOfBlock(b) == [ContentPart(b.kind, b.text) EXCEPT !.signature = b.signature]

Reasoned(blocks) == \E i \in DOMAIN blocks : blocks[i].kind \in {"thinking", "redacted"}

ContentBlocks(blocks) == SelectSeq(Known(blocks), LAMBDA b : b.kind # "call")

AnsweredCalls(blocks) == SelectSeq(blocks, LAMBDA b : b.kind = "call")

(* The layout: an entry for each known block, the ordinals counting the    *)
(* parts before it.                                                        *)
AnsweredLayout(known) ==
    [k \in DOMAIN known |->
        IF known[k].kind = "call" THEN CallEntry(known[k].id)
        ELSE ContentEntry(Cardinality({j \in 1 .. k - 1 : known[j].kind # "call"}))]

(* The same reading serves the Converse adapter. *)
ClaudeAnswer(blocks) ==
    LET parts == ContentBlocks(blocks)
        calls == AnsweredCalls(blocks)
        m == Answered(IF parts = <<>> THEN "none" ELSE IF Reasoned(parts) THEN "parts" ELSE "text",
                      IF parts = <<>> THEN <<>>
                      ELSE IF Reasoned(parts) THEN [k \in DOMAIN parts |-> PartOfBlock(parts[k])]
                      ELSE <<ContentPart("text", FlatMap(LAMBDA b : b.text, parts))>>,
                      [k \in DOMAIN calls |-> ToolCall(calls[k].id, calls[k].name, calls[k].input)])
    IN  IF Reasoned(parts) THEN [m EXCEPT !.family = "claude", !.layout = {AnsweredLayout(Known(blocks))}] ELSE m
-----------------------------------------------------------------------------
(***************************************************************************)
(* The Bedrock Converse adapter's conversation,                            *)
(* crates/south-component-conformance/src/reference_bedrock_converse.rs.   *)
(* Results are collected until the next user or assistant turn and sent as *)
(* one user message; a result must answer a call announced before it.      *)
(***************************************************************************)

(* CachePoints::point: the block that follows a marked part, if the model  *)
(* takes one.                                                              *)
CachePoint(marker, words) ==
    IF marker = "none" \/ "cache_point" \notin words THEN <<>>
    ELSE <<[Block("cache", <<>>) EXCEPT
              !.marker = IF marker = "1h" /\ "cache_point.ttl_1h" \in words THEN "1h" ELSE "default"]>>

(* part_to_block's refusals: an image that is not inline bytes of a known  *)
(* type.                                                                   *)
ConverseRefusesPart(p) == p.kind = "image" /\ p.form # "inline"

(* A part's block and the cache point after it; reasoning and unmodelled   *)
(* parts have no block outside a replayed turn.                            *)
ConversePart(p, words) ==
    IF p.kind \in {"text", "image"} THEN <<Block(p.kind, p.text)>> \o CachePoint(p.marker, words) ELSE <<>>

(* text_blocks drops the parts part_to_block refuses. *)
TextBlocks(m, words) ==
    FlatMap(LAMBDA p : ConversePart(p, words), SelectSeq(m.parts, LAMBDA p : ~ConverseRefusesPart(p)))

(* tool_use_block *)
ConverseRefusesCall(call) == Anonymous(call) \/ call.arguments = "broken"

ConverseInput(call) == IF call.arguments = "empty" THEN "braces" ELSE call.arguments

ConverseCall(call) == CallBlock(call, ConverseInput(call))

(* assistant_content: in layout order with the signatures, or the text     *)
(* blocks and then the calls.                                              *)
ConverseAssistant(m, words) ==
    IF HasMarkers(m)
    THEN FlatMap(LAMBDA ref : IF ref[1] = "part"
                              THEN <<[Block(m.parts[ref[2]].kind, m.parts[ref[2]].text) EXCEPT
                                        !.signature = m.parts[ref[2]].signature]>>
                              ELSE <<ConverseCall(m.calls[ref[2]])>>,
                 Named(m))
    ELSE TextBlocks(m, words) \o [k \in DOMAIN m.calls |-> ConverseCall(m.calls[k])]

ConverseSystem(m, words) ==
    LET read == IF "cache_point" \in words THEN m ELSE WithoutMarkers(m)
    IN  FlatMap(LAMBDA p : IF p.kind = "text" THEN <<Block("text", p.text)>> \o CachePoint(p.marker, words) ELSE <<>>,
                read.parts)

(* A result, with the cache point its last part's marker asks for. *)
ConverseResult(m, words) ==
    <<ResultBlock(m.call, FlatMap(LAMBDA b : IF b.kind = "text" THEN b.text ELSE <<>>, TextBlocks(WithoutMarkers(m), {})))>>
        \o (IF m.content = "parts" /\ m.parts # <<>> THEN CachePoint(Last(m.parts).marker, words) ELSE <<>>)

ConverseRefusesMessage(m, announced) ==
    \/ ClaudeLayoutRefused(m)
    \/ m.role = "user" /\ \E k \in DOMAIN m.parts : ConverseRefusesPart(m.parts[k])
    \/ m.role = "assistant" /\ \E k \in DOMAIN m.calls : ConverseRefusesCall(m.calls[k])
    \/ m.role = "tool" /\ m.call \notin announced \ {""}

(* Mutant: a result of a parallel batch goes out at once, in a message of  *)
(* its own.                                                                *)
FlushedEach(s) == IF s.pending = <<>> THEN s ELSE [s EXCEPT !.turns = @ \o [k \in DOMAIN s.pending |-> Turn("user", <<s.pending[k]>>)], !.pending = <<>>]

(* flush_tool_results *)
Flushed(s) ==
    IF s.pending = <<>> THEN s ELSE [s EXCEPT !.turns = Append(@, Turn("user", s.pending)), !.pending = <<>>]

(* One message of conversation_of's walk. *)
ConverseStep(s, m, words) ==
    CASE ConverseRefusesMessage(m, s.announced) -> [s EXCEPT !.refused = TRUE]
      [] m.role = "system" -> [s EXCEPT !.system = @ \o ConverseSystem(m, words)]
      [] m.role = "tool" -> [s EXCEPT !.pending = @ \o ConverseResult(m, words)]
      [] m.role = "user" -> [Flushed(s) EXCEPT !.turns = Append(@, Turn("user", TextBlocks(m, words)))]
      [] m.role = "assistant" ->
            LET content == ConverseAssistant(m, words)
            IN  [Flushed(s) EXCEPT
                    !.turns = IF content = <<>> THEN @ ELSE Append(@, Turn("assistant", content)),
                    !.announced = @ \cup {m.calls[k].id : k \in DOMAIN m.calls}]

(* build_converse_request and conversation_of. *)
ConverseBody(messages, words) ==
    LET walk == FoldLeft(LAMBDA s, m : IF s.refused THEN s ELSE ConverseStep(s, m, words),
                         [refused |-> ReplayRefused(messages, words), system |-> <<>>, turns |-> <<>>,
                          pending |-> <<>>, announced |-> {}],
                         messages)
        done == Flushed(walk)
    IN  IF walk.refused \/ \E i \in DOMAIN messages : ClaudeLayoutRefused(messages[i])
        THEN Refusal ELSE Body(done.system, done.turns)
-----------------------------------------------------------------------------
(***************************************************************************)
(* The conversations of the two OpenAI-wire adapters: Chat Completions,    *)
(* crates/south-component-conformance/src/reference.rs, and Responses,     *)
(* reference_openai_responses.rs.                                          *)
(***************************************************************************)

CallBlocks(m) == [k \in DOMAIN m.calls |-> CallBlock(m.calls[k], m.calls[k].arguments)]

----------------------------------------------------------------------------
(* Chat Completions. *)

(* Parts the wire spells itself; another unmodelled part is refused. *)
ChatNative(p) == p.kind = "unknown" => p.form = "audio"

ThinkingText(m) == FlatMap(LAMBDA p : IF p.kind = "thinking" THEN p.text ELSE <<>>, m.parts)

ChatParts(m) ==
    FlatMap(LAMBDA p : IF p.kind \in {"thinking", "redacted"} THEN <<>> ELSE <<Block(p.kind, p.text)>>, m.parts)

(* reasoning_content goes only to a model that wants it; on an assistant   *)
(* turn with calls it is written even when empty.                          *)
ReasoningContent(m, wanted) ==
    IF wanted /\ (ThinkingText(m) # <<>> \/ (m.role = "assistant" /\ m.calls # <<>>))
    THEN <<Block("reasoning", ThinkingText(m))>> ELSE <<>>

(* message_to_openai_for_model *)
ChatTurn(message, wanted) ==
    LET m == IF message.role \in {"system", "tool"} THEN WithoutMarkers(message) ELSE message
    IN  Turn(m.role,
             IF m.role = "tool"
             THEN <<ResultBlock(m.call, TextOf(m.parts))>> \o SelectSeq(ChatParts(m), LAMBDA b : b.kind # "text")
             ELSE ChatParts(m) \o ReasoningContent(m, wanted) \o CallBlocks(m))

(* build_http_request refuses both replay carriers. *)
ChatBody(messages, words) ==
    IF \/ ClaudeFamily(messages) \/ OpenAiFamily(messages)
       \/ \E i \in DOMAIN messages : \E k \in DOMAIN messages[i].parts : ~ChatNative(messages[i].parts[k])
    THEN Refusal
    ELSE Body(<<>>, [i \in DOMAIN messages |-> ChatTurn(messages[i], "reasoning_content" \in words)])

(* parse_response: one choice's message; the reasoning first. *)
ChatAnswer(blocks) ==
    LET thought == FlatMap(LAMBDA b : IF b.kind = "thinking" THEN b.text ELSE <<>>, blocks)
        texts == SelectSeq(blocks, LAMBDA b : b.kind = "text")
        text == FlatMap(LAMBDA b : b.text, texts)
        calls == SelectSeq(blocks, LAMBDA b : b.kind = "call")
        shape == ThinkingThenText(IF thought = <<>> THEN <<>> ELSE <<ContentPart("thinking", thought)>>,
                                  texts # <<>> /\ (thought = <<>> \/ text # <<>>), text)
    IN  Answered(shape.content, shape.parts,
                 [k \in DOMAIN calls |-> ToolCall(calls[k].id, calls[k].name, calls[k].input)])

----------------------------------------------------------------------------
(* Responses. *)

(* text_only: a system or tool message may hold nothing but text. *)
NotTextOnly(m) == \E k \in DOMAIN m.parts : m.parts[k].kind # "text"

OnlyText(m) == IF MarkerOnly(m) THEN MarkerOnlyText(m) ELSE TextOf(m.parts)

(* user_content refuses reasoning and the parts it cannot spell. *)
ResponsesRefusesUserPart(p) == p.kind \in {"thinking", "redacted"} \/ (p.kind = "unknown" /\ p.form # "audio")

(* assistant_text leaves reasoning out and refuses the rest. *)
ResponsesRefusesAssistantPart(p) == p.kind \in {"image", "unknown"}

ResponsesRefusesMessage(m) ==
    CASE m.role = "system" -> NotTextOnly(m)
      [] m.role = "user" -> \E k \in DOMAIN m.parts : ResponsesRefusesUserPart(m.parts[k])
      [] m.role = "tool" -> m.call = "none" \/ NotTextOnly(m)
      [] m.role = "assistant" ->
            \/ OpenAiLayoutRefused(m)
            \/ m.family # "openai" /\ \E k \in DOMAIN m.parts : ResponsesRefusesAssistantPart(m.parts[k])

CallItem(call) == Turn("item", <<CallBlock(call, call.arguments)>>)

OutputText(text) == Turn("assistant", <<Block("text", text)>>)

(* input_items: a turn with encrypted reasoning in layout order, another   *)
(* as its text, if any, and then its calls.                                *)
AssistantItems(m) ==
    IF m.family = "openai"
    THEN [k \in DOMAIN Named(m) |->
            LET ref == Named(m)[k]
            IN  CASE ref[1] = "item" -> Turn("item", <<Block("item", <<ItemsOf(m)[ref[2]]>>)>>)
                  [] ref[1] = "part" -> OutputText(m.parts[ref[2]].text)
                  [] ref[1] = "call" -> CallItem(m.calls[ref[2]])]
    ELSE (IF TextOf(m.parts) = <<>> THEN <<>> ELSE <<OutputText(TextOf(m.parts))>>)
            \o [k \in DOMAIN m.calls |-> CallItem(m.calls[k])]

InputItems(m) ==
    CASE m.role = "system" -> <<Turn("system", <<Block("text", OnlyText(m))>>)>>
      [] m.role = "user" -> <<Turn("user", [k \in DOMAIN m.parts |-> Block(m.parts[k].kind, m.parts[k].text)])>>
      [] m.role = "assistant" -> AssistantItems(m)
      [] m.role = "tool" -> <<Turn("item", <<ResultBlock(m.call, OnlyText(m))>>)>>

(* The leading system messages are the instructions. *)
Leading(messages) == {i \in DOMAIN messages : \A j \in 1 .. i : messages[j].role = "system"}

ResponsesReplayRefused(messages, words) ==
    \/ ClaudeFamily(messages)
    \/ OpenAiFamily(messages) /\ "reasoning_replay.openai.v1" \notin words

(* build_http_request and body_of. *)
ResponsesBody(messages, words) ==
    LET lead == Cardinality(Leading(messages))
    IN  IF ResponsesReplayRefused(messages, words) \/ \E i \in DOMAIN messages : ResponsesRefusesMessage(messages[i])
        THEN Refusal
        ELSE Body(IF lead = 0 THEN <<>>
                  ELSE <<Block("text", Joined([i \in 1 .. lead |-> OnlyText(messages[i])], <<"\n">>))>>,
                  FlatMap(InputItems, SubSeq(messages, lead + 1, Len(messages))))

(* response_of: every reasoning text a thinking part, then the text. *)
ResponsesAnswer(blocks) ==
    LET thoughts == SelectSeq(blocks, LAMBDA b : b.kind = "thinking")
        texts == SelectSeq(blocks, LAMBDA b : b.kind = "text")
        calls == SelectSeq(blocks, LAMBDA b : b.kind = "call")
        shape == ThinkingThenText([k \in DOMAIN thoughts |-> ContentPart("thinking", thoughts[k].text)],
                                  texts # <<>>, FlatMap(LAMBDA b : b.text, texts))
    IN  Answered(shape.content, shape.parts,
                 [k \in DOMAIN calls |-> ToolCall(calls[k].id, calls[k].name, calls[k].input)])
-----------------------------------------------------------------------------
(***************************************************************************)
(* The Gemini adapters' conversation,                                      *)
(* crates/south-component-conformance/src/gemini_text.rs.  The wire has no *)
(* call ids: a result goes back under the name of the function the call    *)
(* with its id named, and the adapter makes the ids up.                    *)
(***************************************************************************)

AllCalls(messages) == FlatMap(LAMBDA m : m.calls, messages)

Made(messages, id) == \E k \in DOMAIN AllCalls(messages) : AllCalls(messages)[k].id = id

(* tool_call_names: the name of the last call made under the id. *)
tool_call_names(messages, id) ==
    Last(SelectSeq(AllCalls(messages), LAMBDA call : call.id = id)).name

(* system_text_of *)
GeminiSystem(m) ==
    IF MarkerOnly(m) THEN <<Block("text", MarkerOnlyText(m))>>
    ELSE FlatMap(LAMBDA p : IF p.kind = "text" /\ p.text # <<>> THEN <<Block("text", p.text)>> ELSE <<>>, m.parts)

(* Arguments that are no object become the empty one. *)
GeminiArgs(call) == IF call.arguments \in Objects THEN call.arguments ELSE "braces"

GeminiCall(call) ==
    [Block("call", <<>>) EXCEPT !.name = call.name, !.input = GeminiArgs(call), !.signature = call.signature]

(* Mutant: every unsigned call gets the placeholder, also beside a signed  *)
(* one.                                                                    *)
CallsSignedEach(m) ==
    [k \in DOMAIN m.calls |-> IF m.calls[k].signature = "none" /\ m.role = "assistant"
                              THEN [GeminiCall(m.calls[k]) EXCEPT !.signature = "placeholder"]
                              ELSE GeminiCall(m.calls[k])]

(* An assistant turn none of whose calls is signed gets the placeholder on *)
(* the first one.                                                          *)
CallsSigned(m) ==
    [k \in DOMAIN m.calls |->
        IF m.role = "assistant" /\ k = 1 /\ \A j \in DOMAIN m.calls : m.calls[j].signature = "none"
        THEN [GeminiCall(m.calls[k]) EXCEPT !.signature = "placeholder"]
        ELSE GeminiCall(m.calls[k])]

GeminiTurnParts(m) == [k \in DOMAIN m.parts |-> Block(m.parts[k].kind, m.parts[k].text)] \o CallsSigned(m)

(* is_function_response_turn *)
ResponsesOnly(turn) ==
    /\ turn.role = "user" /\ turn.blocks # <<>>
    /\ \A k \in DOMAIN turn.blocks : turn.blocks[k].kind = "result"

(* A result joins the turn of results before it, else it starts one. *)
WithResult(turns, block) ==
    IF turns # <<>> /\ ResponsesOnly(Last(turns))
    THEN [turns EXCEPT ![Len(turns)].blocks = Append(@, block)]
    ELSE Append(turns, Turn("user", <<block>>))

GeminiResult(messages, m) ==
    [ResultBlock("", TextOf(WithoutMarkers(m).parts)) EXCEPT !.name = tool_call_names(messages, m.call)]

(* conversation_of, one message: a turn without parts is left out. *)
GeminiStep(messages, turns, m) ==
    CASE m.role = "system" -> turns
      [] m.role = "tool" -> WithResult(turns, GeminiResult(messages, m))
      [] OTHER -> IF GeminiTurnParts(m) = <<>> THEN turns
                  ELSE Append(turns, Turn(IF m.role = "assistant" THEN "model" ELSE "user", GeminiTurnParts(m)))

GeminiRefusesMessage(messages, m) ==
    IF m.role = "tool" THEN ~Made(messages, m.call)
    ELSE /\ m.role # "system"
         /\ \/ \E k \in DOMAIN m.parts : m.parts[k].kind = "unknown"
            \/ \E k \in DOMAIN m.calls : m.calls[k].name = "" \/ m.calls[k].signature = "empty"

(* refuse_foreign_reasoning_replay, body_of and conversation_of. *)
GeminiBody(messages) ==
    IF \/ ClaudeFamily(messages) \/ OpenAiFamily(messages)
       \/ \E i \in DOMAIN messages : GeminiRefusesMessage(messages, messages[i])
    THEN Refusal
    ELSE Body(FlatMap(LAMBDA m : IF m.role = "system" THEN GeminiSystem(m) ELSE <<>>, messages),
              FoldLeft(LAMBDA turns, m : GeminiStep(messages, turns, m), <<>>, messages))

----------------------------------------------------------------------------
(* parse_response. *)

(* synthetic_call_id: the call's position in its response, and its name. *)
synthetic_call_id(position, name) == "call_" \o ToString(position) \o "_" \o name

(* call_signature: present, it must be a non-empty string. *)
GeminiAnswerRefused(blocks) == \E k \in DOMAIN blocks : blocks[k].kind = "call" /\ blocks[k].signature = "empty"

GeminiAnswer(blocks) ==
    LET thoughts == SelectSeq(blocks, LAMBDA b : b.kind = "thinking")
        texts == SelectSeq(blocks, LAMBDA b : b.kind = "text")
        calls == SelectSeq(blocks, LAMBDA b : b.kind = "call")
        shape == ThinkingThenText([k \in DOMAIN thoughts |->
                                      [ContentPart("thinking", thoughts[k].text) EXCEPT !.signature = thoughts[k].signature]],
                                  texts # <<>>, FlatMap(LAMBDA b : b.text, texts))
    IN  Answered(shape.content, shape.parts,
                 [k \in DOMAIN calls |->
                    [ToolCall(synthetic_call_id(k - 1, calls[k].name), calls[k].name, calls[k].input) EXCEPT
                        !.signature = calls[k].signature]])
-----------------------------------------------------------------------------
(***************************************************************************)
(* The Kiro adapter's conversation,                                        *)
(* crates/south-component-conformance/src/reference_kiro.rs: the last      *)
(* message that is not a system one is the current message, the others are *)
(* the history, and the system text goes in front of the first user entry. *)
(* Reasoning has no slot on this wire and is dropped.                      *)
(***************************************************************************)

(* read_parts: an image is inline bytes of a known type, in a user turn. *)
KiroRefusesPart(p, side) == p.kind = "image" /\ (side = "assistant" \/ p.form # "inline")

ReadText(m) ==
    FlatMap(LAMBDA p : IF p.kind = "text" THEN p.text ELSE <<>>, m.parts)

Images(m) == FlatMap(LAMBDA p : IF p.kind = "image" THEN <<Block("image", p.text)>> ELSE <<>>, m.parts)

(* read_unmodelled: blocks sent verbatim by the first hop, by their type. *)
Unmodelled(m, form) == SelectSeq(m.parts, LAMBDA p : p.kind = "unknown" /\ p.form = form)

ReadResults(m) == [k \in DOMAIN Unmodelled(m, "tool_result") |->
                     ResultBlock(Unmodelled(m, "tool_result")[k].id, Unmodelled(m, "tool_result")[k].text)]

ReadUses(m) == [k \in DOMAIN Unmodelled(m, "tool_use") |->
                  CallBlock(Unmodelled(m, "tool_use")[k], "object")]

(* user_input and the assistant's entry. *)
KiroUser(text, images, results) == Turn("user", <<Block("text", text)>> \o images \o results)

KiroEntry(m) ==
    CASE m.role = "user" -> KiroUser(ReadText(m), Images(m), ReadResults(m))
      [] m.role = "tool" -> KiroUser(<<>>, <<>>, <<ResultBlock(m.call, TextOf(m.parts))>>)
      [] m.role = "assistant" ->
            Turn("assistant", <<Block("text", ReadText(m))>> \o ReadUses(m)
                                \o [k \in DOMAIN m.calls |-> CallBlock(m.calls[k], m.calls[k].arguments)])

(* current_of: a final assistant turn is sent as the current user message, *)
(* and its calls have no slot.                                             *)
KiroCurrent(m) == IF m.role = "assistant" THEN KiroUser(ReadText(m), <<>>, ReadResults(m)) ELSE KiroEntry(m)

KiroRefusesMessage(m) ==
    \/ m.role = "tool" /\ m.call \in {"none", ""}
    \/ m.role = "assistant" /\ \E k \in DOMAIN m.calls : m.calls[k].id = "" \/ m.calls[k].name = ""
    \/ m.role \in {"user", "assistant"} /\ \E k \in DOMAIN m.parts : KiroRefusesPart(m.parts[k], m.role)

(* system_text: the non-empty texts of the system messages, by line. *)
SystemTexts(messages) ==
    FlatMap(LAMBDA m : IF m.role = "system"
                       THEN FlatMap(LAMBDA p : IF p.kind = "text" /\ p.text # <<>> THEN <<p.text>> ELSE <<>>, m.parts)
                       ELSE <<>>,
            messages)

(* with_system *)
WithSystem(system, text) == IF text = <<>> THEN system ELSE system \o <<"\n", "\n">> \o text

(* The system text's entry: the first user entry of the history, else the  *)
(* current message.                                                        *)
SystemTarget(turns) ==
    IF \E i \in 1 .. Len(turns) - 1 : turns[i].role = "user"
    THEN CHOOSE i \in 1 .. Len(turns) - 1 : turns[i].role = "user" /\ \A j \in 1 .. i - 1 : turns[j].role # "user"
    ELSE Len(turns)

Merged(turns, texts) ==
    IF texts = <<>> THEN turns
    ELSE [turns EXCEPT ![SystemTarget(turns)].blocks[1].text = WithSystem(Joined(texts, <<"\n">>), @)]

(* body_of; attempt is the host's attempt_id: "minted", "absent" or        *)
(* "malformed".                                                            *)
KiroBody(messages, attempt) ==
    LET said == SelectSeq(messages, LAMBDA m : m.role # "system")
    IN  IF said = <<>> \/ attempt # "minted" \/ \E i \in DOMAIN said : KiroRefusesMessage(said[i]) THEN Refusal
        ELSE Body(<<>>, Merged([i \in DOMAIN said |-> IF i = Len(said) THEN KiroCurrent(said[i]) ELSE KiroEntry(said[i])],
                               SystemTexts(messages)))

(* parse_response: the stream's text and calls. *)
KiroAnswer(blocks) ==
    LET text == FlatMap(LAMBDA b : IF b.kind = "text" THEN b.text ELSE <<>>, blocks)
        calls == SelectSeq(blocks, LAMBDA b : b.kind = "call")
    IN  Answered(IF text = <<>> THEN "none" ELSE "text", IF text = <<>> THEN <<>> ELSE <<ContentPart("text", text)>>,
                 [k \in DOMAIN calls |-> ToolCall(calls[k].id, calls[k].name, calls[k].input)])
=============================================================================
