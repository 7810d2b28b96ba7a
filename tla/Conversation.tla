---------------------------- MODULE Conversation ----------------------------
(***************************************************************************)
(* A conversation carried from turn to turn and from provider to provider: *)
(* the caller keeps the canonical messages, each turn is built for some    *)
(* dialect and model, and the answer the adapter reads is appended to what *)
(* the next turn, of that dialect or of another, is built from.            *)
(*                                                                         *)
(* notes is a history variable: for each message, the blocks the upstream  *)
(* really sent, the dialect that read them, and whether the caller changed *)
(* the message before sending it back.                                     *)
(***************************************************************************)
EXTENDS TextRequests

CONSTANTS Says,           \* the messages a caller may add itself
          Targets,        \* [dialect, words, login, attempt]
          Answers(_, _),  \* what an upstream of a dialect may answer, by how many answers came before
          Outputs(_),     \* the parts of a tool's result, by how many messages came before
          Plans,          \* the shapes of conversation explored: sequences of kinds of message
          MaxEdits

VARIABLES history, notes, target, sent, pc

conversationVars == <<history, notes, target, sent, pc>>

Claudes == {"anthropic", "converse"}

BodyFor(t, messages) ==
    CASE t.dialect = "anthropic" -> AnthropicBody(messages, t.words, t.login)
      [] t.dialect = "converse" -> ConverseBody(messages, t.words)
      [] t.dialect = "chat" -> ChatBody(messages, t.words)
      [] t.dialect = "responses" -> ResponsesBody(messages, t.words)
      [] t.dialect = "gemini" -> GeminiBody(messages)
      [] t.dialect = "kiro" -> KiroBody(messages, t.attempt)

AnswerOf(dialect, blocks) ==
    CASE dialect \in Claudes -> ClaudeAnswer(blocks)
      [] dialect = "chat" -> ChatAnswer(blocks)
      [] dialect = "responses" -> ResponsesAnswer(blocks)
      [] dialect = "gemini" -> GeminiAnswer(blocks)
      [] dialect = "kiro" -> KiroAnswer(blocks)

NoTarget == CHOOSE t \in Targets : TRUE

Own == [from |-> "caller", blocks |-> <<>>, edited |-> FALSE]

ConversationInit ==
    /\ history = <<>> /\ notes = <<>> /\ pc = "compose" /\ sent = Refusal
    /\ target = NoTarget

Kind(message, note) == IF note.from = "caller" THEN message.role ELSE "answer"

(* Appends a message, within the plans. *)
Add(message, note) ==
    /\ \E plan \in Plans : IsPrefix(Append([i \in DOMAIN history |-> Kind(history[i], notes[i])], Kind(message, note)), plan)
    /\ history' = Append(history, message) /\ notes' = Append(notes, note)

(* The caller adds a message of its own, or a turn it brings from a client. *)
Say(message) ==
    /\ pc = "compose"
    /\ Add(message, Own)
    /\ UNCHANGED <<target, sent, pc>>

(* A tool's result, for any call of the conversation and in any order. *)
Return(id, parts) ==
    /\ pc = "compose"
    /\ Add([Message("tool", "parts", parts) EXCEPT !.call = id], Own)
    /\ UNCHANGED <<target, sent, pc>>

Send(t) ==
    /\ pc = "compose" /\ history # <<>>
    /\ target' = t /\ sent' = BodyFor(t, history) /\ pc' = "sent"
    /\ UNCHANGED <<history, notes>>

Answer(blocks) ==
    /\ pc = "sent" /\ ~sent.refused
    /\ ~(target.dialect = "gemini" /\ GeminiAnswerRefused(blocks))
    /\ Add(AnswerOf(target.dialect, blocks), [from |-> target.dialect, blocks |-> blocks, edited |-> FALSE])
    /\ pc' = "compose" /\ target' = NoTarget /\ sent' = Refusal

(* The attempt is refused here or fails upstream; the caller may route it  *)
(* elsewhere.                                                              *)
Fail ==
    /\ pc = "sent" /\ pc' = "compose" /\ target' = NoTarget /\ sent' = Refusal
    /\ UNCHANGED <<history, notes>>

Edits == Cardinality({i \in DOMAIN notes : notes[i].edited})

(* What a caller may do to a marked turn it has just stored. *)
Edited(m) ==
    {[m EXCEPT !.layout = {}],
     [m EXCEPT !.family = "openai"],
     [m EXCEPT !.layout = {Append(LayoutOf(m), LayoutOf(m)[1])}],
     [m EXCEPT !.layout = {Tail(LayoutOf(m))}],
     [m EXCEPT !.parts = IF @ = <<>> THEN @ ELSE Front(@)],
     [m EXCEPT !.layout = {Reverse(LayoutOf(m))}]}

Edit(i) ==
    /\ pc = "compose" /\ Edits < MaxEdits /\ history[i].family # "none" /\ history[i].layout # {}
    /\ \E m \in Edited(history[i]) : history' = [history EXCEPT ![i] = m]
    /\ notes' = [notes EXCEPT ![i].edited = TRUE]
    /\ UNCHANGED <<target, sent, pc>>

CallIds == {AllCalls(history)[k].id : k \in DOMAIN AllCalls(history)} \cup {"unknown"}

AnswersBefore == Cardinality({i \in DOMAIN notes : notes[i].from # "caller"})

ConversationNext ==
    \/ \E m \in Says : Say(m)
    \/ \E id \in CallIds, parts \in Outputs(Len(history)) : Return(id, parts)
    \/ \E t \in Targets : Send(t)
    \/ \E blocks \in Answers(target.dialect, AnswersBefore) : Answer(blocks)
    \/ Fail
    \/ \E i \in DOMAIN history \cap {Len(history)} : Edit(i)

----------------------------------------------------------------------------
(* The properties. *)

BlocksOf(body) == FlatMap(LAMBDA t : t.blocks, body.turns)

(* The assistant messages that become a turn: the Converse adapter leaves  *)
(* out one without blocks, the Gemini adapter one without parts.           *)
Silent(m) ==
    \/ target.dialect = "converse" /\ ~HasMarkers(m) /\ m.calls = <<>> /\ TextBlocks(m, {}) = <<>>
    \/ target.dialect = "gemini" /\ m.calls = <<>> /\ m.parts = <<>>

Speaking == SelectSeq([i \in DOMAIN history |-> i], LAMBDA i : history[i].role = "assistant" /\ ~Silent(history[i]))

AssistantTurns == SelectSeq(sent.turns, LAMBDA t : t.role = "assistant")

(* A turn that reasoned goes back to a Claude model block for block as the *)
(* upstream sent it, signatures included and in its order, on either of    *)
(* the two wires and whichever of them answered; and a turn whose markers  *)
(* the caller changed is refused or still holds every part and every call  *)
(* exactly once.  (parse_response writes the layout, validated_layout      *)
(* checks it turns later, conversation_of follows it.)                     *)
ReplayedVerbatim ==
    pc = "sent" /\ ~sent.refused /\ target.dialect \in Claudes =>
        /\ Len(AssistantTurns) = Len(Speaking)
        /\ \A k \in DOMAIN Speaking :
              LET m == history[Speaking[k]]
                  blocks == AssistantTurns[k].blocks
              IN  m.family = "claude" =>
                    IF ~notes[Speaking[k]].edited THEN blocks = Known(notes[Speaking[k]].blocks)
                    ELSE /\ Len(blocks) = Len(m.parts) + Len(m.calls)
                         /\ \A i \in DOMAIN m.parts : \E j \in DOMAIN blocks :
                                blocks[j] = [Block(m.parts[i].kind, m.parts[i].text) EXCEPT !.signature = m.parts[i].signature]
                         /\ \A i \in DOMAIN m.calls : \E j \in DOMAIN blocks : blocks[j].id = m.calls[i].id

(* Where one provider's opaque reasoning may go: a Claude signature only   *)
(* to a Claude wire and a model that declares the replay, an encrypted     *)
(* reasoning item only to a Responses model that does, a Gemini call's     *)
(* signature only back to Gemini and on that call, where the placeholder   *)
(* stands only if the whole turn is unsigned.  Redacted thinking goes to   *)
(* the same Claude models, and, out of a turn that carries no replay       *)
(* markers, to Gemini, whose adapter sends it as a thoughtSignature        *)
(* (gemini_text.rs, part).  A replay carrier on another wire refuses the   *)
(* request; the Kiro wire, which has no slot for reasoning, drops it.      *)
OpaqueStaysHome ==
    pc = "sent" /\ ~sent.refused =>
        /\ \A k \in DOMAIN BlocksOf(sent) :
              LET b == BlocksOf(sent)[k]
              IN  /\ b.signature = "claude" =>
                        target.dialect \in Claudes /\ "reasoning_replay.claude.v1" \in target.words
                  /\ b.kind = "redacted" =>
                        \/ target.dialect \in Claudes /\ "reasoning_replay.claude.v1" \in target.words
                        \/ /\ target.dialect = "gemini"
                           /\ \E i \in DOMAIN history :
                                 /\ ~HasMarkers(history[i])
                                 /\ \E j \in DOMAIN history[i].parts :
                                       history[i].parts[j].kind = "redacted" /\ history[i].parts[j].text = b.text
                  /\ b.kind = "item" =>
                        target.dialect = "responses" /\ "reasoning_replay.openai.v1" \in target.words
                  /\ b.signature \in {"gemini", "placeholder"} => target.dialect = "gemini" /\ b.kind = "call"
        /\ ClaudeFamily(history) => target.dialect \in Claudes \cup {"kiro"}
        /\ OpenAiFamily(history) => target.dialect \in {"responses", "kiro"}
        /\ target.dialect = "gemini" =>
              LET spoke == SelectSeq(sent.turns, LAMBDA t : t.role = "model")
              IN  /\ Len(spoke) = Len(Speaking)
                  /\ \A k \in DOMAIN spoke :
                        LET calls == SelectSeq(spoke[k].blocks, LAMBDA b : b.kind = "call")
                            made == history[Speaking[k]].calls
                        IN  /\ \A j \in DOMAIN calls :
                                  calls[j].signature = made[j].signature \/ calls[j].signature = "placeholder"
                            /\ (\E j \in DOMAIN calls : calls[j].signature = "placeholder")
                                  => \A i \in DOMAIN made : made[i].signature = "none"
                            /\ made # <<>> => \E j \in DOMAIN calls : calls[j].signature # "none"

SystemWords == UNION {ToSet(TextOf(history[i].parts)) : i \in {j \in DOMAIN history : history[j].role = "system"}}

Separators == {"\n", "identity"}

Atom(what, word) == [what |-> what, word |-> word, id |-> "", name |-> "", text |-> <<>>, input |-> ""]

Words(text) == SelectSeq(text, LAMBDA w : w \notin SystemWords \cup Separators)

WordAtoms(text) == [k \in DOMAIN Words(text) |-> Atom("text", Words(text)[k])]

PartAtoms(kind, text) ==
    IF kind = "text" THEN WordAtoms(text)
    ELSE IF kind \in {"image", "unknown"} THEN <<Atom(kind, text[1])>> ELSE <<>>

(* The Gemini wire keys calls and results by name, without ids. *)
CallAtom(call, input) ==
    [Atom("call", "") EXCEPT
        !.id = IF target.dialect = "gemini" THEN "" ELSE call.id, !.name = call.name, !.input = input]

(* Arguments arrive as the model wrote them, but for the two wires that    *)
(* take an object only: Gemini's gets {} for whatever is none, Converse's  *)
(* for an empty text (and refuses a broken one).                           *)
Arriving(arguments) ==
    IF \/ target.dialect = "gemini" /\ arguments \in {"empty", "broken"}
       \/ target.dialect = "converse" /\ arguments = "empty"
    THEN "braces"
    ELSE arguments

ResultAtom(m) ==
    [Atom("result", "") EXCEPT
        !.id = IF target.dialect = "gemini" THEN "" ELSE m.call,
        !.name = IF target.dialect = "gemini" THEN tool_call_names(history, m.call) ELSE "",
        !.text = Words(TextOf(m.parts))]

(* What the conversation says, a message at a time: its text and what it   *)
(* shows, then its calls, then its result.  The Converse and Kiro wires    *)
(* have no slot for a part the canonical form does not model, but for a    *)
(* tool result a Kiro user turn quotes or a call an assistant turn does,   *)
(* and the Kiro wire none for the calls of a final assistant turn.         *)
SaidBy(i) ==
    LET m == history[i]
        slot(p) == p.kind # "unknown" \/ target.dialect \notin {"converse", "kiro"}
        quoted(form) == IF target.dialect = "kiro" THEN SelectSeq(m.parts, LAMBDA p : p.form = form) ELSE <<>>
    IN  CASE m.role = "system" -> <<>>
          [] m.role = "tool" ->
                (IF target.dialect = "chat" THEN FlatMap(LAMBDA p : IF p.kind = "image" THEN PartAtoms(p.kind, p.text) ELSE <<>>, m.parts)
                 ELSE <<>>) \o <<ResultAtom(m)>>
          [] OTHER -> FlatMap(LAMBDA p : IF slot(p) THEN PartAtoms(p.kind, p.text) ELSE <<>>, m.parts)
                        \o (IF target.dialect = "kiro" /\ \A j \in i + 1 .. Len(history) : history[j].role = "system"
                            THEN <<>>
                            ELSE FlatMap(LAMBDA p : <<CallAtom(p, "object")>>, IF m.role = "user" THEN <<>> ELSE quoted("tool_use"))
                                   \o FlatMap(LAMBDA c : <<CallAtom(c, Arriving(c.arguments))>>, m.calls))
                        \o FlatMap(LAMBDA p : <<[Atom("result", "") EXCEPT !.id = p.id, !.text = Words(p.text)]>>,
                                   IF m.role = "user" THEN quoted("tool_result") ELSE <<>>)

CarriedBy(turn) ==
    FlatMap(LAMBDA b : PartAtoms(b.kind, b.text), turn.blocks)
        \o FlatMap(LAMBDA b : IF b.kind = "call" THEN <<CallAtom(b, b.input)>> ELSE <<>>, turn.blocks)
        \o FlatMap(LAMBDA b : IF b.kind = "result"
                              THEN <<[Atom("result", "") EXCEPT !.id = b.id, !.name = b.name, !.text = Words(b.text)]>>
                              ELSE <<>>, turn.blocks)

SystemSaid == FlatMap(LAMBDA m : IF m.role = "system" THEN TextOf(m.parts) ELSE <<>>, history)

SystemCarried ==
    SelectSeq(FlatMap(LAMBDA b : b.text, sent.system \o SelectSeq(BlocksOf(sent), LAMBDA b : b.kind = "text")),
              LAMBDA w : w \in SystemWords)

HasResult(turn) == \E k \in DOMAIN turn.blocks : turn.blocks[k].kind = "result"

(* A request that is built says what the conversation said: every text,    *)
(* picture, call and result once and in order, and every system text, on   *)
(* each of the six wires, whichever of them the answers came from, a call  *)
(* with its name and the arguments Arriving allows for.  On the Converse   *)
(* wire a result follows a call the body announced, and the       *)
(* results of one batch share a user message, as they do on Gemini's.      *)
ConversationKept ==
    pc = "sent" /\ ~sent.refused /\ Edits = 0 =>
        /\ FlatMap(CarriedBy, sent.turns) = FlatMap(SaidBy, [i \in DOMAIN history |-> i])
        /\ SystemCarried = SystemSaid
        /\ target.dialect = "converse" =>
              \A j \in DOMAIN sent.turns : \A k \in DOMAIN sent.turns[j].blocks :
                  sent.turns[j].blocks[k].kind = "result" =>
                      \E i \in 1 .. j - 1 : \E n \in DOMAIN sent.turns[i].blocks :
                          /\ sent.turns[i].blocks[n].kind = "call"
                          /\ sent.turns[i].blocks[n].id = sent.turns[j].blocks[k].id
        /\ (\/ target.dialect = "gemini"
            \/ target.dialect = "converse" /\ \A i \in DOMAIN history : ~(history[i].role = "assistant" /\ Silent(history[i])))
           => \A j \in 1 .. Len(sent.turns) - 1 : ~(HasResult(sent.turns[j]) /\ HasResult(sent.turns[j + 1]))
=============================================================================
