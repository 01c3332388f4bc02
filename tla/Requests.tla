------------------------------ MODULE Requests ------------------------------
(***************************************************************************)
(* Requests of three protocols and their conversion: a parser per protocol *)
(* into translate.Request, and a builder per protocol from it.             *)
(*                                                                         *)
(* A text is a sequence of phrases, joined without separators.  What JSON  *)
(* writes as a string or as a list of parts is a sequence of blocks; where *)
(* the code tells the two apart, a string is what has only text in it.     *)
(***************************************************************************)
EXTENDS Integers, Sequences, SequencesExt, Picks

NoId == 0

Phrase(kind, n) == [kind |-> kind, n |-> n]
Placeholder == Phrase("placeholder", 0)  \* "Tool returned media attachments; ..."
Label(id)   == Phrase("label", id)       \* "Tool output attachments for call ..."
Raw         == Phrase("raw", 0)          \* the JSON text of a value in place of its content

\* translate.Block; content is that of a tool's result
Block(type, text, id, args, content) ==
    [type |-> type, text |-> text, id |-> id, args |-> args, content |-> content]

Text(t)                 == Block("text", t, NoId, "", <<>>)
Media(t)                == Block("media", t, NoId, "", <<>>)
Thinking(t)             == Block("thinking", t, NoId, "", <<>>)
ToolUse(id, args)       == Block("tool_use", <<>>, id, args, <<>>)
ToolResult(id, content) == Block("tool_result", <<>>, id, "", content)

OfType(blocks, type)  == At(blocks, {k \in DOMAIN blocks : blocks[k].type = type})
Without(blocks, type) == At(blocks, {k \in DOMAIN blocks : blocks[k].type # type})
Joined(blocks)       == FlattenSeq([k \in DOMAIN blocks |-> blocks[k].text])
TextOf(blocks)       == Joined(OfType(blocks, "text"))
NonEmpty(t)          == IF t = <<>> THEN <<>> ELSE <<Text(t)>>
MapFlat(Op(_), s)    == FlattenSeq([k \in DOMAIN s |-> Op(s[k])])

\* Arguments of a tool: an object, an empty one, none at all, or a text that was cut off
Arguments == {"full", "{}", "", "cut"}
AsText(a)   == IF a = "" THEN "{}" ELSE a
AsObject(a) == IF a = "full" THEN a ELSE "{}"

\* translate.Message and translate.Request (its settings are further down)
Message(role, content, text, id) ==
    [role |-> role, content |-> content, text |-> text, id |-> id]
Request(system, messages) == [system |-> system, messages |-> messages]

-----------------------------------------------------------------------------
(* Chat Completions: messages that carry reasoning and tool calls apart *)

ChatMessage(role, content, reasoning, calls, id) ==
    [role |-> role, content |-> content, reasoning |-> reasoning,
     calls |-> calls, id |-> id]
Call(id, args) == [id |-> id, args |-> args]

\* rebuildOpenAIMessage
ParseChatMessage(m) ==
    LET said  == m.content
        calls == [k \in DOMAIN m.calls |-> ToolUse(m.calls[k].id, m.calls[k].args)]
        all   == IF m.role = "assistant"
                   THEN (IF m.reasoning = <<>> THEN <<>> ELSE <<Thinking(m.reasoning)>>)
                        \o said \o calls
                   ELSE said
    IN  Message(m.role, all, TextOf(all), IF m.role = "tool" THEN m.id ELSE NoId)

\* parseOpenAICompletionsRequest with extractSystem
ParseChat(wire) ==
    LET all == [k \in DOMAIN wire.messages |-> ParseChatMessage(wire.messages[k])]
        sys == At(all, {k \in DOMAIN all : all[k].role = "system"})
    IN  Request(MapFlat(LAMBDA m : NonEmpty(m.text), sys),
                At(all, {k \in DOMAIN all : all[k].role # "system"}))

\* Mutant: the attachments of a result follow it at once
AddResultMediaAtOnce(st, id, blocks, fallback) ==
    LET media == OfType(blocks, "media")
        text  == IF TextOf(blocks) # <<>> THEN TextOf(blocks) ELSE fallback
        shown == IF text = <<>> /\ media # <<>> THEN <<Placeholder>> ELSE text
        tool  == ChatMessage("tool", NonEmpty(shown), <<>>, <<>>, id)
        user  == ChatMessage("user", <<Text(<<Label(id)>>)>> \o media, <<>>, <<>>, NoId)
    IN  [st EXCEPT !.out = @ \o (IF media = <<>> THEN <<tool>> ELSE <<tool, user>>)]

\* Mutant: one label for all attachments that wait
AddResultLabelOnce(st, id, blocks, fallback) ==
    LET media == OfType(blocks, "media")
        text  == IF TextOf(blocks) # <<>> THEN TextOf(blocks) ELSE fallback
        label == IF st.pending = <<>> THEN <<Text(<<Label(id)>>)>> ELSE <<>>
    IN  [out     |-> Append(st.out, ChatMessage("tool", NonEmpty(text), <<>>, <<>>, id)),
         pending |-> IF media = <<>> THEN st.pending ELSE st.pending \o label \o media]

\* appendToolResult: a tool's message may hold text only, so that media wait for the
\* next message of the user, under a label that names the call
AddResult(st, id, blocks, fallback) ==
    LET media == OfType(blocks, "media")
        text  == IF TextOf(blocks) # <<>> THEN TextOf(blocks) ELSE fallback
        shown == IF text = <<>> /\ media # <<>> THEN <<Placeholder>> ELSE text
    IN  [out     |-> Append(st.out, ChatMessage("tool", NonEmpty(shown), <<>>, <<>>, id)),
         pending |-> IF media = <<>> THEN st.pending
                     ELSE st.pending \o <<Text(<<Label(id)>>)>> \o media]

FlushMedia(st) ==
    IF st.pending = <<>> THEN st
    ELSE [out     |-> Append(st.out, ChatMessage("user", st.pending, <<>>, <<>>, NoId)),
          pending |-> <<>>]

\* toolResultBlocks and toolResultText, on the content of an Anthropic result: what holds
\* no block, or no text, is replaced by its JSON
ResultBlocks(content) == IF content = <<>> THEN <<Text(<<Raw>>)>> ELSE content
ResultText(content) ==
    IF TextOf(content) # <<>> \/ content = <<>> THEN TextOf(content) ELSE <<Raw>>

AssistantToChat(m) ==
    LET uses == OfType(m.content, "tool_use")
    IN  ChatMessage("assistant",
                    IF m.content = <<>> THEN NonEmpty(m.text)
                      ELSE Without(Without(m.content, "tool_use"), "thinking"),
                    Joined(OfType(m.content, "thinking")),
                    [k \in DOMAIN uses |-> Call(uses[k].id, AsText(uses[k].args))],
                    NoId)

\* A user's message: results of tools become messages of their own, ahead of the rest
AddResults(st, results) ==
    LET added[k \in 0 .. Len(results)] ==
            IF k = 0 THEN st
            ELSE AddResult(added[k - 1], results[k].id, ResultBlocks(results[k].content),
                           ResultText(results[k].content))
    IN  added[Len(results)]
UserToChat(st, m) ==
    LET results == OfType(m.content, "tool_result")
        own     == IF m.content = <<>> THEN NonEmpty(m.text)
                   ELSE Without(m.content, "tool_result")
        after   == AddResults(st, results)
    IN  IF results # <<>> /\ own = <<>> THEN after
        ELSE [out     |-> Append(after.out, ChatMessage("user", after.pending \o own,
                                                        <<>>, <<>>, NoId)),
              pending |-> <<>>]

\* One turn of the loop over req.Messages
MessageToChat(st, m) ==
    CASE m.role = "tool"      -> AddResult(st, m.id, m.content, m.text)
      [] m.role = "user"      -> UserToChat(st, m)
      [] m.role = "assistant" ->
           LET flushed == FlushMedia(st)
           IN  [flushed EXCEPT !.out = Append(@, AssistantToChat(m))]

\* buildOpenAICompletionsRequest
MessagesToChat(st, msgs) ==
    LET done[k \in 0 .. Len(msgs)] == IF k = 0 THEN st ELSE MessageToChat(done[k - 1], msgs[k])
    IN  done[Len(msgs)]
BuildChat(req) ==
    LET head == IF req.system = <<>> THEN <<>>
                ELSE <<ChatMessage("system", req.system, <<>>, <<>>, NoId)>>
        all  == MessagesToChat([out |-> head, pending |-> <<>>], req.messages)
    IN  [system |-> <<>>, messages |-> FlushMedia(all).out]

-----------------------------------------------------------------------------
(* Responses: a list of items *)

Item(type, role, content, id, args) ==
    [type |-> type, role |-> role, content |-> content, id |-> id, args |-> args]

\* Mutant: every item starts a message of its own
AppendAssistantApart(msgs, blocks) ==
    IF blocks = <<>> THEN msgs
    ELSE Append(msgs, Message("assistant", blocks, TextOf(blocks), NoId))

\* appendAssistantBlocks: neighbouring items of the assistant are one message
AppendAssistant(msgs, blocks) ==
    LET n   == Len(msgs)
        all == msgs[n].content \o blocks
    IN  IF blocks = <<>> THEN msgs
        ELSE IF n > 0 /\ msgs[n].role = "assistant"
          THEN [msgs EXCEPT ![n] = Message("assistant", all, TextOf(all), NoId)]
          ELSE Append(msgs, Message("assistant", blocks, TextOf(blocks), NoId))

IsString(content) == Without(content, "text") = <<>>

ParseItem(msgs, i) ==
    CASE i.type = "reasoning" ->
           AppendAssistant(msgs, IF i.content = <<>> THEN <<>>
                                 ELSE <<Thinking(Joined(i.content))>>)
      [] i.type = "function_call" ->
           AppendAssistant(msgs, <<ToolUse(i.id, i.args)>>)
      [] i.type = "function_call_output" ->
           Append(msgs, IF IsString(i.content)
                          THEN Message("tool", <<>>, TextOf(i.content), i.id)
                          ELSE Message("tool", i.content, <<>>, i.id))
      [] i.type = "message" /\ i.role = "assistant" -> AppendAssistant(msgs, i.content)
      [] i.type = "message" /\ i.role = "user" ->
           Append(msgs, Message("user", i.content, TextOf(i.content), NoId))

\* parseOpenAIResponsesRequest; items of the system or the developer join the instructions
ParseItems(items) ==
    LET msgs[k \in 0 .. Len(items)] == IF k = 0 THEN <<>> ELSE ParseItem(msgs[k - 1], items[k])
    IN  msgs[Len(items)]
ParseResponses(wire) ==
    LET items   == wire.messages
        systems == {k \in DOMAIN items : items[k].role \in {"system", "developer"}}
    IN  Request(wire.system \o MapFlat(LAMBDA i : i.content, At(items, systems)),
                ParseItems(At(items, DOMAIN items \ systems)))

\* toolMessageOutput
MessageOutput(m) == IF m.content = <<>> THEN NonEmpty(m.text) ELSE m.content

FlushItem(st, role) ==
    IF st.parts = <<>> THEN st
    ELSE [items |-> Append(st.items, Item("message", role, st.parts, NoId, "")),
          parts |-> <<>>]

\* Mutant: the text of a message goes first even if it is among its blocks
FirstTextAgain(m) == NonEmpty(m.text)

FirstText(m) == IF OfType(m.content, "text") = <<>> THEN NonEmpty(m.text) ELSE <<>>

\* The loop over the blocks of a message: tool calls, results and thinking are items of
\* their own, what is between them is a message
AddBlock(st, role, b) ==
    LET done == FlushItem(st, role)
    IN  CASE b.type \in {"text", "media"} -> [st EXCEPT !.parts = Append(@, b)]
          [] b.type = "thinking" ->
               [done EXCEPT !.items =
                   Append(@, Item("reasoning", "", <<Text(b.text)>>, NoId, ""))]
          [] b.type = "tool_use" ->
               [done EXCEPT !.items =
                   Append(@, Item("function_call", "", <<>>, b.id, AsText(b.args)))]
          [] b.type = "tool_result" ->
               [done EXCEPT !.items =
                   Append(@, Item("function_call_output", "", b.content, b.id, ""))]
AddBlocks(first, role, blocks) ==
    LET added[k \in 0 .. Len(blocks)] ==
            IF k = 0 THEN [items |-> <<>>, parts |-> first]
            ELSE AddBlock(added[k - 1], role, blocks[k])
    IN  added[Len(blocks)]
MessageToItems(m) ==
    IF m.role = "tool"
      THEN <<Item("function_call_output", "", MessageOutput(m), m.id, "")>>
      ELSE FlushItem(AddBlocks(FirstText(m), m.role, m.content), m.role).items

\* buildOpenAIResponsesRequest
BuildResponses(req) ==
    [system |-> NonEmpty(Joined(req.system)), messages |-> MapFlat(MessageToItems, req.messages)]

-----------------------------------------------------------------------------
(* Anthropic: messages of blocks *)

\* parseAnthropicRequest
ParseAnthropic(wire) ==
    LET Parse(m) == IF IsString(m.content)
                      THEN Message(m.role, <<>>, TextOf(m.content), NoId)
                      ELSE Message(m.role, m.content, TextOf(m.content), NoId)
    IN  Request(wire.system, [k \in DOMAIN wire.messages |-> Parse(wire.messages[k])])

\* The text of a message goes first and once, whatever block it came in
MessageToAnthropic(m) ==
    LET Convert(b) == CASE b.type = "text"     -> IF m.text = <<>> THEN <<b>> ELSE <<>>
                        [] b.type = "tool_use" -> <<ToolUse(b.id, AsObject(b.args))>>
                        [] OTHER               -> <<b>>
    IN  [role    |-> m.role,
         content |-> IF m.role = "tool" THEN <<ToolResult(m.id, MessageOutput(m))>>
                     ELSE NonEmpty(m.text) \o MapFlat(Convert, m.content)]

\* buildAnthropicRequest
BuildAnthropic(req) ==
    [system   |-> req.system,
     messages |-> [k \in DOMAIN req.messages |-> MessageToAnthropic(req.messages[k])]]

-----------------------------------------------------------------------------

ParseRequest(from, wire) ==
    CASE from = "chat"      -> ParseChat(wire)
      [] from = "responses" -> ParseResponses(wire)
      [] from = "anthropic" -> ParseAnthropic(wire)

ConvertRequest(from, to, wire) ==
    LET req == ParseRequest(from, wire)
    IN  CASE to = "chat"      -> BuildChat(req)
          [] to = "responses" -> BuildResponses(req)
          [] to = "anthropic" -> BuildAnthropic(req)

-----------------------------------------------------------------------------
(* Settings: what a request demands of its answer.  0 and "" are fields left out, token
   counts are in thousands *)

Settings(limit, effort, thinking, budget, choice, parallel) ==
    [limit |-> limit, effort |-> effort, thinking |-> thinking, budget |-> budget,
     choice |-> choice, parallel |-> parallel]

EffortOf(budget) == CASE budget >= 30 -> "high" [] budget \in 8 .. 29 -> "medium"
                      [] budget < 8   -> "low"
BudgetOf(effort) == CASE effort = "high" -> 32 [] effort = "medium" -> 8
                      [] effort \notin {"high", "medium"} -> 2

\* tool_choice of Anthropic in the words of OpenAI
ChoiceOf(choice) == CASE choice = "any"  -> "required"
                      [] choice = "tool" -> "function"
                      [] OTHER           -> choice

ParseSettings(from, s) ==
    IF from # "anthropic" THEN s
    ELSE [s EXCEPT !.effort = IF s.thinking THEN EffortOf(s.budget) ELSE "",
                   !.choice = ChoiceOf(@)]

\* Mutant: a budget is asked for only where the client gave one
AnthropicSettingsBudgetOnly(s, fallback) ==
    Settings(IF s.limit > 0 THEN s.limit ELSE fallback, "", s.thinking, s.budget, "", "")

\* Anthropic demands a limit; tool_choice and the choice of parallel calls are not passed on
AnthropicSettings(s, fallback) ==
    LET budget == CASE s.thinking                      -> IF s.budget > 0 THEN s.budget ELSE 8
                    [] ~s.thinking /\ s.effort # ""    -> BudgetOf(s.effort)
                    [] ~s.thinking /\ s.effort = ""    -> 0
    IN  Settings(IF s.limit > 0 THEN s.limit ELSE fallback, "", budget > 0, budget, "", "")

\* normalizeCompletionsReasoningEffort: the model hy3 knows three efforts
CompletionsEffort(effort, hy3) ==
    CASE ~hy3 \/ effort \in {"", "low"}                          -> effort
      [] hy3 /\ effort \in {"none", "minimal", "no_think"}       -> "no_think"
      [] hy3 /\ effort \notin {"", "low", "none", "minimal", "no_think"} -> "high"

\* WithAnthropicMaxTokensFallback gives the model's own limit, 4096 is the default
DefaultLimit == 4
ConvertSettings(from, to, s, modelLimit, hy3) ==
    LET req == ParseSettings(from, s)
    IN  CASE to = "chat"      -> Settings(req.limit, CompletionsEffort(req.effort, hy3), FALSE, 0,
                                          req.choice, req.parallel)
          [] to = "responses" -> Settings(req.limit, req.effort, FALSE, 0, req.choice,
                                          req.parallel)
          [] to = "anthropic" -> AnthropicSettings(req, IF modelLimit > 0 THEN modelLimit
                                                        ELSE DefaultLimit)
=============================================================================
