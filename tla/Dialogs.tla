------------------------------- MODULE Dialogs -------------------------------
(***************************************************************************)
(* What the two ends of a conversation make of the wire formats: clients   *)
(* write their history as a request and read an answer, upstreams write an *)
(* answer and read a request.  Both are external to the gateway.  Media    *)
(* are images.                                                             *)
(***************************************************************************)
EXTENDS Answers

-----------------------------------------------------------------------------
(* Entries of a dialog *)

\* An entry of a tool is the result of one call, whose id it has
Entry(role, thinking, content, calls, id, finish) ==
    [role |-> role, thinking |-> thinking, content |-> content, calls |-> calls,
     id |-> id, finish |-> finish]

\* What is said at a place in the dialog is told apart by that place; an answer has less
\* than ten calls
Content(kinds, n) ==
    (IF "text" \in kinds THEN <<Text(<<Phrase("text", n)>>)>> ELSE <<>>)
    \o (IF "media" \in kinds THEN <<Media(<<Phrase("media", n)>>)>> ELSE <<>>)

Spoken(kinds, place) == Entry("user", <<>>, Content(kinds, 10 * place), <<>>, NoId, "")
Result(kinds, id)    == Entry("tool", <<>>, Content(kinds, id), <<>>, id, "")

\* An answer of this shape: [thinking, text, args, finish]
Said(shape, place) ==
    Entry("assistant",
          IF shape.thinking THEN <<Phrase("thinking", place)>> ELSE <<>>,
          IF shape.text = "" THEN <<>> ELSE <<Text(<<Phrase(shape.text, place)>>)>>,
          [k \in DOMAIN shape.args |-> Call(10 * place + k, shape.args[k])],
          NoId, shape.finish)

Thought(t)  == IF t = <<>> THEN <<>> ELSE <<Thinking(t)>>
Uses(calls) == [k \in DOMAIN calls |-> ToolUse(calls[k].id, calls[k].args)]
EntryBlocks(e) ==
    IF e.role = "tool" THEN <<ToolResult(e.id, e.content)>>
    ELSE Thought(e.thinking) \o e.content \o Uses(e.calls)

-----------------------------------------------------------------------------
(* What clients write: their history as a request *)

Instructions == <<Text(<<Phrase("system", 1)>>), Text(<<Phrase("system", 2)>>)>>

ToChat(e) == ChatMessage(e.role, e.content, e.thinking, e.calls, e.id)
SystemToChat(b) == ChatMessage("system", <<b>>, <<>>, <<>>, NoId)

ToItems(e) ==
    IF e.role = "tool" THEN <<Item("function_call_output", "", e.content, e.id, "")>>
    ELSE (IF e.thinking = <<>> THEN <<>>
          ELSE <<Item("reasoning", "", <<Text(e.thinking)>>, NoId, "")>>)
         \o (IF e.content = <<>> THEN <<>> ELSE <<Item("message", e.role, e.content, NoId, "")>>)
         \o [k \in DOMAIN e.calls |->
                Item("function_call", "", <<>>, e.calls[k].id, e.calls[k].args)]

\* Results, and what the user adds to them, are one message of Anthropic
AddEntry(msgs, e) ==
    LET role == IF e.role = "assistant" THEN "assistant" ELSE "user"
        n    == Len(msgs)
    IN  IF n > 0 /\ msgs[n].role = role
          THEN [msgs EXCEPT ![n].content = @ \o EntryBlocks(e)]
          ELSE Append(msgs, [role |-> role, content |-> EntryBlocks(e)])
ToAnthropic(entries) ==
    LET msgs[k \in 0 .. Len(entries)] ==
            IF k = 0 THEN <<>> ELSE AddEntry(msgs[k - 1], entries[k])
    IN  msgs[Len(entries)]

Written(client, entries) ==
    CASE client = "chat" ->
           [system |-> <<>>,
            messages |-> <<SystemToChat(Instructions[1]), SystemToChat(Instructions[2])>>
                         \o [k \in DOMAIN entries |-> ToChat(entries[k])]]
      [] client = "responses" ->
           [system |-> <<Instructions[1]>>,
            messages |-> <<Item("message", "developer", <<Instructions[2]>>, NoId, "")>>
                         \o MapFlat(ToItems, entries)]
      [] client = "anthropic" ->
           [system |-> Instructions, messages |-> ToAnthropic(entries)]

(* What upstreams write: an answer *)
Replied(upstream, e) ==
    CASE upstream = "chat" ->
           [content |-> e.content, reasoning |-> e.thinking, calls |-> e.calls,
            finish |-> e.finish, usage |-> NoUsage]
      [] upstream = "responses" ->
           [output |-> ToItems(e), usage |-> NoUsage,
            status |-> IF e.finish = "length" THEN "incomplete" ELSE "completed"]
      [] upstream = "anthropic" ->
           [content |-> EntryBlocks(e), stop |-> FinishToStop(e.finish), usage |-> NoUsage]

-----------------------------------------------------------------------------
(* What is read.  ends are the protocols of both *)

Piece(kind, id, val) == [kind |-> kind, id |-> id, val |-> val]
Pieces(kind, id, text) == [k \in DOMAIN text |-> Piece(kind, id, text[k])]

\* Arguments cut off in the middle are no object, which Anthropic has for arguments
Args(ends, a) == IF "anthropic" \in ends THEN AsObject(a) ELSE AsText(a)

BlockPieces(ends, role, b) ==
    CASE b.type \in {"text", "media"} -> Pieces(role, NoId, b.text)
      [] b.type = "thinking"          -> Pieces("thinking", NoId, b.text)
      [] b.type = "tool_use"          -> <<Piece("call", b.id, Phrase(Args(ends, b.args), 0))>>
      [] b.type = "tool_result"       ->
           <<Piece("result", b.id, Phrase("starts", 0))>>
           \o Pieces("result", b.id, Joined(b.content))

Read(ends, role, blocks) == FlattenSeq([k \in DOMAIN blocks |-> BlockPieces(ends, role, blocks[k])])

\* A message or an item as blocks
Blocks(upstream, x) ==
    CASE upstream = "chat" ->
           IF x.role = "tool" THEN <<ToolResult(x.id, x.content)>>
           ELSE Thought(x.reasoning) \o x.content \o Uses(x.calls)
      [] upstream = "anthropic" -> x.content
      [] upstream = "responses" ->
           CASE x.type = "message"              -> x.content
             [] x.type = "reasoning"            -> <<Thinking(Joined(x.content))>>
             [] x.type = "function_call"        -> <<ToolUse(x.id, x.args)>>
             [] x.type = "function_call_output" -> <<ToolResult(x.id, x.content)>>

ReadMessages(ends, upstream, msgs) ==
    MapFlat(LAMBDA x : Read(ends, x.role, Blocks(upstream, x)), msgs)
ReadRequest(ends, upstream, wire) ==
    Read(ends, "system", wire.system) \o ReadMessages(ends, upstream, wire.messages)

\* The entry a client makes of an answer.  A Responses client learns only whether there
\* are calls to make
ReadAnswer(client, a) ==
    CASE client = "chat" -> Entry("assistant", a.reasoning, a.content, a.calls, NoId, a.finish)
      [] client = "anthropic" ->
           Entry("assistant", Joined(OfType(a.content, "thinking")), OfType(a.content, "text"),
                 CallsOf(a.content), NoId, StopToFinish(a.stop))
      [] client = "responses" ->
           LET c == ParseResponsesAnswer(a)
           IN  Entry("assistant", c.reasoning, NonEmpty(c.text), c.calls, NoId, c.finish)
=============================================================================
