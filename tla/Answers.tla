------------------------------ MODULE Answers -------------------------------
(***************************************************************************)
(* Whole answers of three protocols, their conversion through              *)
(* translate.Response, and the follow-up that a Responses client is asked  *)
(* for when a model stops at announcing a tool call.                       *)
(*                                                                         *)
(* An upstream answers with one choice: n is not passed on.                *)
(***************************************************************************)
EXTENDS Requests

\* Usage: 0 is a field left out
Usage(in, out, total, cached, written, reasoning) ==
    [in |-> in, out |-> out, total |-> total, cached |-> cached,
     written |-> written, reasoning |-> reasoning]
NoUsage  == Usage(0, 0, 0, 0, 0, 0)
HasUsage(u) == u.total > 0 \/ u.in > 0 \/ u.out > 0

\* translate.Response with its choice
Choice(text, reasoning, calls, finish, usage) ==
    [text |-> text, reasoning |-> reasoning, calls |-> calls, finish |-> finish,
     usage |-> usage]

-----------------------------------------------------------------------------
(* Parsers *)

\* parseOpenAICompletionsResponse
ParseChatAnswer(a) ==
    Choice(TextOf(a.content), a.reasoning, a.calls, a.finish, a.usage)

CallsOf(blocks) ==
    LET uses == OfType(blocks, "tool_use")
    IN  [k \in DOMAIN uses |-> Call(uses[k].id, uses[k].args)]

\* responsesStatusToFinish
StatusToFinish(status) == CASE status = "completed"  -> "stop"
                            [] status = "incomplete" -> "length"
                            [] status = "failed"     -> "content_filter"

\* parseOpenAIResponsesResponse
ParseResponsesAnswer(a) ==
    LET Items(type) == OfType(a.output, type)
        ContentOf(s) == MapFlat(LAMBDA i : i.content, s)
        calls       == Items("function_call")
    IN  Choice(TextOf(ContentOf(Items("message"))), Joined(ContentOf(Items("reasoning"))),
               [k \in DOMAIN calls |-> Call(calls[k].id, calls[k].args)],
               IF calls # <<>> /\ a.status = "completed" THEN "tool_calls"
                 ELSE StatusToFinish(a.status),
               a.usage)

\* mapAnthropicStopToOpenAI
StopToFinish(stop) == CASE stop = "end_turn"   -> "stop"
                        [] stop = "tool_use"   -> "tool_calls"
                        [] stop = "max_tokens" -> "length"
                        [] stop = "stop_sequence" -> "stop"
                        [] OTHER               -> stop

\* parseAnthropicResponse
ParseAnthropicAnswer(a) ==
    Choice(TextOf(a.content), Joined(OfType(a.content, "thinking")), CallsOf(a.content),
           StopToFinish(a.stop),
           Usage(a.usage.in, a.usage.out, a.usage.in + a.usage.out,
                 a.usage.cached, a.usage.written, 0))

ParseAnswer(from, a) == CASE from = "chat"      -> ParseChatAnswer(a)
                          [] from = "responses" -> ParseResponsesAnswer(a)
                          [] from = "anthropic" -> ParseAnthropicAnswer(a)

-----------------------------------------------------------------------------
(* Builders *)

Told(usage) == IF HasUsage(usage) THEN usage ELSE NoUsage

\* buildOpenAICompletionsResponse: an answer with tool calls has no text
BuildChatAnswer(c) ==
    [content |-> IF c.calls = <<>> THEN NonEmpty(c.text) ELSE <<>>,
     reasoning |-> c.reasoning, calls |-> c.calls, finish |-> c.finish,
     usage |-> Told(c.usage)]

CONSTANTS
    MaxPreludes, \* maxPreludeContinuations
    MaxPhrases   \* longer texts are no preludes

\* looksLikeUnfinishedPrelude: a short text announces what comes next, and does not close
LooksUnfinished(text) ==
    /\ \E k \in DOMAIN text : text[k].kind = "prelude"
    /\ \A k \in DOMAIN text : text[k].kind # "closing"
    /\ Len(text) <= MaxPhrases

\* shouldContinueAfterPrelude, where tools says whether the request declares any
ShouldContinue(text, tools, messages) ==
    LET users    == {k \in DOMAIN messages : messages[k].role = "user"}
        lastUser == Max(users \cup {0})
        preludes == {k \in DOMAIN messages : /\ k > lastUser
                                             /\ messages[k].role = "assistant"
                                             /\ LooksUnfinished(messages[k].text)}
    IN  tools /\ LooksUnfinished(text) /\ Cardinality(preludes) < MaxPreludes

\* Mutant: the arguments of an item are those of the first call
CallItemsSameArgs(calls) ==
    [k \in DOMAIN calls |->
        Item("function_call", "", <<>>, calls[k].id, AsText(calls[1].args))]

CallItems(calls) ==
    [k \in DOMAIN calls |->
        Item("function_call", "", <<>>, calls[k].id, AsText(calls[k].args))]

\* buildOpenAIResponsesResponseMeta: the status is completed however the answer ended;
\* meta are the messages of the request as parsed from the client's protocol
BuildResponsesAnswer(c, tools, meta) ==
    LET followUp  == c.calls = <<>> /\ c.finish = "stop" /\ ShouldContinue(c.text, tools, meta)
        reasoning == IF c.reasoning = <<>> THEN <<>>
                     ELSE <<Item("reasoning", "", <<Text(c.reasoning)>>, NoId, "")>>
        message   == IF c.text = <<>> /\ c.calls # <<>> THEN <<>>
                     ELSE <<Item("message", "assistant", NonEmpty(c.text), NoId, "")>>
    IN  [output |-> reasoning \o message \o CallItems(c.calls), status |-> "completed",
         endTurn |-> ~followUp, usage |-> Told(c.usage)]

\* mapOpenAIStopToAnthropic
FinishToStop(finish) == CASE finish = "stop"       -> "end_turn"
                          [] finish = "tool_calls" -> "tool_use"
                          [] finish = "length"     -> "max_tokens"
                          [] OTHER                 -> finish

\* Mutant: reasoning tokens are told as tokens written to the cache
AnthropicUsageReasoning(u) ==
    IF HasUsage(u) THEN Usage(u.in, u.out, 0, u.cached, u.reasoning, 0) ELSE NoUsage

AnthropicUsage(u) ==
    IF HasUsage(u) THEN Usage(u.in, u.out, 0, u.cached, u.written, 0) ELSE NoUsage

\* buildAnthropicResponse
BuildAnthropicAnswer(c) ==
    [content |-> (IF c.reasoning = <<>> THEN <<>> ELSE <<Thinking(c.reasoning)>>)
                 \o NonEmpty(c.text)
                 \o [k \in DOMAIN c.calls |-> ToolUse(c.calls[k].id, AsObject(c.calls[k].args))],
     stop |-> FinishToStop(c.finish), usage |-> AnthropicUsage(c.usage)]

\* ConvertResponseMeta
ConvertAnswer(to, from, a, tools, meta) ==
    LET c == ParseAnswer(from, a)
    IN  CASE to = "chat"      -> BuildChatAnswer(c)
          [] to = "responses" -> BuildResponsesAnswer(c, tools, meta)
          [] to = "anthropic" -> BuildAnthropicAnswer(c)
=============================================================================
