---------------------------- MODULE StreamWriter -----------------------------
(***************************************************************************)
(* The stream writers of translate: what the events of a reader become on  *)
(* the wire, in three protocols.  A writer's state is one record for all   *)
(* three; what each event says is kept as its type, the block it is about  *)
(* and its content:                                                        *)
(*   start, open, delta, close   a response, its items or content blocks   *)
(*   end      response.completed, message_delta, the finish_reason chunk   *)
(*   usage    the usage chunk of Chat Completions                          *)
(*   stop     message_stop, [DONE]                                         *)
(***************************************************************************)
EXTENDS StreamReader

NoBlock == "none"

\* A fresh writer; rescue says whether the request allows one more follow-up
NewWriter(rescue) ==
    [started |-> FALSE, block |-> NoBlock, cur |-> 0, next |-> 0, id |-> NoId,
     accum |-> <<>>, items |-> <<>>, finishSeen |-> FALSE, finish |-> "",
     ended |-> FALSE, usage |-> <<>>, beforeTool |-> FALSE, followUp |-> FALSE,
     rescue |-> rescue, out |-> <<>>]

Put(w, type, x) == [w EXCEPT !.out = Append(@, [type |-> type, i |-> w.cur, x |-> x])]

Start(w) == IF w.started THEN w ELSE Put([w EXCEPT !.started = TRUE], "start", 0)

\* Mutant: the index is taken but not advanced
OpenSameIndex(w, kind, id) ==
    Put([w EXCEPT !.block = kind, !.cur = w.next, !.id = id, !.accum = <<>>],
        "open", [kind |-> kind, id |-> id])

\* Mutant: what the previous item gathered is not dropped
OpenStale(w, kind, id) ==
    Put([w EXCEPT !.block = kind, !.cur = w.next, !.next = @ + 1, !.id = id,
                  !.beforeTool = IF kind = "text" THEN FALSE ELSE @],
        "open", [kind |-> kind, id |-> id])

\* beginReasoning, beginText, beginTool, beginBlock: a new block with the next index
Open(w, kind, id) ==
    Put([w EXCEPT !.block = kind, !.cur = w.next, !.next = @ + 1, !.id = id,
                  !.accum = <<>>,
                  !.beforeTool = IF kind = "text" THEN FALSE ELSE @],
        "open", [kind |-> kind, id |-> id])

Delta(w, kind, x) ==
    Put([w EXCEPT !.accum = Append(@, x)], "delta", [kind |-> kind, x |-> x])

\* What ends an answer; usage that is missing is written as zeros to an Anthropic client
Ending(w) == [finish |-> w.finish, usage |-> w.usage, items |-> w.items,
              followUp |-> w.followUp]

-----------------------------------------------------------------------------
(* Responses *)

\* shouldContinueAfterPrelude: whether a text reads as an unfinished prelude is a
\* property of the whole text, which its last fragment settles
Unfinished(w) == w.rescue /\ w.accum # <<>> /\ w.accum[Len(w.accum)].prelude

AskFollowUp(w, when) ==
    [w EXCEPT !.followUp = @ \/ (when /\ w.block = "text" /\ Unfinished(w))]

\* Mutant: the phase of a text is final whatever follows it
EndItemFinal(w) ==
    IF w.block = NoBlock THEN w
    ELSE LET item == [kind |-> w.block, id |-> w.id, content |-> w.accum,
                      commentary |-> FALSE]
         IN  [Put(w, "close", item) EXCEPT
                 !.items = Append(@, item), !.block = NoBlock, !.cur = 0]

\* endReasoning, endText, endTool, endBlock: the item as a whole, and in the output
EndItem(w) ==
    IF w.block = NoBlock THEN w
    ELSE LET item == [kind |-> w.block, id |-> w.id, content |-> w.accum,
                      commentary |-> w.block = "text" /\ (w.followUp \/ w.beforeTool)]
         IN  [Put(w, "close", item) EXCEPT
                 !.items = Append(@, item), !.block = NoBlock, !.cur = 0]

\* Mutant: response.completed is sent whenever it could be
EmitCompletedAgain(w) == [Put(w, "end", Ending(w)) EXCEPT !.ended = TRUE]

\* emitCompleted, with the ping that follows
EmitCompleted(w) ==
    IF w.ended THEN w
    ELSE [Put(w, "end", Ending(w)) EXCEPT !.ended = TRUE, !.usage = <<>>]

ItemDelta(w, kind, x) ==
    Delta(IF w.block = kind THEN w ELSE Open(EndItem(w), kind, NoId), kind, x)

\* responsesStreamWriter.Write
WriteResponses(w0, ev) ==
    LET w == Start(w0)
    IN  CASE ev.kind = "start" ->
               Open(IF ev.x # w.block THEN EndItem(w) ELSE w, ev.x, NoId)
          [] ev.kind \in {"reasoning", "text"} -> ItemDelta(w, ev.kind, ev.x)
          [] ev.kind = "tool_start" ->
               Open(EndItem([w EXCEPT !.beforeTool = @ \/ w.block = "text"]), "tool", ev.x)
          [] ev.kind = "tool_args" -> ItemDelta(w, "tool", ev.x)
          [] ev.kind = "end_block" -> EndItem(w)
          [] ev.kind = "finish" ->
               LET v == [EndItem(AskFollowUp(w, ev.x = "stop")) EXCEPT !.finishSeen = TRUE]
               IN  IF v.usage # <<>> THEN EmitCompleted(v) ELSE v
          [] ev.kind = "usage" ->
               LET v == [w EXCEPT !.usage = <<ev.x>>]
               IN  IF v.finishSeen THEN EmitCompleted(v) ELSE v
          [] ev.kind = "done"  -> EmitCompleted(EndItem(AskFollowUp(w, TRUE)))
          [] ev.kind = "error" -> Put(w, "error", 0)

-----------------------------------------------------------------------------
(* Anthropic *)

EndContent(w) ==
    IF w.block = NoBlock THEN w
    ELSE [Put(w, "close", 0) EXCEPT !.block = NoBlock, !.cur = 0]

\* emitDelta: the only message_delta
EmitDelta(w) ==
    IF w.ended THEN w ELSE [Put(w, "end", Ending(w)) EXCEPT !.ended = TRUE]

ContentDelta(w, kind, x) ==
    Delta(IF w.block = kind THEN w ELSE Open(EndContent(w), kind, NoId), kind, x)

\* anthropicStreamWriter.Write
WriteAnthropic(w0, ev) ==
    LET w == Start(w0)
    IN  CASE ev.kind = "start" -> Open(EndContent(w), ev.x, NoId)
          [] ev.kind \in {"reasoning", "text"} -> ContentDelta(w, ev.kind, ev.x)
          [] ev.kind = "tool_start" -> Open(EndContent(w), "tool", ev.x)
          [] ev.kind = "tool_args"  -> ContentDelta(w, "tool", ev.x)
          [] ev.kind = "end_block"  -> EndContent(w)
          [] ev.kind = "finish" ->
               IF w.finishSeen THEN w
               ELSE LET v == EndContent([w EXCEPT !.finishSeen = TRUE, !.finish = ev.x])
                    IN  IF v.usage # <<>> THEN EmitDelta(v) ELSE v
          [] ev.kind = "usage" ->
               LET v == [w EXCEPT !.usage = <<ev.x>>]
               IN  IF v.finishSeen /\ ~v.ended THEN EmitDelta(EndContent(v)) ELSE v
          [] ev.kind = "done" ->
               EmitDelta(IF w.finishSeen THEN w
                         ELSE EndContent([w EXCEPT !.finishSeen = TRUE]))
          [] ev.kind = "error" -> Put(w, "error", 0)

-----------------------------------------------------------------------------
(* Chat Completions *)

\* completionsStreamWriter.Write: no blocks but those of tool calls
WriteCompletions(w, ev) ==
    CASE ev.kind \in {"start", "end_block", "done"} -> w
      [] ev.kind \in {"reasoning", "text"} -> Put(w, "delta", [kind |-> ev.kind, x |-> ev.x])
      [] ev.kind = "tool_start" ->
           Put([w EXCEPT !.cur = w.next, !.next = @ + 1],
               "open", [kind |-> "tool", id |-> ev.x])
      [] ev.kind = "tool_args" -> Put(w, "delta", [kind |-> "tool", x |-> ev.x])
      [] ev.kind = "finish" ->
           IF w.finishSeen THEN w
           ELSE Put([w EXCEPT !.finishSeen = TRUE], "end", [Ending(w) EXCEPT !.finish = ev.x])
      [] ev.kind = "usage" -> Put(w, "usage", ev.x)
      [] ev.kind = "error" -> Put(w, "error", 0)

-----------------------------------------------------------------------------

\* The writer NewStreamConverter chooses
Write(to, w, ev) ==
    CASE to = "completions" -> WriteCompletions(w, ev)
      [] to = "responses"   -> WriteResponses(w, ev)
      [] to = "anthropic"   -> WriteAnthropic(w, ev)

\* StreamConverter.Close
CloseStream(to, w) ==
    CASE to = "completions" -> Put(w, "stop", 0)
      [] to = "responses"   -> WriteResponses(w, Ev("done", 0))
      [] to = "anthropic"   -> Put(WriteAnthropic(w, Ev("done", 0)), "stop", 0)
=============================================================================
