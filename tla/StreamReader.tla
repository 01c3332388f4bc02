---------------------------- MODULE StreamReader -----------------------------
(***************************************************************************)
(* translate.streamReader: what a line of an upstream's event stream means *)
(* to a writer, in three protocols.  A reading is the reader's new state   *)
(* and the events it passes on, in order.                                  *)
(*                                                                         *)
(* What a line may lack is a sequence of at most one element; JSON that    *)
(* does not parse, comments and blank lines yield nothing and are left out.*)
(***************************************************************************)
EXTENDS Integers, Sequences, SequencesExt

NoId    == 0    \* a tool call without an id
NoIndex == -1   \* a fragment of a tool call without an index

\* Usage: input tokens and output tokens, 0 when not reported
NoTokens == [in |-> 0, out |-> 0]

\* StreamEvent
Ev(kind, x)   == [kind |-> kind, x |-> x]
Evs(kind, xs) == [k \in DOMAIN xs |-> Ev(kind, xs[k])]

\* newStreamReader
NewReader == [toolIdx |-> -1, hasId |-> FALSE, hasTool |-> FALSE,
              usage |-> NoTokens, seen |-> FALSE, emitted |-> FALSE]

-----------------------------------------------------------------------------
(* Chat Completions *)

\* Mutant: the index of a fragment is not looked at
ReadCallUnindexed(s, tc) ==
    [reader |-> [s.reader EXCEPT !.toolIdx = @ + 1],
     events |-> s.events \o <<Ev("tool_start", tc.id)>> \o Evs("tool_args", tc.args)]

\* A fragment of a tool call: the first of its index starts the call; a later one may
\* bring the id if the first had none
ReadCall(s, tc) ==
    LET r     == s.reader
        idx   == IF tc.index = NoIndex THEN r.toolIdx + 1 ELSE tc.index
        first == idx > r.toolIdx
        late  == ~first /\ tc.id # NoId /\ ~r.hasId
    IN  [reader |-> CASE first -> [r EXCEPT !.toolIdx = idx, !.hasId = tc.id # NoId]
                      [] late  -> [r EXCEPT !.hasId = TRUE]
                      [] OTHER -> r,
         events |-> s.events
                    \o (IF first \/ late THEN <<Ev("tool_start", tc.id)>> ELSE <<>>)
                    \o Evs("tool_args", tc.args)]

\* readCompletionsLine
ReadCompletions(r, line) ==
    IF line.type = "done" THEN [reader |-> r, events |-> <<Ev("done", 0)>>]
    ELSE LET said  == Evs("reasoning", line.reasoning) \o Evs("text", line.text)
             calls == FoldLeft(ReadCall, [reader |-> r, events |-> said], line.calls)
         IN  [calls EXCEPT !.events = @ \o Evs("finish", line.finish)
                                        \o Evs("usage", line.usage)]

-----------------------------------------------------------------------------
(* Responses *)

\* The finish reason of response.completed
FinishOf(r, status) ==
    CASE status = "completed" /\ r.hasTool -> "tool_calls"
      [] status = "incomplete"             -> "length"
      [] status = "failed"                 -> "content_filter"
      [] OTHER                             -> "stop"

\* readResponsesLine; what is not listed, response.incomplete among it, says nothing
ReadResponses(r, line) ==
    LET tool == [r EXCEPT !.hasTool = TRUE]
    IN  CASE line.type = "added" /\ line.x = "tool" ->
               [reader |-> tool, events |-> <<Ev("tool_start", line.id)>>]
          [] line.type = "added" /\ line.x # "tool" ->
               [reader |-> r, events |-> <<Ev("start", line.x)>>]
          [] line.type = "part_added" ->
               [reader |-> r, events |-> <<Ev("start", "reasoning")>>]
          [] line.type = "delta" /\ line.x = "tool" ->
               [reader |-> tool, events |-> <<Ev("tool_args", line.frag)>>]
          [] line.type = "delta" /\ line.x # "tool" ->
               [reader |-> r, events |-> <<Ev(line.x, line.frag)>>]
          [] line.type = "item_done" ->
               [reader |-> IF line.x = "tool" THEN tool ELSE r,
                events |-> <<Ev("end_block", 0)>>]
          [] line.type = "completed" ->
               [reader |-> r,
                events |-> <<Ev("finish", FinishOf(r, line.status))>> \o Evs("usage", line.usage)]
          [] line.type = "failed" ->
               [reader |-> r, events |-> <<Ev("finish", "content_filter")>>]
          [] line.type = "error" -> [reader |-> r, events |-> <<Ev("error", 0)>>]
          [] OTHER -> [reader |-> r, events |-> <<>>]

-----------------------------------------------------------------------------
(* Anthropic *)

\* Mutant: the counts of message_start are overwritten by the missing ones of message_delta
MergeUsageBlind(r, us) ==
    IF us = <<>> THEN r ELSE [r EXCEPT !.seen = TRUE, !.usage = us[1]]

\* mergeAnthropicUsage: counts are final values, a missing one keeps the earlier
MergeUsage(r, us) ==
    IF us = <<>> THEN r
    ELSE LET u == us[1]
         IN  [r EXCEPT !.seen = TRUE,
                       !.usage = [c \in {"in", "out"} |-> IF u[c] > 0 THEN u[c] ELSE @[c]]]

\* readAnthropicLine.  Stop reasons are named as Chat Completions names them
ReadAnthropic(r, line) ==
    CASE line.type = "message_start" ->
           [reader |-> MergeUsage(r, line.usage), events |-> <<>>]
      [] line.type = "block_start" /\ line.x = "tool" ->
           [reader |-> r, events |-> <<Ev("tool_start", line.id)>> \o Evs("tool_args", line.input)]
      [] line.type = "block_start" /\ line.x # "tool" ->
           [reader |-> r, events |-> <<Ev("start", line.x)>> \o Evs(line.x, line.input)]
      [] line.type = "delta" ->
           [reader |-> r,
            events |-> <<Ev(IF line.x = "tool" THEN "tool_args" ELSE line.x, line.frag)>>]
      [] line.type = "block_stop" -> [reader |-> r, events |-> <<Ev("end_block", 0)>>]
      [] line.type = "message_delta" ->
           LET m == MergeUsage(r, line.usage)
           IN  IF line.usage = <<>> THEN [reader |-> r, events |-> Evs("finish", line.finish)]
               ELSE [reader |-> [m EXCEPT !.emitted = TRUE],
                     events |-> Evs("finish", line.finish) \o <<Ev("usage", m.usage)>>]
      [] line.type = "message_stop" ->
           IF r.seen /\ ~r.emitted
             THEN [reader |-> [r EXCEPT !.emitted = TRUE],
                   events |-> <<Ev("usage", r.usage), Ev("done", 0)>>]
             ELSE [reader |-> r, events |-> <<Ev("done", 0)>>]
      [] line.type = "error" -> [reader |-> r, events |-> <<Ev("error", 0)>>]
      [] OTHER -> [reader |-> r, events |-> <<>>]

\* The reader StreamConverter.Feed chooses
Read(from, r, line) ==
    CASE from = "completions" -> ReadCompletions(r, line)
      [] from = "responses"   -> ReadResponses(r, line)
      [] from = "anthropic"   -> ReadAnthropic(r, line)
=============================================================================
