---------------------------- MODULE StreamConvert ----------------------------
(***************************************************************************)
(* translate.StreamConverter on one stream: an upstream of one protocol    *)
(* sends lines, Feed reads each and writes what it means in the protocol   *)
(* of the client, and Close ends the answer.  Beside the converter, said   *)
(* keeps what the upstream has said, as a client of its own protocol would *)
(* have understood it.                                                     *)
(*                                                                         *)
(* A fragment of text or of arguments is the number of the line it came    *)
(* in, and whether the text so far reads as a prelude.                     *)
(***************************************************************************)
EXTENDS StreamWriter, FiniteSets

CONSTANTS
    MaxLines,  \* bound on the lines of a stream of each protocol
    Odd        \* the irregularities upstreams may show

Format == {"completions", "responses", "anthropic"}

\* late: the id of a call comes after its first fragment.  unindexed: a later fragment
\* without an index.  interleaved: a fragment of a call after something else.  input: a
\* block of a call starts with a placeholder for its arguments.  running: usage before
\* the end.  incomplete: the event response.incomplete.  unclosed: the event that closes a
\* block is missing.  doubled: so that a block of reasoning or text starts while one of its
\* own kind is open
Oddity == {"late", "unindexed", "interleaved", "input", "running", "incomplete",
           "unclosed", "doubled"}

ASSUME StreamAssumption == MaxLines \in [Format -> Nat] /\ Odd \subseteq Oddity

VARIABLES
    from, to,  \* the protocols of the upstream and of the client
    reader,    \* StreamConverter.reader
    writer,    \* StreamConverter.writer, with what it has written
    said,      \* what the upstream has said
    fed,       \* lines fed so far
    phase      \* feeding, to be closed, closed

vars == <<from, to, reader, writer, said, fed, phase>>

Nothing == [deltas |-> <<>>, calls |-> <<>>, open |-> NoBlock, usage |-> <<>>,
            finish |-> <<>>, whole |-> FALSE, odd |-> {}]

\* streamCopy converts between two different protocols only
Init == /\ from \in Format /\ to \in Format \ {from}
        /\ reader = NewReader
        /\ \E rescue \in IF to = "responses" THEN BOOLEAN ELSE {FALSE} :
              writer = NewWriter(rescue)
        /\ said = Nothing /\ fed = 0 /\ phase = "feed"

\* Feed: reads the line, writes its events in order, and says whether the stream is done
Feed(line, after) ==
    LET reading == Read(from, reader, line)
    IN  /\ phase = "feed" /\ fed < MaxLines[from]
        /\ reader' = reading.reader
        /\ writer' = FoldLeft(LAMBDA w, ev : Write(to, w, ev), writer, reading.events)
        /\ said' = after /\ fed' = fed + 1
        /\ phase' = IF \E k \in DOMAIN reading.events : reading.events[k].kind = "done"
                      THEN "close" ELSE "feed"
        /\ UNCHANGED <<from, to>>

\* The upstream's body ends, or breaks off
EndOfBody == /\ phase = "feed"
             /\ phase' = "close"
             /\ UNCHANGED <<from, to, reader, writer, said, fed>>

\* streamCopy calls Close once, whatever ended the loop
Close == /\ phase = "close"
         /\ writer' = CloseStream(to, writer)
         /\ phase' = "closed"
         /\ UNCHANGED <<from, to, reader, said, fed>>

-----------------------------------------------------------------------------
(* The upstreams.  Each action is a line a server of that protocol may send *)

Tokens     == [in |-> fed + 1, out |-> fed + 1]
MaybeUsage == {<<>>, <<Tokens>>}
Running    == said.finish = <<>>

\* Whether it reads as a prelude matters for a text only, and only where the writer asks
Frag(kind) == [n : {fed + 1},
               prelude : IF kind = "text" /\ writer.rescue THEN BOOLEAN ELSE {FALSE}]

Said(kind, x) == [said EXCEPT !.deltas = Append(@, [kind |-> kind, x |-> x]), !.open = kind]
SaidArgs(s, k, xs, id) ==
    [s EXCEPT !.deltas = @ \o [j \in DOMAIN xs |-> [kind |-> "tool", x |-> xs[j]]],
              !.calls[k] = [id |-> IF id # NoId THEN id ELSE @.id, args |-> @.args \o xs],
              !.open = "tool"]
SaidCall(id)   == [said EXCEPT !.calls = Append(@, [id |-> id, args |-> <<>>]), !.open = "tool"]
SaidOdd(s, os) == [s EXCEPT !.odd = @ \cup os]
NextId         == Len(said.calls) + 1

(* Chat Completions *)

Chunk == [type |-> "chunk", reasoning |-> <<>>, text |-> <<>>, calls |-> <<>>,
          finish |-> <<>>, usage |-> <<>>]

ChunkDelta ==
    /\ from = "completions" /\ Running
    /\ \E kind \in {"reasoning", "text"} : \E x \in Frag(kind) :
          Feed([Chunk EXCEPT ![kind] = <<x>>], Said(kind, x))

ChunkCall ==
    /\ from = "completions" /\ Running
    /\ \E id \in {NoId, NextId}, index \in {NoIndex, Len(said.calls)}, n \in {0, 1} :
          LET args == IF n = 0 THEN <<>> ELSE <<[n |-> fed + 1, prelude |-> FALSE]>>
          IN  Feed([Chunk EXCEPT !.calls = <<[index |-> index, id |-> id, args |-> args]>>],
                   SaidArgs(SaidCall(id), NextId, args, NoId))

ChunkArgs ==
    /\ from = "completions" /\ Running
    /\ \E k \in DOMAIN said.calls : \E id \in {NoId, k}, index \in {NoIndex, k - 1} :
          LET x   == [n |-> fed + 1, prelude |-> FALSE]
              odd == (IF id # NoId /\ said.calls[k].id = NoId THEN {"late"} ELSE {})
                     \cup (IF index = NoIndex THEN {"unindexed"} ELSE {})
                     \cup (IF k < Len(said.calls) \/ said.open # "tool" THEN {"interleaved"} ELSE {})
          IN  /\ odd \subseteq Odd
              /\ Feed([Chunk EXCEPT !.calls = <<[index |-> index, id |-> id, args |-> <<x>>]>>],
                      SaidOdd(SaidArgs(said, k, <<x>>, id), odd))

ChunkFinish ==
    /\ from = "completions" /\ Running
    /\ \E reason \in IF said.calls = <<>> THEN {"stop", "length"} ELSE {"tool_calls"},
          usage \in MaybeUsage :
          Feed([Chunk EXCEPT !.finish = <<reason>>, !.usage = usage],
               [said EXCEPT !.finish = <<reason>>,
                            !.usage = IF usage = <<>> THEN @ ELSE usage])

ChunkUsage ==
    /\ from = "completions"
    /\ \/ ~Running /\ said.usage = <<>> /\ Feed([Chunk EXCEPT !.usage = <<Tokens>>],
                                                 [said EXCEPT !.usage = <<Tokens>>])
       \/ Running /\ "running" \in Odd
          /\ Feed([Chunk EXCEPT !.usage = <<Tokens>>],
                  SaidOdd([said EXCEPT !.usage = <<Tokens>>], {"running"}))

ChunkDone ==
    /\ from = "completions" /\ ~Running
    /\ Feed([type |-> "done"], [said EXCEPT !.whole = TRUE])

(* Responses.  The delta of an item may come without the event that adds the item *)

ItemAdded ==
    /\ from = "responses" /\ Running /\ said.open = NoBlock
    /\ \E kind \in {"reasoning", "text", "tool"} :
          Feed([type |-> "added", x |-> kind, id |-> NextId],
               IF kind = "tool" THEN SaidCall(NextId) ELSE [said EXCEPT !.open = kind])

PartAdded ==
    /\ from = "responses" /\ Running /\ said.open = "reasoning"
    /\ Feed([type |-> "part_added"], said)

ItemTextDelta ==
    /\ from = "responses" /\ Running
    /\ \E kind \in {"reasoning", "text"} : \E x \in Frag(kind) :
          /\ said.open \in {kind, NoBlock}
          /\ Feed([type |-> "delta", x |-> kind, frag |-> x], Said(kind, x))

ItemArgs ==
    /\ from = "responses" /\ Running /\ said.open = "tool"
    /\ \E x \in Frag("tool") : Feed([type |-> "delta", x |-> "tool", frag |-> x],
                                    SaidArgs(said, Len(said.calls), <<x>>, NoId))

ItemDone ==
    /\ from = "responses" /\ said.open # NoBlock
    /\ Feed([type |-> "item_done", x |-> said.open], [said EXCEPT !.open = NoBlock])

Completed ==
    /\ from = "responses" /\ Running
    /\ \E status \in {"completed", "incomplete"}, usage \in MaybeUsage :
          Feed([type |-> "completed", status |-> status, usage |-> usage],
               [said EXCEPT !.finish = <<FinishOf([hasTool |-> said.calls # <<>>], status)>>,
                            !.usage = usage, !.whole = TRUE])

ResponseFailed ==
    /\ from = "responses" /\ Running
    /\ Feed([type |-> "failed"],
            [said EXCEPT !.finish = <<"content_filter">>, !.whole = TRUE])

ResponseIncomplete ==
    /\ from = "responses" /\ Running /\ "incomplete" \in Odd
    /\ Feed([type |-> "incomplete", usage |-> <<Tokens>>],
            SaidOdd([said EXCEPT !.finish = <<"length">>, !.usage = <<Tokens>>, !.whole = TRUE],
                    {"incomplete"}))

(* Anthropic *)

MessageStart ==
    /\ from = "anthropic" /\ fed = 0
    /\ \E usage \in MaybeUsage :
          Feed([type |-> "message_start", usage |-> usage], [said EXCEPT !.usage = usage])

\* What is irregular of a block's start or a message's end that comes now
Unclosed      == IF said.open = NoBlock THEN {} ELSE {"unclosed"}
Doubled(kind) == IF kind # "tool" /\ said.open = kind THEN {"doubled"} ELSE {}

\* What is said by the start of a block: one of text may start with text, one of a call
\* with all its arguments
Started(kind, input) ==
    CASE kind = "tool" /\ input = <<>> -> SaidCall(NextId)
      [] kind = "tool" /\ input # <<>> ->
           [SaidArgs(SaidCall(NextId), NextId, input, NoId) EXCEPT !.open = "full"]
      [] kind # "tool" /\ input = <<>> -> [said EXCEPT !.open = kind]
      [] OTHER -> Said(kind, input[1])

BlockStart ==
    /\ from = "anthropic" /\ Running
    /\ \E kind \in {"reasoning", "text", "tool"} :
       \E input \in {<<>>} \cup {<<x>> : x \in Frag(kind)} :
          LET odd == Unclosed \cup Doubled(kind)
          IN  /\ odd \subseteq Odd
              /\ Feed([type |-> "block_start", x |-> kind, id |-> NextId, input |-> input],
                      SaidOdd(Started(kind, input), odd))

\* A block of a call usually starts with the placeholder {}, and its arguments follow
PlaceholderStart ==
    /\ from = "anthropic" /\ Running /\ Unclosed \cup {"input"} \subseteq Odd
    /\ Feed([type |-> "block_start", x |-> "tool", id |-> NextId,
             input |-> <<[n |-> 0, prelude |-> FALSE]>>],
            SaidOdd(SaidCall(NextId), Unclosed \cup {"input"}))

BlockDelta ==
    /\ from = "anthropic" /\ Running
    /\ said.open \in {"reasoning", "text", "tool"}
    /\ \E x \in Frag(said.open) :
          Feed([type |-> "delta", x |-> said.open, frag |-> x],
               IF said.open = "tool" THEN SaidArgs(said, Len(said.calls), <<x>>, NoId)
                                     ELSE Said(said.open, x))

BlockStop ==
    /\ from = "anthropic" /\ said.open # NoBlock
    /\ Feed([type |-> "block_stop"], [said EXCEPT !.open = NoBlock])

MessageDelta ==
    /\ from = "anthropic" /\ Running /\ Unclosed \subseteq Odd
    /\ \E reason \in IF said.calls = <<>> THEN {"stop", "length"} ELSE {"tool_calls"},
          n \in {0, 1} :
          LET usage == IF n = 0 THEN <<>> ELSE <<[in |-> 0, out |-> fed + 1]>>
              start == IF said.usage = <<>> THEN NoTokens ELSE said.usage[1]
          IN  Feed([type |-> "message_delta", finish |-> <<reason>>, usage |-> usage],
                   SaidOdd([said EXCEPT !.finish = <<reason>>,
                                        !.usage = IF n = 0 THEN @
                                                  ELSE <<[in |-> start.in, out |-> fed + 1]>>],
                           Unclosed))

\* Also without a message_delta, from an upstream that is not standard
MessageStop ==
    /\ from = "anthropic" /\ Unclosed \subseteq Odd /\ fed > 0
    /\ Feed([type |-> "message_stop"], SaidOdd([said EXCEPT !.whole = TRUE], Unclosed))

ErrorEvent ==
    /\ from \in {"responses", "anthropic"} /\ Running
    /\ Feed([type |-> "error"], said)

-----------------------------------------------------------------------------

Upstream == \/ ChunkDelta \/ ChunkCall \/ ChunkArgs \/ ChunkFinish \/ ChunkUsage \/ ChunkDone
            \/ ItemAdded \/ PartAdded \/ ItemTextDelta \/ ItemArgs \/ ItemDone
            \/ Completed \/ ResponseFailed \/ ResponseIncomplete
            \/ MessageStart \/ BlockStart \/ PlaceholderStart \/ BlockDelta \/ BlockStop
            \/ MessageDelta \/ MessageStop \/ ErrorEvent

Next == Upstream \/ EndOfBody \/ Close

Spec == Init /\ [][Next]_vars
=============================================================================
