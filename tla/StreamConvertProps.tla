------------------------- MODULE StreamConvertProps --------------------------
(***************************************************************************)
(* What a client may rely on when its stream is converted                  *)
(***************************************************************************)
EXTENDS StreamConvert, Picks

out == writer.out

Of(o, type)    == At(o, {j \in DOMAIN o : o[j].type = type})
Told(events)   == [k \in DOMAIN events |-> events[k].x]
Deltas(o)      == Told(Of(o, "delta"))
Spoken(ds)     == At(ds, {j \in DOMAIN ds : ds[j].kind # "tool"})
Frags(events)  == [k \in DOMAIN events |-> events[k].x.x]
Contents(o, i) == Frags(At(o, {j \in DOMAIN o : o[j].type = "delta" /\ o[j].i = i}))

\* The blocks opened and not yet closed before event j
OpenBefore(o, j) ==
    {o[k].i : k \in {k \in 1 .. j - 1 :
        /\ o[k].type = "open"
        /\ \A c \in k + 1 .. j - 1 : ~(o[c].type = "close" /\ o[c].i = o[k].i)}}

\* The tool calls as the client understands them
ToolOpens(o)   == At(o, {j \in DOMAIN o : o[j].type = "open" /\ o[j].x.kind = "tool"})
ToolArgs(o, i) == Frags(At(o, {j \in DOMAIN o : /\ o[j].type = "delta" /\ o[j].x.kind = "tool"
                                                /\ o[j].i = i}))
CallsSeen(o)   == [k \in DOMAIN ToolOpens(o) |->
                     [id |-> ToolOpens(o)[k].x.id, args |-> ToolArgs(o, ToolOpens(o)[k].i)]]

\* Blocks are opened one at a time and counted, and what is written belongs to them
Paired(o) ==
    \A j \in DOMAIN o :
        CASE o[j].type = "open" ->
               /\ OpenBefore(o, j) = {}
               /\ o[j].i = Cardinality({k \in 1 .. j - 1 : o[k].type = "open"})
          [] o[j].type \in {"delta", "close"} -> OpenBefore(o, j) = {o[j].i}
          [] o[j].type \in {"end", "stop"}    -> OpenBefore(o, j) = {}
          [] OTHER -> TRUE

-----------------------------------------------------------------------------

\* Reasoning and text reach the client as the upstream said them, in order and nothing
\* twice, at every moment.  So do the tool calls, each with its id and its own
\* arguments, if the upstream sends them the regular way
ContentKept ==
    /\ Spoken(Deltas(out)) = Spoken(said.deltas)
    /\ said.odd = {} => Deltas(out) = said.deltas /\ CallsSeen(out) = said.calls

\* Items and content blocks are opened one at a time with indices counting from 0, a
\* delta belongs to the open one, and none is left open when the answer ends, whatever the
\* upstream leaves out, repeats or interleaves; but for a client of Responses an upstream
\* must close a block of reasoning or text before it starts another of the same kind
BlocksPaired ==
    to # "completions" /\ ~(to = "responses" /\ "doubled" \in said.odd) => Paired(out)

\* However finish, usage, the end of the stream and its breaking off follow each other,
\* the answer is ended once: no content after its end, and one stop, last
AnswerEndsOnce ==
    LET ends  == {j \in DOMAIN out : out[j].type = "end"}
        stops == {j \in DOMAIN out : out[j].type = "stop"}
    IN  /\ Cardinality(ends) <= 1
        /\ \A j \in ends, k \in DOMAIN out :
              k > j => out[k].type \notin {"open", "delta", "close"}
        /\ \A j \in stops : j = Len(out)
        /\ phase = "closed" =>
              /\ to # "completions" => ends # {}
              /\ to = "completions" /\ "incomplete" \notin said.odd =>
                    (ends # {} <=> said.finish # <<>>)
              /\ to # "responses" => stops # {}

\* The client is told the final usage of an answer that was not broken off, and it is
\* never told one that the upstream did not report
UsageKept ==
    phase = "closed" =>
        LET told == IF to = "completions" THEN Told(Of(out, "usage"))
                    ELSE IF Of(out, "end") = <<>> THEN <<>> ELSE Of(out, "end")[1].x.usage
        IN  /\ told # <<>> => said.usage # <<>>
            /\ said.whole /\ said.odd \cap {"running", "incomplete"} = {} => told = said.usage

\* response.completed repeats what was streamed: every item with the content of its
\* deltas, in order; an item that was never closed is not in it, so the upstream must close
\* a block of reasoning or text before it starts another of the same kind
OutputComplete ==
    to = "responses" /\ "doubled" \notin said.odd =>
        \A j \in DOMAIN Of(out, "end") :
            LET items == Of(out, "end")[j].x.items
                opens == Of(out, "open")
            IN  /\ Len(items) = Len(opens)
                /\ \A k \in DOMAIN items :
                      /\ items[k].kind = opens[k].x.kind /\ items[k].id = opens[k].x.id
                      /\ items[k].content = Contents(out, opens[k].i)

\* From Chat Completions with regular tool calls, a text is a commentary exactly if a tool
\* call follows it or the client is asked to go on; the client is asked only if the last item is a text that
\* reads as an unfinished prelude
PhaseAccurate ==
    to = "responses" /\ from = "completions"
    /\ said.odd \cap {"interleaved", "unindexed"} = {} =>
        \A j \in DOMAIN Of(out, "end") :
            LET x    == Of(out, "end")[j].x
                last == Len(x.items)
            IN  /\ x.followUp => /\ last > 0 /\ writer.rescue
                                 /\ x.items[last].kind = "text"
                                 /\ x.items[last].content[Len(x.items[last].content)].prelude
                /\ \A k \in 1 .. last :
                      x.items[k].kind = "text" =>
                          (x.items[k].commentary <=>
                              \/ k < last /\ x.items[k + 1].kind = "tool"
                              \/ k = last /\ x.followUp)

-----------------------------------------------------------------------------
(* What the documentation says and the code does not do *)

\* README.md:219: reasoning, usage and tools stay intact, whatever the upstream's protocol; here
\* the tool calls of an answer that was not broken off, each with arguments of its own
ToolsIntact ==
    /\ phase = "closed" /\ said.whole
    /\ \A k \in DOMAIN said.calls : said.calls[k].args # <<>>
    => CallsSeen(out) = said.calls

\* The comment at stream.go:994: if there is an active block, it is closed before
\* a new one is opened.  A client of Responses has no two items open at once, then
StartCloses == to = "responses" => \A j \in DOMAIN out : Cardinality(OpenBefore(out, j)) <= 1

\* At any moment one of the two promises is kept.  It follows from each of them, and a stream
\* that breaks it breaks both
StreamPromiseKept == ToolsIntact \/ StartCloses
=============================================================================
