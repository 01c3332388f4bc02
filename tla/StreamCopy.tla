----------------------------- MODULE StreamCopy -----------------------------
(***************************************************************************)
(* Proxy.streamCopy: one streamed answer.  A goroutine scans the lines of  *)
(* the upstream's body and hands them over an unbuffered channel; the      *)
(* handler merges the usage they carry, copies or converts them to the     *)
(* client, sends heartbeats on silent Muse streams, and charges at the end.*)
(* The client may leave at any moment, the upstream may break at any       *)
(* moment.                                                                 *)
(***************************************************************************)
EXTENDS Picks

CONSTANTS
    Script,   \* the streams the upstream may send: sequences of lines
    NoUsage,  \* a line that carries no usage
    MaxBeats  \* bound on heartbeats

Count == {"prompt", "completion", "total"}
\* meter.Usage; the cached and reasoning counts are merged like prompt
Usage == [Count -> Nat]
Zero  == [c \in Count |-> 0]

\* A line of the stream.  The converter stops at the line that is the last it needs
Line == [kind : {"event", "data", "blank"}, usage : Usage \cup {NoUsage}, last : BOOLEAN]

ASSUME ScriptAssumption == Script \subseteq Seq(Line) /\ MaxBeats \in Nat

Beat == [kind |-> "beat"]   \* ": keep-alive" and an empty line
End  == [kind |-> "end"]    \* what StreamConverter.Close writes
Item == Line \cup {Beat, End}

VARIABLES
    script,   \* what the upstream sends this time
    conv,     \* is the stream converted to another protocol?
    muse,     \* does the model get heartbeats?
    read,     \* how many lines the scanner has read
    scan,     \* the scanner: reading, offering a line or an error, stopped
    closed,   \* scanCtx is cancelled and the upstream's body closed
    pc,       \* the handler
    taken,    \* how many lines it has received
    acc,      \* the usage merged so far
    got,      \* was there any?
    discard,  \* a write to the client has failed
    client,   \* is the client still connected?
    wire,     \* what reached the client
    charged   \* the usages passed to recordUsage

vars == <<script, conv, muse, read, scan, closed, pc, taken, acc, got, discard,
          client, wire, charged>>

Init == /\ script \in Script
        /\ conv \in BOOLEAN /\ muse \in BOOLEAN
        /\ read = 0 /\ scan = "reading" /\ closed = FALSE
        /\ pc = "loop" /\ taken = 0
        /\ acc = Zero /\ got = FALSE /\ discard = FALSE
        /\ client = "here" /\ wire = <<>> /\ charged = <<>>

-----------------------------------------------------------------------------
(* The environment *)

\* The request's context is cancelled, and the upstream request with it
Leave == /\ client = "here" /\ pc # "done"
         /\ client' = "gone"
         /\ UNCHANGED <<script, conv, muse, read, scan, closed, pc, taken, acc, got,
                        discard, wire, charged>>

-----------------------------------------------------------------------------
(* The scanning goroutine *)

ScanLine == /\ scan = "reading" /\ read < Len(script)
            /\ read' = read + 1 /\ scan' = "offering"
            /\ UNCHANGED <<script, conv, muse, closed, pc, taken, acc, got, discard,
                           client, wire, charged>>

\* The end of the body: scanCh is closed
ScanEnd == /\ scan = "reading" /\ read = Len(script)
           /\ scan' = "stopped"
           /\ UNCHANGED <<script, conv, muse, read, closed, pc, taken, acc, got, discard,
                          client, wire, charged>>

\* The upstream breaks, a line is too long, the client left, or the body was closed
ScanFail == /\ scan = "reading"
            /\ scan' = "failing"
            /\ UNCHANGED <<script, conv, muse, read, closed, pc, taken, acc, got, discard,
                           client, wire, charged>>

\* Mutant: only the send of a line waits for scanCtx.Done as well, that of an error does not
ScanStuck == /\ scan = "offering" /\ closed
             /\ scan' = "stopped"
             /\ UNCHANGED <<script, conv, muse, read, closed, pc, taken, acc, got, discard,
                            client, wire, charged>>

\* Nobody receives any more: scanCtx.Done
ScanQuit == /\ scan \in {"offering", "failing"} /\ closed
            /\ scan' = "stopped"
            /\ UNCHANGED <<script, conv, muse, read, closed, pc, taken, acc, got, discard,
                           client, wire, charged>>

-----------------------------------------------------------------------------
(* The handler *)

\* Writes to a client that left are lost, until one fails
Write(items) ==
    \/ client = "here" /\ wire' = wire \o items /\ UNCHANGED discard
    \/ /\ client = "gone" /\ UNCHANGED wire
       /\ discard' \in {discard, discard \/ items # <<>>}

\* The select receives a line
Receive == /\ pc = "loop" /\ scan = "offering"
           /\ pc' = "line" /\ scan' = "reading" /\ taken' = taken + 1
           /\ UNCHANGED <<script, conv, muse, read, closed, acc, got, discard, client, wire,
                          charged>>

\* Mutant: a closed channel is read for ever
ReceiveNothing ==
    /\ pc = "loop" /\ scan = "failing"
    /\ pc' = "close" /\ scan' = "stopped"
    /\ UNCHANGED <<script, conv, muse, read, closed, taken, acc, got, discard, client, wire,
                   charged>>

\* The select receives the scanner's error, or finds the channel closed
ReceiveEnd ==
    /\ pc = "loop" /\ scan \in {"failing", "stopped"}
    /\ pc' = "close" /\ scan' = "stopped"
    /\ UNCHANGED <<script, conv, muse, read, closed, taken, acc, got, discard, client, wire,
                   charged>>

\* Mutant: a heartbeat due at the same time as a line drops the line
HeartbeatDrops ==
    /\ pc = "loop" /\ muse /\ scan = "offering"
    /\ taken' = taken + 1 /\ scan' = "reading"
    /\ IF discard THEN UNCHANGED <<wire, discard>> ELSE Write(<<Beat>>)
    /\ UNCHANGED <<script, conv, muse, read, closed, pc, acc, got, client, charged>>

\* The select finds the ticker due
Heartbeat ==
    /\ pc = "loop" /\ muse
    /\ Len(SelectSeq(wire, LAMBDA x : x = Beat)) < MaxBeats
    /\ IF discard THEN UNCHANGED <<wire, discard>> ELSE Write(<<Beat>>)
    /\ UNCHANGED <<script, conv, muse, read, scan, closed, pc, taken, acc, got, client,
                   charged>>

\* Mutant: the counts of two usages are added
MergeAdded(a, u) ==
    [c \in Count |-> IF c = "total" /\ u[c] = 0 THEN a["prompt"] + a["completion"]
                                                ELSE a[c] + u[c]]

\* mergeUsage: later counts replace earlier ones; the total is completed if missing
Merge(a, u) ==
    LET m == [c \in Count |-> IF u[c] > 0 THEN u[c] ELSE a[c]]
    IN  IF u["total"] = 0 /\ (m["prompt"] > 0 \/ m["completion"] > 0)
          THEN [m EXCEPT !["total"] = m["prompt"] + m["completion"]] ELSE m

\* What a line becomes on the way to the client
Chunks(line) == IF conv THEN IF line.kind = "data" THEN <<line>> ELSE <<>>
                        ELSE <<line>>

\* A received line: its usage counts whether or not the client is still there
HandleLine ==
    LET line == script[taken]
    IN  /\ pc = "line"
        /\ IF line.usage # NoUsage
             THEN got' = TRUE /\ acc' = Merge(acc, line.usage)
             ELSE UNCHANGED <<got, acc>>
        /\ IF discard THEN UNCHANGED <<wire, discard>> ELSE Write(Chunks(line))
        /\ pc' = IF conv /\ line.last /\ ~discard' THEN "close" ELSE "loop"
        /\ UNCHANGED <<script, conv, muse, read, scan, closed, taken, client, charged>>

\* Mutant: the converter ends the stream itself, and Close does so once more
CloseTwice ==
    /\ pc = "close"
    /\ IF conv THEN Write(<<End, End>>) ELSE UNCHANGED <<wire, discard>>
    /\ pc' = "bill"
    /\ UNCHANGED <<script, conv, muse, read, scan, closed, taken, acc, got, client, charged>>

\* The end of a converted stream; whether the write fails no longer matters
Close ==
    /\ pc = "close"
    /\ IF conv THEN Write(<<End>>) ELSE UNCHANGED <<wire, discard>>
    /\ pc' = "bill"
    /\ UNCHANGED <<script, conv, muse, read, scan, closed, taken, acc, got, client, charged>>

\* recordUsage, then the deferred cancelScan and the caller's Body.Close
Return ==
    /\ pc = "bill"
    /\ charged' = IF got THEN Append(charged, acc) ELSE charged
    /\ closed' = TRUE /\ pc' = "done"
    /\ UNCHANGED <<script, conv, muse, read, scan, taken, acc, got, discard, client, wire>>

-----------------------------------------------------------------------------

Scanner == ScanLine \/ ScanEnd \/ ScanFail \/ ScanQuit
Handler == Receive \/ ReceiveEnd \/ HandleLine \/ Close \/ Return

Next == Leave \/ Scanner \/ Handler \/ Heartbeat

Spec == Init /\ [][Next]_vars

\* The handler runs when it can.  The upstream may keep silent for ever, as its body has
\* no deadline, but once the client left or the body is closed a read of it returns
Fairness ==
    /\ WF_vars(Handler)
    /\ WF_vars((client = "gone" \/ closed) /\ (ScanLine \/ ScanEnd \/ ScanFail))
    /\ WF_vars(ScanQuit)

FairSpec == Spec /\ Fairness

-----------------------------------------------------------------------------
(* Properties *)

\* The last count of a kind that a stretch of lines carries, 0 if none
LastCount(lines, c) ==
    LET at == {i \in 1 .. Len(lines) : lines[i].usage # NoUsage /\ lines[i].usage[c] > 0}
    IN  IF at = {} THEN 0
        ELSE lines[CHOOSE i \in at : \A j \in at : j <= i].usage[c]

\* Does a stretch of lines carry a usage at all?
HasUsage(lines) == \E i \in 1 .. Len(lines) : lines[i].usage # NoUsage

\* The lines the handler is done with
Handled == SubSeq(script, 1, IF pc = "line" THEN taken - 1 ELSE taken)

\* An answer is charged once, by the final counts of the lines that were read: neither
\* the moment the client leaves nor the moment the upstream breaks changes them
BilledAsRead ==
    pc = "done" =>
        /\ Len(charged) = IF HasUsage(Handled) THEN 1 ELSE 0
        /\ \A i \in 1 .. Len(charged) :
              /\ charged[i]["prompt"] = LastCount(Handled, "prompt")
              /\ charged[i]["completion"] = LastCount(Handled, "completion")
              /\ charged[i]["total"] >= charged[i]["prompt"]

\* A total that an upstream gives is not below what it gave for the prompt, then or earlier
TotalsCoverPrompts ==
    \A s \in Script : \A j \in 1 .. Len(s) : \A i \in 1 .. j :
        s[i].usage # NoUsage /\ s[j].usage # NoUsage /\ s[j].usage["total"] > 0 =>
            s[j].usage["total"] >= s[i].usage["prompt"]

\* The lines the client must have seen, converted or not
Due == At(Handled, {i \in DOMAIN Handled : conv => Handled[i].kind = "data"})

\* A client that stays has received every line handled, in order and once, whatever
\* heartbeats came in between
ClientSeesAll ==
    client = "here" => At(wire, {i \in DOMAIN wire : wire[i] \notin {Beat, End}}) = Due

\* A converted stream is ended exactly once, and nothing follows: also after a broken
\* upstream; a copied one is never ended by the proxy
EndedOnce ==
    LET ends == {i \in 1 .. Len(wire) : wire[i] = End}
    IN  /\ \A i \in ends : i = Len(wire)
        /\ client = "here" /\ pc \in {"bill", "done"} => (ends # {} <=> conv)

\* When the client left the handler returns, however silent the upstream
DepartureEndsStream == client = "gone" ~> pc = "done"

\* When the handler has returned the scanning goroutine ends
NoGoroutineLeak == pc = "done" ~> scan = "stopped"

\* Before the handler closes the stream nothing ended it; a line is handled only after
\* the scanner read it
EndInv ==
    /\ script \in Seq(Line) /\ read \in 0 .. Len(script) /\ taken \in 0 .. read
    /\ scan = "offering" => taken < read
    /\ pc \in {"loop", "line", "close", "bill", "done"}
    /\ pc = "line" => taken > 0
    /\ wire \in Seq(Item)
    /\ pc \in {"loop", "line", "close"} => \A i \in 1 .. Len(wire) : wire[i] # End
    /\ EndedOnce

\* Nobody who stays is denied a write
SeenInv == ClientSeesAll /\ (discard => client = "gone")

\* The usage in hand is that of the lines handled, and charged at the end
BillInv ==
    /\ script \in Script
    /\ got \in BOOLEAN /\ (got <=> HasUsage(Handled))
    /\ acc \in Usage
    /\ \A c \in {"prompt", "completion"} : acc[c] = LastCount(Handled, c)
    /\ acc["total"] >= acc["prompt"]
    /\ charged = IF pc = "done" /\ got THEN <<acc>> ELSE <<>>
=============================================================================
