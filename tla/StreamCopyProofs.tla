-------------------------- MODULE StreamCopyProofs --------------------------
(***************************************************************************)
(* How a streamed answer ends, what of it the client sees and what it is   *)
(* charged, for any stream of the upstream and whatever breaks or leaves   *)
(* on the way.                                                             *)
(***************************************************************************)
EXTENDS StreamCopy, Induction

LEMMA EndIsNoLine ==
    /\ Beat \in Item /\ End \in Item /\ Line \subseteq Item
    /\ Beat # End /\ Beat \notin Line /\ End \notin Line
BY DEF Item, Line, Beat, End

LEMMA EndInvInit == Init => EndInv
<1> SUFFICES ASSUME Init PROVE EndInv
  OBVIOUS
<1>1. script \in Seq(Line) /\ Len(script) \in Nat
  BY ScriptAssumption DEF Init
<1>2. wire = <<>> /\ Len(wire) = 0 /\ wire \in Seq(Item)
  BY DEF Init
<1> QED BY <1>1, <1>2 DEF Init, EndInv, EndedOnce

\* What is written before the end of the stream
Ordinary == {items \in Seq(Item) : \A i \in 1 .. Len(items) : items[i] # End}

LEMMA ChunksOrdinary == ASSUME NEW line \in Line PROVE Chunks(line) \in Ordinary
<1>1. line \in Item /\ line # End
  BY EndIsNoLine DEF Item
<1> QED BY <1>1 DEF Chunks, Ordinary

\* Writing what does not end the stream does not end it
LEMMA WriteOrdinary ==
    ASSUME EndInv, pc \in {"loop", "line", "close"}, NEW items \in Ordinary, Write(items)
    PROVE  wire' \in Seq(Item) /\ \A i \in 1 .. Len(wire') : wire'[i] # End
<1>1. wire \in Seq(Item) /\ \A i \in 1 .. Len(wire) : wire[i] # End
  BY DEF EndInv
<1>2. CASE wire' = wire
  BY <1>1, <1>2
<1>3. CASE wire' = wire \o items
  <2>1. items \in Seq(Item) /\ \A i \in 1 .. Len(items) : items[i] # End
    BY DEF Ordinary
  <2>2. Len(wire') = Len(wire) + Len(items) /\ wire' \in Seq(Item)
    BY <1>1, <1>3, <2>1
  <2>3. ASSUME NEW i \in 1 .. Len(wire') PROVE wire'[i] # End
    <3>1. CASE i <= Len(wire)
      BY <1>1, <1>3, <2>1, <2>2, <3>1
    <3>2. CASE i > Len(wire)
      <4>1. i - Len(wire) \in 1 .. Len(items) /\ wire'[i] = items[i - Len(wire)]
        BY <1>1, <1>3, <2>1, <2>2, <3>2
      <4> QED BY <2>1, <4>1
    <3> QED BY <1>1, <3>1, <3>2
  <2> QED BY <2>2, <2>3
<1> QED BY <1>2, <1>3 DEF Write

\* A step that leaves the stream unended, its wire being what it writes
LEMMA StillOpen ==
    ASSUME pc' \in {"loop", "line", "close"}, wire' \in Seq(Item),
           \A i \in 1 .. Len(wire') : wire'[i] # End
    PROVE  EndedOnce'
BY DEF EndedOnce

LEMMA ScannerKeeps == EndInv /\ Scanner => EndInv'
<1> SUFFICES ASSUME EndInv, Scanner PROVE EndInv'
  OBVIOUS
<1>1. UNCHANGED <<script, conv, pc, taken, client, wire>>
  BY DEF Scanner, ScanLine, ScanEnd, ScanFail, ScanQuit
<1>2. /\ read' \in 0 .. Len(script) /\ taken \in 0 .. read'
      /\ scan' = "offering" => taken < read'
  BY DEF Scanner, ScanLine, ScanEnd, ScanFail, ScanQuit, EndInv
<1>3. EndedOnce'
  BY <1>1 DEF EndInv, EndedOnce
<1> QED BY <1>1, <1>2, <1>3 DEF EndInv

LEMMA ReceiveKeeps == EndInv /\ (Receive \/ ReceiveEnd) => EndInv'
<1> SUFFICES ASSUME EndInv, Receive \/ ReceiveEnd PROVE EndInv'
  OBVIOUS
<1>1. /\ UNCHANGED <<script, read, wire>> /\ pc = "loop"
      /\ scan' # "offering" /\ pc' \in {"line", "close"}
  BY DEF Receive, ReceiveEnd
<1>2. taken' \in 0 .. read /\ (pc' = "line" => taken' > 0)
  BY DEF Receive, ReceiveEnd, EndInv
<1>3. wire \in Seq(Item) /\ \A i \in 1 .. Len(wire) : wire[i] # End
  BY <1>1 DEF EndInv
<1>4. EndedOnce'
  BY <1>1, <1>3, StillOpen
<1> QED BY <1>1, <1>2, <1>3, <1>4 DEF EndInv

LEMMA WritesKeep == EndInv /\ (Heartbeat \/ HandleLine) => EndInv'
<1> SUFFICES ASSUME EndInv, Heartbeat \/ HandleLine PROVE EndInv'
  OBVIOUS
<1>1. /\ UNCHANGED <<script, read, scan, taken>> /\ pc \in {"loop", "line"}
      /\ pc' \in {"loop", "close"}
  BY DEF Heartbeat, HandleLine
<1>2. UNCHANGED wire \/ \E items \in Ordinary : Write(items)
  <2>1. CASE Heartbeat
    <3>1. <<Beat>> \in Ordinary
      BY EndIsNoLine DEF Ordinary
    <3> QED BY <2>1, <3>1 DEF Heartbeat
  <2>2. CASE HandleLine
    <3>1. taken \in 1 .. Len(script) /\ script \in Seq(Line)
      BY <2>2 DEF HandleLine, EndInv
    <3>2. script[taken] \in Line
      BY <3>1
    <3> QED BY <2>2, <3>2, ChunksOrdinary DEF HandleLine
  <2> QED BY <2>1, <2>2
<1>3. wire' \in Seq(Item) /\ \A i \in 1 .. Len(wire') : wire'[i] # End
  BY <1>1, <1>2, WriteOrdinary DEF EndInv
<1>4. EndedOnce'
  BY <1>1, <1>3, StillOpen
<1> QED BY <1>1, <1>3, <1>4 DEF EndInv

LEMMA CloseEnds == EndInv /\ Close => EndInv'
<1> SUFFICES ASSUME EndInv, Close PROVE EndInv'
  OBVIOUS
<1>1. UNCHANGED <<script, conv, read, scan, taken, client>> /\ pc = "close" /\ pc' = "bill"
  BY DEF Close
<1>2. wire \in Seq(Item) /\ Len(wire) \in Nat /\ \A i \in 1 .. Len(wire) : wire[i] # End
  BY <1>1 DEF EndInv
<1>3. CASE conv /\ client = "here"
  <2>1. wire' = Append(wire, End)
    BY <1>2, <1>3, EndIsNoLine DEF Close, Write
  <2>2. /\ wire' \in Seq(Item) /\ Len(wire') = Len(wire) + 1
        /\ wire'[Len(wire')] = End
        /\ \A i \in 1 .. Len(wire) : wire'[i] = wire[i]
    BY <1>2, <2>1, EndIsNoLine
  <2>3. {i \in 1 .. Len(wire') : wire'[i] = End} = {Len(wire')}
    BY <1>2, <2>2
  <2>4. EndedOnce'
    BY <1>1, <1>3, <2>3 DEF EndedOnce
  <2> QED BY <1>1, <2>2, <2>4 DEF EndInv
<1>4. CASE ~(conv /\ client = "here")
  <2>1. wire' = wire
    BY <1>4 DEF Close, Write
  <2>2. {i \in 1 .. Len(wire') : wire'[i] = End} = {}
    BY <1>2, <2>1
  <2>3. EndedOnce'
    BY <1>1, <1>4, <2>2 DEF EndedOnce
  <2> QED BY <1>1, <2>1, <2>3, <1>2 DEF EndInv
<1> QED BY <1>3, <1>4

LEMMA EndInvStep == EndInv /\ [Next]_vars => EndInv'
<1> SUFFICES ASSUME EndInv, [Next]_vars PROVE EndInv'
  OBVIOUS
<1>1. CASE Leave
  <2>1. UNCHANGED <<script, conv, read, scan, pc, taken, wire>> /\ client' = "gone"
    BY <1>1 DEF Leave
  <2>2. EndedOnce'
    BY <2>1 DEF EndInv, EndedOnce
  <2> QED BY <2>1, <2>2 DEF EndInv
<1>2. CASE Return
  <2>1. /\ UNCHANGED <<script, conv, read, scan, taken, client, wire>>
        /\ pc = "bill" /\ pc' = "done"
    BY <1>2 DEF Return
  <2>2. EndedOnce'
    BY <2>1 DEF EndInv, EndedOnce
  <2> QED BY <2>1, <2>2 DEF EndInv
<1>3. CASE UNCHANGED vars
  BY <1>3 DEF vars, EndInv, EndedOnce
<1> QED BY <1>1, <1>2, <1>3, ScannerKeeps, ReceiveKeeps, WritesKeep, CloseEnds DEF Next, Handler

\* For any stream of the upstream, wherever it breaks and whenever the client leaves: a
\* converted stream is ended once and nothing follows, and a copied one is not ended
THEOREM StreamEndsOnce == Spec => []EndedOnce
<1>1. EndInv => EndedOnce
  BY DEF EndInv
<1> QED BY <1>1, EndInvInit, EndInvStep, PTL DEF Spec

-----------------------------------------------------------------------------
(* The lines handled, one by one *)

LEMMA PrefixAppend ==
    ASSUME NEW s \in Seq(Line), NEW n \in Nat, n + 1 <= Len(s)
    PROVE  LET lines == SubSeq(s, 1, n)
           IN  /\ lines \in Seq(Line) /\ Len(lines) = n
               /\ SubSeq(s, 1, n + 1) = Append(lines, s[n + 1]) /\ s[n + 1] \in Line
               /\ \A i \in 1 .. n : lines[i] = s[i]
<1> DEFINE u == SubSeq(s, 1, n)
           v == SubSeq(s, 1, n + 1)
<1>1. Len(s) \in Nat /\ n <= Len(s) /\ n + 1 \in 1 .. Len(s) /\ s[n + 1] \in Line
  OBVIOUS
<1>2. /\ u \in Seq(Line) /\ Len(u) = n /\ \A i \in 1 .. n : u[i] = s[i]
  BY <1>1, SubSeqProperties
<1>3. /\ v \in Seq(Line) /\ Len(v) = n + 1 /\ \A i \in 1 .. n + 1 : v[i] = s[i]
  BY <1>1, SubSeqProperties
<1> HIDE DEF u, v
<1>4. /\ Append(u, s[n + 1]) \in Seq(Line) /\ Len(Append(u, s[n + 1])) = n + 1
      /\ \A i \in 1 .. n : Append(u, s[n + 1])[i] = u[i]
      /\ Append(u, s[n + 1])[n + 1] = s[n + 1]
  BY <1>1, <1>2
<1> DEFINE w == Append(u, s[n + 1])
<1>5. \A i \in 1 .. n + 1 : w[i] = v[i]
  BY <1>2, <1>3, <1>4
<1> HIDE DEF w
<1>6. w = v
  <2>1. w \in Seq(Line) /\ Len(w) = n + 1
    BY <1>4 DEF w
  <2> QED BY <1>3, <1>5, <2>1
<1> QED BY <1>1, <1>2, <1>6 DEF u, v, w

LEMMA LastCountAppend ==
    ASSUME NEW lines \in Seq(Line), NEW e \in Line, NEW c \in Count
    PROVE  LastCount(Append(lines, e), c) =
              IF e.usage # NoUsage /\ e.usage[c] > 0 THEN e.usage[c] ELSE LastCount(lines, c)
<1> DEFINE t == Append(lines, e)
           n == Len(lines)
           has(s, i) == s[i].usage # NoUsage /\ s[i].usage[c] > 0
           P == {i \in 1 .. n : has(lines, i)}
           Q == {i \in 1 .. Len(t) : has(t, i)}
<1>1. n \in Nat /\ Len(t) = n + 1 /\ t[n + 1] = e /\ \A i \in 1 .. n : t[i] = lines[i]
  OBVIOUS
<1>2. /\ LastCount(lines, c) = IF P = {} THEN 0
                               ELSE lines[CHOOSE i \in P : \A j \in P : j <= i].usage[c]
      /\ LastCount(t, c) = IF Q = {} THEN 0 ELSE t[CHOOSE i \in Q : \A j \in Q : j <= i].usage[c]
  BY DEF LastCount
<1>3. \A i \in 1 .. n : has(t, i) <=> has(lines, i)
  BY <1>1
<1>4. has(t, n + 1) <=> e.usage # NoUsage /\ e.usage[c] > 0
  BY <1>1
<1> HIDE DEF t, n, has
<1>5. CASE has(t, n + 1)
  <2>1. n + 1 \in Q /\ \A j \in Q : j <= n + 1
    BY <1>1, <1>5
  <2> HIDE DEF Q
  <2> DEFINE m == CHOOSE i \in Q : \A j \in Q : j <= i
  <2>2. m \in Q /\ \A j \in Q : j <= m
    BY <2>1
  <2>3. Q \subseteq Int
    BY <1>1 DEF Q
  <2> HIDE DEF m
  <2>4. m = n + 1
    <3>1. n + 1 <= m /\ m <= n + 1
      BY <2>1, <2>2
    <3>2. m \in Int /\ n + 1 \in Int
      BY <1>1, <2>2, <2>3
    <3> QED BY <3>1, <3>2
  <2>5. LastCount(t, c) = t[m].usage[c]
    BY <1>2, <2>1 DEF m
  <2> QED BY <1>1, <1>4, <1>5, <2>4, <2>5 DEF t
<1>6. CASE ~has(t, n + 1)
  <2>1. P = Q
    <3>1. ASSUME NEW i \in Q PROVE i \in 1 .. n
      BY <1>1, <1>6
    <3> QED BY <1>1, <1>3, <3>1
  <2>2. CASE P = {}
    BY <1>2, <1>4, <1>6, <2>1, <2>2 DEF t
  <2>3. CASE P # {}
    <3> DEFINE m == CHOOSE i \in P : \A j \in P : j <= i
    <3>1. P \in SUBSET (1 .. n)
      OBVIOUS
    <3> HIDE DEF P
    <3>2. m \in P
      BY <1>1, <2>3, <3>1, LargestOf
    <3>3. t[m] = lines[m]
      BY <1>1, <3>1, <3>2
    <3>4. LastCount(lines, c) = lines[m].usage[c] /\ LastCount(t, c) = t[m].usage[c]
      BY <1>2, <2>1, <2>3
    <3> QED BY <1>4, <1>6, <3>3, <3>4 DEF t
  <2> QED BY <2>2, <2>3
<1> QED BY <1>5, <1>6

\* The last count is one of those the lines carry, or 0
LEMMA LastCountIsOne ==
    ASSUME NEW lines \in Seq(Line), NEW c \in Count
    PROVE  \/ LastCount(lines, c) = 0
           \/ \E i \in 1 .. Len(lines) :
                 lines[i].usage # NoUsage /\ LastCount(lines, c) = lines[i].usage[c]
<1> DEFINE P == {i \in 1 .. Len(lines) : lines[i].usage # NoUsage /\ lines[i].usage[c] > 0}
           m == CHOOSE i \in P : \A j \in P : j <= i
<1>1. LastCount(lines, c) = IF P = {} THEN 0 ELSE lines[m].usage[c]
  BY DEF LastCount
<1>2. CASE P # {}
  <2>1. P \in SUBSET (1 .. Len(lines)) /\ Len(lines) \in Nat
    OBVIOUS
  <2> HIDE DEF P
  <2>2. m \in P
    BY <1>2, <2>1, LargestOf
  <2> HIDE DEF m
  <2> QED BY <1>1, <1>2, <2>2 DEF P
<1> QED BY <1>1, <1>2

LEMMA HasUsageAppend ==
    ASSUME NEW lines \in Seq(Line), NEW e \in Line
    PROVE  HasUsage(Append(lines, e)) <=> HasUsage(lines) \/ e.usage # NoUsage
<1> DEFINE t == Append(lines, e)
           n == Len(lines)
<1>1. n \in Nat /\ Len(t) = n + 1 /\ t[n + 1] = e /\ \A i \in 1 .. n : t[i] = lines[i]
  OBVIOUS
<1> HIDE DEF t, n
<1>2. ASSUME HasUsage(t) PROVE HasUsage(lines) \/ e.usage # NoUsage
  <2>1. PICK i \in 1 .. n + 1 : t[i].usage # NoUsage
    BY <1>1, <1>2 DEF HasUsage
  <2>2. CASE i = n + 1
    BY <1>1, <2>1, <2>2
  <2>3. CASE i # n + 1
    <3>1. i \in 1 .. n /\ lines[i].usage # NoUsage
      BY <1>1, <2>1, <2>3
    <3> QED BY <3>1 DEF HasUsage, n
  <2> QED BY <2>2, <2>3
<1>3. ASSUME HasUsage(lines) PROVE HasUsage(t)
  <2>1. PICK i \in 1 .. n : lines[i].usage # NoUsage
    BY <1>3 DEF HasUsage, n
  <2>2. i \in 1 .. Len(t) /\ t[i].usage # NoUsage
    BY <1>1, <2>1
  <2> QED BY <2>2 DEF HasUsage
<1>4. ASSUME e.usage # NoUsage PROVE HasUsage(t)
  BY <1>1, <1>4 DEF HasUsage
<1> QED BY <1>2, <1>3, <1>4 DEF t

-----------------------------------------------------------------------------
(* What a client that stays sees *)

\* The lines on a wire w, and those of h that are due
LinesOn(w) == At(w, {i \in DOMAIN w : w[i] \notin {Beat, End}})
DueOf(h)   == At(h, {i \in DOMAIN h : conv => h[i].kind = "data"})

LEMMA LinesOnAppend ==
    ASSUME NEW w \in Seq(Item), NEW x \in Item
    PROVE  LinesOn(Append(w, x)) = IF x \in Line THEN Append(LinesOn(w), x) ELSE LinesOn(w)
<1> DEFINE t == Append(w, x)
           P == {i \in DOMAIN t : t[i] \notin {Beat, End}}
           Q == {i \in DOMAIN w : w[i] \notin {Beat, End}}
<1>1. /\ Len(w) \in Nat /\ DOMAIN w = 1 .. Len(w) /\ DOMAIN t = 1 .. Len(w) + 1
      /\ \A i \in 1 .. Len(w) : t[i] = w[i]
      /\ t[Len(w) + 1] = x
  OBVIOUS
<1>2. IsSeq(w)
  BY DEF IsSeq
<1>3. x \notin {Beat, End} <=> x \in Line
  BY EndIsNoLine DEF Item
<1>4. LinesOn(t) = At(t, P) /\ LinesOn(w) = At(w, Q)
  BY DEF LinesOn
<1> HIDE DEF t
<1>5. (\A k \in 1 .. Len(w) : k \in P <=> k \in Q) /\ (Len(w) + 1 \in P <=> x \in Line)
  BY <1>1, <1>3
<1> HIDE DEF P, Q
<1>6. At(t, P) = IF Len(w) + 1 \in P THEN Append(At(w, Q), x) ELSE At(w, Q)
  BY <1>2, <1>5, AtAppend DEF t
<1> QED BY <1>4, <1>5, <1>6 DEF t

LEMMA DueOfAppend ==
    ASSUME NEW h \in Seq(Line), NEW e \in Line
    PROVE  DueOf(Append(h, e)) = IF conv => e.kind = "data" THEN Append(DueOf(h), e) ELSE DueOf(h)
<1> DEFINE t == Append(h, e)
           P == {i \in DOMAIN t : conv => t[i].kind = "data"}
           Q == {i \in DOMAIN h : conv => h[i].kind = "data"}
<1>1. /\ Len(h) \in Nat /\ DOMAIN h = 1 .. Len(h) /\ DOMAIN t = 1 .. Len(h) + 1
      /\ \A i \in 1 .. Len(h) : t[i] = h[i]
      /\ t[Len(h) + 1] = e
  OBVIOUS
<1>2. IsSeq(h)
  BY DEF IsSeq
<1>3. DueOf(t) = At(t, P) /\ DueOf(h) = At(h, Q)
  BY DEF DueOf
<1> HIDE DEF t
<1>4. /\ \A k \in 1 .. Len(h) : k \in P <=> k \in Q
      /\ Len(h) + 1 \in P <=> (conv => e.kind = "data")
  BY <1>1
<1> HIDE DEF P, Q
<1>5. At(t, P) = IF Len(h) + 1 \in P THEN Append(At(h, Q), e) ELSE At(h, Q)
  BY <1>2, <1>4, AtAppend DEF t
<1> QED BY <1>3, <1>4, <1>5 DEF t

LEMMA SeesLines == ClientSeesAll <=> (client = "here" => LinesOn(wire) = DueOf(Handled))
BY DEF ClientSeesAll, LinesOn, DueOf, Due

\* The lines handled change with HandleLine only
LEMMA HandledSame ==
    ASSUME EndInv, script' = script,
           \/ taken' = taken /\ (pc' = "line" <=> pc = "line")
           \/ taken' = taken + 1 /\ pc # "line" /\ pc' = "line"
    PROVE  Handled' = Handled
<1>1. taken \in Int
  BY DEF EndInv
<1> QED BY <1>1 DEF Handled

LEMMA HandledMore ==
    ASSUME EndInv, HandleLine
    PROVE  /\ taken \in 1 .. Len(script) /\ script[taken] \in Line
           /\ Handled \in Seq(Line) /\ Handled' = Append(Handled, script[taken])
           /\ Len(Handled) = taken - 1 /\ \A i \in 1 .. taken - 1 : Handled[i] = script[i]
<1>1. /\ pc = "line" /\ pc' # "line" /\ script' = script /\ taken' = taken
      /\ script \in Seq(Line) /\ taken \in 1 .. Len(script)
  BY DEF HandleLine, EndInv
<1> DEFINE n == taken - 1
<1>2. n \in Nat /\ n + 1 <= Len(script) /\ n + 1 = taken
  BY <1>1
<1>3. Handled = SubSeq(script, 1, n) /\ Handled' = SubSeq(script, 1, n + 1)
  BY <1>1, <1>2 DEF Handled
<1> HIDE DEF n
<1> QED BY <1>1, <1>2, <1>3, PrefixAppend DEF n

LEMMA AppendedOne ==
    ASSUME NEW w \in Seq(Item), NEW x \in Item
    PROVE  w \o <<x>> = Append(w, x) /\ w \o <<>> = w
OBVIOUS

LEMMA SeenStep == EndInv /\ SeenInv /\ [Next]_vars => SeenInv'
<1> SUFFICES ASSUME EndInv, SeenInv, [Next]_vars PROVE SeenInv'
  OBVIOUS
<1>1. /\ client = "here" => LinesOn(wire) = DueOf(Handled) /\ ~discard
      /\ discard => client = "gone"
      /\ wire \in Seq(Item)
  BY SeesLines DEF SeenInv, EndInv
<1>2. ASSUME conv' = conv, client' = client \/ client' = "gone",
             discard' => discard \/ client' = "gone",
             client' = "here" => LinesOn(wire') = DueOf(Handled')
      PROVE  SeenInv'
  <2>1. (DueOf(Handled))' = DueOf(Handled')
    BY <1>2 DEF DueOf
  <2>2. ClientSeesAll'
    BY <1>2, <2>1 DEF ClientSeesAll, LinesOn, DueOf, Due
  <2>3. discard' => client' = "gone"
    BY <1>1, <1>2
  <2> QED BY <2>2, <2>3 DEF SeenInv
<1>3. CASE Leave
  BY <1>2, <1>3 DEF Leave
<1>4. CASE Scanner \/ Receive \/ ReceiveEnd \/ Return \/ UNCHANGED vars
  <2>1. UNCHANGED <<script, conv, discard, client, wire>>
    BY <1>4 DEF Scanner, ScanLine, ScanEnd, ScanFail, ScanQuit, Receive, ReceiveEnd, Return, vars
  <2>2. \/ taken' = taken /\ (pc' = "line" <=> pc = "line")
        \/ taken' = taken + 1 /\ pc # "line" /\ pc' = "line"
    BY <1>4 DEF Scanner, ScanLine, ScanEnd, ScanFail, ScanQuit, Receive, ReceiveEnd, Return, vars
  <2>3. Handled' = Handled
    BY <2>1, <2>2, HandledSame
  <2> QED BY <1>1, <1>2, <2>1, <2>3
<1>5. CASE Heartbeat \/ Close
  <2>1. PICK x \in {Beat, End} : /\ \/ UNCHANGED <<wire, discard>>
                                   \/ Write(<<x>>)
                                /\ UNCHANGED <<script, conv, taken, client>>
                                /\ pc # "line" /\ pc' # "line"
    BY <1>5 DEF Heartbeat, Close
  <2>2. Handled' = Handled
    BY <2>1, HandledSame
  <2>3. x \in Item /\ x \notin Line
    BY <2>1, EndIsNoLine
  <2>4. client = "here" => wire' \in {wire, Append(wire, x)}
    BY <1>1, <2>1, <2>3, AppendedOne DEF Write
  <2>5. client = "here" => LinesOn(wire') = LinesOn(wire)
    BY <1>1, <2>3, <2>4, LinesOnAppend
  <2>6. discard' => discard \/ client = "gone"
    BY <2>1 DEF Write
  <2> QED BY <1>1, <1>2, <2>1, <2>2, <2>5, <2>6
<1>6. CASE HandleLine
  <2> DEFINE line == script[taken]
  <2>1. line \in Line /\ Handled \in Seq(Line) /\ Handled' = Append(Handled, line)
    BY <1>6, HandledMore
  <2>2. UNCHANGED <<conv, client>> /\ (discard \/ Write(Chunks(line)))
    BY <1>6 DEF HandleLine
  <2>3. discard' => discard \/ client = "gone"
    BY <1>6 DEF HandleLine, Write
  <2> HIDE DEF line
  <2>4. line \in Item
    BY <2>1, EndIsNoLine
  <2>5. ASSUME client = "here" PROVE LinesOn(wire') = DueOf(Handled')
    <3>1. wire' = wire \o Chunks(line)
      BY <1>1, <2>2, <2>5 DEF Write
    <3>2. wire' = IF conv => line.kind = "data" THEN Append(wire, line) ELSE wire
      BY <1>1, <2>4, <3>1, AppendedOne DEF Chunks
    <3>3. LinesOn(wire') = IF conv => line.kind = "data" THEN Append(LinesOn(wire), line)
                           ELSE LinesOn(wire)
      BY <1>1, <2>1, <2>4, <3>2, LinesOnAppend
    <3> QED BY <1>1, <2>1, <2>5, <3>3, DueOfAppend
  <2> QED BY <1>2, <2>2, <2>3, <2>5
<1> QED BY <1>3, <1>4, <1>5, <1>6 DEF Next, Handler

LEMMA NothingHandled == Init => Handled = <<>> /\ script \in Script /\ script \in Seq(Line)
<1> SUFFICES ASSUME Init PROVE Handled = <<>> /\ script \in Script /\ script \in Seq(Line)
  OBVIOUS
<1>1. script \in Script /\ script \in Seq(Line)
  BY ScriptAssumption DEF Init
<1>2. Handled = SubSeq(script, 1, 0)
  BY DEF Init, Handled
<1>3. Handled = <<>>
  BY <1>1, <1>2
<1> QED BY <1>1, <1>3

\* A client that stays gets every line that was handled once and in order, however often
\* heartbeats fall between them and wherever the upstream breaks off
THEOREM ClientsSeeAll == Spec => []ClientSeesAll
<1>1. Init => SeenInv
  <2> SUFFICES ASSUME Init PROVE SeenInv
    OBVIOUS
  <2>1. wire = <<>> /\ ~discard
    BY DEF Init
  <2>2. LinesOn(<<>>) = <<>> /\ DueOf(<<>>) = <<>>
    BY AtEmpty DEF LinesOn, DueOf
  <2> QED BY <2>1, <2>2, NothingHandled, SeesLines DEF SeenInv
<1>2. SeenInv => ClientSeesAll
  BY DEF SeenInv
<1> QED BY <1>1, <1>2, EndInvInit, EndInvStep, SeenStep, PTL DEF Spec

-----------------------------------------------------------------------------
(* What an answer is charged *)

LEMMA MergeIsUsage ==
    ASSUME NEW a \in Usage, NEW u \in Usage
    PROVE  LET m == Merge(a, u)
           IN  /\ m \in Usage
               /\ \A c \in {"prompt", "completion"} : m[c] = IF u[c] > 0 THEN u[c] ELSE a[c]
               /\ u["total"] > 0 => m["total"] = u["total"]
               /\ u["total"] = 0 /\ a["total"] >= a["prompt"] => m["total"] >= m["prompt"]
<1> DEFINE m == [c \in Count |-> IF u[c] > 0 THEN u[c] ELSE a[c]]
           v == Merge(a, u)
<1>1. /\ \A c \in Count : a[c] \in Nat /\ u[c] \in Nat
      /\ {"prompt", "completion", "total"} \subseteq Count
  BY DEF Usage, Count
<1>2. m \in Usage
  BY <1>1 DEF Usage
<1>3. \A c \in Count : m[c] = IF u[c] > 0 THEN u[c] ELSE a[c]
  OBVIOUS
<1>4. v = IF u["total"] = 0 /\ (m["prompt"] > 0 \/ m["completion"] > 0)
            THEN [m EXCEPT !["total"] = m["prompt"] + m["completion"]] ELSE m
  BY DEF Merge
<1> HIDE DEF m, v
<1>5. DOMAIN m = Count /\ \A c \in Count : m[c] \in Nat
  BY <1>2 DEF Usage
<1>6. CASE u["total"] = 0 /\ (m["prompt"] > 0 \/ m["completion"] > 0)
  <2>1. /\ DOMAIN v = Count /\ v["total"] = m["prompt"] + m["completion"]
        /\ v["prompt"] = m["prompt"] /\ v["completion"] = m["completion"]
        /\ v = [c \in Count |-> v[c]]
    BY <1>1, <1>4, <1>5, <1>6
  <2>2. v \in Usage
    BY <1>1, <1>5, <2>1 DEF Usage, Count
  <2> QED BY <1>1, <1>3, <1>5, <1>6, <2>1, <2>2 DEF v
<1>7. CASE ~(u["total"] = 0 /\ (m["prompt"] > 0 \/ m["completion"] > 0))
  <2>1. v = m
    BY <1>4, <1>7
  <2>2. u["total"] = 0 => m["prompt"] = 0
    BY <1>1, <1>5, <1>7
  <2> QED BY <1>1, <1>2, <1>3, <1>5, <2>1, <2>2 DEF v
<1> QED BY <1>6, <1>7

LEMMA BillStep == ASSUME TotalsCoverPrompts PROVE EndInv /\ BillInv /\ [Next]_vars => BillInv'
<1> SUFFICES ASSUME EndInv, BillInv, [Next]_vars PROVE BillInv'
  OBVIOUS
<1>1. CASE Leave \/ Scanner \/ Receive \/ ReceiveEnd \/ Heartbeat \/ Close \/ UNCHANGED vars
  <2>1. UNCHANGED <<script, got, acc, charged>> /\ (pc' = "done" <=> pc = "done")
    BY <1>1 DEF Leave, Scanner, ScanLine, ScanEnd, ScanFail, ScanQuit, Receive, ReceiveEnd,
       Heartbeat, Close, vars
  <2>2. \/ taken' = taken /\ (pc' = "line" <=> pc = "line")
        \/ taken' = taken + 1 /\ pc # "line" /\ pc' = "line"
    BY <1>1 DEF Leave, Scanner, ScanLine, ScanEnd, ScanFail, ScanQuit, Receive, ReceiveEnd,
       Heartbeat, Close, vars
  <2>3. Handled' = Handled
    BY <2>1, <2>2, HandledSame
  <2> QED BY <2>1, <2>3 DEF BillInv
<1>2. CASE Return
  <2>1. /\ UNCHANGED <<script, got, acc, taken>> /\ pc = "bill" /\ pc' = "done"
        /\ charged' = IF got THEN Append(charged, acc) ELSE charged
    BY <1>2 DEF Return
  <2>2. Handled' = Handled
    BY <2>1, HandledSame
  <2>3. charged = <<>>
    BY <2>1 DEF BillInv
  <2>4. charged' = IF got THEN <<acc>> ELSE <<>>
    BY <2>1, <2>3
  <2> QED BY <2>1, <2>2, <2>4 DEF BillInv
<1>3. CASE HandleLine
  <2> DEFINE line == script[taken]
             u == line.usage
  <2>1. /\ taken \in 1 .. Len(script) /\ line \in Line /\ Len(Handled) = taken - 1
        /\ Handled \in Seq(Line) /\ Handled' = Append(Handled, line)
        /\ \A i \in 1 .. taken - 1 : Handled[i] = script[i]
    BY <1>3, HandledMore
  <2>2. /\ UNCHANGED <<script, charged>> /\ pc # "done" /\ pc' # "done"
        /\ u # NoUsage => got' = TRUE /\ acc' = Merge(acc, u)
        /\ u = NoUsage => UNCHANGED <<got, acc>>
    BY <1>3 DEF HandleLine
  <2>3. u # NoUsage => u \in Usage
    BY <2>1 DEF Line
  <2> HIDE DEF line
  <2>4. got' \in BOOLEAN /\ (got' <=> HasUsage(Handled'))
    <3>1. got \in BOOLEAN /\ (got <=> HasUsage(Handled))
      BY DEF BillInv
    <3>2. HasUsage(Handled') <=> HasUsage(Handled) \/ u # NoUsage
      BY <2>1, HasUsageAppend
    <3>3. CASE u = NoUsage
      <4>1. got' = got
        BY <2>2, <3>3
      <4> QED BY <3>1, <3>2, <3>3, <4>1
    <3>4. CASE u # NoUsage
      <4>1. got' = TRUE
        BY <2>2, <3>4
      <4> QED BY <3>2, <3>4, <4>1
    <3> QED BY <3>3, <3>4
  <2>5. acc \in Usage /\ acc["total"] >= acc["prompt"]
    BY DEF BillInv
  <2>6. /\ acc' \in Usage
        /\ \A c \in {"prompt", "completion"} :
              acc'[c] = IF u # NoUsage /\ u[c] > 0 THEN u[c] ELSE acc[c]
    <3>1. CASE u = NoUsage
      <4>1. acc' = acc
        BY <2>2, <3>1
      <4> QED BY <2>5, <3>1, <4>1
    <3>2. CASE u # NoUsage
      <4>1. acc' = Merge(acc, u) /\ u \in Usage
        BY <2>2, <2>3, <3>2
      <4>2. /\ Merge(acc, u) \in Usage
            /\ \A c \in {"prompt", "completion"} :
                  Merge(acc, u)[c] = IF u[c] > 0 THEN u[c] ELSE acc[c]
        BY <2>5, <4>1, MergeIsUsage
      <4> QED BY <3>2, <4>1, <4>2
    <3> QED BY <3>1, <3>2
  <2>7. ASSUME NEW c \in {"prompt", "completion"} PROVE acc'[c] = LastCount(Handled', c)
    <3>1. c \in Count
      BY DEF Count
    <3>2. acc[c] = LastCount(Handled, c)
      BY DEF BillInv
    <3> QED BY <2>1, <2>6, <3>1, <3>2, LastCountAppend
  <2>8. acc'["total"] >= acc'["prompt"]
    <3>1. CASE u = NoUsage
      BY <2>2, <2>5, <3>1
    <3>2. CASE u # NoUsage /\ u["total"] = 0
      BY <2>2, <2>3, <2>5, <3>2, MergeIsUsage
    <3>3. CASE u # NoUsage /\ u["total"] # 0
      <4>1. u["total"] \in Nat /\ u["prompt"] \in Nat /\ acc["prompt"] \in Nat
        BY <2>3, <2>5, <3>3 DEF Usage, Count
      <4>2. u["total"] > 0
        BY <3>3, <4>1
      <4>3. acc'["total"] = u["total"]
        BY <2>2, <2>3, <2>5, <3>3, <4>2, MergeIsUsage
      <4>4. ASSUME NEW i \in 1 .. taken, script[i].usage # NoUsage
            PROVE  u["total"] >= script[i].usage["prompt"]
        BY <2>1, <3>3, <4>2, <4>4 DEF TotalsCoverPrompts, BillInv, line
      <4>5. u["total"] >= u["prompt"]
        BY <2>1, <3>3, <4>4 DEF line
      <4>6. u["total"] >= acc["prompt"]
        <5>1. acc["prompt"] = LastCount(Handled, "prompt")
          BY DEF BillInv
        <5>2. \/ acc["prompt"] = 0
              \/ \E i \in 1 .. Len(Handled) :
                    Handled[i].usage # NoUsage /\ acc["prompt"] = Handled[i].usage["prompt"]
          BY <2>1, <5>1, LastCountIsOne DEF Count
        <5>3. CASE acc["prompt"] = 0
          BY <4>1, <5>3
        <5>4. CASE acc["prompt"] # 0
          <6>1. PICK i \in 1 .. Len(Handled) :
                   Handled[i].usage # NoUsage /\ acc["prompt"] = Handled[i].usage["prompt"]
            BY <5>2, <5>4
          <6>2. i \in 1 .. taken - 1 /\ i \in 1 .. taken
            BY <2>1, <6>1
          <6>3. Handled[i] = script[i]
            BY <2>1, <6>2
          <6> QED BY <4>4, <6>1, <6>2, <6>3
        <5> QED BY <5>3, <5>4
      <4> QED BY <2>6, <4>3, <4>5, <4>6
    <3> QED BY <3>1, <3>2, <3>3
  <2>9. charged' = <<>> /\ script' \in Script
    BY <2>2 DEF BillInv
  <2> QED BY <2>2, <2>4, <2>6, <2>7, <2>8, <2>9 DEF BillInv
<1> QED BY <1>1, <1>2, <1>3 DEF Next, Handler

\* An answer is charged once, by the last count of each kind that its lines carried, wherever it
\* breaks off and whenever the client leaves, for streams of any length in which a total
\* that is given covers the prompt (mergeUsage, and recordUsage at the end of streamCopy)
THEOREM BilledAsLinesSay == ASSUME TotalsCoverPrompts PROVE Spec => []BilledAsRead
<1>1. Init => BillInv
  <2> SUFFICES ASSUME Init PROVE BillInv
    OBVIOUS
  <2>1. acc = Zero /\ got = FALSE /\ charged = <<>> /\ pc = "loop"
    BY DEF Init
  <2>2. /\ Zero \in Usage /\ \A c \in Count : Zero[c] = 0
        /\ {"prompt", "completion", "total"} \subseteq Count
    BY DEF Zero, Usage, Count
  <2>3. ~HasUsage(<<>>) /\ \A c \in Count : LastCount(<<>>, c) = 0
    BY DEF HasUsage, LastCount
  <2>4. Handled = <<>> /\ script \in Script
    BY NothingHandled
  <2>5. /\ acc \in Usage /\ acc["total"] >= acc["prompt"]
        /\ \A c \in {"prompt", "completion"} : acc[c] = LastCount(Handled, c)
    BY <2>1, <2>2, <2>3, <2>4
  <2>6. got \in BOOLEAN /\ (got <=> HasUsage(Handled))
    BY <2>1, <2>3, <2>4
  <2>7. charged = IF pc = "done" /\ got THEN <<acc>> ELSE <<>>
    BY <2>1
  <2> QED BY <2>4, <2>5, <2>6, <2>7 DEF BillInv
<1>2. BillInv => BilledAsRead
  <2> SUFFICES ASSUME BillInv, pc = "done"
               PROVE  /\ Len(charged) = IF HasUsage(Handled) THEN 1 ELSE 0
                      /\ \A i \in 1 .. Len(charged) :
                            /\ charged[i]["prompt"] = LastCount(Handled, "prompt")
                            /\ charged[i]["completion"] = LastCount(Handled, "completion")
                            /\ charged[i]["total"] >= charged[i]["prompt"]
    BY DEF BilledAsRead
  <2>1. CASE got
    <3>1. charged = <<acc>> /\ HasUsage(Handled)
      BY <2>1 DEF BillInv
    <3>2. Len(charged) = 1 /\ charged[1] = acc
      BY <3>1
    <3> QED BY <3>1, <3>2 DEF BillInv
  <2>2. CASE ~got
    <3>1. charged = <<>> /\ ~HasUsage(Handled)
      BY <2>2 DEF BillInv
    <3> QED BY <3>1
  <2> QED BY <2>1, <2>2
<1> QED BY <1>1, <1>2, EndInvInit, EndInvStep, BillStep, PTL DEF Spec
=============================================================================
