-------------------------- MODULE StreamConvertProofs ---------------------------
(***************************************************************************)
(* The properties of StreamConvertProps but ToolsIntact and StartCloses,   *)
(* proved for streams of every length and every irregularity; for clients  *)
(* of Responses two of them need a Tidy upstream.                          *)
(*                                                                         *)
(* The first part is about a writer and one event.  A writer of blocks     *)
(* (Responses, Anthropic) is Sound, the one of Chat Completions is Plain;  *)
(* both are Good, and every event keeps it so.  One lemma per event says   *)
(* what it adds to the text, the calls and the usage the client is told,   *)
(* whatever the protocol: SaysStart, SaysCall, SaysDelta, SaysEndBlock,    *)
(* SaysError, SaysFinish, SaysUsage, SaysDone and ClosedAnswer.  A writer  *)
(* of Responses is also Whole, its items repeat what it streamed, and      *)
(* Underway, if the events are those of Chat Completions: the phase of     *)
(* each of its texts is right, or will be by what closes the last one.     *)
(*                                                                         *)
(* The second part says what a line makes of the reader, the writer and    *)
(* what the upstream has said (one lemma per action of the upstream,       *)
(* XStep), then shows three inductive invariants: WriterInv, that the      *)
(* writer is in a good state and knows of the ending what it was told;     *)
(* TellsInv, that the client has been told what the upstream has said; and *)
(* PhaseInv, that the texts written so far have the phase they would have  *)
(* if the answer ended now.                                                *)
(***************************************************************************)
EXTENDS StreamConvertProps, Induction, SequenceTheorems, TLAPS

-----------------------------------------------------------------------------
(* What one more event changes of what a client has seen *)

LEMMA OfAppend ==
    ASSUME NEW o, IsSeq(o), NEW e, NEW type
    PROVE  Of(Append(o, e), type) = IF e.type = type THEN Append(Of(o, type), e) ELSE Of(o, type)
<1> DEFINE t == Append(o, e)
           P == {j \in DOMAIN t : t[j].type = type}
           Q == {j \in DOMAIN o : o[j].type = type}
<1>1. /\ Len(o) \in Nat /\ DOMAIN o = 1 .. Len(o) /\ DOMAIN t = 1 .. Len(o) + 1
      /\ \A j \in 1 .. Len(o) : t[j] = o[j]
      /\ t[Len(o) + 1] = e
  BY Appended
<1>2. Of(t, type) = At(t, P) /\ Of(o, type) = At(o, Q)
  BY DEF Of
<1> HIDE DEF t
<1>3. (\A k \in 1 .. Len(o) : k \in P <=> k \in Q) /\ (Len(o) + 1 \in P <=> e.type = type)
  BY <1>1
<1> HIDE DEF P, Q
<1>4. At(t, P) = IF Len(o) + 1 \in P THEN Append(At(o, Q), e) ELSE At(o, Q)
  BY <1>3, AtAppend DEF t
<1> QED BY <1>2, <1>3, <1>4 DEF t

LEMMA SpokenAppend ==
    ASSUME NEW o, IsSeq(o), NEW e
    PROVE  Spoken(Append(o, e)) = IF e.kind # "tool" THEN Append(Spoken(o), e) ELSE Spoken(o)
<1> DEFINE t == Append(o, e)
           P == {j \in DOMAIN t : t[j].kind # "tool"}
           Q == {j \in DOMAIN o : o[j].kind # "tool"}
<1>1. /\ Len(o) \in Nat /\ DOMAIN o = 1 .. Len(o) /\ DOMAIN t = 1 .. Len(o) + 1
      /\ \A j \in 1 .. Len(o) : t[j] = o[j]
      /\ t[Len(o) + 1] = e
  BY Appended
<1>2. Spoken(t) = At(t, P) /\ Spoken(o) = At(o, Q)
  BY DEF Spoken
<1> HIDE DEF t
<1>3. (\A k \in 1 .. Len(o) : k \in P <=> k \in Q) /\ (Len(o) + 1 \in P <=> e.kind # "tool")
  BY <1>1
<1> HIDE DEF P, Q
<1>4. At(t, P) = IF Len(o) + 1 \in P THEN Append(At(o, Q), e) ELSE At(o, Q)
  BY <1>3, AtAppend DEF t
<1> QED BY <1>2, <1>3, <1>4 DEF t

LEMMA ToolOpensAppend ==
    ASSUME NEW o, IsSeq(o), NEW e
    PROVE  ToolOpens(Append(o, e)) = IF e.type = "open" /\ e.x.kind = "tool" THEN Append(ToolOpens(o), e) ELSE ToolOpens(o)
<1> DEFINE t == Append(o, e)
           P == {j \in DOMAIN t : t[j].type = "open" /\ t[j].x.kind = "tool"}
           Q == {j \in DOMAIN o : o[j].type = "open" /\ o[j].x.kind = "tool"}
<1>1. /\ Len(o) \in Nat /\ DOMAIN o = 1 .. Len(o) /\ DOMAIN t = 1 .. Len(o) + 1
      /\ \A j \in 1 .. Len(o) : t[j] = o[j]
      /\ t[Len(o) + 1] = e
  BY Appended
<1>2. ToolOpens(t) = At(t, P) /\ ToolOpens(o) = At(o, Q)
  BY DEF ToolOpens
<1> HIDE DEF t
<1>3. (\A k \in 1 .. Len(o) : k \in P <=> k \in Q) /\ (Len(o) + 1 \in P <=> e.type = "open" /\ e.x.kind = "tool")
  BY <1>1
<1> HIDE DEF P, Q
<1>4. At(t, P) = IF Len(o) + 1 \in P THEN Append(At(o, Q), e) ELSE At(o, Q)
  BY <1>3, AtAppend DEF t
<1> QED BY <1>2, <1>3, <1>4 DEF t

LEMMA ToldIsSeq == ASSUME NEW s, IsSeq(s) PROVE IsSeq(Told(s)) /\ Len(Told(s)) = Len(s)
<1>1. Len(s) \in Nat /\ DOMAIN s = 1 .. Len(s)
  BY SeqLength
<1>2. Told(s) = [k \in 1 .. Len(s) |-> Told(s)[k]]
  BY <1>1 DEF Told
<1> QED BY <1>1, <1>2, FunctionIsSeq

LEMMA ToldAppend ==
    ASSUME NEW s, IsSeq(s), NEW e
    PROVE  Told(Append(s, e)) = Append(Told(s), e.x)
<1> DEFINE t == Append(s, e)
           f == Told(s)
           n == Len(s)
<1>1. /\ IsSeq(t) /\ n \in Nat /\ Len(t) = n + 1 /\ DOMAIN s = 1 .. n /\ DOMAIN t = 1 .. n + 1
      /\ \A j \in 1 .. n : t[j] = s[j]
      /\ t[n + 1] = e
  BY Appended
<1>2. IsSeq(f) /\ Len(f) = n /\ \A j \in 1 .. n : f[j] = s[j].x
  BY <1>1, ToldIsSeq DEF Told
<1>3. IsSeq(Told(t)) /\ Len(Told(t)) = n + 1 /\ \A j \in 1 .. n + 1 : Told(t)[j] = t[j].x
  <2> HIDE DEF t, n
  <2> QED BY <1>1, ToldIsSeq DEF Told
<1> HIDE DEF f, t, n
<1> DEFINE g == Append(f, e.x)
<1>4. IsSeq(g) /\ Len(g) = n + 1 /\ (\A j \in 1 .. n : g[j] = f[j]) /\ g[n + 1] = e.x
  BY <1>2, Appended
<1> HIDE DEF g
<1>5. \A j \in 1 .. n + 1 : Told(t)[j] = g[j]
  BY <1>1, <1>2, <1>3, <1>4
<1>6. Told(t) = g
  BY <1>3, <1>4, <1>5, SameSeq
<1> QED BY <1>6 DEF f, g, t

LEMMA FragsIsSeq == ASSUME NEW s, IsSeq(s) PROVE IsSeq(Frags(s)) /\ Len(Frags(s)) = Len(s)
<1>1. Len(s) \in Nat /\ DOMAIN s = 1 .. Len(s)
  BY SeqLength
<1>2. Frags(s) = [k \in 1 .. Len(s) |-> Frags(s)[k]]
  BY <1>1 DEF Frags
<1> QED BY <1>1, <1>2, FunctionIsSeq

LEMMA FragsAppend ==
    ASSUME NEW s, IsSeq(s), NEW e
    PROVE  Frags(Append(s, e)) = Append(Frags(s), e.x.x)
<1> DEFINE t == Append(s, e)
           f == Frags(s)
           n == Len(s)
<1>1. /\ IsSeq(t) /\ n \in Nat /\ Len(t) = n + 1 /\ DOMAIN s = 1 .. n /\ DOMAIN t = 1 .. n + 1
      /\ \A j \in 1 .. n : t[j] = s[j]
      /\ t[n + 1] = e
  BY Appended
<1>2. IsSeq(f) /\ Len(f) = n /\ \A j \in 1 .. n : f[j] = s[j].x.x
  BY <1>1, FragsIsSeq DEF Frags
<1>3. IsSeq(Frags(t)) /\ Len(Frags(t)) = n + 1 /\ \A j \in 1 .. n + 1 : Frags(t)[j] = t[j].x.x
  <2> HIDE DEF t, n
  <2> QED BY <1>1, FragsIsSeq DEF Frags
<1> HIDE DEF f, t, n
<1> DEFINE g == Append(f, e.x.x)
<1>4. IsSeq(g) /\ Len(g) = n + 1 /\ (\A j \in 1 .. n : g[j] = f[j]) /\ g[n + 1] = e.x.x
  BY <1>2, Appended
<1> HIDE DEF g
<1>5. \A j \in 1 .. n + 1 : Frags(t)[j] = g[j]
  BY <1>1, <1>2, <1>3, <1>4
<1>6. Frags(t) = g
  BY <1>3, <1>4, <1>5, SameSeq
<1> QED BY <1>6 DEF f, g, t

LEMMA EventsAreSeq ==
    ASSUME NEW o, IsSeq(o), NEW i
    PROVE  /\ IsSeq(Of(o, i)) /\ IsSeq(Deltas(o)) /\ IsSeq(Spoken(o)) /\ IsSeq(Contents(o, i))
           /\ IsSeq(ToolOpens(o)) /\ IsSeq(ToolArgs(o, i))
BY AtIsSeq, ToldIsSeq, FragsIsSeq DEF Of, Deltas, Spoken, Contents, ToolOpens, ToolArgs

LEMMA DeltasAppend ==
    ASSUME NEW o, IsSeq(o), NEW e
    PROVE  Deltas(Append(o, e)) = IF e.type = "delta" THEN Append(Deltas(o), e.x) ELSE Deltas(o)
BY OfAppend, EventsAreSeq, ToldAppend DEF Deltas

LEMMA UsagesAppend ==
    ASSUME NEW o, IsSeq(o), NEW e
    PROVE  Told(Of(Append(o, e), "usage")) =
               IF e.type = "usage" THEN Append(Told(Of(o, "usage")), e.x) ELSE Told(Of(o, "usage"))
BY OfAppend, EventsAreSeq, ToldAppend

LEMMA ContentsAppend ==
    ASSUME NEW o, IsSeq(o), NEW e, NEW i
    PROVE  Contents(Append(o, e), i) = IF e.type = "delta" /\ e.i = i THEN Append(Contents(o, i), e.x.x) ELSE Contents(o, i)
<1> DEFINE t == Append(o, e)
           P == {j \in DOMAIN t : t[j].type = "delta" /\ t[j].i = i}
           Q == {j \in DOMAIN o : o[j].type = "delta" /\ o[j].i = i}
<1>1. /\ Len(o) \in Nat /\ DOMAIN o = 1 .. Len(o) /\ DOMAIN t = 1 .. Len(o) + 1
      /\ \A j \in 1 .. Len(o) : t[j] = o[j]
      /\ t[Len(o) + 1] = e
  BY Appended
<1>2. Contents(t, i) = Frags(At(t, P)) /\ Contents(o, i) = Frags(At(o, Q))
  BY DEF Contents
<1> HIDE DEF t
<1>3. (\A k \in 1 .. Len(o) : k \in P <=> k \in Q) /\ (Len(o) + 1 \in P <=> e.type = "delta" /\ e.i = i)
  BY <1>1
<1> HIDE DEF P, Q
<1>4. At(t, P) = IF Len(o) + 1 \in P THEN Append(At(o, Q), e) ELSE At(o, Q)
  BY <1>3, AtAppend DEF t
<1>5. IsSeq(At(o, Q))
  BY AtIsSeq
<1> QED BY <1>2, <1>3, <1>4, <1>5, FragsAppend DEF t

LEMMA ToolArgsAppend ==
    ASSUME NEW o, IsSeq(o), NEW e, NEW i
    PROVE  ToolArgs(Append(o, e), i) = IF e.type = "delta" /\ e.x.kind = "tool" /\ e.i = i THEN Append(ToolArgs(o, i), e.x.x) ELSE ToolArgs(o, i)
<1> DEFINE t == Append(o, e)
           P == {j \in DOMAIN t : /\ t[j].type = "delta" /\ t[j].x.kind = "tool" /\ t[j].i = i}
           Q == {j \in DOMAIN o : /\ o[j].type = "delta" /\ o[j].x.kind = "tool" /\ o[j].i = i}
<1>1. /\ Len(o) \in Nat /\ DOMAIN o = 1 .. Len(o) /\ DOMAIN t = 1 .. Len(o) + 1
      /\ \A j \in 1 .. Len(o) : t[j] = o[j]
      /\ t[Len(o) + 1] = e
  BY Appended
<1>2. ToolArgs(t, i) = Frags(At(t, P)) /\ ToolArgs(o, i) = Frags(At(o, Q))
  BY DEF ToolArgs
<1> HIDE DEF t
<1>3. (\A k \in 1 .. Len(o) : k \in P <=> k \in Q) /\ (Len(o) + 1 \in P <=> e.type = "delta" /\ e.x.kind = "tool" /\ e.i = i)
  BY <1>1
<1> HIDE DEF P, Q
<1>4. At(t, P) = IF Len(o) + 1 \in P THEN Append(At(o, Q), e) ELSE At(o, Q)
  BY <1>3, AtAppend DEF t
<1>5. IsSeq(At(o, Q))
  BY AtIsSeq
<1> QED BY <1>2, <1>3, <1>4, <1>5, FragsAppend DEF t

LEMMA NoEvents ==
    ASSUME NEW i
    PROVE  /\ Of(<<>>, i) = <<>> /\ Deltas(<<>>) = <<>> /\ Spoken(<<>>) = <<>>
           /\ ToolOpens(<<>>) = <<>> /\ Told(Of(<<>>, i)) = <<>>
<1>1. Told(<<>>) = <<>>
  BY DEF Told
<1> QED BY <1>1, AtEmpty DEF Of, Deltas, Spoken, ToolOpens

-----------------------------------------------------------------------------
(* What one more event changes of the blocks that are open *)

OpenNow(o)  == OpenBefore(o, Len(o) + 1)
OpensAt(o, n) == {k \in 1 .. n : o[k].type = "open"}
OpensIn(o) == Cardinality(OpensAt(o, Len(o)))

\* Event j of o is in its place
Fits(o, j) ==
    CASE o[j].type = "open" ->
           OpenBefore(o, j) = {} /\ o[j].i = Cardinality(OpensAt(o, j - 1))
      [] o[j].type \in {"delta", "close"} -> OpenBefore(o, j) = {o[j].i}
      [] o[j].type \in {"end", "stop"}    -> OpenBefore(o, j) = {}
      [] OTHER -> TRUE

LEMMA OpenBeforeSame ==
    ASSUME NEW o, IsSeq(o), NEW e, NEW j \in 1 .. Len(o) + 1
    PROVE  /\ OpenBefore(Append(o, e), j) = OpenBefore(o, j)
           /\ OpensAt(Append(o, e), j - 1) = OpensAt(o, j - 1)
<1> DEFINE t == Append(o, e)
<1>1. Len(o) \in Nat /\ \A k \in 1 .. Len(o) : t[k] = o[k]
  BY Appended
<1> HIDE DEF t
<1>2. \A k \in 1 .. j - 1 : t[k] = o[k]
  BY <1>1
<1>3. OpensAt(t, j - 1) = OpensAt(o, j - 1)
  BY <1>2 DEF OpensAt
<1> DEFINE A(s) == {k \in 1 .. j - 1 :
                      /\ s[k].type = "open"
                      /\ \A c \in k + 1 .. j - 1 : ~(s[c].type = "close" /\ s[c].i = s[k].i)}
<1>4. \A k \in 1 .. j - 1 : \A c \in k + 1 .. j - 1 : t[c] = o[c]
  BY <1>1
<1>5. A(t) = A(o)
  BY <1>2, <1>4
<1>6. OpenBefore(t, j) = {t[k].i : k \in A(t)} /\ OpenBefore(o, j) = {o[k].i : k \in A(o)}
  BY DEF OpenBefore
<1>7. \A k \in A(o) : t[k] = o[k]
  BY <1>2
<1> HIDE DEF A
<1>8. OpenBefore(t, j) = OpenBefore(o, j)
  BY <1>5, <1>6, <1>7
<1> QED BY <1>3, <1>8 DEF t

LEMMA OpenNowAppend ==
    ASSUME NEW o, IsSeq(o), NEW e
    PROVE  OpenNow(Append(o, e)) = CASE e.type = "open"  -> OpenNow(o) \cup {e.i}
                                     [] e.type = "close" -> OpenNow(o) \ {e.i}
                                     [] OTHER            -> OpenNow(o)
<1> DEFINE t == Append(o, e)
           n == Len(o)
           A == {k \in 1 .. n :
                   /\ o[k].type = "open"
                   /\ \A c \in k + 1 .. n : ~(o[c].type = "close" /\ o[c].i = o[k].i)}
           B == {k \in 1 .. n + 1 :
                   /\ t[k].type = "open"
                   /\ \A c \in k + 1 .. n + 1 : ~(t[c].type = "close" /\ t[c].i = t[k].i)}
<1>1. /\ n \in Nat /\ Len(t) = n + 1 /\ t[n + 1] = e
      /\ \A k \in 1 .. n : t[k] = o[k]
  BY Appended
<1>2. OpenNow(o) = {o[k].i : k \in A}
  <2>1. (n + 1) - 1 = n
    BY <1>1
  <2> HIDE DEF n
  <2> QED BY <2>1 DEF OpenNow, OpenBefore, n
<1>3. OpenNow(t) = {t[k].i : k \in B}
  <2>1. (n + 1 + 1) - 1 = n + 1 /\ Len(t) = n + 1
    BY <1>1
  <2> HIDE DEF n, t
  <2> QED BY <2>1 DEF OpenNow, OpenBefore
<1> HIDE DEF t, n
<1>4. \A k \in 1 .. n : k \in B <=> k \in A /\ ~(e.type = "close" /\ e.i = o[k].i)
  <2> SUFFICES ASSUME NEW k \in 1 .. n
               PROVE  k \in B <=> k \in A /\ ~(e.type = "close" /\ e.i = o[k].i)
    OBVIOUS
  <2>1. k \in 1 .. n + 1 /\ t[k] = o[k] /\ n + 1 \in k + 1 .. n + 1
    BY <1>1
  <2>2. \A c \in k + 1 .. n : c \in k + 1 .. n + 1 /\ t[c] = o[c]
    BY <1>1
  <2>3. \A c \in k + 1 .. n + 1 : c = n + 1 \/ c \in k + 1 .. n
    BY <1>1
  <2> QED BY <1>1, <2>1, <2>2, <2>3
<1>5. n + 1 \in B <=> e.type = "open"
  <2>1. n + 1 \in 1 .. n + 1 /\ \A c \in n + 1 + 1 .. n + 1 : FALSE
    BY <1>1
  <2> QED BY <1>1, <2>1
<1>6. \A k \in B : k \in 1 .. n \/ k = n + 1
  BY <1>1
<1>7. \A k \in A : k \in 1 .. n
  OBVIOUS
<1> HIDE DEF A, B
<1>8. CASE e.type = "open"
  <2>1. \A x : x \in OpenNow(t) <=> x \in OpenNow(o) \cup {e.i}
    BY <1>1, <1>2, <1>3, <1>4, <1>5, <1>6, <1>7, <1>8
  <2> QED BY <1>8, <2>1 DEF t
<1>9. CASE e.type = "close"
  <2>1. \A x : x \in OpenNow(t) <=> x \in OpenNow(o) \ {e.i}
    BY <1>1, <1>2, <1>3, <1>4, <1>5, <1>6, <1>7, <1>9
  <2> QED BY <1>9, <2>1 DEF t
<1>10. CASE e.type \notin {"open", "close"}
  <2>1. \A x : x \in OpenNow(t) <=> x \in OpenNow(o)
    BY <1>1, <1>2, <1>3, <1>4, <1>5, <1>6, <1>7, <1>10
  <2> QED BY <1>10, <2>1 DEF t
<1> QED BY <1>8, <1>9, <1>10

LEMMA OpensFinite ==
    ASSUME NEW o, NEW n \in Nat
    PROVE  IsFiniteSet(OpensAt(o, n)) /\ Cardinality(OpensAt(o, n)) \in Nat
<1>1. IsFiniteSet(1 .. n) /\ OpensAt(o, n) \subseteq 1 .. n
  BY FS_Interval DEF OpensAt
<1> QED BY <1>1, FS_Subset, FS_CardinalityType

LEMMA OpensAppend ==
    ASSUME NEW o, IsSeq(o), NEW e
    PROVE  OpensIn(Append(o, e)) = IF e.type = "open" THEN OpensIn(o) + 1 ELSE OpensIn(o)
<1> DEFINE t == Append(o, e)
           n == Len(o)
<1>1. n \in Nat /\ Len(t) = n + 1 /\ t[n + 1] = e /\ \A k \in 1 .. n : t[k] = o[k]
  BY Appended
<1>2. OpensIn(t) = Cardinality(OpensAt(t, n + 1)) /\ OpensIn(o) = Cardinality(OpensAt(o, n))
  BY <1>1 DEF OpensIn
<1> HIDE DEF t, n
<1>3. OpensAt(t, n + 1) = IF e.type = "open" THEN OpensAt(o, n) \cup {n + 1} ELSE OpensAt(o, n)
  <2>1. \A k : k \in 1 .. n + 1 <=> k \in 1 .. n \/ k = n + 1
    BY <1>1
  <2>2. \A k : k \in OpensAt(t, n + 1) <=> k \in OpensAt(o, n) \/ (k = n + 1 /\ e.type = "open")
    BY <1>1, <2>1 DEF OpensAt
  <2> QED BY <2>2
<1>4. n + 1 \notin OpensAt(o, n)
  BY <1>1 DEF OpensAt
<1> QED BY <1>1, <1>2, <1>3, <1>4, OpensFinite, FS_AddElement DEF t

LEMMA PairedFits == ASSUME NEW o PROVE Paired(o) <=> \A j \in DOMAIN o : Fits(o, j)
BY DEF Paired, Fits, OpensAt

LEMMA PairedAppend ==
    ASSUME NEW o, IsSeq(o), Paired(o), NEW e,
           CASE e.type = "open"               -> OpenNow(o) = {} /\ e.i = OpensIn(o)
             [] e.type \in {"delta", "close"} -> OpenNow(o) = {e.i}
             [] e.type \in {"end", "stop"}    -> OpenNow(o) = {}
             [] OTHER -> TRUE
    PROVE  Paired(Append(o, e))
<1> DEFINE t == Append(o, e)
           n == Len(o)
<1>1. /\ n \in Nat /\ DOMAIN o = 1 .. n /\ DOMAIN t = 1 .. n + 1 /\ t[n + 1] = e
      /\ \A k \in 1 .. n : t[k] = o[k]
  BY Appended
<1>2. ASSUME NEW j \in 1 .. n PROVE Fits(t, j)
  <2>1. Fits(o, j) /\ t[j] = o[j]
    BY <1>1, PairedFits
  <2>2. OpenBefore(t, j) = OpenBefore(o, j) /\ OpensAt(t, j - 1) = OpensAt(o, j - 1)
    BY <1>1, OpenBeforeSame
  <2> HIDE DEF t, n
  <2> QED BY <2>1, <2>2 DEF Fits
<1>3. Fits(t, n + 1)
  <2>1. OpenBefore(t, n + 1) = OpenNow(o) /\ OpensAt(t, n) = OpensAt(o, n)
    <3>1. n + 1 \in 1 .. n + 1 /\ (n + 1) - 1 = n
      BY <1>1
    <3> QED BY <3>1, OpenBeforeSame DEF OpenNow
  <2>2. (n + 1) - 1 = n /\ OpensIn(o) = Cardinality(OpensAt(o, n))
    BY <1>1 DEF OpensIn
  <2> HIDE DEF t, n
  <2> QED BY <1>1, <2>1, <2>2 DEF Fits
<1>4. \A j \in DOMAIN t : Fits(t, j)
  <2>1. \A j \in 1 .. n + 1 : j \in 1 .. n \/ j = n + 1
    BY <1>1
  <2> HIDE DEF t, n
  <2> QED BY <1>1, <1>2, <1>3, <2>1
<1> QED BY <1>4, PairedFits

-----------------------------------------------------------------------------
(* What the steps of a writer change *)

Fields == {"started", "block", "cur", "next", "id", "accum", "items", "finishSeen", "finish",
           "ended", "usage", "beforeTool", "followUp", "rescue", "out"}

\* v differs from w in the given fields at most
Only(changed, v, w) == DOMAIN v = Fields /\ \A f \in Fields \ changed : v[f] = w[f]

Event(type, i, x) == [type |-> type, i |-> i, x |-> x]

LEMMA PutEffect ==
    ASSUME NEW w, DOMAIN w = Fields, NEW type, NEW x
    PROVE  LET v == Put(w, type, x)
           IN  Only({"out"}, v, w) /\ v.out = Append(w.out, Event(type, w.cur, x))
BY DEF Put, Only, Event, Fields

LEMMA StartEffect ==
    ASSUME NEW w, DOMAIN w = Fields
    PROVE  LET v == Start(w)
           IN  /\ Only({"started", "out"}, v, w)
               /\ v.out = IF w.started THEN w.out ELSE Append(w.out, Event("start", w.cur, 0))
BY DEF Start, Put, Only, Event, Fields

LEMMA OpenEffect ==
    ASSUME NEW w, DOMAIN w = Fields, NEW kind, NEW id
    PROVE  LET v == Open(w, kind, id)
           IN  /\ Only({"block", "cur", "next", "id", "accum", "beforeTool", "out"}, v, w)
               /\ v.block = kind /\ v.cur = w.next /\ v.next = w.next + 1 /\ v.id = id
               /\ v.accum = <<>>
               /\ kind = "text" => ~v.beforeTool
               /\ kind # "text" => v.beforeTool = w.beforeTool
               /\ v.out = Append(w.out, Event("open", w.next, [kind |-> kind, id |-> id]))
BY DEF Open, Put, Only, Event, Fields

LEMMA DeltaEffect ==
    ASSUME NEW w, DOMAIN w = Fields, NEW kind, NEW x
    PROVE  LET v == Delta(w, kind, x)
           IN  /\ Only({"accum", "out"}, v, w)
               /\ v.accum = Append(w.accum, x)
               /\ v.out = Append(w.out, Event("delta", w.cur, [kind |-> kind, x |-> x]))
BY DEF Delta, Put, Only, Event, Fields

Item(w) == [kind |-> w.block, id |-> w.id, content |-> w.accum,
            commentary |-> w.block = "text" /\ (w.followUp \/ w.beforeTool)]

LEMMA EndItemEffect ==
    ASSUME NEW w, DOMAIN w = Fields, w.block # NoBlock
    PROVE  LET v == EndItem(w)
           IN  /\ Only({"block", "cur", "items", "out"}, v, w)
               /\ v.block = NoBlock /\ v.items = Append(w.items, Item(w))
               /\ v.out = Append(w.out, Event("close", w.cur, Item(w)))
BY DEF EndItem, Put, Only, Event, Fields, Item

LEMMA EndContentEffect ==
    ASSUME NEW w, DOMAIN w = Fields, w.block # NoBlock
    PROVE  LET v == EndContent(w)
           IN  /\ Only({"block", "cur", "out"}, v, w)
               /\ v.block = NoBlock
               /\ v.out = Append(w.out, Event("close", w.cur, 0))
BY DEF EndContent, Put, Only, Event, Fields

LEMMA EmitEffect ==
    ASSUME NEW w, DOMAIN w = Fields, ~w.ended
    PROVE  LET v == EmitCompleted(w)
               u == EmitDelta(w)
           IN  /\ Only({"ended", "usage", "out"}, v, w) /\ v.ended /\ v.usage = <<>>
               /\ v.out = Append(w.out, Event("end", w.cur, Ending(w)))
               /\ Only({"ended", "out"}, u, w) /\ u.ended
               /\ u.out = Append(w.out, Event("end", w.cur, Ending(w)))
BY DEF EmitCompleted, EmitDelta, Put, Only, Event, Fields

-----------------------------------------------------------------------------
(* What is always true of what a writer has written *)

HasEnd(o) == \E j \in DOMAIN o : o[j].type = "end"
Content   == {"open", "delta", "close"}

\* Nothing of the answer follows its end
EndIsLast(o) ==
    /\ \A j \in DOMAIN o : o[j].type # "stop"
    /\ \A j, k \in DOMAIN o : o[j].type = "end" /\ j < k => o[k].type \notin Content \cup {"end"}
    /\ Of(o, "end") = <<>> <=> ~HasEnd(o)

\* Blocks are numbered from 0 in the order they are opened, and fragments of arguments
\* are of one that was opened
Numbered(o) ==
    /\ OpensIn(o) \in Nat /\ Len(Of(o, "open")) = OpensIn(o)
    /\ \A k \in 1 .. OpensIn(o) : Of(o, "open")[k].i = k - 1
    /\ \A k \in DOMAIN ToolOpens(o) : ToolOpens(o)[k].i \in Nat /\ ToolOpens(o)[k].i < OpensIn(o)
    /\ \A k, m \in DOMAIN ToolOpens(o) : k < m => ToolOpens(o)[k].i < ToolOpens(o)[m].i
    /\ \A j \in DOMAIN o : o[j].type = "delta" /\ o[j].x.kind = "tool" =>
          o[j].i \in 0 .. OpensIn(o) - 1

LEMMA EndIsLastAppend ==
    ASSUME NEW o, IsSeq(o), EndIsLast(o), NEW e, e.type # "stop",
           e.type \in Content \cup {"end"} => ~HasEnd(o)
    PROVE  /\ EndIsLast(Append(o, e))
           /\ HasEnd(Append(o, e)) <=> HasEnd(o) \/ e.type = "end"
<1> DEFINE t == Append(o, e)
           n == Len(o)
<1>1. /\ n \in Nat /\ DOMAIN o = 1 .. n /\ DOMAIN t = 1 .. n + 1 /\ t[n + 1] = e
      /\ \A k \in 1 .. n : t[k] = o[k]
  BY Appended
<1>2. Of(t, "end") = IF e.type = "end" THEN Append(Of(o, "end"), e) ELSE Of(o, "end")
  BY OfAppend
<1>3. Append(Of(o, "end"), e) # <<>>
  BY EventsAreSeq, Appended, EmptyIsSeq
<1> HIDE DEF t, n
<1>4. \A j \in 1 .. n + 1 : j \in 1 .. n \/ j = n + 1
  BY <1>1
<1>5. HasEnd(t) <=> HasEnd(o) \/ e.type = "end"
  <2>1. n + 1 \in 1 .. n + 1 /\ \A j \in 1 .. n : j \in 1 .. n + 1
    BY <1>1
  <2> QED BY <1>1, <1>4, <2>1 DEF HasEnd
<1>6. \A j \in DOMAIN t : t[j].type # "stop"
  BY <1>1, <1>4 DEF EndIsLast
<1>7. ASSUME NEW j \in DOMAIN t, NEW k \in DOMAIN t, t[j].type = "end", j < k
      PROVE  t[k].type \notin Content \cup {"end"}
  <2>1. j \in 1 .. n
    BY <1>1, <1>7
  <2>2. CASE k \in 1 .. n
    BY <1>1, <1>7, <2>1, <2>2 DEF EndIsLast
  <2>3. CASE k = n + 1
    BY <1>1, <1>7, <2>1, <2>3 DEF HasEnd
  <2> QED BY <1>1, <1>4, <2>2, <2>3
<1>8. Of(t, "end") = <<>> <=> ~HasEnd(t)
  BY <1>2, <1>3, <1>5 DEF EndIsLast
<1> QED BY <1>5, <1>6, <1>7, <1>8 DEF EndIsLast, t

LEMMA NumberedAppend ==
    ASSUME NEW o, IsSeq(o), Numbered(o), NEW e,
           e.type = "open" => e.i = OpensIn(o),
           e.type = "delta" /\ e.x.kind = "tool" => e.i \in 0 .. OpensIn(o) - 1
    PROVE  Numbered(Append(o, e))
<1> DEFINE t == Append(o, e)
           n == Len(o)
           c == OpensIn(o)
           opens == Of(o, "open")
           tools == ToolOpens(o)
<1>1. /\ n \in Nat /\ DOMAIN o = 1 .. n /\ DOMAIN t = 1 .. n + 1 /\ t[n + 1] = e
      /\ \A k \in 1 .. n : t[k] = o[k]
  BY Appended
<1>2. c \in Nat /\ OpensIn(t) = IF e.type = "open" THEN c + 1 ELSE c
  BY OpensAppend DEF Numbered
<1>3. /\ IsSeq(opens) /\ Len(opens) = c /\ \A k \in 1 .. c : opens[k].i = k - 1
      /\ Of(t, "open") = IF e.type = "open" THEN Append(opens, e) ELSE opens
  BY EventsAreSeq, OfAppend DEF Numbered
<1>4. /\ IsSeq(tools)
      /\ ToolOpens(t) = IF e.type = "open" /\ e.x.kind = "tool" THEN Append(tools, e) ELSE tools
      /\ \A k \in DOMAIN tools : tools[k].i \in Nat /\ tools[k].i < c
      /\ \A k, m \in DOMAIN tools : k < m => tools[k].i < tools[m].i
  BY EventsAreSeq, ToolOpensAppend DEF Numbered
<1>5. \A j \in 1 .. n : o[j].type = "delta" /\ o[j].x.kind = "tool" => o[j].i \in 0 .. c - 1
  BY <1>1 DEF Numbered
<1>6. e.type = "open" => e.i = c
  OBVIOUS
<1>7. e.type = "delta" /\ e.x.kind = "tool" => e.i \in 0 .. c - 1
  OBVIOUS
<1> HIDE DEF t, n, c, opens, tools
<1>8. /\ Len(Of(t, "open")) = OpensIn(t)
      /\ \A k \in 1 .. OpensIn(t) : Of(t, "open")[k].i = k - 1
  <2>1. CASE e.type = "open"
    <3> DEFINE g == Append(opens, e)
    <3>1. Len(g) = c + 1 /\ (\A k \in 1 .. c : g[k] = opens[k]) /\ g[c + 1] = e
      BY <1>3, Appended
    <3> HIDE DEF g
    <3>2. \A k \in 1 .. c + 1 : k \in 1 .. c \/ k = c + 1
      BY <1>2
    <3>3. \A k \in 1 .. c + 1 : g[k].i = k - 1
      BY <1>2, <1>3, <1>6, <2>1, <3>1, <3>2
    <3> QED BY <1>2, <1>3, <2>1, <3>1, <3>3 DEF g
  <2>2. CASE e.type # "open"
    BY <1>2, <1>3, <2>2
  <2> QED BY <2>1, <2>2
<1>9. /\ \A k \in DOMAIN ToolOpens(t) : ToolOpens(t)[k].i \in Nat /\ ToolOpens(t)[k].i < OpensIn(t)
      /\ \A k, m \in DOMAIN ToolOpens(t) : k < m => ToolOpens(t)[k].i < ToolOpens(t)[m].i
  <2>1. CASE e.type = "open" /\ e.x.kind = "tool"
    <3> DEFINE g == Append(tools, e)
               l == Len(tools)
    <3>1. /\ l \in Nat /\ DOMAIN tools = 1 .. l /\ DOMAIN g = 1 .. l + 1
          /\ (\A k \in 1 .. l : g[k] = tools[k]) /\ g[l + 1] = e
      BY <1>4, Appended
    <3> HIDE DEF g, l
    <3>2. \A k \in 1 .. l + 1 : k \in 1 .. l \/ k = l + 1
      BY <3>1
    <3>3. e.i = c /\ OpensIn(t) = c + 1
      BY <1>2, <1>6, <2>1
    <3>4. \A k \in 1 .. l + 1 : g[k].i \in Nat /\ g[k].i < c + 1
      BY <1>2, <1>4, <3>1, <3>2, <3>3
    <3>5. ASSUME NEW k \in 1 .. l + 1, NEW m \in 1 .. l + 1, k < m PROVE g[k].i < g[m].i
      <4>1. k \in 1 .. l
        BY <3>1, <3>5
      <4>2. CASE m \in 1 .. l
        BY <1>4, <3>1, <3>5, <4>1, <4>2
      <4>3. CASE m = l + 1
        BY <1>4, <3>1, <3>3, <4>1, <4>3
      <4> QED BY <3>2, <4>2, <4>3
    <3> QED BY <1>4, <2>1, <3>1, <3>3, <3>4, <3>5 DEF g
  <2>2. CASE ~(e.type = "open" /\ e.x.kind = "tool")
    <3>1. ToolOpens(t) = tools
      BY <1>4, <2>2
    <3>2. \A x \in Nat : x < c => x < OpensIn(t)
      BY <1>2
    <3> QED BY <1>4, <3>1, <3>2
  <2> QED BY <2>1, <2>2
<1>10. \A j \in DOMAIN t : t[j].type = "delta" /\ t[j].x.kind = "tool" => t[j].i \in 0 .. OpensIn(t) - 1
  <2>1. \A j \in 1 .. n + 1 : j \in 1 .. n \/ j = n + 1
    BY <1>1
  <2>2. \A j \in 1 .. n + 1 : t[j].type = "delta" /\ t[j].x.kind = "tool" => t[j].i \in 0 .. c - 1
    BY <1>1, <1>5, <1>7, <2>1
  <2>3. ASSUME NEW j \in 1 .. n + 1, t[j].type = "delta", t[j].x.kind = "tool"
        PROVE  t[j].i \in 0 .. OpensIn(t) - 1
    BY <1>2, <2>2, <2>3
  <2> QED BY <1>1, <2>3
<1> QED
  <2>1. OpensIn(t) \in Nat
    BY <1>2
  <2> QED BY <1>8, <1>9, <1>10, <2>1 DEF Numbered, t

-----------------------------------------------------------------------------
(* The blocks of a Responses or Anthropic answer *)

Blocks == {"reasoning", "text", "tool"}

\* The client is not one of Responses, or no upstream starts a block of reasoning or text
\* while one of its own kind is open
Tidy == to = "responses" => "doubled" \notin Odd

\* Block b with index c and the given id is the last opened in o and not closed, or none is,
\* and n were opened; if the upstream is tidy, no other block is open
InBlock(o, b, c, n, id) ==
    /\ n = OpensIn(o)
    /\ Tidy => Paired(o) /\ OpenNow(o) = (IF b = NoBlock THEN {} ELSE {c})
    /\ b # NoBlock => n >= 1 /\ c = n - 1 /\ Of(o, "open")[n].x = [kind |-> b, id |-> id]
    /\ b = "tool" => ToolOpens(o) # <<>> /\ ToolOpens(o)[Len(ToolOpens(o))].i = c
    /\ \A j \in DOMAIN o : o[j].type = "delta" => o[j].i \in 0 .. n - 1

LEMMA InBlockOther ==
    ASSUME NEW o, IsSeq(o), Numbered(o), NEW b, NEW c, NEW n, NEW id, InBlock(o, b, c, n, id),
           NEW e, e.type \notin Content \cup {"stop"}, e.type = "end" => b = NoBlock
    PROVE  InBlock(Append(o, e), b, c, n, id)
<1> DEFINE t == Append(o, e)
<1>1. /\ Len(o) \in Nat /\ DOMAIN o = 1 .. Len(o) /\ DOMAIN t = 1 .. Len(o) + 1
      /\ t[Len(o) + 1] = e
      /\ \A k \in 1 .. Len(o) : t[k] = o[k]
  BY Appended
<1>2. OpenNow(t) = OpenNow(o)
  BY OpenNowAppend DEF Content
<1>3. Tidy => Paired(t)
  BY PairedAppend DEF Content, InBlock
<1>4. OpensIn(t) = OpensIn(o) /\ Of(t, "open") = Of(o, "open") /\ ToolOpens(t) = ToolOpens(o)
  BY OpensAppend, OfAppend, ToolOpensAppend DEF Content
<1> HIDE DEF t
<1>5. \A j \in DOMAIN t : t[j].type = "delta" => t[j].i \in 0 .. n - 1
  <2>1. \A j \in DOMAIN t : j \in 1 .. Len(o) \/ j = Len(o) + 1
    BY <1>1
  <2> QED BY <1>1, <2>1 DEF InBlock, Content
<1> QED BY <1>2, <1>3, <1>4, <1>5 DEF InBlock, t

LEMMA InBlockOpen ==
    ASSUME NEW o, IsSeq(o), Numbered(o), NEW a, NEW c, NEW n, NEW i, InBlock(o, a, c, n, i),
           Tidy => a = NoBlock, NEW b \in Blocks, NEW id
    PROVE  InBlock(Append(o, Event("open", n, [kind |-> b, id |-> id])), b, n, n + 1, id)
<1> DEFINE e == Event("open", n, [kind |-> b, id |-> id])
           t == Append(o, e)
           opens == Of(o, "open")
           tools == ToolOpens(o)
<1>1. /\ Len(o) \in Nat /\ DOMAIN o = 1 .. Len(o) /\ DOMAIN t = 1 .. Len(o) + 1
      /\ t[Len(o) + 1] = e
      /\ \A k \in 1 .. Len(o) : t[k] = o[k]
  BY Appended
<1>2. e.type = "open" /\ e.i = n /\ e.x = [kind |-> b, id |-> id] /\ e.x.kind = b
  BY DEF Event
<1>3. n = OpensIn(o) /\ n \in Nat /\ b # NoBlock
  BY DEF InBlock, Numbered, Blocks, NoBlock
<1> HIDE DEF e
<1>4. Tidy => OpenNow(t) = {n}
  BY <1>2, OpenNowAppend DEF InBlock
<1>5. Tidy => Paired(t)
  BY <1>2, <1>3, PairedAppend DEF InBlock
<1>6. OpensIn(t) = n + 1
  BY <1>2, <1>3, OpensAppend
<1>7. Of(t, "open")[n + 1].x = [kind |-> b, id |-> id]
  <2>1. IsSeq(opens) /\ Len(opens) = n
    BY <1>3, EventsAreSeq DEF Numbered
  <2>2. Append(opens, e)[n + 1] = e
    BY <2>1, Appended
  <2>3. Of(t, "open") = Append(opens, e)
    BY <1>2, OfAppend
  <2> QED BY <1>2, <2>2, <2>3
<1>8. b = "tool" => ToolOpens(t) # <<>> /\ ToolOpens(t)[Len(ToolOpens(t))].i = n
  <2>1. SUFFICES ASSUME b = "tool"
                 PROVE  ToolOpens(t) # <<>> /\ ToolOpens(t)[Len(ToolOpens(t))].i = n
    OBVIOUS
  <2>2. ToolOpens(t) = Append(tools, e) /\ IsSeq(tools)
    BY <1>2, <2>1, ToolOpensAppend, EventsAreSeq
  <2>3. /\ Len(Append(tools, e)) = Len(tools) + 1 /\ Append(tools, e)[Len(tools) + 1] = e
        /\ Len(tools) \in Nat
    BY <2>2, Appended
  <2>4. Append(tools, e) # <<>>
    BY <2>3, EmptyIsSeq
  <2> QED BY <1>2, <2>2, <2>3, <2>4
<1> HIDE DEF t
<1>9. \A j \in DOMAIN t : t[j].type = "delta" => t[j].i \in 0 .. (n + 1) - 1
  <2>1. \A j \in DOMAIN t : j \in 1 .. Len(o) \/ j = Len(o) + 1
    BY <1>1
  <2>2. \A x \in 0 .. n - 1 : x \in 0 .. (n + 1) - 1
    BY <1>3
  <2> QED BY <1>1, <1>2, <2>1, <2>2 DEF InBlock
<1>10. n + 1 >= 1 /\ n = (n + 1) - 1
  BY <1>3
<1> QED BY <1>3, <1>4, <1>5, <1>6, <1>7, <1>8, <1>9, <1>10 DEF InBlock, t, e

LEMMA InBlockDelta ==
    ASSUME NEW o, IsSeq(o), Numbered(o), NEW c, NEW n, NEW b \in Blocks, NEW id,
           InBlock(o, b, c, n, id), NEW x
    PROVE  InBlock(Append(o, Event("delta", c, x)), b, c, n, id) /\ c \in 0 .. OpensIn(o) - 1
<1> DEFINE e == Event("delta", c, x)
           t == Append(o, e)
<1>1. /\ Len(o) \in Nat /\ DOMAIN o = 1 .. Len(o) /\ DOMAIN t = 1 .. Len(o) + 1
      /\ t[Len(o) + 1] = e
      /\ \A k \in 1 .. Len(o) : t[k] = o[k]
  BY Appended
<1>2. e.type = "delta" /\ e.i = c
  BY DEF Event
<1>3. n = OpensIn(o) /\ n \in Nat /\ b # NoBlock /\ n >= 1 /\ c = n - 1 /\ c \in 0 .. n - 1
  BY DEF InBlock, Numbered, Blocks, NoBlock
<1> HIDE DEF e
<1>4. OpenNow(t) = OpenNow(o) /\ (Tidy => OpenNow(o) = {c})
  BY <1>2, <1>3, OpenNowAppend DEF InBlock
<1>5. Tidy => Paired(t)
  BY <1>2, <1>4, PairedAppend DEF InBlock
<1>6. OpensIn(t) = OpensIn(o) /\ Of(t, "open") = Of(o, "open") /\ ToolOpens(t) = ToolOpens(o)
  BY <1>2, OpensAppend, OfAppend, ToolOpensAppend
<1> HIDE DEF t
<1>7. \A j \in DOMAIN t : t[j].type = "delta" => t[j].i \in 0 .. n - 1
  <2>1. \A j \in DOMAIN t : j \in 1 .. Len(o) \/ j = Len(o) + 1
    BY <1>1
  <2> QED BY <1>1, <1>2, <1>3, <2>1 DEF InBlock
<1>8. InBlock(t, b, c, n, id)
  BY <1>3, <1>4, <1>5, <1>6, <1>7 DEF InBlock
<1> QED BY <1>3, <1>8 DEF t, e

LEMMA InBlockClose ==
    ASSUME NEW o, IsSeq(o), Numbered(o), NEW c, NEW n, NEW b \in Blocks, NEW id,
           InBlock(o, b, c, n, id), NEW x, NEW d, NEW i
    PROVE  InBlock(Append(o, Event("close", c, x)), NoBlock, d, n, i)
<1> DEFINE e == Event("close", c, x)
           t == Append(o, e)
<1>1. /\ Len(o) \in Nat /\ DOMAIN o = 1 .. Len(o) /\ DOMAIN t = 1 .. Len(o) + 1
      /\ t[Len(o) + 1] = e
      /\ \A k \in 1 .. Len(o) : t[k] = o[k]
  BY Appended
<1>2. e.type = "close" /\ e.i = c
  BY DEF Event
<1>3. b # NoBlock
  BY DEF Blocks, NoBlock
<1> HIDE DEF e
<1>4. Tidy => OpenNow(t) = {} /\ OpenNow(o) = {c}
  BY <1>2, <1>3, OpenNowAppend DEF InBlock
<1>5. Tidy => Paired(t)
  BY <1>2, <1>4, PairedAppend DEF InBlock
<1>6. OpensIn(t) = OpensIn(o)
  BY <1>2, OpensAppend
<1> HIDE DEF t
<1>7. \A j \in DOMAIN t : t[j].type = "delta" => t[j].i \in 0 .. n - 1
  <2>1. \A j \in DOMAIN t : j \in 1 .. Len(o) \/ j = Len(o) + 1
    BY <1>1
  <2> QED BY <1>1, <1>2, <2>1 DEF InBlock
<1>8. InBlock(t, NoBlock, d, n, i)
  BY <1>4, <1>5, <1>6, <1>7 DEF InBlock, NoBlock
<1> QED BY <1>8 DEF t, e

-----------------------------------------------------------------------------
(* The writers of Responses and Anthropic, one step at a time *)

Sound(w) ==
    /\ DOMAIN w = Fields /\ IsSeq(w.out) /\ EndIsLast(w.out) /\ Numbered(w.out)
    /\ w.block \in Blocks \cup {NoBlock}
    /\ InBlock(w.out, w.block, w.cur, w.next, w.id)
    /\ w.ended <=> HasEnd(w.out)
    /\ w.finishSeen \/ w.ended => w.block = NoBlock

Closed(w) == w.finishSeen \/ w.ended

\* Fields that say nothing of the blocks may change at any time
LEMMA SoundSet ==
    ASSUME NEW w, Sound(w), NEW v,
           Only({"started", "accum", "items", "finish", "usage", "beforeTool", "followUp",
                 "finishSeen"}, v, w),
           v.finishSeen => w.finishSeen \/ w.block = NoBlock
    PROVE  Sound(v)
BY DEF Sound, Only, Fields

\* An event that is about no block
LEMMA SoundOther ==
    ASSUME NEW w, Sound(w), NEW v, NEW type, NEW x, Only({"started", "out"}, v, w),
           v.out = Append(w.out, Event(type, w.cur, x)), type \in {"start", "error"}
    PROVE  Sound(v)
<1> DEFINE e == Event(type, w.cur, x)
<1>1. e.type = type
  BY DEF Event
<1> HIDE DEF e
<1>2. /\ IsSeq(w.out) /\ EndIsLast(w.out) /\ Numbered(w.out)
      /\ InBlock(w.out, w.block, w.cur, w.next, w.id)
  BY DEF Sound
<1>3. e.type \notin Content \cup {"stop"} /\ e.type # "end" /\ e.type \notin {"open", "delta"}
  BY <1>1 DEF Content
<1>4. InBlock(Append(w.out, e), w.block, w.cur, w.next, w.id)
  BY <1>2, <1>3, InBlockOther
<1>5. EndIsLast(Append(w.out, e)) /\ (HasEnd(Append(w.out, e)) <=> HasEnd(w.out))
  BY <1>2, <1>3, EndIsLastAppend
<1>6. Numbered(Append(w.out, e)) /\ IsSeq(Append(w.out, e))
  BY <1>2, <1>3, NumberedAppend, Appended
<1>7. v.out = Append(w.out, e)
  BY DEF e
<1>8. /\ DOMAIN v = Fields /\ v.block = w.block /\ v.cur = w.cur /\ v.next = w.next /\ v.id = w.id
      /\ v.ended = w.ended /\ v.finishSeen = w.finishSeen
  BY DEF Only, Fields
<1> QED BY <1>4, <1>5, <1>6, <1>7, <1>8 DEF Sound

LEMMA SoundEnd ==
    ASSUME NEW w, Sound(w), NEW v, NEW x, Only({"ended", "usage", "out"}, v, w),
           v.out = Append(w.out, Event("end", w.cur, x)), v.ended,
           w.block = NoBlock, ~w.ended
    PROVE  Sound(v)
<1> DEFINE e == Event("end", w.cur, x)
<1>1. e.type = "end"
  BY DEF Event
<1> HIDE DEF e
<1>2. /\ IsSeq(w.out) /\ EndIsLast(w.out) /\ Numbered(w.out)
      /\ InBlock(w.out, w.block, w.cur, w.next, w.id) /\ ~HasEnd(w.out)
  BY DEF Sound
<1>3. e.type \notin Content \cup {"stop"} /\ e.type \notin {"open", "delta", "stop"}
  BY <1>1 DEF Content
<1>4. InBlock(Append(w.out, e), w.block, w.cur, w.next, w.id)
  BY <1>2, <1>3, InBlockOther
<1>5. EndIsLast(Append(w.out, e)) /\ HasEnd(Append(w.out, e))
  BY <1>1, <1>2, <1>3, EndIsLastAppend
<1>6. Numbered(Append(w.out, e)) /\ IsSeq(Append(w.out, e))
  BY <1>2, <1>3, NumberedAppend, Appended
<1>7. v.out = Append(w.out, e)
  BY DEF e
<1>8. /\ DOMAIN v = Fields /\ v.block = w.block /\ v.cur = w.cur /\ v.next = w.next /\ v.id = w.id
      /\ v.finishSeen = w.finishSeen
  BY DEF Only, Fields
<1> QED BY <1>4, <1>5, <1>6, <1>7, <1>8 DEF Sound

LEMMA SoundOpen ==
    ASSUME NEW w, Sound(w), NEW b \in Blocks, NEW id, Tidy => w.block = NoBlock, ~Closed(w)
    PROVE  Sound(Open(w, b, id))
<1> DEFINE e == Event("open", w.next, [kind |-> b, id |-> id])
           v == Open(w, b, id)
<1>1. e.type = "open" /\ e.i = w.next
  BY DEF Event
<1>2. /\ DOMAIN v = Fields /\ v.block = b /\ v.cur = w.next /\ v.next = w.next + 1 /\ v.id = id
      /\ v.out = Append(w.out, e) /\ v.ended = w.ended /\ v.finishSeen = w.finishSeen
  <2>1. DOMAIN w = Fields
    BY DEF Sound
  <2> QED BY <2>1 DEF Open, Put, Event, Fields
<1>3. /\ IsSeq(w.out) /\ EndIsLast(w.out) /\ Numbered(w.out)
      /\ InBlock(w.out, w.block, w.cur, w.next, w.id) /\ ~HasEnd(w.out)
  BY DEF Sound, Closed
<1>4. InBlock(Append(w.out, e), b, w.next, w.next + 1, id)
  BY <1>3, InBlockOpen
<1>5. e.i = OpensIn(w.out)
  BY <1>1, <1>3 DEF InBlock
<1> HIDE DEF e, v
<1>6. EndIsLast(Append(w.out, e)) /\ (HasEnd(Append(w.out, e)) <=> HasEnd(w.out))
  BY <1>1, <1>3, EndIsLastAppend
<1>7. Numbered(Append(w.out, e)) /\ IsSeq(Append(w.out, e))
  BY <1>1, <1>3, <1>5, NumberedAppend, Appended
<1>8. Sound(v)
  BY <1>2, <1>3, <1>4, <1>6, <1>7 DEF Sound, Closed
<1> QED BY <1>8 DEF v

LEMMA SoundDelta ==
    ASSUME NEW w, Sound(w), NEW b \in Blocks, NEW x, w.block = b
    PROVE  Sound(Delta(w, b, x))
<1> DEFINE e == Event("delta", w.cur, [kind |-> b, x |-> x])
           v == Delta(w, b, x)
<1>1. e.type = "delta" /\ e.i = w.cur
  BY DEF Event
<1>2. /\ DOMAIN v = Fields /\ v.block = b /\ v.cur = w.cur /\ v.next = w.next /\ v.id = w.id
      /\ v.out = Append(w.out, e) /\ v.ended = w.ended /\ v.finishSeen = w.finishSeen
  <2>1. DOMAIN w = Fields
    BY DEF Sound
  <2> QED BY <2>1, DeltaEffect DEF Only, Fields
<1>3. /\ IsSeq(w.out) /\ EndIsLast(w.out) /\ Numbered(w.out) /\ b # NoBlock
      /\ InBlock(w.out, b, w.cur, w.next, w.id) /\ ~HasEnd(w.out) /\ ~w.ended /\ ~w.finishSeen
  BY DEF Sound, Blocks, NoBlock
<1>4. InBlock(Append(w.out, e), b, w.cur, w.next, w.id) /\ w.cur \in 0 .. OpensIn(w.out) - 1
  BY <1>3, InBlockDelta
<1> HIDE DEF e, v
<1>5. EndIsLast(Append(w.out, e)) /\ (HasEnd(Append(w.out, e)) <=> HasEnd(w.out))
  BY <1>1, <1>3, EndIsLastAppend
<1>6. Numbered(Append(w.out, e)) /\ IsSeq(Append(w.out, e))
  BY <1>1, <1>3, <1>4, NumberedAppend, Appended
<1>7. Sound(v)
  BY <1>2, <1>3, <1>4, <1>5, <1>6 DEF Sound
<1> QED BY <1>7 DEF v

LEMMA SoundClose ==
    ASSUME NEW w, Sound(w), w.block # NoBlock, NEW v, NEW x,
           Only({"block", "cur", "items", "out"}, v, w), v.block = NoBlock,
           v.out = Append(w.out, Event("close", w.cur, x))
    PROVE  Sound(v)
<1> DEFINE e == Event("close", w.cur, x)
<1>1. e.type = "close" /\ e.i = w.cur
  BY DEF Event
<1>2. /\ DOMAIN v = Fields /\ v.next = w.next /\ v.id = w.id
      /\ v.out = Append(w.out, e) /\ v.ended = w.ended /\ v.finishSeen = w.finishSeen
  BY DEF Only, Fields
<1>3. /\ IsSeq(w.out) /\ EndIsLast(w.out) /\ Numbered(w.out) /\ w.block \in Blocks
      /\ InBlock(w.out, w.block, w.cur, w.next, w.id) /\ ~HasEnd(w.out) /\ ~w.ended
  BY DEF Sound
<1>4. InBlock(Append(w.out, e), NoBlock, v.cur, w.next, w.id)
  BY <1>3, InBlockClose
<1> HIDE DEF e
<1>5. EndIsLast(Append(w.out, e)) /\ (HasEnd(Append(w.out, e)) <=> HasEnd(w.out))
  BY <1>1, <1>3, EndIsLastAppend
<1>6. Numbered(Append(w.out, e)) /\ IsSeq(Append(w.out, e))
  BY <1>1, <1>3, NumberedAppend, Appended
<1> QED BY <1>2, <1>3, <1>4, <1>5, <1>6 DEF Sound

-----------------------------------------------------------------------------
(* What the client has understood *)

LEMMA AtNothing ==
    ASSUME NEW s, IsSeq(s), NEW P, \A k \in 1 .. Len(s) : k \notin P
    PROVE  At(s, P) = <<>>
<1>1. Len(s) \in Nat
  BY SeqLength
<1> DEFINE n == Len(s)
<1>2. PICK f : IsPicked(f, s, P, n) /\ At(s, P) = f[n]
  BY AtPicked
<1>3. \A k \in 1 .. n : k \notin P
  OBVIOUS
<1> HIDE DEF n
<1> DEFINE S == {k \in Nat : k <= n => f[k] = <<>>}
<1>4. 0 \in S
  <2>1. 0 \in 0 .. n
    BY <1>1 DEF n
  <2>2. f[0] = <<>>
    BY <1>2, <2>1 DEF IsPicked
  <2> QED BY <2>2
<1>5. ASSUME NEW k \in S PROVE k + 1 \in S
  <2>1. SUFFICES ASSUME k + 1 <= n PROVE f[k + 1] = <<>>
    OBVIOUS
  <2>2. f[k] = <<>>
    BY <2>1, <1>1 DEF n
  <2> DEFINE j == k + 1
  <2>3. j # 0 /\ j - 1 = k /\ j \in 0 .. n /\ j \in 1 .. n
    BY <2>1
  <2> HIDE DEF j
  <2>4. f[j] = IF j \in P THEN Append(f[j - 1], s[j]) ELSE f[j - 1]
    BY <1>2, <2>3 DEF IsPicked
  <2>5. f[j] = <<>>
    BY <1>3, <2>2, <2>3, <2>4
  <2> QED BY <2>5 DEF j
<1> HIDE DEF S
<1>6. S = Nat
  <2>1. S \in SUBSET Nat
    BY DEF S
  <2> QED BY <1>4, <1>5, <2>1, SetInduction
<1> QED BY <1>1, <1>2, <1>6 DEF S, n

LEMMA FreshContents ==
    ASSUME NEW o, IsSeq(o), NEW n \in Nat,
           \A j \in DOMAIN o : o[j].type = "delta" => o[j].i \in 0 .. n - 1
    PROVE  Contents(o, n) = <<>>
<1> DEFINE P == {j \in DOMAIN o : o[j].type = "delta" /\ o[j].i = n}
<1>1. \A k \in 1 .. Len(o) : k \notin P
  <2>1. DOMAIN o = 1 .. Len(o)
    BY SeqLength
  <2>2. n \notin 0 .. n - 1
    OBVIOUS
  <2> QED BY <2>1, <2>2
<1> HIDE DEF P
<1>2. At(o, P) = <<>>
  BY <1>1, AtNothing
<1>3. Frags(<<>>) = <<>>
  BY DEF Frags
<1> QED BY <1>2, <1>3 DEF Contents, P

LEMMA FreshArgs ==
    ASSUME NEW o, IsSeq(o), Numbered(o)
    PROVE  ToolArgs(o, OpensIn(o)) = <<>>
<1> DEFINE n == OpensIn(o)
           P == {j \in DOMAIN o : o[j].type = "delta" /\ o[j].x.kind = "tool" /\ o[j].i = n}
<1>1. \A k \in 1 .. Len(o) : k \notin P
  <2>1. DOMAIN o = 1 .. Len(o)
    BY SeqLength
  <2>2. n \notin 0 .. n - 1
    BY DEF Numbered
  <2> QED BY <2>1, <2>2 DEF Numbered
<1> HIDE DEF P
<1>2. At(o, P) = <<>>
  BY <1>1, AtNothing
<1>3. Frags(<<>>) = <<>>
  BY DEF Frags
<1> QED BY <1>2, <1>3 DEF ToolArgs, P

LEMMA CallsAreSeq ==
    ASSUME NEW o, IsSeq(o)
    PROVE  /\ IsSeq(CallsSeen(o)) /\ Len(CallsSeen(o)) = Len(ToolOpens(o))
           /\ \A k \in 1 .. Len(ToolOpens(o)) :
                CallsSeen(o)[k] = [id   |-> ToolOpens(o)[k].x.id,
                                   args |-> ToolArgs(o, ToolOpens(o)[k].i)]
<1>1. Len(ToolOpens(o)) \in Nat /\ DOMAIN ToolOpens(o) = 1 .. Len(ToolOpens(o))
  BY EventsAreSeq, SeqLength
<1>2. CallsSeen(o) = [k \in 1 .. Len(ToolOpens(o)) |-> CallsSeen(o)[k]]
  BY <1>1 DEF CallsSeen
<1> QED BY <1>1, <1>2, FunctionIsSeq DEF CallsSeen

LEMMA CallsSame ==
    ASSUME NEW o, IsSeq(o), NEW e,
           ~(e.type = "open" /\ e.x.kind = "tool"), ~(e.type = "delta" /\ e.x.kind = "tool")
    PROVE  CallsSeen(Append(o, e)) = CallsSeen(o)
<1> DEFINE t == Append(o, e)
<1>1. ToolOpens(t) = ToolOpens(o)
  BY ToolOpensAppend
<1>2. \A i : ToolArgs(t, i) = ToolArgs(o, i)
  BY ToolArgsAppend
<1> HIDE DEF t
<1>3. CallsSeen(t) = CallsSeen(o)
  BY <1>1, <1>2 DEF CallsSeen
<1> QED BY <1>3 DEF t

LEMMA CallOpened ==
    ASSUME NEW o, IsSeq(o), Numbered(o), NEW e, e.type = "open", e.x.kind = "tool",
           e.i = OpensIn(o)
    PROVE  CallsSeen(Append(o, e)) = Append(CallsSeen(o), [id |-> e.x.id, args |-> <<>>])
<1> DEFINE t == Append(o, e)
           tools == ToolOpens(o)
           n == Len(tools)
           c == CallsSeen(o)
           new == [id |-> e.x.id, args |-> <<>>]
<1>1. ToolOpens(t) = Append(tools, e) /\ IsSeq(tools) /\ IsSeq(t)
  BY ToolOpensAppend, EventsAreSeq, Appended
<1>2. \A i : ToolArgs(t, i) = ToolArgs(o, i)
  BY ToolArgsAppend
<1>3. ToolArgs(o, e.i) = <<>>
  BY FreshArgs
<1>4. /\ n \in Nat /\ Len(ToolOpens(t)) = n + 1 /\ ToolOpens(t)[n + 1] = e
      /\ \A k \in 1 .. n : ToolOpens(t)[k] = tools[k]
  BY <1>1, Appended
<1>5. IsSeq(c) /\ Len(c) = n
      /\ \A k \in 1 .. n : c[k] = [id |-> tools[k].x.id, args |-> ToolArgs(o, tools[k].i)]
  BY CallsAreSeq
<1>6. /\ IsSeq(CallsSeen(t)) /\ Len(CallsSeen(t)) = n + 1
      /\ \A k \in 1 .. n + 1 : CallsSeen(t)[k] = [id   |-> ToolOpens(t)[k].x.id,
                                                  args |-> ToolArgs(t, ToolOpens(t)[k].i)]
  BY <1>1, <1>4, CallsAreSeq
<1> DEFINE g == Append(c, new)
<1>7. /\ IsSeq(g) /\ Len(g) = n + 1 /\ g[n + 1] = new
      /\ \A k \in 1 .. n : g[k] = c[k]
  BY <1>5, Appended
<1> HIDE DEF t, tools, n, c, g
<1>8. ASSUME NEW k \in 1 .. n + 1 PROVE CallsSeen(t)[k] = g[k]
  <2>1. CASE k \in 1 .. n
    BY <1>2, <1>4, <1>5, <1>6, <1>7, <2>1
  <2>2. CASE k = n + 1
    BY <1>2, <1>3, <1>4, <1>6, <1>7, <2>2
  <2> QED BY <1>4, <2>1, <2>2
<1>9. CallsSeen(t) = g
  BY <1>6, <1>7, <1>8, SameSeq
<1> QED BY <1>9 DEF t, g, c

LEMMA ArgsReplaced ==
    ASSUME NEW r, NEW a, NEW b, NEW y, r = [id |-> a, args |-> b]
    PROVE  [r EXCEPT !.args = y] = [id |-> a, args |-> y] /\ r.args = b
OBVIOUS

\* The calls with one more fragment of the last
WithArg(calls, x) == [calls EXCEPT ![Len(calls)].args = Append(@, x)]

LEMMA CallExtended ==
    ASSUME NEW o, IsSeq(o), Numbered(o), NEW e, e.type = "delta", e.x.kind = "tool",
           ToolOpens(o) # <<>>, e.i = ToolOpens(o)[Len(ToolOpens(o))].i
    PROVE  /\ CallsSeen(Append(o, e)) = WithArg(CallsSeen(o), e.x.x)
           /\ Len(CallsSeen(o)) \in Nat \ {0}
<1> DEFINE t == Append(o, e)
           tools == ToolOpens(o)
           n == Len(tools)
           c == CallsSeen(o)
<1>1. ToolOpens(t) = tools /\ IsSeq(tools) /\ IsSeq(t)
  BY ToolOpensAppend, EventsAreSeq, Appended
<1>2. \A i : ToolArgs(t, i) = IF e.i = i THEN Append(ToolArgs(o, i), e.x.x) ELSE ToolArgs(o, i)
  BY ToolArgsAppend
<1>3. n \in Nat /\ DOMAIN tools = 1 .. n /\ n # 0
  <2>1. n \in Nat /\ DOMAIN tools = 1 .. n
    BY <1>1, SeqLength
  <2>2. n = 0 => tools = <<>>
    <3>1. IsSeq(<<>>) /\ Len(<<>>) = 0
      BY EmptyIsSeq
    <3>2. ASSUME n = 0 PROVE \A k \in 1 .. n : tools[k] = <<>>[k]
      BY <3>2
    <3> QED BY <1>1, <3>1, <3>2, SameSeq
  <2> QED BY <2>1, <2>2
<1>4. \A k \in 1 .. n : tools[k].i = e.i <=> k = n
  <2>1. \A k, m \in 1 .. n : k < m => tools[k].i < tools[m].i
    BY <1>3 DEF Numbered
  <2>2. \A k \in 1 .. n : tools[k].i \in Nat
    BY <1>3 DEF Numbered
  <2>3. n \in 1 .. n /\ e.i = tools[n].i
    BY <1>3
  <2> HIDE DEF tools, n
  <2>4. ASSUME NEW k \in 1 .. n, k # n PROVE tools[k].i # e.i
    <3>1. k < n
      BY <1>3, <2>4
    <3>2. tools[k].i < tools[n].i /\ tools[k].i \in Nat /\ tools[n].i \in Nat
      BY <2>1, <2>2, <2>3, <3>1
    <3> QED BY <2>3, <3>2
  <2> QED BY <2>3, <2>4
<1>5. IsSeq(c) /\ Len(c) = n /\ DOMAIN c = 1 .. n
      /\ \A k \in 1 .. n : c[k] = [id |-> tools[k].x.id, args |-> ToolArgs(o, tools[k].i)]
  BY CallsAreSeq, SeqLength
<1>6. /\ IsSeq(CallsSeen(t)) /\ Len(CallsSeen(t)) = n
      /\ \A k \in 1 .. n : CallsSeen(t)[k] = [id   |-> tools[k].x.id,
                                              args |-> ToolArgs(t, tools[k].i)]
  BY <1>1, CallsAreSeq
<1> DEFINE g == WithArg(c, e.x.x)
<1> HIDE DEF t, tools, n, c
<1>7. /\ \A k \in 1 .. n : k # n => g[k] = c[k]
      /\ g[n] = [c[n] EXCEPT !.args = Append(@, e.x.x)]
      /\ g = [k \in 1 .. n |-> g[k]]
  <2>1. n \in DOMAIN c /\ Len(c) = n
    BY <1>3, <1>5
  <2>2. g = [c EXCEPT ![n].args = Append(@, e.x.x)]
    BY <2>1 DEF WithArg
  <2> HIDE DEF g
  <2> QED BY <1>5, <2>1, <2>2
<1>8. IsSeq(g) /\ Len(g) = n
  BY <1>3, <1>7, FunctionIsSeq
<1> HIDE DEF g
<1>9. ASSUME NEW k \in 1 .. n PROVE CallsSeen(t)[k] = g[k]
  <2>1. CASE k # n
    <3>1. ToolArgs(t, tools[k].i) = ToolArgs(o, tools[k].i)
      BY <1>2, <1>4, <2>1
    <3>2. g[k] = c[k]
      BY <1>7, <2>1
    <3> QED BY <1>5, <1>6, <3>1, <3>2
  <2>2. CASE k = n
    <3>1. ToolArgs(t, tools[k].i) = Append(ToolArgs(o, tools[k].i), e.x.x)
      BY <1>2, <1>4, <2>2
    <3>2. c[n] = [id |-> tools[n].x.id, args |-> ToolArgs(o, tools[n].i)]
      BY <1>5, <2>2
    <3>3. g[n] = [id |-> tools[n].x.id, args |-> Append(ToolArgs(o, tools[n].i), e.x.x)]
      <4>1. g[n] = [c[n] EXCEPT !.args = Append(c[n].args, e.x.x)]
        BY <1>7
      <4>2. c[n].args = ToolArgs(o, tools[n].i)
        BY <3>2
      <4> DEFINE y == Append(c[n].args, e.x.x)
      <4> HIDE DEF y
      <4>3. [c[n] EXCEPT !.args = y] = [id |-> tools[n].x.id, args |-> y]
        BY <3>2, ArgsReplaced
      <4> QED BY <4>1, <4>2, <4>3 DEF y
    <3> QED BY <1>6, <2>2, <3>1, <3>3
  <2> QED BY <2>1, <2>2
<1>10. CallsSeen(t) = g
  BY <1>6, <1>8, <1>9, SameSeq
<1> QED BY <1>3, <1>5, <1>10 DEF t, g, c, n

\* The usage that ends or will end the answer
SentBy(w) == IF Of(w.out, "end") = <<>> THEN w.usage ELSE Of(w.out, "end")[1].x.usage

\* The step from w to v tells the client nothing of the content and usage
Quiet(v, w) ==
    /\ Deltas(v.out) = Deltas(w.out) /\ CallsSeen(v.out) = CallsSeen(w.out)
    /\ SentBy(v) = SentBy(w)

SameFlags(v, w) == v.finishSeen = w.finishSeen /\ v.ended = w.ended /\ v.usage = w.usage

LEMMA QuietAppend ==
    ASSUME NEW w, IsSeq(w.out), NEW v, NEW e, v.out = Append(w.out, e), v.usage = w.usage,
           e.type \in {"start", "error", "close"}
    PROVE  Quiet(v, w)
<1>1. Deltas(v.out) = Deltas(w.out)
  BY DeltasAppend
<1>2. CallsSeen(v.out) = CallsSeen(w.out)
  BY CallsSame
<1>3. Of(v.out, "end") = Of(w.out, "end")
  BY OfAppend
<1> QED BY <1>1, <1>2, <1>3 DEF Quiet, SentBy

LEMMA StartQuiet ==
    ASSUME NEW w, Sound(w)
    PROVE  LET v == Start(w)
           IN  /\ Sound(v) /\ Quiet(v, w) /\ SameFlags(v, w)
               /\ v.block = w.block /\ v.cur = w.cur
<1> DEFINE v == Start(w)
<1>1. DOMAIN w = Fields /\ IsSeq(w.out)
  BY DEF Sound
<1>2. CASE w.started
  BY <1>2 DEF Start, Quiet, SameFlags
<1>3. CASE ~w.started
  <2>1. /\ Only({"started", "out"}, v, w)
        /\ v.out = Append(w.out, Event("start", w.cur, 0))
    BY <1>1, <1>3, StartEffect
  <2> HIDE DEF v
  <2>2. v.block = w.block /\ v.cur = w.cur /\ SameFlags(v, w)
    BY <2>1 DEF Only, Fields, SameFlags
  <2>3. Event("start", w.cur, 0).type = "start"
    BY DEF Event
  <2>4. Quiet(v, w)
    BY <1>1, <2>1, <2>2, <2>3, QuietAppend DEF SameFlags
  <2>5. Sound(v)
    BY <2>1, SoundOther
  <2> QED BY <2>2, <2>4, <2>5 DEF v
<1> QED BY <1>2, <1>3

LEMMA ErrorQuiet ==
    ASSUME NEW w, Sound(w)
    PROVE  LET v == Put(w, "error", 0)
           IN  /\ Sound(v) /\ Quiet(v, w) /\ SameFlags(v, w)
               /\ v.block = w.block /\ v.cur = w.cur
<1> DEFINE v == Put(w, "error", 0)
<1>1. DOMAIN w = Fields /\ IsSeq(w.out)
  BY DEF Sound
<1>2. Only({"out"}, v, w) /\ v.out = Append(w.out, Event("error", w.cur, 0))
  BY <1>1, PutEffect
<1> HIDE DEF v
<1>3. v.block = w.block /\ v.cur = w.cur /\ SameFlags(v, w) /\ Only({"started", "out"}, v, w)
  BY <1>2 DEF Only, Fields, SameFlags
<1>4. Event("error", w.cur, 0).type = "error"
  BY DEF Event
<1>5. Quiet(v, w)
  BY <1>1, <1>2, <1>3, <1>4, QuietAppend DEF SameFlags
<1>6. Sound(v)
  BY <1>2, <1>3, SoundOther
<1> QED BY <1>3, <1>5, <1>6 DEF v

LEMMA CloseQuiet ==
    ASSUME NEW w, Sound(w), NEW v, v = EndItem(w) \/ v = EndContent(w)
    PROVE  /\ Sound(v) /\ Quiet(v, w) /\ SameFlags(v, w)
           /\ v.block = NoBlock
<1>1. DOMAIN w = Fields /\ IsSeq(w.out)
  BY DEF Sound
<1>2. CASE w.block = NoBlock
  BY <1>2 DEF EndItem, EndContent, Quiet, SameFlags
<1>3. CASE w.block # NoBlock
  <2>1. PICK x : /\ Only({"block", "cur", "items", "out"}, v, w) /\ v.block = NoBlock
                 /\ v.out = Append(w.out, Event("close", w.cur, x))
    <3>1. CASE v = EndItem(w)
      BY <1>1, <1>3, <3>1, EndItemEffect
    <3>2. CASE v = EndContent(w)
      <4>1. Only({"block", "cur", "items", "out"}, v, w)
        BY <1>1, <1>3, <3>2, EndContentEffect DEF Only
      <4> QED BY <1>1, <1>3, <3>2, <4>1, EndContentEffect
    <3> QED BY <3>1, <3>2
  <2>2. SameFlags(v, w)
    BY <2>1 DEF Only, Fields, SameFlags
  <2>3. Event("close", w.cur, x).type = "close"
    BY DEF Event
  <2>4. Quiet(v, w)
    BY <1>1, <2>1, <2>2, <2>3, QuietAppend DEF SameFlags
  <2>5. Sound(v)
    BY <1>3, <2>1, SoundClose
  <2> QED BY <2>1, <2>2, <2>4, <2>5
<1> QED BY <1>2, <1>3

LEMMA OpenHeard ==
    ASSUME NEW w, Sound(w), Tidy => w.block = NoBlock, ~Closed(w), NEW b \in Blocks, NEW id
    PROVE  LET v == Open(w, b, id)
           IN  /\ Sound(v) /\ SameFlags(v, w) /\ v.block = b /\ SentBy(v) = SentBy(w)
               /\ Deltas(v.out) = Deltas(w.out)
               /\ CallsSeen(v.out) = IF b = "tool"
                                       THEN Append(CallsSeen(w.out), [id |-> id, args |-> <<>>])
                                       ELSE CallsSeen(w.out)
<1> DEFINE v == Open(w, b, id)
           e == Event("open", w.next, [kind |-> b, id |-> id])
<1>1. DOMAIN w = Fields /\ IsSeq(w.out) /\ Numbered(w.out) /\ w.next = OpensIn(w.out)
  BY DEF Sound, InBlock
<1>2. v.out = Append(w.out, e) /\ v.block = b /\ SameFlags(v, w)
  BY <1>1 DEF Open, Put, Event, Fields, SameFlags
<1>3. Sound(v)
  BY SoundOpen
<1>4. e.type = "open" /\ e.x.kind = b /\ e.x.id = id /\ e.i = w.next
  BY DEF Event
<1> HIDE DEF v, e
<1>5. Deltas(v.out) = Deltas(w.out) /\ Of(v.out, "end") = Of(w.out, "end")
  BY <1>1, <1>2, <1>4, DeltasAppend, OfAppend
<1>6. CASE b = "tool"
  <2>1. CallsSeen(v.out) = Append(CallsSeen(w.out), [id |-> id, args |-> <<>>])
    BY <1>1, <1>2, <1>4, <1>6, CallOpened
  <2> QED BY <1>2, <1>3, <1>5, <1>6, <2>1 DEF SentBy, SameFlags, v
<1>7. CASE b # "tool"
  <2>1. CallsSeen(v.out) = CallsSeen(w.out)
    BY <1>1, <1>2, <1>4, <1>7, CallsSame
  <2> QED BY <1>2, <1>3, <1>5, <1>7, <2>1 DEF SentBy, SameFlags, v
<1> QED BY <1>6, <1>7

LEMMA DeltaHeard ==
    ASSUME NEW w, Sound(w), NEW b \in Blocks, w.block = b, NEW x
    PROVE  LET v == Delta(w, b, x)
           IN  /\ Sound(v) /\ SameFlags(v, w) /\ v.block = b /\ SentBy(v) = SentBy(w)
               /\ Deltas(v.out) = Append(Deltas(w.out), [kind |-> b, x |-> x])
               /\ b = "tool" => /\ CallsSeen(v.out) = WithArg(CallsSeen(w.out), x)
                                /\ Len(CallsSeen(w.out)) \in Nat \ {0}
               /\ b # "tool" => CallsSeen(v.out) = CallsSeen(w.out)
<1> DEFINE v == Delta(w, b, x)
           e == Event("delta", w.cur, [kind |-> b, x |-> x])
<1>1. DOMAIN w = Fields /\ IsSeq(w.out) /\ Numbered(w.out)
  BY DEF Sound
<1>2. v.out = Append(w.out, e) /\ v.block = b /\ SameFlags(v, w)
  BY <1>1 DEF Delta, Put, Event, Fields, SameFlags
<1>3. Sound(v)
  BY SoundDelta
<1>4. e.type = "delta" /\ e.x = [kind |-> b, x |-> x] /\ e.x.kind = b /\ e.x.x = x /\ e.i = w.cur
  BY DEF Event
<1>5. b = "tool" => ToolOpens(w.out) # <<>> /\ ToolOpens(w.out)[Len(ToolOpens(w.out))].i = w.cur
  BY DEF Sound, InBlock
<1> HIDE DEF v, e
<1>6. /\ Deltas(v.out) = Append(Deltas(w.out), [kind |-> b, x |-> x])
      /\ Of(v.out, "end") = Of(w.out, "end")
  BY <1>1, <1>2, <1>4, DeltasAppend, OfAppend
<1>7. b = "tool" => /\ CallsSeen(v.out) = WithArg(CallsSeen(w.out), x)
                    /\ Len(CallsSeen(w.out)) \in Nat \ {0}
  BY <1>1, <1>2, <1>4, <1>5, CallExtended
<1>8. b # "tool" => CallsSeen(v.out) = CallsSeen(w.out)
  BY <1>1, <1>2, <1>4, CallsSame
<1> QED BY <1>2, <1>3, <1>6, <1>7, <1>8 DEF SentBy, SameFlags, v

LEMMA EmitQuiet ==
    ASSUME NEW w, Sound(w), w.block = NoBlock, NEW v, v = EmitCompleted(w) \/ v = EmitDelta(w)
    PROVE  /\ Sound(v) /\ Quiet(v, w) /\ v.finishSeen = w.finishSeen /\ v.ended
           /\ v.block = NoBlock
<1>1. DOMAIN w = Fields /\ IsSeq(w.out) /\ EndIsLast(w.out) /\ (w.ended <=> HasEnd(w.out))
  BY DEF Sound
<1>2. CASE w.ended
  BY <1>2 DEF EmitCompleted, EmitDelta, Quiet
<1>3. CASE ~w.ended
  <2> DEFINE e == Event("end", w.cur, Ending(w))
  <2>1. Only({"ended", "usage", "out"}, v, w) /\ v.ended /\ v.out = Append(w.out, e)
    <3>1. CASE v = EmitCompleted(w)
      BY <1>1, <1>3, <3>1, EmitEffect
    <3>2. CASE v = EmitDelta(w)
      <4>1. Only({"ended", "out"}, v, w) /\ v.ended /\ v.out = Append(w.out, e)
        BY <1>1, <1>3, <3>2, EmitEffect
      <4> QED BY <4>1 DEF Only
    <3> QED BY <3>1, <3>2
  <2>2. Sound(v)
    BY <1>3, <2>1, SoundEnd
  <2>3. e.type = "end" /\ e.x.usage = w.usage
    BY DEF Event, Ending
  <2> HIDE DEF e
  <2>4. v.block = NoBlock /\ v.finishSeen = w.finishSeen
    BY <2>1 DEF Only, Fields
  <2>5. Deltas(v.out) = Deltas(w.out) /\ CallsSeen(v.out) = CallsSeen(w.out)
    BY <1>1, <2>1, <2>3, DeltasAppend, CallsSame
  <2>6. SentBy(v) = SentBy(w)
    <3>1. Of(w.out, "end") = <<>>
      BY <1>1, <1>3 DEF EndIsLast
    <3>2. Of(v.out, "end") = Append(Of(w.out, "end"), e)
      BY <1>1, <2>1, <2>3, OfAppend
    <3>3. IsSeq(Of(w.out, "end"))
      BY <1>1, EventsAreSeq
    <3>4. Of(v.out, "end") # <<>> /\ Of(v.out, "end")[1] = e
      BY <3>1, <3>2, <3>3, FirstAppended
    <3>5. Of(v.out, "end") # <<>> /\ Of(v.out, "end")[1].x.usage = w.usage
      BY <2>3, <3>4
    <3> QED BY <3>1, <3>5 DEF SentBy
  <2> QED BY <2>1, <2>2, <2>4, <2>5, <2>6 DEF Quiet
<1> QED BY <1>2, <1>3

-----------------------------------------------------------------------------
(* One event for a client of Responses or Anthropic *)

Itemised == {"responses", "anthropic"}

\* The event that says x of the given kind of content
Fragment(kind, x) == Ev(IF kind = "tool" THEN "tool_args" ELSE kind, x)

LEMMA WriteStart ==
    ASSUME NEW format \in Itemised, NEW w, Sound(w), ~Closed(w), NEW x \in {"reasoning", "text"},
           Tidy /\ format = "responses" => w.block # x
    PROVE  LET v == Write(format, w, Ev("start", x))
           IN  Sound(v) /\ SameFlags(v, w) /\ Quiet(v, w) /\ v.block = x
<1> DEFINE v == Write(format, w, Ev("start", x))
           s == Start(w)
<1>1. Sound(s) /\ Quiet(s, w) /\ SameFlags(s, w) /\ s.block = w.block
  BY StartQuiet
<1>2. PICK c : (c = EndItem(s) \/ c = EndContent(s) \/ (~Tidy /\ c = s)) /\ v = Open(c, x, NoId)
  BY <1>1 DEF Write, WriteResponses, WriteAnthropic, Ev, Itemised
<1> HIDE DEF v, s
<1>3. Sound(c) /\ Quiet(c, s) /\ SameFlags(c, s) /\ (Tidy => c.block = NoBlock)
  <2>1. CASE c = EndItem(s) \/ c = EndContent(s)
    BY <1>1, <2>1, CloseQuiet
  <2>2. CASE ~Tidy /\ c = s
    BY <1>1, <2>2 DEF Quiet, SameFlags
  <2> QED BY <1>2, <2>1, <2>2
<1>4. ~Closed(c) /\ x \in Blocks /\ x # "tool"
  BY <1>1, <1>3 DEF Closed, SameFlags, Blocks
<1>5. /\ Sound(v) /\ SameFlags(v, c) /\ v.block = x /\ SentBy(v) = SentBy(c)
      /\ Deltas(v.out) = Deltas(c.out) /\ CallsSeen(v.out) = CallsSeen(c.out)
  BY <1>2, <1>3, <1>4, OpenHeard
<1> QED BY <1>1, <1>3, <1>5 DEF Quiet, SameFlags, v

LEMMA WriteCall ==
    ASSUME NEW format \in Itemised, NEW w, Sound(w), ~Closed(w), NEW id
    PROVE  LET v == Write(format, w, Ev("tool_start", id))
           IN  /\ Sound(v) /\ SameFlags(v, w) /\ v.block = "tool" /\ SentBy(v) = SentBy(w)
               /\ Deltas(v.out) = Deltas(w.out)
               /\ CallsSeen(v.out) = Append(CallsSeen(w.out), [id |-> id, args |-> <<>>])
<1> DEFINE v == Write(format, w, Ev("tool_start", id))
           s == Start(w)
<1>1. Sound(s) /\ Quiet(s, w) /\ SameFlags(s, w) /\ s.block = w.block
  BY StartQuiet
<1> DEFINE a == [s EXCEPT !.beforeTool = @ \/ s.block = "text"]
<1>2. \/ v = Open(EndItem(a), "tool", id)
      \/ v = Open(EndContent(s), "tool", id)
  BY DEF Write, WriteResponses, WriteAnthropic, Ev, Itemised
<1> HIDE DEF v, s
<1>3. Sound(a) /\ Quiet(a, s) /\ SameFlags(a, s)
  <2>1. DOMAIN s = Fields
    BY <1>1 DEF Sound
  <2>2. Only({"beforeTool"}, a, s)
    BY <2>1 DEF Only, Fields
  <2> HIDE DEF a
  <2>3. /\ Only({"started", "accum", "items", "finish", "usage", "beforeTool", "followUp",
                 "finishSeen"}, a, s)
        /\ a.finishSeen = s.finishSeen /\ a.out = s.out /\ a.ended = s.ended
        /\ a.usage = s.usage
    BY <2>2 DEF Only, Fields
  <2>4. Sound(a)
    BY <1>1, <2>3, SoundSet
  <2> QED BY <2>3, <2>4 DEF Quiet, SentBy, SameFlags
<1> HIDE DEF a
<1>4. PICK r, c : /\ r = a \/ r = s
                  /\ c = EndItem(r) \/ c = EndContent(r)
                  /\ v = Open(c, "tool", id)
  BY <1>2
<1>5. Sound(r) /\ Quiet(r, w) /\ SameFlags(r, w)
  BY <1>1, <1>3, <1>4 DEF Quiet, SameFlags
<1>6. Sound(c) /\ Quiet(c, r) /\ SameFlags(c, r) /\ c.block = NoBlock
  BY <1>4, <1>5, CloseQuiet
<1>7. PICK b \in Blocks : ~Closed(c) /\ b = "tool"
  BY <1>5, <1>6 DEF Closed, SameFlags, Blocks
<1>8. v = Open(c, b, id)
  BY <1>4, <1>7
<1>9. /\ Sound(v) /\ SameFlags(v, c) /\ v.block = b /\ SentBy(v) = SentBy(c)
      /\ Deltas(v.out) = Deltas(c.out)
      /\ CallsSeen(v.out) = IF b = "tool"
                              THEN Append(CallsSeen(c.out), [id |-> id, args |-> <<>>])
                              ELSE CallsSeen(c.out)
  BY <1>6, <1>7, <1>8, OpenHeard
<1> QED BY <1>5, <1>6, <1>7, <1>9 DEF Quiet, SameFlags, v

LEMMA WriteDelta ==
    ASSUME NEW format \in Itemised, NEW w, Sound(w), ~Closed(w), NEW b \in Blocks, NEW x
    PROVE  LET v == Write(format, w, Fragment(b, x))
           IN  /\ Sound(v) /\ SameFlags(v, w) /\ v.block = b /\ SentBy(v) = SentBy(w)
               /\ Deltas(v.out) = Append(Deltas(w.out), [kind |-> b, x |-> x])
               /\ b # "tool" => CallsSeen(v.out) = CallsSeen(w.out)
               /\ b = "tool" /\ w.block = "tool" =>
                     /\ CallsSeen(v.out) = WithArg(CallsSeen(w.out), x)
                     /\ Len(CallsSeen(w.out)) \in Nat \ {0}
<1> DEFINE v == Write(format, w, Fragment(b, x))
           s == Start(w)
<1>1. Sound(s) /\ Quiet(s, w) /\ SameFlags(s, w) /\ s.block = w.block
  BY StartQuiet
<1> DEFINE d(c) == IF s.block = b THEN s ELSE Open(c, b, NoId)
<1>2. PICK c : (c = EndItem(s) \/ c = EndContent(s)) /\ v = Delta(d(c), b, x)
  BY DEF Write, WriteResponses, WriteAnthropic, Fragment, Ev, Itemised, ItemDelta, ContentDelta,
         Blocks
<1> HIDE DEF v, s
<1>3. Sound(c) /\ Quiet(c, s) /\ SameFlags(c, s) /\ c.block = NoBlock
  BY <1>1, <1>2, CloseQuiet
<1>4. ~Closed(c)
  BY <1>1, <1>3 DEF Closed, SameFlags
<1> DEFINE u == d(c)
<1>5. /\ Sound(u) /\ SameFlags(u, w) /\ u.block = b /\ SentBy(u) = SentBy(w)
      /\ Deltas(u.out) = Deltas(w.out)
      /\ b # "tool" \/ w.block = "tool" => CallsSeen(u.out) = CallsSeen(w.out)
  <2>1. CASE s.block = b
    BY <1>1, <2>1 DEF Quiet
  <2>2. CASE s.block # b
    <3>1. u = Open(c, b, NoId)
      BY <2>2
    <3> HIDE DEF u
    <3>2. /\ Sound(u) /\ SameFlags(u, c) /\ u.block = b /\ SentBy(u) = SentBy(c)
          /\ Deltas(u.out) = Deltas(c.out)
          /\ b # "tool" => CallsSeen(u.out) = CallsSeen(c.out)
      BY <1>3, <1>4, <3>1, OpenHeard
    <3> QED BY <1>1, <1>3, <2>2, <3>2 DEF Quiet, SameFlags
  <2> QED BY <2>1, <2>2
<1>6. v = Delta(u, b, x)
  BY <1>2
<1> HIDE DEF u
<1>7. /\ Sound(v) /\ SameFlags(v, u) /\ v.block = b /\ SentBy(v) = SentBy(u)
      /\ Deltas(v.out) = Append(Deltas(u.out), [kind |-> b, x |-> x])
      /\ b = "tool" => /\ CallsSeen(v.out) = WithArg(CallsSeen(u.out), x)
                       /\ Len(CallsSeen(u.out)) \in Nat \ {0}
      /\ b # "tool" => CallsSeen(v.out) = CallsSeen(u.out)
  BY <1>5, <1>6, DeltaHeard
<1> QED BY <1>5, <1>7 DEF SameFlags, v

LEMMA WriteEndBlock ==
    ASSUME NEW format \in Itemised, NEW w, Sound(w)
    PROVE  LET v == Write(format, w, Ev("end_block", 0))
           IN  Sound(v) /\ SameFlags(v, w) /\ Quiet(v, w) /\ v.block = NoBlock
<1> DEFINE v == Write(format, w, Ev("end_block", 0))
           s == Start(w)
<1>1. Sound(s) /\ Quiet(s, w) /\ SameFlags(s, w)
  BY StartQuiet
<1>2. v = EndItem(s) \/ v = EndContent(s)
  BY DEF Write, WriteResponses, WriteAnthropic, Ev, Itemised
<1> HIDE DEF v, s
<1>3. Sound(v) /\ Quiet(v, s) /\ SameFlags(v, s) /\ v.block = NoBlock
  BY <1>1, <1>2, CloseQuiet
<1> QED BY <1>1, <1>3 DEF Quiet, SameFlags, v

LEMMA WriteError ==
    ASSUME NEW format \in Itemised, NEW w, Sound(w)
    PROVE  LET v == Write(format, w, Ev("error", 0))
           IN  Sound(v) /\ SameFlags(v, w) /\ Quiet(v, w) /\ v.block = w.block
<1> DEFINE v == Write(format, w, Ev("error", 0))
           s == Start(w)
<1>1. Sound(s) /\ Quiet(s, w) /\ SameFlags(s, w) /\ s.block = w.block
  BY StartQuiet
<1>2. v = Put(s, "error", 0)
  BY DEF Write, WriteResponses, WriteAnthropic, Ev, Itemised
<1> HIDE DEF v, s
<1>3. Sound(v) /\ Quiet(v, s) /\ SameFlags(v, s) /\ v.block = s.block
  BY <1>1, <1>2, ErrorQuiet
<1> QED BY <1>1, <1>3 DEF Quiet, SameFlags, v

LEMMA FieldsSet ==
    ASSUME NEW w, Sound(w), NEW v, Only({"finish", "beforeTool", "followUp"}, v, w)
    PROVE  Sound(v) /\ Quiet(v, w) /\ SameFlags(v, w) /\ v.block = w.block
<1>1. /\ Only({"started", "accum", "items", "finish", "usage", "beforeTool", "followUp",
               "finishSeen"}, v, w)
      /\ v.finishSeen = w.finishSeen /\ v.out = w.out /\ v.ended = w.ended
      /\ v.usage = w.usage /\ v.block = w.block
  BY DEF Only, Fields
<1>2. Sound(v)
  BY <1>1, SoundSet
<1> QED BY <1>1, <1>2 DEF Quiet, SentBy, SameFlags

LEMMA FinishSet ==
    ASSUME NEW w, Sound(w), w.block = NoBlock
    PROVE  LET v == [w EXCEPT !.finishSeen = TRUE]
           IN  /\ Sound(v) /\ Quiet(v, w) /\ v.finishSeen /\ v.ended = w.ended
               /\ v.usage = w.usage /\ v.block = NoBlock
<1> DEFINE v == [w EXCEPT !.finishSeen = TRUE]
<1>1. DOMAIN w = Fields
  BY DEF Sound
<1>2. Only({"finishSeen"}, v, w) /\ v.finishSeen
  BY <1>1 DEF Only, Fields
<1> HIDE DEF v
<1>3. /\ Only({"started", "accum", "items", "finish", "usage", "beforeTool", "followUp",
               "finishSeen"}, v, w)
      /\ v.out = w.out /\ v.ended = w.ended /\ v.usage = w.usage /\ v.block = w.block
  BY <1>2 DEF Only, Fields
<1>4. Sound(v)
  BY <1>3, SoundSet
<1> QED BY <1>2, <1>3, <1>4 DEF Quiet, SentBy, v

\* What a writer does when it may send the end
LEMMA MayEmit ==
    ASSUME NEW w, Sound(w), w.block = NoBlock, w.usage # <<>> \/ w.ended, NEW v,
           v = EmitCompleted(w) \/ v = EmitDelta(w)
    PROVE  v.ended /\ SentBy(v) = SentBy(w) /\ (~w.ended => SentBy(v) # <<>>)
<1>1. v.ended /\ SentBy(v) = SentBy(w)
  BY EmitQuiet DEF Quiet
<1>2. ~w.ended => Of(w.out, "end") = <<>>
  BY DEF Sound, EndIsLast
<1> QED BY <1>1, <1>2 DEF SentBy

LEMMA AskQuiet ==
    ASSUME NEW w, Sound(w), NEW when
    PROVE  LET v == AskFollowUp(w, when)
           IN  Sound(v) /\ Quiet(v, w) /\ SameFlags(v, w) /\ v.block = w.block
<1> DEFINE v == AskFollowUp(w, when)
<1>1. DOMAIN w = Fields
  BY DEF Sound
<1>2. Only({"finish", "beforeTool", "followUp"}, v, w)
  BY <1>1 DEF AskFollowUp, Only, Fields
<1> HIDE DEF v
<1> QED BY <1>2, FieldsSet DEF v

LEMMA WriteFinish ==
    ASSUME NEW format \in Itemised, NEW w, Sound(w), NEW x
    PROVE  LET v == Write(format, w, Ev("finish", x))
           IN  /\ Sound(v) /\ Quiet(v, w) /\ v.finishSeen /\ v.block = NoBlock
               /\ v.ended => w.ended \/ SentBy(w) # <<>>
<1> DEFINE v == Write(format, w, Ev("finish", x))
           s == Start(w)
<1>1. Sound(s) /\ Quiet(s, w) /\ SameFlags(s, w)
  BY StartQuiet
<1>2. CASE format = "responses"
  <2> DEFINE a == AskFollowUp(s, x = "stop")
             c == EndItem(a)
             f == [c EXCEPT !.finishSeen = TRUE]
  <2>1. v = IF f.usage # <<>> THEN EmitCompleted(f) ELSE f
    BY <1>2 DEF Write, WriteResponses, Ev
  <2>2. Sound(a) /\ Quiet(a, s) /\ SameFlags(a, s)
    BY <1>1, AskQuiet
  <2>3. Sound(c) /\ Quiet(c, a) /\ SameFlags(c, a) /\ c.block = NoBlock
    BY <2>2, CloseQuiet
  <2>4. /\ Sound(f) /\ Quiet(f, c) /\ f.finishSeen /\ f.ended = c.ended
        /\ f.usage = c.usage /\ f.block = NoBlock
    BY <2>3, FinishSet
  <2> HIDE DEF v, s, a, c, f
  <2>5. CASE f.usage # <<>>
    <3>1. v = EmitCompleted(f)
      BY <2>1, <2>5
    <3>2. Sound(v) /\ Quiet(v, f) /\ v.finishSeen = f.finishSeen /\ v.ended /\ v.block = NoBlock
      BY <2>4, <3>1, EmitQuiet
    <3>3. ~f.ended => SentBy(v) # <<>>
      BY <2>4, <2>5, <3>1, MayEmit
    <3> QED BY <1>1, <2>2, <2>3, <2>4, <3>2, <3>3 DEF Quiet, SameFlags, v
  <2>6. CASE f.usage = <<>>
    <3>1. v = f
      BY <2>1, <2>6
    <3> QED BY <1>1, <2>2, <2>3, <2>4, <3>1 DEF Quiet, SameFlags, v
  <2> QED BY <2>5, <2>6
<1>3. CASE format = "anthropic" /\ s.finishSeen
  <2>1. v = s
    BY <1>3 DEF Write, WriteAnthropic, Ev
  <2>2. s.block = NoBlock
    BY <1>1, <1>3 DEF Sound
  <2> HIDE DEF v, s
  <2> QED BY <1>1, <1>3, <2>1, <2>2 DEF SameFlags, v
<1>4. CASE format = "anthropic" /\ ~s.finishSeen
  <2> DEFINE a == [s EXCEPT !.finishSeen = TRUE, !.finish = x]
             f == EndContent(a)
  <2>1. v = IF f.usage # <<>> THEN EmitDelta(f) ELSE f
    BY <1>4 DEF Write, WriteAnthropic, Ev
  <2> DEFINE g == [s EXCEPT !.finish = x]
             c == EndContent(g)
  <2>2. Sound(g) /\ Quiet(g, s) /\ SameFlags(g, s)
    <3>1. DOMAIN s = Fields
      BY <1>1 DEF Sound
    <3>2. Only({"finish", "beforeTool", "followUp"}, g, s)
      BY <3>1 DEF Only, Fields
    <3> HIDE DEF g, s
    <3> QED BY <1>1, <3>2, FieldsSet
  <2>3. Sound(c) /\ Quiet(c, g) /\ SameFlags(c, g) /\ c.block = NoBlock
    BY <2>2, CloseQuiet
  <2>4. f = [c EXCEPT !.finishSeen = TRUE]
    <3>1. DOMAIN s = Fields
      BY <1>1 DEF Sound
    <3> HIDE DEF s
    <3> QED BY <3>1 DEF EndContent, Put, Fields
  <2> HIDE DEF v, s, a, c, f, g
  <2>5. /\ Sound(f) /\ Quiet(f, c) /\ f.finishSeen /\ f.ended = c.ended
        /\ f.usage = c.usage /\ f.block = NoBlock
    BY <2>3, <2>4, FinishSet
  <2>6. CASE f.usage # <<>>
    <3>1. v = EmitDelta(f)
      BY <2>1, <2>6
    <3>2. Sound(v) /\ Quiet(v, f) /\ v.finishSeen = f.finishSeen /\ v.ended /\ v.block = NoBlock
      BY <2>5, <3>1, EmitQuiet
    <3>3. ~f.ended => SentBy(v) # <<>>
      BY <2>5, <2>6, <3>1, MayEmit
    <3> QED BY <1>1, <2>2, <2>3, <2>5, <3>2, <3>3 DEF Quiet, SameFlags, v
  <2>7. CASE f.usage = <<>>
    <3>1. v = f
      BY <2>1, <2>7
    <3> QED BY <1>1, <2>2, <2>3, <2>5, <3>1 DEF Quiet, SameFlags, v
  <2> QED BY <2>6, <2>7
<1> QED BY <1>2, <1>3, <1>4 DEF Itemised

LEMMA WriteDone ==
    ASSUME NEW format \in Itemised, NEW w, Sound(w)
    PROVE  LET v == Write(format, w, Ev("done", 0))
           IN  /\ Sound(v) /\ Quiet(v, w) /\ v.ended /\ v.block = NoBlock
               /\ format = "responses" => v.finishSeen = w.finishSeen
<1> DEFINE v == Write(format, w, Ev("done", 0))
           s == Start(w)
<1>1. Sound(s) /\ Quiet(s, w) /\ SameFlags(s, w)
  BY StartQuiet
<1>2. CASE format = "responses"
  <2> DEFINE a == AskFollowUp(s, TRUE)
             c == EndItem(a)
  <2>1. v = EmitCompleted(c)
    BY <1>2 DEF Write, WriteResponses, Ev
  <2>2. Sound(a) /\ Quiet(a, s) /\ SameFlags(a, s)
    BY <1>1, AskQuiet
  <2>3. Sound(c) /\ Quiet(c, a) /\ SameFlags(c, a) /\ c.block = NoBlock
    BY <2>2, CloseQuiet
  <2> HIDE DEF v, s, a, c
  <2>4. Sound(v) /\ Quiet(v, c) /\ v.finishSeen = c.finishSeen /\ v.ended /\ v.block = NoBlock
    BY <2>1, <2>3, EmitQuiet
  <2> QED BY <1>1, <2>2, <2>3, <2>4 DEF Quiet, SameFlags, v
<1>3. CASE format = "anthropic"
  <2> DEFINE a == [s EXCEPT !.finishSeen = TRUE]
             f == EndContent(a)
             c == EndContent(s)
             u == IF s.finishSeen THEN s ELSE f
  <2>1. v = EmitDelta(u)
    BY <1>3 DEF Write, WriteAnthropic, Ev
  <2>2. Sound(c) /\ Quiet(c, s) /\ SameFlags(c, s) /\ c.block = NoBlock
    BY <1>1, CloseQuiet
  <2>3. f = [c EXCEPT !.finishSeen = TRUE]
    <3>1. DOMAIN s = Fields
      BY <1>1 DEF Sound
    <3> HIDE DEF s
    <3> QED BY <3>1 DEF EndContent, Put, Fields
  <2>4. s.finishSeen => s.block = NoBlock
    BY <1>1 DEF Sound
  <2> HIDE DEF v, s, a, c, f
  <2>5. Sound(f) /\ Quiet(f, c) /\ f.block = NoBlock
    BY <2>2, <2>3, FinishSet
  <2>6. Sound(u) /\ Quiet(u, w) /\ u.block = NoBlock
    BY <1>1, <2>2, <2>4, <2>5 DEF Quiet
  <2> HIDE DEF u
  <2>7. Sound(v) /\ Quiet(v, u) /\ v.ended /\ v.block = NoBlock
    BY <2>1, <2>6, EmitQuiet
  <2> QED BY <1>3, <2>6, <2>7 DEF Quiet, v
<1> QED BY <1>2, <1>3 DEF Itemised

LEMMA WriteUsage ==
    ASSUME NEW format \in Itemised, NEW w, Sound(w), NEW x
    PROVE  LET v == Write(format, w, Ev("usage", x))
           IN  /\ Sound(v) /\ v.block = w.block /\ v.finishSeen = w.finishSeen
               /\ v.ended <=> w.ended \/ w.finishSeen
               /\ Deltas(v.out) = Deltas(w.out) /\ CallsSeen(v.out) = CallsSeen(w.out)
               /\ SentBy(v) = IF w.ended THEN SentBy(w) ELSE <<x>>
<1> DEFINE v == Write(format, w, Ev("usage", x))
           s == Start(w)
           a == [s EXCEPT !.usage = <<x>>]
<1>1. Sound(s) /\ Quiet(s, w) /\ SameFlags(s, w) /\ s.block = w.block
  BY StartQuiet
<1>2. /\ Sound(a) /\ a.block = s.block /\ a.finishSeen = s.finishSeen /\ a.ended = s.ended
      /\ a.usage = <<x>> /\ a.out = s.out
  <2>1. DOMAIN s = Fields
    BY <1>1 DEF Sound
  <2>2. Only({"usage"}, a, s) /\ a.usage = <<x>>
    BY <2>1 DEF Only, Fields
  <2> HIDE DEF a, s
  <2>3. /\ Only({"started", "accum", "items", "finish", "usage", "beforeTool", "followUp",
                 "finishSeen"}, a, s)
        /\ a.block = s.block /\ a.finishSeen = s.finishSeen /\ a.ended = s.ended /\ a.out = s.out
    BY <2>2 DEF Only, Fields
  <2>4. Sound(a)
    BY <1>1, <2>3, SoundSet
  <2> QED BY <2>2, <2>3, <2>4
<1>3. \/ v = a /\ (~a.finishSeen \/ a.ended)
      \/ /\ a.finishSeen
         /\ \E c : (c = a \/ c = EndContent(a)) /\ (v = EmitCompleted(c) \/ v = EmitDelta(c))
  BY DEF Write, WriteResponses, WriteAnthropic, Ev, Itemised
<1> HIDE DEF v, s, a
<1>4. SentBy(a) = IF w.ended THEN SentBy(w) ELSE <<x>>
  <2>1. a.ended <=> HasEnd(a.out)
    BY <1>2 DEF Sound
  <2>2. Of(a.out, "end") = <<>> <=> ~HasEnd(a.out)
    BY <1>2 DEF Sound, EndIsLast
  <2> QED BY <1>1, <1>2, <2>1, <2>2 DEF SentBy, Quiet, SameFlags
<1>5. CASE v = a /\ (~a.finishSeen \/ a.ended)
  BY <1>1, <1>2, <1>4, <1>5 DEF Quiet, SameFlags, v
<1>6. ASSUME NEW c, a.finishSeen, c = a \/ c = EndContent(a),
             v = EmitCompleted(c) \/ v = EmitDelta(c)
      PROVE  /\ Sound(v) /\ v.block = w.block /\ v.finishSeen = w.finishSeen
             /\ v.ended <=> w.ended \/ w.finishSeen
             /\ Deltas(v.out) = Deltas(w.out) /\ CallsSeen(v.out) = CallsSeen(w.out)
             /\ SentBy(v) = IF w.ended THEN SentBy(w) ELSE <<x>>
  <2>1. a.block = NoBlock
    BY <1>2, <1>6 DEF Sound
  <2>2. c = a
    BY <1>6, <2>1 DEF EndContent
  <2>3. Sound(v) /\ Quiet(v, a) /\ v.finishSeen = a.finishSeen /\ v.ended /\ v.block = NoBlock
    BY <1>2, <1>6, <2>1, <2>2, EmitQuiet
  <2> QED BY <1>1, <1>2, <1>4, <1>6, <2>1, <2>3 DEF Quiet, SameFlags
<1> QED BY <1>3, <1>5, <1>6 DEF v

-----------------------------------------------------------------------------
(* One event for a client of Chat Completions *)

Plain(w) ==
    /\ DOMAIN w = Fields /\ IsSeq(w.out) /\ EndIsLast(w.out) /\ Numbered(w.out)
    /\ ~w.ended /\ (w.finishSeen <=> HasEnd(w.out))
    /\ w.next = OpensIn(w.out) /\ ToolOpens(w.out) = Of(w.out, "open")
    /\ w.next > 0 => w.cur = w.next - 1

\* An event that opens nothing
LEMMA PlainPut ==
    ASSUME NEW w, Plain(w), NEW type \in {"delta", "usage", "error"}, NEW x,
           type = "delta" => ~w.finishSeen,
           type = "delta" /\ x.kind = "tool" => w.next > 0
    PROVE  LET v == Put(w, type, x)
           IN  /\ Plain(v) /\ v.next = w.next /\ v.finishSeen = w.finishSeen
               /\ v.out = Append(w.out, Event(type, w.cur, x))
<1> DEFINE v == Put(w, type, x)
           e == Event(type, w.cur, x)
<1>1. /\ DOMAIN w = Fields /\ IsSeq(w.out) /\ EndIsLast(w.out) /\ Numbered(w.out)
      /\ (w.finishSeen <=> HasEnd(w.out)) /\ w.next = OpensIn(w.out)
      /\ w.next > 0 => w.cur = w.next - 1
  BY DEF Plain
<1>2. Only({"out"}, v, w) /\ v.out = Append(w.out, e)
  BY <1>1, PutEffect
<1>3. e.type = type /\ e.i = w.cur /\ e.x = x
  BY DEF Event
<1> HIDE DEF v, e
<1>4. EndIsLast(v.out) /\ (HasEnd(v.out) <=> HasEnd(w.out))
  BY <1>1, <1>2, <1>3, EndIsLastAppend DEF Content
<1>5. Numbered(v.out)
  <2>1. e.type = "delta" /\ e.x.kind = "tool" => e.i \in 0 .. OpensIn(w.out) - 1
    BY <1>1, <1>3 DEF Numbered
  <2> QED BY <1>1, <1>2, <1>3, <2>1, NumberedAppend
<1>6. OpensIn(v.out) = OpensIn(w.out) /\ ToolOpens(v.out) = ToolOpens(w.out)
      /\ Of(v.out, "open") = Of(w.out, "open") /\ IsSeq(v.out)
  BY <1>1, <1>2, <1>3, OpensAppend, ToolOpensAppend, OfAppend, Appended
<1>7. /\ DOMAIN v = Fields /\ v.ended = w.ended /\ v.finishSeen = w.finishSeen
      /\ v.next = w.next /\ v.cur = w.cur
  BY <1>2 DEF Only, Fields
<1> QED BY <1>1, <1>2, <1>4, <1>5, <1>6, <1>7 DEF Plain, v, e

UsageSent(w) == Told(Of(w.out, "usage"))

LEMMA PlainDelta ==
    ASSUME NEW w, Plain(w), ~w.finishSeen, NEW b \in Blocks, NEW x, b = "tool" => w.next > 0
    PROVE  LET v == Write("completions", w, Fragment(b, x))
           IN  /\ Plain(v) /\ v.next = w.next /\ v.finishSeen = w.finishSeen
               /\ UsageSent(v) = UsageSent(w)
               /\ Deltas(v.out) = Append(Deltas(w.out), [kind |-> b, x |-> x])
               /\ b # "tool" => CallsSeen(v.out) = CallsSeen(w.out)
               /\ b = "tool" => /\ CallsSeen(v.out) = WithArg(CallsSeen(w.out), x)
                                /\ Len(CallsSeen(w.out)) \in Nat \ {0}
<1> DEFINE d == [kind |-> b, x |-> x]
           v == Put(w, "delta", d)
           e == Event("delta", w.cur, d)
<1>1. Write("completions", w, Fragment(b, x)) = v
  BY DEF Write, WriteCompletions, Fragment, Ev, Blocks
<1>2. d.kind = b /\ d.x = x
  OBVIOUS
<1>3. e.type = "delta" /\ e.i = w.cur /\ e.x = d /\ e.x.kind = b /\ e.x.x = x
  BY DEF Event
<1> HIDE DEF v, d, e
<1>4. /\ Plain(v) /\ v.next = w.next /\ v.finishSeen = w.finishSeen
      /\ v.out = Append(w.out, e)
  BY <1>2, PlainPut DEF v, e
<1>5. IsSeq(w.out) /\ Numbered(w.out)
  BY DEF Plain
<1>6. Deltas(v.out) = Append(Deltas(w.out), d) /\ UsageSent(v) = UsageSent(w)
  BY <1>3, <1>4, <1>5, DeltasAppend, UsagesAppend DEF UsageSent
<1>7. b # "tool" => CallsSeen(v.out) = CallsSeen(w.out)
  BY <1>3, <1>4, <1>5, CallsSame
<1>8. ASSUME b = "tool"
      PROVE  CallsSeen(v.out) = WithArg(CallsSeen(w.out), x) /\ Len(CallsSeen(w.out)) \in Nat \ {0}
  <2> DEFINE opens == ToolOpens(w.out)
  <2>1. /\ w.next = OpensIn(w.out) /\ opens = Of(w.out, "open") /\ w.cur = w.next - 1
        /\ OpensIn(w.out) \in Nat /\ Len(opens) = OpensIn(w.out) /\ w.next > 0
        /\ \A k \in 1 .. OpensIn(w.out) : opens[k].i = k - 1
    BY <1>8 DEF Plain, Numbered
  <2> HIDE DEF opens
  <2>2. opens[Len(opens)].i = w.cur
    BY <2>1
  <2>3. opens # <<>>
    BY <2>1, EmptyIsSeq
  <2> QED BY <1>3, <1>4, <1>5, <1>8, <2>2, <2>3, CallExtended DEF opens
<1> QED BY <1>1, <1>4, <1>6, <1>7, <1>8 DEF d

LEMMA PlainCall ==
    ASSUME NEW w, Plain(w), ~w.finishSeen, NEW id
    PROVE  LET v == Write("completions", w, Ev("tool_start", id))
           IN  /\ Plain(v) /\ v.next > 0 /\ v.finishSeen = w.finishSeen
               /\ UsageSent(v) = UsageSent(w) /\ Deltas(v.out) = Deltas(w.out)
               /\ CallsSeen(v.out) = Append(CallsSeen(w.out), [id |-> id, args |-> <<>>])
<1> DEFINE v == Write("completions", w, Ev("tool_start", id))
           e == Event("open", w.next, [kind |-> "tool", id |-> id])
<1>1. /\ DOMAIN w = Fields /\ IsSeq(w.out) /\ EndIsLast(w.out) /\ Numbered(w.out)
      /\ (w.finishSeen <=> HasEnd(w.out)) /\ w.next = OpensIn(w.out) /\ w.next \in Nat
      /\ ToolOpens(w.out) = Of(w.out, "open")
  BY DEF Plain, Numbered
<1>2. /\ Only({"cur", "next", "out"}, v, w) /\ v.out = Append(w.out, e)
      /\ v.cur = w.next /\ v.next = w.next + 1
  BY <1>1 DEF Write, WriteCompletions, Ev, Put, Event, Only, Fields
<1>3. e.type = "open" /\ e.i = w.next /\ e.x.kind = "tool" /\ e.x.id = id
  BY DEF Event
<1> HIDE DEF v, e
<1>4. EndIsLast(v.out) /\ (HasEnd(v.out) <=> HasEnd(w.out))
  BY <1>1, <1>2, <1>3, EndIsLastAppend
<1>5. Numbered(v.out)
  BY <1>1, <1>2, <1>3, NumberedAppend
<1>6. OpensIn(v.out) = OpensIn(w.out) + 1 /\ ToolOpens(v.out) = Append(ToolOpens(w.out), e)
      /\ Of(v.out, "open") = Append(Of(w.out, "open"), e) /\ IsSeq(v.out)
  <2>1. OpensIn(v.out) = OpensIn(w.out) + 1
    BY <1>1, <1>2, <1>3, OpensAppend
  <2>2. ToolOpens(v.out) = Append(ToolOpens(w.out), e)
    BY <1>1, <1>2, <1>3, ToolOpensAppend
  <2>3. Of(v.out, "open") = Append(Of(w.out, "open"), e)
    BY <1>1, <1>2, <1>3, OfAppend
  <2>4. IsSeq(v.out)
    BY <1>1, <1>2, Appended
  <2> QED BY <2>1, <2>2, <2>3, <2>4
<1>7. DOMAIN v = Fields /\ v.ended = w.ended /\ v.finishSeen = w.finishSeen
  BY <1>2 DEF Only, Fields
<1>8. Plain(v) /\ v.next > 0
  BY <1>1, <1>2, <1>4, <1>5, <1>6, <1>7 DEF Plain
<1>9. CallsSeen(v.out) = Append(CallsSeen(w.out), [id |-> id, args |-> <<>>])
  BY <1>1, <1>2, <1>3, CallOpened
<1>10. Deltas(v.out) = Deltas(w.out) /\ UsageSent(v) = UsageSent(w)
  BY <1>1, <1>2, <1>3, DeltasAppend, UsagesAppend DEF UsageSent
<1> QED BY <1>7, <1>8, <1>9, <1>10 DEF v

LEMMA PlainFinish ==
    ASSUME NEW w, Plain(w), NEW x
    PROVE  LET v == Write("completions", w, Ev("finish", x))
           IN  /\ Plain(v) /\ v.next = w.next /\ v.finishSeen
               /\ UsageSent(v) = UsageSent(w) /\ Deltas(v.out) = Deltas(w.out)
               /\ CallsSeen(v.out) = CallsSeen(w.out)
<1> DEFINE v == Write("completions", w, Ev("finish", x))
           e == Event("end", w.cur, [Ending(w) EXCEPT !.finish = x])
<1>1. CASE w.finishSeen
  BY <1>1 DEF Write, WriteCompletions, Ev
<1>2. CASE ~w.finishSeen
  <2>1. /\ DOMAIN w = Fields /\ IsSeq(w.out) /\ EndIsLast(w.out) /\ Numbered(w.out)
        /\ (w.finishSeen <=> HasEnd(w.out)) /\ w.next = OpensIn(w.out)
        /\ ToolOpens(w.out) = Of(w.out, "open")
    BY DEF Plain, Numbered
  <2>2. Only({"finishSeen", "out"}, v, w) /\ v.finishSeen /\ v.out = Append(w.out, e)
    <3> DEFINE y == [Ending(w) EXCEPT !.finish = x]
               u == [w EXCEPT !.finishSeen = TRUE]
    <3>1. v = Put(u, "end", y)
      BY <1>2 DEF Write, WriteCompletions, Ev
    <3>2. Only({"finishSeen"}, u, w) /\ u.finishSeen /\ DOMAIN u = Fields
      BY <2>1 DEF Only, Fields
    <3> HIDE DEF u, y, v
    <3>3. Only({"out"}, v, u) /\ v.out = Append(u.out, Event("end", u.cur, y))
      BY <3>1, <3>2, PutEffect
    <3>4. u.cur = w.cur /\ u.out = w.out
      BY <3>2 DEF Only, Fields
    <3> QED BY <3>2, <3>3, <3>4 DEF Only, Fields, y
  <2>3. e.type = "end"
    BY DEF Event
  <2> HIDE DEF v, e
  <2>4. EndIsLast(v.out) /\ HasEnd(v.out)
    BY <1>2, <2>1, <2>2, <2>3, EndIsLastAppend
  <2>5. Numbered(v.out)
    BY <2>1, <2>2, <2>3, NumberedAppend
  <2>6. OpensIn(v.out) = OpensIn(w.out) /\ ToolOpens(v.out) = ToolOpens(w.out)
        /\ Of(v.out, "open") = Of(w.out, "open") /\ IsSeq(v.out)
    BY <2>1, <2>2, <2>3, OpensAppend, ToolOpensAppend, OfAppend, Appended
  <2>7. DOMAIN v = Fields /\ v.ended = w.ended /\ v.next = w.next /\ v.cur = w.cur
    BY <2>2 DEF Only, Fields
  <2>8. Plain(v)
    BY <2>1, <2>2, <2>4, <2>5, <2>6, <2>7 DEF Plain
  <2>9. /\ Deltas(v.out) = Deltas(w.out) /\ UsageSent(v) = UsageSent(w)
        /\ CallsSeen(v.out) = CallsSeen(w.out)
    BY <2>1, <2>2, <2>3, DeltasAppend, UsagesAppend, CallsSame DEF UsageSent
  <2> QED BY <2>2, <2>7, <2>8, <2>9 DEF v
<1> QED BY <1>1, <1>2

LEMMA PlainUsage ==
    ASSUME NEW w, Plain(w), NEW x
    PROVE  LET v == Write("completions", w, Ev("usage", x))
           IN  /\ Plain(v) /\ v.next = w.next /\ v.finishSeen = w.finishSeen
               /\ UsageSent(v) = Append(UsageSent(w), x)
               /\ Deltas(v.out) = Deltas(w.out) /\ CallsSeen(v.out) = CallsSeen(w.out)
<1> DEFINE v == Put(w, "usage", x)
           e == Event("usage", w.cur, x)
<1>1. Write("completions", w, Ev("usage", x)) = v
  BY DEF Write, WriteCompletions, Ev
<1>2. e.type = "usage" /\ e.x = x
  BY DEF Event
<1>3. /\ Plain(v) /\ v.next = w.next /\ v.finishSeen = w.finishSeen /\ IsSeq(w.out)
      /\ v.out = Append(w.out, e)
  <2>1. IsSeq(w.out)
    BY DEF Plain
  <2> QED BY <2>1, PlainPut
<1> HIDE DEF v, e
<1>4. Deltas(v.out) = Deltas(w.out) /\ CallsSeen(v.out) = CallsSeen(w.out)
  BY <1>2, <1>3, DeltasAppend, CallsSame
<1>5. UsageSent(v) = Append(UsageSent(w), x)
  BY <1>2, <1>3, UsagesAppend DEF UsageSent
<1> QED BY <1>1, <1>3, <1>4, <1>5

LEMMA PlainError ==
    ASSUME NEW w, Plain(w)
    PROVE  LET v == Write("completions", w, Ev("error", 0))
           IN  /\ Plain(v) /\ v.next = w.next /\ v.finishSeen = w.finishSeen
               /\ UsageSent(v) = UsageSent(w)
               /\ Deltas(v.out) = Deltas(w.out) /\ CallsSeen(v.out) = CallsSeen(w.out)
<1> DEFINE v == Put(w, "error", 0)
           e == Event("error", w.cur, 0)
<1>1. Write("completions", w, Ev("error", 0)) = v
  BY DEF Write, WriteCompletions, Ev
<1>2. e.type = "error"
  BY DEF Event
<1>3. /\ Plain(v) /\ v.next = w.next /\ v.finishSeen = w.finishSeen /\ IsSeq(w.out)
      /\ v.out = Append(w.out, e)
  <2>1. IsSeq(w.out)
    BY DEF Plain
  <2> QED BY <2>1, PlainPut
<1> HIDE DEF v, e
<1>4. /\ Deltas(v.out) = Deltas(w.out) /\ CallsSeen(v.out) = CallsSeen(w.out)
      /\ UsageSent(v) = UsageSent(w)
  BY <1>2, <1>3, DeltasAppend, CallsSame, UsagesAppend DEF UsageSent
<1> QED BY <1>1, <1>3, <1>4

-----------------------------------------------------------------------------
(* The items a client of Responses is given as a whole *)

\* Item k says what the events about block k said
Repeats(o, item, k) ==
    /\ item.kind = Of(o, "open")[k].x.kind /\ item.id = Of(o, "open")[k].x.id
    /\ item.content = Contents(o, k - 1)

\* The items repeat the blocks closed so far, if the upstream is tidy; the end has them all
Whole(w) ==
    /\ IsSeq(w.items)
    /\ Tidy => /\ Len(w.items) = IF w.block = NoBlock THEN w.next ELSE w.next - 1
               /\ \A k \in 1 .. Len(w.items) : Repeats(w.out, w.items[k], k)
               /\ w.block # NoBlock => w.accum = Contents(w.out, w.cur)
    /\ \A j \in DOMAIN Of(w.out, "end") : Of(w.out, "end")[j].x.items = w.items

\* What one more event changes of an item: nothing, if it is not a delta of its block
LEMMA RepeatsAppend ==
    ASSUME NEW o, IsSeq(o), Numbered(o), NEW e, NEW item, NEW k \in 1 .. OpensIn(o),
           Repeats(o, item, k), e.type = "delta" => e.i # k - 1
    PROVE  Repeats(Append(o, e), item, k)
<1> DEFINE t == Append(o, e)
           opens == Of(o, "open")
<1>1. Contents(t, k - 1) = Contents(o, k - 1)
  BY ContentsAppend
<1>2. Of(t, "open")[k] = opens[k]
  <2>1. IsSeq(opens) /\ Len(opens) = OpensIn(o)
    BY EventsAreSeq DEF Numbered
  <2>2. Append(opens, e)[k] = opens[k]
    BY <2>1, Appended
  <2>3. Of(t, "open") = Append(opens, e) \/ Of(t, "open") = opens
    BY OfAppend
  <2> QED BY <2>2, <2>3
<1> HIDE DEF t, opens
<1>3. Repeats(t, item, k)
  BY <1>1, <1>2 DEF Repeats, opens
<1> QED BY <1>3 DEF t

\* Fields that say nothing of the items
LEMMA WholeSet ==
    ASSUME NEW w, Whole(w), NEW v,
           Only({"started", "finish", "usage", "beforeTool", "followUp", "finishSeen"}, v, w)
    PROVE  Whole(v)
<1>1. /\ v.items = w.items /\ v.block = w.block /\ v.next = w.next /\ v.out = w.out
      /\ v.accum = w.accum /\ v.cur = w.cur
  BY DEF Only, Fields
<1> QED BY <1>1 DEF Whole

\* An event that is about no block
LEMMA WholeOther ==
    ASSUME NEW w, Sound(w), Whole(w), NEW v, NEW type, NEW x, Only({"started", "out"}, v, w),
           v.out = Append(w.out, Event(type, w.cur, x)), type \in {"start", "error"}
    PROVE  Whole(v)
<1> DEFINE e == Event(type, w.cur, x)
<1>1. e.type = type /\ e.type # "delta" /\ e.type # "end"
  BY DEF Event
<1>2. /\ IsSeq(w.out) /\ Numbered(w.out) /\ OpensIn(w.out) \in Nat /\ w.next = OpensIn(w.out)
      /\ w.block # NoBlock => w.next >= 1
  BY DEF Sound, InBlock, Numbered
<1>3. v.out = Append(w.out, e)
  OBVIOUS
<1> HIDE DEF e
<1>4. /\ v.items = w.items /\ v.block = w.block /\ v.next = w.next
      /\ v.accum = w.accum /\ v.cur = w.cur
  BY DEF Only, Fields
<1>5. Tidy => Len(w.items) \in Nat /\ Len(w.items) <= OpensIn(w.out)
  BY <1>2 DEF Whole
<1>6. Tidy => \A k \in 1 .. Len(w.items) : k \in 1 .. OpensIn(w.out)
  BY <1>2, <1>5
<1>7. Tidy => \A k \in 1 .. Len(w.items) : Repeats(v.out, w.items[k], k)
  BY <1>1, <1>2, <1>3, <1>6, RepeatsAppend DEF Whole
<1>8. Contents(v.out, w.cur) = Contents(w.out, w.cur) /\ Of(v.out, "end") = Of(w.out, "end")
  BY <1>1, <1>2, <1>3, ContentsAppend, OfAppend
<1> QED BY <1>4, <1>7, <1>8 DEF Whole

LEMMA WholeStart ==
    ASSUME NEW w, Sound(w), Whole(w)
    PROVE  Whole(Start(w))
<1> DEFINE v == Start(w)
<1>1. CASE w.started
  BY <1>1 DEF Start
<1>2. CASE ~w.started
  <2>1. Only({"started", "out"}, v, w) /\ v.out = Append(w.out, Event("start", w.cur, 0))
    BY <1>2, StartEffect DEF Sound
  <2> HIDE DEF v
  <2> QED BY <2>1, WholeOther DEF v
<1> QED BY <1>1, <1>2

\* A block is closed: its item says what was gathered since it was opened
LEMMA WholeClose ==
    ASSUME NEW w, Sound(w), Whole(w)
    PROVE  Whole(EndItem(w))
<1> DEFINE v == EndItem(w)
           e == Event("close", w.cur, Item(w))
           m == Len(w.items)
<1>1. CASE w.block = NoBlock
  BY <1>1 DEF EndItem
<1>2. CASE w.block # NoBlock
  <2>1. /\ Only({"block", "cur", "items", "out"}, v, w) /\ v.block = NoBlock
        /\ v.items = Append(w.items, Item(w)) /\ v.out = Append(w.out, e)
    BY <1>2, EndItemEffect DEF Sound
  <2>2. e.type = "close"
    BY DEF Event
  <2>3. Item(w).kind = w.block /\ Item(w).id = w.id /\ Item(w).content = w.accum
    BY DEF Item
  <2>4. /\ IsSeq(w.out) /\ Numbered(w.out) /\ OpensIn(w.out) \in Nat /\ w.next = OpensIn(w.out)
        /\ w.next >= 1 /\ w.cur = w.next - 1 /\ w.block \in Blocks
        /\ Of(w.out, "open")[w.next].x = [kind |-> w.block, id |-> w.id]
    BY <1>2 DEF Sound, InBlock, Numbered
  <2>5. ~HasEnd(w.out) /\ Of(w.out, "end") = <<>>
    BY <1>2 DEF Sound, EndIsLast
  <2> HIDE DEF v, e
  <2>6. /\ IsSeq(v.items) /\ Len(v.items) = m + 1 /\ m \in Nat /\ (Tidy => m + 1 = w.next)
        /\ (\A k \in 1 .. m : v.items[k] = w.items[k]) /\ v.items[m + 1] = Item(w)
    BY <1>2, <2>1, <2>4, Appended DEF Whole
  <2>7. v.next = w.next
    BY <2>1 DEF Only, Fields
  <2>8. Tidy => \A k \in 1 .. m : k \in 1 .. OpensIn(w.out)
    BY <2>4, <2>6
  <2>9. Tidy => \A k \in 1 .. m : Repeats(v.out, v.items[k], k)
    BY <2>1, <2>2, <2>4, <2>6, <2>8, RepeatsAppend DEF Whole
  <2>10. Tidy => Repeats(w.out, Item(w), m + 1)
    <3>1. Tidy => m + 1 - 1 = w.cur
      BY <2>4, <2>6
    <3>2. Tidy => w.accum = Contents(w.out, w.cur)
      BY <1>2 DEF Whole
    <3> QED BY <2>3, <2>4, <2>6, <3>1, <3>2 DEF Repeats
  <2>11. Tidy => Repeats(v.out, v.items[m + 1], m + 1)
    BY <2>1, <2>2, <2>4, <2>6, <2>10, RepeatsAppend
  <2>12. \A k \in 1 .. m + 1 : k \in 1 .. m \/ k = m + 1
    BY <2>6
  <2>13. Of(v.out, "end") = <<>>
    BY <2>1, <2>2, <2>4, <2>5, OfAppend
  <2>14. DOMAIN Of(v.out, "end") = {}
    BY <2>13, EmptyIsSeq
  <2> HIDE DEF m
  <2>15. Whole(v)
    BY <2>1, <2>6, <2>7, <2>9, <2>11, <2>12, <2>14 DEF Whole
  <2> QED BY <2>15 DEF v
<1> QED BY <1>1, <1>2

LEMMA WholeOpen ==
    ASSUME NEW w, Sound(w), Whole(w), NEW b \in Blocks, NEW id, Tidy => w.block = NoBlock, ~Closed(w)
    PROVE  Whole(Open(w, b, id))
<1> DEFINE v == Open(w, b, id)
           e == Event("open", w.next, [kind |-> b, id |-> id])
           n == w.next
<1>1. /\ Only({"block", "cur", "next", "id", "accum", "beforeTool", "out"}, v, w)
      /\ v.block = b /\ v.cur = n /\ v.next = n + 1 /\ v.accum = <<>>
      /\ v.out = Append(w.out, e)
  BY OpenEffect DEF Sound
<1>2. e.type = "open"
  BY DEF Event
<1>3. /\ IsSeq(w.out) /\ Numbered(w.out) /\ n \in Nat /\ n = OpensIn(w.out)
      /\ \A j \in DOMAIN w.out : w.out[j].type = "delta" => w.out[j].i \in 0 .. n - 1
  BY DEF Sound, InBlock, Numbered
<1>4. Of(w.out, "end") = <<>>
  BY DEF Sound, EndIsLast, Closed
<1>5. b # NoBlock
  BY DEF Blocks, NoBlock
<1> HIDE DEF v, e
<1>6. v.items = w.items
  BY <1>1 DEF Only, Fields
<1>7. /\ IsSeq(w.items)
      /\ Tidy => Len(w.items) = n /\ \A k \in 1 .. n : Repeats(w.out, w.items[k], k)
  BY DEF Whole
<1> HIDE DEF n
<1>8. Tidy => \A k \in 1 .. n : Repeats(v.out, w.items[k], k)
  BY <1>1, <1>2, <1>3, <1>7, RepeatsAppend
<1>9. Contents(v.out, n) = <<>>
  <2>1. Contents(w.out, n) = <<>>
    BY <1>3, FreshContents
  <2> QED BY <1>1, <1>2, <1>3, <2>1, ContentsAppend
<1>10. DOMAIN Of(v.out, "end") = {}
  BY <1>1, <1>2, <1>3, <1>4, OfAppend, EmptyIsSeq
<1>11. n + 1 - 1 = n
  BY <1>3
<1>12. Whole(v)
  BY <1>1, <1>5, <1>6, <1>7, <1>8, <1>9, <1>10, <1>11 DEF Whole
<1> QED BY <1>12 DEF v

LEMMA WholeDelta ==
    ASSUME NEW w, Sound(w), Whole(w), NEW b \in Blocks, NEW x, w.block = b
    PROVE  Whole(Delta(w, b, x))
<1> DEFINE v == Delta(w, b, x)
           e == Event("delta", w.cur, [kind |-> b, x |-> x])
<1>1. /\ Only({"accum", "out"}, v, w) /\ v.accum = Append(w.accum, x)
      /\ v.out = Append(w.out, e)
  BY DeltaEffect DEF Sound
<1>2. e.type = "delta" /\ e.i = w.cur /\ e.x.x = x
  BY DEF Event
<1>3. w.block # NoBlock
  BY DEF Blocks, NoBlock
<1>4. /\ IsSeq(w.out) /\ Numbered(w.out) /\ OpensIn(w.out) \in Nat /\ w.next = OpensIn(w.out)
      /\ w.next >= 1 /\ w.cur = w.next - 1
  BY <1>3 DEF Sound, InBlock, Numbered
<1>5. Of(w.out, "end") = <<>>
  BY <1>3 DEF Sound, EndIsLast
<1> HIDE DEF v, e
<1>6. v.items = w.items /\ v.block = w.block /\ v.next = w.next /\ v.cur = w.cur
  BY <1>1 DEF Only, Fields
<1>7. Tidy => Len(w.items) = w.next - 1 /\ \A k \in 1 .. Len(w.items) : Repeats(w.out, w.items[k], k)
  BY <1>3 DEF Whole
<1>8. \A k \in 1 .. w.next - 1 : k \in 1 .. OpensIn(w.out) /\ w.cur # k - 1
  BY <1>4
<1>9. Tidy => \A k \in 1 .. Len(w.items) : Repeats(v.out, w.items[k], k)
  BY <1>1, <1>2, <1>4, <1>7, <1>8, RepeatsAppend
<1>10. Contents(v.out, w.cur) = Append(Contents(w.out, w.cur), x)
  BY <1>1, <1>2, <1>4, ContentsAppend
<1>11. /\ IsSeq(w.items)
       /\ Tidy => w.accum = Contents(w.out, w.cur)
  BY <1>3 DEF Whole
<1>12. DOMAIN Of(v.out, "end") = {}
  BY <1>1, <1>2, <1>4, <1>5, OfAppend, EmptyIsSeq
<1>13. Whole(v)
  BY <1>1, <1>6, <1>9, <1>10, <1>11, <1>12 DEF Whole
<1> QED BY <1>13 DEF v

LEMMA WholeEmit ==
    ASSUME NEW w, Sound(w), Whole(w), w.block = NoBlock
    PROVE  Whole(EmitCompleted(w))
<1> DEFINE v == EmitCompleted(w)
           e == Event("end", w.cur, Ending(w))
<1>1. CASE w.ended
  BY <1>1 DEF EmitCompleted
<1>2. CASE ~w.ended
  <2>1. /\ Only({"ended", "usage", "out"}, v, w) /\ v.out = Append(w.out, e)
    BY <1>2, EmitEffect DEF Sound
  <2>2. e.type = "end" /\ e.x.items = w.items
    BY DEF Event, Ending
  <2>3. /\ IsSeq(w.out) /\ Numbered(w.out) /\ OpensIn(w.out) \in Nat /\ w.next = OpensIn(w.out)
    BY DEF Sound, InBlock, Numbered
  <2>4. Of(w.out, "end") = <<>>
    BY <1>2 DEF Sound, EndIsLast
  <2> HIDE DEF v, e
  <2>5. v.items = w.items /\ v.block = w.block /\ v.next = w.next
    BY <2>1 DEF Only, Fields
  <2>6. Tidy => Len(w.items) = OpensIn(w.out)
    BY <2>3 DEF Whole
  <2>7. Tidy => \A k \in 1 .. Len(w.items) : Repeats(v.out, w.items[k], k)
    BY <2>1, <2>2, <2>3, <2>6, RepeatsAppend DEF Whole
  <2>8. Of(v.out, "end") = Append(<<>>, e)
    <3>1. Of(v.out, "end") = Append(Of(w.out, "end"), e)
      BY <2>1, <2>2, <2>3, OfAppend
    <3> QED BY <2>4, <3>1
  <2>9. \A j \in DOMAIN Of(v.out, "end") : Of(v.out, "end")[j] = e
    BY <2>8
  <2>10. Whole(v)
    BY <2>2, <2>5, <2>7, <2>9 DEF Whole
  <2> QED BY <2>10 DEF v
<1> QED BY <1>1, <1>2

\* What an event needs to be in its place
Placed(w, ev) ==
    /\ ev.kind \in {"start", "reasoning", "text", "tool_start", "tool_args"} => ~Closed(w)
    /\ ev.kind = "start" => ev.x \in {"reasoning", "text"} /\ (Tidy => ev.x # w.block)

\* A delta is written to the block it is of, which is opened for it if need be
LEMMA WholeItemDelta ==
    ASSUME NEW w, Sound(w), Whole(w), ~Closed(w), NEW b \in Blocks, NEW x
    PROVE  Whole(ItemDelta(w, b, x))
<1> DEFINE c == EndItem(w)
           u == IF w.block = b THEN w ELSE Open(c, b, NoId)
<1>1. Sound(c) /\ SameFlags(c, w) /\ c.block = NoBlock /\ Whole(c)
  BY CloseQuiet, WholeClose
<1>2. ~Closed(c)
  BY <1>1 DEF Closed, SameFlags
<1> HIDE DEF c
<1>3. CASE w.block = b
  BY <1>3, WholeDelta DEF ItemDelta
<1>4. CASE w.block # b
  <2>1. Sound(Open(c, b, NoId)) /\ Open(c, b, NoId).block = b
    BY <1>1, <1>2, OpenHeard
  <2>2. Whole(Open(c, b, NoId))
    BY <1>1, <1>2, WholeOpen
  <2>3. Whole(Delta(Open(c, b, NoId), b, x))
    BY <2>1, <2>2, WholeDelta
  <2> QED BY <1>4, <2>3 DEF ItemDelta, c
<1> QED BY <1>3, <1>4

LEMMA WholeAsk ==
    ASSUME NEW w, Sound(w), Whole(w), NEW when
    PROVE  Whole(AskFollowUp(w, when))
<1> DEFINE v == AskFollowUp(w, when)
<1>1. DOMAIN w = Fields
  BY DEF Sound
<1>2. Only({"started", "finish", "usage", "beforeTool", "followUp", "finishSeen"}, v, w)
  BY <1>1 DEF AskFollowUp, Only, Fields
<1> HIDE DEF v
<1>3. Whole(v)
  BY <1>2, WholeSet
<1> QED BY <1>3 DEF v

LEMMA WholeFinish ==
    ASSUME NEW w, Sound(w), Whole(w), NEW x
    PROVE  Whole(WriteResponses(w, Ev("finish", x)))
<1> DEFINE s == Start(w)
           a == AskFollowUp(s, x = "stop")
           c == EndItem(a)
           f == [c EXCEPT !.finishSeen = TRUE]
           v == WriteResponses(w, Ev("finish", x))
<1>1. v = IF f.usage # <<>> THEN EmitCompleted(f) ELSE f
  BY DEF WriteResponses, Ev
<1>2. Sound(s) /\ Whole(s)
  BY StartQuiet, WholeStart
<1> HIDE DEF v, s
<1>3. Sound(a) /\ Whole(a)
  BY <1>2, AskQuiet, WholeAsk
<1> HIDE DEF a
<1>4. Sound(c) /\ Whole(c) /\ c.block = NoBlock
  BY <1>3, CloseQuiet, WholeClose
<1> HIDE DEF c
<1>5. Sound(f) /\ f.block = NoBlock
  BY <1>4, FinishSet
<1>6. Only({"started", "finish", "usage", "beforeTool", "followUp", "finishSeen"}, f, c)
  <2>1. DOMAIN c = Fields
    BY <1>4 DEF Sound
  <2> QED BY <2>1 DEF Only, Fields
<1> HIDE DEF f
<1>7. Whole(f)
  BY <1>4, <1>6, WholeSet
<1>8. Whole(EmitCompleted(f))
  BY <1>5, <1>7, WholeEmit
<1>9. Whole(v)
  BY <1>1, <1>7, <1>8
<1> QED BY <1>9 DEF v

LEMMA WholeUsage ==
    ASSUME NEW w, Sound(w), Whole(w), NEW x
    PROVE  Whole(WriteResponses(w, Ev("usage", x)))
<1> DEFINE s == Start(w)
           a == [s EXCEPT !.usage = <<x>>]
           v == WriteResponses(w, Ev("usage", x))
<1>1. v = IF a.finishSeen THEN EmitCompleted(a) ELSE a
  BY DEF WriteResponses, Ev
<1>2. Sound(s) /\ Whole(s)
  BY StartQuiet, WholeStart
<1> HIDE DEF v, s
<1>3. Only({"usage"}, a, s)
  <2>1. DOMAIN s = Fields
    BY <1>2 DEF Sound
  <2> QED BY <2>1 DEF Only, Fields
<1> HIDE DEF a
<1>4. /\ Only({"started", "finish", "usage", "beforeTool", "followUp", "finishSeen"}, a, s)
      /\ Only({"started", "accum", "items", "finish", "usage", "beforeTool", "followUp",
               "finishSeen"}, a, s)
      /\ a.finishSeen = s.finishSeen
  BY <1>3 DEF Only, Fields
<1>5. Sound(a) /\ Whole(a)
  BY <1>2, <1>4, SoundSet, WholeSet
<1>6. a.finishSeen => Whole(EmitCompleted(a))
  BY <1>5, WholeEmit DEF Sound
<1>7. Whole(v)
  BY <1>1, <1>5, <1>6
<1> QED BY <1>7 DEF v

LEMMA WholeDone ==
    ASSUME NEW w, Sound(w), Whole(w)
    PROVE  Whole(WriteResponses(w, Ev("done", 0)))
<1> DEFINE s == Start(w)
           a == AskFollowUp(s, TRUE)
           c == EndItem(a)
<1>1. WriteResponses(w, Ev("done", 0)) = EmitCompleted(c)
  BY DEF WriteResponses, Ev
<1>2. Sound(s) /\ Whole(s)
  BY StartQuiet, WholeStart
<1> HIDE DEF s
<1>3. Sound(a) /\ Whole(a)
  BY <1>2, AskQuiet, WholeAsk
<1> HIDE DEF a
<1>4. Sound(c) /\ Whole(c) /\ c.block = NoBlock
  BY <1>3, CloseQuiet, WholeClose
<1> HIDE DEF c
<1> QED BY <1>1, <1>4, WholeEmit

LEMMA WholeToolStart ==
    ASSUME NEW w, Sound(w), Whole(w), ~Closed(w), NEW id
    PROVE  Whole(WriteResponses(w, Ev("tool_start", id)))
<1> DEFINE s == Start(w)
           a == [s EXCEPT !.beforeTool = @ \/ s.block = "text"]
           c == EndItem(a)
<1>1. WriteResponses(w, Ev("tool_start", id)) = Open(c, "tool", id)
  BY DEF WriteResponses, Ev
<1>2. Sound(s) /\ Whole(s) /\ ~Closed(s)
  BY StartQuiet, WholeStart DEF SameFlags, Closed
<1> HIDE DEF s
<1>3. Only({"beforeTool"}, a, s)
  <2>1. DOMAIN s = Fields
    BY <1>2 DEF Sound
  <2> QED BY <2>1 DEF Only, Fields
<1> HIDE DEF a
<1>4. /\ Only({"started", "finish", "usage", "beforeTool", "followUp", "finishSeen"}, a, s)
      /\ Only({"finish", "beforeTool", "followUp"}, a, s)
  BY <1>3 DEF Only, Fields
<1>5. Sound(a) /\ Whole(a) /\ ~Closed(a)
  BY <1>2, <1>4, FieldsSet, WholeSet DEF SameFlags, Closed
<1>6. Sound(c) /\ Whole(c) /\ c.block = NoBlock /\ ~Closed(c)
  BY <1>5, CloseQuiet, WholeClose DEF SameFlags, Closed
<1> HIDE DEF c
<1>7. PICK b \in Blocks : b = "tool"
  BY DEF Blocks
<1>8. Whole(Open(c, b, id))
  BY <1>6, WholeOpen
<1> QED BY <1>1, <1>7, <1>8

\* Every event keeps the items whole
LEMMA WholeWrite ==
    ASSUME NEW w, Sound(w), Whole(w), NEW kind, NEW x, Placed(w, Ev(kind, x)),
           kind \in {"start", "reasoning", "text", "tool_start", "tool_args", "end_block", "finish",
                     "usage", "done", "error"},
           kind \in {"done", "error"} => x = 0
    PROVE  Whole(Write("responses", w, Ev(kind, x)))
<1> DEFINE s == Start(w)
           v == WriteResponses(w, Ev(kind, x))
<1>1. Write("responses", w, Ev(kind, x)) = v
  BY DEF Write
<1>2. Sound(s) /\ Whole(s) /\ SameFlags(s, w) /\ s.block = w.block
  BY StartQuiet, WholeStart
<1>3. Ev(kind, x).kind = kind /\ Ev(kind, x).x = x
  BY DEF Ev
<1> HIDE DEF s
<1>4. CASE kind = "start"
  <2>1. v = Open(EndItem(s), x, NoId) \/ (~Tidy /\ v = Open(s, x, NoId))
    BY <1>2, <1>3, <1>4 DEF WriteResponses, s, Placed
  <2>2. ~Closed(s) /\ x \in Blocks
    BY <1>2, <1>3, <1>4 DEF Placed, Closed, SameFlags, Blocks
  <2>3. Sound(EndItem(s)) /\ Whole(EndItem(s)) /\ EndItem(s).block = NoBlock /\ ~Closed(EndItem(s))
    BY <1>2, <2>2, CloseQuiet, WholeClose DEF SameFlags, Closed
  <2>4. Whole(Open(EndItem(s), x, NoId))
    BY <2>2, <2>3, WholeOpen
  <2>5. ~Tidy => Whole(Open(s, x, NoId))
    BY <1>2, <2>2, WholeOpen
  <2> QED BY <1>1, <2>1, <2>4, <2>5
<1>5. CASE kind \in {"reasoning", "text", "tool_args"}
  <2> DEFINE b == IF kind = "tool_args" THEN "tool" ELSE kind
  <2>1. v = ItemDelta(s, b, x) /\ b \in Blocks
    BY <1>3, <1>5 DEF WriteResponses, s, Blocks
  <2>2. ~Closed(s)
    BY <1>2, <1>3, <1>5 DEF Placed, Closed, SameFlags
  <2> HIDE DEF b, v
  <2>3. Whole(ItemDelta(s, b, x))
    BY <1>2, <2>1, <2>2, WholeItemDelta
  <2> QED BY <1>1, <2>1, <2>3
<1>6. CASE kind = "tool_start"
  <2>1. ~Closed(w)
    BY <1>3, <1>6 DEF Placed
  <2> QED BY <1>1, <1>6, <2>1, WholeToolStart
<1>7. CASE kind = "end_block"
  <2>1. v = EndItem(s)
    BY <1>3, <1>7 DEF WriteResponses, s
  <2> QED BY <1>1, <1>2, <2>1, WholeClose
<1>8. CASE kind = "error"
  <2>1. v = Put(s, "error", 0)
    BY <1>3, <1>8 DEF WriteResponses, s
  <2>2. Only({"out"}, v, s) /\ v.out = Append(s.out, Event("error", s.cur, 0))
    BY <1>2, <2>1, PutEffect DEF Sound
  <2> HIDE DEF v
  <2>3. Only({"started", "out"}, v, s)
    BY <2>2 DEF Only
  <2>4. Whole(v)
    BY <1>2, <2>2, <2>3, WholeOther
  <2> QED BY <1>1, <2>4
<1>9. CASE kind = "finish"
  BY <1>1, <1>9, WholeFinish
<1>10. CASE kind = "usage"
  BY <1>1, <1>10, WholeUsage
<1>11. CASE kind = "done"
  BY <1>1, <1>11, WholeDone
<1> QED BY <1>4, <1>5, <1>6, <1>7, <1>8, <1>9, <1>10, <1>11

\* What the end of an answer repeats is what was streamed
Repeated(o) ==
    \A j \in DOMAIN Of(o, "end") :
        LET items == Of(o, "end")[j].x.items
            opens == Of(o, "open")
        IN  /\ Len(items) = Len(opens)
            /\ \A k \in DOMAIN items :
                  /\ items[k].kind = opens[k].x.kind /\ items[k].id = opens[k].x.id
                  /\ items[k].content = Contents(o, opens[k].i)

LEMMA WholeRepeated ==
    ASSUME Tidy, NEW w, Sound(w), Whole(w)
    PROVE  Repeated(w.out)
<1> DEFINE o == w.out
           opens == Of(o, "open")
           ends == Of(o, "end")
<1>1. /\ IsSeq(o) /\ OpensIn(o) \in Nat /\ Len(opens) = OpensIn(o) /\ w.next = OpensIn(o)
      /\ \A k \in 1 .. OpensIn(o) : opens[k].i = k - 1
  BY DEF Sound, InBlock, Numbered
<1>2. SUFFICES ASSUME NEW j \in DOMAIN ends
               PROVE  /\ Len(ends[j].x.items) = Len(opens)
                      /\ \A k \in DOMAIN ends[j].x.items :
                            /\ ends[j].x.items[k].kind = opens[k].x.kind
                            /\ ends[j].x.items[k].id = opens[k].x.id
                            /\ ends[j].x.items[k].content = Contents(o, opens[k].i)
  BY DEF Repeated
<1>3. w.block = NoBlock
  <2>1. ends # <<>>
    BY <1>2, EmptyIsSeq
  <2> QED BY <2>1 DEF Sound, EndIsLast
<1>4. ends[j].x.items = w.items
  BY <1>2 DEF Whole
<1> HIDE DEF o, opens, ends
<1>5. Len(w.items) = OpensIn(o) /\ DOMAIN w.items = 1 .. OpensIn(o)
  BY <1>1, <1>3, SeqLength DEF Whole
<1>6. ASSUME NEW k \in 1 .. OpensIn(o)
      PROVE  /\ w.items[k].kind = opens[k].x.kind /\ w.items[k].id = opens[k].x.id
             /\ w.items[k].content = Contents(o, opens[k].i)
  <2>1. Repeats(o, w.items[k], k)
    BY <1>5, <1>6 DEF Whole, o
  <2>2. opens[k].i = k - 1
    BY <1>1, <1>6
  <2> QED BY <2>1, <2>2 DEF Repeats, opens
<1> QED BY <1>1, <1>4, <1>5, <1>6

-----------------------------------------------------------------------------
(* The phase of the texts a client of Responses is given, for events in the order a Chat *)
(* Completions upstream makes them                                                        *)

\* A text is a commentary exactly if a call follows it; of the last item, last decides
Phases(items, last) ==
    \A k \in 1 .. Len(items) :
        items[k].kind = "text" =>
            (items[k].commentary <=> IF k < Len(items) THEN items[k + 1].kind = "tool" ELSE last)

\* The client may be asked to go on: the last item is a text that reads as unfinished
MayAsk(rescue, items) ==
    /\ Len(items) > 0 /\ rescue /\ items[Len(items)].kind = "text"
    /\ items[Len(items)].content[Len(items[Len(items)].content)].prelude

\* So far, and if the answer ended now
Phased(w) ==
    /\ w.followUp \in BOOLEAN
    /\ Phases(w.items, IF w.block = NoBlock THEN w.followUp ELSE w.block = "tool")
    /\ w.block # NoBlock => ~w.followUp
    /\ w.block = "text" => ~w.beforeTool
    /\ w.followUp => MayAsk(w.rescue, w.items)
    /\ \A j \in DOMAIN Of(w.out, "end") : Of(w.out, "end")[j].x.followUp = w.followUp

\* Between two events: nothing but the finish closes a block for good
Underway(w) == Phased(w) /\ (w.block = NoBlock => Closed(w) \/ w.items = <<>>)

LEMMA PhasesMore ==
    ASSUME NEW items, IsSeq(items), NEW item, NEW last,
           Phases(items, item.kind = "tool"), item.kind = "text" => (item.commentary <=> last)
    PROVE  Phases(Append(items, item), last)
<1> DEFINE t == Append(items, item)
           m == Len(items)
<1>1. m \in Nat /\ Len(t) = m + 1 /\ (\A k \in 1 .. m : t[k] = items[k]) /\ t[m + 1] = item
  BY Appended
<1> HIDE DEF t, m
<1>2. ASSUME NEW k \in 1 .. m + 1, t[k].kind = "text"
      PROVE  t[k].commentary <=> IF k < m + 1 THEN t[k + 1].kind = "tool" ELSE last
  <2>1. CASE k = m + 1
    BY <1>1, <1>2, <2>1
  <2>2. CASE k \in 1 .. m /\ k < m
    <3>1. k + 1 \in 1 .. m
      BY <1>1, <2>2
    <3> QED BY <1>1, <1>2, <2>2, <3>1 DEF Phases, m
  <2>3. CASE k = m
    <3>1. k \in 1 .. m /\ ~(k < m) /\ k < m + 1
      BY <1>1, <1>2, <2>3
    <3>2. items[k].commentary <=> item.kind = "tool"
      BY <1>1, <1>2, <3>1 DEF Phases, m
    <3> QED BY <1>1, <2>3, <3>1, <3>2
  <2> QED BY <1>1, <2>1, <2>2, <2>3
<1> QED BY <1>1, <1>2 DEF Phases, t

\* The items and the phases of w are those of v
LEMMA PhasedSame ==
    ASSUME NEW w, Phased(w), NEW v, v.items = w.items, v.block = w.block,
           v.followUp = w.followUp, v.beforeTool = w.beforeTool, v.rescue = w.rescue,
           Of(v.out, "end") = Of(w.out, "end")
    PROVE  Phased(v)
BY DEF Phased

LEMMA UnderwayStart ==
    ASSUME NEW w, Sound(w), Underway(w)
    PROVE  Underway(Start(w))
<1> DEFINE v == Start(w)
<1>1. CASE w.started
  BY <1>1 DEF Start
<1>2. CASE ~w.started
  <2>1. Only({"started", "out"}, v, w) /\ v.out = Append(w.out, Event("start", w.cur, 0))
    BY <1>2, StartEffect DEF Sound
  <2>2. Event("start", w.cur, 0).type # "end" /\ IsSeq(w.out)
    BY DEF Event, Sound
  <2> HIDE DEF v
  <2>3. Of(v.out, "end") = Of(w.out, "end")
    BY <2>1, <2>2, OfAppend
  <2>4. /\ v.items = w.items /\ v.block = w.block /\ v.followUp = w.followUp
        /\ v.beforeTool = w.beforeTool /\ v.rescue = w.rescue
        /\ v.finishSeen = w.finishSeen /\ v.ended = w.ended
    BY <2>1 DEF Only, Fields
  <2>5. Phased(v)
    BY <2>3, <2>4, PhasedSame DEF Underway
  <2> QED BY <2>4, <2>5 DEF Underway, Closed, v
<1> QED BY <1>1, <1>2

LEMMA UnderwayDelta ==
    ASSUME NEW w, Sound(w), Underway(w), NEW b, NEW x, w.block # NoBlock
    PROVE  Underway(Delta(w, b, x)) /\ Delta(w, b, x).block = w.block
<1> DEFINE v == Delta(w, b, x)
           e == Event("delta", w.cur, [kind |-> b, x |-> x])
<1>1. Only({"accum", "out"}, v, w) /\ v.out = Append(w.out, e)
  BY DeltaEffect DEF Sound
<1>2. e.type # "end" /\ IsSeq(w.out)
  BY DEF Event, Sound
<1> HIDE DEF v, e
<1>3. Of(v.out, "end") = Of(w.out, "end")
  BY <1>1, <1>2, OfAppend
<1>4. /\ v.items = w.items /\ v.block = w.block /\ v.followUp = w.followUp
      /\ v.beforeTool = w.beforeTool /\ v.rescue = w.rescue
  BY <1>1 DEF Only, Fields
<1>5. Phased(v)
  BY <1>3, <1>4, PhasedSame DEF Underway
<1>6. Underway(v) /\ v.block = w.block
  BY <1>4, <1>5 DEF Underway
<1> QED BY <1>6 DEF v

\* A block is followed by one of kind b: a text is a commentary if that is a call
LEMMA UnderwayOpen ==
    ASSUME NEW w, Sound(w), Whole(w), Underway(w), ~Closed(w), NEW b \in Blocks, NEW id, NEW a,
           Only({"beforeTool"}, a, w), a.beforeTool <=> w.beforeTool \/ (b = "tool" /\ w.block = "text")
    PROVE  LET v == Open(EndItem(a), b, id)
           IN  Underway(v) /\ v.block = b
<1> DEFINE c == EndItem(a)
           v == Open(c, b, id)
<1>1. /\ DOMAIN a = Fields /\ a.block = w.block /\ a.items = w.items /\ a.followUp = w.followUp
      /\ a.rescue = w.rescue /\ a.out = w.out
  BY DEF Only, Fields
<1>2. IsSeq(w.out) /\ Of(w.out, "end") = <<>> /\ IsSeq(w.items)
  BY DEF Sound, EndIsLast, Closed, Whole
<1>3. /\ w.followUp \in BOOLEAN
      /\ Phases(w.items, IF w.block = NoBlock THEN w.followUp ELSE w.block = "tool")
      /\ w.block # NoBlock => ~w.followUp
      /\ w.block = "text" => ~w.beforeTool
      /\ w.block = NoBlock => w.items = <<>>
      /\ w.followUp => MayAsk(w.rescue, w.items)
  BY DEF Underway, Phased
<1>4. ~w.followUp
  <2>1. w.items = <<>> => ~(Len(w.items) > 0)
    BY EmptyIsSeq
  <2> QED BY <1>3, <2>1 DEF MayAsk
<1>5. /\ DOMAIN c = Fields /\ c.followUp = w.followUp /\ c.rescue = w.rescue
      /\ IsSeq(c.out) /\ Of(c.out, "end") = <<>>
      /\ Phases(c.items, b = "tool")
  <2>1. CASE w.block = NoBlock
    <3>1. c = a
      BY <1>1, <2>1 DEF EndItem
    <3>2. Phases(<<>>, b = "tool")
      <4>1. Len(<<>>) = 0
        BY EmptyIsSeq
      <4>2. 1 .. 0 = {}
        OBVIOUS
      <4> QED BY <4>1, <4>2 DEF Phases
    <3> QED BY <1>1, <1>2, <1>3, <2>1, <3>1, <3>2
  <2>2. CASE w.block # NoBlock
    <3> DEFINE e == Event("close", a.cur, Item(a))
    <3>1. /\ Only({"block", "cur", "items", "out"}, c, a)
          /\ c.items = Append(w.items, Item(a)) /\ c.out = Append(w.out, e)
      BY <1>1, <2>2, EndItemEffect
    <3>2. e.type = "close"
      BY DEF Event
    <3>3. Item(a).kind = w.block /\ (Item(a).commentary <=> w.block = "text" /\ (a.followUp \/ a.beforeTool))
      BY <1>1 DEF Item
    <3> HIDE DEF c, e
    <3>4. DOMAIN c = Fields /\ c.followUp = w.followUp /\ c.rescue = w.rescue
      BY <1>1, <3>1 DEF Only, Fields
    <3>5. IsSeq(c.out) /\ Of(c.out, "end") = <<>>
      BY <1>2, <3>1, <3>2, Appended, OfAppend
    <3>6. Item(a).kind = "text" => (Item(a).commentary <=> b = "tool")
      BY <1>1, <1>3, <1>4, <2>2, <3>3
    <3>7. Phases(w.items, Item(a).kind = "tool")
      BY <1>3, <2>2, <3>3
    <3>8. Phases(Append(w.items, Item(a)), b = "tool")
      BY <1>2, <3>6, <3>7, PhasesMore
    <3> QED BY <3>1, <3>4, <3>5, <3>8
  <2> QED BY <2>1, <2>2
<1> HIDE DEF c
<1> DEFINE f == Event("open", c.next, [kind |-> b, id |-> id])
<1>6. /\ Only({"block", "cur", "next", "id", "accum", "beforeTool", "out"}, v, c)
      /\ v.block = b /\ (b = "text" => ~v.beforeTool)
      /\ v.out = Append(c.out, f)
  BY <1>5, OpenEffect
<1>7. f.type = "open"
  BY DEF Event
<1> HIDE DEF v, f
<1>8. v.items = c.items /\ v.followUp = c.followUp /\ v.rescue = c.rescue
  BY <1>6 DEF Only, Fields
<1>9. DOMAIN Of(v.out, "end") = {}
  <2>1. Of(v.out, "end") = <<>>
    BY <1>5, <1>6, <1>7, OfAppend
  <2> QED BY <2>1, EmptyIsSeq
<1>10. b # NoBlock
  BY DEF Blocks, NoBlock
<1>11. Phased(v)
  BY <1>3, <1>4, <1>5, <1>6, <1>8, <1>9, <1>10 DEF Phased
<1>12. Underway(v) /\ v.block = b
  BY <1>6, <1>10, <1>11 DEF Underway
<1> QED BY <1>12 DEF v, c

\* The last block is closed, and the client perhaps asked to go on
LEMMA PhasedClose ==
    ASSUME NEW w, Sound(w), Whole(w), Phased(w), NEW when
    PROVE  LET v == EndItem(AskFollowUp(w, when))
           IN  Phased(v) /\ v.block = NoBlock
<1> DEFINE a == AskFollowUp(w, when)
           v == EndItem(a)
<1>1. DOMAIN w = Fields /\ IsSeq(w.out) /\ IsSeq(w.items)
  BY DEF Sound, Whole
<1>2. /\ Only({"followUp"}, a, w)
      /\ a.followUp \in BOOLEAN
      /\ a.followUp <=> w.followUp \/ (when /\ w.block = "text" /\ Unfinished(w))
  BY <1>1 DEF AskFollowUp, Only, Fields
<1>3. /\ DOMAIN a = Fields /\ a.block = w.block /\ a.items = w.items /\ a.beforeTool = w.beforeTool
      /\ a.rescue = w.rescue /\ a.out = w.out /\ a.accum = w.accum /\ a.cur = w.cur
  BY <1>2 DEF Only, Fields
<1> HIDE DEF a
<1>4. CASE w.block = NoBlock
  <2>1. v = a
    BY <1>3, <1>4 DEF EndItem
  <2>2. a.followUp = w.followUp
    <3>1. a.followUp <=> w.followUp
      BY <1>2, <1>4 DEF NoBlock
    <3> QED BY <1>2, <3>1 DEF Phased
  <2>3. Of(a.out, "end") = Of(w.out, "end")
    BY <1>3
  <2>4. Phased(a)
    BY <1>3, <2>2, <2>3, PhasedSame
  <2> QED BY <1>3, <1>4, <2>1, <2>4 DEF a
<1>5. CASE w.block # NoBlock
  <2> DEFINE e == Event("close", w.cur, Item(a))
             m == Len(w.items)
  <2>1. /\ Only({"block", "cur", "items", "out"}, v, a) /\ v.block = NoBlock
        /\ v.items = Append(w.items, Item(a)) /\ v.out = Append(w.out, e)
    BY <1>3, <1>5, EndItemEffect
  <2>2. e.type = "close"
    BY DEF Event
  <2>3. /\ Item(a).kind = w.block /\ Item(a).content = w.accum
        /\ Item(a).commentary <=> w.block = "text" /\ (a.followUp \/ a.beforeTool)
    BY <1>3 DEF Item
  <2>4. /\ Phases(w.items, w.block = "tool") /\ ~w.followUp
        /\ w.block = "text" => ~w.beforeTool
    BY <1>5 DEF Phased
  <2>5. Of(w.out, "end") = <<>>
    BY <1>5 DEF Sound, EndIsLast
  <2> HIDE DEF v, e
  <2>6. v.followUp = a.followUp /\ v.rescue = w.rescue
    BY <1>3, <2>1 DEF Only, Fields
  <2>7. Phases(v.items, v.followUp)
    <3>1. Item(a).kind = "text" => (Item(a).commentary <=> a.followUp)
      BY <1>3, <2>3, <2>4
    <3>2. Phases(w.items, Item(a).kind = "tool")
      BY <2>3, <2>4
    <3> QED BY <1>1, <2>1, <2>6, <3>1, <3>2, PhasesMore
  <2>8. v.followUp => MayAsk(v.rescue, v.items)
    <3>1. SUFFICES ASSUME v.followUp PROVE MayAsk(v.rescue, v.items)
      OBVIOUS
    <3>2. w.block = "text" /\ w.rescue /\ w.accum[Len(w.accum)].prelude
      BY <1>2, <2>4, <2>6, <3>1 DEF Unfinished
    <3>3. m \in Nat /\ Len(v.items) = m + 1 /\ v.items[m + 1] = Item(a)
      BY <1>1, <2>1, Appended
    <3> QED BY <2>3, <2>6, <3>2, <3>3 DEF MayAsk
  <2>9. DOMAIN Of(v.out, "end") = {}
    <3>1. Of(v.out, "end") = <<>>
      BY <1>1, <2>1, <2>2, <2>5, OfAppend
    <3> QED BY <3>1, EmptyIsSeq
  <2>10. Phased(v)
    BY <1>2, <2>1, <2>6, <2>7, <2>8, <2>9 DEF Phased, NoBlock
  <2> QED BY <2>1, <2>10 DEF v, a
<1> QED BY <1>4, <1>5 DEF a

LEMMA PhasedEmit ==
    ASSUME NEW w, Sound(w), Phased(w), w.block = NoBlock
    PROVE  Underway(EmitCompleted(w))
<1> DEFINE v == EmitCompleted(w)
           e == Event("end", w.cur, Ending(w))
<1>1. CASE w.ended
  BY <1>1 DEF EmitCompleted, Underway, Closed
<1>2. CASE ~w.ended
  <2>1. Only({"ended", "usage", "out"}, v, w) /\ v.ended /\ v.out = Append(w.out, e)
    BY <1>2, EmitEffect DEF Sound
  <2>2. e.type = "end" /\ e.x.followUp = w.followUp
    BY DEF Event, Ending
  <2>3. Of(w.out, "end") = <<>> /\ IsSeq(w.out)
    BY <1>2 DEF Sound, EndIsLast
  <2> HIDE DEF v, e
  <2>4. /\ v.items = w.items /\ v.block = w.block /\ v.followUp = w.followUp
        /\ v.beforeTool = w.beforeTool /\ v.rescue = w.rescue
    BY <2>1 DEF Only, Fields
  <2>5. Of(v.out, "end") = Append(<<>>, e)
    <3>1. Of(v.out, "end") = Append(Of(w.out, "end"), e)
      BY <2>1, <2>2, <2>3, OfAppend
    <3> QED BY <2>3, <3>1
  <2>6. \A j \in DOMAIN Of(v.out, "end") : Of(v.out, "end")[j] = e
    BY <2>5
  <2>7. Phased(v)
    BY <2>2, <2>4, <2>6 DEF Phased
  <2>8. Underway(v)
    BY <2>1, <2>7 DEF Underway, Closed
  <2> QED BY <2>8 DEF v
<1> QED BY <1>1, <1>2

\* Reasoning or text
LEMMA UnderwaySpoken ==
    ASSUME NEW w, Sound(w), Whole(w), Underway(w), ~Closed(w), NEW b \in {"reasoning", "text"}, NEW x
    PROVE  Underway(Write("responses", w, Fragment(b, x)))
<1> DEFINE s == Start(w)
           u == Open(EndItem(s), b, NoId)
           v == Write("responses", w, Fragment(b, x))
<1>1. Sound(s) /\ Whole(s) /\ Underway(s) /\ ~Closed(s)
  BY StartQuiet, WholeStart, UnderwayStart DEF SameFlags, Closed
<1>2. v = IF s.block = b THEN Delta(s, b, x) ELSE Delta(u, b, x)
  BY DEF Write, WriteResponses, ItemDelta, Fragment, Ev
<1>3. b \in Blocks /\ b # NoBlock /\ b # "tool"
  BY DEF Blocks, NoBlock
<1> HIDE DEF s, v
<1>4. CASE s.block = b
  <2>1. Underway(Delta(s, b, x))
    BY <1>1, <1>3, <1>4, UnderwayDelta
  <2> QED BY <1>2, <1>4, <2>1 DEF v
<1>5. CASE s.block # b
  <2>1. Sound(EndItem(s)) /\ EndItem(s).block = NoBlock /\ ~Closed(EndItem(s))
    BY <1>1, CloseQuiet DEF SameFlags, Closed
  <2>2. Sound(u) /\ u.block = b
    BY <1>3, <2>1, OpenHeard
  <2>3. Only({"beforeTool"}, s, s) /\ (s.beforeTool <=> s.beforeTool \/ (b = "tool" /\ s.block = "text"))
    BY <1>1, <1>3 DEF Only, Sound
  <2>4. Underway(u)
    BY <1>1, <1>3, <2>3, UnderwayOpen
  <2> HIDE DEF u
  <2>5. Underway(Delta(u, b, x))
    BY <1>3, <2>2, <2>4, UnderwayDelta
  <2> QED BY <1>2, <1>5, <2>5 DEF v
<1> QED BY <1>4, <1>5 DEF v

\* A call starts
LEMMA UnderwayCall ==
    ASSUME NEW w, Sound(w), Whole(w), Underway(w), ~Closed(w), NEW id
    PROVE  Underway(Write("responses", w, Ev("tool_start", id)))
<1> DEFINE s == Start(w)
           a == [s EXCEPT !.beforeTool = @ \/ s.block = "text"]
           v == Write("responses", w, Ev("tool_start", id))
<1>1. Sound(s) /\ Whole(s) /\ Underway(s) /\ ~Closed(s)
  BY StartQuiet, WholeStart, UnderwayStart DEF SameFlags, Closed
<1>2. v = Open(EndItem(a), "tool", id)
  BY DEF Write, WriteResponses, Ev
<1> HIDE DEF s, v
<1>3. Only({"beforeTool"}, a, s) /\ (a.beforeTool <=> s.beforeTool \/ s.block = "text")
  <2>1. DOMAIN s = Fields
    BY <1>1 DEF Sound
  <2> QED BY <2>1 DEF Only, Fields
<1> HIDE DEF a
<1>4. PICK b \in Blocks : b = "tool"
  BY DEF Blocks
<1>5. Underway(Open(EndItem(a), b, id))
  BY <1>1, <1>3, <1>4, UnderwayOpen
<1> QED BY <1>2, <1>4, <1>5 DEF v

\* A fragment of the arguments of the call that is open
LEMMA UnderwayArg ==
    ASSUME NEW w, Sound(w), Underway(w), w.block = "tool", NEW x
    PROVE  Underway(Write("responses", w, Fragment("tool", x)))
<1> DEFINE s == Start(w)
           v == Write("responses", w, Fragment("tool", x))
<1>1. Sound(s) /\ Underway(s) /\ s.block = "tool"
  BY StartQuiet, UnderwayStart
<1>2. v = Delta(s, "tool", x)
  BY <1>1 DEF Write, WriteResponses, ItemDelta, Fragment, Ev
<1> HIDE DEF s, v
<1>3. Underway(Delta(s, "tool", x))
  BY <1>1, UnderwayDelta DEF NoBlock
<1> QED BY <1>2, <1>3 DEF v

LEMMA UnderwayFinish ==
    ASSUME NEW w, Sound(w), Whole(w), Underway(w), NEW x
    PROVE  Underway(Write("responses", w, Ev("finish", x)))
<1> DEFINE s == Start(w)
           c == EndItem(AskFollowUp(s, x = "stop"))
           f == [c EXCEPT !.finishSeen = TRUE]
           v == Write("responses", w, Ev("finish", x))
<1>1. Sound(s) /\ Whole(s) /\ Phased(s)
  BY StartQuiet, WholeStart, UnderwayStart DEF Underway
<1>2. v = IF f.usage # <<>> THEN EmitCompleted(f) ELSE f
  BY DEF Write, WriteResponses, Ev
<1> HIDE DEF s, v
<1>3. Sound(c) /\ Phased(c) /\ c.block = NoBlock
  BY <1>1, AskQuiet, CloseQuiet, PhasedClose
<1> HIDE DEF c
<1>4. Sound(f) /\ f.block = NoBlock /\ f.finishSeen
  BY <1>3, FinishSet
<1>5. Only({"finishSeen"}, f, c)
  <2>1. DOMAIN c = Fields
    BY <1>3 DEF Sound
  <2> QED BY <2>1 DEF Only, Fields
<1> HIDE DEF f
<1>6. Phased(f)
  <2>1. /\ f.items = c.items /\ f.block = c.block /\ f.followUp = c.followUp
        /\ f.beforeTool = c.beforeTool /\ f.rescue = c.rescue /\ f.out = c.out
    BY <1>5 DEF Only, Fields
  <2> QED BY <1>3, <2>1, PhasedSame
<1>7. Underway(f) /\ Underway(EmitCompleted(f))
  BY <1>4, <1>6, PhasedEmit DEF Underway, Closed
<1> QED BY <1>2, <1>7 DEF v

LEMMA UnderwayUsage ==
    ASSUME NEW w, Sound(w), Underway(w), NEW x
    PROVE  Underway(Write("responses", w, Ev("usage", x)))
<1> DEFINE s == Start(w)
           a == [s EXCEPT !.usage = <<x>>]
           v == Write("responses", w, Ev("usage", x))
<1>1. Sound(s) /\ Underway(s)
  BY StartQuiet, UnderwayStart
<1>2. v = IF a.finishSeen THEN EmitCompleted(a) ELSE a
  BY DEF Write, WriteResponses, Ev
<1> HIDE DEF s, v
<1>3. Only({"usage"}, a, s)
  <2>1. DOMAIN s = Fields
    BY <1>1 DEF Sound
  <2> QED BY <2>1 DEF Only, Fields
<1> HIDE DEF a
<1>4. Only({"started", "accum", "items", "finish", "usage", "beforeTool", "followUp",
            "finishSeen"}, a, s)
  BY <1>3 DEF Only, Fields
<1>5. /\ a.items = s.items /\ a.block = s.block /\ a.followUp = s.followUp
      /\ a.beforeTool = s.beforeTool /\ a.rescue = s.rescue /\ a.out = s.out
      /\ a.finishSeen = s.finishSeen /\ a.ended = s.ended
  BY <1>3 DEF Only, Fields
<1>6. Sound(a)
  BY <1>1, <1>4, <1>5, SoundSet
<1>7. Phased(a) /\ Underway(a)
  <2>1. Phased(a)
    BY <1>1, <1>5, PhasedSame DEF Underway
  <2> QED BY <1>1, <1>5, <2>1 DEF Underway, Closed
<1>8. a.finishSeen => Underway(EmitCompleted(a))
  BY <1>6, <1>7, PhasedEmit DEF Sound
<1> QED BY <1>2, <1>7, <1>8 DEF v

LEMMA UnderwayDone ==
    ASSUME NEW w, Sound(w), Whole(w), Underway(w)
    PROVE  Underway(Write("responses", w, Ev("done", 0)))
<1> DEFINE s == Start(w)
           c == EndItem(AskFollowUp(s, TRUE))
           v == Write("responses", w, Ev("done", 0))
<1>1. Sound(s) /\ Whole(s) /\ Phased(s)
  BY StartQuiet, WholeStart, UnderwayStart DEF Underway
<1>2. v = EmitCompleted(c)
  BY DEF Write, WriteResponses, Ev
<1> HIDE DEF s, v
<1>3. Sound(c) /\ Phased(c) /\ c.block = NoBlock
  BY <1>1, AskQuiet, CloseQuiet, PhasedClose
<1> HIDE DEF c
<1>4. Underway(EmitCompleted(c))
  BY <1>3, PhasedEmit
<1> QED BY <1>2, <1>4 DEF v

LEMMA UnderwayNew == ASSUME NEW rescue PROVE Underway(NewWriter(rescue))
<1> DEFINE w == NewWriter(rescue)
<1>1. w.items = <<>> /\ w.block = NoBlock /\ w.followUp = FALSE /\ w.out = <<>>
  BY DEF NewWriter
<1> HIDE DEF w
<1>2. Len(w.items) = 0 /\ 1 .. 0 = {} /\ DOMAIN Of(w.out, "end") = {}
  BY <1>1, EmptyIsSeq, NoEvents
<1>3. Phased(w)
  BY <1>1, <1>2 DEF Phased, Phases, NoBlock
<1> QED BY <1>1, <1>3 DEF Underway, w

\* What the end of an answer says of its texts
PhasesTold(o, rescue) ==
    \A j \in DOMAIN Of(o, "end") :
        LET x    == Of(o, "end")[j].x
            last == Len(x.items)
        IN  /\ x.followUp => /\ last > 0 /\ rescue
                             /\ x.items[last].kind = "text"
                             /\ x.items[last].content[Len(x.items[last].content)].prelude
            /\ \A k \in 1 .. last :
                  x.items[k].kind = "text" =>
                      (x.items[k].commentary <=>
                          \/ k < last /\ x.items[k + 1].kind = "tool"
                          \/ k = last /\ x.followUp)

LEMMA PhasedTold ==
    ASSUME NEW w, Sound(w), Whole(w), Phased(w)
    PROVE  PhasesTold(w.out, w.rescue)
<1> DEFINE ends == Of(w.out, "end")
           n == Len(w.items)
<1>1. SUFFICES ASSUME NEW j \in DOMAIN ends
               PROVE  LET x == ends[j].x
                      IN  /\ x.followUp => MayAsk(w.rescue, x.items)
                          /\ \A k \in 1 .. Len(x.items) :
                                x.items[k].kind = "text" =>
                                    (x.items[k].commentary <=>
                                        \/ k < Len(x.items) /\ x.items[k + 1].kind = "tool"
                                        \/ k = Len(x.items) /\ x.followUp)
  BY DEF PhasesTold, MayAsk
<1>2. w.block = NoBlock
  <2>1. ends # <<>>
    BY <1>1, EmptyIsSeq
  <2> QED BY <2>1 DEF Sound, EndIsLast
<1>3. ends[j].x.items = w.items /\ ends[j].x.followUp = w.followUp
  BY <1>1 DEF Whole, Phased
<1>4. n \in Nat
  BY SeqLength DEF Whole
<1> HIDE DEF ends
<1>5. ASSUME NEW k \in 1 .. n, w.items[k].kind = "text"
      PROVE  w.items[k].commentary <=>
                \/ k < n /\ w.items[k + 1].kind = "tool"
                \/ k = n /\ w.followUp
  <2>1. w.items[k].commentary <=> IF k < n THEN w.items[k + 1].kind = "tool" ELSE w.followUp
    BY <1>2, <1>5 DEF Phased, Phases
  <2> QED BY <1>4, <2>1
<1>6. w.followUp => MayAsk(w.rescue, w.items)
  BY DEF Phased
<1> QED BY <1>3, <1>5, <1>6

-----------------------------------------------------------------------------
(* One event, whatever the client's protocol *)

\* The writer of a format is in a good state before it is closed
Good(format, w) ==
    IF format = "completions" THEN Plain(w)
    ELSE Sound(w) /\ (format = "responses" => Whole(w))

\* The usage the client was told or will be told
Sent(format, w) == IF format = "completions" THEN UsageSent(w) ELSE SentBy(w)

\* A fragment of arguments reaches the last call
Ready(format, w) == IF format = "completions" THEN w.next > 0 ELSE w.block = "tool"

\* The step from w to v says nothing of content or usage, and does not move the ending
Unheard(format, v, w) ==
    /\ Deltas(v.out) = Deltas(w.out) /\ CallsSeen(v.out) = CallsSeen(w.out)
    /\ Sent(format, v) = Sent(format, w)

SameEnding(v, w) == (v.finishSeen <=> w.finishSeen) /\ (v.ended <=> w.ended)

\* No block is open; Chat Completions has no blocks
Between(format, w) == format # "completions" => w.block = NoBlock

LEMMA Formats == ASSUME NEW format \in Format PROVE format = "completions" \/ format \in Itemised
BY DEF Format, Itemised

LEMMA SaysStart ==
    ASSUME NEW format \in Format, NEW w, Good(format, w), ~Closed(w),
           NEW x \in {"reasoning", "text"}, Tidy /\ format = "responses" => w.block # x
    PROVE  LET v == Write(format, w, Ev("start", x))
           IN  /\ Good(format, v) /\ SameEnding(v, w) /\ Unheard(format, v, w)
               /\ format = "completions" => v = w
               /\ format # "completions" => v.block = x
<1> DEFINE v == Write(format, w, Ev("start", x))
<1>1. CASE format = "completions"
  <2>1. v = w
    BY <1>1 DEF Write, WriteCompletions, Ev
  <2> QED BY <1>1, <2>1 DEF SameEnding, Unheard
<1>2. CASE format \in Itemised
  <2>1. Sound(w) /\ format # "completions" /\ (format = "responses" => Whole(w))
    BY <1>2 DEF Good, Itemised
  <2>2. Sound(v) /\ SameFlags(v, w) /\ Quiet(v, w) /\ v.block = x
    BY <1>2, <2>1, WriteStart
  <2>3. format = "responses" => Whole(v)
    <3>1. format = "responses" => Placed(w, Ev("start", x))
      BY DEF Placed, Ev
    <3> QED BY <2>1, <3>1, WholeWrite
  <2> QED BY <2>1, <2>2, <2>3 DEF SameEnding, Unheard, Good, Quiet, SameFlags, Sent
<1> QED BY <1>1, <1>2, Formats

LEMMA SaysCall ==
    ASSUME NEW format \in Format, NEW w, Good(format, w), ~Closed(w), NEW id
    PROVE  LET v == Write(format, w, Ev("tool_start", id))
           IN  /\ Good(format, v) /\ SameEnding(v, w) /\ Ready(format, v)
               /\ Sent(format, v) = Sent(format, w) /\ Deltas(v.out) = Deltas(w.out)
               /\ CallsSeen(v.out) = Append(CallsSeen(w.out), [id |-> id, args |-> <<>>])
<1> DEFINE v == Write(format, w, Ev("tool_start", id))
<1>1. CASE format = "completions"
  <2>1. Plain(w) /\ ~w.finishSeen /\ ~w.ended
    BY <1>1 DEF Good, Plain, Closed
  <2>2. /\ Plain(v) /\ v.next > 0 /\ v.finishSeen = w.finishSeen
        /\ UsageSent(v) = UsageSent(w) /\ Deltas(v.out) = Deltas(w.out)
        /\ CallsSeen(v.out) = Append(CallsSeen(w.out), [id |-> id, args |-> <<>>])
    BY <1>1, <2>1, PlainCall
  <2>3. ~v.ended
    BY <2>2 DEF Plain
  <2> QED BY <1>1, <2>1, <2>2, <2>3 DEF SameEnding, Good, Sent, Ready
<1>2. CASE format \in Itemised
  <2>1. Sound(w) /\ format # "completions" /\ (format = "responses" => Whole(w))
    BY <1>2 DEF Good, Itemised
  <2>2. /\ Sound(v) /\ SameFlags(v, w) /\ v.block = "tool" /\ SentBy(v) = SentBy(w)
        /\ Deltas(v.out) = Deltas(w.out)
        /\ CallsSeen(v.out) = Append(CallsSeen(w.out), [id |-> id, args |-> <<>>])
    BY <1>2, <2>1, WriteCall
  <2>3. format = "responses" => Whole(v)
    <3>1. format = "responses" => Placed(w, Ev("tool_start", id))
      BY DEF Placed, Ev
    <3> QED BY <2>1, <3>1, WholeWrite
  <2> QED BY <2>1, <2>2, <2>3 DEF SameEnding, Good, SameFlags, Sent, Ready
<1> QED BY <1>1, <1>2, Formats

LEMMA SaysDelta ==
    ASSUME NEW format \in Format, NEW w, Good(format, w), ~Closed(w), NEW b \in Blocks, NEW x,
           format = "completions" /\ b = "tool" => w.next > 0
    PROVE  LET v == Write(format, w, Fragment(b, x))
           IN  /\ Good(format, v) /\ SameEnding(v, w) /\ Sent(format, v) = Sent(format, w)
               /\ Deltas(v.out) = Append(Deltas(w.out), [kind |-> b, x |-> x])
               /\ b # "tool" => CallsSeen(v.out) = CallsSeen(w.out)
               /\ b = "tool" /\ Ready(format, w) =>
                     /\ CallsSeen(v.out) = WithArg(CallsSeen(w.out), x)
                     /\ Len(CallsSeen(w.out)) \in Nat \ {0}
               /\ b = "tool" => Ready(format, v)
               /\ format = "completions" => v.next = w.next
<1> DEFINE v == Write(format, w, Fragment(b, x))
<1>1. CASE format = "completions"
  <2>1. Plain(w) /\ ~w.finishSeen /\ ~w.ended
    BY <1>1 DEF Good, Plain, Closed
  <2>2. /\ Plain(v) /\ v.next = w.next /\ v.finishSeen = w.finishSeen
        /\ UsageSent(v) = UsageSent(w)
        /\ Deltas(v.out) = Append(Deltas(w.out), [kind |-> b, x |-> x])
        /\ b # "tool" => CallsSeen(v.out) = CallsSeen(w.out)
        /\ b = "tool" => /\ CallsSeen(v.out) = WithArg(CallsSeen(w.out), x)
                         /\ Len(CallsSeen(w.out)) \in Nat \ {0}
    BY <1>1, <2>1, PlainDelta
  <2>3. ~v.ended
    BY <2>2 DEF Plain
  <2> QED BY <1>1, <2>1, <2>2, <2>3 DEF SameEnding, Good, Sent, Ready
<1>2. CASE format \in Itemised
  <2>1. Sound(w) /\ format # "completions" /\ (format = "responses" => Whole(w))
    BY <1>2 DEF Good, Itemised
  <2>2. /\ Sound(v) /\ SameFlags(v, w) /\ v.block = b /\ SentBy(v) = SentBy(w)
        /\ Deltas(v.out) = Append(Deltas(w.out), [kind |-> b, x |-> x])
        /\ b # "tool" => CallsSeen(v.out) = CallsSeen(w.out)
        /\ b = "tool" /\ w.block = "tool" =>
              /\ CallsSeen(v.out) = WithArg(CallsSeen(w.out), x)
              /\ Len(CallsSeen(w.out)) \in Nat \ {0}
    BY <1>2, <2>1, WriteDelta
  <2>3. format = "responses" => Whole(v)
    <3> DEFINE kind == IF b = "tool" THEN "tool_args" ELSE b
    <3>1. v = Write(format, w, Ev(kind, x)) /\ kind \in {"reasoning", "text", "tool_args"}
      BY DEF Fragment, Blocks
    <3>2. Placed(w, Ev(kind, x))
      BY <3>1 DEF Placed, Ev
    <3> HIDE DEF kind, v
    <3> QED BY <2>1, <3>1, <3>2, WholeWrite
  <2> QED BY <2>1, <2>2, <2>3 DEF SameEnding, Good, SameFlags, Sent, Ready
<1> QED BY <1>1, <1>2, Formats

LEMMA BlockOfDelta ==
    ASSUME NEW format \in Format, NEW w, Good(format, w), ~Closed(w), NEW b \in Blocks, NEW x,
           format # "completions"
    PROVE  Write(format, w, Fragment(b, x)).block = b
<1>1. format \in Itemised /\ Sound(w)
  BY Formats DEF Good
<1>2. /\ Sound(Write(format, w, Fragment(b, x)))
      /\ SameFlags(Write(format, w, Fragment(b, x)), w)
      /\ Write(format, w, Fragment(b, x)).block = b
      /\ SentBy(Write(format, w, Fragment(b, x))) = SentBy(w)
  BY <1>1, WriteDelta, ZenonT(60)
<1> QED BY <1>2

LEMMA SaysEndBlock ==
    ASSUME NEW format \in Format, NEW w, Good(format, w)
    PROVE  LET v == Write(format, w, Ev("end_block", 0))
           IN  /\ Good(format, v) /\ SameEnding(v, w) /\ Unheard(format, v, w)
               /\ Between(format, v) /\ (format = "completions" => v = w)
<1> DEFINE v == Write(format, w, Ev("end_block", 0))
<1>1. CASE format = "completions"
  <2>1. v = w
    BY <1>1 DEF Write, WriteCompletions, Ev
  <2> QED BY <1>1, <2>1 DEF SameEnding, Unheard, Between
<1>2. CASE format \in Itemised
  <2>1. Sound(w) /\ format # "completions" /\ (format = "responses" => Whole(w))
    BY <1>2 DEF Good, Itemised
  <2>2. Sound(v) /\ SameFlags(v, w) /\ Quiet(v, w) /\ v.block = NoBlock
    BY <1>2, <2>1, WriteEndBlock
  <2>3. format = "responses" => Whole(v)
    <3>1. format = "responses" => Placed(w, Ev("end_block", 0))
      BY DEF Placed, Ev
    <3> QED BY <2>1, <3>1, WholeWrite
  <2> QED BY <2>1, <2>2, <2>3 DEF SameEnding, Unheard, Good, Quiet, SameFlags, Sent, Between
<1> QED BY <1>1, <1>2, Formats

LEMMA SaysError ==
    ASSUME NEW format \in Format, NEW w, Good(format, w)
    PROVE  LET v == Write(format, w, Ev("error", 0))
           IN  /\ Good(format, v) /\ SameEnding(v, w) /\ Unheard(format, v, w)
               /\ (Ready(format, w) => Ready(format, v))
               /\ (format = "completions" => v.next = w.next)
               /\ (format # "completions" => v.block = w.block)
<1> DEFINE v == Write(format, w, Ev("error", 0))
<1>1. CASE format = "completions"
  <2>1. Plain(w) /\ ~w.ended
    BY <1>1 DEF Good, Plain
  <2>2. /\ Plain(v) /\ v.next = w.next /\ v.finishSeen = w.finishSeen
        /\ UsageSent(v) = UsageSent(w)
        /\ Deltas(v.out) = Deltas(w.out) /\ CallsSeen(v.out) = CallsSeen(w.out)
    BY <1>1, <2>1, PlainError
  <2>3. ~v.ended
    BY <2>2 DEF Plain
  <2> QED BY <1>1, <2>1, <2>2, <2>3 DEF SameEnding, Unheard, Good, Sent, Ready
<1>2. CASE format \in Itemised
  <2>1. Sound(w) /\ format # "completions" /\ (format = "responses" => Whole(w))
    BY <1>2 DEF Good, Itemised
  <2>2. Sound(v) /\ SameFlags(v, w) /\ Quiet(v, w) /\ v.block = w.block
    BY <1>2, <2>1, WriteError
  <2>3. format = "responses" => Whole(v)
    <3>1. format = "responses" => Placed(w, Ev("error", 0))
      BY DEF Placed, Ev
    <3> QED BY <2>1, <3>1, WholeWrite
  <2> QED BY <2>1, <2>2, <2>3 DEF SameEnding, Unheard, Good, Quiet, SameFlags, Sent, Ready
<1> QED BY <1>1, <1>2, Formats

LEMMA SaysFinish ==
    ASSUME NEW format \in Format, NEW w, Good(format, w), NEW x
    PROVE  LET v == Write(format, w, Ev("finish", x))
           IN  /\ Good(format, v) /\ Unheard(format, v, w) /\ v.finishSeen /\ Between(format, v)
               /\ v.ended => w.ended \/ Sent(format, w) # <<>>
               /\ format = "completions" => v.next = w.next
<1> DEFINE v == Write(format, w, Ev("finish", x))
<1>1. CASE format = "completions"
  <2>1. Plain(w) /\ ~w.ended
    BY <1>1 DEF Good, Plain
  <2>2. /\ Plain(v) /\ v.next = w.next /\ v.finishSeen
        /\ UsageSent(v) = UsageSent(w)
        /\ Deltas(v.out) = Deltas(w.out) /\ CallsSeen(v.out) = CallsSeen(w.out)
    BY <1>1, <2>1, PlainFinish
  <2>3. ~v.ended
    BY <2>2 DEF Plain
  <2> QED BY <1>1, <2>1, <2>2, <2>3 DEF Unheard, Good, Sent, Between
<1>2. CASE format \in Itemised
  <2>1. Sound(w) /\ format # "completions" /\ (format = "responses" => Whole(w))
    BY <1>2 DEF Good, Itemised
  <2>2. /\ Sound(v) /\ Quiet(v, w) /\ v.finishSeen /\ v.block = NoBlock
        /\ v.ended => w.ended \/ SentBy(w) # <<>>
    BY <1>2, <2>1, WriteFinish
  <2>3. format = "responses" => Whole(v)
    <3>1. format = "responses" => Placed(w, Ev("finish", x))
      BY DEF Placed, Ev
    <3> QED BY <2>1, <3>1, WholeWrite
  <2> QED BY <2>1, <2>2, <2>3 DEF Unheard, Good, Quiet, Sent, Between
<1> QED BY <1>1, <1>2, Formats

LEMMA SaysUsage ==
    ASSUME NEW format \in Format, NEW w, Good(format, w), NEW x
    PROVE  LET v == Write(format, w, Ev("usage", x))
           IN  /\ Good(format, v) /\ (v.finishSeen <=> w.finishSeen)
               /\ v.ended => w.ended \/ w.finishSeen
               /\ v.ended => Sent(format, v) # <<>> \/ w.ended
               /\ (Between(format, w) => Between(format, v))
               /\ (Ready(format, w) => Ready(format, v))
               /\ (format # "completions" => v.block = w.block)
               /\ Deltas(v.out) = Deltas(w.out) /\ CallsSeen(v.out) = CallsSeen(w.out)
               /\ ~w.ended /\ Sent(format, w) = <<>> => Sent(format, v) = <<x>>
               /\ w.ended => Sent(format, v) = Sent(format, w)
               /\ format = "completions" => v.next = w.next
<1> DEFINE v == Write(format, w, Ev("usage", x))
<1>1. CASE format = "completions"
  <2>1. Plain(w) /\ ~w.ended
    BY <1>1 DEF Good, Plain
  <2>2. /\ Plain(v) /\ v.next = w.next /\ v.finishSeen = w.finishSeen
        /\ UsageSent(v) = Append(UsageSent(w), x)
        /\ Deltas(v.out) = Deltas(w.out) /\ CallsSeen(v.out) = CallsSeen(w.out)
    BY <1>1, <2>1, PlainUsage
  <2>3. ~v.ended
    BY <2>2 DEF Plain
  <2>4. Append(<<>>, x) = <<x>>
    OBVIOUS
  <2> QED BY <1>1, <2>1, <2>2, <2>3, <2>4 DEF Good, Sent, Between, Ready
<1>2. CASE format \in Itemised
  <2>1. Sound(w) /\ format # "completions" /\ (format = "responses" => Whole(w))
    BY <1>2 DEF Good, Itemised
  <2>2. /\ Sound(v) /\ v.block = w.block /\ v.finishSeen = w.finishSeen
        /\ v.ended <=> w.ended \/ w.finishSeen
        /\ Deltas(v.out) = Deltas(w.out) /\ CallsSeen(v.out) = CallsSeen(w.out)
        /\ SentBy(v) = IF w.ended THEN SentBy(w) ELSE <<x>>
    BY <1>2, <2>1, WriteUsage
  <2>3. <<x>> # <<>>
    OBVIOUS
  <2>4. format = "responses" => Whole(v)
    <3>1. format = "responses" => Placed(w, Ev("usage", x))
      BY DEF Placed, Ev
    <3> QED BY <2>1, <3>1, WholeWrite
  <2> QED BY <2>1, <2>2, <2>3, <2>4 DEF Good, Sent, Between, Ready
<1> QED BY <1>1, <1>2, Formats

LEMMA SaysDone ==
    ASSUME NEW format \in Format, NEW w, Good(format, w)
    PROVE  LET v == Write(format, w, Ev("done", 0))
           IN  /\ Good(format, v) /\ Unheard(format, v, w) /\ Between(format, v)
               /\ format = "completions" => v = w
               /\ format # "completions" => v.ended
<1> DEFINE v == Write(format, w, Ev("done", 0))
<1>1. CASE format = "completions"
  <2>1. v = w
    BY <1>1 DEF Write, WriteCompletions, Ev
  <2> QED BY <1>1, <2>1 DEF Unheard, Between
<1>2. CASE format \in Itemised
  <2>1. Sound(w) /\ format # "completions" /\ (format = "responses" => Whole(w))
    BY <1>2 DEF Good, Itemised
  <2>2. Sound(v) /\ Quiet(v, w) /\ v.ended /\ v.block = NoBlock
    BY <1>2, <2>1, WriteDone
  <2>3. format = "responses" => Whole(v)
    <3>1. format = "responses" => Placed(w, Ev("done", 0))
      BY DEF Placed, Ev
    <3> QED BY <2>1, <3>1, WholeWrite
  <2> QED BY <2>1, <2>2, <2>3 DEF Unheard, Good, Quiet, Sent, Between
<1> QED BY <1>1, <1>2, Formats

-----------------------------------------------------------------------------
(* The beginning and the end of an answer *)

LEMMA NewWriterGood ==
    ASSUME NEW rescue, NEW format \in Format
    PROVE  LET w == NewWriter(rescue)
           IN  /\ Good(format, w) /\ ~Closed(w) /\ ~w.finishSeen /\ ~w.ended
               /\ w.block = NoBlock /\ w.out = <<>> /\ w.usage = <<>>
<1> DEFINE w == NewWriter(rescue)
<1>1. /\ DOMAIN w = Fields /\ w.out = <<>> /\ w.block = NoBlock /\ ~w.finishSeen /\ ~w.ended
      /\ w.next = 0 /\ w.usage = <<>>
  BY DEF NewWriter, Fields
<1> HIDE DEF w
<1>2. /\ IsSeq(w.out) /\ Len(w.out) = 0 /\ DOMAIN w.out = {}
      /\ Of(w.out, "end") = <<>> /\ Of(w.out, "open") = <<>> /\ ToolOpens(w.out) = <<>>
  BY <1>1, EmptyIsSeq, NoEvents
<1>3. OpensIn(w.out) = 0
  <2>1. OpensAt(w.out, Len(w.out)) = {}
    BY <1>2 DEF OpensAt
  <2> QED BY <2>1, FS_EmptySet DEF OpensIn
<1>4. EndIsLast(w.out) /\ ~HasEnd(w.out)
  BY <1>2 DEF EndIsLast, HasEnd
<1>5. Numbered(w.out)
  <2>1. Len(Of(w.out, "open")) = 0 /\ DOMAIN ToolOpens(w.out) = {}
    BY <1>2, EmptyIsSeq
  <2> QED BY <1>2, <1>3, <2>1 DEF Numbered
<1>6. Paired(w.out) /\ OpenNow(w.out) = {}
  BY <1>2 DEF Paired, OpenNow, OpenBefore
<1>7. NoBlock \notin Blocks
  BY DEF NoBlock, Blocks
<1>8. Sound(w)
  BY <1>1, <1>2, <1>3, <1>4, <1>5, <1>6, <1>7 DEF Sound, InBlock, Blocks
<1>9. Plain(w)
  BY <1>1, <1>2, <1>3, <1>4, <1>5 DEF Plain
<1>10. Whole(w)
  <2>1. w.items = <<>>
    BY DEF w, NewWriter
  <2>2. DOMAIN Of(w.out, "end") = {} /\ IsSeq(w.items) /\ Len(w.items) = 0 /\ 1 .. 0 = {}
    BY <1>2, <2>1, EmptyIsSeq
  <2> QED BY <1>1, <2>2 DEF Whole
<1> QED BY <1>1, <1>8, <1>9, <1>10 DEF Good, Closed, w

\* At most one end, no content after it, and a stop is last
EndsOnce(o) ==
    /\ Cardinality({j \in DOMAIN o : o[j].type = "end"}) <= 1
    /\ \A j \in DOMAIN o : o[j].type = "end" =>
          \A k \in DOMAIN o : k > j => o[k].type \notin Content
    /\ \A j \in DOMAIN o : o[j].type = "stop" => j = Len(o)

LEMMA EndIsOnce ==
    ASSUME NEW o, IsSeq(o), EndIsLast(o)
    PROVE  EndsOnce(o)
<1> DEFINE ends == {j \in DOMAIN o : o[j].type = "end"}
<1>1. Len(o) \in Nat /\ DOMAIN o = 1 .. Len(o)
  BY SeqLength
<1>2. \A j, k \in ends : j = k
  <2> SUFFICES ASSUME NEW j \in ends, NEW k \in ends, j # k PROVE FALSE
    OBVIOUS
  <2>1. j < k \/ k < j
    BY <1>1
  <2> QED BY <2>1 DEF EndIsLast
<1>3. Cardinality(ends) <= 1
  <2>1. CASE ends = {}
    BY <2>1, FS_EmptySet
  <2>2. CASE ends # {}
    <3>1. PICK j \in ends : ends = {j}
      BY <1>2, <2>2
    <3>2. Cardinality({j}) = 1
      BY FS_Singleton
    <3> QED BY <3>1, <3>2
  <2> QED BY <2>1, <2>2
<1>4. \A j \in DOMAIN o : o[j].type = "end" =>
         \A k \in DOMAIN o : k > j => o[k].type \notin Content
  <2> SUFFICES ASSUME NEW j \in DOMAIN o, o[j].type = "end", NEW k \in DOMAIN o, k > j
               PROVE  o[k].type \notin Content
    OBVIOUS
  <2>1. j < k
    BY <1>1
  <2> QED BY <2>1 DEF EndIsLast
<1> QED BY <1>3, <1>4 DEF EndsOnce, EndIsLast

LEMMA StopIsLast ==
    ASSUME NEW o, IsSeq(o), EndIsLast(o), NEW e, e.type = "stop"
    PROVE  LET t == Append(o, e)
           IN  /\ EndsOnce(t)
               /\ {j \in DOMAIN t : t[j].type = "end"} = {j \in DOMAIN o : o[j].type = "end"}
               /\ {j \in DOMAIN t : t[j].type = "stop"} # {}
<1> DEFINE t == Append(o, e)
<1>1. /\ Len(o) \in Nat /\ Len(t) = Len(o) + 1 /\ DOMAIN o = 1 .. Len(o)
      /\ DOMAIN t = 1 .. Len(o) + 1 /\ \A j \in 1 .. Len(o) : t[j] = o[j]
      /\ t[Len(o) + 1] = e
  BY Appended
<1> HIDE DEF t
<1>2. {j \in DOMAIN t : t[j].type = "end"} = {j \in DOMAIN o : o[j].type = "end"}
  BY <1>1
<1>3. EndsOnce(o)
  BY EndIsOnce
<1>4. Cardinality({j \in DOMAIN t : t[j].type = "end"}) <= 1
  BY <1>2, <1>3 DEF EndsOnce
<1>5. ASSUME NEW j \in DOMAIN t, t[j].type = "end", NEW k \in DOMAIN t, k > j
      PROVE  t[k].type \notin Content
  <2>1. j \in DOMAIN o /\ o[j].type = "end"
    BY <1>1, <1>5
  <2>2. CASE k \in DOMAIN o
    BY <1>1, <1>3, <1>5, <2>1, <2>2 DEF EndsOnce
  <2>3. CASE k = Len(o) + 1
    BY <1>1, <2>3 DEF Content
  <2> QED BY <1>1, <2>2, <2>3
<1>6. ASSUME NEW j \in DOMAIN t, t[j].type = "stop"
      PROVE  j = Len(t)
  BY <1>1, <1>6 DEF EndIsLast
<1>7. {j \in DOMAIN t : t[j].type = "stop"} # {}
  <2>1. Len(o) + 1 \in {j \in DOMAIN t : t[j].type = "stop"}
    BY <1>1
  <2> QED BY <2>1
<1>8. EndsOnce(t)
  BY <1>4, <1>5, <1>6 DEF EndsOnce
<1> QED BY <1>2, <1>7, <1>8 DEF t

\* What Close makes of an answer
LEMMA ClosedAnswer ==
    ASSUME NEW format \in Format, NEW w, Good(format, w)
    PROVE  LET v == CloseStream(format, w)
               ends == {j \in DOMAIN v.out : v.out[j].type = "end"}
           IN  /\ IsSeq(v.out) /\ EndsOnce(v.out)
               /\ format # "completions" => ends # {} /\ (Tidy => Paired(v.out))
               /\ format = "completions" => (ends # {} <=> w.finishSeen)
               /\ Tidy /\ format = "responses" => Repeated(v.out)
               /\ format # "responses" => {j \in DOMAIN v.out : v.out[j].type = "stop"} # {}
               /\ Deltas(v.out) = Deltas(w.out) /\ CallsSeen(v.out) = CallsSeen(w.out)
               /\ format = "completions" => Told(Of(v.out, "usage")) = UsageSent(w)
               /\ format # "completions" =>
                     Of(v.out, "end") # <<>> /\ Of(v.out, "end")[1].x.usage = SentBy(w)
<1> DEFINE v == CloseStream(format, w)
           stop(u) == Event("stop", u.cur, 0)
<1>1. ASSUME NEW u, DOMAIN u = Fields, IsSeq(u.out), EndIsLast(u.out)
      PROVE  LET z == Put(u, "stop", 0)
             IN  /\ IsSeq(z.out) /\ EndsOnce(z.out)
                 /\ {j \in DOMAIN z.out : z.out[j].type = "end"} =
                       {j \in DOMAIN u.out : u.out[j].type = "end"}
                 /\ {j \in DOMAIN z.out : z.out[j].type = "stop"} # {}
                 /\ Deltas(z.out) = Deltas(u.out) /\ CallsSeen(z.out) = CallsSeen(u.out)
                 /\ Told(Of(z.out, "usage")) = Told(Of(u.out, "usage"))
                 /\ Of(z.out, "end") = Of(u.out, "end")
  <2> DEFINE o == u.out
             e == stop(u)
             t == Append(o, e)
  <2>1. Put(u, "stop", 0).out = t
    BY <1>1, PutEffect
  <2>2. e.type = "stop" /\ IsSeq(o) /\ EndIsLast(o)
    BY <1>1 DEF Event
  <2> HIDE DEF e, o
  <2>3. IsSeq(t)
    BY <2>2, Appended
  <2>4. /\ EndsOnce(t)
        /\ {j \in DOMAIN t : t[j].type = "end"} = {j \in DOMAIN o : o[j].type = "end"}
        /\ {j \in DOMAIN t : t[j].type = "stop"} # {}
    BY <2>2, StopIsLast
  <2>5. Deltas(t) = Deltas(o)
    BY <2>2, DeltasAppend
  <2>6. CallsSeen(t) = CallsSeen(o)
    BY <2>2, CallsSame
  <2>7. Told(Of(t, "usage")) = Told(Of(o, "usage"))
    BY <2>2, UsagesAppend
  <2>8. Of(t, "end") = Of(o, "end")
    BY <2>2, OfAppend
  <2> HIDE DEF t
  <2> QED BY <2>1, <2>3, <2>4, <2>5, <2>6, <2>7, <2>8 DEF o
<1>2. CASE format = "completions"
  <2>1. DOMAIN w = Fields /\ IsSeq(w.out) /\ EndIsLast(w.out) /\ (w.finishSeen <=> HasEnd(w.out))
    BY <1>2 DEF Good, Plain
  <2>2. v = Put(w, "stop", 0)
    BY <1>2 DEF CloseStream
  <2> HIDE DEF v
  <2>3. /\ IsSeq(v.out) /\ EndsOnce(v.out)
        /\ {j \in DOMAIN v.out : v.out[j].type = "end"} = {j \in DOMAIN w.out : w.out[j].type = "end"}
        /\ {j \in DOMAIN v.out : v.out[j].type = "stop"} # {}
        /\ Deltas(v.out) = Deltas(w.out) /\ CallsSeen(v.out) = CallsSeen(w.out)
        /\ Told(Of(v.out, "usage")) = Told(Of(w.out, "usage"))
    BY <1>1, <2>1, <2>2
  <2>4. {j \in DOMAIN w.out : w.out[j].type = "end"} # {} <=> w.finishSeen
    BY <2>1 DEF HasEnd
  <2> QED BY <1>2, <2>3, <2>4 DEF UsageSent, v
<1>3. CASE format # "completions"
  <2>1. format \in Itemised /\ Sound(w) /\ (format = "responses" => Whole(w))
    BY <1>3, Formats DEF Good
  <2> DEFINE u == Write(format, w, Ev("done", 0))
  <2>2. Sound(u) /\ Quiet(u, w) /\ u.ended /\ u.block = NoBlock
    BY <2>1, WriteDone
  <2>3. v = IF format = "responses" THEN u ELSE Put(u, "stop", 0)
    BY <1>3, <2>1 DEF CloseStream, Write, Itemised
  <2> HIDE DEF u, v
  <2>4. /\ DOMAIN u = Fields /\ IsSeq(u.out) /\ EndIsLast(u.out) /\ HasEnd(u.out)
        /\ Tidy => Paired(u.out) /\ OpenNow(u.out) = {}
    BY <2>2 DEF Sound, InBlock
  <2>5. Of(u.out, "end") # <<>> /\ Of(u.out, "end")[1].x.usage = SentBy(w)
    BY <2>2, <2>4 DEF EndIsLast, Quiet, SentBy
  <2>6. {j \in DOMAIN u.out : u.out[j].type = "end"} # {}
    BY <2>4 DEF HasEnd
  <2>7. CASE format = "responses"
    <3>1. Placed(w, Ev("done", 0))
      BY DEF Placed, Ev
    <3>2. Whole(u)
      BY <2>1, <2>7, <3>1, WholeWrite DEF u
    <3>3. Tidy => Repeated(u.out)
      BY <2>2, <3>2, WholeRepeated
    <3>4. EndsOnce(u.out)
      BY <2>4, EndIsOnce
    <3> QED BY <1>3, <2>2, <2>3, <2>4, <2>5, <2>6, <2>7, <3>3, <3>4 DEF Quiet, v
  <2>8. CASE format # "responses"
    <3>1. v = Put(u, "stop", 0)
      BY <2>3, <2>8
    <3>2. /\ IsSeq(v.out) /\ EndsOnce(v.out)
          /\ {j \in DOMAIN v.out : v.out[j].type = "end"} = {j \in DOMAIN u.out : u.out[j].type = "end"}
          /\ {j \in DOMAIN v.out : v.out[j].type = "stop"} # {}
          /\ Deltas(v.out) = Deltas(u.out) /\ CallsSeen(v.out) = CallsSeen(u.out)
          /\ Of(v.out, "end") = Of(u.out, "end")
      BY <1>1, <2>4, <3>1
    <3>3. Tidy => Paired(v.out)
      <4>1. v.out = Append(u.out, stop(u))
        BY <2>4, <3>1, PutEffect
      <4>2. stop(u).type = "stop"
        BY DEF Event
      <4> HIDE DEF stop
      <4> QED BY <2>4, <4>1, <4>2, PairedAppend
    <3> QED BY <1>3, <2>2, <2>5, <2>6, <2>8, <3>2, <3>3 DEF Quiet, v
  <2> QED BY <2>7, <2>8
<1> QED BY <1>2, <1>3

-----------------------------------------------------------------------------
(* The events of a line, one after the other *)

\* What FoldLeft is by its definition, for an operator Op given by its graph: f gives what
\* is made of the elements of evs at each set of places
Fed(format, w0, evs) == FoldLeft(LAMBDA w, ev : Write(format, w, ev), w0, evs)

IsFed(f, format, w, evs) ==
    f = [s \in SUBSET DOMAIN evs |->
            IF s = {} THEN w ELSE Write(format, f[s \ {Max(s)}], evs[Max(s)])]

LEMMA FedByParts ==
    ASSUME NEW format, NEW w, NEW evs
    PROVE  Fed(format, w, evs) = (CHOOSE f : IsFed(f, format, w, evs))[DOMAIN evs]
BY DEF Fed, FoldLeft, MapThenFoldSet, IsFed

LEMMA MaxOfOne == ASSUME NEW n \in Int PROVE Max({n}) = n
BY DEF Max

LEMMA MaxOfTwo == Max({1, 2}) = 2
BY DEF Max

LEMMA FedNone == ASSUME NEW format, NEW w PROVE Fed(format, w, <<>>) = w
<1> DEFINE e == <<>>
           g == [s \in SUBSET DOMAIN e |-> w]
<1>1. DOMAIN e = {}
  BY EmptyIsSeq
<1> HIDE DEF e
<1>2. IsFed(g, format, w, e)
  <2>1. \A s \in SUBSET DOMAIN e : s = {}
    BY <1>1
  <2> QED BY <2>1 DEF IsFed
<1> HIDE DEF g
<1>3. PICK f : f = (CHOOSE h : IsFed(h, format, w, e)) /\ IsFed(f, format, w, e)
  BY <1>2
<1>4. f[DOMAIN e] = w
  BY <1>1, <1>3 DEF IsFed
<1>5. Fed(format, w, e) = w
  BY <1>3, <1>4, FedByParts
<1> QED BY <1>5 DEF e

LEMMA FedOne ==
    ASSUME NEW format, NEW w, NEW evs, DOMAIN evs = {1}
    PROVE  Fed(format, w, evs) = Write(format, w, evs[1])
<1> DEFINE v == Write(format, w, evs[1])
           g == [s \in SUBSET {1} |-> IF s = {} THEN w ELSE v]
<1>1. IsFed(g, format, w, evs)
  <2>1. ASSUME NEW s \in SUBSET {1}, s # {}
        PROVE  s = {1} /\ Max(s) = 1 /\ s \ {Max(s)} = {}
    <3>1. s = {1}
      BY <2>1
    <3>2. Max(s) = 1
      BY <3>1, MaxOfOne
    <3> QED BY <3>1, <3>2
  <2>2. g[{}] = w
    OBVIOUS
  <2>3. \A s \in SUBSET {1} : g[s] = IF s = {} THEN w ELSE Write(format, g[s \ {Max(s)}], evs[Max(s)])
    BY <2>1, <2>2
  <2>4. g = [s \in SUBSET {1} |-> g[s]]
    OBVIOUS
  <2> HIDE DEF g
  <2> QED BY <2>3, <2>4 DEF IsFed
<1> HIDE DEF g, v
<1>2. PICK f : f = (CHOOSE h : IsFed(h, format, w, evs)) /\ IsFed(f, format, w, evs)
  BY <1>1
<1>3. \A s \in SUBSET {1} : f[s] = IF s = {} THEN w ELSE Write(format, f[s \ {Max(s)}], evs[Max(s)])
  BY <1>2 DEF IsFed
<1>4. f[{}] = w
  BY <1>3
<1>5. Max({1}) = 1 /\ {1} \ {1} = {}
  BY MaxOfOne
<1>6. f[{1}] = Write(format, f[{1} \ {Max({1})}], evs[Max({1})])
  BY <1>3
<1>7. f[{1}] = Write(format, w, evs[1])
  BY <1>4, <1>5, <1>6
<1> QED BY <1>2, <1>7, FedByParts

LEMMA FedTwo ==
    ASSUME NEW format, NEW w, NEW evs, DOMAIN evs = {1, 2}
    PROVE  Fed(format, w, evs) = Write(format, Write(format, w, evs[1]), evs[2])
<1> DEFINE P == SUBSET {1, 2}
           v == Write(format, w, evs[1])
           g == [s \in P |-> IF s = {} THEN w ELSE
                             IF s = {1} THEN v ELSE
                             IF s = {2} THEN Write(format, w, evs[2])
                             ELSE Write(format, v, evs[2])]
<1>1. /\ Max({1}) = 1 /\ Max({2}) = 2 /\ Max({1, 2}) = 2
      /\ {1} \ {1} = {} /\ {2} \ {2} = {} /\ {1, 2} \ {2} = {1}
  BY MaxOfOne, MaxOfTwo
<1>2. IsFed(g, format, w, evs)
  <2>1. g[{}] = w /\ g[{1}] = v /\ g[{2}] = Write(format, w, evs[2]) /\ g[{1, 2}] = Write(format, v, evs[2])
    <3>1. {1} # {} /\ {2} # {} /\ {1, 2} # {} /\ {2} # {1} /\ {1, 2} # {1} /\ {1, 2} # {2}
      OBVIOUS
    <3> QED BY <3>1
  <2>2. g = [s \in P |-> g[s]]
    OBVIOUS
  <2> HIDE DEF g
  <2>3. ASSUME NEW s \in P
        PROVE  g[s] = IF s = {} THEN w ELSE Write(format, g[s \ {Max(s)}], evs[Max(s)])
    <3>1. s = {} \/ s = {1} \/ s = {2} \/ s = {1, 2}
      BY <2>3
    <3>2. CASE s = {}
      BY <2>1, <3>2
    <3>3. CASE s = {1}
      BY <1>1, <2>1, <3>3
    <3>4. CASE s = {2}
      BY <1>1, <2>1, <3>4
    <3>5. CASE s = {1, 2}
      BY <1>1, <2>1, <3>5
    <3> QED BY <3>1, <3>2, <3>3, <3>4, <3>5
  <2> QED BY <2>2, <2>3 DEF IsFed
<1> HIDE DEF g, v
<1>3. PICK f : f = (CHOOSE h : IsFed(h, format, w, evs)) /\ IsFed(f, format, w, evs)
  BY <1>2
<1>4. \A s \in P : f[s] = IF s = {} THEN w ELSE Write(format, f[s \ {Max(s)}], evs[Max(s)])
  BY <1>3 DEF IsFed
<1>5. {} \in P /\ {1} \in P /\ {1, 2} \in P /\ {1} # {} /\ {1, 2} # {}
  OBVIOUS
<1> HIDE DEF P
<1>6. f[{}] = w
  BY <1>4, <1>5
<1>7. f[{1}] = v
  BY <1>1, <1>4, <1>5, <1>6 DEF v
<1>8. f[{1, 2}] = Write(format, v, evs[2])
  BY <1>1, <1>4, <1>5, <1>7
<1> QED BY <1>3, <1>8, FedByParts DEF v

-----------------------------------------------------------------------------
(* A line fed *)

Took(r, after) ==
    /\ phase = "feed" /\ from' = from /\ to' = to
    /\ reader' = r /\ said' = after /\ fed' = fed + 1

\* The events of the line
Heard(line) == Read(from, reader, line).events

LEMMA FeedSteps ==
    ASSUME NEW line, NEW after, Feed(line, after)
    PROVE  /\ Took(Read(from, reader, line).reader, after)
           /\ writer' = Fed(to, writer, Heard(line))
           /\ phase' = IF \E k \in DOMAIN Heard(line) : Heard(line)[k].kind = "done"
                        THEN "close" ELSE "feed"
<1>1. Took(Read(from, reader, line).reader, after)
  BY DEF Feed, Took
<1>2. writer' = Fed(to, writer, Heard(line))
  BY DEF Feed, Fed, Heard
<1>3. phase' = IF \E k \in DOMAIN Heard(line) : Heard(line)[k].kind = "done"
               THEN "close" ELSE "feed"
  BY DEF Feed, Heard
<1> QED BY <1>1, <1>2, <1>3

LEMMA FeedNone ==
    ASSUME NEW line, NEW after, Feed(line, after), NEW r,
           Read(from, reader, line) = [reader |-> r, events |-> <<>>]
    PROVE  Took(r, after) /\ writer' = writer /\ phase' = "feed"
<1>1. Read(from, reader, line).reader = r /\ Heard(line) = <<>>
  BY DEF Heard
<1>2. DOMAIN Heard(line) = {}
  BY <1>1, EmptyIsSeq
<1>3. writer' = writer
  BY <1>1, FeedSteps, FedNone
<1> QED BY <1>1, <1>2, <1>3, FeedSteps

LEMMA FeedOne ==
    ASSUME NEW line, NEW after, Feed(line, after), NEW r, NEW a,
           Read(from, reader, line) = [reader |-> r, events |-> <<a>>]
    PROVE  /\ Took(r, after) /\ writer' = Write(to, writer, a)
           /\ a.kind = "done" => phase' = "close"
           /\ a.kind # "done" => phase' = "feed"
<1>1. /\ Read(from, reader, line).reader = r
      /\ DOMAIN Heard(line) = {1} /\ Heard(line)[1] = a
  BY DEF Heard
<1>2. writer' = Write(to, writer, a)
  BY <1>1, FeedSteps, FedOne
<1> QED BY <1>1, <1>2, FeedSteps

LEMMA FeedTwo ==
    ASSUME NEW line, NEW after, Feed(line, after), NEW r, NEW a, NEW b,
           Read(from, reader, line) = [reader |-> r, events |-> <<a, b>>]
    PROVE  /\ Took(r, after) /\ writer' = Write(to, Write(to, writer, a), b)
           /\ a.kind = "done" \/ b.kind = "done" => phase' = "close"
           /\ a.kind # "done" /\ b.kind # "done" => phase' = "feed"
<1>1. /\ Read(from, reader, line).reader = r
      /\ DOMAIN Heard(line) = {1, 2} /\ Heard(line)[1] = a /\ Heard(line)[2] = b
  BY DEF Heard
<1>2. writer' = Write(to, Write(to, writer, a), b)
  BY <1>1, FeedSteps, FedTwo
<1> QED BY <1>1, <1>2, FeedSteps

-----------------------------------------------------------------------------
(* What the lines say *)

LEMMA EvsOfOne ==
    ASSUME NEW kind, NEW x
    PROVE  Evs(kind, <<>>) = <<>> /\ Evs(kind, <<x>>) = <<Ev(kind, x)>>
<1>1. Evs(kind, <<>>) = <<>>
  BY DEF Evs
<1>2. Evs(kind, <<x>>) = <<Ev(kind, x)>>
  BY DEF Evs
<1> QED BY <1>1, <1>2

LEMMA Joined ==
    ASSUME NEW a, NEW b
    PROVE  /\ <<>> \o <<>> = <<>> /\ <<>> \o <<a>> = <<a>> /\ <<a>> \o <<>> = <<a>>
           /\ <<a>> \o <<b>> = <<a, b>> /\ <<>> \o <<a, b>> = <<a, b>> /\ <<a, b>> \o <<>> = <<a, b>>
<1>1. <<>> \o <<>> = <<>>
  OBVIOUS
<1>2. <<>> \o <<a>> = <<a>>
  OBVIOUS
<1>3. <<a>> \o <<>> = <<a>>
  OBVIOUS
<1>4. <<a>> \o <<b>> = <<a, b>>
  <2> DEFINE s == <<a>>
             t == <<b>>
             u == <<a, b>>
             S == {a, b}
  <2>1. /\ s \in Seq(S) /\ t \in Seq(S) /\ u \in Seq(S)
        /\ Len(s) = 1 /\ Len(t) = 1 /\ Len(u) = 2
        /\ s[1] = a /\ t[1] = b /\ u[1] = a /\ u[2] = b
    OBVIOUS
  <2> HIDE DEF s, t, u
  <2>2. /\ s \o t \in Seq(S) /\ Len(s \o t) = 2
        /\ (s \o t)[1] = a /\ (s \o t)[2] = b
    <3>1. s \o t \in Seq(S)
      BY <2>1, ConcatProperties
    <3>2. Len(s \o t) = 2
      BY <2>1, ConcatProperties
    <3>3. 1 \in 1 .. Len(s) + Len(t) /\ 2 \in 1 .. Len(s) + Len(t) /\ 1 <= Len(s) /\ ~(2 <= Len(s)) /\ 2 - Len(s) = 1
      BY <2>1
    <3>4. (s \o t)[1] = s[1]
      BY <2>1, <3>3, ConcatProperties
    <3>5. (s \o t)[2] = t[2 - Len(s)]
      BY <2>1, <3>3, ConcatProperties
    <3> QED BY <2>1, <3>1, <3>2, <3>3, <3>4, <3>5
  <2> HIDE DEF S
  <2>3. IsSeq(s \o t) /\ IsSeq(u)
    BY <2>1, <2>2 DEF IsSeq
  <2>4. s \o t = u
    BY <2>1, <2>2, <2>3, SameSeq
  <2> QED BY <2>4 DEF s, t, u
<1>5. <<>> \o <<a, b>> = <<a, b>>
  OBVIOUS
<1>6. <<a, b>> \o <<>> = <<a, b>>
  OBVIOUS
<1> QED BY <1>1, <1>2, <1>3, <1>4, <1>5, <1>6

\* The fragments of tool calls in one chunk, one after the other
CallsRead(s, calls) == FoldLeft(ReadCall, s, calls)

IsCallsRead(f, s, calls) ==
    f = [p \in SUBSET DOMAIN calls |->
            IF p = {} THEN s ELSE ReadCall(f[p \ {Max(p)}], calls[Max(p)])]

LEMMA CallsReadByParts ==
    ASSUME NEW s, NEW calls
    PROVE  CallsRead(s, calls) = (CHOOSE f : IsCallsRead(f, s, calls))[DOMAIN calls]
BY DEF CallsRead, FoldLeft, MapThenFoldSet, IsCallsRead

LEMMA NoCallRead == ASSUME NEW s PROVE CallsRead(s, <<>>) = s
<1> DEFINE e == <<>>
           g == [p \in SUBSET DOMAIN e |-> s]
<1>1. DOMAIN e = {}
  BY EmptyIsSeq
<1> HIDE DEF e
<1>2. IsCallsRead(g, s, e)
  <2>1. \A p \in SUBSET DOMAIN e : p = {}
    BY <1>1
  <2> QED BY <2>1 DEF IsCallsRead
<1> HIDE DEF g
<1>3. PICK f : f = (CHOOSE h : IsCallsRead(h, s, e)) /\ IsCallsRead(f, s, e)
  BY <1>2
<1>4. f[DOMAIN e] = s
  BY <1>1, <1>3 DEF IsCallsRead
<1>5. CallsRead(s, e) = s
  BY <1>3, <1>4, CallsReadByParts
<1> QED BY <1>5 DEF e

LEMMA OneCallRead ==
    ASSUME NEW s, NEW c
    PROVE  CallsRead(s, <<c>>) = ReadCall(s, c)
<1> DEFINE calls == <<c>>
           v == ReadCall(s, c)
           g == [p \in SUBSET {1} |-> IF p = {} THEN s ELSE v]
<1>1. DOMAIN calls = {1} /\ calls[1] = c
  OBVIOUS
<1> HIDE DEF calls
<1>2. IsCallsRead(g, s, calls)
  <2>1. ASSUME NEW p \in SUBSET {1}, p # {}
        PROVE  p = {1} /\ Max(p) = 1 /\ p \ {Max(p)} = {}
    <3>1. p = {1}
      BY <2>1
    <3>2. Max(p) = 1
      BY <3>1, MaxOfOne
    <3> QED BY <3>1, <3>2
  <2>2. g[{}] = s
    OBVIOUS
  <2>3. \A p \in SUBSET {1} : g[p] = IF p = {} THEN s ELSE ReadCall(g[p \ {Max(p)}], calls[Max(p)])
    BY <1>1, <2>1, <2>2
  <2>4. g = [p \in SUBSET {1} |-> g[p]]
    OBVIOUS
  <2> HIDE DEF g
  <2> QED BY <1>1, <2>3, <2>4 DEF IsCallsRead
<1> HIDE DEF g, v
<1>3. PICK f : f = (CHOOSE h : IsCallsRead(h, s, calls)) /\ IsCallsRead(f, s, calls)
  BY <1>2
<1>4. \A p \in SUBSET {1} : f[p] = IF p = {} THEN s ELSE ReadCall(f[p \ {Max(p)}], calls[Max(p)])
  BY <1>1, <1>3 DEF IsCallsRead
<1>5. f[{}] = s
  BY <1>4
<1>6. Max({1}) = 1 /\ {1} \ {1} = {}
  BY MaxOfOne
<1>7. f[{1}] = ReadCall(f[{1} \ {Max({1})}], calls[Max({1})])
  BY <1>4
<1>8. f[{1}] = ReadCall(s, c)
  BY <1>1, <1>5, <1>6, <1>7
<1> QED BY <1>1, <1>3, <1>8, CallsReadByParts DEF calls

-----------------------------------------------------------------------------
(* The lines of Chat Completions *)

LEMMA ChunkRead ==
    ASSUME NEW r, NEW line, line.type = "chunk"
    PROVE  LET said0 == Evs("reasoning", line.reasoning) \o Evs("text", line.text)
               calls == CallsRead([reader |-> r, events |-> said0], line.calls)
           IN  Read("completions", r, line) =
                 [calls EXCEPT !.events = @ \o Evs("finish", line.finish)
                                            \o Evs("usage", line.usage)]
BY DEF Read, ReadCompletions, CallsRead

LEMMA EventsReplaced ==
    ASSUME NEW c, NEW q, NEW e, c = [reader |-> q, events |-> e], NEW y
    PROVE  c.events = e /\ [c EXCEPT !.events = y] = [reader |-> q, events |-> y]
OBVIOUS

\* A chunk by its parts: what it says before its calls, what they say, its ending
LEMMA ChunkParts ==
    ASSUME NEW r, NEW line, line.type = "chunk", NEW q, NEW evs,
           CallsRead([reader |-> r,
                      events |-> Evs("reasoning", line.reasoning) \o Evs("text", line.text)],
                     line.calls) = [reader |-> q, events |-> evs]
    PROVE  Read("completions", r, line) =
              [reader |-> q,
               events |-> evs \o Evs("finish", line.finish) \o Evs("usage", line.usage)]
<1> DEFINE calls == CallsRead([reader |-> r,
                      events |-> Evs("reasoning", line.reasoning) \o Evs("text", line.text)],
                     line.calls)
           tail == calls.events \o Evs("finish", line.finish) \o Evs("usage", line.usage)
<1>1. Read("completions", r, line) = [calls EXCEPT !.events = tail]
  BY ChunkRead
<1>2. calls = [reader |-> q, events |-> evs]
  OBVIOUS
<1> HIDE DEF calls
<1>3. tail = evs \o Evs("finish", line.finish) \o Evs("usage", line.usage)
  BY <1>2, EventsReplaced
<1> HIDE DEF tail
<1>4. [calls EXCEPT !.events = tail] = [reader |-> q, events |-> tail]
  BY <1>2, EventsReplaced
<1> QED BY <1>1, <1>3, <1>4

LEMMA ReadsDelta ==
    ASSUME NEW r, NEW kind \in {"reasoning", "text"}, NEW x
    PROVE  Read("completions", r, [Chunk EXCEPT ![kind] = <<x>>]) =
              [reader |-> r, events |-> <<Ev(kind, x)>>]
<1> DEFINE line == [Chunk EXCEPT ![kind] = <<x>>]
           base == <<Ev(kind, x)>>
<1>1. /\ line.type = "chunk" /\ line.calls = <<>> /\ line.finish = <<>> /\ line.usage = <<>>
      /\ line.reasoning = IF kind = "reasoning" THEN <<x>> ELSE <<>>
      /\ line.text = IF kind = "text" THEN <<x>> ELSE <<>>
  BY DEF Chunk
<1> HIDE DEF line
<1>2. base = Evs("reasoning", line.reasoning) \o Evs("text", line.text)
  BY <1>1, EvsOfOne, Joined
<1>3. base \o Evs("finish", line.finish) \o Evs("usage", line.usage) = base
  BY <1>1, EvsOfOne, Joined
<1> HIDE DEF base
<1>4. CallsRead([reader |-> r, events |-> base], line.calls) = [reader |-> r, events |-> base]
  BY <1>1, NoCallRead
<1> DEFINE calls == CallsRead([reader |-> r,
                               events |-> Evs("reasoning", line.reasoning) \o Evs("text", line.text)],
                              line.calls)
<1>5. calls = [reader |-> r, events |-> base]
  BY <1>2, <1>4
<1> HIDE DEF calls
<1>6. Read("completions", r, line) =
         [reader |-> r, events |-> base \o Evs("finish", line.finish) \o Evs("usage", line.usage)]
  BY <1>1, <1>5, ChunkParts DEF calls
<1> QED BY <1>3, <1>5, <1>6 DEF base, line

\* The reader after a fragment of a call, and whether the fragment starts the call
AfterCall(r, tc) == ReadCall([reader |-> r, events |-> <<>>], tc).reader
Starts(r, tc) ==
    LET idx == IF tc.index = NoIndex THEN r.toolIdx + 1 ELSE tc.index
    IN  idx > r.toolIdx \/ (tc.id # NoId /\ ~r.hasId)

LEMMA ReadsCall ==
    ASSUME NEW r, NEW tc, NEW x, tc.args = <<>> \/ tc.args = <<x>>,
           NEW starts, starts = IF Starts(r, tc) THEN <<Ev("tool_start", tc.id)>> ELSE <<>>
    PROVE  Read("completions", r, [Chunk EXCEPT !.calls = <<tc>>]) =
              [reader |-> AfterCall(r, tc), events |-> starts \o Evs("tool_args", tc.args)]
<1> DEFINE line == [Chunk EXCEPT !.calls = <<tc>>]
           args == Evs("tool_args", tc.args)
<1>1. /\ line.type = "chunk" /\ line.calls = <<tc>> /\ line.finish = <<>> /\ line.usage = <<>>
      /\ line.reasoning = <<>> /\ line.text = <<>>
  BY DEF Chunk
<1> HIDE DEF line
<1>2. <<>> = Evs("reasoning", line.reasoning) \o Evs("text", line.text)
  BY <1>1, EvsOfOne, Joined
<1> DEFINE s == [reader |-> r, events |-> <<>>]
<1>3. ReadCall(s, tc) = [reader |-> AfterCall(r, tc), events |-> <<>> \o starts \o args]
  BY DEF ReadCall, AfterCall, Starts
<1>4. CallsRead(s, line.calls) = [reader |-> AfterCall(r, tc), events |-> <<>> \o starts \o args]
  BY <1>1, <1>3, OneCallRead
<1> DEFINE calls == CallsRead([reader |-> r,
                               events |-> Evs("reasoning", line.reasoning) \o Evs("text", line.text)],
                              line.calls)
<1>5. calls = [reader |-> AfterCall(r, tc), events |-> <<>> \o starts \o args]
  BY <1>2, <1>4
<1> HIDE DEF calls
<1>6. Read("completions", r, line) =
         [reader |-> AfterCall(r, tc),
          events |-> <<>> \o starts \o args \o Evs("finish", line.finish) \o Evs("usage", line.usage)]
  BY <1>1, <1>5, ChunkParts DEF calls
<1>7. /\ Evs("finish", line.finish) = <<>> /\ Evs("usage", line.usage) = <<>>
  BY <1>1, EvsOfOne
<1>8. args = <<>> \/ args = <<Ev("tool_args", x)>>
  BY EvsOfOne
<1>9. <<>> \o starts \o args \o <<>> \o <<>> = starts \o args
  <2> HIDE DEF args
  <2>1. <<>> \o starts = starts
    BY Joined
  <2>2. starts \o args \o <<>> = starts \o args
    BY <1>8, Joined
  <2> QED BY <2>1, <2>2
<1> QED BY <1>6, <1>7, <1>9 DEF line

\* A chunk that says neither content nor calls
LEMMA ReadsEnding ==
    ASSUME NEW r, NEW line, line.type = "chunk", line.calls = <<>>,
           line.reasoning = <<>>, line.text = <<>>, NEW x, NEW u,
           line.finish = <<>> \/ line.finish = <<x>>, line.usage = <<>> \/ line.usage = <<u>>
    PROVE  Read("completions", r, line) =
              [reader |-> r, events |-> Evs("finish", line.finish) \o Evs("usage", line.usage)]
<1>1. <<>> = Evs("reasoning", line.reasoning) \o Evs("text", line.text)
  BY EvsOfOne, Joined
<1> DEFINE calls == CallsRead([reader |-> r,
                               events |-> Evs("reasoning", line.reasoning) \o Evs("text", line.text)],
                              line.calls)
<1>2. calls = [reader |-> r, events |-> <<>>]
  BY <1>1, NoCallRead
<1>3. Read("completions", r, line) =
         [reader |-> r, events |-> <<>> \o Evs("finish", line.finish) \o Evs("usage", line.usage)]
  BY <1>2, ChunkParts
<1>4. <<>> \o Evs("finish", line.finish) = Evs("finish", line.finish)
  BY EvsOfOne, Joined
<1> QED BY <1>3, <1>4

-----------------------------------------------------------------------------
(* The lines of Responses *)

LEMMA ReadsPartAdded ==
    ASSUME NEW r, NEW line, line = [type |-> "part_added"]
    PROVE  Read("responses", r, line) = [reader |-> r, events |-> <<Ev("start", "reasoning")>>]
BY DEF Read, ReadResponses

LEMMA ReadsItemDelta ==
    ASSUME NEW r, NEW x, NEW frag, NEW line, line = [type |-> "delta", x |-> x, frag |-> frag]
    PROVE  /\ x = "tool" => Read("responses", r, line) =
                  [reader |-> [r EXCEPT !.hasTool = TRUE], events |-> <<Ev("tool_args", frag)>>]
           /\ x # "tool" => Read("responses", r, line) =
                  [reader |-> r, events |-> <<Ev(x, frag)>>]
BY DEF Read, ReadResponses

LEMMA ReadsItemDone ==
    ASSUME NEW r, NEW x, NEW line, line = [type |-> "item_done", x |-> x]
    PROVE  Read("responses", r, line) =
              [reader |-> IF x = "tool" THEN [r EXCEPT !.hasTool = TRUE] ELSE r,
               events |-> <<Ev("end_block", 0)>>]
BY DEF Read, ReadResponses

LEMMA ReadsCompleted ==
    ASSUME NEW r, NEW status, NEW usage, NEW line,
           line = [type |-> "completed", status |-> status, usage |-> usage]
    PROVE  Read("responses", r, line) =
              [reader |-> r,
               events |-> <<Ev("finish", FinishOf(r, status))>> \o Evs("usage", usage)]
BY DEF Read, ReadResponses

LEMMA ReadsFailed ==
    ASSUME NEW r, NEW line, line = [type |-> "failed"]
    PROVE  Read("responses", r, line) = [reader |-> r, events |-> <<Ev("finish", "content_filter")>>]
BY DEF Read, ReadResponses

LEMMA ReadsIncomplete ==
    ASSUME NEW r, NEW usage, NEW line, line = [type |-> "incomplete", usage |-> usage]
    PROVE  Read("responses", r, line) = [reader |-> r, events |-> <<>>]
BY DEF Read, ReadResponses

LEMMA ReadsError ==
    ASSUME NEW r, NEW format \in {"responses", "anthropic"}, NEW line, line = [type |-> "error"]
    PROVE  Read(format, r, line) = [reader |-> r, events |-> <<Ev("error", 0)>>]
BY DEF Read, ReadResponses, ReadAnthropic

-----------------------------------------------------------------------------
(* The lines of Anthropic *)

LEMMA ReadsMessageStart ==
    ASSUME NEW r, NEW usage, NEW line, line = [type |-> "message_start", usage |-> usage]
    PROVE  Read("anthropic", r, line) = [reader |-> MergeUsage(r, usage), events |-> <<>>]
BY DEF Read, ReadAnthropic

LEMMA ReadsBlockDelta ==
    ASSUME NEW r, NEW x, NEW frag, NEW line, line = [type |-> "delta", x |-> x, frag |-> frag]
    PROVE  Read("anthropic", r, line) = [reader |-> r, events |-> <<Fragment(x, frag)>>]
BY DEF Read, ReadAnthropic, Fragment

LEMMA ReadsBlockStop ==
    ASSUME NEW r, NEW line, line = [type |-> "block_stop"]
    PROVE  Read("anthropic", r, line) = [reader |-> r, events |-> <<Ev("end_block", 0)>>]
BY DEF Read, ReadAnthropic

LEMMA ReadsMessageDelta ==
    ASSUME NEW r, NEW finish, NEW usage, NEW line,
           line = [type |-> "message_delta", finish |-> finish, usage |-> usage]
    PROVE  /\ usage = <<>> => Read("anthropic", r, line) =
                  [reader |-> r, events |-> Evs("finish", finish)]
           /\ usage # <<>> => Read("anthropic", r, line) =
                  [reader |-> [MergeUsage(r, usage) EXCEPT !.emitted = TRUE],
                   events |-> Evs("finish", finish) \o <<Ev("usage", MergeUsage(r, usage).usage)>>]
BY DEF Read, ReadAnthropic

LEMMA ReadsMessageStop ==
    ASSUME NEW r, NEW line, line = [type |-> "message_stop"]
    PROVE  /\ r.seen /\ ~r.emitted => Read("anthropic", r, line) =
                  [reader |-> [r EXCEPT !.emitted = TRUE],
                   events |-> <<Ev("usage", r.usage), Ev("done", 0)>>]
           /\ ~(r.seen /\ ~r.emitted) => Read("anthropic", r, line) =
                  [reader |-> r, events |-> <<Ev("done", 0)>>]
BY DEF Read, ReadAnthropic

-----------------------------------------------------------------------------
(* What the actions of the upstream do to the writer *)

\* The events are written, one or two
WritesOne(a)    == writer' = Write(to, writer, a)
WritesTwo(a, b) == writer' = Write(to, Write(to, writer, a), b)

LEMMA ChunkDeltaStep ==
    ASSUME ChunkDelta
    PROVE  /\ from = "completions" /\ Running /\ phase' = "feed"
           /\ \E kind \in {"reasoning", "text"} : \E x \in Frag(kind) :
                 Took(reader, Said(kind, x)) /\ WritesOne(Fragment(kind, x))
<1>1. PICK kind \in {"reasoning", "text"} : \E x \in Frag(kind) :
          Feed([Chunk EXCEPT ![kind] = <<x>>], Said(kind, x))
  BY DEF ChunkDelta
<1>2. PICK x \in Frag(kind) : Feed([Chunk EXCEPT ![kind] = <<x>>], Said(kind, x))
  BY <1>1
<1>3. from = "completions" /\ Running
  BY DEF ChunkDelta
<1> DEFINE line == [Chunk EXCEPT ![kind] = <<x>>]
<1>4. Read(from, reader, line) = [reader |-> reader, events |-> <<Ev(kind, x)>>]
  BY <1>3, ReadsDelta
<1>5. Ev(kind, x).kind # "done" /\ Fragment(kind, x) = Ev(kind, x)
  BY DEF Ev, Fragment
<1> HIDE DEF line
<1>6. Feed(line, Said(kind, x))
  BY <1>2 DEF line
<1>7. Took(reader, Said(kind, x)) /\ writer' = Write(to, writer, Ev(kind, x)) /\ phase' = "feed"
  BY <1>4, <1>5, <1>6, FeedOne
<1> QED BY <1>3, <1>5, <1>7 DEF WritesOne

\* The first fragment of a call is fed, with an id or none and at most one argument x
CallFed(id, index, x, args) ==
    LET tc == [index |-> index, id |-> id, args |-> args]
    IN  /\ Took(AfterCall(reader, tc), SaidArgs(SaidCall(id), NextId, args, NoId))
        /\ args = <<>> \/ args = <<x>>
        /\ Starts(reader, tc) /\ args = <<>> => WritesOne(Ev("tool_start", id))
        /\ Starts(reader, tc) /\ args = <<x>> =>
              WritesTwo(Ev("tool_start", id), Fragment("tool", x))
        /\ ~Starts(reader, tc) /\ args = <<>> => writer' = writer
        /\ ~Starts(reader, tc) /\ args = <<x>> => WritesOne(Fragment("tool", x))

LEMMA ChunkCallStep ==
    ASSUME ChunkCall
    PROVE  /\ from = "completions" /\ Running /\ phase' = "feed"
           /\ \E id \in {NoId, NextId}, index \in {NoIndex, Len(said.calls)} :
                 \E x, args : CallFed(id, index, x, args)
<1> DEFINE x == [n |-> fed + 1, prelude |-> FALSE]
<1>1. PICK id \in {NoId, NextId}, index \in {NoIndex, Len(said.calls)}, n \in {0, 1} :
          LET args == IF n = 0 THEN <<>> ELSE <<x>>
          IN  Feed([Chunk EXCEPT !.calls = <<[index |-> index, id |-> id, args |-> args]>>],
                   SaidArgs(SaidCall(id), NextId, args, NoId))
  BY DEF ChunkCall
<1>2. from = "completions" /\ Running
  BY DEF ChunkCall
<1> HIDE DEF x
<1> DEFINE args == IF n = 0 THEN <<>> ELSE <<x>>
           tc == [index |-> index, id |-> id, args |-> args]
           after == SaidArgs(SaidCall(id), NextId, args, NoId)
           line == [Chunk EXCEPT !.calls = <<tc>>]
           starts == IF Starts(reader, tc) THEN <<Ev("tool_start", tc.id)>> ELSE <<>>
           evs == starts \o Evs("tool_args", tc.args)
<1>3. args = <<>> \/ args = <<x>>
  OBVIOUS
<1>4. Feed(line, after)
  BY <1>1
<1> HIDE DEF args
<1>5. Read("completions", reader, line) = [reader |-> AfterCall(reader, tc), events |-> evs]
  BY <1>3, ReadsCall
<1>6. /\ tc.id = id /\ tc.args = args
      /\ Ev("tool_start", id).kind # "done" /\ Ev("tool_args", x).kind # "done"
      /\ Fragment("tool", x) = Ev("tool_args", x) /\ <<x>> # <<>>
  BY DEF Ev, Fragment
<1>7. /\ Starts(reader, tc) /\ args = <<>> => evs = <<Ev("tool_start", id)>>
      /\ Starts(reader, tc) /\ args = <<x>> => evs = <<Ev("tool_start", id), Ev("tool_args", x)>>
      /\ ~Starts(reader, tc) /\ args = <<>> => evs = <<>>
      /\ ~Starts(reader, tc) /\ args = <<x>> => evs = <<Ev("tool_args", x)>>
  BY <1>6, EvsOfOne, Joined
<1> HIDE DEF tc, after, line, evs
<1>8. CASE Starts(reader, tc) /\ args = <<>>
  <2>1. /\ Took(AfterCall(reader, tc), after) /\ writer' = Write(to, writer, Ev("tool_start", id))
        /\ phase' = "feed"
    BY <1>2, <1>4, <1>5, <1>6, <1>7, <1>8, FeedOne
  <2> QED BY <1>2, <1>6, <1>8, <2>1 DEF WritesOne, tc, after, CallFed
<1>9. CASE Starts(reader, tc) /\ args = <<x>>
  <2>1. /\ Took(AfterCall(reader, tc), after)
        /\ writer' = Write(to, Write(to, writer, Ev("tool_start", id)), Ev("tool_args", x))
        /\ phase' = "feed"
    BY <1>2, <1>4, <1>5, <1>6, <1>7, <1>9, FeedTwo
  <2> QED BY <1>2, <1>6, <1>9, <2>1 DEF WritesTwo, tc, after, CallFed
<1>10. CASE ~Starts(reader, tc) /\ args = <<>>
  <2>1. Took(AfterCall(reader, tc), after) /\ writer' = writer /\ phase' = "feed"
    BY <1>2, <1>4, <1>5, <1>6, <1>7, <1>10, FeedNone
  <2> QED BY <1>2, <1>6, <1>10, <2>1 DEF tc, after, CallFed
<1>11. CASE ~Starts(reader, tc) /\ args = <<x>>
  <2>1. /\ Took(AfterCall(reader, tc), after) /\ writer' = Write(to, writer, Ev("tool_args", x))
        /\ phase' = "feed"
    BY <1>2, <1>4, <1>5, <1>6, <1>7, <1>11, FeedOne
  <2> QED BY <1>2, <1>6, <1>11, <2>1 DEF WritesOne, tc, after, CallFed
<1> QED BY <1>3, <1>8, <1>9, <1>10, <1>11

LateArgs(k, id) == IF id # NoId /\ said.calls[k].id = NoId THEN {"late"} ELSE {}
OddArgs(k, id, index) ==
    LateArgs(k, id) \cup (IF index = NoIndex THEN {"unindexed"} ELSE {})
    \cup (IF k < Len(said.calls) \/ said.open # "tool" THEN {"interleaved"} ELSE {})

\* A later fragment x of the k-th call is fed
ArgsFed(k, id, index, x) ==
    LET tc == [index |-> index, id |-> id, args |-> <<x>>]
    IN  /\ Took(AfterCall(reader, tc),
                SaidOdd(SaidArgs(said, k, <<x>>, id), OddArgs(k, id, index)))
        /\ Starts(reader, tc) => WritesTwo(Ev("tool_start", id), Fragment("tool", x))
        /\ ~Starts(reader, tc) => WritesOne(Fragment("tool", x))

LEMMA ChunkArgsStep ==
    ASSUME ChunkArgs
    PROVE  /\ from = "completions" /\ Running /\ phase' = "feed"
           /\ \E k \in DOMAIN said.calls : \E id \in {NoId, k}, index \in {NoIndex, k - 1} :
                 \E x : ArgsFed(k, id, index, x)
<1> DEFINE x == [n |-> fed + 1, prelude |-> FALSE]
<1>1. PICK k \in DOMAIN said.calls : \E id \in {NoId, k}, index \in {NoIndex, k - 1} :
          LET odd == (IF id # NoId /\ said.calls[k].id = NoId THEN {"late"} ELSE {})
                     \cup (IF index = NoIndex THEN {"unindexed"} ELSE {})
                     \cup (IF k < Len(said.calls) \/ said.open # "tool" THEN {"interleaved"} ELSE {})
          IN  /\ odd \subseteq Odd
              /\ Feed([Chunk EXCEPT !.calls = <<[index |-> index, id |-> id, args |-> <<x>>]>>],
                      SaidOdd(SaidArgs(said, k, <<x>>, id), odd))
  BY DEF ChunkArgs
<1>2. PICK id \in {NoId, k}, index \in {NoIndex, k - 1} :
          Feed([Chunk EXCEPT !.calls = <<[index |-> index, id |-> id, args |-> <<x>>]>>],
               SaidOdd(SaidArgs(said, k, <<x>>, id), OddArgs(k, id, index)))
  BY <1>1 DEF OddArgs, LateArgs
<1>3. from = "completions" /\ Running
  BY DEF ChunkArgs
<1> HIDE DEF x
<1> DEFINE args == <<x>>
           tc == [index |-> index, id |-> id, args |-> args]
           after == SaidOdd(SaidArgs(said, k, <<x>>, id), OddArgs(k, id, index))
           line == [Chunk EXCEPT !.calls = <<tc>>]
           starts == IF Starts(reader, tc) THEN <<Ev("tool_start", tc.id)>> ELSE <<>>
           evs == starts \o Evs("tool_args", tc.args)
<1>4. Feed(line, after) /\ args = <<x>>
  BY <1>2
<1> HIDE DEF args
<1>5. Read("completions", reader, line) = [reader |-> AfterCall(reader, tc), events |-> evs]
  BY <1>4, ReadsCall
<1>6. /\ tc.id = id /\ tc.args = args
      /\ Ev("tool_start", id).kind # "done" /\ Ev("tool_args", x).kind # "done"
      /\ Fragment("tool", x) = Ev("tool_args", x)
  BY DEF Ev, Fragment
<1>7. /\ Starts(reader, tc) => evs = <<Ev("tool_start", id), Ev("tool_args", x)>>
      /\ ~Starts(reader, tc) => evs = <<Ev("tool_args", x)>>
  BY <1>4, <1>6, EvsOfOne, Joined
<1> HIDE DEF tc, after, line, evs
<1>8. CASE Starts(reader, tc)
  <2>1. /\ Took(AfterCall(reader, tc), after)
        /\ writer' = Write(to, Write(to, writer, Ev("tool_start", id)), Ev("tool_args", x))
        /\ phase' = "feed"
    BY <1>3, <1>4, <1>5, <1>6, <1>7, <1>8, FeedTwo
  <2> QED BY <1>3, <1>4, <1>6, <1>8, <2>1 DEF WritesTwo, tc, after, ArgsFed
<1>9. CASE ~Starts(reader, tc)
  <2>1. /\ Took(AfterCall(reader, tc), after) /\ writer' = Write(to, writer, Ev("tool_args", x))
        /\ phase' = "feed"
    BY <1>3, <1>4, <1>5, <1>6, <1>7, <1>9, FeedOne
  <2> QED BY <1>3, <1>4, <1>6, <1>9, <2>1 DEF WritesOne, tc, after, ArgsFed
<1> QED BY <1>8, <1>9

\* An ending: perhaps a finish reason, perhaps usage
WritesEnding(reason, usage) ==
    \/ usage = <<>> /\ WritesOne(Ev("finish", reason))
    \/ usage # <<>> /\ usage = <<usage[1]>> /\ WritesTwo(Ev("finish", reason), Ev("usage", usage[1]))

LEMMA ChunkFinishStep ==
    ASSUME ChunkFinish
    PROVE  /\ from = "completions" /\ Running /\ phase' = "feed"
           /\ \E reason : \E usage \in MaybeUsage :
                 /\ Took(reader, [said EXCEPT !.finish = <<reason>>,
                                              !.usage = IF usage = <<>> THEN @ ELSE usage])
                 /\ WritesEnding(reason, usage)
<1>1. PICK reason \in {"stop", "length", "tool_calls"}, usage \in MaybeUsage :
          Feed([Chunk EXCEPT !.finish = <<reason>>, !.usage = usage],
               [said EXCEPT !.finish = <<reason>>, !.usage = IF usage = <<>> THEN @ ELSE usage])
  BY DEF ChunkFinish
<1>2. from = "completions" /\ Running
  BY DEF ChunkFinish
<1> DEFINE line == [Chunk EXCEPT !.finish = <<reason>>, !.usage = usage]
           after == [said EXCEPT !.finish = <<reason>>, !.usage = IF usage = <<>> THEN @ ELSE usage]
           evs == Evs("finish", <<reason>>) \o Evs("usage", usage)
           u == usage[1]
<1>3. /\ line.type = "chunk" /\ line.calls = <<>> /\ line.reasoning = <<>> /\ line.text = <<>>
      /\ line.finish = <<reason>> /\ line.usage = usage
  BY DEF Chunk
<1>4. Feed(line, after)
  BY <1>1
<1>5. usage = <<>> \/ (usage = <<u>> /\ usage # <<>>)
  BY DEF MaybeUsage
<1> HIDE DEF line, after, u
<1>6. Read("completions", reader, line) = [reader |-> reader, events |-> evs]
  BY <1>3, <1>5, ReadsEnding
<1>7. Ev("finish", reason).kind # "done" /\ Ev("usage", u).kind # "done"
  BY DEF Ev
<1>8. /\ usage = <<>> => evs = <<Ev("finish", reason)>>
      /\ usage = <<u>> => evs = <<Ev("finish", reason), Ev("usage", u)>>
  <2>1. Evs("finish", <<reason>>) = <<Ev("finish", reason)>>
    BY EvsOfOne
  <2>2. Evs("usage", <<>>) = <<>> /\ Evs("usage", <<u>>) = <<Ev("usage", u)>>
    BY EvsOfOne
  <2>3. <<Ev("finish", reason)>> \o <<>> = <<Ev("finish", reason)>>
    BY Joined
  <2>4. <<Ev("finish", reason)>> \o <<Ev("usage", u)>> = <<Ev("finish", reason), Ev("usage", u)>>
    BY Joined
  <2>5. ASSUME usage = <<u>> PROVE evs = <<Ev("finish", reason), Ev("usage", u)>>
    BY <2>1, <2>2, <2>4, <2>5
  <2> QED BY <2>1, <2>2, <2>3, <2>5
<1> HIDE DEF evs
<1>9. CASE usage = <<>>
  <2>1. evs = <<Ev("finish", reason)>>
    BY <1>8, <1>9
  <2>2. Took(reader, after) /\ writer' = Write(to, writer, Ev("finish", reason)) /\ phase' = "feed"
    BY <1>2, <1>4, <1>6, <1>7, <2>1, FeedOne
  <2> QED BY <1>2, <1>9, <2>2 DEF WritesEnding, WritesOne, after
<1>10. CASE usage = <<u>> /\ usage # <<>>
  <2>1. evs = <<Ev("finish", reason), Ev("usage", u)>>
    BY <1>8, <1>10
  <2>2. /\ Took(reader, after) /\ phase' = "feed"
        /\ writer' = Write(to, Write(to, writer, Ev("finish", reason)), Ev("usage", u))
    BY <1>2, <1>4, <1>6, <1>7, <2>1, FeedTwo
  <2> QED BY <1>2, <1>10, <2>2 DEF WritesEnding, WritesTwo, after, u
<1> QED BY <1>5, <1>9, <1>10

LEMMA ChunkUsageStep ==
    ASSUME ChunkUsage
    PROVE  /\ from = "completions" /\ phase' = "feed" /\ WritesOne(Ev("usage", Tokens))
           /\ \/ ~Running /\ said.usage = <<>> /\ Took(reader, [said EXCEPT !.usage = <<Tokens>>])
              \/ Running /\ Took(reader, SaidOdd([said EXCEPT !.usage = <<Tokens>>], {"running"}))
<1> DEFINE line == [Chunk EXCEPT !.usage = <<Tokens>>]
           evs == Evs("finish", line.finish) \o Evs("usage", line.usage)
<1>1. /\ line.type = "chunk" /\ line.calls = <<>> /\ line.reasoning = <<>> /\ line.text = <<>>
      /\ line.finish = <<>> /\ line.usage = <<Tokens>>
  BY DEF Chunk
<1>2. PICK after : /\ Feed(line, after)
                   /\ \/ ~Running /\ said.usage = <<>> /\ after = [said EXCEPT !.usage = <<Tokens>>]
                      \/ Running /\ after = SaidOdd([said EXCEPT !.usage = <<Tokens>>], {"running"})
  BY DEF ChunkUsage
<1>3. from = "completions"
  BY DEF ChunkUsage
<1> HIDE DEF line
<1>4. evs = <<Ev("usage", Tokens)>>
  BY <1>1, EvsOfOne, Joined
<1>5. Read("completions", reader, line) = [reader |-> reader, events |-> <<Ev("usage", Tokens)>>]
  BY <1>1, <1>4, ReadsEnding
<1>6. Ev("usage", Tokens).kind # "done"
  BY DEF Ev
<1>7. Took(reader, after) /\ writer' = Write(to, writer, Ev("usage", Tokens)) /\ phase' = "feed"
  BY <1>2, <1>3, <1>5, <1>6, FeedOne
<1> QED BY <1>2, <1>3, <1>7 DEF WritesOne

LEMMA ChunkDoneStep ==
    ASSUME ChunkDone
    PROVE  /\ from = "completions" /\ ~Running /\ phase' = "close"
           /\ Took(reader, [said EXCEPT !.whole = TRUE]) /\ WritesOne(Ev("done", 0))
<1> DEFINE line == [type |-> "done"]
<1>1. from = "completions" /\ ~Running /\ Feed(line, [said EXCEPT !.whole = TRUE])
  BY DEF ChunkDone
<1>2. Read("completions", reader, line) = [reader |-> reader, events |-> <<Ev("done", 0)>>]
  BY DEF Read, ReadCompletions
<1>3. Ev("done", 0).kind = "done"
  BY DEF Ev
<1> HIDE DEF line
<1> QED BY <1>1, <1>2, <1>3, FeedOne DEF WritesOne

LEMMA ItemAddedStep ==
    ASSUME ItemAdded
    PROVE  /\ from = "responses" /\ Running /\ said.open = NoBlock /\ phase' = "feed"
           /\ \/ \E r : Took(r, SaidCall(NextId)) /\ WritesOne(Ev("tool_start", NextId))
              \/ \E kind \in {"reasoning", "text"} :
                    Took(reader, [said EXCEPT !.open = kind]) /\ WritesOne(Ev("start", kind))
<1>1. PICK kind \in {"reasoning", "text", "tool"} :
          Feed([type |-> "added", x |-> kind, id |-> NextId],
               IF kind = "tool" THEN SaidCall(NextId) ELSE [said EXCEPT !.open = kind])
  BY DEF ItemAdded
<1>2. from = "responses" /\ Running /\ said.open = NoBlock
  BY DEF ItemAdded
<1> DEFINE line == [type |-> "added", x |-> kind, id |-> NextId]
           after == IF kind = "tool" THEN SaidCall(NextId) ELSE [said EXCEPT !.open = kind]
           r == IF kind = "tool" THEN [reader EXCEPT !.hasTool = TRUE] ELSE reader
           a == IF kind = "tool" THEN Ev("tool_start", NextId) ELSE Ev("start", kind)
<1>3. Feed(line, after)
  BY <1>1
<1>4. Read(from, reader, line) = [reader |-> r, events |-> <<a>>]
  <2>1. /\ kind = "tool" => Read("responses", reader, line) =
               [reader |-> [reader EXCEPT !.hasTool = TRUE], events |-> <<Ev("tool_start", NextId)>>]
        /\ kind # "tool" => Read("responses", reader, line) =
               [reader |-> reader, events |-> <<Ev("start", kind)>>]
    BY DEF Read, ReadResponses
  <2>2. CASE kind = "tool"
    BY <1>2, <2>1, <2>2
  <2>3. CASE kind # "tool"
    BY <1>2, <2>1, <2>3
  <2> QED BY <2>2, <2>3
<1>5. a.kind # "done"
  BY DEF Ev
<1> HIDE DEF line, after, r, a
<1>6. Took(r, after) /\ writer' = Write(to, writer, a) /\ phase' = "feed"
  BY <1>3, <1>4, <1>5, FeedOne
<1>7. CASE kind = "tool"
  BY <1>2, <1>6, <1>7 DEF WritesOne, after, a
<1>8. CASE kind # "tool"
  <2>1. kind \in {"reasoning", "text"} /\ after = [said EXCEPT !.open = kind] /\ r = reader
        /\ a = Ev("start", kind)
    BY <1>8 DEF after, a, r
  <2> QED BY <1>2, <1>6, <2>1 DEF WritesOne
<1> QED BY <1>7, <1>8

LEMMA PartAddedStep ==
    ASSUME PartAdded
    PROVE  /\ from = "responses" /\ Running /\ said.open = "reasoning" /\ phase' = "feed"
           /\ Took(reader, said) /\ WritesOne(Ev("start", "reasoning"))
<1> DEFINE line == [type |-> "part_added"]
<1>1. from = "responses" /\ Running /\ said.open = "reasoning" /\ Feed(line, said)
  BY DEF PartAdded
<1>2. Read(from, reader, line) = [reader |-> reader, events |-> <<Ev("start", "reasoning")>>]
  BY <1>1, ReadsPartAdded
<1>3. Ev("start", "reasoning").kind # "done"
  BY DEF Ev
<1> HIDE DEF line
<1> QED BY <1>1, <1>2, <1>3, FeedOne DEF WritesOne

LEMMA ItemTextDeltaStep ==
    ASSUME ItemTextDelta
    PROVE  /\ from = "responses" /\ Running /\ phase' = "feed"
           /\ \E kind \in {"reasoning", "text"} : \E x \in Frag(kind) :
                 /\ said.open \in {kind, NoBlock}
                 /\ Took(reader, Said(kind, x)) /\ WritesOne(Fragment(kind, x))
<1>1. PICK kind \in {"reasoning", "text"} : \E x \in Frag(kind) :
          /\ said.open \in {kind, NoBlock}
          /\ Feed([type |-> "delta", x |-> kind, frag |-> x], Said(kind, x))
  BY DEF ItemTextDelta
<1>2. PICK x \in Frag(kind) :
          /\ said.open \in {kind, NoBlock}
          /\ Feed([type |-> "delta", x |-> kind, frag |-> x], Said(kind, x))
  BY <1>1
<1>3. from = "responses" /\ Running
  BY DEF ItemTextDelta
<1> DEFINE line == [type |-> "delta", x |-> kind, frag |-> x]
<1>4. Read(from, reader, line) = [reader |-> reader, events |-> <<Ev(kind, x)>>]
  BY <1>3, ReadsItemDelta
<1>5. Ev(kind, x).kind # "done" /\ Fragment(kind, x) = Ev(kind, x)
  BY DEF Ev, Fragment
<1>6. Feed(line, Said(kind, x))
  BY <1>2
<1> HIDE DEF line
<1>7. Took(reader, Said(kind, x)) /\ writer' = Write(to, writer, Ev(kind, x)) /\ phase' = "feed"
  BY <1>4, <1>5, <1>6, FeedOne
<1> QED BY <1>2, <1>3, <1>5, <1>7 DEF WritesOne

LEMMA ItemArgsStep ==
    ASSUME ItemArgs
    PROVE  /\ from = "responses" /\ Running /\ said.open = "tool" /\ phase' = "feed"
           /\ \E r, x : /\ Took(r, SaidArgs(said, Len(said.calls), <<x>>, NoId))
                        /\ WritesOne(Fragment("tool", x))
<1>1. PICK x \in Frag("tool") : Feed([type |-> "delta", x |-> "tool", frag |-> x],
                                     SaidArgs(said, Len(said.calls), <<x>>, NoId))
  BY DEF ItemArgs
<1>2. from = "responses" /\ Running /\ said.open = "tool"
  BY DEF ItemArgs
<1> DEFINE line == [type |-> "delta", x |-> "tool", frag |-> x]
           after == SaidArgs(said, Len(said.calls), <<x>>, NoId)
           r == [reader EXCEPT !.hasTool = TRUE]
<1>3. Read(from, reader, line) = [reader |-> r, events |-> <<Ev("tool_args", x)>>]
  <2>1. Read("responses", reader, line) =
           [reader |-> [reader EXCEPT !.hasTool = TRUE], events |-> <<Ev("tool_args", x)>>]
    BY DEF Read, ReadResponses
  <2> QED BY <1>2, <2>1
<1>4. Ev("tool_args", x).kind # "done" /\ Fragment("tool", x) = Ev("tool_args", x)
  BY DEF Ev, Fragment
<1>5. Feed(line, after)
  BY <1>1
<1> HIDE DEF line, after, r
<1>6. Took(r, after) /\ writer' = Write(to, writer, Ev("tool_args", x)) /\ phase' = "feed"
  BY <1>3, <1>4, <1>5, FeedOne
<1> QED BY <1>2, <1>4, <1>6 DEF WritesOne, after

LEMMA ItemDoneStep ==
    ASSUME ItemDone
    PROVE  /\ from = "responses" /\ phase' = "feed"
           /\ \E r : Took(r, [said EXCEPT !.open = NoBlock]) /\ WritesOne(Ev("end_block", 0))
<1> DEFINE line == [type |-> "item_done", x |-> said.open]
           r == IF said.open = "tool" THEN [reader EXCEPT !.hasTool = TRUE] ELSE reader
<1>1. from = "responses" /\ Feed(line, [said EXCEPT !.open = NoBlock])
  BY DEF ItemDone
<1>2. Read(from, reader, line) = [reader |-> r, events |-> <<Ev("end_block", 0)>>]
  BY <1>1, ReadsItemDone
<1>3. Ev("end_block", 0).kind # "done"
  BY DEF Ev
<1> HIDE DEF line, r
<1> QED BY <1>1, <1>2, <1>3, FeedOne DEF WritesOne

LEMMA CompletedStep ==
    ASSUME Completed
    PROVE  /\ from = "responses" /\ Running /\ phase' = "feed"
           /\ \E reason, told : \E usage \in MaybeUsage :
                 /\ Took(reader, [said EXCEPT !.finish = <<told>>, !.usage = usage, !.whole = TRUE])
                 /\ WritesEnding(reason, usage)
<1>1. PICK status \in {"completed", "incomplete"}, usage \in MaybeUsage :
          Feed([type |-> "completed", status |-> status, usage |-> usage],
               [said EXCEPT !.finish = <<FinishOf([hasTool |-> said.calls # <<>>], status)>>,
                            !.usage = usage, !.whole = TRUE])
  BY DEF Completed
<1>2. from = "responses" /\ Running
  BY DEF Completed
<1> DEFINE line == [type |-> "completed", status |-> status, usage |-> usage]
           told == FinishOf([hasTool |-> said.calls # <<>>], status)
           after == [said EXCEPT !.finish = <<told>>, !.usage = usage, !.whole = TRUE]
           reason == FinishOf(reader, status)
           evs == <<Ev("finish", reason)>> \o Evs("usage", usage)
           u == usage[1]
<1>3. Feed(line, after)
  BY <1>1
<1>4. usage = <<>> \/ (usage = <<u>> /\ usage # <<>>)
  BY DEF MaybeUsage
<1>5. Read(from, reader, line) = [reader |-> reader, events |-> evs]
  <2>1. Read("responses", reader, line) =
           [reader |-> reader,
            events |-> <<Ev("finish", FinishOf(reader, status))>> \o Evs("usage", usage)]
    BY ReadsCompleted
  <2> QED BY <1>2, <2>1
<1> HIDE DEF line, told, reason, u
<1>6. Ev("finish", reason).kind # "done" /\ Ev("usage", u).kind # "done"
  BY DEF Ev
<1>7. /\ usage = <<>> => evs = <<Ev("finish", reason)>>
      /\ usage = <<u>> => evs = <<Ev("finish", reason), Ev("usage", u)>>
  <2>1. Evs("usage", <<>>) = <<>> /\ Evs("usage", <<u>>) = <<Ev("usage", u)>>
    BY EvsOfOne
  <2>2. <<Ev("finish", reason)>> \o <<>> = <<Ev("finish", reason)>>
    BY Joined
  <2>3. <<Ev("finish", reason)>> \o <<Ev("usage", u)>> = <<Ev("finish", reason), Ev("usage", u)>>
    BY Joined
  <2>4. ASSUME usage = <<u>> PROVE evs = <<Ev("finish", reason), Ev("usage", u)>>
    BY <2>1, <2>3, <2>4
  <2> QED BY <2>1, <2>2, <2>4
<1> HIDE DEF evs, after
<1>8. CASE usage = <<>>
  <2>1. evs = <<Ev("finish", reason)>>
    BY <1>7, <1>8
  <2>2. Took(reader, after) /\ writer' = Write(to, writer, Ev("finish", reason)) /\ phase' = "feed"
    BY <1>3, <1>5, <1>6, <2>1, FeedOne
  <2> QED BY <1>2, <1>8, <2>2 DEF WritesEnding, WritesOne, after
<1>9. CASE usage = <<u>> /\ usage # <<>>
  <2>1. evs = <<Ev("finish", reason), Ev("usage", u)>>
    BY <1>7, <1>9
  <2>2. /\ Took(reader, after) /\ phase' = "feed"
        /\ writer' = Write(to, Write(to, writer, Ev("finish", reason)), Ev("usage", u))
    BY <1>3, <1>5, <1>6, <2>1, FeedTwo
  <2> QED BY <1>2, <1>9, <2>2 DEF WritesEnding, WritesTwo, after, u
<1> QED BY <1>4, <1>8, <1>9

LEMMA ResponseFailedStep ==
    ASSUME ResponseFailed
    PROVE  /\ from = "responses" /\ Running /\ phase' = "feed"
           /\ Took(reader, [said EXCEPT !.finish = <<"content_filter">>, !.whole = TRUE])
           /\ WritesOne(Ev("finish", "content_filter"))
<1> DEFINE line == [type |-> "failed"]
           after == [said EXCEPT !.finish = <<"content_filter">>, !.whole = TRUE]
<1>1. from = "responses" /\ Running /\ Feed(line, after)
  BY DEF ResponseFailed
<1>2. Read(from, reader, line) = [reader |-> reader, events |-> <<Ev("finish", "content_filter")>>]
  BY <1>1, ReadsFailed
<1>3. Ev("finish", "content_filter").kind # "done"
  BY DEF Ev
<1> HIDE DEF line
<1> QED BY <1>1, <1>2, <1>3, FeedOne DEF WritesOne

LEMMA ResponseIncompleteStep ==
    ASSUME ResponseIncomplete
    PROVE  /\ from = "responses" /\ Running /\ phase' = "feed" /\ writer' = writer
           /\ Took(reader, SaidOdd([said EXCEPT !.finish = <<"length">>, !.usage = <<Tokens>>,
                                                !.whole = TRUE], {"incomplete"}))
<1> DEFINE line == [type |-> "incomplete", usage |-> <<Tokens>>]
           after == SaidOdd([said EXCEPT !.finish = <<"length">>, !.usage = <<Tokens>>,
                                         !.whole = TRUE], {"incomplete"})
<1>1. from = "responses" /\ Running /\ Feed(line, after)
  BY DEF ResponseIncomplete
<1>2. Read(from, reader, line) = [reader |-> reader, events |-> <<>>]
  BY <1>1, ReadsIncomplete
<1> HIDE DEF line
<1> QED BY <1>1, <1>2, FeedNone

LEMMA ErrorEventStep ==
    ASSUME ErrorEvent
    PROVE  /\ Running /\ phase' = "feed" /\ Took(reader, said) /\ WritesOne(Ev("error", 0))
<1> DEFINE line == [type |-> "error"]
<1>1. from \in {"responses", "anthropic"} /\ Running /\ Feed(line, said)
  BY DEF ErrorEvent
<1>2. Read(from, reader, line) = [reader |-> reader, events |-> <<Ev("error", 0)>>]
  BY <1>1, ReadsError
<1>3. Ev("error", 0).kind # "done"
  BY DEF Ev
<1> HIDE DEF line
<1> QED BY <1>1, <1>2, <1>3, FeedOne DEF WritesOne

-----------------------------------------------------------------------------

LEMMA MessageStartStep ==
    ASSUME MessageStart
    PROVE  /\ from = "anthropic" /\ fed = 0 /\ phase' = "feed" /\ writer' = writer
           /\ \E usage \in MaybeUsage :
                 Took(MergeUsage(reader, usage), [said EXCEPT !.usage = usage])
<1>1. PICK usage \in MaybeUsage :
          Feed([type |-> "message_start", usage |-> usage], [said EXCEPT !.usage = usage])
  BY DEF MessageStart
<1>2. from = "anthropic" /\ fed = 0
  BY DEF MessageStart
<1> DEFINE line == [type |-> "message_start", usage |-> usage]
<1>3. Read(from, reader, line) = [reader |-> MergeUsage(reader, usage), events |-> <<>>]
  BY <1>2, ReadsMessageStart
<1>4. Feed(line, [said EXCEPT !.usage = usage])
  BY <1>1
<1> HIDE DEF line
<1> QED BY <1>2, <1>3, <1>4, FeedNone

\* What is said by a block of a call that starts with its arguments
CallInFull(x) == [SaidArgs(SaidCall(NextId), NextId, <<x>>, NoId) EXCEPT !.open = "full"]

LEMMA BlockStartStep ==
    ASSUME BlockStart
    PROVE  /\ from = "anthropic" /\ Running /\ phase' = "feed"
           /\ \E os \in SUBSET {"unclosed", "doubled"} :
                 \/ Took(reader, SaidOdd(SaidCall(NextId), os)) /\ WritesOne(Ev("tool_start", NextId))
                 \/ \E x : /\ Took(reader, SaidOdd(CallInFull(x), os))
                           /\ WritesTwo(Ev("tool_start", NextId), Fragment("tool", x))
                 \/ \E kind \in {"reasoning", "text"} :
                       /\ Took(reader, SaidOdd([said EXCEPT !.open = kind], os))
                       /\ WritesOne(Ev("start", kind)) /\ (Tidy /\ to = "responses" => said.open # kind)
                 \/ \E kind \in {"reasoning", "text"}, x \in Frag("reasoning") \cup Frag("text") :
                       /\ Took(reader, SaidOdd(Said(kind, x), os))
                       /\ WritesTwo(Ev("start", kind), Fragment(kind, x)) /\ (Tidy /\ to = "responses" => said.open # kind)
<1>1. PICK kind \in {"reasoning", "text", "tool"} :
         \E input \in {<<>>} \cup {<<x>> : x \in Frag(kind)} :
          /\ Unclosed \cup Doubled(kind) \subseteq Odd
          /\ Feed([type |-> "block_start", x |-> kind, id |-> NextId, input |-> input],
                  SaidOdd(Started(kind, input), Unclosed \cup Doubled(kind)))
  BY DEF BlockStart
<1> DEFINE os == Unclosed \cup Doubled(kind)
<1>2. PICK input \in {<<>>} \cup {<<x>> : x \in Frag(kind)} :
          Feed([type |-> "block_start", x |-> kind, id |-> NextId, input |-> input],
               SaidOdd(Started(kind, input), os))
  BY <1>1
<1>3. /\ from = "anthropic" /\ Running /\ os \in SUBSET {"unclosed", "doubled"}
      /\ Tidy /\ to = "responses" /\ kind # "tool" => said.open # kind
  BY <1>1 DEF BlockStart, Unclosed, Doubled, Tidy
<1> HIDE DEF os
<1> DEFINE line == [type |-> "block_start", x |-> kind, id |-> NextId, input |-> input]
<1>4. /\ kind = "tool" => Read("anthropic", reader, line) =
              [reader |-> reader, events |-> <<Ev("tool_start", NextId)>> \o Evs("tool_args", input)]
      /\ kind # "tool" => Read("anthropic", reader, line) =
              [reader |-> reader, events |-> <<Ev("start", kind)>> \o Evs(kind, input)]
  BY DEF Read, ReadAnthropic
<1>5. CASE kind = "tool" /\ input = <<>>
  <2>1. Feed(line, SaidOdd(SaidCall(NextId), os))
    BY <1>2, <1>5 DEF Started
  <2>2. Read(from, reader, line) = [reader |-> reader, events |-> <<Ev("tool_start", NextId)>>]
    <3>1. Evs("tool_args", input) = <<>> /\ <<Ev("tool_start", NextId)>> \o <<>> = <<Ev("tool_start", NextId)>>
      BY <1>5, EvsOfOne, Joined
    <3> HIDE DEF line
    <3> QED BY <1>3, <1>5, <1>4, <3>1
  <2>3. Ev("tool_start", NextId).kind # "done"
    BY DEF Ev
  <2> HIDE DEF line
  <2> QED BY <1>3, <2>1, <2>2, <2>3, FeedOne DEF WritesOne
<1>6. CASE kind # "tool" /\ input = <<>>
  <2>1. Feed(line, SaidOdd([said EXCEPT !.open = kind], os)) /\ kind \in {"reasoning", "text"}
    BY <1>2, <1>6 DEF Started
  <2>2. Read(from, reader, line) = [reader |-> reader, events |-> <<Ev("start", kind)>>]
    <3>1. Evs(kind, input) = <<>> /\ <<Ev("start", kind)>> \o <<>> = <<Ev("start", kind)>>
      BY <1>6, EvsOfOne, Joined
    <3> HIDE DEF line
    <3> QED BY <1>3, <1>6, <1>4, <3>1
  <2>3. Ev("start", kind).kind # "done"
    BY DEF Ev
  <2> HIDE DEF line
  <2>4. /\ Took(reader, SaidOdd([said EXCEPT !.open = kind], os))
        /\ writer' = Write(to, writer, Ev("start", kind)) /\ phase' = "feed"
    BY <2>1, <2>2, <2>3, FeedOne
  <2> QED BY <1>3, <1>6, <2>1, <2>4 DEF WritesOne
<1>7. ASSUME NEW x \in Frag(kind), input = <<x>>, kind = "tool"
      PROVE  /\ Took(reader, SaidOdd(CallInFull(x), os))
             /\ WritesTwo(Ev("tool_start", NextId), Fragment("tool", x)) /\ phase' = "feed"
  <2> DEFINE after == SaidOdd(CallInFull(x), os)
  <2>1. input # <<>>
    BY <1>7
  <2>2. Feed(line, after)
    BY <1>2, <1>7, <2>1 DEF Started, CallInFull
  <2>3. Evs("tool_args", input) = <<Ev("tool_args", x)>>
    BY <1>7, EvsOfOne
  <2>4. Read(from, reader, line) =
           [reader |-> reader, events |-> <<Ev("tool_start", NextId), Ev("tool_args", x)>>]
    <3>1. <<Ev("tool_start", NextId)>> \o <<Ev("tool_args", x)>> = <<Ev("tool_start", NextId), Ev("tool_args", x)>>
      BY Joined
    <3> HIDE DEF line
    <3> QED BY <1>3, <1>7, <1>4, <2>3, <3>1
  <2>5. /\ Ev("tool_start", NextId).kind # "done" /\ Ev("tool_args", x).kind # "done"
        /\ Fragment("tool", x) = Ev("tool_args", x)
    BY DEF Ev, Fragment
  <2> HIDE DEF line, after
  <2>6. /\ Took(reader, after) /\ phase' = "feed"
        /\ writer' = Write(to, Write(to, writer, Ev("tool_start", NextId)), Ev("tool_args", x))
    BY <2>2, <2>4, <2>5, FeedTwo
  <2> QED BY <2>5, <2>6 DEF WritesTwo, after
<1>8. ASSUME NEW x \in Frag(kind), input = <<x>>, kind # "tool"
      PROVE  /\ Took(reader, SaidOdd(Said(kind, x), os)) /\ kind \in {"reasoning", "text"}
             /\ WritesTwo(Ev("start", kind), Fragment(kind, x)) /\ phase' = "feed"
  <2>1. input # <<>> /\ input[1] = x
    BY <1>8
  <2>2. Feed(line, SaidOdd(Said(kind, x), os)) /\ kind \in {"reasoning", "text"}
    BY <1>2, <1>8, <2>1 DEF Started
  <2>3. Evs(kind, input) = <<Ev(kind, x)>>
    BY <1>8, EvsOfOne
  <2>4. Read(from, reader, line) =
           [reader |-> reader, events |-> <<Ev("start", kind), Ev(kind, x)>>]
    <3>1. <<Ev("start", kind)>> \o <<Ev(kind, x)>> = <<Ev("start", kind), Ev(kind, x)>>
      BY Joined
    <3> HIDE DEF line
    <3> QED BY <1>3, <1>8, <1>4, <2>3, <3>1
  <2>5. /\ Ev("start", kind).kind # "done" /\ Ev(kind, x).kind # "done"
        /\ Fragment(kind, x) = Ev(kind, x)
    BY <1>8 DEF Ev, Fragment
  <2> HIDE DEF line
  <2>6. /\ Took(reader, SaidOdd(Said(kind, x), os)) /\ phase' = "feed"
        /\ writer' = Write(to, Write(to, writer, Ev("start", kind)), Ev(kind, x))
    BY <2>2, <2>4, <2>5, FeedTwo
  <2> QED BY <2>2, <2>5, <2>6 DEF WritesTwo
<1>9. CASE input = <<>>
  BY <1>3, <1>5, <1>6, <1>9
<1>10. CASE input # <<>>
  <2>1. PICK x \in Frag(kind) : input = <<x>>
    BY <1>10
  <2>2. CASE kind = "tool"
    BY <1>3, <1>7, <2>1, <2>2
  <2>3. CASE kind # "tool"
    <3>1. /\ Took(reader, SaidOdd(Said(kind, x), os)) /\ kind \in {"reasoning", "text"}
          /\ WritesTwo(Ev("start", kind), Fragment(kind, x)) /\ phase' = "feed"
      BY <1>8, <2>1, <2>3
    <3>2. x \in Frag("reasoning") \cup Frag("text")
      BY <3>1
    <3> QED BY <1>3, <2>3, <3>1, <3>2
  <2> QED BY <2>2, <2>3
<1> QED BY <1>9, <1>10

LEMMA PlaceholderStartStep ==
    ASSUME PlaceholderStart
    PROVE  /\ from = "anthropic" /\ Running /\ phase' = "feed"
           /\ \E x : /\ Took(reader, SaidOdd(SaidCall(NextId), Unclosed \cup {"input"}))
                     /\ WritesTwo(Ev("tool_start", NextId), Fragment("tool", x))
<1> DEFINE x == [n |-> 0, prelude |-> FALSE]
           line == [type |-> "block_start", x |-> "tool", id |-> NextId, input |-> <<x>>]
           after == SaidOdd(SaidCall(NextId), Unclosed \cup {"input"})
<1>1. from = "anthropic" /\ Running /\ Feed(line, after)
  BY DEF PlaceholderStart
<1> HIDE DEF x, after
<1>2. Read("anthropic", reader, line) =
         [reader |-> reader, events |-> <<Ev("tool_start", NextId)>> \o Evs("tool_args", <<x>>)]
  BY DEF Read, ReadAnthropic
<1>3. <<Ev("tool_start", NextId)>> \o <<Ev("tool_args", x)>> = <<Ev("tool_start", NextId), Ev("tool_args", x)>>
  BY Joined
<1>4. Evs("tool_args", <<x>>) = <<Ev("tool_args", x)>>
  BY EvsOfOne
<1> HIDE DEF line
<1>5. Read(from, reader, line) =
         [reader |-> reader, events |-> <<Ev("tool_start", NextId), Ev("tool_args", x)>>]
  BY <1>1, <1>2, <1>3, <1>4
<1>6. /\ Ev("tool_start", NextId).kind # "done" /\ Ev("tool_args", x).kind # "done"
      /\ Fragment("tool", x) = Ev("tool_args", x)
  BY DEF Ev, Fragment
<1>7. /\ Took(reader, after) /\ phase' = "feed"
      /\ writer' = Write(to, Write(to, writer, Ev("tool_start", NextId)), Ev("tool_args", x))
  BY <1>1, <1>5, <1>6, FeedTwo
<1> QED BY <1>1, <1>6, <1>7 DEF WritesTwo, after

LEMMA BlockDeltaStep ==
    ASSUME BlockDelta
    PROVE  /\ from = "anthropic" /\ Running /\ phase' = "feed"
           /\ said.open \in {"reasoning", "text", "tool"}
           /\ \E x : /\ Took(reader, IF said.open = "tool"
                                        THEN SaidArgs(said, Len(said.calls), <<x>>, NoId)
                                        ELSE Said(said.open, x))
                     /\ WritesOne(Fragment(said.open, x))
<1>1. PICK x \in Frag(said.open) :
          Feed([type |-> "delta", x |-> said.open, frag |-> x],
               IF said.open = "tool" THEN SaidArgs(said, Len(said.calls), <<x>>, NoId)
                                     ELSE Said(said.open, x))
  BY DEF BlockDelta
<1>2. from = "anthropic" /\ Running /\ said.open \in {"reasoning", "text", "tool"}
  BY DEF BlockDelta
<1> DEFINE line == [type |-> "delta", x |-> said.open, frag |-> x]
           after == IF said.open = "tool" THEN SaidArgs(said, Len(said.calls), <<x>>, NoId)
                                          ELSE Said(said.open, x)
<1>3. Read(from, reader, line) = [reader |-> reader, events |-> <<Fragment(said.open, x)>>]
  BY <1>2, ReadsBlockDelta
<1>4. Fragment(said.open, x).kind # "done"
  BY <1>2 DEF Ev, Fragment
<1>5. Feed(line, after)
  BY <1>1
<1> HIDE DEF line, after
<1>6. Took(reader, after) /\ writer' = Write(to, writer, Fragment(said.open, x)) /\ phase' = "feed"
  BY <1>3, <1>4, <1>5, FeedOne
<1> QED BY <1>2, <1>6 DEF WritesOne, after

LEMMA BlockStopStep ==
    ASSUME BlockStop
    PROVE  /\ from = "anthropic" /\ phase' = "feed"
           /\ Took(reader, [said EXCEPT !.open = NoBlock]) /\ WritesOne(Ev("end_block", 0))
<1> DEFINE line == [type |-> "block_stop"]
<1>1. from = "anthropic" /\ Feed(line, [said EXCEPT !.open = NoBlock])
  BY DEF BlockStop
<1>2. Read(from, reader, line) = [reader |-> reader, events |-> <<Ev("end_block", 0)>>]
  BY <1>1, ReadsBlockStop
<1>3. Ev("end_block", 0).kind # "done"
  BY DEF Ev
<1> HIDE DEF line
<1> QED BY <1>1, <1>2, <1>3, FeedOne DEF WritesOne

\* The usage of a message_delta names the output only
OutputUsage == [in |-> 0, out |-> fed + 1]

LEMMA MessageDeltaStep ==
    ASSUME MessageDelta
    PROVE  /\ from = "anthropic" /\ Running /\ phase' = "feed"
           /\ \E reason :
                 \/ /\ Took(reader, SaidOdd([said EXCEPT !.finish = <<reason>>], Unclosed))
                    /\ WritesOne(Ev("finish", reason))
                 \/ LET m     == MergeUsage(reader, <<OutputUsage>>)
                        start == IF said.usage = <<>> THEN NoTokens ELSE said.usage[1]
                    IN  /\ Took([m EXCEPT !.emitted = TRUE],
                                SaidOdd([said EXCEPT !.finish = <<reason>>,
                                                     !.usage = <<[in |-> start.in, out |-> fed + 1]>>],
                                        Unclosed))
                        /\ WritesTwo(Ev("finish", reason), Ev("usage", m.usage))
<1> DEFINE start == IF said.usage = <<>> THEN NoTokens ELSE said.usage[1]
<1>1. PICK reason \in {"stop", "length", "tool_calls"}, n \in {0, 1} :
          LET usage == IF n = 0 THEN <<>> ELSE <<OutputUsage>>
          IN  Feed([type |-> "message_delta", finish |-> <<reason>>, usage |-> usage],
                   SaidOdd([said EXCEPT !.finish = <<reason>>,
                                        !.usage = IF n = 0 THEN @
                                                  ELSE <<[in |-> start.in, out |-> fed + 1]>>],
                           Unclosed))
  BY DEF MessageDelta, OutputUsage
<1>2. from = "anthropic" /\ Running
  BY DEF MessageDelta
<1>3. Ev("finish", reason).kind # "done" /\ \A u : Ev("usage", u).kind # "done"
  BY DEF Ev
<1>4. Evs("finish", <<reason>>) = <<Ev("finish", reason)>>
  BY EvsOfOne
<1> HIDE DEF start
<1>5. CASE n = 0
  <2> DEFINE line == [type |-> "message_delta", finish |-> <<reason>>, usage |-> <<>>]
             after == SaidOdd([said EXCEPT !.finish = <<reason>>, !.usage = said.usage], Unclosed)
  <2>1. Feed(line, after)
    BY <1>1, <1>5
  <2>2. Read("anthropic", reader, line) = [reader |-> reader, events |-> Evs("finish", <<reason>>)]
    BY ReadsMessageDelta
  <2> HIDE DEF line, after
  <2>3. Took(reader, after) /\ writer' = Write(to, writer, Ev("finish", reason)) /\ phase' = "feed"
    BY <1>2, <1>3, <1>4, <2>1, <2>2, FeedOne
  <2>4. Took(reader, SaidOdd([said EXCEPT !.finish = <<reason>>], Unclosed))
    BY <2>3 DEF after
  <2> QED BY <1>2, <2>3, <2>4 DEF WritesOne
<1>6. CASE n = 1
  <2> DEFINE us == <<OutputUsage>>
             line == [type |-> "message_delta", finish |-> <<reason>>, usage |-> us]
             after == SaidOdd([said EXCEPT !.finish = <<reason>>,
                                           !.usage = <<[in |-> start.in, out |-> fed + 1]>>],
                              Unclosed)
             m == MergeUsage(reader, us)
             r == [m EXCEPT !.emitted = TRUE]
             evs == <<Ev("finish", reason)>> \o <<Ev("usage", m.usage)>>
  <2>1. Feed(line, after)
    BY <1>1, <1>6
  <2>2. us # <<>>
    OBVIOUS
  <2> HIDE DEF us
  <2>3. Read("anthropic", reader, line) =
           [reader |-> [MergeUsage(reader, us) EXCEPT !.emitted = TRUE],
            events |-> Evs("finish", <<reason>>) \o <<Ev("usage", MergeUsage(reader, us).usage)>>]
    BY <2>2, ReadsMessageDelta
  <2>4. Read("anthropic", reader, line) = [reader |-> r, events |-> evs]
    BY <1>4, <2>3
  <2> HIDE DEF m, r
  <2>5. evs = <<Ev("finish", reason), Ev("usage", m.usage)>>
    BY Joined
  <2> HIDE DEF line, after, evs
  <2>6. /\ Took(r, after) /\ phase' = "feed"
        /\ writer' = Write(to, Write(to, writer, Ev("finish", reason)), Ev("usage", m.usage))
    BY <1>2, <1>3, <2>1, <2>4, <2>5, FeedTwo
  <2> QED BY <1>2, <2>6 DEF WritesTwo, after, r, m, us, start
<1> QED BY <1>5, <1>6

LEMMA MessageStopStep ==
    ASSUME MessageStop
    PROVE  /\ from = "anthropic" /\ phase' = "close"
           /\ \/ /\ reader.seen /\ ~reader.emitted
                 /\ Took([reader EXCEPT !.emitted = TRUE], SaidOdd([said EXCEPT !.whole = TRUE], Unclosed))
                 /\ WritesTwo(Ev("usage", reader.usage), Ev("done", 0))
              \/ /\ ~(reader.seen /\ ~reader.emitted)
                 /\ Took(reader, SaidOdd([said EXCEPT !.whole = TRUE], Unclosed)) /\ WritesOne(Ev("done", 0))
<1> DEFINE line == [type |-> "message_stop"]
           after == SaidOdd([said EXCEPT !.whole = TRUE], Unclosed)
<1>1. from = "anthropic" /\ Feed(line, after)
  BY DEF MessageStop
<1>2. /\ reader.seen /\ ~reader.emitted => Read("anthropic", reader, line) =
             [reader |-> [reader EXCEPT !.emitted = TRUE],
              events |-> <<Ev("usage", reader.usage), Ev("done", 0)>>]
      /\ ~(reader.seen /\ ~reader.emitted) => Read("anthropic", reader, line) =
             [reader |-> reader, events |-> <<Ev("done", 0)>>]
  BY ReadsMessageStop
<1>3. Ev("done", 0).kind = "done"
  BY DEF Ev
<1> HIDE DEF line
<1>4. CASE reader.seen /\ ~reader.emitted
  <2> DEFINE r == [reader EXCEPT !.emitted = TRUE]
             a == Ev("usage", reader.usage)
             b == Ev("done", 0)
  <2>1. Read(from, reader, line) = [reader |-> r, events |-> <<a, b>>]
    BY <1>1, <1>2, <1>4
  <2>2. Feed(line, after) /\ b.kind = "done"
    BY <1>1, <1>3
  <2> HIDE DEF r, a, b, after
  <2>3. /\ Took(r, after) /\ phase' = "close"
        /\ writer' = Write(to, Write(to, writer, a), b)
    BY <2>1, <2>2, FeedTwo
  <2>4. /\ Took([reader EXCEPT !.emitted = TRUE], after) /\ phase' = "close"
        /\ writer' = Write(to, Write(to, writer, Ev("usage", reader.usage)), Ev("done", 0))
    BY <2>3 DEF r, a, b
  <2> QED BY <1>1, <1>4, <2>4 DEF WritesTwo, after
<1>5. CASE ~(reader.seen /\ ~reader.emitted)
  <2>1. /\ Took(reader, after) /\ phase' = "close" /\ writer' = Write(to, writer, Ev("done", 0))
    BY <1>1, <1>2, <1>3, <1>5, FeedOne
  <2> QED BY <1>1, <1>5, <2>1 DEF WritesOne
<1> QED BY <1>4, <1>5

-----------------------------------------------------------------------------
(* What the upstream has said *)

SaidFields == {"deltas", "calls", "open", "usage", "finish", "whole", "odd"}

\* v differs from s in the given fields at most
SaidOnly(changed, v, s) == DOMAIN v = SaidFields /\ \A f \in SaidFields \ changed : v[f] = s[f]

CallOK(calls, k) ==
    /\ calls[k] = [id |-> calls[k].id, args |-> calls[k].args]
    /\ IsSeq(calls[k].args) /\ calls[k].id \in {NoId, k}

SaidOK(s) ==
    /\ DOMAIN s = SaidFields /\ IsSeq(s.deltas) /\ IsSeq(s.calls)
    /\ s.open \in {NoBlock, "reasoning", "text", "tool", "full"}
    /\ s.open \in {"tool", "full"} => s.calls # <<>>
    /\ \A k \in DOMAIN s.calls : CallOK(s.calls, k)

LEMMA SaidNothing == SaidOK(Nothing)
<1>1. /\ DOMAIN Nothing = SaidFields /\ Nothing.open = NoBlock
      /\ Nothing.deltas = <<>> /\ Nothing.calls = <<>>
  BY DEF Nothing, SaidFields
<1>2. NoBlock \notin {"tool", "full"}
  BY DEF NoBlock
<1> HIDE DEF Nothing
<1> QED BY <1>1, <1>2, EmptyIsSeq DEF SaidOK

\* Changes that leave the contents alone
LEMMA SaidSet ==
    ASSUME NEW s, SaidOK(s), NEW v, SaidOnly({"usage", "finish", "whole", "odd"}, v, s)
    PROVE  SaidOK(v)
BY DEF SaidOK, SaidOnly, SaidFields

LEMMA SaidOddly ==
    ASSUME NEW s, SaidOK(s), NEW os
    PROVE  LET v == SaidOdd(s, os)
           IN  SaidOK(v) /\ SaidOnly({"odd"}, v, s) /\ v.odd = s.odd \cup os
<1> DEFINE v == SaidOdd(s, os)
<1>1. DOMAIN s = SaidFields
  BY DEF SaidOK
<1>2. SaidOnly({"odd"}, v, s) /\ v.odd = s.odd \cup os
  BY <1>1 DEF SaidOdd, SaidOnly, SaidFields
<1> HIDE DEF v
<1>3. SaidOK(v)
  BY <1>2, SaidSet DEF SaidOnly
<1> QED BY <1>2, <1>3 DEF v

\* No usage before the end, and no response.incomplete
Regular(s) == s.odd \cap {"running", "incomplete"} = {}

LEMMA SaidMore ==
    ASSUME SaidOK(said), NEW u, SaidOK(u), NEW changed, SaidOnly(changed, u, said),
           "odd" \notin changed, NEW os \in SUBSET {"unclosed", "doubled", "input"}
    PROVE  LET s == SaidOdd(u, os)
           IN  /\ SaidOK(s) /\ SaidOnly(changed \cup {"odd"}, s, said)
               /\ s.odd = said.odd \cup os /\ said.odd \subseteq s.odd
               /\ Regular(s) <=> Regular(said)
               /\ s.deltas = u.deltas /\ s.calls = u.calls /\ s.open = u.open
               /\ s.finish = u.finish /\ s.usage = u.usage /\ s.whole = u.whole
<1> DEFINE s == SaidOdd(u, os)
<1>1. SaidOK(s) /\ SaidOnly({"odd"}, s, u) /\ s.odd = u.odd \cup os
  BY SaidOddly
<1> HIDE DEF s
<1>2. SaidOnly(changed \cup {"odd"}, s, said) /\ s.odd = said.odd \cup os
  BY <1>1 DEF SaidOnly, SaidFields
<1>3. /\ s.deltas = u.deltas /\ s.calls = u.calls /\ s.open = u.open
      /\ s.finish = u.finish /\ s.usage = u.usage /\ s.whole = u.whole
  BY <1>1 DEF SaidOnly, SaidFields
<1>4. Regular(s) <=> Regular(said)
  BY <1>2 DEF Regular
<1> QED BY <1>1, <1>2, <1>3, <1>4 DEF s

LEMMA SaidOpened ==
    ASSUME SaidOK(said), NEW b \in {NoBlock, "reasoning", "text"}
    PROVE  LET v == [said EXCEPT !.open = b]
           IN  SaidOK(v) /\ SaidOnly({"open"}, v, said) /\ v.open = b
<1> DEFINE v == [said EXCEPT !.open = b]
<1>1. DOMAIN said = SaidFields
  BY DEF SaidOK
<1>2. SaidOnly({"open"}, v, said) /\ v.open = b
  BY <1>1 DEF SaidOnly, SaidFields
<1>3. b \notin {"tool", "full"}
  BY DEF NoBlock
<1> HIDE DEF v
<1>4. SaidOK(v)
  BY <1>2, <1>3 DEF SaidOK, SaidOnly, SaidFields
<1> QED BY <1>2, <1>4 DEF v

LEMMA SaidFragment ==
    ASSUME SaidOK(said), NEW kind \in {"reasoning", "text"}, NEW x
    PROVE  LET v == Said(kind, x)
           IN  /\ SaidOK(v) /\ SaidOnly({"deltas", "open"}, v, said) /\ v.open = kind
               /\ v.deltas = Append(said.deltas, [kind |-> kind, x |-> x])
<1> DEFINE v == Said(kind, x)
           d == [kind |-> kind, x |-> x]
<1>1. DOMAIN said = SaidFields
  BY DEF SaidOK
<1>2. SaidOnly({"deltas", "open"}, v, said) /\ v.open = kind /\ v.deltas = Append(said.deltas, d)
  BY <1>1 DEF Said, SaidOnly, SaidFields
<1> HIDE DEF v, d
<1>3. IsSeq(v.deltas)
  BY <1>2, Appended DEF SaidOK
<1>4. SaidOK(v)
  BY <1>2, <1>3 DEF SaidOK, SaidOnly, SaidFields
<1> QED BY <1>2, <1>4 DEF v, d

LEMMA SaidCalled ==
    ASSUME SaidOK(said), NEW id \in {NoId, NextId}
    PROVE  LET v == SaidCall(id)
           IN  /\ SaidOK(v) /\ SaidOnly({"calls", "open"}, v, said) /\ v.open = "tool"
               /\ v.calls = Append(said.calls, [id |-> id, args |-> <<>>])
               /\ Len(v.calls) = NextId /\ NextId \in DOMAIN v.calls
               /\ v.calls[NextId] = [id |-> id, args |-> <<>>]
<1> DEFINE v == SaidCall(id)
           c == [id |-> id, args |-> <<>>]
<1>1. DOMAIN said = SaidFields /\ IsSeq(said.calls) /\ IsSeq(said.deltas)
  BY DEF SaidOK
<1>2. SaidOnly({"calls", "open"}, v, said) /\ v.open = "tool" /\ v.calls = Append(said.calls, c)
  BY <1>1 DEF SaidCall, SaidOnly, SaidFields
<1>3. c = [id |-> c.id, args |-> c.args] /\ IsSeq(c.args) /\ c.id = id
  BY EmptyIsSeq
<1> HIDE DEF v, c
<1>4. /\ IsSeq(v.calls) /\ Len(said.calls) \in Nat /\ Len(v.calls) = Len(said.calls) + 1
      /\ DOMAIN said.calls = 1 .. Len(said.calls) /\ DOMAIN v.calls = 1 .. Len(said.calls) + 1
      /\ \A j \in 1 .. Len(said.calls) : v.calls[j] = said.calls[j]
      /\ v.calls[Len(said.calls) + 1] = c
  BY <1>1, <1>2, Appended
<1>5. \A k \in DOMAIN v.calls : CallOK(v.calls, k)
  <2>1. ASSUME NEW k \in 1 .. Len(said.calls)
        PROVE  CallOK(v.calls, k)
    BY <1>4, <2>1 DEF SaidOK, CallOK
  <2>2. CallOK(v.calls, Len(said.calls) + 1)
    BY <1>3, <1>4 DEF CallOK, NextId
  <2> QED BY <1>4, <2>1, <2>2
<1>6. v.calls # <<>> /\ "tool" \in {NoBlock, "reasoning", "text", "tool", "full"}
  BY <1>4, EmptyIsSeq
<1>7. IsSeq(v.deltas)
  BY <1>1, <1>2 DEF SaidOnly, SaidFields
<1>8. SaidOK(v)
  BY <1>2, <1>4, <1>5, <1>6, <1>7 DEF SaidOK, SaidOnly
<1> QED BY <1>2, <1>4, <1>8 DEF v, c, NextId

LEMMA JoinedOne ==
    ASSUME NEW s, IsSeq(s), NEW e
    PROVE  s \o <<e>> = Append(s, e) /\ s \o <<>> = s
<1>1. PICK S : s \in Seq(S)
  BY DEF IsSeq
<1> DEFINE T == S \cup {e}
           t == <<e>>
           n == <<>>
           a == Append(s, e)
<1>2. s \in Seq(T) /\ t \in Seq(T) /\ n \in Seq(T) /\ Len(t) = 1 /\ t[1] = e /\ Len(n) = 0
  BY <1>1
<1>3. /\ IsSeq(a) /\ Len(s) \in Nat /\ Len(a) = Len(s) + 1
      /\ \A j \in 1 .. Len(s) : a[j] = s[j]
      /\ a[Len(s) + 1] = e
  BY Appended
<1> HIDE DEF t, n, a, T
<1>4. /\ s \o t \in Seq(T) /\ Len(s \o t) = Len(s) + 1
      /\ \A j \in 1 .. Len(s) + 1 : (s \o t)[j] = IF j <= Len(s) THEN s[j] ELSE t[j - Len(s)]
  <2>1. Len(s) + Len(t) = Len(s) + 1
    BY <1>2, <1>3
  <2>2. s \o t \in Seq(T) /\ Len(s \o t) = Len(s) + Len(t)
    BY <1>2, ConcatProperties
  <2>3. \A j \in 1 .. Len(s) + Len(t) : (s \o t)[j] = IF j <= Len(s) THEN s[j] ELSE t[j - Len(s)]
    BY <1>2, ConcatProperties
  <2> QED BY <2>1, <2>2, <2>3
<1>5. s \o t = a
  <2>1. IsSeq(s \o t)
    BY <1>4 DEF IsSeq
  <2>2. ASSUME NEW j \in 1 .. Len(s) + 1
        PROVE  (s \o t)[j] = a[j]
    <3>1. CASE j <= Len(s)
      BY <1>3, <1>4, <3>1
    <3>2. CASE ~(j <= Len(s))
      <4>1. j = Len(s) + 1 /\ j - Len(s) = 1
        BY <1>3, <3>2
      <4> QED BY <1>2, <1>3, <1>4, <3>2, <4>1
    <3> QED BY <3>1, <3>2
  <2> QED BY <1>3, <1>4, <2>1, <2>2, SameSeq
<1>6. /\ s \o n \in Seq(T) /\ Len(s \o n) = Len(s)
      /\ \A j \in 1 .. Len(s) : (s \o n)[j] = IF j <= Len(s) THEN s[j] ELSE n[j - Len(s)]
  <2>1. Len(s) + Len(n) = Len(s)
    BY <1>2, <1>3
  <2> QED BY <1>2, <2>1, ConcatProperties
<1>7. s \o n = s
  <2>1. IsSeq(s \o n)
    BY <1>6 DEF IsSeq
  <2>2. ASSUME NEW j \in 1 .. Len(s)
        PROVE  (s \o n)[j] = s[j]
    BY <1>3, <1>6
  <2> QED BY <1>3, <1>6, <2>1, <2>2, SameSeq
<1> QED BY <1>5, <1>7 DEF t, n, a

LEMMA SaidExtended ==
    ASSUME NEW s, SaidOK(s), NEW k \in DOMAIN s.calls, NEW id \in {NoId, k}, NEW x
    PROVE  LET v == SaidArgs(s, k, <<x>>, id)
           IN  /\ SaidOK(v) /\ SaidOnly({"deltas", "calls", "open"}, v, s) /\ v.open = "tool"
               /\ v.deltas = Append(s.deltas, [kind |-> "tool", x |-> x])
               /\ v.calls # <<>> /\ Len(v.calls) = Len(s.calls)
               /\ v.calls[k].id = IF id # NoId THEN id ELSE s.calls[k].id
               /\ \A j \in DOMAIN s.calls : j # k => v.calls[j] = s.calls[j]
               /\ k = Len(s.calls) /\ (id = NoId \/ s.calls[k].id = id) =>
                     v.calls = WithArg(s.calls, x)
<1> DEFINE v == SaidArgs(s, k, <<x>>, id)
           d == [kind |-> "tool", x |-> x]
           c == s.calls[k]
           newId == IF id # NoId THEN id ELSE c.id
           newArgs == Append(c.args, x)
           e == [id |-> newId, args |-> newArgs]
           calls == [s.calls EXCEPT ![k] = e]
<1>1. /\ DOMAIN s = SaidFields /\ IsSeq(s.calls) /\ IsSeq(s.deltas)
      /\ c = [id |-> c.id, args |-> c.args] /\ IsSeq(c.args) /\ c.id \in {NoId, k}
  BY DEF SaidOK, CallOK
<1>2. c.args \o <<x>> = newArgs
  BY <1>1, JoinedOne
<1>3. s.deltas \o [j \in DOMAIN <<x>> |-> [kind |-> "tool", x |-> <<x>>[j]]] = Append(s.deltas, d)
  <2>1. [j \in DOMAIN <<x>> |-> [kind |-> "tool", x |-> <<x>>[j]]] = <<d>>
    OBVIOUS
  <2> QED BY <1>1, <2>1, JoinedOne
<1>4. [s.calls EXCEPT ![k] = [id |-> newId, args |-> c.args \o <<x>>]] = calls
  <2> DEFINE a == c.args \o <<x>>
  <2>1. a = newArgs
    BY <1>2
  <2> HIDE DEF a, newArgs
  <2> QED BY <2>1 DEF a
<1>5. /\ SaidOnly({"deltas", "calls", "open"}, v, s) /\ v.open = "tool"
      /\ v.deltas = Append(s.deltas, d) /\ v.calls = calls
  BY <1>1, <1>3, <1>4 DEF SaidArgs, SaidOnly, SaidFields

<1>6. /\ IsSeq(calls) /\ Len(calls) = Len(s.calls) /\ DOMAIN calls = DOMAIN s.calls
      /\ calls[k] = e /\ \A j \in DOMAIN s.calls : j # k => calls[j] = s.calls[j]
  <2>1. Len(s.calls) \in Nat /\ DOMAIN s.calls = 1 .. Len(s.calls)
    BY <1>1, SeqLength
  <2> HIDE DEF e
  <2>2. /\ DOMAIN calls = DOMAIN s.calls
        /\ calls[k] = e /\ \A j \in DOMAIN s.calls : j # k => calls[j] = s.calls[j]
    BY <2>1
  <2>3. calls = [j \in 1 .. Len(s.calls) |-> calls[j]]
    BY <2>1
  <2> HIDE DEF calls
  <2>4. IsSeq(calls) /\ Len(calls) = Len(s.calls)
    BY <2>1, <2>3, FunctionIsSeq
  <2> QED BY <2>2, <2>4
<1>7. /\ e = [id |-> e.id, args |-> e.args] /\ e.id = newId /\ e.args = newArgs /\ IsSeq(newArgs)
      /\ newId \in {NoId, k}
  BY <1>1, Appended
<1>8. v.calls # <<>>
  <2>1. DOMAIN calls # {}
    BY <1>6
  <2> HIDE DEF v, calls
  <2> QED BY <1>5, <2>1, EmptyIsSeq
<1>9. k = Len(s.calls) /\ (id = NoId \/ s.calls[k].id = id) => v.calls = WithArg(s.calls, x)
  <2> SUFFICES ASSUME k = Len(s.calls), id = NoId \/ s.calls[k].id = id
               PROVE  calls = WithArg(s.calls, x)
    BY <1>5
  <2>1. newId = c.id
    OBVIOUS
  <2>2. [c EXCEPT !.args = Append(@, x)] = e
    <3> HIDE DEF newArgs, newId
    <3>1. [c EXCEPT !.args = newArgs] = [id |-> c.id, args |-> newArgs]
      BY <1>1
    <3> QED BY <2>1, <3>1 DEF newArgs
  <2>3. WithArg(s.calls, x) = [s.calls EXCEPT ![k] = [c EXCEPT !.args = Append(@, x)]]
    BY DEF WithArg
  <2> QED BY <2>2, <2>3
<1> HIDE DEF v, d, calls, e, newId, newArgs
<1>10. IsSeq(v.deltas)
  BY <1>1, <1>5, Appended
<1>11. \A j \in DOMAIN v.calls : CallOK(v.calls, j)
  <2>1. ASSUME NEW j \in DOMAIN s.calls, j # k
        PROVE  CallOK(v.calls, j)
    BY <1>5, <1>6, <2>1 DEF SaidOK, CallOK
  <2>2. CallOK(v.calls, k)
    BY <1>5, <1>6, <1>7 DEF CallOK
  <2> QED BY <1>5, <1>6, <2>1, <2>2
<1>12. SaidOK(v)
  <2>1. IsSeq(v.calls)
    BY <1>5, <1>6
  <2>2. v.open \in {NoBlock, "reasoning", "text", "tool", "full"} /\ DOMAIN v = SaidFields
    BY <1>5 DEF SaidOnly
  <2> QED BY <1>8, <1>10, <1>11, <2>1, <2>2 DEF SaidOK
<1>13. v.calls[k].id = IF id # NoId THEN id ELSE s.calls[k].id
  BY <1>5, <1>6, <1>7 DEF newId
<1> QED BY <1>5, <1>6, <1>8, <1>9, <1>12, <1>13 DEF v, d

LEMMA SaidNoArgs ==
    ASSUME NEW s, SaidOK(s), NEW k \in DOMAIN s.calls, s.open = "tool"
    PROVE  LET v == SaidArgs(s, k, <<>>, NoId)
           IN  SaidOnly({}, v, s)
<1> DEFINE v == SaidArgs(s, k, <<>>, NoId)
           c == s.calls[k]
<1>1. /\ DOMAIN s = SaidFields /\ IsSeq(s.calls) /\ IsSeq(s.deltas)
      /\ c = [id |-> c.id, args |-> c.args] /\ IsSeq(c.args)
  BY DEF SaidOK, CallOK
<1>2. c.args \o <<>> = c.args
  BY <1>1, JoinedOne
<1>3. s.deltas \o [j \in DOMAIN <<>> |-> [kind |-> "tool", x |-> <<>>[j]]] = s.deltas
  <2>1. [j \in DOMAIN <<>> |-> [kind |-> "tool", x |-> <<>>[j]]] = <<>>
    OBVIOUS
  <2> QED BY <1>1, <2>1, JoinedOne
<1> DEFINE e == [id |-> IF NoId # NoId THEN NoId ELSE c.id, args |-> c.args \o <<>>]
<1>4. [s.calls EXCEPT ![k] = e] = s.calls
  <2>1. e = c
    BY <1>1, <1>2
  <2>2. s.calls = [j \in DOMAIN s.calls |-> s.calls[j]]
    BY <1>1, SeqLength DEF IsSeq
  <2> HIDE DEF e
  <2> QED BY <2>1, <2>2
<1> QED BY <1>1, <1>3, <1>4 DEF SaidArgs, SaidOnly, SaidFields

\* A call with its first argument, as the upstream says it
LEMMA SaidCallWith ==
    ASSUME SaidOK(said), NEW id \in {NoId, NextId}, NEW x
    PROVE  LET s == SaidArgs(SaidCall(id), NextId, <<x>>, NoId)
           IN  /\ SaidOK(s) /\ SaidOnly({"deltas", "calls", "open"}, s, said) /\ s.open = "tool"
               /\ s.deltas = Append(said.deltas, [kind |-> "tool", x |-> x])
               /\ s.calls = WithArg(Append(said.calls, [id |-> id, args |-> <<>>]), x)
               /\ Len(s.calls) = NextId /\ s.calls[NextId].id = id
<1> DEFINE u == SaidCall(id)
           s == SaidArgs(u, NextId, <<x>>, NoId)
<1>1. /\ SaidOK(u) /\ SaidOnly({"calls", "open"}, u, said)
      /\ u.calls = Append(said.calls, [id |-> id, args |-> <<>>])
      /\ NextId = Len(u.calls) /\ NextId \in DOMAIN u.calls
      /\ u.calls[NextId] = [id |-> id, args |-> <<>>]
  BY SaidCalled
<1>2. PICK k \in DOMAIN u.calls : k = NextId /\ k = Len(u.calls)
  BY <1>1
<1>3. PICK none \in {NoId, k} : none = NoId
  OBVIOUS
<1> HIDE DEF u
<1> DEFINE z == SaidArgs(u, k, <<x>>, none)
<1>4. SaidOK(u)
  BY <1>1
<1>5. SaidOK(z) /\ SaidOnly({"deltas", "calls", "open"}, z, u)
  BY <1>4, SaidExtended, ZenonT(60)
<1>6. z.deltas = Append(u.deltas, [kind |-> "tool", x |-> x])
  BY <1>4, SaidExtended, ZenonT(60)
<1>7. k = Len(u.calls) /\ none = NoId => z.calls = WithArg(u.calls, x)
  BY <1>4, SaidExtended, ZenonT(60)
<1>8. Len(z.calls) = Len(u.calls)
  BY <1>4, SaidExtended, ZenonT(60)
<1>9. z.calls[k].id = IF none # NoId THEN none ELSE u.calls[k].id
  BY <1>4, SaidExtended, ZenonT(60)
<1>10. z.open = "tool"
  BY <1>4 DEF SaidArgs, SaidOK, SaidFields
<1>11. z = s
  BY <1>2, <1>3
<1> HIDE DEF z, s
<1>12. SaidOnly({"deltas", "calls", "open"}, s, said) /\ u.deltas = said.deltas
  BY <1>1, <1>5, <1>11 DEF SaidOnly, SaidFields
<1>13. s.calls[NextId].id = id
  BY <1>1, <1>2, <1>3, <1>9, <1>11
<1> QED BY <1>1, <1>2, <1>3, <1>5, <1>6, <1>7, <1>8, <1>10, <1>11, <1>12, <1>13 DEF s, u

\* A call with no argument or its first, as the upstream says it
LEMMA SaidCallFed ==
    ASSUME SaidOK(said), NEW id \in {NoId, NextId}, NEW x, NEW args, args = <<>> \/ args = <<x>>
    PROVE  LET s    == SaidArgs(SaidCall(id), NextId, args, NoId)
               call == [id |-> id, args |-> <<>>]
           IN  /\ SaidOK(s) /\ SaidOnly({"deltas", "calls", "open"}, s, said) /\ s.open = "tool"
               /\ args = <<>> => s.deltas = said.deltas /\ s.calls = Append(said.calls, call)
               /\ args = <<x>> => /\ s.deltas = Append(said.deltas, [kind |-> "tool", x |-> x])
                                  /\ s.calls = WithArg(Append(said.calls, call), x)
               /\ Len(s.calls) = NextId /\ s.calls[NextId].id = id
<1> DEFINE u == SaidCall(id)
           call == [id |-> id, args |-> <<>>]
           s == SaidArgs(u, NextId, args, NoId)
<1>1. CASE args = <<x>>
  <2> DEFINE z == SaidArgs(SaidCall(id), NextId, <<x>>, NoId)
  <2>1. /\ SaidOK(z) /\ SaidOnly({"deltas", "calls", "open"}, z, said) /\ z.open = "tool"
        /\ z.deltas = Append(said.deltas, [kind |-> "tool", x |-> x])
        /\ z.calls = WithArg(Append(said.calls, call), x)
        /\ Len(z.calls) = NextId /\ z.calls[NextId].id = id
    BY SaidCallWith
  <2>2. z = s /\ args # <<>>
    BY <1>1
  <2> HIDE DEF z, call
  <2> QED BY <1>1, <2>1, <2>2 DEF call, s
<1>2. CASE args = <<>>
  <2> DEFINE z == SaidArgs(u, NextId, <<>>, NoId)
  <2>1. /\ SaidOK(u) /\ SaidOnly({"calls", "open"}, u, said) /\ u.open = "tool"
        /\ u.calls = Append(said.calls, call)
        /\ NextId = Len(u.calls) /\ NextId \in DOMAIN u.calls /\ u.calls[NextId] = call
    BY SaidCalled
  <2>2. z = s /\ args # <<x>> /\ call.id = id
    BY <1>2
  <2> HIDE DEF u, call
  <2>3. SaidOnly({}, z, u)
    BY <2>1, SaidNoArgs
  <2> HIDE DEF z, s
  <2>4. SaidOK(s)
    BY <2>1, <2>2, <2>3, SaidSet DEF SaidOnly
  <2>5. /\ SaidOnly({"deltas", "calls", "open"}, s, said) /\ s.open = "tool"
        /\ s.deltas = said.deltas /\ s.calls = u.calls
    BY <2>1, <2>2, <2>3 DEF SaidOnly, SaidFields
  <2> QED BY <1>2, <2>1, <2>2, <2>4, <2>5 DEF call, u, s
<1> QED BY <1>1, <1>2

\* A later fragment of a call, as the upstream says it
\* s is u with the fragment x of the arguments of call k said, and os noted as odd
ArgsSaid(s, u, k, id, x, os) ==
    /\ SaidOK(s) /\ SaidOnly({"deltas", "calls", "open", "odd"}, s, u)
    /\ s.open = "tool" /\ s.odd = u.odd \cup os
    /\ s.deltas = Append(u.deltas, [kind |-> "tool", x |-> x])
    /\ Len(s.calls) = Len(u.calls)
    /\ s.calls[k].id = IF id # NoId THEN id ELSE u.calls[k].id
    /\ k = Len(u.calls) /\ (id = NoId \/ u.calls[k].id = id) => s.calls = WithArg(u.calls, x)

LEMMA SaidArgsFed ==
    ASSUME SaidOK(said), NEW k \in DOMAIN said.calls, NEW id \in {NoId, k}, NEW x, NEW os
    PROVE  ArgsSaid(SaidOdd(SaidArgs(said, k, <<x>>, id), os), said, k, id, x, os)
<1> DEFINE u == SaidArgs(said, k, <<x>>, id)
           s == SaidOdd(u, os)
<1>1. SaidOK(u)
  BY SaidExtended, ZenonT(60)
<1>2. SaidOnly({"deltas", "calls", "open"}, u, said)
  BY SaidExtended, ZenonT(60)
<1>3. u.open = "tool"
  BY DEF SaidArgs, SaidOK, SaidFields
<1>4. u.deltas = Append(said.deltas, [kind |-> "tool", x |-> x])
  BY SaidExtended, ZenonT(60)
<1>5. Len(u.calls) = Len(said.calls)
  BY SaidExtended, ZenonT(60)
<1>6. u.calls[k].id = IF id # NoId THEN id ELSE said.calls[k].id
  BY SaidExtended, ZenonT(60)
<1>7. k = Len(said.calls) /\ (id = NoId \/ said.calls[k].id = id) => u.calls = WithArg(said.calls, x)
  BY SaidExtended, ZenonT(60)
<1> HIDE DEF u
<1>8. SaidOK(s) /\ SaidOnly({"odd"}, s, u) /\ s.odd = u.odd \cup os
  BY <1>1, SaidOddly
<1> HIDE DEF s
<1>9. /\ SaidOnly({"deltas", "calls", "open", "odd"}, s, said)
      /\ s.open = u.open /\ s.odd = said.odd \cup os /\ s.deltas = u.deltas /\ s.calls = u.calls
  BY <1>2, <1>8 DEF SaidOnly, SaidFields
<1>10. ArgsSaid(s, said, k, id, x, os)
  BY <1>3, <1>4, <1>5, <1>6, <1>7, <1>8, <1>9 DEF ArgsSaid
<1> QED BY <1>10 DEF s, u

-----------------------------------------------------------------------------
(* How the writer stands to what the upstream has said, while the stream is fed *)

\* A client of Chat Completions is told the finish reason that the upstream gave
Finished(s, w) == to = "completions" /\ "incomplete" \notin s.odd =>
                     (w.finishSeen <=> s.finish # <<>>)

\* A block that the writer has open is the one an Anthropic upstream has open, or a call
Aligned(s, w) ==
    from = "anthropic" /\ to # "completions" => w.block \in {NoBlock, "tool", s.open}

Fine(s, w) ==
    /\ SaidOK(s) /\ Good(to, w) /\ Finished(s, w)
    /\ Closed(w) => s.finish # <<>>
    /\ to = "completions" /\ s.calls # <<>> => w.next > 0
    /\ Aligned(s, w)

WriterInv ==
    /\ from \in Format /\ to \in Format \ {from} /\ phase \in {"feed", "close", "closed"}
    /\ phase = "feed" => Fine(said, writer)
    /\ phase = "close" => SaidOK(said) /\ Good(to, writer) /\ Finished(said, writer)
    /\ phase = "closed" => AnswerEndsOnce /\ (Tidy => BlocksPaired /\ OutputComplete)

\* Who the client is does not change
LEMMA GoodNext == ASSUME to' = to, Good(to, writer') PROVE Good(to, writer)'
BY DEF Good, Sound, InBlock, Whole, Tidy

LEMMA WriterInvFed ==
    ASSUME WriterInv, NEW r, NEW after, Took(r, after), phase' = "feed", Fine(after, writer')
    PROVE  WriterInv'
<1>1. Fine(said, writer)'
  BY GoodNext DEF Took, Fine, Finished, Aligned
<1> QED BY <1>1 DEF WriterInv, Took

LEMMA WriterInvDone ==
    ASSUME WriterInv, NEW r, NEW after, Took(r, after), phase' = "close",
           SaidOK(after), Good(to, writer'), Finished(after, writer')
    PROVE  WriterInv'
<1>1. SaidOK(said)' /\ Good(to, writer)' /\ Finished(said, writer)'
  BY GoodNext DEF Took, Finished
<1> QED BY <1>1 DEF WriterInv, Took

LEMMA FineContent ==
    ASSUME Fine(said, writer), NEW s, SaidOK(s), s.finish = said.finish, said.odd \subseteq s.odd,
           NEW w, Good(to, w), SameEnding(w, writer),
           to = "completions" /\ s.calls # <<>> => w.next > 0, Aligned(s, w)
    PROVE  Fine(s, w)
BY DEF Fine, Finished, SameEnding, Closed

\* A fragment of text or reasoning
LEMMA FineFragment ==
    ASSUME WriterInv, Running, NEW r, NEW kind \in {"reasoning", "text"}, NEW x,
           Took(r, Said(kind, x)), WritesOne(Fragment(kind, x)), phase' = "feed"
    PROVE  WriterInv'
<1>1. Fine(said, writer) /\ to \in Format /\ SaidOK(said) /\ Good(to, writer)
  BY DEF WriterInv, Took, Fine
<1>2. ~Closed(writer)
  BY <1>1 DEF Fine, Running
<1> DEFINE s == Said(kind, x)
           w == Write(to, writer, Fragment(kind, x))
<1>3. kind \in Blocks /\ kind # "tool"
  BY DEF Blocks
<1>4. /\ Good(to, w) /\ SameEnding(w, writer) /\ (to = "completions" => w.next = writer.next)
      /\ to # "completions" => w.block = kind
  <2>1. Good(to, w) /\ SameEnding(w, writer) /\ (to = "completions" => w.next = writer.next)
    BY <1>1, <1>2, <1>3, SaysDelta
  <2>2. to # "completions" => w.block = kind
    BY <1>1, <1>2, <1>3, BlockOfDelta
  <2> QED BY <2>1, <2>2
<1>5. SaidOK(s) /\ SaidOnly({"deltas", "open"}, s, said) /\ s.open = kind
  BY <1>1, SaidFragment
<1> HIDE DEF s, w
<1>6. s.finish = said.finish /\ s.odd = said.odd /\ s.calls = said.calls
  BY <1>5 DEF SaidOnly, SaidFields
<1>7. to = "completions" /\ s.calls # <<>> => w.next > 0
  BY <1>1, <1>4, <1>6 DEF Fine
<1>8. Fine(s, w)
  <2>1. Aligned(s, w)
    BY <1>4, <1>5 DEF Aligned
  <2> QED BY <1>1, <1>4, <1>5, <1>6, <1>7, <2>1, FineContent
<1>9. writer' = w /\ Took(r, s)
  BY DEF WritesOne, w, s
<1> QED BY <1>8, <1>9, WriterInvFed

\* What holds before a line is fed
LEMMA WhileFed ==
    ASSUME WriterInv, NEW r, NEW s, Took(r, s)
    PROVE  /\ from \in Format /\ to \in Format \ {from} /\ to \in Format
           /\ Fine(said, writer) /\ SaidOK(said) /\ Good(to, writer) /\ Finished(said, writer)
           /\ Running => ~Closed(writer)
BY DEF WriterInv, Took, Fine, Running

\* A line of content
LEMMA FineSpoken ==
    ASSUME WriterInv, NEW r, NEW s, Took(r, s), phase' = "feed",
           SaidOK(s), s.finish = said.finish, said.odd \subseteq s.odd, Aligned(s, writer'),
           Good(to, writer'), SameEnding(writer', writer),
           to = "completions" /\ s.calls # <<>> => writer'.next > 0
    PROVE  WriterInv'
<1>1. Fine(said, writer)
  BY WhileFed
<1>2. Fine(s, writer')
  BY <1>1, FineContent
<1> QED BY <1>2, WriterInvFed

LEMMA OneCall ==
    ASSUME to \in Format, Good(to, writer), ~Closed(writer), NEW id, WritesOne(Ev("tool_start", id))
    PROVE  /\ Good(to, writer') /\ SameEnding(writer', writer) /\ Ready(to, writer')
           /\ Sent(to, writer') = Sent(to, writer) /\ Deltas(writer'.out) = Deltas(writer.out)
           /\ CallsSeen(writer'.out) = Append(CallsSeen(writer.out), [id |-> id, args |-> <<>>])
<1> DEFINE v == Write(to, writer, Ev("tool_start", id))
<1>1. /\ Good(to, v) /\ SameEnding(v, writer) /\ Ready(to, v)
      /\ Sent(to, v) = Sent(to, writer) /\ Deltas(v.out) = Deltas(writer.out)
      /\ CallsSeen(v.out) = Append(CallsSeen(writer.out), [id |-> id, args |-> <<>>])
  BY SaysCall
<1>2. writer' = v
  BY DEF WritesOne
<1> HIDE DEF v
<1> QED BY <1>1, <1>2

LEMMA OneFragment ==
    ASSUME to \in Format, Good(to, writer), ~Closed(writer), NEW b \in Blocks, NEW x,
           to = "completions" /\ b = "tool" => writer.next > 0, WritesOne(Fragment(b, x))
    PROVE  /\ Good(to, writer') /\ SameEnding(writer', writer)
           /\ Sent(to, writer') = Sent(to, writer)
           /\ Deltas(writer'.out) = Append(Deltas(writer.out), [kind |-> b, x |-> x])
           /\ b # "tool" => CallsSeen(writer'.out) = CallsSeen(writer.out)
           /\ b = "tool" /\ Ready(to, writer) =>
                 CallsSeen(writer'.out) = WithArg(CallsSeen(writer.out), x)
           /\ b = "tool" => Ready(to, writer')
           /\ to = "completions" => writer'.next = writer.next
           /\ to # "completions" => writer'.block = b
<1> DEFINE v == Write(to, writer, Fragment(b, x))
<1>1. /\ Good(to, v) /\ SameEnding(v, writer) /\ Sent(to, v) = Sent(to, writer)
      /\ Deltas(v.out) = Append(Deltas(writer.out), [kind |-> b, x |-> x])
      /\ b # "tool" => CallsSeen(v.out) = CallsSeen(writer.out)
      /\ b = "tool" /\ Ready(to, writer) => CallsSeen(v.out) = WithArg(CallsSeen(writer.out), x)
      /\ b = "tool" => Ready(to, v)
      /\ to = "completions" => v.next = writer.next
  BY SaysDelta, ZenonT(60)
<1>3. to # "completions" => v.block = b
  BY BlockOfDelta
<1>2. writer' = v
  BY DEF WritesOne
<1> HIDE DEF v
<1> QED BY <1>1, <1>2, <1>3

LEMMA CallAndArg ==
    ASSUME to \in Format, Good(to, writer), ~Closed(writer), NEW id, NEW x,
           WritesTwo(Ev("tool_start", id), Fragment("tool", x))
    PROVE  /\ Good(to, writer') /\ SameEnding(writer', writer) /\ Ready(to, writer')
           /\ Sent(to, writer') = Sent(to, writer)
           /\ Deltas(writer'.out) = Append(Deltas(writer.out), [kind |-> "tool", x |-> x])
           /\ CallsSeen(writer'.out) =
                 WithArg(Append(CallsSeen(writer.out), [id |-> id, args |-> <<>>]), x)
<1>1. PICK b \in Blocks : b = "tool"
  BY DEF Blocks
<1> DEFINE u == Write(to, writer, Ev("tool_start", id))
           v == Write(to, u, Fragment(b, x))
<1>2. /\ Good(to, u) /\ SameEnding(u, writer) /\ Ready(to, u)
      /\ Sent(to, u) = Sent(to, writer) /\ Deltas(u.out) = Deltas(writer.out)
      /\ CallsSeen(u.out) = Append(CallsSeen(writer.out), [id |-> id, args |-> <<>>])
  BY SaysCall
<1>3. writer' = v
  BY <1>1 DEF WritesTwo
<1> HIDE DEF u
<1>4. ~Closed(u) /\ (to = "completions" /\ b = "tool" => u.next > 0)
  BY <1>2 DEF SameEnding, Closed, Ready
<1>5. /\ Good(to, v) /\ SameEnding(v, u) /\ Sent(to, v) = Sent(to, u)
      /\ Deltas(v.out) = Append(Deltas(u.out), [kind |-> b, x |-> x])
      /\ b = "tool" /\ Ready(to, u) => CallsSeen(v.out) = WithArg(CallsSeen(u.out), x)
      /\ b = "tool" => Ready(to, v)
  BY <1>2, <1>4, SaysDelta, ZenonT(60)
<1> HIDE DEF v
<1>6. SameEnding(v, writer)
  BY <1>2, <1>5 DEF SameEnding
<1> QED BY <1>1, <1>2, <1>3, <1>5, <1>6

LEMMA OneStart ==
    ASSUME to \in Format, Good(to, writer), ~Closed(writer), NEW x \in {"reasoning", "text"},
           Tidy /\ to = "responses" => writer.block # x, WritesOne(Ev("start", x))
    PROVE  /\ Good(to, writer') /\ SameEnding(writer', writer) /\ Unheard(to, writer', writer)
           /\ to = "completions" => writer' = writer
           /\ to # "completions" => writer'.block = x
<1> DEFINE v == Write(to, writer, Ev("start", x))
<1>1. /\ Good(to, v) /\ SameEnding(v, writer) /\ Unheard(to, v, writer)
      /\ to = "completions" => v = writer
      /\ to # "completions" => v.block = x
  BY SaysStart
<1>2. writer' = v
  BY DEF WritesOne
<1> HIDE DEF v
<1> QED BY <1>1, <1>2

LEMMA StartAndFragment ==
    ASSUME to \in Format, Good(to, writer), ~Closed(writer), NEW b \in {"reasoning", "text"}, NEW x,
           Tidy /\ to = "responses" => writer.block # b, WritesTwo(Ev("start", b), Fragment(b, x))
    PROVE  /\ Good(to, writer') /\ SameEnding(writer', writer)
           /\ Sent(to, writer') = Sent(to, writer)
           /\ Deltas(writer'.out) = Append(Deltas(writer.out), [kind |-> b, x |-> x])
           /\ CallsSeen(writer'.out) = CallsSeen(writer.out)
           /\ to = "completions" => writer'.next = writer.next
           /\ to # "completions" => writer'.block = b
<1> DEFINE u == Write(to, writer, Ev("start", b))
           v == Write(to, u, Fragment(b, x))
<1>1. /\ Good(to, u) /\ SameEnding(u, writer) /\ Unheard(to, u, writer)
      /\ to = "completions" => u = writer
  BY SaysStart
<1>2. writer' = v
  BY DEF WritesTwo
<1> HIDE DEF u
<1>3. ~Closed(u)
  BY <1>1 DEF SameEnding, Closed
<1>4. b \in Blocks /\ b # "tool"
  BY DEF Blocks
<1>5. /\ Good(to, v) /\ SameEnding(v, u) /\ Sent(to, v) = Sent(to, u)
      /\ Deltas(v.out) = Append(Deltas(u.out), [kind |-> b, x |-> x])
      /\ CallsSeen(v.out) = CallsSeen(u.out)
      /\ to = "completions" => v.next = u.next
  BY <1>1, <1>3, <1>4, SaysDelta
<1>6. to # "completions" => v.block = b
  BY <1>1, <1>3, <1>4, BlockOfDelta
<1> HIDE DEF v
<1>7. SameEnding(v, writer)
  BY <1>1, <1>5 DEF SameEnding
<1> QED BY <1>1, <1>2, <1>5, <1>6, <1>7 DEF Unheard

LEMMA FullCall ==
    ASSUME SaidOK(said), NEW x
    PROVE  LET s == [SaidArgs(SaidCall(NextId), NextId, <<x>>, NoId) EXCEPT !.open = "full"]
           IN  /\ SaidOK(s) /\ SaidOnly({"deltas", "calls", "open"}, s, said) /\ s.open = "full"
               /\ s.deltas = Append(said.deltas, [kind |-> "tool", x |-> x])
               /\ s.calls = WithArg(Append(said.calls, [id |-> NextId, args |-> <<>>]), x)
<1> DEFINE u == SaidCall(NextId)
           v == SaidArgs(u, NextId, <<x>>, NoId)
           s == [v EXCEPT !.open = "full"]
<1>1. /\ SaidOK(u) /\ SaidOnly({"calls", "open"}, u, said)
      /\ u.calls = Append(said.calls, [id |-> NextId, args |-> <<>>])
      /\ NextId = Len(u.calls) /\ NextId \in DOMAIN u.calls
  BY SaidCalled
<1> HIDE DEF u
<1>2. /\ SaidOK(v) /\ SaidOnly({"deltas", "calls", "open"}, v, u) /\ v.calls # <<>>
      /\ v.deltas = Append(u.deltas, [kind |-> "tool", x |-> x])
      /\ v.calls = WithArg(u.calls, x)
  <2>1. PICK k \in DOMAIN u.calls : k = NextId /\ k = Len(u.calls)
    BY <1>1
  <2>2. PICK id \in {NoId, k} : id = NoId
    OBVIOUS
  <2> DEFINE z == SaidArgs(u, k, <<x>>, id)
  <2>3. SaidOK(u)
    BY <1>1
  <2>4. SaidOK(z) /\ SaidOnly({"deltas", "calls", "open"}, z, u)
    BY <2>3, SaidExtended, ZenonT(60)
  <2>5. z.open = "tool"
    BY <2>3 DEF SaidArgs, SaidOK, SaidFields
  <2>6. z.calls # <<>>
    BY <2>4, <2>5 DEF SaidOK
  <2>7. z.deltas = Append(u.deltas, [kind |-> "tool", x |-> x])
    BY <2>3, SaidExtended, ZenonT(60)
  <2>8. k = Len(u.calls) /\ id = NoId => z.calls = WithArg(u.calls, x)
    BY <2>3, SaidExtended, ZenonT(60)
  <2>9. z = v
    BY <2>1, <2>2
  <2> HIDE DEF z
  <2> QED BY <2>1, <2>2, <2>4, <2>7, <2>8, <2>9, <2>6
<1> HIDE DEF v
<1>3. SaidOnly({"open"}, s, v) /\ s.open = "full"
  BY <1>2 DEF SaidOnly, SaidOK, SaidFields
<1> HIDE DEF s
<1>4. SaidOK(s)
  BY <1>2, <1>3 DEF SaidOK, SaidOnly, SaidFields
<1>5. SaidOnly({"deltas", "calls", "open"}, s, said)
  BY <1>1, <1>2, <1>3 DEF SaidOnly, SaidFields
<1>6. s.calls = v.calls /\ s.deltas = v.deltas /\ u.deltas = said.deltas
  BY <1>1, <1>3 DEF SaidOnly, SaidFields
<1> QED BY <1>1, <1>2, <1>3, <1>4, <1>5, <1>6 DEF s, v, u

-----------------------------------------------------------------------------
(* The actions of Chat Completions *)

LEMMA InvChunkDelta == ASSUME WriterInv, ChunkDelta PROVE WriterInv'
<1>1. Running /\ phase' = "feed"
  BY ChunkDeltaStep
<1>2. PICK kind, x : /\ kind \in {"reasoning", "text"}
                     /\ Took(reader, Said(kind, x)) /\ WritesOne(Fragment(kind, x))
  BY ChunkDeltaStep
<1> QED BY <1>1, <1>2, FineFragment

LEMMA InvChunkCall == ASSUME WriterInv, ChunkCall PROVE WriterInv'
<1>1. from = "completions" /\ Running /\ phase' = "feed"
  BY ChunkCallStep
<1>2. PICK id \in {NoId, NextId}, index \in {NoIndex, Len(said.calls)} :
         \E x, args : CallFed(id, index, x, args)
  BY ChunkCallStep
<1>3. PICK x, args : CallFed(id, index, x, args)
  BY <1>2
<1> DEFINE tc == [index |-> index, id |-> id, args |-> args]
           r == AfterCall(reader, tc)
           s == SaidArgs(SaidCall(id), NextId, args, NoId)
<1>4. Took(r, s)
  BY <1>3 DEF CallFed
<1>5. /\ to \in Format /\ Good(to, writer) /\ SaidOK(said) /\ ~Closed(writer)
      /\ to # "completions"
  BY <1>1, <1>4, WhileFed
<1>6. Good(to, writer') /\ SameEnding(writer', writer)
  <2> HIDE DEF tc
  <2>1. CASE Starts(reader, tc) /\ args = <<>>
    BY <1>3, <1>5, <2>1, OneCall DEF tc, CallFed
  <2>2. CASE Starts(reader, tc) /\ args = <<x>>
    BY <1>3, <1>5, <2>2, CallAndArg DEF tc, CallFed
  <2>3. CASE ~Starts(reader, tc) /\ args = <<>>
    BY <1>3, <1>5, <2>3 DEF tc, SameEnding, CallFed
  <2>4. CASE ~Starts(reader, tc) /\ args = <<x>>
    <3>1. PICK b \in Blocks : b = "tool"
      BY DEF Blocks
    <3>2. WritesOne(Fragment(b, x))
      BY <1>3, <2>4, <3>1 DEF tc, CallFed
    <3> QED BY <1>5, <3>2, OneFragment
  <2> QED BY <1>3, <2>1, <2>2, <2>3, <2>4 DEF CallFed
<1>7. SaidOK(s) /\ SaidOnly({"deltas", "calls", "open"}, s, said) /\ s.open = "tool"
  BY <1>3, <1>5, SaidCallFed DEF CallFed
<1> HIDE DEF s, r
<1>8. s.finish = said.finish /\ s.odd = said.odd /\ Aligned(s, writer')
  BY <1>1, <1>7 DEF SaidOnly, SaidFields, Aligned
<1> QED BY <1>1, <1>4, <1>5, <1>6, <1>7, <1>8, FineSpoken

LEMMA InvChunkArgs == ASSUME WriterInv, ChunkArgs PROVE WriterInv'
<1>1. from = "completions" /\ Running /\ phase' = "feed"
  BY ChunkArgsStep
<1>2. PICK k \in DOMAIN said.calls : \E id \in {NoId, k}, index \in {NoIndex, k - 1} :
         \E x : ArgsFed(k, id, index, x)
  BY ChunkArgsStep
<1>3. PICK id \in {NoId, k}, index \in {NoIndex, k - 1} : \E x : ArgsFed(k, id, index, x)
  BY <1>2
<1>4. PICK x : ArgsFed(k, id, index, x)
  BY <1>3
<1> DEFINE tc == [index |-> index, id |-> id, args |-> <<x>>]
           r == AfterCall(reader, tc)
           os == OddArgs(k, id, index)
           s == SaidOdd(SaidArgs(said, k, <<x>>, id), os)
<1>5. Took(r, s)
  BY <1>4 DEF ArgsFed
<1>6. /\ to \in Format /\ Good(to, writer) /\ SaidOK(said) /\ ~Closed(writer)
      /\ to # "completions"
  BY <1>1, <1>5, WhileFed
<1>7. Good(to, writer') /\ SameEnding(writer', writer)
  <2> HIDE DEF tc
  <2>1. CASE Starts(reader, tc)
    BY <1>4, <1>6, <2>1, CallAndArg DEF tc, ArgsFed
  <2>2. CASE ~Starts(reader, tc)
    <3>1. PICK b \in Blocks : b = "tool"
      BY DEF Blocks
    <3>2. WritesOne(Fragment(b, x))
      BY <1>4, <2>2, <3>1 DEF tc, ArgsFed
    <3> QED BY <1>6, <3>2, OneFragment
  <2> QED BY <2>1, <2>2
<1> HIDE DEF os
<1>8. SaidOK(said)
  BY <1>6
<1>9. ArgsSaid(s, said, k, id, x, os)
  BY <1>8, SaidArgsFed
<1> HIDE DEF s, r
<1>10. s.finish = said.finish /\ said.odd \subseteq s.odd /\ Aligned(s, writer')
  BY <1>1, <1>9 DEF ArgsSaid, SaidOnly, SaidFields, Aligned
<1>11. SaidOK(s)
  BY <1>9 DEF ArgsSaid
<1> QED BY <1>1, <1>5, <1>6, <1>7, <1>11, <1>10, FineSpoken

-----------------------------------------------------------------------------
(* Endings *)

LEMMA Ending1 ==
    ASSUME to \in Format, Good(to, writer), NEW reason, NEW usage, WritesEnding(reason, usage)
    PROVE  /\ Good(to, writer') /\ writer'.finishSeen /\ Between(to, writer')
           /\ to = "completions" => writer'.next = writer.next
<1> DEFINE u == Write(to, writer, Ev("finish", reason))
<1>1. Good(to, u) /\ u.finishSeen /\ Between(to, u) /\ (to = "completions" => u.next = writer.next)
  BY SaysFinish
<1>2. CASE usage = <<>>
  BY <1>1, <1>2 DEF WritesEnding, WritesOne
<1>3. CASE usage # <<>>
  <2> DEFINE v == Write(to, u, Ev("usage", usage[1]))
  <2>1. writer' = v
    BY <1>3 DEF WritesEnding, WritesTwo
  <2> HIDE DEF u
  <2>2. /\ Good(to, v) /\ (v.finishSeen <=> u.finishSeen) /\ Between(to, v)
        /\ to = "completions" => v.next = u.next
    BY <1>1, SaysUsage
  <2> QED BY <1>1, <2>1, <2>2
<1> QED BY <1>2, <1>3

LEMMA FineEnding ==
    ASSUME WriterInv, Running, NEW r, NEW s, Took(r, s), phase' = "feed", NEW reason, NEW usage,
           WritesEnding(reason, usage), s.finish # <<>>,
           SaidOnly({"usage", "finish", "whole", "odd"}, s, said), said.odd \subseteq s.odd
    PROVE  WriterInv'
<1>1. Fine(said, writer) /\ to \in Format /\ Good(to, writer) /\ SaidOK(said)
  BY WhileFed
<1>2. /\ Good(to, writer') /\ writer'.finishSeen /\ Between(to, writer')
      /\ to = "completions" => writer'.next = writer.next
  BY <1>1, Ending1
<1>3. SaidOK(s)
  BY <1>1, SaidSet DEF SaidOnly
<1>4. s.calls = said.calls
  BY DEF SaidOnly, SaidFields
<1>5. Fine(s, writer')
  BY <1>1, <1>2, <1>3, <1>4 DEF Fine, Finished, Aligned, Between
<1> QED BY <1>5, WriterInvFed

LEMMA InvChunkFinish == ASSUME WriterInv, ChunkFinish PROVE WriterInv'
<1>1. Running /\ phase' = "feed"
  BY ChunkFinishStep
<1>2. PICK reason, usage :
         /\ Took(reader, [said EXCEPT !.finish = <<reason>>,
                                      !.usage = IF usage = <<>> THEN @ ELSE usage])
         /\ WritesEnding(reason, usage)
  BY ChunkFinishStep
<1> DEFINE s == [said EXCEPT !.finish = <<reason>>, !.usage = IF usage = <<>> THEN @ ELSE usage]
<1>3. SaidOK(said)
  BY <1>2, WhileFed
<1>4. SaidOnly({"usage", "finish", "whole", "odd"}, s, said) /\ s.finish # <<>> /\ said.odd \subseteq s.odd
  BY <1>3 DEF SaidOK, SaidOnly, SaidFields
<1>5. Took(reader, s)
  BY <1>2
<1> HIDE DEF s
<1> QED BY <1>1, <1>2, <1>4, <1>5, FineEnding

LEMMA FineUsage ==
    ASSUME WriterInv, NEW r, NEW s, Took(r, s), phase' = "feed", NEW x, WritesOne(Ev("usage", x)),
           SaidOnly({"usage", "odd"}, s, said), said.odd \subseteq s.odd
    PROVE  WriterInv'
<1>1. Fine(said, writer) /\ to \in Format /\ Good(to, writer) /\ SaidOK(said)
  BY WhileFed
<1> DEFINE v == Write(to, writer, Ev("usage", x))
<1>2. /\ Good(to, v) /\ (v.finishSeen <=> writer.finishSeen) /\ (to # "completions" => v.block = writer.block)
      /\ v.ended => writer.ended \/ writer.finishSeen
      /\ to = "completions" => v.next = writer.next
  BY <1>1, SaysUsage
<1>3. writer' = v
  BY DEF WritesOne
<1>4. SaidOK(s)
  BY <1>1, SaidSet DEF SaidOnly
<1>5. s.calls = said.calls /\ s.finish = said.finish /\ s.open = said.open
  BY DEF SaidOnly, SaidFields
<1> HIDE DEF v
<1>6. Fine(s, writer')
  BY <1>1, <1>2, <1>3, <1>4, <1>5 DEF Fine, Finished, Closed, Aligned
<1> QED BY <1>6, WriterInvFed

LEMMA InvChunkUsage == ASSUME WriterInv, ChunkUsage PROVE WriterInv'
<1>1. phase' = "feed" /\ WritesOne(Ev("usage", Tokens))
  BY ChunkUsageStep
<1> DEFINE u == [said EXCEPT !.usage = <<Tokens>>]
           v == SaidOdd(u, {"running"})
<1>2. Took(reader, u) \/ Took(reader, v)
  BY ChunkUsageStep
<1>3. SaidOK(said)
  BY <1>2, WhileFed
<1>4. /\ SaidOnly({"usage", "odd"}, u, said) /\ said.odd \subseteq u.odd
      /\ SaidOnly({"usage", "odd"}, v, said) /\ said.odd \subseteq v.odd
  BY <1>3 DEF SaidOK, SaidOnly, SaidFields, SaidOdd
<1> HIDE DEF u, v
<1> QED BY <1>1, <1>2, <1>4, FineUsage

LEMMA FineDone ==
    ASSUME WriterInv, NEW r, NEW s, Took(r, s), phase' = "close",
           SaidOnly({"whole", "odd"}, s, said), said.odd \subseteq s.odd,
           Good(to, writer'), to = "completions" => (writer'.finishSeen <=> writer.finishSeen)
    PROVE  WriterInv'
<1>1. SaidOK(said) /\ Finished(said, writer)
  BY WhileFed
<1>2. SaidOK(s)
  BY <1>1, SaidSet DEF SaidOnly
<1>3. Finished(s, writer')
  BY <1>1 DEF Finished, SaidOnly, SaidFields
<1> QED BY <1>2, <1>3, WriterInvDone

LEMMA InvChunkDone == ASSUME WriterInv, ChunkDone PROVE WriterInv'
<1> DEFINE s == [said EXCEPT !.whole = TRUE]
<1>1. phase' = "close" /\ WritesOne(Ev("done", 0)) /\ Took(reader, s)
  BY ChunkDoneStep
<1>2. to \in Format /\ Good(to, writer) /\ SaidOK(said)
  BY <1>1, WhileFed
<1>3. SaidOnly({"whole", "odd"}, s, said) /\ said.odd \subseteq s.odd
  BY <1>2 DEF SaidOK, SaidOnly, SaidFields
<1> DEFINE v == Write(to, writer, Ev("done", 0))
<1>4. Good(to, v) /\ (to = "completions" => v = writer)
  BY <1>2, SaysDone
<1>5. writer' = v
  BY <1>1 DEF WritesOne
<1> HIDE DEF v, s
<1> QED BY <1>1, <1>3, <1>4, <1>5, FineDone

-----------------------------------------------------------------------------
(* Lines that start a call, add to its arguments, or start another block *)

LEMMA FineCall ==
    ASSUME WriterInv, Running, NEW r, NEW s, Took(r, s), phase' = "feed",
           WritesOne(Ev("tool_start", NextId)),
           SaidOK(s), SaidOnly({"calls", "open", "odd"}, s, said), said.odd \subseteq s.odd
    PROVE  WriterInv'
<1>1. to \in Format /\ Good(to, writer) /\ ~Closed(writer)
  BY WhileFed
<1>2. Good(to, writer') /\ SameEnding(writer', writer) /\ Ready(to, writer')
  BY <1>1, OneCall
<1>3. s.finish = said.finish
  BY DEF SaidOnly, SaidFields
<1>4. Aligned(s, writer')
  BY <1>2 DEF Aligned, Ready
<1> QED BY <1>2, <1>3, <1>4, FineSpoken DEF Ready

LEMMA LastCall ==
    ASSUME SaidOK(said), said.open = "tool", NEW x
    PROVE  LET s == SaidArgs(said, Len(said.calls), <<x>>, NoId)
           IN  /\ SaidOK(s) /\ SaidOnly({"deltas", "calls", "open"}, s, said) /\ s.open = "tool"
               /\ s.deltas = Append(said.deltas, [kind |-> "tool", x |-> x])
               /\ s.calls = WithArg(said.calls, x)
<1> DEFINE s == SaidArgs(said, Len(said.calls), <<x>>, NoId)
<1>1. PICK k \in DOMAIN said.calls : k = Len(said.calls)
  <2>1. IsSeq(said.calls) /\ said.calls # <<>>
    BY DEF SaidOK
  <2>2. DOMAIN said.calls = 1 .. Len(said.calls) /\ Len(said.calls) \in Nat \ {0}
    BY <2>1, SeqLength, EmptyIsSeq
  <2> QED BY <2>2
<1>2. PICK none \in {NoId, k} : none = NoId
  OBVIOUS
<1> DEFINE z == SaidArgs(said, k, <<x>>, none)
<1>3. SaidOK(z) /\ SaidOnly({"deltas", "calls", "open"}, z, said)
  BY SaidExtended, ZenonT(60)
<1>4. z.deltas = Append(said.deltas, [kind |-> "tool", x |-> x])
  BY SaidExtended, ZenonT(60)
<1>5. k = Len(said.calls) /\ none = NoId => z.calls = WithArg(said.calls, x)
  BY SaidExtended, ZenonT(60)
<1>6. z.open = "tool"
  BY DEF SaidArgs, SaidOK, SaidFields
<1>7. z = s
  BY <1>1, <1>2
<1> HIDE DEF z, s
<1> QED BY <1>1, <1>2, <1>3, <1>4, <1>5, <1>6, <1>7 DEF s

LEMMA FineArg ==
    ASSUME WriterInv, Running, NEW r, NEW x, said.open = "tool",
           Took(r, SaidArgs(said, Len(said.calls), <<x>>, NoId)), phase' = "feed",
           WritesOne(Fragment("tool", x))
    PROVE  WriterInv'
<1> DEFINE s == SaidArgs(said, Len(said.calls), <<x>>, NoId)
<1>1. /\ Took(r, s) /\ to \in Format /\ Good(to, writer) /\ ~Closed(writer) /\ SaidOK(said)
      /\ Fine(said, writer)
  BY WhileFed
<1>2. to = "completions" => writer.next > 0
  BY <1>1 DEF Fine, SaidOK
<1>3. /\ Good(to, writer') /\ SameEnding(writer', writer)
      /\ to = "completions" => writer'.next > 0
      /\ to # "completions" => writer'.block = "tool"
  <2>1. PICK b \in Blocks : b = "tool"
    BY DEF Blocks
  <2>2. WritesOne(Fragment(b, x))
    BY <2>1
  <2> QED BY <1>1, <1>2, <2>1, <2>2, OneFragment
<1>4. SaidOK(s) /\ SaidOnly({"deltas", "calls", "open"}, s, said) /\ s.open = "tool"
  BY <1>1, LastCall
<1> HIDE DEF s
<1>5. s.finish = said.finish /\ s.odd = said.odd /\ Aligned(s, writer')
  BY <1>3, <1>4 DEF SaidOnly, SaidFields, Aligned
<1> QED BY <1>1, <1>3, <1>4, <1>5, FineSpoken

LEMMA FineStart ==
    ASSUME WriterInv, Running, NEW r, NEW s, NEW kind \in {"reasoning", "text"}, Took(r, s),
           phase' = "feed", WritesOne(Ev("start", kind)),
           Tidy /\ to = "responses" => writer.block # kind,
           SaidOK(s), SaidOnly({"open", "odd"}, s, said), said.odd \subseteq s.odd, s.open = kind
    PROVE  WriterInv'
<1>1. to \in Format /\ Good(to, writer) /\ ~Closed(writer) /\ Fine(said, writer)
  BY WhileFed
<1>2. /\ Good(to, writer') /\ SameEnding(writer', writer)
      /\ to = "completions" => writer' = writer
      /\ to # "completions" => writer'.block = kind
  BY <1>1, OneStart
<1>3. s.finish = said.finish /\ s.calls = said.calls
  BY DEF SaidOnly, SaidFields
<1>4. to = "completions" /\ s.calls # <<>> => writer'.next > 0
  BY <1>1, <1>2, <1>3 DEF Fine
<1>5. Aligned(s, writer')
  BY <1>2 DEF Aligned
<1> QED BY <1>2, <1>3, <1>4, <1>5, FineSpoken

LEMMA FineEndBlock ==
    ASSUME WriterInv, NEW r, Took(r, [said EXCEPT !.open = NoBlock]), phase' = "feed",
           WritesOne(Ev("end_block", 0))
    PROVE  WriterInv'
<1> DEFINE s == [said EXCEPT !.open = NoBlock]
           v == Write(to, writer, Ev("end_block", 0))
<1>1. Took(r, s) /\ to \in Format /\ Good(to, writer) /\ SaidOK(said) /\ Fine(said, writer)
  BY WhileFed
<1>2. /\ Good(to, v) /\ SameEnding(v, writer) /\ Between(to, v)
      /\ to = "completions" => v = writer
  BY <1>1, SaysEndBlock
<1>3. writer' = v
  BY DEF WritesOne
<1>4. SaidOK(s) /\ SaidOnly({"open"}, s, said)
  <2>1. PICK b \in {NoBlock, "reasoning", "text"} : b = NoBlock
    OBVIOUS
  <2> QED BY <1>1, <2>1, SaidOpened
<1> HIDE DEF s, v
<1>5. s.finish = said.finish /\ s.odd = said.odd /\ s.calls = said.calls
  BY <1>4 DEF SaidOnly, SaidFields
<1>6. to = "completions" /\ s.calls # <<>> => v.next > 0
  BY <1>1, <1>2, <1>5 DEF Fine
<1>7. Fine(s, v)
  <2>1. Aligned(s, v)
    BY <1>2 DEF Aligned, Between
  <2> QED BY <1>1, <1>2, <1>4, <1>5, <1>6, <2>1, FineContent
<1> QED BY <1>1, <1>3, <1>7, WriterInvFed

LEMMA FineCallWithArg ==
    ASSUME WriterInv, Running, NEW r, NEW s, NEW x, Took(r, s), phase' = "feed",
           WritesTwo(Ev("tool_start", NextId), Fragment("tool", x)),
           SaidOK(s), SaidOnly({"deltas", "calls", "open", "odd"}, s, said),
           said.odd \subseteq s.odd
    PROVE  WriterInv'
<1>1. to \in Format /\ Good(to, writer) /\ ~Closed(writer)
  BY WhileFed
<1>2. Good(to, writer') /\ SameEnding(writer', writer) /\ Ready(to, writer')
  BY <1>1, CallAndArg
<1>3. s.finish = said.finish
  BY DEF SaidOnly, SaidFields
<1>4. Aligned(s, writer')
  BY <1>2 DEF Aligned, Ready
<1> QED BY <1>2, <1>3, <1>4, FineSpoken DEF Ready

LEMMA FineStartWithText ==
    ASSUME WriterInv, Running, NEW r, NEW s, NEW kind \in {"reasoning", "text"}, NEW x,
           Took(r, s), phase' = "feed", WritesTwo(Ev("start", kind), Fragment(kind, x)),
           Tidy /\ to = "responses" => writer.block # kind,
           SaidOK(s), SaidOnly({"deltas", "open", "odd"}, s, said), said.odd \subseteq s.odd,
           s.open = kind
    PROVE  WriterInv'
<1>1. to \in Format /\ Good(to, writer) /\ ~Closed(writer) /\ Fine(said, writer)
  BY WhileFed
<1>2. /\ Good(to, writer') /\ SameEnding(writer', writer)
      /\ to = "completions" => writer'.next = writer.next
      /\ to # "completions" => writer'.block = kind
  BY <1>1, StartAndFragment
<1>3. s.finish = said.finish /\ s.calls = said.calls
  BY DEF SaidOnly, SaidFields
<1>4. to = "completions" /\ s.calls # <<>> => writer'.next > 0
  BY <1>1, <1>2, <1>3 DEF Fine
<1>5. Aligned(s, writer')
  BY <1>2 DEF Aligned
<1> QED BY <1>2, <1>3, <1>4, <1>5, FineSpoken

-----------------------------------------------------------------------------
(* The actions of Responses *)

LEMMA InvItemAdded == ASSUME WriterInv, ItemAdded PROVE WriterInv'
<1>1. from = "responses" /\ Running /\ phase' = "feed"
  BY ItemAddedStep
<1>2. to # "responses"
  BY <1>1 DEF WriterInv
<1>3. ASSUME NEW r, Took(r, SaidCall(NextId)), WritesOne(Ev("tool_start", NextId))
      PROVE  WriterInv'
  <2> DEFINE s == SaidCall(NextId)
  <2>1. Took(r, s) /\ SaidOK(said)
    BY <1>3, WhileFed
  <2>2. SaidOK(s) /\ SaidOnly({"calls", "open"}, s, said)
    BY <2>1, SaidCalled
  <2> HIDE DEF s
  <2>3. SaidOnly({"calls", "open", "odd"}, s, said) /\ said.odd \subseteq s.odd
    BY <2>2 DEF SaidOnly, SaidFields
  <2> QED BY <1>1, <1>3, <2>1, <2>2, <2>3, FineCall
<1>4. ASSUME NEW kind \in {"reasoning", "text"},
             Took(reader, [said EXCEPT !.open = kind]), WritesOne(Ev("start", kind))
      PROVE  WriterInv'
  <2> DEFINE s == [said EXCEPT !.open = kind]
  <2>1. Took(reader, s) /\ SaidOK(said)
    BY <1>4, WhileFed
  <2>2. SaidOK(s) /\ SaidOnly({"open"}, s, said) /\ s.open = kind
    <3>1. PICK b \in {NoBlock, "reasoning", "text"} : b = kind
      OBVIOUS
    <3> QED BY <2>1, <3>1, SaidOpened
  <2> HIDE DEF s
  <2>3. SaidOnly({"open", "odd"}, s, said) /\ said.odd \subseteq s.odd
    BY <2>2 DEF SaidOnly, SaidFields
  <2> QED BY <1>1, <1>2, <1>4, <2>1, <2>2, <2>3, FineStart
<1> QED BY <1>3, <1>4, ItemAddedStep

LEMMA InvPartAdded == ASSUME WriterInv, PartAdded PROVE WriterInv'
<1>1. /\ from = "responses" /\ Running /\ phase' = "feed" /\ said.open = "reasoning"
      /\ Took(reader, said) /\ WritesOne(Ev("start", "reasoning"))
  BY PartAddedStep
<1>2. to # "responses"
  BY <1>1 DEF WriterInv
<1>3. /\ to \in Format /\ Good(to, writer) /\ ~Closed(writer) /\ SaidOK(said)
      /\ Fine(said, writer)
  BY <1>1, WhileFed
<1>4. PICK x \in {"reasoning", "text"} : x = "reasoning"
  OBVIOUS
<1>5. /\ Good(to, writer') /\ SameEnding(writer', writer)
      /\ to = "completions" => writer' = writer
  BY <1>1, <1>2, <1>3, <1>4, OneStart
<1>6. to = "completions" /\ said.calls # <<>> => writer'.next > 0
  BY <1>3, <1>5 DEF Fine
<1>7. Aligned(said, writer')
  BY <1>1 DEF Aligned
<1> QED BY <1>1, <1>3, <1>5, <1>6, <1>7, FineSpoken

LEMMA InvItemTextDelta == ASSUME WriterInv, ItemTextDelta PROVE WriterInv'
<1>1. Running /\ phase' = "feed"
  BY ItemTextDeltaStep
<1>2. PICK kind, x : /\ kind \in {"reasoning", "text"}
                     /\ Took(reader, Said(kind, x)) /\ WritesOne(Fragment(kind, x))
  BY ItemTextDeltaStep
<1> QED BY <1>1, <1>2, FineFragment

LEMMA InvItemArgs == ASSUME WriterInv, ItemArgs PROVE WriterInv'
BY ItemArgsStep, FineArg

LEMMA InvItemDone == ASSUME WriterInv, ItemDone PROVE WriterInv'
BY ItemDoneStep, FineEndBlock

LEMMA InvCompleted == ASSUME WriterInv, Completed PROVE WriterInv'
<1>1. Running /\ phase' = "feed"
  BY CompletedStep
<1>2. PICK reason, told, usage :
         /\ Took(reader, [said EXCEPT !.finish = <<told>>, !.usage = usage, !.whole = TRUE])
         /\ WritesEnding(reason, usage)
  BY CompletedStep
<1> DEFINE s == [said EXCEPT !.finish = <<told>>, !.usage = usage, !.whole = TRUE]
<1>3. SaidOK(said)
  BY <1>2, WhileFed
<1>4. SaidOnly({"usage", "finish", "whole", "odd"}, s, said) /\ s.finish # <<>> /\ said.odd \subseteq s.odd
  BY <1>3 DEF SaidOK, SaidOnly, SaidFields
<1>5. Took(reader, s)
  BY <1>2
<1> HIDE DEF s
<1> QED BY <1>1, <1>2, <1>4, <1>5, FineEnding

LEMMA InvResponseFailed == ASSUME WriterInv, ResponseFailed PROVE WriterInv'
<1> DEFINE s == [said EXCEPT !.finish = <<"content_filter">>, !.whole = TRUE]
<1>1. Running /\ phase' = "feed" /\ Took(reader, s) /\ WritesOne(Ev("finish", "content_filter"))
  BY ResponseFailedStep
<1>2. WritesEnding("content_filter", <<>>)
  BY <1>1 DEF WritesEnding
<1>3. SaidOK(said)
  BY <1>1, WhileFed
<1>4. SaidOnly({"usage", "finish", "whole", "odd"}, s, said) /\ s.finish # <<>> /\ said.odd \subseteq s.odd
  BY <1>3 DEF SaidOK, SaidOnly, SaidFields
<1> HIDE DEF s
<1> QED BY <1>1, <1>2, <1>4, FineEnding

LEMMA InvResponseIncomplete == ASSUME WriterInv, ResponseIncomplete PROVE WriterInv'
<1> DEFINE u == [said EXCEPT !.finish = <<"length">>, !.usage = <<Tokens>>, !.whole = TRUE]
           s == SaidOdd(u, {"incomplete"})
<1>1. /\ from = "responses" /\ Running /\ phase' = "feed" /\ writer' = writer
      /\ Took(reader, s)
  BY ResponseIncompleteStep
<1>2. SaidOK(said) /\ Fine(said, writer)
  BY <1>1, WhileFed
<1>3. /\ SaidOnly({"usage", "finish", "whole", "odd"}, s, said) /\ s.finish # <<>>
      /\ "incomplete" \in s.odd
  BY <1>2 DEF SaidOK, SaidOnly, SaidFields, SaidOdd
<1> HIDE DEF s
<1>4. SaidOK(s)
  BY <1>2, <1>3, SaidSet
<1>5. s.calls = said.calls
  BY <1>3 DEF SaidOnly, SaidFields
<1>6. Fine(s, writer)
  BY <1>1, <1>2, <1>3, <1>4, <1>5 DEF Fine, Finished, Aligned
<1> QED BY <1>1, <1>6, WriterInvFed

LEMMA InvErrorEvent == ASSUME WriterInv, ErrorEvent PROVE WriterInv'
<1>1. phase' = "feed" /\ Took(reader, said) /\ WritesOne(Ev("error", 0))
  BY ErrorEventStep
<1>2. to \in Format /\ Good(to, writer) /\ SaidOK(said) /\ Fine(said, writer)
  BY <1>1, WhileFed
<1> DEFINE v == Write(to, writer, Ev("error", 0))
<1>3. /\ Good(to, v) /\ SameEnding(v, writer) /\ (to # "completions" => v.block = writer.block)
      /\ to = "completions" => v.next = writer.next
  BY <1>2, SaysError
<1>4. writer' = v
  BY <1>1 DEF WritesOne
<1> HIDE DEF v
<1>5. to = "completions" /\ said.calls # <<>> => v.next > 0
  BY <1>2, <1>3 DEF Fine
<1>6. Aligned(said, v)
  BY <1>2, <1>3 DEF Fine, Aligned
<1>7. Fine(said, v)
  BY <1>2, <1>3, <1>5, <1>6, FineContent
<1> QED BY <1>1, <1>4, <1>7, WriterInvFed

-----------------------------------------------------------------------------
(* The actions of Anthropic *)

LEMMA InvMessageStart == ASSUME WriterInv, MessageStart PROVE WriterInv'
<1>1. from = "anthropic" /\ phase' = "feed" /\ writer' = writer
  BY MessageStartStep
<1>2. PICK usage : Took(MergeUsage(reader, usage), [said EXCEPT !.usage = usage])
  BY MessageStartStep
<1> DEFINE r == MergeUsage(reader, usage)
           s == [said EXCEPT !.usage = usage]
<1>3. Took(r, s)
  BY <1>2
<1> HIDE DEF r
<1>4. SaidOK(said) /\ Fine(said, writer)
  BY <1>3, WhileFed
<1>5. SaidOnly({"usage"}, s, said)
  BY <1>4 DEF SaidOK, SaidOnly, SaidFields
<1> HIDE DEF s
<1>6. SaidOK(s)
  BY <1>4, <1>5, SaidSet DEF SaidOnly
<1>7. Fine(s, writer)
  BY <1>4, <1>5, <1>6 DEF Fine, Finished, Aligned, SaidOnly, SaidFields
<1> QED BY <1>1, <1>3, <1>7, WriterInvFed

\* What is said by the start of a block, os being irregular of it
LEMMA CallStarted ==
    ASSUME SaidOK(said), NEW os \in SUBSET {"unclosed", "doubled"}
    PROVE  LET s == SaidOdd(SaidCall(NextId), os)
           IN  /\ SaidOK(s) /\ SaidOnly({"calls", "open", "odd"}, s, said)
               /\ said.odd \subseteq s.odd /\ (Regular(s) <=> Regular(said)) /\ s.deltas = said.deltas
               /\ s.calls = Append(said.calls, [id |-> NextId, args |-> <<>>])
<1> DEFINE u == SaidCall(NextId)
<1>1. /\ SaidOK(u) /\ SaidOnly({"calls", "open"}, u, said)
      /\ u.calls = Append(said.calls, [id |-> NextId, args |-> <<>>])
  BY SaidCalled
<1> HIDE DEF u
<1>2. u.deltas = said.deltas /\ os \in SUBSET {"unclosed", "doubled", "input"}
  BY <1>1 DEF SaidOnly, SaidFields
<1>3. PICK changed : changed = {"calls", "open"}
  OBVIOUS
<1>4. changed \cup {"odd"} = {"calls", "open", "odd"} /\ "odd" \notin changed
  BY <1>3
<1>5. /\ SaidOK(SaidOdd(u, os)) /\ SaidOnly(changed \cup {"odd"}, SaidOdd(u, os), said)
      /\ said.odd \subseteq SaidOdd(u, os).odd /\ (Regular(SaidOdd(u, os)) <=> Regular(said))
      /\ SaidOdd(u, os).deltas = u.deltas /\ SaidOdd(u, os).calls = u.calls
      /\ SaidOdd(u, os).open = u.open
  BY <1>1, <1>2, <1>3, <1>4, SaidMore
<1>6. /\ SaidOK(SaidOdd(u, os)) /\ SaidOnly({"calls", "open", "odd"}, SaidOdd(u, os), said)
      /\ said.odd \subseteq SaidOdd(u, os).odd /\ (Regular(SaidOdd(u, os)) <=> Regular(said))
      /\ SaidOdd(u, os).calls = Append(said.calls, [id |-> NextId, args |-> <<>>])
      /\ SaidOdd(u, os).deltas = said.deltas
  BY <1>1, <1>2, <1>4, <1>5
<1> QED BY <1>6 DEF u

LEMMA FullCallStarted ==
    ASSUME SaidOK(said), NEW os \in SUBSET {"unclosed", "doubled"}, NEW x
    PROVE  LET s == SaidOdd(CallInFull(x), os)
           IN  /\ SaidOK(s) /\ SaidOnly({"deltas", "calls", "open", "odd"}, s, said)
               /\ said.odd \subseteq s.odd /\ (Regular(s) <=> Regular(said))
               /\ s.deltas = Append(said.deltas, [kind |-> "tool", x |-> x])
               /\ s.calls = WithArg(Append(said.calls, [id |-> NextId, args |-> <<>>]), x)
<1> DEFINE u == CallInFull(x)
<1>1. /\ SaidOK(u) /\ SaidOnly({"deltas", "calls", "open"}, u, said)
      /\ u.deltas = Append(said.deltas, [kind |-> "tool", x |-> x])
      /\ u.calls = WithArg(Append(said.calls, [id |-> NextId, args |-> <<>>]), x)
  BY FullCall DEF CallInFull
<1> HIDE DEF u
<1>2. os \in SUBSET {"unclosed", "doubled", "input"}
  OBVIOUS
<1>3. PICK changed : changed = {"deltas", "calls", "open"}
  OBVIOUS
<1>4. changed \cup {"odd"} = {"deltas", "calls", "open", "odd"} /\ "odd" \notin changed
  BY <1>3
<1>5. /\ SaidOK(SaidOdd(u, os)) /\ SaidOnly(changed \cup {"odd"}, SaidOdd(u, os), said)
      /\ said.odd \subseteq SaidOdd(u, os).odd /\ (Regular(SaidOdd(u, os)) <=> Regular(said))
      /\ SaidOdd(u, os).deltas = u.deltas /\ SaidOdd(u, os).calls = u.calls
      /\ SaidOdd(u, os).open = u.open
  BY <1>1, <1>2, <1>3, <1>4, SaidMore
<1>6. /\ SaidOK(SaidOdd(u, os)) /\ SaidOnly({"deltas", "calls", "open", "odd"}, SaidOdd(u, os), said)
      /\ said.odd \subseteq SaidOdd(u, os).odd /\ (Regular(SaidOdd(u, os)) <=> Regular(said))
      /\ SaidOdd(u, os).deltas = Append(said.deltas, [kind |-> "tool", x |-> x])
      /\ SaidOdd(u, os).calls = WithArg(Append(said.calls, [id |-> NextId, args |-> <<>>]), x)
  BY <1>1, <1>2, <1>4, <1>5
<1> QED BY <1>6 DEF u

LEMMA BlockStarted ==
    ASSUME SaidOK(said), NEW os \in SUBSET {"unclosed", "doubled"},
           NEW kind \in {"reasoning", "text"}
    PROVE  LET s == SaidOdd([said EXCEPT !.open = kind], os)
           IN  /\ SaidOK(s) /\ SaidOnly({"open", "odd"}, s, said) /\ s.open = kind
               /\ said.odd \subseteq s.odd /\ (Regular(s) <=> Regular(said))
<1> DEFINE u == [said EXCEPT !.open = kind]
<1>1. SaidOK(u) /\ SaidOnly({"open"}, u, said) /\ u.open = kind
  <2>1. PICK b \in {NoBlock, "reasoning", "text"} : b = kind
    OBVIOUS
  <2> QED BY <2>1, SaidOpened
<1> HIDE DEF u
<1>2. os \in SUBSET {"unclosed", "doubled", "input"}
  OBVIOUS
<1>3. PICK changed : changed = {"open"}
  OBVIOUS
<1>4. changed \cup {"odd"} = {"open", "odd"} /\ "odd" \notin changed
  BY <1>3
<1>5. /\ SaidOK(SaidOdd(u, os)) /\ SaidOnly(changed \cup {"odd"}, SaidOdd(u, os), said)
      /\ said.odd \subseteq SaidOdd(u, os).odd /\ (Regular(SaidOdd(u, os)) <=> Regular(said))
      /\ SaidOdd(u, os).deltas = u.deltas /\ SaidOdd(u, os).calls = u.calls
      /\ SaidOdd(u, os).open = u.open
  BY <1>1, <1>2, <1>3, <1>4, SaidMore
<1>6. /\ SaidOK(SaidOdd(u, os)) /\ SaidOnly({"open", "odd"}, SaidOdd(u, os), said)
      /\ said.odd \subseteq SaidOdd(u, os).odd /\ (Regular(SaidOdd(u, os)) <=> Regular(said))
      /\ SaidOdd(u, os).open = kind
  BY <1>1, <1>2, <1>4, <1>5
<1> QED BY <1>6 DEF u

LEMMA TextStarted ==
    ASSUME SaidOK(said), NEW os \in SUBSET {"unclosed", "doubled"},
           NEW kind \in {"reasoning", "text"}, NEW x
    PROVE  LET s == SaidOdd(Said(kind, x), os)
           IN  /\ SaidOK(s) /\ SaidOnly({"deltas", "open", "odd"}, s, said) /\ s.open = kind
               /\ said.odd \subseteq s.odd /\ (Regular(s) <=> Regular(said))
               /\ s.deltas = Append(said.deltas, [kind |-> kind, x |-> x])
<1> DEFINE u == Said(kind, x)
<1>1. /\ SaidOK(u) /\ SaidOnly({"deltas", "open"}, u, said) /\ u.open = kind
      /\ u.deltas = Append(said.deltas, [kind |-> kind, x |-> x])
  BY SaidFragment
<1> HIDE DEF u
<1>2. os \in SUBSET {"unclosed", "doubled", "input"}
  OBVIOUS
<1>3. PICK changed : changed = {"deltas", "open"}
  OBVIOUS
<1>4. changed \cup {"odd"} = {"deltas", "open", "odd"} /\ "odd" \notin changed
  BY <1>3
<1>5. /\ SaidOK(SaidOdd(u, os)) /\ SaidOnly(changed \cup {"odd"}, SaidOdd(u, os), said)
      /\ said.odd \subseteq SaidOdd(u, os).odd /\ (Regular(SaidOdd(u, os)) <=> Regular(said))
      /\ SaidOdd(u, os).deltas = u.deltas /\ SaidOdd(u, os).calls = u.calls
      /\ SaidOdd(u, os).open = u.open
  BY <1>1, <1>2, <1>3, <1>4, SaidMore
<1>6. /\ SaidOK(SaidOdd(u, os)) /\ SaidOnly({"deltas", "open", "odd"}, SaidOdd(u, os), said)
      /\ said.odd \subseteq SaidOdd(u, os).odd /\ (Regular(SaidOdd(u, os)) <=> Regular(said))
      /\ SaidOdd(u, os).open = kind
      /\ SaidOdd(u, os).deltas = Append(said.deltas, [kind |-> kind, x |-> x])
  BY <1>1, <1>2, <1>4, <1>5
<1> QED BY <1>6 DEF u

\* The writer has no block of the kind that a tidy upstream starts
LEMMA OtherBlock ==
    ASSUME from = "anthropic", Fine(said, writer), NEW kind \in {"reasoning", "text"},
           Tidy /\ to = "responses" => said.open # kind
    PROVE  Tidy /\ to = "responses" => writer.block # kind
BY DEF Fine, Aligned, NoBlock

LEMMA InvBlockStart == ASSUME WriterInv, BlockStart PROVE WriterInv'
<1>1. from = "anthropic" /\ Running /\ phase' = "feed"
  BY BlockStartStep
<1>2. PICK os \in SUBSET {"unclosed", "doubled"} :
         \/ Took(reader, SaidOdd(SaidCall(NextId), os)) /\ WritesOne(Ev("tool_start", NextId))
         \/ \E x : /\ Took(reader, SaidOdd(CallInFull(x), os))
                   /\ WritesTwo(Ev("tool_start", NextId), Fragment("tool", x))
         \/ \E kind \in {"reasoning", "text"} :
               /\ Took(reader, SaidOdd([said EXCEPT !.open = kind], os))
               /\ WritesOne(Ev("start", kind)) /\ (Tidy /\ to = "responses" => said.open # kind)
         \/ \E kind \in {"reasoning", "text"}, x \in Frag("reasoning") \cup Frag("text") :
               /\ Took(reader, SaidOdd(Said(kind, x), os))
               /\ WritesTwo(Ev("start", kind), Fragment(kind, x)) /\ (Tidy /\ to = "responses" => said.open # kind)
  BY BlockStartStep
<1>3. SaidOK(said) /\ Fine(said, writer)
  BY <1>2, WhileFed
<1>4. CASE Took(reader, SaidOdd(SaidCall(NextId), os)) /\ WritesOne(Ev("tool_start", NextId))
  BY <1>1, <1>3, <1>4, CallStarted, FineCall
<1>5. ASSUME NEW x, Took(reader, SaidOdd(CallInFull(x), os)),
             WritesTwo(Ev("tool_start", NextId), Fragment("tool", x))
      PROVE  WriterInv'
  BY <1>1, <1>3, <1>5, FullCallStarted, FineCallWithArg
<1>6. ASSUME NEW kind \in {"reasoning", "text"}, Took(reader, SaidOdd([said EXCEPT !.open = kind], os)),
             WritesOne(Ev("start", kind)),
             Tidy /\ to = "responses" => said.open # kind
      PROVE  WriterInv'
  <2>1. Tidy /\ to = "responses" => writer.block # kind
    BY <1>1, <1>3, <1>6, OtherBlock
  <2> QED BY <1>1, <1>3, <1>6, <2>1, BlockStarted, FineStart
<1>7. ASSUME NEW kind \in {"reasoning", "text"}, NEW x, Took(reader, SaidOdd(Said(kind, x), os)),
             WritesTwo(Ev("start", kind), Fragment(kind, x)),
             Tidy /\ to = "responses" => said.open # kind
      PROVE  WriterInv'
  <2>1. Tidy /\ to = "responses" => writer.block # kind
    BY <1>1, <1>3, <1>7, OtherBlock
  <2> QED BY <1>1, <1>3, <1>7, <2>1, TextStarted, FineStartWithText
<1> QED BY <1>2, <1>4, <1>5, <1>6, <1>7

LEMMA PlaceholderSaid ==
    ASSUME SaidOK(said)
    PROVE  LET s == SaidOdd(SaidCall(NextId), Unclosed \cup {"input"})
           IN  /\ SaidOK(s) /\ SaidOnly({"deltas", "calls", "open", "odd"}, s, said)
               /\ said.odd \subseteq s.odd /\ "input" \in s.odd
               /\ (Regular(s) <=> Regular(said)) /\ s.deltas = said.deltas
<1> DEFINE u == SaidCall(NextId)
           os == Unclosed \cup {"input"}
           s == SaidOdd(u, os)
<1>1. SaidOK(u) /\ SaidOnly({"calls", "open"}, u, said)
  BY SaidCalled
<1> HIDE DEF u
<1>2. u.deltas = said.deltas /\ SaidOnly({"deltas", "calls", "open"}, u, said)
  BY <1>1 DEF SaidOnly, SaidFields
<1>3. os \in SUBSET {"unclosed", "doubled", "input"} /\ "input" \in os
  BY DEF Unclosed
<1> HIDE DEF os
<1>4. PICK changed : changed = {"deltas", "calls", "open"}
  OBVIOUS
<1>5. changed \cup {"odd"} = {"deltas", "calls", "open", "odd"} /\ "odd" \notin changed
  BY <1>4
<1>6. /\ SaidOK(s) /\ SaidOnly(changed \cup {"odd"}, s, said) /\ s.odd = said.odd \cup os
      /\ said.odd \subseteq s.odd /\ (Regular(s) <=> Regular(said)) /\ s.deltas = u.deltas
  BY <1>1, <1>2, <1>3, <1>4, <1>5, SaidMore
<1> HIDE DEF s
<1> QED BY <1>2, <1>3, <1>5, <1>6 DEF s, u, os

LEMMA InvPlaceholderStart == ASSUME WriterInv, PlaceholderStart PROVE WriterInv'
<1> DEFINE s == SaidOdd(SaidCall(NextId), Unclosed \cup {"input"})
<1>1. Running /\ phase' = "feed"
  BY PlaceholderStartStep
<1>2. PICK x : Took(reader, s) /\ WritesTwo(Ev("tool_start", NextId), Fragment("tool", x))
  BY PlaceholderStartStep
<1>3. SaidOK(said)
  BY <1>2, WhileFed
<1>4. SaidOK(s) /\ SaidOnly({"deltas", "calls", "open", "odd"}, s, said) /\ said.odd \subseteq s.odd
  BY <1>3, PlaceholderSaid
<1> HIDE DEF s
<1> QED BY <1>1, <1>2, <1>4, FineCallWithArg

LEMMA InvBlockDelta == ASSUME WriterInv, BlockDelta PROVE WriterInv'
<1>1. Running /\ phase' = "feed" /\ said.open \in {"reasoning", "text", "tool"}
  BY BlockDeltaStep
<1>2. PICK x : /\ Took(reader, IF said.open = "tool" THEN SaidArgs(said, Len(said.calls), <<x>>, NoId)
                                                     ELSE Said(said.open, x))
               /\ WritesOne(Fragment(said.open, x))
  BY BlockDeltaStep
<1>3. CASE said.open = "tool"
  <2>1. /\ Took(reader, SaidArgs(said, Len(said.calls), <<x>>, NoId))
        /\ WritesOne(Fragment("tool", x))
    BY <1>2, <1>3
  <2> QED BY <1>1, <1>3, <2>1, FineArg
<1>4. CASE said.open # "tool"
  <2>1. PICK kind \in {"reasoning", "text"} : kind = said.open
    BY <1>1, <1>4
  <2>2. Took(reader, Said(kind, x)) /\ WritesOne(Fragment(kind, x))
    BY <1>2, <1>4, <2>1
  <2> QED BY <1>1, <2>2, FineFragment
<1> QED BY <1>3, <1>4

LEMMA InvBlockStop == ASSUME WriterInv, BlockStop PROVE WriterInv'
BY BlockStopStep, FineEndBlock

\* A message's end, perhaps with a block left open
LEMMA EndSaid ==
    ASSUME SaidOK(said), NEW changed \in SUBSET {"finish", "usage", "whole"}, NEW u,
           SaidOnly(changed, u, said)
    PROVE  LET s == SaidOdd(u, Unclosed)
           IN  /\ SaidOK(s) /\ SaidOnly(changed \cup {"odd"}, s, said)
               /\ said.odd \subseteq s.odd /\ (Regular(s) <=> Regular(said))
               /\ s.finish = u.finish /\ s.usage = u.usage /\ s.whole = u.whole
<1>1. SaidOK(u)
  BY SaidSet DEF SaidOnly
<1>2. Unclosed \in SUBSET {"unclosed", "doubled", "input"} /\ "odd" \notin changed
  BY DEF Unclosed
<1> QED BY <1>1, <1>2, SaidMore

LEMMA InvMessageDelta == ASSUME WriterInv, MessageDelta PROVE WriterInv'
<1> DEFINE m == MergeUsage(reader, <<OutputUsage>>)
           start == IF said.usage = <<>> THEN NoTokens ELSE said.usage[1]
           told == <<[in |-> start.in, out |-> fed + 1]>>
           u(reason) == [said EXCEPT !.finish = <<reason>>]
           v(reason) == [said EXCEPT !.finish = <<reason>>, !.usage = told]
           r == [m EXCEPT !.emitted = TRUE]
           us == <<m.usage>>
<1>1. /\ Running /\ phase' = "feed"
      /\ \E reason :
            \/ Took(reader, SaidOdd(u(reason), Unclosed)) /\ WritesOne(Ev("finish", reason))
            \/ /\ Took(r, SaidOdd(v(reason), Unclosed))
               /\ WritesTwo(Ev("finish", reason), Ev("usage", m.usage))
  BY MessageDeltaStep
<1>2. us # <<>> /\ us = <<us[1]>> /\ us[1] = m.usage
  <2> HIDE DEF m
  <2> QED OBVIOUS
<1> HIDE DEF told, us, m, r
<1>3. PICK reason :
            \/ Took(reader, SaidOdd(u(reason), Unclosed)) /\ WritesOne(Ev("finish", reason))
            \/ /\ Took(r, SaidOdd(v(reason), Unclosed))
               /\ WritesTwo(Ev("finish", reason), Ev("usage", m.usage))
  BY <1>1
<1>4. SaidOK(said)
  BY <1>3, WhileFed
<1>5. ASSUME NEW q, SaidOnly({"finish", "usage"}, q, said), q.finish = <<reason>>, NEW z,
             Took(z, SaidOdd(q, Unclosed)), NEW w, WritesEnding(reason, w)
      PROVE  WriterInv'
  <2> DEFINE s == SaidOdd(q, Unclosed)
  <2>1. PICK changed \in SUBSET {"finish", "usage", "whole"} : changed = {"finish", "usage"}
    OBVIOUS
  <2>2. SaidOnly(changed \cup {"odd"}, s, said) /\ said.odd \subseteq s.odd /\ s.finish = <<reason>>
    BY <1>4, <1>5, <2>1, EndSaid
  <2> HIDE DEF s
  <2>3. SaidOnly({"usage", "finish", "whole", "odd"}, s, said) /\ s.finish # <<>>
    BY <2>1, <2>2 DEF SaidOnly
  <2> QED BY <1>1, <1>5, <2>2, <2>3, FineEnding DEF s
<1>6. CASE Took(reader, SaidOdd(u(reason), Unclosed)) /\ WritesOne(Ev("finish", reason))
  <2>1. SaidOnly({"finish", "usage"}, u(reason), said) /\ u(reason).finish = <<reason>>
    BY <1>4 DEF SaidOK, SaidOnly, SaidFields
  <2>2. WritesEnding(reason, <<>>)
    BY <1>6 DEF WritesEnding
  <2> HIDE DEF u
  <2> QED BY <1>5, <1>6, <2>1, <2>2
<1>7. CASE /\ Took(r, SaidOdd(v(reason), Unclosed))
           /\ WritesTwo(Ev("finish", reason), Ev("usage", m.usage))
  <2>1. SaidOnly({"finish", "usage"}, v(reason), said) /\ v(reason).finish = <<reason>>
    BY <1>4 DEF SaidOK, SaidOnly, SaidFields
  <2>2. WritesEnding(reason, us)
    BY <1>2, <1>7 DEF WritesEnding
  <2> HIDE DEF v
  <2> QED BY <1>5, <1>7, <2>1, <2>2
<1> QED BY <1>3, <1>6, <1>7

LEMMA InvMessageStop == ASSUME WriterInv, MessageStop PROVE WriterInv'
<1>1. phase' = "close"
  BY MessageStopStep
<1> DEFINE q == [said EXCEPT !.whole = TRUE]
           s == SaidOdd(q, Unclosed)
<1>2. PICK r : /\ Took(r, s)
               /\ \/ WritesTwo(Ev("usage", reader.usage), Ev("done", 0))
                  \/ WritesOne(Ev("done", 0))
  BY MessageStopStep
<1>3. to \in Format /\ Good(to, writer) /\ SaidOK(said)
  BY <1>2, WhileFed
<1>4. Good(to, writer') /\ (to = "completions" => (writer'.finishSeen <=> writer.finishSeen))
  <2>1. CASE WritesOne(Ev("done", 0))
    <3> DEFINE v == Write(to, writer, Ev("done", 0))
    <3>1. Good(to, v) /\ (to = "completions" => v = writer)
      BY <1>3, SaysDone
    <3>2. writer' = v
      BY <2>1 DEF WritesOne
    <3> HIDE DEF v
    <3> QED BY <3>1, <3>2
  <2>2. CASE WritesTwo(Ev("usage", reader.usage), Ev("done", 0))
    <3> DEFINE u == Write(to, writer, Ev("usage", reader.usage))
               v == Write(to, u, Ev("done", 0))
    <3>1. Good(to, u) /\ (u.finishSeen <=> writer.finishSeen)
      BY <1>3, SaysUsage
    <3>2. writer' = v
      BY <2>2 DEF WritesTwo
    <3> HIDE DEF u
    <3>3. Good(to, v) /\ (to = "completions" => v = u)
      BY <1>3, <3>1, SaysDone
    <3> HIDE DEF v
    <3> QED BY <3>1, <3>2, <3>3
  <2> QED BY <1>2, <2>1, <2>2
<1>5. SaidOnly({"whole", "odd"}, s, said) /\ said.odd \subseteq s.odd
  <2>1. SaidOnly({"whole"}, q, said)
    BY <1>3 DEF SaidOK, SaidOnly, SaidFields
  <2>2. PICK changed \in SUBSET {"finish", "usage", "whole"} : changed = {"whole"}
    OBVIOUS
  <2> HIDE DEF q
  <2>3. SaidOnly(changed \cup {"odd"}, s, said) /\ said.odd \subseteq s.odd
    BY <1>3, <2>1, <2>2, EndSaid
  <2> HIDE DEF s
  <2>4. changed \cup {"odd"} = {"whole", "odd"}
    BY <2>2
  <2> QED BY <2>3, <2>4
<1> HIDE DEF s
<1> QED BY <1>1, <1>2, <1>4, <1>5, FineDone

-----------------------------------------------------------------------------
(* The end of the body, Close, and the whole *)

LEMMA InvEndOfBody == ASSUME WriterInv, EndOfBody PROVE WriterInv'
<1>1. Good(to, writer) => Good(to, writer)'
  BY GoodNext DEF EndOfBody
<1> QED BY <1>1 DEF EndOfBody, WriterInv, Fine, Finished

LEMMA InvClose == ASSUME WriterInv, Close PROVE WriterInv'
<1> DEFINE v == CloseStream(to, writer)
           ends == {j \in DOMAIN v.out : v.out[j].type = "end"}
           stops == {j \in DOMAIN v.out : v.out[j].type = "stop"}
<1>1. /\ from' = from /\ to' = to /\ said' = said /\ phase' = "closed" /\ writer' = v
      /\ phase = "close"
  BY DEF Close
<1>2. to \in Format /\ Good(to, writer) /\ Finished(said, writer)
  BY <1>1 DEF WriterInv
<1>3. /\ EndsOnce(v.out)
      /\ to # "completions" => ends # {} /\ (Tidy => Paired(v.out))
      /\ to = "completions" => (ends # {} <=> writer.finishSeen)
      /\ to # "responses" => stops # {}
      /\ Tidy /\ to = "responses" => Repeated(v.out)
  BY <1>2, ClosedAnswer
<1> HIDE DEF v
<1>4. Tidy => BlocksPaired'
  BY <1>1, <1>3 DEF BlocksPaired, out
<1>5. AnswerEndsOnce'
  <2>1. to = "completions" /\ "incomplete" \notin said.odd => (ends # {} <=> said.finish # <<>>)
    BY <1>2, <1>3 DEF Finished
  <2>2. /\ Cardinality(ends) <= 1
        /\ \A j \in ends, k \in DOMAIN v.out :
              k > j => v.out[k].type \notin {"open", "delta", "close"}
        /\ \A j \in stops : j = Len(v.out)
    BY <1>3 DEF EndsOnce, Content
  <2> QED BY <1>1, <1>3, <2>1, <2>2 DEF AnswerEndsOnce, out
<1>6. Tidy => OutputComplete'
  BY <1>1, <1>3 DEF OutputComplete, Repeated, out
<1>7. Tidy' <=> Tidy
  BY <1>1 DEF Tidy
<1> QED BY <1>1, <1>4, <1>5, <1>6, <1>7 DEF WriterInv

LEMMA InvUpstream == ASSUME WriterInv, Upstream PROVE WriterInv'
BY InvChunkDelta, InvChunkCall, InvChunkArgs, InvChunkFinish, InvChunkUsage, InvChunkDone,
   InvItemAdded, InvPartAdded, InvItemTextDelta, InvItemArgs, InvItemDone, InvCompleted,
   InvResponseFailed, InvResponseIncomplete, InvErrorEvent, InvMessageStart, InvBlockStart,
   InvPlaceholderStart, InvBlockDelta, InvBlockStop, InvMessageDelta, InvMessageStop
   DEF Upstream

LEMMA WriterInvHolds == Spec => []WriterInv
<1>1. Init => WriterInv
  <2> SUFFICES ASSUME Init PROVE WriterInv
    OBVIOUS
  <2>1. /\ from \in Format /\ to \in Format \ {from} /\ phase = "feed" /\ said = Nothing
        /\ \E rescue : writer = NewWriter(rescue)
    BY DEF Init
  <2>2. /\ Good(to, writer) /\ ~Closed(writer) /\ ~writer.finishSeen /\ writer.block = NoBlock
    BY <2>1, NewWriterGood
  <2>3. SaidOK(said) /\ said.finish = <<>> /\ said.calls = <<>>
    BY <2>1, SaidNothing DEF Nothing
  <2> QED BY <2>1, <2>2, <2>3 DEF WriterInv, Fine, Finished, Aligned
<1>2. WriterInv /\ [Next]_vars => WriterInv'
  <2> SUFFICES ASSUME WriterInv, [Next]_vars PROVE WriterInv'
    OBVIOUS
  <2>1. CASE UNCHANGED vars
    <3>1. /\ from' = from /\ to' = to /\ phase' = phase /\ said' = said /\ writer' = writer
      BY <2>1 DEF vars
    <3>2. Good(to, writer) => Good(to, writer)'
      BY <3>1, GoodNext
    <3>3. /\ Fine(said, writer) => Fine(said, writer)'
          /\ (Finished(said, writer)' <=> Finished(said, writer)) /\ (Tidy' <=> Tidy)
      BY <3>1, <3>2 DEF Fine, Finished, Aligned, Tidy
    <3>4. /\ (BlocksPaired' <=> BlocksPaired) /\ (AnswerEndsOnce' <=> AnswerEndsOnce)
          /\ (OutputComplete' <=> OutputComplete)
      BY <3>1 DEF BlocksPaired, AnswerEndsOnce, OutputComplete, out
    <3> QED BY <3>1, <3>2, <3>3, <3>4 DEF WriterInv
  <2> QED BY <2>1, InvUpstream, InvEndOfBody, InvClose DEF Next
<1> QED BY <1>1, <1>2, PTL DEF Spec

LEMMA WriterInvTells ==
    WriterInv => AnswerEndsOnce /\ (Tidy => BlocksPaired /\ OutputComplete)
<1> SUFFICES ASSUME WriterInv, phase # "closed"
             PROVE  AnswerEndsOnce /\ (Tidy => BlocksPaired /\ OutputComplete)
  BY DEF WriterInv
<1>1. to \in Format /\ Good(to, writer)
  BY DEF WriterInv, Fine
<1>2. /\ IsSeq(writer.out) /\ EndIsLast(writer.out)
      /\ Tidy /\ to # "completions" => Paired(writer.out)
  BY <1>1 DEF Good, Plain, Sound, InBlock
<1>3. Tidy => BlocksPaired
  BY <1>2 DEF BlocksPaired, out
<1>4. EndsOnce(writer.out)
  BY <1>2, EndIsOnce
<1>5. AnswerEndsOnce
  BY <1>4 DEF AnswerEndsOnce, EndsOnce, out, Content
<1>6. Tidy => OutputComplete
  <2>1. to = "responses" => Sound(writer) /\ Whole(writer)
    BY <1>1 DEF Good
  <2>2. Tidy /\ to = "responses" => Repeated(writer.out)
    BY <2>1, WholeRepeated
  <2> QED BY <2>2 DEF OutputComplete, Repeated, out
<1> QED BY <1>3, <1>5, <1>6

\* Whatever lines an upstream sends, also when it leaves out the event that closes a block, and
\* wherever it breaks off: a client of Responses or Anthropic gets blocks that are opened one at
\* a time, numbered without a gap, and closed before the answer ends, and each delta is about the
\* open one (endBlock and the begin... functions of the writers of stream.go).  If the client is one
\* of Responses, the upstream may not start a block of reasoning or text while one of the same
\* kind is open: that one is not closed
THEOREM BlocksStayPaired ==
    Spec => []((to = "responses" => "doubled" \notin Odd) => BlocksPaired)
BY WriterInvHolds, WriterInvTells, PTL DEF Tidy

\* Also when finish, usage, done, an error, the end of the body and Close meet in any order: an
\* answer has one end at most, with no content after it and the stop last; when it is closed, a
\* client of blocks has been sent the end, and one of Chat Completions exactly if the upstream gave
\* a finish reason that its reader sees (Write of the three writers of stream.go)
THEOREM AnswersEndOnce == Spec => []AnswerEndsOnce
BY WriterInvHolds, WriterInvTells, PTL

\* The output of response.completed has an item for every item that was opened, of its kind, with
\* its id and the content of its deltas in their order: what endReasoning, endText and endTool
\* gathered is what the client was streamed, whatever closed the item, also when the upstream did
\* not (emitCompleted of responsesStreamWriter), for the upstreams of BlocksStayPaired
THEOREM OutputStaysComplete ==
    Spec => []((to = "responses" => "doubled" \notin Odd) => OutputComplete)
BY WriterInvHolds, WriterInvTells, PTL DEF Tidy

-----------------------------------------------------------------------------
(* What the client has been told, against what the upstream has said *)

\* The client has heard what the upstream has said
Agree(s, w) ==
    /\ Spoken(Deltas(w.out)) = Spoken(s.deltas)
    /\ "input" \notin s.odd => Deltas(w.out) = s.deltas
    /\ s.odd = {} => CallsSeen(w.out) = s.calls

ReaderFields == {"toolIdx", "hasId", "hasTool", "usage", "seen", "emitted"}

\* The reader and the writer are at the call the upstream is at
Following(s, r, w) ==
    /\ from # "responses" => DOMAIN r = ReaderFields
    /\ s.odd = {} /\ s.finish = <<>> /\ s.open = "tool" => Ready(to, w)
    /\ s.odd = {} /\ from = "completions" =>
          /\ r.toolIdx = Len(s.calls) - 1
          /\ s.calls # <<>> => (r.hasId <=> s.calls[Len(s.calls)].id # NoId)

UsageTold(s, told) ==
    /\ told # <<>> => s.usage # <<>>
    /\ s.whole /\ Regular(s) => told = s.usage

\* Anthropic's usage is told at the end
Withheld(s, r, told) ==
    /\ ~s.whole
    /\ r.seen => s.usage = <<r.usage>>
    /\ ~r.seen => s.usage = <<>> /\ r.usage = NoTokens
    /\ told = IF r.emitted THEN s.usage ELSE <<>>
    /\ s.finish = <<>> => ~r.emitted

UsageFed(s, r, w, n) ==
    /\ w.ended => Sent(to, w) # <<>>
    /\ n = 0 => s.usage = <<>> /\ s.finish = <<>>
    /\ from = "responses" /\ s.finish = <<>> => Regular(s)
    /\ from # "anthropic" =>
          /\ Sent(to, w) # <<>> => s.usage # <<>>
          /\ Regular(s) => /\ Sent(to, w) = s.usage
                           /\ s.finish = <<>> => s.usage = <<>>
    /\ from = "anthropic" => Withheld(s, r, Sent(to, w))

TellsInv ==
    /\ fed \in Nat
    /\ Agree(said, writer)
    /\ phase = "feed" => Following(said, reader, writer) /\ UsageFed(said, reader, writer, fed)
    /\ phase = "close" => UsageTold(said, Sent(to, writer))
    /\ phase = "closed" => UsageKept

LEMMA TellsFed ==
    ASSUME TellsInv, NEW r, NEW s, Took(r, s), phase' = "feed", Agree(s, writer'),
           Following(s, r, writer'), UsageFed(s, r, writer', fed + 1)
    PROVE  TellsInv'
<1>1. from' = from /\ to' = to /\ reader' = r /\ said' = s /\ fed' = fed + 1
  BY DEF Took
<1>2. fed' \in Nat
  BY <1>1 DEF TellsInv
<1>3. Agree(said, writer)'
  BY <1>1 DEF Agree
<1>4. Following(said, reader, writer)'
  BY <1>1 DEF Following
<1>5. UsageFed(said, reader, writer, fed)'
  BY <1>1 DEF UsageFed
<1> QED BY <1>2, <1>3, <1>4, <1>5 DEF TellsInv

LEMMA TellsDone ==
    ASSUME TellsInv, NEW r, NEW s, Took(r, s), phase' = "close", Agree(s, writer'),
           UsageTold(s, Sent(to, writer'))
    PROVE  TellsInv'
<1>1. from' = from /\ to' = to /\ reader' = r /\ said' = s /\ fed' = fed + 1
  BY DEF Took
<1>2. fed' \in Nat
  BY <1>1 DEF TellsInv
<1>3. Agree(said, writer)'
  BY <1>1 DEF Agree
<1>4. UsageTold(said, Sent(to, writer))'
  BY <1>1 DEF UsageTold
<1> QED BY <1>2, <1>3, <1>4 DEF TellsInv

LEMMA TellsNow ==
    ASSUME TellsInv, NEW r, NEW s, Took(r, s)
    PROVE  /\ fed \in Nat /\ Agree(said, writer) /\ Following(said, reader, writer)
           /\ UsageFed(said, reader, writer, fed)
BY DEF TellsInv, Took

LEMMA AgreeDelta ==
    ASSUME NEW v, NEW w, NEW s, NEW f, Agree(s, w), IsSeq(w.out), IsSeq(s.deltas), NEW kind, NEW x,
           Deltas(v.out) = Append(Deltas(w.out), [kind |-> kind, x |-> x]),
           f.deltas = Append(s.deltas, [kind |-> kind, x |-> x]), s.odd \subseteq f.odd,
           f.odd = {} => CallsSeen(v.out) = f.calls
    PROVE  Agree(f, v)
<1> DEFINE d == [kind |-> kind, x |-> x]
<1>1. d.kind = kind
  OBVIOUS
<1>2. IsSeq(Deltas(w.out))
  BY EventsAreSeq
<1> HIDE DEF d
<1>3. /\ Deltas(v.out) = Append(Deltas(w.out), d)
      /\ f.deltas = Append(s.deltas, d)
  BY DEF d
<1>4. /\ Spoken(Append(Deltas(w.out), d)) = IF kind # "tool" THEN Append(Spoken(Deltas(w.out)), d)
                                                             ELSE Spoken(Deltas(w.out))
      /\ Spoken(Append(s.deltas, d)) = IF kind # "tool" THEN Append(Spoken(s.deltas), d)
                                                        ELSE Spoken(s.deltas)
  BY <1>1, <1>2, SpokenAppend
<1>5. Spoken(Deltas(w.out)) = Spoken(s.deltas)
  BY DEF Agree
<1>6. Spoken(Deltas(v.out)) = Spoken(f.deltas)
  BY <1>3, <1>4, <1>5
<1>7. "input" \notin f.odd => Deltas(v.out) = f.deltas
  BY <1>3 DEF Agree
<1> QED BY <1>6, <1>7 DEF Agree

LEMMA AgreeSame ==
    ASSUME NEW v, NEW w, NEW s, NEW f, Agree(s, w),
           Deltas(v.out) = Deltas(w.out), CallsSeen(v.out) = CallsSeen(w.out),
           f.deltas = s.deltas, f.calls = s.calls, s.odd \subseteq f.odd
    PROVE  Agree(f, v)
BY DEF Agree

\* A line of content says nothing of usage
LEMMA UsageContent ==
    ASSUME TellsInv, NEW r, NEW s, Took(r, s), Running,
           SaidOnly({"deltas", "calls", "open", "odd"}, s, said), Regular(s) <=> Regular(said),
           Sent(to, writer') = Sent(to, writer), SameEnding(writer', writer),
           from = "anthropic" => r = reader
    PROVE  UsageFed(s, r, writer', fed + 1)
<1>1. UsageFed(said, reader, writer, fed) /\ fed \in Nat
  BY TellsNow
<1>2. s.usage = said.usage /\ s.finish = said.finish /\ s.whole = said.whole
  BY DEF SaidOnly, SaidFields
<1>3. fed + 1 # 0
  BY <1>1
<1>4. from = "anthropic" => Withheld(s, r, Sent(to, writer'))
  BY <1>1, <1>2 DEF UsageFed, Withheld
<1> QED BY <1>1, <1>2, <1>3, <1>4 DEF UsageFed, SameEnding

LEMMA SeqOut ==
    ASSUME WriterInv, NEW r, NEW s, Took(r, s)
    PROVE  IsSeq(writer.out) /\ IsSeq(said.deltas) /\ IsSeq(said.calls)
BY WhileFed DEF Good, Plain, Sound, SaidOK

\* A fragment of text or reasoning
LEMMA TellsFragment ==
    ASSUME WriterInv, TellsInv, Running, NEW r, NEW s, NEW kind \in {"reasoning", "text"}, NEW x,
           r = reader, Took(r, s), phase' = "feed",
           SaidOnly({"deltas", "open", "odd"}, s, said), s.open = kind,
           said.odd \subseteq s.odd, Regular(s) <=> Regular(said),
           s.deltas = Append(said.deltas, [kind |-> kind, x |-> x]),
           SameEnding(writer', writer), Sent(to, writer') = Sent(to, writer),
           Deltas(writer'.out) = Append(Deltas(writer.out), [kind |-> kind, x |-> x]),
           CallsSeen(writer'.out) = CallsSeen(writer.out)
    PROVE  TellsInv'
<1>1. /\ SaidOK(said) /\ IsSeq(writer.out) /\ IsSeq(said.deltas)
      /\ Agree(said, writer) /\ Following(said, reader, writer)
  BY WhileFed, TellsNow, SeqOut
<1>2. s.calls = said.calls /\ s.finish = said.finish
  BY DEF SaidOnly, SaidFields
<1>3. s.odd = {} => said.odd = {}
  OBVIOUS
<1>4. Agree(s, writer')
  <2>1. s.odd = {} => CallsSeen(writer'.out) = s.calls
    BY <1>1, <1>2, <1>3 DEF Agree
  <2> QED BY <1>1, <2>1, AgreeDelta
<1>5. Following(s, r, writer')
  BY <1>1, <1>2, <1>3 DEF Following
<1>6. UsageFed(s, r, writer', fed + 1)
  <2>1. SaidOnly({"deltas", "calls", "open", "odd"}, s, said)
    BY DEF SaidOnly
  <2> QED BY <2>1, UsageContent
<1> QED BY <1>4, <1>5, <1>6, TellsFed

LEMMA Fragmented ==
    ASSUME SaidOK(said), NEW kind \in {"reasoning", "text"}, NEW x
    PROVE  LET s == Said(kind, x)
           IN  /\ SaidOnly({"deltas", "open", "odd"}, s, said) /\ s.open = kind
               /\ said.odd \subseteq s.odd /\ (Regular(s) <=> Regular(said))
               /\ s.deltas = Append(said.deltas, [kind |-> kind, x |-> x])
<1> DEFINE s == Said(kind, x)
<1>1. /\ SaidOnly({"deltas", "open"}, s, said) /\ s.open = kind
      /\ s.deltas = Append(said.deltas, [kind |-> kind, x |-> x])
  BY SaidFragment
<1> HIDE DEF s
<1>2. SaidOnly({"deltas", "open", "odd"}, s, said) /\ s.odd = said.odd
  BY <1>1 DEF SaidOnly, SaidFields
<1> QED BY <1>1, <1>2 DEF Regular, s

\* A line that leaves the contents, the usage and the ending as they are
LEMMA TellsSame ==
    ASSUME WriterInv, TellsInv, NEW r, NEW s, Took(r, s), phase' = "feed",
           from # "responses" => r = reader,
           SameEnding(writer', writer), Unheard(to, writer', writer),
           SaidOnly({"open", "odd"}, s, said), said.odd \subseteq s.odd,
           Regular(s) <=> Regular(said), s.open = "tool" => said.open = "tool",
           Ready(to, writer) /\ s.open = "tool" => Ready(to, writer')
    PROVE  TellsInv'
<1>1. /\ fed \in Nat /\ Agree(said, writer) /\ Following(said, reader, writer)
      /\ UsageFed(said, reader, writer, fed)
  BY TellsNow
<1>2. /\ s.calls = said.calls /\ (s.odd = {} => said.odd = {}) /\ s.finish = said.finish
      /\ s.deltas = said.deltas /\ s.usage = said.usage /\ s.whole = said.whole
  BY DEF SaidOnly, SaidFields
<1>3. Agree(s, writer')
  BY <1>1, <1>2, AgreeSame DEF Unheard
<1>4. Following(s, r, writer')
  BY <1>1, <1>2 DEF Following
<1>5. fed + 1 # 0
  BY <1>1
<1>6. from = "anthropic" => Withheld(s, r, Sent(to, writer'))
  BY <1>1, <1>2 DEF UsageFed, Withheld, Unheard
<1>7. UsageFed(s, r, writer', fed + 1)
  BY <1>1, <1>2, <1>5, <1>6 DEF UsageFed, Unheard, SameEnding
<1> QED BY <1>3, <1>4, <1>7, TellsFed

-----------------------------------------------------------------------------
(* The actions of Chat Completions *)

LEMMA TellsSaid ==
    ASSUME WriterInv, TellsInv, Running, NEW r, NEW kind \in {"reasoning", "text"}, NEW x,
           r = reader, Took(r, Said(kind, x)), phase' = "feed", WritesOne(Fragment(kind, x))
    PROVE  TellsInv'
<1>1. to \in Format /\ Good(to, writer) /\ ~Closed(writer)
  BY WhileFed
<1>2. PICK b \in Blocks : b = kind /\ b # "tool"
  BY DEF Blocks
<1>3. WritesOne(Fragment(b, x))
  BY <1>2
<1>4. /\ SameEnding(writer', writer) /\ Sent(to, writer') = Sent(to, writer)
      /\ Deltas(writer'.out) = Append(Deltas(writer.out), [kind |-> b, x |-> x])
      /\ CallsSeen(writer'.out) = CallsSeen(writer.out)
  BY <1>1, <1>2, <1>3, OneFragment
<1>5. SaidOK(said)
  BY WhileFed
<1> DEFINE s == Said(kind, x)
<1>6. /\ SaidOnly({"deltas", "open", "odd"}, s, said) /\ s.open = kind
      /\ said.odd \subseteq s.odd /\ (Regular(s) <=> Regular(said))
      /\ s.deltas = Append(said.deltas, [kind |-> kind, x |-> x])
  BY <1>5, Fragmented
<1>7. Took(r, s)
  OBVIOUS
<1> HIDE DEF s
<1> QED BY <1>2, <1>4, <1>6, <1>7, TellsFragment

LEMMA TellsChunkDelta == ASSUME WriterInv, TellsInv, ChunkDelta PROVE TellsInv'
<1>1. Running /\ phase' = "feed"
  BY ChunkDeltaStep
<1>2. PICK kind, x : /\ kind \in {"reasoning", "text"}
                     /\ Took(reader, Said(kind, x)) /\ WritesOne(Fragment(kind, x))
  BY ChunkDeltaStep
<1> QED BY <1>1, <1>2, TellsSaid

\* What the reader makes of a call
LEMMA ReaderCalled ==
    ASSUME NEW r, DOMAIN r = ReaderFields, NEW tc
    PROVE  LET v   == AfterCall(r, tc)
               idx == IF tc.index = NoIndex THEN r.toolIdx + 1 ELSE tc.index
           IN  /\ DOMAIN v = ReaderFields
               /\ idx > r.toolIdx => v.toolIdx = idx /\ (v.hasId <=> tc.id # NoId)
               /\ ~Starts(r, tc) => v = r
BY DEF AfterCall, ReadCall, Starts, ReaderFields

LEMMA TellsChunkCall == ASSUME WriterInv, TellsInv, ChunkCall PROVE TellsInv'
<1>1. from = "completions" /\ Running /\ phase' = "feed"
  BY ChunkCallStep
<1>2. PICK id \in {NoId, NextId}, index \in {NoIndex, Len(said.calls)} :
         \E x, args : CallFed(id, index, x, args)
  BY ChunkCallStep
<1>3. PICK x, args : CallFed(id, index, x, args)
  BY <1>2
<1> DEFINE tc == [index |-> index, id |-> id, args |-> args]
           r == AfterCall(reader, tc)
           call == [id |-> id, args |-> <<>>]
           s == SaidArgs(SaidCall(id), NextId, args, NoId)
<1>4. Took(r, s)
  BY <1>3 DEF CallFed
<1>5. /\ to \in Format /\ Good(to, writer) /\ SaidOK(said) /\ ~Closed(writer)
      /\ to # "completions" /\ IsSeq(writer.out) /\ IsSeq(said.deltas)
      /\ Agree(said, writer) /\ Following(said, reader, writer)
  BY <1>1, <1>4, WhileFed, SeqOut, TellsNow
<1>6. Len(said.calls) \in Nat
  BY <1>5, SeqLength DEF SaidOK
<1>7. PICK b \in Blocks : b = "tool"
  BY DEF Blocks
\* The upstream's side
<1>8. /\ SaidOnly({"deltas", "calls", "open"}, s, said) /\ s.open = "tool"
      /\ args = <<>> => s.deltas = said.deltas /\ s.calls = Append(said.calls, call)
      /\ args = <<x>> => /\ s.deltas = Append(said.deltas, [kind |-> "tool", x |-> x])
                         /\ s.calls = WithArg(Append(said.calls, call), x)
      /\ Len(s.calls) = Len(said.calls) + 1 /\ s.calls[Len(said.calls) + 1].id = id
  BY <1>3, <1>5, SaidCallFed DEF CallFed, NextId
\* The client's side
<1>9. /\ SameEnding(writer', writer) /\ Sent(to, writer') = Sent(to, writer)
      /\ args = <<>> => Deltas(writer'.out) = Deltas(writer.out)
      /\ args = <<x>> =>
            Deltas(writer'.out) = Append(Deltas(writer.out), [kind |-> "tool", x |-> x])
      /\ Starts(reader, tc) =>
            /\ Ready(to, writer')
            /\ args = <<>> => CallsSeen(writer'.out) = Append(CallsSeen(writer.out), call)
            /\ args = <<x>> =>
                  CallsSeen(writer'.out) = WithArg(Append(CallsSeen(writer.out), call), x)
  <2> HIDE DEF tc, call
  <2>1. CASE Starts(reader, tc) /\ args = <<>>
    <3>1. args # <<x>>
      BY <2>1
    <3> QED BY <1>3, <1>5, <2>1, <3>1, OneCall DEF tc, call, CallFed
  <2>2. CASE Starts(reader, tc) /\ args = <<x>>
    <3>1. args # <<>>
      BY <2>2
    <3> QED BY <1>3, <1>5, <2>2, <3>1, CallAndArg DEF tc, call, CallFed
  <2>3. CASE ~Starts(reader, tc) /\ args = <<>>
    <3>1. args # <<x>>
      BY <2>3
    <3> QED BY <1>3, <1>5, <2>3, <3>1 DEF tc, SameEnding, CallFed
  <2>4. CASE ~Starts(reader, tc) /\ args = <<x>>
    <3>1. args # <<>> /\ WritesOne(Fragment(b, x))
      BY <1>3, <1>7, <2>4 DEF tc, CallFed
    <3>2. /\ SameEnding(writer', writer) /\ Sent(to, writer') = Sent(to, writer)
          /\ Deltas(writer'.out) = Append(Deltas(writer.out), [kind |-> b, x |-> x])
      BY <1>5, <3>1, OneFragment
    <3> QED BY <1>7, <2>4, <3>1, <3>2
  <2> QED BY <1>3, <2>1, <2>2, <2>3, <2>4 DEF CallFed
\* The reader
<1>10. /\ DOMAIN r = ReaderFields
       /\ said.odd = {} => /\ Starts(reader, tc) /\ r.toolIdx = Len(said.calls)
                           /\ (r.hasId <=> id # NoId)
  <2> DEFINE idx == IF tc.index = NoIndex THEN reader.toolIdx + 1 ELSE tc.index
  <2>1. DOMAIN reader = ReaderFields
    BY <1>1, <1>5 DEF Following
  <2>2. tc.index = index /\ tc.id = id
    OBVIOUS
  <2> HIDE DEF tc
  <2>3. /\ DOMAIN r = ReaderFields
        /\ idx > reader.toolIdx => r.toolIdx = idx /\ (r.hasId <=> tc.id # NoId)
    BY <2>1, ReaderCalled
  <2>4. said.odd = {} => idx = Len(said.calls) /\ idx > reader.toolIdx
    BY <1>1, <1>3, <1>5, <1>6, <2>2 DEF Following, CallFed
  <2> QED BY <2>2, <2>3, <2>4 DEF Starts
<1> HIDE DEF s, r, tc, call
<1>11. s.odd = said.odd /\ s.finish = said.finish
  BY <1>8 DEF SaidOnly, SaidFields
<1>12. s.odd = {} => CallsSeen(writer'.out) = s.calls
  BY <1>3, <1>5, <1>8, <1>9, <1>10, <1>11 DEF Agree, CallFed
<1>13. Agree(s, writer')
  <2>1. CASE args = <<x>>
    BY <1>5, <1>8, <1>9, <1>11, <1>12, <2>1, AgreeDelta
  <2>2. CASE args = <<>>
    BY <1>5, <1>8, <1>9, <1>11, <1>12, <2>2 DEF Agree
  <2> QED BY <1>3, <2>1, <2>2 DEF CallFed
<1>14. Following(s, r, writer')
  <2>1. Len(s.calls) - 1 = Len(said.calls)
    BY <1>6, <1>8
  <2> QED BY <1>1, <1>8, <1>9, <1>10, <1>11, <2>1 DEF Following
<1>15. UsageFed(s, r, writer', fed + 1)
  <2>1. SaidOnly({"deltas", "calls", "open", "odd"}, s, said) /\ (Regular(s) <=> Regular(said))
    BY <1>8, <1>11 DEF SaidOnly, Regular
  <2>2. from # "anthropic"
    BY <1>1
  <2> QED BY <1>1, <1>4, <1>9, <2>1, <2>2, UsageContent
<1> QED BY <1>1, <1>4, <1>13, <1>14, <1>15, TellsFed

LEMMA TellsChunkArgs == ASSUME WriterInv, TellsInv, ChunkArgs PROVE TellsInv'
<1>1. from = "completions" /\ Running /\ phase' = "feed"
  BY ChunkArgsStep
<1>2. PICK k \in DOMAIN said.calls : \E id \in {NoId, k}, index \in {NoIndex, k - 1} :
         \E x : ArgsFed(k, id, index, x)
  BY ChunkArgsStep
<1>3. PICK id \in {NoId, k}, index \in {NoIndex, k - 1} : \E x : ArgsFed(k, id, index, x)
  BY <1>2
<1>4. PICK x : ArgsFed(k, id, index, x)
  BY <1>3
<1> DEFINE tc == [index |-> index, id |-> id, args |-> <<x>>]
           r == AfterCall(reader, tc)
           os == OddArgs(k, id, index)
           s == SaidOdd(SaidArgs(said, k, <<x>>, id), os)
<1>5. Took(r, s)
  BY <1>4 DEF ArgsFed
<1>6. /\ to \in Format /\ Good(to, writer) /\ SaidOK(said) /\ ~Closed(writer)
      /\ to # "completions" /\ IsSeq(writer.out) /\ IsSeq(said.deltas)
      /\ Agree(said, writer) /\ Following(said, reader, writer)
  BY <1>1, <1>5, WhileFed, SeqOut, TellsNow
<1>7. PICK b \in Blocks : b = "tool"
  BY DEF Blocks
<1>8. Len(said.calls) \in Nat /\ k \in 1 .. Len(said.calls)
  BY <1>6, SeqLength DEF SaidOK
<1> HIDE DEF os
<1>9. SaidOK(said)
  BY <1>6
<1>10. ArgsSaid(s, said, k, id, x, os)
  BY <1>9, SaidArgsFed
<1>11. /\ SaidOK(s) /\ SaidOnly({"deltas", "calls", "open", "odd"}, s, said)
       /\ s.open = "tool" /\ s.odd = said.odd \cup os
       /\ s.deltas = Append(said.deltas, [kind |-> "tool", x |-> x])
       /\ Len(s.calls) = Len(said.calls)
       /\ s.calls[k].id = IF id # NoId THEN id ELSE said.calls[k].id
       /\ k = Len(said.calls) /\ (id = NoId \/ said.calls[k].id = id) =>
             s.calls = WithArg(said.calls, x)
  BY <1>10 DEF ArgsSaid
<1> HIDE DEF s
<1>12. s.finish = said.finish
  BY <1>11 DEF SaidOnly, SaidFields
<1> USE DEF os
\* A regular fragment belongs to the last call
<1>13. os = {} => /\ index = k - 1 /\ k = Len(said.calls) /\ said.open = "tool"
                  /\ id = NoId \/ said.calls[k].id = id
  <2>1. CallOK(said.calls, k)
    BY <1>6 DEF SaidOK
  <2> SUFFICES ASSUME os = {}
               PROVE  /\ index = k - 1 /\ k = Len(said.calls) /\ said.open = "tool"
                      /\ id = NoId \/ said.calls[k].id = id
    OBVIOUS
  <2>2. ~(id # NoId /\ said.calls[k].id = NoId)
    BY DEF OddArgs, LateArgs
  <2>3. index # NoIndex
    BY DEF OddArgs
  <2>4. ~(k < Len(said.calls)) /\ said.open = "tool"
    BY DEF OddArgs
  <2> QED BY <1>4, <1>8, <2>1, <2>2, <2>3, <2>4 DEF CallOK, ArgsFed
<1>14. Regular(s) <=> Regular(said)
  BY <1>11 DEF Regular, OddArgs, LateArgs
<1> HIDE DEF os
\* The reader
<1>15. /\ DOMAIN r = ReaderFields
       /\ s.odd = {} => ~Starts(reader, tc) /\ r = reader
  <2>1. DOMAIN reader = ReaderFields
    BY <1>1, <1>6 DEF Following
  <2>2. tc.index = index /\ tc.id = id
    OBVIOUS
  <2> HIDE DEF tc
  <2>3. DOMAIN r = ReaderFields /\ (~Starts(reader, tc) => r = reader)
    BY <2>1, ReaderCalled
  <2>4. s.odd = {} => ~Starts(reader, tc)
    <3> SUFFICES ASSUME s.odd = {} PROVE ~Starts(reader, tc)
      OBVIOUS
    <3>1. said.odd = {} /\ os = {}
      BY <1>11
    <3>2. said.calls # <<>>
      BY <1>6, <1>8, EmptyIsSeq DEF SaidOK
    <3>3. reader.toolIdx = Len(said.calls) - 1 /\ (reader.hasId <=> said.calls[k].id # NoId)
      BY <1>1, <1>6, <1>13, <3>1, <3>2 DEF Following
    <3>4. index # NoIndex
      BY <1>8, <1>13, <3>1 DEF NoIndex
    <3> QED BY <1>8, <1>13, <2>2, <3>1, <3>3, <3>4 DEF Starts
  <2> QED BY <2>3, <2>4
\* The client's side
<1>16. /\ SameEnding(writer', writer) /\ Sent(to, writer') = Sent(to, writer)
       /\ Deltas(writer'.out) = Append(Deltas(writer.out), [kind |-> "tool", x |-> x])
       /\ Ready(to, writer')
       /\ ~Starts(reader, tc) /\ Ready(to, writer) =>
             CallsSeen(writer'.out) = WithArg(CallsSeen(writer.out), x)
  <2>1. CASE Starts(reader, tc)
    BY <1>4, <1>6, <2>1, CallAndArg DEF ArgsFed
  <2>2. CASE ~Starts(reader, tc)
    <3>1. WritesOne(Fragment(b, x))
      BY <1>4, <1>7, <2>2 DEF ArgsFed
    <3>2. /\ SameEnding(writer', writer) /\ Sent(to, writer') = Sent(to, writer)
          /\ Deltas(writer'.out) = Append(Deltas(writer.out), [kind |-> b, x |-> x])
          /\ b = "tool" /\ Ready(to, writer) =>
                CallsSeen(writer'.out) = WithArg(CallsSeen(writer.out), x)
          /\ b = "tool" => Ready(to, writer')
      BY <1>6, <3>1, OneFragment
    <3> QED BY <1>7, <3>2
  <2> QED BY <2>1, <2>2
<1> HIDE DEF r, tc
<1>17. s.odd = {} => CallsSeen(writer'.out) = s.calls
  BY <1>1, <1>6, <1>11, <1>13, <1>15, <1>16 DEF Agree, Following, Running
<1>18. Agree(s, writer')
  <2>1. said.odd \subseteq s.odd /\ s.deltas = Append(said.deltas, [kind |-> "tool", x |-> x])
    BY <1>11
  <2> QED BY <1>6, <1>16, <1>17, <2>1, AgreeDelta
<1>19. Following(s, r, writer')
  <2>1. Len(s.calls) = Len(said.calls) /\ said.calls # <<>>
    BY <1>6, <1>8, <1>11, EmptyIsSeq DEF SaidOK
  <2>2. s.odd = {} => s.calls[Len(s.calls)].id = said.calls[Len(said.calls)].id
    BY <1>11, <1>13, <2>1
  <2>3. s.odd = {} => said.odd = {}
    BY <1>11
  <2> QED BY <1>1, <1>6, <1>15, <1>16, <2>1, <2>2, <2>3 DEF Following
<1>20. UsageFed(s, r, writer', fed + 1)
  <2>1. from # "anthropic"
    BY <1>1
  <2> QED BY <1>1, <1>5, <1>11, <1>14, <1>16, <2>1, UsageContent
<1> QED BY <1>1, <1>5, <1>18, <1>19, <1>20, TellsFed

-----------------------------------------------------------------------------
(* Endings *)

LEMMA EndingTold ==
    ASSUME to \in Format, Good(to, writer), ~writer.ended, NEW reason, NEW usage,
           WritesEnding(reason, usage)
    PROVE  /\ Deltas(writer'.out) = Deltas(writer.out)
           /\ CallsSeen(writer'.out) = CallsSeen(writer.out)
           /\ writer'.ended => Sent(to, writer') # <<>>
           /\ usage = <<>> => Sent(to, writer') = Sent(to, writer)
           /\ Sent(to, writer) = <<>> => Sent(to, writer') = usage
<1> DEFINE u == Write(to, writer, Ev("finish", reason))
<1>1. Good(to, u) /\ Unheard(to, u, writer) /\ (u.ended => Sent(to, writer) # <<>>)
  BY SaysFinish
<1>2. CASE usage = <<>>
  <2>1. writer' = u
    BY <1>2 DEF WritesEnding, WritesOne
  <2> HIDE DEF u
  <2> QED BY <1>1, <1>2, <2>1 DEF Unheard
<1>3. CASE usage # <<>>
  <2> DEFINE x == usage[1]
             v == Write(to, u, Ev("usage", x))
  <2>1. writer' = v /\ usage = <<x>>
    BY <1>3 DEF WritesEnding, WritesTwo
  <2> HIDE DEF u
  <2>2. /\ Deltas(v.out) = Deltas(u.out) /\ CallsSeen(v.out) = CallsSeen(u.out)
        /\ v.ended => Sent(to, v) # <<>> \/ u.ended
        /\ ~u.ended /\ Sent(to, u) = <<>> => Sent(to, v) = <<x>>
        /\ u.ended => Sent(to, v) = Sent(to, u)
    BY <1>1, SaysUsage
  <2> HIDE DEF v, x
  <2> QED BY <1>1, <1>3, <2>1, <2>2 DEF Unheard
<1> QED BY <1>2, <1>3

LEMMA TellsEnding ==
    ASSUME WriterInv, TellsInv, Running, NEW r, NEW s, Took(r, s), phase' = "feed",
           NEW reason, NEW usage, WritesEnding(reason, usage),
           SaidOnly({"usage", "finish", "whole"}, s, said), s.finish # <<>>,
           s.usage = IF usage = <<>> THEN said.usage ELSE usage,
           from # "anthropic", from = "completions" => r = reader
    PROVE  TellsInv'
<1>1. /\ to \in Format /\ Good(to, writer) /\ ~writer.ended
      /\ from \in Format /\ fed \in Nat /\ Agree(said, writer) /\ Following(said, reader, writer)
      /\ UsageFed(said, reader, writer, fed)
  BY WhileFed, TellsNow DEF Closed
<1>2. /\ Deltas(writer'.out) = Deltas(writer.out)
      /\ CallsSeen(writer'.out) = CallsSeen(writer.out)
      /\ writer'.ended => Sent(to, writer') # <<>>
      /\ usage = <<>> => Sent(to, writer') = Sent(to, writer)
      /\ Sent(to, writer) = <<>> => Sent(to, writer') = usage
  BY <1>1, EndingTold
<1>3. s.deltas = said.deltas /\ s.calls = said.calls /\ s.odd = said.odd /\ s.open = said.open
  BY DEF SaidOnly, SaidFields
<1>4. Agree(s, writer')
  BY <1>1, <1>2, <1>3, AgreeSame
<1>5. Following(s, r, writer')
  BY <1>1, <1>3 DEF Following, Format
<1>6. UsageFed(s, r, writer', fed + 1)
  <2>1. fed + 1 # 0
    BY <1>1
  <2>2. /\ Sent(to, writer) # <<>> => said.usage # <<>>
        /\ Regular(said) => Sent(to, writer) = said.usage /\ said.usage = <<>>
    BY <1>1 DEF UsageFed, Running
  <2>3. Sent(to, writer') # <<>> => s.usage # <<>>
    BY <1>2, <2>2
  <2>4. Regular(s) => Sent(to, writer') = s.usage
    BY <1>2, <1>3, <2>2 DEF Regular
  <2> QED BY <1>2, <2>1, <2>3, <2>4 DEF UsageFed
<1> QED BY <1>4, <1>5, <1>6, TellsFed

LEMMA TellsChunkFinish == ASSUME WriterInv, TellsInv, ChunkFinish PROVE TellsInv'
<1>1. from = "completions" /\ Running /\ phase' = "feed"
  BY ChunkFinishStep
<1>2. PICK reason, usage :
         /\ Took(reader, [said EXCEPT !.finish = <<reason>>,
                                      !.usage = IF usage = <<>> THEN @ ELSE usage])
         /\ WritesEnding(reason, usage)
  BY ChunkFinishStep
<1> DEFINE s == [said EXCEPT !.finish = <<reason>>, !.usage = IF usage = <<>> THEN @ ELSE usage]
<1>3. SaidOK(said)
  BY <1>2, WhileFed
<1>4. /\ SaidOnly({"usage", "finish", "whole"}, s, said) /\ s.finish # <<>>
      /\ s.usage = IF usage = <<>> THEN said.usage ELSE usage
  BY <1>3 DEF SaidOK, SaidOnly, SaidFields
<1>5. Took(reader, s)
  BY <1>2
<1> HIDE DEF s
<1>6. from # "anthropic"
  BY <1>1
<1> QED BY <1>1, <1>2, <1>4, <1>5, <1>6, TellsEnding

LEMMA TellsChunkUsage == ASSUME WriterInv, TellsInv, ChunkUsage PROVE TellsInv'
<1>1. from = "completions" /\ phase' = "feed" /\ WritesOne(Ev("usage", Tokens))
  BY ChunkUsageStep
<1> DEFINE u == [said EXCEPT !.usage = <<Tokens>>]
           z == SaidOdd(u, {"running"})
<1>2. PICK s : /\ Took(reader, s)
               /\ \/ ~Running /\ said.usage = <<>> /\ s = u
                  \/ s = z
  BY ChunkUsageStep
<1>3. /\ to \in Format /\ Good(to, writer) /\ SaidOK(said)
      /\ fed \in Nat /\ Agree(said, writer) /\ Following(said, reader, writer)
      /\ UsageFed(said, reader, writer, fed)
  BY <1>2, WhileFed, TellsNow
<1>4. /\ SaidOnly({"usage", "odd"}, s, said) /\ said.odd \subseteq s.odd /\ s.usage = <<Tokens>>
      /\ \/ ~Running /\ said.usage = <<>> /\ s.odd = said.odd
         \/ "running" \in s.odd
  <2> HIDE DEF Tokens
  <2>1. DOMAIN said = SaidFields
    BY <1>3 DEF SaidOK
  <2>2. SaidOnly({"usage"}, u, said) /\ u.usage = <<Tokens>>
    BY <2>1 DEF SaidOnly, SaidFields
  <2>3. SaidOnly({"odd"}, z, u) /\ z.odd = u.odd \cup {"running"}
    BY <2>1 DEF SaidOnly, SaidFields, SaidOdd
  <2> HIDE DEF u, z
  <2> QED BY <1>2, <2>2, <2>3 DEF SaidOnly, SaidFields
<1> DEFINE v == Write(to, writer, Ev("usage", Tokens))
<1>5. /\ Deltas(v.out) = Deltas(writer.out) /\ CallsSeen(v.out) = CallsSeen(writer.out)
      /\ v.ended => Sent(to, v) # <<>> \/ writer.ended
      /\ ~writer.ended /\ Sent(to, writer) = <<>> => Sent(to, v) = <<Tokens>>
      /\ writer.ended => Sent(to, v) = Sent(to, writer)
  BY <1>3, SaysUsage
<1>6. writer' = v
  BY <1>1 DEF WritesOne
<1> HIDE DEF u, z, v, Tokens
<1>7. /\ s.deltas = said.deltas /\ s.calls = said.calls /\ s.open = said.open
      /\ s.finish = said.finish /\ s.usage # <<>>
  BY <1>4 DEF SaidOnly, SaidFields
<1>8. Agree(s, writer')
  BY <1>3, <1>4, <1>5, <1>6, <1>7, AgreeSame
<1>9. Following(s, reader, writer')
  BY <1>3, <1>4, <1>7 DEF Following, Running
<1>10. UsageFed(s, reader, writer', fed + 1)
  <2>1. fed + 1 # 0
    BY <1>3
  <2>2. v.ended => Sent(to, v) # <<>>
    BY <1>3, <1>5 DEF UsageFed
  <2>3. Regular(s) => Sent(to, v) = s.usage /\ s.finish # <<>>
    <3> SUFFICES ASSUME Regular(s) PROVE Sent(to, v) = s.usage /\ s.finish # <<>>
      OBVIOUS
    <3>1. ~Running /\ said.usage = <<>> /\ Regular(said)
      BY <1>4 DEF Regular
    <3>2. Sent(to, writer) = <<>> /\ ~writer.ended
      BY <1>1, <1>3, <3>1 DEF UsageFed
    <3> QED BY <1>4, <1>5, <1>7, <3>1, <3>2 DEF Running
  <2> QED BY <1>1, <1>6, <1>7, <2>1, <2>2, <2>3 DEF UsageFed
<1> QED BY <1>1, <1>2, <1>8, <1>9, <1>10, TellsFed

LEMMA TellsChunkDone == ASSUME WriterInv, TellsInv, ChunkDone PROVE TellsInv'
<1> DEFINE s == [said EXCEPT !.whole = TRUE]
<1>1. from = "completions" /\ phase' = "close" /\ WritesOne(Ev("done", 0)) /\ Took(reader, s)
  BY ChunkDoneStep
<1>2. /\ to \in Format /\ Good(to, writer) /\ SaidOK(said) /\ Agree(said, writer)
      /\ UsageFed(said, reader, writer, fed)
  BY <1>1, WhileFed, TellsNow
<1> DEFINE v == Write(to, writer, Ev("done", 0))
<1>3. Unheard(to, v, writer)
  BY <1>2, SaysDone
<1>4. writer' = v
  BY <1>1 DEF WritesOne
<1>5. SaidOnly({"whole"}, s, said)
  BY <1>2 DEF SaidOK, SaidOnly, SaidFields
<1> HIDE DEF v, s
<1>6. /\ s.deltas = said.deltas /\ s.calls = said.calls /\ s.odd = said.odd /\ s.usage = said.usage
  BY <1>5 DEF SaidOnly, SaidFields
<1>7. Agree(s, v)
  BY <1>2, <1>3, <1>6, AgreeSame DEF Unheard
<1>8. UsageTold(s, Sent(to, v))
  BY <1>1, <1>2, <1>3, <1>6 DEF UsageFed, UsageTold, Unheard, Regular
<1> QED BY <1>1, <1>4, <1>7, <1>8, TellsDone

-----------------------------------------------------------------------------
(* Calls of Responses and Anthropic *)

\* A call, perhaps with its first argument
LEMMA TellsCall ==
    ASSUME WriterInv, TellsInv, Running, NEW r, NEW s, Took(r, s), phase' = "feed",
           from # "completions", from = "anthropic" => r = reader,
           SaidOnly({"deltas", "calls", "open", "odd"}, s, said), said.odd \subseteq s.odd,
           Regular(s) <=> Regular(said),
           SameEnding(writer', writer), Sent(to, writer') = Sent(to, writer), Ready(to, writer'),
           Agree(s, writer')
    PROVE  TellsInv'
<1>1. Following(said, reader, writer) /\ from \in Format
  BY TellsNow, WhileFed
<1>2. Following(s, r, writer')
  BY <1>1 DEF Following, Format
<1>3. UsageFed(s, r, writer', fed + 1)
  BY UsageContent
<1> QED BY <1>2, <1>3, TellsFed

LEMMA TellsCallAlone ==
    ASSUME WriterInv, TellsInv, Running, NEW r, NEW s, Took(r, s), phase' = "feed",
           from # "completions", from = "anthropic" => r = reader,
           WritesOne(Ev("tool_start", NextId)),
           SaidOnly({"calls", "open", "odd"}, s, said), said.odd \subseteq s.odd,
           Regular(s) <=> Regular(said),
           s.calls = Append(said.calls, [id |-> NextId, args |-> <<>>])
    PROVE  TellsInv'
<1>1. to \in Format /\ Good(to, writer) /\ ~Closed(writer) /\ Agree(said, writer)
  BY WhileFed, TellsNow
<1>2. /\ SameEnding(writer', writer) /\ Ready(to, writer')
      /\ Sent(to, writer') = Sent(to, writer) /\ Deltas(writer'.out) = Deltas(writer.out)
      /\ CallsSeen(writer'.out) = Append(CallsSeen(writer.out), [id |-> NextId, args |-> <<>>])
  BY <1>1, OneCall
<1>3. s.deltas = said.deltas /\ SaidOnly({"deltas", "calls", "open", "odd"}, s, said)
  BY DEF SaidOnly, SaidFields
<1>4. s.odd = {} => said.odd = {}
  OBVIOUS
<1>5. Agree(s, writer')
  BY <1>1, <1>2, <1>3, <1>4 DEF Agree
<1> QED BY <1>2, <1>3, <1>5, TellsCall

LEMMA TellsArg ==
    ASSUME WriterInv, TellsInv, Running, NEW r, NEW x, said.open = "tool",
           Took(r, SaidArgs(said, Len(said.calls), <<x>>, NoId)), phase' = "feed",
           from # "completions", from = "anthropic" => r = reader,
           WritesOne(Fragment("tool", x))
    PROVE  TellsInv'
<1> DEFINE s == SaidArgs(said, Len(said.calls), <<x>>, NoId)
<1>1. /\ Took(r, s) /\ to \in Format /\ Good(to, writer) /\ ~Closed(writer) /\ SaidOK(said)
      /\ Fine(said, writer) /\ Agree(said, writer) /\ Following(said, reader, writer)
      /\ IsSeq(writer.out) /\ IsSeq(said.deltas)
  BY WhileFed, TellsNow, SeqOut
<1>2. to = "completions" => writer.next > 0
  BY <1>1 DEF Fine, SaidOK
<1>3. PICK b \in Blocks : b = "tool"
  BY DEF Blocks
<1>4. WritesOne(Fragment(b, x))
  BY <1>3
<1>5. /\ SameEnding(writer', writer) /\ Sent(to, writer') = Sent(to, writer)
      /\ Deltas(writer'.out) = Append(Deltas(writer.out), [kind |-> b, x |-> x])
      /\ b = "tool" /\ Ready(to, writer) =>
            CallsSeen(writer'.out) = WithArg(CallsSeen(writer.out), x)
      /\ b = "tool" => Ready(to, writer')
  BY <1>1, <1>2, <1>4, OneFragment
<1>6. /\ SaidOnly({"deltas", "calls", "open"}, s, said)
      /\ s.deltas = Append(said.deltas, [kind |-> "tool", x |-> x])
      /\ s.calls = WithArg(said.calls, x)
  BY <1>1, LastCall
<1> HIDE DEF s
<1>7. s.odd = said.odd /\ SaidOnly({"deltas", "calls", "open", "odd"}, s, said)
  BY <1>6 DEF SaidOnly, SaidFields
<1>8. s.odd = {} => CallsSeen(writer'.out) = s.calls
  BY <1>1, <1>3, <1>5, <1>6, <1>7 DEF Agree, Following, Running
<1>9. Agree(s, writer')
  BY <1>1, <1>3, <1>5, <1>6, <1>7, <1>8, AgreeDelta
<1>10. Regular(s) <=> Regular(said)
  BY <1>7 DEF Regular
<1> QED BY <1>1, <1>3, <1>5, <1>7, <1>9, <1>10, TellsCall

-----------------------------------------------------------------------------
(* The actions of Responses *)

\* The start of a block is not told, only its contents are
LEMMA TellsStart ==
    ASSUME WriterInv, TellsInv, Running, NEW r, NEW s, NEW kind \in {"reasoning", "text"},
           from # "responses" => r = reader, Took(r, s), phase' = "feed",
           WritesOne(Ev("start", kind)), Tidy /\ to = "responses" => writer.block # kind,
           SaidOnly({"open", "odd"}, s, said), said.odd \subseteq s.odd,
           Regular(s) <=> Regular(said), s.open = kind
    PROVE  TellsInv'
<1>1. to \in Format /\ Good(to, writer) /\ ~Closed(writer)
  BY WhileFed
<1>2. SameEnding(writer', writer) /\ Unheard(to, writer', writer)
  BY <1>1, OneStart
<1>3. s.open # "tool"
  OBVIOUS
<1> QED BY <1>2, <1>3, TellsSame

LEMMA TellsItemAdded == ASSUME WriterInv, TellsInv, ItemAdded PROVE TellsInv'
<1>1. from = "responses" /\ Running /\ phase' = "feed"
  BY ItemAddedStep
<1>2. to # "responses" /\ from # "completions" /\ from # "anthropic"
  BY <1>1 DEF WriterInv
<1>3. ASSUME NEW r, Took(r, SaidCall(NextId)), WritesOne(Ev("tool_start", NextId))
      PROVE  TellsInv'
  <2> DEFINE s == SaidCall(NextId)
  <2>1. Took(r, s) /\ SaidOK(said)
    BY <1>3, WhileFed
  <2>2. /\ SaidOnly({"calls", "open"}, s, said)
        /\ s.calls = Append(said.calls, [id |-> NextId, args |-> <<>>])
    BY <2>1, SaidCalled
  <2> HIDE DEF s
  <2>3. SaidOnly({"calls", "open", "odd"}, s, said) /\ s.odd = said.odd
    BY <2>2 DEF SaidOnly, SaidFields
  <2>4. said.odd \subseteq s.odd /\ (Regular(s) <=> Regular(said))
    BY <2>3 DEF Regular
  <2> QED BY <1>1, <1>2, <1>3, <2>1, <2>2, <2>3, <2>4, TellsCallAlone
<1>4. ASSUME NEW kind \in {"reasoning", "text"},
             Took(reader, [said EXCEPT !.open = kind]), WritesOne(Ev("start", kind))
      PROVE  TellsInv'
  <2> DEFINE s == [said EXCEPT !.open = kind]
  <2>1. Took(reader, s) /\ SaidOK(said)
    BY <1>4, WhileFed
  <2>2. SaidOnly({"open", "odd"}, s, said) /\ s.open = kind /\ s.odd = said.odd
    BY <2>1 DEF SaidOK, SaidOnly, SaidFields
  <2> HIDE DEF s
  <2>3. said.odd \subseteq s.odd /\ (Regular(s) <=> Regular(said))
    BY <2>2 DEF Regular
  <2> QED BY <1>1, <1>2, <1>4, <2>1, <2>2, <2>3, TellsStart
<1> QED BY <1>3, <1>4, ItemAddedStep

LEMMA TellsPartAdded == ASSUME WriterInv, TellsInv, PartAdded PROVE TellsInv'
<1>1. /\ from = "responses" /\ Running /\ phase' = "feed" /\ said.open = "reasoning"
      /\ Took(reader, said) /\ WritesOne(Ev("start", "reasoning"))
  BY PartAddedStep
<1>2. to # "responses"
  BY <1>1 DEF WriterInv
<1>3. to \in Format /\ Good(to, writer) /\ ~Closed(writer) /\ SaidOK(said)
  BY <1>1, WhileFed
<1>4. PICK x \in {"reasoning", "text"} : x = "reasoning"
  OBVIOUS
<1>5. SameEnding(writer', writer) /\ Unheard(to, writer', writer)
  BY <1>1, <1>2, <1>3, <1>4, OneStart
<1>6. SaidOnly({"open", "odd"}, said, said)
  BY <1>3 DEF SaidOK, SaidOnly
<1>7. said.open # "tool"
  BY <1>1
<1> QED BY <1>1, <1>5, <1>6, <1>7, TellsSame

LEMMA TellsItemTextDelta == ASSUME WriterInv, TellsInv, ItemTextDelta PROVE TellsInv'
<1>1. Running /\ phase' = "feed"
  BY ItemTextDeltaStep
<1>2. PICK kind, x : /\ kind \in {"reasoning", "text"}
                     /\ Took(reader, Said(kind, x)) /\ WritesOne(Fragment(kind, x))
  BY ItemTextDeltaStep
<1> QED BY <1>1, <1>2, TellsSaid

LEMMA TellsItemArgs == ASSUME WriterInv, TellsInv, ItemArgs PROVE TellsInv'
<1>1. from = "responses" /\ Running /\ said.open = "tool" /\ phase' = "feed"
  BY ItemArgsStep
<1>2. PICK r, x : /\ Took(r, SaidArgs(said, Len(said.calls), <<x>>, NoId))
                  /\ WritesOne(Fragment("tool", x))
  BY ItemArgsStep
<1>3. from # "completions" /\ from # "anthropic"
  BY <1>1
<1> QED BY <1>1, <1>2, <1>3, TellsArg

LEMMA TellsEndBlock ==
    ASSUME WriterInv, TellsInv, NEW r, Took(r, [said EXCEPT !.open = NoBlock]), phase' = "feed",
           from # "responses" => r = reader, WritesOne(Ev("end_block", 0))
    PROVE  TellsInv'
<1> DEFINE s == [said EXCEPT !.open = NoBlock]
           v == Write(to, writer, Ev("end_block", 0))
<1>1. Took(r, s) /\ to \in Format /\ Good(to, writer) /\ SaidOK(said)
  BY WhileFed
<1>2. SameEnding(v, writer) /\ Unheard(to, v, writer)
  BY <1>1, SaysEndBlock
<1>3. writer' = v
  BY DEF WritesOne
<1>4. SaidOnly({"open", "odd"}, s, said) /\ s.odd = said.odd /\ s.open = NoBlock
  BY <1>1 DEF SaidOK, SaidOnly, SaidFields
<1> HIDE DEF s, v
<1>5. s.open # "tool" /\ said.odd \subseteq s.odd /\ (Regular(s) <=> Regular(said))
  BY <1>4 DEF NoBlock, Regular
<1> QED BY <1>1, <1>2, <1>3, <1>4, <1>5, TellsSame

LEMMA TellsItemDone == ASSUME WriterInv, TellsInv, ItemDone PROVE TellsInv'
BY ItemDoneStep, TellsEndBlock

LEMMA TellsCompleted == ASSUME WriterInv, TellsInv, Completed PROVE TellsInv'
<1>1. from = "responses" /\ Running /\ phase' = "feed"
  BY CompletedStep
<1>2. PICK reason, told, usage :
         /\ Took(reader, [said EXCEPT !.finish = <<told>>, !.usage = usage, !.whole = TRUE])
         /\ WritesEnding(reason, usage)
  BY CompletedStep
<1> DEFINE s == [said EXCEPT !.finish = <<told>>, !.usage = usage, !.whole = TRUE]
<1>3. SaidOK(said) /\ UsageFed(said, reader, writer, fed)
  BY <1>2, WhileFed, TellsNow
<1>4. said.usage = <<>>
  BY <1>1, <1>3 DEF UsageFed, Running
<1>5. SaidOnly({"usage", "finish", "whole"}, s, said) /\ s.finish # <<>> /\ s.usage = usage
  BY <1>3 DEF SaidOK, SaidOnly, SaidFields
<1>6. Took(reader, s) /\ from # "anthropic"
  BY <1>1, <1>2
<1> HIDE DEF s
<1>7. s.usage = IF usage = <<>> THEN said.usage ELSE usage
  BY <1>4, <1>5
<1> QED BY <1>1, <1>2, <1>5, <1>6, <1>7, TellsEnding

LEMMA TellsResponseFailed == ASSUME WriterInv, TellsInv, ResponseFailed PROVE TellsInv'
<1> DEFINE s == [said EXCEPT !.finish = <<"content_filter">>, !.whole = TRUE]
<1>1. /\ from = "responses" /\ Running /\ phase' = "feed" /\ Took(reader, s)
      /\ WritesOne(Ev("finish", "content_filter"))
  BY ResponseFailedStep
<1>2. PICK usage : usage = <<>>
  OBVIOUS
<1>3. WritesEnding("content_filter", usage)
  BY <1>1, <1>2 DEF WritesEnding
<1>4. SaidOK(said)
  BY <1>1, WhileFed
<1>5. /\ SaidOnly({"usage", "finish", "whole"}, s, said) /\ s.finish # <<>>
      /\ s.usage = said.usage
  BY <1>4 DEF SaidOK, SaidOnly, SaidFields
<1>6. from # "anthropic"
  BY <1>1
<1> HIDE DEF s
<1>7. s.usage = IF usage = <<>> THEN said.usage ELSE usage
  BY <1>2, <1>5
<1> QED BY <1>1, <1>3, <1>5, <1>6, <1>7, TellsEnding

LEMMA TellsResponseIncomplete == ASSUME WriterInv, TellsInv, ResponseIncomplete PROVE TellsInv'
<1> DEFINE u == [said EXCEPT !.finish = <<"length">>, !.usage = <<Tokens>>, !.whole = TRUE]
           s == SaidOdd(u, {"incomplete"})
<1>1. from = "responses" /\ phase' = "feed" /\ writer' = writer /\ Took(reader, s)
  BY ResponseIncompleteStep
<1>2. /\ SaidOK(said) /\ fed \in Nat /\ Agree(said, writer) /\ Following(said, reader, writer)
      /\ UsageFed(said, reader, writer, fed)
  BY <1>1, WhileFed, TellsNow
<1>3. /\ s.deltas = said.deltas /\ s.calls = said.calls /\ said.odd \subseteq s.odd
      /\ s.finish # <<>> /\ s.usage # <<>> /\ "incomplete" \in s.odd
  BY <1>2 DEF SaidOK, SaidFields, SaidOdd
<1> HIDE DEF s
<1>4. Agree(s, writer')
  BY <1>1, <1>2, <1>3, AgreeSame
<1>5. Following(s, reader, writer')
  BY <1>1, <1>2, <1>3 DEF Following
<1>6. fed + 1 # 0 /\ ~Regular(s)
  BY <1>2, <1>3 DEF Regular
<1>7. UsageFed(s, reader, writer', fed + 1)
  BY <1>1, <1>2, <1>3, <1>6 DEF UsageFed
<1> QED BY <1>1, <1>4, <1>5, <1>7, TellsFed

LEMMA TellsErrorEvent == ASSUME WriterInv, TellsInv, ErrorEvent PROVE TellsInv'
<1>1. phase' = "feed" /\ Took(reader, said) /\ WritesOne(Ev("error", 0))
  BY ErrorEventStep
<1>2. to \in Format /\ Good(to, writer) /\ SaidOK(said)
  BY <1>1, WhileFed
<1> DEFINE v == Write(to, writer, Ev("error", 0))
<1>3. SameEnding(v, writer) /\ Unheard(to, v, writer) /\ (Ready(to, writer) => Ready(to, v))
  BY <1>2, SaysError
<1>4. writer' = v
  BY <1>1 DEF WritesOne
<1>5. SaidOnly({"open", "odd"}, said, said)
  BY <1>2 DEF SaidOK, SaidOnly
<1> HIDE DEF v
<1> QED BY <1>1, <1>3, <1>4, <1>5, TellsSame

-----------------------------------------------------------------------------
(* The actions of Anthropic *)

LEMMA Merged ==
    ASSUME NEW r, DOMAIN r = ReaderFields, NEW u
    PROVE  LET v == MergeUsage(r, <<u>>)
           IN  /\ DOMAIN v = ReaderFields /\ v.seen = TRUE /\ v.emitted = r.emitted
               /\ v.usage = [c \in {"in", "out"} |-> IF u[c] > 0 THEN u[c] ELSE r.usage[c]]
BY DEF MergeUsage, ReaderFields

LEMMA TellsMessageStart == ASSUME WriterInv, TellsInv, MessageStart PROVE TellsInv'
<1>1. from = "anthropic" /\ fed = 0 /\ phase' = "feed" /\ writer' = writer
  BY MessageStartStep
<1>2. PICK usage \in MaybeUsage : Took(MergeUsage(reader, usage), [said EXCEPT !.usage = usage])
  BY MessageStartStep
<1> DEFINE r == MergeUsage(reader, usage)
           s == [said EXCEPT !.usage = usage]
<1>3. Took(r, s)
  BY <1>2
<1>4. /\ SaidOK(said) /\ fed \in Nat /\ Agree(said, writer) /\ Following(said, reader, writer)
      /\ UsageFed(said, reader, writer, fed)
  BY <1>3, WhileFed, TellsNow
<1>5. /\ SaidOnly({"usage"}, s, said) /\ s.usage = usage
  BY <1>4 DEF SaidOK, SaidOnly, SaidFields
<1> HIDE DEF s
<1>6. /\ s.deltas = said.deltas /\ s.calls = said.calls /\ s.odd = said.odd /\ s.open = said.open
      /\ s.finish = said.finish /\ s.whole = said.whole
  BY <1>5 DEF SaidOnly, SaidFields
<1>7. /\ DOMAIN reader = ReaderFields
      /\ said.usage = <<>> /\ said.finish = <<>> /\ Withheld(said, reader, Sent(to, writer))
  BY <1>1, <1>4 DEF Following, UsageFed
<1>8. /\ ~said.whole /\ ~reader.seen /\ ~reader.emitted /\ reader.usage = NoTokens
      /\ Sent(to, writer) = <<>>
  <2>1. <<reader.usage>> # <<>>
    OBVIOUS
  <2> QED BY <1>7, <2>1 DEF Withheld
<1>9. /\ DOMAIN r = ReaderFields /\ ~r.emitted
      /\ usage = <<>> => ~r.seen /\ r.usage = NoTokens
      /\ usage # <<>> => r.seen /\ usage = <<r.usage>>
  <2>1. CASE usage = <<>>
    <3>1. r = reader
      BY <2>1 DEF MergeUsage
    <3> QED BY <1>7, <1>8, <2>1, <3>1
  <2>2. CASE usage = <<Tokens>>
    <3> DEFINE v == MergeUsage(reader, <<Tokens>>)
    <3>1. Tokens["in"] > 0 /\ Tokens["out"] > 0 /\ Tokens = [c \in {"in", "out"} |-> Tokens[c]]
      BY <1>1 DEF Tokens
    <3> HIDE DEF Tokens
    <3>2. /\ DOMAIN v = ReaderFields /\ v.seen = TRUE /\ v.emitted = reader.emitted
          /\ v.usage = [c \in {"in", "out"} |-> IF Tokens[c] > 0 THEN Tokens[c] ELSE reader.usage[c]]
      BY <1>7, Merged
    <3> HIDE DEF v
    <3>3. v.usage = Tokens
      BY <3>1, <3>2
    <3>4. r = v /\ usage # <<>>
      BY <2>2 DEF v
    <3> HIDE DEF r
    <3> QED BY <1>8, <2>2, <3>2, <3>3, <3>4
  <2> QED BY <2>1, <2>2 DEF MaybeUsage
<1> HIDE DEF r
<1>10. Agree(s, writer')
  BY <1>1, <1>4, <1>6, AgreeSame
<1>11. Following(s, r, writer')
  BY <1>1, <1>4, <1>6, <1>9 DEF Following
<1>12. Withheld(s, r, Sent(to, writer'))
  BY <1>1, <1>5, <1>6, <1>8, <1>9 DEF Withheld
<1>13. UsageFed(s, r, writer', fed + 1)
  BY <1>1, <1>4, <1>12 DEF UsageFed
<1> QED BY <1>1, <1>3, <1>10, <1>11, <1>13, TellsFed

\* A call with its first argument
LEMMA TellsCallWithArg ==
    ASSUME WriterInv, TellsInv, Running, NEW r, NEW s, NEW x, Took(r, s), phase' = "feed",
           from # "completions", r = reader,
           WritesTwo(Ev("tool_start", NextId), Fragment("tool", x)),
           SaidOnly({"deltas", "calls", "open", "odd"}, s, said), said.odd \subseteq s.odd,
           Regular(s) <=> Regular(said),
           \/ /\ s.deltas = Append(said.deltas, [kind |-> "tool", x |-> x])
              /\ s.calls = WithArg(Append(said.calls, [id |-> NextId, args |-> <<>>]), x)
           \/ s.deltas = said.deltas /\ "input" \in s.odd
    PROVE  TellsInv'
<1>1. /\ to \in Format /\ Good(to, writer) /\ ~Closed(writer) /\ Agree(said, writer)
      /\ IsSeq(writer.out) /\ IsSeq(said.deltas)
  BY WhileFed, TellsNow, SeqOut
<1>2. /\ SameEnding(writer', writer) /\ Ready(to, writer')
      /\ Sent(to, writer') = Sent(to, writer)
      /\ Deltas(writer'.out) = Append(Deltas(writer.out), [kind |-> "tool", x |-> x])
      /\ CallsSeen(writer'.out) =
            WithArg(Append(CallsSeen(writer.out), [id |-> NextId, args |-> <<>>]), x)
  BY <1>1, CallAndArg
<1>3. Agree(s, writer')
  <2>1. CASE /\ s.deltas = Append(said.deltas, [kind |-> "tool", x |-> x])
             /\ s.calls = WithArg(Append(said.calls, [id |-> NextId, args |-> <<>>]), x)
    <3>1. s.odd = {} => CallsSeen(writer'.out) = s.calls
      BY <1>1, <1>2, <2>1 DEF Agree
    <3> QED BY <1>1, <1>2, <2>1, <3>1, AgreeDelta
  <2>2. CASE s.deltas = said.deltas /\ "input" \in s.odd
    <3> DEFINE d == [kind |-> "tool", x |-> x]
    <3>1. d.kind = "tool" /\ IsSeq(Deltas(writer.out))
      BY <1>1, EventsAreSeq
    <3> HIDE DEF d
    <3>2. Spoken(Append(Deltas(writer.out), d)) = Spoken(Deltas(writer.out))
      BY <3>1, SpokenAppend
    <3>3. Deltas(writer'.out) = Append(Deltas(writer.out), d)
      BY <1>2 DEF d
    <3> QED BY <1>1, <2>2, <3>2, <3>3 DEF Agree
  <2> QED BY <2>1, <2>2
<1> QED BY <1>2, <1>3, TellsCall

LEMMA TellsBlockStart == ASSUME WriterInv, TellsInv, BlockStart PROVE TellsInv'
<1>1. /\ from = "anthropic" /\ Running /\ phase' = "feed"
      /\ from # "completions" /\ from # "responses"
  BY BlockStartStep
<1>2. PICK os \in SUBSET {"unclosed", "doubled"} :
         \/ Took(reader, SaidOdd(SaidCall(NextId), os)) /\ WritesOne(Ev("tool_start", NextId))
         \/ \E x : /\ Took(reader, SaidOdd(CallInFull(x), os))
                   /\ WritesTwo(Ev("tool_start", NextId), Fragment("tool", x))
         \/ \E kind \in {"reasoning", "text"} :
               /\ Took(reader, SaidOdd([said EXCEPT !.open = kind], os))
               /\ WritesOne(Ev("start", kind)) /\ (Tidy /\ to = "responses" => said.open # kind)
         \/ \E kind \in {"reasoning", "text"}, x \in Frag("reasoning") \cup Frag("text") :
               /\ Took(reader, SaidOdd(Said(kind, x), os))
               /\ WritesTwo(Ev("start", kind), Fragment(kind, x)) /\ (Tidy /\ to = "responses" => said.open # kind)
  BY BlockStartStep
<1>3. SaidOK(said) /\ Fine(said, writer) /\ to \in Format /\ Good(to, writer) /\ ~Closed(writer)
  BY <1>1, <1>2, WhileFed
<1>4. CASE Took(reader, SaidOdd(SaidCall(NextId), os)) /\ WritesOne(Ev("tool_start", NextId))
  BY <1>1, <1>3, <1>4, CallStarted, TellsCallAlone
<1>5. ASSUME NEW x, Took(reader, SaidOdd(CallInFull(x), os)),
             WritesTwo(Ev("tool_start", NextId), Fragment("tool", x))
      PROVE  TellsInv'
  BY <1>1, <1>3, <1>5, FullCallStarted, TellsCallWithArg
<1>6. ASSUME NEW kind \in {"reasoning", "text"}, Took(reader, SaidOdd([said EXCEPT !.open = kind], os)),
             WritesOne(Ev("start", kind)),
             Tidy /\ to = "responses" => said.open # kind
      PROVE  TellsInv'
  <2>1. Tidy /\ to = "responses" => writer.block # kind
    BY <1>1, <1>3, <1>6, OtherBlock
  <2> QED BY <1>1, <1>3, <1>6, <2>1, BlockStarted, TellsStart
<1>7. ASSUME NEW kind \in {"reasoning", "text"}, NEW x, Took(reader, SaidOdd(Said(kind, x), os)),
             WritesTwo(Ev("start", kind), Fragment(kind, x)),
             Tidy /\ to = "responses" => said.open # kind
      PROVE  TellsInv'
  <2>1. Tidy /\ to = "responses" => writer.block # kind
    BY <1>1, <1>3, <1>7, OtherBlock
  <2>2. /\ SameEnding(writer', writer) /\ Sent(to, writer') = Sent(to, writer)
        /\ Deltas(writer'.out) = Append(Deltas(writer.out), [kind |-> kind, x |-> x])
        /\ CallsSeen(writer'.out) = CallsSeen(writer.out)
    BY <1>3, <1>7, <2>1, StartAndFragment
  <2> DEFINE s == SaidOdd(Said(kind, x), os)
  <2>3. /\ SaidOK(s) /\ SaidOnly({"deltas", "open", "odd"}, s, said) /\ s.open = kind
        /\ said.odd \subseteq s.odd /\ (Regular(s) <=> Regular(said))
        /\ s.deltas = Append(said.deltas, [kind |-> kind, x |-> x])
    <3>1. SaidOK(said)
      BY <1>3
    <3> QED BY <3>1, TextStarted, ZenonT(60)
  <2>4. Took(reader, s)
    BY <1>7
  <2> HIDE DEF s
  <2> QED BY <1>1, <2>2, <2>3, <2>4, TellsFragment
<1> QED BY <1>2, <1>4, <1>5, <1>6, <1>7

LEMMA TellsPlaceholderStart == ASSUME WriterInv, TellsInv, PlaceholderStart PROVE TellsInv'
<1> DEFINE s == SaidOdd(SaidCall(NextId), Unclosed \cup {"input"})
<1>1. from = "anthropic" /\ Running /\ phase' = "feed" /\ from # "completions"
  BY PlaceholderStartStep
<1>2. PICK x : Took(reader, s) /\ WritesTwo(Ev("tool_start", NextId), Fragment("tool", x))
  BY PlaceholderStartStep
<1>3. SaidOK(said)
  BY <1>2, WhileFed
<1>4. /\ SaidOnly({"deltas", "calls", "open", "odd"}, s, said) /\ said.odd \subseteq s.odd
      /\ "input" \in s.odd /\ (Regular(s) <=> Regular(said)) /\ s.deltas = said.deltas
  BY <1>3, PlaceholderSaid
<1> HIDE DEF s
<1> QED BY <1>1, <1>2, <1>4, TellsCallWithArg

LEMMA TellsBlockDelta == ASSUME WriterInv, TellsInv, BlockDelta PROVE TellsInv'
<1>1. /\ from = "anthropic" /\ Running /\ phase' = "feed" /\ from # "completions"
      /\ said.open \in {"reasoning", "text", "tool"}
  BY BlockDeltaStep
<1>2. PICK x : /\ Took(reader, IF said.open = "tool" THEN SaidArgs(said, Len(said.calls), <<x>>, NoId)
                                                     ELSE Said(said.open, x))
               /\ WritesOne(Fragment(said.open, x))
  BY BlockDeltaStep
<1>3. CASE said.open = "tool"
  <2>1. /\ Took(reader, SaidArgs(said, Len(said.calls), <<x>>, NoId))
        /\ WritesOne(Fragment("tool", x))
    BY <1>2, <1>3
  <2> QED BY <1>1, <1>3, <2>1, TellsArg
<1>4. CASE said.open # "tool"
  <2>1. PICK kind \in {"reasoning", "text"} : kind = said.open
    BY <1>1, <1>4
  <2>2. Took(reader, Said(kind, x)) /\ WritesOne(Fragment(kind, x))
    BY <1>2, <1>4, <2>1
  <2> QED BY <1>1, <2>2, TellsSaid
<1> QED BY <1>3, <1>4

LEMMA TellsBlockStop == ASSUME WriterInv, TellsInv, BlockStop PROVE TellsInv'
BY BlockStopStep, TellsEndBlock

LEMMA TellsMessageDelta == ASSUME WriterInv, TellsInv, MessageDelta PROVE TellsInv'
<1> DEFINE m == MergeUsage(reader, <<OutputUsage>>)
           r == [m EXCEPT !.emitted = TRUE]
           start == IF said.usage = <<>> THEN NoTokens ELSE said.usage[1]
           told == [in |-> start.in, out |-> fed + 1]
           usage == <<told>>
           u(reason) == [said EXCEPT !.finish = <<reason>>]
           v(reason) == [said EXCEPT !.finish = <<reason>>, !.usage = usage]
<1>1. /\ from = "anthropic" /\ Running /\ phase' = "feed"
      /\ \E reason :
            \/ Took(reader, SaidOdd(u(reason), Unclosed)) /\ WritesOne(Ev("finish", reason))
            \/ /\ Took(r, SaidOdd(v(reason), Unclosed))
               /\ WritesTwo(Ev("finish", reason), Ev("usage", m.usage))
  BY MessageDeltaStep
<1> HIDE DEF usage, m, r
<1>2. PICK reason :
            \/ Took(reader, SaidOdd(u(reason), Unclosed)) /\ WritesOne(Ev("finish", reason))
            \/ /\ Took(r, SaidOdd(v(reason), Unclosed))
               /\ WritesTwo(Ev("finish", reason), Ev("usage", m.usage))
  BY <1>1
<1> DEFINE a == u(reason)
           b == v(reason)
<1>3. PICK s : \/ /\ s = SaidOdd(a, Unclosed)
                  /\ Took(reader, s) /\ WritesOne(Ev("finish", reason))
               \/ /\ s = SaidOdd(b, Unclosed)
                  /\ Took(r, s) /\ WritesTwo(Ev("finish", reason), Ev("usage", m.usage))
  BY <1>2
<1>4. /\ SaidOK(said) /\ fed \in Nat /\ Agree(said, writer) /\ Following(said, reader, writer)
      /\ UsageFed(said, reader, writer, fed) /\ to \in Format /\ Good(to, writer) /\ ~writer.ended
  BY <1>1, <1>3, WhileFed, TellsNow DEF Closed
<1>5. /\ s.deltas = said.deltas /\ s.calls = said.calls /\ s.open = said.open
      /\ said.odd \subseteq s.odd /\ s.whole = said.whole /\ s.finish # <<>>
      /\ s = SaidOdd(a, Unclosed) => s.usage = said.usage
      /\ s = SaidOdd(b, Unclosed) => s.usage = usage
  <2>1. /\ SaidOnly({"finish", "usage"}, a, said) /\ a.finish = <<reason>> /\ a.usage = said.usage
        /\ SaidOnly({"finish", "usage"}, b, said) /\ b.finish = <<reason>> /\ b.usage = usage
    BY <1>4 DEF SaidOK, SaidOnly, SaidFields
  <2> HIDE DEF a, b
  <2>2. PICK changed \in SUBSET {"finish", "usage", "whole"} : changed = {"finish", "usage"}
    OBVIOUS
  <2>3. PICK q \in {a, b} : s = SaidOdd(q, Unclosed)
    BY <1>3
  <2>4. SaidOnly(changed, q, said) /\ q.finish = <<reason>>
    BY <2>1, <2>2, <2>3
  <2>5. /\ SaidOnly(changed \cup {"odd"}, s, said)
        /\ said.odd \subseteq s.odd /\ s.finish = q.finish
    BY <1>4, <2>3, <2>4, EndSaid
  <2>6. s = SaidOdd(a, Unclosed) => s.usage = a.usage
    <3>1. SaidOnly(changed, a, said)
      BY <2>1, <2>2
    <3> QED BY <1>4, <3>1, EndSaid
  <2>7. s = SaidOdd(b, Unclosed) => s.usage = b.usage
    <3>1. SaidOnly(changed, b, said)
      BY <2>1, <2>2
    <3> QED BY <1>4, <3>1, EndSaid
  <2>8. s.finish # <<>>
    BY <2>4, <2>5
  <2> QED BY <2>1, <2>2, <2>5, <2>6, <2>7, <2>8 DEF SaidOnly, SaidFields
<1> HIDE DEF a, b
<1>6. Withheld(said, reader, Sent(to, writer)) /\ ~reader.emitted /\ Sent(to, writer) = <<>>
  BY <1>1, <1>4 DEF UsageFed, Withheld, Running
<1>7. DOMAIN reader = ReaderFields /\ fed + 1 # 0
  BY <1>1, <1>4 DEF Following
<1>8. m.usage = told /\ r.seen = TRUE /\ r.emitted = TRUE /\ r.usage = m.usage /\ DOMAIN r = ReaderFields
  <2>1. OutputUsage["in"] = 0 /\ OutputUsage["out"] = fed + 1 /\ fed + 1 > 0
    BY <1>4 DEF OutputUsage
  <2> HIDE DEF OutputUsage
  <2>2. /\ DOMAIN m = ReaderFields /\ m.seen = TRUE
        /\ m.usage = [c \in {"in", "out"} |-> IF OutputUsage[c] > 0 THEN OutputUsage[c]
                                                                    ELSE reader.usage[c]]
    BY <1>7, Merged DEF m
  <2>3. start = reader.usage
    <3>1. CASE reader.seen
      <4>1. said.usage = <<reader.usage>>
        BY <1>6, <3>1 DEF Withheld
      <4> QED BY <4>1
    <3>2. CASE ~reader.seen
      BY <1>6, <3>2 DEF Withheld
    <3> QED BY <3>1, <3>2
  <2>4. m.usage = told
    <3>1. m.usage = [c \in {"in", "out"} |-> IF c = "out" THEN fed + 1 ELSE reader.usage["in"]]
      BY <2>1, <2>2
    <3> HIDE DEF start, m
    <3> QED BY <2>3, <3>1
  <2> QED BY <2>2, <2>4 DEF r, ReaderFields
<1> HIDE DEF told, start
<1>9. CASE Took(r, s) /\ WritesTwo(Ev("finish", reason), Ev("usage", m.usage)) /\ s.usage = usage
  <2>1. WritesEnding(reason, usage) /\ usage = <<told>> /\ usage # <<>>
    <3>1. usage # <<>> /\ usage = <<usage[1]>> /\ usage[1] = told /\ usage = <<told>>
      BY DEF usage
    <3> QED BY <1>8, <1>9, <3>1 DEF WritesEnding
  <2>2. /\ Deltas(writer'.out) = Deltas(writer.out)
        /\ CallsSeen(writer'.out) = CallsSeen(writer.out)
        /\ Sent(to, writer') = usage
    BY <1>4, <1>6, <2>1, EndingTold
  <2>3. Agree(s, writer')
    BY <1>4, <1>5, <2>2, AgreeSame
  <2>4. Following(s, r, writer')
    BY <1>1, <1>5, <1>8 DEF Following
  <2>5. Withheld(s, r, Sent(to, writer'))
    BY <1>5, <1>6, <1>8, <1>9, <2>1, <2>2 DEF Withheld
  <2>6. UsageFed(s, r, writer', fed + 1)
    BY <1>1, <1>7, <2>1, <2>2, <2>5 DEF UsageFed
  <2> QED BY <1>1, <1>9, <2>3, <2>4, <2>6, TellsFed
<1>10. CASE Took(reader, s) /\ WritesOne(Ev("finish", reason)) /\ s.usage = said.usage
  <2>1. PICK none : none = <<>>
    OBVIOUS
  <2>2. WritesEnding(reason, none)
    BY <1>10, <2>1 DEF WritesEnding
  <2>3. /\ Deltas(writer'.out) = Deltas(writer.out)
        /\ CallsSeen(writer'.out) = CallsSeen(writer.out)
        /\ writer'.ended => Sent(to, writer') # <<>>
        /\ Sent(to, writer') = <<>>
    BY <1>4, <1>6, <2>1, <2>2, EndingTold
  <2>4. Agree(s, writer')
    BY <1>4, <1>5, <2>3, AgreeSame
  <2>5. Following(s, reader, writer')
    BY <1>1, <1>5, <1>7 DEF Following
  <2>6. Withheld(s, reader, Sent(to, writer'))
    BY <1>5, <1>6, <1>10, <2>3 DEF Withheld
  <2>7. UsageFed(s, reader, writer', fed + 1)
    BY <1>1, <1>7, <2>3, <2>6 DEF UsageFed
  <2> QED BY <1>1, <1>10, <2>4, <2>5, <2>7, TellsFed
<1> QED BY <1>3, <1>5, <1>9, <1>10

LEMMA TellsMessageStop == ASSUME WriterInv, TellsInv, MessageStop PROVE TellsInv'
<1> DEFINE q == [said EXCEPT !.whole = TRUE]
           s == SaidOdd(q, Unclosed)
<1>1. /\ from = "anthropic" /\ phase' = "close"
      /\ \/ /\ reader.seen /\ ~reader.emitted
            /\ Took([reader EXCEPT !.emitted = TRUE], s)
            /\ WritesTwo(Ev("usage", reader.usage), Ev("done", 0))
         \/ /\ ~(reader.seen /\ ~reader.emitted)
            /\ Took(reader, s) /\ WritesOne(Ev("done", 0))
  BY MessageStopStep
<1>2. PICK r : Took(r, s)
  BY <1>1
<1>3. /\ SaidOK(said) /\ Agree(said, writer) /\ to \in Format /\ Good(to, writer)
      /\ UsageFed(said, reader, writer, fed)
  BY <1>2, WhileFed, TellsNow
<1>4. /\ s.deltas = said.deltas /\ s.calls = said.calls /\ said.odd \subseteq s.odd
      /\ s.usage = said.usage
  <2>1. SaidOnly({"whole"}, q, said)
    BY <1>3 DEF SaidOK, SaidOnly, SaidFields
  <2>2. PICK changed \in SUBSET {"finish", "usage", "whole"} : changed = {"whole"}
    OBVIOUS
  <2> HIDE DEF q
  <2>3. SaidOnly(changed \cup {"odd"}, s, said) /\ said.odd \subseteq s.odd
    BY <1>3, <2>1, <2>2, EndSaid
  <2> HIDE DEF s
  <2> QED BY <2>2, <2>3 DEF SaidOnly, SaidFields
<1> HIDE DEF s
<1>5. Withheld(said, reader, Sent(to, writer)) /\ (writer.ended => Sent(to, writer) # <<>>)
  BY <1>1, <1>3 DEF UsageFed
<1>6. /\ Deltas(writer'.out) = Deltas(writer.out)
      /\ CallsSeen(writer'.out) = CallsSeen(writer.out)
      /\ Sent(to, writer') = said.usage
  <2>1. CASE reader.seen /\ ~reader.emitted /\ WritesTwo(Ev("usage", reader.usage), Ev("done", 0))
    <3> DEFINE x == reader.usage
               u == Write(to, writer, Ev("usage", x))
               v == Write(to, u, Ev("done", 0))
    <3>1. /\ Good(to, u) /\ Deltas(u.out) = Deltas(writer.out)
          /\ CallsSeen(u.out) = CallsSeen(writer.out)
          /\ ~writer.ended /\ Sent(to, writer) = <<>> => Sent(to, u) = <<x>>
      BY <1>3, SaysUsage
    <3>2. writer' = v
      BY <2>1 DEF WritesTwo
    <3> HIDE DEF u
    <3>3. Unheard(to, v, u)
      BY <1>3, <3>1, SaysDone
    <3>4. Sent(to, writer) = <<>> /\ ~writer.ended /\ said.usage = <<x>>
      BY <1>5, <2>1 DEF Withheld
    <3> HIDE DEF v, x
    <3> QED BY <3>1, <3>2, <3>3, <3>4 DEF Unheard
  <2>2. CASE ~(reader.seen /\ ~reader.emitted) /\ WritesOne(Ev("done", 0))
    <3> DEFINE v == Write(to, writer, Ev("done", 0))
    <3>1. Unheard(to, v, writer)
      BY <1>3, SaysDone
    <3>2. writer' = v
      BY <2>2 DEF WritesOne
    <3>3. Sent(to, writer) = said.usage
      BY <1>5, <2>2 DEF Withheld
    <3> HIDE DEF v
    <3> QED BY <3>1, <3>2, <3>3 DEF Unheard
  <2> QED BY <1>1, <2>1, <2>2
<1>7. Agree(s, writer')
  BY <1>3, <1>4, <1>6, AgreeSame
<1>8. UsageTold(s, Sent(to, writer'))
  BY <1>4, <1>6 DEF UsageTold
<1> QED BY <1>1, <1>2, <1>7, <1>8, TellsDone

-----------------------------------------------------------------------------
(* The end of the body, Close, and the whole *)

LEMMA TellsEndOfBody == ASSUME TellsInv, from \in Format, EndOfBody PROVE TellsInv'
<1>1. /\ phase = "feed" /\ phase' = "close"
      /\ from' = from /\ to' = to /\ writer' = writer /\ said' = said /\ fed' = fed
  BY DEF EndOfBody
<1>2. fed \in Nat /\ Agree(said, writer) /\ UsageFed(said, reader, writer, fed)
  BY <1>1 DEF TellsInv
<1>3. UsageTold(said, Sent(to, writer))
  BY <1>2 DEF UsageFed, Withheld, UsageTold, Format
<1>4. fed' \in Nat /\ Agree(said, writer)' /\ UsageTold(said, Sent(to, writer))'
  BY <1>1, <1>2, <1>3 DEF Agree, UsageTold
<1> QED BY <1>1, <1>4 DEF TellsInv

LEMMA TellsClose == ASSUME WriterInv, TellsInv, Close PROVE TellsInv'
<1> DEFINE v == CloseStream(to, writer)
<1>1. /\ phase = "close" /\ phase' = "closed"
      /\ from' = from /\ to' = to /\ writer' = v /\ said' = said /\ fed' = fed
  BY DEF Close
<1>2. /\ to \in Format /\ Good(to, writer) /\ fed \in Nat /\ Agree(said, writer)
      /\ UsageTold(said, Sent(to, writer))
  BY <1>1 DEF TellsInv, WriterInv
<1>3. /\ Deltas(v.out) = Deltas(writer.out) /\ CallsSeen(v.out) = CallsSeen(writer.out)
      /\ to = "completions" => Told(Of(v.out, "usage")) = UsageSent(writer)
      /\ to # "completions" =>
            Of(v.out, "end") # <<>> /\ Of(v.out, "end")[1].x.usage = SentBy(writer)
  BY <1>2, ClosedAnswer
<1> HIDE DEF v
<1>4. Agree(said, v)
  BY <1>2, <1>3, AgreeSame
<1> DEFINE told == IF to = "completions" THEN Told(Of(v.out, "usage"))
                   ELSE IF Of(v.out, "end") = <<>> THEN <<>> ELSE Of(v.out, "end")[1].x.usage
<1>5. told = Sent(to, writer)
  BY <1>3 DEF Sent
<1>6. /\ told # <<>> => said.usage # <<>>
      /\ said.whole /\ said.odd \cap {"running", "incomplete"} = {} => told = said.usage
  BY <1>2, <1>5 DEF UsageTold, Regular
<1>7. UsageKept'
  BY <1>1, <1>6 DEF UsageKept, out
<1>8. Agree(said, writer)'
  BY <1>1, <1>4 DEF Agree
<1> QED BY <1>1, <1>2, <1>7, <1>8 DEF TellsInv

LEMMA TellsUpstream == ASSUME WriterInv, TellsInv, Upstream PROVE TellsInv'
BY TellsChunkDelta, TellsChunkCall, TellsChunkArgs, TellsChunkFinish, TellsChunkUsage, TellsChunkDone,
   TellsItemAdded, TellsPartAdded, TellsItemTextDelta, TellsItemArgs, TellsItemDone, TellsCompleted,
   TellsResponseFailed, TellsResponseIncomplete, TellsErrorEvent, TellsMessageStart, TellsBlockStart,
   TellsPlaceholderStart, TellsBlockDelta, TellsBlockStop, TellsMessageDelta, TellsMessageStop
   DEF Upstream

LEMMA TellsInvHolds == Spec => []TellsInv
<1>1. Init => TellsInv
  <2> SUFFICES ASSUME Init PROVE TellsInv
    OBVIOUS
  <2>1. /\ from \in Format /\ to \in Format \ {from} /\ phase = "feed" /\ said = Nothing /\ fed = 0
        /\ reader = NewReader
        /\ \E rescue : writer = NewWriter(rescue)
    BY DEF Init
  <2>2. /\ Good(to, writer) /\ ~writer.ended /\ writer.out = <<>> /\ writer.usage = <<>>
    BY <2>1, NewWriterGood
  <2>3. /\ said.deltas = <<>> /\ said.calls = <<>> /\ said.open = NoBlock /\ said.usage = <<>>
        /\ said.finish = <<>> /\ said.whole = FALSE /\ said.odd = {}
    BY <2>1 DEF Nothing
  <2>4. /\ DOMAIN reader = ReaderFields /\ reader.toolIdx = -1 /\ ~reader.seen /\ ~reader.emitted
        /\ reader.usage = NoTokens
    BY <2>1 DEF NewReader, ReaderFields
  <2> DEFINE o == writer.out
  <2>5. /\ IsSeq(o) /\ DOMAIN o = {} /\ Len(o) = 0
    BY <2>2, EmptyIsSeq
  <2>6. /\ Of(o, "delta") = <<>> /\ Of(o, "end") = <<>> /\ Of(o, "usage") = <<>>
        /\ ToolOpens(o) = <<>>
    BY <2>5, NoEvents
  <2>7. Told(<<>>) = <<>>
    BY DEF Told
  <2>8. Deltas(o) = <<>> /\ CallsSeen(o) = <<>>
    BY <2>6, <2>7 DEF Deltas, CallsSeen
  <2>9. Sent(to, writer) = <<>>
    BY <2>2, <2>6, <2>7 DEF Sent, UsageSent, SentBy
  <2> HIDE DEF o
  <2>10. Agree(said, writer)
    BY <2>3, <2>8 DEF Agree, o
  <2>11. Following(said, reader, writer)
    <3>1. Len(said.calls) = 0
      BY <2>3, EmptyIsSeq
    <3> QED BY <2>3, <2>4, <3>1 DEF Following, NoBlock
  <2>12. UsageFed(said, reader, writer, fed)
    BY <2>1, <2>2, <2>3, <2>4, <2>9 DEF UsageFed, Withheld, Regular
  <2> QED BY <2>1, <2>10, <2>11, <2>12 DEF TellsInv
<1>2. WriterInv /\ TellsInv /\ [Next]_vars => TellsInv'
  <2> SUFFICES ASSUME WriterInv, TellsInv, [Next]_vars PROVE TellsInv'
    OBVIOUS
  <2>1. CASE UNCHANGED vars
    <3>1. /\ from' = from /\ to' = to /\ phase' = phase /\ said' = said /\ writer' = writer
          /\ fed' = fed /\ reader' = reader
      BY <2>1 DEF vars
    <3>2. Agree(said, writer)' <=> Agree(said, writer)
      BY <3>1 DEF Agree
    <3>3. Following(said, reader, writer)' <=> Following(said, reader, writer)
      BY <3>1 DEF Following
    <3>4. UsageFed(said, reader, writer, fed)' <=> UsageFed(said, reader, writer, fed)
      BY <3>1 DEF UsageFed
    <3>5. UsageTold(said, Sent(to, writer))' <=> UsageTold(said, Sent(to, writer))
      BY <3>1 DEF UsageTold
    <3>6. UsageKept' <=> UsageKept
      BY <3>1 DEF UsageKept, out
    <3> QED BY <3>1, <3>2, <3>3, <3>4, <3>5, <3>6 DEF TellsInv
  <2>2. from \in Format
    BY DEF WriterInv
  <2> QED BY <2>1, <2>2, TellsUpstream, TellsEndOfBody, TellsClose DEF Next
<1> QED BY <1>1, <1>2, WriterInvHolds, PTL DEF Spec

LEMMA TellsInvTells == TellsInv => ContentKept /\ UsageKept
<1>1. TellsInv => ContentKept
  BY DEF TellsInv, Agree, ContentKept, out
<1>2. TellsInv => UsageKept
  BY DEF TellsInv, UsageKept
<1> QED BY <1>1, <1>2

\* The client is told each fragment of text and reasoning once, in order and under its kind, and,
\* if the stream shows none of the irregularities of Odd, each call with its id and its arguments:
\* no number of conversions of a line to two events, of blocks closed for others, or of calls
\* mixes, drops or repeats any (the read functions and writers of stream.go)
THEOREM ContentStaysKept == Spec => []ContentKept
BY TellsInvHolds, TellsInvTells, PTL

\* A client of a whole answer is told its last usage exactly, and no client a usage the upstream
\* did not give, although readers merge what comes in parts and writers hold it back until the
\* end (mergeAnthropicUsage, emitCompleted and emitDelta of stream.go)
THEOREM UsageStaysKept == Spec => []UsageKept
BY TellsInvHolds, TellsInvTells, PTL

-----------------------------------------------------------------------------
(* The phase of the texts of a Responses client, when a Chat Completions upstream sends *)
(* the fragments of its calls one call after the other, each with its index            *)

InOrder(s) == from = "completions" /\ to = "responses" /\ s.odd \cap {"interleaved", "unindexed"} = {}

\* The reader has counted the calls, and the arguments of the last find it open
InTurn(s, r, w) ==
    /\ r.toolIdx = Len(s.calls) - 1
    /\ s.finish = <<>> /\ s.open = "tool" => w.block = "tool"

PhaseInv ==
    InOrder(said) =>
        /\ Underway(writer)
        /\ phase = "closed" => Good(to, writer)
        /\ phase = "feed" => InTurn(said, reader, writer)

\* What holds before a line is fed by such an upstream
LEMMA InOrderNow ==
    ASSUME WriterInv, TellsInv, PhaseInv, NEW r, NEW s, Took(r, s), InOrder(s),
           said.odd \subseteq s.odd
    PROVE  /\ Underway(writer) /\ InTurn(said, reader, writer)
           /\ Good("responses", writer) /\ Sound(writer) /\ Whole(writer)
           /\ DOMAIN reader = ReaderFields /\ SaidOK(said) /\ Len(said.calls) \in Nat
<1>1. InOrder(said) /\ phase = "feed"
  BY DEF InOrder, Took
<1>2. Good("responses", writer) /\ SaidOK(said)
  BY <1>1, WhileFed DEF InOrder
<1>3. Following(said, reader, writer)
  BY TellsNow
<1>4. DOMAIN reader = ReaderFields
  BY <1>1, <1>3 DEF Following, InOrder
<1>5. Sound(writer) /\ Whole(writer)
  BY <1>2 DEF Good
<1> QED BY <1>1, <1>2, <1>4, <1>5, SeqLength DEF PhaseInv, SaidOK

LEMMA PhaseFed ==
    ASSUME NEW r, NEW s, Took(r, s), phase' \in {"feed", "close"},
           InOrder(s) => Underway(writer') /\ (phase' = "feed" => InTurn(s, r, writer'))
    PROVE  PhaseInv'
<1>1. /\ from' = from /\ to' = to /\ reader' = r /\ said' = s
  BY DEF Took
<1>2. (InOrder(said))' <=> InOrder(s)
  BY <1>1 DEF InOrder
<1>3. (InTurn(said, reader, writer))' <=> InTurn(s, r, writer')
  BY <1>1 DEF InTurn
<1> QED BY <1>2, <1>3 DEF PhaseInv

LEMMA PhaseChunkDelta == ASSUME WriterInv, TellsInv, PhaseInv, ChunkDelta PROVE PhaseInv'
<1>1. Running /\ phase' = "feed"
  BY ChunkDeltaStep
<1>2. PICK kind, x : /\ kind \in {"reasoning", "text"}
                     /\ Took(reader, Said(kind, x)) /\ WritesOne(Fragment(kind, x))
  BY ChunkDeltaStep
<1> DEFINE s == Said(kind, x)
<1>3. SaidOK(said) /\ ~Closed(writer)
  BY <1>1, <1>2, WhileFed
<1>4. SaidOnly({"deltas", "open"}, s, said) /\ s.open = kind
  BY <1>2, <1>3, SaidFragment
<1>5. Took(reader, s)
  BY <1>2
<1> HIDE DEF s
<1>6. s.odd = said.odd /\ s.calls = said.calls /\ s.open # "tool"
  BY <1>2, <1>4 DEF SaidOnly, SaidFields
<1>7. ASSUME InOrder(s) PROVE Underway(writer') /\ InTurn(s, reader, writer')
  <2>1. /\ Underway(writer) /\ InTurn(said, reader, writer) /\ Sound(writer) /\ Whole(writer)
    BY <1>5, <1>6, <1>7, InOrderNow
  <2>2. writer' = Write("responses", writer, Fragment(kind, x))
    BY <1>2, <1>7 DEF WritesOne, InOrder
  <2>3. Underway(writer')
    BY <1>2, <1>3, <2>1, <2>2, UnderwaySpoken
  <2> QED BY <1>6, <2>1, <2>3 DEF InTurn
<1> QED BY <1>1, <1>5, <1>7, PhaseFed

\* A call and perhaps its argument are written
LEMMA UnderwayCalled ==
    ASSUME Good("responses", writer), Underway(writer), ~Closed(writer), NEW id, NEW x,
           to = "responses",
           \/ WritesOne(Ev("tool_start", id))
           \/ WritesTwo(Ev("tool_start", id), Fragment("tool", x))
    PROVE  Underway(writer') /\ writer'.block = "tool"
<1> DEFINE u == Write("responses", writer, Ev("tool_start", id))
           v == Write("responses", u, Fragment("tool", x))
<1>1. PICK format \in Format : format = "responses"
  BY DEF Format
<1>2. PICK b \in Blocks : b = "tool"
  BY DEF Blocks
<1>3. Sound(writer) /\ Whole(writer)
  BY DEF Good
<1>4. Good("responses", u) /\ SameEnding(u, writer) /\ Ready("responses", u)
  BY <1>1, SaysCall
<1>5. Underway(u)
  BY <1>3, UnderwayCall
<1>6. writer' = u \/ writer' = v
  BY DEF WritesOne, WritesTwo
<1> HIDE DEF u
<1>7. u.block = "tool" /\ Sound(u) /\ ~Closed(u)
  BY <1>4 DEF Ready, Good, SameEnding, Closed
<1>8. Ready("responses", v)
  BY <1>1, <1>2, <1>4, <1>7, SaysDelta
<1>9. Underway(v)
  BY <1>5, <1>7, UnderwayArg
<1> QED BY <1>5, <1>6, <1>7, <1>8, <1>9 DEF Ready

LEMMA PhaseChunkCall == ASSUME WriterInv, TellsInv, PhaseInv, ChunkCall PROVE PhaseInv'
<1>1. from = "completions" /\ Running /\ phase' = "feed"
  BY ChunkCallStep
<1>2. PICK id \in {NoId, NextId}, index \in {NoIndex, Len(said.calls)} :
         \E x, args : CallFed(id, index, x, args)
  BY ChunkCallStep
<1>3. PICK x, args : CallFed(id, index, x, args)
  BY <1>2
<1> DEFINE tc == [index |-> index, id |-> id, args |-> args]
           r == AfterCall(reader, tc)
           s == SaidArgs(SaidCall(id), NextId, args, NoId)
<1>4. Took(r, s)
  BY <1>3 DEF CallFed
<1>5. SaidOK(said) /\ ~Closed(writer)
  BY <1>1, <1>4, WhileFed
<1>6. SaidOnly({"deltas", "calls", "open"}, s, said) /\ Len(s.calls) = Len(said.calls) + 1
  BY <1>3, <1>5, SaidCallFed DEF CallFed, NextId
<1> HIDE DEF s
<1>7. s.odd = said.odd
  BY <1>6 DEF SaidOnly, SaidFields
<1>8. ASSUME InOrder(s) PROVE Underway(writer') /\ InTurn(s, r, writer')
  <2>1. /\ Underway(writer) /\ InTurn(said, reader, writer) /\ Good("responses", writer)
        /\ DOMAIN reader = ReaderFields /\ Len(said.calls) \in Nat
    BY <1>4, <1>7, <1>8, InOrderNow
  <2>2. reader.toolIdx = Len(said.calls) - 1
    BY <2>1 DEF InTurn
  <2>3. tc.index = index /\ tc.id = id
    OBVIOUS
  <2>4. /\ IF index = NoIndex THEN reader.toolIdx + 1 = Len(said.calls) ELSE index = Len(said.calls)
        /\ Len(said.calls) > reader.toolIdx
    BY <2>1, <2>2
  <2> HIDE DEF tc
  <2>5. Starts(reader, tc) /\ r.toolIdx = Len(said.calls)
    <3>1. Starts(reader, tc)
      BY <2>3, <2>4 DEF Starts
    <3>2. r.toolIdx = Len(said.calls)
      BY <2>1, <2>3, <2>4 DEF AfterCall, ReadCall, ReaderFields
    <3> QED BY <3>1, <3>2
  <2>6. to = "responses"
    BY <1>8 DEF InOrder
  <2>7. \/ WritesOne(Ev("tool_start", id))
        \/ WritesTwo(Ev("tool_start", id), Fragment("tool", x))
    BY <1>3, <2>5 DEF CallFed, tc
  <2>8. Underway(writer') /\ writer'.block = "tool"
    BY <1>5, <2>1, <2>6, <2>7, UnderwayCalled
  <2> QED BY <1>6, <2>1, <2>5, <2>8 DEF InTurn
<1> HIDE DEF r
<1> QED BY <1>1, <1>4, <1>8, PhaseFed

LEMMA PhaseChunkArgs == ASSUME WriterInv, TellsInv, PhaseInv, ChunkArgs PROVE PhaseInv'
<1>1. from = "completions" /\ Running /\ phase' = "feed"
  BY ChunkArgsStep
<1>2. PICK k \in DOMAIN said.calls : \E id \in {NoId, k}, index \in {NoIndex, k - 1} :
         \E x : ArgsFed(k, id, index, x)
  BY ChunkArgsStep
<1>3. PICK id \in {NoId, k}, index \in {NoIndex, k - 1} : \E x : ArgsFed(k, id, index, x)
  BY <1>2
<1>4. PICK x : ArgsFed(k, id, index, x)
  BY <1>3
<1> DEFINE tc == [index |-> index, id |-> id, args |-> <<x>>]
           r == AfterCall(reader, tc)
           os == OddArgs(k, id, index)
           s == SaidOdd(SaidArgs(said, k, <<x>>, id), os)
<1>5. Took(r, s)
  BY <1>4 DEF ArgsFed
<1>6. SaidOK(said) /\ ~Closed(writer)
  BY <1>1, <1>5, WhileFed
<1> HIDE DEF os
<1>7. SaidOK(said)
  BY <1>6
<1>8. ArgsSaid(s, said, k, id, x, os)
  BY <1>7, SaidArgsFed
<1> HIDE DEF s
<1>9. s.odd = said.odd \cup os /\ Len(s.calls) = Len(said.calls)
  BY <1>8 DEF ArgsSaid
<1>10. ASSUME InOrder(s) PROVE Underway(writer') /\ InTurn(s, r, writer')
  <2>1. /\ Underway(writer) /\ InTurn(said, reader, writer) /\ Good("responses", writer)
        /\ Sound(writer) /\ DOMAIN reader = ReaderFields /\ Len(said.calls) \in Nat
    BY <1>5, <1>9, <1>10, InOrderNow
  <2>2. /\ reader.toolIdx = Len(said.calls) - 1
        /\ said.open = "tool" => writer.block = "tool"
    BY <1>1, <2>1 DEF InTurn, Running
  \* The fragment is of the last call, and says so
  <2>3. "unindexed" \notin os /\ "interleaved" \notin os
    BY <1>9, <1>10 DEF InOrder
  <2>4. index # NoIndex /\ ~(k < Len(said.calls)) /\ said.open = "tool"
    BY <2>3 DEF os, OddArgs
  <2>5. k \in 1 .. Len(said.calls)
    BY <1>6, SeqLength DEF SaidOK
  <2>6. index = reader.toolIdx /\ reader.toolIdx \in Int
    BY <2>1, <2>2, <2>4, <2>5
  <2>7. tc.index = index /\ tc.id = id
    OBVIOUS
  <2> HIDE DEF tc
  <2>8. r.toolIdx = reader.toolIdx
    BY <2>1, <2>4, <2>6, <2>7 DEF AfterCall, ReadCall, ReaderFields
  <2>9. to = "responses"
    BY <1>10 DEF InOrder
  <2>10. Underway(writer') /\ writer'.block = "tool"
    <3>1. CASE Starts(reader, tc)
      <4>1. WritesTwo(Ev("tool_start", id), Fragment("tool", x))
        BY <1>4, <3>1 DEF ArgsFed, tc
      <4> QED BY <1>6, <2>1, <2>9, <4>1, UnderwayCalled
    <3>2. CASE ~Starts(reader, tc)
      <4>1. writer' = Write("responses", writer, Fragment("tool", x))
        BY <1>4, <2>9, <3>2 DEF ArgsFed, tc, WritesOne
      <4>2. Underway(writer')
        BY <2>1, <2>2, <2>4, <4>1, UnderwayArg
      <4>3. PICK format \in Format, b \in Blocks : format = "responses" /\ b = "tool"
        BY DEF Format, Blocks
      <4>4. Ready("responses", writer')
        BY <1>6, <2>1, <4>1, <4>3, SaysDelta
      <4> QED BY <4>2, <4>4 DEF Ready
    <3> QED BY <3>1, <3>2
  <2> QED BY <1>9, <2>2, <2>8, <2>10 DEF InTurn
<1> HIDE DEF r
<1> QED BY <1>1, <1>5, <1>10, PhaseFed

LEMMA PhaseChunkFinish == ASSUME WriterInv, TellsInv, PhaseInv, ChunkFinish PROVE PhaseInv'
<1>1. Running /\ phase' = "feed"
  BY ChunkFinishStep
<1>2. PICK reason, usage :
         /\ Took(reader, [said EXCEPT !.finish = <<reason>>,
                                      !.usage = IF usage = <<>> THEN @ ELSE usage])
         /\ WritesEnding(reason, usage)
  BY ChunkFinishStep
<1> DEFINE s == [said EXCEPT !.finish = <<reason>>, !.usage = IF usage = <<>> THEN @ ELSE usage]
           u == Write("responses", writer, Ev("finish", reason))
           v == Write("responses", u, Ev("usage", usage[1]))
<1>3. SaidOK(said)
  BY <1>2, WhileFed
<1>4. SaidOnly({"usage", "finish"}, s, said) /\ s.finish # <<>>
  BY <1>3 DEF SaidOK, SaidOnly, SaidFields
<1>5. Took(reader, s)
  BY <1>2
<1> HIDE DEF s
<1>6. s.odd = said.odd /\ s.calls = said.calls
  BY <1>4 DEF SaidOnly, SaidFields
<1>7. ASSUME InOrder(s) PROVE Underway(writer') /\ InTurn(s, reader, writer')
  <2>1. /\ Underway(writer) /\ InTurn(said, reader, writer) /\ Good("responses", writer)
        /\ Sound(writer) /\ Whole(writer)
    BY <1>5, <1>6, <1>7, InOrderNow
  <2>2. writer' = u \/ writer' = v
    BY <1>2, <1>7 DEF WritesEnding, WritesOne, WritesTwo, InOrder
  <2>3. PICK format \in Format : format = "responses"
    BY DEF Format
  <2>4. Good("responses", u)
    BY <2>1, <2>3, SaysFinish
  <2>5. Underway(u)
    BY <2>1, UnderwayFinish
  <2> HIDE DEF u
  <2>6. Underway(v)
    BY <2>4, <2>5, UnderwayUsage DEF Good
  <2> QED BY <1>4, <1>6, <2>1, <2>2, <2>5, <2>6 DEF InTurn
<1> QED BY <1>1, <1>5, <1>7, PhaseFed

LEMMA PhaseChunkUsage == ASSUME WriterInv, TellsInv, PhaseInv, ChunkUsage PROVE PhaseInv'
<1>1. phase' = "feed" /\ WritesOne(Ev("usage", Tokens))
  BY ChunkUsageStep
<1> DEFINE u == [said EXCEPT !.usage = <<Tokens>>]
           z == SaidOdd(u, {"running"})
<1>2. PICK s : Took(reader, s) /\ s \in {u, z}
  BY ChunkUsageStep
<1>3. DOMAIN said = SaidFields
  BY <1>2, WhileFed DEF SaidOK
<1>4. /\ s.calls = said.calls /\ s.open = said.open /\ s.finish = said.finish
      /\ said.odd \subseteq s.odd
  <2> HIDE DEF Tokens
  <2>1. SaidOnly({"usage"}, u, said)
    BY <1>3 DEF SaidOnly, SaidFields
  <2>2. SaidOnly({"odd"}, z, u) /\ z.odd = u.odd \cup {"running"}
    BY <1>3 DEF SaidOnly, SaidFields, SaidOdd
  <2> HIDE DEF u, z
  <2> QED BY <1>2, <2>1, <2>2 DEF SaidOnly, SaidFields
<1> HIDE DEF u, z, Tokens
<1>5. ASSUME InOrder(s) PROVE Underway(writer') /\ InTurn(s, reader, writer')
  <2>1. /\ Underway(writer) /\ InTurn(said, reader, writer) /\ Good("responses", writer)
        /\ Sound(writer)
    BY <1>2, <1>4, <1>5, InOrderNow
  <2>2. writer' = Write("responses", writer, Ev("usage", Tokens))
    BY <1>1, <1>5 DEF WritesOne, InOrder
  <2>3. Underway(writer')
    BY <2>1, <2>2, UnderwayUsage
  <2>4. PICK format \in Format : format = "responses"
    BY DEF Format
  <2>5. writer.block = "tool" => writer'.block = "tool"
    BY <2>1, <2>2, <2>4, SaysUsage DEF Ready
  <2> QED BY <1>4, <2>1, <2>3, <2>5 DEF InTurn
<1> QED BY <1>1, <1>2, <1>5, PhaseFed

LEMMA PhaseChunkDone == ASSUME WriterInv, TellsInv, PhaseInv, ChunkDone PROVE PhaseInv'
<1>1. phase' = "close" /\ WritesOne(Ev("done", 0))
  BY ChunkDoneStep
<1> DEFINE s == [said EXCEPT !.whole = TRUE]
<1>2. Took(reader, s)
  BY ChunkDoneStep
<1>3. s.odd = said.odd
  BY <1>2, WhileFed DEF SaidOK, SaidFields
<1> HIDE DEF s
<1>4. ASSUME InOrder(s) PROVE Underway(writer')
  <2>1. Underway(writer) /\ Sound(writer) /\ Whole(writer)
    BY <1>2, <1>3, <1>4, InOrderNow
  <2>2. writer' = Write("responses", writer, Ev("done", 0))
    BY <1>1, <1>4 DEF WritesOne, InOrder
  <2> QED BY <2>1, <2>2, UnderwayDone
<1> QED BY <1>1, <1>2, <1>4, PhaseFed

LEMMA PhaseClose == ASSUME WriterInv, PhaseInv, Close PROVE PhaseInv'
<1> DEFINE v == Write("responses", writer, Ev("done", 0))
<1>1. /\ from' = from /\ to' = to /\ said' = said /\ phase' = "closed" /\ phase = "close"
      /\ writer' = CloseStream(to, writer)
  BY DEF Close
<1>2. (InOrder(said))' <=> InOrder(said)
  BY <1>1 DEF InOrder
<1>3. ASSUME InOrder(said) PROVE Underway(writer)' /\ Good(to, writer)'
  <2>1. to = "responses" /\ Underway(writer) /\ Good("responses", writer)
    BY <1>1, <1>3 DEF PhaseInv, WriterInv, InOrder
  <2>2. writer' = v
    BY <1>1, <2>1 DEF CloseStream, Write
  <2>3. PICK format \in Format : format = "responses"
    BY DEF Format
  <2>4. Good("responses", v)
    BY <2>1, <2>3, SaysDone
  <2>5. Underway(v)
    BY <2>1, UnderwayDone DEF Good
  <2>6. Underway(writer)'
    BY <2>2, <2>5
  <2> QED BY <1>1, <2>1, <2>2, <2>4, <2>6, GoodNext
<1> QED BY <1>1, <1>2, <1>3 DEF PhaseInv

LEMMA PhaseInvHolds == Spec => []PhaseInv
<1>1. Init => PhaseInv
  <2> SUFFICES ASSUME Init PROVE PhaseInv
    OBVIOUS
  <2>1. PICK rescue : writer = NewWriter(rescue)
    BY DEF Init
  <2>2. phase = "feed" /\ said = Nothing /\ reader = NewReader
    BY DEF Init
  <2>3. said.calls = <<>> /\ said.open # "tool" /\ reader.toolIdx = -1
    BY <2>2 DEF Nothing, NewReader, NoBlock
  <2>4. InTurn(said, reader, writer)
    BY <2>3, EmptyIsSeq DEF InTurn
  <2>5. Underway(writer)
    BY <2>1, UnderwayNew
  <2> QED BY <2>2, <2>4, <2>5 DEF PhaseInv
<1>2. WriterInv /\ TellsInv /\ PhaseInv /\ [Next]_vars => PhaseInv'
  <2> SUFFICES ASSUME WriterInv, TellsInv, PhaseInv, [Next]_vars PROVE PhaseInv'
    OBVIOUS
  <2>1. CASE UNCHANGED vars
    <3>1. Good(to, writer) => Good(to, writer)'
      BY <2>1, GoodNext DEF vars
    <3> QED BY <2>1, <3>1 DEF vars, PhaseInv, InOrder, InTurn
  <2>2. CASE EndOfBody
    BY <2>2 DEF EndOfBody, PhaseInv, InOrder
  <2>3. CASE Close
    BY <2>3, PhaseClose
  <2>4. CASE Upstream
    <3>1. CASE from = "completions"
      <4>1. \/ ChunkDelta \/ ChunkCall \/ ChunkArgs \/ ChunkFinish \/ ChunkUsage \/ ChunkDone
        BY <2>4, <3>1 DEF Upstream, ItemAdded, PartAdded, ItemTextDelta, ItemArgs, ItemDone,
           Completed, ResponseFailed, ResponseIncomplete, MessageStart, BlockStart,
           PlaceholderStart, BlockDelta, BlockStop, MessageDelta, MessageStop, ErrorEvent
      <4> QED BY <4>1, PhaseChunkDelta, PhaseChunkCall, PhaseChunkArgs, PhaseChunkFinish,
              PhaseChunkUsage, PhaseChunkDone
    <3>2. CASE from # "completions"
      <4>1. from' = from
        BY <2>4 DEF Upstream, ChunkDelta, ChunkCall, ChunkArgs, ChunkFinish, ChunkUsage, ChunkDone,
           ItemAdded, PartAdded, ItemTextDelta, ItemArgs, ItemDone, Completed, ResponseFailed,
           ResponseIncomplete, MessageStart, BlockStart, PlaceholderStart, BlockDelta, BlockStop,
           MessageDelta, MessageStop, ErrorEvent, Feed
      <4> QED BY <3>2, <4>1 DEF PhaseInv, InOrder
    <3> QED BY <3>1, <3>2
  <2> QED BY <2>1, <2>2, <2>3, <2>4 DEF Next
<1> QED BY <1>1, <1>2, WriterInvHolds, TellsInvHolds, PTL DEF Spec

LEMMA PhaseInvTells == WriterInv /\ PhaseInv => PhaseAccurate
<1> SUFFICES ASSUME WriterInv, PhaseInv, InOrder(said) PROVE PhasesTold(writer.out, writer.rescue)
  BY DEF PhaseAccurate, PhasesTold, InOrder, out
<1>1. Good("responses", writer)
  BY DEF WriterInv, PhaseInv, Fine, InOrder
<1>2. Sound(writer) /\ Whole(writer) /\ Phased(writer)
  BY <1>1 DEF Good, PhaseInv, Underway
<1> QED BY <1>2, PhasedTold

\* A client of Responses is told a text to be a commentary exactly if a tool call follows it or
\* it is asked to go on, and it is asked only after a text that reads as an unfinished
\* prelude: whatever a Chat Completions upstream sends, as long as the fragments of its calls
\* come one call after the other and with their index (endText, beginTool and
\* shouldContinueAfterPrelude of responsesStreamWriter)
THEOREM PhasesStayAccurate == Spec => []PhaseAccurate
BY WriterInvHolds, PhaseInvHolds, PhaseInvTells, PTL
=============================================================================
