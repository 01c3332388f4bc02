------------------------- MODULE ConversationProofs -------------------------
(***************************************************************************)
(* DialogKept, TurnsWhole and ResultsInPlace of ConversationProps, proved  *)
(* for all pairs of protocols, dialogs of any length, answers of any       *)
(* number of calls and any arguments.  That what is parsed of a request is *)
(* read like the dialog is proved in DialogProofs.                         *)
(*                                                                         *)
(* 1. What two sequences of pieces have in common is Kept: the same words, *)
(*    the same thoughts and the same media, each in their order.           *)
(* 2. Builders: messages of the form that parsers return are built into a  *)
(*    request that is read as they are (Converted), each builder by what   *)
(*    one message adds.                                                    *)
(* 3. The dialog: what the client knows is read like what was held, and    *)
(*    TurnInv says whose turn follows whose.                               *)
(* 4. Calls and results: pieces are read one by one by an automaton that   *)
(*    knows the waiting calls (Takes).  What it reads to the end with none *)
(*    left waiting is InPlace (RunsInPlace).  What parsers and builders    *)
(*    make may be read wherever what they made it of may (Leads), and of   *)
(*    the history, PlaceInv says that it may.                              *)
(***************************************************************************)
EXTENDS DialogProofs

-----------------------------------------------------------------------------
(* Words, thoughts and media among pieces *)

Is(kind, p) == CASE kind = "word" -> IsWord(p) [] kind = "thought" -> IsThought(p)
                 [] kind = "media" -> IsMedia(p)
Sel(kind, ps) == At(ps, {k \in DOMAIN ps : Is(kind, ps[k])})
Shown(ps) == Values(MediaIn(ps))

LEMMA SelIs ==
    ASSUME NEW ps
    PROVE  Words(ps) = Sel("word", ps) /\ Thoughts(ps) = Sel("thought", ps)
           /\ MediaIn(ps) = Sel("media", ps)
<1>1. Sel("word", ps) = At(ps, {k \in DOMAIN ps : IsWord(ps[k])})
  BY DEF Sel, Is
<1>2. Sel("thought", ps) = At(ps, {k \in DOMAIN ps : IsThought(ps[k])})
  BY DEF Sel, Is
<1>3. Sel("media", ps) = At(ps, {k \in DOMAIN ps : IsMedia(ps[k])})
  BY DEF Sel, Is
<1> QED BY <1>1, <1>2, <1>3 DEF Words, Thoughts, MediaIn

LEMMA SelCat ==
    ASSUME NEW s, IsSeq(s), NEW t, IsSeq(t), NEW kind
    PROVE  Sel(kind, Cat(s, t)) = Cat(Sel(kind, s), Sel(kind, t))
<1> USE DEF Cat
<1> DEFINE u == s \o t
           P == {k \in DOMAIN u : Is(kind, u[k])}
           Q == {k \in DOMAIN s : Is(kind, s[k])}
           R == {k \in DOMAIN t : Is(kind, t[k])}
<1>1. /\ IsSeq(u) /\ Len(u) = Len(s) + Len(t)
      /\ \A j \in 1 .. Len(s) : u[j] = s[j]
      /\ \A j \in 1 .. Len(t) : u[Len(s) + j] = t[j]
  BY Concat
<1>2. Len(s) \in Nat /\ Len(t) \in Nat /\ DOMAIN s = 1 .. Len(s) /\ DOMAIN t = 1 .. Len(t)
  BY SeqLength
<1>3. DOMAIN u = 1 .. Len(s) + Len(t)
  BY <1>1, SeqLength
<1> HIDE DEF u
<1>4. \A k \in 1 .. Len(s) : k \in P <=> k \in Q
  BY <1>1, <1>2, <1>3
<1>5. \A k \in 1 .. Len(t) : Len(s) + k \in P <=> k \in R
  BY <1>1, <1>2, <1>3
<1> HIDE DEF P, Q, R
<1>6. At(s \o t, P) = At(s, Q) \o At(t, R)
  BY <1>4, <1>5, AtConcat
<1> QED BY <1>6 DEF Sel, P, Q, R, u

LEMMA SelIsSeq == ASSUME NEW s, IsSeq(s), NEW kind PROVE IsSeq(Sel(kind, s))
BY AtIsSeq DEF Sel

LEMMA SelNothing == ASSUME NEW kind PROVE Sel(kind, <<>>) = <<>>
BY AtEmpty DEF Sel

LEMMA SelAll ==
    ASSUME NEW s, IsSeq(s), NEW kind, \A k \in 1 .. Len(s) : Is(kind, s[k])
    PROVE  Sel(kind, s) = s
<1>1. DOMAIN s = 1 .. Len(s)
  BY SeqLength
<1> DEFINE P == {k \in DOMAIN s : Is(kind, s[k])}
<1>2. DOMAIN s \subseteq P
  BY <1>1
<1> HIDE DEF P
<1> QED BY <1>2, AtAll DEF Sel, P

LEMMA SelNone ==
    ASSUME NEW s, IsSeq(s), NEW kind, \A k \in 1 .. Len(s) : ~Is(kind, s[k])
    PROVE  Sel(kind, s) = <<>>
<1>1. DOMAIN s = 1 .. Len(s)
  BY SeqLength
<1> DEFINE P == {k \in DOMAIN s : Is(kind, s[k])}
<1>2. \A k \in 1 .. Len(s) : k \notin P
  BY <1>1
<1> HIDE DEF P
<1> QED BY <1>2, AtNone DEF Sel, P

LEMMA ValuesAre ==
    ASSUME NEW s, IsSeq(s)
    PROVE  /\ IsSeq(Values(s)) /\ Len(Values(s)) = Len(s)
           /\ \A k \in 1 .. Len(s) : Values(s)[k] = s[k].val
<1> DEFINE p == Values(s)
<1>1. Len(s) \in Nat /\ DOMAIN s = 1 .. Len(s)
  BY SeqLength
<1>2. p = [k \in 1 .. Len(s) |-> p[k]] /\ \A k \in 1 .. Len(s) : p[k] = s[k].val
  BY <1>1 DEF Values
<1> HIDE DEF p
<1>3. IsSeq(p) /\ Len(p) = Len(s)
  BY <1>1, <1>2, FunctionIsSeq
<1> QED BY <1>2, <1>3 DEF p

LEMMA ValuesCat ==
    ASSUME NEW s, IsSeq(s), NEW t, IsSeq(t)
    PROVE  Values(Cat(s, t)) = Cat(Values(s), Values(t))
<1> USE DEF Cat
<1> DEFINE a == Values(s)
           b == Values(t)
           u == s \o t
           c == Values(u)
<1>1. /\ IsSeq(u) /\ Len(u) = Len(s) + Len(t)
      /\ \A j \in 1 .. Len(s) : u[j] = s[j]
      /\ \A j \in 1 .. Len(t) : u[Len(s) + j] = t[j]
      /\ Len(s) \in Nat /\ Len(t) \in Nat
  BY Concat, SeqLength
<1> HIDE DEF u
<1>2. IsSeq(a) /\ Len(a) = Len(s) /\ \A j \in 1 .. Len(s) : a[j] = s[j].val
  BY ValuesAre
<1>3. IsSeq(b) /\ Len(b) = Len(t) /\ \A j \in 1 .. Len(t) : b[j] = t[j].val
  BY ValuesAre
<1>4. IsSeq(c) /\ Len(c) = Len(u) /\ \A j \in 1 .. Len(u) : c[j] = u[j].val
  BY <1>1, ValuesAre
<1> HIDE DEF a, b, c
<1>5. Len(c) = Len(a) + Len(b)
  BY <1>1, <1>2, <1>3, <1>4
<1>6. \A j \in 1 .. Len(a) : c[j] = a[j]
  BY <1>1, <1>2, <1>4
<1>7. ASSUME NEW j \in 1 .. Len(b) PROVE c[Len(a) + j] = b[j]
  <2>1. j \in 1 .. Len(t) /\ Len(s) + j \in 1 .. Len(u)
    BY <1>1, <1>3
  <2>2. b[j] = t[j].val /\ u[Len(s) + j] = t[j]
    BY <1>1, <1>3, <2>1
  <2>3. c[Len(s) + j] = u[Len(s) + j].val
    BY <1>4, <2>1
  <2> QED BY <1>2, <2>2, <2>3
<1>8. IsSeq(a) /\ IsSeq(b) /\ IsSeq(c)
  BY <1>2, <1>3, <1>4
<1>9. c = a \o b
  <2>1. Joins(c, a, b)
    BY <1>5, <1>6, <1>7, <1>8 DEF Joins
  <2> QED BY <1>8, <2>1, Joining
<1> QED BY <1>9 DEF a, b, c, u

LEMMA ShownCat ==
    ASSUME NEW s, IsSeq(s), NEW t, IsSeq(t)
    PROVE  Shown(Cat(s, t)) = Cat(Shown(s), Shown(t)) /\ IsSeq(Shown(s))
<1> DEFINE a == Sel("media", s)
           b == Sel("media", t)
<1>1. IsSeq(a) /\ IsSeq(b) /\ Sel("media", Cat(s, t)) = Cat(a, b)
  BY SelIsSeq, SelCat
<1> HIDE DEF a, b
<1>2. Values(Cat(a, b)) = Cat(Values(a), Values(b)) /\ IsSeq(Values(a))
  BY <1>1, ValuesCat, ValuesAre
<1> QED BY <1>1, <1>2, SelIs DEF Shown, a, b

LEMMA NoValues == Values(<<>>) = <<>>
BY DEF Values

\* What is kept is what has the same words, thoughts and media
LEMMA KeptIs ==
    ASSUME NEW x, NEW y
    PROVE  Kept(x, y) <=> /\ Sel("word", x) = Sel("word", y)
                          /\ Sel("thought", x) = Sel("thought", y)
                          /\ Shown(x) = Shown(y)
BY SelIs DEF Kept, Shown

LEMMA KeptSame == ASSUME NEW x PROVE Kept(x, x)
BY DEF Kept

LEMMA KeptThrough ==
    ASSUME NEW x, NEW y, NEW z, Kept(x, y), Kept(y, z)
    PROVE  Kept(x, z) /\ Kept(y, x)
BY DEF Kept

LEMMA KeptCat ==
    ASSUME NEW x, IsSeq(x), NEW y, IsSeq(y), NEW v, IsSeq(v), NEW w, IsSeq(w),
           Kept(x, v), Kept(y, w)
    PROVE  Kept(Cat(x, y), Cat(v, w))
BY SelCat, ShownCat, KeptIs
-----------------------------------------------------------------------------
(* The pieces of what was said *)

\* Pieces of these blocks: texts as told by r with this id
HeardAs(p, r, id, bs) ==
    /\ IsSeq(p) /\ IsSeq(bs) /\ Texted(bs)
    /\ Sel("word", p) = Pieces(r, id, TextOf(bs))
    /\ Sel("thought", p) = Pieces("thinking", NoId, Joined(OfType(bs, "thinking")))
    /\ Shown(p) = Joined(OfType(bs, "media"))

LEMMA HeardAsCat ==
    ASSUME NEW r, NEW id, NEW p, NEW s, HeardAs(p, r, id, s), NEW q, NEW t, HeardAs(q, r, id, t)
    PROVE  HeardAs(Cat(p, q), r, id, Cat(s, t))
<1>1. IsSeq(p) /\ IsSeq(q) /\ IsSeq(s) /\ IsSeq(t) /\ Texted(s) /\ Texted(t)
  BY DEF HeardAs
<1>2. IsSeq(Cat(p, q)) /\ IsSeq(Cat(s, t)) /\ Texted(Cat(s, t))
  BY <1>1, CatIsSeq, TextedCat
<1>3. \A type \in {"media", "thinking"} :
         Joined(OfType(Cat(s, t), type)) = Cat(Joined(OfType(s, type)), Joined(OfType(t, type)))
         /\ IsSeq(Joined(OfType(s, type))) /\ IsSeq(Joined(OfType(t, type)))
  BY <1>1, OfTypeCat, PickIsTexted, JoinedCat
<1>4. TextOf(Cat(s, t)) = Cat(TextOf(s), TextOf(t)) /\ IsSeq(TextOf(s)) /\ IsSeq(TextOf(t))
  BY <1>1, TextOfCat
<1>5. Sel("word", Cat(p, q)) = Pieces(r, id, TextOf(Cat(s, t)))
  BY <1>1, <1>4, SelCat, PiecesCat DEF HeardAs
<1>6. Sel("thought", Cat(p, q)) = Pieces("thinking", NoId, Joined(OfType(Cat(s, t), "thinking")))
  BY <1>1, <1>3, SelCat, PiecesCat DEF HeardAs
<1>7. Shown(Cat(p, q)) = Joined(OfType(Cat(s, t), "media"))
  BY <1>1, <1>3, ShownCat DEF HeardAs
<1> QED BY <1>2, <1>5, <1>6, <1>7 DEF HeardAs

LEMMA NothingHeard == ASSUME NEW r, NEW id PROVE HeardAs(<<>>, r, id, <<>>)
<1>1. TextOf(<<>>) = <<>> /\ Joined(OfType(<<>>, "thinking")) = <<>> /\ Joined(OfType(<<>>, "media")) = <<>>
  BY TextOfNone, EmptyOfType, EmptyJoined
<1>2. Shown(<<>>) = <<>>
  BY SelIs, SelNothing, NoValues DEF Shown
<1> QED BY <1>1, <1>2, SelNothing, EmptyPieces, EmptyIsSeq, EmptyGood DEF HeardAs

LEMMA ShownNone ==
    ASSUME NEW p, Sel("media", p) = <<>>
    PROVE  Shown(p) = <<>>
BY SelIs, NoValues DEF Shown

LEMMA TextHeard ==
    ASSUME NEW r, r # "thinking", NEW id, NEW t, AllIn(t, Uttered)
    PROVE  LET p == Pieces(r, id, t)
           IN  IsSeq(p) /\ Sel("word", p) = p /\ Sel("thought", p) = <<>> /\ Shown(p) = <<>>
<1> DEFINE p == Pieces(r, id, t)
<1>1. IsSeq(t)
  BY DEF AllIn
<1>2. IsSeq(p) /\ Len(p) = Len(t) /\ \A k \in 1 .. Len(t) : p[k] = Piece(r, id, t[k])
  BY <1>1, PiecesAre
<1> HIDE DEF p
<1>3. ASSUME NEW k \in 1 .. Len(p)
      PROVE  Is("word", p[k]) /\ ~Is("thought", p[k]) /\ ~Is("media", p[k])
  <2> DEFINE q == p[k]
             x == t[k]
  <2>1. q = Piece(r, id, x) /\ x.kind \in Uttered
    BY <1>2 DEF AllIn
  <2> HIDE DEF q, x
  <2>2. q.kind = r /\ q.val = x
    BY <2>1 DEF Piece
  <2>3. x.kind \notin {"media", "label", "placeholder", "raw"}
    BY <2>1 DEF Uttered
  <2>4. x # Placeholder /\ x # Raw
    BY <2>3 DEF Placeholder, Raw, Phrase
  <2>5. ~IsThought(q) /\ ~IsMedia(q) /\ IsWord(q)
    BY <2>2, <2>3, <2>4 DEF IsThought, IsMedia, IsWord
  <2> QED BY <2>5 DEF Is, q
<1>4. \A k \in 1 .. Len(p) : Is("word", p[k])
  BY <1>3
<1>5. \A k \in 1 .. Len(p) : ~Is("thought", p[k])
  BY <1>3
<1>6. \A k \in 1 .. Len(p) : ~Is("media", p[k])
  BY <1>3
<1>7. Sel("word", p) = p
  BY <1>2, <1>4, SelAll
<1>8. Sel("thought", p) = <<>>
  BY <1>2, <1>5, SelNone
<1>9. Sel("media", p) = <<>>
  BY <1>2, <1>6, SelNone
<1> QED BY <1>2, <1>7, <1>8, <1>9, ShownNone DEF p

LEMMA ThoughtHeard ==
    ASSUME NEW id, NEW t, AllIn(t, {"thinking"})
    PROVE  LET p == Pieces("thinking", id, t)
           IN  IsSeq(p) /\ Sel("word", p) = <<>> /\ Sel("thought", p) = p /\ Shown(p) = <<>>
<1> DEFINE p == Pieces("thinking", id, t)
<1>1. IsSeq(t)
  BY DEF AllIn
<1>2. IsSeq(p) /\ Len(p) = Len(t) /\ \A k \in 1 .. Len(t) : p[k] = Piece("thinking", id, t[k])
  BY <1>1, PiecesAre
<1> HIDE DEF p
<1>3. ASSUME NEW k \in 1 .. Len(p)
      PROVE  ~Is("word", p[k]) /\ Is("thought", p[k]) /\ ~Is("media", p[k])
  <2> DEFINE q == p[k]
             x == t[k]
  <2>1. q = Piece("thinking", id, x) /\ x.kind = "thinking"
    BY <1>2 DEF AllIn
  <2> HIDE DEF q, x
  <2>2. q.kind = "thinking" /\ q.val = x
    BY <2>1 DEF Piece
  <2>3. IsThought(q) /\ ~IsMedia(q) /\ ~IsWord(q)
    BY <2>1, <2>2 DEF IsThought, IsMedia, IsWord
  <2> QED BY <2>3 DEF Is, q
<1>4. \A k \in 1 .. Len(p) : ~Is("word", p[k])
  BY <1>3
<1>5. \A k \in 1 .. Len(p) : Is("thought", p[k])
  BY <1>3
<1>6. \A k \in 1 .. Len(p) : ~Is("media", p[k])
  BY <1>3
<1>7. Sel("word", p) = <<>>
  BY <1>2, <1>4, SelNone
<1>8. Sel("thought", p) = p
  BY <1>2, <1>5, SelAll
<1>9. Sel("media", p) = <<>>
  BY <1>2, <1>6, SelNone
<1> QED BY <1>2, <1>7, <1>8, <1>9, ShownNone DEF p

LEMMA MediaHeard ==
    ASSUME NEW r, r # "thinking", NEW id, NEW t, AllIn(t, {"media"})
    PROVE  LET p == Pieces(r, id, t)
           IN  IsSeq(p) /\ Sel("word", p) = <<>> /\ Sel("thought", p) = <<>> /\ Shown(p) = t
<1> DEFINE p == Pieces(r, id, t)
<1>1. IsSeq(t)
  BY DEF AllIn
<1>2. IsSeq(p) /\ Len(p) = Len(t) /\ \A k \in 1 .. Len(t) : p[k] = Piece(r, id, t[k])
  BY <1>1, PiecesAre
<1> HIDE DEF p
<1>3. ASSUME NEW k \in 1 .. Len(p)
      PROVE  ~Is("word", p[k]) /\ ~Is("thought", p[k]) /\ Is("media", p[k]) /\ p[k].val = t[k]
  <2> DEFINE q == p[k]
             x == t[k]
  <2>1. q = Piece(r, id, x) /\ x.kind = "media"
    BY <1>2 DEF AllIn
  <2> HIDE DEF q, x
  <2>2. q.kind = r /\ q.val = x
    BY <2>1 DEF Piece
  <2>3. ~IsThought(q) /\ IsMedia(q) /\ ~IsWord(q)
    BY <2>1, <2>2 DEF IsThought, IsMedia, IsWord
  <2> QED BY <2>2, <2>3 DEF Is, q, x
<1>4. \A k \in 1 .. Len(p) : ~Is("word", p[k])
  BY <1>3
<1>5. \A k \in 1 .. Len(p) : ~Is("thought", p[k])
  BY <1>3
<1>6. \A k \in 1 .. Len(p) : Is("media", p[k])
  BY <1>3
<1>7. Sel("word", p) = <<>>
  BY <1>2, <1>4, SelNone
<1>8. Sel("thought", p) = <<>>
  BY <1>2, <1>5, SelNone
<1>9. Sel("media", p) = p
  BY <1>2, <1>6, SelAll
<1>10. Values(p) = t
  <2>1. IsSeq(Values(p)) /\ Len(Values(p)) = Len(t) /\ \A k \in 1 .. Len(t) : Values(p)[k] = t[k]
    BY <1>2, <1>3, ValuesAre
  <2> QED BY <1>1, <2>1, SameSeq
<1> QED BY <1>2, <1>7, <1>8, <1>9, <1>10, SelIs DEF p, Shown

LEMMA BlockHeard ==
    ASSUME NEW r, r # "thinking", NEW id, NEW b, VoicedBlock(b)
    PROVE  /\ b.type # "thinking" => HeardAs(Pieces(r, id, b.text), r, id, <<b>>)
           /\ b.type = "thinking" => HeardAs(Pieces("thinking", NoId, b.text), r, id, <<b>>)
<1> DEFINE t == b.text
           s == <<b>>
<1>1. IsSeq(s) /\ Texted(s) /\ IsSeq(t)
  BY OneVoiced, VoicedIsGood, One DEF VoicedBlock
<1>2. TextOf(s) = IF b.type = "text" THEN t ELSE <<>>
  BY <1>1, TextOfOne
<1>3. Joined(OfType(s, "thinking")) = IF b.type = "thinking" THEN t ELSE <<>>
  BY <1>1, OneOfType, OneJoined, EmptyJoined
<1>4. Joined(OfType(s, "media")) = IF b.type = "media" THEN t ELSE <<>>
  BY <1>1, OneOfType, OneJoined, EmptyJoined
<1> HIDE DEF s
<1>5. CASE b.type = "text"
  <2>1. AllIn(t, Uttered)
    BY <1>5 DEF VoicedBlock, KindsOf, AllIn
  <2> QED BY <1>1, <1>2, <1>3, <1>4, <1>5, <2>1, TextHeard, EmptyPieces DEF HeardAs, s
<1>6. CASE b.type = "media"
  <2>1. AllIn(t, {"media"})
    BY <1>6 DEF VoicedBlock, KindsOf, AllIn
  <2> QED BY <1>1, <1>2, <1>3, <1>4, <1>6, <2>1, MediaHeard, EmptyPieces DEF HeardAs, s
<1>7. CASE b.type = "thinking"
  <2>1. AllIn(t, {"thinking"})
    BY <1>7 DEF VoicedBlock, KindsOf, AllIn
  <2> QED BY <1>1, <1>2, <1>3, <1>4, <1>7, <2>1, ThoughtHeard, EmptyPieces DEF HeardAs, s
<1> QED BY <1>5, <1>6, <1>7 DEF VoicedBlock

LEMMA VoicedHeard ==
    ASSUME NEW ends, NEW r, r # "thinking", NEW said0, IsVoiced(said0)
    PROVE  HeardAs(Read(ends, r, said0), r, NoId, said0)
<1> DEFINE Ok(bs) == HeardAs(Read(ends, r, bs), r, NoId, bs)
           S == {n \in Nat : \A bs : IsVoiced(bs) /\ Len(bs) = n => Ok(bs)}
<1>1. 0 \in S
  <2>1. ASSUME NEW bs, IsVoiced(bs), Len(bs) = 0 PROVE Ok(bs)
    <3>1. bs = <<>>
      BY <2>1, EmptySeqLength DEF IsVoiced
    <3> QED BY <3>1, EmptyRead, NothingHeard
  <2> QED BY <2>1
<1>2. ASSUME NEW n \in S PROVE n + 1 \in S
  <2>1. n \in Nat /\ \A bs : IsVoiced(bs) /\ Len(bs) = n => Ok(bs)
    OBVIOUS
  <2> HIDE DEF S
  <2>2. ASSUME NEW w, IsVoiced(w), Len(w) = n + 1 PROVE Ok(w)
    <3>1. IsSeq(w)
      BY <2>2 DEF IsVoiced
    <3>2. PICK f : IsSeq(f) /\ Len(f) = n /\ w = Append(f, w[n + 1])
      BY <2>1, <2>2, <3>1, Shortened
    <3> DEFINE x == w[n + 1]
    <3>3. w = Append(f, x)
      BY <3>2
    <3> HIDE DEF x
    <3>4. IsVoiced(f) /\ VoicedBlock(x) /\ IsVoiced(<<x>>) /\ w = Cat(f, <<x>>)
      BY <2>2, <3>2, <3>3, VoicedLess
    <3>5. Ok(f)
      BY <2>1, <3>2, <3>4
    <3>6. Good(f) /\ Good(<<x>>) /\ GoodBlock(x)
      BY <3>4, VoicedIsGood, EmptyGood DEF VoicedBlock, GoodBlock, Types
    <3>7. Read(ends, r, <<x>>) = BlockPieces(ends, r, x)
      BY <3>6, OneRead
    <3>8. Ok(<<x>>)
      <4>1. CASE x.type = "thinking"
        BY <3>4, <3>6, <3>7, <4>1, OfBlock, BlockHeard
      <4>2. CASE x.type # "thinking"
        <5>1. x.type \in {"text", "media"}
          BY <3>4, <4>2 DEF VoicedBlock
        <5>2. BlockPieces(ends, r, x) = Pieces(r, NoId, x.text)
          BY <3>6, <5>1, OfBlock
        <5>3. HeardAs(Pieces(r, NoId, x.text), r, NoId, <<x>>)
          BY <3>4, <4>2, BlockHeard
        <5> QED BY <3>7, <5>2, <5>3
      <4> QED BY <4>1, <4>2
    <3> DEFINE y == <<x>>
    <3>9. Ok(y) /\ Good(y) /\ w = Cat(f, y)
      BY <3>4, <3>6, <3>8
    <3> HIDE DEF y
    <3>10. Read(ends, r, w) = Cat(Read(ends, r, f), Read(ends, r, y))
      BY <3>6, <3>9, ReadCat
    <3> QED BY <3>5, <3>9, <3>10, HeardAsCat
  <2> QED BY <2>1, <2>2 DEF S
<1> HIDE DEF S
<1>3. S = Nat
  <2>1. S \in SUBSET Nat
    BY DEF S
  <2> QED BY <1>1, <1>2, <2>1, SetInduction
<1>4. Len(said0) \in Nat
  BY SeqLength DEF IsVoiced
<1> QED BY <1>3, <1>4 DEF S

LEMMA PlainHeard ==
    ASSUME NEW r, r # "thinking", NEW id, NEW said0, IsPlain(said0)
    PROVE  HeardAs(Pieces(r, id, Joined(said0)), r, id, said0)
<1> DEFINE Ok(bs) == HeardAs(Pieces(r, id, Joined(bs)), r, id, bs)
           S == {n \in Nat : \A bs : IsPlain(bs) /\ Len(bs) = n => Ok(bs)}
<1>1. 0 \in S
  <2>1. ASSUME NEW bs, IsPlain(bs), Len(bs) = 0 PROVE Ok(bs)
    <3>1. bs = <<>>
      BY <2>1, EmptySeqLength DEF IsPlain, IsVoiced
    <3> QED BY <3>1, EmptyJoined, EmptyPieces, NothingHeard
  <2> QED BY <2>1
<1>2. ASSUME NEW n \in S PROVE n + 1 \in S
  <2>1. n \in Nat /\ \A bs : IsPlain(bs) /\ Len(bs) = n => Ok(bs)
    OBVIOUS
  <2> HIDE DEF S
  <2>2. ASSUME NEW w, IsPlain(w), Len(w) = n + 1 PROVE Ok(w)
    <3>1. IsSeq(w) /\ IsVoiced(w)
      BY <2>2 DEF IsVoiced, IsPlain
    <3>2. PICK f : IsSeq(f) /\ Len(f) = n /\ w = Append(f, w[n + 1])
      BY <2>1, <2>2, <3>1, Shortened
    <3> DEFINE x == w[n + 1]
    <3>3. w = Append(f, x)
      BY <3>2
    <3> HIDE DEF x
    <3>4. IsPlain(f) /\ VoicedBlock(x) /\ IsVoiced(<<x>>) /\ w = Cat(f, <<x>>) /\ x.type # "thinking"
      BY <2>2, <3>1, <3>2, <3>3, VoicedLess
    <3>5. Ok(f)
      BY <2>1, <3>2, <3>4
    <3> DEFINE y == <<x>>
    <3>6. Texted(f) /\ Texted(y) /\ IsSeq(x.text)
      BY <3>4, PlainIsGood, VoicedIsGood DEF VoicedBlock
    <3>7. Joined(y) = x.text
      BY <3>6, OneJoined
    <3>8. Ok(y)
      BY <3>4, <3>7, BlockHeard
    <3>9. w = Cat(f, y)
      BY <3>4
    <3> HIDE DEF y
    <3>10. Joined(w) = Cat(Joined(f), Joined(y)) /\ IsSeq(Joined(f)) /\ IsSeq(Joined(y))
      BY <3>6, <3>9, JoinedCat
    <3>11. Pieces(r, id, Joined(w)) = Cat(Pieces(r, id, Joined(f)), Pieces(r, id, Joined(y)))
      BY <3>10, PiecesCat
    <3> QED BY <3>5, <3>8, <3>9, <3>11, HeardAsCat
  <2> QED BY <2>1, <2>2 DEF S
<1> HIDE DEF S
<1>3. S = Nat
  <2>1. S \in SUBSET Nat
    BY DEF S
  <2> QED BY <1>1, <1>2, <2>1, SetInduction
<1>4. Len(said0) \in Nat
  BY SeqLength DEF IsPlain, IsVoiced
<1> QED BY <1>3, <1>4 DEF S

\* What is said in other blocks with the same words, thoughts and media is kept
LEMMA AlikeKept ==
    ASSUME NEW r, NEW id, NEW p, NEW bs, HeardAs(p, r, id, bs), NEW q, NEW cs, HeardAs(q, r, id, cs),
           TextOf(bs) = TextOf(cs), Joined(OfType(bs, "media")) = Joined(OfType(cs, "media")),
           Joined(OfType(bs, "thinking")) = Joined(OfType(cs, "thinking"))
    PROVE  Kept(p, q)
BY KeptIs DEF HeardAs

-----------------------------------------------------------------------------
(* The builder of Anthropic: the blocks of a message, converted *)

AntConvert(text, b) ==
    CASE b.type = "text"     -> IF text = <<>> THEN <<b>> ELSE <<>>
      [] b.type = "tool_use" -> <<ToolUse(b.id, AsObject(b.args))>>
      [] OTHER               -> <<b>>
AntConverts(text, bs) == [k \in DOMAIN bs |-> AntConvert(text, bs[k])]
AntConverted(text, bs) == FlattenSeq(AntConverts(text, bs))

LEMMA MessageToAnthropicIs ==
    ASSUME NEW m
    PROVE  /\ MessageToAnthropic(m).role = m.role
           /\ MessageToAnthropic(m).content
              = IF m.role = "tool" THEN <<ToolResult(m.id, MessageOutput(m))>>
                ELSE NonEmpty(m.text) \o AntConverted(m.text, m.content)
<1>1. MessageToAnthropic(m)
      = [role |-> m.role,
         content |-> IF m.role = "tool" THEN <<ToolResult(m.id, MessageOutput(m))>>
                     ELSE NonEmpty(m.text) \o AntConverted(m.text, m.content)]
  BY DEF MessageToAnthropic, AntConverted, AntConverts, AntConvert, MapFlat
<1> QED BY <1>1

LEMMA ConvertIsSeq == ASSUME NEW text, NEW b PROVE IsSeq(AntConvert(text, b))
<1>1. AntConvert(text, b) \in {<<b>>, <<>>, <<ToolUse(b.id, AsObject(b.args))>>}
  BY DEF AntConvert
<1> QED BY <1>1, One, EmptyIsSeq

LEMMA ConvertedMore ==
    ASSUME NEW text, NEW s, IsSeq(s), NEW x
    PROVE  AntConverted(text, Append(s, x)) = Cat(AntConverted(text, s), AntConvert(text, x))
<1> DEFINE f == AntConverts(text, s)
           t == Append(s, x)
           g == AntConverts(text, t)
           n == Len(s)
<1>1. /\ n \in Nat /\ DOMAIN s = 1 .. n /\ DOMAIN t = 1 .. n + 1 /\ t[n + 1] = x
      /\ \A k \in 1 .. n : t[k] = s[k]
  BY Appended
<1>2. IsMap(f, s) /\ IsMap(g, t)
  BY DEF IsMap, AntConverts
<1>3. \A k \in DOMAIN s : g[k] = f[k]
  BY <1>1 DEF AntConverts
<1>4. g[n + 1] = AntConvert(text, x)
  <2>1. n + 1 \in DOMAIN t
    BY <1>1
  <2> HIDE DEF t
  <2> QED BY <1>1, <2>1 DEF AntConverts
<1>5. IsSeq(g[n + 1])
  BY <1>4, ConvertIsSeq
<1> HIDE DEF f, g, n
<1>6. FlattenSeq(g) = Cat(FlattenSeq(f), g[n + 1])
  BY <1>2, <1>3, <1>5, FlatMore DEF n, t
<1> QED BY <1>4, <1>6 DEF AntConverted, f, g, t

LEMMA NothingConverted == ASSUME NEW text PROVE AntConverted(text, <<>>) = <<>>
BY FlatEmpty DEF AntConverted, AntConverts

LEMMA ConvertedIsSeq == ASSUME NEW text, NEW s, IsSeq(s) PROVE IsSeq(AntConverted(text, s))
<1> DEFINE f == AntConverts(text, s)
<1>1. Lists(f, s)
  BY ConvertIsSeq DEF Lists, IsMap, AntConverts
<1> HIDE DEF f
<1> QED BY <1>1, FlatLists DEF AntConverted, f

LEMMA ConvertedCat ==
    ASSUME NEW text, NEW s, IsSeq(s), NEW t, IsSeq(t)
    PROVE  AntConverted(text, Cat(s, t)) = Cat(AntConverted(text, s), AntConverted(text, t))
<1> DEFINE u == Cat(s, t)
           f == AntConverts(text, s)
           g == AntConverts(text, t)
           x == AntConverts(text, u)
<1>1. /\ IsSeq(u) /\ Len(u) = Len(s) + Len(t)
      /\ \A j \in 1 .. Len(s) : u[j] = s[j]
      /\ \A j \in 1 .. Len(t) : u[Len(s) + j] = t[j]
  BY Concat DEF Cat
<1>2. /\ Len(s) \in Nat /\ Len(t) \in Nat /\ DOMAIN s = 1 .. Len(s) /\ DOMAIN t = 1 .. Len(t)
      /\ DOMAIN u = 1 .. Len(u)
  BY <1>1, SeqLength
<1>3. Lists(f, s) /\ Lists(g, t) /\ IsMap(x, u)
  BY ConvertIsSeq DEF Lists, IsMap, AntConverts
<1> HIDE DEF u
<1>4. \A k \in 1 .. Len(s) : x[k] = f[k]
  <2>1. ASSUME NEW k \in 1 .. Len(s) PROVE x[k] = f[k]
    <3>1. k \in DOMAIN u /\ k \in DOMAIN s
      BY <1>1, <1>2
    <3> QED BY <1>1, <3>1 DEF AntConverts
  <2> QED BY <2>1
<1>5. \A k \in 1 .. Len(t) : x[Len(s) + k] = g[k]
  <2>1. ASSUME NEW k \in 1 .. Len(t) PROVE x[Len(s) + k] = g[k]
    <3>1. Len(s) + k \in DOMAIN u /\ k \in DOMAIN t
      BY <1>1, <1>2
    <3> QED BY <1>1, <3>1 DEF AntConverts
  <2> QED BY <2>1
<1> HIDE DEF f, g, x
<1>6. IsMap(x, Cat(s, t))
  BY <1>3 DEF u
<1> QED BY <1>3, <1>4, <1>5, <1>6, FlatJoin DEF AntConverted, f, g, x, u

\* The texts of what was said go with the text of the message
LEMMA VoicedConverted ==
    ASSUME NEW text, NEW said0, IsVoiced(said0)
    PROVE  AntConverted(text, said0) = IF text = <<>> THEN said0 ELSE Without(said0, "text")
<1> DEFINE Ok(bs) == AntConverted(text, bs) = IF text = <<>> THEN bs ELSE Without(bs, "text")
           S == {n \in Nat : \A bs : IsVoiced(bs) /\ Len(bs) = n => Ok(bs)}
<1>1. 0 \in S
  <2>1. ASSUME NEW bs, IsVoiced(bs), Len(bs) = 0 PROVE Ok(bs)
    <3>1. bs = <<>>
      BY <2>1, EmptySeqLength DEF IsVoiced
    <3> QED BY <3>1, NothingConverted, EmptyOfType
  <2> QED BY <2>1
<1>2. ASSUME NEW n \in S PROVE n + 1 \in S
  <2>1. n \in Nat /\ \A bs : IsVoiced(bs) /\ Len(bs) = n => Ok(bs)
    OBVIOUS
  <2> HIDE DEF S
  <2>2. ASSUME NEW w, IsVoiced(w), Len(w) = n + 1 PROVE Ok(w)
    <3>1. IsSeq(w)
      BY <2>2 DEF IsVoiced
    <3>2. PICK f : IsSeq(f) /\ Len(f) = n /\ w = Append(f, w[n + 1])
      BY <2>1, <2>2, <3>1, Shortened
    <3> DEFINE x == w[n + 1]
    <3>3. w = Append(f, x)
      BY <3>2
    <3> HIDE DEF x
    <3>4. IsVoiced(f) /\ VoicedBlock(x) /\ w = Cat(f, <<x>>)
      BY <2>2, <3>2, <3>3, VoicedLess
    <3>5. Ok(f)
      BY <2>1, <3>2, <3>4
    <3>6. AntConvert(text, x) = IF text = <<>> THEN <<x>> ELSE Without(<<x>>, "text")
      <4>1. x.type # "tool_use"
        BY <3>4 DEF VoicedBlock
      <4>2. AntConvert(text, x) = IF x.type = "text" THEN (IF text = <<>> THEN <<x>> ELSE <<>>) ELSE <<x>>
        BY <4>1 DEF AntConvert
      <4>3. Without(<<x>>, "text") = IF x.type = "text" THEN <<>> ELSE <<x>>
        BY OneOfType
      <4> QED BY <4>2, <4>3
    <3>7. AntConverted(text, w) = Cat(AntConverted(text, f), AntConvert(text, x))
      BY <3>2, <3>3, ConvertedMore
    <3> DEFINE y == <<x>>
    <3>8. IsSeq(y) /\ w = Cat(f, y)
      BY <3>4, One
    <3>9. AntConvert(text, x) = IF text = <<>> THEN y ELSE Without(y, "text")
      BY <3>6
    <3> HIDE DEF y
    <3>10. Without(w, "text") = Cat(Without(f, "text"), Without(y, "text"))
      BY <3>2, <3>8, WithoutCat
    <3> QED BY <3>5, <3>7, <3>8, <3>9, <3>10
  <2> QED BY <2>1, <2>2 DEF S
<1> HIDE DEF S
<1>3. S = Nat
  <2>1. S \in SUBSET Nat
    BY DEF S
  <2> QED BY <1>1, <1>2, <2>1, SetInduction
<1>4. Len(said0) \in Nat
  BY SeqLength DEF IsVoiced
<1> QED BY <1>3, <1>4 DEF S

\* Calls are read alike, with an object for arguments
LEMMA UsesConverted ==
    ASSUME NEW text, NEW ends, "anthropic" \in ends, NEW r, NEW uses, IsUses(uses)
    PROVE  LET c == AntConverted(text, uses)
           IN  Good(c) /\ Read(ends, r, c) = Read(ends, r, uses)
<1> DEFINE Ok(bs) == Good(AntConverted(text, bs)) /\ Read(ends, r, AntConverted(text, bs)) = Read(ends, r, bs)
           S == {n \in Nat : \A bs : IsUses(bs) /\ Len(bs) = n => Ok(bs)}
<1>1. 0 \in S
  <2>1. ASSUME NEW bs, IsUses(bs), Len(bs) = 0 PROVE Ok(bs)
    <3>1. bs = <<>>
      BY <2>1, EmptySeqLength DEF IsUses
    <3> QED BY <3>1, NothingConverted, EmptyGood
  <2> QED BY <2>1
<1>2. ASSUME NEW n \in S PROVE n + 1 \in S
  <2>1. n \in Nat /\ \A bs : IsUses(bs) /\ Len(bs) = n => Ok(bs)
    OBVIOUS
  <2> HIDE DEF S
  <2>2. ASSUME NEW w, IsUses(w), Len(w) = n + 1 PROVE Ok(w)
    <3>1. IsSeq(w)
      BY <2>2 DEF IsUses
    <3>2. PICK f : IsSeq(f) /\ Len(f) = n /\ w = Append(f, w[n + 1])
      BY <2>1, <2>2, <3>1, Shortened
    <3> DEFINE x == w[n + 1]
               i == x.id
               a == x.args
    <3>3. w = Append(f, x) /\ x = ToolUse(i, a)
      BY <2>1, <2>2, <3>2 DEF IsUses
    <3>4. IsUses(f)
      <4>1. \A k \in 1 .. n : f[k] = w[k]
        <5> HIDE DEF x
        <5> QED BY <3>2, <3>3, Appended
      <4> QED BY <2>1, <2>2, <3>2, <4>1 DEF IsUses
    <3>5. Ok(f)
      BY <2>1, <3>2, <3>4
    <3> HIDE DEF x, i, a
    <3> DEFINE y == <<x>>
               z == <<ToolUse(i, AsObject(a))>>
    <3>6. x.type = "tool_use" /\ x.id = i /\ x.args = a
      BY <3>3 DEF ToolUse, Block
    <3>7. AntConvert(text, x) = z
      BY <3>6 DEF AntConvert
    <3>8. Good(y) /\ Good(z) /\ Good(f) /\ IsSeq(y)
      BY <3>3, <3>4, UseIsGood, OneGood, UsesAreGood, One
    <3>9. Read(ends, r, y) = Read(ends, r, z)
      <4>1. Read(ends, r, y) = <<Piece("call", i, Phrase(Args(ends, a), 0))>>
        <5>1. GoodBlock(x)
          BY <3>3, UseIsGood
        <5>2. Read(ends, r, <<x>>) = BlockPieces(ends, r, x)
          BY <5>1, OneRead
        <5>3. BlockPieces(ends, r, x) = <<Piece("call", i, Phrase(Args(ends, a), 0))>>
          BY <3>6, <5>1, OfBlock
        <5> QED BY <5>2, <5>3
      <4> DEFINE b == ToolUse(i, AsObject(a))
      <4>2. b.type = "tool_use" /\ b.id = i /\ b.args = AsObject(a)
        BY DEF ToolUse, Block
      <4>3. GoodBlock(b)
        BY UseIsGood
      <4> HIDE DEF b
      <4>4. Read(ends, r, <<b>>) = <<Piece("call", i, Phrase(Args(ends, AsObject(a)), 0))>>
        <5>1. Read(ends, r, <<b>>) = BlockPieces(ends, r, b)
          BY <4>3, OneRead
        <5>2. BlockPieces(ends, r, b) = <<Piece("call", i, Phrase(Args(ends, AsObject(a)), 0))>>
          BY <4>2, <4>3, OfBlock
        <5> QED BY <5>1, <5>2
      <4>5. Args(ends, AsObject(a)) = Args(ends, a)
        BY DEF Args, AsObject
      <4> QED BY <4>1, <4>4, <4>5 DEF b
    <3>10. AntConverted(text, w) = Cat(AntConverted(text, f), z)
      BY <3>2, <3>3, <3>7, ConvertedMore
    <3>11. w = Cat(f, y)
      BY <3>2, <3>3, CatOne
    <3> HIDE DEF y, z
    <3>12. Read(ends, r, AntConverted(text, w)) = Cat(Read(ends, r, AntConverted(text, f)), Read(ends, r, z))
      BY <3>5, <3>8, <3>10, ReadCat
    <3>13. Read(ends, r, w) = Cat(Read(ends, r, f), Read(ends, r, y))
      BY <3>8, <3>11, ReadCat
    <3>14. Good(AntConverted(text, w))
      BY <3>5, <3>8, <3>10, GoodCat
    <3> QED BY <3>5, <3>9, <3>12, <3>13, <3>14
  <2> QED BY <2>1, <2>2 DEF S
<1> HIDE DEF S
<1>3. S = Nat
  <2>1. S \in SUBSET Nat
    BY DEF S
  <2> QED BY <1>1, <1>2, <2>1, SetInduction
<1>4. Len(uses) \in Nat
  BY SeqLength DEF IsUses
<1> QED BY <1>3, <1>4 DEF S

LEMMA PickIsVoiced ==
    ASSUME NEW bs, IsVoiced(bs), NEW type
    PROVE  IsVoiced(Without(bs, type)) /\ IsVoiced(OfType(bs, type))
           /\ (IsPlain(bs) => IsPlain(Without(bs, type)) /\ IsPlain(OfType(bs, type)))
<1>1. ASSUME NEW P
      PROVE  IsVoiced(At(bs, P)) /\ (IsPlain(bs) => IsPlain(At(bs, P)))
  <2>1. IsSeq(bs) /\ IsSeq(At(bs, P))
    BY AtIsSeq DEF IsVoiced
  <2>2. \A k \in 1 .. Len(At(bs, P)) : \E j \in 1 .. Len(bs) : At(bs, P)[k] = bs[j]
    BY <2>1, AtElements
  <2> QED BY <2>1, <2>2 DEF IsVoiced, IsPlain
<1> QED BY <1>1 DEF OfType, Without

\* What is left has the same of any other type
LEMMA RestHas ==
    ASSUME NEW type, NEW kind, kind # type, NEW all, IsSeq(all)
    PROVE  OfType(Without(all, type), kind) = OfType(all, kind)
           /\ OfType(Without(all, type), type) = <<>>
<1> DEFINE Ok(bs) == OfType(Without(bs, type), kind) = OfType(bs, kind)
                     /\ OfType(Without(bs, type), type) = <<>>
           S == {n \in Nat : \A bs : IsSeq(bs) /\ Len(bs) = n => Ok(bs)}
<1>1. 0 \in S
  <2>1. ASSUME NEW bs, IsSeq(bs), Len(bs) = 0 PROVE Ok(bs)
    <3>1. bs = <<>>
      BY <2>1, EmptySeqLength
    <3> QED BY <3>1, EmptyOfType
  <2> QED BY <2>1
<1>2. ASSUME NEW n \in S PROVE n + 1 \in S
  <2>1. n \in Nat /\ \A bs : IsSeq(bs) /\ Len(bs) = n => Ok(bs)
    OBVIOUS
  <2> HIDE DEF S
  <2>2. ASSUME NEW w, IsSeq(w), Len(w) = n + 1 PROVE Ok(w)
    <3>1. PICK f : IsSeq(f) /\ Len(f) = n /\ w = Append(f, w[n + 1])
      BY <2>1, <2>2, Shortened
    <3> DEFINE x == w[n + 1]
               y == <<x>>
               e == <<>>
    <3>2. w = Append(f, x)
      BY <3>1
    <3> HIDE DEF x
    <3>3. w = Cat(f, y) /\ IsSeq(y)
      BY <3>1, <3>2, CatOne, One
    <3>4. Ok(f)
      BY <2>1, <3>1
    <3>5. Without(y, type) = (IF x.type = type THEN e ELSE y)
          /\ OfType(y, kind) = (IF x.type = kind THEN y ELSE e)
          /\ OfType(y, type) = (IF x.type = type THEN y ELSE e)
      BY OneOfType
    <3>6. OfType(e, kind) = e /\ OfType(e, type) = e
      BY EmptyOfType
    <3> DEFINE r == Without(f, type)
               q == Without(y, type)
    <3>7. Without(w, type) = Cat(r, q) /\ IsSeq(r) /\ IsSeq(q)
      <4> HIDE DEF y
      <4> QED BY <3>1, <3>3, WithoutCat, PickIsSeq
    <3>8. OfType(w, kind) = Cat(OfType(f, kind), OfType(y, kind))
      <4> HIDE DEF y
      <4> QED BY <3>1, <3>3, OfTypeCat
    <3>9. OfType(q, kind) = OfType(y, kind) /\ OfType(q, type) = e
      BY <3>5, <3>6
    <3> HIDE DEF r, q, y
    <3>10. /\ OfType(Cat(r, q), kind) = Cat(OfType(r, kind), OfType(q, kind))
           /\ OfType(Cat(r, q), type) = Cat(OfType(r, type), OfType(q, type))
      BY <3>7, OfTypeCat
    <3>11. OfType(r, type) = e
      BY <3>4 DEF r
    <3>12. Cat(e, e) = e
      BY CatEmpties
    <3> QED BY <3>4, <3>7, <3>8, <3>9, <3>10, <3>11, <3>12 DEF r
  <2> QED BY <2>1, <2>2 DEF S
<1> HIDE DEF S
<1>3. S = Nat
  <2>1. S \in SUBSET Nat
    BY DEF S
  <2> QED BY <1>1, <1>2, <2>1, SetInduction
<1>4. Len(all) \in Nat
  BY SeqLength
<1> QED BY <1>3, <1>4 DEF S

\* The text first, then the rest
LEMMA TextFirst ==
    ASSUME NEW r, r # "thinking", NEW ends, NEW a, IsVoiced(a)
    PROVE  LET t == TextOf(a)
               b == Cat(NonEmpty(t), AntConverted(t, a))
           IN  IsVoiced(b) /\ Kept(Read(ends, r, b), Read(ends, r, a))
<1> DEFINE t == TextOf(a)
           o == NonEmpty(t)
           w == Without(a, "text")
           b == Cat(o, AntConverted(t, a))
<1>1. IsSeq(a) /\ IsVoiced(w) /\ Texted(a)
  BY VoicedIsGood, PickIsVoiced
<1>2. AllIn(t, Uttered)
  BY TextIsUttered
<1>3. AntConverted(t, a) = IF t = <<>> THEN a ELSE w
  BY VoicedConverted
<1> HIDE DEF t
<1>4. CASE t = <<>>
  <2>1. o = <<>>
    BY <1>4 DEF NonEmpty
  <2>2. b = a
    BY <1>1, <1>3, <1>4, <2>1, CatEmpty
  <2> QED BY <1>1, <2>2, KeptSame DEF t
<1>5. CASE t # <<>>
  <2> DEFINE x == Text(t)
  <2>1. o = <<x>>
    BY <1>5 DEF NonEmpty
  <2>2. x.type = "text" /\ x.text = t /\ x.content = <<>>
    BY DEF Text, Block
  <2> HIDE DEF x
  <2>3. VoicedBlock(x)
    BY <1>2, <1>5, <2>2 DEF VoicedBlock, KindsOf, AllIn
  <2>4. IsVoiced(o) /\ TextOf(o) = t /\ OfType(o, "thinking") = <<>> /\ OfType(o, "media") = <<>>
    BY <1>2, <2>1, <2>2, <2>3, OneVoiced, TextOfOne, OneOfType DEF AllIn
  <2>5. /\ OfType(w, "thinking") = OfType(a, "thinking") /\ OfType(w, "media") = OfType(a, "media")
        /\ OfType(w, "text") = <<>>
    <3>1. "thinking" # "text" /\ "media" # "text"
      OBVIOUS
    <3> QED BY <1>1, <3>1, RestHas
  <2>6. TextOf(w) = <<>>
    BY <2>5, EmptyJoined DEF TextOf
  <2>7. b = Cat(o, w)
    BY <1>3, <1>5
  <2> HIDE DEF o, w, b
  <2>8. IsVoiced(b) /\ IsSeq(o) /\ IsSeq(w) /\ Texted(o) /\ Texted(w)
    BY <1>1, <2>4, <2>7, VoicedCat, VoicedIsGood
  <2>9. TextOf(b) = t
    <3>1. TextOf(b) = Cat(t, <<>>)
      BY <2>4, <2>6, <2>7, <2>8, TextOfCat
    <3> QED BY <1>2, <3>1, CatEmpty DEF AllIn
  <2>10. OfType(b, "thinking") = OfType(a, "thinking") /\ OfType(b, "media") = OfType(a, "media")
    <3>1. IsSeq(OfType(a, "thinking")) /\ IsSeq(OfType(a, "media"))
      BY <1>1, PickIsSeq
    <3>2. OfType(b, "thinking") = Cat(<<>>, OfType(a, "thinking"))
      BY <2>4, <2>5, <2>7, <2>8, OfTypeCat
    <3>3. OfType(b, "media") = Cat(<<>>, OfType(a, "media"))
      BY <2>4, <2>5, <2>7, <2>8, OfTypeCat
    <3> QED BY <3>1, <3>2, <3>3, CatEmpty
  <2>11. HeardAs(Read(ends, r, a), r, NoId, a) /\ HeardAs(Read(ends, r, b), r, NoId, b)
    BY <2>8, VoicedHeard
  <2> QED BY <2>8, <2>9, <2>10, <2>11, AlikeKept DEF t, b, o
<1> QED BY <1>4, <1>5

\* A message for Anthropic is read like the one it is made of
LEMMA AntMessageKept ==
    ASSUME NEW c, c # "anthropic", NEW m, GoodMsg(c, m), NEW ends, "anthropic" \in ends
    PROVE  LET w == MessageToAnthropic(m)
           IN  /\ w.role = m.role /\ IsSeq(WireRead(ends, "anthropic", w))
               /\ Kept(WireRead(ends, "anthropic", w), MsgRead(ends, m))
<1> DEFINE w == MessageToAnthropic(m)
<1>1. w.role = m.role
  BY MessageToAnthropicIs
<1>2. WireRead(ends, "anthropic", w) = Read(ends, m.role, w.content)
  BY <1>1 DEF WireRead, Blocks
<1>3. Good(MsgBlocks(m)) /\ IsSeq(MsgRead(ends, m))
  BY MsgIsRead
<1>4. SUFFICES Good(w.content) /\ Kept(Read(ends, m.role, w.content), MsgRead(ends, m))
  BY <1>1, <1>2, <1>4, ReadIsSeq
<1>5. CASE ToolMsg(m)
  <2>1. w.content = MsgBlocks(m)
    BY <1>5, BlocksOfTool, MessageToAnthropicIs DEF ToolMsg
  <2> QED BY <1>3, <2>1, KeptSame DEF MsgRead
<1>6. ASSUME NEW a, IsVoiced(a), NEW u, IsUses(u), m.role \in {"user", "assistant"},
             m.text = TextOf(a), MsgBlocks(m) = Cat(a, u), Fits(m, Cat(a, u))
      PROVE  Good(w.content) /\ Kept(Read(ends, m.role, w.content), MsgRead(ends, m))
  <2> DEFINE t  == m.text
             o  == NonEmpty(t)
             r  == m.role
             va == AntConverted(t, a)
             vu == AntConverted(t, u)
             b  == Cat(o, va)
  <2>1. w.content = Cat(o, AntConverted(t, m.content))
    BY <1>6, MessageToAnthropicIs DEF Cat
  <2>2. IsSeq(a) /\ IsSeq(u) /\ Good(a) /\ Good(u)
    BY <1>6, VoicedIsGood, UsesAreGood DEF IsUses
  <2>3. CASE m.content = <<>> /\ Cat(a, u) = o
    <3>1. AntConverted(t, m.content) = <<>>
      BY <2>3, NothingConverted
    <3>2. Good(o) /\ IsSeq(o)
      BY <1>3, <1>6, <2>3 DEF Good
    <3> HIDE DEF o
    <3>3. w.content = MsgBlocks(m)
      BY <1>6, <2>1, <2>3, <3>1, <3>2, CatEmpty
    <3> QED BY <1>3, <3>3, KeptSame DEF MsgRead
  <2>4. CASE m.content = Cat(a, u)
    <3>1. IsVoiced(b) /\ Kept(Read(ends, r, b), Read(ends, r, a))
      <4>1. r # "thinking"
        BY <1>6
      <4> QED BY <1>6, <4>1, TextFirst
    <3>2. Good(vu) /\ Read(ends, r, vu) = Read(ends, r, u) /\ IsSeq(vu)
      BY <1>6, UsesConverted DEF Good
    <3>3. AntConverted(t, m.content) = Cat(va, vu)
      BY <2>2, <2>4, ConvertedCat
    <3>4. IsSeq(va) /\ IsSeq(o)
      BY <2>2, ConvertedIsSeq, One, EmptyIsSeq DEF NonEmpty
    <3> HIDE DEF o, va, vu, t, r
    <3>5. w.content = Cat(b, vu)
      BY <2>1, <3>2, <3>3, <3>4, CatAssoc
    <3> HIDE DEF b
    <3>6. Good(b)
      BY <3>1, VoicedIsGood
    <3>7. Good(w.content) /\ Read(ends, r, w.content) = Cat(Read(ends, r, b), Read(ends, r, vu))
      BY <3>2, <3>5, <3>6, ReadCat, GoodCat
    <3>8. MsgRead(ends, m) = Cat(Read(ends, r, a), Read(ends, r, u))
      BY <1>6, <2>2, ReadCat DEF MsgRead, r
    <3>9. IsSeq(Read(ends, r, a)) /\ IsSeq(Read(ends, r, b)) /\ IsSeq(Read(ends, r, u))
      BY <2>2, <3>6, ReadIsSeq
    <3>10. Kept(Read(ends, r, u), Read(ends, r, u))
      BY KeptSame
    <3>11. Kept(Cat(Read(ends, r, b), Read(ends, r, u)), Cat(Read(ends, r, a), Read(ends, r, u)))
      BY <3>1, <3>9, <3>10, KeptCat
    <3> QED BY <3>2, <3>7, <3>8, <3>11 DEF r
  <2> QED BY <1>6, <2>3, <2>4 DEF Fits
<1>7. CASE \E rs, own : UserMsg(m, rs, own) /\ (c # "anthropic" => rs = <<>>)
  <2>1. PICK own : UserMsg(m, <<>>, own)
    BY <1>7
  <2> DEFINE e == <<>>
  <2>2. IsPlain(own) /\ IsVoiced(own) /\ IsSeq(own) /\ IsUses(e) /\ m.role = "user" /\ m.text = TextOf(own)
    BY <2>1, PlainIsGood, EmptyUses DEF UserMsg, IsPlain
  <2>3. MsgBlocks(m) = Cat(<<>>, own) /\ Fits(m, Cat(<<>>, own))
    BY <2>1, BlocksOfUser DEF UserMsg
  <2>4. Cat(<<>>, own) = own /\ Cat(own, e) = own
    BY <2>2, CatEmpty
  <2> HIDE DEF e
  <2>5. MsgBlocks(m) = Cat(own, e) /\ Fits(m, Cat(own, e))
    BY <2>3, <2>4
  <2> QED BY <1>6, <2>2, <2>5
<1>8. CASE \E a, u : TalkMsg(m, a, u)
  <2>1. PICK a, u : TalkMsg(m, a, u)
    BY <1>8
  <2>2. IsVoiced(a) /\ IsUses(u) /\ m.role = "assistant" /\ m.text = TextOf(a) /\ Fits(m, Cat(a, u))
    BY <2>1 DEF TalkMsg
  <2>3. MsgBlocks(m) = Cat(a, u)
    BY <2>1, BlocksOfTalk
  <2> QED BY <1>6, <2>2, <2>3
<1> QED BY <1>5, <1>7, <1>8 DEF GoodMsg

-----------------------------------------------------------------------------
(* Lists of readings that are kept one by one *)

LEMMA KeptFlat ==
    ASSUME NEW s, IsSeq(s), NEW f, Lists(f, s), NEW t, IsSeq(t), Len(t) = Len(s), NEW g, Lists(g, t),
           \A k \in 1 .. Len(s) : Kept(f[k], g[k])
    PROVE  Kept(FlattenSeq(f), FlattenSeq(g))
<1> DEFINE Pair(x, y) == IsSeqs(x) /\ IsSeqs(y) /\ Len(x) = Len(y)
                         /\ \A k \in 1 .. Len(x) : Kept(x[k], y[k])
           S == {n \in Nat : \A x, y : Pair(x, y) /\ Len(x) = n => Kept(FlattenSeq(x), FlattenSeq(y))}
<1>1. 0 \in S
  <2>1. ASSUME NEW x, NEW y, Pair(x, y), Len(x) = 0 PROVE Kept(FlattenSeq(x), FlattenSeq(y))
    <3>1. x = <<>> /\ y = <<>>
      BY <2>1, EmptySeqLength DEF IsSeqs
    <3> QED BY <3>1, KeptSame
  <2> QED BY <2>1
<1>2. ASSUME NEW n \in S PROVE n + 1 \in S
  <2>1. n \in Nat /\ \A x, y : Pair(x, y) /\ Len(x) = n => Kept(FlattenSeq(x), FlattenSeq(y))
    OBVIOUS
  <2> HIDE DEF S
  <2>2. ASSUME NEW x, NEW y, Pair(x, y), Len(x) = n + 1 PROVE Kept(FlattenSeq(x), FlattenSeq(y))
    <3>1. IsSeq(x) /\ IsSeq(y)
      BY <2>2 DEF IsSeqs
    <3>2. PICK p : IsSeq(p) /\ Len(p) = n /\ x = Append(p, x[n + 1])
      BY <2>1, <2>2, <3>1, Shortened
    <3>3. PICK q : IsSeq(q) /\ Len(q) = n /\ y = Append(q, y[n + 1])
      BY <2>1, <2>2, <3>1, Shortened
    <3> DEFINE v == x[n + 1]
               w == y[n + 1]
    <3>4. x = Append(p, v) /\ y = Append(q, w)
      BY <3>2, <3>3
    <3>5. IsSeq(v) /\ IsSeq(w) /\ Kept(v, w)
      BY <2>1, <2>2 DEF IsSeqs
    <3> HIDE DEF v, w
    <3>6. \A k \in 1 .. n : p[k] = x[k] /\ q[k] = y[k]
      BY <3>2, <3>3, <3>4, Appended
    <3>7. Pair(p, q)
      BY <2>1, <2>2, <3>2, <3>3, <3>6 DEF IsSeqs
    <3>8. Kept(FlattenSeq(p), FlattenSeq(q))
      BY <2>1, <3>2, <3>7
    <3>9. IsSeq(FlattenSeq(p)) /\ IsSeq(FlattenSeq(q))
      BY <3>7, FlatIsSeq
    <3>10. FlattenSeq(x) = Cat(FlattenSeq(p), v) /\ FlattenSeq(y) = Cat(FlattenSeq(q), w)
      BY <3>2, <3>3, <3>4, <3>5, FlatAppend DEF Cat
    <3> QED BY <3>5, <3>8, <3>9, <3>10, KeptCat
  <2> QED BY <2>1, <2>2 DEF S
<1> HIDE DEF S
<1>3. S = Nat
  <2>1. S \in SUBSET Nat
    BY DEF S
  <2> QED BY <1>1, <1>2, <2>1, SetInduction
<1>4. Pair(f, g) /\ Len(f) \in Nat
  BY ListsAre, SeqLength
<1> QED BY <1>3, <1>4 DEF S

\* What the upstream reads in the end
UpstreamReads(ends, u, wire, ms) ==
    /\ IsSeq(Read(ends, "system", wire.system)) /\ IsSeq(ReadMessages(ends, u, wire.messages))
    /\ Kept(Cat(Read(ends, "system", wire.system), ReadMessages(ends, u, wire.messages)),
            Cat(Read(ends, "system", Instructions), MsgsRead(ends, ms)))

LEMMA InstructionsGood == Good(Instructions) /\ IsPlain(Instructions) /\ IsVoiced(Instructions)
<1> DEFINE x == <<Instructions[1]>>
           y == <<Instructions[2]>>
<1>1. Instructions = Cat(x, y)
  BY InstructionsAre
<1>2. IsPlain(x) /\ IsPlain(y)
  BY InstructionsAre
<1> HIDE DEF x, y
<1>3. IsVoiced(x) /\ IsVoiced(y)
  BY <1>2 DEF IsPlain
<1>4. IsVoiced(Cat(x, y)) /\ IsPlain(Cat(x, y))
  BY <1>2, <1>3, VoicedCat
<1> QED BY <1>1, <1>4, VoicedIsGood

LEMMA BuiltForAnthropic ==
    ASSUME NEW c, c # "anthropic", NEW ms, GoodMsgs(c, ms), NEW ends, "anthropic" \in ends
    PROVE  LET wire == BuildAnthropic(Request(Instructions, ms))
           IN  UpstreamReads(ends, "anthropic", wire, ms) /\ Whole(wire.messages)
<1> DEFINE wire == BuildAnthropic(Request(Instructions, ms))
           ws   == wire.messages
           f    == WireParts(ends, "anthropic", ws)
           g    == MsgParts(ends, ms)
           n    == Len(ms)
           sys  == Read(ends, "system", Instructions)
<1>1. IsSeq(ms) /\ n \in Nat /\ DOMAIN ms = 1 .. n
  BY SeqLength DEF GoodMsgs
<1>2. wire.system = Instructions /\ ws = [k \in DOMAIN ms |-> MessageToAnthropic(ms[k])]
  BY DEF BuildAnthropic, Request
<1>3. ws = [k \in 1 .. n |-> ws[k]] /\ \A k \in 1 .. n : ws[k] = MessageToAnthropic(ms[k])
  BY <1>1, <1>2
<1> HIDE DEF n, ws
<1>4. IsSeq(ws) /\ Len(ws) = n
  BY <1>1, <1>3, FunctionIsSeq
<1>5. DOMAIN ws = 1 .. n
  BY <1>3
<1>6. ASSUME NEW k \in 1 .. n
      PROVE  /\ ws[k].role = ms[k].role
             /\ IsSeq(f[k]) /\ IsSeq(g[k]) /\ Kept(f[k], g[k])
  <2>1. GoodMsg(c, ms[k])
    BY DEF GoodMsgs, n
  <2>2. f[k] = WireRead(ends, "anthropic", MessageToAnthropic(ms[k])) /\ g[k] = MsgRead(ends, ms[k])
    BY <1>1, <1>3, <1>5 DEF WireParts, MsgParts
  <2> QED BY <1>3, <2>1, <2>2, AntMessageKept, MsgIsRead
<1>7. Lists(f, ws) /\ Lists(g, ms)
  BY <1>1, <1>5, <1>6 DEF Lists, IsMap, WireParts, MsgParts
<1> HIDE DEF f, g
<1>8. Kept(FlattenSeq(f), FlattenSeq(g)) /\ IsSeq(FlattenSeq(f)) /\ IsSeq(FlattenSeq(g))
  <2>1. Len(ms) = Len(ws) /\ \A k \in 1 .. Len(ws) : Kept(f[k], g[k])
    BY <1>4, <1>6 DEF n
  <2> QED BY <1>1, <1>4, <1>7, <2>1, KeptFlat, FlatLists
<1>9. ReadMessages(ends, "anthropic", ws) = FlattenSeq(f) /\ MsgsRead(ends, ms) = FlattenSeq(g)
  BY ReadMessagesAre DEF MsgsRead, f, g
<1>10. IsSeq(sys)
  BY InstructionsGood, ReadIsSeq
<1>11. Whole(ws)
  <2>1. ASSUME NEW k \in 1 .. n - 1, ws[k].role = ws[k + 1].role PROVE ws[k].role = "tool"
    <3>1. k \in 1 .. n /\ k + 1 \in 1 .. n
      BY <1>1
    <3>2. ws[k].role = ms[k].role /\ ws[k + 1].role = ms[k + 1].role
      BY <1>6, <3>1
    <3> QED BY <2>1, <3>2 DEF GoodMsgs, Whole, n
  <2> QED BY <1>4, <2>1 DEF Whole
<1> HIDE DEF wire
<1>12. IsSeq(Read(ends, "system", wire.system)) /\ Read(ends, "system", wire.system) = sys
  BY <1>2, <1>10
<1> HIDE DEF sys
<1>13. Kept(Cat(sys, FlattenSeq(f)), Cat(sys, FlattenSeq(g)))
  BY <1>8, <1>10, KeptSame, KeptCat
<1> QED BY <1>8, <1>9, <1>11, <1>12, <1>13 DEF UpstreamReads, wire, ws, sys

-----------------------------------------------------------------------------
(* The builder of Responses: the items of a message *)

\* Items and parts that wait are together read as p
Collected(ends, role, st, p) ==
    /\ st = [items |-> st.items, parts |-> st.parts]
    /\ Readable(ends, "responses", st.items) /\ Good(st.parts)
    /\ Cat(ReadMessages(ends, "responses", st.items), Read(ends, role, st.parts)) = p

LEMMA ItemAdded ==
    ASSUME NEW ends, NEW role, NEW st, NEW p, Collected(ends, role, st, p), st.parts = <<>>,
           NEW x, IsSeq(WireRead(ends, "responses", x))
    PROVE  Collected(ends, role, [st EXCEPT !.items = Append(@, x)], Cat(p, WireRead(ends, "responses", x)))
           /\ IsSeq(p)
<1> DEFINE s == st.items
           y == <<x>>
           t == Append(s, x)
           q == WireRead(ends, "responses", x)
           new == [st EXCEPT !.items = Append(@, x)]
           R == ReadMessages(ends, "responses", s)
<1>1. st = [items |-> s, parts |-> <<>>]
  BY DEF Collected
<1>2. new = [items |-> t, parts |-> <<>>]
  <2> HIDE DEF s
  <2>1. st.items = s
    BY DEF s
  <2> QED BY <1>1, <2>1
<1>3. new.items = t /\ new.parts = <<>> /\ new = [items |-> new.items, parts |-> new.parts]
  BY <1>2
<1> HIDE DEF new
<1>4. IsSeq(s) /\ Readable(ends, "responses", s) /\ Cat(R, Read(ends, role, <<>>)) = p
  BY DEF Collected, Readable
<1>5. IsSeq(R)
  BY <1>4, WireLists
<1>6. Read(ends, role, <<>>) = <<>>
  BY EmptyRead
<1> HIDE DEF R
<1>7. R = p
  BY <1>4, <1>5, <1>6, CatEmpty
<1>8. ReadMessages(ends, "responses", y) = q /\ Readable(ends, "responses", y)
  BY OneWire
<1>9. t = Cat(s, y)
  BY <1>4, CatOne
<1> HIDE DEF t, y, s, q
<1>10. ReadMessages(ends, "responses", t) = Cat(R, q) /\ Readable(ends, "responses", t)
  BY <1>4, <1>8, <1>9, WireCat DEF R
<1>11. IsSeq(q)
  BY DEF q
<1>12. Cat(ReadMessages(ends, "responses", t), <<>>) = Cat(p, q)
  <2>1. IsSeq(Cat(p, q))
    BY <1>5, <1>7, <1>11, CatIsSeq
  <2> QED BY <1>7, <1>10, <2>1, CatEmpty
<1> QED BY <1>3, <1>5, <1>6, <1>7, <1>10, <1>12, EmptyGood DEF Collected, new, q

LEMMA PartsFlushed ==
    ASSUME NEW ends, NEW role, NEW st, NEW p, Collected(ends, role, st, p)
    PROVE  Collected(ends, role, FlushItem(st, role), p) /\ FlushItem(st, role).parts = <<>> /\ IsSeq(p)
<1> DEFINE x == Item("message", role, st.parts, NoId, "")
           s == st.items
           q == Read(ends, role, st.parts)
           mid == [items |-> s, parts |-> <<>>]
           R == ReadMessages(ends, "responses", s)
<1>1. IsSeq(s) /\ Readable(ends, "responses", s) /\ Good(st.parts) /\ Cat(R, q) = p
  BY DEF Collected, Readable
<1>2. IsSeq(R) /\ IsSeq(q)
  BY <1>1, WireLists, ReadIsSeq
<1>3. IsSeq(p)
  BY <1>1, <1>2, CatIsSeq
<1>4. CASE st.parts = <<>>
  BY <1>3, <1>4 DEF FlushItem
<1>5. CASE st.parts # <<>>
  <2>1. x.role = role /\ x.type = "message" /\ x.content = st.parts
    BY DEF Item
  <2> HIDE DEF x
  <2>2. Blocks("responses", x) = x.content
    BY <2>1 DEF Blocks
  <2>3. WireRead(ends, "responses", x) = q
    BY <2>1, <2>2 DEF WireRead
  <2>4. mid.items = s /\ mid.parts = <<>>
    OBVIOUS
  <2>5. Cat(R, Read(ends, role, <<>>)) = R
    BY <1>2, EmptyRead, CatEmpty
  <2>6. [mid EXCEPT !.items = Append(@, x)] = [items |-> Append(s, x), parts |-> <<>>]
    <3> HIDE DEF s
    <3> QED OBVIOUS
  <2>7. Collected(ends, role, mid, R)
    BY <1>1, <2>4, <2>5, EmptyGood DEF Collected
  <2> HIDE DEF mid
  <2>8. Collected(ends, role, [mid EXCEPT !.items = Append(@, x)], Cat(R, WireRead(ends, "responses", x)))
    <3>1. IsSeq(WireRead(ends, "responses", x))
      BY <1>2, <2>3
    <3>2. mid.parts = <<>>
      BY <2>4
    <3> HIDE DEF R
    <3> QED BY <2>7, <3>1, <3>2, ItemAdded
  <2>9. FlushItem(st, role) = [items |-> Append(s, x), parts |-> <<>>]
    BY <1>5 DEF FlushItem, x
  <2> QED BY <1>1, <1>3, <2>3, <2>6, <2>8, <2>9
<1> QED BY <1>4, <1>5

\* A block more
LEMMA BlockCollected ==
    ASSUME NEW ends, "responses" \in ends, NEW role, NEW st, NEW p, Collected(ends, role, st, p),
           NEW b, GoodBlock(b)
    PROVE  Collected(ends, role, AddBlock(st, role, b), Cat(p, BlockPieces(ends, role, b)))
<1> DEFINE done == FlushItem(st, role)
           new  == AddBlock(st, role, b)
           q    == BlockPieces(ends, role, b)
<1>1. Collected(ends, role, done, p) /\ done.parts = <<>> /\ IsSeq(p)
  BY PartsFlushed
<1>2. IsSeq(q)
  BY OfBlock
<1>3. CASE b.type \in {"text", "media"}
  <2> DEFINE s == st.items
             y == <<b>>
             t == Append(st.parts, b)
             R == ReadMessages(ends, "responses", s)
  <2>1. new = [st EXCEPT !.parts = t]
    BY <1>3 DEF AddBlock
  <2>2. st = [items |-> s, parts |-> st.parts] /\ Readable(ends, "responses", s) /\ IsSeq(s)
        /\ Good(st.parts) /\ Cat(R, Read(ends, role, st.parts)) = p
    BY DEF Collected, Readable
  <2>3. new.items = s /\ new.parts = t /\ new = [items |-> new.items, parts |-> new.parts]
    BY <2>1, <2>2
  <2> HIDE DEF new
  <2>4. Good(y) /\ Read(ends, role, y) = q
    BY OneGood, OneRead
  <2>5. t = Cat(st.parts, y)
    BY <2>2, CatOne DEF Good
  <2> HIDE DEF y, t, q
  <2>6. Good(t) /\ Read(ends, role, t) = Cat(Read(ends, role, st.parts), q)
    BY <2>2, <2>4, <2>5, ReadCat, GoodCat
  <2>7. IsSeq(R) /\ IsSeq(Read(ends, role, st.parts))
    BY <2>2, WireLists, ReadIsSeq
  <2> HIDE DEF R
  <2>8. Cat(R, Read(ends, role, t)) = Cat(p, q)
    BY <1>2, <2>2, <2>6, <2>7, CatAssoc
  <2> QED BY <2>2, <2>3, <2>6, <2>8 DEF Collected, R, new, q
<1>4. CASE b.type = "thinking"
  <2> DEFINE x == Item("reasoning", "", <<Text(b.text)>>, NoId, "")
             y == Text(b.text)
             z == Thinking(b.text)
  <2>1. x.type = "reasoning" /\ x.role = "" /\ x.content = <<y>>
    BY DEF Item
  <2>2. new = [done EXCEPT !.items = Append(@, x)]
    BY <1>4 DEF AddBlock
  <2>3. IsSeq(b.text)
    BY DEF GoodBlock
  <2>4. y.text = b.text /\ z.type = "thinking" /\ z.text = b.text /\ z.content = <<>>
    BY DEF Text, Thinking, Block
  <2> HIDE DEF x, y, new
  <2>5. Joined(x.content) = b.text
    BY <2>1, <2>3, <2>4, OneJoined
  <2>6. Blocks("responses", x) = <<z>>
    BY <2>1, <2>5 DEF Blocks
  <2> HIDE DEF z
  <2>7. GoodBlock(z)
    BY <2>3, <2>4, EmptyGood DEF GoodBlock, Types
  <2>8. Read(ends, "", <<z>>) = BlockPieces(ends, "", z)
    BY <2>7, OneRead
  <2>9. BlockPieces(ends, "", z) = Pieces("thinking", NoId, b.text)
    <3>1. BlockPieces(ends, "", z) = Pieces("thinking", NoId, z.text)
      BY <2>4, <2>7, OfBlock
    <3> QED BY <2>4, <3>1
  <2>10. q = Pieces("thinking", NoId, b.text)
    BY <1>4, OfBlock
  <2>11. WireRead(ends, "responses", x) = q
    BY <2>1, <2>6, <2>8, <2>9, <2>10 DEF WireRead
  <2>12. IsSeq(WireRead(ends, "responses", x))
    BY <1>2, <2>11
  <2> HIDE DEF new, done, q
  <2>13. Collected(ends, role, [done EXCEPT !.items = Append(@, x)], Cat(p, WireRead(ends, "responses", x)))
    BY <1>1, <2>12, ItemAdded
  <2> QED BY <2>2, <2>11, <2>13 DEF new, q
<1>5. CASE b.type = "tool_use"
  <2> DEFINE x == Item("function_call", "", <<>>, b.id, AsText(b.args))
             z == ToolUse(b.id, AsText(b.args))
  <2>1. x.type = "function_call" /\ x.role = "" /\ x.id = b.id /\ x.args = AsText(b.args)
    BY DEF Item
  <2>2. new = [done EXCEPT !.items = Append(@, x)]
    BY <1>5 DEF AddBlock
  <2>3. z.id = b.id /\ z.args = AsText(b.args) /\ z.type = "tool_use"
    BY DEF ToolUse, Block
  <2>4. GoodBlock(z)
    BY UseIsGood
  <2> HIDE DEF x, new
  <2>5. Blocks("responses", x) = <<z>>
    BY <2>1 DEF Blocks
  <2> HIDE DEF z
  <2>6. Read(ends, "", <<z>>) = BlockPieces(ends, "", z)
    BY <2>4, OneRead
  <2>7. BlockPieces(ends, "", z) = <<Piece("call", b.id, Phrase(Args(ends, AsText(b.args)), 0))>>
    BY <2>3, <2>4, OfBlock
  <2>8. q = <<Piece("call", b.id, Phrase(Args(ends, b.args), 0))>>
    BY <1>5, OfBlock
  <2>9. Args(ends, AsText(b.args)) = Args(ends, b.args)
    BY DEF Args, AsText, AsObject
  <2>10. WireRead(ends, "responses", x) = q
    BY <2>1, <2>5, <2>6, <2>7, <2>8, <2>9 DEF WireRead
  <2>11. IsSeq(WireRead(ends, "responses", x))
    BY <1>2, <2>10
  <2> HIDE DEF new, done, q
  <2>12. Collected(ends, role, [done EXCEPT !.items = Append(@, x)], Cat(p, WireRead(ends, "responses", x)))
    BY <1>1, <2>11, ItemAdded
  <2> QED BY <2>2, <2>10, <2>12 DEF new, q
<1>6. CASE b.type = "tool_result"
  <2> DEFINE x == Item("function_call_output", "", b.content, b.id, "")
             z == ToolResult(b.id, b.content)
  <2>1. x.type = "function_call_output" /\ x.role = "" /\ x.id = b.id /\ x.content = b.content
    BY DEF Item
  <2>2. new = [done EXCEPT !.items = Append(@, x)]
    BY <1>6 DEF AddBlock
  <2>3. z.id = b.id /\ z.content = b.content /\ z.type = "tool_result" /\ z.text = <<>>
    BY DEF ToolResult, Block
  <2> HIDE DEF x, new
  <2>4. Blocks("responses", x) = <<z>>
    BY <2>1 DEF Blocks
  <2> HIDE DEF z
  <2>5. GoodBlock(z)
    BY <2>3, EmptyIsSeq DEF GoodBlock, Types
  <2>6. Read(ends, "", <<z>>) = BlockPieces(ends, "", z)
    BY <2>5, OneRead
  <2>7. BlockPieces(ends, "", z) = Cat(<<Piece("result", b.id, Phrase("starts", 0))>>,
                                       Pieces("result", b.id, Joined(b.content)))
    BY <2>3, <2>5, OfBlock
  <2>8. q = Cat(<<Piece("result", b.id, Phrase("starts", 0))>>, Pieces("result", b.id, Joined(b.content)))
    BY <1>6, OfBlock
  <2>9. WireRead(ends, "responses", x) = q
    BY <2>1, <2>4, <2>6, <2>7, <2>8 DEF WireRead
  <2>10. IsSeq(WireRead(ends, "responses", x))
    BY <1>2, <2>9
  <2> HIDE DEF new, done, q
  <2>11. Collected(ends, role, [done EXCEPT !.items = Append(@, x)], Cat(p, WireRead(ends, "responses", x)))
    BY <1>1, <2>10, ItemAdded
  <2> QED BY <2>2, <2>9, <2>11 DEF new, q
<1> QED BY <1>3, <1>4, <1>5, <1>6 DEF GoodBlock, Types

LEMMA BlocksCollected ==
    ASSUME NEW ends, "responses" \in ends, NEW role, NEW first, Good(first), NEW blocks, Good(blocks)
    PROVE  Collected(ends, role, AddBlocks(first, role, blocks), Read(ends, role, Cat(first, blocks)))
<1> DEFINE Ok(bs) == Collected(ends, role, AddBlocks(first, role, bs), Read(ends, role, Cat(first, bs)))
           S == {n \in Nat : \A bs : Good(bs) /\ Len(bs) = n => Ok(bs)}
<1>1. 0 \in S
  <2>1. ASSUME NEW bs, Good(bs), Len(bs) = 0 PROVE Ok(bs)
    <3>1. bs = <<>>
      BY <2>1, EmptySeqLength DEF Good
    <3> DEFINE st == [items |-> <<>>, parts |-> first]
    <3>2. st.items = <<>> /\ st.parts = first /\ st = [items |-> st.items, parts |-> st.parts]
      OBVIOUS
    <3>3. AddBlocks(first, role, <<>>) = st
      BY AddBlocksEmpty
    <3> HIDE DEF st
    <3>4. Readable(ends, "responses", <<>>) /\ ReadMessages(ends, "responses", <<>>) = <<>>
      BY NothingRead, EmptyIsSeq DEF Readable
    <3>5. Cat(first, <<>>) = first
      BY CatEmpty DEF Good
    <3>6. Cat(<<>>, Read(ends, role, first)) = Read(ends, role, first)
      BY ReadIsSeq, CatEmpty
    <3> QED BY <3>1, <3>2, <3>3, <3>4, <3>5, <3>6 DEF Collected
  <2> QED BY <2>1
<1>2. ASSUME NEW n \in S PROVE n + 1 \in S
  <2>1. n \in Nat /\ \A bs : Good(bs) /\ Len(bs) = n => Ok(bs)
    OBVIOUS
  <2> HIDE DEF S
  <2>2. ASSUME NEW w, Good(w), Len(w) = n + 1 PROVE Ok(w)
    <3>1. IsSeq(w)
      BY <2>2 DEF Good
    <3>2. PICK f : IsSeq(f) /\ Len(f) = n /\ w = Append(f, w[n + 1])
      BY <2>1, <2>2, <3>1, Shortened
    <3> DEFINE x == w[n + 1]
               y == <<x>>
    <3>3. w = Append(f, x) /\ GoodBlock(x)
      BY <2>1, <2>2, <3>2 DEF Good
    <3> HIDE DEF x
    <3>4. Good(f)
      <4>1. \A k \in 1 .. n : f[k] = w[k]
        BY <3>2, <3>3, Appended
      <4> QED BY <2>1, <2>2, <3>2, <4>1 DEF Good
    <3>5. Ok(f)
      BY <2>1, <3>2, <3>4
    <3>6. AddBlocks(first, role, w) = AddBlock(AddBlocks(first, role, f), role, x)
      BY <3>2, <3>3, AddBlocksAppend
    <3>7. Good(y) /\ Read(ends, role, y) = BlockPieces(ends, role, x)
      BY <3>3, OneGood, OneRead
    <3>8. w = Cat(f, y) /\ IsSeq(first) /\ IsSeq(f) /\ IsSeq(y)
      BY <3>2, <3>3, <3>7, CatOne DEF Good
    <3> HIDE DEF y
    <3>9. Cat(first, w) = Cat(Cat(first, f), y)
      BY <3>8, CatAssoc
    <3>10. Good(Cat(first, f))
      BY <3>4, GoodCat
    <3>11. Read(ends, role, Cat(first, w)) = Cat(Read(ends, role, Cat(first, f)), BlockPieces(ends, role, x))
      BY <3>7, <3>9, <3>10, ReadCat
    <3> QED BY <3>3, <3>5, <3>6, <3>11, BlockCollected
  <2> QED BY <2>1, <2>2 DEF S
<1> HIDE DEF S
<1>3. S = Nat
  <2>1. S \in SUBSET Nat
    BY DEF S
  <2> QED BY <1>1, <1>2, <2>1, SetInduction
<1>4. Len(blocks) \in Nat
  BY SeqLength DEF Good
<1> QED BY <1>3, <1>4 DEF S

\* The text and the blocks of a message, put together, are what the message says
LEMMA FirstAndBlocks ==
    ASSUME NEW c, NEW m, GoodMsg(c, m), m.role # "tool"
    PROVE  Good(FirstText(m)) /\ Good(m.content) /\ Cat(FirstText(m), m.content) = MsgBlocks(m)
<1> DEFINE b == MsgBlocks(m)
<1>1. Good(b) /\ IsSeq(b) /\ Texted(b)
  BY MsgIsRead, GoodIsTexted DEF Good
<1>2. m.text = TextOf(b) /\ Fits(m, b)
  <2>1. CASE \E rs, own : UserMsg(m, rs, own)
    <3>1. PICK rs, own : UserMsg(m, rs, own)
      BY <2>1
    <3>2. b = Cat(rs, own) /\ m.text = TextOf(own) /\ Fits(m, Cat(rs, own)) /\ IsResults(rs) /\ IsPlain(own)
      BY <3>1, BlocksOfUser DEF UserMsg
    <3>3. TextOf(rs) = <<>> /\ Texted(rs) /\ Texted(own)
      BY <3>2, ResultsNoText, PlainIsGood
    <3>4. TextOf(Cat(rs, own)) = Cat(<<>>, TextOf(own)) /\ IsSeq(TextOf(own))
      BY <3>3, TextOfCat
    <3> HIDE DEF b
    <3> QED BY <3>2, <3>4, CatEmpty
  <2>2. CASE \E a, u : TalkMsg(m, a, u)
    <3>1. PICK a, u : TalkMsg(m, a, u)
      BY <2>2
    <3>2. b = Cat(a, u) /\ m.text = TextOf(a) /\ Fits(m, Cat(a, u)) /\ IsVoiced(a) /\ IsUses(u)
      BY <3>1, BlocksOfTalk DEF TalkMsg
    <3> HIDE DEF b
    <3> QED BY <3>2, TextOfTalk
  <2> QED BY <2>1, <2>2 DEF GoodMsg, ToolMsg
<1> HIDE DEF b
<1>3. CASE m.content = b
  <2>1. FirstText(m) = <<>>
    <3>1. CASE OfType(b, "text") = <<>>
      <4>1. m.text = <<>>
        BY <1>2, <3>1, EmptyJoined DEF TextOf
      <4> QED BY <1>3, <3>1, <4>1 DEF FirstText, NonEmpty
    <3>2. CASE OfType(b, "text") # <<>>
      BY <1>3, <3>2 DEF FirstText
    <3> QED BY <3>1, <3>2
  <2>2. Cat(<<>>, b) = b
    BY <1>1, CatEmpty
  <2> QED BY <1>1, <1>3, <2>1, <2>2, EmptyGood DEF b
<1>4. CASE m.content = <<>> /\ b = NonEmpty(m.text)
  <2>1. FirstText(m) = b
    <3>1. OfType(m.content, "text") = <<>>
      BY <1>4, EmptyOfType
    <3> QED BY <1>4, <3>1 DEF FirstText
  <2>2. Cat(b, <<>>) = b
    BY <1>1, CatEmpty
  <2> QED BY <1>1, <1>4, <2>1, <2>2, EmptyGood DEF b
<1> QED BY <1>2, <1>3, <1>4 DEF Fits

LEMMA ItemsAsMessage ==
    ASSUME NEW c, NEW m, GoodMsg(c, m), NEW ends, "responses" \in ends
    PROVE  LET s == MessageToItems(m)
           IN  Readable(ends, "responses", s) /\ ReadMessages(ends, "responses", s) = MsgRead(ends, m)
<1> DEFINE s == MessageToItems(m)
<1>1. Good(MsgBlocks(m)) /\ IsSeq(MsgRead(ends, m))
  BY MsgIsRead
<1>2. CASE m.role = "tool"
  <2> DEFINE d == MessageOutput(m)
             x == Item("function_call_output", "", d, m.id, "")
             z == ToolResult(m.id, d)
  <2>1. x.type = "function_call_output" /\ x.role = "" /\ x.id = m.id /\ x.content = d
    BY DEF Item
  <2>2. s = <<x>>
    BY <1>2 DEF MessageToItems
  <2>3. MsgBlocks(m) = <<z>>
    BY <1>2 DEF MsgBlocks
  <2>4. IsPlain(d)
    BY <1>2 DEF GoodMsg, ToolMsg, UserMsg, TalkMsg
  <2> HIDE DEF x, d
  <2>5. Blocks("responses", x) = <<z>>
    BY <2>1 DEF Blocks
  <2>6. Read(ends, "", <<z>>) = ResultPieces(m.id, d) /\ Read(ends, "tool", <<z>>) = ResultPieces(m.id, d)
        /\ IsSeq(ResultPieces(m.id, d))
    BY <2>4, ResultIsRead
  <2> HIDE DEF z, s
  <2>7. WireRead(ends, "responses", x) = MsgRead(ends, m) /\ IsSeq(WireRead(ends, "responses", x))
    BY <1>2, <2>1, <2>3, <2>5, <2>6 DEF WireRead, MsgRead
  <2> QED BY <2>2, <2>7, OneWire DEF s
<1>3. CASE m.role # "tool"
  <2> DEFINE o  == FirstText(m)
             st == AddBlocks(o, m.role, m.content)
             fl == FlushItem(st, m.role)
             p  == Read(ends, m.role, Cat(o, m.content))
  <2>1. s = fl.items
    BY <1>3 DEF MessageToItems
  <2>2. Good(o) /\ Good(m.content) /\ Cat(o, m.content) = MsgBlocks(m)
    BY <1>3, FirstAndBlocks
  <2>3. p = MsgRead(ends, m)
    BY <2>2 DEF MsgRead
  <2> HIDE DEF o, p
  <2>4. Collected(ends, m.role, st, p)
    BY <2>2, BlocksCollected DEF p
  <2> HIDE DEF st
  <2>5. Collected(ends, m.role, fl, p) /\ fl.parts = <<>> /\ IsSeq(p)
    BY <2>4, PartsFlushed
  <2> HIDE DEF fl, s
  <2>6. Readable(ends, "responses", s) /\ Cat(ReadMessages(ends, "responses", s), <<>>) = p
    BY <2>1, <2>5, EmptyRead DEF Collected
  <2>7. IsSeq(ReadMessages(ends, "responses", s))
    BY <2>6, WireLists DEF Readable
  <2>8. ReadMessages(ends, "responses", s) = p
    BY <2>6, <2>7, CatEmpty
  <2> QED BY <2>3, <2>6, <2>8 DEF s
<1> QED BY <1>2, <1>3

\* The items of messages
AllItems(ms) == MapFlat(MessageToItems, ms)
AllItemParts(ms) == [k \in DOMAIN ms |-> MessageToItems(ms[k])]

LEMMA AllItemsMore ==
    ASSUME NEW ms, IsSeq(ms), NEW m, IsSeq(MessageToItems(m))
    PROVE  AllItems(Append(ms, m)) = Cat(AllItems(ms), MessageToItems(m))
<1> DEFINE f == AllItemParts(ms)
           t == Append(ms, m)
           g == AllItemParts(t)
           n == Len(ms)
<1>1. /\ n \in Nat /\ DOMAIN ms = 1 .. n /\ DOMAIN t = 1 .. n + 1 /\ t[n + 1] = m
      /\ \A k \in 1 .. n : t[k] = ms[k]
  BY Appended
<1>2. IsMap(f, ms) /\ IsMap(g, t)
  BY DEF IsMap, AllItemParts
<1>3. \A k \in DOMAIN ms : g[k] = f[k]
  BY <1>1 DEF AllItemParts
<1>4. g[n + 1] = MessageToItems(m)
  <2>1. n + 1 \in DOMAIN t
    BY <1>1
  <2> HIDE DEF t
  <2> QED BY <1>1, <2>1 DEF AllItemParts
<1>5. AllItems(ms) = FlattenSeq(f) /\ AllItems(t) = FlattenSeq(g)
  BY DEF AllItems, AllItemParts, MapFlat
<1> HIDE DEF f, g, n
<1>6. FlattenSeq(g) = Cat(FlattenSeq(f), g[n + 1])
  BY <1>2, <1>3, <1>4, FlatMore DEF n, t
<1> QED BY <1>4, <1>5, <1>6 DEF t

LEMMA AllItemsRead ==
    ASSUME NEW c, NEW ms, GoodMsgs(c, ms), NEW ends, "responses" \in ends
    PROVE  Readable(ends, "responses", AllItems(ms))
           /\ ReadMessages(ends, "responses", AllItems(ms)) = MsgsRead(ends, ms)
<1> DEFINE Ok(s) == Readable(ends, "responses", AllItems(s))
                    /\ ReadMessages(ends, "responses", AllItems(s)) = MsgsRead(ends, s)
           S == {n \in Nat : \A s : GoodMsgs(c, s) /\ Len(s) = n => Ok(s)}
<1>1. 0 \in S
  <2>1. ASSUME NEW s, GoodMsgs(c, s), Len(s) = 0 PROVE Ok(s)
    <3>1. s = <<>>
      BY <2>1, EmptySeqLength DEF GoodMsgs
    <3>2. AllItems(<<>>) = <<>>
      BY FlatEmpty DEF AllItems, MapFlat
    <3> QED BY <3>1, <3>2, NothingRead, EmptyIsSeq DEF Readable
  <2> QED BY <2>1
<1>2. ASSUME NEW n \in S PROVE n + 1 \in S
  <2>1. n \in Nat /\ \A s : GoodMsgs(c, s) /\ Len(s) = n => Ok(s)
    OBVIOUS
  <2> HIDE DEF S
  <2>2. ASSUME NEW w, GoodMsgs(c, w), Len(w) = n + 1 PROVE Ok(w)
    <3>1. IsSeq(w)
      BY <2>2 DEF GoodMsgs
    <3>2. PICK f : IsSeq(f) /\ Len(f) = n /\ w = Append(f, w[n + 1])
      BY <2>1, <2>2, <3>1, Shortened
    <3> DEFINE x == w[n + 1]
    <3>3. w = Append(f, x)
      BY <3>2
    <3> HIDE DEF x
    <3>4. GoodMsgs(c, f) /\ GoodMsg(c, x)
      BY <2>2, <3>2, <3>3, GoodLess
    <3>5. Ok(f)
      BY <2>1, <3>2, <3>4
    <3> DEFINE y == MessageToItems(x)
    <3>6. Readable(ends, "responses", y) /\ ReadMessages(ends, "responses", y) = MsgRead(ends, x)
      BY <3>4, ItemsAsMessage
    <3>7. IsSeq(y)
      BY <3>6 DEF Readable
    <3>8. AllItems(w) = Cat(AllItems(f), y)
      BY <3>2, <3>3, <3>7, AllItemsMore
    <3> HIDE DEF y
    <3>9. /\ ReadMessages(ends, "responses", AllItems(w))
             = Cat(ReadMessages(ends, "responses", AllItems(f)), ReadMessages(ends, "responses", y))
          /\ Readable(ends, "responses", AllItems(w))
      BY <3>5, <3>6, <3>8, WireCat
    <3>10. MsgsRead(ends, w) = Cat(MsgsRead(ends, f), MsgRead(ends, x))
      BY <3>2, <3>3, <3>4, MsgIsRead, MsgsMore
    <3> QED BY <3>5, <3>6, <3>9, <3>10
  <2> QED BY <2>1, <2>2 DEF S
<1> HIDE DEF S
<1>3. S = Nat
  <2>1. S \in SUBSET Nat
    BY DEF S
  <2> QED BY <1>1, <1>2, <2>1, SetInduction
<1>4. Len(ms) \in Nat
  BY SeqLength DEF GoodMsgs
<1> QED BY <1>3, <1>4 DEF S

LEMMA InstructionsAreText ==
    LET o == NonEmpty(Joined(Instructions))
    IN  Good(o) /\ IsPlain(o) /\ \A ends : Read(ends, "system", o) = Read(ends, "system", Instructions)
<1>1. IsString(Instructions)
  <2> DEFINE x == <<Instructions[1]>>
             y == <<Instructions[2]>>
  <2>1. Instructions = Cat(x, y) /\ Instructions[1].type = "text" /\ Instructions[2].type = "text"
    BY InstructionsAre
  <2>2. Without(x, "text") = <<>> /\ Without(y, "text") = <<>> /\ IsSeq(x) /\ IsSeq(y)
    BY <2>1, OneOfType, One
  <2> HIDE DEF x, y
  <2>3. Without(Cat(x, y), "text") = <<>>
    BY <2>2, WithoutCat, CatEmpties
  <2> QED BY <2>1, <2>3 DEF IsString
<1>2. IsVoiced(Instructions)
  BY InstructionsGood
<1> DEFINE t == TextOf(Instructions)
<1>3. /\ IsPlain(NonEmpty(t)) /\ t = Joined(Instructions)
      /\ \A ends, role : Read(ends, role, NonEmpty(t)) = Read(ends, role, Instructions)
  BY <1>1, <1>2, StringIs
<1> HIDE DEF t
<1> QED BY <1>3, PlainIsGood

LEMMA BuiltForResponses ==
    ASSUME NEW c, NEW ms, GoodMsgs(c, ms), NEW ends, "responses" \in ends
    PROVE  LET wire == BuildResponses(Request(Instructions, ms))
           IN  UpstreamReads(ends, "responses", wire, ms)
<1> DEFINE wire == BuildResponses(Request(Instructions, ms))
           o == NonEmpty(Joined(Instructions))
<1>1. wire.system = o /\ wire.messages = AllItems(ms)
  BY DEF BuildResponses, Request, AllItems
<1>2. Read(ends, "system", o) = Read(ends, "system", Instructions) /\ IsSeq(Read(ends, "system", o))
  BY InstructionsAreText, ReadIsSeq
<1>3. ReadMessages(ends, "responses", AllItems(ms)) = MsgsRead(ends, ms) /\ IsSeq(MsgsRead(ends, ms))
  BY AllItemsRead, MsgsAreRead
<1> HIDE DEF wire, o
<1> QED BY <1>1, <1>2, <1>3, KeptSame DEF UpstreamReads, wire

-----------------------------------------------------------------------------
(* The builder of Chat Completions: attachments that wait for a message of the user *)

\* A label or an attachment
AttachedBlock(b) ==
    /\ IsSeq(b.text) /\ b.content = <<>>
    /\ \/ b.type = "text" /\ \A j \in 1 .. Len(b.text) : b.text[j].kind = "label"
       \/ b.type = "media" /\ AllIn(b.text, {"media"})
Attached(bs) == IsSeq(bs) /\ \A k \in 1 .. Len(bs) : AttachedBlock(bs[k])

\* Neither words nor thinking
Silent(p) == IsSeq(p) /\ Sel("word", p) = <<>> /\ Sel("thought", p) = <<>>

\* What the gateway adds
Added(x) == x.kind = "label" \/ x \in {Raw, Placeholder}

LEMMA AddedIsSilent ==
    ASSUME NEW r, r # "thinking", NEW id, NEW t, IsSeq(t), \A j \in 1 .. Len(t) : Added(t[j])
    PROVE  LET p == Pieces(r, id, t)
           IN  Silent(p) /\ Shown(p) = <<>>
<1> DEFINE p == Pieces(r, id, t)
<1>1. IsSeq(p) /\ Len(p) = Len(t) /\ \A k \in 1 .. Len(t) : p[k] = Piece(r, id, t[k])
  BY PiecesAre
<1> HIDE DEF p
<1>2. ASSUME NEW k \in 1 .. Len(p)
      PROVE  ~Is("word", p[k]) /\ ~Is("thought", p[k]) /\ ~Is("media", p[k])
  <2> DEFINE q == p[k]
             x == t[k]
  <2>1. q = Piece(r, id, x) /\ Added(x)
    BY <1>1
  <2> HIDE DEF q, x
  <2>2. q.kind = r /\ q.val = x
    BY <2>1 DEF Piece
  <2>3. x.kind # "media"
    BY <2>1 DEF Added, Raw, Placeholder, Phrase
  <2>4. ~IsThought(q) /\ ~IsMedia(q) /\ ~IsWord(q)
    BY <2>1, <2>2, <2>3 DEF Added, IsThought, IsMedia, IsWord
  <2> QED BY <2>4 DEF Is, q
<1>3. \A k \in 1 .. Len(p) : ~Is("word", p[k])
  BY <1>2
<1>4. \A k \in 1 .. Len(p) : ~Is("thought", p[k])
  BY <1>2
<1>5. \A k \in 1 .. Len(p) : ~Is("media", p[k])
  BY <1>2
<1>6. Sel("word", p) = <<>>
  BY <1>1, <1>3, SelNone
<1>7. Sel("thought", p) = <<>>
  BY <1>1, <1>4, SelNone
<1>8. Sel("media", p) = <<>>
  BY <1>1, <1>5, SelNone
<1> QED BY <1>1, <1>6, <1>7, <1>8, ShownNone DEF p, Silent

LEMMA SilentCat ==
    ASSUME NEW p, Silent(p), NEW q, Silent(q)
    PROVE  Silent(Cat(p, q))
<1>1. IsSeq(p) /\ IsSeq(q)
  BY DEF Silent
<1>2. IsSeq(Cat(p, q))
  BY <1>1, CatIsSeq
<1>3. Sel("word", Cat(p, q)) = Cat(Sel("word", p), Sel("word", q))
  BY <1>1, SelCat
<1>4. Sel("thought", Cat(p, q)) = Cat(Sel("thought", p), Sel("thought", q))
  BY <1>1, SelCat
<1> QED BY <1>2, <1>3, <1>4, CatEmpties DEF Silent

\* Silent pieces may stand behind others that show nothing
LEMMA KeptSwap ==
    ASSUME NEW p, Silent(p), NEW t, IsSeq(t), Shown(t) = <<>>
    PROVE  Kept(Cat(t, p), Cat(p, t))
<1>1. IsSeq(p)
  BY DEF Silent
<1>2. \A kind : /\ Sel(kind, Cat(t, p)) = Cat(Sel(kind, t), Sel(kind, p))
                /\ Sel(kind, Cat(p, t)) = Cat(Sel(kind, p), Sel(kind, t))
                /\ IsSeq(Sel(kind, t))
  BY <1>1, SelCat, SelIsSeq
<1>3. Shown(Cat(t, p)) = Cat(Shown(t), Shown(p)) /\ Shown(Cat(p, t)) = Cat(Shown(p), Shown(t)) /\ IsSeq(Shown(p))
  BY <1>1, ShownCat
<1> DEFINE e == <<>>
<1>4. Sel("word", p) = e /\ Sel("thought", p) = e /\ Shown(t) = e
  BY DEF Silent
<1>5. \A x : IsSeq(x) => Cat(e, x) = x /\ Cat(x, e) = x
  BY CatEmpty
<1> HIDE DEF e
<1>6. Sel("word", Cat(t, p)) = Sel("word", Cat(p, t))
  BY <1>2, <1>4, <1>5
<1>7. Sel("thought", Cat(t, p)) = Sel("thought", Cat(p, t))
  BY <1>2, <1>4, <1>5
<1>8. Shown(Cat(t, p)) = Shown(Cat(p, t))
  BY <1>3, <1>4, <1>5
<1> QED BY <1>6, <1>7, <1>8, KeptIs

LEMMA AttachedIsGood == ASSUME NEW bs, Attached(bs) PROVE Good(bs)
<1>1. Texted(<<>>)
  BY EmptyGood
<1> QED BY <1>1 DEF Attached, AttachedBlock, Good, GoodBlock, Types

LEMMA AttachedCat ==
    ASSUME NEW s, Attached(s), NEW t, Attached(t)
    PROVE  Attached(Cat(s, t))
<1> DEFINE w == Cat(s, t)
           n == Len(s)
           m == Len(t)
<1>1. IsSeq(s) /\ IsSeq(t) /\ n \in Nat /\ m \in Nat
  BY SeqLength DEF Attached
<1>2. IsSeq(w) /\ Len(w) = n + m /\ (\A j \in 1 .. n : w[j] = s[j]) /\ (\A j \in 1 .. m : w[n + j] = t[j])
  BY <1>1, Concat DEF Cat
<1> HIDE DEF w
<1>3. ASSUME NEW k \in 1 .. Len(w) PROVE AttachedBlock(w[k])
  <2>1. CASE k \in 1 .. n
    BY <1>2, <2>1 DEF Attached
  <2>2. CASE k \notin 1 .. n
    <3>1. k - n \in 1 .. m /\ n + (k - n) = k
      BY <1>1, <1>2, <2>2
    <3>2. w[n + (k - n)] = t[k - n]
      BY <1>2, <3>1
    <3> QED BY <3>1, <3>2 DEF Attached
  <2> QED BY <2>1, <2>2
<1> QED BY <1>2, <1>3 DEF Attached, w

LEMMA AttachedOne == ASSUME NEW b, AttachedBlock(b) PROVE Attached(<<b>>)
<1> DEFINE s == <<b>>
<1>1. IsSeq(s) /\ Len(s) = 1 /\ s[1] = b
  BY One
<1> HIDE DEF s
<1>2. Attached(s)
  BY <1>1 DEF Attached
<1> QED BY <1>2 DEF s

\* What is read of attachments has no words and no thinking in it
LEMMA AttachedRead ==
    ASSUME NEW ends, NEW r, r # "thinking", NEW all, Attached(all)
    PROVE  Silent(Read(ends, r, all))
<1> DEFINE Ok(bs) == Silent(Read(ends, r, bs))
           S == {n \in Nat : \A bs : Attached(bs) /\ Len(bs) = n => Ok(bs)}
<1>1. 0 \in S
  <2>1. ASSUME NEW bs, Attached(bs), Len(bs) = 0 PROVE Ok(bs)
    <3>1. bs = <<>>
      BY <2>1, EmptySeqLength DEF Attached
    <3> QED BY <3>1, EmptyRead, SelNothing, EmptyIsSeq DEF Silent
  <2> QED BY <2>1
<1>2. ASSUME NEW n \in S PROVE n + 1 \in S
  <2>1. n \in Nat /\ \A bs : Attached(bs) /\ Len(bs) = n => Ok(bs)
    OBVIOUS
  <2> HIDE DEF S
  <2>2. ASSUME NEW w, Attached(w), Len(w) = n + 1 PROVE Ok(w)
    <3>1. IsSeq(w)
      BY <2>2 DEF Attached
    <3>2. PICK f : IsSeq(f) /\ Len(f) = n /\ w = Append(f, w[n + 1])
      BY <2>1, <2>2, <3>1, Shortened
    <3> DEFINE x == w[n + 1]
               y == <<x>>
    <3>3. w = Append(f, x)
      BY <3>2
    <3>4. AttachedBlock(x)
      BY <2>1, <2>2 DEF Attached
    <3> HIDE DEF x
    <3>5. w = Cat(f, y) /\ \A k \in 1 .. n : w[k] = f[k]
      BY <3>2, <3>3, CatOne, Appended
    <3>6. Attached(f)
      <4>1. \A k \in 1 .. n : AttachedBlock(w[k])
        BY <2>1, <2>2 DEF Attached
      <4> QED BY <3>2, <3>5, <4>1 DEF Attached
    <3>7. Attached(y)
      BY <3>4, AttachedOne
    <3>8. Good(y) /\ Good(f)
      BY <3>6, <3>7, AttachedIsGood
    <3>9. GoodBlock(x) /\ Read(ends, r, y) = BlockPieces(ends, r, x)
      <4>1. GoodBlock(x)
        BY <3>4, EmptyGood DEF AttachedBlock, GoodBlock, Types
      <4> QED BY <4>1, OneRead
    <3>10. BlockPieces(ends, r, x) = Pieces(r, NoId, x.text)
      BY <3>4, <3>9, OfBlock DEF AttachedBlock
    <3>11. Silent(Pieces(r, NoId, x.text))
      <4>1. CASE x.type = "text"
        <5>1. IsSeq(x.text) /\ \A j \in 1 .. Len(x.text) : Added(x.text[j])
          BY <3>4, <4>1 DEF AttachedBlock, Added
        <5> QED BY <5>1, AddedIsSilent
      <4>2. CASE x.type = "media"
        <5>1. AllIn(x.text, {"media"})
          BY <3>4, <4>2 DEF AttachedBlock
        <5> QED BY <5>1, MediaHeard DEF Silent
      <4> QED BY <3>4, <4>1, <4>2 DEF AttachedBlock
    <3> HIDE DEF y
    <3>12. Ok(f) /\ Ok(y)
      BY <2>1, <3>2, <3>6, <3>9, <3>10, <3>11
    <3>13. Read(ends, r, w) = Cat(Read(ends, r, f), Read(ends, r, y))
      BY <3>5, <3>8, ReadCat
    <3> QED BY <3>12, <3>13, SilentCat
  <2> QED BY <2>1, <2>2 DEF S
<1> HIDE DEF S
<1>3. S = Nat
  <2>1. S \in SUBSET Nat
    BY DEF S
  <2> QED BY <1>1, <1>2, <2>1, SetInduction
<1>4. Len(all) \in Nat
  BY SeqLength DEF Attached
<1> QED BY <1>3, <1>4 DEF S

-----------------------------------------------------------------------------
(* The result of a tool, as a text and attachments *)

LEMMA ResultOfText ==
    ASSUME NEW ends, NEW role, NEW id, NEW d, Texted(d)
    PROVE  Read(ends, role, <<ToolResult(id, d)>>) = ResultPieces(id, d)
<1> DEFINE b == ToolResult(id, d)
<1>1. b.type = "tool_result" /\ b.text = <<>> /\ b.content = d /\ b.id = id
  BY DEF ToolResult, Block
<1> HIDE DEF b
<1>2. GoodBlock(b)
  BY <1>1, EmptyIsSeq DEF GoodBlock, Types
<1>3. Read(ends, role, <<b>>) = BlockPieces(ends, role, b)
  BY <1>2, OneRead
<1>4. BlockPieces(ends, role, b)
      = Cat(<<Piece("result", b.id, Phrase("starts", 0))>>, Pieces("result", b.id, Joined(b.content)))
  BY <1>1, <1>2, OfBlock
<1> QED BY <1>1, <1>3, <1>4 DEF ResultPieces, b

\* A text in place of what a tool returned
StandsFor(shown, d) ==
    shown = TextOf(d) \/ (TextOf(d) = <<>> /\ shown \in {<<Raw>>, <<Placeholder>>})

LEMMA TextStands ==
    ASSUME NEW id, NEW d, IsPlain(d), NEW shown, StandsFor(shown, d)
    PROVE  LET q == Pieces("result", id, shown)
           IN  /\ IsSeq(shown) /\ IsSeq(q) /\ Sel("word", q) = Pieces("result", id, TextOf(d))
               /\ Sel("thought", q) = <<>> /\ Shown(q) = <<>>
<1> DEFINE q == Pieces("result", id, shown)
<1>1. CASE shown = TextOf(d)
  <2>1. AllIn(shown, Uttered)
    BY <1>1, TextIsUttered DEF IsPlain
  <2>2. "result" # "thinking"
    OBVIOUS
  <2>3. IsSeq(q) /\ Sel("word", q) = q /\ Sel("thought", q) = <<>> /\ Shown(q) = <<>>
    BY <2>1, <2>2, TextHeard
  <2> QED BY <1>1, <2>1, <2>3 DEF AllIn
<1>2. CASE TextOf(d) = <<>> /\ shown \in {<<Raw>>, <<Placeholder>>}
  <2>1. PICK x \in {Raw, Placeholder} : shown = <<x>>
    BY <1>2
  <2>2. IsSeq(<<x>>) /\ Len(<<x>>) = 1 /\ <<x>>[1] = x
    BY One
  <2> HIDE DEF q
  <2>3. IsSeq(shown) /\ \A j \in 1 .. Len(shown) : Added(shown[j])
    BY <2>1, <2>2 DEF Added
  <2>4. "result" # "thinking"
    OBVIOUS
  <2>5. Silent(q) /\ Shown(q) = <<>>
    BY <2>3, <2>4, AddedIsSilent DEF q
  <2>6. Pieces("result", id, TextOf(d)) = <<>>
    BY <1>2, EmptyPieces
  <2> QED BY <2>3, <2>5, <2>6 DEF Silent, q
<1> QED BY <1>1, <1>2 DEF StandsFor

\* The mark where a result starts
LEMMA StartShowsNothing ==
    ASSUME NEW id
    PROVE  LET s == <<Piece("result", id, Phrase("starts", 0))>> IN IsSeq(s) /\ Shown(s) = <<>>
<1> DEFINE b == Piece("result", id, Phrase("starts", 0))
           s == <<b>>
<1>1. IsSeq(s) /\ Len(s) = 1 /\ s[1] = b
  BY One
<1>2. b.val.kind = "starts"
  BY DEF Piece, Phrase
<1> HIDE DEF s, b
<1>3. \A k \in 1 .. Len(s) : ~Is("media", s[k])
  BY <1>1, <1>2 DEF Is, IsMedia
<1>4. Sel("media", s) = <<>>
  BY <1>1, <1>3, SelNone
<1> QED BY <1>1, <1>4, ShownNone DEF s, b

\* A text and the attachments have all of a result
LEMMA ResultHeard ==
    ASSUME NEW id, NEW d, IsPlain(d), NEW shown, StandsFor(shown, d),
           NEW a, Silent(a), Shown(a) = Joined(OfType(d, "media"))
    PROVE  LET t == ResultPieces(id, NonEmpty(shown))
           IN  /\ IsSeq(t) /\ Shown(t) = <<>> /\ Texted(NonEmpty(shown))
               /\ Kept(Cat(t, a), ResultPieces(id, d))
<1> DEFINE s == <<Piece("result", id, Phrase("starts", 0))>>
           q == Pieces("result", id, shown)
           j == Joined(d)
           p == Pieces("result", id, j)
           e == <<>>
<1>1. /\ IsSeq(shown) /\ IsSeq(q) /\ Sel("word", q) = Pieces("result", id, TextOf(d))
      /\ Sel("thought", q) = e /\ Shown(q) = e
  BY TextStands
<1>2. IsSeq(s) /\ Shown(s) = e
  BY StartShowsNothing
<1>3. "result" # "thinking"
  OBVIOUS
<1>4. HeardAs(p, "result", id, d)
  BY <1>3, PlainHeard
<1>5. OfType(d, "thinking") = <<>>
  BY OfPlain
<1>6. Sel("thought", p) = e
  <2>1. Pieces("thinking", NoId, Joined(OfType(d, "thinking"))) = e
    BY <1>5, EmptyJoined, EmptyPieces
  <2> QED BY <1>4, <2>1 DEF HeardAs
<1>7. /\ IsSeq(p) /\ Sel("word", p) = Pieces("result", id, TextOf(d))
      /\ Shown(p) = Joined(OfType(d, "media"))
  BY <1>4 DEF HeardAs
<1>8. IsSeq(a) /\ Sel("word", a) = e /\ Sel("thought", a) = e
  BY DEF Silent
<1>9. Joined(NonEmpty(shown)) = shown /\ Texted(NonEmpty(shown))
  <2>1. CASE shown = <<>>
    BY <2>1, EmptyJoined, EmptyGood DEF NonEmpty
  <2>2. CASE shown # <<>>
    <3> DEFINE b == Text(shown)
               o == <<b>>
    <3>1. b.text = shown
      BY DEF Text, Block
    <3>2. NonEmpty(shown) = o
      BY <2>2 DEF NonEmpty
    <3>3. IsSeq(o) /\ Len(o) = 1 /\ o[1] = b
      BY One
    <3> HIDE DEF b
    <3>4. Joined(o) = b.text
      BY <1>1, <3>1, OneJoined
    <3> HIDE DEF o
    <3>5. Texted(o)
      BY <1>1, <3>1, <3>3 DEF Texted
    <3> QED BY <3>1, <3>2, <3>4, <3>5
  <2> QED BY <2>1, <2>2
<1>10. ResultPieces(id, NonEmpty(shown)) = Cat(s, q) /\ ResultPieces(id, d) = Cat(s, p)
  BY <1>9 DEF ResultPieces
<1> HIDE DEF s, q, p, e
<1>11. Shown(Cat(s, q)) = Cat(Shown(s), Shown(q)) /\ IsSeq(Cat(s, q))
  BY <1>1, <1>2, ShownCat, CatIsSeq
<1>12. \A x : IsSeq(x) => Cat(x, e) = x /\ Cat(e, x) = x
  BY CatEmpty DEF e
<1>13. Shown(Cat(s, q)) = e
  BY <1>1, <1>2, <1>11, <1>12, EmptyIsSeq DEF e
<1>14. Kept(Cat(q, a), p)
  <2>1. Sel("word", Cat(q, a)) = Cat(Sel("word", q), Sel("word", a)) /\ IsSeq(Sel("word", q))
    BY <1>1, <1>8, SelCat, SelIsSeq
  <2>2. Sel("thought", Cat(q, a)) = Cat(Sel("thought", q), Sel("thought", a)) /\ IsSeq(Sel("thought", q))
    BY <1>1, <1>8, SelCat, SelIsSeq
  <2>3. Shown(Cat(q, a)) = Cat(Shown(q), Shown(a)) /\ IsSeq(Shown(a))
    BY <1>1, <1>8, ShownCat
  <2>4. Sel("word", Cat(q, a)) = Sel("word", p)
    BY <1>1, <1>7, <1>8, <1>12, <2>1
  <2>5. Sel("thought", Cat(q, a)) = Sel("thought", p)
    BY <1>1, <1>6, <1>8, <1>12, <2>2
  <2>6. Shown(Cat(q, a)) = Shown(p)
    BY <1>1, <1>7, <1>12, <2>3
  <2> QED BY <2>4, <2>5, <2>6, KeptIs
<1>15. Cat(Cat(s, q), a) = Cat(s, Cat(q, a)) /\ IsSeq(Cat(q, a))
  BY <1>1, <1>2, <1>8, CatAssoc, CatIsSeq
<1>16. Kept(s, s)
  BY KeptSame
<1>17. Kept(Cat(s, Cat(q, a)), Cat(s, p))
  BY <1>2, <1>7, <1>14, <1>15, <1>16, KeptCat
<1> QED BY <1>9, <1>10, <1>11, <1>13, <1>15, <1>17 DEF e

\* Attachments that wait may stand behind the next result
LEMMA KeptMove ==
    ASSUME NEW r, IsSeq(r), NEW t, IsSeq(t), NEW p, Silent(p), NEW a, IsSeq(a), NEW x, IsSeq(x), NEW y, IsSeq(y),
           Shown(t) = <<>>, Kept(Cat(r, p), x), Kept(Cat(t, a), y)
    PROVE  Kept(Cat(Cat(r, t), Cat(p, a)), Cat(x, y))
<1>1. IsSeq(p)
  BY DEF Silent
<1> DEFINE tp == Cat(t, p)
           pt == Cat(p, t)
           ta == Cat(t, a)
           pa == Cat(p, a)
           rp == Cat(r, p)
<1>2. IsSeq(tp) /\ IsSeq(pt) /\ IsSeq(ta) /\ IsSeq(pa) /\ IsSeq(rp)
  BY <1>1, CatIsSeq
<1>3. Kept(tp, pt)
  BY KeptSwap
<1>4. Kept(a, a) /\ Kept(r, r)
  BY KeptSame
<1>5. Cat(tp, a) = Cat(t, pa)
  BY <1>1, CatAssoc
<1>6. Cat(pt, a) = Cat(p, ta)
  BY <1>1, CatAssoc
<1>7. Cat(Cat(r, t), pa) = Cat(r, Cat(t, pa))
  BY <1>2, CatAssoc
<1>8. Cat(rp, ta) = Cat(r, Cat(p, ta))
  BY <1>1, <1>2, CatAssoc
<1>9. Kept(rp, x) /\ Kept(ta, y)
  OBVIOUS
<1> HIDE DEF tp, pt, ta, pa, rp
<1>10. Kept(Cat(tp, a), Cat(pt, a)) /\ IsSeq(Cat(tp, a)) /\ IsSeq(Cat(pt, a))
  BY <1>2, <1>3, <1>4, KeptCat, CatIsSeq
<1>11. Kept(Cat(r, Cat(tp, a)), Cat(r, Cat(pt, a)))
  BY <1>4, <1>10, KeptCat
<1>12. Kept(Cat(rp, ta), Cat(x, y))
  BY <1>2, <1>9, KeptCat
<1>13. Kept(Cat(r, Cat(tp, a)), Cat(x, y))
  BY <1>6, <1>8, <1>11, <1>12, KeptThrough
<1> QED BY <1>5, <1>7, <1>13 DEF pa

\* Messages with one more
LEMMA WholeMore ==
    ASSUME NEW ms, IsSeq(ms), Whole(ms), NEW x,
           x.role = "tool" \/ ms = <<>> \/ ms[Len(ms)].role # x.role
    PROVE  Whole(Append(ms, x))
<1> DEFINE n == Len(ms)
           t == Append(ms, x)
<1>1. n \in Nat /\ Len(t) = n + 1 /\ t[n + 1] = x /\ \A k \in 1 .. n : t[k] = ms[k]
  BY Appended
<1> HIDE DEF t
<1>2. ASSUME NEW k \in 1 .. n, t[k].role = t[k + 1].role PROVE t[k].role = "tool"
  <2>1. CASE k = n
    <3>1. ms # <<>>
      BY <1>2, EmptySeqLength DEF n
    <3> QED BY <1>1, <1>2, <2>1, <3>1 DEF n
  <2>2. CASE k # n
    <3>1. k \in 1 .. n - 1 /\ k + 1 \in 1 .. n
      BY <1>1, <2>2
    <3>2. t[k] = ms[k] /\ t[k + 1] = ms[k + 1]
      BY <1>1, <3>1
    <3> QED BY <1>2, <3>1, <3>2 DEF Whole, n
  <2> QED BY <2>1, <2>2
<1>3. Len(t) - 1 = n
  BY <1>1
<1> QED BY <1>2, <1>3 DEF Whole, t

\* The attachments of a result under their label, if there are any
Labelled(id, media) == IF media = <<>> THEN <<>> ELSE Cat(<<Text(<<Label(id)>>)>>, media)

LEMMA LabelRead ==
    ASSUME NEW ends, NEW id
    PROVE  LET s == <<Text(<<Label(id)>>)>>
           IN  /\ Attached(s) /\ IsSeq(s) /\ s # <<>>
               /\ Shown(Read(ends, "user", s)) = <<>> /\ IsSeq(Read(ends, "user", s))
<1> DEFINE x == Label(id)
           t == <<x>>
           b == Text(t)
           s == <<b>>
<1>1. x.kind = "label"
  BY DEF Label, Phrase
<1>2. IsSeq(t) /\ Len(t) = 1 /\ t[1] = x
  BY One
<1>3. IsSeq(s) /\ s # <<>>
  BY One
<1>4. b.type = "text" /\ b.text = t /\ b.content = <<>>
  BY DEF Text, Block
<1> HIDE DEF x, t, b
<1>5. AttachedBlock(b)
  BY <1>1, <1>2, <1>4 DEF AttachedBlock
<1>6. Attached(s) /\ Good(s)
  BY <1>5, AttachedOne, AttachedIsGood
<1>7. GoodBlock(b)
  BY <1>2, <1>4, EmptyGood DEF GoodBlock, Types
<1>8. Read(ends, "user", s) = BlockPieces(ends, "user", b)
  BY <1>7, OneRead
<1>9. BlockPieces(ends, "user", b) = Pieces("user", NoId, t)
  BY <1>4, <1>7, OfBlock
<1>10. Silent(Pieces("user", NoId, t)) /\ Shown(Pieces("user", NoId, t)) = <<>>
  <2>1. \A j \in 1 .. Len(t) : Added(t[j])
    BY <1>1, <1>2 DEF Added
  <2>2. "user" # "thinking"
    OBVIOUS
  <2> QED BY <1>2, <2>1, <2>2, AddedIsSilent
<1> QED BY <1>3, <1>6, <1>8, <1>9, <1>10 DEF Silent, b, t, x

LEMMA MediaRead ==
    ASSUME NEW ends, NEW d, IsPlain(d)
    PROVE  LET m == OfType(d, "media")
           IN  Attached(m) /\ Shown(Read(ends, "user", m)) = Joined(m) /\ IsSeq(Read(ends, "user", m))
<1> DEFINE m == OfType(d, "media")
<1>1. IsSeq(d) /\ IsVoiced(d)
  BY DEF IsPlain, IsVoiced
<1>2. IsVoiced(m) /\ \A k \in 1 .. Len(m) : m[k].type = "media"
  BY <1>1, PickIsVoiced, PickedType
<1> HIDE DEF m
<1>3. Attached(m)
  <2>1. ASSUME NEW k \in 1 .. Len(m) PROVE AttachedBlock(m[k])
    <3>1. VoicedBlock(m[k]) /\ m[k].type = "media"
      BY <1>2 DEF IsVoiced
    <3> QED BY <3>1 DEF VoicedBlock, KindsOf, AttachedBlock, AllIn
  <2> QED BY <1>2, <2>1 DEF Attached, IsVoiced
<1>4. OfType(m, "media") = m
  BY <1>2, AllOfType DEF IsVoiced
<1>5. HeardAs(Read(ends, "user", m), "user", NoId, m)
  <2>1. "user" # "thinking"
    OBVIOUS
  <2> QED BY <1>2, <2>1, VoicedHeard
<1> QED BY <1>3, <1>4, <1>5 DEF HeardAs, m

LEMMA LabelledRead ==
    ASSUME NEW ends, NEW id, NEW d, IsPlain(d)
    PROVE  LET m == OfType(d, "media")
               a == Labelled(id, m)
           IN  /\ Attached(a) /\ (a = <<>> <=> m = <<>>)
               /\ Silent(Read(ends, "user", a)) /\ Shown(Read(ends, "user", a)) = Joined(m)
<1> DEFINE m == OfType(d, "media")
           l == <<Text(<<Label(id)>>)>>
           a == Labelled(id, m)
           c == Cat(l, m)
<1>1. Attached(m) /\ Shown(Read(ends, "user", m)) = Joined(m) /\ IsSeq(Read(ends, "user", m))
  BY MediaRead
<1>2. /\ Attached(l) /\ IsSeq(l) /\ l # <<>>
      /\ Shown(Read(ends, "user", l)) = <<>> /\ IsSeq(Read(ends, "user", l))
  BY LabelRead
<1>3. a = IF m = <<>> THEN <<>> ELSE c
  BY DEF Labelled
<1>4. "user" # "thinking"
  OBVIOUS
<1> HIDE DEF m, l, a, c
<1>5. Attached(a) => Silent(Read(ends, "user", a))
  BY <1>4, AttachedRead
<1>6. CASE m = <<>>
  <2>1. Read(ends, "user", m) = <<>> /\ Shown(<<>>) = Joined(m)
    BY <1>1, <1>6, EmptyRead
  <2> QED BY <1>1, <1>3, <1>5, <1>6, <2>1 DEF a, m
<1>7. CASE m # <<>>
  <2>1. Attached(c) /\ Good(m) /\ Good(l) /\ IsSeq(m)
    BY <1>1, <1>2, AttachedCat, AttachedIsGood DEF c, Attached
  <2>2. Read(ends, "user", c) = Cat(Read(ends, "user", l), Read(ends, "user", m))
    BY <2>1, ReadCat DEF c
  <2>3. Shown(Read(ends, "user", c)) = Cat(Shown(Read(ends, "user", l)), Shown(Read(ends, "user", m)))
        /\ IsSeq(Shown(Read(ends, "user", m)))
    BY <1>1, <1>2, <2>2, ShownCat
  <2>4. Shown(Read(ends, "user", c)) = Joined(m)
    BY <1>1, <1>2, <2>3, CatEmpty
  <2>5. c # <<>>
    BY <1>2, <2>1, CatIsEmpty DEF c
  <2> QED BY <1>3, <1>5, <1>7, <2>1, <2>4, <2>5 DEF a, m
<1> QED BY <1>6, <1>7

-----------------------------------------------------------------------------
(* Messages and what waits, read together as p *)

LastRole(st) == st.out[Len(st.out)].role
Chatted(ends, st, p) ==
    /\ st = [out |-> st.out, pending |-> st.pending]
    /\ Readable(ends, "chat", st.out) /\ st.out # <<>> /\ Whole(st.out)
    /\ Attached(st.pending) /\ (st.pending # <<>> => LastRole(st) = "tool")
    /\ IsSeq(p)
    /\ Kept(Cat(ReadMessages(ends, "chat", st.out), Read(ends, "user", st.pending)), p)

\* A message of the chat is read as its blocks
LEMMA ChatMessageRead ==
    ASSUME NEW ends, NEW role, role # "tool", NEW w, Good(w)
    PROVE  LET x == ChatMessage(role, w, <<>>, <<>>, NoId)
           IN  x.role = role /\ WireRead(ends, "chat", x) = Read(ends, role, w)
<1> DEFINE x == ChatMessage(role, w, <<>>, <<>>, NoId)
           e == <<>>
<1>1. x.role = role /\ x.content = w /\ x.reasoning = e /\ x.calls = e
  BY DEF ChatMessage
<1>2. Thought(e) = e
  BY DEF Thought
<1>3. Uses(e) = e
  BY DEF Uses
<1> HIDE DEF x
<1>4. Blocks("chat", x) = Cat(Cat(e, w), e)
  BY <1>1, <1>2, <1>3 DEF Blocks, Cat
<1>5. IsSeq(w)
  BY DEF Good
<1>6. Cat(e, w) = w /\ Cat(w, e) = w
  BY <1>5, CatEmpty
<1> QED BY <1>1, <1>4, <1>6 DEF WireRead, x

LEMMA ToolMessageRead ==
    ASSUME NEW ends, NEW id, NEW d, Texted(d)
    PROVE  LET x == ChatMessage("tool", d, <<>>, <<>>, id)
           IN  x.role = "tool" /\ WireRead(ends, "chat", x) = ResultPieces(id, d)
<1> DEFINE x == ChatMessage("tool", d, <<>>, <<>>, id)
<1>1. x.role = "tool" /\ x.content = d /\ x.id = id
  BY DEF ChatMessage
<1> HIDE DEF x
<1>2. Blocks("chat", x) = <<ToolResult(id, d)>>
  BY <1>1 DEF Blocks
<1> QED BY <1>1, <1>2, ResultOfText DEF WireRead, x

\* One more message
LEMMA ReadableMore ==
    ASSUME NEW ends, NEW s, Readable(ends, "chat", s), Whole(s), NEW x, IsSeq(WireRead(ends, "chat", x)),
           x.role = "tool" \/ s[Len(s)].role # x.role
    PROVE  LET t == Append(s, x)
           IN  /\ Readable(ends, "chat", t) /\ Whole(t) /\ t # <<>> /\ t[Len(t)] = x
               /\ ReadMessages(ends, "chat", t) = Cat(ReadMessages(ends, "chat", s), WireRead(ends, "chat", x))
               /\ IsSeq(ReadMessages(ends, "chat", s))
<1> DEFINE t == Append(s, x)
           n == Len(s)
<1>1. IsSeq(s)
  BY DEF Readable
<1>2. IsSeq(t) /\ n \in Nat /\ Len(t) = n + 1 /\ t[n + 1] = x /\ \A k \in 1 .. n : t[k] = s[k]
  BY <1>1, Appended
<1>3. Whole(t)
  BY <1>1, WholeMore
<1>4. ReadMessages(ends, "chat", t) = Cat(ReadMessages(ends, "chat", s), WireRead(ends, "chat", x))
  BY <1>1, WireMore
<1>5. IsSeq(ReadMessages(ends, "chat", s))
  BY WireLists
<1> HIDE DEF t
<1>6. t # <<>>
  BY <1>2, EmptySeqLength
<1>7. ASSUME NEW k \in 1 .. Len(t) PROVE IsSeq(WireRead(ends, "chat", t[k]))
  <2>1. CASE k \in 1 .. n
    BY <1>2, <2>1 DEF Readable, n
  <2>2. CASE k = n + 1
    BY <1>2, <2>2
  <2> QED BY <1>2, <2>1, <2>2
<1>8. Readable(ends, "chat", t)
  BY <1>2, <1>7 DEF Readable
<1> QED BY <1>2, <1>3, <1>4, <1>5, <1>6, <1>8 DEF t

\* The content of a result, as appendToolResult gets it
Returned(blocks, fallback, d) ==
    /\ OfType(blocks, "media") = OfType(d, "media")
    /\ LET t == IF TextOf(blocks) # <<>> THEN TextOf(blocks) ELSE fallback
       IN  t = TextOf(d) \/ (TextOf(d) = <<>> /\ t = <<Raw>>)

LEMMA ResultAdded ==
    ASSUME NEW ends, NEW st, NEW p, Chatted(ends, st, p), NEW d, IsPlain(d),
           NEW blocks, NEW fallback, Returned(blocks, fallback, d), NEW id
    PROVE  LET new == AddResult(st, id, blocks, fallback)
           IN  Chatted(ends, new, Cat(p, ResultPieces(id, d))) /\ LastRole(new) = "tool"
<1> DEFINE media == OfType(blocks, "media")
           text  == IF TextOf(blocks) # <<>> THEN TextOf(blocks) ELSE fallback
           shown == IF text = <<>> /\ media # <<>> THEN <<Placeholder>> ELSE text
           l     == <<Text(<<Label(id)>>)>>
           x     == ChatMessage("tool", NonEmpty(shown), <<>>, <<>>, id)
           more  == IF media = <<>> THEN st.pending ELSE st.pending \o l \o media
           new   == AddResult(st, id, blocks, fallback)
           a     == Labelled(id, media)
           ra    == Read(ends, "user", a)
           t     == ResultPieces(id, NonEmpty(shown))
<1>1. new = [out |-> Append(st.out, x), pending |-> more]
  BY DEF AddResult
<1>2. media = OfType(d, "media") /\ StandsFor(shown, d)
  BY DEF Returned, StandsFor
<1>3. Attached(a) /\ (a = <<>> <=> media = <<>>) /\ Silent(ra) /\ Shown(ra) = Joined(OfType(d, "media"))
  BY <1>2, LabelledRead
<1>4. IsSeq(l) /\ IsSeq(media) /\ IsSeq(st.pending) /\ Attached(st.pending)
  <2>1. IsSeq(OfType(d, "media"))
    BY PickIsSeq DEF IsPlain, IsVoiced
  <2> QED BY <1>2, <2>1, One DEF Chatted, Attached
<1>5. a = IF media = <<>> THEN <<>> ELSE Cat(l, media)
  BY DEF Labelled
<1>6. more = IF media = <<>> THEN st.pending ELSE Cat(Cat(st.pending, l), media)
  BY DEF Cat
<1> HIDE DEF shown, l, a, more, new, media, x
<1>7. more = Cat(st.pending, a)
  <2>1. CASE media = <<>>
    BY <1>4, <1>5, <1>6, <2>1, CatEmpty
  <2>2. CASE media # <<>>
    BY <1>4, <1>5, <1>6, <2>2, CatAssoc
  <2> QED BY <2>1, <2>2
<1>8. IsSeq(t) /\ Shown(t) = <<>> /\ Texted(NonEmpty(shown)) /\ Kept(Cat(t, ra), ResultPieces(id, d))
  <2> HIDE DEF ra
  <2> QED BY <1>2, <1>3, ResultHeard
<1>9. x.role = "tool" /\ WireRead(ends, "chat", x) = t
  BY <1>8, ToolMessageRead DEF x
<1> HIDE DEF t
<1> DEFINE o == Append(st.out, x)
           r == ReadMessages(ends, "chat", st.out)
<1>10. /\ Readable(ends, "chat", o) /\ Whole(o) /\ o # <<>> /\ o[Len(o)] = x
       /\ ReadMessages(ends, "chat", o) = Cat(r, t) /\ IsSeq(r)
  BY <1>8, <1>9, ReadableMore DEF Chatted
<1> HIDE DEF o, r
<1> DEFINE rp == Read(ends, "user", st.pending)
<1>11. Attached(more) /\ Read(ends, "user", more) = Cat(rp, ra)
  BY <1>3, <1>4, <1>7, AttachedCat, AttachedIsGood, ReadCat
<1>12. Silent(rp)
  <2>1. "user" # "thinking"
    OBVIOUS
  <2> QED BY <1>4, <2>1, AttachedRead
<1>13. IsSeq(p) /\ Kept(Cat(r, rp), p) /\ IsSeq(ResultPieces(id, d)) /\ IsSeq(ra)
  BY <1>3, ResultIsRead DEF Chatted, r, Silent
<1> HIDE DEF rp, ra
<1>14. Kept(Cat(Cat(r, t), Cat(rp, ra)), Cat(p, ResultPieces(id, d)))
  BY <1>8, <1>10, <1>12, <1>13, KeptMove
<1>15. IsSeq(Cat(p, ResultPieces(id, d)))
  BY <1>13, CatIsSeq
<1>16. new.out = o /\ new.pending = more /\ new = [out |-> new.out, pending |-> new.pending]
  BY <1>1 DEF o
<1>17. LastRole(new) = "tool"
  BY <1>9, <1>10, <1>16 DEF LastRole
<1> QED BY <1>10, <1>11, <1>14, <1>15, <1>16, <1>17 DEF Chatted, new

\* toolResultBlocks and toolResultText lose nothing of a result
LEMMA ResultReturned ==
    ASSUME NEW d, IsPlain(d)
    PROVE  Returned(ResultBlocks(d), ResultText(d), d)
<1>1. CASE d = <<>>
  <2> DEFINE t == <<Raw>>
             b == Text(t)
             s == <<b>>
  <2>1. IsSeq(t) /\ t # <<>>
    BY One
  <2>2. b.type = "text" /\ b.text = t
    BY DEF Text, Block
  <2> HIDE DEF b, t
  <2>3. TextOf(s) = t /\ OfType(s, "media") = <<>>
    BY <2>1, <2>2, TextOfOne, OneOfType
  <2>4. TextOf(d) = <<>> /\ OfType(d, "media") = <<>>
    BY <1>1, TextOfNone, EmptyOfType
  <2>5. ResultBlocks(d) = s
    BY <1>1 DEF ResultBlocks, b, t
  <2> HIDE DEF s
  <2> QED BY <2>1, <2>3, <2>4, <2>5 DEF Returned, t
<1>2. CASE d # <<>>
  BY <1>2 DEF Returned, ResultBlocks, ResultText
<1> QED BY <1>1, <1>2

LEMMA ResultsLess ==
    ASSUME NEW f, IsSeq(f), NEW x, IsResults(Append(f, x))
    PROVE  IsResults(f) /\ x = ToolResult(x.id, x.content) /\ IsPlain(x.content)
<1> DEFINE n == Len(f)
           t == Append(f, x)
           Ok(b) == b = ToolResult(b.id, b.content) /\ IsPlain(b.content)
<1>1. n \in Nat /\ Len(t) = n + 1 /\ t[n + 1] = x /\ \A k \in 1 .. n : t[k] = f[k]
  BY Appended
<1>2. \A k \in 1 .. Len(t) : Ok(t[k])
  BY DEF IsResults
<1> HIDE DEF t, Ok
<1>3. \A k \in 1 .. n : Ok(f[k])
  BY <1>1, <1>2
<1>4. Ok(x)
  <2>1. n + 1 \in 1 .. Len(t)
    BY <1>1
  <2> QED BY <1>1, <1>2, <2>1
<1> QED BY <1>3, <1>4 DEF Ok, IsResults, n

\* All results of a message
LEMMA ResultsAdded ==
    ASSUME NEW ends, NEW st, NEW p, Chatted(ends, st, p), NEW all, IsResults(all)
    PROVE  LET new == AddResults(st, all)
           IN  /\ Chatted(ends, new, Cat(p, Read(ends, "user", all)))
               /\ (all = <<>> => new = st) /\ (all # <<>> => LastRole(new) = "tool")
<1> DEFINE Ok(rs) == LET new == AddResults(st, rs)
                     IN  /\ Chatted(ends, new, Cat(p, Read(ends, "user", rs)))
                         /\ (rs = <<>> => new = st) /\ (rs # <<>> => LastRole(new) = "tool")
           S == {n \in Nat : \A rs : IsResults(rs) /\ Len(rs) = n => Ok(rs)}
<1>0. IsSeq(p)
  BY DEF Chatted
<1>1. 0 \in S
  <2>1. ASSUME NEW rs, IsResults(rs), Len(rs) = 0 PROVE Ok(rs)
    <3> DEFINE e == <<>>
    <3>1. rs = e
      BY <2>1, EmptySeqLength DEF IsResults
    <3>2. Read(ends, "user", e) = e /\ Cat(p, e) = p /\ AddResults(st, e) = st
      BY <1>0, EmptyRead, CatEmpty, AddResultsEmpty
    <3> QED BY <3>1, <3>2
  <2> QED BY <2>1
<1>2. ASSUME NEW n \in S PROVE n + 1 \in S
  <2>1. n \in Nat /\ \A rs : IsResults(rs) /\ Len(rs) = n => Ok(rs)
    OBVIOUS
  <2> HIDE DEF S
  <2>2. ASSUME NEW w, IsResults(w), Len(w) = n + 1 PROVE Ok(w)
    <3>1. IsSeq(w)
      BY <2>2 DEF IsResults
    <3>2. PICK f : IsSeq(f) /\ Len(f) = n /\ w = Append(f, w[n + 1])
      BY <2>1, <2>2, <3>1, Shortened
    <3> DEFINE x == w[n + 1]
               y == <<x>>
    <3>3. w = Append(f, x)
      BY <3>2
    <3> HIDE DEF x
    <3>4. IsResults(f) /\ x = ToolResult(x.id, x.content) /\ IsPlain(x.content)
      BY <2>2, <3>2, <3>3, ResultsLess
    <3>5. Ok(f)
      BY <2>1, <3>2, <3>4
    <3> DEFINE id  == x.id
               d   == x.content
               old == AddResults(st, f)
               new == AddResult(old, id, ResultBlocks(d), ResultText(d))
               pf  == Cat(p, Read(ends, "user", f))
               rx  == ResultPieces(id, d)
    <3>6. Chatted(ends, old, pf)
      BY <3>5
    <3>7. AddResults(st, w) = new
      BY <3>2, <3>3, AddResultsAppend
    <3>8. Returned(ResultBlocks(d), ResultText(d), d)
      BY <3>4, ResultReturned
    <3>9. IsPlain(d) /\ x = ToolResult(id, d)
      BY <3>4
    <3>10. Read(ends, "user", <<ToolResult(id, d)>>) = rx /\ IsSeq(rx)
      BY <3>9, ResultIsRead
    <3>11. Read(ends, "user", y) = rx
      BY <3>9, <3>10
    <3> HIDE DEF id, d, old, pf, rx
    <3>12. Chatted(ends, new, Cat(pf, ResultPieces(id, d))) /\ LastRole(new) = "tool"
      BY <3>6, <3>8, <3>9, ResultAdded
    <3>13. w = Cat(f, y) /\ w # <<>>
      BY <2>1, <2>2, <3>1, <3>2, <3>3, CatOne, EmptySeqLength
    <3>14. Good(y) /\ Good(f)
      <4>1. <<ToolResult(id, d)>> = y
        BY <3>9
      <4>2. Good(<<ToolResult(id, d)>>)
        BY <3>9, OneResult
      <4> QED BY <3>4, <4>1, <4>2, ResultsAreGood
    <3> HIDE DEF y, new
    <3>15. Read(ends, "user", w) = Cat(Read(ends, "user", f), rx) /\ IsSeq(Read(ends, "user", f))
      BY <3>11, <3>13, <3>14, ReadCat, ReadIsSeq
    <3>16. Cat(p, Read(ends, "user", w)) = Cat(pf, rx)
      BY <1>0, <3>10, <3>15, CatAssoc DEF pf
    <3> QED BY <3>7, <3>12, <3>13, <3>16 DEF rx
  <2> QED BY <2>1, <2>2 DEF S
<1> HIDE DEF S
<1>3. S = Nat
  <2>1. S \in SUBSET Nat
    BY DEF S
  <2> QED BY <1>1, <1>2, <2>1, SetInduction
<1>4. Len(all) \in Nat
  BY SeqLength DEF IsResults
<1>5. Ok(all)
  BY <1>3, <1>4 DEF S
<1> QED BY <1>5

\* A message of the user takes all that waits
LEMMA UserAdded ==
    ASSUME NEW ends, NEW st, NEW p, Chatted(ends, st, p), LastRole(st) # "user", NEW own, Good(own)
    PROVE  LET new == [out     |-> Append(st.out, ChatMessage("user", st.pending \o own, <<>>, <<>>, NoId)),
                       pending |-> <<>>]
           IN  Chatted(ends, new, Cat(p, Read(ends, "user", own))) /\ LastRole(new) = "user"
<1> DEFINE w   == Cat(st.pending, own)
           x   == ChatMessage("user", w, <<>>, <<>>, NoId)
           o   == Append(st.out, x)
           e   == <<>>
           new == [out |-> o, pending |-> e]
           rp  == Read(ends, "user", st.pending)
           ro  == Read(ends, "user", own)
           r   == ReadMessages(ends, "chat", st.out)
<1>1. Attached(st.pending) /\ Good(st.pending)
  BY AttachedIsGood DEF Chatted
<1>2. Good(w) /\ Read(ends, "user", w) = Cat(rp, ro) /\ IsSeq(rp) /\ IsSeq(ro)
  BY <1>1, GoodCat, ReadCat, ReadIsSeq
<1> HIDE DEF w
<1>3. x.role = "user" /\ WireRead(ends, "chat", x) = Read(ends, "user", w)
  <2>1. "user" # "tool"
    OBVIOUS
  <2> QED BY <1>2, <2>1, ChatMessageRead
<1> HIDE DEF x, rp, ro
<1>4. IsSeq(Cat(rp, ro))
  BY <1>2, CatIsSeq
<1>5. /\ Readable(ends, "chat", o) /\ Whole(o) /\ o # <<>> /\ o[Len(o)] = x
      /\ ReadMessages(ends, "chat", o) = Cat(r, Cat(rp, ro)) /\ IsSeq(r)
  BY <1>2, <1>3, <1>4, ReadableMore DEF Chatted, LastRole
<1> HIDE DEF o
<1>6. IsSeq(p) /\ Kept(Cat(r, rp), p)
  BY DEF Chatted, rp
<1> HIDE DEF r
<1>7. Kept(Cat(Cat(r, rp), ro), Cat(p, ro)) /\ Cat(Cat(r, rp), ro) = Cat(r, Cat(rp, ro))
  <2>1. Kept(ro, ro) /\ IsSeq(Cat(r, rp))
    BY <1>2, <1>5, KeptSame, CatIsSeq
  <2> QED BY <1>2, <1>5, <1>6, <2>1, KeptCat, CatAssoc
<1>8. Read(ends, "user", e) = e /\ Cat(Cat(r, Cat(rp, ro)), e) = Cat(r, Cat(rp, ro)) /\ Attached(e)
  <2>1. IsSeq(Cat(r, Cat(rp, ro)))
    BY <1>4, <1>5, CatIsSeq
  <2> QED BY <2>1, EmptyRead, CatEmpty, EmptyIsSeq DEF Attached
<1>9. IsSeq(Cat(p, ro))
  BY <1>2, <1>6, CatIsSeq
<1>10. new.out = o /\ new.pending = e /\ new = [out |-> new.out, pending |-> new.pending]
  OBVIOUS
<1>11. e = <<>>
  OBVIOUS
<1> HIDE DEF new, e
<1>12. LastRole(new) = "user"
  BY <1>3, <1>5, <1>10 DEF LastRole
<1>13. Chatted(ends, new, Cat(p, ro))
  BY <1>5, <1>7, <1>8, <1>9, <1>10, <1>11 DEF Chatted
<1> QED BY <1>12, <1>13 DEF new, o, e, x, w, ro, Cat

\* What waits is sent before anything of the assistant
LEMMA MediaFlushed ==
    ASSUME NEW ends, NEW st, NEW p, Chatted(ends, st, p)
    PROVE  LET new == FlushMedia(st)
           IN  /\ Chatted(ends, new, p) /\ new.pending = <<>>
               /\ LastRole(new) \in {LastRole(st), "user"}
<1> DEFINE e == <<>>
<1>1. CASE st.pending = <<>>
  BY <1>1 DEF FlushMedia
<1>2. CASE st.pending # <<>>
  <2> DEFINE new == [out     |-> Append(st.out, ChatMessage("user", st.pending \o e, <<>>, <<>>, NoId)),
                     pending |-> <<>>]
  <2>1. IsSeq(st.pending) /\ IsSeq(p)
    BY DEF Chatted, Attached
  <2>2. st.pending \o e = st.pending /\ Cat(p, e) = p
    BY <2>1, CatEmpty DEF Cat
  <2>3. FlushMedia(st) = new
    BY <1>2, <2>2 DEF FlushMedia
  <2>4. Good(e) /\ LastRole(st) # "user" /\ Read(ends, "user", e) = e
    BY <1>2, EmptyGood, EmptyRead DEF Chatted
  <2>5. new.pending = <<>>
    OBVIOUS
  <2> HIDE DEF e
  <2>6. Chatted(ends, new, Cat(p, Read(ends, "user", e))) /\ LastRole(new) = "user"
    BY <2>4, UserAdded
  <2> QED BY <2>2, <2>3, <2>4, <2>5, <2>6
<1> QED BY <1>1, <1>2

\* Thinking, put together, is thinking
LEMMA ThinkingIsThought ==
    ASSUME NEW all, IsVoiced(all), \A k \in 1 .. Len(all) : all[k].type = "thinking"
    PROVE  AllIn(Joined(all), {"thinking"})
<1> DEFINE Hyp(bs) == IsVoiced(bs) /\ \A k \in 1 .. Len(bs) : bs[k].type = "thinking"
           Ok(bs) == AllIn(Joined(bs), {"thinking"})
           S == {n \in Nat : \A bs : Hyp(bs) /\ Len(bs) = n => Ok(bs)}
<1>1. 0 \in S
  <2>1. ASSUME NEW bs, Hyp(bs), Len(bs) = 0 PROVE Ok(bs)
    <3>1. bs = <<>>
      BY <2>1, EmptySeqLength DEF IsVoiced
    <3> QED BY <3>1, EmptyJoined, EmptyIsSeq DEF AllIn
  <2> QED BY <2>1
<1>2. ASSUME NEW n \in S PROVE n + 1 \in S
  <2>1. n \in Nat /\ \A bs : Hyp(bs) /\ Len(bs) = n => Ok(bs)
    OBVIOUS
  <2> HIDE DEF S
  <2>2. ASSUME NEW w, Hyp(w), Len(w) = n + 1 PROVE Ok(w)
    <3>1. IsSeq(w)
      BY <2>2 DEF IsVoiced
    <3>2. PICK f : IsSeq(f) /\ Len(f) = n /\ w = Append(f, w[n + 1])
      BY <2>1, <2>2, <3>1, Shortened
    <3> DEFINE x == w[n + 1]
               y == <<x>>
    <3>3. w = Append(f, x)
      BY <3>2
    <3>4. x.type = "thinking"
      BY <2>1, <2>2
    <3> HIDE DEF x
    <3>5. IsVoiced(f) /\ VoicedBlock(x) /\ IsVoiced(y) /\ w = Cat(f, y)
      BY <2>2, <3>2, <3>3, VoicedLess
    <3>6. \A k \in 1 .. n : w[k] = f[k]
      BY <3>2, <3>3, Appended
    <3>7. Ok(f)
      <4>1. \A k \in 1 .. n : w[k].type = "thinking"
        BY <2>1, <2>2
      <4>2. Hyp(f)
        BY <3>2, <3>5, <3>6, <4>1
      <4> QED BY <2>1, <3>2, <4>2
    <3>8. AllIn(x.text, {"thinking"}) /\ IsSeq(x.text)
      BY <3>4, <3>5 DEF VoicedBlock, KindsOf, AllIn
    <3>9. Joined(y) = x.text
      BY <3>8, OneJoined
    <3>10. Texted(f) /\ Texted(y)
      BY <3>5, VoicedIsGood
    <3> HIDE DEF y
    <3>11. Joined(w) = Cat(Joined(f), Joined(y))
      BY <3>5, <3>10, JoinedCat
    <3> QED BY <3>7, <3>8, <3>9, <3>11, AllInCat
  <2> QED BY <2>1, <2>2 DEF S
<1> HIDE DEF S
<1>3. S = Nat
  <2>1. S \in SUBSET Nat
    BY DEF S
  <2> QED BY <1>1, <1>2, <2>1, SetInduction
<1>4. Len(all) \in Nat
  BY SeqLength DEF IsVoiced
<1> QED BY <1>3, <1>4 DEF S

\* Calls for Chat Completions are read alike
ChatCalls(u) == [k \in DOMAIN u |-> Call(u[k].id, AsText(u[k].args))]

LEMMA ArgsOfText == ASSUME NEW ends, NEW a PROVE Args(ends, AsText(a)) = Args(ends, a)
BY DEF Args, AsText, AsObject

LEMMA ChatCallsRead ==
    ASSUME NEW ends, NEW r, NEW u, IsUses(u)
    PROVE  LET v == Uses(ChatCalls(u))
           IN  Good(v) /\ Read(ends, r, v) = Read(ends, r, u)
<1> DEFINE cs == ChatCalls(u)
           v  == Uses(cs)
           f  == ReadParts(ends, r, v)
           g  == ReadParts(ends, r, u)
<1>1. IsSeq(u) /\ DOMAIN u = 1 .. Len(u) /\ Len(u) \in Nat
  BY SeqLength DEF IsUses
<1>2. cs = [k \in DOMAIN u |-> cs[k]] /\ \A k \in DOMAIN u : cs[k] = Call(u[k].id, AsText(u[k].args))
  BY DEF ChatCalls
<1> HIDE DEF cs
<1>3. IsSeq(cs) /\ Len(cs) = Len(u) /\ DOMAIN cs = DOMAIN u
  BY <1>1, <1>2, CallsMapped
<1>4. \A k \in DOMAIN u : cs[k].id = u[k].id /\ cs[k].args = AsText(u[k].args)
                          /\ cs[k] = Call(cs[k].id, cs[k].args)
  <2>1. ASSUME NEW k \in DOMAIN u
        PROVE  cs[k].id = u[k].id /\ cs[k].args = AsText(u[k].args) /\ cs[k] = Call(cs[k].id, cs[k].args)
    <3> DEFINE b == cs[k]
               i == u[k].id
               a == AsText(u[k].args)
    <3>1. b = Call(i, a)
      BY <1>2
    <3> HIDE DEF b, i, a
    <3>2. b.id = i /\ b.args = a /\ b = Call(b.id, b.args)
      BY <3>1 DEF Call
    <3> QED BY <3>2 DEF b, i, a
  <2> QED BY <2>1
<1>5. IsCalls(cs)
  BY <1>1, <1>3, <1>4 DEF IsCalls
<1>6. /\ IsUses(v) /\ DOMAIN v = DOMAIN u /\ Len(v) = Len(u)
      /\ \A k \in DOMAIN u : v[k] = ToolUse(cs[k].id, cs[k].args)
  BY <1>3, <1>5, UsesAre
<1> HIDE DEF v
<1>7. Good(v) /\ Good(u)
  BY <1>6, UsesAreGood
<1>8. ASSUME NEW k \in DOMAIN u PROVE BlockPieces(ends, r, v[k]) = BlockPieces(ends, r, u[k])
  <2> DEFINE x == v[k]
             y == u[k]
             i == y.id
             a == y.args
  <2>1. x = ToolUse(i, AsText(a))
    BY <1>4, <1>6
  <2>2. y = ToolUse(i, a)
    BY <1>1 DEF IsUses
  <2>3. GoodBlock(x) /\ GoodBlock(y)
    BY <1>1, <1>6, <1>7 DEF Good
  <2> HIDE DEF x, y, i, a
  <2>4. x.type = "tool_use" /\ x.id = i /\ x.args = AsText(a)
    BY <2>1 DEF ToolUse, Block
  <2>5. y.type = "tool_use" /\ y.id = i /\ y.args = a
    BY <2>2 DEF ToolUse, Block
  <2>6. BlockPieces(ends, r, x) = <<Piece("call", x.id, Phrase(Args(ends, x.args), 0))>>
    BY <2>3, <2>4, OfBlock
  <2>7. BlockPieces(ends, r, y) = <<Piece("call", y.id, Phrase(Args(ends, y.args), 0))>>
    BY <2>3, <2>5, OfBlock
  <2> QED BY <2>4, <2>5, <2>6, <2>7, ArgsOfText DEF x, y
<1>9. f = g
  BY <1>6, <1>8 DEF ReadParts
<1>10. Read(ends, r, v) = FlattenSeq(f) /\ Read(ends, r, u) = FlattenSeq(g)
  BY DEF Read, ReadParts
<1> HIDE DEF f, g
<1> QED BY <1>7, <1>9, <1>10 DEF v, cs

\* Thinking first, then texts and media, is what was said
LEMMA ThoughtFirst ==
    ASSUME NEW r, r # "thinking", NEW ends, NEW a, IsVoiced(a)
    PROVE  LET b == Cat(Thought(Joined(OfType(a, "thinking"))), Without(a, "thinking"))
           IN  IsVoiced(b) /\ Kept(Read(ends, r, b), Read(ends, r, a))
<1> DEFINE h == OfType(a, "thinking")
           t == Joined(h)
           o == Thought(t)
           w == Without(a, "thinking")
           b == Cat(o, w)
<1>1. IsSeq(a) /\ IsVoiced(w) /\ IsVoiced(h) /\ Texted(a)
  BY VoicedIsGood, PickIsVoiced
<1>2. AllIn(t, {"thinking"})
  <2>1. \A k \in 1 .. Len(h) : h[k].type = "thinking"
    BY <1>1, PickedType
  <2> HIDE DEF h
  <2> QED BY <1>1, <2>1, ThinkingIsThought
<1>3. IsSeq(t)
  BY <1>2 DEF AllIn
<1> HIDE DEF t
<1>4. IsVoiced(o)
  <2>1. CASE t = <<>>
    BY <2>1, EmptyVoiced DEF Thought
  <2>2. CASE t # <<>>
    <3> DEFINE x == Thinking(t)
    <3>1. o = <<x>>
      BY <2>2 DEF Thought
    <3>2. x.type = "thinking" /\ x.text = t /\ x.content = <<>>
      BY DEF Thinking, Block
    <3> HIDE DEF x
    <3>3. VoicedBlock(x)
      BY <1>2, <2>2, <3>2 DEF VoicedBlock, KindsOf, AllIn
    <3> QED BY <3>1, <3>3, OneVoiced
  <2> QED BY <2>1, <2>2
<1>5. /\ Joined(o) = t /\ OfType(o, "thinking") = o /\ OfType(o, "text") = <<>> /\ OfType(o, "media") = <<>>
  BY <1>3, OfThought
<1>6. OfType(w, "text") = OfType(a, "text") /\ OfType(w, "media") = OfType(a, "media") /\ OfType(w, "thinking") = <<>>
  <2>1. "text" # "thinking" /\ "media" # "thinking"
    OBVIOUS
  <2> QED BY <1>1, <2>1, RestHas
<1> HIDE DEF o, w
<1>7. IsVoiced(b) /\ IsSeq(o) /\ IsSeq(w)
  BY <1>1, <1>4, VoicedCat, VoicedIsGood
<1>8. OfType(b, "text") = OfType(a, "text") /\ OfType(b, "media") = OfType(a, "media") /\ OfType(b, "thinking") = o
  <2>1. IsSeq(OfType(a, "text")) /\ IsSeq(OfType(a, "media"))
    BY <1>1, PickIsSeq
  <2>2. OfType(b, "text") = Cat(<<>>, OfType(a, "text"))
    BY <1>5, <1>6, <1>7, OfTypeCat
  <2>3. OfType(b, "media") = Cat(<<>>, OfType(a, "media"))
    BY <1>5, <1>6, <1>7, OfTypeCat
  <2>4. OfType(b, "thinking") = Cat(o, <<>>)
    BY <1>5, <1>6, <1>7, OfTypeCat
  <2> QED BY <1>7, <2>1, <2>2, <2>3, <2>4, CatEmpty
<1> HIDE DEF b
<1>9. HeardAs(Read(ends, r, a), r, NoId, a) /\ HeardAs(Read(ends, r, b), r, NoId, b)
  BY <1>7, VoicedHeard
<1>10. TextOf(b) = TextOf(a)
  BY <1>8 DEF TextOf
<1>11. Joined(OfType(b, "thinking")) = Joined(OfType(a, "thinking"))
  BY <1>5, <1>8 DEF t, h
<1> QED BY <1>7, <1>8, <1>9, <1>10, <1>11, AlikeKept DEF b, o, w, t, h

\* A message of the assistant taken apart
LEMMA AssistantParts ==
    ASSUME NEW m, NEW a, NEW u, TalkMsg(m, a, u)
    PROVE  AssistantToChat(m) = ChatMessage("assistant", Without(a, "thinking"), Joined(OfType(a, "thinking")),
                                            ChatCalls(u), NoId)
<1> DEFINE b == Cat(a, u)
           e == <<>>
           c == m.content
<1>1. /\ IsVoiced(a) /\ IsUses(u) /\ (a # <<>> \/ u # <<>>) /\ Fits(m, b)
      /\ IsSeq(a) /\ IsSeq(u)
  BY VoicedIsGood DEF TalkMsg, IsUses
<1>2. OfType(a, "tool_use") = e /\ Without(a, "tool_use") = a
  BY <1>1, OfVoiced
<1>3. OfType(u, "tool_use") = u /\ Without(u, "tool_use") = e /\ OfType(u, "thinking") = e
  BY <1>1, OfUses
<1>4. OfType(b, "tool_use") = Cat(OfType(a, "tool_use"), OfType(u, "tool_use"))
  BY <1>1, OfTypeCat
<1>5. OfType(b, "thinking") = Cat(OfType(a, "thinking"), OfType(u, "thinking")) /\ IsSeq(OfType(a, "thinking"))
  BY <1>1, OfTypeCat, PickIsSeq
<1>6. Without(b, "tool_use") = Cat(Without(a, "tool_use"), Without(u, "tool_use"))
  BY <1>1, WithoutCat
<1>7. \A x : IsSeq(x) => Cat(e, x) = x /\ Cat(x, e) = x
  BY CatEmpty
<1>8. b # <<>>
  BY <1>1, CatIsEmpty
<1>9. OfType(b, "tool_use") = u /\ OfType(b, "thinking") = OfType(a, "thinking") /\ Without(b, "tool_use") = a
  <2> HIDE DEF b, e
  <2> QED BY <1>1, <1>2, <1>3, <1>4, <1>5, <1>6, <1>7
<1>10. AssistantToChat(m)
       = ChatMessage("assistant", IF c = <<>> THEN NonEmpty(m.text) ELSE Without(Without(c, "tool_use"), "thinking"),
                     Joined(OfType(c, "thinking")), ChatCalls(OfType(c, "tool_use")), NoId)
  BY DEF AssistantToChat, ChatCalls
<1>11. CASE c = b
  <2> HIDE DEF b
  <2> QED BY <1>8, <1>9, <1>10, <1>11
<1>12. CASE c = <<>> /\ b = NonEmpty(m.text)
  <2> DEFINE x == Text(m.text)
             y == <<x>>
  <2>1. b = y
    BY <1>8, <1>12 DEF NonEmpty
  <2>2. x.type = "text"
    BY DEF Text, Block
  <2> HIDE DEF x
  <2>3. OfType(y, "tool_use") = <<>> /\ OfType(y, "thinking") = <<>> /\ Without(y, "thinking") = y
        /\ Without(y, "tool_use") = y
    BY <2>2, OneOfType
  <2> HIDE DEF y, b
  <2>4. u = <<>> /\ a = b
    BY <1>9, <2>1, <2>3
  <2>5. NonEmpty(m.text) = Without(a, "thinking") /\ OfType(a, "thinking") = <<>>
    BY <1>12, <2>1, <2>3, <2>4
  <2>6. OfType(<<>>, "thinking") = <<>> /\ OfType(<<>>, "tool_use") = <<>>
    BY EmptyOfType
  <2>7. OfType(c, "thinking") = OfType(a, "thinking") /\ OfType(c, "tool_use") = u
    BY <1>12, <2>4, <2>5, <2>6
  <2> HIDE DEF c
  <2> QED BY <1>10, <1>12, <2>5, <2>7
<1> QED BY <1>1, <1>11, <1>12 DEF Fits

LEMMA AssistantRead ==
    ASSUME NEW m, NEW a, NEW u, TalkMsg(m, a, u), NEW ends
    PROVE  LET x == AssistantToChat(m)
           IN  /\ x.role = "assistant" /\ IsSeq(WireRead(ends, "chat", x))
               /\ Kept(WireRead(ends, "chat", x), MsgRead(ends, m))
<1> DEFINE w  == Without(a, "thinking")
           t  == Joined(OfType(a, "thinking"))
           cs == ChatCalls(u)
           x  == AssistantToChat(m)
           b  == Cat(Thought(t), w)
           v  == Uses(cs)
           r  == "assistant"
<1>1. IsVoiced(a) /\ IsUses(u) /\ m.role = "assistant" /\ Good(a) /\ Good(u)
  BY VoicedIsGood, UsesAreGood DEF TalkMsg
<1>2. x = ChatMessage("assistant", w, t, cs, NoId)
  BY AssistantParts
<1>3. r # "thinking"
  OBVIOUS
<1>4. IsVoiced(b) /\ Kept(Read(ends, r, b), Read(ends, r, a))
  <2> HIDE DEF r
  <2> QED BY <1>1, <1>3, ThoughtFirst
<1>5. Good(v) /\ Read(ends, r, v) = Read(ends, r, u)
  BY <1>1, ChatCallsRead
<1> HIDE DEF w, t, cs, x
<1>6. x.role = r /\ x.content = w /\ x.reasoning = t /\ x.calls = cs
  BY <1>2 DEF ChatMessage
<1>7. Blocks("chat", x) = Cat(b, v)
  BY <1>6 DEF Blocks, Cat
<1> HIDE DEF b, v
<1>8. Good(b)
  BY <1>4, VoicedIsGood
<1>9. Read(ends, r, Cat(b, v)) = Cat(Read(ends, r, b), Read(ends, r, v))
  BY <1>5, <1>8, ReadCat
<1>10. Read(ends, r, Cat(a, u)) = Cat(Read(ends, r, a), Read(ends, r, u))
  BY <1>1, ReadCat
<1>11. MsgRead(ends, m) = Read(ends, r, Cat(a, u))
  BY <1>1, BlocksOfTalk DEF MsgRead
<1>12. IsSeq(Read(ends, r, a)) /\ IsSeq(Read(ends, r, b)) /\ IsSeq(Read(ends, r, u))
  BY <1>1, <1>8, ReadIsSeq
<1>13. Kept(Cat(Read(ends, r, b), Read(ends, r, u)), Cat(Read(ends, r, a), Read(ends, r, u)))
  BY <1>4, <1>12, KeptSame, KeptCat
<1>14. IsSeq(Cat(Read(ends, r, b), Read(ends, r, u)))
  BY <1>12, CatIsSeq
<1>15. WireRead(ends, "chat", x) = Cat(Read(ends, r, b), Read(ends, r, u))
  BY <1>5, <1>6, <1>7, <1>9 DEF WireRead
<1> QED BY <1>6, <1>10, <1>11, <1>13, <1>14, <1>15 DEF x, r

\* Each message joins what there is
JoinsChat(ends, new, p, m) ==
    Chatted(ends, new, Cat(p, MsgRead(ends, m))) /\ LastRole(new) \in {"tool", m.role}

LEMMA ToolJoins ==
    ASSUME NEW ends, NEW st, NEW p, Chatted(ends, st, p), NEW m, ToolMsg(m)
    PROVE  JoinsChat(ends, MessageToChat(st, m), p, m)
<1> DEFINE d == MessageOutput(m)
<1>1. m.role = "tool" /\ IsPlain(d) /\ Returned(m.content, m.text, d)
  BY DEF ToolMsg, Returned
<1>2. MsgBlocks(m) = <<ToolResult(m.id, d)>>
  BY <1>1 DEF MsgBlocks
<1>3. MessageToChat(st, m) = AddResult(st, m.id, m.content, m.text)
  BY <1>1 DEF MessageToChat
<1> HIDE DEF d
<1>4. MsgRead(ends, m) = ResultPieces(m.id, d)
  BY <1>1, <1>2, ResultIsRead DEF MsgRead
<1>5. /\ Chatted(ends, AddResult(st, m.id, m.content, m.text), Cat(p, ResultPieces(m.id, d)))
      /\ LastRole(AddResult(st, m.id, m.content, m.text)) = "tool"
  BY <1>1, ResultAdded
<1> QED BY <1>3, <1>4, <1>5 DEF JoinsChat

\* What becomes of a message of the user
LEMMA UserToChatIs ==
    ASSUME NEW m, NEW rs, NEW own, UserMsg(m, rs, own), NEW st
    PROVE  LET after == AddResults(st, rs)
           IN  MessageToChat(st, m)
               = IF rs # <<>> /\ own = <<>> THEN after
                 ELSE [out     |-> Append(after.out, ChatMessage("user", after.pending \o own, <<>>, <<>>, NoId)),
                       pending |-> <<>>]
<1> DEFINE c     == m.content
           b     == Cat(rs, own)
           mine  == IF c = <<>> THEN NonEmpty(m.text) ELSE Without(c, "tool_result")
           after == AddResults(st, rs)
           e     == <<>>
           new   == [out     |-> Append(after.out, ChatMessage("user", after.pending \o own, <<>>, <<>>, NoId)),
                     pending |-> <<>>]
<1>1. /\ m.role = "user" /\ IsResults(rs) /\ IsPlain(own) /\ (rs # <<>> \/ own # <<>>)
      /\ Fits(m, b) /\ IsSeq(rs) /\ IsSeq(own) /\ Good(rs) /\ Good(own)
  BY PlainIsGood, ResultsAreGood DEF UserMsg, IsResults
<1>2. OfType(rs, "tool_result") = rs /\ Without(rs, "tool_result") = e
  BY <1>1, ResultsNoText
<1>3. OfType(own, "tool_result") = e /\ Without(own, "tool_result") = own
  BY <1>1, OfPlain
<1>4. OfType(b, "tool_result") = rs /\ Without(b, "tool_result") = own
  <2>1. OfType(b, "tool_result") = Cat(rs, e)
    BY <1>1, <1>2, <1>3, OfTypeCat
  <2>2. Without(b, "tool_result") = Cat(e, own)
    BY <1>1, <1>2, <1>3, WithoutCat
  <2> QED BY <1>1, <2>1, <2>2, CatEmpty
<1>5. b # <<>>
  BY <1>1, CatIsEmpty
<1>6. OfType(c, "tool_result") = rs /\ mine = own
  <2>1. CASE c = b
    <3> HIDE DEF b
    <3> QED BY <1>4, <1>5, <2>1
  <2>2. CASE c = <<>> /\ b = NonEmpty(m.text)
    <3> DEFINE x == Text(m.text)
               y == <<x>>
    <3>1. b = y
      BY <1>5, <2>2 DEF NonEmpty
    <3>2. x.type = "text"
      BY DEF Text, Block
    <3> HIDE DEF x
    <3>3. OfType(y, "tool_result") = <<>> /\ Without(y, "tool_result") = y
      BY <3>2, OneOfType
    <3> HIDE DEF y, b
    <3>4. rs = <<>> /\ own = b
      BY <1>4, <3>1, <3>3
    <3>5. OfType(<<>>, "tool_result") = <<>>
      BY EmptyOfType
    <3> QED BY <2>2, <3>4, <3>5
  <2> QED BY <1>1, <2>1, <2>2 DEF Fits
<1>7. MessageToChat(st, m) = UserToChat(st, m)
  BY <1>1 DEF MessageToChat
<1>8. UserToChat(st, m) = IF rs # <<>> /\ own = <<>> THEN after ELSE new
  <2>1. UserToChat(st, m)
        = IF OfType(c, "tool_result") # <<>> /\ mine = <<>> THEN AddResults(st, OfType(c, "tool_result"))
          ELSE [out |-> Append(AddResults(st, OfType(c, "tool_result")).out,
                               ChatMessage("user", AddResults(st, OfType(c, "tool_result")).pending \o mine,
                                           <<>>, <<>>, NoId)),
                pending |-> <<>>]
    BY DEF UserToChat
  <2> HIDE DEF c, mine
  <2> QED BY <1>6, <2>1
<1> QED BY <1>7, <1>8

LEMMA UserJoins ==
    ASSUME NEW ends, NEW st, NEW p, Chatted(ends, st, p), NEW m, NEW rs, NEW own, UserMsg(m, rs, own),
           LastRole(st) # "user"
    PROVE  JoinsChat(ends, MessageToChat(st, m), p, m)
<1> DEFINE after == AddResults(st, rs)
           new   == [out     |-> Append(after.out, ChatMessage("user", after.pending \o own, <<>>, <<>>, NoId)),
                     pending |-> <<>>]
           r     == Read(ends, "user", rs)
           o     == Read(ends, "user", own)
<1>1. m.role = "user" /\ IsResults(rs) /\ Good(rs) /\ Good(own)
  BY PlainIsGood, ResultsAreGood DEF UserMsg
<1>2. MessageToChat(st, m) = IF rs # <<>> /\ own = <<>> THEN after ELSE new
  BY UserToChatIs
<1>3. /\ Chatted(ends, after, Cat(p, r))
      /\ (rs = <<>> => after = st) /\ (rs # <<>> => LastRole(after) = "tool")
  BY <1>1, ResultsAdded
<1>4. MsgRead(ends, m) = Cat(r, o) /\ IsSeq(r) /\ IsSeq(o)
  <2>1. MsgRead(ends, m) = Read(ends, "user", Cat(rs, own))
    BY <1>1, BlocksOfUser DEF MsgRead
  <2> QED BY <1>1, <2>1, ReadCat, ReadIsSeq
<1>5. IsSeq(p)
  BY DEF Chatted
<1> HIDE DEF after, r
<1>6. CASE rs # <<>> /\ own = <<>>
  <2>1. o = <<>>
    BY <1>6, EmptyRead
  <2>2. Cat(r, o) = r
    BY <1>4, <2>1, CatEmpty
  <2> HIDE DEF o
  <2> QED BY <1>2, <1>3, <1>4, <1>6, <2>2 DEF JoinsChat
<1>7. CASE ~(rs # <<>> /\ own = <<>>)
  <2>1. LastRole(after) # "user"
    BY <1>3
  <2>2. Chatted(ends, new, Cat(Cat(p, r), o)) /\ LastRole(new) = "user"
    BY <1>1, <1>3, <2>1, UserAdded
  <2> HIDE DEF new, o
  <2>3. Cat(Cat(p, r), o) = Cat(p, Cat(r, o))
    BY <1>4, <1>5, CatAssoc
  <2> QED BY <1>1, <1>2, <1>4, <1>7, <2>2, <2>3 DEF JoinsChat
<1> QED BY <1>6, <1>7

LEMMA TalkJoins ==
    ASSUME NEW ends, NEW st, NEW p, Chatted(ends, st, p), NEW m, NEW a, NEW u, TalkMsg(m, a, u),
           LastRole(st) # "assistant"
    PROVE  JoinsChat(ends, MessageToChat(st, m), p, m)
<1> DEFINE fl  == FlushMedia(st)
           x   == AssistantToChat(m)
           o   == Append(fl.out, x)
           new == [out |-> o, pending |-> fl.pending]
           q   == MsgRead(ends, m)
           wr  == WireRead(ends, "chat", x)
           r   == ReadMessages(ends, "chat", fl.out)
           rp  == Read(ends, "user", fl.pending)
<1>1. m.role = "assistant"
  BY DEF TalkMsg
<1>2. Chatted(ends, fl, p) /\ fl.pending = <<>> /\ LastRole(fl) # "assistant"
  BY MediaFlushed
<1>3. MessageToChat(st, m) = [fl EXCEPT !.out = Append(fl.out, x)]
  BY <1>1 DEF MessageToChat
<1>4. x.role = "assistant" /\ IsSeq(wr) /\ Kept(wr, q)
  BY AssistantRead
<1> HIDE DEF fl, x
<1>5. fl = [out |-> fl.out, pending |-> fl.pending]
  BY <1>2 DEF Chatted
<1>6. MessageToChat(st, m) = new
  <2> DEFINE oo == fl.out
             pp == fl.pending
  <2>1. fl = [out |-> oo, pending |-> pp]
    BY <1>5
  <2>2. MessageToChat(st, m) = [fl EXCEPT !.out = o]
    BY <1>3
  <2> HIDE DEF oo, o
  <2> QED BY <2>1, <2>2
<1>7. /\ Readable(ends, "chat", o) /\ Whole(o) /\ o # <<>> /\ o[Len(o)] = x
      /\ ReadMessages(ends, "chat", o) = Cat(r, wr) /\ IsSeq(r)
  BY <1>2, <1>4, ReadableMore DEF Chatted, LastRole
<1>8. IsSeq(q)
  <2>1. GoodMsg("chat", m)
    BY DEF GoodMsg
  <2> QED BY <2>1, MsgIsRead
<1>9. IsSeq(p) /\ Kept(Cat(r, rp), p) /\ Attached(fl.pending)
  BY <1>2 DEF Chatted
<1> HIDE DEF q, wr, o, r
<1>10. rp = <<>>
  BY <1>2, EmptyRead
<1>11. Kept(r, p)
  BY <1>7, <1>9, <1>10, CatEmpty
<1>12. Kept(Cat(r, wr), Cat(p, q)) /\ IsSeq(Cat(r, wr)) /\ IsSeq(Cat(p, q))
  BY <1>4, <1>7, <1>8, <1>9, <1>11, KeptCat, CatIsSeq
<1>13. Cat(Cat(r, wr), rp) = Cat(r, wr)
  BY <1>10, <1>12, CatEmpty
<1>14. new.out = o /\ new.pending = fl.pending /\ new = [out |-> new.out, pending |-> new.pending]
  OBVIOUS
<1> HIDE DEF new
<1>15. LastRole(new) = "assistant"
  BY <1>4, <1>7, <1>14 DEF LastRole
<1>16. Chatted(ends, new, Cat(p, q))
  BY <1>2, <1>7, <1>9, <1>12, <1>13, <1>14 DEF Chatted, rp
<1> QED BY <1>1, <1>6, <1>15, <1>16 DEF JoinsChat, q

\* The messages so far
ChatBuilt(ends, ms) ==
    LET st == MessagesToChat([out     |-> <<ChatMessage("system", Instructions, <<>>, <<>>, NoId)>>,
                              pending |-> <<>>], ms)
    IN  /\ Chatted(ends, st, Cat(Read(ends, "system", Instructions), MsgsRead(ends, ms)))
        /\ LastRole(st) \in {"system", "tool"} \/ (ms # <<>> /\ LastRole(st) = ms[Len(ms)].role)

LEMMA ChatStarts == ASSUME NEW ends PROVE ChatBuilt(ends, <<>>)
<1> DEFINE i  == Instructions
           x  == ChatMessage("system", i, <<>>, <<>>, NoId)
           o  == <<x>>
           e  == <<>>
           st == [out |-> o, pending |-> e]
           s  == Read(ends, "system", i)
<1>1. Good(i) /\ IsSeq(s)
  BY InstructionsGood, ReadIsSeq
<1>2. x.role = "system" /\ WireRead(ends, "chat", x) = s
  <2>1. "system" # "tool"
    OBVIOUS
  <2> HIDE DEF i
  <2> QED BY <1>1, <2>1, ChatMessageRead
<1> HIDE DEF x, s
<1>3. IsSeq(o) /\ Len(o) = 1 /\ o[1] = x /\ o # <<>>
  BY One
<1>4. Readable(ends, "chat", o) /\ ReadMessages(ends, "chat", o) = s
  BY <1>1, <1>2, OneWire
<1> HIDE DEF o
<1>5. Whole(o)
  BY <1>3 DEF Whole
<1>6. Attached(e) /\ Read(ends, "user", e) = e /\ Cat(s, e) = s
  BY <1>1, EmptyRead, CatEmpty, EmptyIsSeq DEF Attached
<1>7. MessagesToChat(st, e) = st /\ MsgsRead(ends, e) = e
  BY MessagesToChatEmpty, NothingRead
<1>8. st.out = o /\ st.pending = e /\ st = [out |-> st.out, pending |-> st.pending]
  OBVIOUS
<1>9. Kept(s, s) /\ e = <<>>
  BY KeptSame
<1> HIDE DEF st
<1>10. LastRole(st) = "system"
  BY <1>2, <1>3, <1>8 DEF LastRole
<1>11. Chatted(ends, st, Cat(s, e))
  <2> HIDE DEF e
  <2> QED BY <1>1, <1>3, <1>4, <1>5, <1>6, <1>8, <1>9 DEF Chatted
<1> QED BY <1>7, <1>10, <1>11 DEF ChatBuilt, st, o, x, s

LEMMA ChatGrows ==
    ASSUME NEW ends, NEW c, NEW f, IsSeq(f), NEW m, GoodMsgs(c, Append(f, m)), ChatBuilt(ends, f)
    PROVE  ChatBuilt(ends, Append(f, m))
<1> DEFINE st0 == [out     |-> <<ChatMessage("system", Instructions, <<>>, <<>>, NoId)>>, pending |-> <<>>]
           st  == MessagesToChat(st0, f)
           new == MessageToChat(st, m)
           t   == Append(f, m)
           s   == Read(ends, "system", Instructions)
           p   == Cat(s, MsgsRead(ends, f))
           n   == Len(f)
<1>1. Chatted(ends, st, p) /\ (LastRole(st) \in {"system", "tool"} \/ (f # <<>> /\ LastRole(st) = f[Len(f)].role))
  BY DEF ChatBuilt
<1>2. GoodMsgs(c, f) /\ GoodMsg(c, m) /\ (f = <<>> \/ f[Len(f)].role # m.role \/ m.role = "tool")
  BY GoodLess
<1>3. MessagesToChat(st0, t) = new
  BY MessagesToChatAppend
<1>4. t # <<>> /\ t[Len(t)] = m
  <2>1. n \in Nat /\ Len(t) = n + 1 /\ t[n + 1] = m /\ IsSeq(t)
    BY Appended
  <2> HIDE DEF t
  <2> QED BY <2>1, EmptySeqLength
<1> HIDE DEF st, st0
<1>5. JoinsChat(ends, new, p, m)
  <2>1. CASE ToolMsg(m)
    BY <1>1, <2>1, ToolJoins
  <2>2. CASE \E rs, own : UserMsg(m, rs, own)
    <3>1. PICK rs, own : UserMsg(m, rs, own)
      BY <2>2
    <3>2. m.role = "user"
      BY <3>1 DEF UserMsg
    <3>3. LastRole(st) # "user"
      BY <1>1, <1>2, <3>2
    <3> QED BY <1>1, <3>1, <3>3, UserJoins
  <2>3. CASE \E a, u : TalkMsg(m, a, u)
    <3>1. PICK a, u : TalkMsg(m, a, u)
      BY <2>3
    <3>2. m.role = "assistant"
      BY <3>1 DEF TalkMsg
    <3>3. LastRole(st) # "assistant"
      BY <1>1, <1>2, <3>2
    <3> QED BY <1>1, <3>1, <3>3, TalkJoins
  <2> QED BY <1>2, <2>1, <2>2, <2>3 DEF GoodMsg
<1> HIDE DEF new, t
<1>6. Cat(p, MsgRead(ends, m)) = Cat(s, MsgsRead(ends, t))
  <2>1. IsSeq(s) /\ IsSeq(MsgsRead(ends, f)) /\ IsSeq(MsgRead(ends, m))
    BY <1>2, InstructionsGood, ReadIsSeq, MsgsAreRead, MsgIsRead
  <2>2. MsgsRead(ends, t) = Cat(MsgsRead(ends, f), MsgRead(ends, m))
    BY <2>1, MsgsMore DEF t
  <2> HIDE DEF s
  <2> QED BY <2>1, <2>2, CatAssoc
<1> QED BY <1>3, <1>4, <1>5, <1>6 DEF ChatBuilt, JoinsChat, st0, t, s

LEMMA ChatIsBuilt == ASSUME NEW ends, NEW c, NEW ms, GoodMsgs(c, ms) PROVE ChatBuilt(ends, ms)
<1> DEFINE S == {n \in Nat : \A w : GoodMsgs(c, w) /\ Len(w) = n => ChatBuilt(ends, w)}
<1>1. 0 \in S
  <2>1. ASSUME NEW w, GoodMsgs(c, w), Len(w) = 0 PROVE ChatBuilt(ends, w)
    <3>1. w = <<>>
      BY <2>1, EmptySeqLength DEF GoodMsgs
    <3> QED BY <3>1, ChatStarts
  <2> QED BY <2>1
<1>2. ASSUME NEW n \in S PROVE n + 1 \in S
  <2>1. n \in Nat /\ \A w : GoodMsgs(c, w) /\ Len(w) = n => ChatBuilt(ends, w)
    OBVIOUS
  <2> HIDE DEF S
  <2>2. ASSUME NEW w, GoodMsgs(c, w), Len(w) = n + 1 PROVE ChatBuilt(ends, w)
    <3>1. IsSeq(w)
      BY <2>2 DEF GoodMsgs
    <3>2. PICK f : IsSeq(f) /\ Len(f) = n /\ w = Append(f, w[n + 1])
      BY <2>1, <2>2, <3>1, Shortened
    <3> DEFINE x == w[n + 1]
    <3>3. w = Append(f, x)
      BY <3>2
    <3> HIDE DEF x
    <3>4. GoodMsgs(c, f)
      BY <2>2, <3>2, <3>3, GoodLess
    <3>5. ChatBuilt(ends, f)
      BY <2>1, <3>2, <3>4
    <3> QED BY <2>2, <3>2, <3>3, <3>5, ChatGrows
  <2> QED BY <2>1, <2>2 DEF S
<1> HIDE DEF S
<1>3. S = Nat
  <2>1. S \in SUBSET Nat
    BY DEF S
  <2> QED BY <1>1, <1>2, <2>1, SetInduction
<1>4. Len(ms) \in Nat
  BY SeqLength DEF GoodMsgs
<1> QED BY <1>3, <1>4 DEF S

LEMMA BuiltForChat ==
    ASSUME NEW c, NEW ms, GoodMsgs(c, ms), NEW ends
    PROVE  LET wire == BuildChat(Request(Instructions, ms))
           IN  UpstreamReads(ends, "chat", wire, ms) /\ Whole(wire.messages)
<1> DEFINE st0  == [out     |-> <<ChatMessage("system", Instructions, <<>>, <<>>, NoId)>>, pending |-> <<>>]
           st   == MessagesToChat(st0, ms)
           fl   == FlushMedia(st)
           wire == BuildChat(Request(Instructions, ms))
           p    == Cat(Read(ends, "system", Instructions), MsgsRead(ends, ms))
           e    == <<>>
           r    == ReadMessages(ends, "chat", fl.out)
<1>1. Chatted(ends, st, p)
  BY ChatIsBuilt DEF ChatBuilt
<1>2. Instructions # <<>>
  BY DEF Instructions
<1>3. wire = [system |-> e, messages |-> fl.out]
  BY <1>2 DEF BuildChat, Request
<1> HIDE DEF st
<1>4. Chatted(ends, fl, p) /\ fl.pending = <<>>
  BY <1>1, MediaFlushed
<1> HIDE DEF fl, wire
<1>5. wire.system = e /\ wire.messages = fl.out
  BY <1>3
<1>6. Read(ends, "system", e) = e /\ Read(ends, "user", e) = e /\ IsSeq(e)
  BY EmptyRead, EmptyIsSeq
<1>7. Whole(fl.out) /\ Readable(ends, "chat", fl.out) /\ Kept(Cat(r, Read(ends, "user", fl.pending)), p)
  BY <1>4 DEF Chatted
<1>8. IsSeq(r)
  BY <1>7, WireLists
<1> HIDE DEF r
<1>9. Cat(r, e) = r /\ Cat(e, r) = r
  BY <1>8, CatEmpty
<1>10. Kept(Cat(e, r), p)
  BY <1>4, <1>6, <1>7, <1>9
<1> HIDE DEF e
<1> QED BY <1>5, <1>6, <1>7, <1>8, <1>10 DEF UpstreamReads, wire, r

-----------------------------------------------------------------------------
(* A request through the gateway *)

LEMMA Converted ==
    ASSUME NEW c \in Protocol, NEW u \in Protocol, c # u, NEW h, Dialogue(c, h), NEW ends, u \in ends
    PROVE  LET wire == ConvertRequest(c, u, Written(c, h))
           IN  /\ Kept(ReadRequest(ends, u, wire), Cat(Read(ends, "system", Instructions), EntriesRead(ends, h)))
               /\ u # "responses" => Whole(wire.messages)
<1> DEFINE ms   == Parsed(c, h).messages
           req  == Parsed(c, h)
           wire == ConvertRequest(c, u, Written(c, h))
<1>1. req.system = Instructions /\ GoodMsgs(c, ms) /\ MsgsRead(ends, ms) = EntriesRead(ends, h)
  BY AllParsedWell DEF ParsedWell
<1>2. u = "chat" => wire = BuildChat(req)
  BY DEF ConvertRequest, Parsed
<1>3. u = "responses" => wire = BuildResponses(req)
  BY DEF ConvertRequest, Parsed
<1>4. u = "anthropic" => wire = BuildAnthropic(req)
  BY DEF ConvertRequest, Parsed
<1> HIDE DEF req, ms, wire
<1> DEFINE q == Request(Instructions, ms)
<1>5. q.system = req.system /\ q.messages = req.messages
  BY <1>1 DEF Request, ms, req
<1>6. BuildChat(req) = BuildChat(q) /\ BuildResponses(req) = BuildResponses(q) /\ BuildAnthropic(req) = BuildAnthropic(q)
  <2> HIDE DEF q
  <2> QED BY <1>5 DEF BuildChat, BuildResponses, BuildAnthropic
<1>7. UpstreamReads(ends, u, wire, ms) /\ (u # "responses" => Whole(wire.messages))
  <2>1. CASE u = "chat"
    BY <1>1, <1>2, <1>6, <2>1, BuiltForChat
  <2>2. CASE u = "responses"
    BY <1>1, <1>3, <1>6, <2>2, BuiltForResponses
  <2>3. CASE u = "anthropic"
    <3>1. c # "anthropic"
      BY <2>3
    <3> QED BY <1>1, <1>4, <1>6, <2>3, <3>1, BuiltForAnthropic
  <2> QED BY <2>1, <2>2, <2>3 DEF Protocol
<1>8. ReadRequest(ends, u, wire)
      = Cat(Read(ends, "system", wire.system), ReadMessages(ends, u, wire.messages))
  BY DEF ReadRequest, Cat
<1> QED BY <1>1, <1>7, <1>8 DEF UpstreamReads, wire

-----------------------------------------------------------------------------
(* The dialog as the client knows it is read like the dialog as it was held *)

HeldBlocks(e) == IF Lost(e) THEN Without(EntryBlocks(e), "text") ELSE EntryBlocks(e)
HeldParts(s)  == [k \in DOMAIN s |-> Read(Ends, s[k].role, HeldBlocks(s[k]))]

LEMMA HeldIs == Held = Cat(Read(Ends, "system", Instructions), FlattenSeq(HeldParts(said)))
BY DEF Held, MapFlat, HeldParts, HeldBlocks, Cat

LEMMA AnswerIsHeld ==
    ASSUME DialogInv, NEW was, IsAnswer(was)
    PROVE  Read(Ends, was.role, HeldBlocks(was)) = EntryRead(Ends, Known(client, was))
<1> DEFINE now == Known(client, was)
           t   == Thought(was.thinking)
           u   == Uses(was.calls)
           v   == Uses(now.calls)
           r   == "assistant"
<1>1. /\ IsSeq(was.thinking) /\ IsWords(was.content) /\ IsCalls(was.calls) /\ was.role = r
  BY DEF IsAnswer, Entry
<1>2. /\ now.thinking = was.thinking /\ now.role = r /\ now.calls = KnownCalls(client, was.calls)
      /\ now.content = IF Lost(was) THEN <<>> ELSE was.content
  BY DEF Known, Entry, Lost
<1> HIDE DEF now
<1>3. client \in Protocol /\ client \in Ends
  BY DEF DialogInv, Ends
<1>4. IsCalls(now.calls) /\ CallPieces(Ends, now.calls) = CallPieces(Ends, was.calls)
  BY <1>1, <1>2, <1>3, KnownCallsAre
<1>5. Read(Ends, r, v) = Read(Ends, r, u)
  BY <1>1, <1>4, ReadUses
<1>6. IsUses(u) /\ IsUses(v)
  BY <1>1, <1>4, UsesAre
<1>7. Good(u) /\ Good(v) /\ IsSeq(u) /\ IsSeq(v)
  BY <1>6, UsesAreGood DEF IsUses
<1>8. IsSeq(was.content) /\ Good(was.content) /\ Without(was.content, "text") = <<>>
  <2>1. Good(was.content)
    <3>1. CASE was.content = <<>>
      BY <3>1, EmptyGood
    <3>2. CASE was.content # <<>>
      <4>1. PICK x : IsSeq(x) /\ was.content = <<Text(x)>>
        BY <1>1, <3>2 DEF IsWords
      <4> DEFINE b == Text(x)
      <4>2. b.type = "text" /\ b.text = x /\ b.content = <<>>
        BY DEF Text, Block
      <4> HIDE DEF b
      <4>3. GoodBlock(b)
        BY <4>1, <4>2, EmptyGood DEF GoodBlock, Types
      <4>4. Good(<<b>>)
        BY <4>3, OneGood
      <4> QED BY <4>1, <4>4 DEF b
    <3> QED BY <3>1, <3>2
  <2> QED BY <1>1, <2>1, OfWords
<1>9. Good(t) /\ IsSeq(t) /\ Without(t, "text") = t
  <2>1. Good(t)
    <3>1. CASE was.thinking = <<>>
      BY <3>1, EmptyGood DEF Thought
    <3>2. CASE was.thinking # <<>>
      <4> DEFINE b == Thinking(was.thinking)
      <4>1. t = <<b>>
        BY <3>2 DEF Thought
      <4>2. b.type = "thinking" /\ b.text = was.thinking /\ b.content = <<>>
        BY DEF Thinking, Block
      <4> HIDE DEF b
      <4>3. GoodBlock(b)
        BY <1>1, <4>2, EmptyGood DEF GoodBlock, Types
      <4> QED BY <4>1, <4>3, OneGood
    <3> QED BY <3>1, <3>2
  <2> QED BY <1>1, <2>1, OfThought
<1>10. Without(u, "text") = u
  BY <1>6, OfUses
<1>11. EntryBlocks(was) = Cat(Cat(t, was.content), u) /\ EntryBlocks(now) = Cat(Cat(t, now.content), v)
  BY <1>1, <1>2 DEF EntryBlocks, Cat
<1> DEFINE e == <<>>
           held == IF Lost(was) THEN e ELSE was.content
<1>12. HeldBlocks(was) = Cat(Cat(t, held), u)
  <2>1. CASE Lost(was)
    <3>1. IsSeq(Cat(t, was.content))
      BY <1>8, <1>9, CatIsSeq
    <3>2. Without(Cat(Cat(t, was.content), u), "text") = Cat(Without(Cat(t, was.content), "text"), Without(u, "text"))
      BY <1>7, <3>1, WithoutCat
    <3>3. Without(Cat(t, was.content), "text") = Cat(Without(t, "text"), Without(was.content, "text"))
      BY <1>8, <1>9, WithoutCat
    <3> HIDE DEF t, u
    <3> QED BY <1>8, <1>9, <1>10, <1>11, <2>1, <3>2, <3>3 DEF HeldBlocks
  <2>2. CASE ~Lost(was)
    BY <1>11, <2>2 DEF HeldBlocks
  <2> QED BY <2>1, <2>2
<1>13. Good(held) /\ now.content = held
  BY <1>2, <1>8, EmptyGood
<1> HIDE DEF held, t, u, v
<1>14. Good(Cat(t, held))
  BY <1>9, <1>13, GoodCat
<1>15. Read(Ends, r, Cat(Cat(t, held), u)) = Cat(Read(Ends, r, Cat(t, held)), Read(Ends, r, u))
  BY <1>7, <1>14, ReadCat
<1>16. Read(Ends, r, Cat(Cat(t, held), v)) = Cat(Read(Ends, r, Cat(t, held)), Read(Ends, r, v))
  BY <1>7, <1>14, ReadCat
<1> QED BY <1>1, <1>2, <1>5, <1>11, <1>12, <1>13, <1>15, <1>16 DEF EntryRead, now

LEMMA EntryIsHeld ==
    ASSUME DialogInv, NEW k \in Nat, NEW was, NEW now, Entered(client, k, was, now)
    PROVE  Read(Ends, was.role, HeldBlocks(was)) = EntryRead(Ends, now)
<1>1. CASE IsSpoken(was, k) /\ now = was
  <2>1. PICK kinds \in {{"text"}, {"text", "media"}} : was = Spoken(kinds, k)
    BY <1>1 DEF IsSpoken
  <2>2. was.calls = <<>>
    BY <2>1 DEF Spoken, Entry
  <2>3. ~Lost(was)
    BY <2>2 DEF Lost
  <2> QED BY <1>1, <2>3 DEF HeldBlocks, EntryRead
<1>2. CASE IsResult(client, was) /\ now = was
  <2>1. PICK id \in Nat, kinds \in SUBSET {"text", "media"} : was = Result(kinds, id)
    BY <1>2 DEF IsResult
  <2>2. was.calls = <<>>
    BY <2>1 DEF Result, Entry
  <2>3. ~Lost(was)
    BY <2>2 DEF Lost
  <2> QED BY <1>2, <2>3 DEF HeldBlocks, EntryRead
<1>3. CASE IsSaid(was, k) /\ now = Known(client, was)
  <2>1. IsAnswer(was)
    BY <1>3, SaidIsAnswer DEF IsSaid
  <2> QED BY <1>3, <2>1, AnswerIsHeld
<1> QED BY <1>1, <1>2, <1>3 DEF Entered

LEMMA HeldAsKnown ==
    ASSUME DialogInv
    PROVE  Held = Cat(Read(Ends, "system", Instructions), EntriesRead(Ends, history))
<1> DEFINE f == HeldParts(said)
           g == EntryParts(Ends, history)
<1>1. IsSeq(said) /\ IsSeq(history) /\ Len(said) = Len(history) /\ Len(said) \in Nat
      /\ DOMAIN said = 1 .. Len(said) /\ DOMAIN history = 1 .. Len(said)
  BY SeqLength DEF DialogInv, Entries
<1>2. IsMap(f, said) /\ IsMap(g, history)
  BY DEF IsMap, HeldParts, EntryParts
<1>3. ASSUME NEW k \in DOMAIN said PROVE f[k] = g[k]
  <2>1. k \in Nat /\ Entered(client, k, said[k], history[k])
    BY <1>1 DEF DialogInv, Entries
  <2>2. f[k] = Read(Ends, said[k].role, HeldBlocks(said[k])) /\ g[k] = EntryRead(Ends, history[k])
    BY <1>1 DEF HeldParts, EntryParts
  <2> QED BY <2>1, <2>2, EntryIsHeld
<1> HIDE DEF f, g
<1>4. FlattenSeq(f) = FlattenSeq(g)
  BY <1>1, <1>2, <1>3, FlatEqual
<1> QED BY <1>4, HeldIs DEF EntriesRead, f, g

-----------------------------------------------------------------------------
(* Who speaks next *)

LastEntry == history[Len(history)]
Quiet     == LastEntry.role = "assistant" /\ LastEntry.calls = <<>>
TurnInv ==
    /\ Dialogue(client, history)
    /\ turn = "user"  => history = <<>> \/ Quiet
    /\ turn = "model" => /\ history # <<>>
                         /\ LastEntry.role \in {"user", "tool"} \/ (client = "responses" /\ Quiet)
    /\ turn = "tools" => /\ history # <<>>
                         /\ LastEntry.role = "tool" \/ (LastEntry.role = "assistant" /\ LastEntry.calls # <<>>)

LEMMA EntryAdded ==
    ASSUME DialogInv, TurnInv, NEW was, NEW e, Entered(client, Len(said) + 1, was, e),
           history = <<>> \/ Follows(client, LastEntry, e)
    PROVE  LET h == Append(history, e)
           IN  Dialogue(client, h) /\ h # <<>> /\ h[Len(h)] = e
<1>1. Len(said) + 1 \in Nat /\ client \in Protocol /\ IsSeq(history)
  BY SeqLength DEF DialogInv, Entries
<1>2. KnownEntry(client, e)
  BY <1>1, EnteredIsKnown
<1>3. Dialogue(client, Append(history, e))
  BY <1>2, DialogueMore DEF TurnInv, LastEntry
<1> DEFINE n == Len(history)
           t == Append(history, e)
<1>4. n \in Nat /\ Len(t) = n + 1 /\ t[n + 1] = e /\ IsSeq(t)
  BY <1>1, Appended
<1> HIDE DEF t
<1>5. t # <<>> /\ t[Len(t)] = e
  BY <1>4, EmptySeqLength
<1> QED BY <1>3, <1>5 DEF t

LEMMA UserTakesTurn ==
    ASSUME DialogInv, TurnInv, NEW kinds \in {{"text"}, {"text", "media"}}, UserSpeaks(kinds)
    PROVE  TurnInv'
<1> DEFINE e == Spoken(kinds, Len(said) + 1)
<1>1. /\ turn = "user" \/ (turn = "model" /\ history[Len(history)].role = "tool")
      /\ history' = Append(history, e) /\ turn' = "model" /\ client' = client
  BY DEF UserSpeaks, Place, Last
<1>2. IsSpoken(e, Len(said) + 1) /\ e.role = "user"
  BY DEF IsSpoken, Spoken, Entry
<1> HIDE DEF e
<1>3. Entered(client, Len(said) + 1, e, e)
  BY <1>2 DEF Entered
<1>4. history = <<>> \/ Follows(client, LastEntry, e)
  BY <1>1, <1>2 DEF TurnInv, Quiet, LastEntry, Follows
<1>5. LET h == Append(history, e)
      IN  Dialogue(client, h) /\ h # <<>> /\ h[Len(h)] = e
  BY <1>3, <1>4, EntryAdded
<1> QED BY <1>1, <1>2, <1>5 DEF TurnInv, LastEntry

LEMMA ModelTakesTurn ==
    ASSUME DialogInv, TurnInv, NEW shape \in Shapes, ModelAnswers(shape)
    PROVE  TurnInv'
<1> DEFINE was == Said(shape, Len(said) + 1)
           now == Known(client, was)
<1>1. /\ IsSaid(was, Len(said) + 1) /\ IsAnswer(was)
      /\ history' = Append(history, now)
      /\ turn = "model" /\ client' = client
      /\ now.calls # <<>> => turn' = "tools"
      /\ now.calls = <<>> => turn' \in {"model", "user"} /\ (turn' = "model" => client = "responses")
  BY ModelAnswersSo
<1>2. Entered(client, Len(said) + 1, was, now)
  BY <1>1 DEF Entered
<1>3. now.role = "assistant"
  BY DEF Known, Entry
<1> HIDE DEF was, now
<1>4. history = <<>> \/ Follows(client, LastEntry, now)
  BY <1>1, <1>3 DEF TurnInv, Quiet, LastEntry, Follows
<1>5. LET h == Append(history, now)
      IN  Dialogue(client, h) /\ h # <<>> /\ h[Len(h)] = now
  BY <1>2, <1>4, EntryAdded
<1>6. CASE now.calls # <<>>
  BY <1>1, <1>3, <1>5, <1>6 DEF TurnInv, LastEntry
<1>7. CASE now.calls = <<>>
  BY <1>1, <1>3, <1>5, <1>7 DEF TurnInv, LastEntry, Quiet
<1> QED BY <1>6, <1>7

LEMMA ToolTakesTurn ==
    ASSUME DialogInv, TurnInv, NEW id \in open, NEW kinds \in Contents, ToolRuns(id, kinds)
    PROVE  TurnInv'
<1> DEFINE e == Result(kinds, id)
<1>1. /\ turn = "tools" /\ history' = Append(history, e) /\ client' = client
      /\ turn' \in {"model", "tools"} /\ (client = "chat" => "media" \notin kinds)
  BY DEF ToolRuns
<1>2. id \in Nat /\ kinds \in SUBSET {"text", "media"}
  BY ConversationAssumption DEF DialogInv
<1>3. IsResult(client, e) /\ e.role = "tool"
  BY <1>1, <1>2 DEF IsResult, Result, Entry
<1> HIDE DEF e
<1>4. Entered(client, Len(said) + 1, e, e)
  BY <1>3 DEF Entered
<1>5. history = <<>> \/ Follows(client, LastEntry, e)
  BY <1>1, <1>3 DEF TurnInv, LastEntry, Follows
<1>6. LET h == Append(history, e)
      IN  Dialogue(client, h) /\ h # <<>> /\ h[Len(h)] = e
  BY <1>4, <1>5, EntryAdded
<1> QED BY <1>1, <1>3, <1>6 DEF TurnInv, LastEntry

\* At any moment the entries of the history follow one another as clients may send them:
\* results after calls or results, and what the model is asked next after either or a user
THEOREM TurnsTyped == Spec => []TurnInv
<1>1. Init => TurnInv
  <2> SUFFICES ASSUME Init PROVE TurnInv
    OBVIOUS
  <2>1. history = <<>> /\ turn = "user"
    BY DEF Init
  <2>2. Dialogue(client, <<>>)
    BY EmptyIsSeq DEF Dialogue, KnownEntries
  <2> QED BY <2>1, <2>2 DEF TurnInv
<1>2. DialogInv /\ TurnInv /\ [Next]_vars => TurnInv'
  <2> SUFFICES ASSUME DialogInv, TurnInv, [Next]_vars PROVE TurnInv'
    OBVIOUS
  <2>1. CASE \E kinds \in {{"text"}, {"text", "media"}} : UserSpeaks(kinds)
    BY <2>1, UserTakesTurn
  <2>2. CASE \E shape \in Shapes : ModelAnswers(shape)
    BY <2>2, ModelTakesTurn
  <2>3. CASE \E id \in open, kinds \in Contents : ToolRuns(id, kinds)
    BY <2>3, ToolTakesTurn
  <2>4. CASE UNCHANGED vars
    BY <2>4 DEF vars, TurnInv, LastEntry, Quiet
  <2> QED BY <2>1, <2>2, <2>3, <2>4 DEF Next
<1> QED BY <1>1, <1>2, DialogTyped, PTL DEF Spec

LEMMA KeptAndWhole == ASSUME DialogInv, TurnInv PROVE DialogKept /\ TurnsWhole
<1>1. client \in Protocol /\ upstream \in Protocol /\ client # upstream /\ upstream \in Ends
  BY DEF DialogInv, Ends
<1>2. Dialogue(client, history)
  BY DEF TurnInv
<1>3. /\ Kept(ReadRequest(Ends, upstream, ConvertRequest(client, upstream, Written(client, history))),
              Cat(Read(Ends, "system", Instructions), EntriesRead(Ends, history)))
      /\ upstream # "responses" => Whole(ConvertRequest(client, upstream, Written(client, history)).messages)
  BY <1>1, <1>2, Converted
<1>4. Kept(Heard, Held)
  BY <1>3, HeldAsKnown DEF Heard, Asked
<1> QED BY <1>3, <1>4 DEF DialogKept, TurnsWhole, Asked

\* Whatever was said is in every later request as the upstream reads it, once and in its
\* order: every parse...Request of parse_request.go with every build...Request of
\* build_request.go, over histories of answers that were converted themselves; but for the
\* text that the conversion of an answer with calls leaves out (Lost)
THEOREM DialogIsKept == Spec => []DialogKept
BY DialogTyped, TurnsTyped, KeptAndWhole, PTL

\* An upstream that wants turns to alternate never gets two messages in a row from the
\* user or from the model (appendAssistantBlocks, flushToolMedia)
THEOREM TurnsAreWhole == Spec => []TurnsWhole
BY DialogTyped, TurnsTyped, KeptAndWhole, PTL

-----------------------------------------------------------------------------
(* Calls and their results, read one piece after the other *)

\* What has been read: the calls that wait for a result, those that have one, and whether
\* results have begun while others wait
State(wait, done, back) == [wait |-> wait, done |-> done, back |-> back]
Begun == State({}, {}, FALSE)

\* Calls come before results, and while one waits there is nothing else
Starts(p) == p.kind = "result" /\ p.val.kind = "starts"
Takes(s, p, t) ==
    \/ /\ p.kind = "call" /\ ~s.back /\ p.id \notin s.wait \cup s.done
       /\ t = State(s.wait \cup {p.id}, s.done, FALSE)
    \/ /\ Starts(p) /\ p.id \in s.wait
       /\ t = State(s.wait \ {p.id}, s.done \cup {p.id}, s.wait # {p.id})
    \/ p.kind = "result" /\ ~Starts(p) /\ t = s
    \/ p.kind \notin {"call", "result"} /\ s.wait = {} /\ t = s

IsRun(f, s, ps, t) ==
    f[0] = s /\ f[Len(ps)] = t /\ \A k \in 1 .. Len(ps) : Takes(f[k - 1], ps[k], f[k])
Runs(s, ps, t) == \E f : IsRun(f, s, ps, t)

LEMMA RunsNothing == ASSUME NEW s, NEW t PROVE Runs(s, <<>>, t) <=> s = t
<1>1. Len(<<>>) = 0
  BY EmptyIsSeq
<1>2. ASSUME s = t PROVE Runs(s, <<>>, t)
  <2> DEFINE f == [k \in {0} |-> s]
  <2>1. f[0] = s
    OBVIOUS
  <2> HIDE DEF f
  <2>2. IsRun(f, s, <<>>, t)
    BY <1>1, <1>2, <2>1 DEF IsRun
  <2> QED BY <2>2 DEF Runs
<1>3. ASSUME Runs(s, <<>>, t) PROVE s = t
  BY <1>1, <1>3 DEF Runs, IsRun
<1> QED BY <1>2, <1>3

LEMMA RunsOne == ASSUME NEW s, NEW t, NEW p PROVE Runs(s, <<p>>, t) <=> Takes(s, p, t)
<1> DEFINE q == <<p>>
<1>1. Len(q) = 1 /\ q[1] = p
  BY One
<1> HIDE DEF q
<1>2. ASSUME Takes(s, p, t) PROVE Runs(s, q, t)
  <2> DEFINE f == [k \in {0, 1} |-> IF k = 0 THEN s ELSE t]
  <2>1. f[0] = s /\ f[1] = t
    OBVIOUS
  <2> HIDE DEF f
  <2>2. \A k \in 1 .. 1 : k = 1 /\ k - 1 = 0
    OBVIOUS
  <2>3. IsRun(f, s, q, t)
    BY <1>1, <1>2, <2>1, <2>2 DEF IsRun
  <2> QED BY <2>3 DEF Runs
<1>3. ASSUME Runs(s, q, t) PROVE Takes(s, p, t)
  <2>1. PICK f : IsRun(f, s, q, t)
    BY <1>3 DEF Runs
  <2>2. 1 \in 1 .. 1 /\ 1 - 1 = 0
    OBVIOUS
  <2> QED BY <1>1, <2>1, <2>2 DEF IsRun
<1> QED BY <1>2, <1>3 DEF q

\* Two sequences in a row
LEMMA RunsCat ==
    ASSUME NEW x, IsSeq(x), NEW y, IsSeq(y), NEW s, NEW t
    PROVE  Runs(s, Cat(x, y), t) <=> \E u : Runs(s, x, u) /\ Runs(u, y, t)
<1> DEFINE z == Cat(x, y)
           n == Len(x)
           m == Len(y)
<1>1. n \in Nat /\ m \in Nat
  BY SeqLength
<1>2. /\ Len(z) = n + m
      /\ \A j \in 1 .. n : z[j] = x[j]
      /\ \A j \in 1 .. m : z[n + j] = y[j]
  BY Concat DEF Cat
<1> HIDE DEF z
<1>3. ASSUME NEW u, Runs(s, x, u), Runs(u, y, t) PROVE Runs(s, z, t)
  <2>1. PICK f : IsRun(f, s, x, u)
    BY <1>3 DEF Runs
  <2>2. PICK g : IsRun(g, u, y, t)
    BY <1>3 DEF Runs
  <2> DEFINE h == [k \in 0 .. n + m |-> IF k <= n THEN f[k] ELSE g[k - n]]
  <2> HIDE DEF n, m
  <2>3. \A k \in 0 .. n : h[k] = f[k]
    BY <1>1
  <2>4. f[n] = u /\ g[0] = u
    BY <2>1, <2>2 DEF IsRun, n
  <2>5. \A k \in 0 .. m : h[n + k] = g[k]
    <3> TAKE k \in 0 .. m
    <3>1. CASE k = 0
      <4>1. n + k = n /\ n \in 0 .. n
        BY <1>1, <3>1
      <4>2. h[n + k] = f[n]
        BY <4>1, <2>3
      <4> QED BY <2>4, <3>1, <4>2
    <3>2. CASE k # 0
      <4>1. n + k \in 0 .. n + m /\ ~(n + k <= n) /\ (n + k) - n = k
        BY <1>1, <3>2
      <4> QED BY <4>1
    <3> QED BY <3>1, <3>2
  <2> HIDE DEF h
  <2>6. h[0] = s /\ h[n + m] = t
    <3>1. 0 \in 0 .. n /\ m \in 0 .. m
      BY <1>1
    <3> QED BY <2>1, <2>2, <2>3, <2>5, <3>1 DEF IsRun, m
  <2>7. ASSUME NEW k \in 1 .. n + m PROVE Takes(h[k - 1], z[k], h[k])
    <3>1. CASE k \in 1 .. n
      <4>1. k \in 0 .. n /\ k - 1 \in 0 .. n
        BY <1>1, <3>1
      <4>2. Takes(f[k - 1], x[k], f[k])
        BY <2>1, <3>1 DEF IsRun, n
      <4> QED BY <1>2, <2>3, <3>1, <4>1, <4>2
    <3>2. CASE k \notin 1 .. n
      <4> DEFINE j == k - n
      <4>1. j \in 1 .. m /\ j \in 0 .. m /\ j - 1 \in 0 .. m /\ n + j = k /\ n + (j - 1) = k - 1
        BY <1>1, <3>2
      <4> HIDE DEF j
      <4>2. Takes(g[j - 1], y[j], g[j])
        BY <2>2, <4>1 DEF IsRun, m
      <4>3. z[n + j] = y[j] /\ h[n + j] = g[j] /\ h[n + (j - 1)] = g[j - 1]
        BY <1>2, <2>5, <4>1
      <4> QED BY <4>1, <4>2, <4>3
    <3> QED BY <3>1, <3>2
  <2>8. IsRun(h, s, z, t)
    BY <1>2, <2>6, <2>7 DEF IsRun
  <2> QED BY <2>8 DEF Runs
<1>4. ASSUME Runs(s, z, t) PROVE \E u : Runs(s, x, u) /\ Runs(u, y, t)
  <2>1. PICK h : IsRun(h, s, z, t)
    BY <1>4 DEF Runs
  <2> DEFINE g == [k \in 0 .. m |-> h[n + k]]
             u == h[n]
  <2> HIDE DEF n, m
  <2>2. \A k \in 0 .. m : g[k] = h[n + k]
    OBVIOUS
  <2> HIDE DEF g, u
  <2>3. IsRun(h, s, x, u)
    <3>1. \A k \in 1 .. n : k \in 1 .. n + m
      BY <1>1
    <3>2. \A k \in 1 .. n : Takes(h[k - 1], x[k], h[k])
      BY <1>2, <2>1, <3>1 DEF IsRun
    <3> QED BY <2>1, <3>2 DEF IsRun, u, n
  <2>4. IsRun(g, u, y, t)
    <3>1. g[0] = u /\ g[m] = t
      <4>1. 0 \in 0 .. m /\ m \in 0 .. m /\ n + 0 = n
        BY <1>1
      <4> QED BY <1>2, <2>1, <2>2, <4>1 DEF IsRun, u
    <3>2. ASSUME NEW k \in 1 .. m PROVE Takes(g[k - 1], y[k], g[k])
      <4>1. n + k \in 1 .. n + m /\ k \in 0 .. m /\ k - 1 \in 0 .. m /\ n + (k - 1) = (n + k) - 1
        BY <1>1
      <4>2. Takes(h[(n + k) - 1], z[n + k], h[n + k])
        BY <1>2, <2>1, <4>1 DEF IsRun
      <4> QED BY <1>2, <2>2, <4>1, <4>2
    <3> QED BY <3>1, <3>2 DEF IsRun, m
  <2> QED BY <2>3, <2>4 DEF Runs
<1> QED BY <1>3, <1>4 DEF z

\* Wherever x may be read, y may be read too, and changes as much
Leads(x, y) == IsSeq(x) /\ IsSeq(y) /\ \A s, t : Runs(s, x, t) => Runs(s, y, t)

LEMMA LeadsSame == ASSUME NEW x, IsSeq(x) PROVE Leads(x, x)
BY DEF Leads

LEMMA LeadsThrough == ASSUME NEW x, NEW y, NEW z, Leads(x, y), Leads(y, z) PROVE Leads(x, z)
BY DEF Leads

LEMMA LeadsCat ==
    ASSUME NEW x, NEW y, Leads(x, y), NEW v, NEW w, Leads(v, w)
    PROVE  Leads(Cat(x, v), Cat(y, w))
<1>1. IsSeq(x) /\ IsSeq(y) /\ IsSeq(v) /\ IsSeq(w)
  BY DEF Leads
<1>2. IsSeq(Cat(x, v)) /\ IsSeq(Cat(y, w))
  BY <1>1, CatIsSeq
<1>3. ASSUME NEW s, NEW t, Runs(s, Cat(x, v), t) PROVE Runs(s, Cat(y, w), t)
  <2>1. PICK u : Runs(s, x, u) /\ Runs(u, v, t)
    BY <1>1, <1>3, RunsCat
  <2>2. Runs(s, y, u) /\ Runs(u, w, t)
    BY <2>1 DEF Leads
  <2> QED BY <1>1, <2>2, RunsCat
<1> QED BY <1>2, <1>3 DEF Leads

\* What is neither a call nor a result is read only while no call waits
Aside(x) == IsSeq(x) /\ \A s, t : Runs(s, x, t) <=> s = t /\ (x = <<>> \/ s.wait = {})

LEMMA NothingAside == Aside(<<>>)
BY EmptyIsSeq, RunsNothing DEF Aside

LEMMA OneAside == ASSUME NEW p, p.kind \notin {"call", "result"} PROVE Aside(<<p>>)
<1> DEFINE q == <<p>>
<1>1. IsSeq(q) /\ q # <<>>
  BY One
<1>2. \A s, t : Runs(s, q, t) <=> Takes(s, p, t)
  BY RunsOne
<1> HIDE DEF q
<1>3. \A s, t : Takes(s, p, t) <=> s.wait = {} /\ s = t
  BY DEF Takes, Starts
<1>4. Aside(q)
  BY <1>1, <1>2, <1>3 DEF Aside
<1> QED BY <1>4 DEF q

LEMMA AsideCat == ASSUME NEW x, Aside(x), NEW y, Aside(y) PROVE Aside(Cat(x, y))
<1>1. IsSeq(x) /\ IsSeq(y) /\ IsSeq(Cat(x, y)) /\ (Cat(x, y) = <<>> <=> x = <<>> /\ y = <<>>)
  BY CatIsSeq, CatIsEmpty DEF Aside
<1>2. ASSUME NEW s, NEW t PROVE Runs(s, Cat(x, y), t) <=> \E u : Runs(s, x, u) /\ Runs(u, y, t)
  BY <1>1, RunsCat
<1> DEFINE z == Cat(x, y)
<1> HIDE DEF z
<1>3. ASSUME NEW s, NEW t, Runs(s, z, t) PROVE s = t /\ (z = <<>> \/ s.wait = {})
  <2>1. PICK u : Runs(s, x, u) /\ Runs(u, y, t)
    BY <1>2, <1>3 DEF z
  <2>2. s = u /\ u = t /\ (x = <<>> \/ s.wait = {}) /\ (y = <<>> \/ u.wait = {})
    BY <2>1 DEF Aside
  <2> QED BY <1>1, <2>2 DEF z
<1>4. ASSUME NEW s, z = <<>> \/ s.wait = {} PROVE Runs(s, z, s)
  <2>1. Runs(s, x, s) /\ Runs(s, y, s)
    BY <1>1, <1>4 DEF Aside, z
  <2> QED BY <1>2, <2>1 DEF z
<1> QED BY <1>1, <1>3, <1>4 DEF Aside, z

\* The same where something is said if something was
LEMMA AsideLeads ==
    ASSUME NEW x, Aside(x), NEW y, Aside(y), x = <<>> => y = <<>>
    PROVE  Leads(x, y)
BY DEF Aside, Leads

LEMMA OneElement == ASSUME NEW q, IsSeq(q), Len(q) = 1 PROVE q = <<q[1]>>
<1> DEFINE e == q[1]
           t == <<e>>
<1>1. IsSeq(t) /\ Len(t) = 1 /\ t[1] = e
  BY One
<1> HIDE DEF t
<1>2. \A j \in 1 .. 1 : q[j] = t[j]
  BY <1>1
<1>3. q = t
  BY <1>1, <1>2, SameSeq
<1> QED BY <1>3 DEF t

\* Pieces of a text
LEMMA PiecesAside ==
    ASSUME NEW kind, kind \notin {"call", "result"}, NEW id, NEW w, IsSeq(w)
    PROVE  Aside(Pieces(kind, id, w)) /\ (Pieces(kind, id, w) = <<>> <=> w = <<>>)
<1> DEFINE Ok(v) == Aside(Pieces(kind, id, v))
           S == {n \in Nat : \A v : IsSeq(v) /\ Len(v) = n => Ok(v)}
<1>1. 0 \in S
  <2>1. ASSUME NEW v, IsSeq(v), Len(v) = 0 PROVE Ok(v)
    <3>1. v = <<>>
      BY <2>1, EmptySeqLength
    <3> QED BY <3>1, EmptyPieces, NothingAside
  <2> QED BY <2>1
<1>2. ASSUME NEW n \in S PROVE n + 1 \in S
  <2>1. n \in Nat /\ \A v : IsSeq(v) /\ Len(v) = n => Ok(v)
    OBVIOUS
  <2> HIDE DEF S
  <2>2. ASSUME NEW v, IsSeq(v), Len(v) = n + 1 PROVE Ok(v)
    <3>1. PICK f : IsSeq(f) /\ Len(f) = n /\ v = Append(f, v[n + 1])
      BY <2>1, <2>2, Shortened
    <3> DEFINE e == v[n + 1]
               y == <<e>>
    <3>2. v = Cat(f, y) /\ IsSeq(y) /\ Len(y) = 1 /\ y[1] = e
      BY <3>1, CatOne, One
    <3> HIDE DEF e, y
    <3> DEFINE q == Pieces(kind, id, y)
    <3>3. IsSeq(q) /\ Len(q) = 1 /\ q[1] = Piece(kind, id, e)
      <4>1. 1 \in 1 .. 1
        OBVIOUS
      <4> QED BY <3>2, <4>1, PiecesAre
    <3> HIDE DEF q
    <3>4. q = <<Piece(kind, id, e)>>
      BY <3>3, OneElement
    <3>5. Piece(kind, id, e).kind = kind
      BY DEF Piece
    <3>6. Aside(q)
      BY <3>4, <3>5, OneAside
    <3>7. Pieces(kind, id, v) = Cat(Pieces(kind, id, f), q)
      BY <3>1, <3>2, PiecesCat DEF q
    <3>8. Ok(f)
      BY <2>1, <3>1
    <3> HIDE DEF Ok
    <3>9. Aside(Pieces(kind, id, f))
      BY <3>8 DEF Ok
    <3> QED BY <3>6, <3>7, <3>9, AsideCat DEF Ok
  <2> QED BY <2>1, <2>2 DEF S
<1>3. S = Nat
  <2>1. S \in SUBSET Nat
    OBVIOUS
  <2> HIDE DEF S
  <2> QED BY <1>1, <1>2, <2>1, SetInduction
<1>4. Len(w) \in Nat
  BY SeqLength
<1>5. Ok(w)
  BY <1>3, <1>4
<1>6. Pieces(kind, id, w) = <<>> <=> w = <<>>
  BY PiecesAre, EmptySeqLength
<1> QED BY <1>5, <1>6

\* Blocks that are not of tools
Toolless(bs) == Good(bs) /\ \A k \in 1 .. Len(bs) : bs[k].type \in {"text", "media", "thinking"}

LEMMA VoicedIsToolless == ASSUME NEW bs, IsVoiced(bs) PROVE Toolless(bs)
BY VoicedIsGood DEF Toolless, IsVoiced, VoicedBlock

LEMMA AttachedIsToolless == ASSUME NEW bs, Attached(bs) PROVE Toolless(bs)
BY AttachedIsGood DEF Toolless, Attached, AttachedBlock

LEMMA ToollessRead ==
    ASSUME NEW ends, NEW r, r \notin {"call", "result"}, NEW all, Toolless(all)
    PROVE  Aside(Read(ends, r, all))
<1> DEFINE Ok(bs) == Aside(Read(ends, r, bs))
           S == {n \in Nat : \A bs : Toolless(bs) /\ Len(bs) = n => Ok(bs)}
<1>1. 0 \in S
  <2>1. ASSUME NEW bs, Toolless(bs), Len(bs) = 0 PROVE Ok(bs)
    <3>1. bs = <<>>
      BY <2>1, EmptySeqLength DEF Toolless, Good
    <3> QED BY <3>1, EmptyRead, NothingAside
  <2> QED BY <2>1
<1>2. ASSUME NEW n \in S PROVE n + 1 \in S
  <2>1. n \in Nat /\ \A bs : Toolless(bs) /\ Len(bs) = n => Ok(bs)
    OBVIOUS
  <2> HIDE DEF S
  <2>2. ASSUME NEW w, Toolless(w), Len(w) = n + 1 PROVE Ok(w)
    <3>1. IsSeq(w)
      BY <2>2 DEF Toolless, Good
    <3>2. PICK f : IsSeq(f) /\ Len(f) = n /\ w = Append(f, w[n + 1])
      BY <2>1, <2>2, <3>1, Shortened
    <3> DEFINE x == w[n + 1]
               y == <<x>>
    <3>3. w = Append(f, x) /\ w = Cat(f, y)
      BY <3>2, CatOne
    <3> HIDE DEF x
    <3>4. n + 1 \in 1 .. n + 1 /\ \A k \in 1 .. n : k \in 1 .. n + 1
      BY <2>1
    <3>5. (\A k \in 1 .. n : w[k] = f[k]) /\ w[n + 1] = x
      <4> DEFINE t == Append(f, x)
      <4>1. (\A j \in 1 .. Len(f) : t[j] = f[j]) /\ t[Len(f) + 1] = x
        BY <3>2, Appended
      <4> HIDE DEF t
      <4>2. w = t
        BY <3>3 DEF t
      <4> QED BY <3>2, <4>1, <4>2
    <3>6. GoodBlock(x) /\ x.type \in {"text", "media", "thinking"}
      BY <2>2, <3>4, <3>5 DEF Toolless, Good
    <3>7. Toolless(f)
      BY <2>2, <3>2, <3>4, <3>5 DEF Toolless, Good
    <3>8. Good(f) /\ Good(y) /\ Read(ends, r, y) = BlockPieces(ends, r, x)
      BY <3>6, <3>7, OneGood, OneRead DEF Toolless
    <3>9. Read(ends, r, w) = Cat(Read(ends, r, f), Read(ends, r, y))
      <4> HIDE DEF y
      <4> QED BY <3>3, <3>8, ReadCat
    <3>10. Aside(BlockPieces(ends, r, x))
      <4>1. IsSeq(x.text)
        BY <3>6 DEF GoodBlock
      <4>2. CASE x.type = "thinking"
        <5>1. "thinking" \notin {"call", "result"}
          OBVIOUS
        <5>2. BlockPieces(ends, r, x) = Pieces("thinking", NoId, x.text)
          BY <3>6, <4>2, OfBlock
        <5>3. Aside(Pieces("thinking", NoId, x.text))
          BY <4>1, <5>1, PiecesAside
        <5> QED BY <5>2, <5>3
      <4>3. CASE x.type \in {"text", "media"}
        <5>1. BlockPieces(ends, r, x) = Pieces(r, NoId, x.text)
          BY <3>6, <4>3, OfBlock
        <5>2. Aside(Pieces(r, NoId, x.text))
          BY <4>1, PiecesAside
        <5> QED BY <5>1, <5>2
      <4> QED BY <3>6, <4>2, <4>3
    <3>11. Aside(Read(ends, r, f))
      BY <2>1, <3>2, <3>7
    <3> HIDE DEF y
    <3> QED BY <3>8, <3>9, <3>10, <3>11, AsideCat
  <2> QED BY <2>1, <2>2 DEF S
<1>3. S = Nat
  <2>1. S \in SUBSET Nat
    OBVIOUS
  <2> HIDE DEF S
  <2> QED BY <1>1, <1>2, <2>1, SetInduction
<1>4. Len(all) \in Nat
  BY SeqLength DEF Toolless, Good
<1> QED BY <1>3, <1>4

\* Whatever is said is read
LEMMA VoicedIsRead ==
    ASSUME NEW ends, NEW r, r \notin {"call", "result"}, NEW said0, IsVoiced(said0)
    PROVE  LET p == Read(ends, r, said0)
           IN  Aside(p) /\ (p = <<>> <=> said0 = <<>>)
<1> DEFINE p == Read(ends, r, said0)
<1>1. Aside(p)
  BY VoicedIsToolless, ToollessRead
<1>2. said0 = <<>> => p = <<>>
  BY EmptyRead
<1>3. ASSUME said0 # <<>> PROVE p # <<>>
  <2>1. IsSeq(said0)
    BY VoicedIsGood
  <2>2. PICK f, x : IsSeq(f) /\ said0 = Append(f, x)
    BY <1>3, <2>1, LastOf
  <2>3. IsVoiced(f) /\ VoicedBlock(x) /\ IsVoiced(<<x>>) /\ said0 = Cat(f, <<x>>)
    BY <2>2, VoicedLess
  <2> DEFINE y == <<x>>
  <2>4. Good(f) /\ Good(y) /\ GoodBlock(x) /\ IsSeq(x.text) /\ x.text # <<>>
    BY <2>3, VoicedIsGood, EmptyGood DEF VoicedBlock, GoodBlock, Types
  <2>5. Read(ends, r, y) = BlockPieces(ends, r, x)
    BY <2>4, OneRead
  <2>6. BlockPieces(ends, r, x) # <<>>
    <3>1. \A kind : Pieces(kind, NoId, x.text) # <<>>
      BY <2>4, PiecesAre, EmptySeqLength
    <3>2. x.type \in {"text", "media", "thinking"}
      BY <2>3 DEF VoicedBlock
    <3>3. BlockPieces(ends, r, x) \in {Pieces(r, NoId, x.text), Pieces("thinking", NoId, x.text)}
      BY <2>4, <3>2, OfBlock
    <3> HIDE DEF y
    <3> QED BY <3>1, <3>3
  <2> HIDE DEF y
  <2>7. p = Cat(Read(ends, r, f), Read(ends, r, y)) /\ IsSeq(Read(ends, r, f)) /\ IsSeq(Read(ends, r, y))
    BY <2>3, <2>4, ReadCat, ReadIsSeq DEF y
  <2> HIDE DEF p
  <2> QED BY <2>5, <2>6, <2>7, CatIsEmpty
<1> QED BY <1>1, <1>2, <1>3

\* Pieces of a result after its first change nothing
Inner(w) == IsSeq(w) /\ \A j \in 1 .. Len(w) : w[j].kind # "starts"

LEMMA InnerRead ==
    ASSUME NEW id, NEW w, Inner(w)
    PROVE  \A s, t : Runs(s, Pieces("result", id, w), t) <=> s = t
<1> DEFINE Ok(v) == \A s, t : Runs(s, Pieces("result", id, v), t) <=> s = t
           S == {n \in Nat : \A v : Inner(v) /\ Len(v) = n => Ok(v)}
<1>1. 0 \in S
  <2>1. ASSUME NEW v, Inner(v), Len(v) = 0 PROVE Ok(v)
    <3>1. v = <<>>
      BY <2>1, EmptySeqLength DEF Inner
    <3> QED BY <3>1, EmptyPieces, RunsNothing
  <2> QED BY <2>1
<1>2. ASSUME NEW n \in S PROVE n + 1 \in S
  <2>1. n \in Nat /\ \A v : Inner(v) /\ Len(v) = n => Ok(v)
    OBVIOUS
  <2> HIDE DEF S
  <2>2. ASSUME NEW v, Inner(v), Len(v) = n + 1 PROVE Ok(v)
    <3>0. IsSeq(v)
      BY <2>2 DEF Inner
    <3>1. PICK f : IsSeq(f) /\ Len(f) = n /\ v = Append(f, v[n + 1])
      BY <2>1, <2>2, <3>0, Shortened
    <3> DEFINE e == v[n + 1]
               y == <<e>>
    <3>2. v = Cat(f, y) /\ IsSeq(y) /\ Len(y) = 1 /\ y[1] = e /\ v = Append(f, e)
      BY <3>1, CatOne, One
    <3>3. e.kind # "starts"
      <4>1. n + 1 \in 1 .. n + 1
        BY <2>1
      <4> QED BY <2>2, <4>1 DEF Inner
    <3> HIDE DEF e, y
    <3>4. \A k \in 1 .. n : v[k] = f[k]
      <4> DEFINE t == Append(f, e)
      <4>1. \A j \in 1 .. Len(f) : t[j] = f[j]
        BY <3>1, Appended
      <4> HIDE DEF t
      <4>2. v = t
        BY <3>2 DEF t
      <4> QED BY <3>1, <4>1, <4>2
    <3>5. Inner(f)
      <4>1. \A k \in 1 .. n : k \in 1 .. n + 1
        BY <2>1
      <4> QED BY <2>2, <3>1, <3>4, <4>1 DEF Inner
    <3> DEFINE q == Pieces("result", id, y)
               p == Piece("result", id, e)
    <3>6. IsSeq(q) /\ Len(q) = 1 /\ q[1] = p
      <4>1. 1 \in 1 .. 1
        OBVIOUS
      <4> QED BY <3>2, <4>1, PiecesAre
    <3>7. p.kind = "result" /\ p.val = e
      BY DEF Piece
    <3>9. IsSeq(Pieces("result", id, f))
      BY <3>1, PiecesAre
    <3> HIDE DEF q, p
    <3>8. Pieces("result", id, v) = Cat(Pieces("result", id, f), q)
      <4>1. IsSeq(f) /\ IsSeq(y)
        BY <3>1, <3>2
      <4>2. Pieces("result", id, Cat(f, y)) = Cat(Pieces("result", id, f), Pieces("result", id, y))
        BY <4>1, PiecesCat
      <4>3. v = Cat(f, y)
        BY <3>2
      <4> QED BY <4>2, <4>3 DEF q
    <3>10. q = <<p>>
      BY <3>6, OneElement
    <3>11. \A s, t : Runs(s, q, t) <=> s = t
      <4>1. \A s, t : Takes(s, p, t) <=> s = t
        BY <3>3, <3>7 DEF Takes, Starts
      <4> QED BY <3>10, <4>1, RunsOne
    <3>12. Ok(f)
      BY <2>1, <3>1, <3>5
    <3> DEFINE z == Pieces("result", id, f)
    <3>13. ASSUME NEW s, NEW t PROVE Runs(s, Cat(z, q), t) <=> s = t
      <4>1. Runs(s, Cat(z, q), t) <=> \E u : Runs(s, z, u) /\ Runs(u, q, t)
        BY <3>6, <3>9, RunsCat
      <4> QED BY <3>11, <3>12, <4>1
    <3> QED BY <3>8, <3>13
  <2> QED BY <2>1, <2>2 DEF S
<1>3. S = Nat
  <2>1. S \in SUBSET Nat
    OBVIOUS
  <2> HIDE DEF S
  <2> QED BY <1>1, <1>2, <2>1, SetInduction
<1>4. Len(w) \in Nat
  BY SeqLength DEF Inner
<1> QED BY <1>3, <1>4

\* Where a result may start all of it may be read
Start(id) == Piece("result", id, Phrase("starts", 0))

LEMMA StartIs == ASSUME NEW id PROVE Starts(Start(id)) /\ Start(id).id = id /\ Start(id).kind = "result"
BY DEF Start, Starts, Piece, Phrase

LEMMA ResultRuns ==
    ASSUME NEW id, NEW d, Texted(d), Inner(Joined(d))
    PROVE  \A s, t : Runs(s, ResultPieces(id, d), t) <=> Takes(s, Start(id), t)
<1> DEFINE p == Start(id)
           x == <<p>>
           y == Pieces("result", id, Joined(d))
<1>1. ResultPieces(id, d) = Cat(x, y)
  BY DEF ResultPieces, Start
<1>2. IsSeq(x) /\ IsSeq(y)
  <2>1. IsSeq(Joined(d))
    BY DEF Inner
  <2>2. IsSeq(y)
    BY <2>1, PiecesAre
  <2> QED BY <2>2, One
<1>3. \A s, t : Runs(s, x, t) <=> Takes(s, p, t)
  BY RunsOne
<1>4. \A s, t : Runs(s, y, t) <=> s = t
  BY InnerRead
<1> HIDE DEF p, x, y
<1>5. ASSUME NEW s, NEW t PROVE Runs(s, Cat(x, y), t) <=> Takes(s, p, t)
  <2>1. Runs(s, Cat(x, y), t) <=> \E u : Runs(s, x, u) /\ Runs(u, y, t)
    BY <1>2, RunsCat
  <2> QED BY <1>3, <1>4, <2>1
<1> QED BY <1>1, <1>5 DEF p

\* Nothing that is said or attached starts a result
LEMMA UtteredIsInner == ASSUME NEW t, NEW kinds, AllIn(t, kinds), "starts" \notin kinds PROVE Inner(t)
BY DEF AllIn, Inner

LEMMA InnerCat == ASSUME NEW s, Inner(s), NEW t, Inner(t) PROVE Inner(Cat(s, t))
<1> DEFINE u == Cat(s, t)
           n == Len(s)
           m == Len(t)
<1>1. IsSeq(s) /\ IsSeq(t) /\ n \in Nat /\ m \in Nat
  BY SeqLength DEF Inner
<1>2. /\ IsSeq(u) /\ Len(u) = n + m
      /\ \A j \in 1 .. n : u[j] = s[j]
      /\ \A j \in 1 .. m : u[n + j] = t[j]
  BY <1>1, Concat DEF Cat
<1> HIDE DEF u
<1>3. ASSUME NEW k \in 1 .. Len(u) PROVE u[k].kind # "starts"
  <2>1. CASE k \in 1 .. n
    BY <1>2, <2>1 DEF Inner, n
  <2>2. CASE k \notin 1 .. n
    <3> DEFINE j == k - n
    <3>1. j \in 1 .. m /\ n + j = k
      BY <1>1, <1>2, <2>2
    <3> HIDE DEF j, n
    <3> QED BY <1>2, <3>1 DEF Inner, m
  <2> QED BY <2>1, <2>2
<1>4. Inner(u)
  BY <1>2, <1>3 DEF Inner
<1> QED BY <1>4 DEF u

LEMMA PlainJoined == ASSUME NEW all, IsPlain(all) PROVE Inner(Joined(all))
<1> DEFINE Ok(d) == Inner(Joined(d))
           S == {n \in Nat : \A d : IsPlain(d) /\ Len(d) = n => Ok(d)}
<1>1. 0 \in S
  <2>1. ASSUME NEW d, IsPlain(d), Len(d) = 0 PROVE Ok(d)
    <3>1. d = <<>>
      BY <2>1, EmptySeqLength DEF IsPlain, IsVoiced
    <3>2. Inner(<<>>)
      BY EmptyIsSeq DEF Inner
    <3> QED BY <3>1, <3>2, EmptyJoined
  <2> QED BY <2>1
<1>2. ASSUME NEW n \in S PROVE n + 1 \in S
  <2>1. n \in Nat /\ \A d : IsPlain(d) /\ Len(d) = n => Ok(d)
    OBVIOUS
  <2> HIDE DEF S
  <2>2. ASSUME NEW d, IsPlain(d), Len(d) = n + 1 PROVE Ok(d)
    <3>0. IsSeq(d) /\ IsVoiced(d)
      BY <2>2 DEF IsPlain, IsVoiced
    <3>1. PICK f : IsSeq(f) /\ Len(f) = n /\ d = Append(f, d[n + 1])
      BY <2>1, <2>2, <3>0, Shortened
    <3> DEFINE b == d[n + 1]
               y == <<b>>
    <3>2. d = Append(f, b)
      BY <3>1
    <3> HIDE DEF b
    <3>3. IsPlain(Append(f, b)) /\ IsVoiced(Append(f, b))
      <4> DEFINE t == Append(f, b)
      <4>1. d = t
        BY <3>2
      <4> HIDE DEF t
      <4>2. IsPlain(t) /\ IsVoiced(t)
        BY <2>2, <3>0, <4>1
      <4> QED BY <4>2 DEF t
    <3>4. IsVoiced(f) /\ VoicedBlock(b) /\ IsVoiced(y) /\ Append(f, b) = Cat(f, y)
          /\ IsPlain(f) /\ b.type # "thinking"
      BY <3>1, <3>3, VoicedLess
    <3>5. AllIn(b.text, Uttered \cup {"media"})
      BY <3>4 DEF VoicedBlock, KindsOf, AllIn
    <3>6. Inner(b.text)
      BY <3>5, UtteredIsInner DEF Uttered
    <3>7. Joined(y) = b.text
      BY <3>4, OneJoined DEF VoicedBlock
    <3>8. Texted(f) /\ Texted(y)
      BY <3>4, VoicedIsGood
    <3> HIDE DEF y
    <3>9. Joined(d) = Cat(Joined(f), b.text)
      BY <3>2, <3>4, <3>7, <3>8, JoinedCat
    <3>10. Inner(Joined(f))
      BY <2>1, <3>1, <3>4
    <3> QED BY <3>6, <3>9, <3>10, InnerCat
  <2> QED BY <2>1, <2>2 DEF S
<1>3. S = Nat
  <2>1. S \in SUBSET Nat
    OBVIOUS
  <2> HIDE DEF S
  <2> QED BY <1>1, <1>2, <2>1, SetInduction
<1>4. Len(all) \in Nat
  BY SeqLength DEF IsPlain, IsVoiced
<1> QED BY <1>3, <1>4

\* A text that stands for a result is no less
LEMMA StandsIsInner ==
    ASSUME NEW d, IsPlain(d), NEW shown, StandsFor(shown, d)
    PROVE  Texted(NonEmpty(shown)) /\ Inner(Joined(NonEmpty(shown)))
<1>1. Inner(TextOf(d)) /\ IsSeq(TextOf(d))
  <2>1. IsVoiced(d)
    BY DEF IsPlain
  <2>2. AllIn(TextOf(d), Uttered)
    BY <2>1, TextIsUttered
  <2> QED BY <2>2, UtteredIsInner DEF Uttered, AllIn
<1>2. ASSUME NEW p \in {Raw, Placeholder} PROVE Inner(<<p>>)
  <2> DEFINE t == <<p>>
  <2>1. IsSeq(t) /\ Len(t) = 1 /\ t[1] = p
    BY One
  <2>2. p.kind # "starts"
    BY DEF Raw, Placeholder, Phrase
  <2> HIDE DEF t
  <2>3. Inner(t)
    BY <2>1, <2>2 DEF Inner
  <2> QED BY <2>3 DEF t
<1>3. Inner(shown) /\ IsSeq(shown)
  <2>1. Inner(shown)
    BY <1>1, <1>2 DEF StandsFor
  <2> QED BY <2>1 DEF Inner
<1>4. CASE shown = <<>>
  <2>1. NonEmpty(shown) = <<>>
    BY <1>4 DEF NonEmpty
  <2> QED BY <1>3, <1>4, <2>1, EmptyGood, EmptyJoined
<1>5. CASE shown # <<>>
  <2> DEFINE b == Text(shown)
             y == <<b>>
  <2>1. NonEmpty(shown) = y
    BY <1>5 DEF NonEmpty
  <2>2. b.text = shown
    BY DEF Text, Block
  <2>3. IsSeq(y) /\ Len(y) = 1 /\ y[1] = b
    BY One
  <2> HIDE DEF b
  <2>4. Joined(y) = shown
    BY <1>3, <2>2, OneJoined
  <2> HIDE DEF y
  <2>5. Texted(y)
    BY <1>3, <2>2, <2>3 DEF Texted
  <2> QED BY <1>3, <2>1, <2>4, <2>5
<1> QED BY <1>4, <1>5

\* A result stands where its text does
LEMMA ResultLeads ==
    ASSUME NEW id, NEW d, IsPlain(d), NEW shown, StandsFor(shown, d)
    PROVE  \A s, t : /\ Runs(s, ResultPieces(id, d), t) <=> Takes(s, Start(id), t)
                     /\ Runs(s, ResultPieces(id, NonEmpty(shown)), t) <=> Takes(s, Start(id), t)
BY PlainIsGood, PlainJoined, StandsIsInner, ResultRuns

-----------------------------------------------------------------------------
(* What is sent may stand wherever what was written does: Anthropic and Responses *)

LEMMA LeadsFlat ==
    ASSUME NEW s, IsSeq(s), NEW f, Lists(f, s), NEW t, IsSeq(t), Len(t) = Len(s), NEW g, Lists(g, t),
           \A k \in 1 .. Len(s) : Leads(f[k], g[k])
    PROVE  Leads(FlattenSeq(f), FlattenSeq(g))
<1> DEFINE Pair(x, y) == IsSeqs(x) /\ IsSeqs(y) /\ Len(x) = Len(y)
                         /\ \A k \in 1 .. Len(x) : Leads(x[k], y[k])
           S == {n \in Nat : \A x, y : Pair(x, y) /\ Len(x) = n => Leads(FlattenSeq(x), FlattenSeq(y))}
<1>1. 0 \in S
  <2>1. ASSUME NEW x, NEW y, Pair(x, y), Len(x) = 0 PROVE Leads(FlattenSeq(x), FlattenSeq(y))
    <3>1. x = <<>> /\ y = <<>>
      BY <2>1, EmptySeqLength DEF IsSeqs
    <3>2. FlattenSeq(<<>>) = <<>> /\ IsSeq(<<>>)
      BY FlatEmpty, EmptyIsSeq
    <3> QED BY <3>1, <3>2, LeadsSame
  <2> QED BY <2>1
<1>2. ASSUME NEW n \in S PROVE n + 1 \in S
  <2>1. n \in Nat /\ \A x, y : Pair(x, y) /\ Len(x) = n => Leads(FlattenSeq(x), FlattenSeq(y))
    OBVIOUS
  <2> HIDE DEF S
  <2>2. ASSUME NEW x, NEW y, Pair(x, y), Len(x) = n + 1 PROVE Leads(FlattenSeq(x), FlattenSeq(y))
    <3>1. IsSeq(x) /\ IsSeq(y)
      BY <2>2 DEF IsSeqs
    <3>2. PICK p : IsSeq(p) /\ Len(p) = n /\ x = Append(p, x[n + 1])
      BY <2>1, <2>2, <3>1, Shortened
    <3>3. PICK q : IsSeq(q) /\ Len(q) = n /\ y = Append(q, y[n + 1])
      BY <2>1, <2>2, <3>1, Shortened
    <3> DEFINE v == x[n + 1]
               w == y[n + 1]
    <3>4. x = Append(p, v) /\ y = Append(q, w)
      BY <3>2, <3>3
    <3>5. IsSeq(v) /\ IsSeq(w) /\ Leads(v, w)
      BY <2>1, <2>2 DEF IsSeqs
    <3> HIDE DEF v, w
    <3>6. \A k \in 1 .. n : p[k] = x[k] /\ q[k] = y[k]
      BY <3>2, <3>3, <3>4, Appended
    <3>7. Pair(p, q)
      BY <2>1, <2>2, <3>2, <3>3, <3>6 DEF IsSeqs
    <3>8. Leads(FlattenSeq(p), FlattenSeq(q))
      BY <2>1, <3>2, <3>7
    <3>9. IsSeq(FlattenSeq(p)) /\ IsSeq(FlattenSeq(q))
      BY <3>7, FlatIsSeq
    <3>10. FlattenSeq(x) = Cat(FlattenSeq(p), v) /\ FlattenSeq(y) = Cat(FlattenSeq(q), w)
      BY <3>2, <3>3, <3>4, <3>5, FlatAppend DEF Cat
    <3> QED BY <3>5, <3>8, <3>9, <3>10, LeadsCat
  <2> QED BY <2>1, <2>2 DEF S
<1> HIDE DEF S
<1>3. S = Nat
  <2>1. S \in SUBSET Nat
    BY DEF S
  <2> QED BY <1>1, <1>2, <2>1, SetInduction
<1>4. Pair(f, g) /\ Len(f) \in Nat
  BY ListsAre, SeqLength
<1> QED BY <1>3, <1>4 DEF S

\* The text first, then the rest
LEMMA TextFirstLeads ==
    ASSUME NEW r, r # "thinking", r \notin {"call", "result"}, NEW ends, NEW a, IsVoiced(a)
    PROVE  LET t == TextOf(a)
               b == Cat(NonEmpty(t), AntConverted(t, a))
           IN  IsVoiced(b) /\ Leads(Read(ends, r, a), Read(ends, r, b))
<1> DEFINE t == TextOf(a)
           o == NonEmpty(t)
           w == AntConverted(t, a)
           b == Cat(o, w)
<1>1. IsVoiced(b)
  BY TextFirst
<1>2. ASSUME a = <<>> PROVE b = <<>>
  <2>1. t = <<>>
    BY <1>2, TextOfNone
  <2>2. o = <<>>
    BY <2>1 DEF NonEmpty
  <2>3. w = <<>>
    BY <1>2, NothingConverted
  <2> HIDE DEF o, w
  <2> QED BY <2>2, <2>3, CatEmpties
<1> HIDE DEF b
<1>3. /\ Aside(Read(ends, r, a)) /\ (Read(ends, r, a) = <<>> <=> a = <<>>)
      /\ Aside(Read(ends, r, b)) /\ (Read(ends, r, b) = <<>> <=> b = <<>>)
  BY <1>1, VoicedIsRead
<1>4. Leads(Read(ends, r, a), Read(ends, r, b))
  BY <1>2, <1>3, AsideLeads
<1> QED BY <1>1, <1>4 DEF b, o, w, t

\* A message for Anthropic may stand where the one does that it is made of
LEMMA AntMessageLeads ==
    ASSUME NEW c, c # "anthropic", NEW m, GoodMsg(c, m), NEW ends, "anthropic" \in ends
    PROVE  LET w == MessageToAnthropic(m)
           IN  /\ w.role = m.role /\ IsSeq(WireRead(ends, "anthropic", w))
               /\ Leads(MsgRead(ends, m), WireRead(ends, "anthropic", w))
<1> DEFINE w == MessageToAnthropic(m)
<1>1. w.role = m.role
  BY MessageToAnthropicIs
<1>2. WireRead(ends, "anthropic", w) = Read(ends, m.role, w.content)
  BY <1>1 DEF WireRead, Blocks
<1>3. Good(MsgBlocks(m)) /\ IsSeq(MsgRead(ends, m))
  BY MsgIsRead
<1>4. SUFFICES Good(w.content) /\ Leads(MsgRead(ends, m), Read(ends, m.role, w.content))
  BY <1>1, <1>2, <1>4, ReadIsSeq
<1>5. CASE ToolMsg(m)
  <2>1. w.content = MsgBlocks(m)
    BY <1>5, BlocksOfTool, MessageToAnthropicIs DEF ToolMsg
  <2> QED BY <1>3, <2>1, LeadsSame DEF MsgRead
<1>6. ASSUME NEW a, IsVoiced(a), NEW u, IsUses(u), m.role \in {"user", "assistant"},
             m.text = TextOf(a), MsgBlocks(m) = Cat(a, u), Fits(m, Cat(a, u))
      PROVE  Good(w.content) /\ Leads(MsgRead(ends, m), Read(ends, m.role, w.content))
  <2> DEFINE t  == m.text
             o  == NonEmpty(t)
             r  == m.role
             va == AntConverted(t, a)
             vu == AntConverted(t, u)
             b  == Cat(o, va)
  <2>1. w.content = Cat(o, AntConverted(t, m.content))
    BY <1>6, MessageToAnthropicIs DEF Cat
  <2>2. IsSeq(a) /\ IsSeq(u) /\ Good(a) /\ Good(u)
    BY <1>6, VoicedIsGood, UsesAreGood DEF IsUses
  <2>3. CASE m.content = <<>> /\ Cat(a, u) = o
    <3>1. AntConverted(t, m.content) = <<>>
      BY <2>3, NothingConverted
    <3>2. Good(o) /\ IsSeq(o)
      BY <1>3, <1>6, <2>3 DEF Good
    <3> HIDE DEF o
    <3>3. w.content = MsgBlocks(m)
      BY <1>6, <2>1, <2>3, <3>1, <3>2, CatEmpty
    <3> QED BY <1>3, <3>3, LeadsSame DEF MsgRead
  <2>4. CASE m.content = Cat(a, u)
    <3>1. IsVoiced(b) /\ Leads(Read(ends, r, a), Read(ends, r, b))
      <4>1. r # "thinking" /\ r \notin {"call", "result"}
        BY <1>6
      <4> QED BY <1>6, <4>1, TextFirstLeads
    <3>2. Good(vu) /\ Read(ends, r, vu) = Read(ends, r, u) /\ IsSeq(vu)
      BY <1>6, UsesConverted DEF Good
    <3>3. AntConverted(t, m.content) = Cat(va, vu)
      BY <2>2, <2>4, ConvertedCat
    <3>4. IsSeq(va) /\ IsSeq(o)
      BY <2>2, ConvertedIsSeq, One, EmptyIsSeq DEF NonEmpty
    <3> HIDE DEF o, va, vu, t, r
    <3>5. w.content = Cat(b, vu)
      BY <2>1, <3>2, <3>3, <3>4, CatAssoc
    <3> HIDE DEF b
    <3>6. Good(b)
      BY <3>1, VoicedIsGood
    <3>7. Good(w.content) /\ Read(ends, r, w.content) = Cat(Read(ends, r, b), Read(ends, r, vu))
      BY <3>2, <3>5, <3>6, ReadCat, GoodCat
    <3>8. MsgRead(ends, m) = Cat(Read(ends, r, a), Read(ends, r, u))
      BY <1>6, <2>2, ReadCat DEF MsgRead, r
    <3>9. IsSeq(Read(ends, r, a)) /\ IsSeq(Read(ends, r, b)) /\ IsSeq(Read(ends, r, u))
      BY <2>2, <3>6, ReadIsSeq
    <3>10. Leads(Read(ends, r, u), Read(ends, r, u))
      BY <3>9, LeadsSame
    <3>11. Leads(Cat(Read(ends, r, a), Read(ends, r, u)), Cat(Read(ends, r, b), Read(ends, r, u)))
      BY <3>1, <3>10, LeadsCat
    <3> QED BY <3>2, <3>7, <3>8, <3>11 DEF r
  <2> QED BY <1>6, <2>3, <2>4 DEF Fits
<1>7. CASE \E rs, own : UserMsg(m, rs, own) /\ (c # "anthropic" => rs = <<>>)
  <2>1. PICK own : UserMsg(m, <<>>, own)
    BY <1>7
  <2> DEFINE e == <<>>
  <2>2. IsPlain(own) /\ IsVoiced(own) /\ IsSeq(own) /\ IsUses(e) /\ m.role = "user" /\ m.text = TextOf(own)
    BY <2>1, PlainIsGood, EmptyUses DEF UserMsg, IsPlain
  <2>3. MsgBlocks(m) = Cat(<<>>, own) /\ Fits(m, Cat(<<>>, own))
    BY <2>1, BlocksOfUser DEF UserMsg
  <2>4. Cat(<<>>, own) = own /\ Cat(own, e) = own
    BY <2>2, CatEmpty
  <2> HIDE DEF e
  <2>5. MsgBlocks(m) = Cat(own, e) /\ Fits(m, Cat(own, e))
    BY <2>3, <2>4
  <2> QED BY <1>6, <2>2, <2>5
<1>8. CASE \E a, u : TalkMsg(m, a, u)
  <2>1. PICK a, u : TalkMsg(m, a, u)
    BY <1>8
  <2>2. IsVoiced(a) /\ IsUses(u) /\ m.role = "assistant" /\ m.text = TextOf(a) /\ Fits(m, Cat(a, u))
    BY <2>1 DEF TalkMsg
  <2>3. MsgBlocks(m) = Cat(a, u)
    BY <2>1, BlocksOfTalk
  <2> QED BY <1>6, <2>2, <2>3
<1> QED BY <1>5, <1>7, <1>8 DEF GoodMsg

\* What the upstream reads may stand where the parsed messages do, if no call is left
Stands(ends, u, wire, ms) ==
    LET p == Cat(Read(ends, "system", wire.system), ReadMessages(ends, u, wire.messages))
    IN  /\ IsSeq(p)
        /\ \A s, t : Runs(s, Cat(Read(ends, "system", Instructions), MsgsRead(ends, ms)), t) /\ t.wait = {} =>
                     Runs(s, p, t)

LEMMA StandsForAnthropic ==
    ASSUME NEW c, c # "anthropic", NEW ms, GoodMsgs(c, ms), NEW ends, "anthropic" \in ends
    PROVE  Stands(ends, "anthropic", BuildAnthropic(Request(Instructions, ms)), ms)
<1> DEFINE wire == BuildAnthropic(Request(Instructions, ms))
           ws   == wire.messages
           f    == WireParts(ends, "anthropic", ws)
           g    == MsgParts(ends, ms)
           n    == Len(ms)
           sys  == Read(ends, "system", Instructions)
<1>1. IsSeq(ms) /\ n \in Nat /\ DOMAIN ms = 1 .. n
  BY SeqLength DEF GoodMsgs
<1>2. wire.system = Instructions /\ ws = [k \in DOMAIN ms |-> MessageToAnthropic(ms[k])]
  BY DEF BuildAnthropic, Request
<1>3. ws = [k \in 1 .. n |-> ws[k]] /\ \A k \in 1 .. n : ws[k] = MessageToAnthropic(ms[k])
  BY <1>1, <1>2
<1> HIDE DEF n, ws
<1>4. IsSeq(ws) /\ Len(ws) = n
  BY <1>1, <1>3, FunctionIsSeq
<1>5. DOMAIN ws = 1 .. n
  BY <1>3
<1>6. ASSUME NEW k \in 1 .. n
      PROVE  IsSeq(f[k]) /\ IsSeq(g[k]) /\ Leads(g[k], f[k])
  <2>1. GoodMsg(c, ms[k])
    BY DEF GoodMsgs, n
  <2>2. f[k] = WireRead(ends, "anthropic", MessageToAnthropic(ms[k])) /\ g[k] = MsgRead(ends, ms[k])
    BY <1>1, <1>3, <1>5 DEF WireParts, MsgParts
  <2> QED BY <1>3, <2>1, <2>2, AntMessageLeads, MsgIsRead
<1>7. Lists(f, ws) /\ Lists(g, ms)
  BY <1>1, <1>5, <1>6 DEF Lists, IsMap, WireParts, MsgParts
<1> HIDE DEF f, g
<1>8. Leads(FlattenSeq(g), FlattenSeq(f))
  <2>1. Len(ms) = Len(ws) /\ \A k \in 1 .. Len(ms) : Leads(g[k], f[k])
    BY <1>4, <1>6 DEF n
  <2> QED BY <1>1, <1>4, <1>7, <2>1, LeadsFlat
<1>9. ReadMessages(ends, "anthropic", ws) = FlattenSeq(f) /\ MsgsRead(ends, ms) = FlattenSeq(g)
  BY ReadMessagesAre DEF MsgsRead, f, g
<1>10. Leads(sys, sys)
  BY InstructionsGood, ReadIsSeq, LeadsSame
<1> HIDE DEF wire
<1>11. Read(ends, "system", wire.system) = sys
  BY <1>2
<1> HIDE DEF sys
<1>12. Leads(Cat(sys, FlattenSeq(g)), Cat(sys, FlattenSeq(f)))
  BY <1>8, <1>10, LeadsCat
<1> QED BY <1>9, <1>11, <1>12 DEF Stands, Leads, wire, ws, sys

LEMMA StandsForResponses ==
    ASSUME NEW c, NEW ms, GoodMsgs(c, ms), NEW ends, "responses" \in ends
    PROVE  Stands(ends, "responses", BuildResponses(Request(Instructions, ms)), ms)
<1> DEFINE wire == BuildResponses(Request(Instructions, ms))
           o    == NonEmpty(Joined(Instructions))
           sys  == Read(ends, "system", Instructions)
           x    == Cat(sys, MsgsRead(ends, ms))
<1>1. wire.system = o /\ wire.messages = AllItems(ms)
  BY DEF BuildResponses, Request, AllItems
<1>2. Read(ends, "system", o) = sys
  BY InstructionsAreText
<1>3. ReadMessages(ends, "responses", AllItems(ms)) = MsgsRead(ends, ms)
  BY AllItemsRead
<1>4. Leads(x, x)
  BY InstructionsGood, ReadIsSeq, MsgsAreRead, CatIsSeq, LeadsSame
<1> HIDE DEF wire, o, sys, x
<1> QED BY <1>1, <1>2, <1>3, <1>4 DEF Stands, Leads, wire, sys, x

-----------------------------------------------------------------------------
(* The same for Chat Completions, where attachments wait for a message of the user *)

\* Attachments wait only while no call does, or results have begun
Settled(p) == \A s, t : Runs(s, p, t) => t.wait = {} \/ t.back
Placed(ends, st, p) ==
    Leads(p, ReadMessages(ends, "chat", st.out)) /\ (st.pending # <<>> => Settled(p))

LEMMA ResultPlaced ==
    ASSUME NEW ends, NEW st, NEW p, Chatted(ends, st, p), Placed(ends, st, p), NEW d, IsPlain(d),
           NEW blocks, NEW fallback, Returned(blocks, fallback, d), NEW id
    PROVE  Placed(ends, AddResult(st, id, blocks, fallback), Cat(p, ResultPieces(id, d)))
<1> DEFINE media == OfType(blocks, "media")
           text  == IF TextOf(blocks) # <<>> THEN TextOf(blocks) ELSE fallback
           shown == IF text = <<>> /\ media # <<>> THEN <<Placeholder>> ELSE text
           x     == ChatMessage("tool", NonEmpty(shown), <<>>, <<>>, id)
           new   == AddResult(st, id, blocks, fallback)
           t     == ResultPieces(id, NonEmpty(shown))
           q     == ResultPieces(id, d)
           o     == Append(st.out, x)
           r     == ReadMessages(ends, "chat", st.out)
<1>1. new.out = o
  BY DEF AddResult
<1>2. StandsFor(shown, d)
  BY DEF Returned, StandsFor
<1> HIDE DEF shown, new
<1>3. Texted(NonEmpty(shown))
  BY <1>2, StandsIsInner
<1>4. x.role = "tool" /\ WireRead(ends, "chat", x) = t
  BY <1>3, ToolMessageRead
<1> HIDE DEF x
<1>5. IsSeq(t) /\ IsSeq(q)
  <2> DEFINE c == NonEmpty(shown)
             one == <<Piece("result", id, Phrase("starts", 0))>>
  <2>1. IsSeq(Joined(c))
    BY <1>2, StandsIsInner DEF Inner
  <2>2. IsSeq(Pieces("result", id, Joined(c))) /\ IsSeq(one)
    BY <2>1, PiecesAre, One
  <2> HIDE DEF c, one
  <2>3. IsSeq(ResultPieces(id, c))
    BY <2>2, CatIsSeq DEF ResultPieces, one
  <2> QED BY <2>3, ResultIsRead DEF c
<1>6. \A s, v : /\ Runs(s, q, v) <=> Takes(s, Start(id), v)
                /\ Runs(s, t, v) <=> Takes(s, Start(id), v)
  BY <1>2, ResultLeads
<1> HIDE DEF t, q
<1>7. Leads(q, t)
  BY <1>5, <1>6 DEF Leads
<1>8. ReadMessages(ends, "chat", o) = Cat(r, t)
  BY <1>4, <1>5, ReadableMore DEF Chatted
<1>9. Leads(p, r) /\ IsSeq(p)
  BY DEF Placed, Leads
<1> HIDE DEF o, r
<1>10. Leads(Cat(p, q), Cat(r, t))
  BY <1>7, <1>9, LeadsCat
<1>11. Settled(Cat(p, q))
  <2>1. ASSUME NEW s, NEW v, Runs(s, Cat(p, q), v) PROVE v.wait = {} \/ v.back
    <3>1. PICK u : Runs(s, p, u) /\ Runs(u, q, v)
      BY <1>5, <1>9, <2>1, RunsCat
    <3>2. Takes(u, Start(id), v)
      BY <1>6, <3>1
    <3>3. v = State(u.wait \ {id}, u.done \cup {id}, u.wait # {id})
      BY <3>2, StartIs DEF Takes
    <3>4. v.wait = u.wait \ {id} /\ v.back = (u.wait # {id})
      BY <3>3 DEF State
    <3>5. CASE u.wait = {id}
      BY <3>4, <3>5
    <3>6. CASE u.wait # {id}
      BY <3>4, <3>6
    <3> QED BY <3>5, <3>6
  <2> QED BY <2>1 DEF Settled
<1> QED BY <1>1, <1>8, <1>10, <1>11 DEF Placed, new, q

\* All results of a message
LEMMA ResultsPlaced ==
    ASSUME NEW ends, NEW st, NEW p, Chatted(ends, st, p), Placed(ends, st, p), NEW all, IsResults(all)
    PROVE  Placed(ends, AddResults(st, all), Cat(p, Read(ends, "user", all)))
<1> DEFINE Ok(rs) == Placed(ends, AddResults(st, rs), Cat(p, Read(ends, "user", rs)))
           S == {n \in Nat : \A rs : IsResults(rs) /\ Len(rs) = n => Ok(rs)}
<1>0. IsSeq(p)
  BY DEF Chatted
<1>1. 0 \in S
  <2>1. ASSUME NEW rs, IsResults(rs), Len(rs) = 0 PROVE Ok(rs)
    <3> DEFINE e == <<>>
    <3>1. rs = e
      BY <2>1, EmptySeqLength DEF IsResults
    <3>2. Read(ends, "user", e) = e /\ Cat(p, e) = p /\ AddResults(st, e) = st
      BY <1>0, EmptyRead, CatEmpty, AddResultsEmpty
    <3> QED BY <3>1, <3>2
  <2> QED BY <2>1
<1>2. ASSUME NEW n \in S PROVE n + 1 \in S
  <2>1. n \in Nat /\ \A rs : IsResults(rs) /\ Len(rs) = n => Ok(rs)
    OBVIOUS
  <2> HIDE DEF S
  <2>2. ASSUME NEW w, IsResults(w), Len(w) = n + 1 PROVE Ok(w)
    <3>1. IsSeq(w)
      BY <2>2 DEF IsResults
    <3>2. PICK f : IsSeq(f) /\ Len(f) = n /\ w = Append(f, w[n + 1])
      BY <2>1, <2>2, <3>1, Shortened
    <3> DEFINE x == w[n + 1]
               y == <<x>>
    <3>3. w = Append(f, x)
      BY <3>2
    <3> HIDE DEF x
    <3>4. IsResults(f) /\ x = ToolResult(x.id, x.content) /\ IsPlain(x.content)
      BY <2>2, <3>2, <3>3, ResultsLess
    <3>5. Ok(f)
      BY <2>1, <3>2, <3>4
    <3> DEFINE id  == x.id
               d   == x.content
               old == AddResults(st, f)
               new == AddResult(old, id, ResultBlocks(d), ResultText(d))
               pf  == Cat(p, Read(ends, "user", f))
               rx  == ResultPieces(id, d)
    <3>6. Chatted(ends, old, pf) /\ Placed(ends, old, pf)
      BY <3>4, <3>5, ResultsAdded
    <3>7. AddResults(st, w) = new
      BY <3>2, <3>3, AddResultsAppend
    <3>8. Returned(ResultBlocks(d), ResultText(d), d)
      BY <3>4, ResultReturned
    <3>9. IsPlain(d) /\ x = ToolResult(id, d)
      BY <3>4
    <3>10. Read(ends, "user", <<ToolResult(id, d)>>) = rx /\ IsSeq(rx)
      BY <3>9, ResultIsRead
    <3>11. Read(ends, "user", y) = rx
      BY <3>9, <3>10
    <3> HIDE DEF id, d, old, pf, rx
    <3>12. Placed(ends, new, Cat(pf, ResultPieces(id, d)))
      BY <3>6, <3>8, <3>9, ResultPlaced
    <3>13. w = Cat(f, y)
      BY <3>1, <3>2, <3>3, CatOne
    <3>14. Good(y) /\ Good(f)
      <4>1. <<ToolResult(id, d)>> = y
        BY <3>9
      <4>2. Good(<<ToolResult(id, d)>>)
        BY <3>9, OneResult
      <4> QED BY <3>4, <4>1, <4>2, ResultsAreGood
    <3> HIDE DEF y, new
    <3>15. Read(ends, "user", w) = Cat(Read(ends, "user", f), rx) /\ IsSeq(Read(ends, "user", f))
      BY <3>11, <3>13, <3>14, ReadCat, ReadIsSeq
    <3>16. Cat(p, Read(ends, "user", w)) = Cat(pf, rx)
      BY <1>0, <3>10, <3>15, CatAssoc DEF pf
    <3> QED BY <3>7, <3>12, <3>16 DEF rx
  <2> QED BY <2>1, <2>2 DEF S
<1> HIDE DEF S
<1>3. S = Nat
  <2>1. S \in SUBSET Nat
    BY DEF S
  <2> QED BY <1>1, <1>2, <2>1, SetInduction
<1>4. Len(all) \in Nat
  BY SeqLength DEF IsResults
<1>5. Ok(all)
  BY <1>3, <1>4 DEF S
<1> QED BY <1>5

\* What waits is read where no call waits
LEMMA PendingRuns ==
    ASSUME NEW ends, NEW st, NEW p, Chatted(ends, st, p), NEW v, v.wait = {} \/ st.pending = <<>>
    PROVE  Runs(v, Read(ends, "user", st.pending), v)
<1> DEFINE rp == Read(ends, "user", st.pending)
<1>1. Aside(rp)
  BY AttachedIsToolless, ToollessRead DEF Chatted
<1>2. st.pending = <<>> => rp = <<>>
  BY EmptyRead
<1> HIDE DEF rp
<1>3. Runs(v, rp, v)
  BY <1>1, <1>2 DEF Aside
<1> QED BY <1>3 DEF rp

LEMMA UserPlaced ==
    ASSUME NEW ends, NEW st, NEW p, Chatted(ends, st, p), Placed(ends, st, p), LastRole(st) # "user",
           NEW own, IsPlain(own), own # <<>>
    PROVE  LET new == [out     |-> Append(st.out, ChatMessage("user", st.pending \o own, <<>>, <<>>, NoId)),
                       pending |-> <<>>]
           IN  Placed(ends, new, Cat(p, Read(ends, "user", own)))
<1> DEFINE w   == Cat(st.pending, own)
           x   == ChatMessage("user", w, <<>>, <<>>, NoId)
           o   == Append(st.out, x)
           e   == <<>>
           new == [out |-> o, pending |-> e]
           rp  == Read(ends, "user", st.pending)
           ro  == Read(ends, "user", own)
           r   == ReadMessages(ends, "chat", st.out)
<1>1. Good(st.pending) /\ Good(own) /\ IsVoiced(own)
  BY AttachedIsGood, PlainIsGood DEF Chatted, IsPlain
<1>2. Good(w) /\ Read(ends, "user", w) = Cat(rp, ro) /\ IsSeq(rp) /\ IsSeq(ro)
  BY <1>1, GoodCat, ReadCat, ReadIsSeq
<1>3. Aside(ro) /\ ro # <<>>
  <2>1. "user" \notin {"call", "result"}
    OBVIOUS
  <2> QED BY <1>1, <2>1, VoicedIsRead
<1>4. \A v : v.wait = {} => Runs(v, rp, v)
  BY PendingRuns
<1> HIDE DEF w
<1>5. x.role = "user" /\ WireRead(ends, "chat", x) = Read(ends, "user", w)
  <2>1. "user" # "tool"
    OBVIOUS
  <2> QED BY <1>2, <2>1, ChatMessageRead
<1> HIDE DEF x, rp, ro
<1>6. IsSeq(Cat(rp, ro))
  BY <1>2, CatIsSeq
<1>7. ReadMessages(ends, "chat", o) = Cat(r, Cat(rp, ro)) /\ IsSeq(r)
  BY <1>2, <1>5, <1>6, ReadableMore DEF Chatted, LastRole
<1>8. Leads(p, r) /\ IsSeq(p)
  BY DEF Placed, Leads
<1> HIDE DEF o, r
<1>9. ASSUME NEW s, NEW t, Runs(s, Cat(p, ro), t) PROVE Runs(s, Cat(r, Cat(rp, ro)), t)
  <2>1. PICK v : Runs(s, p, v) /\ Runs(v, ro, t)
    BY <1>2, <1>8, <1>9, RunsCat
  <2>2. v = t /\ v.wait = {}
    BY <1>3, <2>1 DEF Aside
  <2>3. Runs(s, r, v)
    BY <1>8, <2>1 DEF Leads
  <2>4. Runs(v, Cat(rp, ro), t)
    BY <1>2, <1>4, <2>1, <2>2, RunsCat
  <2> QED BY <1>6, <1>7, <2>3, <2>4, RunsCat
<1>10. IsSeq(Cat(p, ro)) /\ IsSeq(Cat(r, Cat(rp, ro)))
  BY <1>2, <1>6, <1>7, <1>8, CatIsSeq
<1>11. Leads(Cat(p, ro), Cat(r, Cat(rp, ro)))
  BY <1>9, <1>10 DEF Leads
<1>12. new.out = o /\ new.pending = <<>>
  OBVIOUS
<1> HIDE DEF new
<1>13. Placed(ends, new, Cat(p, ro))
  BY <1>7, <1>11, <1>12 DEF Placed
<1> QED BY <1>13 DEF new, o, x, w, ro, Cat

\* What is sent of all that waits is read where no call waits
LEMMA FlushedRead ==
    ASSUME NEW ends, NEW st, NEW p, Chatted(ends, st, p)
    PROVE  LET r  == ReadMessages(ends, "chat", st.out)
               rp == Read(ends, "user", st.pending)
           IN  ReadMessages(ends, "chat", FlushMedia(st).out) = Cat(r, rp) /\ IsSeq(r) /\ IsSeq(rp)
<1> DEFINE r  == ReadMessages(ends, "chat", st.out)
           w  == st.pending
           rp == Read(ends, "user", w)
           x  == ChatMessage("user", w, <<>>, <<>>, NoId)
           o  == Append(st.out, x)
<1>1. Good(w)
  BY AttachedIsGood DEF Chatted
<1>2. IsSeq(rp) /\ IsSeq(r)
  BY <1>1, ReadIsSeq, WireLists DEF Chatted
<1>3. CASE w = <<>>
  <2>1. FlushMedia(st).out = st.out
    BY <1>3 DEF FlushMedia
  <2>2. rp = <<>>
    BY <1>3, EmptyRead
  <2> HIDE DEF rp, r
  <2>3. Cat(r, rp) = r
    BY <1>2, <2>2, CatEmpty
  <2> QED BY <1>2, <2>1, <2>3 DEF r, rp
<1>4. CASE w # <<>>
  <2>1. FlushMedia(st).out = o
    BY <1>4 DEF FlushMedia
  <2>2. x.role = "user" /\ WireRead(ends, "chat", x) = rp
    <3>1. "user" # "tool"
      OBVIOUS
    <3> QED BY <1>1, <3>1, ChatMessageRead
  <2>3. LastRole(st) # "user"
    BY <1>4 DEF Chatted
  <2> HIDE DEF x, rp
  <2>4. ReadMessages(ends, "chat", o) = Cat(r, rp)
    BY <1>2, <2>2, <2>3, ReadableMore DEF Chatted, LastRole
  <2> QED BY <1>2, <2>1, <2>4 DEF rp
<1> QED BY <1>3, <1>4

\* A call is not read after results have begun, nor anything else then
LEMMA CallFirst ==
    ASSUME NEW ends, NEW r, NEW u, IsUses(u), u # <<>>, NEW s, NEW t, Runs(s, Read(ends, r, u), t)
    PROVE  ~s.back
<1> DEFINE cs == ChatCalls(u)
           ps == CallPieces(ends, cs)
           n  == Len(u)
<1>1. IsSeq(u) /\ n \in Nat /\ DOMAIN u = 1 .. n /\ n # 0
  BY SeqLength, EmptySeqLength DEF IsUses
<1>2. cs = [k \in DOMAIN u |-> Call(u[k].id, AsText(u[k].args))]
  BY DEF ChatCalls
<1> HIDE DEF cs
<1>3. IsSeq(cs) /\ Len(cs) = n /\ DOMAIN cs = DOMAIN u
  <2>1. cs = [k \in DOMAIN u |-> cs[k]]
    BY <1>2
  <2> QED BY <1>1, <2>1, CallsMapped
<1>4. IsCalls(cs)
  <2>1. ASSUME NEW k \in 1 .. n PROVE cs[k] = Call(cs[k].id, cs[k].args)
    <3>1. cs[k] = Call(u[k].id, AsText(u[k].args))
      BY <1>1, <1>2
    <3>2. cs[k].id = u[k].id /\ cs[k].args = AsText(u[k].args)
      BY <3>1 DEF Call
    <3> QED BY <3>1, <3>2
  <2> QED BY <1>3, <2>1 DEF IsCalls
<1>5. Read(ends, r, u) = ps
  <2>1. Read(ends, r, Uses(cs)) = Read(ends, r, u)
    BY ChatCallsRead DEF cs
  <2> QED BY <1>4, <2>1, ReadUses
<1>6. Len(ps) = n
  BY <1>3, <1>4, ReadUses
<1>7. ps[1].kind = "call"
  <2>1. 1 \in DOMAIN cs
    BY <1>1, <1>3
  <2> QED BY <2>1 DEF CallPieces, Piece
<1> HIDE DEF ps
<1>8. PICK f : IsRun(f, s, ps, t)
  BY <1>5 DEF Runs
<1>9. Takes(f[0], ps[1], f[1]) /\ f[0] = s
  <2>1. 1 \in 1 .. n /\ 1 - 1 = 0
    BY <1>1
  <2> QED BY <1>6, <1>8, <2>1 DEF IsRun
<1> QED BY <1>7, <1>9 DEF Takes, Starts

LEMMA TalkFirst ==
    ASSUME NEW ends, NEW m, NEW a, NEW u, TalkMsg(m, a, u),
           NEW s, NEW t, Runs(s, MsgRead(ends, m), t), s.wait = {} \/ s.back
    PROVE  s.wait = {}
<1> DEFINE ra == Read(ends, "assistant", a)
           ru == Read(ends, "assistant", u)
<1>1. IsVoiced(a) /\ IsUses(u) /\ (a # <<>> \/ u # <<>>) /\ Good(a) /\ Good(u) /\ m.role = "assistant"
  BY VoicedIsGood, UsesAreGood DEF TalkMsg
<1>2. MsgRead(ends, m) = Cat(ra, ru) /\ IsSeq(ra) /\ IsSeq(ru)
  <2>1. MsgRead(ends, m) = Read(ends, "assistant", Cat(a, u))
    BY <1>1, BlocksOfTalk DEF MsgRead
  <2> QED BY <1>1, <2>1, ReadCat, ReadIsSeq
<1>3. Aside(ra) /\ (ra = <<>> <=> a = <<>>)
  <2>1. "assistant" \notin {"call", "result"}
    OBVIOUS
  <2> QED BY <1>1, <2>1, VoicedIsRead
<1> HIDE DEF ra
<1>4. PICK v : Runs(s, ra, v) /\ Runs(v, ru, t)
  <2> HIDE DEF ru
  <2> QED BY <1>2, RunsCat
<1>5. s = v /\ (ra = <<>> \/ s.wait = {})
  BY <1>3, <1>4 DEF Aside
<1>6. CASE u = <<>>
  BY <1>1, <1>3, <1>5, <1>6
<1>7. CASE u # <<>>
  <2>1. ~v.back
    BY <1>1, <1>4, <1>7, CallFirst
  <2> QED BY <1>5, <2>1
<1> QED BY <1>6, <1>7

\* A message of the assistant may stand for the one it is made of
LEMMA AssistantLeads ==
    ASSUME NEW m, NEW a, NEW u, TalkMsg(m, a, u), NEW ends
    PROVE  Leads(MsgRead(ends, m), WireRead(ends, "chat", AssistantToChat(m)))
<1> DEFINE w  == Without(a, "thinking")
           h  == OfType(a, "thinking")
           t  == Joined(h)
           cs == ChatCalls(u)
           x  == AssistantToChat(m)
           b  == Cat(Thought(t), w)
           v  == Uses(cs)
           r  == "assistant"
<1>1. IsVoiced(a) /\ IsUses(u) /\ m.role = "assistant" /\ Good(a) /\ Good(u)
  BY VoicedIsGood, UsesAreGood DEF TalkMsg
<1>2. x = ChatMessage("assistant", w, t, cs, NoId)
  BY AssistantParts
<1>3. r # "thinking" /\ r \notin {"call", "result"}
  OBVIOUS
<1>4. IsVoiced(b)
  <2> HIDE DEF r
  <2> QED BY <1>1, <1>3, ThoughtFirst
<1>5. Good(v) /\ Read(ends, r, v) = Read(ends, r, u)
  BY <1>1, ChatCallsRead
<1>6. a = <<>> => b = <<>>
  <2>1. ASSUME a = <<>> PROVE b = <<>>
    <3>1. h = <<>> /\ w = <<>>
      BY <2>1, EmptyOfType
    <3>2. t = <<>>
      BY <3>1, EmptyJoined
    <3> DEFINE g == Thought(t)
    <3>3. g = <<>>
      BY <3>2 DEF Thought
    <3> HIDE DEF g, w
    <3>4. Cat(g, w) = <<>>
      BY <3>1, <3>3, CatEmpties
    <3> QED BY <3>4 DEF g
  <2> QED BY <2>1
<1> HIDE DEF w, t, cs, x
<1>7. x.role = r /\ x.content = w /\ x.reasoning = t /\ x.calls = cs
  BY <1>2 DEF ChatMessage
<1>8. Blocks("chat", x) = Cat(b, v)
  BY <1>7 DEF Blocks, Cat
<1> HIDE DEF b, v
<1>9. /\ Aside(Read(ends, r, a)) /\ (Read(ends, r, a) = <<>> <=> a = <<>>)
      /\ Aside(Read(ends, r, b)) /\ (Read(ends, r, b) = <<>> <=> b = <<>>)
  <2> HIDE DEF r
  <2> QED BY <1>1, <1>3, <1>4, VoicedIsRead
<1>10. Leads(Read(ends, r, a), Read(ends, r, b))
  <2> HIDE DEF r
  <2> QED BY <1>6, <1>9, AsideLeads
<1>11. Leads(Read(ends, r, u), Read(ends, r, v))
  <2> HIDE DEF r
  <2> QED BY <1>1, <1>5, ReadIsSeq, LeadsSame
<1>12. MsgRead(ends, m) = Cat(Read(ends, r, a), Read(ends, r, u))
  <2>1. MsgRead(ends, m) = Read(ends, r, Cat(a, u))
    BY <1>1, BlocksOfTalk DEF MsgRead
  <2> HIDE DEF r
  <2> QED BY <1>1, <2>1, ReadCat
<1>13. WireRead(ends, "chat", x) = Cat(Read(ends, r, b), Read(ends, r, v))
  <2>1. Good(b)
    BY <1>4, VoicedIsGood
  <2>2. WireRead(ends, "chat", x) = Read(ends, r, Cat(b, v))
    BY <1>7, <1>8 DEF WireRead
  <2> HIDE DEF r
  <2> QED BY <1>5, <2>1, <2>2, ReadCat
<1> HIDE DEF r
<1>14. Leads(Cat(Read(ends, r, a), Read(ends, r, u)), Cat(Read(ends, r, b), Read(ends, r, v)))
  BY <1>10, <1>11, LeadsCat
<1> QED BY <1>12, <1>13, <1>14 DEF x

\* Each message joins what there is
LEMMA ToolPlaced ==
    ASSUME NEW ends, NEW st, NEW p, Chatted(ends, st, p), Placed(ends, st, p), NEW m, ToolMsg(m)
    PROVE  Placed(ends, MessageToChat(st, m), Cat(p, MsgRead(ends, m)))
<1> DEFINE d == MessageOutput(m)
<1>1. m.role = "tool" /\ IsPlain(d) /\ Returned(m.content, m.text, d)
  BY DEF ToolMsg, Returned
<1>2. MsgBlocks(m) = <<ToolResult(m.id, d)>>
  BY <1>1 DEF MsgBlocks
<1>3. MessageToChat(st, m) = AddResult(st, m.id, m.content, m.text)
  BY <1>1 DEF MessageToChat
<1> HIDE DEF d
<1>4. MsgRead(ends, m) = ResultPieces(m.id, d)
  BY <1>1, <1>2, ResultIsRead DEF MsgRead
<1>5. Placed(ends, AddResult(st, m.id, m.content, m.text), Cat(p, ResultPieces(m.id, d)))
  BY <1>1, ResultPlaced
<1> QED BY <1>3, <1>4, <1>5

LEMMA WordsPlaced ==
    ASSUME NEW ends, NEW st, NEW p, Chatted(ends, st, p), Placed(ends, st, p),
           NEW m, NEW rs, NEW own, UserMsg(m, rs, own), LastRole(st) # "user"
    PROVE  Placed(ends, MessageToChat(st, m), Cat(p, MsgRead(ends, m)))
<1> DEFINE after == AddResults(st, rs)
           new   == [out     |-> Append(after.out, ChatMessage("user", after.pending \o own, <<>>, <<>>, NoId)),
                     pending |-> <<>>]
           r     == Read(ends, "user", rs)
           o     == Read(ends, "user", own)
<1>1. m.role = "user" /\ IsResults(rs) /\ Good(rs) /\ Good(own) /\ IsPlain(own) /\ (rs # <<>> \/ own # <<>>)
  BY PlainIsGood, ResultsAreGood DEF UserMsg
<1>2. MessageToChat(st, m) = IF rs # <<>> /\ own = <<>> THEN after ELSE new
  BY UserToChatIs
<1>3. /\ Chatted(ends, after, Cat(p, r)) /\ Placed(ends, after, Cat(p, r))
      /\ (rs = <<>> => after = st) /\ (rs # <<>> => LastRole(after) = "tool")
  BY <1>1, ResultsAdded, ResultsPlaced
<1>4. MsgRead(ends, m) = Cat(r, o) /\ IsSeq(r) /\ IsSeq(o)
  <2>1. MsgRead(ends, m) = Read(ends, "user", Cat(rs, own))
    BY <1>1, BlocksOfUser DEF MsgRead
  <2> QED BY <1>1, <2>1, ReadCat, ReadIsSeq
<1>5. IsSeq(p)
  BY DEF Chatted
<1> HIDE DEF after, r
<1>6. CASE rs # <<>> /\ own = <<>>
  <2>1. o = <<>>
    BY <1>6, EmptyRead
  <2>2. Cat(r, o) = r
    BY <1>4, <2>1, CatEmpty
  <2> HIDE DEF o
  <2> QED BY <1>2, <1>3, <1>4, <1>6, <2>2
<1>7. CASE ~(rs # <<>> /\ own = <<>>)
  <2>1. LastRole(after) # "user" /\ own # <<>>
    BY <1>1, <1>3, <1>7
  <2>2. Placed(ends, new, Cat(Cat(p, r), o))
    BY <1>1, <1>3, <2>1, UserPlaced
  <2> HIDE DEF new, o
  <2>3. Cat(Cat(p, r), o) = Cat(p, Cat(r, o))
    BY <1>4, <1>5, CatAssoc
  <2> QED BY <1>2, <1>4, <1>7, <2>2, <2>3
<1> QED BY <1>6, <1>7

LEMMA TalkPlaced ==
    ASSUME NEW ends, NEW st, NEW p, Chatted(ends, st, p), Placed(ends, st, p),
           NEW m, NEW a, NEW u, TalkMsg(m, a, u), LastRole(st) # "assistant"
    PROVE  Placed(ends, MessageToChat(st, m), Cat(p, MsgRead(ends, m)))
<1> DEFINE fl  == FlushMedia(st)
           x   == AssistantToChat(m)
           o   == Append(fl.out, x)
           new == MessageToChat(st, m)
           q   == MsgRead(ends, m)
           wr  == WireRead(ends, "chat", x)
           r   == ReadMessages(ends, "chat", st.out)
           rp  == Read(ends, "user", st.pending)
<1>1. m.role = "assistant"
  BY DEF TalkMsg
<1>2. Chatted(ends, fl, p) /\ fl.pending = <<>> /\ LastRole(fl) # "assistant"
  BY MediaFlushed
<1>3. new = [fl EXCEPT !.out = o]
  BY <1>1 DEF MessageToChat
<1>4. x.role = "assistant" /\ IsSeq(wr) /\ Leads(q, wr)
  BY AssistantRead, AssistantLeads
<1>5. ReadMessages(ends, "chat", fl.out) = Cat(r, rp) /\ IsSeq(r) /\ IsSeq(rp)
  BY FlushedRead
<1> HIDE DEF fl, x, new
<1>6. new.out = o /\ new.pending = <<>>
  <2> DEFINE oo == fl.out
             pp == fl.pending
  <2>1. fl = [out |-> oo, pending |-> pp]
    BY <1>2 DEF Chatted
  <2>2. pp = <<>>
    BY <1>2
  <2> HIDE DEF oo, o, pp
  <2> QED BY <1>3, <2>1, <2>2
<1>7. ReadMessages(ends, "chat", o) = Cat(Cat(r, rp), wr)
  BY <1>2, <1>4, <1>5, ReadableMore DEF Chatted, LastRole
<1>8. IsSeq(q) /\ IsSeq(p) /\ Leads(p, r) /\ (st.pending # <<>> => Settled(p))
  BY <1>4 DEF Placed, Leads
<1>9. \A v : v.wait = {} \/ st.pending = <<>> => Runs(v, rp, v)
  BY PendingRuns
<1>10. \A v, t : Runs(v, q, t) /\ (v.wait = {} \/ v.back) => v.wait = {}
  BY TalkFirst
<1> HIDE DEF q, wr, o, r, rp
<1>11. ASSUME NEW s, NEW t, Runs(s, Cat(p, q), t) PROVE Runs(s, Cat(Cat(r, rp), wr), t)
  <2>1. PICK v : Runs(s, p, v) /\ Runs(v, q, t)
    BY <1>8, <1>11, RunsCat
  <2>2. st.pending = <<>> \/ v.wait = {}
    BY <1>8, <1>10, <2>1 DEF Settled
  <2>3. Runs(v, rp, v)
    BY <1>9, <2>2
  <2>4. Runs(s, r, v) /\ Runs(v, wr, t)
    BY <1>4, <1>8, <2>1 DEF Leads
  <2>5. Runs(s, Cat(r, rp), v)
    BY <1>5, <2>3, <2>4, RunsCat
  <2>6. IsSeq(Cat(r, rp))
    BY <1>5, CatIsSeq
  <2> QED BY <1>4, <2>4, <2>5, <2>6, RunsCat
<1>12. IsSeq(Cat(p, q)) /\ IsSeq(Cat(Cat(r, rp), wr))
  BY <1>4, <1>5, <1>8, CatIsSeq
<1>13. Leads(Cat(p, q), Cat(Cat(r, rp), wr))
  BY <1>11, <1>12 DEF Leads
<1> QED BY <1>6, <1>7, <1>13 DEF Placed, new, q

\* The messages so far
ChatPlaced(ends, ms) ==
    Placed(ends, MessagesToChat([out     |-> <<ChatMessage("system", Instructions, <<>>, <<>>, NoId)>>,
                                 pending |-> <<>>], ms),
           Cat(Read(ends, "system", Instructions), MsgsRead(ends, ms)))

LEMMA NonePlaced == ASSUME NEW ends PROVE ChatPlaced(ends, <<>>)
<1> DEFINE i  == Instructions
           x  == ChatMessage("system", i, <<>>, <<>>, NoId)
           o  == <<x>>
           e  == <<>>
           st == [out |-> o, pending |-> e]
           s  == Read(ends, "system", i)
<1>1. Good(i) /\ IsSeq(s)
  BY InstructionsGood, ReadIsSeq
<1>2. x.role = "system" /\ WireRead(ends, "chat", x) = s
  <2>1. "system" # "tool"
    OBVIOUS
  <2> HIDE DEF i
  <2> QED BY <1>1, <2>1, ChatMessageRead
<1> HIDE DEF x, s
<1>3. ReadMessages(ends, "chat", o) = s
  BY <1>1, <1>2, OneWire
<1> HIDE DEF o
<1>4. MessagesToChat(st, e) = st /\ MsgsRead(ends, e) = e /\ Cat(s, e) = s
  BY <1>1, MessagesToChatEmpty, NothingRead, CatEmpty
<1>5. Leads(s, s)
  BY <1>1, LeadsSame
<1>6. st.out = o /\ st.pending = <<>>
  OBVIOUS
<1> HIDE DEF st
<1>7. Placed(ends, st, s)
  BY <1>3, <1>5, <1>6 DEF Placed
<1> QED BY <1>4, <1>7 DEF ChatPlaced, st, o, x, s

LEMMA ChatPlacesMore ==
    ASSUME NEW ends, NEW c, NEW f, IsSeq(f), NEW m, GoodMsgs(c, Append(f, m)), ChatBuilt(ends, f),
           ChatPlaced(ends, f)
    PROVE  ChatPlaced(ends, Append(f, m))
<1> DEFINE st0 == [out     |-> <<ChatMessage("system", Instructions, <<>>, <<>>, NoId)>>, pending |-> <<>>]
           st  == MessagesToChat(st0, f)
           new == MessageToChat(st, m)
           t   == Append(f, m)
           s   == Read(ends, "system", Instructions)
           p   == Cat(s, MsgsRead(ends, f))
<1>1. /\ Chatted(ends, st, p) /\ Placed(ends, st, p)
      /\ LastRole(st) \in {"system", "tool"} \/ (f # <<>> /\ LastRole(st) = f[Len(f)].role)
  BY DEF ChatBuilt, ChatPlaced
<1>2. GoodMsgs(c, f) /\ GoodMsg(c, m) /\ (f = <<>> \/ f[Len(f)].role # m.role \/ m.role = "tool")
  BY GoodLess
<1>3. MessagesToChat(st0, t) = new
  BY MessagesToChatAppend
<1> HIDE DEF st, st0
<1>4. Placed(ends, new, Cat(p, MsgRead(ends, m)))
  <2>1. CASE ToolMsg(m)
    BY <1>1, <2>1, ToolPlaced
  <2>2. CASE \E rs, own : UserMsg(m, rs, own)
    <3>1. PICK rs, own : UserMsg(m, rs, own)
      BY <2>2
    <3>2. m.role = "user"
      BY <3>1 DEF UserMsg
    <3>3. LastRole(st) # "user"
      BY <1>1, <1>2, <3>2
    <3> QED BY <1>1, <3>1, <3>3, WordsPlaced
  <2>3. CASE \E a, u : TalkMsg(m, a, u)
    <3>1. PICK a, u : TalkMsg(m, a, u)
      BY <2>3
    <3>2. m.role = "assistant"
      BY <3>1 DEF TalkMsg
    <3>3. LastRole(st) # "assistant"
      BY <1>1, <1>2, <3>2
    <3> QED BY <1>1, <3>1, <3>3, TalkPlaced
  <2> QED BY <1>2, <2>1, <2>2, <2>3 DEF GoodMsg
<1> HIDE DEF new, t
<1>5. Cat(p, MsgRead(ends, m)) = Cat(s, MsgsRead(ends, t))
  <2>1. IsSeq(s) /\ IsSeq(MsgsRead(ends, f)) /\ IsSeq(MsgRead(ends, m))
    BY <1>2, InstructionsGood, ReadIsSeq, MsgsAreRead, MsgIsRead
  <2>2. MsgsRead(ends, t) = Cat(MsgsRead(ends, f), MsgRead(ends, m))
    BY <2>1, MsgsMore DEF t
  <2> HIDE DEF s
  <2> QED BY <2>1, <2>2, CatAssoc
<1> QED BY <1>3, <1>4, <1>5 DEF ChatPlaced, st0, t, s

LEMMA ChatIsPlaced == ASSUME NEW ends, NEW c, NEW ms, GoodMsgs(c, ms) PROVE ChatPlaced(ends, ms)
<1> DEFINE S == {n \in Nat : \A w : GoodMsgs(c, w) /\ Len(w) = n => ChatPlaced(ends, w)}
<1>1. 0 \in S
  <2>1. ASSUME NEW w, GoodMsgs(c, w), Len(w) = 0 PROVE ChatPlaced(ends, w)
    <3>1. w = <<>>
      BY <2>1, EmptySeqLength DEF GoodMsgs
    <3> QED BY <3>1, NonePlaced
  <2> QED BY <2>1
<1>2. ASSUME NEW n \in S PROVE n + 1 \in S
  <2>1. n \in Nat /\ \A w : GoodMsgs(c, w) /\ Len(w) = n => ChatPlaced(ends, w)
    OBVIOUS
  <2> HIDE DEF S
  <2>2. ASSUME NEW w, GoodMsgs(c, w), Len(w) = n + 1 PROVE ChatPlaced(ends, w)
    <3>1. IsSeq(w)
      BY <2>2 DEF GoodMsgs
    <3>2. PICK f : IsSeq(f) /\ Len(f) = n /\ w = Append(f, w[n + 1])
      BY <2>1, <2>2, <3>1, Shortened
    <3> DEFINE x == w[n + 1]
    <3>3. w = Append(f, x)
      BY <3>2
    <3> HIDE DEF x
    <3>4. GoodMsgs(c, f)
      BY <2>2, <3>2, <3>3, GoodLess
    <3>5. ChatPlaced(ends, f) /\ ChatBuilt(ends, f)
      BY <2>1, <3>2, <3>4, ChatIsBuilt
    <3> QED BY <2>2, <3>2, <3>3, <3>5, ChatPlacesMore
  <2> QED BY <2>1, <2>2 DEF S
<1> HIDE DEF S
<1>3. S = Nat
  <2>1. S \in SUBSET Nat
    BY DEF S
  <2> QED BY <1>1, <1>2, <2>1, SetInduction
<1>4. Len(ms) \in Nat
  BY SeqLength DEF GoodMsgs
<1> QED BY <1>3, <1>4 DEF S

LEMMA StandsForChat ==
    ASSUME NEW c, NEW ms, GoodMsgs(c, ms), NEW ends
    PROVE  Stands(ends, "chat", BuildChat(Request(Instructions, ms)), ms)
<1> DEFINE st0  == [out     |-> <<ChatMessage("system", Instructions, <<>>, <<>>, NoId)>>, pending |-> <<>>]
           st   == MessagesToChat(st0, ms)
           fl   == FlushMedia(st)
           wire == BuildChat(Request(Instructions, ms))
           p    == Cat(Read(ends, "system", Instructions), MsgsRead(ends, ms))
           e    == <<>>
           r    == ReadMessages(ends, "chat", st.out)
           rp   == Read(ends, "user", st.pending)
<1>1. Chatted(ends, st, p) /\ Placed(ends, st, p)
  BY ChatIsBuilt, ChatIsPlaced DEF ChatBuilt, ChatPlaced
<1>2. Instructions # <<>>
  BY DEF Instructions
<1>3. wire = [system |-> e, messages |-> fl.out]
  BY <1>2 DEF BuildChat, Request
<1> HIDE DEF st
<1>4. ReadMessages(ends, "chat", fl.out) = Cat(r, rp) /\ IsSeq(r) /\ IsSeq(rp)
  BY <1>1, FlushedRead
<1> HIDE DEF fl, wire
<1>5. wire.system = e /\ wire.messages = fl.out
  BY <1>3
<1>6. Read(ends, "system", e) = e
  BY EmptyRead
<1>7. \A v : v.wait = {} => Runs(v, rp, v)
  BY <1>1, PendingRuns
<1>8. Leads(p, r)
  BY <1>1 DEF Placed
<1> HIDE DEF r, rp, p
<1>9. IsSeq(Cat(r, rp))
  BY <1>4, CatIsSeq
<1>10. Cat(e, Cat(r, rp)) = Cat(r, rp)
  BY <1>9, CatEmpty
<1>11. ASSUME NEW s, NEW t, Runs(s, p, t), t.wait = {} PROVE Runs(s, Cat(r, rp), t)
  <2>1. Runs(s, r, t) /\ Runs(t, rp, t)
    BY <1>7, <1>8, <1>11 DEF Leads
  <2> QED BY <1>4, <2>1, RunsCat
<1> HIDE DEF e
<1> QED BY <1>4, <1>5, <1>6, <1>9, <1>10, <1>11 DEF Stands, wire, p

\* A request through the gateway: what is read in the end may stand where the dialog does
LEMMA ConvertedStands ==
    ASSUME NEW c \in Protocol, NEW u \in Protocol, c # u, NEW h, Dialogue(c, h), NEW ends, u \in ends,
           NEW s, NEW t, Runs(s, Cat(Read(ends, "system", Instructions), EntriesRead(ends, h)), t), t.wait = {}
    PROVE  LET heard == ReadRequest(ends, u, ConvertRequest(c, u, Written(c, h)))
           IN  IsSeq(heard) /\ Runs(s, heard, t)
<1> DEFINE ms   == Parsed(c, h).messages
           req  == Parsed(c, h)
           wire == ConvertRequest(c, u, Written(c, h))
<1>1. req.system = Instructions /\ GoodMsgs(c, ms) /\ MsgsRead(ends, ms) = EntriesRead(ends, h)
  BY AllParsedWell DEF ParsedWell
<1>2. u = "chat" => wire = BuildChat(req)
  BY DEF ConvertRequest, Parsed
<1>3. u = "responses" => wire = BuildResponses(req)
  BY DEF ConvertRequest, Parsed
<1>4. u = "anthropic" => wire = BuildAnthropic(req)
  BY DEF ConvertRequest, Parsed
<1> HIDE DEF req, ms, wire
<1> DEFINE q == Request(Instructions, ms)
<1>5. q.system = req.system /\ q.messages = req.messages
  BY <1>1 DEF Request, ms, req
<1>6. BuildChat(req) = BuildChat(q) /\ BuildResponses(req) = BuildResponses(q) /\ BuildAnthropic(req) = BuildAnthropic(q)
  <2> HIDE DEF q
  <2> QED BY <1>5 DEF BuildChat, BuildResponses, BuildAnthropic
<1>7. Stands(ends, u, wire, ms)
  <2>1. CASE u = "chat"
    BY <1>1, <1>2, <1>6, <2>1, StandsForChat
  <2>2. CASE u = "responses"
    BY <1>1, <1>3, <1>6, <2>2, StandsForResponses
  <2>3. CASE u = "anthropic"
    <3>1. c # "anthropic"
      BY <2>3
    <3> QED BY <1>1, <1>4, <1>6, <2>3, <3>1, StandsForAnthropic
  <2> QED BY <2>1, <2>2, <2>3 DEF Protocol
<1>8. ReadRequest(ends, u, wire)
      = Cat(Read(ends, "system", wire.system), ReadMessages(ends, u, wire.messages))
  BY DEF ReadRequest, Cat
<1> QED BY <1>1, <1>7, <1>8 DEF Stands, wire

-----------------------------------------------------------------------------
(* What can be read is in place *)

\* Of the first n pieces: each call waits, with calls and results behind it, or has one result
Answered(ps, n, k) ==
    \E j \in 1 .. n : /\ Starts(ps[j]) /\ ps[j].id = ps[k].id /\ j > k
                      /\ \A i \in 1 .. n : Starts(ps[i]) /\ ps[i].id = ps[k].id => i = j
                      /\ \A i \in k .. j : ps[i].kind \in {"call", "result"}
Ordered(ps, n, s) ==
    /\ s.wait \cap s.done = {}
    /\ \A k \in 1 .. n : ps[k].kind = "call" => ps[k].id \in s.wait \cup s.done
    /\ \A k \in 1 .. n : Starts(ps[k]) => ps[k].id \in s.done
    /\ \A k \in 1 .. n : ps[k].kind = "call" /\ ps[k].id \in s.wait =>
                            \A i \in k .. n : ps[i].kind \in {"call", "result"}
    /\ \A k \in 1 .. n : ps[k].kind = "call" /\ ps[k].id \in s.done => Answered(ps, n, k)

\* One piece more, not a start of a result of the same call
LEMMA AnsweredMore ==
    ASSUME NEW ps, NEW n \in Nat, NEW k \in 1 .. n, Answered(ps, n, k),
           ~(Starts(ps[n + 1]) /\ ps[n + 1].id = ps[k].id)
    PROVE  Answered(ps, n + 1, k)
<1>1. PICK j \in 1 .. n : /\ Starts(ps[j]) /\ ps[j].id = ps[k].id /\ j > k
                          /\ \A i \in 1 .. n : Starts(ps[i]) /\ ps[i].id = ps[k].id => i = j
                          /\ \A i \in k .. j : ps[i].kind \in {"call", "result"}
  BY DEF Answered
<1>2. j \in 1 .. n + 1 /\ \A i \in 1 .. n + 1 : i \in 1 .. n \/ i = n + 1
  OBVIOUS
<1>3. \A i \in 1 .. n + 1 : Starts(ps[i]) /\ ps[i].id = ps[k].id => i = j
  BY <1>1, <1>2
<1> QED BY <1>1, <1>2, <1>3 DEF Answered

LEMMA OrderedMore ==
    ASSUME NEW ps, NEW n \in Nat, NEW s, Ordered(ps, n, s), NEW t, Takes(s, ps[n + 1], t)
    PROVE  Ordered(ps, n + 1, t)
<1> DEFINE p == ps[n + 1]
           Tool(i) == ps[i].kind \in {"call", "result"}
<1>1. \A k \in 1 .. n + 1 : k \in 1 .. n \/ k = n + 1
  OBVIOUS
<1>2. /\ s.wait \cap s.done = {}
      /\ \A k \in 1 .. n : ps[k].kind = "call" => ps[k].id \in s.wait \cup s.done
      /\ \A k \in 1 .. n : Starts(ps[k]) => ps[k].id \in s.done
      /\ \A k \in 1 .. n : ps[k].kind = "call" /\ ps[k].id \in s.wait => \A i \in k .. n : Tool(i)
      /\ \A k \in 1 .. n : ps[k].kind = "call" /\ ps[k].id \in s.done => Answered(ps, n, k)
  BY DEF Ordered
<1>3. ASSUME NEW k \in 1 .. n, \A i \in k .. n : Tool(i), Tool(n + 1)
      PROVE  \A i \in k .. n + 1 : Tool(i)
  <2>1. \A i \in k .. n + 1 : i \in k .. n \/ i = n + 1
    OBVIOUS
  <2> QED BY <1>3, <2>1
<1>4. CASE /\ p.kind = "call" /\ ~s.back /\ p.id \notin s.wait \cup s.done
           /\ t = State(s.wait \cup {p.id}, s.done, FALSE)
  <2>1. t.wait = s.wait \cup {p.id} /\ t.done = s.done
    BY <1>4 DEF State
  <2>2. ~Starts(p)
    BY <1>4 DEF Starts
  <2>3. t.wait \cap t.done = {}
    BY <1>2, <1>4, <2>1
  <2>4. \A k \in 1 .. n + 1 : ps[k].kind = "call" => ps[k].id \in t.wait \cup t.done
    BY <1>1, <1>2, <2>1
  <2>5. \A k \in 1 .. n + 1 : Starts(ps[k]) => ps[k].id \in t.done
    BY <1>1, <1>2, <2>1, <2>2
  <2>6. ASSUME NEW k \in 1 .. n + 1, ps[k].kind = "call", ps[k].id \in t.wait
        PROVE  \A i \in k .. n + 1 : Tool(i)
    <3>1. CASE k \in 1 .. n
      <4>1. ps[k].id \in s.wait
        <5>1. ps[k].id \in s.wait \cup s.done
          BY <1>2, <2>6, <3>1
        <5> QED BY <2>1, <2>3, <2>6, <5>1
      <4>2. \A i \in k .. n : Tool(i)
        BY <1>2, <2>6, <3>1, <4>1
      <4>3. Tool(n + 1)
        BY <1>4
      <4> HIDE DEF Tool
      <4> QED BY <1>3, <3>1, <4>2, <4>3
    <3>2. CASE k = n + 1
      <4>1. \A i \in n + 1 .. n + 1 : i = n + 1
        OBVIOUS
      <4> QED BY <1>4, <3>2, <4>1
    <3> QED BY <1>1, <3>1, <3>2
  <2>7. ASSUME NEW k \in 1 .. n + 1, ps[k].kind = "call", ps[k].id \in t.done PROVE Answered(ps, n + 1, k)
    <3>1. k \in 1 .. n
      BY <1>1, <1>4, <2>1, <2>7
    <3>2. Answered(ps, n, k)
      BY <1>2, <2>1, <2>7, <3>1
    <3> QED BY <2>2, <3>1, <3>2, AnsweredMore
  <2> QED BY <2>3, <2>4, <2>5, <2>6, <2>7 DEF Ordered
<1>5. CASE /\ Starts(p) /\ p.id \in s.wait
           /\ t = State(s.wait \ {p.id}, s.done \cup {p.id}, s.wait # {p.id})
  <2>1. t.wait = s.wait \ {p.id} /\ t.done = s.done \cup {p.id}
    BY <1>5 DEF State
  <2>2. p.kind = "result"
    BY <1>5 DEF Starts
  <2>3. t.wait \cap t.done = {} /\ p.id \notin s.done
    BY <1>2, <1>5, <2>1
  <2>4. \A k \in 1 .. n + 1 : ps[k].kind = "call" => ps[k].id \in t.wait \cup t.done
    BY <1>1, <1>2, <2>1
  <2>5. \A k \in 1 .. n + 1 : Starts(ps[k]) => ps[k].id \in t.done
    BY <1>1, <1>2, <2>1
  <2>6. ASSUME NEW k \in 1 .. n + 1, ps[k].kind = "call", ps[k].id \in s.wait
        PROVE  k \in 1 .. n /\ \A i \in k .. n + 1 : Tool(i)
    <3>1. k \in 1 .. n
      BY <1>1, <2>2, <2>6
    <3>2. \A i \in k .. n : Tool(i)
      BY <1>2, <2>6, <3>1
    <3>3. Tool(n + 1)
      BY <2>2
    <3> HIDE DEF Tool
    <3> QED BY <1>3, <3>1, <3>2, <3>3
  <2>7. ASSUME NEW k \in 1 .. n + 1, ps[k].kind = "call", ps[k].id \in t.done PROVE Answered(ps, n + 1, k)
    <3>1. k \in 1 .. n
      BY <1>1, <2>2, <2>7
    <3>2. CASE ps[k].id = p.id
      <4>1. \A i \in k .. n + 1 : Tool(i)
        BY <1>5, <2>6, <2>7, <3>2
      <4>2. \A i \in 1 .. n + 1 : Starts(ps[i]) /\ ps[i].id = ps[k].id => i = n + 1
        BY <1>1, <1>2, <2>3, <3>2
      <4>3. n + 1 \in 1 .. n + 1 /\ n + 1 > k
        BY <3>1
      <4> QED BY <1>5, <3>2, <4>1, <4>2, <4>3 DEF Answered
    <3>3. CASE ps[k].id # p.id
      <4>1. ps[k].id \in s.done
        BY <2>1, <2>7, <3>3
      <4>2. Answered(ps, n, k)
        BY <1>2, <2>7, <3>1, <4>1
      <4> QED BY <3>1, <3>3, <4>2, AnsweredMore
    <3> QED BY <3>2, <3>3
  <2>8. \A k \in 1 .. n + 1 : ps[k].kind = "call" /\ ps[k].id \in t.wait => \A i \in k .. n + 1 : Tool(i)
    BY <2>1, <2>6
  <2> QED BY <2>3, <2>4, <2>5, <2>7, <2>8 DEF Ordered
<1>6. ASSUME ~Starts(p), p.kind # "call", t = s, s.wait = {} \/ p.kind = "result" PROVE Ordered(ps, n + 1, t)
  <2>1. \A k \in 1 .. n + 1 : ps[k].kind = "call" => ps[k].id \in t.wait \cup t.done
    BY <1>1, <1>2, <1>6
  <2>2. \A k \in 1 .. n + 1 : Starts(ps[k]) => ps[k].id \in t.done
    BY <1>1, <1>2, <1>6
  <2>3. ASSUME NEW k \in 1 .. n + 1, ps[k].kind = "call", ps[k].id \in t.wait
        PROVE  \A i \in k .. n + 1 : Tool(i)
    <3>1. k \in 1 .. n /\ p.kind = "result"
      BY <1>1, <1>6, <2>3
    <3>2. \A i \in k .. n : Tool(i)
      BY <1>2, <1>6, <2>3, <3>1
    <3>3. Tool(n + 1)
      BY <3>1
    <3> HIDE DEF Tool
    <3> QED BY <1>3, <3>1, <3>2, <3>3
  <2>4. ASSUME NEW k \in 1 .. n + 1, ps[k].kind = "call", ps[k].id \in t.done PROVE Answered(ps, n + 1, k)
    <3>1. k \in 1 .. n
      BY <1>1, <1>6, <2>4
    <3>2. Answered(ps, n, k)
      BY <1>2, <1>6, <2>4, <3>1
    <3> QED BY <1>6, <3>1, <3>2, AnsweredMore
  <2> QED BY <1>2, <1>6, <2>1, <2>2, <2>3, <2>4 DEF Ordered
<1>7. CASE p.kind = "result" /\ ~Starts(p) /\ t = s
  BY <1>6, <1>7
<1>8. CASE p.kind \notin {"call", "result"} /\ s.wait = {} /\ t = s
  <2>1. ~Starts(p)
    BY <1>8 DEF Starts
  <2> QED BY <1>6, <1>8, <2>1
<1> HIDE DEF Tool
<1> QED BY <1>4, <1>5, <1>7, <1>8 DEF Takes

LEMMA RunsInPlace ==
    ASSUME NEW ps, IsSeq(ps), NEW t, Runs(Begun, ps, t), t.wait = {}
    PROVE  InPlace(ps)
<1> DEFINE n == Len(ps)
<1>1. n \in Nat /\ DOMAIN ps = 1 .. n
  BY SeqLength
<1>2. PICK f : IsRun(f, Begun, ps, t)
  BY DEF Runs
<1>3. f[0] = Begun /\ f[n] = t /\ \A k \in 1 .. n : Takes(f[k - 1], ps[k], f[k])
  BY <1>2 DEF IsRun
<1> HIDE DEF n
<1> DEFINE S == {k \in Nat : k <= n => Ordered(ps, k, f[k])}
<1>4. 0 \in S
  <2>1. Begun.wait = {} /\ Begun.done = {}
    BY DEF Begun, State
  <2>2. 1 .. 0 = {}
    OBVIOUS
  <2>3. Ordered(ps, 0, Begun)
    BY <2>1, <2>2 DEF Ordered
  <2> QED BY <1>3, <2>3
<1>5. ASSUME NEW k \in S PROVE k + 1 \in S
  <2>1. k \in Nat /\ (k <= n => Ordered(ps, k, f[k]))
    OBVIOUS
  <2>2. ASSUME k + 1 <= n PROVE Ordered(ps, k + 1, f[k + 1])
    <3>1. k <= n /\ k + 1 \in 1 .. n /\ (k + 1) - 1 = k
      BY <1>1, <2>1, <2>2
    <3>2. Takes(f[k], ps[k + 1], f[k + 1])
      BY <1>3, <3>1
    <3> QED BY <2>1, <3>1, <3>2, OrderedMore
  <2> QED BY <2>1, <2>2
<1>6. S = Nat
  <2>1. S \in SUBSET Nat
    OBVIOUS
  <2> HIDE DEF S
  <2> QED BY <1>4, <1>5, <2>1, SetInduction
<1>7. Ordered(ps, n, t)
  BY <1>1, <1>3, <1>6
<1>8. ASSUME NEW k \in DOMAIN ps, ps[k].kind = "call"
      PROVE  LET starts == {j \in DOMAIN ps : /\ ps[j].kind = "result" /\ ps[j].id = ps[k].id
                                              /\ ps[j].val.kind = "starts"}
             IN  \E j \in starts : /\ starts = {j} /\ j > k
                                   /\ \A i \in k .. j : ps[i].kind \in {"call", "result"}
  <2> DEFINE starts == {j \in DOMAIN ps : /\ ps[j].kind = "result" /\ ps[j].id = ps[k].id
                                          /\ ps[j].val.kind = "starts"}
  <2>1. k \in 1 .. n
    BY <1>1
  <2>2. ps[k].id \in t.done
    BY <1>7, <1>8, <2>1 DEF Ordered
  <2>3. Answered(ps, n, k)
    BY <1>7, <1>8, <2>1, <2>2 DEF Ordered
  <2>4. PICK j \in 1 .. n : /\ Starts(ps[j]) /\ ps[j].id = ps[k].id /\ j > k
                            /\ \A i \in 1 .. n : Starts(ps[i]) /\ ps[i].id = ps[k].id => i = j
                            /\ \A i \in k .. j : ps[i].kind \in {"call", "result"}
    BY <2>3 DEF Answered
  <2>5. \A i \in 1 .. n : i \in starts <=> Starts(ps[i]) /\ ps[i].id = ps[k].id
    BY <1>1 DEF Starts
  <2>6. j \in starts /\ starts = {j}
    <3>1. starts \subseteq 1 .. n
      BY <1>1
    <3> HIDE DEF starts
    <3> QED BY <2>4, <2>5, <3>1
  <2> QED BY <2>4, <2>6
<1> QED BY <1>8 DEF InPlace

-----------------------------------------------------------------------------
(* The dialog as it grows can be read *)

\* New calls, one after the other
LEMMA CallsRun ==
    ASSUME NEW ends, NEW cs, IsCalls(cs), NEW wait, NEW done,
           \A j, k \in 1 .. Len(cs) : cs[j].id = cs[k].id => j = k,
           \A k \in 1 .. Len(cs) : cs[k].id \notin wait \cup done
    PROVE  Runs(State(wait, done, FALSE), CallPieces(ends, cs),
                State(wait \cup {cs[k].id : k \in 1 .. Len(cs)}, done, FALSE))
<1> DEFINE n == Len(cs)
           ps == CallPieces(ends, cs)
           Ids(k) == {cs[j].id : j \in 1 .. k}
           After(k) == State(wait \cup Ids(k), done, FALSE)
           f == [k \in 0 .. n |-> After(k)]
<1>1. IsSeq(cs) /\ n \in Nat /\ DOMAIN cs = 1 .. n
  BY SeqLength DEF IsCalls
<1>2. Len(ps) = n
  BY ReadUses
<1>3. ASSUME NEW k \in 1 .. n PROVE Takes(After(k - 1), ps[k], After(k))
  <2> DEFINE p == ps[k]
             id == cs[k].id
  <2>1. p.kind = "call" /\ p.id = id
    BY <1>1 DEF CallPieces, Piece
  <2>2. id \notin Ids(k - 1) /\ Ids(k) = Ids(k - 1) \cup {id}
    BY <1>1
  <2>3. id \notin wait \cup done
    BY <1>1
  <2> HIDE DEF Ids, p, id
  <2> DEFINE s == After(k - 1)
  <2>4. s.wait = wait \cup Ids(k - 1) /\ s.done = done /\ s.back = FALSE
    BY DEF State
  <2>5. After(k) = State(s.wait \cup {id}, s.done, FALSE)
    BY <2>2, <2>4
  <2>6. id \notin s.wait \cup s.done /\ ~s.back
    BY <2>2, <2>3, <2>4
  <2> HIDE DEF s, After
  <2>7. Takes(s, p, After(k))
    BY <2>1, <2>5, <2>6 DEF Takes
  <2> QED BY <2>7 DEF s, p
<1>4. Ids(0) = {}
  OBVIOUS
<1>5. After(0) = State(wait, done, FALSE)
  <2> HIDE DEF Ids
  <2> QED BY <1>4
<1>6. f[0] = After(0) /\ f[n] = After(n) /\ \A k \in 1 .. n : f[k] = After(k) /\ f[k - 1] = After(k - 1)
  <2> HIDE DEF After
  <2> QED BY <1>1
<1> HIDE DEF f, After, Ids, n, ps
<1>7. IsRun(f, State(wait, done, FALSE), ps, After(n))
  BY <1>2, <1>3, <1>5, <1>6 DEF IsRun
<1>8. Runs(State(wait, done, FALSE), ps, After(n))
  BY <1>7 DEF Runs
<1> QED BY <1>8 DEF After, Ids, n, ps

\* What the client has can be read, and leaves the open calls waiting
Reads(s) ==
    /\ s = State(open, s.done, s.back) /\ s.back \in BOOLEAN
    /\ Runs(Begun, EntriesRead(Ends, history), s)
    /\ s.done \cup open \subseteq 0 .. 10 * Len(said) + 9
    /\ s.back => open # {}
PlaceInv == (\E s : Reads(s)) /\ (turn # "tools" => open = {})

LEMMA HistoryIsRead == ASSUME DialogInv PROVE IsSeq(EntriesRead(Ends, history))
<1>1. IsSeq(history) /\ Len(history) = Len(said) /\ client \in Protocol /\ DOMAIN history = 1 .. Len(history)
  BY SeqLength DEF DialogInv, Entries
<1>2. ASSUME NEW k \in 1 .. Len(history) PROVE IsSeq(EntryRead(Ends, history[k]))
  <2>1. k \in Nat /\ Entered(client, k, said[k], history[k])
    BY <1>1 DEF DialogInv, Entries
  <2>2. KnownEntry(client, history[k])
    BY <1>1, <2>1, EnteredIsKnown
  <2> QED BY <2>2, EntryIsRead
<1>3. Lists(EntryParts(Ends, history), history)
  BY <1>1, <1>2 DEF Lists, IsMap, EntryParts
<1> QED BY <1>1, <1>3, FlatLists DEF EntriesRead

\* One entry more
LEMMA ReadsMore ==
    ASSUME DialogInv, NEW s, Reads(s), NEW was, NEW e, Entered(client, Len(said) + 1, was, e),
           NEW t, Runs(s, EntryRead(Ends, e), t)
    PROVE  Runs(Begun, EntriesRead(Ends, Append(history, e)), t)
<1>1. Len(said) + 1 \in Nat /\ client \in Protocol /\ IsSeq(history)
  BY SeqLength DEF DialogInv, Entries
<1>2. KnownEntry(client, e)
  BY <1>1, EnteredIsKnown
<1>4. IsSeq(EntryRead(Ends, e))
  BY <1>2, EntryIsRead
<1>5. IsSeq(EntriesRead(Ends, history))
  BY HistoryIsRead
<1>6. EntriesRead(Ends, Append(history, e)) = Cat(EntriesRead(Ends, history), EntryRead(Ends, e))
  BY <1>1, <1>4, EntriesMore
<1> QED BY <1>4, <1>5, <1>6, RunsCat DEF Reads

LEMMA UserPlaces ==
    ASSUME DialogInv, TurnInv, PlaceInv, NEW kinds \in {{"text"}, {"text", "media"}}, UserSpeaks(kinds)
    PROVE  PlaceInv'
<1> DEFINE e == Spoken(kinds, Len(said) + 1)
<1>1. /\ turn \in {"user", "model"}
      /\ history' = Append(history, e) /\ said' = Append(said, e) /\ turn' = "model"
      /\ client' = client /\ upstream' = upstream /\ open' = open
  BY DEF UserSpeaks, Place, Last
<1>2. IsSpoken(e, Len(said) + 1)
  BY DEF IsSpoken
<1> HIDE DEF e
<1>3. Entered(client, Len(said) + 1, e, e)
  BY <1>2 DEF Entered
<1>4. open = {}
  BY <1>1 DEF PlaceInv
<1>5. PICK s : Reads(s)
  BY DEF PlaceInv
<1>6. Len(said) \in Nat /\ IsSeq(said) /\ Len(said) + 1 \in Nat /\ client \in Protocol
  BY SeqLength DEF DialogInv, Entries
<1>7. Len(said') = Len(said) + 1
  BY <1>1, <1>6, Appended
<1>8. Runs(s, EntryRead(Ends, e), s)
  <2>1. UserEntry(e) /\ KnownEntry(client, e)
    BY <1>2, <1>3, <1>6, EnteredIsKnown
  <2>2. EntryBlocks(e) = e.content /\ e.role = "user"
    BY <2>1, BlocksOfEntry
  <2>3. IsVoiced(e.content)
    BY <2>1 DEF UserEntry, IsPlain
  <2>4. Aside(EntryRead(Ends, e))
    BY <2>2, <2>3, VoicedIsToolless, ToollessRead DEF EntryRead
  <2>5. s.wait = {}
    BY <1>4, <1>5 DEF Reads, State
  <2> QED BY <2>4, <2>5 DEF Aside
<1>9. Runs(Begun, EntriesRead(Ends, Append(history, e)), s)
  BY <1>3, <1>5, <1>8, ReadsMore
<1>10. Ends' = Ends
  BY <1>1 DEF Ends
<1>11. 0 .. 10 * Len(said) + 9 \subseteq 0 .. 10 * Len(said') + 9
  BY <1>6, <1>7
<1>12. Reads(s)'
  BY <1>1, <1>5, <1>9, <1>10, <1>11 DEF Reads
<1> QED BY <1>1, <1>4, <1>12 DEF PlaceInv

\* An answer's calls are new
LEMMA ModelPlaces ==
    ASSUME DialogInv, TurnInv, PlaceInv, NEW shape \in Shapes, ModelAnswers(shape)
    PROVE  PlaceInv'
<1> DEFINE was == Said(shape, Len(said) + 1)
           now == Known(client, was)
           place == 10 * (Len(said) + 1)
<1>1. /\ IsSaid(was, Len(said) + 1) /\ IsAnswer(was)
      /\ said' = Append(said, was) /\ history' = Append(history, now)
      /\ turn = "model" /\ client' = client /\ upstream' = upstream
      /\ open' = {now.calls[k].id : k \in DOMAIN now.calls}
      /\ now.calls # <<>> => turn' = "tools"
  BY ModelAnswersSo
<1>2. Entered(client, Len(said) + 1, was, now)
  BY <1>1 DEF Entered
<1>3. Len(said) \in Nat /\ IsSeq(said) /\ Len(said) + 1 \in Nat /\ client \in Protocol /\ client \in Ends
  BY SeqLength DEF DialogInv, Entries, Ends
<1>4. AnswerEntry(now) /\ KnownEntry(client, now)
  BY <1>1, <1>2, <1>3, EnteredIsKnown
<1>5. /\ IsCalls(now.calls) /\ Len(now.calls) < 10
      /\ \A k \in 1 .. Len(now.calls) : now.calls[k].id = place + k
  <2>1. shape \in AnswerShapes
    BY ConversationAssumption
  <2>2. /\ Len(was.calls) < 10
        /\ \A k \in 1 .. Len(was.calls) : was.calls[k] = Call(place + k, shape.args[k])
    BY <1>3, <2>1, SaidIsAnswer
  <2>3. \A k \in 1 .. Len(was.calls) : was.calls[k].id = place + k
    <3>1. \A a, b : Call(a, b).id = a
      BY DEF Call
    <3> HIDE DEF was, place
    <3> QED BY <2>2, <3>1
  <2>4. now.calls = KnownCalls(client, was.calls) /\ IsCalls(was.calls)
    BY <1>1 DEF Known, Entry, IsAnswer
  <2>5. DOMAIN was.calls = 1 .. Len(was.calls)
    BY <2>4, SeqLength DEF IsCalls
  <2> HIDE DEF was, now, place
  <2>6. /\ IsCalls(now.calls) /\ Len(now.calls) = Len(was.calls)
        /\ \A k \in 1 .. Len(was.calls) : now.calls[k].id = was.calls[k].id
    BY <1>3, <2>4, <2>5, KnownCallsAre
  <2> QED BY <2>2, <2>3, <2>6
<1> HIDE DEF was, now
<1>6. open = {}
  BY <1>1 DEF PlaceInv
<1>7. PICK s : Reads(s)
  BY DEF PlaceInv
<1> DEFINE n   == Len(now.calls)
           ids == {now.calls[k].id : k \in 1 .. n}
<1>8. n \in Nat /\ n < 10 /\ DOMAIN now.calls = 1 .. n
  BY <1>5, SeqLength DEF IsCalls
<1>9. s.wait = {} /\ s = State({}, s.done, FALSE)
  <2>1. s.back = FALSE /\ s = State({}, s.done, s.back)
    BY <1>6, <1>7 DEF Reads
  <2> QED BY <2>1 DEF State
<1>10. ids \subseteq place + 1 .. place + 9 /\ s.done \subseteq 0 .. place - 1
  BY <1>3, <1>5, <1>7, <1>8 DEF Reads
<1> PICK t : t = State(ids, s.done, FALSE)
  OBVIOUS
<1>11. Runs(s, CallPieces(Ends, now.calls), t)
  <2>1. \A j, k \in 1 .. n : now.calls[j].id = now.calls[k].id => j = k
    BY <1>3, <1>5, <1>8
  <2>2. \A k \in 1 .. n : now.calls[k].id \notin {} \cup s.done
    BY <1>3, <1>10
  <2> DEFINE cs == now.calls
             w  == {}
             d  == s.done
  <2>3. Runs(State(w, d, FALSE), CallPieces(Ends, cs), State(w \cup {cs[k].id : k \in 1 .. Len(cs)}, d, FALSE))
    <3>1. IsCalls(cs)
      BY <1>5
    <3>2. \A j, k \in 1 .. Len(cs) : cs[j].id = cs[k].id => j = k
      BY <2>1
    <3>3. \A k \in 1 .. Len(cs) : cs[k].id \notin w \cup d
      BY <2>2
    <3> HIDE DEF cs, w, d
    <3> QED BY <3>1, <3>2, <3>3, CallsRun
  <2> DEFINE v == w \cup {cs[k].id : k \in 1 .. Len(cs)}
  <2>4. v = ids /\ d = s.done /\ w = {}
    OBVIOUS
  <2>5. Runs(State(w, d, FALSE), CallPieces(Ends, cs), State(v, d, FALSE))
    BY <2>3
  <2> HIDE DEF ids, v, w, d
  <2> QED BY <1>9, <2>4, <2>5
<1>12. Runs(s, EntryRead(Ends, now), t)
  <2> DEFINE a == Cat(Thought(now.thinking), now.content)
             u == Uses(now.calls)
             r == "assistant"
  <2>1. IsVoiced(a) /\ IsUses(u)
    BY <1>4, AnswerParts
  <2>2. EntryBlocks(now) = Cat(a, u) /\ now.role = r
    BY <1>4, BlocksOfEntry
  <2>3. Read(Ends, r, u) = CallPieces(Ends, now.calls) /\ IsSeq(CallPieces(Ends, now.calls))
    BY <1>5, ReadUses
  <2> HIDE DEF a, u
  <2>4. Good(a) /\ Good(u)
    BY <2>1, VoicedIsGood, UsesAreGood
  <2>5. Read(Ends, r, Cat(a, u)) = Cat(Read(Ends, r, a), Read(Ends, r, u))
    BY <2>4, ReadCat
  <2>6. Aside(Read(Ends, r, a))
    BY <2>1, VoicedIsToolless, ToollessRead
  <2>7. Runs(s, Read(Ends, r, a), s) /\ IsSeq(Read(Ends, r, a))
    BY <1>9, <2>6 DEF Aside
  <2>8. Runs(s, Cat(Read(Ends, r, a), Read(Ends, r, u)), t)
    BY <1>11, <2>3, <2>7, RunsCat
  <2> QED BY <2>2, <2>5, <2>8 DEF EntryRead
<1> HIDE DEF ids
<1>13. t.done = s.done /\ t.back = FALSE /\ t = State(ids, t.done, t.back)
  BY DEF State
<1>14. Runs(Begun, EntriesRead(Ends, Append(history, now)), t)
  BY <1>2, <1>7, <1>12, ReadsMore
<1>15. Ends' = Ends
  BY <1>1 DEF Ends
<1>16. Len(said') = Len(said) + 1
  BY <1>1, <1>3, Appended
<1>17. s.done \cup ids \subseteq 0 .. 10 * Len(said') + 9
  <2>1. place + 9 = 10 * Len(said') + 9 /\ place \in Nat
    BY <1>3, <1>16
  <2> HIDE DEF place, ids
  <2>2. place + 1 .. place + 9 \subseteq 0 .. place + 9 /\ 0 .. place - 1 \subseteq 0 .. place + 9
    BY <2>1
  <2> QED BY <1>10, <2>1, <2>2
<1>18. open' = ids
  BY <1>1, <1>8 DEF ids
<1>19. Reads(t)'
  BY <1>1, <1>13, <1>14, <1>15, <1>17, <1>18 DEF Reads
<1>20. ids = {} \/ turn' = "tools"
  <2>1. CASE now.calls = <<>>
    <3>1. n = 0
      BY <2>1
    <3> QED BY <3>1 DEF ids
  <2>2. CASE now.calls # <<>>
    BY <1>1, <2>2
  <2> QED BY <2>1, <2>2
<1> QED BY <1>18, <1>19, <1>20 DEF PlaceInv

LEMMA ToolPlaces ==
    ASSUME DialogInv, TurnInv, PlaceInv, NEW id \in open, NEW kinds \in Contents, ToolRuns(id, kinds)
    PROVE  PlaceInv'
<1> DEFINE e == Result(kinds, id)
<1>1. /\ turn = "tools" /\ history' = Append(history, e) /\ said' = Append(said, e)
      /\ client' = client /\ upstream' = upstream /\ open' = open \ {id}
      /\ turn' = (IF open = {id} THEN "model" ELSE "tools") /\ (client = "chat" => "media" \notin kinds)
  BY DEF ToolRuns
<1>2. id \in Nat /\ kinds \in SUBSET {"text", "media"}
  BY ConversationAssumption DEF DialogInv
<1>3. IsResult(client, e) /\ e.id = id
  BY <1>1, <1>2 DEF IsResult, Result, Entry
<1> HIDE DEF e
<1>4. Entered(client, Len(said) + 1, e, e)
  BY <1>3 DEF Entered
<1>5. Len(said) \in Nat /\ IsSeq(said) /\ Len(said) + 1 \in Nat /\ client \in Protocol
  BY SeqLength DEF DialogInv, Entries
<1>6. ToolEntry(client, e) /\ KnownEntry(client, e)
  BY <1>3, <1>4, <1>5, EnteredIsKnown
<1>7. PICK s : Reads(s)
  BY DEF PlaceInv
<1> DEFINE t == State(s.wait \ {id}, s.done \cup {id}, s.wait # {id})
<1>8. s.wait = open
  BY <1>7 DEF Reads, State
<1>9. Runs(s, EntryRead(Ends, e), t)
  <2>1. EntryBlocks(e) = <<ToolResult(id, e.content)>> /\ IsPlain(e.content)
    BY <1>3, <1>6, BlocksOfEntry DEF ToolEntry
  <2>2. EntryRead(Ends, e) = ResultPieces(id, e.content)
    BY <2>1, ResultIsRead DEF EntryRead
  <2>3. Texted(e.content) /\ Inner(Joined(e.content))
    BY <2>1, PlainIsGood, PlainJoined
  <2>4. Takes(s, Start(id), t)
    BY <1>8, StartIs DEF Takes
  <2> HIDE DEF t
  <2> QED BY <2>2, <2>3, <2>4, ResultRuns
<1>10. /\ t.done = s.done \cup {id} /\ t.back = (open # {id}) /\ t.back \in BOOLEAN
       /\ t = State(open \ {id}, t.done, t.back)
  BY <1>8 DEF State
<1> HIDE DEF t
<1>11. Runs(Begun, EntriesRead(Ends, Append(history, e)), t)
  BY <1>4, <1>7, <1>9, ReadsMore
<1>12. Ends' = Ends
  BY <1>1 DEF Ends
<1>13. Len(said') = Len(said) + 1
  BY <1>1, <1>5, Appended
<1>14. s.done \cup open \subseteq 0 .. 10 * Len(said) + 9
  BY <1>7 DEF Reads
<1>15. t.done \cup open' \subseteq 0 .. 10 * Len(said) + 9
  BY <1>1, <1>10, <1>14
<1>16. 0 .. 10 * Len(said) + 9 \subseteq 0 .. 10 * Len(said') + 9
  BY <1>5, <1>13
<1>17. t.back => open' # {}
  BY <1>1, <1>10
<1>18. t = State(open', t.done, t.back)
  BY <1>1, <1>10
<1>19. Reads(t)'
  BY <1>1, <1>10, <1>11, <1>12, <1>15, <1>16, <1>17, <1>18 DEF Reads
<1>20. turn' # "tools" => open' = {}
  BY <1>1
<1> QED BY <1>19, <1>20 DEF PlaceInv

\* At any moment what the client has can be read with each result behind its call and the
\* open calls last: ids are new, and nobody but the tools speaks while a call waits
THEOREM ResultsArePlaced == Spec => []PlaceInv
<1>1. Init => PlaceInv
  <2> SUFFICES ASSUME Init PROVE PlaceInv
    OBVIOUS
  <2>1. history = <<>> /\ said = <<>> /\ turn = "user" /\ open = {}
    BY DEF Init
  <2>2. EntriesRead(Ends, history) = <<>>
    BY <2>1, NothingRead
  <2>3. Runs(Begun, EntriesRead(Ends, history), Begun)
    BY <2>2, RunsNothing
  <2>4. Begun.done = {} /\ Begun.back = FALSE /\ Begun = State(open, Begun.done, Begun.back)
    BY <2>1 DEF Begun, State
  <2>5. Reads(Begun)
    BY <2>1, <2>3, <2>4 DEF Reads
  <2> QED BY <2>1, <2>5 DEF PlaceInv
<1>2. DialogInv /\ TurnInv /\ PlaceInv /\ [Next]_vars => PlaceInv'
  <2> SUFFICES ASSUME DialogInv, TurnInv, PlaceInv, [Next]_vars PROVE PlaceInv'
    OBVIOUS
  <2>1. CASE \E kinds \in {{"text"}, {"text", "media"}} : UserSpeaks(kinds)
    BY <2>1, UserPlaces
  <2>2. CASE \E shape \in Shapes : ModelAnswers(shape)
    BY <2>2, ModelPlaces
  <2>3. CASE \E id \in open, kinds \in Contents : ToolRuns(id, kinds)
    BY <2>3, ToolPlaces
  <2>4. CASE UNCHANGED vars
    <3>1. PICK s : Reads(s)
      BY DEF PlaceInv
    <3>2. Ends' = Ends
      BY <2>4 DEF vars, Ends
    <3>3. Reads(s)'
      BY <2>4, <3>1, <3>2 DEF vars, Reads
    <3> QED BY <2>4, <3>3 DEF vars, PlaceInv
  <2> QED BY <2>1, <2>2, <2>3, <2>4 DEF Next
<1> QED BY <1>1, <1>2, DialogTyped, TurnsTyped, PTL DEF Spec

LEMMA AskedIsInPlace == ASSUME DialogInv, TurnInv, PlaceInv PROVE ResultsInPlace
<1> SUFFICES ASSUME turn = "model" PROVE InPlace(Heard)
  BY DEF ResultsInPlace, Asking
<1>1. PICK s : Reads(s)
  BY DEF PlaceInv
<1>2. s.wait = {}
  BY <1>1 DEF PlaceInv, Reads, State
<1>3. client \in Protocol /\ upstream \in Protocol /\ client # upstream /\ upstream \in Ends
  BY DEF DialogInv, Ends
<1>4. Dialogue(client, history)
  BY DEF TurnInv
<1> DEFINE first == Read(Ends, "system", Instructions)
           rest  == EntriesRead(Ends, history)
<1>5. Aside(first)
  BY InstructionsGood, VoicedIsRead
<1>6. IsSeq(rest)
  BY HistoryIsRead
<1>7. Begun.wait = {}
  BY DEF Begun, State
<1>8. Runs(Begun, first, Begun) /\ IsSeq(first)
  BY <1>5, <1>7 DEF Aside
<1>9. Runs(Begun, rest, s)
  BY <1>1 DEF Reads
<1>10. Runs(Begun, Cat(first, rest), s)
  <2> HIDE DEF first, rest
  <2> QED BY <1>6, <1>8, <1>9, RunsCat
<1>11. IsSeq(Heard) /\ Runs(Begun, Heard, s)
  BY <1>2, <1>3, <1>4, <1>10, ConvertedStands DEF Heard, Asked
<1> QED BY <1>2, <1>11, RunsInPlace

\* Every call of a request has one result, and between the two there is nothing but calls
\* and results, whatever build_request.go moved (flushToolMedia, appendToolResult) and
\* whatever parse_request.go put together (appendAssistantBlocks)
THEOREM ResultsAreInPlace == Spec => []ResultsInPlace
BY DialogTyped, TurnsTyped, ResultsArePlaced, AskedIsInPlace, PTL
=============================================================================
