---------------------------- MODULE DialogProofs ----------------------------
(***************************************************************************)
(* What a client of a conversation knows, and what the gateway parses of   *)
(* it: for all pairs of protocols, dialogs of any length, answers of any   *)
(* number of calls and any arguments.                                      *)
(*                                                                         *)
(* An upstream reads a sequence of pieces, put together by Cat.            *)
(*                                                                         *)
(* 1. Answers: whatever an upstream replies, ParseAnswer makes of it what  *)
(*    was said (AnswerParsed), and what the builders make of that is read  *)
(*    as an entry of the client's history (Known).  DialogInv says so of   *)
(*    every entry.  It gives AnswersKept.                                  *)
(* 2. Parsers: a history whose entries follow one another as Dialogue says *)
(*    is parsed into messages that are read like its entries, are turns    *)
(*    and have a form the builders rely on (ParsedWell; AllParsedWell).    *)
(***************************************************************************)
EXTENDS ConversationProps, Induction, TLAPS

-----------------------------------------------------------------------------
(* Sequences put together *)

LEMMA Concat ==
    ASSUME NEW s, IsSeq(s), NEW t, IsSeq(t)
    PROVE  /\ IsSeq(s \o t) /\ Len(s \o t) = Len(s) + Len(t)
           /\ \A j \in 1 .. Len(s) : (s \o t)[j] = s[j]
           /\ \A j \in 1 .. Len(t) : (s \o t)[Len(s) + j] = t[j]
<1>1. PICK S : s \in Seq(S)
  BY DEF IsSeq
<1>2. PICK T : t \in Seq(T)
  BY DEF IsSeq
<1>3. s \in Seq(S \cup T) /\ t \in Seq(S \cup T)
  BY <1>1, <1>2
<1>4. s \o t \in Seq(S \cup T)
  BY <1>3
<1>5. IsSeq(s \o t)
  BY <1>4 DEF IsSeq
<1> QED BY <1>3, <1>5

\* A sequence that is the one up to some place and the other from there on
LEMMA Joint ==
    ASSUME NEW s, IsSeq(s), NEW t, IsSeq(t), NEW u, IsSeq(u), Len(u) = Len(s) + Len(t),
           \A j \in 1 .. Len(s) : u[j] = s[j],
           \A j \in 1 .. Len(t) : u[Len(s) + j] = t[j]
    PROVE  u = s \o t
<1> DEFINE v == s \o t
           m == Len(s)
           n == Len(t)
<1>1. m \in Nat /\ n \in Nat
  BY SeqLength
<1>2. /\ IsSeq(v) /\ Len(v) = m + n
      /\ \A j \in 1 .. m : v[j] = s[j]
      /\ \A j \in 1 .. n : v[m + j] = t[j]
  BY Concat
<1> HIDE DEF v
<1>3. ASSUME NEW j \in 1 .. m + n PROVE u[j] = v[j]
  <2>1. CASE j \in 1 .. m
    BY <2>1, <1>2
  <2>2. CASE j \notin 1 .. m
    <3>1. j - m \in 1 .. n /\ m + (j - m) = j
      BY <2>2, <1>1
    <3> QED BY <3>1, <1>2
  <2> QED BY <2>1, <2>2
<1> HIDE DEF m, n
<1>4. u = v
  BY <1>1, <1>2, <1>3, SameSeq DEF m, n
<1> QED BY <1>4 DEF v

\* The same with a name for what is known of the three
Joins(u, s, t) ==
    /\ IsSeq(u) /\ Len(u) = Len(s) + Len(t)
    /\ \A j \in 1 .. Len(s) : u[j] = s[j]
    /\ \A j \in 1 .. Len(t) : u[Len(s) + j] = t[j]

LEMMA JoinsUp == ASSUME NEW s, IsSeq(s), NEW t, IsSeq(t) PROVE Joins(s \o t, s, t)
BY Concat DEF Joins

LEMMA Joining ==
    ASSUME NEW s, IsSeq(s), NEW t, IsSeq(t), NEW u, Joins(u, s, t)
    PROVE  u = s \o t
BY Joint DEF Joins

LEMMA ConcatEmpty == ASSUME NEW s, IsSeq(s) PROVE s \o <<>> = s /\ <<>> \o s = s
<1>1. PICK S : s \in Seq(S)
  BY DEF IsSeq
<1> QED BY <1>1

LEMMA ConcatAssoc ==
    ASSUME NEW s, IsSeq(s), NEW t, IsSeq(t), NEW u, IsSeq(u)
    PROVE  (s \o t) \o u = s \o (t \o u)
<1>1. PICK S : s \in Seq(S)
  BY DEF IsSeq
<1>2. PICK T : t \in Seq(T)
  BY DEF IsSeq
<1>3. PICK U : u \in Seq(U)
  BY DEF IsSeq
<1> DEFINE V == S \cup T \cup U
<1>4. s \in Seq(V) /\ t \in Seq(V) /\ u \in Seq(V)
  BY <1>1, <1>2, <1>3
<1> HIDE DEF V
<1> QED BY <1>4

LEMMA One == ASSUME NEW e PROVE IsSeq(<<e>>) /\ Len(<<e>>) = 1 /\ <<e>>[1] = e /\ <<e>> # <<>>
<1>1. <<e>> \in Seq({e})
  OBVIOUS
<1>2. IsSeq(<<e>>)
  BY <1>1 DEF IsSeq
<1> QED BY <1>2

LEMMA AppendedOne == ASSUME NEW s, IsSeq(s), NEW e PROVE Append(s, e) = s \o <<e>>
<1>1. PICK S : s \in Seq(S)
  BY DEF IsSeq
<1>2. s \in Seq(S \cup {e}) /\ <<e>> \in Seq(S \cup {e})
  BY <1>1
<1> QED BY <1>2

LEMMA ConcatAppend ==
    ASSUME NEW s, IsSeq(s), NEW t, IsSeq(t), NEW e
    PROVE  s \o Append(t, e) = Append(s \o t, e)
<1>1. IsSeq(s \o t) /\ IsSeq(<<e>>)
  BY Concat, One
<1>2. s \o (t \o <<e>>) = (s \o t) \o <<e>>
  BY <1>1, ConcatAssoc
<1> QED BY <1>1, <1>2, AppendedOne

LEMMA ConcatIsEmpty ==
    ASSUME NEW s, IsSeq(s), NEW t, IsSeq(t)
    PROVE  s \o t = <<>> <=> s = <<>> /\ t = <<>>
<1>1. s \o t = <<>> => Len(s) = 0 /\ Len(t) = 0
  <2>1. Len(s \o t) = Len(s) + Len(t) /\ Len(s) \in Nat /\ Len(t) \in Nat
    BY Concat, SeqLength
  <2> QED BY <2>1, EmptyIsSeq
<1> QED BY <1>1, EmptySeqLength, ConcatEmpty

LEMMA AtConcat ==
    ASSUME NEW s, IsSeq(s), NEW t, IsSeq(t), NEW P, NEW Q, NEW R,
           \A k \in 1 .. Len(s) : k \in P <=> k \in Q,
           \A k \in 1 .. Len(t) : Len(s) + k \in P <=> k \in R
    PROVE  At(s \o t, P) = At(s, Q) \o At(t, R)
<1> DEFINE m == Len(s)
           Fits(x) == IsSeq(x) /\ \A k \in 1 .. Len(x) : m + k \in P <=> k \in R
           Holds(x) == At(s \o x, P) = At(s, Q) \o At(x, R)
           S == {n \in Nat : \A x : Fits(x) /\ Len(x) = n => Holds(x)}
<1>0. m \in Nat /\ Len(t) \in Nat /\ IsSeq(At(s, Q)) /\ IsSeq(At(s, P))
  BY SeqLength, AtIsSeq
<1>1. 0 \in S
  <2> SUFFICES ASSUME NEW x, Fits(x), Len(x) = 0 PROVE Holds(x)
    OBVIOUS
  <2>1. x = <<>>
    BY EmptySeqLength
  <2>2. At(s, P) = At(s, Q)
    <3>1. PICK f : IsPicked(f, s, P, Len(s)) /\ At(s, P) = f[Len(s)]
      BY AtPicked
    <3>2. PICK g : IsPicked(g, s, Q, Len(s)) /\ At(s, Q) = g[Len(s)]
      BY AtPicked
    <3>3. f[Len(s)] = g[Len(s)]
      BY <1>0, <3>1, <3>2, PickedSame
    <3> QED BY <3>1, <3>2, <3>3
  <2> HIDE DEF S
  <2>3. s \o x = s /\ At(x, R) = <<>> /\ At(s, Q) \o <<>> = At(s, Q)
    BY <2>1, <1>0, AtEmpty, ConcatEmpty
  <2> QED BY <2>2, <2>3
<1>2. ASSUME NEW n \in S PROVE n + 1 \in S
  <2> SUFFICES ASSUME NEW x, Fits(x), Len(x) = n + 1 PROVE Holds(x)
    OBVIOUS
  <2>0. n \in Nat
    OBVIOUS
  <2>1. PICK y : IsSeq(y) /\ Len(y) = n /\ x = Append(y, x[n + 1])
    BY <2>0, Shortened
  <2>2. Fits(y)
    BY <2>0, <2>1
  <2>3. Holds(y)
    BY <2>1, <2>2
  <2>4. m + (n + 1) \in P <=> n + 1 \in R
    BY <2>0
  <2> DEFINE e == x[n + 1]
  <2> HIDE DEF S, e
  <2>5. IsSeq(s \o y) /\ Len(s \o y) = m + n
    BY <2>1, Concat
  <2>12. x = Append(y, e)
    BY <2>1 DEF e
  <2>6. s \o Append(y, e) = Append(s \o y, e)
    BY <2>1, ConcatAppend
  <2> DEFINE z == s \o y
  <2>7. At(Append(z, e), P) = IF m + n + 1 \in P THEN Append(At(z, P), e) ELSE At(z, P)
    <3> HIDE DEF z, m
    <3>1. IsSeq(z) /\ Len(z) = m + n
      BY <2>5 DEF z
    <3>2. At(Append(z, e), P) = IF Len(z) + 1 \in P THEN Append(At(z, P), e) ELSE At(z, P)
      BY <3>1, AtAppend
    <3> QED BY <3>1, <3>2
  <2>8. At(Append(y, e), R) = IF n + 1 \in R THEN Append(At(y, R), e) ELSE At(y, R)
    BY <2>1, AtAppend
  <2>9. IsSeq(At(y, R))
    BY <2>1, AtIsSeq
  <2>10. At(s, Q) \o Append(At(y, R), e) = Append(At(s, Q) \o At(y, R), e)
    BY <1>0, <2>9, ConcatAppend
  <2>11. m + n + 1 = m + (n + 1)
    BY <1>0, <2>0
  <2> HIDE DEF m
  <2> QED BY <2>3, <2>4, <2>6, <2>7, <2>8, <2>10, <2>11, <2>12
<1>3. S = Nat
  <2>1. S \in SUBSET Nat
    OBVIOUS
  <2> HIDE DEF S
  <2> QED BY <1>1, <1>2, <2>1, SetInduction
<1>4. Fits(t)
  OBVIOUS
<1>5. Holds(t)
  BY <1>0, <1>3, <1>4
<1> QED BY <1>5

LEMMA AtNone ==
    ASSUME NEW s, IsSeq(s), NEW P, \A k \in 1 .. Len(s) : k \notin P
    PROVE  At(s, P) = <<>>
<1>1. PICK f : IsPicked(f, s, P, Len(s)) /\ At(s, P) = f[Len(s)]
  BY AtPicked
<1> DEFINE n == Len(s)
           S == {k \in Nat : k <= n => f[k] = <<>>}
<1>2. n \in Nat
  BY SeqLength
<1>3. 0 \in S
  BY <1>1, <1>2 DEF IsPicked
<1>4. ASSUME NEW k \in S PROVE k + 1 \in S
  <2>1. SUFFICES ASSUME k + 1 <= n PROVE f[k + 1] = <<>>
    OBVIOUS
  <2>2. f[k] = <<>>
    BY <2>1, <1>2
  <2> DEFINE j == k + 1
  <2>3. j # 0 /\ j - 1 = k /\ j \in 0 .. n /\ j \in 1 .. n
    BY <2>1
  <2> HIDE DEF j
  <2>4. f[j] = IF j \in P THEN Append(f[j - 1], s[j]) ELSE f[j - 1]
    BY <1>1, <2>3 DEF IsPicked
  <2>5. j \notin P
    BY <2>3
  <2>6. f[j] = <<>>
    BY <2>2, <2>3, <2>4, <2>5
  <2> QED BY <2>6 DEF j
<1>5. S = Nat
  <2>1. S \in SUBSET Nat
    OBVIOUS
  <2> HIDE DEF S
  <2> QED BY <1>3, <1>4, <2>1, SetInduction
<1> QED BY <1>1, <1>2, <1>5

IsSeqs(ss) == IsSeq(ss) /\ \A k \in 1 .. Len(ss) : IsSeq(ss[k])

LEMMA FlatSame ==
    ASSUME NEW s, NEW t, NEW n \in Nat, NEW m \in Nat, n <= m,
           NEW f, NEW g, IsFlat(f, s, n), IsFlat(g, t, m), \A k \in 1 .. n : s[k] = t[k]
    PROVE  \A k \in 1 .. n : f[k] = g[k]
<1> DEFINE S == {k \in Nat : k \in 1 .. n => f[k] = g[k]}
<1>1. 0 \in S
  OBVIOUS
<1>2. ASSUME NEW k \in S PROVE k + 1 \in S
  <2>1. SUFFICES ASSUME k + 1 \in 1 .. n PROVE f[k + 1] = g[k + 1]
    OBVIOUS
  <2>2. k \in Nat /\ (k # 0 => f[k] = g[k])
    BY <2>1
  <2> DEFINE j == k + 1
  <2>3. j \in 1 .. n /\ j - 1 = k /\ j \in 1 .. m /\ (j # 1 <=> k # 0)
    BY <2>1, <2>2
  <2> HIDE DEF j
  <2>4. f[j] = IF j = 1 THEN s[j] ELSE f[j - 1] \o s[j]
    BY <2>3 DEF IsFlat
  <2>5. g[j] = IF j = 1 THEN t[j] ELSE g[j - 1] \o t[j]
    BY <2>3 DEF IsFlat
  <2>6. f[j] = g[j]
    BY <2>2, <2>3, <2>4, <2>5
  <2> QED BY <2>6 DEF j
<1> HIDE DEF S
<1>3. S = Nat
  <2>1. S \in SUBSET Nat
    BY DEF S
  <2> QED BY <1>1, <1>2, <2>1, SetInduction
<1> QED BY <1>3 DEF S

LEMMA FlatEmpty == FlattenSeq(<<>>) = <<>>
BY EmptyIsSeq DEF FlattenSeq

LEMMA FlatFlat ==
    ASSUME NEW ss, IsSeq(ss), ss # <<>>
    PROVE  \E f : IsFlat(f, ss, Len(ss)) /\ FlattenSeq(ss) = f[Len(ss)]
<1> DEFINE n == Len(ss)
<1>1. n \in Nat /\ n # 0
  BY SeqLength, EmptySeqLength
<1>2. \E f : IsFlat(f, ss, n)
  BY <1>1, FlatExists
<1>3. FlattenSeq(ss) = (CHOOSE f : IsFlat(f, ss, n))[n]
  BY <1>1 DEF FlattenSeq, IsFlat
<1> QED BY <1>2, <1>3

LEMMA FlatAppend ==
    ASSUME NEW ss, IsSeq(ss), NEW t, IsSeq(t)
    PROVE  FlattenSeq(Append(ss, t)) = FlattenSeq(ss) \o t
<1> DEFINE tt == Append(ss, t)
           n  == Len(ss)
<1>1. /\ IsSeq(tt) /\ n \in Nat /\ Len(tt) = n + 1 /\ tt[n + 1] = t /\ tt # <<>>
      /\ \A k \in 1 .. n : tt[k] = ss[k]
  BY Appended, FirstAppended
<1> HIDE DEF tt, n
<1>2. PICK g : IsFlat(g, tt, n + 1) /\ FlattenSeq(tt) = g[n + 1]
  BY <1>1, FlatFlat
<1>3. g[n + 1] = IF n = 0 THEN t ELSE g[n] \o t
  <2> DEFINE j == n + 1
  <2>1. j \in 1 .. n + 1 /\ j - 1 = n /\ (j = 1 <=> n = 0) /\ tt[j] = t
    BY <1>1
  <2> HIDE DEF j
  <2>2. g[j] = IF j = 1 THEN tt[j] ELSE g[j - 1] \o tt[j]
    BY <1>2, <2>1 DEF IsFlat
  <2>3. g[j] = IF n = 0 THEN t ELSE g[n] \o t
    BY <2>1, <2>2
  <2> QED BY <2>3 DEF j
<1>4. CASE ss = <<>>
  <2>1. n = 0
    BY <1>4, EmptyIsSeq DEF n
  <2>2. g[n + 1] = t
    BY <2>1, <1>3
  <2> QED BY <1>2, <1>4, <2>2, FlatEmpty, ConcatEmpty DEF tt
<1>5. CASE ss # <<>>
  <2>1. PICK f : IsFlat(f, ss, n) /\ FlattenSeq(ss) = f[n]
    BY <1>5, FlatFlat DEF n
  <2>2. n \in 1 .. n
    BY <1>1, <1>5, EmptySeqLength DEF n
  <2>3. f[n] = g[n]
    BY <1>1, <1>2, <2>1, <2>2, FlatSame
  <2>4. g[n + 1] = g[n] \o t
    BY <1>1, <1>3, <2>2
  <2> QED BY <1>2, <2>1, <2>3, <2>4 DEF tt
<1> QED BY <1>4, <1>5

LEMMA FlatOne == ASSUME NEW t, IsSeq(t) PROVE FlattenSeq(<<t>>) = t
<1> DEFINE e == <<>>
<1>1. <<t>> = Append(e, t)
  OBVIOUS
<1>2. IsSeq(e) /\ FlattenSeq(e) = e /\ e \o t = t
  BY EmptyIsSeq, FlatEmpty, ConcatEmpty
<1> HIDE DEF e
<1>3. FlattenSeq(Append(e, t)) = FlattenSeq(e) \o t
  BY <1>2, FlatAppend
<1> QED BY <1>1, <1>2, <1>3

LEMMA FlatConcat ==
    ASSUME NEW ss, IsSeqs(ss), NEW tt, IsSeqs(tt)
    PROVE  /\ IsSeq(FlattenSeq(ss \o tt))
           /\ FlattenSeq(ss \o tt) = FlattenSeq(ss) \o FlattenSeq(tt)
<1> DEFINE Holds(x, y) == /\ IsSeq(FlattenSeq(x)) /\ IsSeq(FlattenSeq(y))
                          /\ FlattenSeq(x \o y) = FlattenSeq(x) \o FlattenSeq(y)
           S(x) == {n \in Nat : \A y : IsSeqs(y) /\ Len(y) = n => Holds(x, y)}
           Good(x) == IsSeqs(x) /\ IsSeq(FlattenSeq(x))
<1>1. ASSUME NEW x, Good(x) PROVE 0 \in S(x)
  <2> SUFFICES ASSUME NEW y, IsSeqs(y), Len(y) = 0 PROVE Holds(x, y)
    OBVIOUS
  <2>1. y = <<>>
    BY EmptySeqLength DEF IsSeqs
  <2>2. x \o y = x /\ FlattenSeq(y) = <<>>
    BY <1>1, <2>1, ConcatEmpty, FlatEmpty DEF IsSeqs
  <2>3. FlattenSeq(x) \o <<>> = FlattenSeq(x)
    BY <1>1, ConcatEmpty
  <2> HIDE DEF S
  <2> QED BY <1>1, <2>1, <2>2, <2>3, EmptyIsSeq
<1>2. ASSUME NEW x, Good(x), NEW n \in S(x) PROVE n + 1 \in S(x)
  <2> SUFFICES ASSUME NEW y, IsSeqs(y), Len(y) = n + 1 PROVE Holds(x, y)
    OBVIOUS
  <2>0. n \in Nat
    OBVIOUS
  <2>1. PICK z : IsSeq(z) /\ Len(z) = n /\ y = Append(z, y[n + 1])
    BY <2>0, Shortened DEF IsSeqs
  <2> DEFINE e == y[n + 1]
  <2>2. y = Append(z, e) /\ IsSeq(e)
    BY <2>0, <2>1 DEF IsSeqs
  <2>3. IsSeqs(z)
    <3>1. \A j \in 1 .. n : z[j] = y[j]
      BY <2>1, Appended
    <3> HIDE DEF e
    <3> QED BY <2>0, <2>1, <3>1 DEF IsSeqs
  <2>4. Holds(x, z)
    BY <2>1, <2>3
  <2> HIDE DEF e, S
  <2>5. FlattenSeq(y) = FlattenSeq(z) \o e
    BY <2>1, <2>2, FlatAppend
  <2>6. x \o y = Append(x \o z, e) /\ IsSeq(x \o z)
    <3>1. IsSeq(x)
      BY <1>2 DEF IsSeqs
    <3>2. x \o Append(z, e) = Append(x \o z, e)
      BY <2>1, <3>1, ConcatAppend
    <3> QED BY <2>1, <2>2, <3>1, <3>2, Concat
  <2>7. FlattenSeq(x \o y) = FlattenSeq(x \o z) \o e
    BY <2>2, <2>6, FlatAppend
  <2>8. (FlattenSeq(x) \o FlattenSeq(z)) \o e = FlattenSeq(x) \o (FlattenSeq(z) \o e)
    BY <2>2, <2>4, ConcatAssoc
  <2>9. IsSeq(FlattenSeq(z) \o e)
    BY <2>2, <2>4, Concat
  <2> QED BY <1>2, <2>4, <2>5, <2>7, <2>8, <2>9
<1>3. ASSUME NEW x, Good(x) PROVE S(x) = Nat
  <2>1. S(x) \in SUBSET Nat
    OBVIOUS
  <2> DEFINE T == S(x)
  <2>2. 0 \in T /\ \A n \in T : n + 1 \in T
    BY <1>1, <1>2, <1>3
  <2> HIDE DEF S, T
  <2>3. T = Nat
    BY <2>1, <2>2, SetInduction DEF T
  <2> QED BY <2>3 DEF T
<1>4. ASSUME NEW x, Good(x), NEW y, IsSeqs(y) PROVE Holds(x, y)
  <2>1. Len(y) \in S(x)
    BY <1>3, <1>4, SeqLength DEF IsSeqs
  <2> QED BY <1>4, <2>1
<1>5. Good(<<>>)
  <2>1. IsSeqs(<<>>)
    BY EmptyIsSeq DEF IsSeqs
  <2> QED BY <2>1, FlatEmpty, EmptyIsSeq
<1>6. IsSeq(FlattenSeq(ss))
  BY <1>4, <1>5
<1> HIDE DEF S
<1>7. Holds(ss, tt)
  BY <1>4, <1>6
<1> QED BY <1>7, Concat

LEMMA FlatIsSeq == ASSUME NEW ss, IsSeqs(ss) PROVE IsSeq(FlattenSeq(ss))
<1>1. IsSeqs(<<>>)
  BY EmptyIsSeq DEF IsSeqs
<1>2. ss \o <<>> = ss
  BY ConcatEmpty DEF IsSeqs
<1> QED BY <1>1, <1>2, FlatConcat

-----------------------------------------------------------------------------
(* Picking blocks and pieces of joined sequences *)

(* Sequences put together again, by an operator the provers know only these facts of *)

Cat(s, t) == s \o t

LEMMA CatIsSeq == ASSUME NEW s, IsSeq(s), NEW t, IsSeq(t) PROVE IsSeq(Cat(s, t))
BY Concat DEF Cat

LEMMA CatEmpty == ASSUME NEW s, IsSeq(s) PROVE Cat(s, <<>>) = s /\ Cat(<<>>, s) = s
BY ConcatEmpty DEF Cat

LEMMA CatEmpties == Cat(<<>>, <<>>) = <<>>
BY CatEmpty, EmptyIsSeq

LEMMA CatAssoc ==
    ASSUME NEW s, IsSeq(s), NEW t, IsSeq(t), NEW u, IsSeq(u)
    PROVE  Cat(Cat(s, t), u) = Cat(s, Cat(t, u))
BY ConcatAssoc DEF Cat

LEMMA CatOne == ASSUME NEW s, IsSeq(s), NEW e PROVE Append(s, e) = Cat(s, <<e>>)
BY AppendedOne DEF Cat

LEMMA CatIsEmpty ==
    ASSUME NEW s, IsSeq(s), NEW t, IsSeq(t)
    PROVE  Cat(s, t) = <<>> <=> s = <<>> /\ t = <<>>
BY ConcatIsEmpty DEF Cat

LEMMA OfTypeCat ==
    ASSUME NEW s, IsSeq(s), NEW t, IsSeq(t), NEW type
    PROVE  OfType(Cat(s, t), type) = Cat(OfType(s, type), OfType(t, type))
<1> USE DEF Cat
<1> DEFINE u == s \o t
           P == {k \in DOMAIN u : u[k].type = type}
           Q == {k \in DOMAIN s : s[k].type = type}
           R == {k \in DOMAIN t : t[k].type = type}
<1>1. /\ IsSeq(u) /\ Len(u) = Len(s) + Len(t)
      /\ \A j \in 1 .. Len(s) : u[j] = s[j]
      /\ \A j \in 1 .. Len(t) : u[Len(s) + j] = t[j]
  BY Concat
<1>2. Len(s) \in Nat /\ Len(t) \in Nat /\ DOMAIN s = 1 .. Len(s) /\ DOMAIN t = 1 .. Len(t)
  BY SeqLength
<1>3. DOMAIN u = 1 .. Len(s) + Len(t)
  BY <1>1, SeqLength
<1> HIDE DEF u
<1>4. \A k \in 1 .. Len(s) : k \in P <=> k \in Q
  BY <1>1, <1>2, <1>3
<1>5. \A k \in 1 .. Len(t) : Len(s) + k \in P <=> k \in R
  BY <1>1, <1>2, <1>3
<1> HIDE DEF P, Q, R
<1>6. At(s \o t, P) = At(s, Q) \o At(t, R)
  BY <1>4, <1>5, AtConcat
<1> QED BY <1>6 DEF OfType, P, Q, R, u

LEMMA WithoutCat ==
    ASSUME NEW s, IsSeq(s), NEW t, IsSeq(t), NEW type
    PROVE  Without(Cat(s, t), type) = Cat(Without(s, type), Without(t, type))
<1> USE DEF Cat
<1> DEFINE u == s \o t
           P == {k \in DOMAIN u : u[k].type # type}
           Q == {k \in DOMAIN s : s[k].type # type}
           R == {k \in DOMAIN t : t[k].type # type}
<1>1. /\ IsSeq(u) /\ Len(u) = Len(s) + Len(t)
      /\ \A j \in 1 .. Len(s) : u[j] = s[j]
      /\ \A j \in 1 .. Len(t) : u[Len(s) + j] = t[j]
  BY Concat
<1>2. Len(s) \in Nat /\ Len(t) \in Nat /\ DOMAIN s = 1 .. Len(s) /\ DOMAIN t = 1 .. Len(t)
  BY SeqLength
<1>3. DOMAIN u = 1 .. Len(s) + Len(t)
  BY <1>1, SeqLength
<1> HIDE DEF u
<1>4. \A k \in 1 .. Len(s) : k \in P <=> k \in Q
  BY <1>1, <1>2, <1>3
<1>5. \A k \in 1 .. Len(t) : Len(s) + k \in P <=> k \in R
  BY <1>1, <1>2, <1>3
<1> HIDE DEF P, Q, R
<1>6. At(s \o t, P) = At(s, Q) \o At(t, R)
  BY <1>4, <1>5, AtConcat
<1> QED BY <1>6 DEF Without, P, Q, R, u

LEMMA PickIsSeq ==
    ASSUME NEW s, IsSeq(s), NEW type
    PROVE  IsSeq(OfType(s, type)) /\ IsSeq(Without(s, type))
BY AtIsSeq DEF OfType, Without

LEMMA AllOfType ==
    ASSUME NEW s, IsSeq(s), NEW type, \A k \in 1 .. Len(s) : s[k].type = type
    PROVE  OfType(s, type) = s /\ Without(s, type) = <<>>
<1>1. DOMAIN s = 1 .. Len(s)
  BY SeqLength
<1> DEFINE P == {k \in DOMAIN s : s[k].type = type}
           Q == {k \in DOMAIN s : s[k].type # type}
<1>2. DOMAIN s \subseteq P /\ \A k \in 1 .. Len(s) : k \notin Q
  BY <1>1
<1> HIDE DEF P, Q
<1>3. At(s, P) = s /\ At(s, Q) = <<>>
  BY <1>2, AtAll, AtNone
<1> QED BY <1>3 DEF OfType, Without, P, Q

LEMMA NoneOfType ==
    ASSUME NEW s, IsSeq(s), NEW type, \A k \in 1 .. Len(s) : s[k].type # type
    PROVE  OfType(s, type) = <<>> /\ Without(s, type) = s
<1>1. DOMAIN s = 1 .. Len(s)
  BY SeqLength
<1> DEFINE P == {k \in DOMAIN s : s[k].type = type}
           Q == {k \in DOMAIN s : s[k].type # type}
<1>2. DOMAIN s \subseteq Q /\ \A k \in 1 .. Len(s) : k \notin P
  BY <1>1
<1> HIDE DEF P, Q
<1>3. At(s, Q) = s /\ At(s, P) = <<>>
  BY <1>2, AtAll, AtNone
<1> QED BY <1>3 DEF OfType, Without, P, Q

LEMMA EmptyOfType ==
    ASSUME NEW type
    PROVE  OfType(<<>>, type) = <<>> /\ Without(<<>>, type) = <<>>
BY AtEmpty DEF OfType, Without

LEMMA OneOfType ==
    ASSUME NEW b, NEW type
    PROVE  /\ OfType(<<b>>, type) = IF b.type = type THEN <<b>> ELSE <<>>
           /\ Without(<<b>>, type) = IF b.type = type THEN <<>> ELSE <<b>>
<1> DEFINE s == <<b>>
<1>1. IsSeq(s) /\ Len(s) = 1 /\ s[1] = b
  BY One
<1> HIDE DEF s
<1>2. \A k \in 1 .. Len(s) : s[k] = b
  BY <1>1
<1>3. CASE b.type = type
  BY <1>1, <1>2, <1>3, AllOfType DEF s
<1>4. CASE b.type # type
  BY <1>1, <1>2, <1>4, NoneOfType DEF s
<1> QED BY <1>3, <1>4

\* Whatever is picked is an element
LEMMA AtElements ==
    ASSUME NEW s, IsSeq(s), NEW P
    PROVE  \A k \in 1 .. Len(At(s, P)) : \E j \in 1 .. Len(s) : j \in P /\ At(s, P)[k] = s[j]
<1> DEFINE Holds(x) == \A k \in 1 .. Len(At(x, P)) :
                           \E j \in 1 .. Len(x) : j \in P /\ At(x, P)[k] = x[j]
           S == {n \in Nat : \A x : IsSeq(x) /\ Len(x) = n => Holds(x)}
<1>1. 0 \in S
  <2> SUFFICES ASSUME NEW x, IsSeq(x), Len(x) = 0 PROVE Holds(x)
    OBVIOUS
  <2>1. x = <<>>
    BY EmptySeqLength
  <2>2. Len(At(x, P)) = 0
    BY <2>1, AtEmpty, EmptyIsSeq
  <2> QED BY <2>2
<1>2. ASSUME NEW n \in S PROVE n + 1 \in S
  <2> SUFFICES ASSUME NEW x, IsSeq(x), Len(x) = n + 1 PROVE Holds(x)
    OBVIOUS
  <2>0. n \in Nat
    OBVIOUS
  <2>1. PICK y : IsSeq(y) /\ Len(y) = n /\ x = Append(y, x[n + 1])
    BY <2>0, Shortened
  <2>2. Holds(y)
    BY <2>1
  <2> HIDE DEF S
  <2>3. \A j \in 1 .. n : x[j] = y[j]
    BY <2>1, Appended
  <2>4. At(x, P) = IF n + 1 \in P THEN Append(At(y, P), x[n + 1]) ELSE At(y, P)
    <3> DEFINE e == x[n + 1]
    <3>1. At(Append(y, e), P) = IF n + 1 \in P THEN Append(At(y, P), e) ELSE At(y, P)
      <4> HIDE DEF e
      <4> QED BY <2>1, AtAppend
    <3> QED BY <2>1, <3>1
  <2>5. IsSeq(At(y, P))
    BY <2>1, AtIsSeq
  <2> DEFINE p == At(y, P)
             q == At(x, P)
  <2>6. Len(p) \in Nat
    BY <2>5, SeqLength
  <2>7. \A k \in 1 .. Len(p) : \E j \in 1 .. n : j \in P /\ p[k] = x[j]
    BY <2>1, <2>2, <2>3
  <2>8. CASE n + 1 \notin P
    <3>1. q = p
      BY <2>4, <2>8
    <3> HIDE DEF p, q
    <3>2. \A k \in 1 .. Len(q) : \E j \in 1 .. n + 1 : j \in P /\ q[k] = x[j]
      BY <2>0, <2>7, <3>1
    <3> QED BY <2>0, <3>2 DEF q
  <2>9. CASE n + 1 \in P
    <3>1. q = Append(p, x[n + 1])
      BY <2>4, <2>9
    <3>2. IsSeq(p)
      BY <2>5
    <3> HIDE DEF p, q
    <3>3. Len(q) = Len(p) + 1 /\ (\A k \in 1 .. Len(p) : q[k] = p[k]) /\ q[Len(p) + 1] = x[n + 1]
      BY <3>1, <3>2, Appended
    <3>4. ASSUME NEW k \in 1 .. Len(q) PROVE \E j \in 1 .. n + 1 : j \in P /\ q[k] = x[j]
      <4>1. CASE k \in 1 .. Len(p)
        BY <2>0, <2>7, <3>3, <4>1
      <4>2. CASE k = Len(p) + 1
        BY <2>0, <2>9, <3>3, <4>2
      <4> QED BY <2>6, <3>3, <4>1, <4>2 DEF p
    <3> QED BY <3>4 DEF q
  <2> QED BY <2>8, <2>9
<1>3. S = Nat
  <2>1. S \in SUBSET Nat
    OBVIOUS
  <2> HIDE DEF S
  <2> QED BY <1>1, <1>2, <2>1, SetInduction
<1>4. Len(s) \in Nat
  BY SeqLength
<1> QED BY <1>3, <1>4

-----------------------------------------------------------------------------
(* Blocks whose parts are sequences, and what is read of them *)

Texted(bs) == IsSeq(bs) /\ \A k \in 1 .. Len(bs) : IsSeq(bs[k].text)
Types == {"text", "media", "thinking", "tool_use", "tool_result"}
GoodBlock(b) == b.type \in Types /\ IsSeq(b.text) /\ Texted(b.content)
Good(bs) == IsSeq(bs) /\ \A k \in 1 .. Len(bs) : GoodBlock(bs[k])

LEMMA GoodIsTexted == ASSUME NEW bs, Good(bs) PROVE Texted(bs)
BY DEF Good, GoodBlock, Texted

LEMMA JoinedCat ==
    ASSUME NEW s, Texted(s), NEW t, Texted(t)
    PROVE  /\ IsSeq(Joined(s)) /\ IsSeq(Joined(t))
           /\ Joined(Cat(s, t)) = Cat(Joined(s), Joined(t))
<1> USE DEF Cat
<1> DEFINE Texts(x) == [k \in DOMAIN x |-> x[k].text]
           a == Texts(s)
           b == Texts(t)
           c == Texts(s \o t)
<1>1. /\ Len(s) \in Nat /\ DOMAIN s = 1 .. Len(s) /\ Len(t) \in Nat /\ DOMAIN t = 1 .. Len(t)
      /\ IsSeq(s) /\ IsSeq(t)
  BY SeqLength DEF Texted
<1>2. /\ IsSeq(s \o t) /\ Len(s \o t) = Len(s) + Len(t) /\ DOMAIN (s \o t) = 1 .. Len(s) + Len(t)
      /\ \A j \in 1 .. Len(s) : (s \o t)[j] = s[j]
      /\ \A j \in 1 .. Len(t) : (s \o t)[Len(s) + j] = t[j]
  BY <1>1, Concat, SeqLength
<1> DEFINE u == s \o t
<1> HIDE DEF u
<1>3. IsSeq(a) /\ Len(a) = Len(s) /\ \A j \in 1 .. Len(s) : a[j] = s[j].text
  <2>1. a = [k \in 1 .. Len(s) |-> a[k]] /\ \A j \in 1 .. Len(s) : a[j] = s[j].text
    BY <1>1
  <2> HIDE DEF a
  <2> QED BY <1>1, <2>1, FunctionIsSeq
<1>4. IsSeq(b) /\ Len(b) = Len(t) /\ \A j \in 1 .. Len(t) : b[j] = t[j].text
  <2>1. b = [k \in 1 .. Len(t) |-> b[k]] /\ \A j \in 1 .. Len(t) : b[j] = t[j].text
    BY <1>1
  <2> HIDE DEF b
  <2> QED BY <1>1, <2>1, FunctionIsSeq
<1>5. IsSeq(c) /\ Len(c) = Len(s) + Len(t) /\ \A j \in 1 .. Len(s) + Len(t) : c[j] = u[j].text
  <2>1. c = [k \in 1 .. Len(s) + Len(t) |-> c[k]]
        /\ \A j \in 1 .. Len(s) + Len(t) : c[j] = u[j].text
    BY <1>2 DEF u
  <2> HIDE DEF c
  <2>2. Len(s) + Len(t) \in Nat
    BY <1>1
  <2> QED BY <2>1, <2>2, FunctionIsSeq
<1>6. c = a \o b
  <2> HIDE DEF a, b, c
  <2>1. \A j \in 1 .. Len(s) : c[j] = a[j]
    BY <1>1, <1>2, <1>3, <1>5 DEF u
  <2>2. \A j \in 1 .. Len(t) : c[Len(s) + j] = b[j]
    BY <1>1, <1>2, <1>4, <1>5 DEF u
  <2>3. /\ Len(c) = Len(a) + Len(b)
        /\ \A j \in 1 .. Len(a) : c[j] = a[j]
        /\ \A j \in 1 .. Len(b) : c[Len(a) + j] = b[j]
    BY <1>3, <1>4, <1>5, <2>1, <2>2
  <2>4. IsSeq(a) /\ IsSeq(b) /\ IsSeq(c)
    BY <1>3, <1>4, <1>5
  <2> QED BY <2>3, <2>4, Joint
<1>7. IsSeqs(a) /\ IsSeqs(b)
  <2> HIDE DEF a, b
  <2> QED BY <1>3, <1>4 DEF IsSeqs, Texted
<1> HIDE DEF a, b, c
<1>8. /\ IsSeq(FlattenSeq(a)) /\ IsSeq(FlattenSeq(b))
      /\ FlattenSeq(c) = FlattenSeq(a) \o FlattenSeq(b)
  BY <1>6, <1>7, FlatConcat, FlatIsSeq
<1> QED BY <1>8 DEF Joined, a, b, c

LEMMA EmptyJoined == Joined(<<>>) = <<>>
<1>1. [k \in DOMAIN <<>> |-> <<>>[k].text] = <<>>
  OBVIOUS
<1> QED BY <1>1, FlatEmpty DEF Joined

LEMMA OneJoined == ASSUME NEW b, IsSeq(b.text) PROVE Joined(<<b>>) = b.text
<1>1. [k \in DOMAIN <<b>> |-> <<b>>[k].text] = <<b.text>>
  OBVIOUS
<1>2. Joined(<<b>>) = FlattenSeq([k \in DOMAIN <<b>> |-> <<b>>[k].text])
  BY DEF Joined
<1> QED BY <1>1, <1>2, FlatOne

LEMMA PickIsTexted ==
    ASSUME NEW s, Texted(s), NEW type
    PROVE  Texted(OfType(s, type)) /\ Texted(Without(s, type))
<1>1. ASSUME NEW P PROVE Texted(At(s, P))
  <2>1. IsSeq(At(s, P))
    BY AtIsSeq DEF Texted
  <2>2. \A k \in 1 .. Len(At(s, P)) : \E j \in 1 .. Len(s) : At(s, P)[k] = s[j]
    BY AtElements DEF Texted
  <2> QED BY <2>1, <2>2 DEF Texted
<1> QED BY <1>1 DEF OfType, Without

LEMMA TextedCat == ASSUME NEW s, Texted(s), NEW t, Texted(t) PROVE Texted(Cat(s, t))
<1> USE DEF Cat
<1> DEFINE u == s \o t
           m == Len(s)
           n == Len(t)
<1>1. /\ IsSeq(u) /\ Len(u) = m + n
      /\ \A j \in 1 .. m : u[j] = s[j]
      /\ \A j \in 1 .. n : u[m + j] = t[j]
  BY Concat DEF Texted
<1>2. m \in Nat /\ n \in Nat
  BY SeqLength DEF Texted
<1> HIDE DEF u
<1>3. ASSUME NEW j \in 1 .. m + n PROVE IsSeq(u[j].text)
  <2>1. CASE j \in 1 .. m
    BY <2>1, <1>1 DEF Texted
  <2>2. CASE j \notin 1 .. m
    <3>1. j - m \in 1 .. n /\ m + (j - m) = j
      BY <2>2, <1>2
    <3> QED BY <3>1, <1>1 DEF Texted
  <2> QED BY <2>1, <2>2
<1> QED BY <1>1, <1>3 DEF Texted, u

LEMMA TextOfCat ==
    ASSUME NEW s, Texted(s), NEW t, Texted(t)
    PROVE  /\ IsSeq(TextOf(s)) /\ IsSeq(TextOf(t))
           /\ TextOf(Cat(s, t)) = Cat(TextOf(s), TextOf(t))
<1> USE DEF Cat
<1>1. OfType(s \o t, "text") = OfType(s, "text") \o OfType(t, "text")
  BY OfTypeCat DEF Texted
<1>2. Texted(OfType(s, "text")) /\ Texted(OfType(t, "text"))
  BY PickIsTexted
<1> QED BY <1>1, <1>2, JoinedCat DEF TextOf

LEMMA GoodCat == ASSUME NEW s, Good(s), NEW t, Good(t) PROVE Good(Cat(s, t))
<1> USE DEF Cat
<1> DEFINE u == s \o t
           m == Len(s)
           n == Len(t)
<1>1. /\ IsSeq(u) /\ Len(u) = m + n
      /\ \A j \in 1 .. m : u[j] = s[j]
      /\ \A j \in 1 .. n : u[m + j] = t[j]
  BY Concat DEF Good
<1>2. m \in Nat /\ n \in Nat
  BY SeqLength DEF Good
<1> HIDE DEF u
<1>3. ASSUME NEW j \in 1 .. m + n PROVE GoodBlock(u[j])
  <2>1. CASE j \in 1 .. m
    BY <2>1, <1>1 DEF Good
  <2>2. CASE j \notin 1 .. m
    <3>1. j - m \in 1 .. n /\ m + (j - m) = j
      BY <2>2, <1>2
    <3> QED BY <3>1, <1>1 DEF Good
  <2> QED BY <2>1, <2>2
<1> QED BY <1>1, <1>3 DEF Good, u

LEMMA OneGood == ASSUME NEW b, GoodBlock(b) PROVE Good(<<b>>)
<1> DEFINE s == <<b>>
<1>1. IsSeq(s) /\ Len(s) = 1 /\ s[1] = b
  BY One
<1> HIDE DEF s
<1>2. Good(s)
  BY <1>1 DEF Good
<1> QED BY <1>2 DEF s

LEMMA EmptyGood == Good(<<>>) /\ Texted(<<>>)
BY EmptyIsSeq DEF Good, Texted

LEMMA PickIsGood ==
    ASSUME NEW s, Good(s), NEW type
    PROVE  Good(OfType(s, type)) /\ Good(Without(s, type))
<1>1. ASSUME NEW P PROVE Good(At(s, P))
  <2>1. IsSeq(At(s, P))
    BY AtIsSeq DEF Good
  <2>2. \A k \in 1 .. Len(At(s, P)) : \E j \in 1 .. Len(s) : At(s, P)[k] = s[j]
    BY AtElements DEF Good
  <2> QED BY <2>1, <2>2 DEF Good
<1> QED BY <1>1 DEF OfType, Without

LEMMA PiecesAre ==
    ASSUME NEW kind, NEW id, NEW t, IsSeq(t)
    PROVE  /\ IsSeq(Pieces(kind, id, t)) /\ Len(Pieces(kind, id, t)) = Len(t)
           /\ \A k \in 1 .. Len(t) : Pieces(kind, id, t)[k] = Piece(kind, id, t[k])
<1> DEFINE p == Pieces(kind, id, t)
<1>1. Len(t) \in Nat /\ DOMAIN t = 1 .. Len(t)
  BY SeqLength
<1>2. p = [k \in 1 .. Len(t) |-> p[k]] /\ \A k \in 1 .. Len(t) : p[k] = Piece(kind, id, t[k])
  BY <1>1 DEF Pieces
<1> HIDE DEF p
<1>3. IsSeq(p) /\ Len(p) = Len(t)
  BY <1>1, <1>2, FunctionIsSeq
<1> QED BY <1>2, <1>3 DEF p

LEMMA PiecesCat ==
    ASSUME NEW kind, NEW id, NEW s, IsSeq(s), NEW t, IsSeq(t)
    PROVE  Pieces(kind, id, Cat(s, t)) = Cat(Pieces(kind, id, s), Pieces(kind, id, t))
<1> USE DEF Cat
<1> DEFINE a == Pieces(kind, id, s)
           b == Pieces(kind, id, t)
           u == s \o t
           c == Pieces(kind, id, u)
<1>1. /\ IsSeq(u) /\ Len(u) = Len(s) + Len(t)
      /\ \A j \in 1 .. Len(s) : u[j] = s[j]
      /\ \A j \in 1 .. Len(t) : u[Len(s) + j] = t[j]
      /\ Len(s) \in Nat /\ Len(t) \in Nat
  BY Concat, SeqLength
<1> HIDE DEF u
<1>2. IsSeq(a) /\ Len(a) = Len(s) /\ \A j \in 1 .. Len(s) : a[j] = Piece(kind, id, s[j])
  BY PiecesAre
<1>3. IsSeq(b) /\ Len(b) = Len(t) /\ \A j \in 1 .. Len(t) : b[j] = Piece(kind, id, t[j])
  BY PiecesAre
<1>4. IsSeq(c) /\ Len(c) = Len(u) /\ \A j \in 1 .. Len(u) : c[j] = Piece(kind, id, u[j])
  BY <1>1, PiecesAre
<1> HIDE DEF a, b, c
<1>5. Len(c) = Len(a) + Len(b)
  BY <1>1, <1>2, <1>3, <1>4
<1>6. \A j \in 1 .. Len(a) : c[j] = a[j]
  BY <1>1, <1>2, <1>4
<1>7. \A j \in 1 .. Len(b) : c[Len(a) + j] = b[j]
  BY <1>1, <1>2, <1>3, <1>4
<1>8. IsSeq(a) /\ IsSeq(b) /\ IsSeq(c)
  BY <1>2, <1>3, <1>4
<1>9. c = a \o b
  <2>1. Joins(c, a, b)
    BY <1>5, <1>6, <1>7, <1>8 DEF Joins
  <2> QED BY <1>8, <2>1, Joining
<1> QED BY <1>9 DEF a, b, c, u

LEMMA EmptyPieces == ASSUME NEW kind, NEW id PROVE Pieces(kind, id, <<>>) = <<>>
BY DEF Pieces

LEMMA OfBlock ==
    ASSUME NEW ends, NEW role, NEW b, GoodBlock(b)
    PROVE  /\ IsSeq(BlockPieces(ends, role, b))
           /\ b.type \in {"text", "media"} => BlockPieces(ends, role, b) = Pieces(role, NoId, b.text)
           /\ b.type = "thinking" => BlockPieces(ends, role, b) = Pieces("thinking", NoId, b.text)
           /\ b.type = "tool_use" => BlockPieces(ends, role, b) =
                 <<Piece("call", b.id, Phrase(Args(ends, b.args), 0))>>
           /\ b.type = "tool_result" => BlockPieces(ends, role, b) =
                 Cat(<<Piece("result", b.id, Phrase("starts", 0))>>,
                     Pieces("result", b.id, Joined(b.content)))
<1> USE DEF Cat
<1>1. IsSeq(Pieces(role, NoId, b.text)) /\ IsSeq(Pieces("thinking", NoId, b.text))
  BY PiecesAre DEF GoodBlock
<1>2. IsSeq(Joined(b.content))
  BY JoinedCat DEF GoodBlock
<1>3. IsSeq(Pieces("result", b.id, Joined(b.content)))
  BY <1>2, PiecesAre
<1>4. IsSeq(<<Piece("result", b.id, Phrase("starts", 0))>>)
  BY One
<1>5. IsSeq(<<Piece("result", b.id, Phrase("starts", 0))>>
            \o Pieces("result", b.id, Joined(b.content)))
  BY <1>3, <1>4, Concat
<1>6. IsSeq(<<Piece("call", b.id, Phrase(Args(ends, b.args), 0))>>)
  BY One
<1>7. CASE b.type \in {"text", "media"}
  BY <1>1, <1>7 DEF BlockPieces
<1>8. CASE b.type = "thinking"
  BY <1>1, <1>8 DEF BlockPieces
<1>9. CASE b.type = "tool_use"
  BY <1>6, <1>9 DEF BlockPieces
<1>10. CASE b.type = "tool_result"
  BY <1>5, <1>10 DEF BlockPieces
<1> QED BY <1>7, <1>8, <1>9, <1>10 DEF GoodBlock, Types

ReadParts(ends, role, bs) == [k \in DOMAIN bs |-> BlockPieces(ends, role, bs[k])]

LEMMA ReadPartsAre ==
    ASSUME NEW ends, NEW role, NEW bs, Good(bs)
    PROVE  /\ IsSeqs(ReadParts(ends, role, bs)) /\ Len(ReadParts(ends, role, bs)) = Len(bs)
           /\ \A k \in 1 .. Len(bs) : ReadParts(ends, role, bs)[k] = BlockPieces(ends, role, bs[k])
<1> DEFINE a == ReadParts(ends, role, bs)
<1>1. IsSeq(bs) /\ Len(bs) \in Nat /\ DOMAIN bs = 1 .. Len(bs)
  BY SeqLength DEF Good
<1>2. a = [k \in 1 .. Len(bs) |-> a[k]]
      /\ \A k \in 1 .. Len(bs) : a[k] = BlockPieces(ends, role, bs[k])
  BY <1>1 DEF ReadParts
<1> HIDE DEF a
<1>3. IsSeq(a) /\ Len(a) = Len(bs)
  BY <1>1, <1>2, FunctionIsSeq
<1>4. IsSeqs(a)
  <2>1. \A k \in 1 .. Len(bs) : IsSeq(BlockPieces(ends, role, bs[k]))
    BY OfBlock DEF Good
  <2> QED BY <1>2, <1>3, <2>1 DEF IsSeqs
<1> QED BY <1>2, <1>3, <1>4 DEF a

LEMMA ReadCat ==
    ASSUME NEW ends, NEW role, NEW s, Good(s), NEW t, Good(t)
    PROVE  Read(ends, role, Cat(s, t)) = Cat(Read(ends, role, s), Read(ends, role, t))
<1> USE DEF Cat
<1> DEFINE u == s \o t
           a == ReadParts(ends, role, s)
           b == ReadParts(ends, role, t)
           c == ReadParts(ends, role, u)
<1>1. /\ IsSeq(u) /\ Len(u) = Len(s) + Len(t) /\ Good(u)
      /\ \A j \in 1 .. Len(s) : u[j] = s[j]
      /\ \A j \in 1 .. Len(t) : u[Len(s) + j] = t[j]
      /\ Len(s) \in Nat /\ Len(t) \in Nat
  <2>1. IsSeq(s) /\ IsSeq(t) /\ Good(u)
    BY GoodCat DEF Good
  <2>2. Joins(u, s, t)
    BY <2>1, JoinsUp
  <2>3. Len(s) \in Nat /\ Len(t) \in Nat
    BY <2>1, SeqLength
  <2> HIDE DEF u
  <2> QED BY <2>1, <2>2, <2>3 DEF Joins
<1> HIDE DEF u
<1>2. IsSeqs(a) /\ Len(a) = Len(s) /\ \A j \in 1 .. Len(s) : a[j] = BlockPieces(ends, role, s[j])
  BY ReadPartsAre
<1>3. IsSeqs(b) /\ Len(b) = Len(t) /\ \A j \in 1 .. Len(t) : b[j] = BlockPieces(ends, role, t[j])
  BY ReadPartsAre
<1>4. IsSeqs(c) /\ Len(c) = Len(u) /\ \A j \in 1 .. Len(u) : c[j] = BlockPieces(ends, role, u[j])
  BY <1>1, ReadPartsAre
<1> HIDE DEF a, b, c
<1>5. Len(c) = Len(a) + Len(b)
  BY <1>1, <1>2, <1>3, <1>4
<1>6. \A j \in 1 .. Len(a) : c[j] = a[j]
  BY <1>1, <1>2, <1>4
<1>7. \A j \in 1 .. Len(b) : c[Len(a) + j] = b[j]
  BY <1>1, <1>2, <1>3, <1>4
<1>8. IsSeq(a) /\ IsSeq(b) /\ IsSeq(c)
  BY <1>2, <1>3, <1>4 DEF IsSeqs
<1>9. c = a \o b
  <2>1. Joins(c, a, b)
    BY <1>5, <1>6, <1>7, <1>8 DEF Joins
  <2> QED BY <1>8, <2>1, Joining
<1>10. FlattenSeq(c) = FlattenSeq(a) \o FlattenSeq(b)
  BY <1>2, <1>3, <1>9, FlatConcat
<1> QED BY <1>10 DEF Read, ReadParts, a, b, c, u

LEMMA ReadIsSeq == ASSUME NEW ends, NEW role, NEW s, Good(s) PROVE IsSeq(Read(ends, role, s))
<1>1. IsSeq(FlattenSeq(ReadParts(ends, role, s)))
  BY ReadPartsAre, FlatIsSeq
<1> QED BY <1>1 DEF Read, ReadParts

LEMMA EmptyRead == ASSUME NEW ends, NEW role PROVE Read(ends, role, <<>>) = <<>>
<1>1. [k \in DOMAIN <<>> |-> BlockPieces(ends, role, <<>>[k])] = <<>>
  OBVIOUS
<1> QED BY <1>1, FlatEmpty DEF Read

LEMMA OneRead ==
    ASSUME NEW ends, NEW role, NEW b, GoodBlock(b)
    PROVE  Read(ends, role, <<b>>) = BlockPieces(ends, role, b)
<1>1. [k \in DOMAIN <<b>> |-> BlockPieces(ends, role, <<b>>[k])] = <<BlockPieces(ends, role, b)>>
  OBVIOUS
<1>2. Read(ends, role, <<b>>) = FlattenSeq([k \in DOMAIN <<b>> |-> BlockPieces(ends, role, <<b>>[k])])
  BY DEF Read
<1>3. IsSeq(BlockPieces(ends, role, b))
  BY OfBlock
<1> QED BY <1>1, <1>2, <1>3, FlatOne

-----------------------------------------------------------------------------
(* Answers, as they are given and as a client knows them *)

IsCalls(cs) == IsSeq(cs) /\ \A k \in 1 .. Len(cs) : cs[k] = Call(cs[k].id, cs[k].args)
IsWords(bs) == bs = <<>> \/ \E t : IsSeq(t) /\ t # <<>> /\ bs = <<Text(t)>>
IsUses(bs)  == IsSeq(bs) /\ \A k \in 1 .. Len(bs) : bs[k] = ToolUse(bs[k].id, bs[k].args)

IsAnswer(e) ==
    /\ e = Entry("assistant", e.thinking, e.content, e.calls, NoId, e.finish)
    /\ IsSeq(e.thinking) /\ IsWords(e.content) /\ IsCalls(e.calls)
    /\ e.thinking # <<>> \/ e.content # <<>> \/ e.calls # <<>>
    /\ e.finish \in {"stop", "tool_calls", "length"}
    /\ e.finish # "length" => e.finish = IF e.calls = <<>> THEN "stop" ELSE "tool_calls"

KnownArgs(c, a) == CASE c = "chat"      -> a
                     [] c = "responses" -> AsText(a)
                     [] c = "anthropic" -> AsObject(a)
KnownCalls(c, calls) ==
    [k \in DOMAIN calls |-> Call(calls[k].id, KnownArgs(c, calls[k].args))]
Known(c, e) ==
    Entry("assistant", e.thinking, IF c = "chat" /\ e.calls # <<>> THEN <<>> ELSE e.content,
          KnownCalls(c, e.calls), NoId,
          IF c # "responses" THEN e.finish
          ELSE IF e.calls = <<>> THEN "stop" ELSE "tool_calls")

\* A list made of calls one by one
LEMMA CallsMapped ==
    ASSUME NEW cs, IsSeq(cs), NEW f, f = [k \in DOMAIN cs |-> f[k]]
    PROVE  /\ IsSeq(f) /\ Len(f) = Len(cs) /\ DOMAIN f = DOMAIN cs
           /\ f = <<>> <=> cs = <<>>
<1>1. Len(cs) \in Nat /\ DOMAIN cs = 1 .. Len(cs)
  BY SeqLength
<1>2. f = [k \in 1 .. Len(cs) |-> f[k]]
  BY <1>1
<1>3. IsSeq(f) /\ Len(f) = Len(cs)
  BY <1>1, <1>2, FunctionIsSeq
<1>4. DOMAIN f = DOMAIN cs
  BY <1>1, <1>3, SeqLength
<1> QED BY <1>3, <1>4, EmptySeqLength

LEMMA UsesAre ==
    ASSUME NEW cs, IsCalls(cs)
    PROVE  /\ IsUses(Uses(cs)) /\ Len(Uses(cs)) = Len(cs) /\ DOMAIN Uses(cs) = DOMAIN cs
           /\ Uses(cs) = <<>> <=> cs = <<>>
           /\ \A k \in DOMAIN cs : Uses(cs)[k] = ToolUse(cs[k].id, cs[k].args)
<1> DEFINE u == Uses(cs)
<1>1. u = [k \in DOMAIN cs |-> u[k]] /\ \A k \in DOMAIN cs : u[k] = ToolUse(cs[k].id, cs[k].args)
  BY DEF Uses
<1> HIDE DEF u
<1>2. IsSeq(cs) /\ Len(cs) \in Nat /\ DOMAIN cs = 1 .. Len(cs)
  BY SeqLength DEF IsCalls
<1>3. IsSeq(u) /\ Len(u) = Len(cs) /\ DOMAIN u = DOMAIN cs /\ (u = <<>> <=> cs = <<>>)
  BY <1>1, <1>2, CallsMapped
<1>4. \A k \in 1 .. Len(u) : u[k] = ToolUse(u[k].id, u[k].args)
  BY <1>1, <1>2, <1>3 DEF ToolUse, Block
<1>5. IsUses(u)
  BY <1>3, <1>4 DEF IsUses
<1> QED BY <1>1, <1>3, <1>5 DEF u

LEMMA OfUses ==
    ASSUME NEW u, IsUses(u)
    PROVE  /\ OfType(u, "tool_use") = u /\ Without(u, "tool_use") = <<>> /\ IsSeq(u)
           /\ \A type \in {"text", "media", "thinking", "tool_result"} :
                 OfType(u, type) = <<>> /\ Without(u, type) = u
<1>0. ASSUME NEW k \in 1 .. Len(u) PROVE u[k].type = "tool_use"
  <2> DEFINE b == u[k]
  <2>1. b = ToolUse(b.id, b.args)
    BY DEF IsUses
  <2> HIDE DEF b
  <2>2. b.type = "tool_use"
    BY <2>1 DEF ToolUse, Block
  <2> QED BY <2>2 DEF b
<1>1. IsSeq(u) /\ \A k \in 1 .. Len(u) : u[k].type = "tool_use"
  BY <1>0 DEF IsUses
<1>2. OfType(u, "tool_use") = u /\ Without(u, "tool_use") = <<>>
  BY <1>1, AllOfType
<1>3. ASSUME NEW type \in {"text", "media", "thinking", "tool_result"}
      PROVE  OfType(u, type) = <<>> /\ Without(u, type) = u
  <2>1. \A k \in 1 .. Len(u) : u[k].type # type
    BY <1>1
  <2> QED BY <1>1, <2>1, NoneOfType
<1> QED BY <1>1, <1>2, <1>3

LEMMA OfThought ==
    ASSUME NEW t, IsSeq(t)
    PROVE  /\ IsSeq(Thought(t)) /\ Joined(Thought(t)) = t
           /\ OfType(Thought(t), "thinking") = Thought(t) /\ Without(Thought(t), "thinking") = <<>>
           /\ \A type \in {"text", "media", "tool_use", "tool_result"} :
                 OfType(Thought(t), type) = <<>> /\ Without(Thought(t), type) = Thought(t)
<1>1. CASE t = <<>>
  BY <1>1, EmptyIsSeq, EmptyJoined, EmptyOfType DEF Thought
<1>2. CASE t # <<>>
  <2> DEFINE b == Thinking(t)
  <2>1. Thought(t) = <<b>> /\ b.type = "thinking" /\ b.text = t
    BY <1>2 DEF Thought, Thinking, Block
  <2> HIDE DEF b
  <2>2. IsSeq(<<b>>)
    BY One
  <2>3. Joined(<<b>>) = t
    BY <2>1, OneJoined
  <2> QED BY <2>1, <2>2, <2>3, OneOfType
<1> QED BY <1>1, <1>2

LEMMA OfWords ==
    ASSUME NEW c, IsWords(c)
    PROVE  /\ IsSeq(c) /\ IsSeq(TextOf(c)) /\ NonEmpty(TextOf(c)) = c
           /\ OfType(c, "text") = c /\ Without(c, "text") = <<>>
           /\ \A type \in {"thinking", "media", "tool_use", "tool_result"} :
                 OfType(c, type) = <<>> /\ Without(c, type) = c
<1>1. CASE c = <<>>
  BY <1>1, EmptyIsSeq, EmptyJoined, EmptyOfType DEF TextOf, NonEmpty
<1>2. CASE c # <<>>
  <2>1. PICK t : IsSeq(t) /\ t # <<>> /\ c = <<Text(t)>>
    BY <1>2 DEF IsWords
  <2> DEFINE b == Text(t)
  <2>2. c = <<b>> /\ b.type = "text" /\ b.text = t
    BY <2>1 DEF Text, Block
  <2> HIDE DEF b
  <2>3. OfType(<<b>>, "text") = <<b>> /\ Without(<<b>>, "text") = <<>>
    BY <2>2, OneOfType
  <2>4. \A type \in {"thinking", "media", "tool_use", "tool_result"} :
           OfType(<<b>>, type) = <<>> /\ Without(<<b>>, type) = <<b>>
    BY <2>2, OneOfType
  <2>5. TextOf(<<b>>) = t
    BY <2>1, <2>2, <2>3, OneJoined DEF TextOf
  <2>6. NonEmpty(t) = <<b>>
    BY <2>1 DEF NonEmpty, b
  <2> QED BY <2>1, <2>2, <2>3, <2>4, <2>5, <2>6, One
<1> QED BY <1>1, <1>2

LEMMA OfThree ==
    ASSUME NEW h, IsSeq(h), NEW c, IsSeq(c), NEW u, IsSeq(u), NEW type
    PROVE  OfType(Cat(Cat(h, c), u), type)
           = Cat(Cat(OfType(h, type), OfType(c, type)), OfType(u, type))
BY CatIsSeq, OfTypeCat

\* Blocks of an answer: thinking, words, tool calls
LEMMA OfAnswer ==
    ASSUME NEW t, IsSeq(t), NEW c, IsWords(c), NEW u, IsUses(u)
    PROVE  LET bs == Cat(Cat(Thought(t), c), u)
           IN  /\ IsSeq(bs) /\ OfType(bs, "thinking") = Thought(t) /\ OfType(bs, "text") = c
               /\ OfType(bs, "tool_use") = u
               /\ OfType(bs, "media") = <<>> /\ OfType(bs, "tool_result") = <<>>
<1>1. /\ IsSeq(Thought(t)) /\ OfType(Thought(t), "thinking") = Thought(t)
      /\ \A type \in {"text", "media", "tool_use", "tool_result"} : OfType(Thought(t), type) = <<>>
  BY OfThought
<1>2. /\ IsSeq(c) /\ OfType(c, "text") = c
      /\ \A type \in {"thinking", "media", "tool_use", "tool_result"} : OfType(c, type) = <<>>
  BY OfWords
<1>3. /\ IsSeq(u) /\ OfType(u, "tool_use") = u
      /\ \A type \in {"text", "media", "thinking", "tool_result"} : OfType(u, type) = <<>>
  BY OfUses
<1> DEFINE h == Thought(t)
           bs == Cat(Cat(h, c), u)
<1> HIDE DEF h
<1>4. IsSeq(h) /\ IsSeq(Cat(h, c)) /\ IsSeq(bs) /\ IsSeq(c) /\ IsSeq(u)
  BY <1>1, <1>2, <1>3, CatIsSeq DEF h
<1>5. ASSUME NEW type
      PROVE  OfType(bs, type) = Cat(Cat(OfType(h, type), OfType(c, type)), OfType(u, type))
  BY <1>4, OfThree
<1> HIDE DEF bs
<1>6. OfType(bs, "thinking") = h
  <2>1. OfType(bs, "thinking") = Cat(Cat(h, <<>>), <<>>)
    BY <1>1, <1>2, <1>3, <1>5 DEF h
  <2> QED BY <1>4, <2>1, CatEmpty
<1>7. OfType(bs, "text") = c
  <2>1. OfType(bs, "text") = Cat(Cat(<<>>, c), <<>>)
    BY <1>1, <1>2, <1>3, <1>5 DEF h
  <2> QED BY <1>2, <2>1, CatEmpty
<1>8. OfType(bs, "tool_use") = u
  <2>1. OfType(bs, "tool_use") = Cat(Cat(<<>>, <<>>), u)
    BY <1>1, <1>2, <1>3, <1>5 DEF h
  <2> QED BY <1>3, <2>1, CatEmpty, EmptyIsSeq
<1>9. OfType(bs, "media") = <<>> /\ OfType(bs, "tool_result") = <<>>
  <2>1. OfType(bs, "media") = Cat(Cat(<<>>, <<>>), <<>>) /\ OfType(bs, "tool_result") = Cat(Cat(<<>>, <<>>), <<>>)
    BY <1>1, <1>2, <1>3, <1>5 DEF h
  <2> QED BY <2>1, CatEmpty, EmptyIsSeq
<1> QED BY <1>4, <1>6, <1>7, <1>8, <1>9 DEF bs, h

ReasoningItem(t)  == IF t = <<>> THEN <<>> ELSE <<Item("reasoning", "", <<Text(t)>>, NoId, "")>>
MessageItem(c)    == <<Item("message", "assistant", c, NoId, "")>>
ContentOf(items)  == MapFlat(LAMBDA i : i.content, items)

LEMMA ContentOfOne ==
    /\ ContentOf(<<>>) = <<>>
    /\ \A i : IsSeq(i.content) => ContentOf(<<i>>) = i.content
<1>1. [k \in DOMAIN <<>> |-> <<>>[k].content] = <<>>
  OBVIOUS
<1>2. ContentOf(<<>>) = <<>>
  BY <1>1, FlatEmpty DEF ContentOf, MapFlat
<1>3. ASSUME NEW i, IsSeq(i.content) PROVE ContentOf(<<i>>) = i.content
  <2>1. [k \in DOMAIN <<i>> |-> <<i>>[k].content] = <<i.content>>
    OBVIOUS
  <2>2. ContentOf(<<i>>) = FlattenSeq([k \in DOMAIN <<i>> |-> <<i>>[k].content])
    BY DEF ContentOf, MapFlat
  <2>3. FlattenSeq(<<i.content>>) = i.content
    BY <1>3, FlatOne
  <2> QED BY <2>1, <2>2, <2>3
<1> QED BY <1>2, <1>3

\* Items of an answer: reasoning, a message, tool calls
LEMMA OfItems ==
    ASSUME NEW t, IsSeq(t), NEW c, IsWords(c), NEW m, m = MessageItem(c) \/ (m = <<>> /\ c = <<>>),
           NEW f, IsSeq(f), \A k \in 1 .. Len(f) : f[k].type = "function_call"
    PROVE  LET items == Cat(Cat(ReasoningItem(t), m), f)
           IN  /\ OfType(items, "function_call") = f
               /\ ContentOf(OfType(items, "message")) = c
               /\ Joined(ContentOf(OfType(items, "reasoning"))) = t
<1> DEFINE h == ReasoningItem(t)
           items == Cat(Cat(h, m), f)
<1>1. /\ IsSeq(h) /\ OfType(h, "reasoning") = h
      /\ OfType(h, "message") = <<>> /\ OfType(h, "function_call") = <<>>
      /\ Joined(ContentOf(h)) = t
  <2>1. CASE t = <<>>
    <3>1. h = <<>>
      BY <2>1 DEF ReasoningItem
    <3> HIDE DEF h
    <3> QED BY <2>1, <3>1, EmptyIsSeq, EmptyOfType, EmptyJoined, ContentOfOne
  <2>2. CASE t # <<>>
    <3> DEFINE i == Item("reasoning", "", <<Text(t)>>, NoId, "")
               b == Text(t)
    <3>1. h = <<i>> /\ i.type = "reasoning" /\ i.content = <<b>> /\ b.text = t
      BY <2>2 DEF ReasoningItem, Item, Text, Block
    <3> HIDE DEF h, i, b
    <3>2. IsSeq(<<i>>) /\ IsSeq(<<b>>)
      BY One
    <3>3. ContentOf(<<i>>) = <<b>>
      BY <3>1, <3>2, ContentOfOne
    <3>4. Joined(<<b>>) = t
      BY <3>1, OneJoined
    <3>5. OfType(<<i>>, "reasoning") = <<i>> /\ OfType(<<i>>, "message") = <<>>
          /\ OfType(<<i>>, "function_call") = <<>>
      BY <3>1, OneOfType
    <3> QED BY <3>1, <3>2, <3>3, <3>4, <3>5
  <2> QED BY <2>1, <2>2
<1>2. /\ IsSeq(m) /\ OfType(m, "message") = m
      /\ OfType(m, "reasoning") = <<>> /\ OfType(m, "function_call") = <<>>
      /\ ContentOf(m) = c
  <2>1. CASE m = <<>> /\ c = <<>>
    BY <2>1, EmptyIsSeq, EmptyOfType, ContentOfOne
  <2>2. CASE m = MessageItem(c)
    <3> DEFINE i == Item("message", "assistant", c, NoId, "")
    <3>1. m = <<i>> /\ i.type = "message" /\ i.content = c
      BY <2>2 DEF MessageItem, Item
    <3> HIDE DEF i
    <3>2. IsSeq(<<i>>) /\ IsSeq(c)
      BY One, OfWords
    <3>3. ContentOf(<<i>>) = c
      BY <3>1, <3>2, ContentOfOne
    <3>5. OfType(<<i>>, "message") = <<i>> /\ OfType(<<i>>, "reasoning") = <<>>
          /\ OfType(<<i>>, "function_call") = <<>>
      BY <3>1, OneOfType
    <3> QED BY <3>1, <3>2, <3>3, <3>5
  <2> QED BY <2>1, <2>2
<1>3. OfType(f, "function_call") = f
  BY AllOfType
<1>4. OfType(f, "message") = <<>> /\ OfType(f, "reasoning") = <<>>
  <2>1. (\A k \in 1 .. Len(f) : f[k].type # "message")
        /\ \A k \in 1 .. Len(f) : f[k].type # "reasoning"
    OBVIOUS
  <2> QED BY <2>1, NoneOfType
<1> HIDE DEF h
<1>5. IsSeq(h) /\ IsSeq(m) /\ IsSeq(f)
  BY <1>1, <1>2
<1>6. ASSUME NEW type
      PROVE  OfType(items, type) = Cat(Cat(OfType(h, type), OfType(m, type)), OfType(f, type))
  BY <1>5, OfThree
<1> HIDE DEF items
<1>7. OfType(items, "function_call") = f
  <2>1. OfType(items, "function_call") = Cat(Cat(<<>>, <<>>), f)
    BY <1>1, <1>2, <1>3, <1>6
  <2> QED BY <1>5, <2>1, CatEmpty, EmptyIsSeq
<1>8. OfType(items, "message") = m
  <2>1. OfType(items, "message") = Cat(Cat(<<>>, m), <<>>)
    BY <1>1, <1>2, <1>4, <1>6
  <2> QED BY <1>5, <2>1, CatEmpty
<1>9. OfType(items, "reasoning") = h
  <2>1. OfType(items, "reasoning") = Cat(Cat(h, <<>>), <<>>)
    BY <1>1, <1>2, <1>4, <1>6
  <2> QED BY <1>5, <2>1, CatEmpty
<1> QED BY <1>1, <1>2, <1>7, <1>8, <1>9 DEF items, h

LEMMA SameCalls ==
    ASSUME NEW cs, IsCalls(cs)
    PROVE  [k \in DOMAIN cs |-> Call(cs[k].id, cs[k].args)] = cs
<1> DEFINE f == [k \in DOMAIN cs |-> Call(cs[k].id, cs[k].args)]
<1>1. Len(cs) \in Nat /\ DOMAIN cs = 1 .. Len(cs)
  BY SeqLength DEF IsCalls
<1>2. f = [k \in DOMAIN cs |-> f[k]] /\ \A k \in 1 .. Len(cs) : f[k] = cs[k]
  BY <1>1 DEF IsCalls
<1> HIDE DEF f
<1>3. IsSeq(f) /\ Len(f) = Len(cs)
  BY <1>2, CallsMapped DEF IsCalls
<1>4. IsSeq(cs)
  BY DEF IsCalls
<1>5. f = cs
  BY <1>1, <1>2, <1>3, <1>4, SameSeq
<1> QED BY <1>5 DEF f

\* What the gateway makes of an answer of the upstream
LEMMA AnswerParsed ==
    ASSUME NEW e, IsAnswer(e), NEW u \in Protocol
    PROVE  LET c == ParseAnswer(u, Replied(u, e))
           IN  /\ c.text = TextOf(e.content) /\ c.reasoning = e.thinking
               /\ c.calls = e.calls /\ c.finish = e.finish
<1> DEFINE a == Replied(u, e)
           c == ParseAnswer(u, a)
<1>1. /\ IsSeq(e.thinking) /\ IsWords(e.content) /\ IsCalls(e.calls) /\ e.role = "assistant"
      /\ e.finish \in {"stop", "tool_calls", "length"}
      /\ e.finish # "length" => e.finish = IF e.calls = <<>> THEN "stop" ELSE "tool_calls"
  <2>1. e.role = "assistant"
    BY DEF IsAnswer, Entry
  <2> QED BY <2>1 DEF IsAnswer
<1>2. CASE u = "chat"
  BY <1>2 DEF ParseAnswer, ParseChatAnswer, Replied, Choice
<1>3. CASE u = "anthropic"
  <2> DEFINE bs   == Cat(Cat(Thought(e.thinking), e.content), Uses(e.calls))
             uses == Uses(e.calls)
  <2>1. a.content = bs /\ a.stop = FinishToStop(e.finish)
    BY <1>1, <1>3 DEF Replied, EntryBlocks, Cat
  <2>2. IsUses(uses)
    BY <1>1, UsesAre
  <2>3. /\ OfType(bs, "thinking") = Thought(e.thinking) /\ OfType(bs, "text") = e.content
        /\ OfType(bs, "tool_use") = uses
    BY <1>1, <2>2, OfAnswer
  <2>4. /\ c.text = TextOf(a.content) /\ c.reasoning = Joined(OfType(a.content, "thinking"))
        /\ c.calls = CallsOf(a.content) /\ c.finish = StopToFinish(a.stop)
    BY <1>3 DEF ParseAnswer, ParseAnthropicAnswer, Choice
  <2> HIDE DEF a, c, bs
  <2>5. TextOf(bs) = TextOf(e.content)
    BY <1>1, <2>3, OfWords DEF TextOf
  <2>6. Joined(OfType(bs, "thinking")) = e.thinking
    BY <1>1, <2>3, OfThought
  <2>7. CallsOf(bs) = e.calls
    <3>1. CallsOf(bs) = [k \in DOMAIN uses |-> Call(uses[k].id, uses[k].args)]
      BY <2>3 DEF CallsOf
    <3>2. DOMAIN uses = DOMAIN e.calls
          /\ \A k \in DOMAIN e.calls : uses[k] = ToolUse(e.calls[k].id, e.calls[k].args)
      BY <1>1, UsesAre
    <3> HIDE DEF uses
    <3>3. ASSUME NEW k \in DOMAIN e.calls
          PROVE  uses[k].id = e.calls[k].id /\ uses[k].args = e.calls[k].args
      <4> DEFINE b == uses[k]
                 id == e.calls[k].id
                 args == e.calls[k].args
      <4>1. b = ToolUse(id, args)
        BY <3>2
      <4> HIDE DEF b, id, args
      <4>2. b.id = id /\ b.args = args
        BY <4>1 DEF ToolUse, Block
      <4> QED BY <4>2 DEF b, id, args
    <3>4. CallsOf(bs) = [k \in DOMAIN e.calls |-> Call(e.calls[k].id, e.calls[k].args)]
      BY <3>1, <3>2, <3>3
    <3> QED BY <1>1, <3>4, SameCalls
  <2>8. StopToFinish(FinishToStop(e.finish)) = e.finish
    BY <1>1 DEF StopToFinish, FinishToStop
  <2> QED BY <2>1, <2>4, <2>5, <2>6, <2>7, <2>8 DEF c, a
<1>4. CASE u = "responses"
  <2> DEFINE m == IF e.content = <<>> THEN <<>> ELSE MessageItem(e.content)
             f == [k \in DOMAIN e.calls |->
                      Item("function_call", "", <<>>, e.calls[k].id, e.calls[k].args)]
             items == Cat(Cat(ReasoningItem(e.thinking), m), f)
  <2>1. a.output = items /\ a.status = IF e.finish = "length" THEN "incomplete" ELSE "completed"
    BY <1>1, <1>4 DEF Replied, ToItems, ReasoningItem, MessageItem, Cat
  <2>2. f = [k \in DOMAIN e.calls |-> f[k]]
        /\ \A k \in DOMAIN e.calls : /\ f[k].type = "function_call" /\ f[k].id = e.calls[k].id
                                     /\ f[k].args = e.calls[k].args
    BY DEF Item
  <2> HIDE DEF f
  <2>3. IsSeq(f) /\ Len(f) = Len(e.calls) /\ DOMAIN f = DOMAIN e.calls /\ (f = <<>> <=> e.calls = <<>>)
    BY <1>1, <2>2, CallsMapped DEF IsCalls
  <2>4. \A k \in 1 .. Len(f) : f[k].type = "function_call"
    <3>1. DOMAIN f = 1 .. Len(f)
      BY <2>3, SeqLength
    <3> QED BY <2>2, <2>3, <3>1
  <2>5. m = MessageItem(e.content) \/ (m = <<>> /\ e.content = <<>>)
    OBVIOUS
  <2> HIDE DEF m
  <2>6. /\ OfType(items, "function_call") = f
        /\ ContentOf(OfType(items, "message")) = e.content
        /\ Joined(ContentOf(OfType(items, "reasoning"))) = e.thinking
    <3>1. IsSeq(f)
      BY <2>3
    <3>2. IsSeq(e.thinking) /\ IsWords(e.content)
      BY <1>1
    <3> QED BY <2>4, <2>5, <3>1, <3>2, OfItems
  <2>7. /\ c.text = TextOf(ContentOf(OfType(a.output, "message")))
        /\ c.reasoning = Joined(ContentOf(OfType(a.output, "reasoning")))
        /\ LET calls == OfType(a.output, "function_call")
           IN  /\ c.calls = [k \in DOMAIN calls |-> Call(calls[k].id, calls[k].args)]
               /\ c.finish = IF calls # <<>> /\ a.status = "completed" THEN "tool_calls"
                             ELSE StatusToFinish(a.status)
    BY <1>4 DEF ParseAnswer, ParseResponsesAnswer, Choice, ContentOf
  <2> HIDE DEF a, c, items
  <2>8. c.calls = [k \in DOMAIN f |-> Call(f[k].id, f[k].args)]
    BY <2>1, <2>6, <2>7
  <2>9. c.calls = [k \in DOMAIN e.calls |-> Call(e.calls[k].id, e.calls[k].args)]
    BY <2>2, <2>3, <2>8
  <2>10. c.calls = e.calls
    BY <1>1, <2>9, SameCalls
  <2>11. c.finish = IF f # <<>> /\ a.status = "completed" THEN "tool_calls"
                    ELSE StatusToFinish(a.status)
    BY <2>1, <2>6, <2>7
  <2>12. c.finish = e.finish
    BY <1>1, <2>1, <2>3, <2>11 DEF StatusToFinish
  <2> QED BY <2>1, <2>6, <2>7, <2>10, <2>12 DEF c, a
<1> QED BY <1>2, <1>3, <1>4 DEF Protocol

\* What a client makes of the answer of the gateway
LEMMA AnswerKnown ==
    ASSUME NEW e, IsAnswer(e), NEW u \in Protocol, NEW c \in Protocol, NEW tools, NEW meta
    PROVE  ReadAnswer(c, ConvertAnswer(c, u, Replied(u, e), tools, meta)) = Known(c, e)
<1> DEFINE p == ParseAnswer(u, Replied(u, e))
           a == ConvertAnswer(c, u, Replied(u, e), tools, meta)
           calls == e.calls
<1>1. /\ p.text = TextOf(e.content) /\ p.reasoning = e.thinking
      /\ p.calls = calls /\ p.finish = e.finish
  BY AnswerParsed
<1>2. /\ IsSeq(e.thinking) /\ IsWords(e.content) /\ IsCalls(calls)
      /\ e.finish \in {"stop", "tool_calls", "length"}
  BY DEF IsAnswer
<1>3. NonEmpty(p.text) = e.content /\ IsSeq(calls)
  BY <1>1, <1>2, OfWords DEF IsCalls
<1>4. CASE c = "chat"
  <2>1. a = BuildChatAnswer(p)
    BY <1>4 DEF ConvertAnswer
  <2> HIDE DEF p
  <2>2. ReadAnswer(c, BuildChatAnswer(p))
        = Entry("assistant", p.reasoning, IF p.calls = <<>> THEN NonEmpty(p.text) ELSE <<>>,
                p.calls, NoId, p.finish)
    BY <1>4 DEF BuildChatAnswer, ReadAnswer
  <2>3. KnownCalls(c, calls) = calls
    <3>1. KnownCalls(c, calls) = [k \in DOMAIN calls |-> Call(calls[k].id, calls[k].args)]
      BY <1>4 DEF KnownCalls, KnownArgs
    <3> HIDE DEF calls
    <3> QED BY <1>2, <3>1, SameCalls
  <2> QED BY <1>1, <1>3, <1>4, <2>1, <2>2, <2>3 DEF Known
<1>5. CASE c = "anthropic"
  <2> DEFINE f  == [k \in DOMAIN calls |-> ToolUse(calls[k].id, AsObject(calls[k].args))]
             bs == Cat(Cat(Thought(e.thinking), e.content), f)
             b  == BuildAnthropicAnswer(p)
  <2>1. a = b
    BY <1>5 DEF ConvertAnswer
  <2> HIDE DEF p
  <2>2. b.content = bs /\ b.stop = FinishToStop(e.finish)
    BY <1>1, <1>3 DEF BuildAnthropicAnswer, Thought, Cat
  <2>3. f = [k \in DOMAIN calls |-> f[k]]
        /\ \A k \in DOMAIN calls : f[k] = ToolUse(calls[k].id, AsObject(calls[k].args))
    OBVIOUS
  <2> HIDE DEF f, b, calls
  <2>4. IsSeq(f) /\ Len(f) = Len(calls) /\ DOMAIN f = DOMAIN calls
    BY <1>3, <2>3, CallsMapped
  <2>5. \A k \in DOMAIN calls : f[k].id = calls[k].id /\ f[k].args = AsObject(calls[k].args)
    BY <2>3 DEF ToolUse, Block
  <2>6. IsUses(f)
    <3>1. DOMAIN f = 1 .. Len(f)
      BY <2>4, SeqLength
    <3> QED BY <2>3, <2>4, <2>5, <3>1 DEF IsUses
  <2>7. /\ OfType(bs, "thinking") = Thought(e.thinking) /\ OfType(bs, "text") = e.content
        /\ OfType(bs, "tool_use") = f
    BY <1>2, <2>6, OfAnswer
  <2> HIDE DEF bs
  <2>8. ReadAnswer(c, b) = Entry("assistant", Joined(OfType(bs, "thinking")), OfType(bs, "text"),
                                 CallsOf(bs), NoId, StopToFinish(FinishToStop(e.finish)))
    BY <1>5, <2>2 DEF ReadAnswer
  <2>9. CallsOf(bs) = KnownCalls(c, calls)
    <3>1. CallsOf(bs) = [k \in DOMAIN f |-> Call(f[k].id, f[k].args)]
      BY <2>7 DEF CallsOf
    <3>2. CallsOf(bs) = [k \in DOMAIN calls |-> Call(calls[k].id, AsObject(calls[k].args))]
      BY <2>4, <2>5, <3>1
    <3> QED BY <1>5, <3>2 DEF KnownCalls, KnownArgs
  <2>10. StopToFinish(FinishToStop(e.finish)) = e.finish
    BY <1>2 DEF StopToFinish, FinishToStop
  <2>11. Joined(OfType(bs, "thinking")) = e.thinking
    BY <1>2, <2>7, OfThought
  <2> QED BY <1>5, <2>1, <2>7, <2>8, <2>9, <2>10, <2>11 DEF Known, calls
<1>6. CASE c = "responses"
  <2> DEFINE m == IF p.text = <<>> /\ p.calls # <<>> THEN <<>> ELSE MessageItem(NonEmpty(p.text))
             f == CallItems(calls)
             b == BuildResponsesAnswer(p, tools, meta)
             items == Cat(Cat(ReasoningItem(e.thinking), m), f)
  <2>1. a = b
    BY <1>6 DEF ConvertAnswer
  <2>2. m = MessageItem(e.content) \/ (m = <<>> /\ e.content = <<>>)
    BY <1>3 DEF NonEmpty
  <2> HIDE DEF p
  <2>3. b.output = items /\ b.status = "completed"
    BY <1>1 DEF BuildResponsesAnswer, ReasoningItem, MessageItem, Cat
  <2>4. f = [k \in DOMAIN calls |-> f[k]]
        /\ \A k \in DOMAIN calls : /\ f[k].type = "function_call" /\ f[k].id = calls[k].id
                                   /\ f[k].args = AsText(calls[k].args)
    BY DEF Item, CallItems
  <2> HIDE DEF f, b, m, calls
  <2>5. IsSeq(f) /\ Len(f) = Len(calls) /\ DOMAIN f = DOMAIN calls /\ (f = <<>> <=> calls = <<>>)
    BY <1>3, <2>4, CallsMapped
  <2>6. \A k \in 1 .. Len(f) : f[k].type = "function_call"
    <3>1. DOMAIN f = 1 .. Len(f)
      BY <2>5, SeqLength
    <3> QED BY <2>4, <2>5, <3>1
  <2>7. /\ OfType(items, "function_call") = f
        /\ ContentOf(OfType(items, "message")) = e.content
        /\ Joined(ContentOf(OfType(items, "reasoning"))) = e.thinking
    <3>1. IsSeq(f)
      BY <2>5
    <3>2. IsSeq(e.thinking) /\ IsWords(e.content)
      BY <1>2
    <3> QED BY <2>2, <2>6, <3>1, <3>2, OfItems
  <2> HIDE DEF items
  <2> DEFINE d == ParseResponsesAnswer(b)
  <2>8. /\ d.text = TextOf(e.content) /\ d.reasoning = e.thinking
        /\ d.calls = [k \in DOMAIN f |-> Call(f[k].id, f[k].args)]
        /\ d.finish = IF f # <<>> THEN "tool_calls" ELSE StatusToFinish("completed")
    BY <2>3, <2>7 DEF ParseResponsesAnswer, Choice, ContentOf
  <2>9. ReadAnswer(c, b) = Entry("assistant", d.reasoning, NonEmpty(d.text), d.calls, NoId, d.finish)
    BY <1>6 DEF ReadAnswer
  <2> HIDE DEF d
  <2>10. d.calls = KnownCalls(c, calls)
    <3>1. d.calls = [k \in DOMAIN calls |-> Call(calls[k].id, AsText(calls[k].args))]
      BY <2>4, <2>5, <2>8
    <3> QED BY <1>6, <3>1 DEF KnownCalls, KnownArgs
  <2>11. d.finish = IF calls = <<>> THEN "stop" ELSE "tool_calls"
    BY <2>5, <2>8 DEF StatusToFinish
  <2>12. NonEmpty(d.text) = e.content
    BY <1>1, <1>3, <2>8
  <2> QED BY <1>6, <2>1, <2>8, <2>9, <2>10, <2>11, <2>12 DEF Known, calls
<1> QED BY <1>4, <1>5, <1>6 DEF Protocol

\* A list of lists of one element each
LEMMA FlatOnes ==
    ASSUME NEW g, IsSeq(g), NEW ss, ss = [k \in DOMAIN g |-> <<g[k]>>]
    PROVE  FlattenSeq(ss) = g
<1> DEFINE Ones(x) == [k \in DOMAIN x |-> <<x[k]>>]
           S == {n \in Nat : \A x : IsSeq(x) /\ Len(x) = n => FlattenSeq(Ones(x)) = x}
<1>1. 0 \in S
  <2> SUFFICES ASSUME NEW x, IsSeq(x), Len(x) = 0 PROVE FlattenSeq(Ones(x)) = x
    OBVIOUS
  <2>1. x = <<>>
    BY EmptySeqLength
  <2>2. Ones(<<>>) = <<>>
    OBVIOUS
  <2> HIDE DEF Ones
  <2> QED BY <2>1, <2>2, FlatEmpty
<1>2. ASSUME NEW n \in S PROVE n + 1 \in S
  <2> SUFFICES ASSUME NEW x, IsSeq(x), Len(x) = n + 1 PROVE FlattenSeq(Ones(x)) = x
    OBVIOUS
  <2>0. n \in Nat
    OBVIOUS
  <2>1. PICK y : IsSeq(y) /\ Len(y) = n /\ x = Append(y, x[n + 1])
    BY <2>0, Shortened
  <2>2. FlattenSeq(Ones(y)) = y
    BY <2>1
  <2> DEFINE e == x[n + 1]
             a == Ones(y)
             b == Ones(x)
  <2>3. /\ DOMAIN y = 1 .. n /\ DOMAIN x = 1 .. n + 1 /\ \A j \in 1 .. n : x[j] = y[j]
    BY <2>1, Appended
  <2>4. a = [k \in 1 .. n |-> a[k]] /\ \A k \in 1 .. n : a[k] = <<y[k]>>
    BY <2>3
  <2>5. b = [k \in 1 .. n + 1 |-> b[k]] /\ \A k \in 1 .. n + 1 : b[k] = <<x[k]>>
    BY <2>3
  <2>a. n + 1 \in 1 .. n + 1 /\ \A k \in 1 .. n : k \in 1 .. n + 1
    BY <2>0
  <2> HIDE DEF S, Ones, a, b
  <2>6. IsSeq(a) /\ Len(a) = n
    BY <2>0, <2>4, FunctionIsSeq
  <2>7. IsSeq(b) /\ Len(b) = n + 1
    BY <2>0, <2>5, FunctionIsSeq
  <2>8. b[n + 1] = <<e>> /\ \A k \in 1 .. n : b[k] = a[k]
    BY <2>a, <2>3, <2>4, <2>5
  <2> HIDE DEF e
  <2>9. IsSeq(<<e>>) /\ Len(<<e>>) = 1 /\ <<e>>[1] = e
    BY One
  <2> DEFINE c == Append(a, <<e>>)
  <2>10. IsSeq(c) /\ Len(c) = n + 1 /\ c[n + 1] = <<e>> /\ \A k \in 1 .. n : c[k] = a[k]
    BY <2>6, Appended
  <2> HIDE DEF c
  <2>11. \A k \in 1 .. n + 1 : b[k] = c[k]
    BY <2>0, <2>8, <2>10
  <2>12. b = c
    BY <2>7, <2>10, <2>11, SameSeq
  <2>13. FlattenSeq(Append(a, <<e>>)) = FlattenSeq(a) \o <<e>>
    <3>1. IsSeq(a)
      BY <2>6
    <3>2. IsSeq(<<e>>)
      BY <2>9
    <3> QED BY <3>1, <3>2, FlatAppend
  <2>14. y \o <<e>> = x
    <3>1. IsSeq(y)
      BY <2>1
    <3>2. Append(y, e) = y \o <<e>>
      BY <3>1, AppendedOne
    <3> QED BY <2>1, <3>2 DEF e
  <2> QED BY <2>2, <2>12, <2>13, <2>14 DEF a, b, c
<1>3. S = Nat
  <2>1. S \in SUBSET Nat
    OBVIOUS
  <2> HIDE DEF S
  <2> QED BY <1>1, <1>2, <2>1, SetInduction
<1>4. Len(g) \in Nat
  BY SeqLength
<1>5. FlattenSeq(Ones(g)) = g
  BY <1>3, <1>4
<1> QED BY <1>5

CallPieces(ends, cs) ==
    [k \in DOMAIN cs |-> Piece("call", cs[k].id, Phrase(Args(ends, cs[k].args), 0))]

LEMMA UsesAreGood == ASSUME NEW u, IsUses(u) PROVE Good(u)
<1>1. ASSUME NEW k \in 1 .. Len(u) PROVE GoodBlock(u[k])
  <2> DEFINE b == u[k]
  <2>1. b = ToolUse(b.id, b.args)
    BY DEF IsUses
  <2> HIDE DEF b
  <2>2. b.type = "tool_use" /\ b.text = <<>> /\ b.content = <<>>
    BY <2>1 DEF ToolUse, Block
  <2> QED BY <2>2, EmptyIsSeq, EmptyGood DEF GoodBlock, Types, b
<1> QED BY <1>1 DEF Good, IsUses

LEMMA ReadUses ==
    ASSUME NEW ends, NEW role, NEW cs, IsCalls(cs)
    PROVE  /\ Read(ends, role, Uses(cs)) = CallPieces(ends, cs)
           /\ IsSeq(CallPieces(ends, cs)) /\ Len(CallPieces(ends, cs)) = Len(cs)
<1> DEFINE g == CallPieces(ends, cs)
           u == Uses(cs)
           a == ReadParts(ends, role, u)
<1>1. g = [k \in DOMAIN cs |-> g[k]]
      /\ \A k \in DOMAIN cs : g[k] = Piece("call", cs[k].id, Phrase(Args(ends, cs[k].args), 0))
  BY DEF CallPieces
<1> HIDE DEF g
<1>2. IsSeq(g) /\ Len(g) = Len(cs) /\ DOMAIN g = DOMAIN cs
  BY <1>1, CallsMapped DEF IsCalls
<1>3. /\ IsUses(u) /\ Len(u) = Len(cs) /\ DOMAIN u = DOMAIN cs
      /\ \A k \in DOMAIN cs : u[k] = ToolUse(cs[k].id, cs[k].args)
  BY UsesAre
<1> HIDE DEF u
<1>4. ASSUME NEW k \in DOMAIN cs PROVE BlockPieces(ends, role, u[k]) = <<g[k]>>
  <2> DEFINE b == u[k]
             id == cs[k].id
             args == cs[k].args
  <2>1. b = ToolUse(id, args) /\ g[k] = Piece("call", id, Phrase(Args(ends, args), 0))
    BY <1>1, <1>3
  <2> HIDE DEF b, id, args
  <2>2. b.type = "tool_use" /\ b.id = id /\ b.args = args
    BY <2>1 DEF ToolUse, Block
  <2>3. BlockPieces(ends, role, b) = <<g[k]>>
    BY <2>1, <2>2 DEF BlockPieces
  <2> QED BY <2>3 DEF b
<1>5. a = [k \in DOMAIN g |-> <<g[k]>>]
  BY <1>2, <1>3, <1>4 DEF ReadParts
<1> HIDE DEF a
<1>6. FlattenSeq(a) = g
  BY <1>2, <1>5, FlatOnes
<1> QED BY <1>2, <1>6 DEF Read, ReadParts, a, g, u

\* The calls that a client knows are read like those that were made
LEMMA SameArgs ==
    ASSUME NEW c \in Protocol, NEW ends, c \in ends, NEW a
    PROVE  Args(ends, KnownArgs(c, a)) = Args(ends, a)
BY DEF Protocol, Args, KnownArgs, AsText, AsObject

LEMMA KnownCallsAre ==
    ASSUME NEW c \in Protocol, NEW ends, c \in ends, NEW cs, IsCalls(cs)
    PROVE  /\ IsCalls(KnownCalls(c, cs)) /\ Len(KnownCalls(c, cs)) = Len(cs)
           /\ DOMAIN KnownCalls(c, cs) = DOMAIN cs /\ (KnownCalls(c, cs) = <<>> <=> cs = <<>>)
           /\ \A k \in DOMAIN cs : KnownCalls(c, cs)[k].id = cs[k].id
           /\ CallPieces(ends, KnownCalls(c, cs)) = CallPieces(ends, cs)
<1> DEFINE f == KnownCalls(c, cs)
<1>1. f = [k \in DOMAIN cs |-> f[k]]
      /\ \A k \in DOMAIN cs : f[k].id = cs[k].id /\ f[k].args = KnownArgs(c, cs[k].args)
                              /\ f[k] = Call(cs[k].id, KnownArgs(c, cs[k].args))
  BY DEF KnownCalls, Call
<1> HIDE DEF f
<1>2. IsSeq(f) /\ Len(f) = Len(cs) /\ DOMAIN f = DOMAIN cs /\ (f = <<>> <=> cs = <<>>)
  BY <1>1, CallsMapped DEF IsCalls
<1>3. DOMAIN f = 1 .. Len(f)
  BY <1>2, SeqLength
<1>4. IsCalls(f)
  BY <1>1, <1>2, <1>3 DEF IsCalls
<1>5. CallPieces(ends, f) = CallPieces(ends, cs)
  BY <1>1, <1>2, SameArgs DEF CallPieces
<1> QED BY <1>1, <1>2, <1>4, <1>5 DEF f

-----------------------------------------------------------------------------
(* The dialog as it is held and as the client knows it *)

IsSpoken(e, k) == \E kinds \in {{"text"}, {"text", "media"}} : e = Spoken(kinds, k)
IsSaid(e, k)   == \E shape \in AnswerShapes : e = Said(shape, k)
IsResult(c, e) == \E id \in Nat, kinds \in SUBSET {"text", "media"} :
                      e = Result(kinds, id) /\ (c = "chat" => "media" \notin kinds)

\* An entry at place k as it is held and as it is known
Entered(c, k, was, now) ==
    \/ IsSpoken(was, k) /\ now = was
    \/ IsResult(c, was) /\ now = was
    \/ IsSaid(was, k) /\ now = Known(c, was)

Entries(c, s, h) ==
    /\ IsSeq(s) /\ IsSeq(h) /\ Len(h) = Len(s)
    /\ \A k \in 1 .. Len(s) : Entered(c, k, s[k], h[k])

DialogInv ==
    /\ client \in Protocol /\ upstream \in Protocol /\ client # upstream
    /\ Entries(client, said, history) /\ open \in SUBSET Nat

LEMMA UserOrTool ==
    ASSUME NEW c, NEW k, NEW e
    PROVE  (IsSpoken(e, k) => e.role = "user") /\ (IsResult(c, e) => e.role = "tool")
<1>1. ASSUME IsSpoken(e, k) PROVE e.role = "user"
  <2>1. PICK kinds \in {{"text"}, {"text", "media"}} : e = Spoken(kinds, k)
    BY <1>1 DEF IsSpoken
  <2> QED BY <2>1 DEF Spoken, Entry
<1>2. ASSUME IsResult(c, e) PROVE e.role = "tool"
  <2>1. PICK id \in Nat, kinds \in SUBSET {"text", "media"} : e = Result(kinds, id)
    BY <1>2 DEF IsResult
  <2> QED BY <2>1 DEF Result, Entry
<1> QED BY <1>1, <1>2

LEMMA OneMoreEntry ==
    ASSUME NEW c, NEW s, NEW h, Entries(c, s, h), NEW was, NEW now,
           Entered(c, Len(s) + 1, was, now)
    PROVE  Entries(c, Append(s, was), Append(h, now))
<1> DEFINE s1 == Append(s, was)
           h1 == Append(h, now)
           n  == Len(s)
<1>1. IsSeq(s) /\ IsSeq(h) /\ n = Len(h)
  BY DEF Entries
<1>2. IsSeq(s1) /\ n \in Nat /\ Len(s1) = n + 1 /\ s1[n + 1] = was /\ \A k \in 1 .. n : s1[k] = s[k]
  BY <1>1, Appended
<1>3. IsSeq(h1) /\ Len(h1) = n + 1 /\ h1[n + 1] = now /\ \A k \in 1 .. n : h1[k] = h[k]
  <2> HIDE DEF n
  <2> QED BY <1>1, Appended
<1> HIDE DEF s1, h1
<1>4. ASSUME NEW k \in 1 .. n + 1 PROVE Entered(c, k, s1[k], h1[k])
  <2>1. CASE k \in 1 .. n
    BY <1>2, <1>3, <2>1 DEF Entries
  <2>2. CASE k = n + 1
    BY <1>2, <1>3, <2>2
  <2> QED BY <1>2, <2>1, <2>2
<1>5. Entries(c, s1, h1)
  BY <1>2, <1>3, <1>4 DEF Entries
<1> QED BY <1>5 DEF s1, h1

LEMMA SaidIsAnswer ==
    ASSUME NEW shape \in AnswerShapes, NEW k \in Nat
    PROVE  /\ IsAnswer(Said(shape, k)) /\ Said(shape, k).role = "assistant"
           /\ Len(Said(shape, k).calls) = Len(shape.args) /\ Len(shape.args) < 10
           /\ \A j \in 1 .. Len(shape.args) :
                 Said(shape, k).calls[j] = Call(10 * k + j, shape.args[j])
<1> DEFINE e == Said(shape, k)
           t == IF shape.thinking THEN <<Phrase("thinking", k)>> ELSE <<>>
           c == IF shape.text = "" THEN <<>> ELSE <<Text(<<Phrase(shape.text, k)>>)>>
           cs == [j \in DOMAIN shape.args |-> Call(10 * k + j, shape.args[j])]
           p == Phrase(shape.text, k)
<1>1. /\ shape.args \in Seq(Arguments) /\ shape.finish \in {"stop", "tool_calls", "length"}
      /\ shape.thinking \/ shape.text # "" \/ shape.args # <<>>
      /\ Len(shape.args) < 10
      /\ shape.finish # "length" => shape.finish = IF shape.args = <<>> THEN "stop" ELSE "tool_calls"
  BY DEF AnswerShapes
<1>2. IsSeq(shape.args) /\ DOMAIN shape.args = 1 .. Len(shape.args)
  BY <1>1, SeqLength DEF IsSeq
<1>3. cs = [j \in DOMAIN shape.args |-> cs[j]]
      /\ \A j \in DOMAIN shape.args : cs[j] = Call(10 * k + j, shape.args[j])
  OBVIOUS
<1>4. /\ e = Entry("assistant", t, c, cs, NoId, shape.finish)
      /\ e.role = "assistant" /\ e.thinking = t /\ e.content = c /\ e.calls = cs /\ e.id = NoId
      /\ e.finish = shape.finish
  BY DEF Said, Entry
<1> HIDE DEF cs
<1>5. IsSeq(cs) /\ Len(cs) = Len(shape.args) /\ DOMAIN cs = DOMAIN shape.args
      /\ (cs = <<>> <=> shape.args = <<>>)
  BY <1>2, <1>3, CallsMapped
<1>6. IsCalls(cs)
  <2>1. ASSUME NEW j \in 1 .. Len(cs) PROVE cs[j] = Call(cs[j].id, cs[j].args)
    <3> DEFINE b == cs[j]
               id == 10 * k + j
               a == shape.args[j]
    <3>1. b = Call(id, a)
      BY <1>2, <1>3, <1>5
    <3> HIDE DEF b, id, a
    <3>2. b = Call(b.id, b.args)
      BY <3>1 DEF Call
    <3> QED BY <3>2 DEF b
  <2> QED BY <1>5, <2>1 DEF IsCalls
<1>7. IsSeq(t) /\ (shape.thinking => t # <<>>)
  BY One, EmptyIsSeq
<1>8. IsWords(c) /\ (shape.text # "" => c # <<>>)
  <2>1. CASE shape.text = ""
    BY <2>1 DEF IsWords
  <2>2. CASE shape.text # ""
    <3>1. IsSeq(<<p>>) /\ <<p>> # <<>>
      BY One
    <3>2. c = <<Text(<<p>>)>>
      BY <2>2
    <3>3. c # <<>>
      BY <3>2
    <3> HIDE DEF c, p
    <3> QED BY <3>1, <3>2, <3>3 DEF IsWords
  <2> QED BY <2>1, <2>2
<1> HIDE DEF e, t, c
<1>9. IsAnswer(e)
  BY <1>1, <1>4, <1>5, <1>6, <1>7, <1>8 DEF IsAnswer
<1> QED BY <1>1, <1>2, <1>3, <1>4, <1>5, <1>9 DEF e

\* The step of the upstream, in short
LEMMA ModelAnswersSo ==
    ASSUME DialogInv, NEW shape \in Shapes, ModelAnswers(shape)
    PROVE  LET was == Said(shape, Len(said) + 1)
               now == Known(client, was)
           IN  /\ IsSaid(was, Len(said) + 1) /\ IsAnswer(was)
               /\ said' = Append(said, was) /\ history' = Append(history, now)
               /\ turn = "model" /\ UNCHANGED <<client, upstream>>
               /\ open' = {now.calls[k].id : k \in DOMAIN now.calls}
               /\ now.calls # <<>> => turn' = "tools"
               /\ now.calls = <<>> => turn' \in {"model", "user"} /\ (turn' = "model" => client = "responses")
<1> DEFINE was == Said(shape, Len(said) + 1)
           now == Known(client, was)
           meta == ParseRequest(client, Written(client, history)).messages
           answer == ConvertAnswer(client, upstream, Replied(upstream, was), TRUE, meta)
<1>1. shape \in AnswerShapes
  BY ConversationAssumption
<1>2. Len(said) + 1 \in Nat
  BY SeqLength DEF DialogInv, Entries
<1>3. IsAnswer(was) /\ IsSaid(was, Len(said) + 1)
  BY <1>1, <1>2, SaidIsAnswer DEF IsSaid
<1>4. ReadAnswer(client, answer) = now
  <2> HIDE DEF was, meta
  <2> QED BY <1>3, AnswerKnown DEF DialogInv
<1>5. /\ said' = Append(said, was) /\ history' = Append(history, ReadAnswer(client, answer))
      /\ turn = "model" /\ UNCHANGED <<client, upstream>>
      /\ open' = {ReadAnswer(client, answer).calls[k].id : k \in DOMAIN ReadAnswer(client, answer).calls}
      /\ turn' = CASE ReadAnswer(client, answer).calls # <<>> -> "tools"
                   [] ReadAnswer(client, answer).calls = <<>> /\ (client = "responses" /\ ~answer.endTurn) -> "model"
                   [] ReadAnswer(client, answer).calls = <<>> /\ ~(client = "responses" /\ ~answer.endTurn) -> "user"
  BY DEF ModelAnswers, Place
<1> HIDE DEF was, now, answer, meta
<1>6. /\ open' = {now.calls[k].id : k \in DOMAIN now.calls}
      /\ turn' = CASE now.calls # <<>> -> "tools"
                   [] now.calls = <<>> /\ (client = "responses" /\ ~answer.endTurn) -> "model"
                   [] now.calls = <<>> /\ ~(client = "responses" /\ ~answer.endTurn) -> "user"
  BY <1>4, <1>5
<1>7. now.calls # <<>> => turn' = "tools"
  BY <1>6
<1>8. now.calls = <<>> => turn' \in {"model", "user"} /\ (turn' = "model" => client = "responses")
  BY <1>6
<1> QED BY <1>3, <1>4, <1>5, <1>6, <1>7, <1>8 DEF was, now

\* At any moment each entry the client knows is the one that was held, but for what the
\* answer's conversion (response.go) and its protocol make of an answer
THEOREM DialogTyped == Spec => []DialogInv
<1>1. Init => DialogInv
  <2> SUFFICES ASSUME Init PROVE DialogInv
    OBVIOUS
  <2>1. client \in Protocol /\ upstream \in Protocol /\ client # upstream
    BY ConversationAssumption DEF Init
  <2>2. said = <<>> /\ history = <<>> /\ open = {}
    BY DEF Init
  <2>3. Entries(client, <<>>, <<>>)
    BY EmptyIsSeq DEF Entries
  <2> QED BY <2>1, <2>2, <2>3 DEF DialogInv
<1>2. DialogInv /\ [Next]_vars => DialogInv'
  <2> SUFFICES ASSUME DialogInv, [Next]_vars PROVE DialogInv'
    OBVIOUS
  <2>0. Entries(client, said, history)
    BY DEF DialogInv
  <2>1. ASSUME NEW kinds \in {{"text"}, {"text", "media"}}, UserSpeaks(kinds) PROVE DialogInv'
    <3> DEFINE e == Spoken(kinds, Len(said) + 1)
    <3>1. /\ said' = Append(said, e) /\ history' = Append(history, e)
          /\ UNCHANGED <<client, upstream, open>>
      BY <2>1 DEF UserSpeaks, Place
    <3>2. IsSpoken(e, Len(said) + 1)
      BY DEF IsSpoken
    <3> HIDE DEF e
    <3>3. Entered(client, Len(said) + 1, e, e)
      BY <3>2 DEF Entered
    <3>4. Entries(client, Append(said, e), Append(history, e))
      BY <2>0, <3>3, OneMoreEntry
    <3> QED BY <3>1, <3>4 DEF DialogInv
  <2>2. ASSUME NEW shape \in Shapes, ModelAnswers(shape) PROVE DialogInv'
    <3> DEFINE was == Said(shape, Len(said) + 1)
               now == Known(client, was)
    <3>1. /\ IsSaid(was, Len(said) + 1) /\ IsAnswer(was)
          /\ said' = Append(said, was) /\ history' = Append(history, now)
          /\ UNCHANGED <<client, upstream>>
          /\ open' = {now.calls[k].id : k \in DOMAIN now.calls}
      BY <2>2, ModelAnswersSo
    <3>2. Entered(client, Len(said) + 1, was, now)
      BY <3>1 DEF Entered
    <3>3. \A k \in DOMAIN now.calls : now.calls[k].id \in Nat
      <4>1. shape \in AnswerShapes /\ Len(said) + 1 \in Nat
        BY <2>0, ConversationAssumption, SeqLength DEF Entries
      <4>2. /\ \A j \in 1 .. Len(shape.args) : was.calls[j] = Call(10 * (Len(said) + 1) + j, shape.args[j])
            /\ Len(was.calls) = Len(shape.args)
        BY <4>1, SaidIsAnswer
      <4>3. IsCalls(was.calls)
        BY <3>1 DEF IsAnswer
      <4>4. now.calls = KnownCalls(client, was.calls)
        BY DEF Known, Entry
      <4> HIDE DEF was, now
      <4>5. /\ DOMAIN now.calls = DOMAIN was.calls
            /\ \A k \in DOMAIN was.calls : now.calls[k].id = was.calls[k].id
        <5>1. client \in Protocol /\ client \in {client}
          BY DEF DialogInv
        <5> QED BY <4>3, <4>4, <5>1, KnownCallsAre
      <4>6. DOMAIN was.calls = 1 .. Len(shape.args)
        BY <4>2, <4>3, SeqLength DEF IsCalls
      <4> SUFFICES ASSUME NEW j \in DOMAIN was.calls PROVE was.calls[j].id \in Nat
        BY <4>5
      <4> DEFINE b == was.calls[j]
                 n == 10 * (Len(said) + 1) + j
                 a == shape.args[j]
      <4>7. b = Call(n, a) /\ n \in Nat
        BY <4>1, <4>2, <4>6
      <4> HIDE DEF b, n, a
      <4>8. b.id = n
        BY <4>7 DEF Call
      <4> QED BY <4>7, <4>8 DEF b
    <3> HIDE DEF was, now
    <3>4. Entries(client, Append(said, was), Append(history, now))
      BY <2>0, <3>2, OneMoreEntry
    <3>5. open' \in SUBSET Nat
      BY <3>1, <3>3
    <3> QED BY <3>1, <3>4, <3>5 DEF DialogInv
  <2>3. ASSUME NEW id \in open, NEW kinds \in Contents, ToolRuns(id, kinds) PROVE DialogInv'
    <3> DEFINE e == Result(kinds, id)
    <3>1. /\ said' = Append(said, e) /\ history' = Append(history, e) /\ open' = open \ {id}
          /\ client = "chat" => "media" \notin kinds
          /\ UNCHANGED <<client, upstream>>
      BY <2>3 DEF ToolRuns
    <3>2. id \in Nat /\ kinds \in SUBSET {"text", "media"}
      BY ConversationAssumption DEF DialogInv
    <3>3. IsResult(client, e)
      BY <3>1, <3>2 DEF IsResult
    <3> HIDE DEF e
    <3>4. Entered(client, Len(said) + 1, e, e)
      BY <3>3 DEF Entered
    <3>5. Entries(client, Append(said, e), Append(history, e))
      BY <2>0, <3>4, OneMoreEntry
    <3> QED BY <3>1, <3>5 DEF DialogInv
  <2>4. CASE UNCHANGED vars
    BY <2>4 DEF vars, DialogInv
  <2> QED BY <2>1, <2>2, <2>3, <2>4 DEF Next
<1> QED BY <1>1, <1>2, PTL DEF Spec

LEMMA AnswersSurvive == ASSUME DialogInv PROVE AnswersKept
<1> SUFFICES ASSUME NEW k \in DOMAIN said, said[k].role = "assistant"
             PROVE  LET was == said[k]
                        now == history[k]
                    IN  /\ now.thinking = was.thinking
                        /\ Lost(was) \/ TextOf(now.content) = TextOf(was.content)
                        /\ Read(Ends, "assistant", Uses(now.calls))
                           = Read(Ends, "assistant", Uses(was.calls))
                        /\ now.finish = IF client # "responses" THEN was.finish
                                        ELSE IF was.calls = <<>> THEN "stop" ELSE "tool_calls"
  BY DEF AnswersKept
<1> DEFINE was == said[k]
           now == history[k]
<1>1. IsSeq(said) /\ k \in 1 .. Len(said) /\ k \in Nat /\ Entered(client, k, was, now)
  BY SeqLength DEF DialogInv, Entries
<1>2. IsSaid(was, k) /\ now = Known(client, was)
  <2>1. was.role = "assistant"
    OBVIOUS
  <2> HIDE DEF was, now
  <2>2. ~IsSpoken(was, k) /\ ~IsResult(client, was)
    BY <2>1, UserOrTool
  <2> QED BY <1>1, <2>2 DEF Entered
<1> HIDE DEF was, now
<1>3. IsAnswer(was)
  BY <1>1, <1>2, SaidIsAnswer DEF IsSaid
<1>4. /\ now.thinking = was.thinking
      /\ now.content = IF client = "chat" /\ was.calls # <<>> THEN <<>> ELSE was.content
      /\ now.calls = KnownCalls(client, was.calls)
      /\ now.finish = IF client # "responses" THEN was.finish
                      ELSE IF was.calls = <<>> THEN "stop" ELSE "tool_calls"
  BY <1>2 DEF Known, Entry
<1>5. IsCalls(was.calls) /\ client \in Protocol /\ client \in Ends
  BY <1>3 DEF IsAnswer, DialogInv, Ends
<1>6. IsCalls(now.calls) /\ CallPieces(Ends, now.calls) = CallPieces(Ends, was.calls)
  BY <1>4, <1>5, KnownCallsAre
<1>7. Read(Ends, "assistant", Uses(now.calls)) = Read(Ends, "assistant", Uses(was.calls))
  BY <1>5, <1>6, ReadUses
<1>8. Lost(was) \/ TextOf(now.content) = TextOf(was.content)
  BY <1>4 DEF Lost
<1> QED BY <1>4, <1>7, <1>8 DEF was, now

\* A client reads in the converted answer the thinking, the text, the calls and the finish
\* reason of the upstream, but for the text Lost, and but for the finish reason of a
\* Responses client, who is told that every answer is complete: every parse...Response with
\* every build...Response of response.go
THEOREM AnswersAreKept == Spec => []AnswersKept
BY DialogTyped, AnswersSurvive, PTL

-----------------------------------------------------------------------------
(* What the functions defined by recursion compute, one element after the other *)

IsAddResults(f, st, s, n) ==
    f = [k \in 0 .. n |-> IF k = 0 THEN st ELSE AddResult(f[k - 1], s[k].id, ResultBlocks(s[k].content), ResultText(s[k].content))]

LEMMA AddResultsExists ==
    ASSUME NEW st, NEW s, NEW n \in Nat
    PROVE  \E f : IsAddResults(f, st, s, n)
<1> DEFINE S == {m \in Nat : \E f : IsAddResults(f, st, s, m)}
<1>1. 0 \in S
  <2>1. IsAddResults([k \in 0 .. 0 |-> st], st, s, 0)
    BY DEF IsAddResults
  <2> QED BY <2>1
<1>2. ASSUME NEW m \in S PROVE m + 1 \in S
  <2>1. PICK f : IsAddResults(f, st, s, m)
    OBVIOUS
  <2> DEFINE z == AddResult(f[m], s[m + 1].id, ResultBlocks(s[m + 1].content), ResultText(s[m + 1].content))
             g == [k \in 0 .. m + 1 |-> IF k <= m THEN f[k] ELSE z]
  <2>2. ASSUME NEW k \in 0 .. m + 1
        PROVE  g[k] = IF k = 0 THEN st ELSE AddResult(g[k - 1], s[k].id, ResultBlocks(s[k].content), ResultText(s[k].content))
    <3>1. m \in Nat
      OBVIOUS
    <3> HIDE DEF z
    <3>2. CASE k = m + 1
      <4>1. g[k] = z /\ g[k - 1] = f[m] /\ k # 0
        BY <3>1, <3>2
      <4> HIDE DEF g
      <4> QED BY <3>2, <4>1 DEF z
    <3>3. CASE k \in 0 .. m
      <4>1. f[k] = IF k = 0 THEN st ELSE AddResult(f[k - 1], s[k].id, ResultBlocks(s[k].content), ResultText(s[k].content))
        BY <2>1, <3>3 DEF IsAddResults
      <4>2. g[k] = f[k] /\ (k # 0 => g[k - 1] = f[k - 1])
        BY <3>1, <3>3
      <4> HIDE DEF g
      <4> QED BY <4>1, <4>2
    <3> QED BY <3>1, <3>2, <3>3
  <2>3. g = [k \in 0 .. m + 1 |-> g[k]]
    OBVIOUS
  <2> HIDE DEF g
  <2>4. IsAddResults(g, st, s, m + 1)
    BY <2>2, <2>3 DEF IsAddResults
  <2> QED BY <2>4
<1> HIDE DEF S
<1>3. S = Nat
  <2>1. S \in SUBSET Nat
    BY DEF S
  <2> QED BY <1>1, <1>2, <2>1, SetInduction
<1> QED BY <1>3 DEF S

LEMMA AddResultsSame ==
    ASSUME NEW st, NEW s, NEW t, NEW n \in Nat, NEW m \in Nat, n <= m, NEW f, NEW g,
           IsAddResults(f, st, s, n), IsAddResults(g, st, t, m), \A k \in 1 .. n : s[k] = t[k]
    PROVE  f[n] = g[n]
<1> DEFINE S == {k \in Nat : k <= n => f[k] = g[k]}
<1>1. 0 \in S
  BY DEF IsAddResults
<1>2. ASSUME NEW k \in S PROVE k + 1 \in S
  <2>1. SUFFICES ASSUME k + 1 <= n PROVE f[k + 1] = g[k + 1]
    OBVIOUS
  <2>2. f[k] = g[k]
    BY <2>1
  <2> DEFINE j == k + 1
  <2>3. j \in 1 .. n /\ j # 0 /\ j - 1 = k /\ j \in 0 .. n /\ j \in 0 .. m
    BY <2>1
  <2> HIDE DEF j
  <2>4. f[j] = AddResult(f[j - 1], s[j].id, ResultBlocks(s[j].content), ResultText(s[j].content))
    BY <2>3 DEF IsAddResults
  <2>5. g[j] = AddResult(g[j - 1], t[j].id, ResultBlocks(t[j].content), ResultText(t[j].content))
    BY <2>3 DEF IsAddResults
  <2>6. f[j] = g[j]
    BY <2>2, <2>3, <2>4, <2>5
  <2> QED BY <2>6 DEF j
<1> HIDE DEF S
<1>3. S = Nat
  <2>1. S \in SUBSET Nat
    BY DEF S
  <2> QED BY <1>1, <1>2, <2>1, SetInduction
<1> QED BY <1>3 DEF S

LEMMA AddResultsStep ==
    ASSUME NEW st, NEW s, IsSeq(s)
    PROVE  \E f : IsAddResults(f, st, s, Len(s)) /\ AddResults(st, s) = f[Len(s)]
<1>1. \E f : IsAddResults(f, st, s, Len(s))
  BY SeqLength, AddResultsExists
<1>2. AddResults(st, s) = (CHOOSE f : IsAddResults(f, st, s, Len(s)))[Len(s)]
  BY DEF AddResults, IsAddResults
<1> QED BY <1>1, <1>2

LEMMA AddResultsEmpty == ASSUME NEW st PROVE  AddResults(st, <<>>) = st
<1>1. PICK f : IsAddResults(f, st, <<>>, 0) /\ AddResults(st, <<>>) = f[0]
  BY EmptyIsSeq, AddResultsStep
<1> QED BY <1>1 DEF IsAddResults

LEMMA AddResultsAppend ==
    ASSUME NEW st, NEW s, IsSeq(s), NEW e
    PROVE  AddResults(st, Append(s, e)) = AddResult(AddResults(st, s), e.id, ResultBlocks(e.content), ResultText(e.content))
<1> DEFINE t == Append(s, e)
           n == Len(s)
<1>1. /\ IsSeq(t) /\ n \in Nat /\ Len(t) = n + 1
      /\ \A j \in 1 .. n : t[j] = s[j]
      /\ t[n + 1] = e
  BY Appended
<1> HIDE DEF t
<1>2. PICK f : IsAddResults(f, st, s, n) /\ AddResults(st, s) = f[n]
  BY AddResultsStep
<1> HIDE DEF n
<1>3. PICK g : IsAddResults(g, st, t, n + 1) /\ AddResults(st, t) = g[n + 1]
  BY <1>1, AddResultsStep
<1>4. f[n] = g[n]
  <2>1. n + 1 \in Nat /\ n <= n + 1 /\ \A k \in 1 .. n : s[k] = t[k]
    BY <1>1
  <2> QED BY <1>1, <1>2, <1>3, <2>1, AddResultsSame
<1>5. g[n + 1] = AddResult(g[n], e.id, ResultBlocks(e.content), ResultText(e.content))
  <2> DEFINE j == n + 1
  <2>1. j \in 0 .. n + 1 /\ j # 0 /\ j - 1 = n /\ t[j] = e
    BY <1>1
  <2> HIDE DEF j
  <2>2. g[j] = AddResult(g[j - 1], t[j].id, ResultBlocks(t[j].content), ResultText(t[j].content))
    BY <1>3, <2>1 DEF IsAddResults
  <2>3. g[j] = AddResult(g[n], e.id, ResultBlocks(e.content), ResultText(e.content))
    BY <2>1, <2>2
  <2> QED BY <2>3 DEF j
<1> QED BY <1>2, <1>3, <1>4, <1>5 DEF t

IsMessagesToChat(f, st, s, n) ==
    f = [k \in 0 .. n |-> IF k = 0 THEN st ELSE MessageToChat(f[k - 1], s[k])]

LEMMA MessagesToChatExists ==
    ASSUME NEW st, NEW s, NEW n \in Nat
    PROVE  \E f : IsMessagesToChat(f, st, s, n)
<1> DEFINE S == {m \in Nat : \E f : IsMessagesToChat(f, st, s, m)}
<1>1. 0 \in S
  <2>1. IsMessagesToChat([k \in 0 .. 0 |-> st], st, s, 0)
    BY DEF IsMessagesToChat
  <2> QED BY <2>1
<1>2. ASSUME NEW m \in S PROVE m + 1 \in S
  <2>1. PICK f : IsMessagesToChat(f, st, s, m)
    OBVIOUS
  <2> DEFINE z == MessageToChat(f[m], s[m + 1])
             g == [k \in 0 .. m + 1 |-> IF k <= m THEN f[k] ELSE z]
  <2>2. ASSUME NEW k \in 0 .. m + 1
        PROVE  g[k] = IF k = 0 THEN st ELSE MessageToChat(g[k - 1], s[k])
    <3>1. m \in Nat
      OBVIOUS
    <3> HIDE DEF z
    <3>2. CASE k = m + 1
      <4>1. g[k] = z /\ g[k - 1] = f[m] /\ k # 0
        BY <3>1, <3>2
      <4> HIDE DEF g
      <4> QED BY <3>2, <4>1 DEF z
    <3>3. CASE k \in 0 .. m
      <4>1. f[k] = IF k = 0 THEN st ELSE MessageToChat(f[k - 1], s[k])
        BY <2>1, <3>3 DEF IsMessagesToChat
      <4>2. g[k] = f[k] /\ (k # 0 => g[k - 1] = f[k - 1])
        BY <3>1, <3>3
      <4> HIDE DEF g
      <4> QED BY <4>1, <4>2
    <3> QED BY <3>1, <3>2, <3>3
  <2>3. g = [k \in 0 .. m + 1 |-> g[k]]
    OBVIOUS
  <2> HIDE DEF g
  <2>4. IsMessagesToChat(g, st, s, m + 1)
    BY <2>2, <2>3 DEF IsMessagesToChat
  <2> QED BY <2>4
<1> HIDE DEF S
<1>3. S = Nat
  <2>1. S \in SUBSET Nat
    BY DEF S
  <2> QED BY <1>1, <1>2, <2>1, SetInduction
<1> QED BY <1>3 DEF S

LEMMA MessagesToChatSame ==
    ASSUME NEW st, NEW s, NEW t, NEW n \in Nat, NEW m \in Nat, n <= m, NEW f, NEW g,
           IsMessagesToChat(f, st, s, n), IsMessagesToChat(g, st, t, m), \A k \in 1 .. n : s[k] = t[k]
    PROVE  f[n] = g[n]
<1> DEFINE S == {k \in Nat : k <= n => f[k] = g[k]}
<1>1. 0 \in S
  BY DEF IsMessagesToChat
<1>2. ASSUME NEW k \in S PROVE k + 1 \in S
  <2>1. SUFFICES ASSUME k + 1 <= n PROVE f[k + 1] = g[k + 1]
    OBVIOUS
  <2>2. f[k] = g[k]
    BY <2>1
  <2> DEFINE j == k + 1
  <2>3. j \in 1 .. n /\ j # 0 /\ j - 1 = k /\ j \in 0 .. n /\ j \in 0 .. m
    BY <2>1
  <2> HIDE DEF j
  <2>4. f[j] = MessageToChat(f[j - 1], s[j])
    BY <2>3 DEF IsMessagesToChat
  <2>5. g[j] = MessageToChat(g[j - 1], t[j])
    BY <2>3 DEF IsMessagesToChat
  <2>6. f[j] = g[j]
    BY <2>2, <2>3, <2>4, <2>5
  <2> QED BY <2>6 DEF j
<1> HIDE DEF S
<1>3. S = Nat
  <2>1. S \in SUBSET Nat
    BY DEF S
  <2> QED BY <1>1, <1>2, <2>1, SetInduction
<1> QED BY <1>3 DEF S

LEMMA MessagesToChatStep ==
    ASSUME NEW st, NEW s, IsSeq(s)
    PROVE  \E f : IsMessagesToChat(f, st, s, Len(s)) /\ MessagesToChat(st, s) = f[Len(s)]
<1>1. \E f : IsMessagesToChat(f, st, s, Len(s))
  BY SeqLength, MessagesToChatExists
<1>2. MessagesToChat(st, s) = (CHOOSE f : IsMessagesToChat(f, st, s, Len(s)))[Len(s)]
  BY DEF MessagesToChat, IsMessagesToChat
<1> QED BY <1>1, <1>2

LEMMA MessagesToChatEmpty == ASSUME NEW st PROVE  MessagesToChat(st, <<>>) = st
<1>1. PICK f : IsMessagesToChat(f, st, <<>>, 0) /\ MessagesToChat(st, <<>>) = f[0]
  BY EmptyIsSeq, MessagesToChatStep
<1> QED BY <1>1 DEF IsMessagesToChat

LEMMA MessagesToChatAppend ==
    ASSUME NEW st, NEW s, IsSeq(s), NEW e
    PROVE  MessagesToChat(st, Append(s, e)) = MessageToChat(MessagesToChat(st, s), e)
<1> DEFINE t == Append(s, e)
           n == Len(s)
<1>1. /\ IsSeq(t) /\ n \in Nat /\ Len(t) = n + 1
      /\ \A j \in 1 .. n : t[j] = s[j]
      /\ t[n + 1] = e
  BY Appended
<1> HIDE DEF t
<1>2. PICK f : IsMessagesToChat(f, st, s, n) /\ MessagesToChat(st, s) = f[n]
  BY MessagesToChatStep
<1> HIDE DEF n
<1>3. PICK g : IsMessagesToChat(g, st, t, n + 1) /\ MessagesToChat(st, t) = g[n + 1]
  BY <1>1, MessagesToChatStep
<1>4. f[n] = g[n]
  <2>1. n + 1 \in Nat /\ n <= n + 1 /\ \A k \in 1 .. n : s[k] = t[k]
    BY <1>1
  <2> QED BY <1>1, <1>2, <1>3, <2>1, MessagesToChatSame
<1>5. g[n + 1] = MessageToChat(g[n], e)
  <2> DEFINE j == n + 1
  <2>1. j \in 0 .. n + 1 /\ j # 0 /\ j - 1 = n /\ t[j] = e
    BY <1>1
  <2> HIDE DEF j
  <2>2. g[j] = MessageToChat(g[j - 1], t[j])
    BY <1>3, <2>1 DEF IsMessagesToChat
  <2>3. g[j] = MessageToChat(g[n], e)
    BY <2>1, <2>2
  <2> QED BY <2>3 DEF j
<1> QED BY <1>2, <1>3, <1>4, <1>5 DEF t

IsParseItems(f, s, n) ==
    f = [k \in 0 .. n |-> IF k = 0 THEN <<>> ELSE ParseItem(f[k - 1], s[k])]

LEMMA ParseItemsExists ==
    ASSUME NEW s, NEW n \in Nat
    PROVE  \E f : IsParseItems(f, s, n)
<1> DEFINE S == {m \in Nat : \E f : IsParseItems(f, s, m)}
<1>1. 0 \in S
  <2>1. IsParseItems([k \in 0 .. 0 |-> <<>>], s, 0)
    BY DEF IsParseItems
  <2> QED BY <2>1
<1>2. ASSUME NEW m \in S PROVE m + 1 \in S
  <2>1. PICK f : IsParseItems(f, s, m)
    OBVIOUS
  <2> DEFINE z == ParseItem(f[m], s[m + 1])
             g == [k \in 0 .. m + 1 |-> IF k <= m THEN f[k] ELSE z]
  <2>2. ASSUME NEW k \in 0 .. m + 1
        PROVE  g[k] = IF k = 0 THEN <<>> ELSE ParseItem(g[k - 1], s[k])
    <3>1. m \in Nat
      OBVIOUS
    <3> HIDE DEF z
    <3>2. CASE k = m + 1
      <4>1. g[k] = z /\ g[k - 1] = f[m] /\ k # 0
        BY <3>1, <3>2
      <4> HIDE DEF g
      <4> QED BY <3>2, <4>1 DEF z
    <3>3. CASE k \in 0 .. m
      <4>1. f[k] = IF k = 0 THEN <<>> ELSE ParseItem(f[k - 1], s[k])
        BY <2>1, <3>3 DEF IsParseItems
      <4>2. g[k] = f[k] /\ (k # 0 => g[k - 1] = f[k - 1])
        BY <3>1, <3>3
      <4> HIDE DEF g
      <4> QED BY <4>1, <4>2
    <3> QED BY <3>1, <3>2, <3>3
  <2>3. g = [k \in 0 .. m + 1 |-> g[k]]
    OBVIOUS
  <2> HIDE DEF g
  <2>4. IsParseItems(g, s, m + 1)
    BY <2>2, <2>3 DEF IsParseItems
  <2> QED BY <2>4
<1> HIDE DEF S
<1>3. S = Nat
  <2>1. S \in SUBSET Nat
    BY DEF S
  <2> QED BY <1>1, <1>2, <2>1, SetInduction
<1> QED BY <1>3 DEF S

LEMMA ParseItemsSame ==
    ASSUME NEW s, NEW t, NEW n \in Nat, NEW m \in Nat, n <= m, NEW f, NEW g,
           IsParseItems(f, s, n), IsParseItems(g, t, m), \A k \in 1 .. n : s[k] = t[k]
    PROVE  f[n] = g[n]
<1> DEFINE S == {k \in Nat : k <= n => f[k] = g[k]}
<1>1. 0 \in S
  BY DEF IsParseItems
<1>2. ASSUME NEW k \in S PROVE k + 1 \in S
  <2>1. SUFFICES ASSUME k + 1 <= n PROVE f[k + 1] = g[k + 1]
    OBVIOUS
  <2>2. f[k] = g[k]
    BY <2>1
  <2> DEFINE j == k + 1
  <2>3. j \in 1 .. n /\ j # 0 /\ j - 1 = k /\ j \in 0 .. n /\ j \in 0 .. m
    BY <2>1
  <2> HIDE DEF j
  <2>4. f[j] = ParseItem(f[j - 1], s[j])
    BY <2>3 DEF IsParseItems
  <2>5. g[j] = ParseItem(g[j - 1], t[j])
    BY <2>3 DEF IsParseItems
  <2>6. f[j] = g[j]
    BY <2>2, <2>3, <2>4, <2>5
  <2> QED BY <2>6 DEF j
<1> HIDE DEF S
<1>3. S = Nat
  <2>1. S \in SUBSET Nat
    BY DEF S
  <2> QED BY <1>1, <1>2, <2>1, SetInduction
<1> QED BY <1>3 DEF S

LEMMA ParseItemsStep ==
    ASSUME NEW s, IsSeq(s)
    PROVE  \E f : IsParseItems(f, s, Len(s)) /\ ParseItems(s) = f[Len(s)]
<1>1. \E f : IsParseItems(f, s, Len(s))
  BY SeqLength, ParseItemsExists
<1>2. ParseItems(s) = (CHOOSE f : IsParseItems(f, s, Len(s)))[Len(s)]
  BY DEF ParseItems, IsParseItems
<1> QED BY <1>1, <1>2

LEMMA ParseItemsEmpty == ParseItems(<<>>) = <<>>
<1>1. PICK f : IsParseItems(f, <<>>, 0) /\ ParseItems(<<>>) = f[0]
  BY EmptyIsSeq, ParseItemsStep
<1> QED BY <1>1 DEF IsParseItems

LEMMA ParseItemsAppend ==
    ASSUME NEW s, IsSeq(s), NEW e
    PROVE  ParseItems(Append(s, e)) = ParseItem(ParseItems(s), e)
<1> DEFINE t == Append(s, e)
           n == Len(s)
<1>1. /\ IsSeq(t) /\ n \in Nat /\ Len(t) = n + 1
      /\ \A j \in 1 .. n : t[j] = s[j]
      /\ t[n + 1] = e
  BY Appended
<1> HIDE DEF t
<1>2. PICK f : IsParseItems(f, s, n) /\ ParseItems(s) = f[n]
  BY ParseItemsStep
<1> HIDE DEF n
<1>3. PICK g : IsParseItems(g, t, n + 1) /\ ParseItems(t) = g[n + 1]
  BY <1>1, ParseItemsStep
<1>4. f[n] = g[n]
  <2>1. n + 1 \in Nat /\ n <= n + 1 /\ \A k \in 1 .. n : s[k] = t[k]
    BY <1>1
  <2> QED BY <1>1, <1>2, <1>3, <2>1, ParseItemsSame
<1>5. g[n + 1] = ParseItem(g[n], e)
  <2> DEFINE j == n + 1
  <2>1. j \in 0 .. n + 1 /\ j # 0 /\ j - 1 = n /\ t[j] = e
    BY <1>1
  <2> HIDE DEF j
  <2>2. g[j] = ParseItem(g[j - 1], t[j])
    BY <1>3, <2>1 DEF IsParseItems
  <2>3. g[j] = ParseItem(g[n], e)
    BY <2>1, <2>2
  <2> QED BY <2>3 DEF j
<1> QED BY <1>2, <1>3, <1>4, <1>5 DEF t

IsAddBlocks(f, first, role, s, n) ==
    f = [k \in 0 .. n |-> IF k = 0 THEN [items |-> <<>>, parts |-> first] ELSE AddBlock(f[k - 1], role, s[k])]

LEMMA AddBlocksExists ==
    ASSUME NEW first, NEW role, NEW s, NEW n \in Nat
    PROVE  \E f : IsAddBlocks(f, first, role, s, n)
<1> DEFINE S == {m \in Nat : \E f : IsAddBlocks(f, first, role, s, m)}
<1>1. 0 \in S
  <2>1. IsAddBlocks([k \in 0 .. 0 |-> [items |-> <<>>, parts |-> first]], first, role, s, 0)
    BY DEF IsAddBlocks
  <2> QED BY <2>1
<1>2. ASSUME NEW m \in S PROVE m + 1 \in S
  <2>1. PICK f : IsAddBlocks(f, first, role, s, m)
    OBVIOUS
  <2> DEFINE z == AddBlock(f[m], role, s[m + 1])
             g == [k \in 0 .. m + 1 |-> IF k <= m THEN f[k] ELSE z]
  <2>2. ASSUME NEW k \in 0 .. m + 1
        PROVE  g[k] = IF k = 0 THEN [items |-> <<>>, parts |-> first] ELSE AddBlock(g[k - 1], role, s[k])
    <3>1. m \in Nat
      OBVIOUS
    <3> HIDE DEF z
    <3>2. CASE k = m + 1
      <4>1. g[k] = z /\ g[k - 1] = f[m] /\ k # 0
        BY <3>1, <3>2
      <4> HIDE DEF g
      <4> QED BY <3>2, <4>1 DEF z
    <3>3. CASE k \in 0 .. m
      <4>1. f[k] = IF k = 0 THEN [items |-> <<>>, parts |-> first] ELSE AddBlock(f[k - 1], role, s[k])
        BY <2>1, <3>3 DEF IsAddBlocks
      <4>2. g[k] = f[k] /\ (k # 0 => g[k - 1] = f[k - 1])
        BY <3>1, <3>3
      <4> HIDE DEF g
      <4> QED BY <4>1, <4>2
    <3> QED BY <3>1, <3>2, <3>3
  <2>3. g = [k \in 0 .. m + 1 |-> g[k]]
    OBVIOUS
  <2> HIDE DEF g
  <2>4. IsAddBlocks(g, first, role, s, m + 1)
    BY <2>2, <2>3 DEF IsAddBlocks
  <2> QED BY <2>4
<1> HIDE DEF S
<1>3. S = Nat
  <2>1. S \in SUBSET Nat
    BY DEF S
  <2> QED BY <1>1, <1>2, <2>1, SetInduction
<1> QED BY <1>3 DEF S

LEMMA AddBlocksSame ==
    ASSUME NEW first, NEW role, NEW s, NEW t, NEW n \in Nat, NEW m \in Nat, n <= m, NEW f, NEW g,
           IsAddBlocks(f, first, role, s, n), IsAddBlocks(g, first, role, t, m), \A k \in 1 .. n : s[k] = t[k]
    PROVE  f[n] = g[n]
<1> DEFINE S == {k \in Nat : k <= n => f[k] = g[k]}
<1>1. 0 \in S
  BY DEF IsAddBlocks
<1>2. ASSUME NEW k \in S PROVE k + 1 \in S
  <2>1. SUFFICES ASSUME k + 1 <= n PROVE f[k + 1] = g[k + 1]
    OBVIOUS
  <2>2. f[k] = g[k]
    BY <2>1
  <2> DEFINE j == k + 1
  <2>3. j \in 1 .. n /\ j # 0 /\ j - 1 = k /\ j \in 0 .. n /\ j \in 0 .. m
    BY <2>1
  <2> HIDE DEF j
  <2>4. f[j] = AddBlock(f[j - 1], role, s[j])
    BY <2>3 DEF IsAddBlocks
  <2>5. g[j] = AddBlock(g[j - 1], role, t[j])
    BY <2>3 DEF IsAddBlocks
  <2>6. f[j] = g[j]
    BY <2>2, <2>3, <2>4, <2>5
  <2> QED BY <2>6 DEF j
<1> HIDE DEF S
<1>3. S = Nat
  <2>1. S \in SUBSET Nat
    BY DEF S
  <2> QED BY <1>1, <1>2, <2>1, SetInduction
<1> QED BY <1>3 DEF S

LEMMA AddBlocksStep ==
    ASSUME NEW first, NEW role, NEW s, IsSeq(s)
    PROVE  \E f : IsAddBlocks(f, first, role, s, Len(s)) /\ AddBlocks(first, role, s) = f[Len(s)]
<1>1. \E f : IsAddBlocks(f, first, role, s, Len(s))
  BY SeqLength, AddBlocksExists
<1>2. AddBlocks(first, role, s) = (CHOOSE f : IsAddBlocks(f, first, role, s, Len(s)))[Len(s)]
  BY DEF AddBlocks, IsAddBlocks
<1> QED BY <1>1, <1>2

LEMMA AddBlocksEmpty == ASSUME NEW first, NEW role PROVE  AddBlocks(first, role, <<>>) = [items |-> <<>>, parts |-> first]
<1>1. PICK f : IsAddBlocks(f, first, role, <<>>, 0) /\ AddBlocks(first, role, <<>>) = f[0]
  BY EmptyIsSeq, AddBlocksStep
<1> QED BY <1>1 DEF IsAddBlocks

LEMMA AddBlocksAppend ==
    ASSUME NEW first, NEW role, NEW s, IsSeq(s), NEW e
    PROVE  AddBlocks(first, role, Append(s, e)) = AddBlock(AddBlocks(first, role, s), role, e)
<1> DEFINE t == Append(s, e)
           n == Len(s)
<1>1. /\ IsSeq(t) /\ n \in Nat /\ Len(t) = n + 1
      /\ \A j \in 1 .. n : t[j] = s[j]
      /\ t[n + 1] = e
  BY Appended
<1> HIDE DEF t
<1>2. PICK f : IsAddBlocks(f, first, role, s, n) /\ AddBlocks(first, role, s) = f[n]
  BY AddBlocksStep
<1> HIDE DEF n
<1>3. PICK g : IsAddBlocks(g, first, role, t, n + 1) /\ AddBlocks(first, role, t) = g[n + 1]
  BY <1>1, AddBlocksStep
<1>4. f[n] = g[n]
  <2>1. n + 1 \in Nat /\ n <= n + 1 /\ \A k \in 1 .. n : s[k] = t[k]
    BY <1>1
  <2> QED BY <1>1, <1>2, <1>3, <2>1, AddBlocksSame
<1>5. g[n + 1] = AddBlock(g[n], role, e)
  <2> DEFINE j == n + 1
  <2>1. j \in 0 .. n + 1 /\ j # 0 /\ j - 1 = n /\ t[j] = e
    BY <1>1
  <2> HIDE DEF j
  <2>2. g[j] = AddBlock(g[j - 1], role, t[j])
    BY <1>3, <2>1 DEF IsAddBlocks
  <2>3. g[j] = AddBlock(g[n], role, e)
    BY <2>1, <2>2
  <2> QED BY <2>3 DEF j
<1> QED BY <1>2, <1>3, <1>4, <1>5 DEF t

IsToAnthropic(f, s, n) ==
    f = [k \in 0 .. n |-> IF k = 0 THEN <<>> ELSE AddEntry(f[k - 1], s[k])]

LEMMA ToAnthropicExists ==
    ASSUME NEW s, NEW n \in Nat
    PROVE  \E f : IsToAnthropic(f, s, n)
<1> DEFINE S == {m \in Nat : \E f : IsToAnthropic(f, s, m)}
<1>1. 0 \in S
  <2>1. IsToAnthropic([k \in 0 .. 0 |-> <<>>], s, 0)
    BY DEF IsToAnthropic
  <2> QED BY <2>1
<1>2. ASSUME NEW m \in S PROVE m + 1 \in S
  <2>1. PICK f : IsToAnthropic(f, s, m)
    OBVIOUS
  <2> DEFINE z == AddEntry(f[m], s[m + 1])
             g == [k \in 0 .. m + 1 |-> IF k <= m THEN f[k] ELSE z]
  <2>2. ASSUME NEW k \in 0 .. m + 1
        PROVE  g[k] = IF k = 0 THEN <<>> ELSE AddEntry(g[k - 1], s[k])
    <3>1. m \in Nat
      OBVIOUS
    <3> HIDE DEF z
    <3>2. CASE k = m + 1
      <4>1. g[k] = z /\ g[k - 1] = f[m] /\ k # 0
        BY <3>1, <3>2
      <4> HIDE DEF g
      <4> QED BY <3>2, <4>1 DEF z
    <3>3. CASE k \in 0 .. m
      <4>1. f[k] = IF k = 0 THEN <<>> ELSE AddEntry(f[k - 1], s[k])
        BY <2>1, <3>3 DEF IsToAnthropic
      <4>2. g[k] = f[k] /\ (k # 0 => g[k - 1] = f[k - 1])
        BY <3>1, <3>3
      <4> HIDE DEF g
      <4> QED BY <4>1, <4>2
    <3> QED BY <3>1, <3>2, <3>3
  <2>3. g = [k \in 0 .. m + 1 |-> g[k]]
    OBVIOUS
  <2> HIDE DEF g
  <2>4. IsToAnthropic(g, s, m + 1)
    BY <2>2, <2>3 DEF IsToAnthropic
  <2> QED BY <2>4
<1> HIDE DEF S
<1>3. S = Nat
  <2>1. S \in SUBSET Nat
    BY DEF S
  <2> QED BY <1>1, <1>2, <2>1, SetInduction
<1> QED BY <1>3 DEF S

LEMMA ToAnthropicSame ==
    ASSUME NEW s, NEW t, NEW n \in Nat, NEW m \in Nat, n <= m, NEW f, NEW g,
           IsToAnthropic(f, s, n), IsToAnthropic(g, t, m), \A k \in 1 .. n : s[k] = t[k]
    PROVE  f[n] = g[n]
<1> DEFINE S == {k \in Nat : k <= n => f[k] = g[k]}
<1>1. 0 \in S
  BY DEF IsToAnthropic
<1>2. ASSUME NEW k \in S PROVE k + 1 \in S
  <2>1. SUFFICES ASSUME k + 1 <= n PROVE f[k + 1] = g[k + 1]
    OBVIOUS
  <2>2. f[k] = g[k]
    BY <2>1
  <2> DEFINE j == k + 1
  <2>3. j \in 1 .. n /\ j # 0 /\ j - 1 = k /\ j \in 0 .. n /\ j \in 0 .. m
    BY <2>1
  <2> HIDE DEF j
  <2>4. f[j] = AddEntry(f[j - 1], s[j])
    BY <2>3 DEF IsToAnthropic
  <2>5. g[j] = AddEntry(g[j - 1], t[j])
    BY <2>3 DEF IsToAnthropic
  <2>6. f[j] = g[j]
    BY <2>2, <2>3, <2>4, <2>5
  <2> QED BY <2>6 DEF j
<1> HIDE DEF S
<1>3. S = Nat
  <2>1. S \in SUBSET Nat
    BY DEF S
  <2> QED BY <1>1, <1>2, <2>1, SetInduction
<1> QED BY <1>3 DEF S

LEMMA ToAnthropicStep ==
    ASSUME NEW s, IsSeq(s)
    PROVE  \E f : IsToAnthropic(f, s, Len(s)) /\ ToAnthropic(s) = f[Len(s)]
<1>1. \E f : IsToAnthropic(f, s, Len(s))
  BY SeqLength, ToAnthropicExists
<1>2. ToAnthropic(s) = (CHOOSE f : IsToAnthropic(f, s, Len(s)))[Len(s)]
  BY DEF ToAnthropic, IsToAnthropic
<1> QED BY <1>1, <1>2

LEMMA ToAnthropicEmpty == ToAnthropic(<<>>) = <<>>
<1>1. PICK f : IsToAnthropic(f, <<>>, 0) /\ ToAnthropic(<<>>) = f[0]
  BY EmptyIsSeq, ToAnthropicStep
<1> QED BY <1>1 DEF IsToAnthropic

LEMMA ToAnthropicAppend ==
    ASSUME NEW s, IsSeq(s), NEW e
    PROVE  ToAnthropic(Append(s, e)) = AddEntry(ToAnthropic(s), e)
<1> DEFINE t == Append(s, e)
           n == Len(s)
<1>1. /\ IsSeq(t) /\ n \in Nat /\ Len(t) = n + 1
      /\ \A j \in 1 .. n : t[j] = s[j]
      /\ t[n + 1] = e
  BY Appended
<1> HIDE DEF t
<1>2. PICK f : IsToAnthropic(f, s, n) /\ ToAnthropic(s) = f[n]
  BY ToAnthropicStep
<1> HIDE DEF n
<1>3. PICK g : IsToAnthropic(g, t, n + 1) /\ ToAnthropic(t) = g[n + 1]
  BY <1>1, ToAnthropicStep
<1>4. f[n] = g[n]
  <2>1. n + 1 \in Nat /\ n <= n + 1 /\ \A k \in 1 .. n : s[k] = t[k]
    BY <1>1
  <2> QED BY <1>1, <1>2, <1>3, <2>1, ToAnthropicSame
<1>5. g[n + 1] = AddEntry(g[n], e)
  <2> DEFINE j == n + 1
  <2>1. j \in 0 .. n + 1 /\ j # 0 /\ j - 1 = n /\ t[j] = e
    BY <1>1
  <2> HIDE DEF j
  <2>2. g[j] = AddEntry(g[j - 1], t[j])
    BY <1>3, <2>1 DEF IsToAnthropic
  <2>3. g[j] = AddEntry(g[n], e)
    BY <2>1, <2>2
  <2> QED BY <2>3 DEF j
<1> QED BY <1>2, <1>3, <1>4, <1>5 DEF t

-----------------------------------------------------------------------------
(* Entries as a client knows them *)

\* Phrases of texts, apart from those that the gateway adds
Uttered == {"text", "plain", "prelude", "closing", "system"}
KindsOf(type) == CASE type = "text" -> Uttered [] type = "media" -> {"media"}
                   [] type = "thinking" -> {"thinking"}
VoicedBlock(b) ==
    /\ b.type \in {"text", "media", "thinking"} /\ IsSeq(b.text) /\ b.text # <<>> /\ b.content = <<>>
    /\ \A j \in 1 .. Len(b.text) : b.text[j].kind \in KindsOf(b.type)
IsVoiced(bs) == IsSeq(bs) /\ \A k \in 1 .. Len(bs) : VoicedBlock(bs[k])
IsPlain(bs)  == IsVoiced(bs) /\ \A k \in 1 .. Len(bs) : bs[k].type # "thinking"
UserEntry(e) ==
    /\ e = Entry("user", <<>>, e.content, <<>>, NoId, "")
    /\ IsPlain(e.content) /\ TextOf(e.content) # <<>>
ToolEntry(c, e) ==
    /\ e = Entry("tool", <<>>, e.content, <<>>, e.id, "")
    /\ IsPlain(e.content)
    /\ c = "chat" => \A k \in 1 .. Len(e.content) : e.content[k].type = "text"
AnswerEntry(e) ==
    /\ e = Entry("assistant", e.thinking, e.content, e.calls, NoId, e.finish)
    /\ IsSeq(e.thinking) /\ IsWords(e.content) /\ IsCalls(e.calls)
    /\ e.thinking # <<>> \/ e.content # <<>> \/ e.calls # <<>>
    /\ IsVoiced(Thought(e.thinking)) /\ IsVoiced(e.content)
KnownEntry(c, e) == UserEntry(e) \/ ToolEntry(c, e) \/ AnswerEntry(e)

LEMMA VoicedIsGood == ASSUME NEW bs, IsVoiced(bs) PROVE Good(bs) /\ Texted(bs) /\ IsSeq(bs)
<1>1. ASSUME NEW k \in 1 .. Len(bs) PROVE GoodBlock(bs[k])
  <2> DEFINE b == bs[k]
  <2>1. b.type \in {"text", "media", "thinking"} /\ IsSeq(b.text) /\ b.content = <<>>
    BY DEF IsVoiced, VoicedBlock
  <2> HIDE DEF b
  <2>2. GoodBlock(b)
    BY <2>1, EmptyGood DEF GoodBlock, Types
  <2> QED BY <2>2 DEF b
<1>2. Good(bs)
  BY <1>1 DEF Good, IsVoiced
<1> QED BY <1>2, GoodIsTexted DEF IsVoiced

LEMMA PlainIsGood == ASSUME NEW bs, IsPlain(bs) PROVE Good(bs) /\ Texted(bs) /\ IsSeq(bs)
<1> QED BY VoicedIsGood DEF IsPlain

LEMMA OfVoiced ==
    ASSUME NEW bs, IsVoiced(bs)
    PROVE  \A type \in {"tool_use", "tool_result"} :
              OfType(bs, type) = <<>> /\ Without(bs, type) = bs
<1> SUFFICES ASSUME NEW type \in {"tool_use", "tool_result"}
             PROVE  OfType(bs, type) = <<>> /\ Without(bs, type) = bs
  OBVIOUS
<1>1. \A k \in 1 .. Len(bs) : bs[k].type # type
  BY DEF IsVoiced, VoicedBlock
<1> QED BY <1>1, NoneOfType DEF IsVoiced

LEMMA OfPlain ==
    ASSUME NEW bs, IsPlain(bs)
    PROVE  \A type \in {"thinking", "tool_use", "tool_result"} :
              OfType(bs, type) = <<>> /\ Without(bs, type) = bs
<1> SUFFICES ASSUME NEW type \in {"thinking", "tool_use", "tool_result"}
             PROVE  OfType(bs, type) = <<>> /\ Without(bs, type) = bs
  OBVIOUS
<1>1. \A k \in 1 .. Len(bs) : bs[k].type # type
  BY DEF IsPlain, IsVoiced, VoicedBlock
<1> QED BY <1>1, NoneOfType DEF IsPlain, IsVoiced

LEMMA EmptyContent ==
    ASSUME NEW n
    PROVE  /\ Content({}, n) = <<>>
           /\ Content({"text"}, n) = <<Text(<<Phrase("text", n)>>)>>
           /\ Content({"media"}, n) = <<Media(<<Phrase("media", n)>>)>>
           /\ Content({"text", "media"}, n)
              = Cat(<<Text(<<Phrase("text", n)>>)>>, <<Media(<<Phrase("media", n)>>)>>)
<1> DEFINE a == <<Text(<<Phrase("text", n)>>)>>
           b == <<Media(<<Phrase("media", n)>>)>>
<1>1. IsSeq(a) /\ IsSeq(b)
  BY One
<1>2. /\ Content({}, n) = Cat(<<>>, <<>>) /\ Content({"text"}, n) = Cat(a, <<>>)
      /\ Content({"media"}, n) = Cat(<<>>, b) /\ Content({"text", "media"}, n) = Cat(a, b)
  BY DEF Content, Cat
<1> HIDE DEF a, b
<1>3. Cat(<<>>, <<>>) = <<>> /\ Cat(a, <<>>) = a /\ Cat(<<>>, b) = b
  BY <1>1, CatEmpty, CatEmpties
<1> QED BY <1>2, <1>3 DEF a, b

LEMMA VoicedCat ==
    ASSUME NEW s, IsVoiced(s), NEW t, IsVoiced(t)
    PROVE  IsVoiced(Cat(s, t)) /\ (IsPlain(s) /\ IsPlain(t) => IsPlain(Cat(s, t)))
<1> USE DEF Cat
<1> DEFINE u == s \o t
           m == Len(s)
           n == Len(t)
<1>1. IsSeq(s) /\ IsSeq(t)
  BY DEF IsVoiced
<1>2. Joins(u, s, t) /\ m \in Nat /\ n \in Nat
  BY <1>1, JoinsUp, SeqLength
<1>3. /\ IsSeq(u) /\ Len(u) = m + n
      /\ \A j \in 1 .. m : u[j] = s[j]
      /\ \A j \in 1 .. n : u[m + j] = t[j]
  BY <1>2 DEF Joins
<1> HIDE DEF u
<1>4. ASSUME NEW j \in 1 .. m + n
      PROVE  VoicedBlock(u[j]) /\ (IsPlain(s) /\ IsPlain(t) => u[j].type # "thinking")
  <2>1. CASE j \in 1 .. m
    BY <2>1, <1>3 DEF IsVoiced, IsPlain
  <2>2. CASE j \notin 1 .. m
    <3>1. j - m \in 1 .. n /\ m + (j - m) = j
      BY <2>2, <1>2
    <3> QED BY <3>1, <1>3 DEF IsVoiced, IsPlain
  <2> QED BY <2>1, <2>2
<1> QED BY <1>3, <1>4 DEF IsVoiced, IsPlain, u

LEMMA OneVoiced ==
    ASSUME NEW b, VoicedBlock(b)
    PROVE  IsVoiced(<<b>>) /\ (b.type # "thinking" => IsPlain(<<b>>))
<1> DEFINE s == <<b>>
<1>1. IsSeq(s) /\ Len(s) = 1 /\ s[1] = b
  BY One
<1> HIDE DEF s
<1>2. IsVoiced(s) /\ (b.type # "thinking" => IsPlain(s))
  BY <1>1 DEF IsPlain, IsVoiced
<1> QED BY <1>2 DEF s

LEMMA EmptyVoiced == IsVoiced(<<>>) /\ IsPlain(<<>>)
<1> QED BY EmptyIsSeq DEF IsPlain, IsVoiced

\* A block of one phrase
LEMMA OnePhrase ==
    ASSUME NEW kind, NEW n
    PROVE  /\ kind \in Uttered => VoicedBlock(Text(<<Phrase(kind, n)>>))
           /\ kind = "media" => VoicedBlock(Media(<<Phrase(kind, n)>>))
           /\ kind = "thinking" => VoicedBlock(Thinking(<<Phrase(kind, n)>>))
<1> DEFINE p == Phrase(kind, n)
           t == <<p>>
<1>1. p.kind = kind
  BY DEF Phrase
<1> HIDE DEF p
<1>2. IsSeq(t) /\ t # <<>> /\ Len(t) = 1 /\ t[1] = p
  BY One
<1> HIDE DEF t
<1>3. \A j \in 1 .. Len(t) : t[j].kind = kind
  BY <1>1, <1>2
<1>4. VoicedBlock(Text(t)) \/ kind \notin Uttered
  <2> DEFINE b == Text(t)
  <2>1. b.type = "text" /\ b.text = t /\ b.content = <<>>
    BY DEF Text, Block
  <2> HIDE DEF b
  <2>2. VoicedBlock(b) \/ kind \notin Uttered
    BY <1>2, <1>3, <2>1 DEF VoicedBlock, KindsOf
  <2> QED BY <2>2 DEF b
<1>5. VoicedBlock(Media(t)) \/ kind # "media"
  <2> DEFINE b == Media(t)
  <2>1. b.type = "media" /\ b.text = t /\ b.content = <<>>
    BY DEF Media, Block
  <2> HIDE DEF b
  <2>2. VoicedBlock(b) \/ kind # "media"
    BY <1>2, <1>3, <2>1 DEF VoicedBlock, KindsOf
  <2> QED BY <2>2 DEF b
<1>6. VoicedBlock(Thinking(t)) \/ kind # "thinking"
  <2> DEFINE b == Thinking(t)
  <2>1. b.type = "thinking" /\ b.text = t /\ b.content = <<>>
    BY DEF Thinking, Block
  <2> HIDE DEF b
  <2>2. VoicedBlock(b) \/ kind # "thinking"
    BY <1>2, <1>3, <2>1 DEF VoicedBlock, KindsOf
  <2> QED BY <2>2 DEF b
<1> QED BY <1>4, <1>5, <1>6 DEF t, p

\* What is said with and without an attachment
LEMMA ContentIs ==
    ASSUME NEW kinds \in SUBSET {"text", "media"}, NEW n
    PROVE  LET c == Content(kinds, n)
           IN  /\ IsPlain(c)
               /\ TextOf(c) = IF "text" \in kinds THEN <<Phrase("text", n)>> ELSE <<>>
               /\ OfType(c, "media") = IF "media" \in kinds THEN <<Media(<<Phrase("media", n)>>)>> ELSE <<>>
               /\ "media" \notin kinds => \A k \in 1 .. Len(c) : c[k].type = "text"
<1> DEFINE a == Text(<<Phrase("text", n)>>)
           b == Media(<<Phrase("media", n)>>)
           t == <<Phrase("text", n)>>
<1>1. a.type = "text" /\ a.text = t /\ a.content = <<>> /\ IsSeq(t)
  BY One DEF Text, Block
<1>2. b.type = "media" /\ IsSeq(b.text) /\ b.content = <<>>
  BY One DEF Media, Block
<1>3. /\ Content({}, n) = <<>> /\ Content({"text"}, n) = <<a>>
      /\ Content({"media"}, n) = <<b>> /\ Content({"text", "media"}, n) = Cat(<<a>>, <<b>>)
  BY EmptyContent
<1>4. kinds \in {{}, {"text"}, {"media"}, {"text", "media"}}
  OBVIOUS
<1>14. VoicedBlock(a) /\ VoicedBlock(b)
  BY OnePhrase DEF Uttered
<1> HIDE DEF a
<1>5. IsPlain(<<>>) /\ IsPlain(<<a>>) /\ IsPlain(<<b>>)
  <2> HIDE DEF b, t
  <2> QED BY <1>1, <1>2, <1>14, EmptyVoiced, OneVoiced
<1>6. Texted(<<>>) /\ Texted(<<a>>) /\ Texted(<<b>>)
  BY <1>5, PlainIsGood
<1>7. TextOf(<<>>) = <<>> /\ TextOf(<<a>>) = t /\ TextOf(<<b>>) = <<>>
  <2> HIDE DEF b, t
  <2>1. OfType(<<a>>, "text") = <<a>> /\ OfType(<<b>>, "text") = <<>> /\ OfType(<<>>, "text") = <<>>
    BY <1>1, <1>2, OneOfType, EmptyOfType
  <2> QED BY <1>1, <2>1, OneJoined, EmptyJoined DEF TextOf
<1>8. OfType(<<>>, "media") = <<>> /\ OfType(<<a>>, "media") = <<>> /\ OfType(<<b>>, "media") = <<b>>
  <2> HIDE DEF b
  <2> QED BY <1>1, <1>2, OneOfType, EmptyOfType
<1>9. IsSeq(<<a>>) /\ IsSeq(<<b>>)
  BY One
<1>10. CASE kinds = {}
  BY <1>3, <1>5, <1>7, <1>8, <1>10, EmptyIsSeq
<1>11. CASE kinds = {"text"}
  <2>1. \A k \in 1 .. Len(<<a>>) : <<a>>[k].type = "text"
    BY <1>1, One
  <2> QED BY <1>3, <1>5, <1>7, <1>8, <1>11, <2>1
<1>12. CASE kinds = {"media"}
  BY <1>3, <1>5, <1>7, <1>8, <1>12
<1>13. CASE kinds = {"text", "media"}
  <2> HIDE DEF b, t
  <2>1. IsPlain(Cat(<<a>>, <<b>>))
    BY <1>5, VoicedCat DEF IsPlain
  <2>2. TextOf(Cat(<<a>>, <<b>>)) = Cat(t, <<>>)
    BY <1>6, <1>7, TextOfCat
  <2>3. OfType(Cat(<<a>>, <<b>>), "media") = Cat(<<>>, <<b>>)
    BY <1>8, <1>9, OfTypeCat
  <2>4. Cat(t, <<>>) = t /\ Cat(<<>>, <<b>>) = <<b>>
    BY <1>1, <1>9, CatEmpty
  <2> QED BY <1>3, <1>13, <2>1, <2>2, <2>3, <2>4 DEF t, b
<1> QED BY <1>4, <1>10, <1>11, <1>12, <1>13

LEMMA SaidIsVoiced ==
    ASSUME NEW shape \in AnswerShapes, NEW k
    PROVE  IsVoiced(Thought(Said(shape, k).thinking)) /\ IsVoiced(Said(shape, k).content)
<1> DEFINE e == Said(shape, k)
           a == Phrase("thinking", k)
           b == Text(<<Phrase(shape.text, k)>>)
<1>1. /\ e.thinking = IF shape.thinking THEN <<a>> ELSE <<>>
      /\ e.content = IF shape.text = "" THEN <<>> ELSE <<b>>
  BY DEF Said, Entry
<1>2. shape.text \in {"", "plain", "prelude", "closing"}
  BY DEF AnswerShapes
<1>3. shape.text # "" => VoicedBlock(b)
  BY <1>2, OnePhrase DEF Uttered
<1>4. VoicedBlock(Thinking(<<a>>))
  BY OnePhrase
<1> HIDE DEF a, b, e
<1>5. <<a>> # <<>>
  BY One
<1>6. IsVoiced(e.content)
  BY <1>1, <1>3, EmptyVoiced, OneVoiced
<1>7. Thought(e.thinking) = <<>> \/ Thought(e.thinking) = <<Thinking(<<a>>)>>
  BY <1>1, <1>5 DEF Thought
<1>8. IsVoiced(Thought(e.thinking))
  BY <1>4, <1>7, EmptyVoiced, OneVoiced
<1> QED BY <1>6, <1>8 DEF e

LEMMA EnteredIsKnown ==
    ASSUME NEW c \in Protocol, NEW k \in Nat, NEW was, NEW now, Entered(c, k, was, now)
    PROVE  /\ IsSpoken(was, k) => UserEntry(now)
           /\ IsResult(c, was) => ToolEntry(c, now)
           /\ IsSaid(was, k) => AnswerEntry(now)
           /\ KnownEntry(c, now)
<1>1. ASSUME IsSpoken(was, k) PROVE UserEntry(now)
  <2>1. now = was
    <3>1. ~IsSaid(was, k)
      BY <1>1, UserOrTool, SaidIsAnswer DEF IsSaid
    <3> QED BY <3>1 DEF Entered
  <2>2. PICK kinds \in {{"text"}, {"text", "media"}} : was = Spoken(kinds, k)
    BY <1>1 DEF IsSpoken
  <2> DEFINE d == Content(kinds, 10 * k)
  <2>3. was = Entry("user", <<>>, d, <<>>, NoId, "") /\ was.content = d
    BY <2>2 DEF Spoken, Entry
  <2>4. kinds \in SUBSET {"text", "media"} /\ "text" \in kinds
    OBVIOUS
  <2>5. IsPlain(d) /\ TextOf(d) = <<Phrase("text", 10 * k)>>
    BY <2>4, ContentIs
  <2>6. TextOf(d) # <<>>
    BY <2>5, One
  <2> HIDE DEF d
  <2> QED BY <2>1, <2>3, <2>5, <2>6 DEF UserEntry
<1>2. ASSUME IsResult(c, was) PROVE ToolEntry(c, now)
  <2>1. now = was
    <3>1. ~IsSaid(was, k)
      BY <1>2, UserOrTool, SaidIsAnswer DEF IsSaid
    <3> QED BY <3>1 DEF Entered
  <2>2. PICK id \in Nat, kinds \in SUBSET {"text", "media"} :
           was = Result(kinds, id) /\ (c = "chat" => "media" \notin kinds)
    BY <1>2 DEF IsResult
  <2> DEFINE d == Content(kinds, id)
  <2>3. was = Entry("tool", <<>>, d, <<>>, id, "") /\ was.content = d /\ was.id = id
    BY <2>2 DEF Result, Entry
  <2>5. IsPlain(d) /\ ("media" \notin kinds => \A j \in 1 .. Len(d) : d[j].type = "text")
    BY ContentIs
  <2> HIDE DEF d
  <2> QED BY <2>1, <2>2, <2>3, <2>5 DEF ToolEntry
<1>3. ASSUME IsSaid(was, k) PROVE AnswerEntry(now)
  <2>1. IsAnswer(was) /\ was.role = "assistant"
    BY <1>3, SaidIsAnswer DEF IsSaid
  <2>2. now = Known(c, was)
    BY <2>1, UserOrTool DEF Entered
  <2>3. IsCalls(was.calls)
    BY <2>1 DEF IsAnswer
  <2>4. IsCalls(KnownCalls(c, was.calls)) /\ (KnownCalls(c, was.calls) = <<>> <=> was.calls = <<>>)
    <3>1. c \in {c}
      OBVIOUS
    <3> QED BY <2>3, <3>1, KnownCallsAre
  <2>5. /\ now.thinking = was.thinking
        /\ now.content = IF c = "chat" /\ was.calls # <<>> THEN <<>> ELSE was.content
        /\ now.calls = KnownCalls(c, was.calls)
        /\ now = Entry("assistant", now.thinking, now.content, now.calls, NoId, now.finish)
    BY <2>2 DEF Known, Entry
  <2>6. IsWords(<<>>) /\ IsWords(was.content) /\ IsSeq(was.thinking)
        /\ (was.thinking # <<>> \/ was.content # <<>> \/ was.calls # <<>>)
    BY <2>1 DEF IsWords, IsAnswer
  <2>7. IsWords(now.content)
    BY <2>5, <2>6
  <2>8. IsVoiced(Thought(was.thinking)) /\ IsVoiced(was.content)
    BY <1>3, SaidIsVoiced DEF IsSaid
  <2>9. IsVoiced(now.content) /\ IsVoiced(Thought(now.thinking))
    BY <2>5, <2>8, EmptyVoiced
  <2> QED BY <2>4, <2>5, <2>6, <2>7, <2>9 DEF AnswerEntry
<1> QED BY <1>1, <1>2, <1>3 DEF Entered, KnownEntry

-----------------------------------------------------------------------------
(* What the gateway parses of a request, entry by entry *)

Parsed(c, h) == ParseRequest(c, Written(c, h))
KnownEntries(c, h) == IsSeq(h) /\ \A k \in 1 .. Len(h) : KnownEntry(c, h[k])

\* A list mapped element by element, with one more element
IsMap(f, s) == f = [k \in DOMAIN s |-> f[k]]

LEMMA MapAppend ==
    ASSUME NEW h, IsSeq(h), NEW e, NEW f, NEW g, IsMap(f, h), IsMap(g, Append(h, e)),
           \A k \in DOMAIN h : g[k] = f[k]
    PROVE  IsSeq(f) /\ Len(f) = Len(h) /\ g = Append(f, g[Len(h) + 1])
<1> DEFINE n == Len(h)
           x == g[n + 1]
           u == Append(f, x)
<1>1. n \in Nat /\ DOMAIN h = 1 .. n /\ DOMAIN Append(h, e) = 1 .. n + 1
  BY Appended
<1> HIDE DEF n
<1>2. f = [k \in 1 .. n |-> f[k]] /\ g = [k \in 1 .. n + 1 |-> g[k]] /\ n + 1 \in Nat
  BY <1>1 DEF IsMap
<1>3. IsSeq(f) /\ Len(f) = n
  BY <1>1, <1>2, FunctionIsSeq
<1>4. IsSeq(g) /\ Len(g) = n + 1
  BY <1>2, FunctionIsSeq
<1> HIDE DEF x
<1>5. IsSeq(u) /\ Len(u) = n + 1 /\ u[n + 1] = x /\ \A k \in 1 .. n : u[k] = f[k]
  BY <1>3, Appended
<1> HIDE DEF u
<1>6. \A k \in 1 .. n + 1 : u[k] = g[k]
  BY <1>1, <1>5 DEF x
<1>7. u = g
  BY <1>4, <1>5, <1>6, SameSeq
<1> QED BY <1>3, <1>7 DEF u, x, n

LEMMA RoleOf ==
    ASSUME NEW c, NEW e
    PROVE  /\ UserEntry(e) => e.role = "user"
           /\ ToolEntry(c, e) => e.role = "tool"
           /\ AnswerEntry(e) => e.role = "assistant"
<1> DEFINE d == e.content
           i == e.id
           t == e.thinking
           cs == e.calls
           f == e.finish
<1>2. UserEntry(e) => e = Entry("user", <<>>, d, <<>>, NoId, "")
  BY DEF UserEntry
<1>3. ToolEntry(c, e) => e = Entry("tool", <<>>, d, <<>>, i, "")
  BY DEF ToolEntry
<1>4. AnswerEntry(e) => e = Entry("assistant", t, d, cs, NoId, f)
  BY DEF AnswerEntry
<1> HIDE DEF d, i, t, cs, f
<1>5. ASSUME UserEntry(e) PROVE e.role = "user"
  <2>1. Entry("user", <<>>, d, <<>>, NoId, "").role = "user"
    BY DEF Entry
  <2> QED BY <1>2, <1>5, <2>1
<1>6. ASSUME ToolEntry(c, e) PROVE e.role = "tool"
  <2>1. Entry("tool", <<>>, d, <<>>, i, "").role = "tool"
    BY DEF Entry
  <2> QED BY <1>3, <1>6, <2>1
<1>7. ASSUME AnswerEntry(e) PROVE e.role = "assistant"
  <2>1. Entry("assistant", t, d, cs, NoId, f).role = "assistant"
    BY DEF Entry
  <2> QED BY <1>4, <1>7, <2>1
<1> QED BY <1>5, <1>6, <1>7

(* Chat Completions *)

ChatParsed(e) == ParseChatMessage(ToChat(e))

LEMMA ChatParsedRole == ASSUME NEW c, NEW e, KnownEntry(c, e) PROVE ChatParsed(e).role # "system" /\ ChatParsed(e).role = e.role
<1>1. e.role \in {"user", "tool", "assistant"}
  <2> QED BY RoleOf DEF KnownEntry
<1>2. ChatParsed(e).role = e.role
  BY DEF ChatParsed, ParseChatMessage, ToChat, ChatMessage, Message
<1> QED BY <1>1, <1>2

LEMMA InstructionsAre ==
    LET a == Phrase("system", 1)
        b == Phrase("system", 2)
    IN  /\ Instructions = <<Text(<<a>>), Text(<<b>>)>>
        /\ Instructions = Cat(<<Instructions[1]>>, <<Instructions[2]>>)
        /\ \A k \in {1, 2} : /\ IsSeq(Instructions[k].text) /\ Instructions[k].type = "text"
                             /\ TextOf(<<Instructions[k]>>) = Instructions[k].text
                             /\ NonEmpty(Instructions[k].text) = <<Instructions[k]>>
                             /\ IsPlain(<<Instructions[k]>>)
        /\ Instructions[1].text = <<a>> /\ Instructions[2].text = <<b>>
<1> DEFINE a == Phrase("system", 1)
           b == Phrase("system", 2)
<1>1. Instructions = <<Text(<<a>>), Text(<<b>>)>>
  BY DEF Instructions
<1>2. Instructions[1] = Text(<<a>>) /\ Instructions[2] = Text(<<b>>)
  BY <1>1
<1>3. <<Text(<<a>>), Text(<<b>>)>> = <<Text(<<a>>)>> \o <<Text(<<b>>)>>
  OBVIOUS
<1>4. Instructions = Cat(<<Instructions[1]>>, <<Instructions[2]>>)
  BY <1>1, <1>2, <1>3 DEF Cat
<1>5. ASSUME NEW n, NEW p, p = Phrase("system", n)
      PROVE  LET t == Text(<<p>>)
             IN  /\ t.type = "text" /\ t.text = <<p>> /\ IsSeq(t.text)
                 /\ TextOf(<<t>>) = t.text /\ NonEmpty(t.text) = <<t>> /\ IsPlain(<<t>>)
  <2> DEFINE t == Text(<<p>>)
  <2>1. t.type = "text" /\ t.text = <<p>> /\ t.content = <<>>
    BY DEF Text, Block
  <2>2. IsSeq(<<p>>) /\ <<p>> # <<>>
    BY One
  <2>3. NonEmpty(<<p>>) = <<t>>
    BY <2>2 DEF NonEmpty
  <2> HIDE DEF t
  <2>4. OfType(<<t>>, "text") = <<t>>
    BY <2>1, OneOfType
  <2>5. Joined(<<t>>) = <<p>>
    BY <2>1, <2>2, OneJoined
  <2>6. IsPlain(<<t>>)
    <3>1. VoicedBlock(t)
      <4>1. VoicedBlock(Text(<<Phrase("system", n)>>))
        BY OnePhrase DEF Uttered
      <4>2. t = Text(<<Phrase("system", n)>>)
        BY <1>5 DEF t
      <4> QED BY <4>1, <4>2
    <3> QED BY <2>1, <3>1, OneVoiced
  <2> QED BY <2>1, <2>2, <2>3, <2>4, <2>5, <2>6 DEF TextOf, t
<1>6. \A k \in {1, 2} : /\ IsSeq(Instructions[k].text) /\ Instructions[k].type = "text"
                        /\ TextOf(<<Instructions[k]>>) = Instructions[k].text
                        /\ NonEmpty(Instructions[k].text) = <<Instructions[k]>>
                        /\ IsPlain(<<Instructions[k]>>)
  BY <1>2, <1>5
<1>7. Instructions[1].text = <<a>> /\ Instructions[2].text = <<b>>
  BY <1>2, <1>5
<1> QED BY <1>1, <1>4, <1>6, <1>7

LEMMA ChatRequest ==
    ASSUME NEW h, KnownEntries("chat", h)
    PROVE  /\ Parsed("chat", h).system = Instructions
           /\ Parsed("chat", h).messages = [k \in DOMAIN h |-> ChatParsed(h[k])]
<1> DEFINE a    == SystemToChat(Instructions[1])
           b    == SystemToChat(Instructions[2])
           pa   == ParseChatMessage(a)
           pb   == ParseChatMessage(b)
           two  == <<a, b>>
           ptwo == <<pa, pb>>
           n    == Len(h)
           rest == [k \in DOMAIN h |-> ToChat(h[k])]
           more == [k \in DOMAIN h |-> ChatParsed(h[k])]
           msgs == two \o rest
           all  == [k \in DOMAIN msgs |-> ParseChatMessage(msgs[k])]
           sys  == {k \in DOMAIN all : all[k].role = "system"}
           own  == {k \in DOMAIN all : all[k].role # "system"}
<1>1. IsSeq(h) /\ n \in Nat /\ DOMAIN h = 1 .. n
  BY SeqLength DEF KnownEntries
<1>2. Parsed("chat", h) = Request(MapFlat(LAMBDA m : NonEmpty(m.text), At(all, sys)), At(all, own))
  <2>1. Written("chat", h).messages = msgs
    BY DEF Written
  <2>2. Parsed("chat", h) = ParseChat(Written("chat", h))
    BY DEF Parsed, ParseRequest
  <2>3. ParseChat(Written("chat", h))
        = Request(MapFlat(LAMBDA m : NonEmpty(m.text), At(all, sys)), At(all, own))
    <3>1. Written("chat", h).messages = msgs
      BY <2>1
    <3> HIDE DEF msgs
    <3> QED BY <3>1 DEF ParseChat
  <2> QED BY <2>2, <2>3
<1>3. pa.role = "system" /\ pb.role = "system"
  BY DEF ParseChatMessage, SystemToChat, ChatMessage, Message
<1>4. pa.text = Instructions[1].text /\ pb.text = Instructions[2].text
  <2>1. pa.text = TextOf(<<Instructions[1]>>) /\ pb.text = TextOf(<<Instructions[2]>>)
    BY DEF ParseChatMessage, SystemToChat, ChatMessage, Message
  <2> QED BY <2>1, InstructionsAre
<1>5. IsSeq(rest) /\ Len(rest) = n /\ \A k \in 1 .. n : rest[k] = ToChat(h[k])
  <2>1. rest = [k \in 1 .. n |-> rest[k]] /\ \A k \in 1 .. n : rest[k] = ToChat(h[k])
    BY <1>1
  <2> HIDE DEF rest
  <2> QED BY <1>1, <2>1, FunctionIsSeq
<1>6. IsSeq(more) /\ Len(more) = n /\ \A k \in 1 .. n : more[k] = ChatParsed(h[k])
  <2>1. more = [k \in 1 .. n |-> more[k]] /\ \A k \in 1 .. n : more[k] = ChatParsed(h[k])
    BY <1>1
  <2> HIDE DEF more
  <2> QED BY <1>1, <2>1, FunctionIsSeq
<1>7. IsSeq(two) /\ Len(two) = 2 /\ two[1] = a /\ two[2] = b
  <2>1. two \in Seq({a, b})
    OBVIOUS
  <2>2. IsSeq(two)
    BY <2>1 DEF IsSeq
  <2> QED BY <2>2
<1>8. IsSeq(ptwo) /\ Len(ptwo) = 2 /\ ptwo[1] = pa /\ ptwo[2] = pb
  <2>1. ptwo \in Seq({pa, pb})
    OBVIOUS
  <2>2. IsSeq(ptwo)
    BY <2>1 DEF IsSeq
  <2> QED BY <2>2
<1> HIDE DEF two, ptwo, rest, a, b, n
<1>9. Joins(msgs, two, rest)
  BY <1>5, <1>7, JoinsUp
<1>10. IsSeq(msgs) /\ Len(msgs) = 2 + n /\ msgs[1] = a /\ msgs[2] = b
       /\ \A k \in 1 .. n : msgs[2 + k] = rest[k]
  BY <1>5, <1>7, <1>9 DEF Joins
<1> HIDE DEF msgs
<1>11. DOMAIN msgs = 1 .. 2 + n
  BY <1>10, SeqLength
<1>12. all = [k \in 1 .. 2 + n |-> all[k]] /\ DOMAIN all = 1 .. 2 + n
  BY <1>11
<1>13. all[1] = pa /\ all[2] = pb /\ \A k \in 1 .. n : all[2 + k] = ChatParsed(h[k])
  <2>1. 1 \in 1 .. 2 + n /\ 2 \in 1 .. 2 + n /\ \A k \in 1 .. n : 2 + k \in 1 .. 2 + n
    BY <1>1
  <2>2. all[1] = ParseChatMessage(msgs[1]) /\ all[2] = ParseChatMessage(msgs[2])
        /\ \A k \in 1 .. n : all[2 + k] = ParseChatMessage(msgs[2 + k])
    BY <2>1, <1>11
  <2> HIDE DEF all
  <2> QED BY <1>5, <1>10, <2>2 DEF ChatParsed
<1> HIDE DEF all, more, pa, pb
<1>14. IsSeq(all) /\ Len(all) = 2 + n
  <2>1. 2 + n \in Nat
    BY <1>1
  <2> QED BY <1>12, <2>1, FunctionIsSeq
<1>15. Joins(all, ptwo, more)
  BY <1>1, <1>6, <1>8, <1>13, <1>14 DEF Joins
<1>16. all = ptwo \o more
  BY <1>6, <1>8, <1>15, Joining
<1>17. /\ 1 \in sys /\ 2 \in sys /\ 1 \notin own /\ 2 \notin own
       /\ \A k \in 1 .. n : 2 + k \notin sys /\ 2 + k \in own
  <2>1. \A k \in 1 .. n : 2 + k \in 1 .. 2 + n
    BY <1>1
  <2>2. \A k \in 1 .. n : all[2 + k].role # "system"
    BY <1>13, ChatParsedRole DEF KnownEntries, n
  <2>3. 1 \in 1 .. 2 + n /\ 2 \in 1 .. 2 + n
    BY <1>1
  <2> QED BY <1>3, <1>12, <1>13, <2>1, <2>2, <2>3
<1> HIDE DEF sys, own
<1> DEFINE P == {1, 2}
           N == 1 .. n
           ok(Q, A, B) == /\ \A k \in 1 .. Len(ptwo) : k \in Q <=> k \in A
                          /\ \A k \in 1 .. Len(more) : Len(ptwo) + k \in Q <=> k \in B
<1>18. \A k \in 1 .. Len(ptwo) : k = 1 \/ k = 2
  BY <1>8
<1>19. ok(sys, P, {}) /\ ok(own, {}, N)
  BY <1>6, <1>8, <1>17, <1>18
<1>20. At(all, sys) = At(ptwo, P) \o At(more, {})
  <2>1. \A k \in 1 .. Len(ptwo) : k \in sys <=> k \in P
    BY <1>19
  <2>2. \A k \in 1 .. Len(more) : Len(ptwo) + k \in sys <=> k \in {}
    BY <1>19
  <2>3. IsSeq(ptwo)
    BY <1>8
  <2>4. IsSeq(more)
    BY <1>6
  <2> HIDE DEF P
  <2>5. At(ptwo \o more, sys) = At(ptwo, P) \o At(more, {})
    BY <2>1, <2>2, <2>3, <2>4, AtConcat
  <2> QED BY <1>16, <2>5
<1>21. At(all, own) = At(ptwo, {}) \o At(more, N)
  <2>1. \A k \in 1 .. Len(ptwo) : k \in own <=> k \in {}
    BY <1>19
  <2>2. \A k \in 1 .. Len(more) : Len(ptwo) + k \in own <=> k \in N
    BY <1>19
  <2>3. IsSeq(ptwo)
    BY <1>8
  <2>4. IsSeq(more)
    BY <1>6
  <2> HIDE DEF N
  <2>5. At(ptwo \o more, own) = At(ptwo, {}) \o At(more, N)
    BY <2>1, <2>2, <2>3, <2>4, AtConcat
  <2> QED BY <1>16, <2>5
<1>22. At(ptwo, P) = ptwo /\ At(ptwo, {}) = <<>>
  <2>1. DOMAIN ptwo \subseteq P
    BY <1>8, <1>18, SeqLength
  <2>2. \A k \in 1 .. Len(ptwo) : k \notin {}
    OBVIOUS
  <2> QED BY <1>8, <2>1, <2>2, AtAll, AtNone
<1>23. At(more, N) = more /\ At(more, {}) = <<>>
  <2>1. DOMAIN more \subseteq N
    BY <1>6, SeqLength
  <2>2. \A k \in 1 .. Len(more) : k \notin {}
    OBVIOUS
  <2> QED BY <1>6, <2>1, <2>2, AtAll, AtNone
<1>24. At(all, sys) = ptwo /\ At(all, own) = more
  BY <1>6, <1>8, <1>20, <1>21, <1>22, <1>23, ConcatEmpty
<1>25. MapFlat(LAMBDA m : NonEmpty(m.text), ptwo) = Instructions
  <2>1. MapFlat(LAMBDA m : NonEmpty(m.text), ptwo)
        = FlattenSeq([k \in DOMAIN ptwo |-> NonEmpty(ptwo[k].text)])
    BY DEF MapFlat
  <2> DEFINE x == <<Instructions[1]>>
             y == <<Instructions[2]>>
  <2>2. NonEmpty(pa.text) = x /\ NonEmpty(pb.text) = y
    BY <1>4, InstructionsAre
  <2>3. [k \in DOMAIN ptwo |-> NonEmpty(ptwo[k].text)] = <<NonEmpty(pa.text), NonEmpty(pb.text)>>
    BY DEF ptwo
  <2>4. IsSeq(x) /\ IsSeq(y)
    BY One
  <2>5. <<x, y>> = Append(<<x>>, y)
    OBVIOUS
  <2> HIDE DEF x, y
  <2>6. IsSeq(<<x>>)
    BY One
  <2>7. FlattenSeq(Append(<<x>>, y)) = FlattenSeq(<<x>>) \o y
    BY <2>4, <2>6, FlatAppend
  <2>8. FlattenSeq(<<x>>) = x
    BY <2>4, FlatOne
  <2>9. FlattenSeq(<<x, y>>) = Cat(x, y)
    BY <2>5, <2>7, <2>8 DEF Cat
  <2> QED BY <2>1, <2>2, <2>3, <2>9, InstructionsAre DEF x, y
<1> QED BY <1>2, <1>24, <1>25 DEF Request, more

-----------------------------------------------------------------------------
(* Lists of lists, one for each element of a sequence *)

Lists(f, s) == IsMap(f, s) /\ \A k \in DOMAIN s : IsSeq(f[k])

LEMMA ListsAre ==
    ASSUME NEW s, IsSeq(s), NEW f, Lists(f, s)
    PROVE  IsSeqs(f) /\ Len(f) = Len(s)
<1> DEFINE n == Len(s)
<1>1. n \in Nat /\ DOMAIN s = 1 .. n
  BY SeqLength
<1> HIDE DEF n
<1>2. f = [k \in 1 .. n |-> f[k]] /\ \A k \in 1 .. n : IsSeq(f[k])
  BY <1>1 DEF Lists, IsMap
<1>3. IsSeq(f) /\ Len(f) = n
  BY <1>1, <1>2, FunctionIsSeq
<1> QED BY <1>2, <1>3 DEF IsSeqs, n

LEMMA FlatLists ==
    ASSUME NEW s, IsSeq(s), NEW f, Lists(f, s)
    PROVE  IsSeq(FlattenSeq(f))
<1> QED BY ListsAre, FlatIsSeq

LEMMA FlatMore ==
    ASSUME NEW h, IsSeq(h), NEW e, NEW f, NEW g,
           IsMap(f, h), IsMap(g, Append(h, e)),
           \A k \in DOMAIN h : g[k] = f[k], IsSeq(g[Len(h) + 1])
    PROVE  FlattenSeq(g) = Cat(FlattenSeq(f), g[Len(h) + 1])
<1> DEFINE x == g[Len(h) + 1]
<1>1. IsSeq(f) /\ g = Append(f, x)
  BY MapAppend
<1> HIDE DEF x
<1>2. IsSeq(x)
  BY DEF x
<1>3. FlattenSeq(Append(f, x)) = FlattenSeq(f) \o x
  BY <1>1, <1>2, FlatAppend
<1> QED BY <1>1, <1>3 DEF Cat, x

LEMMA FlatJoin ==
    ASSUME NEW s, IsSeq(s), NEW t, IsSeq(t), NEW f, Lists(f, s), NEW g, Lists(g, t),
           NEW x, IsMap(x, Cat(s, t)),
           \A k \in 1 .. Len(s) : x[k] = f[k], \A k \in 1 .. Len(t) : x[Len(s) + k] = g[k]
    PROVE  FlattenSeq(x) = Cat(FlattenSeq(f), FlattenSeq(g))
<1> DEFINE m == Len(s)
           n == Len(t)
<1>1. m \in Nat /\ n \in Nat
  BY SeqLength
<1>2. IsSeq(Cat(s, t)) /\ Len(Cat(s, t)) = m + n
  BY Concat DEF Cat
<1>3. DOMAIN Cat(s, t) = 1 .. m + n
  BY <1>2, SeqLength
<1> HIDE DEF m, n
<1>4. x = [k \in 1 .. m + n |-> x[k]] /\ m + n \in Nat
  BY <1>1, <1>3 DEF IsMap
<1>5. IsSeq(x) /\ Len(x) = m + n
  BY <1>4, FunctionIsSeq
<1>6. IsSeqs(f) /\ Len(f) = m
  BY ListsAre DEF m
<1>7. IsSeqs(g) /\ Len(g) = n
  BY ListsAre DEF n
<1>8. Joins(x, f, g)
  BY <1>5, <1>6, <1>7 DEF Joins, m, n
<1>9. x = f \o g
  BY <1>6, <1>7, <1>8, Joining DEF IsSeqs
<1>10. FlattenSeq(f \o g) = FlattenSeq(f) \o FlattenSeq(g)
  BY <1>6, <1>7, FlatConcat
<1> QED BY <1>9, <1>10 DEF Cat

\* Two lists of the same lists
LEMMA FlatEqual ==
    ASSUME NEW s, NEW t, NEW f, NEW g, DOMAIN s = DOMAIN t,
           IsMap(f, s), IsMap(g, t),
           \A k \in DOMAIN s : f[k] = g[k]
    PROVE  FlattenSeq(f) = FlattenSeq(g)
<1>1. f = g
  BY DEF IsMap
<1> QED BY <1>1

LEMMA EmptyParts ==
    ASSUME NEW f, IsMap(f, <<>>)
    PROVE  f = <<>> /\ FlattenSeq(f) = <<>>
<1>1. f = [k \in 1 .. 0 |-> f[k]]
  BY EmptyIsSeq DEF IsMap
<1>2. IsSeq(f) /\ Len(f) = 0
  BY <1>1, FunctionIsSeq
<1>3. f = <<>>
  BY <1>2, EmptySeqLength
<1> QED BY <1>3, FlatEmpty

\* The last element replaced by another one
LEMMA ReplacedLast ==
    ASSUME NEW s, IsSeq(s), NEW x, NEW y
    PROVE  [Append(s, x) EXCEPT ![Len(Append(s, x))] = y] = Append(s, y)
<1> DEFINE n == Len(s)
           t == Append(s, x)
           u == Append(s, y)
           v == [t EXCEPT ![n + 1] = y]
<1>1. /\ n \in Nat /\ IsSeq(t) /\ Len(t) = n + 1 /\ DOMAIN t = 1 .. n + 1
      /\ \A j \in 1 .. n : t[j] = s[j]
  BY Appended
<1>2. IsSeq(u) /\ Len(u) = n + 1 /\ u[n + 1] = y /\ \A j \in 1 .. n : u[j] = s[j]
  BY Appended
<1> HIDE DEF t, u, n
<1>3. v = [k \in 1 .. n + 1 |-> v[k]] /\ n + 1 \in Nat
  <2>1. DOMAIN v = DOMAIN t /\ v = [k \in DOMAIN t |-> v[k]]
    OBVIOUS
  <2> HIDE DEF v
  <2> QED BY <1>1, <2>1
<1>4. v[n + 1] = y /\ \A j \in 1 .. n : v[j] = t[j]
  BY <1>1
<1> HIDE DEF v
<1>5. IsSeq(v) /\ Len(v) = n + 1
  BY <1>3, FunctionIsSeq
<1>6. ASSUME NEW j \in 1 .. n + 1 PROVE v[j] = u[j]
  <2>1. CASE j = n + 1
    BY <1>2, <1>4, <2>1
  <2>2. CASE j \in 1 .. n
    BY <1>1, <1>2, <1>4, <2>2
  <2> QED BY <1>1, <2>1, <2>2
<1>7. v = u
  BY <1>2, <1>5, <1>6, SameSeq
<1>8. Len(t) = n + 1
  BY <1>1
<1> QED BY <1>7, <1>8 DEF v, u, t

\* A sequence that is not empty has a last element
LEMMA LastOf ==
    ASSUME NEW s, IsSeq(s), s # <<>>
    PROVE  \E f, x : IsSeq(f) /\ s = Append(f, x)
<1> DEFINE n == Len(s) - 1
<1>1. Len(s) \in Nat /\ Len(s) # 0
  BY SeqLength, EmptySeqLength
<1>2. n \in Nat /\ Len(s) = n + 1
  BY <1>1
<1> HIDE DEF n
<1>3. \E f : IsSeq(f) /\ Len(f) = n /\ s = Append(f, s[n + 1])
  BY <1>2, Shortened
<1> QED BY <1>3

-----------------------------------------------------------------------------
(* What is read of entries, of the messages of a request, and of what is sent *)

EntryRead(ends, e)   == Read(ends, e.role, EntryBlocks(e))
EntryParts(ends, h)  == [k \in DOMAIN h |-> EntryRead(ends, h[k])]
EntriesRead(ends, h) == FlattenSeq(EntryParts(ends, h))

MsgBlocks(m) == IF m.role = "tool" THEN <<ToolResult(m.id, MessageOutput(m))>> ELSE MessageOutput(m)
MsgRead(ends, m)    == Read(ends, m.role, MsgBlocks(m))
MsgParts(ends, ms)  == [k \in DOMAIN ms |-> MsgRead(ends, ms[k])]
MsgsRead(ends, ms)  == FlattenSeq(MsgParts(ends, ms))

WireRead(ends, u, x)   == Read(ends, x.role, Blocks(u, x))
WireParts(ends, u, xs) == [k \in DOMAIN xs |-> WireRead(ends, u, xs[k])]

LEMMA EntriesMore ==
    ASSUME NEW ends, NEW h, IsSeq(h), NEW e, IsSeq(EntryRead(ends, e))
    PROVE  EntriesRead(ends, Append(h, e)) = Cat(EntriesRead(ends, h), EntryRead(ends, e))
<1> DEFINE f == EntryParts(ends, h)
           t == Append(h, e)
           g == EntryParts(ends, t)
           n == Len(h)
<1>1. /\ DOMAIN h = 1 .. n /\ DOMAIN t = 1 .. n + 1 /\ n \in Nat
      /\ \A j \in 1 .. n : t[j] = h[j]
      /\ t[n + 1] = e
  BY Appended
<1> HIDE DEF t
<1>2. IsMap(f, h) /\ IsMap(g, t)
  BY DEF EntryParts, IsMap
<1>3. \A k \in DOMAIN h : g[k] = f[k]
  BY <1>1 DEF EntryParts
<1>4. g[n + 1] = EntryRead(ends, e)
  BY <1>1 DEF EntryParts
<1> HIDE DEF f, g
<1>5. FlattenSeq(g) = Cat(FlattenSeq(f), g[n + 1])
  <2>1. IsSeq(g[n + 1])
    BY <1>4
  <2>2. IsMap(f, h) /\ IsMap(g, Append(h, e)) /\ IsSeq(g[Len(h) + 1])
    BY <1>2, <2>1 DEF t, n
  <2>3. FlattenSeq(g) = Cat(FlattenSeq(f), g[Len(h) + 1])
    BY <1>3, <2>2, FlatMore
  <2> QED BY <2>3 DEF n
<1> QED BY <1>4, <1>5 DEF EntriesRead, f, g, t

LEMMA MsgsMore ==
    ASSUME NEW ends, NEW h, IsSeq(h), NEW e, IsSeq(MsgRead(ends, e))
    PROVE  MsgsRead(ends, Append(h, e)) = Cat(MsgsRead(ends, h), MsgRead(ends, e))
<1> DEFINE f == MsgParts(ends, h)
           t == Append(h, e)
           g == MsgParts(ends, t)
           n == Len(h)
<1>1. /\ DOMAIN h = 1 .. n /\ DOMAIN t = 1 .. n + 1 /\ n \in Nat
      /\ \A j \in 1 .. n : t[j] = h[j]
      /\ t[n + 1] = e
  BY Appended
<1> HIDE DEF t
<1>2. IsMap(f, h) /\ IsMap(g, t)
  BY DEF MsgParts, IsMap
<1>3. \A k \in DOMAIN h : g[k] = f[k]
  BY <1>1 DEF MsgParts
<1>4. g[n + 1] = MsgRead(ends, e)
  BY <1>1 DEF MsgParts
<1> HIDE DEF f, g
<1>5. FlattenSeq(g) = Cat(FlattenSeq(f), g[n + 1])
  <2>1. IsSeq(g[n + 1])
    BY <1>4
  <2>2. IsMap(f, h) /\ IsMap(g, Append(h, e)) /\ IsSeq(g[Len(h) + 1])
    BY <1>2, <2>1 DEF t, n
  <2>3. FlattenSeq(g) = Cat(FlattenSeq(f), g[Len(h) + 1])
    BY <1>3, <2>2, FlatMore
  <2> QED BY <2>3 DEF n
<1> QED BY <1>4, <1>5 DEF MsgsRead, f, g, t

LEMMA ReadMessagesAre ==
    ASSUME NEW ends, NEW u, NEW xs
    PROVE  ReadMessages(ends, u, xs) = FlattenSeq(WireParts(ends, u, xs))
<1> QED BY DEF ReadMessages, WireParts, WireRead, MapFlat

LEMMA WireMore ==
    ASSUME NEW ends, NEW u, NEW h, IsSeq(h), NEW e, IsSeq(WireRead(ends, u, e))
    PROVE  ReadMessages(ends, u, Append(h, e)) = Cat(ReadMessages(ends, u, h), WireRead(ends, u, e))
<1> DEFINE f == WireParts(ends, u, h)
           t == Append(h, e)
           g == WireParts(ends, u, t)
           n == Len(h)
<1>1. /\ DOMAIN h = 1 .. n /\ DOMAIN t = 1 .. n + 1 /\ n \in Nat
      /\ \A j \in 1 .. n : t[j] = h[j]
      /\ t[n + 1] = e
  BY Appended
<1> HIDE DEF t
<1>2. IsMap(f, h) /\ IsMap(g, t)
  BY DEF WireParts, IsMap
<1>3. \A k \in DOMAIN h : g[k] = f[k]
  BY <1>1 DEF WireParts
<1>4. g[n + 1] = WireRead(ends, u, e)
  BY <1>1 DEF WireParts
<1> HIDE DEF f, g
<1>5. FlattenSeq(g) = Cat(FlattenSeq(f), g[n + 1])
  <2>1. IsSeq(g[n + 1])
    BY <1>4
  <2>2. IsMap(f, h) /\ IsMap(g, Append(h, e)) /\ IsSeq(g[Len(h) + 1])
    BY <1>2, <2>1 DEF t, n
  <2>3. FlattenSeq(g) = Cat(FlattenSeq(f), g[Len(h) + 1])
    BY <1>3, <2>2, FlatMore
  <2> QED BY <2>3 DEF n
<1> QED BY <1>4, <1>5, ReadMessagesAre DEF f, g, t

\* Items whose readings are sequences
Readable(ends, u, xs) == IsSeq(xs) /\ \A k \in 1 .. Len(xs) : IsSeq(WireRead(ends, u, xs[k]))

LEMMA WireLists ==
    ASSUME NEW ends, NEW u, NEW xs, Readable(ends, u, xs)
    PROVE  Lists(WireParts(ends, u, xs), xs) /\ IsSeq(ReadMessages(ends, u, xs))
<1>1. DOMAIN xs = 1 .. Len(xs) /\ IsSeq(xs)
  BY SeqLength DEF Readable
<1>2. Lists(WireParts(ends, u, xs), xs)
  BY <1>1 DEF Lists, WireParts, Readable, IsMap
<1> QED BY <1>1, <1>2, FlatLists, ReadMessagesAre

LEMMA WireCat ==
    ASSUME NEW ends, NEW u, NEW s, Readable(ends, u, s), NEW t, Readable(ends, u, t)
    PROVE  /\ ReadMessages(ends, u, Cat(s, t)) = Cat(ReadMessages(ends, u, s), ReadMessages(ends, u, t))
           /\ Readable(ends, u, Cat(s, t))
<1> DEFINE x == WireParts(ends, u, Cat(s, t))
           f == WireParts(ends, u, s)
           g == WireParts(ends, u, t)
           m == Len(s)
           n == Len(t)
<1>1. IsSeq(s) /\ IsSeq(t)
  BY DEF Readable
<1>2. m \in Nat /\ n \in Nat /\ DOMAIN s = 1 .. m /\ DOMAIN t = 1 .. n
  BY <1>1, SeqLength
<1>3. Joins(Cat(s, t), s, t)
  BY <1>1, JoinsUp DEF Cat
<1>4. /\ IsSeq(Cat(s, t)) /\ Len(Cat(s, t)) = m + n
      /\ \A j \in 1 .. m : Cat(s, t)[j] = s[j]
      /\ \A j \in 1 .. n : Cat(s, t)[m + j] = t[j]
  BY <1>3 DEF Joins
<1>5. DOMAIN Cat(s, t) = 1 .. m + n
  BY <1>4, SeqLength
<1> HIDE DEF m, n
<1>6. \A k \in 1 .. m : x[k] = f[k]
  BY <1>2, <1>4, <1>5 DEF WireParts
<1>7. \A k \in 1 .. n : x[m + k] = g[k]
  <2>1. \A k \in 1 .. n : m + k \in 1 .. m + n
    BY <1>2
  <2> QED BY <2>1, <1>2, <1>4, <1>5 DEF WireParts
<1>8. IsMap(x, Cat(s, t))
  BY DEF WireParts, IsMap
<1>9. Lists(f, s) /\ Lists(g, t)
  BY WireLists
<1> HIDE DEF x, f, g
<1>10. FlattenSeq(x) = Cat(FlattenSeq(f), FlattenSeq(g))
  BY <1>1, <1>6, <1>7, <1>8, <1>9, FlatJoin DEF m, n
<1>11. Readable(ends, u, Cat(s, t))
  <2>1. ASSUME NEW k \in 1 .. m + n PROVE IsSeq(WireRead(ends, u, Cat(s, t)[k]))
    <3>1. CASE k \in 1 .. m
      BY <1>4, <3>1 DEF Readable, m
    <3>2. CASE k \notin 1 .. m
      <4>1. k - m \in 1 .. n /\ m + (k - m) = k
        BY <3>2, <1>2
      <4> QED BY <4>1, <1>4 DEF Readable, n
    <3> QED BY <3>1, <3>2
  <2> QED BY <1>4, <2>1 DEF Readable
<1> QED BY <1>10, <1>11, ReadMessagesAre DEF x, f, g

LEMMA NothingRead ==
    ASSUME NEW ends
    PROVE  /\ EntriesRead(ends, <<>>) = <<>> /\ MsgsRead(ends, <<>>) = <<>>
           /\ \A u : ReadMessages(ends, u, <<>>) = <<>>
<1>1. EntriesRead(ends, <<>>) = <<>>
  <2>1. IsMap(EntryParts(ends, <<>>), <<>>)
    BY DEF EntryParts, IsMap
  <2> QED BY <2>1, EmptyParts DEF EntriesRead
<1>2. MsgsRead(ends, <<>>) = <<>>
  <2>1. IsMap(MsgParts(ends, <<>>), <<>>)
    BY DEF MsgParts, IsMap
  <2> QED BY <2>1, EmptyParts DEF MsgsRead
<1>3. ASSUME NEW u PROVE ReadMessages(ends, u, <<>>) = <<>>
  <2>1. FlattenSeq(WireParts(ends, u, <<>>)) = <<>>
    <3>1. IsMap(WireParts(ends, u, <<>>), <<>>)
      BY DEF WireParts, IsMap
    <3> QED BY <3>1, EmptyParts
  <2> QED BY <2>1, ReadMessagesAre
<1> QED BY <1>1, <1>2, <1>3

LEMMA OneWire ==
    ASSUME NEW ends, NEW u, NEW x, IsSeq(WireRead(ends, u, x))
    PROVE  ReadMessages(ends, u, <<x>>) = WireRead(ends, u, x) /\ Readable(ends, u, <<x>>)
<1> DEFINE f == WireParts(ends, u, <<x>>)
           a == WireRead(ends, u, x)
           s == <<x>>
<1>1. IsSeq(s) /\ Len(s) = 1 /\ s[1] = x
  BY One
<1>2. DOMAIN s = 1 .. 1
  BY <1>1, SeqLength
<1>3. f = <<a>>
  <2> HIDE DEF s
  <2>1. WireParts(ends, u, s) = [k \in 1 .. 1 |-> a]
    BY <1>1, <1>2 DEF WireParts
  <2>2. <<a>> = [k \in 1 .. 1 |-> a]
    OBVIOUS
  <2> QED BY <2>1, <2>2 DEF s
<1>4. FlattenSeq(<<a>>) = a
  BY FlatOne
<1> HIDE DEF s
<1>5. Readable(ends, u, s)
  BY <1>1 DEF Readable
<1> QED BY <1>3, <1>4, <1>5, ReadMessagesAre DEF s

-----------------------------------------------------------------------------
(* The messages that a parser returns, as the builders rely on them *)

IsResults(bs) ==
    /\ IsSeq(bs)
    /\ \A k \in 1 .. Len(bs) : bs[k] = ToolResult(bs[k].id, bs[k].content) /\ IsPlain(bs[k].content)
\* A text that is all of the content may stand in place of it
Fits(m, bs) == m.content = bs \/ (m.content = <<>> /\ bs = NonEmpty(m.text))
ToolMsg(m) ==
    /\ m.role = "tool" /\ IsPlain(MessageOutput(m))
    /\ OfType(m.content, "media") = OfType(MessageOutput(m), "media")
    /\ (IF TextOf(m.content) # <<>> THEN TextOf(m.content) ELSE m.text) = TextOf(MessageOutput(m))
UserMsg(m, rs, own) ==
    /\ m.role = "user" /\ IsResults(rs) /\ IsPlain(own) /\ (rs # <<>> \/ own # <<>>)
    /\ m.text = TextOf(own) /\ Fits(m, Cat(rs, own))
TalkMsg(m, a, u) ==
    /\ m.role = "assistant" /\ IsVoiced(a) /\ IsUses(u) /\ (a # <<>> \/ u # <<>>)
    /\ m.text = TextOf(a) /\ Fits(m, Cat(a, u))
GoodMsg(c, m) ==
    \/ ToolMsg(m)
    \/ \E rs, own : UserMsg(m, rs, own) /\ (c # "anthropic" => rs = <<>>)
    \/ \E a, u : TalkMsg(m, a, u)

LEMMA ResultsAreGood == ASSUME NEW bs, IsResults(bs) PROVE Good(bs)
<1>1. ASSUME NEW k \in 1 .. Len(bs) PROVE GoodBlock(bs[k])
  <2> DEFINE i == bs[k].id
             d == bs[k].content
             b == bs[k]
  <2>1. b = ToolResult(i, d) /\ IsPlain(d)
    BY DEF IsResults
  <2> HIDE DEF i, d, b
  <2>2. b.type = "tool_result" /\ b.text = <<>> /\ b.content = d
    BY <2>1 DEF ToolResult, Block
  <2>3. Texted(d)
    BY <2>1, PlainIsGood
  <2>4. GoodBlock(b)
    BY <2>2, <2>3, EmptyIsSeq DEF GoodBlock, Types
  <2> QED BY <2>4 DEF b
<1> QED BY <1>1 DEF Good, IsResults

LEMMA OneUse ==
    ASSUME NEW id, NEW args
    PROVE  IsUses(<<ToolUse(id, args)>>) /\ <<ToolUse(id, args)>> # <<>>
<1> DEFINE b == ToolUse(id, args)
           s == <<b>>
<1>1. b.id = id /\ b.args = args
  BY DEF ToolUse, Block
<1>2. b = ToolUse(b.id, b.args)
  BY <1>1
<1> HIDE DEF b
<1>3. IsSeq(s) /\ Len(s) = 1 /\ s[1] = b /\ s # <<>>
  BY One
<1> HIDE DEF s
<1>4. IsUses(s)
  BY <1>2, <1>3 DEF IsUses
<1> QED BY <1>3, <1>4 DEF s, b

LEMMA EmptyResults == IsResults(<<>>)
<1> QED BY EmptyIsSeq DEF IsResults

LEMMA BlocksOfUser ==
    ASSUME NEW m, NEW rs, NEW own, UserMsg(m, rs, own)
    PROVE  MsgBlocks(m) = Cat(rs, own) /\ Good(MsgBlocks(m))
<1>1. IsSeq(rs) /\ IsSeq(own) /\ Good(rs) /\ Good(own)
  BY ResultsAreGood, PlainIsGood DEF UserMsg, IsResults
<1>2. Cat(rs, own) # <<>>
  BY <1>1, CatIsEmpty DEF UserMsg
<1>3. MsgBlocks(m) = MessageOutput(m)
  BY DEF UserMsg, MsgBlocks
<1>4. MessageOutput(m) = Cat(rs, own)
  BY <1>2 DEF UserMsg, Fits, MessageOutput
<1> QED BY <1>1, <1>3, <1>4, GoodCat

LEMMA BlocksOfTalk ==
    ASSUME NEW m, NEW a, NEW u, TalkMsg(m, a, u)
    PROVE  MsgBlocks(m) = Cat(a, u) /\ Good(MsgBlocks(m))
<1>1. IsSeq(a) /\ IsSeq(u) /\ Good(a) /\ Good(u)
  BY VoicedIsGood, UsesAreGood DEF TalkMsg, IsUses
<1>2. Cat(a, u) # <<>>
  BY <1>1, CatIsEmpty DEF TalkMsg
<1>3. MsgBlocks(m) = MessageOutput(m)
  BY DEF TalkMsg, MsgBlocks
<1>4. MessageOutput(m) = Cat(a, u)
  BY <1>2 DEF TalkMsg, Fits, MessageOutput
<1> QED BY <1>1, <1>3, <1>4, GoodCat

LEMMA OneResult ==
    ASSUME NEW id, NEW d, IsPlain(d)
    PROVE  IsResults(<<ToolResult(id, d)>>) /\ Good(<<ToolResult(id, d)>>)
<1> DEFINE b == ToolResult(id, d)
           s == <<b>>
<1>1. b.id = id /\ b.content = d
  BY DEF ToolResult, Block
<1>2. b = ToolResult(b.id, b.content)
  BY <1>1
<1> HIDE DEF b
<1>3. IsSeq(s) /\ Len(s) = 1 /\ s[1] = b
  BY One
<1> HIDE DEF s
<1>4. IsResults(s)
  BY <1>1, <1>2, <1>3 DEF IsResults
<1> QED BY <1>4, ResultsAreGood DEF s, b

LEMMA BlocksOfTool ==
    ASSUME NEW m, ToolMsg(m)
    PROVE  MsgBlocks(m) = <<ToolResult(m.id, MessageOutput(m))>> /\ Good(MsgBlocks(m))
<1>1. MsgBlocks(m) = <<ToolResult(m.id, MessageOutput(m))>>
  BY DEF ToolMsg, MsgBlocks
<1> QED BY <1>1, OneResult DEF ToolMsg

LEMMA MsgIsRead ==
    ASSUME NEW c, NEW m, GoodMsg(c, m), NEW ends
    PROVE  Good(MsgBlocks(m)) /\ IsSeq(MsgRead(ends, m))
<1>1. Good(MsgBlocks(m))
  BY BlocksOfUser, BlocksOfTalk, BlocksOfTool DEF GoodMsg
<1> QED BY <1>1, ReadIsSeq DEF MsgRead

\* Entries of a client
LEMMA BlocksOfEntry ==
    ASSUME NEW c, NEW e, KnownEntry(c, e)
    PROVE  /\ UserEntry(e) => EntryBlocks(e) = e.content /\ e.role = "user"
           /\ ToolEntry(c, e) => EntryBlocks(e) = <<ToolResult(e.id, e.content)>> /\ e.role = "tool"
           /\ AnswerEntry(e) => /\ EntryBlocks(e) = Cat(Cat(Thought(e.thinking), e.content), Uses(e.calls))
                                /\ e.role = "assistant"
           /\ Good(EntryBlocks(e))
<1>1. EntryBlocks(e) = IF e.role = "tool" THEN <<ToolResult(e.id, e.content)>>
                       ELSE Cat(Cat(Thought(e.thinking), e.content), Uses(e.calls))
  BY DEF EntryBlocks, Cat
<1>2. CASE UserEntry(e)
  <2>1. e.role = "user"
    BY <1>2, RoleOf
  <2> DEFINE d == e.content
  <2>2. e = Entry("user", <<>>, d, <<>>, NoId, "") /\ IsPlain(d)
    BY <1>2 DEF UserEntry
  <2> HIDE DEF d
  <2>3. e.thinking = <<>> /\ e.calls = <<>>
    BY <2>2 DEF Entry
  <2>4. Uses(<<>>) = <<>> /\ Thought(<<>>) = <<>>
    <3>1. IsCalls(<<>>)
      BY EmptyIsSeq DEF IsCalls
    <3> QED BY <3>1, UsesAre DEF Thought
  <2>5. IsSeq(d) /\ Good(d)
    BY <2>2, PlainIsGood
  <2>6. Cat(Cat(<<>>, d), <<>>) = d
    BY <2>5, CatEmpty
  <2>7. EntryBlocks(e) = e.content
    BY <1>1, <2>1, <2>3, <2>4, <2>6 DEF d
  <2>8. ~ToolEntry(c, e) /\ ~AnswerEntry(e)
    BY <2>1, RoleOf
  <2> QED BY <2>1, <2>5, <2>7, <2>8 DEF d
<1>3. CASE ToolEntry(c, e)
  <2>1. e.role = "tool"
    BY <1>3, RoleOf
  <2>2. IsPlain(e.content)
    BY <1>3 DEF ToolEntry
  <2>3. EntryBlocks(e) = <<ToolResult(e.id, e.content)>>
    BY <1>1, <2>1
  <2>4. ~UserEntry(e) /\ ~AnswerEntry(e)
    BY <2>1, RoleOf
  <2> QED BY <2>1, <2>2, <2>3, <2>4, OneResult
<1>4. CASE AnswerEntry(e)
  <2>1. e.role = "assistant"
    BY <1>4, RoleOf
  <2>2. EntryBlocks(e) = Cat(Cat(Thought(e.thinking), e.content), Uses(e.calls))
    BY <1>1, <2>1
  <2>3. Good(Thought(e.thinking)) /\ Good(e.content) /\ Good(Uses(e.calls))
    BY <1>4, VoicedIsGood, UsesAre, UsesAreGood DEF AnswerEntry
  <2>4. ~UserEntry(e) /\ ~ToolEntry(c, e)
    BY <2>1, RoleOf
  <2> QED BY <2>1, <2>2, <2>3, <2>4, GoodCat
<1> QED BY <1>2, <1>3, <1>4 DEF KnownEntry

LEMMA EntryIsRead ==
    ASSUME NEW c, NEW e, KnownEntry(c, e), NEW ends
    PROVE  IsSeq(EntryRead(ends, e))
<1> QED BY BlocksOfEntry, ReadIsSeq DEF EntryRead

\* What an answer consists of
LEMMA AnswerParts ==
    ASSUME NEW e, AnswerEntry(e)
    PROVE  LET a == Cat(Thought(e.thinking), e.content)
           IN  /\ IsVoiced(a) /\ IsUses(Uses(e.calls)) /\ (a # <<>> \/ Uses(e.calls) # <<>>)
               /\ TextOf(Cat(a, Uses(e.calls))) = TextOf(a) /\ TextOf(a) = TextOf(e.content)
<1> DEFINE h == Thought(e.thinking)
           d == e.content
           u == Uses(e.calls)
           a == Cat(h, d)
<1>1. IsVoiced(h) /\ IsVoiced(d) /\ IsUses(u) /\ (u = <<>> <=> e.calls = <<>>)
  BY UsesAre DEF AnswerEntry
<1>2. IsSeq(h) /\ IsSeq(d) /\ IsSeq(u) /\ IsVoiced(a)
  BY <1>1, VoicedIsGood, VoicedCat DEF IsUses
<1>3. Thought(e.thinking) = <<>> => e.thinking = <<>>
  BY One DEF Thought
<1>4. a # <<>> \/ u # <<>>
  BY <1>1, <1>2, <1>3, CatIsEmpty DEF AnswerEntry
<1>5. Texted(h) /\ Texted(d) /\ Texted(u) /\ Texted(a)
  BY <1>1, <1>2, VoicedIsGood, UsesAreGood, GoodIsTexted
<1>6. TextOf(u) = <<>> /\ TextOf(h) = <<>>
  <2>1. OfType(u, "text") = <<>>
    BY <1>1, OfUses
  <2>2. OfType(h, "text") = <<>>
    BY OfThought DEF AnswerEntry
  <2> QED BY <2>1, <2>2, EmptyJoined DEF TextOf
<1> HIDE DEF h, d, u
<1>7. TextOf(a) = Cat(<<>>, TextOf(d)) /\ IsSeq(TextOf(d)) /\ IsSeq(TextOf(a))
  BY <1>5, <1>6, TextOfCat
<1> HIDE DEF a
<1>8. TextOf(Cat(a, u)) = Cat(TextOf(a), <<>>)
  BY <1>5, <1>6, TextOfCat
<1>9. TextOf(Cat(a, u)) = TextOf(a) /\ TextOf(a) = TextOf(d)
  BY <1>7, <1>8, CatEmpty
<1> QED BY <1>1, <1>2, <1>4, <1>9 DEF a, h, d, u

\* Chat Completions: one message for each entry
LEMMA ChatParsedIs ==
    ASSUME NEW e, KnownEntry("chat", e)
    PROVE  /\ GoodMsg("chat", ChatParsed(e)) /\ ChatParsed(e).role = e.role
           /\ MsgBlocks(ChatParsed(e)) = EntryBlocks(e)
<1> DEFINE m == ChatParsed(e)
<1>1. m.role = e.role
  BY ChatParsedRole
<1>2. /\ m.content = IF e.role = "assistant" THEN EntryBlocks(e) ELSE e.content
      /\ m.text = TextOf(m.content)
      /\ e.role = "tool" => m.id = e.id
  <2> DEFINE w == ToChat(e)
             calls == [k \in DOMAIN w.calls |-> ToolUse(w.calls[k].id, w.calls[k].args)]
             all == IF w.role = "assistant"
                      THEN (IF w.reasoning = <<>> THEN <<>> ELSE <<Thinking(w.reasoning)>>)
                           \o w.content \o calls
                      ELSE w.content
  <2>1. /\ w.role = e.role /\ w.content = e.content /\ w.reasoning = e.thinking /\ w.calls = e.calls
        /\ w.id = e.id
    BY DEF ToChat, ChatMessage
  <2>2. ParseChatMessage(w) = Message(w.role, all, TextOf(all), IF w.role = "tool" THEN w.id ELSE NoId)
    BY DEF ParseChatMessage
  <2> HIDE DEF w
  <2>3. all = IF e.role = "assistant" THEN EntryBlocks(e) ELSE e.content
    BY <2>1 DEF EntryBlocks, Thought, Uses
  <2> HIDE DEF all
  <2> QED BY <2>1, <2>2, <2>3 DEF ChatParsed, w, Message
<1> HIDE DEF m
<1>3. CASE UserEntry(e)
  <2>1. e.role = "user" /\ EntryBlocks(e) = e.content
    BY <1>3, BlocksOfEntry
  <2>2. m.role = "user" /\ m.content = e.content /\ m.text = TextOf(e.content)
    BY <1>1, <1>2, <2>1
  <2>3. IsPlain(e.content) /\ e.content # <<>>
    BY <1>3, EmptyOfType, EmptyJoined DEF UserEntry, TextOf
  <2>4. Cat(<<>>, e.content) = e.content
    BY <2>3, PlainIsGood, CatEmpty
  <2>5. UserMsg(m, <<>>, e.content)
    BY <2>2, <2>3, <2>4, EmptyResults DEF UserMsg, Fits
  <2>6. GoodMsg("chat", m)
    BY <2>5 DEF GoodMsg
  <2> QED BY <1>1, <2>1, <2>4, <2>5, <2>6, BlocksOfUser DEF m
<1>4. CASE ToolEntry("chat", e)
  <2>1. e.role = "tool" /\ EntryBlocks(e) = <<ToolResult(e.id, e.content)>>
    BY <1>4, BlocksOfEntry
  <2>2. m.role = "tool" /\ m.content = e.content /\ m.text = TextOf(e.content) /\ m.id = e.id
    BY <1>1, <1>2, <2>1
  <2>3. IsPlain(e.content)
    BY <1>4 DEF ToolEntry
  <2>4. TextOf(<<>>) = <<>> /\ NonEmpty(<<>>) = <<>>
    BY EmptyOfType, EmptyJoined DEF TextOf, NonEmpty
  <2>5. MessageOutput(m) = e.content
    BY <2>2, <2>4 DEF MessageOutput
  <2>6. ToolMsg(m)
    BY <2>2, <2>3, <2>5 DEF ToolMsg
  <2>7. GoodMsg("chat", m)
    BY <2>6 DEF GoodMsg
  <2> QED BY <1>1, <2>1, <2>2, <2>5, <2>6, <2>7, BlocksOfTool DEF m
<1>5. CASE AnswerEntry(e)
  <2> DEFINE a == Cat(Thought(e.thinking), e.content)
             u == Uses(e.calls)
  <2>1. e.role = "assistant" /\ EntryBlocks(e) = Cat(a, u)
    BY <1>5, BlocksOfEntry
  <2>2. /\ IsVoiced(a) /\ IsUses(u) /\ (a # <<>> \/ u # <<>>)
        /\ TextOf(Cat(a, u)) = TextOf(a)
    BY <1>5, AnswerParts
  <2> HIDE DEF a, u
  <2>3. m.role = "assistant" /\ m.content = Cat(a, u) /\ m.text = TextOf(a)
    BY <1>1, <1>2, <2>1, <2>2
  <2>4. TalkMsg(m, a, u)
    BY <2>2, <2>3 DEF TalkMsg, Fits
  <2>5. GoodMsg("chat", m)
    BY <2>4 DEF GoodMsg
  <2> QED BY <1>1, <2>1, <2>4, <2>5, BlocksOfTalk DEF m
<1> QED BY <1>3, <1>4, <1>5 DEF KnownEntry

-----------------------------------------------------------------------------
(* Who speaks after whom *)

Follows(c, e, f) ==
    /\ e.role = "user" => f.role = "assistant"
    /\ e.role = "assistant" /\ e.calls # <<>> => f.role = "tool"
    /\ e.role = "assistant" /\ e.calls = <<>> =>
          f.role = "user" \/ (c = "responses" /\ f.role = "assistant")
Dialogue(c, h) ==
    KnownEntries(c, h) /\ \A k \in 1 .. Len(h) - 1 : Follows(c, h[k], h[k + 1])

\* What a parser makes of a dialog
GoodMsgs(c, ms) == IsSeq(ms) /\ (\A k \in 1 .. Len(ms) : GoodMsg(c, ms[k])) /\ Whole(ms)
ParsedWell(c, h) ==
    LET p == Parsed(c, h)
    IN  /\ p.system = Instructions /\ GoodMsgs(c, p.messages)
        /\ \A ends : MsgsRead(ends, p.messages) = EntriesRead(ends, h)

\* Messages with one more, and with another last one
LEMMA GoodMore ==
    ASSUME NEW c, NEW f, GoodMsgs(c, f), NEW x, GoodMsg(c, x),
           f = <<>> \/ f[Len(f)].role # x.role \/ x.role = "tool"
    PROVE  GoodMsgs(c, Append(f, x))
<1> DEFINE n == Len(f)
           t == Append(f, x)
<1>1. /\ n \in Nat /\ IsSeq(t) /\ Len(t) = n + 1 /\ t[n + 1] = x
      /\ \A j \in 1 .. n : t[j] = f[j]
  BY Appended DEF GoodMsgs
<1>2. f = <<>> => n = 0
  BY EmptyIsSeq
<1>3. n # 0 => f[n].role # x.role \/ x.role = "tool"
  BY <1>2
<1> HIDE DEF t, n
<1>4. ASSUME NEW k \in 1 .. n + 1 PROVE GoodMsg(c, t[k])
  <2>1. CASE k = n + 1
    BY <1>1, <2>1
  <2>2. CASE k \in 1 .. n
    BY <1>1, <2>2 DEF GoodMsgs, n
  <2> QED BY <1>1, <2>1, <2>2
<1>5. ASSUME NEW k \in 1 .. n, t[k].role = t[k + 1].role PROVE t[k].role = "tool"
  <2>1. CASE k = n
    BY <1>1, <1>3, <1>5, <2>1
  <2>2. CASE k # n
    <3>1. k \in 1 .. n - 1 /\ k + 1 \in 1 .. n
      BY <1>1, <2>2
    <3>2. t[k] = f[k] /\ t[k + 1] = f[k + 1]
      BY <1>1, <3>1
    <3> QED BY <1>5, <3>1, <3>2 DEF GoodMsgs, Whole, n
  <2> QED BY <2>1, <2>2
<1>6. Len(t) - 1 = n
  BY <1>1
<1> QED BY <1>1, <1>4, <1>5, <1>6 DEF GoodMsgs, Whole, t

LEMMA GoodLess ==
    ASSUME NEW c, NEW f, IsSeq(f), NEW x, GoodMsgs(c, Append(f, x))
    PROVE  /\ GoodMsgs(c, f) /\ GoodMsg(c, x)
           /\ f = <<>> \/ f[Len(f)].role # x.role \/ x.role = "tool"
<1> DEFINE n == Len(f)
           t == Append(f, x)
<1>1. /\ n \in Nat /\ IsSeq(t) /\ Len(t) = n + 1 /\ t[n + 1] = x
      /\ \A j \in 1 .. n : t[j] = f[j]
  BY Appended
<1>2. f = <<>> <=> n = 0
  BY EmptySeqLength
<1> HIDE DEF t
<1>3. GoodMsgs(c, t)
  BY DEF t
<1> HIDE DEF n
<1>4. \A k \in 1 .. n + 1 : GoodMsg(c, t[k])
  BY <1>1, <1>3 DEF GoodMsgs
<1>5. \A k \in 1 .. n : t[k].role = t[k + 1].role => t[k].role = "tool"
  <2>1. Len(t) - 1 = n
    BY <1>1
  <2> QED BY <1>3, <2>1 DEF GoodMsgs, Whole
<1>6. \A k \in 1 .. n : GoodMsg(c, f[k])
  BY <1>1, <1>4
<1>7. ASSUME NEW k \in 1 .. n - 1, f[k].role = f[k + 1].role PROVE f[k].role = "tool"
  <2>1. k \in 1 .. n /\ k + 1 \in 1 .. n
    BY <1>1
  <2>2. t[k] = f[k] /\ t[k + 1] = f[k + 1]
    BY <1>1, <2>1
  <2> QED BY <1>5, <1>7, <2>1, <2>2
<1>8. n # 0 => f[n].role # x.role \/ x.role = "tool"
  <2>1. SUFFICES ASSUME n # 0 PROVE f[n].role # x.role \/ x.role = "tool"
    OBVIOUS
  <2>2. n \in 1 .. n
    BY <1>1, <2>1
  <2>3. t[n] = f[n]
    BY <1>1, <2>2
  <2> QED BY <1>1, <1>5, <2>2, <2>3
<1>9. GoodMsg(c, x)
  <2>1. n + 1 \in 1 .. n + 1
    BY <1>1
  <2> QED BY <1>1, <1>4, <2>1
<1>10. GoodMsgs(c, f)
  BY <1>6, <1>7 DEF GoodMsgs, Whole, n
<1> QED BY <1>2, <1>8, <1>9, <1>10 DEF n

LEMMA NoMsgs == ASSUME NEW c PROVE GoodMsgs(c, <<>>)
<1> QED BY EmptyIsSeq DEF GoodMsgs, Whole

\* A dialog without its last entry
LEMMA DialogueLess ==
    ASSUME NEW c, NEW h, IsSeq(h), NEW e, Dialogue(c, Append(h, e))
    PROVE  /\ Dialogue(c, h) /\ KnownEntry(c, e)
           /\ h = <<>> \/ (Follows(c, h[Len(h)], e) /\ KnownEntry(c, h[Len(h)]))
<1> DEFINE n == Len(h)
           t == Append(h, e)
<1>1. /\ n \in Nat /\ IsSeq(t) /\ Len(t) = n + 1 /\ t[n + 1] = e
      /\ \A j \in 1 .. n : t[j] = h[j]
  BY Appended
<1>2. h = <<>> <=> n = 0
  BY EmptySeqLength
<1> HIDE DEF t
<1>3. Dialogue(c, t)
  BY DEF t
<1> HIDE DEF n
<1>4. \A k \in 1 .. n + 1 : KnownEntry(c, t[k])
  BY <1>1, <1>3 DEF Dialogue, KnownEntries
<1>5. \A k \in 1 .. n : Follows(c, t[k], t[k + 1])
  <2>1. Len(t) - 1 = n
    BY <1>1
  <2> QED BY <1>3, <2>1 DEF Dialogue
<1>6. \A k \in 1 .. n : KnownEntry(c, h[k])
  BY <1>1, <1>4
<1>7. ASSUME NEW k \in 1 .. n - 1 PROVE Follows(c, h[k], h[k + 1])
  <2>1. k \in 1 .. n /\ k + 1 \in 1 .. n
    BY <1>1
  <2>2. t[k] = h[k] /\ t[k + 1] = h[k + 1]
    BY <1>1, <2>1
  <2> QED BY <1>5, <2>1, <2>2
<1>8. n # 0 => Follows(c, h[n], e) /\ KnownEntry(c, h[n])
  <2>1. SUFFICES ASSUME n # 0 PROVE Follows(c, h[n], e) /\ KnownEntry(c, h[n])
    OBVIOUS
  <2>2. n \in 1 .. n
    BY <1>1, <2>1
  <2>3. t[n] = h[n]
    BY <1>1, <2>2
  <2> QED BY <1>1, <1>5, <1>6, <2>2, <2>3
<1>9. KnownEntry(c, e)
  <2>1. n + 1 \in 1 .. n + 1
    BY <1>1
  <2> QED BY <1>1, <1>4, <2>1
<1>10. Dialogue(c, h)
  BY <1>6, <1>7 DEF Dialogue, KnownEntries, n
<1> QED BY <1>2, <1>8, <1>9, <1>10 DEF n

\* One more entry
LEMMA DialogueMore ==
    ASSUME NEW c, NEW h, Dialogue(c, h), NEW e, KnownEntry(c, e),
           h = <<>> \/ Follows(c, h[Len(h)], e)
    PROVE  Dialogue(c, Append(h, e))
<1> DEFINE n == Len(h)
           t == Append(h, e)
<1>1. /\ n \in Nat /\ IsSeq(t) /\ Len(t) = n + 1 /\ t[n + 1] = e
      /\ \A j \in 1 .. n : t[j] = h[j]
  BY Appended DEF Dialogue, KnownEntries
<1>2. h = <<>> => n = 0
  BY EmptyIsSeq
<1>3. n # 0 => Follows(c, h[n], e)
  BY <1>2
<1> HIDE DEF t, n
<1>4. ASSUME NEW k \in 1 .. n + 1 PROVE KnownEntry(c, t[k])
  <2>1. CASE k = n + 1
    BY <1>1, <2>1
  <2>2. CASE k \in 1 .. n
    BY <1>1, <2>2 DEF Dialogue, KnownEntries, n
  <2> QED BY <1>1, <2>1, <2>2
<1>5. ASSUME NEW k \in 1 .. n PROVE Follows(c, t[k], t[k + 1])
  <2>1. CASE k = n
    BY <1>1, <1>3, <2>1
  <2>2. CASE k # n
    <3>1. k \in 1 .. n - 1 /\ k + 1 \in 1 .. n
      BY <1>1, <2>2
    <3>2. t[k] = h[k] /\ t[k + 1] = h[k + 1]
      BY <1>1, <3>1
    <3> QED BY <3>1, <3>2 DEF Dialogue, n
  <2> QED BY <2>1, <2>2
<1>6. Len(t) - 1 = n
  BY <1>1
<1> QED BY <1>1, <1>4, <1>5, <1>6 DEF Dialogue, KnownEntries, t

LEMMA ChatParsedWell == ASSUME NEW h, Dialogue("chat", h) PROVE ParsedWell("chat", h)
<1> DEFINE n == Len(h)
           ms == [k \in DOMAIN h |-> ChatParsed(h[k])]
<1>1. KnownEntries("chat", h) /\ IsSeq(h)
  BY DEF Dialogue, KnownEntries
<1>2. n \in Nat /\ DOMAIN h = 1 .. n
  BY <1>1, SeqLength
<1> HIDE DEF n
<1>3. ms = [k \in 1 .. n |-> ms[k]] /\ \A k \in 1 .. n : ms[k] = ChatParsed(h[k])
  BY <1>2
<1>4. Parsed("chat", h).system = Instructions /\ Parsed("chat", h).messages = ms
  BY <1>1, ChatRequest
<1> HIDE DEF ms
<1>5. IsSeq(ms) /\ Len(ms) = n
  BY <1>2, <1>3, FunctionIsSeq
<1>6. ASSUME NEW k \in 1 .. n
      PROVE  /\ GoodMsg("chat", ms[k]) /\ ms[k].role = h[k].role
             /\ \A ends : MsgRead(ends, ms[k]) = EntryRead(ends, h[k])
  <2>1. KnownEntry("chat", h[k])
    BY <1>1 DEF KnownEntries, n
  <2> QED BY <1>3, <2>1, ChatParsedIs DEF MsgRead, EntryRead
<1>7. ASSUME NEW k \in 1 .. n - 1, ms[k].role = ms[k + 1].role PROVE ms[k].role = "tool"
  <2>1. k \in 1 .. n /\ k + 1 \in 1 .. n
    BY <1>2
  <2>2. ms[k].role = h[k].role /\ ms[k + 1].role = h[k + 1].role
    BY <1>6, <2>1
  <2>3. Follows("chat", h[k], h[k + 1])
    BY DEF Dialogue, n
  <2>4. KnownEntry("chat", h[k])
    BY <1>1, <2>1 DEF KnownEntries, n
  <2>5. h[k].role \in {"user", "tool", "assistant"}
    BY <2>4, RoleOf DEF KnownEntry
  <2> QED BY <1>7, <2>2, <2>3, <2>5 DEF Follows
<1>8. GoodMsgs("chat", ms)
  BY <1>5, <1>6, <1>7 DEF GoodMsgs, Whole
<1>9. ASSUME NEW ends PROVE MsgsRead(ends, ms) = EntriesRead(ends, h)
  <2> DEFINE f == MsgParts(ends, ms)
             g == EntryParts(ends, h)
  <2>1. DOMAIN ms = 1 .. n
    BY <1>3
  <2>2. IsMap(f, ms) /\ IsMap(g, h)
    BY DEF MsgParts, EntryParts, IsMap
  <2>3. \A k \in DOMAIN ms : f[k] = g[k]
    BY <1>2, <1>6, <2>1 DEF MsgParts, EntryParts
  <2> HIDE DEF f, g
  <2>4. FlattenSeq(f) = FlattenSeq(g)
    BY <1>2, <2>1, <2>2, <2>3, FlatEqual
  <2> QED BY <2>4 DEF MsgsRead, EntriesRead, f, g
<1> QED BY <1>4, <1>8, <1>9 DEF ParsedWell

-----------------------------------------------------------------------------
(* Responses: the items of a dialog *)

UserItem(i)  == i = Item("message", "user", i.content, NoId, "") /\ IsPlain(i.content) /\ i.content # <<>>
TextItem(i)  == i = Item("message", "assistant", i.content, NoId, "") /\ IsVoiced(i.content) /\ i.content # <<>>
ThinkItem(i) == /\ i.type = "reasoning" /\ i.role = "" /\ i.content # <<>>
                /\ IsVoiced(<<Thinking(Joined(i.content))>>)
CallItem(i)  == i.type = "function_call" /\ i.role = ""
OutItem(i)   == i.type = "function_call_output" /\ i.role = "" /\ IsPlain(i.content)
KnownItem(i) == UserItem(i) \/ TextItem(i) \/ ThinkItem(i) \/ CallItem(i) \/ OutItem(i)

ItemFollows(i, j) ==
    /\ i.type = "function_call" => j.type \in {"function_call", "function_call_output"}
    /\ i.role = "user" => j.role # "user"
GoodItems(s) ==
    /\ IsSeq(s) /\ \A k \in 1 .. Len(s) : KnownItem(s[k])
    /\ \A k \in 1 .. Len(s) - 1 : ItemFollows(s[k], s[k + 1])

ItemBlocks(i) == Blocks("responses", i)

LEMMA BlocksOfItem ==
    ASSUME NEW i, KnownItem(i)
    PROVE  /\ UserItem(i) => i.type = "message" /\ i.role = "user" /\ ItemBlocks(i) = i.content
           /\ TextItem(i) => i.type = "message" /\ i.role = "assistant" /\ ItemBlocks(i) = i.content
           /\ ThinkItem(i) => i.type = "reasoning" /\ ItemBlocks(i) = <<Thinking(Joined(i.content))>>
           /\ CallItem(i) => i.type = "function_call" /\ ItemBlocks(i) = <<ToolUse(i.id, i.args)>>
           /\ OutItem(i) => i.type = "function_call_output" /\ ItemBlocks(i) = <<ToolResult(i.id, i.content)>>
           /\ Good(ItemBlocks(i)) /\ i.role \in {"", "user", "assistant"}
<1> DEFINE d == i.content
<1>1. /\ i.type = "message" => ItemBlocks(i) = i.content
      /\ i.type = "reasoning" => ItemBlocks(i) = <<Thinking(Joined(i.content))>>
      /\ i.type = "function_call" => ItemBlocks(i) = <<ToolUse(i.id, i.args)>>
      /\ i.type = "function_call_output" => ItemBlocks(i) = <<ToolResult(i.id, i.content)>>
  BY DEF ItemBlocks, Blocks
<1>2. UserItem(i) => i.type = "message" /\ i.role = "user" /\ Good(i.content)
  <2>1. Item("message", "user", d, NoId, "").type = "message"
        /\ Item("message", "user", d, NoId, "").role = "user"
    BY DEF Item
  <2>2. UserItem(i) => i = Item("message", "user", d, NoId, "") /\ IsPlain(d)
    BY DEF UserItem
  <2> HIDE DEF d
  <2>3. UserItem(i) => i.type = "message" /\ i.role = "user" /\ Good(d)
    BY <2>1, <2>2, PlainIsGood
  <2> QED BY <2>3 DEF d
<1>3. TextItem(i) => i.type = "message" /\ i.role = "assistant" /\ Good(i.content)
  <2>1. Item("message", "assistant", d, NoId, "").type = "message"
        /\ Item("message", "assistant", d, NoId, "").role = "assistant"
    BY DEF Item
  <2>2. TextItem(i) => i = Item("message", "assistant", d, NoId, "") /\ IsVoiced(d)
    BY DEF TextItem
  <2> HIDE DEF d
  <2>3. TextItem(i) => i.type = "message" /\ i.role = "assistant" /\ Good(d)
    BY <2>1, <2>2, VoicedIsGood
  <2> QED BY <2>3 DEF d
<1>4. ThinkItem(i) => i.type = "reasoning" /\ i.role = "" /\ Good(<<Thinking(Joined(i.content))>>)
  BY VoicedIsGood DEF ThinkItem
<1>5. CallItem(i) => i.type = "function_call" /\ i.role = "" /\ Good(<<ToolUse(i.id, i.args)>>)
  BY OneUse, UsesAreGood DEF CallItem
<1>6. OutItem(i) => i.type = "function_call_output" /\ i.role = "" /\ Good(<<ToolResult(i.id, i.content)>>)
  BY OneResult DEF OutItem
<1> QED BY <1>1, <1>2, <1>3, <1>4, <1>5, <1>6 DEF KnownItem

LEMMA ItemIsRead ==
    ASSUME NEW ends, NEW i, KnownItem(i)
    PROVE  IsSeq(WireRead(ends, "responses", i)) /\ WireRead(ends, "responses", i) = Read(ends, i.role, ItemBlocks(i))
<1>1. WireRead(ends, "responses", i) = Read(ends, i.role, ItemBlocks(i))
  BY DEF WireRead, ItemBlocks
<1> QED BY <1>1, BlocksOfItem, ReadIsSeq

\* Two lists of items in a row
LEMMA ItemsCat ==
    ASSUME NEW s, GoodItems(s), NEW t, GoodItems(t),
           s # <<>> /\ t # <<>> => ItemFollows(s[Len(s)], t[1])
    PROVE  GoodItems(Cat(s, t)) /\ (t # <<>> => Cat(s, t)[Len(Cat(s, t))] = t[Len(t)])
           /\ (s # <<>> => Cat(s, t)[1] = s[1]) /\ (t = <<>> => Cat(s, t) = s) /\ (s = <<>> => Cat(s, t) = t)
<1> DEFINE m == Len(s)
           n == Len(t)
           u == Cat(s, t)
<1>1. IsSeq(s) /\ IsSeq(t)
  BY DEF GoodItems
<1>2. m \in Nat /\ n \in Nat /\ (s = <<>> <=> m = 0) /\ (t = <<>> <=> n = 0)
  BY <1>1, SeqLength, EmptySeqLength
<1>3. Joins(u, s, t)
  BY <1>1, JoinsUp DEF Cat
<1>4. /\ IsSeq(u) /\ Len(u) = m + n
      /\ \A j \in 1 .. m : u[j] = s[j]
      /\ \A j \in 1 .. n : u[m + j] = t[j]
  BY <1>3 DEF Joins
<1>5. (t = <<>> => u = s) /\ (s = <<>> => u = t)
  BY <1>1, CatEmpty
<1> HIDE DEF u, m, n
<1>6. ASSUME NEW k \in 1 .. m + n PROVE KnownItem(u[k])
  <2>1. CASE k \in 1 .. m
    BY <1>4, <2>1 DEF GoodItems, m
  <2>2. CASE k \notin 1 .. m
    <3>1. k - m \in 1 .. n /\ m + (k - m) = k
      BY <2>2, <1>2
    <3> QED BY <3>1, <1>4 DEF GoodItems, n
  <2> QED BY <2>1, <2>2
<1>7. ASSUME NEW k \in 1 .. (m + n) - 1 PROVE ItemFollows(u[k], u[k + 1])
  <2>1. CASE k \in 1 .. m - 1
    <3>1. k \in 1 .. m /\ k + 1 \in 1 .. m
      BY <1>2, <2>1
    <3>2. u[k] = s[k] /\ u[k + 1] = s[k + 1]
      BY <1>4, <3>1
    <3> QED BY <2>1, <3>2 DEF GoodItems, m
  <2>2. CASE k = m
    <3>1. m \in 1 .. m /\ 1 \in 1 .. n /\ s # <<>> /\ t # <<>>
      BY <1>2, <2>2
    <3>2. u[m] = s[m] /\ u[m + 1] = t[1]
      BY <1>4, <3>1
    <3> QED BY <2>2, <3>1, <3>2 DEF m
  <2>3. CASE k > m
    <3> DEFINE j == k - m
    <3>1. j \in 1 .. n - 1 /\ j \in 1 .. n /\ j + 1 \in 1 .. n /\ k = m + j /\ k + 1 = m + (j + 1)
      BY <1>2, <2>3
    <3> HIDE DEF j
    <3>2. u[k] = t[j] /\ u[k + 1] = t[j + 1]
      BY <1>4, <3>1
    <3> QED BY <3>1, <3>2 DEF GoodItems, n
  <2> QED BY <1>2, <2>1, <2>2, <2>3
<1>8. GoodItems(u)
  BY <1>4, <1>6, <1>7 DEF GoodItems
<1>9. t # <<>> => u[Len(u)] = t[n]
  <2>1. t # <<>> => n \in 1 .. n
    BY <1>2
  <2> QED BY <1>4, <2>1
<1>10. s # <<>> => u[1] = s[1]
  <2>1. s # <<>> => 1 \in 1 .. m
    BY <1>2
  <2> QED BY <1>4, <2>1
<1> QED BY <1>5, <1>8, <1>9, <1>10 DEF u, n

LEMMA OneItem ==
    ASSUME NEW i, KnownItem(i)
    PROVE  GoodItems(<<i>>) /\ <<i>> # <<>> /\ <<i>>[1] = i /\ <<i>>[Len(<<i>>)] = i
<1> DEFINE s == <<i>>
<1>1. IsSeq(s) /\ Len(s) = 1 /\ s[1] = i /\ s # <<>>
  BY One
<1> HIDE DEF s
<1>2. GoodItems(s)
  BY <1>1 DEF GoodItems
<1> QED BY <1>1, <1>2 DEF s

LEMMA NoItems == GoodItems(<<>>)
<1> QED BY EmptyIsSeq DEF GoodItems

\* Good items can be read
LEMMA ItemsRead ==
    ASSUME NEW s, GoodItems(s), NEW ends
    PROVE  Readable(ends, "responses", s)
<1>1. \A k \in 1 .. Len(s) : IsSeq(WireRead(ends, "responses", s[k]))
  BY ItemIsRead DEF GoodItems
<1> QED BY <1>1 DEF Readable, GoodItems

-----------------------------------------------------------------------------

ItemsOfCalls(cs) == [k \in DOMAIN cs |-> Item("function_call", "", <<>>, cs[k].id, cs[k].args)]

\* Whose message it is tells texts and media apart, and nothing else
LEMMA AnyRole ==
    ASSUME NEW ends, NEW r, NEW q, NEW b, GoodBlock(b), b.type \notin {"text", "media"}
    PROVE  Read(ends, r, <<b>>) = Read(ends, q, <<b>>) /\ BlockPieces(ends, r, b) = BlockPieces(ends, q, b)
<1>1. BlockPieces(ends, r, b) = BlockPieces(ends, q, b)
  BY OfBlock DEF GoodBlock, Types
<1> QED BY <1>1, OneRead

LEMMA UseIsGood ==
    ASSUME NEW id, NEW args
    PROVE  GoodBlock(ToolUse(id, args)) /\ ToolUse(id, args).type = "tool_use"
<1> DEFINE b == ToolUse(id, args)
<1>1. b.type = "tool_use" /\ b.text = <<>> /\ b.content = <<>>
  BY DEF ToolUse, Block
<1> HIDE DEF b
<1>2. GoodBlock(b)
  BY <1>1, EmptyIsSeq, EmptyGood DEF GoodBlock, Types
<1> QED BY <1>1, <1>2 DEF b

LEMMA ItemsOfCallsAre ==
    ASSUME NEW cs, IsCalls(cs)
    PROVE  /\ GoodItems(ItemsOfCalls(cs)) /\ (ItemsOfCalls(cs) = <<>> <=> cs = <<>>)
           /\ Len(ItemsOfCalls(cs)) = Len(cs)
           /\ \A k \in 1 .. Len(cs) : CallItem(ItemsOfCalls(cs)[k])
           /\ \A ends : ReadMessages(ends, "responses", ItemsOfCalls(cs)) = Read(ends, "assistant", Uses(cs))
<1> DEFINE f == ItemsOfCalls(cs)
           n == Len(cs)
<1>1. n \in Nat /\ DOMAIN cs = 1 .. n
  BY SeqLength DEF IsCalls
<1>2. f = [k \in 1 .. n |-> f[k]]
      /\ \A k \in 1 .. n : f[k] = Item("function_call", "", <<>>, cs[k].id, cs[k].args)
  BY <1>1 DEF ItemsOfCalls
<1>3. IsSeq(f) /\ Len(f) = n /\ (f = <<>> <=> cs = <<>>)
  <2>1. f = [k \in DOMAIN cs |-> f[k]]
    BY DEF ItemsOfCalls
  <2> HIDE DEF f
  <2> QED BY <2>1, CallsMapped DEF IsCalls
<1> HIDE DEF f
<1>4. ASSUME NEW k \in 1 .. n
      PROVE  CallItem(f[k]) /\ f[k].id = cs[k].id /\ f[k].args = cs[k].args /\ f[k].type = "function_call" /\ f[k].role = ""
  <2> DEFINE i == cs[k].id
             x == cs[k].args
             y == f[k]
  <2>1. y = Item("function_call", "", <<>>, i, x)
    BY <1>2
  <2> HIDE DEF i, x, y
  <2>2. y.id = i /\ y.args = x /\ y.type = "function_call" /\ y.role = ""
    BY <2>1 DEF Item
  <2> QED BY <2>2 DEF i, x, y, CallItem
<1> HIDE DEF n
<1>5. GoodItems(f)
  <2>1. \A k \in 1 .. n : KnownItem(f[k])
    BY <1>4 DEF KnownItem
  <2>2. ASSUME NEW k \in 1 .. n - 1 PROVE ItemFollows(f[k], f[k + 1])
    <3>1. k \in 1 .. n /\ k + 1 \in 1 .. n
      BY <1>1
    <3>2. f[k + 1].type = "function_call" /\ f[k].role = ""
      BY <1>4, <3>1
    <3> QED BY <3>2 DEF ItemFollows
  <2> QED BY <1>3, <2>1, <2>2 DEF GoodItems
<1>6. ASSUME NEW ends
      PROVE  ReadMessages(ends, "responses", f) = Read(ends, "assistant", Uses(cs))
  <2> DEFINE p == WireParts(ends, "responses", f)
             u == Uses(cs)
             q == ReadParts(ends, "assistant", u)
  <2>1. DOMAIN u = 1 .. n /\ \A k \in 1 .. n : u[k] = ToolUse(cs[k].id, cs[k].args)
    BY <1>1, UsesAre
  <2>2. DOMAIN f = 1 .. n
    BY <1>2
  <2> HIDE DEF u
  <2>3. ASSUME NEW k \in 1 .. n PROVE p[k] = q[k]
    <3> DEFINE b == ToolUse(cs[k].id, cs[k].args)
    <3>1. p[k] = WireRead(ends, "responses", f[k])
      BY <2>2 DEF WireParts
    <3>2. KnownItem(f[k])
      BY <1>4 DEF KnownItem
    <3>3. ItemBlocks(f[k]) = <<b>>
      BY <1>4, <3>2, BlocksOfItem
    <3>4. WireRead(ends, "responses", f[k]) = Read(ends, "", <<b>>)
      BY <1>4, <3>2, <3>3, ItemIsRead
    <3>5. q[k] = BlockPieces(ends, "assistant", b)
      BY <2>1 DEF ReadParts
    <3>6. GoodBlock(b) /\ b.type = "tool_use"
      BY UseIsGood
    <3> HIDE DEF b
    <3>7. Read(ends, "", <<b>>) = BlockPieces(ends, "", b)
      BY <3>6, OneRead
    <3>8. BlockPieces(ends, "", b) = BlockPieces(ends, "assistant", b)
      BY <3>6, AnyRole
    <3> QED BY <3>1, <3>4, <3>5, <3>7, <3>8
  <2>4. IsMap(p, f) /\ IsMap(q, u)
    BY DEF WireParts, ReadParts, IsMap
  <2>5. Read(ends, "assistant", u) = FlattenSeq(q)
    BY DEF Read, ReadParts
  <2> HIDE DEF p, q
  <2>6. FlattenSeq(p) = FlattenSeq(q)
    <3>1. DOMAIN f = DOMAIN u /\ \A k \in DOMAIN f : p[k] = q[k]
      BY <2>1, <2>2, <2>3
    <3>2. IsMap(p, f)
      BY <2>4
    <3>3. IsMap(q, u)
      BY <2>4
    <3> QED BY <3>1, <3>2, <3>3, FlatEqual
  <2> QED BY <2>5, <2>6, ReadMessagesAre DEF p, u
<1> QED BY <1>3, <1>4, <1>5, <1>6 DEF f, n

LEMMA UserItemIs ==
    ASSUME NEW d, IsPlain(d), d # <<>>
    PROVE  LET i == Item("message", "user", d, NoId, "") IN UserItem(i) /\ i.content = d /\ i.role = "user" /\ i.type = "message"
<1> DEFINE i == Item("message", "user", d, NoId, "")
<1>1. i.content = d /\ i.role = "user" /\ i.type = "message"
  BY DEF Item
<1>2. i = Item("message", "user", i.content, NoId, "")
  BY <1>1
<1> HIDE DEF i
<1> QED BY <1>1, <1>2 DEF UserItem, i

LEMMA TextItemIs ==
    ASSUME NEW d, IsVoiced(d), d # <<>>
    PROVE  LET i == Item("message", "assistant", d, NoId, "") IN TextItem(i) /\ i.content = d /\ i.role = "assistant" /\ i.type = "message"
<1> DEFINE i == Item("message", "assistant", d, NoId, "")
<1>1. i.content = d /\ i.role = "assistant" /\ i.type = "message"
  BY DEF Item
<1>2. i = Item("message", "assistant", i.content, NoId, "")
  BY <1>1
<1> HIDE DEF i
<1> QED BY <1>1, <1>2 DEF TextItem, i

LEMMA ThinkItemIs ==
    ASSUME NEW t, IsSeq(t), t # <<>>, IsVoiced(Thought(t))
    PROVE  LET i == Item("reasoning", "", <<Text(t)>>, NoId, "")
           IN  ThinkItem(i) /\ i.role = "" /\ i.type = "reasoning" /\ Joined(i.content) = t
<1> DEFINE i == Item("reasoning", "", <<Text(t)>>, NoId, "")
           b == Text(t)
<1>1. i.content = <<b>> /\ i.role = "" /\ i.type = "reasoning"
  BY DEF Item
<1>2. b.text = t
  BY DEF Text, Block
<1> HIDE DEF i, b
<1>3. Joined(<<b>>) = t
  BY <1>2, OneJoined
<1>4. <<b>> # <<>>
  BY One
<1>5. Thought(t) = <<Thinking(t)>>
  BY DEF Thought
<1> QED BY <1>1, <1>3, <1>4, <1>5 DEF ThinkItem, i

\* The items of an entry are read like the entry
EntryItems(e) ==
    LET s == ToItems(e)
    IN  /\ GoodItems(s) /\ s # <<>>
        /\ \A ends : ReadMessages(ends, "responses", s) = EntryRead(ends, e)
        /\ e.role = "user" <=> s[1].role = "user"
        /\ e.role = "user" <=> s[Len(s)].role = "user"
        /\ e.role = "tool" => s[1].type = "function_call_output"
        /\ s[Len(s)].type = "function_call" => e.role = "assistant" /\ e.calls # <<>>

LEMMA UserItems == ASSUME NEW e, UserEntry(e) PROVE EntryItems(e)
<1> DEFINE d == e.content
           i == Item("message", "user", d, NoId, "")
           s == ToItems(e)
<1>1. e.role = "user" /\ EntryBlocks(e) = d
  <2>1. KnownEntry("chat", e)
    BY DEF KnownEntry
  <2> QED BY <2>1, BlocksOfEntry
<1>2. IsPlain(d) /\ d # <<>>
  BY EmptyOfType, EmptyJoined DEF UserEntry, TextOf
<1>3. UserItem(i) /\ i.content = d /\ i.role = "user" /\ i.type = "message"
  BY <1>2, UserItemIs
<1>4. s = <<i>>
  <2>1. e = Entry("user", <<>>, d, <<>>, NoId, "")
    BY DEF UserEntry
  <2> HIDE DEF d
  <2>2. e.thinking = <<>> /\ e.calls = <<>>
    BY <2>1 DEF Entry
  <2>3. ItemsOfCalls(<<>>) = <<>>
    <3>1. IsCalls(<<>>)
      BY EmptyIsSeq DEF IsCalls
    <3> QED BY <3>1, ItemsOfCallsAre
  <2>4. ToItems(e) = (<<>> \o <<Item("message", e.role, e.content, NoId, "")>>) \o ItemsOfCalls(e.calls)
    BY <1>1, <1>2, <2>2 DEF ToItems, ItemsOfCalls, d
  <2>5. Item("message", e.role, e.content, NoId, "") = i
    BY <1>1 DEF d
  <2> HIDE DEF i
  <2>6. ToItems(e) = Cat(Cat(<<>>, <<i>>), <<>>)
    BY <2>2, <2>3, <2>4, <2>5 DEF Cat
  <2>7. Cat(Cat(<<>>, <<i>>), <<>>) = <<i>>
    BY One, CatEmpty
  <2> QED BY <2>6, <2>7
<1>5. KnownItem(i)
  BY <1>3 DEF KnownItem
<1>6. ItemBlocks(i) = d
  BY <1>3, <1>5, BlocksOfItem
<1> HIDE DEF i
<1>7. GoodItems(<<i>>) /\ <<i>> # <<>> /\ <<i>>[1] = i /\ <<i>>[Len(<<i>>)] = i
  BY <1>5, OneItem
<1>8. ASSUME NEW ends PROVE ReadMessages(ends, "responses", <<i>>) = EntryRead(ends, e)
  <2>1. IsSeq(WireRead(ends, "responses", i)) /\ WireRead(ends, "responses", i) = Read(ends, "user", d)
    BY <1>3, <1>5, <1>6, ItemIsRead
  <2> QED BY <1>1, <2>1, OneWire DEF EntryRead
<1> QED BY <1>1, <1>3, <1>4, <1>7, <1>8 DEF EntryItems

LEMMA ToolItems == ASSUME NEW e, ToolEntry("responses", e) PROVE EntryItems(e)
<1> DEFINE i == Item("function_call_output", "", e.content, e.id, "")
           b == ToolResult(e.id, e.content)
<1>1. e.role = "tool" /\ EntryBlocks(e) = <<b>>
  <2>1. KnownEntry("responses", e)
    BY DEF KnownEntry
  <2> QED BY <2>1, BlocksOfEntry
<1>2. IsPlain(e.content)
  BY DEF ToolEntry
<1>3. /\ i.content = e.content /\ i.role = "" /\ i.type = "function_call_output" /\ i.id = e.id
  BY DEF Item
<1>4. ToItems(e) = <<i>>
  BY <1>1 DEF ToItems
<1> HIDE DEF i
<1>5. OutItem(i)
  BY <1>2, <1>3 DEF OutItem
<1>6. KnownItem(i)
  BY <1>5 DEF KnownItem
<1>7. ItemBlocks(i) = <<b>>
  BY <1>3, <1>5, <1>6, BlocksOfItem
<1>8. GoodItems(<<i>>) /\ <<i>> # <<>> /\ <<i>>[1] = i /\ <<i>>[Len(<<i>>)] = i
  BY <1>6, OneItem
<1>9. GoodBlock(b) /\ b.type = "tool_result"
  <2>1. Good(<<b>>)
    BY <1>2, OneResult
  <2>2. b.type = "tool_result"
    BY DEF ToolResult, Block
  <2> HIDE DEF b
  <2> QED BY <2>1, <2>2, One DEF Good
<1> HIDE DEF b
<1>10. ASSUME NEW ends PROVE ReadMessages(ends, "responses", <<i>>) = EntryRead(ends, e)
  <2>1. IsSeq(WireRead(ends, "responses", i)) /\ WireRead(ends, "responses", i) = Read(ends, "", <<b>>)
    BY <1>3, <1>6, <1>7, ItemIsRead
  <2>2. Read(ends, "", <<b>>) = Read(ends, "tool", <<b>>)
    BY <1>9, AnyRole
  <2> QED BY <1>1, <2>1, <2>2, OneWire DEF EntryRead
<1> QED BY <1>1, <1>3, <1>4, <1>8, <1>10 DEF EntryItems

LEMMA AnswerItems == ASSUME NEW e, AnswerEntry(e) PROVE EntryItems(e)
<1> DEFINE t == e.thinking
           d == e.content
           cs == e.calls
           h == ReasoningItem(t)
           m == IF d = <<>> THEN <<>> ELSE MessageItem(d)
           f == ItemsOfCalls(cs)
           a == Cat(h, m)
           s == Cat(a, f)
<1>1. e.role = "assistant" /\ EntryBlocks(e) = Cat(Cat(Thought(t), d), Uses(cs))
  <2>1. KnownEntry("chat", e)
    BY DEF KnownEntry
  <2> QED BY <2>1, BlocksOfEntry
<1>2. /\ IsSeq(t) /\ IsCalls(cs) /\ IsVoiced(Thought(t)) /\ IsVoiced(d)
      /\ t # <<>> \/ d # <<>> \/ cs # <<>>
  BY DEF AnswerEntry
<1>3. ToItems(e) = s
  BY <1>1 DEF ToItems, ReasoningItem, MessageItem, ItemsOfCalls, Cat
<1> HIDE DEF t, d, cs
<1>4. /\ GoodItems(h) /\ (h = <<>> <=> t = <<>>)
      /\ h # <<>> => h[1].role # "user" /\ h[Len(h)].role # "user" /\ h[Len(h)].type # "function_call"
      /\ \A ends : ReadMessages(ends, "responses", h) = Read(ends, "assistant", Thought(t))
  <2>1. CASE t = <<>>
    <3>1. h = <<>> /\ Thought(t) = <<>>
      BY <2>1 DEF ReasoningItem, Thought
    <3> QED BY <2>1, <3>1, NoItems, NothingRead, EmptyRead
  <2>2. CASE t # <<>>
    <3> DEFINE i == Item("reasoning", "", <<Text(t)>>, NoId, "")
               b == Thinking(t)
    <3>1. ThinkItem(i) /\ i.role = "" /\ i.type = "reasoning" /\ Joined(i.content) = t
      BY <1>2, <2>2, ThinkItemIs
    <3>2. h = <<i>> /\ Thought(t) = <<b>>
      BY <2>2 DEF ReasoningItem, Thought
    <3>3. KnownItem(i)
      BY <3>1 DEF KnownItem
    <3> HIDE DEF i, h
    <3>4. ItemBlocks(i) = <<b>>
      BY <3>1, <3>3, BlocksOfItem
    <3>5. GoodItems(<<i>>) /\ <<i>> # <<>> /\ <<i>>[1] = i /\ <<i>>[Len(<<i>>)] = i
      BY <3>3, OneItem
    <3>6. GoodBlock(b) /\ b.type = "thinking"
      <4>1. Good(<<b>>)
        BY <1>2, <3>2, VoicedIsGood
      <4>2. b.type = "thinking"
        BY DEF Thinking, Block
      <4> HIDE DEF b
      <4> QED BY <4>1, <4>2, One DEF Good
    <3> HIDE DEF b
    <3>7. ASSUME NEW ends PROVE ReadMessages(ends, "responses", <<i>>) = Read(ends, "assistant", <<b>>)
      <4>1. IsSeq(WireRead(ends, "responses", i)) /\ WireRead(ends, "responses", i) = Read(ends, "", <<b>>)
        BY <3>1, <3>3, <3>4, ItemIsRead
      <4>2. Read(ends, "", <<b>>) = Read(ends, "assistant", <<b>>)
        BY <3>6, AnyRole
      <4> QED BY <4>1, <4>2, OneWire
    <3> QED BY <2>2, <3>1, <3>2, <3>5, <3>7
  <2> QED BY <2>1, <2>2
<1>5. /\ GoodItems(m) /\ (m = <<>> <=> d = <<>>)
      /\ m # <<>> => m[1].role # "user" /\ m[Len(m)].role # "user" /\ m[Len(m)].type # "function_call"
      /\ \A ends : ReadMessages(ends, "responses", m) = Read(ends, "assistant", d)
  <2>1. CASE d = <<>>
    <3>1. m = <<>>
      BY <2>1
    <3> QED BY <2>1, <3>1, NoItems, NothingRead, EmptyRead
  <2>2. CASE d # <<>>
    <3> DEFINE i == Item("message", "assistant", d, NoId, "")
    <3>1. TextItem(i) /\ i.role = "assistant" /\ i.type = "message" /\ i.content = d
      BY <1>2, <2>2, TextItemIs
    <3>2. m = <<i>>
      BY <2>2 DEF MessageItem
    <3>3. KnownItem(i)
      BY <3>1 DEF KnownItem
    <3> HIDE DEF i, m
    <3>4. ItemBlocks(i) = d
      BY <3>1, <3>3, BlocksOfItem
    <3>5. GoodItems(<<i>>) /\ <<i>> # <<>> /\ <<i>>[1] = i /\ <<i>>[Len(<<i>>)] = i
      BY <3>3, OneItem
    <3>7. ASSUME NEW ends PROVE ReadMessages(ends, "responses", <<i>>) = Read(ends, "assistant", d)
      <4>1. IsSeq(WireRead(ends, "responses", i)) /\ WireRead(ends, "responses", i) = Read(ends, "assistant", d)
        BY <3>1, <3>3, <3>4, ItemIsRead
      <4> QED BY <4>1, OneWire
    <3> QED BY <2>2, <3>1, <3>2, <3>5, <3>7
  <2> QED BY <2>1, <2>2
<1>6. /\ GoodItems(f) /\ (f = <<>> <=> cs = <<>>)
      /\ f # <<>> => f[1].role # "user" /\ f[Len(f)].role # "user"
      /\ \A ends : ReadMessages(ends, "responses", f) = Read(ends, "assistant", Uses(cs))
  <2>1. /\ GoodItems(f) /\ (f = <<>> <=> cs = <<>>) /\ Len(f) = Len(cs)
        /\ \A k \in 1 .. Len(cs) : CallItem(f[k])
        /\ \A ends : ReadMessages(ends, "responses", f) = Read(ends, "assistant", Uses(cs))
    BY <1>2, ItemsOfCallsAre
  <2>2. IsSeq(f)
    BY <2>1 DEF GoodItems
  <2> HIDE DEF f
  <2>3. f # <<>> => 1 \in 1 .. Len(f) /\ Len(f) \in 1 .. Len(f)
    BY <2>2, SeqLength, EmptySeqLength
  <2> QED BY <2>1, <2>3 DEF CallItem
<1> HIDE DEF h, m, f
<1>7. IsSeq(h) /\ IsSeq(m) /\ IsSeq(f)
  BY <1>4, <1>5, <1>6 DEF GoodItems
<1>8. /\ GoodItems(a) /\ (a = <<>> <=> h = <<>> /\ m = <<>>)
      /\ a # <<>> => a[1].role # "user" /\ a[Len(a)].role # "user" /\ a[Len(a)].type # "function_call"
  <2>1. h # <<>> /\ m # <<>> => ItemFollows(h[Len(h)], m[1])
    BY <1>4 DEF ItemFollows
  <2>2. a = <<>> <=> h = <<>> /\ m = <<>>
    BY <1>7, CatIsEmpty
  <2>3. GoodItems(a) /\ (m # <<>> => a[Len(a)] = m[Len(m)])
           /\ (h # <<>> => a[1] = h[1]) /\ (m = <<>> => a = h) /\ (h = <<>> => a = m)
    BY <1>4, <1>5, <2>1, ItemsCat
  <2> HIDE DEF a
  <2> QED BY <1>4, <1>5, <2>2, <2>3
<1>9. IsSeq(a)
  BY <1>8 DEF GoodItems
<1>10. ASSUME NEW ends PROVE ReadMessages(ends, "responses", s) = EntryRead(ends, e)
  <2> DEFINE hh == ReadMessages(ends, "responses", h)
             mm == ReadMessages(ends, "responses", m)
             ff == ReadMessages(ends, "responses", f)
  <2>1. Readable(ends, "responses", h) /\ Readable(ends, "responses", m)
        /\ Readable(ends, "responses", f) /\ Readable(ends, "responses", a)
    BY <1>4, <1>5, <1>6, <1>8, ItemsRead
  <2>2. ReadMessages(ends, "responses", a) = Cat(hh, mm)
    BY <2>1, WireCat
  <2> HIDE DEF a
  <2>3. ReadMessages(ends, "responses", s) = Cat(Cat(hh, mm), ff)
    BY <2>1, <2>2, WireCat
  <2> DEFINE x == Thought(t)
             y == d
             z == Uses(cs)
  <2>4. hh = Read(ends, "assistant", x) /\ mm = Read(ends, "assistant", y) /\ ff = Read(ends, "assistant", z)
    BY <1>4, <1>5, <1>6
  <2>5. Good(x) /\ Good(y) /\ Good(z)
    BY <1>2, VoicedIsGood, UsesAre, UsesAreGood
  <2> HIDE DEF x, y, z, hh, mm, ff
  <2>6. Good(Cat(x, y)) /\ Read(ends, "assistant", Cat(x, y)) = Cat(hh, mm)
    BY <2>4, <2>5, GoodCat, ReadCat
  <2>7. Read(ends, "assistant", Cat(Cat(x, y), z)) = Cat(Cat(hh, mm), ff)
    BY <2>4, <2>5, <2>6, ReadCat
  <2> QED BY <1>1, <2>3, <2>7 DEF EntryRead, x, y, z
<1> HIDE DEF a
<1>11. /\ GoodItems(s) /\ s # <<>> /\ s[1].role # "user" /\ s[Len(s)].role # "user"
       /\ s[Len(s)].type = "function_call" => cs # <<>>
  <2>1. a # <<>> /\ f # <<>> => ItemFollows(a[Len(a)], f[1])
    BY <1>8 DEF ItemFollows
  <2>2. s = <<>> <=> a = <<>> /\ f = <<>>
    BY <1>7, <1>9, CatIsEmpty
  <2>3. GoodItems(s) /\ (f # <<>> => s[Len(s)] = f[Len(f)])
           /\ (a # <<>> => s[1] = a[1]) /\ (f = <<>> => s = a) /\ (a = <<>> => s = f)
    BY <1>6, <1>8, <2>1, ItemsCat
  <2> HIDE DEF s
  <2> QED BY <1>2, <1>4, <1>5, <1>6, <1>8, <2>2, <2>3
<1> QED BY <1>1, <1>3, <1>10, <1>11 DEF EntryItems, cs

\* The items of a dialog
HistItems(h) == MapFlat(ToItems, h)
ItemParts(h) == [k \in DOMAIN h |-> ToItems(h[k])]

LEMMA HistItemsMore ==
    ASSUME NEW h, IsSeq(h), NEW e, IsSeq(ToItems(e))
    PROVE  HistItems(Append(h, e)) = Cat(HistItems(h), ToItems(e))
<1> DEFINE f == ItemParts(h)
           t == Append(h, e)
           g == ItemParts(t)
           n == Len(h)
<1>1. /\ DOMAIN h = 1 .. n /\ DOMAIN t = 1 .. n + 1 /\ n \in Nat
      /\ \A j \in 1 .. n : t[j] = h[j]
      /\ t[n + 1] = e
  BY Appended
<1> HIDE DEF t
<1>2. IsMap(f, h) /\ IsMap(g, t)
  BY DEF ItemParts, IsMap
<1>3. \A k \in DOMAIN h : g[k] = f[k]
  BY <1>1 DEF ItemParts
<1>4. g[n + 1] = ToItems(e)
  BY <1>1 DEF ItemParts
<1>5. HistItems(h) = FlattenSeq(f) /\ HistItems(t) = FlattenSeq(g)
  BY DEF HistItems, MapFlat, ItemParts
<1> HIDE DEF f, g
<1>6. IsMap(f, h) /\ IsMap(g, Append(h, e)) /\ IsSeq(g[Len(h) + 1])
  BY <1>2, <1>4 DEF t, n
<1>7. FlattenSeq(g) = Cat(FlattenSeq(f), g[Len(h) + 1])
  BY <1>3, <1>6, FlatMore
<1> QED BY <1>4, <1>5, <1>7 DEF t, n

LEMMA NoHistItems == HistItems(<<>>) = <<>>
<1>1. IsMap(ItemParts(<<>>), <<>>)
  BY DEF ItemParts, IsMap
<1>2. FlattenSeq(ItemParts(<<>>)) = <<>>
  BY <1>1, EmptyParts
<1> QED BY <1>2 DEF HistItems, MapFlat, ItemParts

ItemsFit(h) ==
    LET s == HistItems(h)
    IN  /\ GoodItems(s) /\ (s = <<>> <=> h = <<>>)
        /\ \A ends : ReadMessages(ends, "responses", s) = EntriesRead(ends, h)
        /\ h # <<>> => /\ h[Len(h)].role = "user" <=> s[Len(s)].role = "user"
                       /\ s[Len(s)].type = "function_call" =>
                             h[Len(h)].role = "assistant" /\ h[Len(h)].calls # <<>>

LEMMA HistItemsFit == ASSUME NEW hist, Dialogue("responses", hist) PROVE ItemsFit(hist)
<1> DEFINE S == {n \in Nat : \A h : Dialogue("responses", h) /\ Len(h) = n => ItemsFit(h)}
<1>1. 0 \in S
  <2>1. ASSUME NEW h, Dialogue("responses", h), Len(h) = 0 PROVE ItemsFit(h)
    <3>1. h = <<>>
      BY <2>1, EmptySeqLength DEF Dialogue, KnownEntries
    <3> QED BY <3>1, NoHistItems, NoItems, NothingRead DEF ItemsFit
  <2> QED BY <2>1
<1>2. ASSUME NEW n \in S PROVE n + 1 \in S
  <2>1. n \in Nat /\ \A h : Dialogue("responses", h) /\ Len(h) = n => ItemsFit(h)
    OBVIOUS
  <2> HIDE DEF S
  <2>2. ASSUME NEW w, Dialogue("responses", w), Len(w) = n + 1 PROVE ItemsFit(w)
    <3>1. IsSeq(w)
      BY <2>2 DEF Dialogue, KnownEntries
    <3>2. PICK h : IsSeq(h) /\ Len(h) = n /\ w = Append(h, w[n + 1])
      BY <2>1, <2>2, <3>1, Shortened
    <3> DEFINE e == w[n + 1]
    <3>3. IsSeq(h) /\ Len(h) = n /\ w = Append(h, e)
      BY <3>2
    <3> HIDE DEF e
    <3>4. /\ Dialogue("responses", h) /\ KnownEntry("responses", e)
          /\ h = <<>> \/ (Follows("responses", h[Len(h)], e) /\ KnownEntry("responses", h[Len(h)]))
      BY <2>2, <3>3, DialogueLess
    <3>5. ItemsFit(h)
      BY <2>1, <3>3, <3>4
    <3> DEFINE s == HistItems(h)
               t == ToItems(e)
               u == Cat(s, t)
    <3>6. EntryItems(e)
      BY <3>4, UserItems, ToolItems, AnswerItems DEF KnownEntry
    <3>7. GoodItems(t) /\ t # <<>> /\ IsSeq(t)
      BY <3>6 DEF EntryItems, GoodItems
    <3>8. HistItems(w) = u
      BY <3>3, <3>7, HistItemsMore
    <3>9. GoodItems(s) /\ IsSeq(s)
      BY <3>5 DEF ItemsFit, GoodItems
    <3>10. s # <<>> /\ t # <<>> => ItemFollows(s[Len(s)], t[1])
      <4>1. SUFFICES ASSUME s # <<>> PROVE ItemFollows(s[Len(s)], t[1])
        OBVIOUS
      <4>2. h # <<>>
        BY <3>5, <4>1 DEF ItemsFit
      <4> DEFINE l == h[Len(h)]
      <4>3. Follows("responses", l, e)
        BY <3>4, <4>2
      <4>4. /\ l.role = "user" <=> s[Len(s)].role = "user"
            /\ s[Len(s)].type = "function_call" => l.role = "assistant" /\ l.calls # <<>>
        BY <3>5, <4>2 DEF ItemsFit
      <4>5. (e.role = "user" <=> t[1].role = "user") /\ (e.role = "tool" => t[1].type = "function_call_output")
        BY <3>6 DEF EntryItems
      <4> HIDE DEF l, s, t
      <4> QED BY <4>3, <4>4, <4>5 DEF Follows, ItemFollows
    <3>11. GoodItems(u) /\ u[Len(u)] = t[Len(t)]
      BY <3>7, <3>9, <3>10, ItemsCat
    <3>12. u # <<>> /\ w # <<>>
      BY <3>3, <3>7, <3>9, CatIsEmpty, FirstAppended
    <3>13. ASSUME NEW ends PROVE ReadMessages(ends, "responses", u) = EntriesRead(ends, w)
      <4>1. Readable(ends, "responses", s) /\ Readable(ends, "responses", t)
        BY <3>7, <3>9, ItemsRead
      <4>2. ReadMessages(ends, "responses", u)
            = Cat(ReadMessages(ends, "responses", s), ReadMessages(ends, "responses", t))
        BY <4>1, WireCat
      <4>3. ReadMessages(ends, "responses", s) = EntriesRead(ends, h)
        BY <3>5 DEF ItemsFit
      <4>4. ReadMessages(ends, "responses", t) = EntryRead(ends, e)
        BY <3>6 DEF EntryItems
      <4>5. EntriesRead(ends, w) = Cat(EntriesRead(ends, h), EntryRead(ends, e))
        BY <3>3, <3>4, EntryIsRead, EntriesMore
      <4> QED BY <4>2, <4>3, <4>4, <4>5
    <3>14. w[Len(w)] = e
      BY <2>2 DEF e
    <3>15. /\ e.role = "user" <=> t[Len(t)].role = "user"
           /\ t[Len(t)].type = "function_call" => e.role = "assistant" /\ e.calls # <<>>
      BY <3>6 DEF EntryItems
    <3> HIDE DEF s, t, u
    <3> QED BY <3>8, <3>11, <3>12, <3>13, <3>14, <3>15 DEF ItemsFit
  <2> QED BY <2>1, <2>2 DEF S
<1> HIDE DEF S
<1>3. S = Nat
  <2>1. S \in SUBSET Nat
    BY DEF S
  <2> QED BY <1>1, <1>2, <2>1, SetInduction
<1>4. Len(hist) \in Nat
  BY SeqLength DEF Dialogue, KnownEntries
<1> QED BY <1>3, <1>4 DEF S

-----------------------------------------------------------------------------
(* Texts, and content that is only text *)

AllIn(t, kinds) == IsSeq(t) /\ \A j \in 1 .. Len(t) : t[j].kind \in kinds

LEMMA AllInCat ==
    ASSUME NEW kinds, NEW s, AllIn(s, kinds), NEW t, AllIn(t, kinds)
    PROVE  AllIn(Cat(s, t), kinds)
<1> DEFINE u == Cat(s, t)
           m == Len(s)
           n == Len(t)
<1>1. IsSeq(s) /\ IsSeq(t)
  BY DEF AllIn
<1>2. m \in Nat /\ n \in Nat
  BY <1>1, SeqLength
<1>3. Joins(u, s, t)
  BY <1>1, JoinsUp DEF Cat
<1>4. /\ IsSeq(u) /\ Len(u) = m + n
      /\ \A j \in 1 .. m : u[j] = s[j]
      /\ \A j \in 1 .. n : u[m + j] = t[j]
  BY <1>3 DEF Joins
<1> HIDE DEF u, m, n
<1>5. ASSUME NEW j \in 1 .. m + n PROVE u[j].kind \in kinds
  <2>1. CASE j \in 1 .. m
    BY <2>1, <1>4 DEF AllIn, m
  <2>2. CASE j \notin 1 .. m
    <3>1. j - m \in 1 .. n /\ m + (j - m) = j
      BY <2>2, <1>2
    <3> QED BY <3>1, <1>4 DEF AllIn, n
  <2> QED BY <2>1, <2>2
<1> QED BY <1>4, <1>5 DEF AllIn, u

LEMMA VoicedLess ==
    ASSUME NEW f, IsSeq(f), NEW x, IsVoiced(Append(f, x))
    PROVE  /\ IsVoiced(f) /\ VoicedBlock(x) /\ IsVoiced(<<x>>) /\ Append(f, x) = Cat(f, <<x>>)
           /\ IsPlain(Append(f, x)) => IsPlain(f) /\ x.type # "thinking"
<1> DEFINE n == Len(f)
           t == Append(f, x)
<1>1. /\ n \in Nat /\ IsSeq(t) /\ Len(t) = n + 1 /\ t[n + 1] = x
      /\ \A j \in 1 .. n : t[j] = f[j]
  BY Appended
<1> HIDE DEF t
<1>2. IsVoiced(t)
  BY DEF t
<1> HIDE DEF n
<1>3. \A k \in 1 .. n + 1 : VoicedBlock(t[k])
  BY <1>1, <1>2 DEF IsVoiced
<1>4. n + 1 \in 1 .. n + 1 /\ \A k \in 1 .. n : k \in 1 .. n + 1
  BY <1>1
<1>5. VoicedBlock(x) /\ IsVoiced(f)
  BY <1>1, <1>3, <1>4 DEF IsVoiced, n
<1>6. IsPlain(t) => IsPlain(f) /\ x.type # "thinking"
  BY <1>1, <1>4, <1>5 DEF IsPlain, n
<1>7. Append(f, x) = Cat(f, <<x>>)
  BY CatOne
<1> QED BY <1>5, <1>6, <1>7, OneVoiced DEF t

LEMMA TextOfOne ==
    ASSUME NEW b, IsSeq(b.text)
    PROVE  TextOf(<<b>>) = IF b.type = "text" THEN b.text ELSE <<>>
<1>1. OfType(<<b>>, "text") = IF b.type = "text" THEN <<b>> ELSE <<>>
  BY OneOfType
<1> QED BY <1>1, OneJoined, EmptyJoined DEF TextOf

LEMMA TextOfNone == TextOf(<<>>) = <<>>
<1> QED BY EmptyOfType, EmptyJoined DEF TextOf

\* The text of what was said has no phrase that the gateway adds
LEMMA TextIsUttered == ASSUME NEW said0, IsVoiced(said0) PROVE AllIn(TextOf(said0), Uttered)
<1> DEFINE S == {n \in Nat : \A bs : IsVoiced(bs) /\ Len(bs) = n => AllIn(TextOf(bs), Uttered)}
<1>0. AllIn(<<>>, Uttered)
  BY EmptyIsSeq DEF AllIn
<1>1. 0 \in S
  <2>1. ASSUME NEW bs, IsVoiced(bs), Len(bs) = 0 PROVE AllIn(TextOf(bs), Uttered)
    <3>1. bs = <<>>
      BY <2>1, EmptySeqLength DEF IsVoiced
    <3> QED BY <1>0, <3>1, TextOfNone
  <2> QED BY <2>1
<1>2. ASSUME NEW n \in S PROVE n + 1 \in S
  <2>1. n \in Nat /\ \A bs : IsVoiced(bs) /\ Len(bs) = n => AllIn(TextOf(bs), Uttered)
    OBVIOUS
  <2> HIDE DEF S
  <2>2. ASSUME NEW w, IsVoiced(w), Len(w) = n + 1 PROVE AllIn(TextOf(w), Uttered)
    <3>1. IsSeq(w)
      BY <2>2 DEF IsVoiced
    <3>2. PICK f : IsSeq(f) /\ Len(f) = n /\ w = Append(f, w[n + 1])
      BY <2>1, <2>2, <3>1, Shortened
    <3> DEFINE x == w[n + 1]
    <3>3. w = Append(f, x)
      BY <3>2
    <3> HIDE DEF x
    <3>4. IsVoiced(f) /\ VoicedBlock(x) /\ IsVoiced(<<x>>) /\ w = Cat(f, <<x>>)
      BY <2>2, <3>2, <3>3, VoicedLess
    <3>5. AllIn(TextOf(f), Uttered)
      BY <2>1, <3>2, <3>4
    <3>6. AllIn(TextOf(<<x>>), Uttered)
      <4>1. TextOf(<<x>>) = IF x.type = "text" THEN x.text ELSE <<>>
        BY <3>4, TextOfOne DEF VoicedBlock
      <4>2. x.type = "text" => AllIn(x.text, Uttered)
        BY <3>4 DEF VoicedBlock, KindsOf, AllIn
      <4> QED BY <1>0, <4>1, <4>2
    <3>7. TextOf(w) = Cat(TextOf(f), TextOf(<<x>>))
      BY <3>4, VoicedIsGood, TextOfCat
    <3> QED BY <3>5, <3>6, <3>7, AllInCat
  <2> QED BY <2>1, <2>2 DEF S
<1> HIDE DEF S
<1>3. S = Nat
  <2>1. S \in SUBSET Nat
    BY DEF S
  <2> QED BY <1>1, <1>2, <2>1, SetInduction
<1>4. Len(said0) \in Nat
  BY SeqLength DEF IsVoiced
<1> QED BY <1>3, <1>4 DEF S

\* Nothing else than text
LEMMA OnlyOfType ==
    ASSUME NEW type, NEW all, IsSeq(all), Without(all, type) = <<>>
    PROVE  OfType(all, type) = all
<1> DEFINE S == {n \in Nat : \A bs : IsSeq(bs) /\ Without(bs, type) = <<>> /\ Len(bs) = n => OfType(bs, type) = bs}
<1>1. 0 \in S
  <2>1. ASSUME NEW bs, IsSeq(bs), Len(bs) = 0 PROVE OfType(bs, type) = bs
    <3>1. bs = <<>>
      BY <2>1, EmptySeqLength
    <3> QED BY <3>1, EmptyOfType
  <2> QED BY <2>1
<1>2. ASSUME NEW n \in S PROVE n + 1 \in S
  <2>1. n \in Nat /\ \A bs : IsSeq(bs) /\ Without(bs, type) = <<>> /\ Len(bs) = n => OfType(bs, type) = bs
    OBVIOUS
  <2> HIDE DEF S
  <2>2. ASSUME NEW w, IsSeq(w), Without(w, type) = <<>>, Len(w) = n + 1 PROVE OfType(w, type) = w
    <3>2. PICK f : IsSeq(f) /\ Len(f) = n /\ w = Append(f, w[n + 1])
      BY <2>1, <2>2, Shortened
    <3> DEFINE x == w[n + 1]
    <3>3. w = Append(f, x)
      BY <3>2
    <3> HIDE DEF x
    <3>4. w = Cat(f, <<x>>) /\ IsSeq(<<x>>)
      BY <3>2, <3>3, CatOne, One
    <3>5. Without(w, type) = Cat(Without(f, type), Without(<<x>>, type))
      BY <3>2, <3>4, WithoutCat
    <3>6. Without(f, type) = <<>> /\ Without(<<x>>, type) = <<>>
      BY <2>2, <3>2, <3>4, <3>5, PickIsSeq, CatIsEmpty
    <3>7. OfType(f, type) = f
      BY <2>1, <3>2, <3>6
    <3>8. OfType(<<x>>, type) = <<x>>
      BY <3>6, One, OneOfType
    <3>9. OfType(w, type) = Cat(f, <<x>>)
      BY <3>2, <3>4, <3>7, <3>8, OfTypeCat
    <3> QED BY <3>4, <3>9
  <2> QED BY <2>1, <2>2 DEF S
<1> HIDE DEF S
<1>3. S = Nat
  <2>1. S \in SUBSET Nat
    BY DEF S
  <2> QED BY <1>1, <1>2, <2>1, SetInduction
<1>4. Len(all) \in Nat
  BY SeqLength
<1> QED BY <1>3, <1>4 DEF S

LEMMA PickedType ==
    ASSUME NEW s, IsSeq(s), NEW type
    PROVE  \A k \in 1 .. Len(OfType(s, type)) : OfType(s, type)[k].type = type
<1> DEFINE P == {k \in DOMAIN s : s[k].type = type}
<1>1. \A k \in 1 .. Len(At(s, P)) : \E j \in 1 .. Len(s) : j \in P /\ At(s, P)[k] = s[j]
  <2> HIDE DEF P
  <2> QED BY AtElements
<1>2. OfType(s, type) = At(s, P)
  BY DEF OfType
<1> QED BY <1>1, <1>2

\* Texts and media are read as one text
LEMMA ReadPlain ==
    ASSUME NEW ends, NEW role, NEW said0, IsPlain(said0)
    PROVE  Read(ends, role, said0) = Pieces(role, NoId, Joined(said0))
<1> DEFINE S == {n \in Nat : \A bs : IsPlain(bs) /\ Len(bs) = n => Read(ends, role, bs) = Pieces(role, NoId, Joined(bs))}
<1>1. 0 \in S
  <2>1. ASSUME NEW bs, IsPlain(bs), Len(bs) = 0 PROVE Read(ends, role, bs) = Pieces(role, NoId, Joined(bs))
    <3>1. bs = <<>>
      BY <2>1, EmptySeqLength DEF IsPlain, IsVoiced
    <3> QED BY <3>1, EmptyRead, EmptyJoined, EmptyPieces
  <2> QED BY <2>1
<1>2. ASSUME NEW n \in S PROVE n + 1 \in S
  <2>1. n \in Nat /\ \A bs : IsPlain(bs) /\ Len(bs) = n => Read(ends, role, bs) = Pieces(role, NoId, Joined(bs))
    OBVIOUS
  <2> HIDE DEF S
  <2>2. ASSUME NEW w, IsPlain(w), Len(w) = n + 1 PROVE Read(ends, role, w) = Pieces(role, NoId, Joined(w))
    <3>1. IsSeq(w) /\ IsVoiced(w)
      BY <2>2 DEF IsPlain, IsVoiced
    <3>2. PICK f : IsSeq(f) /\ Len(f) = n /\ w = Append(f, w[n + 1])
      BY <2>1, <2>2, <3>1, Shortened
    <3> DEFINE x == w[n + 1]
    <3>3. w = Append(f, x)
      BY <3>2
    <3> HIDE DEF x
    <3>4. IsPlain(f) /\ VoicedBlock(x) /\ IsVoiced(<<x>>) /\ w = Cat(f, <<x>>) /\ x.type # "thinking"
      BY <2>2, <3>1, <3>2, <3>3, VoicedLess
    <3>5. Read(ends, role, f) = Pieces(role, NoId, Joined(f))
      BY <2>1, <3>2, <3>4
    <3>6. Good(f) /\ Good(<<x>>) /\ Texted(f) /\ Texted(<<x>>) /\ GoodBlock(x)
      <4>1. GoodBlock(x)
        BY <3>4, EmptyGood DEF VoicedBlock, GoodBlock, Types
      <4> QED BY <3>4, <4>1, PlainIsGood, VoicedIsGood
    <3>7. Read(ends, role, <<x>>) = Pieces(role, NoId, x.text)
      <4>1. x.type \in {"text", "media"}
        BY <3>4 DEF VoicedBlock
      <4>2. Read(ends, role, <<x>>) = BlockPieces(ends, role, x)
        BY <3>6, OneRead
      <4>3. BlockPieces(ends, role, x) = Pieces(role, NoId, x.text)
        BY <3>6, <4>1, OfBlock
      <4> QED BY <4>2, <4>3
    <3>8. Read(ends, role, w) = Cat(Pieces(role, NoId, Joined(f)), Pieces(role, NoId, x.text))
      BY <3>4, <3>5, <3>6, <3>7, ReadCat
    <3>9. Joined(w) = Cat(Joined(f), x.text) /\ IsSeq(Joined(f)) /\ IsSeq(x.text)
      BY <3>4, <3>6, JoinedCat, OneJoined DEF GoodBlock
    <3> QED BY <3>8, <3>9, PiecesCat
  <2> QED BY <2>1, <2>2 DEF S
<1> HIDE DEF S
<1>3. S = Nat
  <2>1. S \in SUBSET Nat
    BY DEF S
  <2> QED BY <1>1, <1>2, <2>1, SetInduction
<1>4. Len(said0) \in Nat
  BY SeqLength DEF IsPlain, IsVoiced
<1> QED BY <1>3, <1>4 DEF S

\* A text in place of content that is only text
LEMMA StringIs ==
    ASSUME NEW d, IsVoiced(d), IsString(d)
    PROVE  LET o == NonEmpty(TextOf(d))
           IN  /\ IsPlain(o) /\ TextOf(o) = TextOf(d) /\ Joined(o) = Joined(d)
               /\ OfType(o, "media") = <<>> /\ TextOf(d) = Joined(d)
               /\ \A ends, role : Read(ends, role, o) = Read(ends, role, d)
<1> DEFINE t == TextOf(d)
           o == NonEmpty(t)
           b == Text(t)
<1>1. IsSeq(d) /\ Good(d) /\ Texted(d)
  BY VoicedIsGood
<1>2. OfType(d, "text") = d
  BY <1>1, OnlyOfType DEF IsString
<1>3. t = Joined(d)
  BY <1>2 DEF TextOf
<1>4. AllIn(t, Uttered)
  BY TextIsUttered
<1> HIDE DEF t
<1>5. b.type = "text" /\ b.text = t /\ b.content = <<>>
  BY DEF Text, Block
<1> HIDE DEF b
<1>6. t # <<>> => VoicedBlock(b)
  BY <1>4, <1>5 DEF VoicedBlock, KindsOf, AllIn
<1>7. o = IF t = <<>> THEN <<>> ELSE <<b>>
  BY DEF NonEmpty, b
<1> HIDE DEF o
<1>8. IsPlain(o)
  BY <1>5, <1>6, <1>7, EmptyVoiced, OneVoiced
<1>9. TextOf(o) = t /\ Joined(o) = t
  BY <1>4, <1>5, <1>7, TextOfOne, TextOfNone, OneJoined, EmptyJoined DEF AllIn
<1>10. OfType(o, "media") = <<>>
  BY <1>5, <1>7, OneOfType, EmptyOfType
<1>11. ASSUME NEW ends, NEW role PROVE Read(ends, role, o) = Read(ends, role, d)
  <2>1. Read(ends, role, o) = Pieces(role, NoId, Joined(o))
    BY <1>8, ReadPlain
  <2>2. IsPlain(d)
    <3>2. \A k \in 1 .. Len(d) : d[k].type = "text"
      <4>1. \A k \in 1 .. Len(OfType(d, "text")) : OfType(d, "text")[k].type = "text"
        BY <1>1, PickedType
      <4> QED BY <1>2, <4>1
    <3> QED BY <3>2 DEF IsPlain
  <2> QED BY <1>3, <1>9, <2>1, <2>2, ReadPlain
<1> QED BY <1>3, <1>8, <1>9, <1>10, <1>11 DEF o, t

-----------------------------------------------------------------------------
(* Responses: what the parser makes of the items *)

LEMMA UsesCat == ASSUME NEW s, IsUses(s), NEW t, IsUses(t) PROVE IsUses(Cat(s, t))
<1> DEFINE u == Cat(s, t)
           m == Len(s)
           n == Len(t)
<1>1. IsSeq(s) /\ IsSeq(t)
  BY DEF IsUses
<1>2. m \in Nat /\ n \in Nat
  BY <1>1, SeqLength
<1>3. Joins(u, s, t)
  BY <1>1, JoinsUp DEF Cat
<1>4. /\ IsSeq(u) /\ Len(u) = m + n
      /\ \A j \in 1 .. m : u[j] = s[j]
      /\ \A j \in 1 .. n : u[m + j] = t[j]
  BY <1>3 DEF Joins
<1> HIDE DEF u, m, n
<1>5. ASSUME NEW j \in 1 .. m + n PROVE u[j] = ToolUse(u[j].id, u[j].args)
  <2>1. CASE j \in 1 .. m
    BY <2>1, <1>4 DEF IsUses, m
  <2>2. CASE j \notin 1 .. m
    <3>1. j - m \in 1 .. n /\ m + (j - m) = j
      BY <2>2, <1>2
    <3> QED BY <3>1, <1>4 DEF IsUses, n
  <2> QED BY <2>1, <2>2
<1> QED BY <1>4, <1>5 DEF IsUses, u

LEMMA EmptyUses == IsUses(<<>>)
<1> QED BY EmptyIsSeq DEF IsUses

LEMMA TextOfTalk ==
    ASSUME NEW a, IsVoiced(a), NEW u, IsUses(u)
    PROVE  TextOf(Cat(a, u)) = TextOf(a)
<1>1. Texted(a) /\ Texted(u)
  BY VoicedIsGood, UsesAreGood, GoodIsTexted
<1>2. TextOf(u) = <<>>
  <2>1. OfType(u, "text") = <<>>
    BY OfUses
  <2> QED BY <2>1, EmptyJoined DEF TextOf
<1>3. TextOf(Cat(a, u)) = Cat(TextOf(a), <<>>) /\ IsSeq(TextOf(a))
  BY <1>1, <1>2, TextOfCat
<1> QED BY <1>3, CatEmpty

LEMMA MsgsAreRead ==
    ASSUME NEW c, NEW ms, GoodMsgs(c, ms), NEW ends
    PROVE  IsSeq(MsgsRead(ends, ms))
<1>1. IsSeq(ms) /\ DOMAIN ms = 1 .. Len(ms)
  BY SeqLength DEF GoodMsgs
<1>2. Lists(MsgParts(ends, ms), ms)
  BY <1>1, MsgIsRead DEF Lists, IsMap, MsgParts, GoodMsgs
<1> QED BY <1>1, <1>2, FlatLists DEF MsgsRead

\* A message of the assistant with blocks in it
Talking(m, a, u) == TalkMsg(m, a, u) /\ m.content = Cat(a, u)

LEMMA TalkingIs ==
    ASSUME NEW a, IsVoiced(a), NEW u, IsUses(u), a # <<>> \/ u # <<>>
    PROVE  LET m == Message("assistant", Cat(a, u), TextOf(Cat(a, u)), NoId)
           IN  Talking(m, a, u) /\ GoodMsg("responses", m) /\ m.role = "assistant" /\ MsgBlocks(m) = Cat(a, u)
<1> DEFINE m == Message("assistant", Cat(a, u), TextOf(Cat(a, u)), NoId)
<1>1. m.role = "assistant" /\ m.content = Cat(a, u) /\ m.text = TextOf(a)
  BY TextOfTalk DEF Message
<1> HIDE DEF m
<1>2. TalkMsg(m, a, u)
  BY <1>1 DEF TalkMsg, Fits
<1> QED BY <1>1, <1>2, BlocksOfTalk DEF GoodMsg, Talking, m

LEMMA Regrouped ==
    ASSUME NEW a, IsSeq(a), NEW u, IsSeq(u), NEW w, IsSeq(w), NEW v, IsSeq(v), u = <<>> \/ w = <<>>
    PROVE  Cat(Cat(a, u), Cat(w, v)) = Cat(Cat(a, w), Cat(u, v))
<1>1. CASE u = <<>>
  <2>1. Cat(a, u) = a /\ Cat(u, v) = v
    BY <1>1, CatEmpty
  <2> QED BY <2>1, CatAssoc
<1>2. CASE w = <<>>
  <2>1. Cat(a, w) = a /\ Cat(w, v) = v
    BY <1>2, CatEmpty
  <2> QED BY <2>1, CatAssoc
<1> QED BY <1>1, <1>2

\* What the assistant says joins its last message, or starts one
LEMMA AssistantGrows ==
    ASSUME NEW ms, GoodMsgs("responses", ms), NEW w, IsVoiced(w), NEW v, IsUses(v), w # <<>> \/ v # <<>>,
           \/ ms = <<>> \/ ms[Len(ms)].role # "assistant"
           \/ \E a, u : Talking(ms[Len(ms)], a, u) /\ (u = <<>> \/ w = <<>>)
    PROVE  LET new == AppendAssistant(ms, Cat(w, v))
           IN  /\ GoodMsgs("responses", new) /\ new # <<>>
               /\ \E a, u : Talking(new[Len(new)], a, u) /\ (w # <<>> /\ v = <<>> => u = <<>>)
               /\ \A ends : MsgsRead(ends, new) = Cat(MsgsRead(ends, ms), Read(ends, "assistant", Cat(w, v)))
<1> DEFINE b   == Cat(w, v)
           n   == Len(ms)
           all == ms[n].content \o b
           new == AppendAssistant(ms, b)
<1>1. IsSeq(w) /\ IsSeq(v) /\ IsSeq(ms) /\ Good(w) /\ Good(v) /\ Good(b)
  BY VoicedIsGood, UsesAreGood, GoodCat DEF IsUses, GoodMsgs
<1>2. b # <<>>
  BY <1>1, CatIsEmpty
<1>3. n \in Nat /\ (ms = <<>> <=> n = 0)
  BY <1>1, SeqLength, EmptySeqLength
<1>4. new = IF n > 0 /\ ms[n].role = "assistant"
            THEN [ms EXCEPT ![n] = Message("assistant", all, TextOf(all), NoId)]
            ELSE Append(ms, Message("assistant", b, TextOf(b), NoId))
  BY <1>2 DEF AppendAssistant
<1> HIDE DEF new
<1>5. CASE ms = <<>> \/ ms[n].role # "assistant"
  <2> DEFINE m == Message("assistant", b, TextOf(b), NoId)
  <2>1. new = Append(ms, m)
    BY <1>3, <1>4, <1>5
  <2>2. Talking(m, w, v) /\ GoodMsg("responses", m) /\ m.role = "assistant" /\ MsgBlocks(m) = b
    BY TalkingIs
  <2> HIDE DEF m, b
  <2>3. GoodMsgs("responses", new)
    BY <1>5, <2>1, <2>2, GoodMore DEF n
  <2>4. new # <<>> /\ new[Len(new)] = m
    BY <1>1, <2>1, Appended, FirstAppended
  <2>5. ASSUME NEW ends PROVE MsgsRead(ends, new) = Cat(MsgsRead(ends, ms), Read(ends, "assistant", b))
    <3>1. MsgRead(ends, m) = Read(ends, "assistant", b)
      BY <2>2 DEF MsgRead
    <3>2. IsSeq(MsgRead(ends, m))
      BY <2>2, MsgIsRead
    <3> QED BY <1>1, <2>1, <3>1, <3>2, MsgsMore
  <2> QED BY <2>2, <2>3, <2>4, <2>5 DEF new, b
<1>6. CASE ms # <<>> /\ ms[n].role = "assistant"
  <2>1. PICK a, u : Talking(ms[n], a, u) /\ (u = <<>> \/ w = <<>>)
    BY <1>6
  <2>2. PICK f, x : IsSeq(f) /\ ms = Append(f, x)
    BY <1>1, <1>6, LastOf
  <2>3. ms[n] = x
    BY <2>2, Appended
  <2> DEFINE aa == Cat(a, w)
             uu == Cat(u, v)
             m  == Message("assistant", Cat(aa, uu), TextOf(Cat(aa, uu)), NoId)
  <2>4. /\ x.content = Cat(a, u) /\ x.role = "assistant" /\ TalkMsg(x, a, u)
        /\ IsVoiced(a) /\ IsUses(u) /\ IsSeq(a) /\ IsSeq(u)
    BY <2>1, <2>3, VoicedIsGood DEF Talking, TalkMsg, IsUses
  <2>5. all = Cat(aa, uu)
    <3>1. all = Cat(Cat(a, u), Cat(w, v))
      BY <2>3, <2>4 DEF Cat
    <3> HIDE DEF all
    <3> QED BY <1>1, <2>1, <2>4, <3>1, Regrouped
  <2>6. IsVoiced(aa) /\ IsUses(uu) /\ (aa # <<>> \/ uu # <<>>)
    <3>1. IsVoiced(aa) /\ IsUses(uu)
      BY <2>4, VoicedCat, UsesCat
    <3>2. (aa = <<>> <=> a = <<>> /\ w = <<>>) /\ (uu = <<>> <=> u = <<>> /\ v = <<>>)
      BY <1>1, <2>4, CatIsEmpty
    <3> QED BY <3>1, <3>2
  <2> HIDE DEF aa, uu
  <2>7. Talking(m, aa, uu) /\ GoodMsg("responses", m) /\ m.role = "assistant" /\ MsgBlocks(m) = Cat(aa, uu)
    BY <2>6, TalkingIs
  <2>8. new = Append(f, m)
    <3>1. new = [ms EXCEPT ![n] = Message("assistant", all, TextOf(all), NoId)]
      BY <1>3, <1>4, <1>6
    <3>2. new = [ms EXCEPT ![Len(ms)] = m]
      BY <2>5, <3>1 DEF n
    <3> HIDE DEF m
    <3> QED BY <2>2, <3>2, ReplacedLast
  <2> HIDE DEF m, all
  <2>9. GoodMsgs("responses", f) /\ (f = <<>> \/ f[Len(f)].role # x.role \/ x.role = "tool")
    BY <2>2, GoodLess
  <2>10. GoodMsgs("responses", new)
    BY <2>4, <2>7, <2>8, <2>9, GoodMore
  <2>11. new # <<>> /\ new[Len(new)] = m
    BY <2>2, <2>8, Appended, FirstAppended
  <2>12. ASSUME w # <<>>, v = <<>> PROVE uu = <<>>
    <3>1. u = <<>>
      BY <2>1, <2>12
    <3> QED BY <2>12, <3>1, CatEmpties DEF uu
  <2>13. ASSUME NEW ends PROVE MsgsRead(ends, new) = Cat(MsgsRead(ends, ms), Read(ends, "assistant", b))
    <3> DEFINE F  == MsgsRead(ends, f)
               R1 == Read(ends, "assistant", Cat(a, u))
               R2 == Read(ends, "assistant", b)
    <3>1. MsgRead(ends, m) = Read(ends, "assistant", Cat(aa, uu)) /\ IsSeq(MsgRead(ends, m))
      BY <2>7, MsgIsRead DEF MsgRead
    <3>2. MsgRead(ends, x) = R1 /\ IsSeq(MsgRead(ends, x)) /\ Good(Cat(a, u))
      BY <2>4, BlocksOfTalk, ReadIsSeq DEF MsgRead
    <3>3. MsgsRead(ends, ms) = Cat(F, R1)
      BY <2>2, <3>2, MsgsMore
    <3>4. MsgsRead(ends, new) = Cat(F, MsgRead(ends, m))
      BY <2>2, <2>8, <3>1, MsgsMore
    <3>5. Cat(aa, uu) = Cat(Cat(a, u), b)
      BY <1>1, <2>1, <2>4, Regrouped DEF aa, uu
    <3>6. Read(ends, "assistant", Cat(aa, uu)) = Cat(R1, R2)
      <4> HIDE DEF b
      <4> QED BY <1>1, <3>2, <3>5, ReadCat
    <3>7. IsSeq(R2)
      BY <1>1, ReadIsSeq
    <3>8. IsSeq(F)
      BY <2>9, MsgsAreRead
    <3> HIDE DEF F, R1, R2
    <3>9. IsSeq(R1)
      BY <3>2
    <3>10. Cat(Cat(F, R1), R2) = Cat(F, Cat(R1, R2))
      BY <3>7, <3>8, <3>9, CatAssoc
    <3> QED BY <3>1, <3>3, <3>4, <3>6, <3>10 DEF R2
  <2> QED BY <2>7, <2>10, <2>11, <2>12, <2>13 DEF new, b
<1> QED BY <1>5, <1>6 DEF n

-----------------------------------------------------------------------------

\* The last message of those parsed, by the last item
LastParsed(x, m) ==
    \/ x.role = "user" /\ m.role = "user"
    \/ x.type = "function_call_output" /\ m.role = "tool"
    \/ x.role # "user" /\ \E a, u : Talking(m, a, u) /\ (x.type # "function_call" => u = <<>>)
ItemsParsed(s) ==
    LET ms == ParseItems(s)
    IN  /\ GoodMsgs("responses", ms)
        /\ \A ends : MsgsRead(ends, ms) = ReadMessages(ends, "responses", s)
        /\ s = <<>> => ms = <<>>
        /\ s # <<>> => ms # <<>> /\ LastParsed(s[Len(s)], ms[Len(ms)])

LEMMA GoodItemsLess ==
    ASSUME NEW f, IsSeq(f), NEW x, GoodItems(Append(f, x))
    PROVE  GoodItems(f) /\ KnownItem(x) /\ (f = <<>> \/ (ItemFollows(f[Len(f)], x) /\ KnownItem(f[Len(f)])))
<1> DEFINE n == Len(f)
           t == Append(f, x)
<1>1. /\ n \in Nat /\ IsSeq(t) /\ Len(t) = n + 1 /\ t[n + 1] = x
      /\ \A j \in 1 .. n : t[j] = f[j]
  BY Appended
<1>2. f = <<>> <=> n = 0
  BY EmptySeqLength
<1> HIDE DEF t
<1>3. GoodItems(t)
  BY DEF t
<1> HIDE DEF n
<1>4. \A k \in 1 .. n + 1 : KnownItem(t[k])
  BY <1>1, <1>3 DEF GoodItems
<1>5. \A k \in 1 .. n : ItemFollows(t[k], t[k + 1])
  <2>1. Len(t) - 1 = n
    BY <1>1
  <2> QED BY <1>3, <2>1 DEF GoodItems
<1>6. \A k \in 1 .. n : KnownItem(f[k])
  BY <1>1, <1>4
<1>7. ASSUME NEW k \in 1 .. n - 1 PROVE ItemFollows(f[k], f[k + 1])
  <2>1. k \in 1 .. n /\ k + 1 \in 1 .. n
    BY <1>1
  <2>2. t[k] = f[k] /\ t[k + 1] = f[k + 1]
    BY <1>1, <2>1
  <2> QED BY <1>5, <2>1, <2>2
<1>8. n # 0 => ItemFollows(f[n], x) /\ KnownItem(f[n])
  <2>1. SUFFICES ASSUME n # 0 PROVE ItemFollows(f[n], x) /\ KnownItem(f[n])
    OBVIOUS
  <2>2. n \in 1 .. n
    BY <1>1, <2>1
  <2>3. t[n] = f[n]
    BY <1>1, <2>2
  <2> QED BY <1>1, <1>5, <1>6, <2>2, <2>3
<1>9. KnownItem(x)
  <2>1. n + 1 \in 1 .. n + 1
    BY <1>1
  <2> QED BY <1>1, <1>4, <2>1
<1>10. GoodItems(f)
  BY <1>6, <1>7 DEF GoodItems, n
<1> QED BY <1>2, <1>8, <1>9, <1>10 DEF n

\* Results are read alike if they hold the same text and media
ResultPieces(id, d) == Cat(<<Piece("result", id, Phrase("starts", 0))>>, Pieces("result", id, Joined(d)))

LEMMA ResultIsRead ==
    ASSUME NEW ends, NEW role, NEW id, NEW d, IsPlain(d)
    PROVE  Read(ends, role, <<ToolResult(id, d)>>) = ResultPieces(id, d) /\ IsSeq(ResultPieces(id, d))
<1> DEFINE b == ToolResult(id, d)
<1>1. b.type = "tool_result" /\ b.text = <<>> /\ b.content = d /\ b.id = id
  BY DEF ToolResult, Block
<1> HIDE DEF b
<1>2. GoodBlock(b)
  BY <1>1, EmptyIsSeq, PlainIsGood DEF GoodBlock, Types
<1>3. Read(ends, role, <<b>>) = BlockPieces(ends, role, b)
  BY <1>2, OneRead
<1>4. BlockPieces(ends, role, b) = Cat(<<Piece("result", b.id, Phrase("starts", 0))>>,
                     Pieces("result", b.id, Joined(b.content))) /\ IsSeq(BlockPieces(ends, role, b))
  BY <1>1, <1>2, OfBlock
<1> QED BY <1>1, <1>3, <1>4 DEF ResultPieces, b

\* An item of the user
LEMMA UserParsed ==
    ASSUME NEW x, UserItem(x), NEW ms
    PROVE  \E m : /\ ParseItem(ms, x) = Append(ms, m) /\ m.role = "user" /\ GoodMsg("responses", m)
                  /\ x.role = "user" /\ MsgBlocks(m) = ItemBlocks(x)
<1> DEFINE d == x.content
           m == Message("user", d, TextOf(d), NoId)
<1>1. x.type = "message" /\ x.role = "user" /\ ItemBlocks(x) = d
  BY BlocksOfItem DEF KnownItem
<1>2. ParseItem(ms, x) = Append(ms, m)
  BY <1>1 DEF ParseItem
<1>3. IsPlain(d) /\ d # <<>>
  BY DEF UserItem
<1> HIDE DEF d
<1>4. m.role = "user" /\ m.content = d /\ m.text = TextOf(d)
  BY DEF Message
<1>5. Cat(<<>>, d) = d
  BY <1>3, PlainIsGood, CatEmpty
<1> HIDE DEF m
<1>6. UserMsg(m, <<>>, d)
  BY <1>3, <1>4, <1>5, EmptyResults DEF UserMsg, Fits
<1>7. GoodMsg("responses", m) /\ MsgBlocks(m) = d
  BY <1>5, <1>6, BlocksOfUser DEF GoodMsg
<1> QED BY <1>1, <1>2, <1>4, <1>7

\* An item of a tool
LEMMA OutParsed ==
    ASSUME NEW x, OutItem(x), NEW ms
    PROVE  \E m : /\ ParseItem(ms, x) = Append(ms, m) /\ m.role = "tool" /\ GoodMsg("responses", m)
                  /\ \A ends : MsgRead(ends, m) = WireRead(ends, "responses", x)
<1> DEFINE d == x.content
           m == IF IsString(d) THEN Message("tool", <<>>, TextOf(d), x.id)
                ELSE Message("tool", d, <<>>, x.id)
           o == NonEmpty(TextOf(d))
<1>1. x.type = "function_call_output" /\ x.role = "" /\ ItemBlocks(x) = <<ToolResult(x.id, d)>> /\ KnownItem(x)
  <2>1. KnownItem(x)
    BY DEF KnownItem
  <2> QED BY <2>1, BlocksOfItem DEF OutItem
<1>2. ParseItem(ms, x) = Append(ms, m)
  BY <1>1 DEF ParseItem
<1>3. IsPlain(d) /\ IsVoiced(d)
  BY DEF OutItem, IsPlain
<1> HIDE DEF d
<1>4. IsPlain(d) /\ Joined(d) = Joined(d)
  BY <1>3
<1>5. m.role = "tool" /\ m.id = x.id
  BY DEF Message
<1>6. /\ ToolMsg(m)
      /\ Joined(MessageOutput(m)) = Joined(d)
  <2>1. CASE IsString(d)
    <3>1. m.content = <<>> /\ m.text = TextOf(d)
      BY <2>1 DEF Message
    <3> HIDE DEF m
    <3>2. MessageOutput(m) = o
      BY <3>1 DEF MessageOutput
    <3>3. IsPlain(o) /\ TextOf(o) = TextOf(d) /\ Joined(o) = Joined(d) /\ OfType(o, "media") = <<>>
      BY <1>3, <2>1, StringIs
    <3>4. OfType(<<>>, "media") = <<>>
      BY EmptyOfType
    <3> HIDE DEF o
    <3> QED BY <1>5, <3>1, <3>2, <3>3, <3>4, TextOfNone DEF ToolMsg
  <2>2. CASE ~IsString(d)
    <3>1. m.content = d /\ m.text = <<>>
      BY <2>2 DEF Message
    <3> HIDE DEF m
    <3>2. d # <<>>
      BY <2>2, EmptyOfType DEF IsString
    <3>3. MessageOutput(m) = d
      BY <3>1, <3>2 DEF MessageOutput
    <3> QED BY <1>3, <1>5, <3>1, <3>3 DEF ToolMsg
  <2> QED BY <2>1, <2>2
<1> HIDE DEF m
<1>7. GoodMsg("responses", m)
  BY <1>6 DEF GoodMsg
<1>8. ASSUME NEW ends PROVE MsgRead(ends, m) = WireRead(ends, "responses", x)
  <2> DEFINE q == MessageOutput(m)
             b == ToolResult(x.id, q)
             y == ToolResult(x.id, d)
  <2>1. MsgRead(ends, m) = Read(ends, "tool", <<b>>)
    BY <1>5, <1>6, BlocksOfTool DEF MsgRead
  <2>2. WireRead(ends, "responses", x) = Read(ends, "", <<y>>)
    BY <1>1, ItemIsRead
  <2>3. IsPlain(q)
    BY <1>6 DEF ToolMsg
  <2>4. Read(ends, "tool", <<b>>) = ResultPieces(x.id, q)
    BY <2>3, ResultIsRead
  <2>5. Read(ends, "", <<y>>) = ResultPieces(x.id, d)
    BY <1>3, ResultIsRead
  <2> HIDE DEF b, y
  <2> QED BY <1>6, <2>1, <2>2, <2>4, <2>5 DEF ResultPieces, q
<1> QED BY <1>2, <1>5, <1>7, <1>8

\* Items of the assistant
LEMMA TalkParsed ==
    ASSUME NEW x, TextItem(x) \/ ThinkItem(x) \/ CallItem(x), NEW ms
    PROVE  /\ x.role # "user" /\ x.type # "function_call_output"
           /\ ParseItem(ms, x) = AppendAssistant(ms, ItemBlocks(x))
           /\ ~CallItem(x) => x.type # "function_call" /\ IsVoiced(ItemBlocks(x)) /\ ItemBlocks(x) # <<>>
           /\ CallItem(x) => x.type = "function_call" /\ IsUses(ItemBlocks(x)) /\ ItemBlocks(x) # <<>>
           /\ \A ends : WireRead(ends, "responses", x) = Read(ends, "assistant", ItemBlocks(x))
<1>1. KnownItem(x)
  BY DEF KnownItem
<1>2. CASE TextItem(x)
  <2>1. x.type = "message" /\ x.role = "assistant" /\ ItemBlocks(x) = x.content
    BY <1>1, <1>2, BlocksOfItem
  <2>2. IsVoiced(x.content) /\ x.content # <<>>
    BY <1>2 DEF TextItem
  <2>3. ParseItem(ms, x) = AppendAssistant(ms, x.content)
    BY <2>1 DEF ParseItem
  <2>4. \A ends : WireRead(ends, "responses", x) = Read(ends, "assistant", ItemBlocks(x))
    BY <1>1, <2>1, ItemIsRead
  <2>5. ~CallItem(x)
    BY <2>1 DEF CallItem
  <2> QED BY <2>1, <2>2, <2>3, <2>4, <2>5
<1>3. CASE ThinkItem(x)
  <2> DEFINE b == Thinking(Joined(x.content))
  <2>1. x.type = "reasoning" /\ x.role = "" /\ ItemBlocks(x) = <<b>>
    BY <1>1, <1>3, BlocksOfItem DEF ThinkItem
  <2>2. IsVoiced(<<b>>) /\ <<b>> # <<>> /\ x.content # <<>>
    BY <1>3, One DEF ThinkItem
  <2>3. ParseItem(ms, x) = AppendAssistant(ms, <<b>>)
    BY <2>1, <2>2 DEF ParseItem
  <2>4. ASSUME NEW ends PROVE WireRead(ends, "responses", x) = Read(ends, "assistant", ItemBlocks(x))
    <3>1. WireRead(ends, "responses", x) = Read(ends, "", <<b>>)
      BY <1>1, <2>1, ItemIsRead
    <3>2. GoodBlock(b) /\ b.type = "thinking"
      <4>1. Good(<<b>>)
        BY <2>2, VoicedIsGood
      <4>2. b.type = "thinking"
        BY DEF Thinking, Block
      <4> HIDE DEF b
      <4> QED BY <4>1, <4>2, One DEF Good
    <3> HIDE DEF b
    <3> QED BY <2>1, <3>1, <3>2, AnyRole
  <2>5. ~CallItem(x)
    BY <2>1 DEF CallItem
  <2> HIDE DEF b
  <2> QED BY <2>1, <2>2, <2>3, <2>4, <2>5
<1>4. CASE CallItem(x)
  <2> DEFINE b == ToolUse(x.id, x.args)
  <2>1. x.type = "function_call" /\ x.role = "" /\ ItemBlocks(x) = <<b>>
    BY <1>1, <1>4, BlocksOfItem DEF CallItem
  <2>2. IsUses(<<b>>) /\ <<b>> # <<>>
    BY OneUse
  <2>3. ParseItem(ms, x) = AppendAssistant(ms, <<b>>)
    BY <2>1 DEF ParseItem
  <2>4. ASSUME NEW ends PROVE WireRead(ends, "responses", x) = Read(ends, "assistant", ItemBlocks(x))
    <3>1. WireRead(ends, "responses", x) = Read(ends, "", <<b>>)
      BY <1>1, <2>1, ItemIsRead
    <3>2. GoodBlock(b) /\ b.type = "tool_use"
      BY UseIsGood
    <3> HIDE DEF b
    <3> QED BY <2>1, <3>1, <3>2, AnyRole
  <2> HIDE DEF b
  <2> QED BY <1>4, <2>1, <2>2, <2>3, <2>4
<1> QED BY <1>2, <1>3, <1>4

LEMMA OneItemParsed ==
    ASSUME NEW s, IsSeq(s), NEW x, GoodItems(Append(s, x)), ItemsParsed(s)
    PROVE  ItemsParsed(Append(s, x))
<1> DEFINE ms  == ParseItems(s)
           t   == Append(s, x)
           new == ParseItem(ms, x)
           y   == s[Len(s)]
           l   == ms[Len(ms)]
<1>1. GoodItems(s) /\ KnownItem(x) /\ (s = <<>> \/ (ItemFollows(y, x) /\ KnownItem(y)))
  BY GoodItemsLess
<1>2. ParseItems(t) = new
  BY ParseItemsAppend
<1>3. /\ GoodMsgs("responses", ms) /\ IsSeq(ms)
      /\ \A ends : MsgsRead(ends, ms) = ReadMessages(ends, "responses", s)
      /\ s = <<>> => ms = <<>>
      /\ s # <<>> => LastParsed(y, l)
  BY DEF ItemsParsed, GoodMsgs
<1>4. t # <<>> /\ t[Len(t)] = x
  BY Appended, FirstAppended
<1>5. ASSUME NEW ends
      PROVE  /\ ReadMessages(ends, "responses", t) = Cat(ReadMessages(ends, "responses", s), WireRead(ends, "responses", x))
             /\ IsSeq(WireRead(ends, "responses", x))
  BY <1>1, ItemIsRead, WireMore
<1> HIDE DEF t, y, l, ms
<1>6. SUFFICES /\ GoodMsgs("responses", new) /\ new # <<>> /\ LastParsed(x, new[Len(new)])
               /\ \A ends : MsgsRead(ends, new) = Cat(MsgsRead(ends, ms), WireRead(ends, "responses", x))
  <2> HIDE DEF new
  <2> QED BY <1>2, <1>3, <1>4, <1>5, <1>6 DEF ItemsParsed, t
<1> HIDE DEF new
<1>7. CASE UserItem(x)
  <2>1. PICK m : /\ new = Append(ms, m) /\ m.role = "user" /\ GoodMsg("responses", m)
                 /\ x.role = "user" /\ MsgBlocks(m) = ItemBlocks(x)
    BY <1>7, UserParsed DEF new
  <2>2. ms = <<>> \/ l.role # "user"
    <3>1. SUFFICES ASSUME s # <<>> PROVE l.role # "user"
      BY <1>3
    <3>2. y.role # "user"
      BY <1>1, <2>1, <3>1 DEF ItemFollows
    <3> QED BY <1>3, <3>1, <3>2 DEF LastParsed, Talking, TalkMsg
  <2>3. GoodMsgs("responses", new)
    BY <1>3, <2>1, <2>2, GoodMore DEF l
  <2>4. new # <<>> /\ new[Len(new)] = m
    BY <1>3, <2>1, Appended, FirstAppended
  <2>5. ASSUME NEW ends PROVE MsgsRead(ends, new) = Cat(MsgsRead(ends, ms), WireRead(ends, "responses", x))
    <3>1. MsgRead(ends, m) = WireRead(ends, "responses", x)
      BY <1>1, <2>1, ItemIsRead DEF MsgRead
    <3> QED BY <1>3, <1>5, <2>1, <3>1, MsgsMore
  <2> QED BY <2>1, <2>3, <2>4, <2>5 DEF LastParsed
<1>8. CASE OutItem(x)
  <2>1. PICK m : /\ new = Append(ms, m) /\ m.role = "tool" /\ GoodMsg("responses", m)
                 /\ \A ends : MsgRead(ends, m) = WireRead(ends, "responses", x)
    BY <1>8, OutParsed DEF new
  <2>2. x.type = "function_call_output"
    BY <1>8 DEF OutItem
  <2>3. GoodMsgs("responses", new)
    BY <1>3, <2>1, GoodMore
  <2>4. new # <<>> /\ new[Len(new)] = m
    BY <1>3, <2>1, Appended, FirstAppended
  <2>5. ASSUME NEW ends PROVE MsgsRead(ends, new) = Cat(MsgsRead(ends, ms), WireRead(ends, "responses", x))
    <3>1. MsgRead(ends, m) = WireRead(ends, "responses", x)
      BY <2>1
    <3> QED BY <1>3, <1>5, <2>1, <3>1, MsgsMore
  <2> QED BY <2>1, <2>2, <2>3, <2>4, <2>5 DEF LastParsed
<1>9. CASE TextItem(x) \/ ThinkItem(x) \/ CallItem(x)
  <2> DEFINE b == ItemBlocks(x)
             w == IF CallItem(x) THEN <<>> ELSE b
             v == IF CallItem(x) THEN b ELSE <<>>
  <2>1. /\ x.role # "user" /\ x.type # "function_call_output"
        /\ new = AppendAssistant(ms, b)
        /\ ~CallItem(x) => x.type # "function_call" /\ IsVoiced(b) /\ b # <<>>
        /\ CallItem(x) => x.type = "function_call" /\ IsUses(b) /\ b # <<>>
        /\ \A ends : WireRead(ends, "responses", x) = Read(ends, "assistant", b)
    BY <1>9, TalkParsed DEF new
  <2> HIDE DEF b
  <2>2. IsVoiced(w) /\ IsUses(v) /\ (w # <<>> \/ v # <<>>)
    BY <2>1, EmptyVoiced, EmptyUses
  <2>3. b = Cat(w, v)
    BY <2>1, CatEmpty DEF IsVoiced, IsUses
  <2>4. \/ ms = <<>> \/ l.role # "assistant"
        \/ \E a, u : Talking(l, a, u) /\ (u = <<>> \/ w = <<>>)
    <3>1. SUFFICES ASSUME s # <<>>, l.role = "assistant"
                   PROVE  \E a, u : Talking(l, a, u) /\ (u = <<>> \/ w = <<>>)
      BY <1>3
    <3>2. PICK a, u : Talking(l, a, u) /\ (y.type # "function_call" => u = <<>>)
      BY <1>3, <3>1 DEF LastParsed
    <3>3. ~CallItem(x) => y.type # "function_call"
      BY <1>1, <2>1, <3>1 DEF ItemFollows
    <3> QED BY <3>2, <3>3
  <2>5. CallItem(x) <=> x.type = "function_call"
    BY <2>1
  <2>6. (w # <<>> /\ v = <<>>) \/ CallItem(x)
    BY <2>1
  <2> HIDE DEF w, v
  <2>7. /\ GoodMsgs("responses", new) /\ new # <<>>
        /\ \E a, u : Talking(new[Len(new)], a, u) /\ (w # <<>> /\ v = <<>> => u = <<>>)
        /\ \A ends : MsgsRead(ends, new) = Cat(MsgsRead(ends, ms), Read(ends, "assistant", Cat(w, v)))
    <3>1. \/ ms = <<>> \/ ms[Len(ms)].role # "assistant"
          \/ \E a, u : Talking(ms[Len(ms)], a, u) /\ (u = <<>> \/ w = <<>>)
      BY <2>4 DEF l
    <3>2. new = AppendAssistant(ms, Cat(w, v))
      BY <2>1, <2>3
    <3>3. GoodMsgs("responses", ms)
      BY <1>3
    <3>4. IsVoiced(w)
      BY <2>2
    <3>5. IsUses(v)
      BY <2>2
    <3>6. w # <<>> \/ v # <<>>
      BY <2>2
    <3> QED BY <3>1, <3>2, <3>3, <3>4, <3>5, <3>6, AssistantGrows
  <2>8. LastParsed(x, new[Len(new)])
    BY <2>1, <2>5, <2>6, <2>7 DEF LastParsed
  <2> QED BY <2>1, <2>3, <2>7, <2>8
<1> QED BY <1>1, <1>7, <1>8, <1>9 DEF KnownItem

LEMMA ItemsAreParsed == ASSUME NEW items, GoodItems(items) PROVE ItemsParsed(items)
<1> DEFINE S == {n \in Nat : \A s : GoodItems(s) /\ Len(s) = n => ItemsParsed(s)}
<1>1. 0 \in S
  <2>1. ASSUME NEW s, GoodItems(s), Len(s) = 0 PROVE ItemsParsed(s)
    <3>1. s = <<>>
      BY <2>1, EmptySeqLength DEF GoodItems
    <3> QED BY <3>1, ParseItemsEmpty, NoMsgs, NothingRead DEF ItemsParsed
  <2> QED BY <2>1
<1>2. ASSUME NEW n \in S PROVE n + 1 \in S
  <2>1. n \in Nat /\ \A s : GoodItems(s) /\ Len(s) = n => ItemsParsed(s)
    OBVIOUS
  <2> HIDE DEF S
  <2>2. ASSUME NEW w, GoodItems(w), Len(w) = n + 1 PROVE ItemsParsed(w)
    <3>1. IsSeq(w)
      BY <2>2 DEF GoodItems
    <3>2. PICK f : IsSeq(f) /\ Len(f) = n /\ w = Append(f, w[n + 1])
      BY <2>1, <2>2, <3>1, Shortened
    <3> DEFINE x == w[n + 1]
    <3>3. w = Append(f, x)
      BY <3>2
    <3> HIDE DEF x
    <3>4. GoodItems(f)
      BY <2>2, <3>2, <3>3, GoodItemsLess
    <3>5. ItemsParsed(f)
      BY <2>1, <3>2, <3>4
    <3> QED BY <2>2, <3>2, <3>3, <3>5, OneItemParsed
  <2> QED BY <2>1, <2>2 DEF S
<1> HIDE DEF S
<1>3. S = Nat
  <2>1. S \in SUBSET Nat
    BY DEF S
  <2> QED BY <1>1, <1>2, <2>1, SetInduction
<1>4. Len(items) \in Nat
  BY SeqLength DEF GoodItems
<1> QED BY <1>3, <1>4 DEF S

LEMMA ResponsesParsedWell == ASSUME NEW h, Dialogue("responses", h) PROVE ParsedWell("responses", h)
<1> DEFINE dev   == Item("message", "developer", <<Instructions[2]>>, NoId, "")
           first == <<dev>>
           hist  == HistItems(h)
           items == first \o hist
           n     == Len(hist)
           sys   == {k \in DOMAIN items : items[k].role \in {"system", "developer"}}
           own   == DOMAIN items \ sys
<1>1. Parsed("responses", h)
      = Request(<<Instructions[1]>> \o ContentOf(At(items, sys)), ParseItems(At(items, own)))
  <2>1. Written("responses", h).messages = items /\ Written("responses", h).system = <<Instructions[1]>>
    BY DEF Written, HistItems
  <2>2. Parsed("responses", h) = ParseResponses(Written("responses", h))
    BY DEF Parsed, ParseRequest
  <2> HIDE DEF items
  <2>3. ParseResponses(Written("responses", h))
        = Request(<<Instructions[1]>> \o ContentOf(At(items, sys)), ParseItems(At(items, own)))
    BY <2>1 DEF ParseResponses, ContentOf
  <2> QED BY <2>2, <2>3
<1>2. ItemsFit(h)
  BY HistItemsFit
<1>3. GoodItems(hist) /\ IsSeq(hist)
  BY <1>2 DEF ItemsFit, GoodItems
<1>4. dev.role = "developer" /\ dev.content = <<Instructions[2]>>
  BY DEF Item
<1>5. IsSeq(first) /\ Len(first) = 1 /\ first[1] = dev
  BY One
<1>6. n \in Nat
  BY <1>3, SeqLength
<1> HIDE DEF dev, first, hist
<1>7. Joins(items, first, hist)
  BY <1>3, <1>5, JoinsUp
<1>8. IsSeq(items) /\ Len(items) = 1 + n /\ items[1] = dev
      /\ \A k \in 1 .. n : items[1 + k] = hist[k]
  BY <1>5, <1>7 DEF Joins
<1> HIDE DEF items
<1>9. DOMAIN items = 1 .. 1 + n
  BY <1>8, SeqLength
<1>10. 1 \in sys /\ 1 \notin own /\ \A k \in 1 .. n : 1 + k \notin sys /\ 1 + k \in own
  <2>1. \A k \in 1 .. n : 1 + k \in 1 .. 1 + n
    BY <1>6
  <2>2. \A k \in 1 .. n : hist[k].role \in {"", "user", "assistant"}
    BY <1>3, BlocksOfItem DEF GoodItems
  <2>3. 1 \in 1 .. 1 + n
    BY <1>6
  <2> QED BY <1>4, <1>8, <1>9, <2>1, <2>2, <2>3
<1> HIDE DEF sys, own
<1> DEFINE P == {1}
           N == 1 .. n
           Z == {}
<1>11. At(first \o hist, sys) = At(first, P) \o At(hist, Z)
  <2>1. \A k \in 1 .. Len(first) : k \in sys <=> k \in P
    BY <1>5, <1>10
  <2>2. \A k \in 1 .. Len(hist) : Len(first) + k \in sys <=> k \in Z
    BY <1>5, <1>10
  <2>3. IsSeq(first)
    BY <1>5
  <2>4. IsSeq(hist)
    BY <1>3
  <2> HIDE DEF P, Z, n
  <2> QED BY <2>1, <2>2, <2>3, <2>4, AtConcat, SMTT(60)
<1>12. At(first \o hist, own) = At(first, Z) \o At(hist, N)
  <2>1. \A k \in 1 .. Len(first) : k \in own <=> k \in Z
    BY <1>5, <1>10
  <2>2. \A k \in 1 .. Len(hist) : Len(first) + k \in own <=> k \in N
    BY <1>5, <1>10
  <2>3. IsSeq(first)
    BY <1>5
  <2>4. IsSeq(hist)
    BY <1>3
  <2> HIDE DEF N, Z, n
  <2> QED BY <2>1, <2>2, <2>3, <2>4, AtConcat, SMTT(60)
<1>13. At(first, P) = first /\ At(first, Z) = <<>>
  <2>1. DOMAIN first \subseteq P
    BY <1>5, SeqLength
  <2>2. \A k \in 1 .. Len(first) : k \notin Z
    OBVIOUS
  <2> QED BY <1>5, <2>1, <2>2, AtAll, AtNone
<1>14. At(hist, N) = hist /\ At(hist, Z) = <<>>
  <2>1. DOMAIN hist \subseteq N
    BY <1>3, SeqLength
  <2>2. \A k \in 1 .. Len(hist) : k \notin Z
    OBVIOUS
  <2> QED BY <1>3, <2>1, <2>2, AtAll, AtNone
<1>15. At(items, sys) = first /\ At(items, own) = hist
  BY <1>3, <1>5, <1>11, <1>12, <1>13, <1>14, ConcatEmpty DEF items
<1>16. ContentOf(first) = <<Instructions[2]>>
  <2>1. IsSeq(dev.content)
    BY <1>4, One
  <2> QED BY <1>4, <2>1, ContentOfOne DEF first
<1>17. <<Instructions[1]>> \o <<Instructions[2]>> = Instructions
  BY InstructionsAre DEF Cat
<1>18. Parsed("responses", h).system = Instructions
       /\ Parsed("responses", h).messages = ParseItems(hist)
  BY <1>1, <1>15, <1>16, <1>17 DEF Request
<1>19. ItemsParsed(hist)
  BY <1>3, ItemsAreParsed
<1>20. \A ends : ReadMessages(ends, "responses", hist) = EntriesRead(ends, h)
  BY <1>2 DEF ItemsFit, hist
<1> QED BY <1>18, <1>19, <1>20 DEF ParsedWell, ItemsParsed

-----------------------------------------------------------------------------
(* Anthropic: what the parser makes of messages of blocks *)

Turn(role, content) == [role |-> role, content |-> content]
AntParse(m) == IF IsString(m.content) THEN Message(m.role, <<>>, TextOf(m.content), NoId)
               ELSE Message(m.role, m.content, TextOf(m.content), NoId)
AntParsed(ws) == [k \in DOMAIN ws |-> AntParse(ws[k])]

LEMMA ResultsNoText ==
    ASSUME NEW rs, IsResults(rs)
    PROVE  /\ OfType(rs, "text") = <<>> /\ Without(rs, "text") = rs /\ TextOf(rs) = <<>>
           /\ OfType(rs, "media") = <<>> /\ OfType(rs, "thinking") = <<>>
           /\ OfType(rs, "tool_result") = rs /\ Without(rs, "tool_result") = <<>>
           /\ IsSeq(rs) /\ Texted(rs)
<1>1. IsSeq(rs)
  BY DEF IsResults
<1>2. ASSUME NEW k \in 1 .. Len(rs) PROVE rs[k].type = "tool_result"
  <2> DEFINE i == rs[k].id
             d == rs[k].content
             b == rs[k]
  <2>1. b = ToolResult(i, d)
    BY DEF IsResults
  <2> HIDE DEF i, d, b
  <2>2. b.type = "tool_result"
    BY <2>1 DEF ToolResult, Block
  <2> QED BY <2>2 DEF b
<1>3. \A type \in {"text", "media", "thinking"} : \A k \in 1 .. Len(rs) : rs[k].type # type
  BY <1>2
<1>4. OfType(rs, "text") = <<>> /\ Without(rs, "text") = rs
  <2>1. \A k \in 1 .. Len(rs) : rs[k].type # "text"
    BY <1>3
  <2> QED BY <1>1, <2>1, NoneOfType
<1>5. OfType(rs, "media") = <<>>
  <2>1. \A k \in 1 .. Len(rs) : rs[k].type # "media"
    BY <1>3
  <2> QED BY <1>1, <2>1, NoneOfType
<1>6. OfType(rs, "thinking") = <<>>
  <2>1. \A k \in 1 .. Len(rs) : rs[k].type # "thinking"
    BY <1>3
  <2> QED BY <1>1, <2>1, NoneOfType
<1>7. OfType(rs, "tool_result") = rs /\ Without(rs, "tool_result") = <<>>
  BY <1>1, <1>2, AllOfType
<1>8. TextOf(rs) = <<>>
  BY <1>4, EmptyJoined DEF TextOf
<1> QED BY <1>1, <1>4, <1>5, <1>6, <1>7, <1>8, ResultsAreGood, GoodIsTexted

LEMMA ResultsCat == ASSUME NEW s, IsResults(s), NEW t, IsResults(t) PROVE IsResults(Cat(s, t))
<1>1. IsSeq(s) /\ IsSeq(t)
  BY DEF IsResults
<1> DEFINE u == Cat(s, t)
           m == Len(s)
           n == Len(t)
<1>2. /\ IsSeq(u) /\ Len(u) = m + n /\ m \in Nat /\ n \in Nat
      /\ \A k \in 1 .. m : u[k] = s[k]
      /\ \A k \in 1 .. n : u[m + k] = t[k]
  BY <1>1, Concat, SeqLength DEF Cat
<1> HIDE DEF u
<1>3. ASSUME NEW k \in 1 .. Len(u)
      PROVE  u[k] = ToolResult(u[k].id, u[k].content) /\ IsPlain(u[k].content)
  <2>1. CASE k \in 1 .. m
    BY <1>2, <2>1 DEF IsResults
  <2>2. CASE k \notin 1 .. m
    <3> DEFINE j == k - m
    <3>1. j \in 1 .. n /\ k = m + j
      BY <1>2, <2>2
    <3> HIDE DEF j
    <3>2. u[k] = t[j]
      BY <1>2, <3>1
    <3> QED BY <3>1, <3>2 DEF IsResults
  <2> QED BY <2>1, <2>2
<1> QED BY <1>2, <1>3 DEF IsResults, u

LEMMA UserTurn ==
    ASSUME NEW rs, IsResults(rs), NEW own, IsPlain(own), rs # <<>> \/ TextOf(own) # <<>>
    PROVE  LET m == AntParse(Turn("user", Cat(rs, own)))
           IN  /\ GoodMsg("anthropic", m) /\ m.role = "user"
               /\ \A ends : MsgRead(ends, m) = Read(ends, "user", Cat(rs, own))
<1> DEFINE d == Cat(rs, own)
           m == AntParse(Turn("user", d))
           t == TextOf(own)
           o == NonEmpty(t)
<1>1. IsSeq(rs) /\ IsSeq(own) /\ Texted(rs) /\ Texted(own)
  BY ResultsNoText, PlainIsGood
<1>2. own # <<>> \/ rs # <<>>
  BY TextOfNone
<1>3. TextOf(d) = t /\ IsSeq(t)
  <2>1. TextOf(d) = Cat(TextOf(rs), t) /\ IsSeq(t)
    BY <1>1, TextOfCat
  <2>2. TextOf(rs) = <<>>
    BY ResultsNoText
  <2> HIDE DEF t
  <2> QED BY <2>1, <2>2, CatEmpty
<1>4. Without(d, "text") = Cat(rs, Without(own, "text"))
  <2>1. Without(rs, "text") = rs
    BY ResultsNoText
  <2> QED BY <1>1, <2>1, WithoutCat
<1>5. IsString(d) => rs = <<>> /\ IsString(own)
  <2>1. IsSeq(Without(own, "text"))
    BY <1>1, PickIsSeq
  <2> HIDE DEF d
  <2> QED BY <1>1, <1>4, <2>1, CatIsEmpty DEF IsString
<1>6. Turn("user", d).role = "user" /\ Turn("user", d).content = d
  BY DEF Turn
<1>7. m = IF IsString(d) THEN Message("user", <<>>, t, NoId) ELSE Message("user", d, t, NoId)
  BY <1>3, <1>6 DEF AntParse
<1> HIDE DEF d, m
<1>8. CASE ~IsString(d)
  <2>1. m.role = "user" /\ m.content = d /\ m.text = t
    BY <1>7, <1>8 DEF Message
  <2>2. UserMsg(m, rs, own)
    BY <1>2, <2>1 DEF UserMsg, Fits, d
  <2>3. GoodMsg("anthropic", m)
    BY <2>2 DEF GoodMsg
  <2>4. MsgBlocks(m) = d
    BY <2>2, BlocksOfUser DEF d
  <2> QED BY <2>1, <2>3, <2>4 DEF MsgRead, m, d
<1>9. CASE IsString(d)
  <2>1. m.role = "user" /\ m.content = <<>> /\ m.text = t
    BY <1>7, <1>9 DEF Message
  <2>2. rs = <<>> /\ IsString(own) /\ t # <<>>
    BY <1>5, <1>9
  <2>3. d = own
    BY <1>1, <2>2, CatEmpty DEF d
  <2>4. IsPlain(o) /\ TextOf(o) = t /\ \A ends, role : Read(ends, role, o) = Read(ends, role, own)
    BY <2>2, StringIs DEF IsPlain
  <2>5. o # <<>>
    BY <2>2, One DEF NonEmpty
  <2>6. Cat(<<>>, o) = o
    BY <2>4, PlainIsGood, CatEmpty
  <2>7. Fits(m, o)
    BY <2>1 DEF Fits
  <2> HIDE DEF o, t
  <2>8. UserMsg(m, <<>>, o)
    BY <2>1, <2>4, <2>5, <2>6, <2>7, EmptyResults DEF UserMsg
  <2>9. GoodMsg("anthropic", m)
    BY <2>8 DEF GoodMsg
  <2>10. MsgBlocks(m) = o
    BY <2>6, <2>8, BlocksOfUser
  <2> QED BY <2>1, <2>3, <2>4, <2>9, <2>10 DEF MsgRead, m, d
<1> QED BY <1>8, <1>9

LEMMA TalkTurn ==
    ASSUME NEW a, IsVoiced(a), NEW u, IsUses(u), a # <<>> \/ u # <<>>,
           IsString(a) => a = <<>> \/ TextOf(a) # <<>>
    PROVE  LET m == AntParse(Turn("assistant", Cat(a, u)))
           IN  /\ GoodMsg("anthropic", m) /\ m.role = "assistant"
               /\ \A ends : MsgRead(ends, m) = Read(ends, "assistant", Cat(a, u))
<1> DEFINE d == Cat(a, u)
           m == AntParse(Turn("assistant", d))
           t == TextOf(a)
           o == NonEmpty(t)
<1>1. IsSeq(a) /\ IsSeq(u)
  BY VoicedIsGood DEF IsUses
<1>2. TextOf(d) = t
  BY TextOfTalk
<1>3. Without(d, "text") = Cat(Without(a, "text"), u)
  <2>1. Without(u, "text") = u
    BY OfUses
  <2> QED BY <1>1, <2>1, WithoutCat
<1>4. IsString(d) => u = <<>> /\ IsString(a)
  <2>1. IsSeq(Without(a, "text"))
    BY <1>1, PickIsSeq
  <2> HIDE DEF d
  <2> QED BY <1>1, <1>3, <2>1, CatIsEmpty DEF IsString
<1>5. Turn("assistant", d).role = "assistant" /\ Turn("assistant", d).content = d
  BY DEF Turn
<1>6. m = IF IsString(d) THEN Message("assistant", <<>>, t, NoId) ELSE Message("assistant", d, t, NoId)
  BY <1>2, <1>5 DEF AntParse
<1> HIDE DEF d, m
<1>7. CASE ~IsString(d)
  <2>1. m.role = "assistant" /\ m.content = d /\ m.text = t
    BY <1>6, <1>7 DEF Message
  <2>2. TalkMsg(m, a, u)
    BY <2>1 DEF TalkMsg, Fits, d
  <2>3. GoodMsg("anthropic", m)
    BY <2>2 DEF GoodMsg
  <2>4. MsgBlocks(m) = d
    BY <2>2, BlocksOfTalk DEF d
  <2> QED BY <2>1, <2>3, <2>4 DEF MsgRead, m, d
<1>8. CASE IsString(d)
  <2>1. m.role = "assistant" /\ m.content = <<>> /\ m.text = t
    BY <1>6, <1>8 DEF Message
  <2>2. u = <<>> /\ IsString(a) /\ t # <<>>
    BY <1>4, <1>8
  <2>3. d = a
    BY <1>1, <2>2, CatEmpty DEF d
  <2>4. IsPlain(o) /\ TextOf(o) = t /\ \A ends, role : Read(ends, role, o) = Read(ends, role, a)
    BY <2>2, StringIs
  <2>5. o # <<>>
    BY <2>2, One DEF NonEmpty
  <2>6. Cat(o, <<>>) = o
    BY <2>4, PlainIsGood, CatEmpty
  <2>7. Fits(m, o)
    BY <2>1 DEF Fits
  <2> HIDE DEF o, t
  <2>8. IsVoiced(o)
    BY <2>4 DEF IsPlain
  <2>9. TalkMsg(m, o, <<>>)
    BY <2>1, <2>4, <2>5, <2>6, <2>7, <2>8, EmptyUses DEF TalkMsg
  <2>10. GoodMsg("anthropic", m)
    BY <2>9 DEF GoodMsg
  <2>11. MsgBlocks(m) = o
    BY <2>6, <2>9, BlocksOfTalk
  <2> QED BY <2>1, <2>3, <2>4, <2>10, <2>11 DEF MsgRead, m, d
<1> QED BY <1>7, <1>8

LEMMA AntParsedMore ==
    ASSUME NEW ws, IsSeq(ws), NEW w
    PROVE  /\ IsSeq(AntParsed(ws)) /\ Len(AntParsed(ws)) = Len(ws)
           /\ AntParsed(Append(ws, w)) = Append(AntParsed(ws), AntParse(w))
           /\ AntParsed(<<>>) = <<>>
<1> DEFINE f == AntParsed(ws)
           t == Append(ws, w)
           g == AntParsed(t)
           n == Len(ws)
<1>1. /\ n \in Nat /\ DOMAIN ws = 1 .. n /\ DOMAIN t = 1 .. n + 1 /\ t[n + 1] = w
      /\ \A k \in 1 .. n : t[k] = ws[k]
  BY Appended
<1>2. IsMap(f, ws) /\ IsMap(g, t)
  BY DEF IsMap, AntParsed
<1>3. \A k \in DOMAIN ws : g[k] = f[k]
  BY <1>1 DEF AntParsed
<1>4. g[n + 1] = AntParse(w)
  <2>1. n + 1 \in DOMAIN t
    BY <1>1
  <2> HIDE DEF t
  <2> QED BY <1>1, <2>1 DEF AntParsed
<1>5. AntParsed(<<>>) = <<>>
  BY DEF AntParsed
<1> HIDE DEF f, g, n
<1>6. IsSeq(f) /\ Len(f) = Len(ws) /\ g = Append(f, g[n + 1])
  BY <1>2, <1>3, MapAppend DEF n
<1> QED BY <1>4, <1>5, <1>6 DEF f, g, t

\* What is parsed of messages made of a dialog
AntFit(h) ==
    LET ws == ToAnthropic(h)
        ms == AntParsed(ws)
        l  == ws[Len(ws)]
    IN  /\ IsSeq(ws) /\ GoodMsgs("anthropic", ms) /\ (ws = <<>> <=> h = <<>>)
        /\ \A ends : MsgsRead(ends, ms) = EntriesRead(ends, h)
        /\ h # <<>> => /\ l = Turn(l.role, l.content)
                       /\ l.role = IF h[Len(h)].role = "assistant" THEN "assistant" ELSE "user"
                       /\ h[Len(h)].role = "tool" => IsResults(l.content) /\ l.content # <<>>

\* A message of its own
LEMMA TurnAdded ==
    ASSUME NEW h, Dialogue("anthropic", h), AntFit(h), NEW e, KnownEntry("anthropic", e),
           NEW role, role = (IF e.role = "assistant" THEN "assistant" ELSE "user"),
           h = <<>> \/ ToAnthropic(h)[Len(ToAnthropic(h))].role # role,
           LET m == AntParse(Turn(role, EntryBlocks(e)))
           IN  /\ GoodMsg("anthropic", m) /\ m.role = role
               /\ \A ends : MsgRead(ends, m) = EntryRead(ends, e),
           e.role = "tool" => IsResults(EntryBlocks(e)) /\ EntryBlocks(e) # <<>>
    PROVE  AntFit(Append(h, e))
<1> DEFINE ws  == ToAnthropic(h)
           ms  == AntParsed(ws)
           n   == Len(ws)
           l   == ws[n]
           b   == EntryBlocks(e)
           w   == Turn(role, b)
           m   == AntParse(w)
           h1  == Append(h, e)
           ws1 == ToAnthropic(h1)
           ms1 == AntParsed(ws1)
<1>1. /\ IsSeq(ws) /\ GoodMsgs("anthropic", ms) /\ (ws = <<>> <=> h = <<>>)
      /\ \A ends : MsgsRead(ends, ms) = EntriesRead(ends, h)
  BY DEF AntFit
<1>2. IsSeq(h)
  BY DEF Dialogue, KnownEntries
<1>3. n \in Nat /\ (ws = <<>> <=> n = 0)
  BY <1>1, SeqLength, EmptySeqLength
<1>4. ws1 = AddEntry(ws, e)
  BY <1>2, ToAnthropicAppend
<1>5. ws = <<>> \/ l.role # role
  BY <1>1
<1>6. w.role = role /\ w.content = b /\ w = Turn(w.role, w.content)
  BY DEF Turn
<1>7. GoodMsg("anthropic", m) /\ m.role = role /\ \A ends : MsgRead(ends, m) = EntryRead(ends, e)
  OBVIOUS
<1>8. e.role = "tool" => IsResults(b) /\ b # <<>>
  OBVIOUS
<1> HIDE DEF b
<1>9. ws1 = Append(ws, w)
  <2>1. AddEntry(ws, e) = IF n > 0 /\ ws[n].role = role
                            THEN [ws EXCEPT ![n].content = @ \o EntryBlocks(e)]
                            ELSE Append(ws, [role |-> role, content |-> EntryBlocks(e)])
    BY DEF AddEntry
  <2> QED BY <1>3, <1>4, <1>5, <2>1 DEF Turn, b
<1>10. IsSeq(ms) /\ Len(ms) = n /\ ms1 = Append(ms, m)
  BY <1>1, <1>9, AntParsedMore
<1>11. n > 0 => ms[n].role = l.role
  <2>1. n > 0 => n \in DOMAIN ws
    BY <1>1, <1>3, SeqLength
  <2> HIDE DEF n
  <2>2. n > 0 => ms[n] = AntParse(l)
    BY <2>1 DEF AntParsed
  <2> HIDE DEF l, ms
  <2> QED BY <2>2 DEF AntParse, Message
<1> HIDE DEF w, m, ws, ms, l
<1>12. ms = <<>> \/ ms[Len(ms)].role # m.role
  <2>1. ms = <<>> <=> Len(ms) = 0
    BY <1>10, EmptySeqLength
  <2> QED BY <1>3, <1>5, <1>7, <1>10, <1>11, <2>1
<1>13. GoodMsgs("anthropic", ms1)
  BY <1>1, <1>7, <1>10, <1>12, GoodMore
<1>14. ASSUME NEW ends PROVE MsgsRead(ends, ms1) = EntriesRead(ends, h1)
  <2>1. IsSeq(MsgRead(ends, m)) /\ MsgRead(ends, m) = EntryRead(ends, e)
    BY <1>7, MsgIsRead
  <2>2. MsgsRead(ends, ms1) = Cat(MsgsRead(ends, ms), MsgRead(ends, m))
    BY <1>10, <2>1, MsgsMore
  <2>3. EntriesRead(ends, h1) = Cat(EntriesRead(ends, h), EntryRead(ends, e))
    BY <1>2, <2>1, EntriesMore
  <2> QED BY <1>1, <2>1, <2>2, <2>3
<1>15. IsSeq(ws1) /\ ws1 # <<>> /\ ws1[Len(ws1)] = w
  BY <1>1, <1>9, Appended, FirstAppended
<1>16. h1 # <<>> /\ h1[Len(h1)] = e
  BY <1>2, Appended, FirstAppended
<1> HIDE DEF ms1, ws1, h1
<1>17. LET l1 == ws1[Len(ws1)]
       IN  /\ l1 = Turn(l1.role, l1.content)
           /\ l1.role = IF h1[Len(h1)].role = "assistant" THEN "assistant" ELSE "user"
           /\ h1[Len(h1)].role = "tool" => IsResults(l1.content) /\ l1.content # <<>>
  BY <1>6, <1>8, <1>15, <1>16
<1> QED BY <1>13, <1>14, <1>15, <1>16, <1>17 DEF AntFit, h1, ws1, ms1

\* More of the user after results
LEMMA TurnGrows ==
    ASSUME NEW h, Dialogue("anthropic", h), AntFit(h), NEW e, KnownEntry("anthropic", e),
           h # <<>>, h[Len(h)].role = "tool", NEW rs, IsResults(rs), NEW own, IsPlain(own),
           EntryBlocks(e) = Cat(rs, own), e.role # "assistant", 
           e.role = "tool" => own = <<>>,
           \A ends : EntryRead(ends, e) = Read(ends, "user", Cat(rs, own))
    PROVE  AntFit(Append(h, e))
<1> DEFINE ws  == ToAnthropic(h)
           ms  == AntParsed(ws)
           n   == Len(ws)
           l   == ws[n]
           r0  == l.content
           b   == EntryBlocks(e)
           all == Cat(Cat(r0, rs), own)
           w   == Turn("user", all)
           m   == AntParse(w)
           h1  == Append(h, e)
           ws1 == ToAnthropic(h1)
           ms1 == AntParsed(ws1)
<1>1. /\ IsSeq(ws) /\ GoodMsgs("anthropic", ms) /\ ws # <<>>
      /\ \A ends : MsgsRead(ends, ms) = EntriesRead(ends, h)
      /\ l = Turn("user", r0) /\ l.role = "user" /\ IsResults(r0) /\ r0 # <<>>
  BY DEF AntFit
<1>2. IsSeq(h)
  BY DEF Dialogue, KnownEntries
<1>3. n \in Nat /\ n > 0
  BY <1>1, SeqLength, EmptySeqLength
<1>4. IsSeq(r0) /\ IsSeq(rs) /\ IsSeq(own) /\ Good(r0) /\ Good(rs) /\ Good(own) /\ Good(b)
  BY <1>1, ResultsAreGood, PlainIsGood, GoodCat DEF IsResults
<1>5. ws1 = AddEntry(ws, e)
  BY <1>2, ToAnthropicAppend
<1>6. w.role = "user" /\ w.content = all /\ w = Turn(w.role, w.content)
  BY DEF Turn
<1>7. all = Cat(r0, b)
  BY <1>4, CatAssoc
<1>8. IsResults(Cat(r0, rs)) /\ Cat(r0, rs) # <<>>
  BY <1>1, <1>4, ResultsCat, CatIsEmpty
<1>9. /\ GoodMsg("anthropic", m) /\ m.role = "user"
      /\ \A ends : MsgRead(ends, m) = Read(ends, "user", all)
  <2> DEFINE rr == Cat(r0, rs)
  <2>1. IsResults(rr) /\ rr # <<>>
    BY <1>8
  <2> HIDE DEF rr
  <2>2. LET m2 == AntParse(Turn("user", Cat(rr, own)))
        IN  /\ GoodMsg("anthropic", m2) /\ m2.role = "user"
            /\ \A ends : MsgRead(ends, m2) = Read(ends, "user", Cat(rr, own))
    BY <2>1, UserTurn
  <2> QED BY <2>2 DEF rr
<1> HIDE DEF all
<1>10. PICK f, x : IsSeq(f) /\ ws = Append(f, x)
  BY <1>1, LastOf
<1>11. x = l
  BY <1>10, Appended
<1>12. ws1 = Append(f, w)
  <2>1. ws1 = [ws EXCEPT ![n].content = @ \o EntryBlocks(e)]
    BY <1>1, <1>3, <1>5 DEF AddEntry
  <2>2. [ws EXCEPT ![n].content = @ \o EntryBlocks(e)] = [ws EXCEPT ![n] = [l EXCEPT !.content = r0 \o EntryBlocks(e)]]
    OBVIOUS
  <2>3. [l EXCEPT !.content = r0 \o EntryBlocks(e)] = w
    <3>1. r0 \o EntryBlocks(e) = all
      BY <1>7 DEF Cat
    <3> HIDE DEF r0, l
    <3>2. l = [role |-> "user", content |-> r0]
      BY <1>1 DEF Turn
    <3> QED BY <3>1, <3>2 DEF Turn
  <2> HIDE DEF w, l, ws, ws1
  <2>4. ws1 = [ws EXCEPT ![Len(ws)] = w]
    BY <2>1, <2>2, <2>3
  <2> QED BY <1>10, <2>4, ReplacedLast
<1> DEFINE g == AntParsed(f)
           y == AntParse(x)
<1>13. IsSeq(g) /\ ms = Append(g, y) /\ ms1 = Append(g, m)
  BY <1>10, <1>12, AntParsedMore
<1>14. y.role = "user" /\ \A ends : MsgRead(ends, y) = Read(ends, "user", r0)
  <2>1. IsPlain(<<>>)
    BY EmptyVoiced
  <2>2. Cat(r0, <<>>) = r0
    BY <1>4, CatEmpty
  <2>3. y = AntParse(Turn("user", r0))
    BY <1>1, <1>11
  <2> DEFINE z == <<>>
  <2> HIDE DEF z, r0, y
  <2>4. LET m2 == AntParse(Turn("user", Cat(r0, z)))
        IN  m2.role = "user" /\ \A ends : MsgRead(ends, m2) = Read(ends, "user", Cat(r0, z))
    <3>1. IsPlain(z) /\ IsResults(r0) /\ r0 # <<>>
      BY <1>1, <2>1 DEF z
    <3> QED BY <3>1, UserTurn
  <2> QED BY <2>2, <2>3, <2>4 DEF z
<1> HIDE DEF w, m, ws, ms, l, g, y, ms1
<1>15. GoodMsgs("anthropic", g) /\ GoodMsg("anthropic", y) /\ (g = <<>> \/ g[Len(g)].role # "user")
  BY <1>1, <1>13, <1>14, GoodLess
<1>16. GoodMsgs("anthropic", ms1)
  BY <1>9, <1>13, <1>15, GoodMore
<1>17. ASSUME NEW ends PROVE MsgsRead(ends, ms1) = EntriesRead(ends, h1)
  <2> DEFINE F  == MsgsRead(ends, g)
             R1 == Read(ends, "user", r0)
             R2 == Read(ends, "user", b)
  <2>1. IsSeq(MsgRead(ends, m)) /\ MsgRead(ends, m) = Read(ends, "user", all)
    BY <1>9, MsgIsRead
  <2>2. IsSeq(MsgRead(ends, y)) /\ MsgRead(ends, y) = R1
    BY <1>14, <1>15, MsgIsRead
  <2>3. MsgsRead(ends, ms) = Cat(F, R1)
    BY <1>13, <2>2, MsgsMore
  <2>4. MsgsRead(ends, ms1) = Cat(F, MsgRead(ends, m))
    BY <1>13, <2>1, MsgsMore
  <2>5. Read(ends, "user", all) = Cat(R1, R2)
    <3> HIDE DEF b, r0
    <3> QED BY <1>4, <1>7, ReadCat
  <2>6. IsSeq(R2) /\ IsSeq(EntryRead(ends, e)) /\ EntryRead(ends, e) = R2
    BY <1>4, ReadIsSeq
  <2>7. IsSeq(F)
    BY <1>15, MsgsAreRead
  <2>8. EntriesRead(ends, h1) = Cat(EntriesRead(ends, h), EntryRead(ends, e))
    BY <1>2, <2>6, EntriesMore
  <2> HIDE DEF F, R1, R2
  <2>9. IsSeq(R1)
    BY <2>2
  <2>10. Cat(Cat(F, R1), R2) = Cat(F, Cat(R1, R2))
    BY <2>6, <2>7, <2>9, CatAssoc
  <2> QED BY <1>1, <2>1, <2>3, <2>4, <2>5, <2>6, <2>8, <2>10
<1>18. IsSeq(ws1) /\ ws1 # <<>> /\ ws1[Len(ws1)] = w
  BY <1>10, <1>12, Appended, FirstAppended
<1>19. h1 # <<>> /\ h1[Len(h1)] = e
  BY <1>2, Appended, FirstAppended
<1>20. e.role = "tool" => IsResults(all) /\ all # <<>>
  <2>1. own = <<>> => all = Cat(r0, rs)
    <3>1. IsSeq(Cat(r0, rs))
      BY <1>4, CatIsSeq
    <3> HIDE DEF r0
    <3> QED BY <3>1, CatEmpty DEF all
  <2> QED BY <1>8, <2>1
<1> HIDE DEF ws1, h1, r0, b
<1>21. LET l1 == ws1[Len(ws1)]
       IN  /\ l1 = Turn(l1.role, l1.content)
           /\ l1.role = IF h1[Len(h1)].role = "assistant" THEN "assistant" ELSE "user"
           /\ h1[Len(h1)].role = "tool" => IsResults(l1.content) /\ l1.content # <<>>
  BY <1>6, <1>18, <1>19, <1>20
<1> QED BY <1>16, <1>17, <1>18, <1>19, <1>21 DEF AntFit, h1, ws1, ms1

LEMMA UserFits ==
    ASSUME NEW h, Dialogue("anthropic", h), AntFit(h), NEW e, UserEntry(e),
           h = <<>> \/ (Follows("anthropic", h[Len(h)], e) /\ KnownEntry("anthropic", h[Len(h)]))
    PROVE  AntFit(Append(h, e))
<1> DEFINE d == e.content
           z == <<>>
<1>1. KnownEntry("anthropic", e) /\ e.role = "user" /\ EntryBlocks(e) = d
  BY RoleOf, BlocksOfEntry DEF KnownEntry
<1>2. IsPlain(d) /\ TextOf(d) # <<>> /\ IsSeq(d)
  BY PlainIsGood DEF UserEntry
<1>3. Cat(z, d) = d
  BY <1>2, CatEmpty
<1>4. IsResults(z)
  BY EmptyResults
<1> HIDE DEF d, z
<1>5. LET m == AntParse(Turn("user", Cat(z, d)))
      IN  /\ GoodMsg("anthropic", m) /\ m.role = "user"
          /\ \A ends : MsgRead(ends, m) = Read(ends, "user", Cat(z, d))
  BY <1>2, <1>4, UserTurn
<1>6. \A ends : EntryRead(ends, e) = Read(ends, "user", d)
  BY <1>1 DEF EntryRead
<1>7. CASE h = <<>> \/ h[Len(h)].role = "assistant"
  <2>1. h = <<>> \/ ToAnthropic(h)[Len(ToAnthropic(h))].role # "user"
    BY <1>7 DEF AntFit
  <2> QED BY <1>1, <1>3, <1>5, <1>6, <2>1, TurnAdded
<1>8. CASE h # <<>> /\ h[Len(h)].role = "tool"
  <2>1. \A ends : EntryRead(ends, e) = Read(ends, "user", Cat(z, d))
    BY <1>3, <1>6
  <2>2. EntryBlocks(e) = Cat(z, d)
    BY <1>1, <1>3
  <2>3. e.role # "assistant" /\ (e.role = "tool" => d = <<>>)
    BY <1>1
  <2> QED BY <1>1, <1>2, <1>4, <1>8, <2>1, <2>2, <2>3, TurnGrows
<1>9. h = <<>> \/ h[Len(h)].role \in {"tool", "assistant"}
  BY <1>1, RoleOf DEF KnownEntry, Follows
<1> QED BY <1>7, <1>8, <1>9

LEMMA ToolFits ==
    ASSUME NEW h, Dialogue("anthropic", h), AntFit(h), NEW e, ToolEntry("anthropic", e),
           h = <<>> \/ (Follows("anthropic", h[Len(h)], e) /\ KnownEntry("anthropic", h[Len(h)]))
    PROVE  AntFit(Append(h, e))
<1> DEFINE d == <<ToolResult(e.id, e.content)>>
           z == <<>>
<1>1. KnownEntry("anthropic", e) /\ e.role = "tool" /\ EntryBlocks(e) = d
  BY RoleOf, BlocksOfEntry DEF KnownEntry
<1>2. IsPlain(e.content)
  BY DEF ToolEntry
<1>3. IsResults(d) /\ d # <<>> /\ IsSeq(d)
  BY <1>2, OneResult, One
<1>4. Cat(d, z) = d
  BY <1>3, CatEmpty
<1>5. IsPlain(z)
  BY EmptyVoiced
<1>6. \A ends : EntryRead(ends, e) = Read(ends, "user", d)
  BY <1>1, <1>2, ResultIsRead DEF EntryRead
<1>7. z = <<>>
  OBVIOUS
<1> HIDE DEF d, z
<1>8. LET m == AntParse(Turn("user", Cat(d, z)))
      IN  /\ GoodMsg("anthropic", m) /\ m.role = "user"
          /\ \A ends : MsgRead(ends, m) = Read(ends, "user", Cat(d, z))
  BY <1>3, <1>5, UserTurn
<1>9. CASE h = <<>> \/ h[Len(h)].role = "assistant"
  <2>1. h = <<>> \/ ToAnthropic(h)[Len(ToAnthropic(h))].role # "user"
    BY <1>9 DEF AntFit
  <2>2. IsResults(EntryBlocks(e)) /\ EntryBlocks(e) # <<>>
    BY <1>1, <1>3
  <2> QED BY <1>1, <1>4, <1>6, <1>8, <2>1, <2>2, TurnAdded
<1>10. CASE h # <<>> /\ h[Len(h)].role = "tool"
  <2>1. \A ends : EntryRead(ends, e) = Read(ends, "user", Cat(d, z))
    BY <1>4, <1>6
  <2>2. EntryBlocks(e) = Cat(d, z)
    BY <1>1, <1>4
  <2>3. e.role # "assistant" /\ (e.role = "tool" => z = <<>>)
    BY <1>1, <1>7
  <2> QED BY <1>1, <1>3, <1>5, <1>10, <2>1, <2>2, <2>3, TurnGrows
<1>11. h = <<>> \/ h[Len(h)].role \in {"tool", "assistant"}
  BY <1>1, RoleOf DEF KnownEntry, Follows
<1> QED BY <1>9, <1>10, <1>11

LEMMA AnswerFits ==
    ASSUME NEW h, Dialogue("anthropic", h), AntFit(h), NEW e, AnswerEntry(e),
           h = <<>> \/ (Follows("anthropic", h[Len(h)], e) /\ KnownEntry("anthropic", h[Len(h)]))
    PROVE  AntFit(Append(h, e))
<1> DEFINE t == Thought(e.thinking)
           d == e.content
           a == Cat(t, d)
           u == Uses(e.calls)
<1>1. KnownEntry("anthropic", e) /\ e.role = "assistant" /\ EntryBlocks(e) = Cat(a, u)
  BY RoleOf, BlocksOfEntry DEF KnownEntry
<1>2. IsVoiced(a) /\ IsUses(u) /\ (a # <<>> \/ u # <<>>) /\ TextOf(a) = TextOf(d)
  BY AnswerParts
<1>3. IsString(a) => a = <<>> \/ TextOf(a) # <<>>
  <2>1. IsWords(d) /\ IsSeq(e.thinking)
    BY DEF AnswerEntry
  <2>2. /\ IsSeq(t) /\ IsSeq(d) /\ Without(t, "text") = t /\ Without(d, "text") = <<>>
        /\ NonEmpty(TextOf(d)) = d
    BY <2>1, OfThought, OfWords
  <2>3. TextOf(d) = <<>> => d = <<>>
    BY <2>2 DEF NonEmpty
  <2> HIDE DEF t, d
  <2>4. Without(a, "text") = Cat(t, <<>>) /\ Cat(t, <<>>) = t
    BY <2>2, WithoutCat, CatEmpty
  <2> HIDE DEF a
  <2>5. ASSUME IsString(a) PROVE t = <<>>
    BY <2>4, <2>5 DEF IsString
  <2>6. t = <<>> /\ d = <<>> => a = <<>>
    BY CatEmpties DEF a
  <2> QED BY <1>2, <2>3, <2>5, <2>6
<1> HIDE DEF a, u
<1>4. LET m == AntParse(Turn("assistant", Cat(a, u)))
      IN  /\ GoodMsg("anthropic", m) /\ m.role = "assistant"
          /\ \A ends : MsgRead(ends, m) = Read(ends, "assistant", Cat(a, u))
  BY <1>2, <1>3, TalkTurn
<1>5. \A ends : EntryRead(ends, e) = Read(ends, "assistant", Cat(a, u))
  BY <1>1 DEF EntryRead
<1>6. h = <<>> \/ h[Len(h)].role \in {"user", "tool"}
  BY <1>1, RoleOf DEF KnownEntry, Follows
<1>7. h = <<>> \/ ToAnthropic(h)[Len(ToAnthropic(h))].role # "assistant"
  BY <1>6 DEF AntFit
<1> QED BY <1>1, <1>4, <1>5, <1>7, TurnAdded

LEMMA HistoryFits == ASSUME NEW hist, Dialogue("anthropic", hist) PROVE AntFit(hist)
<1> DEFINE S == {n \in Nat : \A s : Dialogue("anthropic", s) /\ Len(s) = n => AntFit(s)}
<1>1. 0 \in S
  <2>1. ASSUME NEW s, Dialogue("anthropic", s), Len(s) = 0 PROVE AntFit(s)
    <3>1. s = <<>>
      BY <2>1, EmptySeqLength DEF Dialogue, KnownEntries
    <3>2. AntParsed(<<>>) = <<>>
      BY EmptyIsSeq, AntParsedMore
    <3> QED BY <3>1, <3>2, EmptyIsSeq, ToAnthropicEmpty, NoMsgs, NothingRead DEF AntFit
  <2> QED BY <2>1
<1>2. ASSUME NEW n \in S PROVE n + 1 \in S
  <2>1. n \in Nat /\ \A s : Dialogue("anthropic", s) /\ Len(s) = n => AntFit(s)
    OBVIOUS
  <2> HIDE DEF S
  <2>2. ASSUME NEW w, Dialogue("anthropic", w), Len(w) = n + 1 PROVE AntFit(w)
    <3>1. IsSeq(w)
      BY <2>2 DEF Dialogue, KnownEntries
    <3>2. PICK f : IsSeq(f) /\ Len(f) = n /\ w = Append(f, w[n + 1])
      BY <2>1, <2>2, <3>1, Shortened
    <3> DEFINE x == w[n + 1]
    <3>3. w = Append(f, x)
      BY <3>2
    <3> HIDE DEF x
    <3>4. /\ Dialogue("anthropic", f) /\ KnownEntry("anthropic", x)
          /\ f = <<>> \/ (Follows("anthropic", f[Len(f)], x) /\ KnownEntry("anthropic", f[Len(f)]))
      BY <2>2, <3>2, <3>3, DialogueLess
    <3>5. AntFit(f)
      BY <2>1, <3>2, <3>4
    <3> QED BY <3>3, <3>4, <3>5, UserFits, ToolFits, AnswerFits DEF KnownEntry
  <2> QED BY <2>1, <2>2 DEF S
<1> HIDE DEF S
<1>3. S = Nat
  <2>1. S \in SUBSET Nat
    BY DEF S
  <2> QED BY <1>1, <1>2, <2>1, SetInduction
<1>4. Len(hist) \in Nat
  BY SeqLength DEF Dialogue, KnownEntries
<1> QED BY <1>3, <1>4 DEF S

LEMMA AnthropicParsedWell == ASSUME NEW h, Dialogue("anthropic", h) PROVE ParsedWell("anthropic", h)
<1> DEFINE wire == Written("anthropic", h)
<1>1. wire.system = Instructions /\ wire.messages = ToAnthropic(h)
  BY DEF Written
<1>2. Parsed("anthropic", h) = ParseAnthropic(wire)
  BY DEF Parsed, ParseRequest
<1> HIDE DEF wire
<1>3. ParseAnthropic(wire) = Request(wire.system, AntParsed(wire.messages))
  BY DEF ParseAnthropic, AntParsed, AntParse
<1>4. Parsed("anthropic", h).system = Instructions
      /\ Parsed("anthropic", h).messages = AntParsed(ToAnthropic(h))
  BY <1>1, <1>2, <1>3 DEF Request
<1>5. AntFit(h)
  BY HistoryFits
<1> QED BY <1>4, <1>5 DEF ParsedWell, AntFit

\* Whatever the protocol of the client
LEMMA AllParsedWell ==
    ASSUME NEW c \in Protocol, NEW h, Dialogue(c, h)
    PROVE  ParsedWell(c, h)
BY ChatParsedWell, ResponsesParsedWell, AnthropicParsedWell DEF Protocol
=============================================================================
