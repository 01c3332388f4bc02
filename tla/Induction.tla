----------------------------- MODULE Induction ------------------------------
(***************************************************************************)
(* Induction over the natural numbers for a set: a set that holds 0 and    *)
(* with a number the next one holds them all.  What a function defined by  *)
(* recursion computes is proved with it, here what At picks.               *)
(***************************************************************************)
EXTENDS Picks, SequenceTheorems, FiniteSetTheorems, WellFoundedInduction, TLAPS

\* If numbers were missing there would be a least initial interval that reaches a missing
\* one, as the strict subsets among the finite sets of numbers are well-founded
LEMMA SetInduction ==
    ASSUME NEW S \in SUBSET Nat, 0 \in S, \A n \in S : n + 1 \in S
    PROVE  S = Nat
<1> SUFFICES ASSUME Nat \ S # {} PROVE FALSE
  OBVIOUS
<1> DEFINE T == {0 .. n : n \in Nat \ S}
<1>1. ASSUME NEW n \in Nat PROVE 0 .. n \in FiniteSubsetsOf(Nat)
  BY FS_Interval DEF FiniteSubsetsOf
<1>2. T \subseteq FiniteSubsetsOf(Nat) /\ T # {}
  BY <1>1
<1> HIDE DEF T
<1>3. PICK x \in T : \A y \in T : ~(<<y, x>> \in StrictSubsetOrdering(Nat))
  BY <1>2, FS_StrictSubsetOrderingWellFounded, WFMin
<1>4. PICK n \in Nat \ S : x = 0 .. n
  BY DEF T
<1>5. n # 0 /\ n - 1 \in Nat
  BY <1>4
<1>6. 0 .. n - 1 \subseteq 0 .. n /\ 0 .. n - 1 # 0 .. n /\ 0 .. n \subseteq Nat
  BY <1>5
<1>7. <<0 .. n - 1, 0 .. n>> \in StrictSubsetOrdering(Nat)
  BY <1>6 DEF StrictSubsetOrdering
<1>8. n - 1 \in S
  BY <1>3, <1>4, <1>5, <1>7 DEF T
<1>9. (n - 1) + 1 \in S
  BY <1>8
<1> QED BY <1>5, <1>9

\* A set of numbers up to n is empty or has a largest one
LEMMA LargestOf ==
    ASSUME NEW n \in Nat, NEW T \in SUBSET (1 .. n), T # {}
    PROVE  \E i \in T : \A j \in T : j <= i
<1> DEFINE HasLargest(U) == U = {} \/ \E i \in U : \A j \in U : j <= i
           S == {m \in Nat : \A U \in SUBSET (1 .. m) : HasLargest(U)}
<1>1. 0 \in S
  <2>1. 1 .. 0 = {}
    OBVIOUS
  <2> QED BY <2>1
<1>2. ASSUME NEW m \in S PROVE m + 1 \in S
  <2> SUFFICES ASSUME NEW U \in SUBSET (1 .. m + 1) PROVE HasLargest(U)
    OBVIOUS
  <2>1. CASE m + 1 \in U
    <3>1. \A j \in U : j <= m + 1
      OBVIOUS
    <3> QED BY <2>1, <3>1
  <2>2. CASE m + 1 \notin U
    <3>1. U \in SUBSET (1 .. m)
      BY <2>2
    <3> QED BY <3>1
  <2> QED BY <2>1, <2>2
<1>3. S = Nat
  <2> HIDE DEF HasLargest
  <2>1. S \in SUBSET Nat
    OBVIOUS
  <2> HIDE DEF S
  <2> QED BY <1>1, <1>2, <2>1, SetInduction
<1>4. HasLargest(T)
  BY <1>3
<1> QED BY <1>4

LEMMA LeastOf ==
    ASSUME NEW n \in Nat, NEW T \in SUBSET (1 .. n), T # {}
    PROVE  \E i \in T : \A j \in T : i <= j
<1> DEFINE U == {n + 1 - i : i \in T}
<1>1. U \in SUBSET (1 .. n) /\ U # {}
  <2>1. \A i \in T : n + 1 - i \in 1 .. n
    OBVIOUS
  <2> QED BY <2>1
<1>2. PICK k \in U : \A j \in U : j <= k
  BY <1>1, LargestOf
<1>3. PICK i \in T : k = n + 1 - i
  OBVIOUS
<1>4. ASSUME NEW j \in T PROVE i <= j
  BY <1>2, <1>3
<1> QED BY <1>4

-----------------------------------------------------------------------------
(* Sequences, whatever their elements are *)

IsSeq(s) == \E S : s \in Seq(S)

LEMMA Appended ==
    ASSUME NEW s, IsSeq(s), NEW e
    PROVE  LET t == Append(s, e)
           IN  /\ IsSeq(t) /\ Len(s) \in Nat /\ Len(t) = Len(s) + 1
               /\ DOMAIN s = 1 .. Len(s) /\ DOMAIN t = 1 .. Len(s) + 1
               /\ \A j \in 1 .. Len(s) : t[j] = s[j]
               /\ t[Len(s) + 1] = e
<1>1. PICK S : s \in Seq(S)
  BY DEF IsSeq
<1>2. s \in Seq(S \cup {e}) /\ e \in S \cup {e}
  BY <1>1
<1>3. Append(s, e) \in Seq(S \cup {e})
  BY <1>2
<1>4. IsSeq(Append(s, e))
  BY <1>3 DEF IsSeq
<1> HIDE DEF IsSeq
<1> QED BY <1>2, <1>3, <1>4

LEMMA EmptyIsSeq == IsSeq(<<>>) /\ Len(<<>>) = 0 /\ DOMAIN <<>> = {}
<1>1. Len(<<>>) = 0 /\ DOMAIN <<>> = {}
  OBVIOUS
<1>2. IsSeq(<<>>)
  <2> DEFINE e == <<>>
  <2>1. e \in Seq({0})
    OBVIOUS
  <2> HIDE DEF e
  <2>2. IsSeq(e)
    BY <2>1 DEF IsSeq
  <2> QED BY <2>2 DEF e
<1> QED BY <1>1, <1>2

LEMMA FirstAppended ==
    ASSUME NEW s, IsSeq(s), NEW e
    PROVE  Append(s, e) # <<>> /\ (s = <<>> => Append(s, e)[1] = e)
<1> DEFINE t == Append(s, e)
<1>1. Len(s) \in Nat /\ Len(t) = Len(s) + 1 /\ t[Len(s) + 1] = e
  BY Appended
<1> HIDE DEF t
<1>2. t # <<>>
  BY <1>1, EmptyIsSeq
<1>3. ASSUME s = <<>> PROVE t[1] = e
  <2>1. Len(s) = 0
    BY <1>3, EmptyIsSeq
  <2> QED BY <1>1, <2>1
<1> QED BY <1>2, <1>3 DEF t

LEMMA SeqLength == ASSUME NEW s, IsSeq(s) PROVE Len(s) \in Nat /\ DOMAIN s = 1 .. Len(s)
BY DEF IsSeq

LEMMA SameSeq ==
    ASSUME NEW s, NEW t, IsSeq(s), IsSeq(t), Len(s) = Len(t),
           \A j \in 1 .. Len(s) : s[j] = t[j]
    PROVE  s = t
<1>1. PICK S : s \in Seq(S)
  BY DEF IsSeq
<1>2. PICK T : t \in Seq(T)
  BY DEF IsSeq
<1>3. s \in Seq(S \cup T) /\ t \in Seq(S \cup T)
  BY <1>1, <1>2
<1> QED BY <1>3

\* Any function on an initial interval is a sequence
LEMMA FunctionIsSeq ==
    ASSUME NEW n \in Nat, NEW f, f = [k \in 1 .. n |-> f[k]]
    PROVE  IsSeq(f) /\ Len(f) = n
<1>1. f \in [1 .. n -> {f[k] : k \in 1 .. n}]
  OBVIOUS
<1>2. f \in Seq({f[k] : k \in 1 .. n}) /\ Len(f) = n
  BY <1>1
<1> QED BY <1>2 DEF IsSeq

LEMMA EmptySeqLength == ASSUME NEW s, IsSeq(s) PROVE s = <<>> <=> Len(s) = 0
<1>1. Len(s) = 0 => s = <<>>
  BY EmptyIsSeq, SameSeq
<1> QED BY <1>1, EmptyIsSeq

\* A sequence with one more element
LEMMA Shortened ==
    ASSUME NEW n \in Nat, NEW s, IsSeq(s), Len(s) = n + 1
    PROVE  \E t : IsSeq(t) /\ Len(t) = n /\ s = Append(t, s[n + 1])
<1> DEFINE t == [k \in 1 .. n |-> s[k]]
           u == Append(t, s[n + 1])
<1>1. t = [k \in 1 .. n |-> t[k]]
  OBVIOUS
<1>2. \A k \in 1 .. n : t[k] = s[k]
  OBVIOUS
<1> HIDE DEF t
<1>3. IsSeq(t) /\ Len(t) = n
  BY <1>1, FunctionIsSeq
<1>4. IsSeq(u) /\ Len(u) = n + 1 /\ (\A k \in 1 .. n : u[k] = t[k]) /\ u[n + 1] = s[n + 1]
  BY <1>3, Appended
<1> HIDE DEF u
<1>5. \A k \in 1 .. n + 1 : u[k] = s[k]
  BY <1>2, <1>4
<1>6. u = s
  BY <1>4, <1>5, SameSeq
<1> QED BY <1>3, <1>6 DEF u

LEMMA FirstOfTwo ==
    ASSUME NEW s, IsSeq(s), s # <<>>, NEW t, IsSeq(t)
    PROVE  (s \o t)[1] = s[1]
<1>1. PICK S : s \in Seq(S)
  BY DEF IsSeq
<1>2. PICK T : t \in Seq(T)
  BY DEF IsSeq
<1>3. s \in Seq(S \cup T) /\ t \in Seq(S \cup T) /\ Len(s) # 0
  BY <1>1, <1>2
<1> QED BY <1>3

-----------------------------------------------------------------------------
(* What At picks *)

IsPicked(f, s, P, n) ==
    f = [k \in 0 .. n |->
            IF k = 0 THEN <<>> ELSE IF k \in P THEN Append(f[k - 1], s[k]) ELSE f[k - 1]]

LEMMA PickedExists ==
    ASSUME NEW s, NEW P, NEW n \in Nat
    PROVE  \E f : IsPicked(f, s, P, n)
<1> DEFINE S == {m \in Nat : \E f : IsPicked(f, s, P, m)}
<1>1. 0 \in S
  <2>1. IsPicked([k \in 0 .. 0 |-> <<>>], s, P, 0)
    BY DEF IsPicked
  <2> QED BY <2>1
<1>2. ASSUME NEW m \in S PROVE m + 1 \in S
  <2>1. PICK f : IsPicked(f, s, P, m)
    OBVIOUS
  <2> DEFINE z == IF m + 1 \in P THEN Append(f[m], s[m + 1]) ELSE f[m]
             g == [k \in 0 .. m + 1 |-> IF k <= m THEN f[k] ELSE z]
  <2>2. ASSUME NEW k \in 0 .. m + 1
        PROVE  g[k] = IF k = 0 THEN <<>>
                      ELSE IF k \in P THEN Append(g[k - 1], s[k]) ELSE g[k - 1]
    <3>1. m \in Nat
      OBVIOUS
    <3> HIDE DEF z
    <3>2. CASE k = m + 1
      <4>1. g[k] = z /\ g[k - 1] = f[m] /\ k # 0
        BY <3>1, <3>2
      <4> HIDE DEF g
      <4> QED BY <3>2, <4>1 DEF z
    <3>3. CASE k \in 0 .. m
      <4>1. f[k] = IF k = 0 THEN <<>>
                   ELSE IF k \in P THEN Append(f[k - 1], s[k]) ELSE f[k - 1]
        BY <2>1, <3>3 DEF IsPicked
      <4>2. g[k] = f[k] /\ (k # 0 => g[k - 1] = f[k - 1])
        BY <3>1, <3>3
      <4> HIDE DEF g
      <4> QED BY <4>1, <4>2
    <3> QED BY <3>1, <3>2, <3>3
  <2>3. g = [k \in 0 .. m + 1 |-> g[k]]
    OBVIOUS
  <2> HIDE DEF g
  <2>4. IsPicked(g, s, P, m + 1)
    BY <2>2, <2>3 DEF IsPicked
  <2> QED BY <2>4
<1> HIDE DEF S
<1>3. S = Nat
  <2>1. S \in SUBSET Nat
    BY DEF S
  <2> QED BY <1>1, <1>2, <2>1, SetInduction
<1> QED BY <1>3 DEF S

\* What is picked from the first n elements depends on these only
LEMMA PickedSame ==
    ASSUME NEW s, NEW t, NEW P, NEW Q, NEW n \in Nat, NEW m \in Nat, n <= m,
           NEW f, NEW g, IsPicked(f, s, P, n), IsPicked(g, t, Q, m),
           \A k \in 1 .. n : s[k] = t[k] /\ (k \in P <=> k \in Q)
    PROVE  f[n] = g[n]
<1> DEFINE S == {k \in Nat : k <= n => f[k] = g[k]}
<1>1. 0 \in S
  BY DEF IsPicked
<1>2. ASSUME NEW k \in S PROVE k + 1 \in S
  <2>1. SUFFICES ASSUME k + 1 <= n PROVE f[k + 1] = g[k + 1]
    OBVIOUS
  <2>2. f[k] = g[k]
    BY <2>1
  <2> DEFINE j == k + 1
  <2>3. j \in 1 .. n /\ j # 0 /\ j - 1 = k /\ j \in 0 .. n /\ j \in 0 .. m
    BY <2>1
  <2> HIDE DEF j
  <2>4. f[j] = IF j \in P THEN Append(f[j - 1], s[j]) ELSE f[j - 1]
    BY <2>3 DEF IsPicked
  <2>5. g[j] = IF j \in Q THEN Append(g[j - 1], t[j]) ELSE g[j - 1]
    BY <2>3 DEF IsPicked
  <2>6. f[j] = g[j]
    BY <2>2, <2>3, <2>4, <2>5
  <2> QED BY <2>6 DEF j
<1> HIDE DEF S
<1>3. S = Nat
  <2>1. S \in SUBSET Nat
    BY DEF S
  <2> QED BY <1>1, <1>2, <2>1, SetInduction
<1> QED BY <1>3 DEF S

LEMMA AtPicked ==
    ASSUME NEW s, IsSeq(s), NEW P
    PROVE  \E f : IsPicked(f, s, P, Len(s)) /\ At(s, P) = f[Len(s)]
<1>1. Len(s) \in Nat
  BY SeqLength
<1>2. \E f : IsPicked(f, s, P, Len(s))
  BY <1>1, PickedExists
<1>3. At(s, P) = (CHOOSE f : IsPicked(f, s, P, Len(s)))[Len(s)]
  BY DEF At, IsPicked
<1> QED BY <1>2, <1>3

LEMMA AtEmpty == ASSUME NEW P PROVE At(<<>>, P) = <<>>
<1>1. PICK f : IsPicked(f, <<>>, P, 0) /\ At(<<>>, P) = f[0]
  BY AtPicked, EmptyIsSeq
<1> QED BY <1>1 DEF IsPicked

\* One more element is picked last, or not
LEMMA AtAppend ==
    ASSUME NEW s, IsSeq(s), NEW e, NEW P, NEW Q,
           \A k \in 1 .. Len(s) : k \in P <=> k \in Q
    PROVE  At(Append(s, e), P) = IF Len(s) + 1 \in P THEN Append(At(s, Q), e) ELSE At(s, Q)
<1> DEFINE t == Append(s, e)
           n == Len(s)
<1>1. /\ IsSeq(t) /\ n \in Nat /\ Len(t) = n + 1
      /\ \A j \in 1 .. n : t[j] = s[j]
      /\ t[n + 1] = e
  BY Appended
<1> HIDE DEF t, n
<1>2. PICK f : IsPicked(f, s, Q, n) /\ At(s, Q) = f[n]
  BY AtPicked DEF n
<1>3. PICK g : IsPicked(g, t, P, n + 1) /\ At(t, P) = g[n + 1]
  BY <1>1, AtPicked
<1>4. f[n] = g[n]
  <2>1. n + 1 \in Nat /\ n <= n + 1
    BY <1>1
  <2>2. \A k \in 1 .. n : s[k] = t[k] /\ (k \in Q <=> k \in P)
    BY <1>1 DEF n
  <2> QED BY <1>1, <1>2, <1>3, <2>1, <2>2, PickedSame
<1>5. g[n + 1] = IF n + 1 \in P THEN Append(g[n], e) ELSE g[n]
  <2>1. n + 1 \in 0 .. n + 1 /\ n + 1 # 0 /\ (n + 1) - 1 = n
    BY <1>1
  <2> QED BY <1>1, <1>3, <2>1 DEF IsPicked
<1> QED BY <1>2, <1>3, <1>4, <1>5 DEF t, n

LEMMA AtIsSeq == ASSUME NEW s, IsSeq(s), NEW P PROVE IsSeq(At(s, P))
<1>1. Len(s) \in Nat
  BY SeqLength
<1> DEFINE n == Len(s)
<1>2. PICK f : IsPicked(f, s, P, n) /\ At(s, P) = f[n]
  BY AtPicked
<1> HIDE DEF n
<1> DEFINE S == {k \in Nat : k <= n => IsSeq(f[k])}
<1>3. 0 \in S
  <2>1. 0 \in 0 .. n
    BY <1>1 DEF n
  <2>2. f[0] = <<>>
    BY <1>2, <2>1 DEF IsPicked
  <2> QED BY <2>2, EmptyIsSeq
<1>4. ASSUME NEW k \in S PROVE k + 1 \in S
  <2>1. SUFFICES ASSUME k + 1 <= n PROVE IsSeq(f[k + 1])
    OBVIOUS
  <2>2. IsSeq(f[k])
    BY <2>1, <1>1 DEF n
  <2> DEFINE j == k + 1
  <2>3. j # 0 /\ j - 1 = k /\ j \in 0 .. n
    BY <2>1
  <2> HIDE DEF j
  <2>4. f[j] = IF j \in P THEN Append(f[j - 1], s[j]) ELSE f[j - 1]
    BY <1>2, <2>3 DEF IsPicked
  <2>5. IsSeq(f[j])
    BY <2>2, <2>3, <2>4, Appended
  <2> QED BY <2>5 DEF j
<1> HIDE DEF S
<1>5. S = Nat
  <2>1. S \in SUBSET Nat
    BY DEF S
  <2> QED BY <1>3, <1>4, <2>1, SetInduction
<1> QED BY <1>1, <1>2, <1>5 DEF S, n

\* To pick every element is to pick the sequence
LEMMA AtAll ==
    ASSUME NEW s, IsSeq(s), NEW P, DOMAIN s \subseteq P
    PROVE  At(s, P) = s
<1> DEFINE S == {n \in Nat : \A x : IsSeq(x) /\ Len(x) = n /\ DOMAIN x \subseteq P => At(x, P) = x}
<1>1. 0 \in S
  <2> SUFFICES ASSUME NEW x, IsSeq(x), Len(x) = 0 PROVE At(x, P) = x
    OBVIOUS
  <2>1. x = <<>>
    BY EmptySeqLength
  <2> QED BY <2>1, AtEmpty
<1>2. ASSUME NEW n \in S PROVE n + 1 \in S
  <2> SUFFICES ASSUME NEW x, IsSeq(x), Len(x) = n + 1, DOMAIN x \subseteq P PROVE At(x, P) = x
    OBVIOUS
  <2>1. PICK t : IsSeq(t) /\ Len(t) = n /\ x = Append(t, x[n + 1])
    BY Shortened
  <2>2. n \in Nat /\ DOMAIN t = 1 .. n /\ DOMAIN x = 1 .. n + 1
    BY <2>1, SeqLength
  <2>3. At(t, P) = t
    BY <2>1, <2>2
  <2>4. n + 1 \in P
    BY <2>2
  <2> HIDE DEF S
  <2>5. At(Append(t, x[n + 1]), P) = Append(At(t, P), x[n + 1])
    BY <2>1, <2>4, AtAppend
  <2> QED BY <2>1, <2>3, <2>5
<1>3. S = Nat
  <2>1. S \in SUBSET Nat
    OBVIOUS
  <2> HIDE DEF S
  <2> QED BY <1>1, <1>2, <2>1, SetInduction
<1>4. Len(s) \in Nat
  BY SeqLength
<1> QED BY <1>3, <1>4

-----------------------------------------------------------------------------
(* Lists put together one after the other, as FlattenSeq of SequencesExt does *)

IsFlat(f, seqs, n) ==
    f = [i \in 1 .. n |-> IF i = 1 THEN seqs[i] ELSE f[i - 1] \o seqs[i]]

LEMMA FlatExists ==
    ASSUME NEW seqs, NEW n \in Nat
    PROVE  \E f : IsFlat(f, seqs, n)
<1> DEFINE S == {m \in Nat : \E f : IsFlat(f, seqs, m)}
<1>1. 0 \in S
  <2>1. IsFlat([i \in 1 .. 0 |-> seqs[i]], seqs, 0)
    BY DEF IsFlat
  <2> QED BY <2>1
<1>2. ASSUME NEW m \in S PROVE m + 1 \in S
  <2>1. PICK f : IsFlat(f, seqs, m)
    OBVIOUS
  <2> DEFINE z == IF m + 1 = 1 THEN seqs[m + 1] ELSE f[m] \o seqs[m + 1]
             g == [i \in 1 .. m + 1 |-> IF i <= m THEN f[i] ELSE z]
  <2>2. ASSUME NEW i \in 1 .. m + 1
        PROVE  g[i] = IF i = 1 THEN seqs[i] ELSE g[i - 1] \o seqs[i]
    <3>1. m \in Nat
      OBVIOUS
    <3> HIDE DEF z
    <3>2. CASE i = m + 1
      <4>1. g[i] = z /\ (i # 1 => g[i - 1] = f[m])
        BY <3>1, <3>2
      <4> HIDE DEF g
      <4> QED BY <3>2, <4>1 DEF z
    <3>3. CASE i \in 1 .. m
      <4>1. f[i] = IF i = 1 THEN seqs[i] ELSE f[i - 1] \o seqs[i]
        BY <2>1, <3>3 DEF IsFlat
      <4>2. g[i] = f[i] /\ (i # 1 => g[i - 1] = f[i - 1])
        BY <3>1, <3>3
      <4> HIDE DEF g
      <4> QED BY <4>1, <4>2
    <3> QED BY <3>1, <3>2, <3>3
  <2>3. g = [i \in 1 .. m + 1 |-> g[i]]
    OBVIOUS
  <2> HIDE DEF g
  <2>4. IsFlat(g, seqs, m + 1)
    BY <2>2, <2>3 DEF IsFlat
  <2> QED BY <2>4
<1> HIDE DEF S
<1>3. S = Nat
  <2>1. S \in SUBSET Nat
    BY DEF S
  <2> QED BY <1>1, <1>2, <2>1, SetInduction
<1> QED BY <1>3 DEF S

=============================================================================
