--------------------------- MODULE SequenceFacts ---------------------------
(***************************************************************************)
(* Facts about sequences, whatever their elements are, and the least and   *)
(* greatest elements of sets of numbers.                                   *)
(***************************************************************************)
EXTENDS SequencesExt, SequenceTheorems, FiniteSetTheorems, WellFoundedInduction, TLAPS

IsSequence(s) == s \in Seq(ToSet(s))

---------------------------------------------------------------------------
\* Numbers.

\* A set of numbers has a least element, so what fails of a number fails first
\* of some number.
LEMMA LeastNumber ==
  ASSUME NEW T, T \subseteq Nat, T # {}
  PROVE  \E n \in T : \A m \in T : n <= m
  <1> DEFINE U == {0 .. k : k \in T}
  <1>1. U \subseteq FiniteSubsetsOf(Nat) /\ U # {}
    <2>1. \A k \in T : 0 .. k \in FiniteSubsetsOf(Nat)
      BY FS_Interval DEF FiniteSubsetsOf
    <2> QED
      BY <2>1
  <1>2. PICK x \in U : \A y \in U : <<y, x>> \notin StrictSubsetOrdering(Nat)
    BY <1>1, FS_StrictSubsetOrderingWellFounded, WFMin, Zenon
  <1>3. PICK n \in T : x = 0 .. n
    OBVIOUS
  <1>4. ASSUME NEW m \in T PROVE n <= m
    <2>1. <<0 .. m, 0 .. n>> \notin StrictSubsetOrdering(Nat)
      BY <1>2, <1>3
    <2> SUFFICES ASSUME m < n PROVE FALSE
      OBVIOUS
    <2>2. 0 .. m \subseteq 0 .. n
      OBVIOUS
    <2>3. n \in 0 .. n /\ n \notin 0 .. m
      OBVIOUS
    <2>4. 0 .. m # 0 .. n
      BY <2>3, Zenon
    <2>5. 0 .. m \in SUBSET Nat /\ 0 .. n \in SUBSET Nat
      OBVIOUS
    <2> QED
      BY <2>1, <2>2, <2>4, <2>5 DEF StrictSubsetOrdering
  <1> QED
    BY <1>4

\* A bounded set has a greatest element.
LEMMA MaxOfBounded ==
  ASSUME NEW S, NEW n \in Nat, S \subseteq 0 .. n, S # {}
  PROVE  /\ Max(S) \in S
         /\ \A m \in S : Max(S) >= m
  <1> DEFINE T == {k \in Nat : \A m \in S : m <= k}
  <1>1. T \subseteq Nat /\ n \in T
    OBVIOUS
  <1>2. PICK k \in T : \A m \in T : k <= m
    BY <1>1, LeastNumber
  <1>3. k \in S
    <2> SUFFICES ASSUME k \notin S PROVE FALSE
      OBVIOUS
    <2>0. k > 0
      <3>1. PICK m \in S : TRUE
        OBVIOUS
      <3> QED
        BY <3>1
    <2>1. k - 1 \in T
      BY <2>0
    <2> QED
      BY <1>2, <2>1
  <1>4. \A m \in S : k >= m
    OBVIOUS
  <1> QED
    BY <1>3, <1>4 DEF Max
---------------------------------------------------------------------------
\* Sequences.

LEMMA IsSequenceFacts ==
  ASSUME NEW s, IsSequence(s)
  PROVE  /\ Len(s) \in Nat
         /\ DOMAIN s = 1 .. Len(s)
         /\ s \in Seq(ToSet(s))
  BY DEF IsSequence

LEMMA IsSequenceOf ==
  ASSUME NEW S, NEW s \in Seq(S)
  PROVE  IsSequence(s) /\ \A i \in DOMAIN s : s[i] \in S
  <1>1. s \in [1 .. Len(s) -> S] /\ Len(s) \in Nat
    BY LenProperties
  <1>2. s \in [1 .. Len(s) -> ToSet(s)]
    BY <1>1 DEF ToSet
  <1> QED
    BY <1>1, <1>2, SeqDef DEF IsSequence

LEMMA IsSequenceFunction ==
  ASSUME NEW s, NEW n \in Nat, s = [i \in 1 .. n |-> s[i]]
  PROVE  IsSequence(s) /\ Len(s) = n
  <1>1. DOMAIN s = 1 .. n
    BY Zenon
  <1>2. s \in [1 .. n -> ToSet(s)]
    BY <1>1 DEF ToSet
  <1>3. s \in Seq(ToSet(s))
    BY <1>2, SeqDef
  <1> QED
    BY <1>1, <1>3, LenProperties DEF IsSequence

LEMMA AppendFacts ==
  ASSUME NEW s, NEW e, IsSequence(s)
  PROVE  /\ IsSequence(Append(s, e))
         /\ Len(Append(s, e)) = Len(s) + 1
         /\ \A i \in 1 .. Len(s) : Append(s, e)[i] = s[i]
         /\ Append(s, e)[Len(s) + 1] = e
  <1> DEFINE S == ToSet(s) \cup {e}
  <1>1. s \in Seq(S) /\ e \in S
    <2>1. s \in [1 .. Len(s) -> S] /\ Len(s) \in Nat
      BY IsSequenceFacts, LenProperties
    <2> QED
      BY <2>1, SeqDef
  <1>2. Append(s, e) \in Seq(S)
    BY <1>1, AppendProperties
  <1>3. IsSequence(Append(s, e))
    BY <1>2, IsSequenceOf
  <1> HIDE DEF S
  <1> QED
    BY <1>1, <1>3, AppendProperties

LEMMA AppendedSet ==
  ASSUME NEW s, NEW e, IsSequence(s)
  PROVE  IsSequence(Append(s, e)) /\ ToSet(Append(s, e)) = ToSet(s) \cup {e}
  <1> DEFINE t == Append(s, e)
  <1>1. /\ IsSequence(t) /\ DOMAIN s = 1 .. Len(s) /\ Len(s) \in Nat
        /\ DOMAIN t = 1 .. Len(s) + 1
        /\ \A i \in 1 .. Len(s) : t[i] = s[i]
        /\ t[Len(s) + 1] = e
    BY AppendFacts, IsSequenceFacts
  <1> HIDE DEF t
  <1>2. ToSet(t) \subseteq ToSet(s) \cup {e}
    BY <1>1 DEF ToSet
  <1>3. ToSet(s) \subseteq ToSet(t)
    BY <1>1 DEF ToSet
  <1>4. e \in ToSet(t)
    BY <1>1 DEF ToSet
  <1> QED
    BY <1>1, <1>2, <1>3, <1>4 DEF t

LEMMA ConcatFacts ==
  ASSUME NEW s, NEW t, IsSequence(s), IsSequence(t)
  PROVE  /\ IsSequence(s \o t)
         /\ Len(s \o t) = Len(s) + Len(t)
         /\ \A i \in 1 .. Len(s) : (s \o t)[i] = s[i]
         /\ \A i \in 1 .. Len(t) : (s \o t)[Len(s) + i] = t[i]
  <1> DEFINE S == ToSet(s) \cup ToSet(t)
  <1>1. s \in Seq(S)
    <2>1. s \in [1 .. Len(s) -> S] /\ Len(s) \in Nat
      BY IsSequenceFacts, LenProperties
    <2> QED
      BY <2>1, SeqDef
  <1>2. t \in Seq(S)
    <2>1. t \in [1 .. Len(t) -> S] /\ Len(t) \in Nat
      BY IsSequenceFacts, LenProperties
    <2> QED
      BY <2>1, SeqDef
  <1> HIDE DEF S
  <1>3. IsSequence(s \o t)
    BY <1>1, <1>2, IsSequenceOf, ConcatProperties
  <1>4. Len(s) \in Nat /\ Len(t) \in Nat
    BY <1>1, <1>2
  <1> QED
    BY <1>1, <1>2, <1>3, <1>4, ConcatProperties

LEMMA TailFacts ==
  ASSUME NEW s, IsSequence(s), s # <<>>
  PROVE  /\ IsSequence(Tail(s))
         /\ Len(s) \in Nat \ {0}
         /\ Len(Tail(s)) = Len(s) - 1
         /\ \A i \in 1 .. Len(s) - 1 : Tail(s)[i] = s[i + 1]
         /\ Head(s) = s[1]
  <1> DEFINE S == ToSet(s)
  <1>1. s \in Seq(S)
    BY IsSequenceFacts
  <1> HIDE DEF S
  <1>2. Tail(s) \in Seq(S)
    BY <1>1, HeadTailProperties
  <1>3. IsSequence(Tail(s))
    BY <1>2, IsSequenceOf
  <1> QED
    BY <1>1, <1>3, HeadTailProperties, EmptySeq

LEMMA ExceptFacts ==
  ASSUME NEW s, NEW i, NEW e, IsSequence(s)
  PROVE  /\ IsSequence([s EXCEPT ![i] = e])
         /\ Len([s EXCEPT ![i] = e]) = Len(s)
         /\ DOMAIN [s EXCEPT ![i] = e] = DOMAIN s
         /\ \A j \in DOMAIN s : [s EXCEPT ![i] = e][j] = IF j = i THEN e ELSE s[j]
  <1> DEFINE t == [s EXCEPT ![i] = e]
  <1>1. DOMAIN s = 1 .. Len(s) /\ Len(s) \in Nat
    BY IsSequenceFacts
  <1>2. t = [j \in 1 .. Len(s) |-> t[j]]
    BY <1>1
  <1> HIDE DEF t
  <1>3. IsSequence(t) /\ Len(t) = Len(s)
    BY <1>1, <1>2, IsSequenceFunction
  <1> QED
    BY <1>3 DEF t

LEMMA SubSeqFacts ==
  ASSUME NEW s, IsSequence(s), NEW m \in 1 .. Len(s) + 1, NEW n \in 0 .. Len(s)
  PROVE  /\ IsSequence(SubSeq(s, m, n))
         /\ Len(SubSeq(s, m, n)) = IF m <= n THEN n - m + 1 ELSE 0
         /\ \A i \in 1 .. n - m + 1 : SubSeq(s, m, n)[i] = s[m + i - 1]
  <1> DEFINE S == ToSet(s)
  <1>1. Len(s) \in Nat /\ DOMAIN s = 1 .. Len(s)
    BY IsSequenceFacts
  <1>2. \A i \in m .. n : s[i] \in S
    BY <1>1 DEF ToSet
  <1>3. m \in Int /\ n \in Int
    BY <1>1
  <1> HIDE DEF S
  <1>4. /\ SubSeq(s, m, n) \in Seq(S)
        /\ Len(SubSeq(s, m, n)) = IF m <= n THEN n - m + 1 ELSE 0
        /\ \A i \in 1 .. n - m + 1 : SubSeq(s, m, n)[i] = s[m + i - 1]
    BY <1>2, <1>3, SubSeqProperties
  <1> QED
    BY <1>4, IsSequenceOf

\* InsertAt keeps what is there and adds one element.
LEMMA InsertFacts ==
  ASSUME NEW s, NEW e, NEW i \in 1 .. Len(s) + 1, IsSequence(s)
  PROVE  /\ IsSequence(InsertAt(s, i, e))
         /\ ToSet(InsertAt(s, i, e)) = ToSet(s) \cup {e}
  <1> DEFINE front == SubSeq(s, 1, i - 1)
             back == SubSeq(s, i, Len(s))
             t == front \o <<e>>
  <1>1. Len(s) \in Nat /\ s \in Seq(ToSet(s)) /\ DOMAIN s = 1 .. Len(s)
    BY IsSequenceFacts
  <1>2. /\ IsSequence(front) /\ Len(front) = i - 1
        /\ \A j \in 1 .. i - 1 : front[j] = s[j]
    <2>1. 1 \in 1 .. Len(s) + 1 /\ i - 1 \in 0 .. Len(s)
      BY <1>1
    <2>2. /\ IsSequence(front)
          /\ Len(front) = IF 1 <= i - 1 THEN (i - 1) - 1 + 1 ELSE 0
          /\ \A j \in 1 .. (i - 1) - 1 + 1 : front[j] = s[1 + j - 1]
      BY <2>1, SubSeqFacts
    <2> QED
      BY <1>1, <2>2
  <1>3. /\ IsSequence(back) /\ Len(back) = Len(s) + 1 - i
        /\ \A j \in 1 .. Len(s) + 1 - i : back[j] = s[j + i - 1]
    <2>1. Len(s) \in 0 .. Len(s)
      BY <1>1
    <2>2. /\ IsSequence(back)
          /\ Len(back) = IF i <= Len(s) THEN Len(s) - i + 1 ELSE 0
          /\ \A j \in 1 .. Len(s) - i + 1 : back[j] = s[i + j - 1]
      BY <2>1, SubSeqFacts
    <2> QED
      BY <1>1, <2>2
  <1>4. IsSequence(<<e>>) /\ Len(<<e>>) = 1 /\ <<e>>[1] = e
    <2>1. <<e>> \in Seq({e})
      OBVIOUS
    <2> QED
      BY <2>1, IsSequenceOf
  <1> HIDE DEF front, back
  <1>5. /\ IsSequence(t) /\ Len(t) = i
        /\ \A j \in 1 .. i - 1 : t[j] = s[j]
        /\ t[i] = e
    BY <1>2, <1>4, ConcatFacts
  <1> HIDE DEF t
  <1>6. /\ IsSequence(t \o back) /\ Len(t \o back) = Len(s) + 1
        /\ \A j \in 1 .. i : (t \o back)[j] = t[j]
        /\ \A j \in 1 .. Len(s) + 1 - i : (t \o back)[i + j] = back[j]
    <2>1. /\ IsSequence(t \o back) /\ Len(t \o back) = Len(t) + Len(back)
          /\ \A j \in 1 .. Len(t) : (t \o back)[j] = t[j]
          /\ \A j \in 1 .. Len(back) : (t \o back)[Len(t) + j] = back[j]
      BY <1>3, <1>5, ConcatFacts
    <2> QED
      BY <2>1, <1>1, <1>3, <1>5
  <1> DEFINE r == t \o back
  <1>7. InsertAt(s, i, e) = r
    BY DEF InsertAt, front, back, t
  <1> HIDE DEF r
  <1>8. /\ IsSequence(r) /\ DOMAIN r = 1 .. Len(s) + 1
        /\ \A j \in 1 .. i - 1 : r[j] = s[j]
        /\ r[i] = e
        /\ \A j \in i + 1 .. Len(s) + 1 : r[j] = s[j - 1]
    <2>1. ASSUME NEW j \in i + 1 .. Len(s) + 1 PROVE r[j] = s[j - 1]
      <3>1. j - i \in 1 .. Len(s) + 1 - i
        BY <1>1
      <3>2. r[i + (j - i)] = back[j - i]
        BY <3>1, <1>6 DEF r
      <3>3. back[j - i] = s[(j - i) + i - 1]
        BY <3>1, <1>3
      <3> QED
        BY <3>2, <3>3, <1>1
    <2>2. IsSequence(r) /\ DOMAIN r = 1 .. Len(s) + 1
      BY <1>6, IsSequenceFacts DEF r
    <2>3. \A j \in 1 .. i - 1 : r[j] = s[j]
      BY <1>1, <1>5, <1>6 DEF r
    <2>4. r[i] = e
      BY <1>1, <1>5, <1>6 DEF r
    <2> QED
      BY <2>1, <2>2, <2>3, <2>4
  <1>9. ToSet(r) \subseteq ToSet(s) \cup {e}
    BY <1>1, <1>8 DEF ToSet
  <1>10. ToSet(s) \subseteq ToSet(r)
    <2>1. ASSUME NEW j \in 1 .. Len(s) PROVE \E k \in DOMAIN r : r[k] = s[j]
      <3>1. CASE j < i
        BY <3>1, <1>1, <1>8
      <3>2. CASE j >= i
        <4>1. j + 1 \in i + 1 .. Len(s) + 1 /\ j + 1 \in DOMAIN r
          BY <3>2, <1>1, <1>8
        <4>2. r[j + 1] = s[(j + 1) - 1]
          BY <4>1, <1>8
        <4> QED
          BY <4>1, <4>2
      <3> QED
        BY <3>1, <3>2, <1>1
    <2> QED
      BY <2>1, <1>1 DEF ToSet
  <1>11. e \in ToSet(r)
    BY <1>1, <1>8 DEF ToSet
  <1> QED
    BY <1>7, <1>8, <1>9, <1>10, <1>11

\* A concatenation has the elements of both.
LEMMA ConcatenatedSet ==
  ASSUME NEW s, NEW t, IsSequence(s), IsSequence(t)
  PROVE  IsSequence(s \o t) /\ ToSet(s \o t) = ToSet(s) \cup ToSet(t)
  <1> DEFINE r == s \o t
  <1>1. /\ IsSequence(r) /\ DOMAIN r = 1 .. Len(s) + Len(t)
        /\ DOMAIN s = 1 .. Len(s) /\ Len(s) \in Nat
        /\ DOMAIN t = 1 .. Len(t) /\ Len(t) \in Nat
        /\ \A i \in 1 .. Len(s) : r[i] = s[i]
        /\ \A i \in 1 .. Len(t) : r[Len(s) + i] = t[i]
    BY ConcatFacts, IsSequenceFacts
  <1> HIDE DEF r
  <1>2. ASSUME NEW i \in DOMAIN r PROVE r[i] \in ToSet(s) \cup ToSet(t)
    <2>1. CASE i <= Len(s)
      BY <2>1, <1>1 DEF ToSet
    <2>2. CASE i > Len(s)
      <3>1. i - Len(s) \in 1 .. Len(t) /\ i = Len(s) + (i - Len(s))
        BY <2>2, <1>1
      <3>2. r[i] = t[i - Len(s)]
        BY <3>1, <1>1
      <3> QED
        BY <3>1, <3>2, <1>1 DEF ToSet
    <2> QED
      BY <2>1, <2>2, <1>1
  <1>3. ToSet(s) \subseteq ToSet(r)
    BY <1>1 DEF ToSet
  <1>4. ToSet(t) \subseteq ToSet(r)
    <2>1. ASSUME NEW i \in 1 .. Len(t) PROVE Len(s) + i \in DOMAIN r
      BY <1>1
    <2> QED
      BY <1>1, <2>1 DEF ToSet
  <1> QED
    BY <1>1, <1>2, <1>3, <1>4 DEF r, ToSet

\* FlattenSeq puts its sequences together one by one.
LEMMA FlattenSteps ==
  ASSUME NEW ss, Len(ss) \in Nat \ {0}
  PROVE  \E f : /\ FlattenSeq(ss) = f[Len(ss)]
                /\ \A i \in 1 .. Len(ss) :
                     f[i] = IF i = 1 THEN ss[i] ELSE f[i - 1] \o ss[i]
  <1> DEFINE Flat(f, n) == [i \in 1 .. n |-> IF i = 1 THEN ss[i] ELSE f[i - 1] \o ss[i]]
  <1>1. ASSUME NEW n \in Nat PROVE \E f : f = Flat(f, n)
    <2> DEFINE T == {m \in Nat : ~ \E f : f = Flat(f, m)}
    <2> SUFFICES ASSUME T # {} PROVE FALSE
      OBVIOUS
    <2>1. PICK m \in T : \A k \in T : m <= k
      <3>1. T \subseteq Nat /\ T # {}
        OBVIOUS
      <3> HIDE DEF T
      <3> QED
        BY <3>1, LeastNumber
    <2>2. CASE m = 0
      <3>1. [i \in 1 .. 0 |-> 0] = Flat([i \in 1 .. 0 |-> 0], 0)
        OBVIOUS
      <3> QED
        BY <2>1, <2>2, <3>1
    <2>3. CASE m # 0
      <3>0. m \in Nat /\ m - 1 \in Nat
        BY <2>1, <2>3
      <3>1. m - 1 \in Nat /\ m - 1 \notin T
        <4> HIDE DEF T
        <4> QED
          BY <2>1, <3>0
      <3>2. PICK f : f = Flat(f, m - 1)
        BY <3>1
      <3> DEFINE g == Flat(f, m)
      <3>3. ASSUME NEW i \in 1 .. m - 1 PROVE g[i] = f[i]
        <4>1. i \in 1 .. m
          BY <2>1
        <4>2. f[i] = IF i = 1 THEN ss[i] ELSE f[i - 1] \o ss[i]
          BY <3>2
        <4> QED
          BY <4>1, <4>2
      <3>4. ASSUME NEW i \in 1 .. m, i # 1 PROVE g[i - 1] = f[i - 1]
        <4>1. i - 1 \in 1 .. m - 1
          BY <3>0, <3>4
        <4> HIDE DEF g
        <4> QED
          BY <3>3, <4>1
      <3>5. g = Flat(g, m)
        <4> HIDE DEF g
        <4>1. Flat(f, m) = Flat(g, m)
          BY <3>4, Zenon
        <4> QED
          BY <4>1 DEF g
      <3> QED
        BY <2>1, <3>5
    <2> QED
      BY <2>2, <2>3
  <1> DEFINE f == CHOOSE f : f = Flat(f, Len(ss))
  <1>2. f = Flat(f, Len(ss))
    BY <1>1, Zenon
  <1>3. FlattenSeq(ss) = f[Len(ss)]
    BY DEF FlattenSeq
  <1> HIDE DEF f
  <1>4. \A i \in 1 .. Len(ss) : f[i] = IF i = 1 THEN ss[i] ELSE f[i - 1] \o ss[i]
    BY <1>2, Zenon
  <1> QED
    BY <1>3, <1>4

\* What it puts together is what they hold.
LEMMA FlattenFacts ==
  ASSUME NEW ss, IsSequence(ss), \A k \in DOMAIN ss : IsSequence(ss[k])
  PROVE  /\ IsSequence(FlattenSeq(ss))
         /\ \A e : e \in ToSet(FlattenSeq(ss)) <=> \E k \in DOMAIN ss : e \in ToSet(ss[k])
  <1>1. Len(ss) \in Nat /\ DOMAIN ss = 1 .. Len(ss)
    BY IsSequenceFacts
  <1>2. CASE Len(ss) = 0
    <2>1. FlattenSeq(ss) = ss
      BY <1>2 DEF FlattenSeq
    <2> QED
      BY <1>1, <1>2, <2>1 DEF ToSet
  <1>3. CASE Len(ss) # 0
    <2>1. PICK f : /\ FlattenSeq(ss) = f[Len(ss)]
                   /\ \A i \in 1 .. Len(ss) :
                        f[i] = IF i = 1 THEN ss[i] ELSE f[i - 1] \o ss[i]
      <3>1. Len(ss) \in Nat \ {0}
        BY <1>1, <1>3
      <3> QED
        BY <3>1, FlattenSteps, Zenon
    <2> DEFINE Right(i) ==
          IsSequence(f[i]) /\ \A e : e \in ToSet(f[i]) <=> \E k \in 1 .. i : e \in ToSet(ss[k])
               T == {i \in 1 .. Len(ss) : ~ Right(i)}
    <2>5. T = {}
      <3> SUFFICES ASSUME T # {} PROVE FALSE
        OBVIOUS
      <3>1. PICK m \in T : \A k \in T : m <= k
        <4>1. T \subseteq Nat /\ T # {}
          OBVIOUS
        <4> HIDE DEF T
        <4> QED
          BY <4>1, LeastNumber
      <3>2. m \in 1 .. Len(ss) /\ ~ Right(m)
        BY <3>1
      <3>3. IsSequence(ss[m])
        BY <3>2, <1>1
      <3>4. CASE m = 1
        <4>1. f[m] = ss[m]
          BY <3>2, <3>4, <2>1
        <4>2. \A k \in 1 .. m : k = m
          BY <3>4
        <4> QED
          BY <3>2, <3>3, <3>4, <4>1, <4>2
      <3>5. CASE m # 1
        <4>1. m - 1 \in 1 .. Len(ss) /\ m - 1 \notin T
          BY <3>1, <3>5, <1>1
        <4>2. Right(m - 1)
          BY <4>1
        <4>3. f[m] = f[m - 1] \o ss[m]
          BY <3>2, <3>5, <2>1
        <4>4. IsSequence(f[m]) /\ ToSet(f[m]) = ToSet(f[m - 1]) \cup ToSet(ss[m])
          BY <4>2, <4>3, <3>3, ConcatenatedSet
        <4>5. \A k : k \in 1 .. m <=> k \in 1 .. m - 1 \/ k = m
          BY <3>2, <3>5
        <4> QED
          BY <3>2, <4>2, <4>4, <4>5
      <3> QED
        BY <3>4, <3>5
    <2>6. Right(Len(ss))
      BY <2>5, <1>1, <1>3
    <2> QED
      BY <2>1, <2>6, <1>1
  <1> QED
    BY <1>2, <1>3

\* Where each of them begins in what FlattenSeq puts together.
LEMMA FlattenPlaces ==
  ASSUME NEW ss, IsSequence(ss), \A k \in DOMAIN ss : IsSequence(ss[k])
  PROVE  /\ IsSequence(FlattenSeq(ss))
         /\ \E at \in [0 .. Len(ss) -> Nat] :
              /\ at[0] = 0
              /\ at[Len(ss)] = Len(FlattenSeq(ss))
              /\ \A k \in 1 .. Len(ss) : at[k] = at[k - 1] + Len(ss[k])
              /\ \A k \in 1 .. Len(ss) : \A i \in 1 .. Len(ss[k]) :
                   /\ at[k - 1] + i <= Len(FlattenSeq(ss))
                   /\ FlattenSeq(ss)[at[k - 1] + i] = ss[k][i]
  <1>1. Len(ss) \in Nat /\ DOMAIN ss = 1 .. Len(ss)
    BY IsSequenceFacts
  <1>2. CASE Len(ss) = 0
    <2>1. FlattenSeq(ss) = ss
      BY <1>2 DEF FlattenSeq
    <2>2. PICK at : at = [k \in 0 .. 0 |-> 0]
      OBVIOUS
    <2>3. at \in [0 .. Len(ss) -> Nat] /\ at[0] = 0 /\ at[Len(ss)] = Len(FlattenSeq(ss))
      BY <1>2, <2>1, <2>2
    <2>4. \A k \in 1 .. Len(ss) : FALSE
      BY <1>2
    <2>5. IsSequence(FlattenSeq(ss))
      BY <2>1
    <2> QED
      BY <2>3, <2>4, <2>5
  <1>3. CASE Len(ss) # 0
    <2>1. PICK f : /\ FlattenSeq(ss) = f[Len(ss)]
                   /\ \A i \in 1 .. Len(ss) :
                        f[i] = IF i = 1 THEN ss[i] ELSE f[i - 1] \o ss[i]
      <3>1. Len(ss) \in Nat \ {0}
        BY <1>1, <1>3
      <3> QED
        BY <3>1, FlattenSteps, Zenon
    <2> DEFINE at == [k \in 0 .. Len(ss) |-> IF k = 0 THEN 0 ELSE Len(f[k])]
               Placed(m) ==
                 /\ IsSequence(f[m])
                 /\ at[m] = at[m - 1] + Len(ss[m])
                 /\ \A k \in 1 .. m : \A i \in 1 .. Len(ss[k]) :
                      at[k - 1] + i <= Len(f[m]) /\ f[m][at[k - 1] + i] = ss[k][i]
               T == {m \in 1 .. Len(ss) : ~ Placed(m)}
    <2>a. at[0] = 0 /\ \A k \in 1 .. Len(ss) : at[k] = Len(f[k])
      BY <1>1
    <2> HIDE DEF at
    <2>2. T = {}
      <3> SUFFICES ASSUME T # {} PROVE FALSE
        OBVIOUS
      <3>1. PICK m \in 1 .. Len(ss) : ~ Placed(m) /\ \A k \in 1 .. m - 1 : Placed(k)
        <4>1. T \subseteq Nat /\ T # {}
          OBVIOUS
        <4>2. PICK m \in T : \A k \in T : m <= k
          <5> HIDE DEF T
          <5> QED
            BY <4>1, LeastNumber
        <4>3. m \in 1 .. Len(ss) /\ ~ Placed(m)
          OBVIOUS
        <4>4. ASSUME NEW k \in 1 .. m - 1 PROVE Placed(k)
          <5>1. k \in 1 .. Len(ss) /\ ~ m <= k
            <6> HIDE DEF Placed, T
            <6> QED
              BY <1>1, <4>3
          <5>2. k \notin T
            <6> HIDE DEF T
            <6> QED
              BY <4>2, <5>1
          <5> HIDE DEF Placed
          <5> QED
            BY <5>1, <5>2
        <4> HIDE DEF Placed, T
        <4> QED
          BY <4>3, <4>4
      <3> HIDE DEF Placed, T
      <3>3. IsSequence(ss[m]) /\ Len(ss[m]) \in Nat
        BY <1>1, IsSequenceFacts
      <3>4. CASE m = 1
        <4>1. f[1] = ss[1] /\ at[1] = Len(ss[1]) /\ at[1 - 1] = 0 /\ IsSequence(f[1])
          BY <2>a, <3>3, <3>4, <2>1
        <4>4. ASSUME NEW k \in 1 .. 1, NEW i \in 1 .. Len(ss[k])
              PROVE  at[k - 1] + i <= Len(f[1]) /\ f[1][at[k - 1] + i] = ss[k][i]
          <5>1. k = 1 /\ i \in 1 .. Len(ss[1]) /\ 0 + i = i
            BY <3>3, <3>4
          <5> QED
            BY <4>1, <5>1
        <4>5. at[1] = at[1 - 1] + Len(ss[1])
          BY <3>3, <3>4, <4>1
        <4>6. Placed(1)
          BY <4>1, <4>4, <4>5 DEF Placed
        <4> QED
          BY <3>1, <3>4, <4>6
      <3>5. CASE m # 1
        <4>0. PICK p \in 1 .. Len(ss) : p = m - 1
          BY <3>5, <1>1
        <4>2. Placed(p)
          BY <1>1, <3>1, <4>0
        <4>3. f[m] = f[p] \o ss[m]
          BY <3>5, <2>1, <4>0
        <4>4. at[p] = Len(f[p]) /\ at[m] = Len(f[m])
          BY <2>a
        <4>5. /\ IsSequence(f[m]) /\ Len(f[m]) = Len(f[p]) + Len(ss[m]) /\ Len(f[p]) \in Nat
              /\ \A i \in 1 .. Len(f[p]) : f[m][i] = f[p][i]
              /\ \A i \in 1 .. Len(ss[m]) : f[m][Len(f[p]) + i] = ss[m][i]
          <5>1. IsSequence(f[p])
            BY <4>2 DEF Placed
          <5>2. /\ IsSequence(f[p] \o ss[m]) /\ Len(f[p] \o ss[m]) = Len(f[p]) + Len(ss[m])
                /\ \A i \in 1 .. Len(f[p]) : (f[p] \o ss[m])[i] = f[p][i]
                /\ \A i \in 1 .. Len(ss[m]) : (f[p] \o ss[m])[Len(f[p]) + i] = ss[m][i]
            <6>1. PICK u, v : u = f[p] /\ v = ss[m]
              OBVIOUS
            <6>2. IsSequence(u) /\ IsSequence(v)
              BY <3>3, <5>1, <6>1
            <6>3. /\ IsSequence(u \o v) /\ Len(u \o v) = Len(u) + Len(v)
                  /\ \A i \in 1 .. Len(u) : (u \o v)[i] = u[i]
                  /\ \A i \in 1 .. Len(v) : (u \o v)[Len(u) + i] = v[i]
              BY <6>2, ConcatFacts
            <6> QED
              BY <6>1, <6>3
          <5>3. Len(f[p]) \in Nat
            BY <5>1, IsSequenceFacts
          <5> QED
            BY <4>3, <5>2, <5>3
        <4>6. ASSUME NEW k \in 1 .. m, NEW i \in 1 .. Len(ss[k])
              PROVE  at[k - 1] + i <= Len(f[m]) /\ f[m][at[k - 1] + i] = ss[k][i]
          <5>1. CASE k = m
            <6>1. at[k - 1] = Len(f[p])
              BY <4>0, <4>4, <5>1
            <6>2. i \in 1 .. Len(ss[m]) /\ i \in Nat
              BY <3>3, <5>1
            <6> QED
              BY <3>3, <4>5, <5>1, <6>1, <6>2
          <5>2. CASE k # m
            <6>1. k \in 1 .. p /\ i \in Nat \ {0} /\ k \in 1 .. Len(ss)
              <7>0. k \in 1 .. Len(ss)
                BY <1>1
              <7>1. Len(ss[k]) \in Nat
                BY <7>0, <1>1, IsSequenceFacts
              <7> QED
                BY <4>0, <5>2, <7>0, <7>1
            <6>2. at[k - 1] + i <= Len(f[p]) /\ f[p][at[k - 1] + i] = ss[k][i]
              BY <4>2, <6>1 DEF Placed
            <6>3. PICK q \in 0 .. Len(ss) : q = k - 1
              BY <1>1, <6>1
            <6>4. at[q] \in Nat
              <7>1. CASE q = 0
                BY <7>1, <2>a
              <7>2. CASE q # 0
                <8>1. q \in 1 .. m - 1 /\ q \in 1 .. Len(ss)
                  BY <1>1, <6>3, <7>2
                <8>2. IsSequence(f[q])
                  BY <3>1, <8>1 DEF Placed
                <8> QED
                  BY <2>a, <8>1, <8>2, IsSequenceFacts
              <7> QED
                BY <7>1, <7>2
            <6>5. PICK a \in Nat : a = at[k - 1]
              BY <6>3, <6>4
            <6>6. a + i \in 1 .. Len(f[p]) /\ a + i <= Len(f[m])
              <7>1. a + i <= Len(f[p])
                BY <6>2, <6>5
              <7> QED
                <8>1. PICK c \in Nat, d \in Nat : c = Len(f[p]) /\ d = Len(ss[m])
                  BY <3>3, <4>5
                <8>2. Len(f[m]) = c + d
                  BY <4>5, <8>1
                <8>3. a + i \in 1 .. c /\ a + i <= c + d
                  <9>1. PICK j \in Nat : j = i /\ j > 0
                    BY <6>1
                  <9>2. a + j <= c
                    BY <7>1, <8>1, <9>1
                  <9>3. a + j \in 1 .. c /\ a + j <= c + d
                    BY <9>1, <9>2
                  <9> QED
                    BY <9>1, <9>3
                <8> QED
                  BY <8>1, <8>2, <8>3
            <6> QED
              BY <4>5, <6>2, <6>5, <6>6
          <5> QED
            BY <5>1, <5>2
        <4>7. at[m] = at[m - 1] + Len(ss[m])
          BY <4>0, <4>4, <4>5
        <4>8. Placed(m)
          BY <4>5, <4>6, <4>7 DEF Placed
        <4> QED
          BY <3>1, <4>8
      <3> QED
        BY <3>4, <3>5
    <2>3. ASSUME NEW k \in 1 .. Len(ss) PROVE Placed(k)
      <3> HIDE DEF Placed
      <3> QED
        BY <2>2
    <2> HIDE DEF Placed, T
    <2>4. Placed(Len(ss)) /\ at[Len(ss)] = Len(f[Len(ss)]) /\ at[0] = 0
      BY <1>1, <1>3, <2>a, <2>3
    <2>5. at \in [0 .. Len(ss) -> Nat]
      <3>1. \A k \in 1 .. Len(ss) : Len(f[k]) \in Nat
        BY <2>3, IsSequenceFacts DEF Placed
      <3>2. \A k \in 0 .. Len(ss) : k = 0 \/ k \in 1 .. Len(ss)
        BY <1>1
      <3>3. \A k \in 0 .. Len(ss) : at[k] \in Nat
        BY <2>a, <3>1, <3>2
      <3> QED
        BY <2>a, <3>3 DEF at
    <2>6. \A k \in 1 .. Len(ss) : at[k] = at[k - 1] + Len(ss[k])
      BY <2>3 DEF Placed
    <2> QED
      BY <2>1, <2>4, <2>5, <2>6 DEF Placed
  <1> QED
    BY <1>2, <1>3

=============================================================================
