---------------------------- MODULE Filter_proofs ----------------------------
(***************************************************************************)
(* What Kept returns, for every sequence and every set: how it grows with  *)
(* the sequence, that it goes through concatenation, and what it is of a   *)
(* sequence with only, or without any, elements of the set.                *)
(*                                                                         *)
(* The induction it takes is over the numbers 0..n, with the property as a *)
(* set of them: a number without the property would have a least one.      *)
(*                                                                         *)
(* The same for FlattenSeq of the community modules.                       *)
(***************************************************************************)
EXTENDS Filter, SequencesExt, SequenceTheorems, WellFoundedInduction, TLAPS

LEMMA LeastNumber ==
  ASSUME NEW S \in SUBSET Nat, S # {}
  PROVE  \E m \in S : \A k \in S : m <= k
<1> DEFINE R == {ss \in Nat \X Nat : ss[1] < ss[2]}
<1>1. IsWellFoundedOn(R, Nat)
  BY NatLessThanWellFounded DEF OpToRel
<1>2. PICK m \in S : \A k \in S : ~ <<k, m>> \in R
  <2> HIDE DEF R
  <2> QED BY <1>1, WFMin
<1>3. ASSUME NEW k \in S, k < m PROVE FALSE
  <2>1. k \in Nat /\ m \in Nat
    OBVIOUS
  <2>2. <<k, m>> \in R
    BY <1>3, <2>1
  <2> QED BY <2>2, <1>2
<1>4. \A k \in S : m <= k
  BY <1>3
<1> QED BY <1>4

\* An induction over 0..n: P is the set of the numbers that have the property.
LEMMA Induction ==
  ASSUME NEW n \in Nat, NEW P, 0 \in P,
         \A i \in 1..n : i - 1 \in P => i \in P
  PROVE  0..n \subseteq P
<1> DEFINE Not == {i \in 0..n : i \notin P}
<1> SUFFICES ASSUME Not # {} PROVE FALSE
  OBVIOUS
<1>1. PICK m \in Not : \A k \in Not : m <= k
  <2>1. Not \in SUBSET Nat
    OBVIOUS
  <2> HIDE DEF Not
  <2> QED BY <2>1, LeastNumber
<1>2. m \in 1..n /\ m - 1 \notin Not
  BY <1>1
<1> QED BY <1>2

\* f is the function that the recursion of KeptUpTo defines, up to n.
Unfolded(f, s, K, n) ==
  f = [i \in 0..n |-> IF i = 0 THEN <<>>
                      ELSE IF s[i] \in K THEN Append(f[i - 1], s[i]) ELSE f[i - 1]]

\* There is such a function.
LEMMA UnfoldedExists ==
  ASSUME NEW s, NEW K, NEW n \in Nat
  PROVE  \E f : Unfolded(f, s, K, n)
<1> DEFINE P == {i \in 0..n : \E f : Unfolded(f, s, K, i)}
<1>1. 0 \in P
  <2>1. Unfolded([i \in 0..0 |-> <<>>], s, K, 0)
    BY DEF Unfolded
  <2> QED BY <2>1
<1>2. ASSUME NEW i \in 1..n, i - 1 \in P PROVE i \in P
  <2>1. PICK f : Unfolded(f, s, K, i - 1)
    BY <1>2
  <2> DEFINE g == [j \in 0..i |-> IF j < i THEN f[j]
                     ELSE IF s[i] \in K THEN Append(f[i - 1], s[i]) ELSE f[i - 1]]
  <2>2. ASSUME NEW j \in 0..i
        PROVE  g[j] = IF j = 0 THEN <<>>
                      ELSE IF s[j] \in K THEN Append(g[j - 1], s[j]) ELSE g[j - 1]
    <3>1. CASE j = i
      BY <3>1
    <3>2. CASE j < i
      <4>1. j \in 0..(i - 1) /\ g[j] = f[j] /\ (j # 0 => g[j - 1] = f[j - 1])
        BY <3>2
      <4>2. f[j] = IF j = 0 THEN <<>>
                   ELSE IF s[j] \in K THEN Append(f[j - 1], s[j]) ELSE f[j - 1]
        BY <4>1, <2>1 DEF Unfolded
      <4> QED BY <4>1, <4>2
    <3> QED BY <3>1, <3>2
  <2>3. Unfolded(g, s, K, i)
    BY <2>2 DEF Unfolded
  <2> QED BY <2>3
<1> HIDE DEF P
<1>3. 0..n \subseteq P
  BY <1>1, <1>2, Induction
<1> QED BY <1>3 DEF P

\* KeptUpTo is one.
LEMMA KeptUnfolds ==
  ASSUME NEW S, NEW s \in Seq(S), NEW K
  PROVE  Unfolded(KeptUpTo(s, K), s, K, Len(s))
<1>1. KeptUpTo(s, K) = CHOOSE f : Unfolded(f, s, K, Len(s))
  BY DEF KeptUpTo, Unfolded
<1>2. \E f : Unfolded(f, s, K, Len(s))
  <2>1. Len(s) \in Nat
    OBVIOUS
  <2> QED BY <2>1, UnfoldedExists
<1> QED BY <1>1, <1>2

\* Its entries, each from the one before.
LEMMA KeptNext ==
  ASSUME NEW S, NEW s \in Seq(S), NEW K
  PROVE  LET k == KeptUpTo(s, K)
         IN  /\ k[0] = <<>>
             /\ \A i \in 1..Len(s) :
                  k[i] = IF s[i] \in K THEN Append(k[i - 1], s[i]) ELSE k[i - 1]
<1> DEFINE k == KeptUpTo(s, K)
<1>1. Unfolded(k, s, K, Len(s)) /\ Len(s) \in Nat
  BY KeptUnfolds
<1> HIDE DEF k
<1>2. k[0] = <<>>
  BY <1>1 DEF Unfolded
<1>3. ASSUME NEW i \in 1..Len(s)
      PROVE  k[i] = IF s[i] \in K THEN Append(k[i - 1], s[i]) ELSE k[i - 1]
  <2>1. i \in 0..Len(s) /\ i # 0
    BY <1>1
  <2> QED BY <1>1, <2>1 DEF Unfolded
<1> QED BY <1>2, <1>3 DEF k

\* One element more: it is kept at the end, or it leaves no trace.
LEMMA KeptOfAppend ==
  ASSUME NEW S, NEW s \in Seq(S), NEW x \in S, NEW K
  PROVE  Kept(Append(s, x), K) = IF x \in K THEN Append(Kept(s, K), x) ELSE Kept(s, K)
<1> DEFINE t == Append(s, x)
           n == Len(s)
           k == KeptUpTo(s, K)
           l == KeptUpTo(t, K)
           P == {i \in 0..n : l[i] = k[i]}
<1>1. /\ n \in Nat /\ t \in Seq(S) /\ Len(t) = n + 1 /\ t[n + 1] = x
      /\ \A i \in 1..n : t[i] = s[i]
  OBVIOUS
<1>2. k[0] = <<>> /\ \A i \in 1..n :
        k[i] = IF s[i] \in K THEN Append(k[i - 1], s[i]) ELSE k[i - 1]
  BY KeptNext
<1>3. l[0] = <<>> /\ \A i \in 1..Len(t) :
        l[i] = IF t[i] \in K THEN Append(l[i - 1], t[i]) ELSE l[i - 1]
  <2> HIDE DEF t
  <2> QED BY <1>1, KeptNext
<1>4. Kept(t, K) = l[n + 1] /\ Kept(s, K) = k[n]
  BY <1>1 DEF Kept
<1> HIDE DEF t, n, k, l
<1>5. 0..n \subseteq P
  <2>1. 0 \in P
    BY <1>1, <1>2, <1>3
  <2>2. ASSUME NEW i \in 1..n, i - 1 \in P PROVE i \in P
    BY <2>2, <1>1, <1>2, <1>3
  <2> HIDE DEF P
  <2> QED BY <1>1, <2>1, <2>2, Induction
<1>6. l[n] = k[n]
  BY <1>1, <1>5
<1>7. l[n + 1] = IF x \in K THEN Append(l[n], x) ELSE l[n]
  BY <1>1, <1>3
<1> QED BY <1>4, <1>6, <1>7 DEF t

\* Of nothing, nothing is kept.
LEMMA KeptOfEmpty ==
  ASSUME NEW K
  PROVE  Kept(<<>>, K) = <<>>
<1> DEFINE e == <<>>
<1>1. e \in Seq(Nat) /\ Len(e) = 0
  OBVIOUS
<1>2. Kept(e, K) = KeptUpTo(e, K)[0]
  BY <1>1 DEF Kept
<1>3. KeptUpTo(e, K)[0] = <<>>
  <2>1. \A s \in Seq(Nat) : KeptUpTo(s, K)[0] = <<>>
    BY KeptNext
  <2> HIDE DEF e
  <2> QED BY <1>1, <2>1
<1> QED BY <1>2, <1>3

\* The initial parts of a sequence, each one element longer than the one before.
LEMMA Parts ==
  ASSUME NEW S, NEW s \in Seq(S)
  PROVE  /\ Len(s) \in Nat
         /\ SubSeq(s, 1, 0) = <<>> /\ SubSeq(s, 1, Len(s)) = s
         /\ \A i \in 1..Len(s) :
              /\ SubSeq(s, 1, i - 1) \in Seq(S) /\ s[i] \in S
              /\ SubSeq(s, 1, i) = Append(SubSeq(s, 1, i - 1), s[i])
<1>1. Len(s) \in Nat /\ SubSeq(s, 1, 0) = <<>> /\ SubSeq(s, 1, Len(s)) = s
  BY SubSeqFull, SubSeqEmpty
<1>2. ASSUME NEW i \in 1..Len(s)
      PROVE  /\ SubSeq(s, 1, i - 1) \in Seq(S) /\ s[i] \in S
             /\ SubSeq(s, 1, i) = Append(SubSeq(s, 1, i - 1), s[i])
  <2>1. SubSeq(s, 1, i - 1) \in Seq(S) /\ s[i] \in S
    OBVIOUS
  <2>2. 1 \in 1..Len(s) /\ i \in 1..Len(s)
    OBVIOUS
  <2>3. SubSeq(s, 1, i) = SubSeq(s, 1, i - 1) \o <<s[i]>>
    BY <2>2, SubSeqRecursiveSecond
  <2>4. Append(SubSeq(s, 1, i - 1), s[i]) = SubSeq(s, 1, i - 1) \o <<s[i]>>
    BY <2>1, AppendIsConcat
  <2> QED BY <2>1, <2>3, <2>4
<1> QED BY <1>1, <1>2

\* The same along the initial parts of a sequence.
LEMMA KeptOfParts ==
  ASSUME NEW S, NEW s \in Seq(S), NEW K
  PROVE  /\ Kept(SubSeq(s, 1, 0), K) = <<>>
         /\ \A i \in 1..Len(s) :
              Kept(SubSeq(s, 1, i), K) =
                IF s[i] \in K THEN Append(Kept(SubSeq(s, 1, i - 1), K), s[i])
                              ELSE Kept(SubSeq(s, 1, i - 1), K)
<1>1. Kept(SubSeq(s, 1, 0), K) = <<>>
  BY Parts, KeptOfEmpty
<1>2. ASSUME NEW i \in 1..Len(s)
      PROVE  Kept(SubSeq(s, 1, i), K) =
               IF s[i] \in K THEN Append(Kept(SubSeq(s, 1, i - 1), K), s[i])
                             ELSE Kept(SubSeq(s, 1, i - 1), K)
  <2> DEFINE u == SubSeq(s, 1, i - 1)
  <2>1. u \in Seq(S) /\ s[i] \in S /\ SubSeq(s, 1, i) = Append(u, s[i])
    BY Parts
  <2> HIDE DEF u
  <2>2. Kept(Append(u, s[i]), K) =
          IF s[i] \in K THEN Append(Kept(u, K), s[i]) ELSE Kept(u, K)
    BY <2>1, KeptOfAppend
  <2>3. Kept(SubSeq(s, 1, i), K) =
          IF s[i] \in K THEN Append(Kept(u, K), s[i]) ELSE Kept(u, K)
    BY <2>1, <2>2
  <2> QED BY <2>3 DEF u
<1> QED BY <1>1, <1>2

\* Of a sequence in Seq(S), elements of S that are in K.
LEMMA KeptType ==
  ASSUME NEW S, NEW s \in Seq(S), NEW K
  PROVE  Kept(s, K) \in Seq(S \cap K)
<1> DEFINE n == Len(s)
           k(i) == Kept(SubSeq(s, 1, i), K)
           P == {i \in 0..n : k(i) \in Seq(S \cap K)}
<1>1. n \in Nat /\ SubSeq(s, 1, n) = s /\ \A i \in 1..n : s[i] \in S
  BY Parts
<1>2. k(0) = <<>> /\ \A i \in 1..n :
        k(i) = IF s[i] \in K THEN Append(k(i - 1), s[i]) ELSE k(i - 1)
  BY KeptOfParts
<1>3. k(n) = Kept(s, K)
  BY <1>1
<1> HIDE DEF k, n
<1>4. 0..n \subseteq P
  <2>1. 0 \in P
    <3>1. <<>> \in Seq(S \cap K) /\ 0 \in 0..n
      BY <1>1
    <3> QED BY <1>2, <3>1
  <2>2. ASSUME NEW i \in 1..n, i - 1 \in P PROVE i \in P
    <3>1. k(i - 1) \in Seq(S \cap K) /\ i \in 0..n
      BY <2>2, <1>1
    <3>2. k(i) \in Seq(S \cap K)
      <4>1. CASE s[i] \in K
        <5>1. s[i] \in S \cap K /\ k(i) = Append(k(i - 1), s[i])
          BY <4>1, <1>1, <1>2
        <5> QED BY <3>1, <5>1
      <4>2. CASE s[i] \notin K
        BY <4>2, <3>1, <1>2
      <4> QED BY <4>1, <4>2
    <3> QED BY <3>1, <3>2
  <2> HIDE DEF P
  <2> QED BY <1>1, <2>1, <2>2, Induction
<1>5. n \in P
  BY <1>1, <1>4
<1> QED BY <1>3, <1>5

\* Nothing is added.
LEMMA KeptShorter ==
  ASSUME NEW S, NEW s \in Seq(S), NEW K
  PROVE  Len(Kept(s, K)) \in Nat /\ Len(Kept(s, K)) <= Len(s)
<1> DEFINE n == Len(s)
           k(i) == Kept(SubSeq(s, 1, i), K)
           P == {i \in 0..n : k(i) \in Seq(S) /\ Len(k(i)) <= i}
<1>1. n \in Nat /\ SubSeq(s, 1, n) = s /\ \A i \in 1..n : s[i] \in S
  BY Parts
<1>2. k(0) = <<>> /\ \A i \in 1..n :
        k(i) = IF s[i] \in K THEN Append(k(i - 1), s[i]) ELSE k(i - 1)
  BY KeptOfParts
<1>3. k(n) = Kept(s, K)
  BY <1>1
<1> HIDE DEF k, n
<1>4. 0..n \subseteq P
  <2>1. 0 \in P
    <3>1. <<>> \in Seq(S) /\ Len(<<>>) <= 0 /\ 0 \in 0..n
      BY <1>1
    <3> QED BY <1>2, <3>1
  <2>2. ASSUME NEW i \in 1..n, i - 1 \in P PROVE i \in P
    <3>1. k(i - 1) \in Seq(S) /\ Len(k(i - 1)) <= i - 1 /\ i \in 0..n
      BY <2>2, <1>1
    <3>2. \A x \in S : Append(k(i - 1), x) \in Seq(S) /\ Len(Append(k(i - 1), x)) = Len(k(i - 1)) + 1
      BY <3>1
    <3>3. Len(k(i - 1)) \in Nat
      BY <3>1
    <3> DEFINE l == Len(k(i - 1))
    <3>4. i \in Int /\ l \in Int /\ l <= i - 1
      BY <1>1, <3>1, <3>3
    <3> HIDE DEF l
    <3>5. l <= i /\ l + 1 <= i
      BY <3>4
    <3>6. k(i) \in Seq(S) /\ Len(k(i)) <= i
      <4>1. CASE s[i] \in K
        <5>1. s[i] \in S /\ k(i) = Append(k(i - 1), s[i])
          BY <4>1, <1>1, <1>2
        <5> QED BY <3>2, <3>5, <5>1 DEF l
      <4>2. CASE s[i] \notin K
        <5>1. k(i) = k(i - 1)
          BY <4>2, <1>2
        <5> QED BY <3>1, <3>5, <5>1 DEF l
      <4> QED BY <4>1, <4>2
    <3> QED BY <3>1, <3>6
  <2> HIDE DEF P
  <2> QED BY <1>1, <2>1, <2>2, Induction
<1>5. n \in P
  BY <1>1, <1>4
<1>6. Kept(s, K) \in Seq(S) /\ Len(Kept(s, K)) <= n
  BY <1>3, <1>5
<1> QED BY <1>6 DEF n

LEMMA AppendOfBoth ==
  ASSUME NEW S, NEW s \in Seq(S), NEW t \in Seq(S), NEW x \in S
  PROVE  s \o Append(t, x) = Append(s \o t, x) /\ s \o t \in Seq(S)
OBVIOUS

\* Of two sequences one after the other: what is kept of the first, and then of
\* the second.
LEMMA KeptOfBoth ==
  ASSUME NEW S, NEW s \in Seq(S), NEW t \in Seq(S), NEW K
  PROVE  Kept(s \o t, K) = Kept(s, K) \o Kept(t, K)
<1> DEFINE n == Len(t)
           u(i) == SubSeq(t, 1, i)
           k == Kept(s, K)
           l(i) == Kept(u(i), K)
           m(i) == Kept(s \o u(i), K)
           P == {i \in 0..n : m(i) = k \o l(i)}
<1>1. /\ n \in Nat /\ u(0) = <<>> /\ u(n) = t
      /\ \A i \in 1..n : u(i - 1) \in Seq(S) /\ t[i] \in S /\ u(i) = Append(u(i - 1), t[i])
  BY Parts
<1>2. k \in Seq(S) /\ \A i \in 1..n : l(i - 1) \in Seq(S)
  <2>1. k \in Seq(S \cap K) /\ \A i \in 1..n : l(i - 1) \in Seq(S \cap K)
    <3> HIDE DEF u, n
    <3> QED BY <1>1, KeptType
  <2> HIDE DEF k, l, n
  <2> QED BY <2>1
<1>3. l(0) = <<>> /\ \A i \in 1..n :
        l(i) = IF t[i] \in K THEN Append(l(i - 1), t[i]) ELSE l(i - 1)
  BY KeptOfParts
<1>4. m(0) = k /\ m(n) = Kept(s \o t, K) /\ l(n) = Kept(t, K)
  <2>1. s \o <<>> = s
    OBVIOUS
  <2> HIDE DEF u, n
  <2> QED BY <1>1, <2>1
<1>5. ASSUME NEW i \in 1..n
      PROVE  m(i) = IF t[i] \in K THEN Append(m(i - 1), t[i]) ELSE m(i - 1)
  <2> DEFINE v == u(i - 1)
  <2>1. v \in Seq(S) /\ t[i] \in S /\ u(i) = Append(v, t[i])
    BY <1>1
  <2> HIDE DEF u, v, n
  <2> DEFINE w == s \o v
  <2>2. w \in Seq(S) /\ s \o Append(v, t[i]) = Append(w, t[i])
    BY <2>1, AppendOfBoth
  <2>3. m(i) = Kept(Append(w, t[i]), K)
    BY <2>1, <2>2
  <2> HIDE DEF w
  <2>4. Kept(Append(w, t[i]), K) = IF t[i] \in K THEN Append(Kept(w, K), t[i]) ELSE Kept(w, K)
    <3>1. \A y \in S : Kept(Append(w, y), K) = IF y \in K THEN Append(Kept(w, K), y) ELSE Kept(w, K)
      BY <2>2, KeptOfAppend
    <3> QED BY <2>1, <3>1
  <2> HIDE DEF m
  <2>5. m(i) = IF t[i] \in K THEN Append(Kept(w, K), t[i]) ELSE Kept(w, K)
    BY <2>3, <2>4
  <2> QED BY <2>5 DEF m, v, w
<1> HIDE DEF n, u, k, l, m
<1>6. 0..n \subseteq P
  <2>1. 0 \in P
    <3>1. k \o <<>> = k /\ 0 \in 0..n
      BY <1>1, <1>2
    <3>2. m(0) = k \o l(0)
      BY <1>3, <1>4, <3>1
    <3> QED BY <3>1, <3>2
  <2>2. ASSUME NEW i \in 1..n, i - 1 \in P PROVE i \in P
    <3>1. Append(k \o l(i - 1), t[i]) = k \o Append(l(i - 1), t[i])
      <4>1. \A p \in Seq(S), y \in S : k \o Append(p, y) = Append(k \o p, y)
        BY <1>2, AppendOfBoth
      <4> QED BY <1>1, <1>2, <4>1
    <3>2. m(i - 1) = k \o l(i - 1)
      BY <2>2
    <3>3. m(i) = k \o l(i)
      BY <1>3, <1>5, <3>1, <3>2
    <3> QED BY <1>1, <3>3
  <2> HIDE DEF P
  <2> QED BY <1>1, <2>1, <2>2, Induction
<1>7. n \in P
  BY <1>1, <1>6
<1>8. m(n) = k \o l(n)
  BY <1>7
<1> QED BY <1>4, <1>8 DEF k

\* A sequence with nothing but elements of K is kept whole, and one without any
\* is not kept at all.
LEMMA KeptWhole ==
  ASSUME NEW S, NEW s \in Seq(S), NEW K, S \subseteq K
  PROVE  Kept(s, K) = s
<1> DEFINE n == Len(s)
           u(i) == SubSeq(s, 1, i)
           k(i) == Kept(u(i), K)
           P == {i \in 0..n : k(i) = u(i)}
<1>1. /\ n \in Nat /\ u(0) = <<>> /\ u(n) = s
      /\ \A i \in 1..n : s[i] \in S /\ u(i) = Append(u(i - 1), s[i])
  BY Parts
<1>2. k(0) = <<>> /\ \A i \in 1..n :
        k(i) = IF s[i] \in K THEN Append(k(i - 1), s[i]) ELSE k(i - 1)
  BY KeptOfParts
<1>3. k(n) = Kept(s, K)
  <2> HIDE DEF u, n
  <2> QED BY <1>1
<1> HIDE DEF k, u, n
<1>4. 0..n \subseteq P
  <2>1. 0 \in P
    BY <1>1, <1>2
  <2>2. ASSUME NEW i \in 1..n, i - 1 \in P PROVE i \in P
    <3>1. k(i - 1) = u(i - 1) /\ i \in 0..n
      BY <2>2, <1>1
    <3>2. s[i] \in K /\ k(i) = Append(u(i - 1), s[i])
      BY <3>1, <1>1, <1>2
    <3>3. k(i) = u(i)
      BY <3>2, <1>1
    <3> QED BY <3>1, <3>3
  <2> HIDE DEF P
  <2> QED BY <1>1, <2>1, <2>2, Induction
<1>5. n \in P
  BY <1>1, <1>4
<1> QED BY <1>1, <1>3, <1>5

LEMMA KeptNothing ==
  ASSUME NEW S, NEW s \in Seq(S), NEW K, S \cap K = {}
  PROVE  Kept(s, K) = <<>>
<1>1. Kept(s, K) \in Seq(S \cap K)
  BY KeptType
<1>2. \A t \in Seq({}) : t = <<>>
  OBVIOUS
<1> QED BY <1>1, <1>2

\* Every element of K is kept.
LEMMA KeptElements ==
  ASSUME NEW S, NEW s \in Seq(S), NEW K, NEW i \in 1..Len(s), s[i] \in K
  PROVE  \E j \in 1..Len(Kept(s, K)) : Kept(s, K)[j] = s[i]
<1> DEFINE a == SubSeq(s, 1, i - 1)
           b == SubSeq(s, i + 1, Len(s))
           x == s[i]
<1>1. a \in Seq(S) /\ b \in Seq(S) /\ x \in S /\ SubSeq(s, 1, i) = Append(a, x)
  <2>1. b \in Seq(S)
    OBVIOUS
  <2> QED BY <2>1, Parts
<1>2. s = Append(a, x) \o b
  <2>1. 1 \in 1..Len(s) + 1 /\ i \in 1 - 1 .. Len(s) /\ Len(s) \in i .. Len(s)
    OBVIOUS
  <2>2. SubSeq(s, 1, i) \o b = SubSeq(s, 1, Len(s))
    BY <2>1, ConcatAdjacentSubSeq
  <2>3. SubSeq(s, 1, Len(s)) = s
    BY SubSeqFull
  <2> HIDE DEF a, b, x
  <2> QED BY <1>1, <2>2, <2>3
<1>3. x \in K
  OBVIOUS
<1> HIDE DEF a, b, x
<1>5. Kept(Append(a, x) \o b, K) = Kept(Append(a, x), K) \o Kept(b, K)
  <2> DEFINE r == Append(a, x)
  <2>1. r \in Seq(S)
    BY <1>1
  <2> HIDE DEF r
  <2>2. \A t \in Seq(S) : Kept(r \o t, K) = Kept(r, K) \o Kept(t, K)
    BY <2>1, KeptOfBoth
  <2>3. Kept(r \o b, K) = Kept(r, K) \o Kept(b, K)
    BY <1>1, <2>2
  <2> QED BY <2>3 DEF r
<1>6. Kept(Append(a, x), K) = Append(Kept(a, K), x)
  BY <1>1, <1>3, KeptOfAppend
<1>7. Kept(a, K) \in Seq(S \cap K) /\ Kept(b, K) \in Seq(S \cap K)
  BY <1>1, KeptType
<1> DEFINE p == Kept(a, K)
           q == Kept(b, K)
<1>8. Kept(s, K) = Append(p, x) \o q
  BY <1>2, <1>5, <1>6
<1>9. \A r \in Seq(S), t \in Seq(S) :
        /\ Len(r) + 1 \in 1..Len(Append(r, x) \o t)
        /\ (Append(r, x) \o t)[Len(r) + 1] = x
  BY <1>1
<1>10. p \in Seq(S) /\ q \in Seq(S)
  <2> HIDE DEF p, q
  <2>1. \A r \in Seq(S \cap K) : r \in Seq(S)
    OBVIOUS
  <2> QED BY <1>7, <2>1 DEF p, q
<1> HIDE DEF p, q
<1>11. Len(p) + 1 \in 1..Len(Kept(s, K)) /\ Kept(s, K)[Len(p) + 1] = x
  BY <1>8, <1>9, <1>10
<1> QED BY <1>11 DEF x

-----------------------------------------------------------------------------
(* A sequence of sequences, joined.                                        *)

\* f is the function that the recursion of FlattenSeq defines, up to n.
Joins(f, ss, n) == f = [i \in 1..n |-> IF i = 1 THEN ss[i] ELSE f[i - 1] \o ss[i]]

LEMMA JoinsExists ==
  ASSUME NEW ss, NEW n \in Nat
  PROVE  \E f : Joins(f, ss, n)
<1> DEFINE P == {i \in 0..n : \E f : Joins(f, ss, i)}
<1>1. 0 \in P
  <2>1. Joins([i \in 1..0 |-> ss], ss, 0)
    BY DEF Joins
  <2> QED BY <2>1
<1>2. ASSUME NEW i \in 1..n, i - 1 \in P PROVE i \in P
  <2>1. PICK f : Joins(f, ss, i - 1)
    BY <1>2
  <2> DEFINE g == [j \in 1..i |-> IF j < i THEN f[j]
                                  ELSE IF i = 1 THEN ss[i] ELSE f[i - 1] \o ss[i]]
  <2>2. ASSUME NEW j \in 1..i
        PROVE  g[j] = IF j = 1 THEN ss[j] ELSE g[j - 1] \o ss[j]
    <3>1. CASE j = i
      BY <3>1
    <3>2. CASE j < i
      <4>1. j \in 1..(i - 1) /\ g[j] = f[j] /\ (j # 1 => g[j - 1] = f[j - 1])
        BY <3>2
      <4>2. f[j] = IF j = 1 THEN ss[j] ELSE f[j - 1] \o ss[j]
        BY <4>1, <2>1 DEF Joins
      <4> QED BY <4>1, <4>2
    <3> QED BY <3>1, <3>2
  <2>3. Joins(g, ss, i)
    BY <2>2 DEF Joins
  <2> QED BY <2>3
<1> HIDE DEF P
<1>3. 0..n \subseteq P
  BY <1>1, <1>2, Induction
<1> QED BY <1>3 DEF P

LEMMA FlattenJoins ==
  ASSUME NEW S, NEW ss \in Seq(S), Len(ss) # 0
  PROVE  \E f : Joins(f, ss, Len(ss)) /\ FlattenSeq(ss) = f[Len(ss)]
<1> DEFINE f == CHOOSE g : Joins(g, ss, Len(ss))
<1>1. FlattenSeq(ss) = f[Len(ss)]
  BY DEF FlattenSeq, Joins
<1>2. Len(ss) \in Nat
  OBVIOUS
<1>3. Joins(f, ss, Len(ss))
  BY <1>2, JoinsExists
<1> QED BY <1>1, <1>3

\* Nothing, and one sequence, joined.
LEMMA FlattenOne ==
  ASSUME NEW S, NEW ss \in Seq(S), Len(ss) = 1
  PROVE  FlattenSeq(ss) = ss[1]
<1>1. PICK f : Joins(f, ss, Len(ss)) /\ FlattenSeq(ss) = f[Len(ss)]
  <2>1. Len(ss) # 0
    OBVIOUS
  <2> QED BY <2>1, FlattenJoins
<1>2. Joins(f, ss, 1) /\ FlattenSeq(ss) = f[1]
  BY <1>1
<1> QED BY <1>2 DEF Joins

LEMMA FlattenFew ==
  /\ FlattenSeq(<<>>) = <<>>
  /\ \A S : \A x \in S : FlattenSeq(<<x>>) = x
<1>1. FlattenSeq(<<>>) = <<>>
  BY DEF FlattenSeq
<1>2. ASSUME NEW S, NEW x \in S PROVE FlattenSeq(<<x>>) = x
  <2>1. <<x>> \in Seq(S) /\ Len(<<x>>) = 1 /\ <<x>>[1] = x
    OBVIOUS
  <2>2. FlattenSeq(<<x>>) = <<x>>[1]
    BY <2>1, FlattenOne
  <2> QED BY <2>1, <2>2
<1> QED BY <1>1, <1>2

\* One sequence more.
LEMMA FlattenAppend ==
  ASSUME NEW S, NEW ss \in Seq(Seq(S)), NEW x \in Seq(S)
  PROVE  FlattenSeq(Append(ss, x)) = FlattenSeq(ss) \o x
<1> DEFINE n == Len(ss)
           t == Append(ss, x)
<1>1. /\ n \in Nat /\ t \in Seq(Seq(S)) /\ Len(t) = n + 1 /\ t[n + 1] = x
      /\ \A i \in 1..n : t[i] = ss[i]
  OBVIOUS
<1>2. CASE n = 0
  <2>1. ss = <<>> /\ t = <<x>> /\ <<>> \o x = x
    BY <1>2
  <2> HIDE DEF t
  <2> QED BY <2>1, FlattenFew DEF t
<1>3. CASE n # 0
  <2> HIDE DEF n, t
  <2>1. PICK f : Joins(f, ss, n) /\ FlattenSeq(ss) = f[n]
    BY <1>3, FlattenJoins DEF n
  <2>2. PICK g : Joins(g, t, n + 1) /\ FlattenSeq(t) = g[n + 1]
    <3>1. Len(t) # 0
      BY <1>1
    <3> QED BY <1>1, <3>1, FlattenJoins
  <2> DEFINE P == {i \in 0..n : i # 0 => g[i] = f[i]}
  <2>3. \A i \in 1..n : f[i] = IF i = 1 THEN ss[i] ELSE f[i - 1] \o ss[i]
    BY <2>1, <1>1 DEF Joins
  <2>4. \A i \in 1..(n + 1) : g[i] = IF i = 1 THEN t[i] ELSE g[i - 1] \o t[i]
    BY <2>2, <1>1 DEF Joins
  <2>5. 0..n \subseteq P
    <3>1. 0 \in P
      BY <1>1
    <3>2. ASSUME NEW i \in 1..n, i - 1 \in P PROVE i \in P
      BY <3>2, <1>1, <2>3, <2>4
    <3> HIDE DEF P
    <3> QED BY <1>1, <3>1, <3>2, Induction
  <2>6. g[n] = f[n] /\ g[n + 1] = g[n] \o x
    <3>1. n \in P /\ n + 1 \in 1..(n + 1) /\ n + 1 # 1 /\ n + 1 - 1 = n
      BY <1>1, <1>3, <2>5
    <3>2. g[n] = f[n]
      BY <1>3, <3>1
    <3> HIDE DEF P
    <3>3. g[n + 1] = g[n] \o t[n + 1]
      <4>1. PICK m : m = n + 1
        OBVIOUS
      <4>2. m \in 1..(n + 1) /\ m # 1 /\ m - 1 = n
        BY <1>1, <1>3, <4>1
      <4>3. g[m] = g[m - 1] \o t[m]
        BY <2>4, <4>2
      <4> QED BY <4>1, <4>2, <4>3
    <3> QED BY <1>1, <3>2, <3>3
  <2> QED BY <2>1, <2>2, <2>6 DEF t
<1> QED BY <1>2, <1>3

LEMMA FlattenType ==
  ASSUME NEW S, NEW ss \in Seq(Seq(S))
  PROVE  FlattenSeq(ss) \in Seq(S)
<1> DEFINE n == Len(ss)
           u(i) == SubSeq(ss, 1, i)
           P == {i \in 0..n : FlattenSeq(u(i)) \in Seq(S)}
<1>1. /\ n \in Nat /\ u(0) = <<>> /\ u(n) = ss
      /\ \A i \in 1..n : /\ u(i - 1) \in Seq(Seq(S)) /\ ss[i] \in Seq(S)
                         /\ u(i) = Append(u(i - 1), ss[i])
  BY Parts
<1> HIDE DEF u, n
<1>2. 0..n \subseteq P
  <2>1. 0 \in P
    <3>1. <<>> \in Seq(S) /\ 0 \in 0..n
      BY <1>1
    <3> QED BY <1>1, <3>1, FlattenFew
  <2>2. ASSUME NEW i \in 1..n, i - 1 \in P PROVE i \in P
    <3>1. FlattenSeq(u(i)) = FlattenSeq(u(i - 1)) \o ss[i]
      BY <1>1, FlattenAppend
    <3>2. FlattenSeq(u(i - 1)) \in Seq(S) /\ ss[i] \in Seq(S) /\ i \in 0..n
      BY <1>1, <2>2
    <3>3. FlattenSeq(u(i - 1)) \o ss[i] \in Seq(S)
      BY <3>2
    <3> QED BY <3>1, <3>2, <3>3
  <2> HIDE DEF P
  <2> QED BY <1>1, <2>1, <2>2, Induction
<1>3. n \in P
  BY <1>1, <1>2
<1> QED BY <1>1, <1>3

\* Two sequences of sequences, one after the other.
LEMMA FlattenBoth ==
  ASSUME NEW S, NEW ss \in Seq(Seq(S)), NEW tt \in Seq(Seq(S))
  PROVE  FlattenSeq(ss \o tt) = FlattenSeq(ss) \o FlattenSeq(tt)
<1> DEFINE n == Len(tt)
           u(i) == SubSeq(tt, 1, i)
           f == FlattenSeq(ss)
           l(i) == FlattenSeq(u(i))
           m(i) == FlattenSeq(ss \o u(i))
           P == {i \in 0..n : m(i) = f \o l(i)}
<1>1. /\ n \in Nat /\ u(0) = <<>> /\ u(n) = tt
      /\ \A i \in 1..n : /\ u(i - 1) \in Seq(Seq(S)) /\ tt[i] \in Seq(S)
                         /\ u(i) = Append(u(i - 1), tt[i])
  BY Parts
<1>2. ss \o <<>> = ss
  OBVIOUS
<1> HIDE DEF u, n
<1>3. f \in Seq(S) /\ \A i \in 1..n : l(i - 1) \in Seq(S)
  BY <1>1, FlattenType
<1>4. l(0) = <<>> /\ m(0) = f
  BY <1>1, <1>2, FlattenFew
<1>5. \A i \in 1..n : l(i) = l(i - 1) \o tt[i]
  BY <1>1, FlattenAppend
<1>6. ASSUME NEW i \in 1..n PROVE m(i) = m(i - 1) \o tt[i]
  <2> DEFINE v == u(i - 1)
  <2>1. v \in Seq(Seq(S)) /\ tt[i] \in Seq(S) /\ u(i) = Append(v, tt[i])
    BY <1>1
  <2> HIDE DEF v
  <2>2. ss \o v \in Seq(Seq(S)) /\ ss \o Append(v, tt[i]) = Append(ss \o v, tt[i])
    BY <2>1, AppendOfBoth, SMTT(30)
  <2>3. FlattenSeq(Append(ss \o v, tt[i])) = FlattenSeq(ss \o v) \o tt[i]
    BY <2>1, <2>2, FlattenAppend
  <2> QED BY <2>1, <2>2, <2>3 DEF v
<1> HIDE DEF l, m, f
<1>7. 0..n \subseteq P
  <2>1. 0 \in P
    <3>1. f \o <<>> = f /\ 0 \in 0..n
      BY <1>1, <1>3
    <3> QED BY <1>4, <3>1
  <2>2. ASSUME NEW i \in 1..n, i - 1 \in P PROVE i \in P
    <3>1. (f \o l(i - 1)) \o tt[i] = f \o (l(i - 1) \o tt[i])
      <4>1. \A r, p, y \in Seq(S) : (r \o p) \o y = r \o (p \o y)
        BY ConcatAssociative
      <4> QED BY <1>1, <1>3, <4>1
    <3>2. m(i - 1) = f \o l(i - 1)
      BY <2>2
    <3>3. m(i) = f \o l(i)
      BY <1>5, <1>6, <3>1, <3>2
    <3> QED BY <1>1, <3>3
  <2> HIDE DEF P
  <2> QED BY <1>1, <2>1, <2>2, Induction
<1>8. n \in P
  BY <1>1, <1>7
<1>9. m(n) = f \o l(n)
  BY <1>8
<1> QED BY <1>1, <1>9 DEF m, l, f
=============================================================================
