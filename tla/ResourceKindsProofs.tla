-------------------------- MODULE ResourceKindsProofs --------------------------
(***************************************************************************)
(* Facts about the sequences that exports and restores build: lists of     *)
(* lists, the elements of a set in some order, and documents that are      *)
(* chosen and sorted.  Induction is over sets of numbers.                  *)
(***************************************************************************)
EXTENDS ResourceKinds, FiniteSetTheorems, WellFoundedInduction, TLAPS

-----------------------------------------------------------------------------
(* Induction.                                                              *)

\* A set of numbers that has 0, and with each number the next one, has them all.
LEMMA SetInduction ==
  ASSUME NEW T \in SUBSET Nat, 0 \in T, \A n \in T : n + 1 \in T
  PROVE  T = Nat
<1> DEFINE R == OpToRel(<, Nat)
<1>1. SUFFICES ASSUME Nat \ T # {} PROVE FALSE
  OBVIOUS
<1>2. IsWellFoundedOn(R, Nat)
  BY NatLessThanWellFounded
<1>3. \A a, b \in Nat : a < b => <<a, b>> \in R
  BY DEF OpToRel
<1> HIDE DEF R
<1>4. PICK x \in Nat \ T : \A y \in Nat \ T : ~(<<y, x>> \in R)
  BY <1>1, <1>2, WFMin
<1>5. x # 0 /\ x - 1 \in Nat
  OBVIOUS
<1>6. x - 1 \notin T
  <2>1. SUFFICES ASSUME x - 1 \in T PROVE FALSE
    OBVIOUS
  <2>2. (x - 1) + 1 \in T
    BY <2>1
  <2> QED
    BY <2>2
<1>7. <<x - 1, x>> \in R
  BY <1>3, <1>5
<1> QED
  BY <1>4, <1>5, <1>6, <1>7

\* The same up to a bound.
LEMMA IntervalInduction ==
  ASSUME NEW n \in Nat, NEW T \in SUBSET (0..n), 0 \in T,
         \A i \in T : i < n => i + 1 \in T
  PROVE  T = 0..n
<1> DEFINE U == {i \in Nat : i \in T \/ i > n}
<1>1. U \in SUBSET Nat /\ 0 \in U
  OBVIOUS
<1>2. \A i \in U : i + 1 \in U
  OBVIOUS
<1>3. U = Nat
  <2> HIDE DEF U
  <2> QED
    BY <1>1, <1>2, SetInduction
<1>4. \A i \in 0..n : i \in T
  BY <1>3
<1> QED
  BY <1>4
-----------------------------------------------------------------------------
(* FlattenSeq.                                                             *)

\* What FlattenSeq's function computes for the first m lists.
IsFlattening(f, seqs, m) ==
  \A i \in 1..m : f[i] = IF i = 1 THEN seqs[i] ELSE f[i - 1] \o seqs[i]

\* Its recursive definition defines something.
LEMMA FlattenExists ==
  ASSUME NEW D, NEW n \in Nat, NEW seqs \in [1..n -> Seq(D)]
  PROVE  \E f \in [1..n -> Seq(D)] : IsFlattening(f, seqs, n)
<1> DEFINE P(m) == \E f \in [1..m -> Seq(D)] : IsFlattening(f, seqs, m)
           T == {m \in 0..n : P(m)}
<1>1. P(0)
  <2>1. [i \in 1..0 |-> <<>>] \in [1..0 -> Seq(D)]
    OBVIOUS
  <2>2. IsFlattening([i \in 1..0 |-> <<>>], seqs, 0)
    BY DEF IsFlattening
  <2> QED
    BY <2>1, <2>2
<1>2. ASSUME NEW m \in 0..n, P(m), m < n
      PROVE  P(m + 1)
  <2>1. PICK f \in [1..m -> Seq(D)] : IsFlattening(f, seqs, m)
    BY <1>2
  <2> DEFINE last == IF m = 0 THEN seqs[1] ELSE f[m] \o seqs[m + 1]
             g == [i \in 1..(m + 1) |-> IF i = m + 1 THEN last ELSE f[i]]
  <2>2. seqs[m + 1] \in Seq(D) /\ (m # 0 => f[m] \in Seq(D))
    BY <1>2
  <2>3. last \in Seq(D)
    BY <2>2
  <2>4. m + 1 = 1 <=> m = 0
    OBVIOUS
  <2>5. last = IF m + 1 = 1 THEN seqs[m + 1] ELSE f[(m + 1) - 1] \o seqs[m + 1]
    BY <2>4
  <2> HIDE DEF last
  <2>6. /\ g \in [1..(m + 1) -> Seq(D)]
        /\ g[m + 1] = last /\ \A i \in 1..m : g[i] = f[i]
    BY <2>3
  <2> HIDE DEF g
  <2>7. ASSUME NEW i \in 1..(m + 1)
        PROVE  g[i] = IF i = 1 THEN seqs[i] ELSE g[i - 1] \o seqs[i]
    <3>1. CASE i = m + 1
      <4>1. i # 1 => g[i - 1] = f[i - 1]
        BY <2>6, <3>1
      <4> QED
        BY <2>5, <2>6, <3>1, <4>1
    <3>2. CASE i # m + 1
      <4>1. i \in 1..m /\ (i # 1 => i - 1 \in 1..m)
        BY <3>2
      <4>2. f[i] = IF i = 1 THEN seqs[i] ELSE f[i - 1] \o seqs[i]
        BY <2>1, <4>1 DEF IsFlattening
      <4> QED
        BY <2>6, <4>1, <4>2
    <3> QED
      BY <3>1, <3>2
  <2> QED
    BY <2>6, <2>7 DEF IsFlattening
<1> HIDE DEF P
<1>3. T = 0..n
  <2>1. 0 \in T /\ T \in SUBSET (0..n)
    BY <1>1
  <2>2. \A m \in T : m < n => m + 1 \in T
    BY <1>2
  <2> HIDE DEF T
  <2> QED
    BY <2>1, <2>2, IntervalInduction
<1>4. P(n)
  BY <1>3
<1> QED
  BY <1>4 DEF P

LEMMA FlattenIs ==
  ASSUME NEW D, NEW n \in Nat, n # 0, NEW seqs \in [1..n -> Seq(D)]
  PROVE  \E f \in [1..n -> Seq(D)] : IsFlattening(f, seqs, n) /\ FlattenSeq(seqs) = f[n]
<1> DEFINE IsF(f) == f = [i \in 1..Len(seqs) |->
                            IF i = 1 THEN seqs[i] ELSE f[i - 1] \o seqs[i]]
           F == CHOOSE f : IsF(f)
<1>1. Len(seqs) = n
  OBVIOUS
<1>2. PICK f \in [1..n -> Seq(D)] : IsFlattening(f, seqs, n)
  BY FlattenExists
<1>3. IsF(f)
  BY <1>1, <1>2 DEF IsFlattening
<1>4. IsF(F)
  <2> HIDE DEF IsF
  <2> QED
    BY <1>3
<1>5. FlattenSeq(seqs) = F[n]
  BY <1>1 DEF FlattenSeq
<1> HIDE DEF F
<1>6. \A i \in 1..n : F[i] = IF i = 1 THEN seqs[i] ELSE F[i - 1] \o seqs[i]
  BY <1>1, <1>4
<1> DEFINE T == {m \in 0..n : m = 0 \/ F[m] = f[m]}
<1>7. T = 0..n
  <2>1. 0 \in T /\ T \in SUBSET (0..n)
    OBVIOUS
  <2>2. ASSUME NEW m \in T, m < n
        PROVE  m + 1 \in T
    <3>1. m + 1 \in 1..n /\ (m + 1) - 1 = m
      BY <2>2
    <3>2. f[m + 1] = IF m + 1 = 1 THEN seqs[m + 1] ELSE f[m] \o seqs[m + 1]
      BY <1>2, <3>1 DEF IsFlattening
    <3>3. F[m + 1] = IF m + 1 = 1 THEN seqs[m + 1] ELSE F[m] \o seqs[m + 1]
      BY <1>6, <3>1
    <3> QED
      BY <3>1, <3>2, <3>3
  <2> HIDE DEF T
  <2> QED
    BY <2>1, <2>2, IntervalInduction
<1>8. F[n] = f[n]
  <2>1. n \in T
    <3> HIDE DEF T
    <3> QED
      BY <1>7
  <2> QED
    BY <2>1
<1> QED
  BY <1>2, <1>5, <1>8

\* The elements of a sequence.
LEMMA ToSetFacts ==
  ASSUME NEW D, NEW s \in Seq(D)
  PROVE  /\ ToSet(s) \subseteq D
         /\ \A k \in 1..Len(s) : s[k] \in ToSet(s)
         /\ \A x \in ToSet(s) : \E k \in 1..Len(s) : s[k] = x
  BY DEF ToSet

LEMMA ConcatFacts ==
  ASSUME NEW D, NEW s \in Seq(D), NEW t \in Seq(D)
  PROVE  /\ s \o t \in Seq(D)
         /\ ToSet(s \o t) = ToSet(s) \cup ToSet(t)
         /\ \A k \in 1..Len(s \o t) :
              \/ k \in 1..Len(s) /\ (s \o t)[k] = s[k]
              \/ k > Len(s) /\ (s \o t)[k] \in ToSet(t)
<1>1. s \o t \in Seq(D) /\ Len(s \o t) = Len(s) + Len(t)
  OBVIOUS
<1>2. \A k \in 1..Len(s) : (s \o t)[k] = s[k]
  OBVIOUS
<1>3. \A k \in (Len(s) + 1)..(Len(s) + Len(t)) :
        k - Len(s) \in 1..Len(t) /\ (s \o t)[k] = t[k - Len(s)]
  OBVIOUS
<1>4. \A k \in 1..Len(s \o t) :
        \/ k \in 1..Len(s) /\ (s \o t)[k] = s[k]
        \/ k > Len(s) /\ (s \o t)[k] \in ToSet(t)
  BY <1>1, <1>2, <1>3, ToSetFacts
<1>5. ToSet(s \o t) \subseteq ToSet(s) \cup ToSet(t)
  <2> SUFFICES ASSUME NEW x \in ToSet(s \o t) PROVE x \in ToSet(s) \/ x \in ToSet(t)
    OBVIOUS
  <2>1. PICK k \in 1..Len(s \o t) : (s \o t)[k] = x
    BY <1>1, ToSetFacts
  <2> QED
    BY <1>4, <2>1, ToSetFacts
<1>6. ToSet(s) \subseteq ToSet(s \o t)
  <2> SUFFICES ASSUME NEW x \in ToSet(s) PROVE x \in ToSet(s \o t)
    OBVIOUS
  <2>1. PICK k \in 1..Len(s) : s[k] = x
    BY ToSetFacts
  <2>2. k \in 1..Len(s \o t) /\ (s \o t)[k] = x
    BY <1>1, <1>2, <2>1
  <2> QED
    BY <1>1, <2>2, ToSetFacts
<1>7. ToSet(t) \subseteq ToSet(s \o t)
  <2> SUFFICES ASSUME NEW x \in ToSet(t) PROVE x \in ToSet(s \o t)
    OBVIOUS
  <2>1. PICK k \in 1..Len(t) : t[k] = x
    BY ToSetFacts
  <2>2. k + Len(s) \in 1..Len(s \o t) /\ (s \o t)[k + Len(s)] = x
    BY <1>1, <1>3, <2>1
  <2> QED
    BY <1>1, <2>2, ToSetFacts
<1> QED
  BY <1>1, <1>4, <1>5, <1>6, <1>7

\* The first m lists, one after the other, have the elements of those lists,
\* and an element of an earlier list is before those of later ones.
Flattened(s, seqs, m) ==
  /\ \A x : x \in ToSet(s) <=> \E i \in 1..m : x \in ToSet(seqs[i])
  /\ \A k, l \in 1..Len(s) : k <= l =>
       \E i, j \in 1..m : i <= j /\ s[k] \in ToSet(seqs[i]) /\ s[l] \in ToSet(seqs[j])

\* So are all that FlattenSeq's function computes.
LEMMA PrefixesFlattened ==
  ASSUME NEW D, NEW n \in Nat, NEW seqs \in [1..n -> Seq(D)],
         NEW f \in [1..n -> Seq(D)], IsFlattening(f, seqs, n)
  PROVE  \A m \in 1..n : Flattened(f[m], seqs, m)
<1> DEFINE T == {m \in 0..n : m = 0 \/ Flattened(f[m], seqs, m)}
<1>1. 0 \in T /\ T \in SUBSET (0..n)
  OBVIOUS
<1>2. ASSUME NEW m \in T, m < n
      PROVE  m + 1 \in T
  <2>1. /\ m + 1 \in 1..n /\ seqs[m + 1] \in Seq(D)
        /\ (m + 1) - 1 = m /\ (m + 1 = 1 <=> m = 0)
    BY <1>2
  <2>2. f[m + 1] = IF m = 0 THEN seqs[m + 1] ELSE f[m] \o seqs[m + 1]
    BY <2>1 DEF IsFlattening
  <2>3. CASE m = 0
    <3>1. f[1] = seqs[1] /\ seqs[1] \in Seq(D)
      BY <2>1, <2>2, <2>3
    <3>2. Flattened(f[1], seqs, 1)
      BY <3>1, ToSetFacts DEF Flattened
    <3> QED
      BY <2>1, <2>3, <3>2
  <2>4. CASE m # 0
    <3> DEFINE s == f[m]
               t == seqs[m + 1]
    <3>1. /\ s \in Seq(D) /\ t \in Seq(D) /\ f[m + 1] = s \o t
          /\ Flattened(s, seqs, m)
      <4>1. m \in 1..n
        BY <2>4
      <4> QED
        BY <2>1, <2>2, <2>4, <4>1
    <3> HIDE DEF s
    <3>2. \A x : (\E i \in 1..(m + 1) : x \in ToSet(seqs[i])) <=>
                  (\E i \in 1..m : x \in ToSet(seqs[i])) \/ x \in ToSet(t)
      <4>1. \A i : i \in 1..(m + 1) <=> i \in 1..m \/ i = m + 1
        BY <2>1
      <4> QED
        BY <4>1
    <3> HIDE DEF t
    <3>3. \A x : x \in ToSet(s \o t) <=> \E i \in 1..(m + 1) : x \in ToSet(seqs[i])
      <4>1. ToSet(s \o t) = ToSet(s) \cup ToSet(t)
        BY <3>1, ConcatFacts
      <4> QED
        BY <3>1, <3>2, <4>1 DEF Flattened
    <3>4. ASSUME NEW k \in 1..Len(s \o t), NEW l \in 1..Len(s \o t), k <= l
          PROVE  \E i, j \in 1..(m + 1) :
                   /\ i <= j
                   /\ (s \o t)[k] \in ToSet(seqs[i]) /\ (s \o t)[l] \in ToSet(seqs[j])
      <4>1. \A x \in 1..Len(s \o t) :
              \/ x \in 1..Len(s) /\ (s \o t)[x] = s[x]
              \/ x > Len(s) /\ (s \o t)[x] \in ToSet(t)
        BY <3>1, ConcatFacts
      <4>2. CASE l \in 1..Len(s) /\ (s \o t)[l] = s[l]
        <5>1. k \in 1..Len(s) /\ (s \o t)[k] = s[k]
          BY <3>1, <3>4, <4>1, <4>2
        <5>2. PICK i, j \in 1..m :
                i <= j /\ s[k] \in ToSet(seqs[i]) /\ s[l] \in ToSet(seqs[j])
          BY <3>1, <3>4, <4>2, <5>1 DEF Flattened
        <5>3. i \in 1..(m + 1) /\ j \in 1..(m + 1)
          OBVIOUS
        <5> QED
          BY <4>2, <5>1, <5>2, <5>3
      <4>3. CASE (s \o t)[l] \in ToSet(t)
        <5>1. \E i \in 1..(m + 1) : (s \o t)[k] \in ToSet(seqs[i])
          <6>1. (s \o t)[k] \in ToSet(s \o t)
            BY <3>1, ConcatFacts, ToSetFacts
          <6> QED
            BY <3>3, <6>1
        <5>2. m + 1 \in 1..(m + 1) /\ \A i \in 1..(m + 1) : i <= m + 1
          OBVIOUS
        <5> QED
          BY <4>3, <5>1, <5>2 DEF t
      <4> QED
        BY <4>1, <4>2, <4>3
    <3>5. Flattened(s \o t, seqs, m + 1)
      BY <3>3, <3>4 DEF Flattened
    <3>6. m + 1 \in 0..n /\ Flattened(f[m + 1], seqs, m + 1)
      BY <2>1, <3>1, <3>5
    <3> QED
      BY <3>6
  <2> QED
    BY <2>3, <2>4
<1>3. T = 0..n
  <2> HIDE DEF T
  <2> QED
    BY <1>1, <1>2, IntervalInduction
<1>4. \A m \in 1..n : m \in T /\ m # 0
  <2> HIDE DEF T
  <2> QED
    BY <1>3
<1> QED
  BY <1>4

LEMMA FlattenFacts ==
  ASSUME NEW D, NEW n \in Nat, NEW seqs \in [1..n -> Seq(D)]
  PROVE  FlattenSeq(seqs) \in Seq(D) /\ Flattened(FlattenSeq(seqs), seqs, n)
<1>1. CASE n = 0
  <2>1. seqs \in Seq(D) /\ Len(seqs) = 0 /\ FlattenSeq(seqs) = seqs
    BY <1>1 DEF FlattenSeq
  <2>2. ToSet(seqs) = {}
    BY <2>1 DEF ToSet
  <2> QED
    BY <1>1, <2>1, <2>2 DEF Flattened
<1>2. CASE n # 0
  <2>1. PICK f \in [1..n -> Seq(D)] : IsFlattening(f, seqs, n) /\ FlattenSeq(seqs) = f[n]
    BY <1>2, FlattenIs
  <2>2. \A m \in 1..n : Flattened(f[m], seqs, m)
    BY <2>1, PrefixesFlattened
  <2> QED
    BY <1>2, <2>1, <2>2
<1> QED
  BY <1>1, <1>2

-----------------------------------------------------------------------------
(* Sequences without duplicates.                                           *)

Distinct(s) == \A i, j \in 1..Len(s) : s[i] = s[j] => i = j

LEMMA ConcatDistinct ==
  ASSUME NEW D, NEW s \in Seq(D), NEW t \in Seq(D), Distinct(s), Distinct(t),
         ToSet(s) \cap ToSet(t) = {}
  PROVE  Distinct(s \o t)
<1>1. Len(s \o t) = Len(s) + Len(t) /\ Len(s) \in Nat /\ Len(t) \in Nat
  OBVIOUS
<1>2. \A k \in 1..Len(s) : (s \o t)[k] = s[k] /\ s[k] \in ToSet(s)
  BY ToSetFacts
<1>3. \A k \in (Len(s) + 1)..(Len(s) + Len(t)) :
        k - Len(s) \in 1..Len(t) /\ (s \o t)[k] = t[k - Len(s)]
  OBVIOUS
<1>4. \A k \in (Len(s) + 1)..(Len(s) + Len(t)) : (s \o t)[k] \in ToSet(t)
  BY <1>3, ToSetFacts
<1> DEFINE u == s \o t
<1> SUFFICES ASSUME NEW k \in 1..Len(u), NEW l \in 1..Len(u), u[k] = u[l]
             PROVE  k = l
  BY DEF Distinct
<1>5. /\ k \in 1..Len(s) \/ k \in (Len(s) + 1)..(Len(s) + Len(t))
      /\ l \in 1..Len(s) \/ l \in (Len(s) + 1)..(Len(s) + Len(t))
  BY <1>1
<1> HIDE DEF u
<1>6. CASE k \in 1..Len(s) /\ l \in 1..Len(s)
  BY <1>2, <1>6 DEF Distinct, u
<1>7. CASE k \in (Len(s) + 1)..(Len(s) + Len(t)) /\ l \in (Len(s) + 1)..(Len(s) + Len(t))
  <2>1. k - Len(s) = l - Len(s)
    BY <1>3, <1>7 DEF Distinct, u
  <2> QED
    BY <1>1, <1>7, <2>1
<1>8. CASE k \in 1..Len(s) /\ l \in (Len(s) + 1)..(Len(s) + Len(t))
  BY <1>2, <1>4, <1>8 DEF u
<1>9. CASE l \in 1..Len(s) /\ k \in (Len(s) + 1)..(Len(s) + Len(t))
  BY <1>2, <1>4, <1>9 DEF u
<1> QED
  BY <1>5, <1>6, <1>7, <1>8, <1>9

\* Lists without duplicates that have nothing in common make one without.
LEMMA FlattenDistinct ==
  ASSUME NEW D, NEW n \in Nat, NEW seqs \in [1..n -> Seq(D)],
         \A i \in 1..n : Distinct(seqs[i]),
         \A i, j \in 1..n : i # j => ToSet(seqs[i]) \cap ToSet(seqs[j]) = {}
  PROVE  Distinct(FlattenSeq(seqs))
<1>1. CASE n = 0
  <2>1. Len(FlattenSeq(seqs)) = 0
    BY <1>1 DEF FlattenSeq
  <2> QED
    BY <2>1 DEF Distinct
<1>2. CASE n # 0
  <2>1. PICK f \in [1..n -> Seq(D)] : IsFlattening(f, seqs, n) /\ FlattenSeq(seqs) = f[n]
    BY <1>2, FlattenIs
  <2>2. \A m \in 1..n : Flattened(f[m], seqs, m)
    BY <2>1, PrefixesFlattened
  <2> DEFINE T == {m \in 0..n : m = 0 \/ Distinct(f[m])}
  <2>3. 0 \in T /\ T \in SUBSET (0..n)
    OBVIOUS
  <2>4. ASSUME NEW m \in T, m < n
        PROVE  m + 1 \in T
    <3>1. /\ m + 1 \in 1..n /\ seqs[m + 1] \in Seq(D)
          /\ (m + 1) - 1 = m /\ (m + 1 = 1 <=> m = 0)
      BY <2>4
    <3>2. f[m + 1] = IF m = 0 THEN seqs[m + 1] ELSE f[m] \o seqs[m + 1]
      BY <2>1, <3>1 DEF IsFlattening
    <3>3. CASE m = 0
      BY <3>1, <3>2, <3>3
    <3>4. CASE m # 0
      <4> DEFINE s == f[m]
                 t == seqs[m + 1]
      <4>1. m \in 1..n /\ s \in Seq(D) /\ t \in Seq(D) /\ Distinct(s) /\ Distinct(t)
        BY <3>1, <3>4
      <4>2. ToSet(s) \cap ToSet(t) = {}
        <5>1. \A x \in ToSet(s) : \E i \in 1..m : x \in ToSet(seqs[i])
          BY <2>2, <4>1 DEF Flattened
        <5>2. \A i \in 1..m : i \in 1..n /\ i # m + 1
          BY <4>1
        <5> QED
          BY <3>1, <5>1, <5>2
      <4>3. Distinct(s \o t)
        <5> HIDE DEF s, t
        <5> QED
          BY <4>1, <4>2, ConcatDistinct
      <4>4. f[m + 1] = s \o t
        BY <3>2, <3>4
      <4> HIDE DEF s, t
      <4>5. m + 1 \in 0..n /\ Distinct(f[m + 1])
        BY <3>1, <4>3, <4>4
      <4> QED
        BY <4>5
    <3> QED
      BY <3>3, <3>4
  <2>5. n \in T
    <3> HIDE DEF T
    <3>1. T = 0..n
      BY <2>3, <2>4, IntervalInduction
    <3> QED
      BY <3>1
  <2> QED
    BY <1>2, <2>1, <2>5
<1> QED
  BY <1>1, <1>2

LEMMA SetToSeqFacts ==
  ASSUME NEW S, IsFiniteSet(S)
  PROVE  SetToSeq(S) \in Seq(S) /\ ToSet(SetToSeq(S)) = S /\ Distinct(SetToSeq(S))
<1> DEFINE n == Cardinality(S)
           s == SetToSeq(S)
<1>1. n \in Nat /\ ExistsBijection(1..n, S)
  BY FS_CardinalityType
<1>2. \E f \in [1..n -> S] : IsInjective(f)
  BY <1>1 DEF ExistsBijection, Bijection, Injection
<1>3. s \in [1..n -> S] /\ IsInjective(s)
  BY <1>2 DEF SetToSeq
<1> HIDE DEF s
<1>4. IsFiniteSet(1..n) /\ Cardinality(1..n) = n
  BY <1>1, FS_Interval
<1>5. s \in Surjection(1..n, S)
  BY <1>3, <1>4, FS_Injection DEF Injection
<1>6. s \in Seq(S) /\ Len(s) = n
  BY <1>1, <1>3
<1>7. \A x \in S : \E k \in 1..n : s[k] = x
  BY <1>5 DEF Surjection
<1>8. ToSet(s) = S
  <2>1. ToSet(s) \subseteq S
    BY <1>6, ToSetFacts
  <2>2. \A k \in 1..n : s[k] \in ToSet(s)
    BY <1>6, ToSetFacts
  <2> QED
    BY <1>7, <2>1, <2>2
<1>9. Distinct(s)
  BY <1>3, <1>6 DEF Distinct, IsInjective
<1> QED
  BY <1>6, <1>8, <1>9 DEF s

-----------------------------------------------------------------------------
(* Documents that are chosen and sorted.                                   *)

\* What passes the test of membership in K.
LEMMA SelectedFacts ==
  ASSUME NEW D, NEW s \in Seq(D), NEW K,
         NEW parts, parts = [i \in DOMAIN s |-> IF s[i] \in K THEN <<s[i]>> ELSE <<>>]
  PROVE  /\ FlattenSeq(parts) \in Seq(D)
         /\ ToSet(FlattenSeq(parts)) = ToSet(s) \cap K
         /\ Distinct(s) => Distinct(FlattenSeq(parts))
<1>1. DOMAIN s = 1..Len(s) /\ Len(s) \in Nat
  OBVIOUS
<1>2. parts \in [1..Len(s) -> Seq(D)]
  BY <1>1
<1>3. FlattenSeq(parts) \in Seq(D) /\ Flattened(FlattenSeq(parts), parts, Len(s))
  BY <1>1, <1>2, FlattenFacts
<1>4. \A i \in 1..Len(s) : ToSet(parts[i]) = {s[i]} \cap K
  <2> SUFFICES ASSUME NEW i \in 1..Len(s) PROVE ToSet(parts[i]) = {s[i]} \cap K
    OBVIOUS
  <2>1. CASE s[i] \in K
    <3>1. parts[i] = <<s[i]>>
      BY <1>1, <2>1
    <3>2. ToSet(<<s[i]>>) = {s[i]}
      BY DEF ToSet
    <3> QED
      BY <2>1, <3>1, <3>2
  <2>2. CASE s[i] \notin K
    <3>1. parts[i] = <<>>
      BY <1>1, <2>2
    <3>2. ToSet(<<>>) = {}
      BY DEF ToSet
    <3> QED
      BY <2>2, <3>1, <3>2
  <2> QED
    BY <2>1, <2>2
<1>5. ASSUME NEW x
      PROVE  x \in ToSet(FlattenSeq(parts)) <=> x \in ToSet(s) \cap K
  <2>1. x \in ToSet(FlattenSeq(parts)) <=> \E i \in 1..Len(s) : x \in ToSet(parts[i])
    BY <1>3 DEF Flattened
  <2>2. (\E i \in 1..Len(s) : x \in ToSet(parts[i])) <=>
          \E i \in 1..Len(s) : x = s[i] /\ x \in K
    BY <1>4
  <2>3. (\E i \in 1..Len(s) : x = s[i]) <=> x \in ToSet(s)
    BY ToSetFacts
  <2> QED
    BY <2>1, <2>2, <2>3
<1>6. ASSUME Distinct(s) PROVE Distinct(FlattenSeq(parts))
  <2>1. \A i \in 1..Len(s) : parts[i] = <<s[i]>> \/ parts[i] = <<>>
    BY <1>1
  <2>2. \A x : Distinct(<<x>>)
    BY DEF Distinct
  <2>3. Distinct(<<>>)
    BY DEF Distinct
  <2>4. \A i \in 1..Len(s) : Distinct(parts[i])
    BY <2>1, <2>2, <2>3
  <2>5. \A i, j \in 1..Len(s) : i # j => ToSet(parts[i]) \cap ToSet(parts[j]) = {}
    BY <1>4, <1>6 DEF Distinct
  <2> QED
    BY <1>1, <1>2, <2>4, <2>5, FlattenDistinct
<1> QED
  BY <1>3, <1>5, <1>6

LEMMA PriorityRange ==
  ASSUME NEW kind
  PROVE  ResourcePriority(kind) \in 1..LastPriority
<1>1. Len(KindOrder) = 9 /\ DOMAIN KindOrder = 1..9
  BY DEF KindOrder
<1>2. LastPriority = 10
  BY <1>1 DEF LastPriority
<1>3. CASE \E i \in DOMAIN KindOrder : kind \in KindOrder[i]
  <2> HIDE DEF KindOrder
  <2>1. ResourcePriority(kind) = CHOOSE i \in DOMAIN KindOrder : kind \in KindOrder[i]
    BY <1>3 DEF ResourcePriority
  <2>2. ResourcePriority(kind) \in DOMAIN KindOrder
    BY <1>3, <2>1
  <2> QED
    BY <1>1, <1>2, <2>2
<1>4. CASE ~\E i \in DOMAIN KindOrder : kind \in KindOrder[i]
  BY <1>2, <1>4 DEF ResourcePriority
<1> QED
  BY <1>3, <1>4

\* Sorting loses no document, adds none, and puts earlier kinds first.
LEMMA ByPriorityFacts ==
  ASSUME NEW D, NEW documents \in Seq(D)
  PROVE  /\ ByPriority(documents) \in Seq(D)
         /\ ToSet(ByPriority(documents)) = ToSet(documents)
         /\ Distinct(documents) => Distinct(ByPriority(documents))
         /\ \A k, l \in 1..Len(ByPriority(documents)) : k <= l =>
              ResourcePriority(ByPriority(documents)[k].kind)
                <= ResourcePriority(ByPriority(documents)[l].kind)
<1> DEFINE Of(i) == {d \in D : ResourcePriority(d.kind) = i}
           parts(i) == [k \in DOMAIN documents |->
                          IF ResourcePriority(documents[k].kind) = i
                            THEN <<documents[k]>> ELSE <<>>]
           seqs == [i \in 1..LastPriority |-> FlattenSeq(parts(i))]
           sorted == FlattenSeq(seqs)
<1>1. LastPriority \in Nat
  BY DEF LastPriority, KindOrder
<1>2. ByPriority(documents) = sorted
  BY DEF ByPriority, Selected
<1>3. ASSUME NEW i \in 1..LastPriority
      PROVE  /\ FlattenSeq(parts(i)) \in Seq(D)
             /\ ToSet(FlattenSeq(parts(i))) = ToSet(documents) \cap Of(i)
             /\ Distinct(documents) => Distinct(FlattenSeq(parts(i)))
  <2>1. parts(i) = [k \in DOMAIN documents |->
                      IF documents[k] \in Of(i) THEN <<documents[k]>> ELSE <<>>]
    OBVIOUS
  <2> HIDE DEF parts, Of
  <2> QED
    BY <2>1, SelectedFacts
<1> HIDE DEF parts
<1>4. /\ seqs \in [1..LastPriority -> Seq(D)]
      /\ \A i \in 1..LastPriority : ToSet(seqs[i]) = ToSet(documents) \cap Of(i)
      /\ \A i \in 1..LastPriority : Distinct(documents) => Distinct(seqs[i])
  BY <1>3
<1> HIDE DEF seqs
<1>5. sorted \in Seq(D) /\ Flattened(sorted, seqs, LastPriority)
  BY <1>1, <1>4, FlattenFacts
<1>6. ASSUME Distinct(documents) PROVE Distinct(sorted)
  <2>1. \A i, j \in 1..LastPriority : i # j => ToSet(seqs[i]) \cap ToSet(seqs[j]) = {}
    BY <1>4
  <2> QED
    BY <1>1, <1>4, <1>6, <2>1, FlattenDistinct
<1> HIDE DEF sorted
<1>7. ToSet(sorted) = ToSet(documents)
  <2>1. \A x : x \in ToSet(sorted) <=>
          \E i \in 1..LastPriority : x \in ToSet(documents) /\ x \in Of(i)
    BY <1>4, <1>5 DEF Flattened
  <2>2. ToSet(documents) \subseteq D
    BY ToSetFacts
  <2>3. \A x \in D : ResourcePriority(x.kind) \in 1..LastPriority
    BY PriorityRange
  <2> QED
    BY <2>1, <2>2, <2>3
<1>8. ASSUME NEW k \in 1..Len(sorted), NEW l \in 1..Len(sorted), k <= l
      PROVE  ResourcePriority(sorted[k].kind) <= ResourcePriority(sorted[l].kind)
  <2>1. PICK i, j \in 1..LastPriority :
          i <= j /\ sorted[k] \in ToSet(seqs[i]) /\ sorted[l] \in ToSet(seqs[j])
    BY <1>5, <1>8 DEF Flattened
  <2>2. ResourcePriority(sorted[k].kind) = i /\ ResourcePriority(sorted[l].kind) = j
    BY <1>4, <2>1
  <2> QED
    BY <2>1, <2>2
<1> QED
  BY <1>2, <1>5, <1>6, <1>7, <1>8

===============================================================================
