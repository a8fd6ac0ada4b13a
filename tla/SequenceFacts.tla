---------------------------- MODULE SequenceFacts ----------------------------
(* Facts about sequences and numbers that the proofs about several components *)
(* use.                                                                       *)
EXTENDS SequenceTheorems, FiniteSetTheorems, WellFoundedInduction, TLAPS

\* What Append, the removal of the last element and its replacement do.
LEMMA AppendFacts ==
  ASSUME NEW S, NEW s \in Seq(S), NEW e \in S
  PROVE  /\ Append(s, e) \in Seq(S)
         /\ Append(s, e) # <<>>
         /\ Len(s) \in Nat /\ Len(Append(s, e)) = Len(s) + 1
         /\ \A i \in 1..Len(s) : Append(s, e)[i] = s[i]
         /\ Append(s, e)[Len(s) + 1] = e
OBVIOUS

LEMMA FrontFacts ==
  ASSUME NEW S, NEW s \in Seq(S), s # <<>>
  PROVE  /\ SubSeq(s, 1, Len(s) - 1) \in Seq(S)
         /\ Len(s) \in Nat \ {0}
         /\ Len(SubSeq(s, 1, Len(s) - 1)) = Len(s) - 1
         /\ \A i \in 1..(Len(s) - 1) : SubSeq(s, 1, Len(s) - 1)[i] = s[i]
<1>1. Len(s) \in Nat \ {0}
  OBVIOUS
<1>2. \A i \in 1..(Len(s) - 1) : s[i] \in S
  OBVIOUS
<1> DEFINE n == Len(s) - 1
           t == SubSeq(s, 1, n)
<1>3. n \in Nat
  BY <1>1
<1>4. /\ t \in Seq(S)
      /\ Len(t) = IF 1 <= n THEN n - 1 + 1 ELSE 0
      /\ \A i \in 1..(n - 1 + 1) : t[i] = s[1 + i - 1]
  BY <1>2, <1>3, SubSeqProperties
<1> HIDE DEF n, t
<1>5. Len(t) = n /\ \A i \in 1..n : t[i] = s[i]
  BY <1>3, <1>4
<1>. QED BY <1>1, <1>4, <1>5 DEF n, t

LEMMA LastFacts ==
  ASSUME NEW S, NEW s \in Seq(S), s # <<>>, NEW e \in S
  PROVE  /\ [s EXCEPT ![Len(s)] = e] \in Seq(S)
         /\ Len(s) \in Nat \ {0}
         /\ Len([s EXCEPT ![Len(s)] = e]) = Len(s)
         /\ \A i \in 1..(Len(s) - 1) : [s EXCEPT ![Len(s)] = e][i] = s[i]
         /\ [s EXCEPT ![Len(s)] = e][Len(s)] = e
OBVIOUS

LEMMA WiderSeq ==
  ASSUME NEW S, NEW T, S \subseteq T, NEW s \in Seq(S)
  PROVE  s \in Seq(T)
BY SeqMonotonic

-----------------------------------------------------------------------------
\* Every set of numbers that is not empty has a least one.
LEMMA LeastExists ==
  ASSUME NEW S \in SUBSET Nat, S # {}
  PROVE  \E m \in S : \A k \in S : m <= k
<1> DEFINE R == OpToRel(<, Nat)
<1>1. IsWellFoundedOn(R, Nat)
  BY NatLessThanWellFounded
<1>2. \A x, y \in Nat : x < y => <<x, y>> \in R
  BY DEF OpToRel
<1> HIDE DEF R
<1>3. PICK m \in S : \A y \in S : ~ (<<y, m>> \in R)
  BY <1>1, WFMin
<1>4. ASSUME NEW k \in S PROVE m <= k
  <2>1. ~ (k < m) /\ k \in Nat /\ m \in Nat
    BY <1>2, <1>3
  <2>. QED BY <2>1
<1>. QED BY <1>4

LEMMA GreatestExists ==
  ASSUME NEW n \in Nat, NEW S \in SUBSET (1..n), S # {}
  PROVE  \E m \in S : \A k \in S : k <= m
<1> DEFINE T == {n - k : k \in S}
<1>1. T \in SUBSET Nat /\ T # {}
  <2>1. ASSUME NEW k \in S PROVE n - k \in Nat
    <3>1. k \in 1..n
      OBVIOUS
    <3>. QED BY <3>1
  <2>2. PICK k \in S : TRUE
    OBVIOUS
  <2>. QED BY <2>1, <2>2
<1>2. PICK d \in T : \A e \in T : d <= e
  <2>1. \A Q \in SUBSET Nat : Q # {} => \E m \in Q : \A k \in Q : m <= k
    BY LeastExists
  <2> HIDE DEF T
  <2>. QED BY <1>1, <2>1
<1>3. PICK m \in S : d = n - m
  BY <1>2
<1>4. ASSUME NEW k \in S PROVE k <= m
  <2>1. n - m <= n - k
    BY <1>2, <1>3
  <2>2. n \in Int /\ m \in Int /\ k \in Int
    OBVIOUS
  <2>. QED BY <2>1, <2>2
<1>. QED BY <1>4

\* What is repeated for 1, 2, ..., n, and stays in a set, can be written as a function.
Repeatable(S, n) == [(1..n) \X S -> S]
Repeated(f, b, n, G) == f[0] = b /\ \A i \in 1..n : f[i] = G[<<i, f[i - 1]>>]

LEMMA Iterates ==
  ASSUME NEW S, NEW b \in S, NEW n \in Nat, NEW G \in Repeatable(S, n)
  PROVE  \E f \in [0..n -> S] : Repeated(f, b, n, G)
<1>. USE DEF Repeatable, Repeated
<1> DEFINE Good(m, f) == f[0] = b /\ \A i \in 1..m : f[i] = G[<<i, f[i - 1]>>]
           Bad == {m \in 0..n : ~ \E f \in [0..m -> S] : Good(m, f)}
<1>1. SUFFICES ASSUME Bad # {} PROVE FALSE
  <2>1. n \notin Bad => \E f \in [0..n -> S] : Good(n, f)
    OBVIOUS
  <2>. QED BY <1>1, <2>1
<1>2. PICK m \in Bad : \A k \in Bad : m <= k
  <2>1. Bad \in SUBSET Nat
    OBVIOUS
  <2> HIDE DEF Bad
  <2>. QED BY <1>1, <2>1, LeastExists
<1>3. m # 0
  <2>1. [i \in 0..0 |-> b] \in [0..0 -> S] /\ Good(0, [i \in 0..0 |-> b])
    OBVIOUS
  <2>. QED BY <2>1, <1>2
<1>4. PICK f \in [0..(m - 1) -> S] : Good(m - 1, f)
  <2>1. m - 1 \in 0..n /\ m - 1 \notin Bad
    BY <1>2, <1>3
  <2>. QED BY <2>1
<1> DEFINE g == [i \in 0..m |-> IF i = m THEN G[<<m, f[m - 1]>>] ELSE f[i]]
<1>5. g \in [0..m -> S]
  BY <1>2, <1>3, <1>4
<1>6. Good(m, g)
  <2>1. g[0] = b
    BY <1>2, <1>3, <1>4
  <2>2. ASSUME NEW i \in 1..m
        PROVE  g[i] = G[<<i, g[i - 1]>>]
    <3>1. i - 1 \in 0..m /\ i - 1 # m /\ g[i - 1] = f[i - 1] /\ m \in Nat
      BY <1>2, <2>2
    <3>2. CASE i = m
      BY <3>1, <3>2
    <3>3. CASE i # m
      <4>1. i \in 1..(m - 1) /\ i \in 0..m
        BY <3>1, <3>3
      <4>. QED BY <1>4, <3>1, <3>3, <4>1
    <3>. QED BY <3>2, <3>3
  <2>. QED BY <2>1, <2>2
<1>7. ~ \E h \in [0..m -> S] : Good(m, h)
  BY <1>2
<1> HIDE DEF Bad, Good, g
<1>. QED BY <1>5, <1>6, <1>7
-----------------------------------------------------------------------------
\* How many of the first n positions are in P.
Count(P, n) == Cardinality({j \in 1..n : j \in P})

LEMMA CountFacts ==
  ASSUME NEW P, NEW n \in Nat
  PROVE  /\ Count(P, 0) = 0
         /\ Count(P, n) \in Nat
         /\ n + 1 \in P    => Count(P, n + 1) = Count(P, n) + 1
         /\ n + 1 \notin P => Count(P, n + 1) = Count(P, n)
<1>1. {j \in 1..0 : j \in P} = {}
  OBVIOUS
<1>2. Count(P, 0) = 0
  BY <1>1, FS_EmptySet DEF Count
<1>3. IsFiniteSet({j \in 1..n : j \in P})
  <2>1. IsFiniteSet(1..n)
    BY FS_Interval
  <2>. QED BY <2>1, FS_Subset
<1>4. Count(P, n) \in Nat
  BY <1>3, FS_CardinalityType DEF Count
<1>5. ASSUME n + 1 \in P
      PROVE  Count(P, n + 1) = Count(P, n) + 1
  <2>1. {j \in 1..(n + 1) : j \in P} = {j \in 1..n : j \in P} \union {n + 1}
    BY <1>5
  <2>2. n + 1 \notin {j \in 1..n : j \in P}
    OBVIOUS
  <2>. QED BY <1>3, <2>1, <2>2, FS_AddElement DEF Count
<1>6. ASSUME n + 1 \notin P
      PROVE  Count(P, n + 1) = Count(P, n)
  <2>1. {j \in 1..(n + 1) : j \in P} = {j \in 1..n : j \in P}
    BY <1>6
  <2>. QED BY <2>1 DEF Count
<1>. QED BY <1>2, <1>4, <1>5, <1>6

\* Further on there are at least as many, and more at a position of P.
LEMMA CountGrows ==
  ASSUME NEW P, NEW m \in Nat, NEW n \in Nat, m < n
  PROVE  /\ Count(P, m) \in Nat /\ Count(P, n) \in Nat
         /\ Count(P, m) <= Count(P, n)
         /\ n \in P => Count(P, m) < Count(P, n)
<1>1. \A k \in Nat : IsFiniteSet({j \in 1..k : j \in P})
  <2>1. ASSUME NEW k \in Nat PROVE IsFiniteSet({j \in 1..k : j \in P})
    <3>1. IsFiniteSet(1..k)
      BY FS_Interval
    <3>. QED BY <3>1, FS_Subset
  <2>. QED BY <2>1
<1>2. Count(P, m) \in Nat /\ Count(P, n) \in Nat
  BY CountFacts
<1> DEFINE A == {j \in 1..m : j \in P}
           B == {j \in 1..n : j \in P}
<1>3. A \subseteq B /\ IsFiniteSet(A) /\ IsFiniteSet(B)
  BY <1>1
<1>4. n \in P => A # B
  <2>1. n \notin A /\ (n \in P => n \in B)
    OBVIOUS
  <2>. QED BY <2>1
<1> HIDE DEF A, B
<1>5. Cardinality(A) <= Cardinality(B) /\ (A # B => Cardinality(A) < Cardinality(B))
  <2>1. Cardinality(A) <= Cardinality(B) /\ (Cardinality(B) = Cardinality(A) => B = A)
    BY <1>3, FS_Subset
  <2>2. Cardinality(A) \in Nat /\ Cardinality(B) \in Nat
    BY <1>3, FS_CardinalityType
  <2>. QED BY <2>1, <2>2
<1>6. Count(P, m) = Cardinality(A) /\ Count(P, n) = Cardinality(B)
  BY DEF Count, A, B
<1>. QED BY <1>2, <1>4, <1>5, <1>6

LEMMA CountSame ==
  ASSUME NEW P, NEW Q, NEW n \in Nat, \A j \in 1..n : j \in P <=> j \in Q
  PROVE  Count(P, n) = Count(Q, n)
<1>1. {j \in 1..n : j \in P} = {j \in 1..n : j \in Q}
  OBVIOUS
<1>. QED BY <1>1 DEF Count

\* A property that the first value of a recursive function has, and that each value
\* hands on to the next, holds of all.
LEMMA Stays ==
  ASSUME NEW S, NEW n \in Nat, NEW f, f[0] \in S,
         \A i \in 1..n : f[i - 1] \in S => f[i] \in S
  PROVE  \A i \in 0..n : f[i] \in S
<1> DEFINE Bad == {i \in 0..n : f[i] \notin S}
<1>1. SUFFICES ASSUME Bad # {} PROVE FALSE
  OBVIOUS
<1>2. PICK m \in Bad : \A k \in Bad : m <= k
  <2>1. Bad \in SUBSET Nat
    OBVIOUS
  <2> HIDE DEF Bad
  <2>. QED BY <1>1, <2>1, LeastExists
<1>3. m # 0 /\ m \in 0..n
  BY <1>2
<1>4. m \in 1..n /\ m - 1 \in 0..n /\ m - 1 < m
  BY <1>3
<1>5. m - 1 \notin Bad
  <2>1. ~ (m <= m - 1)
    BY <1>4
  <2> HIDE DEF Bad
  <2>. QED BY <1>2, <2>1
<1>6. f[m - 1] \in S
  BY <1>4, <1>5
<1>. QED BY <1>2, <1>4, <1>6
=============================================================================
