----------------------------- MODULE Inductions -----------------------------
(***************************************************************************)
(* Induction and recursion stated about sets and functions, so that a      *)
(* proof can use them without an operator as a parameter: the set of the   *)
(* numbers a fact holds for stands for the fact.  At the end are facts     *)
(* about pieces of sequences.                                              *)
(***************************************************************************)
EXTENDS Naturals, Sequences, FiniteSetTheorems, SequenceTheorems, TLAPS

\* Every non-empty set of numbers has a least element.
LEMMA LeastElement ==
  ASSUME NEW T \in SUBSET Nat, T # {}
  PROVE  \E m \in T : \A k \in T : m <= k
<1>. DEFINE Smaller(n) == {i \in Nat : i < n}
            R == StrictSubsetOrdering(Nat)
            U == {Smaller(n) : n \in T}
<1>1. \A n \in Nat : Smaller(n) \in FiniteSubsetsOf(Nat)
  <2>1. SUFFICES ASSUME NEW n \in Nat PROVE IsFiniteSet(Smaller(n))
    BY DEF FiniteSubsetsOf
  <2>2. Smaller(n) \in SUBSET Nat /\ \A i \in Smaller(n) : i <= n
    OBVIOUS
  <2>. QED
    BY <2>2, FS_BoundedSetOfNaturals
<1>2. IsWellFoundedOn(R, FiniteSubsetsOf(Nat))
  BY FS_StrictSubsetOrderingWellFounded
<1>3. U \subseteq FiniteSubsetsOf(Nat) /\ U # {}
  BY <1>1
<1>4. PICK x \in U : \A y \in U : <<y, x>> \notin R
  <2>. HIDE DEF U, R
  <2>. QED
    BY <1>2, <1>3, WFMin
<1>5. PICK m \in T : x = Smaller(m)
  OBVIOUS
<1>6. ASSUME NEW k \in T, k < m PROVE FALSE
  <2>1. Smaller(k) \in U /\ Smaller(k) \subseteq Smaller(m)
    BY <1>6
  <2>2. k \in Smaller(m) /\ k \notin Smaller(k)
    BY <1>6
  <2>3. <<Smaller(k), Smaller(m)>> \in R
    BY <2>1, <2>2 DEF StrictSubsetOrdering
  <2>. QED
    BY <1>4, <1>5, <2>1, <2>3
<1>. QED
  BY <1>6

\* A set of numbers that are not over n has a largest one.
LEMMA LargestElement ==
  ASSUME NEW n \in Nat, NEW T \in SUBSET (0 .. n), T # {}
  PROVE  \E m \in T : \A k \in T : k <= m
<1>. DEFINE U == {n - k : k \in T}
<1>1. U \in SUBSET Nat /\ U # {}
  <2>1. \A k \in T : n - k \in Nat
    OBVIOUS
  <2>2. PICK k \in T : TRUE
    OBVIOUS
  <2>3. n - k \in U
    OBVIOUS
  <2>. QED
    BY <2>1, <2>3
<1>2. PICK u \in U : \A k \in U : u <= k
  <2>. HIDE DEF U
  <2>. QED
    BY <1>1, LeastElement
<1>3. PICK m \in T : u = n - m
  OBVIOUS
<1>4. \A k \in T : n - m <= n - k /\ k \in Nat
  <2>1. \A k \in T : n - k \in U /\ k \in Nat
    OBVIOUS
  <2>. HIDE DEF U
  <2>. QED
    BY <1>2, <1>3, <2>1
<1>5. m \in Nat
  OBVIOUS
<1>. QED
  BY <1>4, <1>5

\* A set of numbers that holds 0 and with every number the next one holds them all.
LEMMA Induction ==
  ASSUME NEW S \in SUBSET Nat, 0 \in S, \A n \in S : n + 1 \in S
  PROVE  S = Nat
<1>1. SUFFICES ASSUME Nat \ S # {} PROVE FALSE
  OBVIOUS
<1>2. PICK m \in Nat \ S : \A k \in Nat \ S : m <= k
  BY <1>1, LeastElement
<1>3. m # 0 /\ m - 1 \in Nat
  BY <1>2
<1>4. m - 1 \in S
  BY <1>2, <1>3
<1>. QED
  BY <1>2, <1>3, <1>4

\* A finite set of numbers that holds, with every number, those before it is an interval
\* from 0 on.
LEMMA FiniteInitialSegment ==
  ASSUME NEW I \in SUBSET Nat, IsFiniteSet(I),
         \A i \in I : i > 0 => i - 1 \in I
  PROVE  Cardinality(I) \in Nat /\ I = 0 .. Cardinality(I) - 1
<1>1. Nat \ I # {}
  <2>1. SUFFICES ASSUME I = Nat PROVE FALSE
    OBVIOUS
  <2>. DEFINE c == Cardinality(I)
  <2>2. c \in Nat
    BY FS_CardinalityType
  <2>3. 0 .. c \in SUBSET I
    BY <2>1, <2>2
  <2>4. Cardinality(0 .. c) <= c
    BY <2>3, FS_Subset
  <2>5. Cardinality(0 .. c) = c + 1
    BY <2>2, FS_Interval
  <2>. QED
    BY <2>2, <2>4, <2>5
<1>2. PICK m \in Nat \ I : \A k \in Nat \ I : m <= k
  BY <1>1, LeastElement
<1>3. \A i \in 0 .. m - 1 : i \in I
  BY <1>2
<1>4. ASSUME NEW i \in I, i >= m PROVE FALSE
  <2>. DEFINE J == {j \in I : j >= m}
  <2>1. J \in SUBSET Nat /\ J # {}
    BY <1>4
  <2>2. PICK j \in J : \A k \in J : j <= k
    BY <2>1, LeastElement
  <2>3. j # m /\ j > 0 /\ j - 1 \in I /\ j - 1 >= m
    BY <1>2, <2>2
  <2>. QED
    BY <2>2, <2>3
<1>5. I = 0 .. m - 1
  <2>1. \A i \in I : i \in Nat /\ i < m
    BY <1>4
  <2>2. \A i : i \in 0 .. m - 1 <=> i \in Nat /\ i < m
    OBVIOUS
  <2>3. \A i : i \in I <=> i \in 0 .. m - 1
    BY <1>3, <2>1, <2>2
  <2>. QED
    BY <2>3
<1>6. Cardinality(I) = m
  BY <1>5, FS_Interval
<1>. QED
  BY <1>5, <1>6

\* A function on sequences can be defined by what it is for the empty one, and how it goes
\* on with one more element.
LEMMA RecursionOnSequences ==
  ASSUME NEW S, NEW R, NEW a \in R, NEW h \in [R \X S -> R]
  PROVE  \E f \in [Seq(S) -> R] :
           /\ f[<<>>] = a
           /\ \A s \in Seq(S), x \in S : f[Append(s, x)] = h[<<f[s], x>>]
<1>. DEFINE IsRun(r, s) ==
              /\ r \in [0 .. Len(s) -> R]
              /\ r[0] = a
              /\ \A i \in 1 .. Len(s) : r[i] = h[<<r[i - 1], s[i]>>]
            Run(s) == {r \in [0 .. Len(s) -> R] : IsRun(r, s)}
            N == {n \in Nat : \A s \in Seq(S) : Len(s) = n => Run(s) # {}}
<1>1. 0 \in N
  <2>1. SUFFICES ASSUME NEW s \in Seq(S), Len(s) = 0 PROVE Run(s) # {}
    OBVIOUS
  <2>2. IsRun([i \in 0 .. 0 |-> a], s)
    BY <2>1
  <2>. QED
    BY <2>2
<1>2. ASSUME NEW n \in N PROVE n + 1 \in N
  <2>1. SUFFICES ASSUME NEW s \in Seq(S), Len(s) = n + 1 PROVE Run(s) # {}
    OBVIOUS
  <2>2. PICK t \in Seq(S), x \in S : s = Append(t, x)
    BY <2>1, SequenceEmptyOrAppend
  <2>3. /\ Len(t) = n
        /\ \A i \in 1 .. n : s[i] = t[i]
        /\ s[n + 1] = x
    BY <2>1, <2>2, AppendProperties
  <2>4. PICK q : IsRun(q, t)
    BY <2>3
  <2>. DEFINE r == [i \in 0 .. n + 1 |-> IF i = n + 1 THEN h[<<q[n], x>>] ELSE q[i]]
  <2>5. q \in [0 .. n -> R] /\ q[0] = a /\ \A i \in 1 .. n : q[i] = h[<<q[i - 1], t[i]>>]
    BY <2>3, <2>4
  <2>6. q[n] \in R /\ h[<<q[n], x>>] \in R
    BY <2>5
  <2>7. r \in [0 .. n + 1 -> R] /\ r[0] = a
    BY <2>5, <2>6
  <2>8. ASSUME NEW i \in 1 .. n + 1 PROVE r[i] = h[<<r[i - 1], s[i]>>]
    <3>1. i - 1 \in 0 .. n /\ r[i - 1] = q[i - 1]
      OBVIOUS
    <3>. HIDE DEF IsRun
    <3>2. CASE i = n + 1
      <4>1. r[i] = h[<<q[n], x>>] /\ r[i - 1] = q[n] /\ s[i] = x
        BY <2>3, <3>1, <3>2
      <4>. QED
        BY <4>1
    <3>3. CASE i \in 1 .. n
      BY <2>3, <2>5, <3>1, <3>3
    <3>. QED
      BY <3>2, <3>3
  <2>9. IsRun(r, s)
    BY <2>1, <2>7, <2>8
  <2>. QED
    BY <2>1, <2>7, <2>9
<1>3. \A s \in Seq(S) : Run(s) # {}
  <2>1. N \in SUBSET Nat
    OBVIOUS
  <2>2. N = Nat
    <3>. HIDE DEF N
    <3>. QED
      BY <1>1, <1>2, <2>1, Induction
  <2>. QED
    BY <2>2, SMTT(20)
<1>4. ASSUME NEW s \in Seq(S), NEW r, NEW q, IsRun(r, s), IsRun(q, s)
      PROVE  \A i \in 0 .. Len(s) : r[i] = q[i]
  <2>. DEFINE D == {i \in 0 .. Len(s) : r[i] # q[i]}
  <2>1. SUFFICES ASSUME D # {} PROVE FALSE
    OBVIOUS
  <2>2. D \in SUBSET Nat
    OBVIOUS
  <2>3. PICK m \in D : \A k \in D : m <= k
    BY <2>1, <2>2, LeastElement
  <2>4. m \in 1 .. Len(s) /\ m - 1 \in 0 .. Len(s)
    BY <1>4, <2>3
  <2>5. r[m - 1] = q[m - 1]
    BY <2>3, <2>4
  <2>. QED
    BY <1>4, <2>3, <2>4, <2>5
<1>. DEFINE theRun(s) == CHOOSE r : r \in Run(s)
            f == [s \in Seq(S) |-> theRun(s)[Len(s)]]
<1>5. ASSUME NEW s \in Seq(S) PROVE IsRun(theRun(s), s) /\ f[s] = theRun(s)[Len(s)]
  <2>1. theRun(s) \in Run(s)
    BY <1>3
  <2>. QED
    BY <2>1
<1>. HIDE DEF theRun
<1>6. f \in [Seq(S) -> R]
  <2>1. ASSUME NEW s \in Seq(S) PROVE theRun(s)[Len(s)] \in R
    BY <1>5
  <2>. QED
    BY <2>1
<1>7. f[<<>>] = a
  <2>1. <<>> \in Seq(S) /\ Len(<<>>) = 0
    BY EmptySeq
  <2>. QED
    BY <1>5, <2>1
<1>8. ASSUME NEW s \in Seq(S), NEW x \in S PROVE f[Append(s, x)] = h[<<f[s], x>>]
  <2>. DEFINE w == Append(s, x)
              r == theRun(w)
              q == [i \in 0 .. Len(s) |-> r[i]]
  <2>1. /\ w \in Seq(S) /\ Len(w) = Len(s) + 1 /\ Len(s) \in Nat
        /\ \A i \in 1 .. Len(s) : w[i] = s[i]
        /\ w[Len(s) + 1] = x
    BY AppendProperties
  <2>. HIDE DEF w
  <2>2. IsRun(r, w) /\ f[w] = r[Len(w)]
    BY <1>5, <2>1
  <2>3. /\ r \in [0 .. Len(s) + 1 -> R] /\ r[0] = a
        /\ \A i \in 1 .. Len(s) + 1 : r[i] = h[<<r[i - 1], w[i]>>]
    BY <2>1, <2>2
  <2>. HIDE DEF r, f
  <2>4. q \in [0 .. Len(s) -> R] /\ q[0] = a
    BY <2>1, <2>3
  <2>5. ASSUME NEW i \in 1 .. Len(s) PROVE q[i] = h[<<q[i - 1], s[i]>>]
    <3>1. i - 1 \in 0 .. Len(s) /\ i \in 0 .. Len(s) /\ i \in 1 .. Len(s) + 1
      BY <2>1
    <3>2. q[i - 1] = r[i - 1] /\ q[i] = r[i] /\ w[i] = s[i]
      BY <2>1, <3>1
    <3>. QED
      BY <2>3, <3>1, <3>2
  <2>6. IsRun(q, s)
    BY <2>4, <2>5
  <2>7. theRun(s)[Len(s)] = q[Len(s)]
    <3>1. IsRun(theRun(s), s) /\ Len(s) \in 0 .. Len(s)
      BY <1>5, <2>1
    <3>. HIDE DEF q, IsRun
    <3>. QED
      BY <1>4, <2>6, <3>1
  <2>8. q[Len(s)] = r[Len(s)] /\ r[Len(s) + 1] = h[<<r[Len(s)], x>>]
    BY <2>1, <2>3, SMTT(20)
  <2>9. f[s] = theRun(s)[Len(s)]
    BY <1>5
  <2>10. f[w] = h[<<f[s], x>>]
    <3>. HIDE DEF q
    <3>. QED
      BY <2>1, <2>2, <2>7, <2>8, <2>9
  <2>. QED
    BY <2>10 DEF w
<1>. QED
  <2>. HIDE DEF f
  <2>. QED
    BY <1>6, <1>7, <1>8

\* What holds for 0, and for a number if it holds for the one before it, holds up to N.
LEMMA InductionUpto ==
  ASSUME NEW N \in Nat, NEW S, 0 \in S, \A n \in 1 .. N : n - 1 \in S => n \in S
  PROVE  0 .. N \subseteq S
<1>. DEFINE T == {n \in Nat : n <= N => n \in S}
<1>1. T \in SUBSET Nat /\ 0 \in T
  OBVIOUS
<1>2. ASSUME NEW n \in T PROVE n + 1 \in T
  <2>1. n \in Nat /\ (n <= N => n \in S)
    OBVIOUS
  <2>2. ASSUME n + 1 <= N PROVE n + 1 \in S
    <3>1. n + 1 \in 1 .. N /\ (n + 1) - 1 = n /\ n \in S
      BY <2>1, <2>2
    <3>. QED
      BY <3>1
  <2>. QED
    BY <2>1, <2>2
<1>3. T = Nat
  <2>. HIDE DEF T
  <2>. QED
    BY <1>1, <1>2, Induction
<1>. QED
  BY <1>3

\* f starts with a and goes on as h says, up to N.
Iterates(f, N, a, h) == f[0] = a /\ \A n \in 1 .. N : f[n] = h[<<f[n - 1], n>>]

\* A function on 0 .. N can be defined by its value at 0, and by its value at each other
\* number from the one before it.
LEMMA Iteration ==
  ASSUME NEW N \in Nat, NEW R, NEW a \in R, NEW h \in [R \X (1 .. N) -> R]
  PROVE  \E f \in [0 .. N -> R] : Iterates(f, N, a, h)
<1>. DEFINE Upto(f, k) == f[0] = a /\ \A n \in 1 .. k : f[n] = h[<<f[n - 1], n>>]
            S == {k \in 0 .. N : \E f \in [0 .. N -> R] : Upto(f, k)}
<1>1. 0 \in S
  <2>. DEFINE f == [n \in 0 .. N |-> a]
  <2>1. f \in [0 .. N -> R] /\ f[0] = a /\ 0 \in 0 .. N
    OBVIOUS
  <2>2. Upto(f, 0)
    BY <2>1
  <2>. HIDE DEF f, Upto
  <2>. QED
    BY <2>1, <2>2
<1>2. ASSUME NEW k \in 1 .. N, k - 1 \in S PROVE k \in S
  <2>1. PICK f \in [0 .. N -> R] : Upto(f, k - 1)
    BY <1>2
  <2>. DEFINE g == [f EXCEPT ![k] = h[<<f[k - 1], k>>]]
  <2>2. k - 1 \in 0 .. N /\ k \in 0 .. N /\ h[<<f[k - 1], k>>] \in R
    OBVIOUS
  <2>3. g \in [0 .. N -> R] /\ g[k] = h[<<f[k - 1], k>>] /\ \A n \in 0 .. N : n # k => g[n] = f[n]
    BY <2>2
  <2>. HIDE DEF g
  <2>4. g[0] = a
    BY <2>1, <2>3
  <2>5. ASSUME NEW n \in 1 .. k PROVE g[n] = h[<<g[n - 1], n>>]
    <3>1. n - 1 \in 0 .. N /\ n \in 0 .. N /\ n - 1 # k /\ g[n - 1] = f[n - 1]
      BY <2>3
    <3>2. CASE n = k
      BY <2>3, <3>1, <3>2
    <3>3. CASE n # k
      <4>1. n \in 1 .. k - 1
        BY <3>3
      <4>2. f[n] = h[<<f[n - 1], n>>]
        BY <2>1, <4>1
      <4>. QED
        BY <2>3, <3>1, <3>3, <4>2
    <3>. QED
      BY <3>2, <3>3
  <2>. QED
    BY <2>2, <2>3, <2>4, <2>5
<1>3. 0 .. N \subseteq S
  <2>. HIDE DEF S
  <2>. QED
    BY <1>1, <1>2, InductionUpto
<1>4. N \in S
  <2>. HIDE DEF S
  <2>. QED
    BY <1>3
<1>. QED
  BY <1>4 DEF Iterates

LEMMA BelowSuccessor == \A i, j \in Nat : i < j + 1 => i = j \/ i < j
  OBVIOUS

\* A step h of a recursion at point n looks only at what a function is at the points of
\* lower rank.
LooksBelow(D, R, rank, h) ==
    \A n \in D : \A f, g \in [D -> R] :
       (\A m \in D : rank[m] < rank[n] => f[m] = g[m]) => h[<<n, f>>] = h[<<n, g>>]

Solves(f, D, h) == \A n \in D : f[n] = h[<<n, f>>]

\* A function can be defined by what it is at each point, from what it is at the points of
\* lower rank.
LEMMA RecursionByRank ==
  ASSUME NEW D, NEW R, NEW c \in R, NEW bound \in Nat, NEW rank \in [D -> 0 .. bound],
         NEW h \in [D \X [D -> R] -> R], LooksBelow(D, R, rank, h)
  PROVE  \E f \in [D -> R] : Solves(f, D, h)
<1>. DEFINE Upto(k, f) == \A n \in D : rank[n] < k => f[n] = h[<<n, f>>]
            S == {k \in Nat : \E f \in [D -> R] : Upto(k, f)}
<1>1. 0 \in S
  <2>1. [n \in D |-> c] \in [D -> R] /\ \A n \in D : ~(rank[n] < 0)
    OBVIOUS
  <2>2. Upto(0, [n \in D |-> c])
    BY <2>1
  <2>. QED
    BY <2>1, <2>2
<1>2. ASSUME NEW k \in S PROVE k + 1 \in S
  <2>1. PICK f \in [D -> R] : Upto(k, f)
    OBVIOUS
  <2>. DEFINE g == [n \in D |-> IF rank[n] = k THEN h[<<n, f>>] ELSE f[n]]
  <2>2. g \in [D -> R]
    OBVIOUS
  <2>3. ASSUME NEW n \in D, rank[n] < k + 1 PROVE g[n] = h[<<n, g>>]
    <3>1. rank[n] \in Nat /\ k \in Nat /\ (rank[n] = k \/ rank[n] < k)
      <4>1. rank[n] \in Nat /\ k \in Nat
        OBVIOUS
      <4>. HIDE DEF S, Upto, g
      <4>. QED
        BY <2>3, <4>1, BelowSuccessor, Zenon
    <3>2. \A m \in D : rank[m] < rank[n] => g[m] = f[m]
      BY <3>1
    <3>3. h[<<n, g>>] = h[<<n, f>>]
      <4>. HIDE DEF g
      <4>. QED
        BY <2>2, <3>2 DEF LooksBelow
    <3>4. rank[n] = k => g[n] = h[<<n, f>>]
      OBVIOUS
    <3>5. rank[n] < k => g[n] = h[<<n, f>>]
      BY <2>1
    <3>. HIDE DEF g
    <3>. QED
      BY <3>1, <3>3, <3>4, <3>5
  <2>4. Upto(k + 1, g)
    BY <2>3
  <2>. HIDE DEF g, Upto
  <2>. QED
    BY <2>2, <2>4
<1>3. S = Nat
  <2>1. S \in SUBSET Nat
    OBVIOUS
  <2>. HIDE DEF S
  <2>. QED
    BY <1>1, <1>2, <2>1, Induction
<1>4. PICK f \in [D -> R] : Upto(bound + 1, f)
  <2>1. bound + 1 \in S
    <3>. HIDE DEF S
    <3>. QED
      BY <1>3
  <2>. QED
    BY <2>1
<1>5. \A n \in D : rank[n] < bound + 1
  OBVIOUS
<1>. QED
  BY <1>4, <1>5 DEF Solves

\* What holds for a number if it holds for all smaller ones holds for every number of a set.
LEMMA InductionBelow ==
  ASSUME NEW D \in SUBSET Nat, NEW S,
         \A n \in D : (\A m \in D : m < n => m \in S) => n \in S
  PROVE  D \subseteq S
<1>. SUFFICES ASSUME D \ S # {} PROVE FALSE
  OBVIOUS
<1>1. PICK n \in D \ S : \A k \in D \ S : n <= k
  BY LeastElement
<1>. QED
  BY <1>1

-----------------------------------------------------------------------------
(* Pieces of sequences. *)

\* The end of a sequence, from any element on.
LEMMA EndOfSequence ==
  ASSUME NEW S, NEW s \in Seq(S), NEW m \in 0 .. Len(s)
  PROVE  /\ SubSeq(s, m + 1, Len(s)) \in Seq(S)
         /\ Len(SubSeq(s, m + 1, Len(s))) = Len(s) - m
         /\ \A i \in 1 .. Len(s) - m : SubSeq(s, m + 1, Len(s))[i] = s[m + i]
<1>. DEFINE e == SubSeq(s, m + 1, Len(s))
<1>1. m \in Nat /\ Len(s) \in Nat /\ m <= Len(s)
  OBVIOUS
<1>2. /\ e \in Seq(S) /\ Len(e) = IF m + 1 <= Len(s) THEN Len(s) - (m + 1) + 1 ELSE 0
      /\ \A i \in 1 .. Len(s) - (m + 1) + 1 : e[i] = s[m + 1 + i - 1]
  BY <1>1, SubSeqProperties
<1>. HIDE DEF e
<1>3. e \in Seq(S) /\ Len(e) = Len(s) - m /\ \A i \in 1 .. Len(s) - m : e[i] = s[m + i]
  BY <1>1, <1>2
<1>. QED
  BY <1>3 DEF e

\* Its last element, and those before it.
LEMMA LastOfSequence ==
  ASSUME NEW S, NEW s \in Seq(S), s # <<>>
  PROVE  /\ SubSeq(s, 1, Len(s) - 1) \in Seq(S) /\ s[Len(s)] \in S
         /\ s = Append(SubSeq(s, 1, Len(s) - 1), s[Len(s)])
         /\ \A m \in 0 .. Len(s) - 1 :
              /\ SubSeq(s, m + 1, Len(s)) # <<>>
              /\ SubSeq(s, m + 1, Len(s))[Len(SubSeq(s, m + 1, Len(s)))] = s[Len(s)]
<1>1. ASSUME NEW m \in 0 .. Len(s) - 1
      PROVE  /\ SubSeq(s, m + 1, Len(s)) # <<>>
             /\ SubSeq(s, m + 1, Len(s))[Len(SubSeq(s, m + 1, Len(s)))] = s[Len(s)]
  <2>. DEFINE e == SubSeq(s, m + 1, Len(s))
  <2>1. m \in 0 .. Len(s) /\ Len(s) \in Nat \ {0}
    OBVIOUS
  <2>2. e \in Seq(S) /\ Len(e) = Len(s) - m /\ \A i \in 1 .. Len(s) - m : e[i] = s[m + i]
    BY <2>1, EndOfSequence, ZenonT(30)
  <2>. HIDE DEF e
  <2>3. e # <<>> /\ e[Len(e)] = s[Len(s)]
    BY <2>1, <2>2
  <2>. QED
    BY <2>3 DEF e
<1>2. /\ SubSeq(s, 1, Len(s) - 1) \in Seq(S) /\ s[Len(s)] \in S
      /\ s = Append(SubSeq(s, 1, Len(s) - 1), s[Len(s)])
  OBVIOUS
<1>. QED
  BY <1>1, <1>2

\* One element more.
LEMMA OneElementMore ==
  ASSUME NEW S, NEW s \in Seq(S), NEW m \in 0 .. Len(s), NEW t \in S
  PROVE  SubSeq(Append(s, t), m + 1, Len(Append(s, t))) = Append(SubSeq(s, m + 1, Len(s)), t)
<1>. DEFINE w == Append(s, t)
            d == SubSeq(w, m + 1, Len(w))
            e == SubSeq(s, m + 1, Len(s))
<1>1. m \in Nat /\ Len(s) \in Nat /\ m <= Len(s)
  OBVIOUS
<1>2. /\ w \in Seq(S) /\ Len(w) = Len(s) + 1 /\ w[Len(s) + 1] = t
      /\ \A i \in 1 .. Len(s) : w[i] = s[i]
  BY AppendProperties
<1>3. e \in Seq(S) /\ Len(e) = Len(s) - m /\ \A i \in 1 .. Len(s) - m : e[i] = s[m + i]
  BY EndOfSequence, ZenonT(30)
<1>. HIDE DEF w, e
<1>4. d \in Seq(S) /\ Len(d) = Len(w) - m /\ \A i \in 1 .. Len(w) - m : d[i] = w[m + i]
  <2>1. m \in 0 .. Len(w)
    BY <1>1, <1>2
  <2>. QED
    BY <1>2, <2>1, EndOfSequence, ZenonT(30)
<1>. HIDE DEF d
<1>. DEFINE g == Append(e, t)
<1>5. /\ g \in Seq(S) /\ Len(g) = Len(s) - m + 1
      /\ \A i \in 1 .. Len(s) - m : g[i] = s[m + i]
      /\ g[Len(s) - m + 1] = t
  BY <1>1, <1>3, AppendProperties
<1>. HIDE DEF g
<1>6. \A i \in 1 .. Len(s) - m + 1 : d[i] = g[i]
  BY <1>1, <1>2, <1>4, <1>5, SMTT(20)
<1>7. d = g
  <2>1. Len(d) = Len(g) /\ Len(d) = Len(s) - m + 1
    BY <1>1, <1>2, <1>4, <1>5
  <2>. QED
    BY <1>4, <1>5, <1>6, <2>1, SeqEqual
<1>. QED
  BY <1>7 DEF w, d, e, g
=============================================================================
