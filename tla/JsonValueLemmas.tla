-------------------------- MODULE JsonValueLemmas --------------------------
(***************************************************************************)
(* Facts about the operators of JsonValue, for the proofs about the modules*)
(* that use trees.                                                         *)
(***************************************************************************)
EXTENDS JsonValue, Inductions, FunctionTheorems

\* The set of all trees, for proofs: TLC cannot decide membership in it, and IsTree
\* says the same.
Trees ==
    {v \in UNION {[D -> Labels] : D \in SUBSET Seq(StepSet)} : IsFiniteSet(DOMAIN v)}

\* The set of trees and the predicate agree (the storage of any jsonv::value).
LEMMA TreesAreTrees == \A v : v \in Trees <=> IsTree(v)
  BY DEF Trees, IsTree

\* An array index and an object key are steps.
LEMMA StepTypes ==
  /\ \A i \in Nat : Index(i) \in StepSet
  /\ \A k \in Text : Key(k) \in StepSet
  BY DEF Index, Key, StepSet

\* A labelled root is a tree: null, a scalar, an empty array or object.
LEMMA LeafIsTree == ASSUME NEW l \in Labels PROVE Leaf(l) \in Trees
<1>1. DOMAIN Leaf(l) = {<<>>}
  BY DEF Leaf
<1>2. <<>> \in Seq(StepSet)
  BY EmptySeq
<1>3. IsFiniteSet({<<>>})
  BY FS_Singleton
<1>4. Leaf(l) \in [{<<>>} -> Labels]
  BY DEF Leaf
<1>. QED
  BY <1>1, <1>2, <1>3, <1>4, TreesAreTrees DEF IsTree

\* The constants that parse_generic, parse_array and parse_object start from.
LEMMA ConstantTrees ==
  /\ Null \in Trees /\ EmptyArray \in Trees /\ EmptyObject \in Trees
<1>1. /\ \A k \in ScalarKinds : \A c \in Text : Label(k, c) \in Labels
      /\ \A k \in ContainerKinds : Label(k, "") \in Labels
  BY DEF Label, Labels
<1>2. /\ Label("null", "") \in Labels
      /\ Label("array", "") \in Labels
      /\ Label("object", "") \in Labels
  BY <1>1 DEF ScalarKinds, ContainerKinds, Text
<1>. QED
  BY <1>2, LeafIsTree DEF Null, EmptyArray, EmptyObject

\* A node below a step: what it starts with and what is left of it.
LEMMA PrependStep ==
  ASSUME NEW s \in StepSet, NEW q \in Seq(StepSet)
  PROVE  /\ <<s>> \o q \in Seq(StepSet)
         /\ <<s>> \o q # <<>>
         /\ Head(<<s>> \o q) = s
         /\ Tail(<<s>> \o q) = q
<1>1. <<s>> \in Seq(StepSet) /\ Len(<<s>>) = 1
  OBVIOUS
<1>2. /\ <<s>> \o q \in Seq(StepSet)
      /\ Len(<<s>> \o q) = 1 + Len(q)
      /\ \A i \in 1 .. Len(q) : (<<s>> \o q)[i + 1] = q[i]
      /\ (<<s>> \o q)[1] = s
  BY <1>1, ConcatProperties
<1>3. <<s>> \o q # <<>>
  BY <1>2
<1>4. /\ Head(<<s>> \o q) = s
      /\ Tail(<<s>> \o q) \in Seq(StepSet)
      /\ Len(Tail(<<s>> \o q)) = Len(q)
      /\ \A i \in 1 .. Len(q) : Tail(<<s>> \o q)[i] = q[i]
  BY <1>2, <1>3, HeadTailProperties
<1>5. Tail(<<s>> \o q) = q
  BY <1>4, SeqEqual
<1>. QED
  BY <1>2, <1>3, <1>4, <1>5

\* A subtree has as many nodes below the step to it as by itself: finitely many.
LEMMA BelowIsFinite ==
  ASSUME NEW w \in Trees, NEW s \in StepSet
  PROVE  IsFiniteSet(Below(s, w))
<1>. DEFINE f == [q \in DOMAIN w |-> <<s>> \o q]
<1>1. f \in Surjection(DOMAIN w, Below(s, w))
  BY DEF Surjection, Below
<1>2. IsFiniteSet(DOMAIN w)
  BY DEF Trees
<1>. QED
  BY <1>1, <1>2, FS_Surjection

\* Putting a tree into another, in place of an element or as a new one, gives a tree
\* (value::push_back, object insertion and assignment to an element).
LEMMA PutIsTree ==
  ASSUME NEW v \in Trees, NEW w \in Trees, NEW s \in StepSet
  PROVE  Put(v, s, w) \in Trees
<1>. DEFINE kept == {p \in DOMAIN v : p = <<>> \/ Head(p) # s}
            D == kept \cup Below(s, w)
<1>1. /\ DOMAIN v \subseteq Seq(StepSet) /\ v \in [DOMAIN v -> Labels]
      /\ DOMAIN w \subseteq Seq(StepSet) /\ w \in [DOMAIN w -> Labels]
      /\ IsFiniteSet(DOMAIN v)
  BY TreesAreTrees DEF IsTree
<1>2. Below(s, w) \subseteq Seq(StepSet)
  BY <1>1, PrependStep DEF Below
<1>3. ASSUME NEW p \in Below(s, w) PROVE w[Tail(p)] \in Labels
  <2>1. PICK q \in DOMAIN w : p = <<s>> \o q
    BY DEF Below
  <2>. QED
    BY <1>1, <2>1, PrependStep
<1>4. D \subseteq Seq(StepSet)
  BY <1>1, <1>2
<1>5. IsFiniteSet(D)
  BY <1>1, BelowIsFinite, FS_Subset, FS_Union
<1>6. Put(v, s, w) = [p \in D |-> IF p \in kept THEN v[p] ELSE w[Tail(p)]]
  BY DEF Put
<1>7. \A p \in D : (IF p \in kept THEN v[p] ELSE w[Tail(p)]) \in Labels
  BY <1>1, <1>3
<1>8. Put(v, s, w) \in [D -> Labels] /\ DOMAIN Put(v, s, w) = D
  BY <1>6, <1>7
<1>. QED
  BY <1>4, <1>5, <1>8, TreesAreTrees DEF IsTree

\* The size of a container is a number.
LEMMA SizeIsNat == ASSUME NEW v \in Trees PROVE Size(v) \in Nat
<1>. DEFINE Q == {q \in DOMAIN v : Len(q) = 1}
            f == [p \in Q |-> p[1]]
<1>1. IsFiniteSet(Q)
  BY FS_Subset DEF Trees
<1>2. f \in Surjection(Q, Steps(v))
  BY DEF Surjection, Steps
<1>3. IsFiniteSet(Steps(v))
  BY <1>1, <1>2, FS_Surjection
<1>. QED
  BY <1>3, FS_CardinalityType DEF Size

\* What parse_array and parse_object do to the container they build.
LEMMA BuildingTrees ==
  ASSUME NEW v \in Trees, NEW w \in Trees
  PROVE  /\ PushBack(v, w) \in Trees
         /\ \A k \in Text : PutMember(v, k, w) \in Trees
  BY PutIsTree, SizeIsNat, StepTypes DEF PushBack, PutMember

-----------------------------------------------------------------------------
(* Well-formed trees. *)

\* A path without its last step.
LEMMA ParentSteps ==
  ASSUME NEW p \in Seq(StepSet), p # <<>>
  PROVE  /\ Parent(p) \in Seq(StepSet) /\ Len(Parent(p)) = Len(p) - 1
         /\ \A i \in 1 .. Len(p) - 1 : Parent(p)[i] = p[i]
<1>. DEFINE m == Len(p) - 1
<1>1. m \in Nat /\ Len(p) = m + 1
  BY LenProperties
<1>2. \A i \in 1 .. m : p[i] \in StepSet
  BY <1>1, ElementOfSeq
<1>. HIDE DEF m
<1>3. /\ SubSeq(p, 1, m) \in Seq(StepSet)
      /\ Len(SubSeq(p, 1, m)) = IF 1 <= m THEN m - 1 + 1 ELSE 0
      /\ \A i \in 1 .. m - 1 + 1 : SubSeq(p, 1, m)[i] = p[1 + i - 1]
  BY <1>1, <1>2, SubSeqProperties
<1>4. /\ SubSeq(p, 1, m) \in Seq(StepSet) /\ Len(SubSeq(p, 1, m)) = m
      /\ \A i \in 1 .. m : SubSeq(p, 1, m)[i] = p[i]
  BY <1>1, <1>3
<1>. QED
  BY <1>4 DEF Parent, m

\* A path, the one above it, and the step between them.
LEMMA LastStep ==
  ASSUME NEW p \in Seq(StepSet), p # <<>>
  PROVE  /\ Parent(p) \in Seq(StepSet) /\ Len(Parent(p)) = Len(p) - 1
         /\ p[Len(p)] \in StepSet
         /\ p = Append(Parent(p), p[Len(p)])
         /\ Len(p) = 1 => Parent(p) = <<>>
         /\ Parent(p) # <<>> => Head(Parent(p)) = Head(p)
         /\ \A x \in StepSet : Parent(p) # <<>> => Head(Append(Parent(p), x)) = Head(p)
<1>. DEFINE n == Len(p)
<1>1. n \in Nat \ {0} /\ \A i \in 1 .. n : p[i] \in StepSet
  BY LenProperties, ElementOfSeq
<1>2. /\ Parent(p) \in Seq(StepSet) /\ Len(Parent(p)) = n - 1
      /\ \A i \in 1 .. n - 1 : Parent(p)[i] = p[i]
  BY ParentSteps
<1>3. p = Append(Parent(p), p[n])
  <2>1. /\ Append(Parent(p), p[n]) \in Seq(StepSet)
        /\ Len(Append(Parent(p), p[n])) = n
        /\ \A i \in 1 .. n - 1 : Append(Parent(p), p[n])[i] = p[i]
        /\ Append(Parent(p), p[n])[n] = p[n]
    BY <1>1, <1>2, AppendProperties
  <2>2. \A i \in 1 .. n : Append(Parent(p), p[n])[i] = p[i]
    BY <1>1, <2>1
  <2>. QED
    BY <1>1, <2>1, <2>2, SeqEqual
<1>4. ASSUME n = 1 PROVE Parent(p) = <<>>
  BY <1>2, <1>4
<1>5. ASSUME Parent(p) # <<>> PROVE Head(Parent(p)) = Head(p)
  BY <1>1, <1>2, <1>5
<1>6. ASSUME NEW x \in StepSet, Parent(p) # <<>>
      PROVE  Head(Append(Parent(p), x)) = Head(p)
  BY <1>2, <1>5, <1>6, HeadTailAppend
<1>. QED
  BY <1>1, <1>2, <1>3, <1>4, <1>5, <1>6

\* The same below a step.
LEMMA LastStepBelow ==
  ASSUME NEW s \in StepSet, NEW q \in Seq(StepSet)
  PROVE  /\ q = <<>> => /\ Parent(<<s>> \o q) = <<>>
                        /\ Len(<<s>> \o q) = 1 /\ (<<s>> \o q)[1] = s
         /\ q # <<>> => /\ Parent(<<s>> \o q) = <<s>> \o Parent(q)
                        /\ (<<s>> \o q)[Len(<<s>> \o q)] = q[Len(q)]
                        /\ \A x \in StepSet :
                             Append(Parent(<<s>> \o q), x) = <<s>> \o Append(Parent(q), x)
<1>. DEFINE p == <<s>> \o q
            n == Len(q)
<1>1. <<s>> \in Seq(StepSet) /\ Len(<<s>>) = 1
  OBVIOUS
<1>2. /\ p \in Seq(StepSet) /\ Len(p) = n + 1 /\ n \in Nat
      /\ p[1] = s /\ \A i \in 1 .. n : p[i + 1] = q[i]
  BY <1>1, ConcatProperties
<1>3. p # <<>>
  BY <1>2
<1>4. /\ Parent(p) \in Seq(StepSet) /\ Len(Parent(p)) = n
      /\ \A i \in 1 .. n : Parent(p)[i] = p[i]
  BY <1>2, SubSeqProperties, ElementOfSeq DEF Parent
<1>5. ASSUME q = <<>> PROVE Parent(p) = <<>> /\ Len(p) = 1 /\ p[1] = s
  BY <1>2, <1>4, <1>5
<1>6. ASSUME q # <<>>
      PROVE  /\ Parent(p) = <<s>> \o Parent(q)
             /\ p[Len(p)] = q[n]
             /\ \A x \in StepSet : Append(Parent(p), x) = <<s>> \o Append(Parent(q), x)
  <2>1. n \in Nat \ {0}
    BY <1>2, <1>6
  <2>2. /\ Parent(q) \in Seq(StepSet) /\ Len(Parent(q)) = n - 1
        /\ \A i \in 1 .. n - 1 : Parent(q)[i] = q[i]
    BY <1>6, ParentSteps
  <2>3. /\ <<s>> \o Parent(q) \in Seq(StepSet) /\ Len(<<s>> \o Parent(q)) = n
        /\ (<<s>> \o Parent(q))[1] = s
        /\ \A i \in 1 .. n - 1 : (<<s>> \o Parent(q))[i + 1] = q[i]
    BY <1>1, <2>1, <2>2, ConcatProperties
  <2>4. \A i \in 1 .. n : Parent(p)[i] = (<<s>> \o Parent(q))[i]
    <3>1. SUFFICES ASSUME NEW i \in 1 .. n PROVE Parent(p)[i] = (<<s>> \o Parent(q))[i]
      OBVIOUS
    <3>2. CASE i = 1
      BY <1>2, <1>4, <2>1, <2>3, <3>2
    <3>3. CASE i # 1
      <4>1. i - 1 \in 1 .. n - 1 /\ (i - 1) + 1 = i
        BY <3>3
      <4>2. p[i] = q[i - 1]
        BY <1>2, <4>1
      <4>3. (<<s>> \o Parent(q))[i] = q[i - 1]
        BY <2>3, <4>1
      <4>. QED
        BY <1>4, <4>2, <4>3
    <3>. QED
      BY <3>2, <3>3
  <2>5. Parent(p) = <<s>> \o Parent(q)
    BY <1>4, <2>3, <2>4, SeqEqual
  <2>6. p[Len(p)] = q[n]
    BY <1>2, <2>1
  <2>7. ASSUME NEW x \in StepSet
        PROVE  Append(<<s>> \o Parent(q), x) = <<s>> \o Append(Parent(q), x)
    <3>1. /\ Append(<<s>> \o Parent(q), x) = (<<s>> \o Parent(q)) \o <<x>>
          /\ Append(Parent(q), x) = Parent(q) \o <<x>>
      BY <2>2, <2>3, AppendIsConcat
    <3>2. <<x>> \in Seq(StepSet)
      OBVIOUS
    <3>3. (<<s>> \o Parent(q)) \o <<x>> = <<s>> \o (Parent(q) \o <<x>>)
      BY <1>1, <2>2, <3>2, ConcatAssociative
    <3>. QED
      BY <3>1, <3>3
  <2>. QED
    BY <2>5, <2>6, <2>7
<1>. QED
  BY <1>5, <1>6

\* A labelled root is well-formed.
LEMMA LeafIsWellFormed ==
  ASSUME NEW l \in Labels
  PROVE  WellFormed(Leaf(l)) /\ KindOf(Leaf(l)) = l.kind
  BY LeafIsTree, TreesAreTrees DEF WellFormed, Leaf, KindOf

LEMMA ConstantsAreWellFormed ==
  /\ WellFormed(Null)
  /\ WellFormed(EmptyArray) /\ KindOf(EmptyArray) = "array"
  /\ WellFormed(EmptyObject) /\ KindOf(EmptyObject) = "object"
<1>1. /\ Label("null", "") \in Labels
      /\ Label("array", "") \in Labels /\ Label("array", "").kind = "array"
      /\ Label("object", "") \in Labels /\ Label("object", "").kind = "object"
  BY DEF Label, Labels, ScalarKinds, ContainerKinds, Text
<1>. QED
  BY <1>1, LeafIsWellFormed DEF Null, EmptyArray, EmptyObject

\* The elements of a well-formed array have the indices 0 .. size - 1, and no other step
\* leaves it.
LEMMA ArraySteps ==
  ASSUME NEW v, WellFormed(v), KindOf(v) = "array"
  PROVE  /\ Size(v) \in Nat
         /\ \A i \in Nat : <<Index(i)>> \in DOMAIN v <=> i < Size(v)
<1>. DEFINE I == {i \in Nat : <<Index(i)>> \in DOMAIN v}
            f == [i \in I |-> Index(i)]
            g == [i \in I |-> <<Index(i)>>]
<1>1. DOMAIN v \subseteq Seq(StepSet) /\ IsFiniteSet(DOMAIN v)
  BY DEF WellFormed, IsTree
<1>2. \A i, j \in Nat : Index(i) = Index(j) => i = j
  BY DEF Index
<1>3. IsFiniteSet(I)
  <2>1. g \in Injection(I, DOMAIN v)
    BY <1>2 DEF Injection, IsInjective
  <2>. QED
    BY <1>1, <2>1, FS_Injection
<1>4. ASSUME NEW i \in I, i > 0 PROVE i - 1 \in I
  <2>1. <<Index(i)>> \in DOMAIN v \ {<<>>} /\ Len(<<Index(i)>>) = 1
    OBVIOUS
  <2>2. Parent(<<Index(i)>>) = <<>>
    BY <1>1, <2>1, LastStep
  <2>3. Append(<<>>, Index(i - 1)) \in DOMAIN v
    BY <1>4, <2>1, <2>2 DEF WellFormed, KindOf, Index
  <2>. QED
    BY <1>4, <2>3
<1>5. \A s \in Steps(v) : \E i \in I : s = Index(i)
  <2>1. SUFFICES ASSUME NEW q \in DOMAIN v, Len(q) = 1
                 PROVE  \E i \in I : q[1] = Index(i)
    BY DEF Steps
  <2>2. q \in Seq(StepSet) /\ q # <<>> /\ q[1] \in StepSet /\ q = <<q[1]>>
    <3>1. q \in Seq(StepSet) /\ q # <<>> /\ q[1] \in StepSet
      BY <1>1, <2>1, ElementOfSeq, SMTT(20)
    <3>2. <<q[1]>> \in Seq(StepSet) /\ Len(<<q[1]>>) = 1 /\ <<q[1]>>[1] = q[1]
      BY <3>1
    <3>3. \A i \in 1 .. Len(q) : q[i] = <<q[1]>>[i]
      BY <2>1
    <3>4. q = <<q[1]>>
      BY <2>1, <3>1, <3>2, <3>3, SeqEqual
    <3>. QED
      BY <3>1, <3>4
  <2>3. Parent(q) = <<>>
    BY <2>1, <2>2, LastStep
  <2>4. q[1][1] = "index"
    BY <2>1, <2>2, <2>3 DEF WellFormed, KindOf
  <2>5. PICK i \in Nat : q[1] = Index(i)
    BY <2>2, <2>4 DEF StepSet, Index
  <2>. QED
    BY <2>2, <2>5
<1>6. \A i \in I : Index(i) \in Steps(v)
  <2>1. SUFFICES ASSUME NEW i \in I PROVE \E q \in DOMAIN v : Len(q) = 1 /\ q[1] = Index(i)
    BY DEF Steps
  <2>. WITNESS <<Index(i)>> \in DOMAIN v
  <2>. QED
    OBVIOUS
<1>7. f \in Surjection(I, Steps(v)) /\ f \in Injection(I, Steps(v))
  <2>. HIDE DEF I
  <2>1. f \in [I -> Steps(v)]
    BY <1>6
  <2>2. IsInjective(f)
    <3>1. \A i \in I : i \in Nat
      BY DEF I
    <3>. QED
      BY <1>2, <3>1 DEF IsInjective
  <2>3. \A s \in Steps(v) : \E i \in I : f[i] = s
    BY <1>5
  <2>. QED
    BY <2>1, <2>2, <2>3 DEF Surjection, Injection
<1>8. Size(v) = Cardinality(I)
  BY <1>3, <1>7, FS_Surjection DEF Size
<1>9. Cardinality(I) \in Nat /\ I = 0 .. Cardinality(I) - 1
  <2>1. I \in SUBSET Nat
    OBVIOUS
  <2>. HIDE DEF I
  <2>. QED
    BY <1>3, <1>4, <2>1, FiniteInitialSegment
<1>10. ASSUME NEW i \in Nat PROVE <<Index(i)>> \in DOMAIN v <=> i < Size(v)
  <2>1. <<Index(i)>> \in DOMAIN v <=> i \in I
    OBVIOUS
  <2>. HIDE DEF I
  <2>. QED
    BY <1>8, <1>9, <2>1
<1>. QED
  BY <1>8, <1>9, <1>10

\* Where the elements of a container may be put so that it stays well-formed.
Fits(v, s) ==
    \/ KindOf(v) = "object" /\ \E k \in Text : s = Key(k)
    \/ KindOf(v) = "array" /\ s = Index(Size(v))

\* A tree put into a container it fits in: what parse_array and parse_object build stays
\* well-formed.
LEMMA PutIsWellFormed ==
  ASSUME NEW v, NEW w, NEW s, WellFormed(v), WellFormed(w), Fits(v, s)
  PROVE  WellFormed(Put(v, s, w)) /\ KindOf(Put(v, s, w)) = KindOf(v)
<1>. DEFINE u == Put(v, s, w)
            kept == {p \in DOMAIN v : p = <<>> \/ Head(p) # s}
<1>1. /\ v \in Trees /\ w \in Trees
      /\ DOMAIN v \subseteq Seq(StepSet) /\ DOMAIN w \subseteq Seq(StepSet)
  BY TreesAreTrees DEF WellFormed, IsTree
<1>2. s \in StepSet
  <2>1. CASE KindOf(v) = "object" /\ \E k \in Text : s = Key(k)
    BY <2>1, StepTypes
  <2>2. CASE KindOf(v) = "array" /\ s = Index(Size(v))
    BY <2>2, ArraySteps, StepTypes
  <2>. QED
    BY <2>1, <2>2 DEF Fits
<1>3. u \in Trees /\ IsTree(u)
  BY <1>1, <1>2, PutIsTree, TreesAreTrees
<1>4. /\ DOMAIN u = kept \cup Below(s, w)
      /\ \A p \in kept : u[p] = v[p]
      /\ \A p \in DOMAIN u \ kept : u[p] = w[Tail(p)]
  BY DEF Put
<1>5. ASSUME NEW q \in DOMAIN w
      PROVE  <<s>> \o q \in DOMAIN u /\ u[<<s>> \o q] = w[q]
  <2>1. /\ <<s>> \o q # <<>> /\ Head(<<s>> \o q) = s /\ Tail(<<s>> \o q) = q
    BY <1>1, <1>2, PrependStep
  <2>2. <<s>> \o q \in DOMAIN u \ kept
    BY <1>4, <2>1 DEF Below
  <2>. QED
    BY <1>4, <2>1, <2>2
<1>6. <<>> \in DOMAIN u /\ <<>> \in kept /\ u[<<>>] = v[<<>>]
  BY <1>4 DEF WellFormed
<1>. HIDE DEF u
<1>7. ASSUME NEW p \in kept \ {<<>>}
      PROVE  /\ Parent(p) \in DOMAIN u
             /\ \/ u[Parent(p)].kind = "object" /\ p[Len(p)][1] = "key"
                \/ /\ u[Parent(p)].kind = "array"
                   /\ p[Len(p)][1] = "index"
                   /\ p[Len(p)][2] > 0 =>
                        Append(Parent(p), Index(p[Len(p)][2] - 1)) \in DOMAIN u
  <2>. DEFINE last == p[Len(p)]
  <2>1. p \in Seq(StepSet) /\ p # <<>> /\ Head(p) # s /\ p \in DOMAIN v
    BY <1>1
  <2>2. /\ last \in StepSet
        /\ Parent(p) # <<>> => Head(Parent(p)) = Head(p)
        /\ \A x \in StepSet : Parent(p) # <<>> => Head(Append(Parent(p), x)) = Head(p)
    BY <2>1, LastStep
  <2>3. Parent(p) \in kept
    BY <2>1, <2>2 DEF WellFormed
  <2>4. Parent(p) \in DOMAIN u /\ u[Parent(p)] = v[Parent(p)]
    BY <1>4, <2>3
  <2>5. CASE v[Parent(p)].kind = "object" /\ last[1] = "key"
    BY <2>4, <2>5
  <2>6. CASE /\ v[Parent(p)].kind = "array" /\ last[1] = "index"
             /\ last[2] > 0 => Append(Parent(p), Index(last[2] - 1)) \in DOMAIN v
    <3>1. SUFFICES ASSUME last[2] > 0
                   PROVE  Append(Parent(p), Index(last[2] - 1)) \in DOMAIN u
      BY <2>4, <2>6
    <3>. DEFINE sibling == Append(Parent(p), Index(last[2] - 1))
    <3>2. sibling \in DOMAIN v
      BY <2>6, <3>1
    <3>3. last[2] \in Nat /\ last[2] - 1 \in Nat /\ Index(last[2] - 1) \in StepSet
      BY <2>2, <2>6, <3>1, StepTypes DEF StepSet
    <3>4. CASE Parent(p) # <<>>
      <4>1. Head(sibling) = Head(p)
        BY <2>2, <3>3, <3>4
      <4>. QED
        BY <1>4, <2>1, <3>2, <4>1
    <3>5. CASE Parent(p) = <<>>
      <4>1. KindOf(v) = "array" /\ s = Index(Size(v))
        BY <2>6, <3>5 DEF KindOf, Fits
      <4>2. sibling = <<Index(last[2] - 1)>>
        BY <3>5
      <4>3. last[2] - 1 < Size(v) /\ Size(v) \in Nat
        BY <3>2, <3>3, <4>1, <4>2, ArraySteps
      <4>4. Index(last[2] - 1) # s
        BY <4>1, <4>3 DEF Index
      <4>. QED
        BY <1>4, <3>2, <4>2, <4>4
    <3>. QED
      BY <3>4, <3>5
  <2>. QED
    BY <2>1, <2>5, <2>6 DEF WellFormed
<1>8. ASSUME NEW q \in DOMAIN w, NEW p, p = <<s>> \o q
      PROVE  /\ Parent(p) \in DOMAIN u
             /\ \/ u[Parent(p)].kind = "object" /\ p[Len(p)][1] = "key"
                \/ /\ u[Parent(p)].kind = "array"
                   /\ p[Len(p)][1] = "index"
                   /\ p[Len(p)][2] > 0 =>
                        Append(Parent(p), Index(p[Len(p)][2] - 1)) \in DOMAIN u
  <2>1. q \in Seq(StepSet)
    BY <1>1
  <2>2. CASE q = <<>>
    <3>1. Parent(p) = <<>> /\ Len(p) = 1 /\ p[1] = s
      BY <1>2, <1>8, <2>1, <2>2, LastStepBelow
    <3>2. CASE KindOf(v) = "object" /\ \E k \in Text : s = Key(k)
      BY <1>6, <3>1, <3>2 DEF KindOf, Key
    <3>3. CASE KindOf(v) = "array" /\ s = Index(Size(v))
      <4>1. Size(v) \in Nat /\ s[1] = "index" /\ s[2] = Size(v)
        BY <3>3, ArraySteps DEF Index
      <4>2. ASSUME Size(v) > 0 PROVE <<Index(Size(v) - 1)>> \in DOMAIN u
        <5>1. <<Index(Size(v) - 1)>> \in DOMAIN v
          BY <3>3, <4>1, <4>2, ArraySteps
        <5>2. Index(Size(v) - 1) # s
          BY <3>3, <4>1 DEF Index
        <5>. QED
          BY <1>4, <5>1, <5>2
      <4>3. p[Len(p)] = s
        BY <3>1
      <4>. QED
        BY <1>6, <3>1, <3>3, <4>1, <4>2, <4>3 DEF KindOf
    <3>. QED
      BY <3>2, <3>3 DEF Fits
  <2>3. CASE q # <<>>
    <3>. DEFINE last == q[Len(q)]
    <3>1. /\ Parent(p) = <<s>> \o Parent(q) /\ p[Len(p)] = last
          /\ \A x \in StepSet : Append(Parent(p), x) = <<s>> \o Append(Parent(q), x)
      BY <1>2, <1>8, <2>1, <2>3, LastStepBelow
    <3>2. Parent(q) \in DOMAIN w
      BY <2>3 DEF WellFormed
    <3>3. Parent(p) \in DOMAIN u /\ u[Parent(p)] = w[Parent(q)]
      BY <1>5, <3>1, <3>2
    <3>4. CASE w[Parent(q)].kind = "object" /\ last[1] = "key"
      BY <3>1, <3>3, <3>4
    <3>5. CASE /\ w[Parent(q)].kind = "array" /\ last[1] = "index"
               /\ last[2] > 0 => Append(Parent(q), Index(last[2] - 1)) \in DOMAIN w
      <4>1. SUFFICES ASSUME last[2] > 0
                     PROVE  Append(Parent(p), Index(last[2] - 1)) \in DOMAIN u
        BY <3>1, <3>3, <3>5
      <4>2. last \in StepSet
        BY <2>1, <2>3, LastStep
      <4>3. last[2] - 1 \in Nat /\ Index(last[2] - 1) \in StepSet
        BY <3>5, <4>1, <4>2, StepTypes DEF StepSet
      <4>. QED
        BY <1>5, <3>1, <3>5, <4>1, <4>3
    <3>. QED
      BY <2>3, <3>4, <3>5 DEF WellFormed
  <2>. QED
    BY <2>2, <2>3
<1>9. \A p \in DOMAIN u \ {<<>>} :
        p \in kept \ {<<>>} \/ \E q \in DOMAIN w : p = <<s>> \o q
  BY <1>4 DEF Below
<1>10. WellFormed(u)
  <2>. HIDE DEF kept
  <2>. QED
    BY <1>3, <1>6, <1>7, <1>8, <1>9 DEF WellFormed
<1>. QED
  BY <1>6, <1>10 DEF u, KindOf

\* push_back to an array, and insertion or replacement of a member of an object.
LEMMA BuildingIsWellFormed ==
  ASSUME NEW v, NEW w, WellFormed(v), WellFormed(w)
  PROVE  /\ KindOf(v) = "array" =>
              WellFormed(PushBack(v, w)) /\ KindOf(PushBack(v, w)) = "array"
         /\ KindOf(v) = "object" => \A k \in Text :
              WellFormed(PutMember(v, k, w)) /\ KindOf(PutMember(v, k, w)) = "object"
  BY PutIsWellFormed DEF PushBack, PutMember, Fits

\* What is above a node of a value is a node of it.
LEMMA NodeAbove ==
  ASSUME NEW v, WellFormed(v), NEW p \in Seq(StepSet), NEW t \in Seq(StepSet), p \o t \in DOMAIN v
  PROVE  p \in DOMAIN v
<1>. DEFINE T == {n \in Nat : \E r \in Seq(StepSet) : Len(r) = n /\ p \o r \in DOMAIN v}
<1>1. T \in SUBSET Nat /\ T # {}
  <2>1. Len(t) \in Nat
    BY LenProperties
  <2>. QED
    BY <2>1
<1>2. PICK m \in T : \A k \in T : m <= k
  <2>. HIDE DEF T
  <2>. QED
    BY <1>1, LeastElement
<1>3. PICK r \in Seq(StepSet) : Len(r) = m /\ p \o r \in DOMAIN v
  OBVIOUS
<1>4. CASE r = <<>>
  BY <1>3, <1>4, ConcatEmptySeq
<1>5. CASE r # <<>>
  <2>. DEFINE q == p \o r
              y == Parent(r)
              x == r[Len(r)]
  <2>1. y \in Seq(StepSet) /\ Len(y) = m - 1 /\ x \in StepSet /\ r = Append(y, x)
    BY <1>3, <1>5, LastStep
  <2>. HIDE DEF y, x
  <2>2. p \o y \in Seq(StepSet) /\ q = Append(p \o y, x)
    <3>1. p \o y \in Seq(StepSet) /\ <<x>> \in Seq(StepSet)
      BY <2>1, ConcatProperties
    <3>2. r = y \o <<x>> /\ Append(p \o y, x) = (p \o y) \o <<x>>
      BY <2>1, <3>1, AppendIsConcat
    <3>3. (p \o y) \o <<x>> = p \o (y \o <<x>>)
      BY <2>1, <3>1, ConcatAssociative, SMTT(20)
    <3>. QED
      BY <3>1, <3>2, <3>3
  <2>. DEFINE z == p \o y
  <2>3. q \in Seq(StepSet) /\ q # <<>>
    BY <2>1, <2>2, AppendProperties
  <2>. HIDE DEF q
  <2>4. Parent(q) = p \o y
    <3>. DEFINE a == Parent(q)
                b == q[Len(q)]
    <3>1. a \in Seq(StepSet) /\ b \in StepSet /\ q = Append(a, b)
      BY <2>3, LastStep
    <3>2. z \in Seq(StepSet) /\ q = Append(z, x)
      BY <2>2
    <3>. HIDE DEF a, b, z
    <3>3. Append(a, b) = Append(z, x) /\ x \in StepSet
      BY <2>1, <3>1, <3>2
    <3>4. a = z
      BY <3>1, <3>2, <3>3, AppendInjective, SMTT(20)
    <3>. QED
      BY <3>4 DEF a, z
  <2>5. p \o y \in DOMAIN v
    BY <1>3, <2>3, <2>4 DEF WellFormed, q
  <2>6. m - 1 \in T
    <3>1. Len(y) \in Nat
      BY <2>1, LenProperties
    <3>. QED
      BY <2>1, <2>5, <3>1
  <2>7. m - 1 < m
    BY <1>1
  <2>. HIDE DEF T
  <2>. QED
    BY <1>1, <1>2, <2>6, <2>7
<1>. QED
  BY <1>4, <1>5
=============================================================================
