---------------------------- MODULE ValuesProofs ----------------------------
(***************************************************************************)
(* Proofs about Values: whatever the program calls, every value stays      *)
(* well-formed, a call that fails changes nothing, path makes what it is   *)
(* asked for and loses nothing, and what is moved is neither lost nor      *)
(* doubled.                                                                *)
(***************************************************************************)
EXTENDS Values, JsonValueLemmas

-----------------------------------------------------------------------------
(* Paths *)

Nodes == Seq(StepSet)

\* A node below p is p with a path behind it, which is what is left of it without p.
LEMMA AboveMeansBelow ==
  ASSUME NEW p \in Nodes, NEW r \in Nodes
  PROVE  /\ p \o r \in Nodes /\ Len(p \o r) = Len(p) + Len(r)
         /\ Above(p, p \o r)
         /\ SubSeq(p \o r, Len(p) + 1, Len(p \o r)) = r
<1>. DEFINE q == p \o r
            m == Len(p)
            n == Len(r)
            rest == SubSeq(q, m + 1, Len(q))
            top == SubSeq(p, 1, m)
            up == SubSeq(q, 1, m)
<1>1. /\ q \in Nodes /\ Len(q) = m + n /\ m \in Nat /\ n \in Nat
      /\ \A i \in 1 .. m + n : q[i] = IF i <= m THEN p[i] ELSE r[i - m]
      /\ \A i \in 1 .. m : p[i] \in StepSet
      /\ \A i \in 1 .. n : r[i] \in StepSet
  BY ConcatProperties, LenProperties, ElementOfSeq DEF Nodes
<1>. HIDE DEF q, m, n
<1>2. \A i \in 1 .. m : q[i] = p[i]
  BY <1>1
<1>3. \A i \in 1 .. n : q[m + i] = r[i]
  <2>. SUFFICES ASSUME NEW i \in 1 .. n PROVE q[m + i] = r[i]
    OBVIOUS
  <2>1. m + i \in 1 .. m + n /\ ~(m + i <= m) /\ m + i - m = i
    BY <1>1
  <2>. QED
    BY <1>1, <2>1
<1>4. /\ top \in Nodes /\ Len(top) = m /\ \A i \in 1 .. m : top[i] = p[i]
      /\ up \in Nodes /\ Len(up) = m /\ \A i \in 1 .. m : up[i] = p[i]
  BY <1>1, <1>2, SubSeqProperties DEF Nodes
<1>5. top = up
  <2>. HIDE DEF top, up
  <2>. QED
    BY <1>4, SeqEqual DEF Nodes
<1>6. \A i \in m + 1 .. m + n : q[i] \in StepSet
  BY <1>1
<1>7. /\ rest \in Nodes /\ Len(rest) = n /\ \A i \in 1 .. n : rest[i] = r[i]
  <2>1. /\ rest \in Nodes /\ Len(rest) = IF m + 1 <= m + n THEN m + n - (m + 1) + 1 ELSE 0
        /\ \A i \in 1 .. m + n - (m + 1) + 1 : rest[i] = q[m + 1 + i - 1]
    BY <1>1, <1>6, SubSeqProperties DEF Nodes
  <2>. HIDE DEF rest
  <2>2. Len(rest) = n /\ m + n - (m + 1) + 1 = n
    BY <1>1, <2>1
  <2>3. \A i \in 1 .. n : rest[i] = q[m + 1 + i - 1] /\ m + 1 + i - 1 = m + i
    BY <1>1, <2>1, <2>2
  <2>. QED
    BY <1>3, <2>1, <2>2, <2>3
<1>8. rest = r
  <2>. HIDE DEF rest
  <2>1. r \in Nodes /\ Len(r) = n
    BY DEF n
  <2>. QED
    BY <1>7, <2>1, SeqEqual DEF Nodes
<1>9. m <= m + n
  BY <1>1
<1>. QED
  BY <1>1, <1>5, <1>8, <1>9 DEF Above, IsPrefix, q, m, n

\* And the other way round.
LEMMA BelowMeansAbove ==
  ASSUME NEW p \in Nodes, NEW q \in Nodes, Above(p, q)
  PROVE  \E r \in Nodes : q = p \o r
<1>. DEFINE m == Len(p)
            n == Len(q)
            r == SubSeq(q, m + 1, n)
<1>1. /\ m \in Nat /\ n \in Nat /\ m <= n
      /\ SubSeq(p, 1, m) = SubSeq(q, 1, m)
  BY LenProperties DEF Nodes, Above, IsPrefix
<1>2. m + 1 - 1 = m /\ m \in 1 - 1 .. n /\ n \in m .. n /\ 1 \in 1 .. n + 1
  BY <1>1
<1>3. SubSeq(q, 1, m) \o SubSeq(q, m + 1, n) = SubSeq(q, 1, n)
  BY <1>2, ConcatAdjacentSubSeq DEF Nodes
<1>4. SubSeq(q, 1, n) = q /\ SubSeq(p, 1, m) = p
  BY SubSeqFull DEF Nodes
<1>5. \A i \in m + 1 .. n : q[i] \in StepSet
  BY <1>1, ElementOfSeq DEF Nodes
<1>6. r \in Nodes
  BY <1>1, <1>5, SubSeqProperties DEF Nodes
<1>. QED
  BY <1>1, <1>3, <1>4, <1>6

\* Paths that are made in the same way are made of the same.
LEMMA SameEnds ==
  \A s, t \in Nodes : \A x, y \in StepSet : Append(s, x) = Append(t, y) => s = t /\ x = y
<1>. TAKE s, t \in Nodes
<1>. TAKE x, y \in StepSet
<1>. QED
  BY AppendInjective DEF Nodes

\* A path without its last step, below a node.
LEMMA ParentBelow ==
  ASSUME NEW p \in Nodes, NEW r \in Nodes, r # <<>>
  PROVE  /\ p \o r # <<>> /\ Parent(r) \in Nodes /\ Parent(p \o r) = p \o Parent(r)
         /\ (p \o r)[Len(p \o r)] = r[Len(r)]
         /\ \A x \in StepSet : Append(Parent(p \o r), x) = p \o Append(Parent(r), x)
<1>1. /\ Parent(r) \in Nodes /\ r[Len(r)] \in StepSet
      /\ r = Append(Parent(r), r[Len(r)])
  BY LastStep DEF Nodes
<1>2. p \o Parent(r) \in Nodes
  BY <1>1, ConcatProperties DEF Nodes
<1>3. ASSUME NEW x \in StepSet
      PROVE  Append(p \o Parent(r), x) = p \o Append(Parent(r), x)
  <2>1. <<x>> \in Nodes
    BY DEF Nodes
  <2>2. Append(Parent(r), x) = Parent(r) \o <<x>>
    BY <1>1, AppendIsConcat, ZenonT(30) DEF Nodes
  <2>3. Append(p \o Parent(r), x) = (p \o Parent(r)) \o <<x>>
    BY <1>2, AppendIsConcat, ZenonT(30) DEF Nodes
  <2>4. (p \o Parent(r)) \o <<x>> = p \o (Parent(r) \o <<x>>)
    BY <1>1, <2>1, ConcatAssociative, SMTT(20) DEF Nodes
  <2>. QED
    BY <2>2, <2>3, <2>4
<1>. DEFINE q == p \o r
<1>4. q = Append(p \o Parent(r), r[Len(r)])
  BY <1>1, <1>3, Zenon
<1>5. q \in Nodes /\ q # <<>>
  <2>1. q \in Nodes
    BY AboveMeansBelow
  <2>. QED
    BY <2>1, ConcatEqualIffEmpty DEF Nodes
<1>. HIDE DEF q
<1>6. /\ Parent(q) \in Nodes /\ q[Len(q)] \in StepSet
      /\ q = Append(Parent(q), q[Len(q)])
  BY <1>5, LastStep DEF Nodes
<1>7. Parent(q) = p \o Parent(r) /\ q[Len(q)] = r[Len(r)]
  <2>. DEFINE s == Parent(q)
              x == q[Len(q)]
              t == p \o Parent(r)
              y == r[Len(r)]
  <2>1. s \in Nodes /\ t \in Nodes /\ x \in StepSet /\ y \in StepSet
    BY <1>1, <1>2, <1>6
  <2>2. Append(s, x) = Append(t, y)
    BY <1>4, <1>6
  <2>. HIDE DEF s, x, t, y
  <2>3. s = t /\ x = y
    BY <2>1, <2>2, SameEnds
  <2>. QED
    BY <2>3 DEF s, x, t, y
<1>. QED
  BY <1>1, <1>3, <1>5, <1>7 DEF q

\* What is beside a node p has nothing below p but, it may be, p itself.
LEMMA Beside ==
  ASSUME NEW p \in Nodes, NEW s \in Nodes, NEW x \in StepSet, ~Above(p, s),
         Above(p, Append(s, x))
  PROVE  p = Append(s, x)
<1>1. Append(s, x) \in Nodes
  BY AppendProperties DEF Nodes
<1>2. PICK r \in Nodes : Append(s, x) = p \o r
  BY <1>1, BelowMeansAbove
<1>3. CASE r = <<>>
  BY <1>2, <1>3, ConcatEmptySeq DEF Nodes
<1>4. CASE r # <<>>
  <2>. DEFINE q == Append(s, x)
  <2>1. q \in Nodes /\ q # <<>> /\ Len(q) = Len(s) + 1 /\ q[Len(s) + 1] = x
    BY AppendProperties DEF Nodes
  <2>2. Parent(q) \in Nodes /\ q[Len(q)] \in StepSet /\ q = Append(Parent(q), q[Len(q)])
    <3>. HIDE DEF q
    <3>. QED
      BY <2>1, LastStep DEF Nodes
  <2>3. Parent(q) = s
    <3>. DEFINE y == q[Len(q)]
                t == Parent(q)
    <3>1. Append(s, x) = Append(t, y) /\ y \in StepSet /\ t \in Nodes
      BY <2>2
    <3>. HIDE DEF y, t, q
    <3>2. s = t
      BY <3>1, SameEnds, Zenon
    <3>. QED
      BY <3>2 DEF t
  <2>4. Parent(q) = p \o Parent(r) /\ Parent(r) \in Nodes
    BY <1>2, <1>4, ParentBelow
  <2>5. Above(p, s)
    BY <2>3, <2>4, AboveMeansBelow
  <2>. QED
    BY <2>5
<1>. QED
  BY <1>3, <1>4

\* The node above one that is not below p is not below p either, nor the one above p.
LEMMA ParentOutside ==
  ASSUME NEW p \in Nodes, NEW q \in Nodes, q # <<>>, ~Above(p, q) \/ p = q
  PROVE  ~Above(p, Parent(q))
<1>. SUFFICES ASSUME Above(p, Parent(q)) PROVE FALSE
  OBVIOUS
<1>1. /\ Parent(q) \in Nodes /\ q[Len(q)] \in StepSet /\ Len(Parent(q)) = Len(q) - 1
      /\ q = Append(Parent(q), q[Len(q)])
  BY LastStep DEF Nodes
<1>2. PICK t \in Nodes : Parent(q) = p \o t
  BY <1>1, BelowMeansAbove
<1>3. CASE p = q
  <2>1. Len(p \o t) = Len(p) + Len(t) /\ Len(p) \in Nat /\ Len(t) \in Nat
    BY AboveMeansBelow, LenProperties DEF Nodes
  <2>. QED
    BY <1>1, <1>2, <1>3, <2>1
<1>4. CASE ~Above(p, q)
  <2>. DEFINE x == q[Len(q)]
  <2>1. <<x>> \in Nodes
    BY <1>1 DEF Nodes
  <2>2. q = (p \o t) \o <<x>>
    BY <1>1, <1>2, AppendIsConcat, ZenonT(30) DEF Nodes
  <2>3. q = p \o (t \o <<x>>) /\ t \o <<x>> \in Nodes
    <3>. HIDE DEF x
    <3>1. (p \o t) \o <<x>> = p \o (t \o <<x>>)
      BY <2>1, ConcatAssociative, SMTT(20) DEF Nodes
    <3>2. t \o <<x>> \in Nodes
      BY <2>1, ConcatProperties DEF Nodes
    <3>. QED
      BY <2>2, <3>1, <3>2
  <2>. QED
    BY <1>4, <2>3, AboveMeansBelow, ZenonT(40)
<1>. QED
  BY <1>3, <1>4

-----------------------------------------------------------------------------
(* Subtrees *)

\* Step x may lead from node q of v to another one.
Leads(v, q, x) ==
    /\ q \in DOMAIN v
    /\ \/ v[q].kind = "object" /\ x[1] = "key"
       \/ /\ v[q].kind = "array" /\ x[1] = "index"
          /\ x[2] > 0 => Append(q, Index(x[2] - 1)) \in DOMAIN v

\* A value has a root, and every other node is led to.
LEMMA WellFormedLeads ==
  ASSUME NEW v
  PROVE  WellFormed(v) <=> /\ IsTree(v)
                           /\ <<>> \in DOMAIN v
                           /\ \A p \in DOMAIN v \ {<<>>} : Leads(v, Parent(p), p[Len(p)])
  BY DEF WellFormed, Leads

\* The index before another one.
LEMMA StepBefore ==
  ASSUME NEW x \in StepSet, x[1] = "index", x[2] > 0
  PROVE  Index(x[2] - 1) \in StepSet
<1>1. \/ \E i \in Nat : x = <<"index", i>>
      \/ \E k \in Text : x = <<"key", k>>
  BY DEF StepSet
<1>2. PICK i \in Nat : x = <<"index", i>>
  BY <1>1
<1>3. i - 1 \in Nat /\ x[2] - 1 = i - 1
  BY <1>2
<1>. QED
  BY <1>3, StepTypes

\* The nodes of a subtree are what is left of the nodes below its root.
LEMMA SubNodes ==
  ASSUME NEW v, WellFormed(v), NEW p \in Nodes
  PROVE  /\ DOMAIN Sub(v, p) = {r \in Nodes : p \o r \in DOMAIN v}
         /\ \A r \in DOMAIN Sub(v, p) : Sub(v, p)[r] = v[p \o r]
<1>. DEFINE below == {q \in DOMAIN v : Above(p, q)}
            D == {SubSeq(q, Len(p) + 1, Len(q)) : q \in below}
            E == {r \in Nodes : p \o r \in DOMAIN v}
<1>1. DOMAIN v \subseteq Nodes
  BY DEF WellFormed, IsTree, Nodes
<1>2. ASSUME NEW r \in D PROVE r \in E
  <2>1. PICK q \in below : r = SubSeq(q, Len(p) + 1, Len(q))
    OBVIOUS
  <2>2. PICK t \in Nodes : q = p \o t
    BY <1>1, BelowMeansAbove
  <2>3. r = t
    BY <2>1, <2>2, AboveMeansBelow
  <2>. QED
    BY <2>2, <2>3
<1>3. ASSUME NEW r \in E PROVE r \in D
  <2>1. p \o r \in below /\ r = SubSeq(p \o r, Len(p) + 1, Len(p \o r))
    BY AboveMeansBelow
  <2>. QED
    BY <2>1
<1>4. D = E
  BY <1>2, <1>3
<1>5. Sub(v, p) = [r \in D |-> v[p \o r]]
  BY DEF Sub
<1>. HIDE DEF D, E
<1>. QED
  BY <1>4, <1>5 DEF E

\* A subtree of a value is a value.
LEMMA SubIsWellFormed ==
  ASSUME NEW v, WellFormed(v), NEW p \in DOMAIN v
  PROVE  WellFormed(Sub(v, p))
<1>. DEFINE w == Sub(v, p)
<1>1. /\ DOMAIN v \subseteq Nodes /\ IsFiniteSet(DOMAIN v) /\ v \in [DOMAIN v -> Labels]
      /\ p \in Nodes
  BY DEF WellFormed, IsTree, Nodes
<1>2. /\ DOMAIN w = {r \in Nodes : p \o r \in DOMAIN v}
      /\ \A r \in DOMAIN w : w[r] = v[p \o r]
  BY <1>1, SubNodes
<1>3. IsTree(w)
  <2>. DEFINE f == [q \in DOMAIN v |-> SubSeq(q, Len(p) + 1, Len(q))]
  <2>1. IsFiniteSet({f[q] : q \in DOMAIN v})
    <3>1. f \in Surjection(DOMAIN v, {f[q] : q \in DOMAIN v})
      BY DEF Surjection
    <3>. QED
      BY <1>1, <3>1, FS_Surjection
  <2>2. DOMAIN w \subseteq {f[q] : q \in DOMAIN v}
    <3>. SUFFICES ASSUME NEW r \in DOMAIN w PROVE r \in {f[q] : q \in DOMAIN v}
      OBVIOUS
    <3>1. p \o r \in DOMAIN v /\ f[p \o r] = r
      BY <1>1, <1>2, AboveMeansBelow
    <3>. QED
      BY <3>1
  <2>3. IsFiniteSet(DOMAIN w)
    BY <2>1, <2>2, FS_Subset
  <2>4. \A r \in DOMAIN w : w[r] \in Labels
    BY <1>1, <1>2
  <2>5. w = [r \in DOMAIN w |-> w[r]]
    BY DEF Sub
  <2>. HIDE DEF w, f
  <2>. QED
    BY <1>2, <2>3, <2>4, <2>5 DEF IsTree, Nodes
<1>4. <<>> \in DOMAIN w
  BY <1>1, <1>2, ConcatEmptySeq, EmptySeq DEF Nodes
<1>5. ASSUME NEW r \in DOMAIN w \ {<<>>} PROVE Leads(w, Parent(r), r[Len(r)])
  <2>. DEFINE q == p \o r
              s == r[Len(r)]
              x == Index(s[2] - 1)
  <2>1. r \in Nodes /\ r # <<>> /\ q \in DOMAIN v
    BY <1>2
  <2>2. /\ q # <<>> /\ Parent(r) \in Nodes /\ Parent(q) = p \o Parent(r) /\ q[Len(q)] = s
        /\ \A y \in StepSet : Append(Parent(q), y) = p \o Append(Parent(r), y)
        /\ s \in StepSet
    BY <1>1, <2>1, ParentBelow, LastStep, ZenonT(40) DEF Nodes
  <2>. HIDE DEF q, s, w
  <2>3. Leads(v, Parent(q), s)
    BY <2>1, <2>2, WellFormedLeads
  <2>4. Parent(r) \in DOMAIN w /\ w[Parent(r)] = v[Parent(q)]
    BY <1>2, <2>2, <2>3 DEF Leads
  <2>5. ASSUME s[1] = "index", s[2] > 0, Append(Parent(q), x) \in DOMAIN v
        PROVE  Append(Parent(r), x) \in DOMAIN w
    <3>1. x \in StepSet
      BY <2>2, <2>5, StepBefore
    <3>. HIDE DEF x
    <3>2. Append(Parent(r), x) \in Nodes
      BY <2>2, <3>1, AppendProperties DEF Nodes
    <3>3. p \o Append(Parent(r), x) \in DOMAIN v
      BY <2>2, <2>5, <3>1
    <3>. QED
      BY <1>2, <3>2, <3>3
  <2>6. Leads(w, Parent(r), s)
    BY <2>3, <2>4, <2>5 DEF Leads
  <2>. QED
    BY <2>6 DEF s
<1>6. WellFormed(w)
  <2>. HIDE DEF w
  <2>. QED
    BY <1>3, <1>4, <1>5, WellFormedLeads
<1>. QED
  BY <1>6

\* Tree g is v with w in the place of its nodes from p on.
Grafted(g, v, p, w) ==
    /\ \A q \in DOMAIN g : (q \in DOMAIN v /\ ~Above(p, q)) \/ \E r \in DOMAIN w : q = p \o r
    /\ \A q \in DOMAIN v : ~Above(p, q) => q \in DOMAIN g /\ g[q] = v[q]
    /\ \A r \in DOMAIN w : p \o r \in DOMAIN g /\ g[p \o r] = w[r]

\* The nodes of a tree with another one at p: those that are not below p, and those of the
\* other tree.
LEMMA GraftNodes ==
  ASSUME NEW v, WellFormed(v), NEW w, WellFormed(w), NEW p \in Nodes
  PROVE  Grafted(Graft(v, p, w), v, p, w)
<1>. DEFINE kept == {q \in DOMAIN v : ~Above(p, q)}
            D == kept \cup {p \o r : r \in DOMAIN w}
<1>1. Graft(v, p, w) =
        [q \in D |-> IF q \in kept THEN v[q] ELSE w[SubSeq(q, Len(p) + 1, Len(q))]]
  BY DEF Graft
<1>2. DOMAIN w \subseteq Nodes
  BY DEF WellFormed, IsTree, Nodes
<1>3. ASSUME NEW r \in DOMAIN w
      PROVE  p \o r \in D \ kept /\ SubSeq(p \o r, Len(p) + 1, Len(p \o r)) = r
  BY <1>2, AboveMeansBelow
<1>4. \A q \in D : (q \in DOMAIN v /\ ~Above(p, q)) \/ \E r \in DOMAIN w : q = p \o r
  OBVIOUS
<1>5. \A q \in DOMAIN v : ~Above(p, q) <=> q \in kept
  OBVIOUS
<1>6. kept \subseteq D
  OBVIOUS
<1>. HIDE DEF D, kept
<1>. QED
  BY <1>1, <1>3, <1>4, <1>5, <1>6 DEF Grafted

\* A value with another one in the place of a part of it is a value: the assignment through
\* a reference.
LEMMA GraftIsWellFormed ==
  ASSUME NEW v, WellFormed(v), NEW w, WellFormed(w), NEW p \in DOMAIN v
  PROVE  WellFormed(Graft(v, p, w))
<1>. DEFINE g == Graft(v, p, w)
<1>1. /\ DOMAIN v \subseteq Nodes /\ IsFiniteSet(DOMAIN v) /\ v \in [DOMAIN v -> Labels]
      /\ DOMAIN w \subseteq Nodes /\ IsFiniteSet(DOMAIN w) /\ w \in [DOMAIN w -> Labels]
      /\ p \in Nodes /\ <<>> \in DOMAIN w /\ <<>> \in DOMAIN v
  BY DEF WellFormed, IsTree, Nodes
<1>2. /\ \A q \in DOMAIN g : (q \in DOMAIN v /\ ~Above(p, q)) \/ \E r \in DOMAIN w : q = p \o r
      /\ \A q \in DOMAIN v : ~Above(p, q) => q \in DOMAIN g /\ g[q] = v[q]
      /\ \A r \in DOMAIN w : p \o r \in DOMAIN g /\ g[p \o r] = w[r]
  <2>1. p \in Nodes
    BY <1>1
  <2>2. Grafted(g, v, p, w)
    BY <2>1, GraftNodes
  <2>. HIDE DEF g
  <2>. QED
    BY <2>2 DEF Grafted
<1>3. p \o <<>> = p /\ p \in DOMAIN g
  <2>1. p \o <<>> = p
    BY <1>1, ConcatEmptySeq DEF Nodes
  <2>. QED
    BY <1>1, <1>2, <2>1
<1>4. IsTree(g)
  <2>. DEFINE f == [r \in DOMAIN w |-> p \o r]
              R == {f[r] : r \in DOMAIN w}
  <2>1. IsFiniteSet(R)
    <3>1. f \in Surjection(DOMAIN w, R)
      BY DEF Surjection
    <3>. HIDE DEF f, R
    <3>. QED
      BY <1>1, <3>1, FS_Surjection
  <2>2. DOMAIN g \subseteq DOMAIN v \cup R
    <3>. HIDE DEF g
    <3>. QED
      BY <1>2
  <2>3. IsFiniteSet(DOMAIN g)
    <3>. HIDE DEF g, R
    <3>. QED
      BY <1>1, <2>1, <2>2, FS_Union, FS_Subset
  <2>4. g = [q \in DOMAIN g |-> g[q]]
    BY DEF Graft
  <2>. HIDE DEF g, R, f
  <2>5. \A q \in DOMAIN g : g[q] \in Labels /\ q \in Nodes
    BY <1>1, <1>2, AboveMeansBelow, ZenonT(40)
  <2>. QED
    BY <2>3, <2>4, <2>5 DEF IsTree, Nodes
<1>. HIDE DEF g
<1>5. <<>> \in DOMAIN g
  <2>1. CASE p = <<>>
    BY <1>3, <2>1
  <2>2. CASE p # <<>>
    <3>1. ~Above(p, <<>>)
      <4>1. Len(p) \in Nat /\ Len(p) # 0 /\ Len(<<>>) = 0
        BY <1>1, <2>2, EmptySeq DEF Nodes
      <4>. QED
        BY <4>1 DEF Above, IsPrefix
    <3>. QED
      BY <1>1, <1>2, <3>1
  <2>. QED
    BY <2>1, <2>2
<1>6. ASSUME NEW q \in DOMAIN g \ {<<>>} PROVE Leads(g, Parent(q), q[Len(q)])
  <2>. DEFINE s == q[Len(q)]
              x == Index(s[2] - 1)
  <2>1. q \in Nodes /\ q # <<>> /\ s \in StepSet /\ Parent(q) \in Nodes
    BY <1>4, LastStep DEF IsTree, Nodes
  <2>2. ASSUME s[1] = "index", s[2] > 0 PROVE x \in StepSet /\ Append(Parent(q), x) \in Nodes
    <3>1. x \in StepSet
      BY <2>1, <2>2, StepBefore
    <3>. HIDE DEF x
    <3>. QED
      BY <2>1, <3>1, AppendProperties DEF Nodes
  <2>3. CASE q \in DOMAIN v /\ (~Above(p, q) \/ q = p)
    <3>1. ~Above(p, Parent(q))
      BY <1>1, <2>1, <2>3, ParentOutside
    <3>2. Leads(v, Parent(q), s)
      BY <2>1, <2>3, WellFormedLeads
    <3>3. Parent(q) \in DOMAIN g /\ g[Parent(q)] = v[Parent(q)]
      BY <1>2, <3>1, <3>2 DEF Leads
    <3>4. ASSUME s[1] = "index", s[2] > 0, Append(Parent(q), x) \in DOMAIN v
          PROVE  Append(Parent(q), x) \in DOMAIN g
      <4>1. CASE ~Above(p, Append(Parent(q), x))
        BY <1>2, <3>4, <4>1
      <4>2. CASE Above(p, Append(Parent(q), x))
        <5>1. p = Append(Parent(q), x)
          <6>. HIDE DEF x, s
          <6>. QED
            BY <1>1, <2>1, <2>2, <3>1, <3>4, <4>2, Beside
        <5>. QED
          BY <1>3, <5>1
      <4>. QED
        BY <4>1, <4>2
    <3>. HIDE DEF s
    <3>5. Leads(g, Parent(q), s)
      BY <3>2, <3>3, <3>4 DEF Leads
    <3>. QED
      BY <3>5 DEF s
  <2>4. CASE \E r \in DOMAIN w \ {<<>>} : q = p \o r
    <3>1. PICK r \in DOMAIN w \ {<<>>} : q = p \o r
      BY <2>4
    <3>2. /\ Parent(r) \in Nodes /\ Parent(q) = p \o Parent(r) /\ s = r[Len(r)]
          /\ \A y \in StepSet : Append(Parent(q), y) = p \o Append(Parent(r), y)
      BY <1>1, <3>1, ParentBelow
    <3>. HIDE DEF s
    <3>3. Leads(w, Parent(r), s)
      BY <3>1, <3>2, WellFormedLeads
    <3>4. Parent(q) \in DOMAIN g /\ g[Parent(q)] = w[Parent(r)]
      BY <1>2, <3>2, <3>3 DEF Leads
    <3>5. ASSUME s[1] = "index", s[2] > 0, Append(Parent(r), x) \in DOMAIN w
          PROVE  Append(Parent(q), x) \in DOMAIN g
      BY <1>2, <2>2, <3>2, <3>5
    <3>6. Leads(g, Parent(q), s)
      BY <3>3, <3>4, <3>5 DEF Leads
    <3>. QED
      BY <3>6 DEF s
  <2>. QED
    BY <1>2, <1>3, <2>3, <2>4
<1>7. WellFormed(g)
  BY <1>4, <1>5, <1>6, WellFormedLeads
<1>. QED
  BY <1>7 DEF g

-----------------------------------------------------------------------------
(* Arrays *)

\* Tree a is an array with the elements vs.
IsArrayOf(a, vs) ==
    /\ <<>> \in DOMAIN a /\ a[<<>>] = Label("array", "")
    /\ \A q \in DOMAIN a \ {<<>>} :
          \E i \in DOMAIN vs : \E r \in DOMAIN vs[i] : q = <<Index(i - 1)>> \o r
    /\ \A i \in DOMAIN vs : \A r \in DOMAIN vs[i] :
          LET q == <<Index(i - 1)>> \o r
          IN  q \in DOMAIN a /\ a[q] = vs[i][r]

\* A path that begins with an index.
LEMMA FirstStep ==
  ASSUME NEW n \in Nat, NEW i \in 1 .. n, NEW r \in Nodes
  PROVE  LET q == <<Index(i - 1)>> \o r
         IN  /\ Index(i - 1) \in StepSet /\ <<Index(i - 1)>> \in Nodes
             /\ q \in Nodes /\ q # <<>> /\ Tail(q) = r /\ Head(q)[2] + 1 = i
<1>1. i - 1 \in Nat /\ (i - 1) + 1 = i
  OBVIOUS
<1>2. Index(i - 1) \in StepSet
  BY <1>1, StepTypes
<1>3. Index(i - 1)[2] = i - 1
  BY DEF Index
<1>. DEFINE x == Index(i - 1)
<1>4. <<x>> \in Nodes
  BY <1>2 DEF Nodes
<1>. HIDE DEF x
<1>5. <<x>> \o r \in Nodes /\ <<x>> \o r # <<>> /\ Head(<<x>> \o r) = x /\ Tail(<<x>> \o r) = r
  BY <1>2, PrependStep DEF Nodes, x
<1>6. Head(<<x>> \o r)[2] + 1 = i
  BY <1>1, <1>3, <1>5 DEF x
<1>. QED
  BY <1>2, <1>4, <1>5, <1>6 DEF x

\* What ArrayOf makes is an array of its elements.
LEMMA ArrayNodes ==
  ASSUME NEW n \in Nat, NEW vs, DOMAIN vs = 1 .. n, \A i \in 1 .. n : WellFormed(vs[i])
  PROVE  IsArrayOf(ArrayOf(vs), vs)
<1>. DEFINE a == ArrayOf(vs)
            D == {<<>>} \cup UNION {Below(Index(i - 1), vs[i]) : i \in DOMAIN vs}
<1>1. a = [p \in D |-> IF p = <<>> THEN EmptyArray[<<>>] ELSE vs[Head(p)[2] + 1][Tail(p)]]
  BY DEF ArrayOf
<1>2. EmptyArray[<<>>] = Label("array", "")
  BY DEF EmptyArray, Leaf
<1>3. ASSUME NEW i \in 1 .. n, NEW r \in DOMAIN vs[i]
      PROVE  LET q == <<Index(i - 1)>> \o r
             IN  q \in D /\ q # <<>> /\ Tail(q) = r /\ Head(q)[2] + 1 = i
  <2>1. r \in Nodes
    BY DEF WellFormed, IsTree, Nodes
  <2>2. <<Index(i - 1)>> \o r \in Below(Index(i - 1), vs[i])
    BY DEF Below
  <2>. QED
    BY <2>1, <2>2, FirstStep
<1>4. \A q \in D : q # <<>> =>
         \E i \in 1 .. n : \E r \in DOMAIN vs[i] : q = <<Index(i - 1)>> \o r
  BY DEF Below
<1>5. <<>> \in D
  OBVIOUS
<1>. HIDE DEF D, a
<1>6. IsArrayOf(a, vs)
  BY <1>1, <1>2, <1>3, <1>4, <1>5 DEF IsArrayOf
<1>. QED
  BY <1>6 DEF a

\* The array of some values is a value: array::push_back, insert, erase, resize, assign.
LEMMA ArrayIsWellFormed ==
  ASSUME NEW n \in Nat, NEW vs, DOMAIN vs = 1 .. n, \A i \in 1 .. n : WellFormed(vs[i])
  PROVE  WellFormed(ArrayOf(vs)) /\ KindOf(ArrayOf(vs)) = "array"
<1>. DEFINE a == ArrayOf(vs)
            D == {<<>>} \cup UNION {Below(Index(i - 1), vs[i]) : i \in DOMAIN vs}
<1>1. a = [p \in D |-> a[p]]
  BY DEF ArrayOf
<1>2. IsFiniteSet(D)
  <2>. DEFINE f == [i \in 1 .. n |-> Below(Index(i - 1), vs[i])]
              F == {f[i] : i \in 1 .. n}
  <2>1. IsFiniteSet(F)
    <3>1. f \in Surjection(1 .. n, F)
      BY DEF Surjection
    <3>2. IsFiniteSet(1 .. n)
      BY FS_Interval
    <3>. HIDE DEF f, F
    <3>. QED
      BY <3>1, <3>2, FS_Surjection
  <2>2. ASSUME NEW i \in 1 .. n PROVE IsFiniteSet(f[i])
    <3>1. Index(i - 1) \in StepSet
      BY StepTypes
    <3>2. vs[i] \in Trees
      BY TreesAreTrees DEF WellFormed
    <3>. QED
      BY <3>1, <3>2, BelowIsFinite
  <2>3. \A T \in F : IsFiniteSet(T)
    BY <2>2
  <2>. HIDE DEF F
  <2>4. IsFiniteSet(UNION F)
    BY <2>1, <2>3, FS_UNION
  <2>5. D = {<<>>} \cup UNION F
    BY DEF F
  <2>. HIDE DEF D
  <2>6. IsFiniteSet({<<>>})
    BY FS_Singleton
  <2>. QED
    BY <2>4, <2>5, <2>6, FS_Union
<1>3. IsArrayOf(a, vs)
  BY ArrayNodes
<1>. HIDE DEF a, D
<1>4. DOMAIN a = D
  BY <1>1
<1>5. <<>> \in DOMAIN a /\ a[<<>>] = Label("array", "")
  BY <1>3 DEF IsArrayOf
<1>6. \A q \in DOMAIN a \ {<<>>} :
          \E i \in 1 .. n : \E r \in DOMAIN vs[i] : q = <<Index(i - 1)>> \o r
  BY <1>3 DEF IsArrayOf
<1>7. \A i \in 1 .. n : \A r \in DOMAIN vs[i] :
          <<Index(i - 1)>> \o r \in DOMAIN a /\ a[<<Index(i - 1)>> \o r] = vs[i][r]
  BY <1>3 DEF IsArrayOf
<1>8. \A i \in 1 .. n : \A r \in DOMAIN vs[i] : r \in Nodes /\ vs[i][r] \in Labels
  BY DEF WellFormed, IsTree, Nodes
<1>9. IsTree(a)
  <2>1. Label("array", "") \in Labels /\ <<>> \in Nodes
    BY ConstantsAreWellFormed, EmptySeq DEF WellFormed, IsTree, Labels, Label, Text, ScalarKinds, ContainerKinds, Nodes
  <2>2. ASSUME NEW q \in DOMAIN a PROVE q \in Nodes /\ a[q] \in Labels
    <3>1. CASE q = <<>>
      BY <1>5, <2>1, <3>1
    <3>2. CASE q # <<>>
      <4>1. PICK i \in 1 .. n : \E r \in DOMAIN vs[i] : q = <<Index(i - 1)>> \o r
        BY <1>6, <3>2
      <4>2. PICK r \in DOMAIN vs[i] : q = <<Index(i - 1)>> \o r
        BY <4>1
      <4>3. q \in Nodes
        BY <1>8, <4>2, FirstStep
      <4>. QED
        BY <1>8, <1>7, <4>2, <4>3
    <3>. QED
      BY <3>1, <3>2
  <2>. QED
    BY <1>1, <1>2, <1>4, <2>2 DEF IsTree, Nodes
<1>10. ASSUME NEW q \in DOMAIN a \ {<<>>} PROVE Leads(a, Parent(q), q[Len(q)])
  <2>0. PICK i \in 1 .. n : \E r \in DOMAIN vs[i] : q = <<Index(i - 1)>> \o r
    BY <1>6
  <2>1. PICK r \in DOMAIN vs[i] : q = <<Index(i - 1)>> \o r
    BY <2>0
  <2>. DEFINE p == <<Index(i - 1)>>
  <2>2. r \in Nodes /\ p \in Nodes /\ Index(i - 1) \in StepSet
    BY <1>8, FirstStep
  <2>3. CASE r = <<>>
    <3>1. Parent(q) = <<>> /\ q[Len(q)] = Index(i - 1)
      <4>. DEFINE x == Index(i - 1)
      <4>. HIDE DEF x
      <4>1. q = <<x>> \o r /\ x \in StepSet /\ r \in Seq(StepSet)
        BY <2>1, <2>2 DEF x, Nodes
      <4>2. Parent(<<x>> \o r) = <<>> /\ Len(<<x>> \o r) = 1 /\ (<<x>> \o r)[1] = x
        BY <2>3, <4>1, LastStepBelow
      <4>. QED
        BY <4>1, <4>2 DEF x
    <3>2. Index(i - 1)[1] = "index" /\ Index(i - 1)[2] = i - 1 /\ a[<<>>].kind = "array"
      <4>1. Label("array", "").kind = "array"
        BY DEF Label
      <4>2. a[<<>>].kind = "array"
        BY <1>5, <4>1
      <4>3. Index(i - 1)[1] = "index" /\ Index(i - 1)[2] = i - 1
        BY DEF Index
      <4>. QED
        BY <4>2, <4>3
    <3>3. ASSUME i - 1 > 0 PROVE Append(<<>>, Index(i - 1 - 1)) \in DOMAIN a
      <4>. DEFINE j == i - 1
      <4>1. j \in 1 .. n
        BY <3>3
      <4>2. <<>> \in DOMAIN vs[j]
        BY <4>1 DEF WellFormed
      <4>. DEFINE x == Index(j - 1)
      <4>3. <<x>> \o <<>> \in DOMAIN a
        BY <1>7, <4>1, <4>2
      <4>. HIDE DEF x, j
      <4>4. <<x>> \o <<>> = <<x>> /\ Append(<<>>, x) = <<x>>
        OBVIOUS
      <4>5. Append(<<>>, x) \in DOMAIN a
        BY <4>3, <4>4
      <4>. QED
        BY <4>5 DEF x, j
    <3>. QED
      BY <1>5, <3>1, <3>2, <3>3 DEF Leads
  <2>4. CASE r # <<>>
    <3>. DEFINE s == q[Len(q)]
                x == Index(s[2] - 1)
    <3>. HIDE DEF p
    <3>1. q = p \o r
      BY <2>1 DEF p
    <3>2. r[Len(r)] \in StepSet
      BY <2>2, <2>4, LastStep DEF Nodes
    <3>3. /\ Parent(r) \in Nodes /\ Parent(q) = p \o Parent(r) /\ s = r[Len(r)]
          /\ \A y \in StepSet : Append(Parent(q), y) = p \o Append(Parent(r), y)
          /\ s \in StepSet
      BY <2>2, <2>4, <3>1, <3>2, ParentBelow, ZenonT(40)
    <3>. HIDE DEF s
    <3>4. Leads(vs[i], Parent(r), s)
      BY <2>4, <3>3, WellFormedLeads
    <3>5. Parent(q) \in DOMAIN a /\ a[Parent(q)] = vs[i][Parent(r)]
      BY <1>7, <3>3, <3>4 DEF Leads, p
    <3>6. ASSUME s[1] = "index", s[2] > 0, Append(Parent(r), x) \in DOMAIN vs[i]
          PROVE  Append(Parent(q), x) \in DOMAIN a
      <4>1. x \in StepSet
        BY <3>3, <3>6, StepBefore
      <4>. HIDE DEF x
      <4>2. Append(Parent(q), x) = p \o Append(Parent(r), x)
        BY <3>3, <4>1
      <4>. QED
        BY <1>7, <3>6, <4>2 DEF p
    <3>7. Leads(a, Parent(q), s)
      BY <3>4, <3>5, <3>6 DEF Leads
    <3>. QED
      BY <3>7 DEF s
  <2>. QED
    BY <2>3, <2>4
<1>11. WellFormed(a) /\ KindOf(a) = "array"
  <2>1. Label("array", "").kind = "array"
    BY DEF Label
  <2>2. KindOf(a) = "array"
    BY <1>5, <2>1 DEF KindOf
  <2>. QED
    BY <1>5, <1>9, <1>10, <2>2, WellFormedLeads
<1>. QED
  BY <1>11 DEF a

\* The values: what the variables, the handles and the elements of arrays hold.
Good == {v \in Trees : WellFormed(v)}

LEMMA GoodIsWellFormed == \A v : v \in Good <=> WellFormed(v)
  BY TreesAreTrees DEF Good, WellFormed

\* The array of a sequence of values is a value.
LEMMA ArrayIsGood ==
  ASSUME NEW vs \in Seq(Good)
  PROVE  ArrayOf(vs) \in Good /\ KindOf(ArrayOf(vs)) = "array"
<1>1. Len(vs) \in Nat /\ DOMAIN vs = 1 .. Len(vs) /\ \A i \in 1 .. Len(vs) : vs[i] \in Good
  BY LenProperties, ElementOfSeq
<1>. DEFINE n == Len(vs)
<1>2. n \in Nat /\ DOMAIN vs = 1 .. n /\ \A i \in 1 .. n : WellFormed(vs[i])
  BY <1>1, GoodIsWellFormed
<1>. HIDE DEF n
<1>3. WellFormed(ArrayOf(vs)) /\ KindOf(ArrayOf(vs)) = "array"
  BY <1>2, ArrayIsWellFormed
<1>. QED
  BY <1>3, GoodIsWellFormed

\* The elements of an array are values.
LEMMA ElementsAreGood ==
  ASSUME NEW v \in Good, KindOf(v) = "array"
  PROVE  /\ Elements(v) \in Seq(Good) /\ Len(Elements(v)) = Size(v) /\ Size(v) \in Nat
         /\ \A i \in 1 .. Size(v) : Elements(v)[i] = Sub(v, <<Index(i - 1)>>)
<1>1. WellFormed(v)
  BY GoodIsWellFormed
<1>2. Size(v) \in Nat /\ \A i \in Nat : <<Index(i)>> \in DOMAIN v <=> i < Size(v)
  BY <1>1, ArraySteps
<1>. DEFINE n == Size(v)
            es == Elements(v)
<1>3. es = [i \in 1 .. n |-> Sub(v, <<Index(i - 1)>>)]
  BY DEF Elements
<1>4. ASSUME NEW i \in 1 .. n PROVE Sub(v, <<Index(i - 1)>>) \in Good
  <2>1. i - 1 \in Nat /\ i - 1 < n
    BY <1>2
  <2>2. <<Index(i - 1)>> \in DOMAIN v
    BY <1>2, <2>1
  <2>. QED
    BY <1>1, <2>2, SubIsWellFormed, GoodIsWellFormed
<1>. HIDE DEF n, es
<1>5. n \in Nat
  BY <1>2 DEF n
<1>6. es \in [1 .. n -> Good]
  BY <1>3, <1>4
<1>7. es \in Seq(Good) /\ Len(es) = n
  BY <1>5, <1>6, SeqDef, LenProperties
<1>. QED
  BY <1>3, <1>5, <1>7 DEF n, es

\* Parts of sequences, and what is put between them.
LEMMA PartsOfSequence ==
  ASSUME NEW S, NEW s \in Seq(S), NEW i \in 0 .. Len(s), NEW j \in i .. Len(s)
  PROVE  /\ SubSeq(s, 1, i) \in Seq(S) /\ SubSeq(s, j + 1, Len(s)) \in Seq(S)
         /\ Len(SubSeq(s, 1, i)) = i /\ Len(SubSeq(s, j + 1, Len(s))) = Len(s) - j
<1>. DEFINE n == Len(s)
<1>1. n \in Nat /\ i \in Nat /\ j \in Nat /\ i <= j /\ j <= n /\ \A k \in 1 .. n : s[k] \in S
  BY LenProperties, ElementOfSeq
<1>. HIDE DEF n
<1>2. (\A k \in 1 .. i : s[k] \in S) /\ \A k \in j + 1 .. n : s[k] \in S
  BY <1>1
<1>3. /\ SubSeq(s, 1, i) \in Seq(S) /\ Len(SubSeq(s, 1, i)) = IF 1 <= i THEN i - 1 + 1 ELSE 0
  BY <1>1, <1>2, SubSeqProperties
<1>4. /\ SubSeq(s, j + 1, n) \in Seq(S)
      /\ Len(SubSeq(s, j + 1, n)) = IF j + 1 <= n THEN n - (j + 1) + 1 ELSE 0
  BY <1>1, <1>2, SubSeqProperties
<1>. QED
  BY <1>1, <1>3, <1>4 DEF n

\* One element more in a sequence.
LEMMA InsertAtIsSequence ==
  ASSUME NEW S, NEW s \in Seq(S), NEW i \in 0 .. Len(s), NEW e \in S
  PROVE  InsertAt(s, i + 1, e) \in Seq(S) /\ Len(InsertAt(s, i + 1, e)) = Len(s) + 1
<1>. DEFINE a == SubSeq(s, 1, i)
            b == SubSeq(s, i + 1, Len(s))
<1>1. Len(s) \in Nat /\ i \in Nat /\ i + 1 - 1 = i /\ i \in i .. Len(s)
  BY LenProperties
<1>2. a \in Seq(S) /\ b \in Seq(S) /\ Len(a) = i /\ Len(b) = Len(s) - i
  BY <1>1, PartsOfSequence
<1>3. InsertAt(s, i + 1, e) = a \o <<e>> \o b
  <2>. DEFINE m == i + 1
  <2>1. InsertAt(s, m, e) = SubSeq(s, 1, m - 1) \o <<e>> \o SubSeq(s, m, Len(s))
    BY DEF InsertAt
  <2>2. m - 1 = i
    BY <1>1
  <2>. HIDE DEF m
  <2>3. InsertAt(s, m, e) = SubSeq(s, 1, i) \o <<e>> \o SubSeq(s, m, Len(s))
    BY <2>1, <2>2, Zenon
  <2>. QED
    BY <2>3 DEF m
<1>4. <<e>> \in Seq(S) /\ Len(<<e>>) = 1
  OBVIOUS
<1>. HIDE DEF a, b
<1>5. a \o <<e>> \in Seq(S) /\ Len(a \o <<e>>) = i + 1
  BY <1>2, <1>4, ConcatProperties
<1>. DEFINE c == a \o <<e>>
            d == c \o b
<1>6. d \in Seq(S) /\ Len(d) = i + 1 + (Len(s) - i)
  <2>. HIDE DEF c
  <2>1. c \in Seq(S) /\ Len(c) = i + 1
    BY <1>5 DEF c
  <2>2. d \in Seq(S) /\ Len(d) = Len(c) + Len(b)
    BY <1>2, <2>1, ConcatProperties
  <2>. HIDE DEF d
  <2>. QED
    BY <1>2, <2>1, <2>2
<1>7. InsertAt(s, i + 1, e) = d
  BY <1>3
<1>8. Len(d) = Len(s) + 1
  <2>. HIDE DEF d
  <2>. QED
    BY <1>1, <1>6
<1>. HIDE DEF d
<1>. QED
  BY <1>6, <1>7, <1>8

-----------------------------------------------------------------------------
(* Objects *)

\* An object without the members of some steps is an object: erase, extract.
LEMMA ObjectWithout ==
  ASSUME NEW v, WellFormed(v), KindOf(v) = "object", NEW S
  PROVE  WellFormed([p \in {q \in DOMAIN v : q = <<>> \/ Head(q) \notin S} |-> v[p]])
<1>. DEFINE D == {q \in DOMAIN v : q = <<>> \/ Head(q) \notin S}
            w == [p \in D |-> v[p]]
<1>1. /\ DOMAIN v \subseteq Nodes /\ IsFiniteSet(DOMAIN v) /\ v \in [DOMAIN v -> Labels]
      /\ <<>> \in DOMAIN v
  BY DEF WellFormed, IsTree, Nodes
<1>2. D \subseteq DOMAIN v /\ <<>> \in D
  BY <1>1
<1>3. IsTree(w)
  <2>1. IsFiniteSet(D)
    BY <1>1, <1>2, FS_Subset
  <2>. HIDE DEF D
  <2>. QED
    BY <1>1, <1>2, <2>1 DEF IsTree, Nodes
<1>4. ASSUME NEW q \in D \ {<<>>} PROVE Leads(w, Parent(q), q[Len(q)])
  <2>. DEFINE s == q[Len(q)]
              x == Index(s[2] - 1)
  <2>1. /\ q \in Nodes /\ Parent(q) \in Nodes /\ s \in StepSet /\ Head(q) \notin S
        /\ Parent(q) # <<>> => Head(Parent(q)) = Head(q)
        /\ \A y \in StepSet : Parent(q) # <<>> => Head(Append(Parent(q), y)) = Head(q)
    BY <1>1, LastStep DEF Nodes
  <2>. HIDE DEF s
  <2>2. Leads(v, Parent(q), s)
    BY <1>1, <1>2, WellFormedLeads DEF s
  <2>3. Parent(q) \in D /\ w[Parent(q)] = v[Parent(q)]
    BY <2>1, <2>2 DEF Leads
  <2>4. ASSUME v[Parent(q)].kind = "array", s[1] = "index", s[2] > 0,
               Append(Parent(q), x) \in DOMAIN v
        PROVE  Append(Parent(q), x) \in D
    <3>1. x \in StepSet
      BY <2>1, <2>4, StepBefore
    <3>2. Parent(q) # <<>>
      BY <2>4 DEF KindOf
    <3>. HIDE DEF x
    <3>. QED
      BY <2>1, <2>4, <3>1, <3>2
  <2>. HIDE DEF D
  <2>5. Leads(w, Parent(q), s)
    BY <2>2, <2>3, <2>4 DEF Leads
  <2>. QED
    BY <2>5 DEF s
<1>5. WellFormed(w)
  <2>1. DOMAIN w = D
    OBVIOUS
  <2>. HIDE DEF w, D
  <2>. QED
    BY <1>2, <1>3, <1>4, <2>1, WellFormedLeads
<1>. QED
  BY <1>5

\* std::map::insert.
LEMMA InsertedIsGood ==
  ASSUME NEW v \in Good, NEW w \in Good, KindOf(v) = "object", NEW k \in Text
  PROVE  Inserted(v, k, w) \in Good /\ KindOf(Inserted(v, k, w)) = "object"
<1>1. WellFormed(v) /\ WellFormed(w)
  BY GoodIsWellFormed
<1>2. WellFormed(PutMember(v, k, w)) /\ KindOf(PutMember(v, k, w)) = "object"
  BY <1>1, BuildingIsWellFormed
<1>. QED
  BY <1>2, GoodIsWellFormed DEF Inserted

-----------------------------------------------------------------------------
(* What is written is what is read *)

\* Values with the same nodes and labels are the same.
LEMMA SameTree ==
  ASSUME NEW a, NEW b, WellFormed(a), WellFormed(b), DOMAIN a = DOMAIN b,
         \A q \in DOMAIN a : a[q] = b[q]
  PROVE  a = b
<1>1. a \in [DOMAIN a -> Labels] /\ b \in [DOMAIN b -> Labels]
  BY DEF WellFormed, IsTree
<1>. QED
  BY <1>1

\* What two paths that are the same have behind the same node is the same.
LEMMA SameRest ==
  ASSUME NEW p \in Nodes, NEW r \in Nodes, NEW t \in Nodes, p \o r = p \o t
  PROVE  r = t
<1>. DEFINE q == p \o r
            u == p \o t
<1>1. SubSeq(q, Len(p) + 1, Len(q)) = r
  BY AboveMeansBelow
<1>2. SubSeq(u, Len(p) + 1, Len(u)) = t
  BY AboveMeansBelow
<1>3. q = u
  OBVIOUS
<1>. HIDE DEF q, u
<1>. QED
  BY <1>1, <1>2, <1>3, Zenon

\* What has been put at a node is there.
LEMMA SubOfGraft ==
  ASSUME NEW v, WellFormed(v), NEW w, WellFormed(w), NEW p \in DOMAIN v
  PROVE  Sub(Graft(v, p, w), p) = w
<1>. DEFINE g == Graft(v, p, w)
            s == Sub(g, p)
<1>1. DOMAIN w \subseteq Nodes /\ p \in Nodes
  BY DEF WellFormed, IsTree, Nodes
<1>2. Grafted(g, v, p, w)
  BY <1>1, GraftNodes
<1>3. WellFormed(g)
  BY GraftIsWellFormed
<1>. HIDE DEF g
<1>4. DOMAIN s = {r \in Nodes : p \o r \in DOMAIN g} /\ \A r \in DOMAIN s : s[r] = g[p \o r]
  BY <1>1, <1>3, SubNodes
<1>5. <<>> \in DOMAIN w
  BY DEF WellFormed
<1>6. \A r \in DOMAIN w : p \o r \in DOMAIN g /\ g[p \o r] = w[r]
  BY <1>2 DEF Grafted
<1>7. p \in DOMAIN g
  <2>1. p \o <<>> = p
    BY <1>1, ConcatEmptySeq DEF Nodes
  <2>. QED
    BY <1>5, <1>6, <2>1
<1>8. WellFormed(s)
  BY <1>3, <1>7, SubIsWellFormed
<1>. HIDE DEF s
<1>9. ASSUME NEW r \in DOMAIN s PROVE r \in DOMAIN w
  <2>1. p \o r \in DOMAIN g /\ r \in Nodes
    BY <1>4
  <2>2. Above(p, p \o r)
    BY <1>1, <2>1, AboveMeansBelow
  <2>3. PICK t \in DOMAIN w : p \o r = p \o t
    <3>. DEFINE q == p \o r
    <3>1. q \in DOMAIN g /\ Above(p, q)
      BY <2>1, <2>2
    <3>. HIDE DEF q
    <3>2. \E t \in DOMAIN w : q = p \o t
      BY <1>2, <3>1 DEF Grafted
    <3>. QED
      BY <3>2 DEF q
  <2>4. r = t
    BY <1>1, <2>1, <2>3, SameRest
  <2>. QED
    BY <2>4
<1>10. ASSUME NEW r \in DOMAIN w PROVE r \in DOMAIN s /\ s[r] = w[r]
  BY <1>1, <1>4, <1>6
<1>. QED
  <2>1. DOMAIN s = DOMAIN w
    BY <1>9, <1>10
  <2>2. s = w
    BY <1>8, <1>10, <2>1, SameTree
  <2>. QED
    BY <2>2 DEF s, g

\* Putting back what is there changes nothing.
LEMMA GraftOfSub ==
  ASSUME NEW v, WellFormed(v), NEW p \in DOMAIN v
  PROVE  Graft(v, p, Sub(v, p)) = v
<1>. DEFINE s == Sub(v, p)
            g == Graft(v, p, s)
<1>1. DOMAIN v \subseteq Nodes /\ p \in Nodes
  BY DEF WellFormed, IsTree, Nodes
<1>2. WellFormed(s)
  BY SubIsWellFormed
<1>3. /\ DOMAIN s = {r \in Nodes : p \o r \in DOMAIN v}
      /\ \A r \in DOMAIN s : s[r] = v[p \o r]
  BY <1>1, SubNodes
<1>. HIDE DEF s
<1>4. Grafted(g, v, p, s) /\ WellFormed(g)
  BY <1>1, <1>2, GraftNodes, GraftIsWellFormed
<1>. HIDE DEF g
<1>5. ASSUME NEW q \in DOMAIN g PROVE q \in DOMAIN v
  BY <1>3, <1>4 DEF Grafted
<1>6. ASSUME NEW q \in DOMAIN v PROVE q \in DOMAIN g /\ g[q] = v[q]
  <2>1. CASE ~Above(p, q)
    BY <1>4, <2>1 DEF Grafted
  <2>2. CASE Above(p, q)
    <3>1. PICK r \in Nodes : q = p \o r
      BY <1>1, <2>2, BelowMeansAbove
    <3>2. r \in DOMAIN s /\ s[r] = v[q]
      BY <1>3, <3>1
    <3>3. p \o r \in DOMAIN g /\ g[p \o r] = s[r]
      BY <1>4, <3>2 DEF Grafted
    <3>. QED
      BY <3>1, <3>2, <3>3
  <2>. QED
    BY <2>1, <2>2
<1>7. DOMAIN g = DOMAIN v
  BY <1>5, <1>6
<1>8. g = v
  BY <1>4, <1>6, <1>7, SameTree
<1>. QED
  BY <1>8 DEF g, s

-----------------------------------------------------------------------------
(* Places *)

Stores == [Variables -> Good]

\* There is a value at place t.
Reaches(ts, t) == \E x \in Variables : \E p \in DOMAIN ts[x] : t = <<x, p>>

\* The places of values are those that nodes are at.
LEMMA ExistReaches == \A t : t \in Exist <=> Reaches(trees, t)
  BY DEF Exist, Places, Reaches

\* What is at a place is a value, and another one may be put there: what was not inside it
\* stays.
LEMMA WithIsStore ==
  ASSUME NEW ts \in Stores, NEW t, Reaches(ts, t)
  PROVE  /\ Sub(ts[t[1]], t[2]) \in Good
         /\ \A v \in Good :
               /\ With(ts, t, v) \in Stores
               /\ Reaches(With(ts, t, v), t)
               /\ \A s : Reaches(ts, s) /\ ~Holds(t, s) => Reaches(With(ts, t, v), s)
<1>1. PICK x \in Variables : \E p \in DOMAIN ts[x] : t = <<x, p>>
  BY DEF Reaches
<1>2. PICK p \in DOMAIN ts[x] : t = <<x, p>>
  BY <1>1
<1>3. ts[x] \in Good /\ WellFormed(ts[x])
  BY GoodIsWellFormed DEF Stores
<1>4. t[1] = x /\ t[2] = p
  BY <1>2
<1>5. Sub(ts[x], p) \in Good
  BY <1>3, SubIsWellFormed, GoodIsWellFormed
<1>6. ASSUME NEW v \in Good
      PROVE  /\ With(ts, t, v) \in Stores
             /\ Reaches(With(ts, t, v), t)
             /\ \A s : Reaches(ts, s) /\ ~Holds(t, s) => Reaches(With(ts, t, v), s)
  <2>. DEFINE g == Graft(ts[x], p, v)
              us == With(ts, t, v)
  <2>1. us = [ts EXCEPT ![x] = g]
    BY <1>4 DEF With
  <2>2. WellFormed(v) /\ p \in Nodes /\ <<>> \in DOMAIN v
    BY <1>3, GoodIsWellFormed DEF WellFormed, IsTree, Nodes
  <2>3. g \in Good
    BY <1>3, <2>2, GraftIsWellFormed, GoodIsWellFormed
  <2>4. Grafted(g, ts[x], p, v)
    BY <1>3, <2>2, GraftNodes
  <2>. HIDE DEF g, us
  <2>5. us \in Stores /\ us[x] = g /\ \A y \in Variables : y # x => us[y] = ts[y]
    BY <2>1, <2>3 DEF Stores
  <2>6. p \in DOMAIN g
    <3>1. p \o <<>> = p
      BY <2>2, ConcatEmptySeq DEF Nodes
    <3>2. p \o <<>> \in DOMAIN g
      BY <2>2, <2>4 DEF Grafted
    <3>. QED
      BY <3>1, <3>2
  <2>7. Reaches(us, t)
    BY <1>2, <2>5, <2>6 DEF Reaches
  <2>8. ASSUME NEW s, Reaches(ts, s), ~Holds(t, s) PROVE Reaches(us, s)
    <3>1. PICK y \in Variables : \E q \in DOMAIN ts[y] : s = <<y, q>>
      BY <2>8 DEF Reaches
    <3>2. PICK q \in DOMAIN ts[y] : s = <<y, q>>
      BY <3>1
    <3>3. s[1] = y /\ s[2] = q
      BY <3>2
    <3>4. y # x \/ ~Above(p, q)
      BY <1>4, <2>8, <3>3 DEF Holds
    <3>5. q \in DOMAIN us[y]
      BY <2>4, <2>5, <3>4 DEF Grafted
    <3>. QED
      BY <3>2, <3>5 DEF Reaches
  <2>. QED
    BY <2>5, <2>7, <2>8 DEF us
<1>. QED
  BY <1>4, <1>5, <1>6

-----------------------------------------------------------------------------
(* Steps *)

HandleRecords == [has_value : BOOLEAN, key : Text, value : Good]

Typed == trees \in Stores /\ handles \in [Handles -> HandleRecords]

PathNames == {"path", "at_path"}
Errors == {"kind_error", "logic_error", "out_of_range"}

\* What FailuresChangeNothing says of a step, and that it is not the access by a path.
Harmless ==
    last'.outcome \in Errors =>
       LET arg == last'.arg
       IN  /\ handles' = handles
           /\ \/ trees' = trees
              \/ arg # <<>> /\ arg[1] = "move" /\ trees' = With(trees, arg[2], Null)
              \/ arg # <<>> /\ arg[1] = "path" /\ Index(SizeMax) \in ToSet(arg[2])

GoodStep == Typed' /\ Harmless /\ last'.name \notin PathNames

\* The ways in which calls end that are not accesses by paths: they do what they do, they
\* fail, or they fail with the argument in hand.
Ended(ts, hs) == \E name, outcome, t, arg :
    name \notin PathNames /\ outcome \notin Errors /\ EndsWith(name, outcome, t, arg, ts, hs)
Failed == \E name, error, t : name \notin PathNames /\ Fails(name, error, t)
GivenUp == \E arg \in Arguments : \E name, t :
    name \notin PathNames /\ Ends(name, "kind_error", t, arg, Given(arg))

LEMMA EndsIsEndsWith ==
  ASSUME NEW name, NEW outcome, NEW t, NEW arg, NEW ts, Ends(name, outcome, t, arg, ts)
  PROVE  EndsWith(name, outcome, t, arg, ts, handles)
  BY DEF Ends, EndsWith

\* A call that does what it does is right if what it leaves are values.
LEMMA EndedIsGood ==
  ASSUME Typed, NEW ts \in Stores, NEW hs \in [Handles -> HandleRecords], Ended(ts, hs)
  PROVE  GoodStep
<1>1. PICK name, outcome, t, arg :
         /\ name \notin PathNames /\ outcome \notin Errors
         /\ EndsWith(name, outcome, t, arg, ts, hs)
  BY DEF Ended
<1>2. /\ trees' = ts /\ handles' = hs
      /\ last' = [name |-> name, outcome |-> outcome, at |-> t, arg |-> arg]
  BY <1>1, Zenon DEF EndsWith
<1>3. last'.name = name /\ last'.outcome = outcome
  BY <1>2
<1>. QED
  BY <1>1, <1>2, <1>3 DEF GoodStep, Harmless, Typed

\* A call that changes nothing is right.
LEMMA FailedIsGood ==
  ASSUME Typed, Failed
  PROVE  GoodStep
<1>1. PICK name, error, t : name \notin PathNames /\ Fails(name, error, t)
  BY DEF Failed
<1>2. /\ trees' = trees /\ handles' = handles
      /\ last' = [name |-> name, outcome |-> error, at |-> t, arg |-> <<>>]
  BY <1>1, Zenon DEF Fails, Ends
<1>3. last'.name = name
  BY <1>2
<1>. QED
  BY <1>1, <1>2, <1>3 DEF GoodStep, Harmless, Typed

LEMMA ConstantsAreGood ==
  /\ Null \in Good /\ EmptyArray \in Good /\ EmptyObject \in Good
  /\ KindOf(EmptyArray) = "array" /\ KindOf(EmptyObject) = "object"
  BY ConstantsAreWellFormed, GoodIsWellFormed

\* An argument is a value; when it has been moved from, there is a null in its place.
LEMMA ArgumentIsGood ==
  ASSUME Typed, NEW arg \in Arguments
  PROVE  /\ Item(arg) \in Good /\ Given(arg) \in Stores
         /\ arg[1] # "move" => Given(arg) = trees
         /\ arg[1] = "move" => Given(arg) = With(trees, arg[2], Null) /\ arg # <<>>
         /\ \A t \in Exist : ~Swallowed(arg, t) =>
               Reaches(Given(arg), t) /\ Receiver(arg, t) \in Good
<1>1. CASE arg \in {<<"fresh", v>> : v \in Fresh}
  <2>1. PICK v \in Fresh : arg = <<"fresh", v>>
    BY <1>1
  <2>2. Item(arg) = v /\ Given(arg) = trees /\ arg[1] # "move"
    BY <2>1 DEF Item, Given
  <2>3. v \in Good
    BY FreshAssumption, GoodIsWellFormed
  <2>4. \A t \in Exist : Receiver(arg, t) \in Good
    BY <2>2, ExistReaches, WithIsStore DEF Typed, Receiver
  <2>. QED
    BY <2>2, <2>3, <2>4, ExistReaches DEF Typed
<1>2. CASE arg \in {"copy", "move"} \X Exist
  <2>1. PICK s \in Exist : arg = <<"copy", s>> \/ arg = <<"move", s>>
    BY <1>2
  <2>2. Reaches(trees, s)
    BY ExistReaches
  <2>3. Item(arg) = At(s) /\ At(s) \in Good /\ arg[2] = s /\ arg # <<>>
    BY <2>1, <2>2, WithIsStore DEF Item, At, Typed
  <2>4. /\ With(trees, s, Null) \in Stores /\ Reaches(With(trees, s, Null), s)
        /\ \A t : Reaches(trees, t) /\ ~Holds(s, t) => Reaches(With(trees, s, Null), t)
    BY <2>2, WithIsStore, ConstantsAreGood DEF Typed
  <2>5. CASE arg[1] = "move"
    <3>1. Given(arg) = With(trees, s, Null)
      BY <2>3, <2>5 DEF Given
    <3>2. ASSUME NEW t \in Exist, ~Swallowed(arg, t) PROVE Reaches(Given(arg), t)
      <4>1. ~Holds(s, t) \/ s = t
        BY <2>3, <2>5, <3>2 DEF Swallowed
      <4>. QED
        BY <2>4, <3>1, <4>1, ExistReaches
    <3>3. \A t \in Exist : ~Swallowed(arg, t) => Receiver(arg, t) \in Good
      BY <2>4, <3>1, <3>2, WithIsStore DEF Receiver
    <3>. QED
      BY <2>3, <2>4, <2>5, <3>1, <3>2, <3>3
  <2>6. CASE arg[1] # "move"
    <3>1. Given(arg) = trees
      BY <2>6 DEF Given
    <3>2. \A t \in Exist : Receiver(arg, t) \in Good
      BY <3>1, ExistReaches, WithIsStore DEF Typed, Receiver
    <3>. QED
      BY <2>3, <2>6, <3>1, <3>2, ExistReaches DEF Typed
  <2>. QED
    BY <2>5, <2>6
<1>. QED
  BY <1>1, <1>2 DEF Arguments

\* A call that fails with an argument in hand is right.
LEMMA GivenUpIsGood ==
  ASSUME Typed, GivenUp
  PROVE  GoodStep
<1>1. PICK arg \in Arguments : \E name, t :
         name \notin PathNames /\ Ends(name, "kind_error", t, arg, Given(arg))
  BY DEF GivenUp
<1>2. PICK name, t : name \notin PathNames /\ Ends(name, "kind_error", t, arg, Given(arg))
  BY <1>1
<1>3. /\ trees' = Given(arg) /\ handles' = handles
      /\ last' = [name |-> name, outcome |-> "kind_error", at |-> t, arg |-> arg]
  BY <1>2, Zenon DEF Ends
<1>4. last'.name = name /\ last'.arg = arg
  BY <1>3
<1>5. /\ Given(arg) \in Stores
      /\ \/ Given(arg) = trees
         \/ arg # <<>> /\ arg[1] = "move" /\ Given(arg) = With(trees, arg[2], Null)
  BY ArgumentIsGood
<1>. QED
  BY <1>2, <1>3, <1>4, <1>5 DEF GoodStep, Harmless, Typed

\* How calls end, in terms of the above.
LEMMA EndsKinds ==
  ASSUME NEW name, name \notin PathNames, NEW t, NEW arg
  PROVE  /\ \A outcome, ts, hs : outcome \notin Errors /\ EndsWith(name, outcome, t, arg, ts, hs) => Ended(ts, hs)
         /\ \A outcome, ts : outcome \notin Errors /\ Ends(name, outcome, t, arg, ts) => Ended(ts, handles)
         /\ \A error : Fails(name, error, t) => Failed
         /\ arg \in Arguments /\ Ends(name, "kind_error", t, arg, Given(arg)) => GivenUp
<1>1. \A outcome, ts, hs : outcome \notin Errors /\ EndsWith(name, outcome, t, arg, ts, hs) => Ended(ts, hs)
  BY Zenon DEF Ended
<1>2. ASSUME NEW outcome, NEW ts, outcome \notin Errors, Ends(name, outcome, t, arg, ts)
      PROVE  Ended(ts, handles)
  BY <1>1, <1>2, EndsIsEndsWith, Zenon
<1>3. \A error : Fails(name, error, t) => Failed
  BY Zenon DEF Failed
<1>4. arg \in Arguments /\ Ends(name, "kind_error", t, arg, Given(arg)) => GivenUp
  BY Zenon DEF GivenUp
<1>. QED
  BY <1>1, <1>2, <1>3, <1>4, Zenon

\* An assignment of a value to what is at a place.
LEMMA AssignedIsGood ==
  ASSUME Typed, NEW t \in Exist, NEW v \in Good, Ended(With(trees, t, v), handles)
  PROVE  GoodStep
<1>1. With(trees, t, v) \in Stores
  BY ExistReaches, WithIsStore DEF Typed
<1>. QED
  BY <1>1, EndedIsGood DEF Typed

\* The end of Take, if Done gives v.
TakenTo(name, kind, t, arg, v) ==
    \/ Swallowed(arg, t) /\ Ends(name, "leaked", t, arg, Given(arg))
    \/ Ends(name, "kind_error", t, arg, Given(arg))
    \/ /\ ~Swallowed(arg, t) /\ KindOf(Receiver(arg, t)) = kind
       /\ Ends(name, "done", t, arg, With(Given(arg), t, v))

\* A call that takes an argument is right if what it makes of it is a value.
LEMMA TakenIsGood ==
  ASSUME Typed, NEW t \in Exist, NEW arg \in Arguments, NEW name, name \notin PathNames,
         NEW kind, NEW v, TakenTo(name, kind, t, arg, v),
         ~Swallowed(arg, t) /\ KindOf(Receiver(arg, t)) = kind => v \in Good
  PROVE  GoodStep
<1>1. "leaked" \notin Errors /\ "done" \notin Errors
  BY DEF Errors
<1>2. Given(arg) \in Stores /\ (~Swallowed(arg, t) => Reaches(Given(arg), t))
  BY ArgumentIsGood
<1>3. CASE Ends(name, "leaked", t, arg, Given(arg))
  <2>1. Ended(Given(arg), handles)
    BY <1>1, <1>3, EndsKinds, Zenon
  <2>. QED
    BY <1>2, <2>1, EndedIsGood DEF Typed
<1>4. CASE Ends(name, "kind_error", t, arg, Given(arg))
  <2>1. GivenUp
    BY <1>4, EndsKinds, Zenon
  <2>. QED
    BY <2>1, GivenUpIsGood
<1>5. CASE /\ ~Swallowed(arg, t) /\ KindOf(Receiver(arg, t)) = kind
           /\ Ends(name, "done", t, arg, With(Given(arg), t, v))
  <2>1. Ended(With(Given(arg), t, v), handles)
    BY <1>1, <1>5, EndsKinds, Zenon
  <2>2. With(Given(arg), t, v) \in Stores
    BY <1>2, <1>5, WithIsStore
  <2>. QED
    BY <2>1, <2>2, EndedIsGood DEF Typed
<1>. QED
  BY <1>3, <1>4, <1>5 DEF TakenTo

-----------------------------------------------------------------------------
(* The actions of value.cpp *)

\* What is at a place is a value.
LEMMA AtIsGood ==
  ASSUME Typed, NEW t \in Exist
  PROVE  Reaches(trees, t) /\ At(t) \in Good
  BY ExistReaches, WithIsStore DEF Typed, At

\* None of the other calls is the access by a path, and these are not errors.
LEMMA Names ==
  /\ \A n \in {"copy_assign", "move_assign", "construct", "swap", "clear", "push_back",
               "push_front", "insert", "pop", "erase", "resize", "assign", "insert_range",
               "subscript", "insert_pair", "erase_key", "at", "at_key", "extract",
               "insert_hint_handle", "insert_handle", "move_handle", "drop_handle"} :
        n \notin PathNames
  /\ \A o \in {"done", "leaked", "undefined"} : o \notin Errors
  BY DEF PathNames, Errors

LEMMA CopyAssignIsGood == ASSUME Typed, CopyAssign PROVE GoodStep
<1>1. PICK t, s \in Exist :
         Ends("copy_assign", "done", t, <<"copy", s>>, With(trees, t, At(s)))
  BY DEF CopyAssign
<1>2. Ended(With(trees, t, At(s)), handles)
  BY <1>1, Names, EndsKinds
<1>. QED
  BY <1>2, AtIsGood, AssignedIsGood

LEMMA ConstructIsGood == ASSUME Typed, Construct PROVE GoodStep
<1>1. PICK t \in Exist, v \in Fresh :
         Ends("construct", "done", t, <<"fresh", v>>, With(trees, t, v))
  BY DEF Construct
<1>2. Ended(With(trees, t, v), handles)
  BY <1>1, Names, EndsKinds
<1>3. v \in Good
  BY FreshAssumption, GoodIsWellFormed
<1>. QED
  BY <1>2, <1>3, AssignedIsGood

LEMMA ClearIsGood == ASSUME Typed, Clear PROVE GoodStep
<1>1. PICK t \in Exist : Ends("clear", "done", t, <<>>, With(trees, t, Null))
  BY DEF Clear
<1>2. Ended(With(trees, t, Null), handles)
  BY <1>1, Names, EndsKinds
<1>. QED
  BY <1>2, ConstantsAreGood, AssignedIsGood

LEMMA MoveAssignIsGood == ASSUME Typed, MoveAssign PROVE GoodStep
<1>1. PICK t, s \in Exist :
         \/ Ends("move_assign", "done", t, <<"move", s>>, trees)
         \/ Ends("move_assign", "undefined", t, <<"move", s>>, trees)
         \/ Ends("move_assign", "leaked", t, <<"move", s>>, With(trees, s, Null))
         \/ /\ Disjoint(s, t)
            /\ Ends("move_assign", "done", t, <<"move", s>>, With(With(trees, s, Null), t, At(s)))
  BY Zenon DEF MoveAssign, Disjoint
<1>2. CASE \/ Ends("move_assign", "done", t, <<"move", s>>, trees)
           \/ Ends("move_assign", "undefined", t, <<"move", s>>, trees)
  <2>1. Ended(trees, handles)
    BY <1>2, Names, EndsKinds
  <2>. QED
    BY <2>1, EndedIsGood DEF Typed
<1>3. CASE Ends("move_assign", "leaked", t, <<"move", s>>, With(trees, s, Null))
  <2>1. Ended(With(trees, s, Null), handles)
    BY <1>3, Names, EndsKinds
  <2>. QED
    BY <2>1, ConstantsAreGood, AssignedIsGood
<1>4. CASE /\ Disjoint(s, t)
           /\ Ends("move_assign", "done", t, <<"move", s>>, With(With(trees, s, Null), t, At(s)))
  <2>1. Ended(With(With(trees, s, Null), t, At(s)), handles)
    BY <1>4, Names, EndsKinds
  <2>2. With(trees, s, Null) \in Stores /\ Reaches(With(trees, s, Null), t)
    BY <1>4, AtIsGood, WithIsStore, ConstantsAreGood DEF Typed, Disjoint
  <2>3. With(With(trees, s, Null), t, At(s)) \in Stores
    BY <2>2, AtIsGood, WithIsStore
  <2>. QED
    BY <2>1, <2>3, EndedIsGood DEF Typed
<1>. QED
  BY <1>1, <1>2, <1>3, <1>4

LEMMA SwapIsGood == ASSUME Typed, Swap PROVE GoodStep
<1>1. PICK t, s \in Exist :
         \/ /\ (Disjoint(s, t) \/ s = t)
            /\ Ends("swap", "done", t, <<"swap", s>>, With(With(trees, s, At(t)), t, At(s)))
         \/ Ends("swap", "leaked", t, <<"swap", s>>, With(trees, s, At(t)))
  BY Zenon DEF Swap
<1>2. CASE /\ Disjoint(s, t) \/ s = t
           /\ Ends("swap", "done", t, <<"swap", s>>, With(With(trees, s, At(t)), t, At(s)))
  <2>1. Ended(With(With(trees, s, At(t)), t, At(s)), handles)
    BY <1>2, Names, EndsKinds
  <2>2. With(trees, s, At(t)) \in Stores /\ Reaches(With(trees, s, At(t)), t)
    BY <1>2, AtIsGood, WithIsStore DEF Typed, Disjoint
  <2>3. With(With(trees, s, At(t)), t, At(s)) \in Stores
    BY <2>2, AtIsGood, WithIsStore
  <2>. QED
    BY <2>1, <2>3, EndedIsGood DEF Typed
<1>3. CASE Ends("swap", "leaked", t, <<"swap", s>>, With(trees, s, At(t)))
  <2>1. Ended(With(trees, s, At(t)), handles)
    BY <1>3, Names, EndsKinds
  <2>. QED
    BY <2>1, AtIsGood, AssignedIsGood
<1>. QED
  BY <1>1, <1>2, <1>3

-----------------------------------------------------------------------------
(* The actions of array.cpp *)

\* An array with one element more.
LEMMA InsertedAtIsGood ==
  ASSUME NEW v \in Good, KindOf(v) = "array", NEW i \in 0 .. Size(v), NEW w \in Good
  PROVE  InsertedAt(v, i, w) \in Good
<1>1. Elements(v) \in Seq(Good) /\ Len(Elements(v)) = Size(v)
  BY ElementsAreGood
<1>. DEFINE es == Elements(v)
<1>2. i \in 0 .. Len(es) /\ es \in Seq(Good)
  BY <1>1
<1>. HIDE DEF es
<1>3. InsertAt(es, i + 1, w) \in Seq(Good)
  BY <1>2, InsertAtIsSequence
<1>4. ArrayOf(InsertAt(es, i + 1, w)) \in Good
  BY <1>3, ArrayIsGood
<1>. QED
  BY <1>4 DEF InsertedAt, es

\* The null.
LEMMA NullLabel == DOMAIN Null = {<<>>} /\ Null[<<>>].kind = "null" /\ Null \in Good
<1>1. Label("null", "").kind = "null"
  BY DEF Label
<1>. QED
  BY <1>1, ConstantsAreWellFormed, GoodIsWellFormed DEF Null, Leaf

\* The steps from the root of a value.
LEMMA StepsOfValue ==
  ASSUME NEW v, WellFormed(v)
  PROVE  /\ Steps(v) = {s \in StepSet : <<s>> \in DOMAIN v}
         /\ IsFiniteSet(Steps(v)) /\ Size(v) = Cardinality(Steps(v)) /\ Size(v) \in Nat
<1>. DEFINE Q == {q \in DOMAIN v : Len(q) = 1}
            f == [q \in Q |-> q[1]]
<1>1. DOMAIN v \subseteq Nodes /\ IsFiniteSet(DOMAIN v)
  BY DEF WellFormed, IsTree, Nodes
<1>2. IsFiniteSet(Q)
  BY <1>1, FS_Subset
<1>3. Steps(v) = {q[1] : q \in Q}
  BY DEF Steps
<1>4. f \in Surjection(Q, Steps(v))
  BY <1>3 DEF Surjection
<1>. HIDE DEF f
<1>5. ASSUME NEW q \in Q PROVE q[1] \in StepSet /\ q = <<q[1]>>
  <2>. DEFINE one == <<q[1]>>
  <2>1. q \in Nodes /\ Len(q) = 1
    BY <1>1
  <2>0. q[1] \in StepSet
    <3>1. 1 \in 1 .. Len(q)
      BY <2>1
    <3>. QED
      BY <2>1, <3>1, ElementOfSeq DEF Nodes
  <2>2. one \in Nodes /\ Len(one) = 1 /\ \A i \in 1 .. 1 : one[i] = q[i]
    BY <2>0 DEF Nodes
  <2>. HIDE DEF one
  <2>3. one = q
    BY <2>1, <2>2, SeqEqual DEF Nodes
  <2>. QED
    BY <2>0, <2>3 DEF one
<1>6. \A s \in StepSet : Len(<<s>>) = 1 /\ <<s>>[1] = s
  OBVIOUS
<1>7. Steps(v) = {s \in StepSet : <<s>> \in DOMAIN v}
  BY <1>3, <1>5, <1>6
<1>. HIDE DEF Q
<1>8. IsFiniteSet(Steps(v))
  BY <1>2, <1>4, FS_Surjection
<1>. QED
  BY <1>7, <1>8, FS_CardinalityType DEF Size

\* What has been moved out of an array or an object leaves a null in it, so it has as many
\* elements as before, and a position in it is one still.
LEMMA GivenKeepsSize ==
  ASSUME Typed, NEW t \in Exist, NEW arg \in Arguments, ~Swallowed(arg, t),
         KindOf(Receiver(arg, t)) # "null"
  PROVE  Size(Receiver(arg, t)) = Size(At(t))
<1>1. CASE arg[1] # "move"
  BY <1>1, ArgumentIsGood DEF Receiver, At
<1>2. CASE arg[1] = "move"
  <2>1. PICK s \in Exist : arg = <<"move", s>>
    BY <1>2 DEF Arguments
  <2>2. ~Holds(s, t) \/ s = t
    BY <2>1 DEF Swallowed
  <2>3. PICK x \in Variables : \E p \in DOMAIN trees[x] : t = <<x, p>>
    BY ExistReaches DEF Reaches
  <2>4. PICK p \in DOMAIN trees[x] : t = <<x, p>>
    BY <2>3
  <2>5. PICK y \in Variables : \E q \in DOMAIN trees[y] : s = <<y, q>>
    BY ExistReaches DEF Reaches
  <2>6. PICK q \in DOMAIN trees[y] : s = <<y, q>>
    BY <2>5
  <2>. DEFINE v == trees[x]
              g == Graft(trees[y], q, Null)
              us == [trees EXCEPT ![y] = g]
  <2>7. Given(arg) = us
    BY <2>1, <2>6 DEF Given, With
  <2>8. Receiver(arg, t) = Sub(us[x], p) /\ At(t) = Sub(v, p)
    BY <2>4, <2>7 DEF Receiver, At
  <2>9. trees[x] \in Good /\ trees[y] \in Good /\ WellFormed(trees[x]) /\ WellFormed(trees[y])
    BY GoodIsWellFormed DEF Typed, Stores
  <2>10. p \in Nodes /\ q \in Nodes /\ DOMAIN trees[x] \subseteq Nodes
    BY <2>9 DEF WellFormed, IsTree, Nodes
  <2>11. WellFormed(Null) /\ WellFormed(g) /\ Grafted(g, trees[y], q, Null)
    BY <2>9, <2>10, ConstantsAreWellFormed, GraftIsWellFormed, GraftNodes
  <2>12. DOMAIN Null = {<<>>} /\ KindOf(Null) = "null" /\ q \o <<>> = q
    BY <2>10, ConcatEmptySeq, NullLabel DEF KindOf, Nodes
  <2>. HIDE DEF g
  <2>13. CASE x # y
    <3>1. us[x] = v
      BY <2>13 DEF Typed, Stores
    <3>. QED
      BY <2>8, <3>1
  <2>14. CASE s = t
    <3>1. x = y /\ p = q
      BY <2>4, <2>6, <2>14
    <3>2. us[x] = g
      BY <3>1 DEF Typed, Stores
    <3>3. Sub(g, p) = Null
      BY <2>9, <2>11, <3>1, SubOfGraft DEF g
    <3>. QED
      BY <2>8, <2>12, <3>2, <3>3
  <2>15. CASE x = y /\ ~Holds(s, t)
    <3>1. us[x] = g /\ ~Above(q, p)
      BY <2>4, <2>6, <2>15 DEF Typed, Stores, Holds
    <3>. DEFINE a == Sub(g, p)
                b == Sub(v, p)
    <3>2. p \in DOMAIN g /\ g[p] = v[p]
      BY <2>11, <2>15, <3>1 DEF Grafted
    <3>3. /\ DOMAIN a = {r \in Nodes : p \o r \in DOMAIN g} /\ \A r \in DOMAIN a : a[r] = g[p \o r]
          /\ DOMAIN b = {r \in Nodes : p \o r \in DOMAIN v} /\ \A r \in DOMAIN b : b[r] = v[p \o r]
      BY <2>9, <2>10, <2>11, SubNodes
    <3>4. WellFormed(a) /\ WellFormed(b)
      BY <2>9, <2>11, <3>2, SubIsWellFormed
    <3>. HIDE DEF a, b
    <3>5. ASSUME NEW z \in StepSet PROVE <<z>> \in DOMAIN a <=> <<z>> \in DOMAIN b
      <4>. DEFINE n == p \o <<z>>
      <4>1. <<z>> \in Nodes /\ n = Append(p, z)
        BY <2>10, AppendIsConcat DEF Nodes
      <4>. HIDE DEF n
      <4>2. n \in DOMAIN g => n \in DOMAIN v
        BY <2>6, <2>11, <2>12, <2>15 DEF Grafted
      <4>3. n \in DOMAIN v => n \in DOMAIN g
        <5>1. ASSUME n \in DOMAIN v, ~Above(q, n) PROVE n \in DOMAIN g
          BY <2>11, <2>15, <5>1 DEF Grafted
        <5>2. ASSUME n \in DOMAIN v, Above(q, n) PROVE n \in DOMAIN g
          <6>1. q = n
            BY <2>10, <3>1, <4>1, <5>2, Beside
          <6>2. q \o <<>> \in DOMAIN g
            BY <2>11, <2>12 DEF Grafted
          <6>. QED
            BY <2>12, <6>1, <6>2
        <5>. QED
          BY <5>1, <5>2
      <4>. QED
        BY <3>3, <4>1, <4>2, <4>3 DEF n
    <3>6. Steps(a) = Steps(b)
      BY <3>4, <3>5, StepsOfValue
    <3>7. Size(a) = Size(b)
      BY <3>6 DEF Size
    <3>. QED
      BY <2>8, <3>1, <3>7 DEF a, b
  <2>. QED
    BY <2>2, <2>13, <2>14, <2>15
<1>. QED
  BY <1>1, <1>2

LEMMA ArrayPushBackIsGood == ASSUME Typed, ArrayPushBack PROVE GoodStep
<1>1. PICK t \in Exist, arg \in Arguments :
         LET v == Receiver(arg, t)
         IN  TakenTo("push_back", "array", t, arg, InsertedAt(v, Size(v), Item(arg)))
  BY Zenon DEF ArrayPushBack, Take, TakenTo
<1>. DEFINE v == Receiver(arg, t)
<1>2. ASSUME ~Swallowed(arg, t), KindOf(v) = "array" PROVE InsertedAt(v, Size(v), Item(arg)) \in Good
  <2>1. v \in Good /\ Item(arg) \in Good
    BY <1>2, ArgumentIsGood
  <2>. HIDE DEF v
  <2>2. Size(v) \in 0 .. Size(v)
    BY <1>2, <2>1, ElementsAreGood
  <2>. QED
    BY <1>2, <2>1, <2>2, InsertedAtIsGood
<1>. QED
  BY <1>1, <1>2, Names, TakenIsGood

LEMMA ArrayPushFrontIsGood == ASSUME Typed, ArrayPushFront PROVE GoodStep
<1>1. PICK t \in Exist, arg \in Arguments :
         TakenTo("push_front", "array", t, arg, InsertedAt(Receiver(arg, t), 0, Item(arg)))
  BY Zenon DEF ArrayPushFront, Take, TakenTo
<1>. DEFINE v == Receiver(arg, t)
<1>2. ASSUME ~Swallowed(arg, t), KindOf(v) = "array" PROVE InsertedAt(v, 0, Item(arg)) \in Good
  <2>1. v \in Good /\ Item(arg) \in Good
    BY <1>2, ArgumentIsGood
  <2>. HIDE DEF v
  <2>2. 0 \in 0 .. Size(v)
    BY <1>2, <2>1, ElementsAreGood
  <2>. QED
    BY <1>2, <2>1, <2>2, InsertedAtIsGood
<1>. QED
  BY <1>1, <1>2, Names, TakenIsGood

LEMMA ArrayInsertIsGood == ASSUME Typed, ArrayInsert PROVE GoodStep
<1>0. PICK t \in Exist, arg \in Arguments : \E i \in 0 .. Size(At(t)) :
         TakenTo("insert", "array", t, arg, InsertedAt(Receiver(arg, t), i, Item(arg)))
  BY Zenon DEF ArrayInsert, Take, TakenTo
<1>1. PICK i \in 0 .. Size(At(t)) :
         TakenTo("insert", "array", t, arg, InsertedAt(Receiver(arg, t), i, Item(arg)))
  BY <1>0
<1>. DEFINE v == Receiver(arg, t)
<1>2. ASSUME ~Swallowed(arg, t), KindOf(v) = "array" PROVE InsertedAt(v, i, Item(arg)) \in Good
  <2>1. v \in Good /\ Item(arg) \in Good /\ Size(v) = Size(At(t))
    BY <1>2, ArgumentIsGood, GivenKeepsSize
  <2>. HIDE DEF v
  <2>. QED
    BY <1>2, <2>1, InsertedAtIsGood
<1>. QED
  BY <1>1, <1>2, Names, TakenIsGood

\* The elements of an array with a range of itself inserted are elements of it.
LEMMA MovingIsSequence ==
  ASSUME NEW S, NEW es \in Seq(S), NEW i \in 0 .. Len(es)
  PROVE  Moving(es, i, Len(es)) \in Seq(S)
<1>. DEFINE n == Len(es)
            Step(g, k) == InsertAt(g, i + k, g[k])
            h == [x \in Seq(S) \X (1 .. n) |->
                    IF Step(x[1], x[2]) \in Seq(S) THEN Step(x[1], x[2]) ELSE es]
            Defines(g) == g = [k \in 0 .. n |-> IF k = 0 THEN es ELSE Step(g[k - 1], k)]
            after == CHOOSE g : Defines(g)
<1>1. n \in Nat
  BY LenProperties
<1>2. h \in [Seq(S) \X (1 .. n) -> Seq(S)]
  <2>. HIDE DEF Step
  <2>. QED
    OBVIOUS
<1>3. PICK f \in [0 .. n -> Seq(S)] : f[0] = es /\ \A k \in 1 .. n : f[k] = h[<<f[k - 1], k>>]
  <2>. DEFINE R == Seq(S)
  <2>1. h \in [R \X (1 .. n) -> R] /\ es \in R
    BY <1>2
  <2>. HIDE DEF h, n, R
  <2>2. \E f \in [0 .. n -> R] : Iterates(f, n, es, h)
    BY <1>1, <2>1, Iteration
  <2>. QED
    BY <2>2 DEF R, Iterates
<1>4. ASSUME NEW k \in 1 .. n, Len(f[k - 1]) = n + (k - 1)
      PROVE  Len(f[k]) = n + k /\ f[k] = Step(f[k - 1], k)
  <2>. DEFINE g == f[k - 1]
              j == i + k - 1
  <2>. HIDE DEF n
  <2>1. g \in Seq(S) /\ k \in 1 .. Len(g) /\ j \in 0 .. Len(g) /\ i + k = j + 1
    BY <1>1, <1>3, <1>4, SMTT(20) DEF n
  <2>. HIDE DEF g, j
  <2>2. g[k] \in S
    BY <2>1, ElementOfSeq
  <2>3. InsertAt(g, j + 1, g[k]) \in Seq(S) /\ Len(InsertAt(g, j + 1, g[k])) = Len(g) + 1
    <3>. DEFINE e == g[k]
    <3>1. e \in S /\ g \in Seq(S) /\ j \in 0 .. Len(g)
      BY <2>1, <2>2
    <3>. HIDE DEF e
    <3>2. InsertAt(g, j + 1, e) \in Seq(S) /\ Len(InsertAt(g, j + 1, e)) = Len(g) + 1
      BY <3>1, InsertAtIsSequence
    <3>. QED
      BY <3>2 DEF e
  <2>4. Step(g, k) \in Seq(S) /\ Len(Step(g, k)) = Len(g) + 1
    BY <2>1, <2>3
  <2>. HIDE DEF Step
  <2>5. f[k] = Step(g, k)
    BY <1>3, <2>1, <2>4 DEF g
  <2>. QED
    BY <1>1, <1>4, <2>4, <2>5 DEF g
<1>. HIDE DEF Step, h
<1>5. \A k \in 0 .. n : Len(f[k]) = n + k
  <2>. DEFINE T == {k \in 0 .. n : Len(f[k]) = n + k}
  <2>1. 0 \in T
    BY <1>1, <1>3
  <2>2. ASSUME NEW k \in 1 .. n, k - 1 \in T PROVE k \in T
    BY <1>4, <2>2
  <2>. HIDE DEF T, n
  <2>3. 0 .. n \subseteq T
    BY <1>1, <2>1, <2>2, InductionUpto
  <2>. QED
    BY <2>3 DEF T
<1>6. ASSUME NEW k \in 1 .. n PROVE f[k] = Step(f[k - 1], k)
  <2>1. k - 1 \in 0 .. n
    BY <1>1
  <2>2. Len(f[k - 1]) = n + (k - 1)
    BY <1>5, <2>1
  <2>. QED
    BY <1>4, <2>2
<1>7. Defines(f)
  BY <1>3, <1>6
<1>8. Defines(after)
  <2>. HIDE DEF Defines
  <2>. QED
    BY <1>7
<1>. HIDE DEF after
<1>9. \A k \in 0 .. n : after[k] = f[k]
  <2>. DEFINE T == {k \in 0 .. n : after[k] = f[k]}
  <2>1. 0 \in T
    BY <1>1, <1>3, <1>8
  <2>2. ASSUME NEW k \in 1 .. n, k - 1 \in T PROVE k \in T
    BY <1>6, <1>8, <2>2
  <2>. HIDE DEF T, n
  <2>3. 0 .. n \subseteq T
    BY <1>1, <2>1, <2>2, InductionUpto
  <2>. QED
    BY <2>3 DEF T
<1>10. Moving(es, i, n) = after[n]
  BY DEF Moving, after, Step
<1>. QED
  BY <1>1, <1>3, <1>9, <1>10

\* A call that changes the elements of an array has failed, or has been called on one.
LEMMA ElementwiseCases ==
  ASSUME Typed, NEW t \in Exist, NEW name, name \notin PathNames, NEW es,
         \/ t \in NotOf("array") /\ Fails(name, "kind_error", t)
         \/ t \notin NotOf("array") /\ Ends(name, "done", t, <<>>, With(trees, t, ArrayOf(es))),
         KindOf(At(t)) = "array" => es \in Seq(Good)
  PROVE  GoodStep
<1>1. CASE t \in NotOf("array") /\ Fails(name, "kind_error", t)
  BY <1>1, EndsKinds, FailedIsGood
<1>2. CASE t \notin NotOf("array") /\ Ends(name, "done", t, <<>>, With(trees, t, ArrayOf(es)))
  <2>1. KindOf(At(t)) = "array"
    BY <1>2 DEF NotOf, Of
  <2>2. ArrayOf(es) \in Good
    BY <2>1, ArrayIsGood
  <2>3. Ended(With(trees, t, ArrayOf(es)), handles)
    BY <1>2, Names, EndsKinds
  <2>. QED
    BY <2>2, <2>3, AssignedIsGood
<1>. QED
  BY <1>1, <1>2

LEMMA ArrayPopIsGood == ASSUME Typed, ArrayPop PROVE GoodStep
<1>1. PICK t \in Exist, back \in BOOLEAN :
         LET es == Elements(At(t))
             rest == IF back THEN Front(es) ELSE Tail(es)
         IN  \/ Fails("pop", "logic_error", t)
             \/ /\ ~(t \in Of("array") /\ Size(At(t)) = 0)
                /\ \/ t \in NotOf("array") /\ Fails("pop", "kind_error", t)
                   \/ /\ t \notin NotOf("array")
                      /\ Ends("pop", "done", t, <<>>, With(trees, t, ArrayOf(rest)))
  BY Zenon DEF ArrayPop, Elementwise
<1>2. CASE Fails("pop", "logic_error", t)
  BY <1>2, Names, EndsKinds, FailedIsGood
<1>. DEFINE es == Elements(At(t))
            rest == IF back THEN Front(es) ELSE Tail(es)
<1>3. CASE /\ ~(t \in Of("array") /\ Size(At(t)) = 0)
           /\ \/ t \in NotOf("array") /\ Fails("pop", "kind_error", t)
              \/ /\ t \notin NotOf("array")
                 /\ Ends("pop", "done", t, <<>>, With(trees, t, ArrayOf(rest)))
  <2>1. ASSUME KindOf(At(t)) = "array" PROVE rest \in Seq(Good)
    <3>1. es \in Seq(Good) /\ Len(es) = Size(At(t)) /\ Size(At(t)) \in Nat /\ Size(At(t)) # 0
      BY <1>3, <2>1, AtIsGood, ElementsAreGood DEF Of
    <3>. HIDE DEF es
    <3>2. Len(es) - 1 \in 0 .. Len(es) /\ Len(es) - 1 \in Len(es) - 1 .. Len(es) /\ es # <<>>
      BY <3>1
    <3>3. SubSeq(es, 1, Len(es) - 1) \in Seq(Good)
      BY <3>1, <3>2, PartsOfSequence
    <3>4. Tail(es) \in Seq(Good)
      BY <3>1, <3>2, HeadTailProperties
    <3>. QED
      BY <3>3, <3>4 DEF Front
  <2>. HIDE DEF rest
  <2>. QED
    BY <1>3, <2>1, Names, ElementwiseCases
<1>. QED
  BY <1>1, <1>2, <1>3

LEMMA ArrayEraseIsGood == ASSUME Typed, ArrayErase PROVE GoodStep
<1>0. PICK t \in Exist : \E i, j \in 0 .. Size(At(t)) :
         LET es == Elements(At(t))
             rest == SubSeq(es, 1, i) \o SubSeq(es, j + 1, Len(es))
         IN  /\ i <= j
             /\ \/ t \in NotOf("array") /\ Fails("erase", "kind_error", t)
                \/ /\ t \notin NotOf("array")
                   /\ Ends("erase", "done", t, <<>>, With(trees, t, ArrayOf(rest)))
  BY Zenon DEF ArrayErase, Elementwise
<1>. DEFINE es == Elements(At(t))
            rest(i, j) == SubSeq(es, 1, i) \o SubSeq(es, j + 1, Len(es))
<1>1. PICK i, j \in 0 .. Size(At(t)) :
         /\ i <= j
         /\ \/ t \in NotOf("array") /\ Fails("erase", "kind_error", t)
            \/ /\ t \notin NotOf("array")
               /\ Ends("erase", "done", t, <<>>, With(trees, t, ArrayOf(rest(i, j))))
  BY <1>0, Zenon
<1>2. ASSUME KindOf(At(t)) = "array" PROVE rest(i, j) \in Seq(Good)
  <2>1. es \in Seq(Good) /\ Len(es) = Size(At(t)) /\ Size(At(t)) \in Nat
    BY <1>2, AtIsGood, ElementsAreGood
  <2>. HIDE DEF es
  <2>2. i \in 0 .. Len(es) /\ j \in i .. Len(es)
    BY <1>1, <2>1
  <2>3. SubSeq(es, 1, i) \in Seq(Good) /\ SubSeq(es, j + 1, Len(es)) \in Seq(Good)
    BY <2>1, <2>2, PartsOfSequence
  <2>. QED
    BY <2>3, ConcatProperties
<1>. HIDE DEF rest
<1>. QED
  BY <1>1, <1>2, Names, ElementwiseCases

\* A resized sequence.
LEMMA ResizedIsSequence ==
  ASSUME NEW S, NEW es \in Seq(S), NEW n \in Nat, NEW v \in S
  PROVE  Resized(es, n, v) \in Seq(S) /\ Len(Resized(es, n, v)) = n
<1>1. Len(es) \in Nat /\ \A i \in 1 .. Len(es) : es[i] \in S
  BY LenProperties, ElementOfSeq
<1>2. Resized(es, n, v) \in [1 .. n -> S]
  BY <1>1 DEF Resized
<1>. QED
  BY <1>2, SeqDef, LenProperties

LEMMA ArrayResizeIsGood == ASSUME Typed, ArrayResize PROVE GoodStep
<1>1. PICK t \in Exist, s \in Exist, n \in 0 .. 2 :
         \/ t \in NotOf("array") /\ Fails("resize", "kind_error", t)
         \/ /\ t \notin NotOf("array")
            /\ Ends("resize", "done", t, <<>>,
                    With(trees, t, ArrayOf(Resized(Elements(At(t)), n, At(s)))))
  BY Zenon DEF ArrayResize, Elementwise
<1>2. ASSUME KindOf(At(t)) = "array" PROVE Resized(Elements(At(t)), n, At(s)) \in Seq(Good)
  <2>1. Elements(At(t)) \in Seq(Good) /\ At(s) \in Good /\ n \in Nat
    BY <1>2, AtIsGood, ElementsAreGood
  <2>. QED
    BY <2>1, ResizedIsSequence
<1>. QED
  BY <1>1, <1>2, Names, ElementwiseCases

LEMMA ArrayAssignIsGood == ASSUME Typed, ArrayAssign PROVE GoodStep
<1>1. PICK t \in Exist, s \in Exist, n \in 0 .. 2 :
         \/ Fails("assign", "undefined", t)
         \/ t \in NotOf("array") /\ Fails("assign", "kind_error", t)
         \/ /\ t \notin NotOf("array")
            /\ Ends("assign", "done", t, <<>>, With(trees, t, ArrayOf([i \in 1 .. n |-> At(s)])))
  BY Zenon DEF ArrayAssign, Elementwise
<1>2. CASE Fails("assign", "undefined", t)
  BY <1>2, Names, EndsKinds, FailedIsGood
<1>3. [i \in 1 .. n |-> At(s)] \in Seq(Good)
  <2>1. [i \in 1 .. n |-> At(s)] \in [1 .. n -> Good] /\ n \in Nat
    BY AtIsGood
  <2>. QED
    BY <2>1, SeqDef
<1>. DEFINE es == [i \in 1 .. n |-> At(s)]
<1>4. CASE \/ t \in NotOf("array") /\ Fails("assign", "kind_error", t)
           \/ t \notin NotOf("array") /\ Ends("assign", "done", t, <<>>, With(trees, t, ArrayOf(es)))
  <2>1. es \in Seq(Good)
    BY <1>3
  <2>. HIDE DEF es
  <2>. QED
    BY <1>4, <2>1, Names, ElementwiseCases
<1>. QED
  BY <1>1, <1>2, <1>4

LEMMA ArrayInsertRangeIsGood == ASSUME Typed, ArrayInsertRange PROVE GoodStep
<1>. DEFINE longer(t, s, i) ==
              LET es == Elements(At(t))
              IN  IF s = t THEN Moving(es, i, Size(At(t)))
                  ELSE SubSeq(es, 1, i) \o Elements(At(s)) \o SubSeq(es, i + 1, Size(At(t)))
<1>1. PICK t \in Of("array"), s \in Of("array") : \E i \in 0 .. Size(At(t)) :
         Ends("insert_range", "done", t, <<"copy", s>>, With(trees, t, ArrayOf(longer(t, s, i))))
  BY Zenon DEF ArrayInsertRange
<1>2. PICK i \in 0 .. Size(At(t)) :
         Ends("insert_range", "done", t, <<"copy", s>>, With(trees, t, ArrayOf(longer(t, s, i))))
  BY <1>1
<1>3. t \in Exist /\ s \in Exist /\ KindOf(At(t)) = "array" /\ KindOf(At(s)) = "array"
  BY DEF Of
<1>. DEFINE es == Elements(At(t))
            fs == Elements(At(s))
<1>4. /\ es \in Seq(Good) /\ Len(es) = Size(At(t)) /\ Size(At(t)) \in Nat
      /\ fs \in Seq(Good)
  BY <1>3, AtIsGood, ElementsAreGood
<1>5. longer(t, s, i) \in Seq(Good)
  <2>. HIDE DEF es, fs
  <2>1. i \in 0 .. Len(es) /\ i \in i .. Len(es)
    BY <1>4
  <2>2. Moving(es, i, Len(es)) \in Seq(Good)
    BY <1>4, <2>1, MovingIsSequence
  <2>. DEFINE a == SubSeq(es, 1, i)
              b == SubSeq(es, i + 1, Len(es))
  <2>3. a \in Seq(Good) /\ b \in Seq(Good)
    BY <1>4, <2>1, PartsOfSequence
  <2>. HIDE DEF a, b
  <2>4. a \o fs \o b \in Seq(Good)
    BY <1>4, <2>3, ConcatProperties
  <2>5. longer(t, s, i) = IF s = t THEN Moving(es, i, Len(es)) ELSE a \o fs \o b
    BY <1>4 DEF es, fs, a, b
  <2>. QED
    BY <2>2, <2>4, <2>5
<1>. HIDE DEF longer
<1>6. Ended(With(trees, t, ArrayOf(longer(t, s, i))), handles)
  BY <1>2, Names, EndsKinds
<1>. QED
  BY <1>3, <1>5, <1>6, ArrayIsGood, AssignedIsGood

LEMMA AtsAreGood == ASSUME Typed, ArrayAt \/ ObjectAt PROVE GoodStep
<1>1. Failed
  <2>1. CASE ArrayAt
    <3>1. PICK t, error : Fails("at", error, t)
      BY <2>1 DEF ArrayAt
    <3>. QED
      BY <3>1, Names, EndsKinds
  <2>2. CASE ObjectAt
    <3>1. PICK t, error : Fails("at_key", error, t)
      BY <2>2 DEF ObjectAt
    <3>. QED
      BY <3>1, Names, EndsKinds
  <2>. QED
    BY <2>1, <2>2
<1>. QED
  BY <1>1, FailedIsGood

-----------------------------------------------------------------------------
(* The actions of object.cpp *)

\* The keys of the program are texts.
LEMMA KeysAreText == ASSUME NEW k \in Keys PROVE k \in Text
  BY KeysAssumption

\* A call that changes the members of an object has failed, or has been called on one.
LEMMA MemberwiseCases ==
  ASSUME Typed, NEW t \in Exist, NEW name, name \notin PathNames, NEW v,
         \/ t \in NotOf("object") /\ Fails(name, "kind_error", t)
         \/ t \notin NotOf("object") /\ Ends(name, "done", t, <<>>, With(trees, t, v)),
         KindOf(At(t)) = "object" => v \in Good
  PROVE  GoodStep
<1>1. CASE t \in NotOf("object") /\ Fails(name, "kind_error", t)
  BY <1>1, EndsKinds, FailedIsGood
<1>2. CASE t \notin NotOf("object") /\ Ends(name, "done", t, <<>>, With(trees, t, v))
  <2>1. KindOf(At(t)) = "object"
    BY <1>2 DEF NotOf, Of
  <2>2. Ended(With(trees, t, v), handles)
    BY <1>2, Names, EndsKinds
  <2>. QED
    BY <2>1, <2>2, AssignedIsGood
<1>. QED
  BY <1>1, <1>2

LEMMA ObjectSubscriptIsGood == ASSUME Typed, ObjectSubscript PROVE GoodStep
<1>1. PICK t \in Exist, k \in Keys :
         \/ t \in NotOf("object") /\ Fails("subscript", "kind_error", t)
         \/ /\ t \notin NotOf("object")
            /\ Ends("subscript", "done", t, <<>>, With(trees, t, Inserted(At(t), k, Null)))
  BY Zenon DEF ObjectSubscript, Memberwise
<1>2. KindOf(At(t)) = "object" => Inserted(At(t), k, Null) \in Good
  BY AtIsGood, KeysAreText, ConstantsAreGood, InsertedIsGood
<1>. QED
  BY <1>1, <1>2, Names, MemberwiseCases

LEMMA ObjectInsertIsGood == ASSUME Typed, ObjectInsert PROVE GoodStep
<1>1. PICK t \in Exist, arg \in Arguments, k \in Keys :
         TakenTo("insert_pair", "object", t, arg, Inserted(Receiver(arg, t), k, Item(arg)))
  BY Zenon DEF ObjectInsert, Take, TakenTo
<1>2. ASSUME ~Swallowed(arg, t), KindOf(Receiver(arg, t)) = "object"
      PROVE  Inserted(Receiver(arg, t), k, Item(arg)) \in Good
  BY <1>2, ArgumentIsGood, KeysAreText, InsertedIsGood
<1>. QED
  BY <1>1, <1>2, Names, TakenIsGood

LEMMA ObjectEraseIsGood == ASSUME Typed, ObjectErase PROVE GoodStep
<1>. DEFINE rest(v, ks) == [p \in {q \in DOMAIN v : \A k \in ks : q = <<>> \/ Head(q) # Key(k)} |-> v[p]]
<1>1. PICK t \in Exist, ks \in SUBSET Keys :
         \/ t \in NotOf("object") /\ Fails("erase_key", "kind_error", t)
         \/ /\ t \notin NotOf("object")
            /\ Ends("erase_key", "done", t, <<>>, With(trees, t, rest(At(t), ks)))
  BY Zenon DEF ObjectErase, Memberwise
<1>2. ASSUME KindOf(At(t)) = "object" PROVE rest(At(t), ks) \in Good
  <2>. DEFINE v == At(t)
              S == {Key(k) : k \in ks}
              D == {q \in DOMAIN v : \A k \in ks : q = <<>> \/ Head(q) # Key(k)}
              E == {q \in DOMAIN v : q = <<>> \/ Head(q) \notin S}
  <2>1. D = E
    OBVIOUS
  <2>2. WellFormed(v)
    BY AtIsGood, GoodIsWellFormed
  <2>3. WellFormed([p \in E |-> v[p]])
    <3>. HIDE DEF v, S
    <3>. QED
      BY <1>2, <2>2, ObjectWithout DEF v
  <2>4. rest(v, ks) = [p \in E |-> v[p]]
    BY <2>1
  <2>. QED
    BY <2>3, <2>4, GoodIsWellFormed
<1>. HIDE DEF rest
<1>. QED
  BY <1>1, <1>2, Names, MemberwiseCases

-----------------------------------------------------------------------------
(* The actions of object_node_handle *)

LEMMA EmptyHandleIsTyped == EmptyHandle \in HandleRecords
<1>1. "" \in Text
  BY DEF Text
<1>. QED
  BY <1>1, ConstantsAreGood DEF EmptyHandle, HandleRecords

\* A handle that has been moved from holds a null.
LEMMA MovedFromIsTyped ==
  ASSUME NEW handle \in HandleRecords
  PROVE  /\ MovedFrom(handle) \in HandleRecords
         /\ \A b \in BOOLEAN : [MovedFrom(handle) EXCEPT !.has_value = b] \in HandleRecords
<1>1. "" \in Text
  BY DEF Text
<1>2. MovedFrom(handle) \in HandleRecords
  BY <1>1, ConstantsAreGood DEF MovedFrom, HandleRecords
<1>. QED
  BY <1>2 DEF HandleRecords

\* A member of an object, and what is left without it, are values.
LEMMA PartsOfObject ==
  ASSUME NEW v \in Good, KindOf(v) = "object", NEW k, HasKey(v, k)
  PROVE  Member(v, k) \in Good /\ Without(v, k) \in Good
<1>. DEFINE S == {Key(k)}
<1>1. WellFormed(v) /\ <<Key(k)>> \in DOMAIN v
  BY GoodIsWellFormed DEF HasKey
<1>2. Member(v, k) \in Good
  BY <1>1, SubIsWellFormed, GoodIsWellFormed DEF Member
<1>3. WellFormed([p \in {q \in DOMAIN v : q = <<>> \/ Head(q) \notin S} |-> v[p]])
  <2>. HIDE DEF S
  <2>. QED
    BY <1>1, ObjectWithout
<1>4. {q \in DOMAIN v : q = <<>> \/ Head(q) \notin S} = {q \in DOMAIN v : q = <<>> \/ Head(q) # Key(k)}
  OBVIOUS
<1>. QED
  BY <1>2, <1>3, <1>4, GoodIsWellFormed DEF Without

LEMMA ExtractIsGood == ASSUME Typed, Extract PROVE GoodStep
<1>. DEFINE full(v, k) == [has_value |-> TRUE, key |-> k, value |-> Member(v, k)]
<1>1. PICK t \in Exist, k \in Keys, h \in Handles :
         \/ Fails("extract", "kind_error", t)
         \/ EndsWith("extract", "done", t, <<"handle", h>>, trees,
                     [handles EXCEPT ![h] = EmptyHandle])
         \/ /\ t \notin NotOf("object") /\ HasKey(At(t), k)
            /\ EndsWith("extract", "done", t, <<"handle", h>>, With(trees, t, Without(At(t), k)),
                        [handles EXCEPT ![h] = full(At(t), k)])
  BY Zenon DEF Extract
<1>2. CASE Fails("extract", "kind_error", t)
  BY <1>2, Names, EndsKinds, FailedIsGood
<1>3. CASE EndsWith("extract", "done", t, <<"handle", h>>, trees,
                    [handles EXCEPT ![h] = EmptyHandle])
  <2>. DEFINE hs == [handles EXCEPT ![h] = EmptyHandle]
  <2>1. hs \in [Handles -> HandleRecords]
    BY EmptyHandleIsTyped DEF Typed
  <2>. HIDE DEF hs
  <2>2. Ended(trees, hs)
    BY <1>3, Names, EndsKinds DEF hs
  <2>. QED
    BY <2>1, <2>2, EndedIsGood DEF Typed
<1>4. CASE /\ t \notin NotOf("object") /\ HasKey(At(t), k)
           /\ EndsWith("extract", "done", t, <<"handle", h>>, With(trees, t, Without(At(t), k)),
                       [handles EXCEPT ![h] = full(At(t), k)])
  <2>. DEFINE v == At(t)
              w == Without(v, k)
              hs == [handles EXCEPT ![h] = full(v, k)]
  <2>1. WellFormed(v) /\ KindOf(v) = "object" /\ k \in Text /\ <<Key(k)>> \in DOMAIN v
    BY <1>4, AtIsGood, GoodIsWellFormed, KeysAreText DEF NotOf, Of, HasKey
  <2>. HIDE DEF v
  <2>2. Member(v, k) \in Good /\ w \in Good
    BY <1>4, <2>1, PartsOfObject, GoodIsWellFormed DEF v
  <2>4. hs \in [Handles -> HandleRecords]
    <3>1. full(v, k) \in HandleRecords
      BY <2>1, <2>2 DEF HandleRecords
    <3>. HIDE DEF full
    <3>. QED
      BY <3>1 DEF Typed
  <2>. HIDE DEF w, hs
  <2>5. Ended(With(trees, t, w), hs)
    BY <1>4, Names, EndsKinds DEF w, hs, v
  <2>6. With(trees, t, w) \in Stores
    BY <2>2, AtIsGood, WithIsStore DEF Typed
  <2>. QED
    BY <2>4, <2>5, <2>6, EndedIsGood
<1>. HIDE DEF full
<1>. QED
  BY <1>1, <1>2, <1>3, <1>4

LEMMA InsertHandleIsGood == ASSUME Typed, InsertHandle PROVE GoodStep
<1>. DEFINE left(v, handle, hint) == IF hint THEN Kept(v, handle) ELSE MovedFrom(handle)
<1>1. PICK t \in Exist, h \in Handles, hint \in BOOLEAN :
         LET name == IF hint THEN "insert_hint_handle" ELSE "insert_handle"
         IN  \/ t \in NotOf("object") /\ Fails(name, "kind_error", t)
             \/ Fails(name, "done", t)
             \/ /\ t \notin NotOf("object")
                /\ EndsWith(name, "done", t, <<"handle", h>>,
                            With(trees, t, Inserted(At(t), handles[h].key, handles[h].value)),
                            [handles EXCEPT ![h] = left(At(t), handles[h], hint)])
  BY Zenon DEF InsertHandle
<1>. DEFINE name == IF hint THEN "insert_hint_handle" ELSE "insert_handle"
<1>2. name \notin PathNames
  BY Names
<1>. HIDE DEF name
<1>3. CASE Fails(name, "kind_error", t) \/ Fails(name, "done", t)
  BY <1>2, <1>3, EndsKinds, FailedIsGood
<1>. DEFINE v == At(t)
            w == Inserted(v, handles[h].key, handles[h].value)
            hs == [handles EXCEPT ![h] = left(v, handles[h], hint)]
<1>4. CASE /\ t \notin NotOf("object")
           /\ EndsWith(name, "done", t, <<"handle", h>>, With(trees, t, w), hs)
  <2>1. v \in Good /\ KindOf(v) = "object"
    BY <1>4, AtIsGood DEF NotOf, Of
  <2>2. handles[h] \in HandleRecords /\ handles[h].key \in Text /\ handles[h].value \in Good
    BY DEF Typed, HandleRecords
  <2>. HIDE DEF v
  <2>3. w \in Good
    BY <2>1, <2>2, InsertedIsGood
  <2>4. left(v, handles[h], hint) \in HandleRecords
    BY <2>2, MovedFromIsTyped DEF Kept
  <2>. HIDE DEF left, w
  <2>5. hs \in [Handles -> HandleRecords]
    BY <2>4 DEF Typed
  <2>. HIDE DEF hs
  <2>6. Ended(With(trees, t, w), hs)
    BY <1>2, <1>4, Names, EndsKinds
  <2>7. With(trees, t, w) \in Stores
    BY <2>3, AtIsGood, WithIsStore DEF Typed
  <2>. QED
    BY <2>5, <2>6, <2>7, EndedIsGood
<1>. QED
  BY <1>1, <1>3, <1>4 DEF name

LEMMA MoveHandleIsGood == ASSUME Typed, MoveHandle PROVE GoodStep
<1>. DEFINE left(handle, construct) == [MovedFrom(handle) EXCEPT !.has_value = @ /\ ~construct]
<1>1. PICK g, h \in Handles, construct \in BOOLEAN :
         EndsWith("move_handle", "done", <<>>, <<"handle", h>>, trees,
                  [handles EXCEPT ![g] = handles[h], ![h] = left(handles[h], construct)])
  BY DEF MoveHandle
<1>. DEFINE hs == [handles EXCEPT ![g] = handles[h], ![h] = left(handles[h], construct)]
<1>2. handles[h] \in HandleRecords
  BY DEF Typed
<1>3. left(handles[h], construct) \in HandleRecords
  <2>. DEFINE m == MovedFrom(handles[h])
              b == m.has_value /\ ~construct
  <2>1. \A c \in BOOLEAN : [m EXCEPT !.has_value = c] \in HandleRecords
    BY <1>2, MovedFromIsTyped
  <2>2. left(handles[h], construct) = [m EXCEPT !.has_value = b] /\ b \in BOOLEAN
    OBVIOUS
  <2>. HIDE DEF m, b
  <2>. QED
    BY <2>1, <2>2
<1>. HIDE DEF left
<1>4. hs \in [Handles -> HandleRecords]
  BY <1>2, <1>3 DEF Typed
<1>. HIDE DEF hs
<1>5. Ended(trees, hs)
  BY <1>1, Names, EndsKinds DEF hs
<1>. QED
  BY <1>4, <1>5, EndedIsGood DEF Typed

LEMMA DropHandleIsGood == ASSUME Typed, DropHandle PROVE GoodStep
<1>1. PICK h \in Handles :
         EndsWith("drop_handle", "done", <<>>, <<"handle", h>>, trees,
                  [handles EXCEPT ![h] = EmptyHandle])
  BY DEF DropHandle
<1>. DEFINE hs == [handles EXCEPT ![h] = EmptyHandle]
<1>2. hs \in [Handles -> HandleRecords]
  BY EmptyHandleIsTyped DEF Typed
<1>. HIDE DEF hs
<1>3. Ended(trees, hs)
  BY <1>1, Names, EndsKinds DEF hs
<1>. QED
  BY <1>2, <1>3, EndedIsGood DEF Typed
-----------------------------------------------------------------------------
(* Paths through trees: walk_path *)

\* One more step leads below a node.
LEMMA AboveNext ==
  ASSUME NEW p \in Nodes, NEW s \in StepSet
  PROVE  /\ Above(p, Append(p, s)) /\ p # Append(p, s) /\ Append(p, s) \in Nodes
         /\ Append(p, s) = p \o <<s>> /\ <<s>> \in Nodes
<1>. DEFINE x == Append(p, s)
<1>1. <<s>> \in Nodes /\ Len(p) \in Nat
  BY LenProperties DEF Nodes
<1>2. x = p \o <<s>>
  BY AppendIsConcat, ZenonT(30) DEF Nodes
<1>3. x \in Nodes /\ Len(x) = Len(p) + 1
  BY AppendProperties DEF Nodes
<1>4. Above(p, x)
  BY <1>1, <1>2, AboveMeansBelow
<1>. HIDE DEF x
<1>. QED
  BY <1>1, <1>2, <1>3, <1>4 DEF x

\* What is above a node is above those below it.
LEMMA StillAbove ==
  ASSUME NEW q \in Nodes, NEW p \in Nodes, NEW s \in StepSet, Above(q, p)
  PROVE  Above(q, Append(p, s)) /\ q # Append(p, s)
<1>. DEFINE x == Append(p, s)
            z == <<s>>
<1>1. x \in Nodes /\ Len(x) = Len(p) + 1 /\ Len(p) \in Nat
  BY AppendProperties, LenProperties DEF Nodes
<1>2. z \in Nodes /\ x = p \o z
  BY AboveNext
<1>. HIDE DEF x, z
<1>3. PICK r \in Nodes : p = q \o r
  BY BelowMeansAbove
<1>4. Len(p) = Len(q) + Len(r) /\ Len(q) \in Nat /\ Len(r) \in Nat
  BY <1>3, AboveMeansBelow, LenProperties DEF Nodes
<1>. DEFINE y == r \o z
<1>5. (q \o r) \o z = q \o y /\ y \in Nodes
  BY <1>2, ConcatAssociative, ConcatProperties, SMTT(20) DEF Nodes
<1>6. x = q \o y
  BY <1>2, <1>3, <1>5
<1>. HIDE DEF y
<1>7. Above(q, x)
  BY <1>5, <1>6, AboveMeansBelow
<1>. QED
  BY <1>1, <1>4, <1>7 DEF x

\* What is above a node of a value is a node of it.
LEMMA PrefixIsNode ==
  ASSUME NEW v, WellFormed(v), NEW p \in Nodes, NEW t \in Nodes, p \o t \in DOMAIN v
  PROVE  p \in DOMAIN v
  BY NodeAbove DEF Nodes

\* A node of a tree that is not its root begins with a step, to a node, from a container.
LEMMA NodeOfElement ==
  ASSUME NEW v, WellFormed(v), NEW q \in DOMAIN v, q # <<>>
  PROVE  /\ Head(q) \in StepSet /\ Tail(q) \in Nodes /\ q = <<Head(q)>> \o Tail(q)
         /\ <<Head(q)>> \in DOMAIN v
         /\ \/ KindOf(v) = "array" /\ Head(q)[1] = "index"
            \/ KindOf(v) = "object" /\ Head(q)[1] = "key"
<1>. DEFINE s == Head(q)
            r == Tail(q)
<1>1. q \in Nodes
  BY DEF WellFormed, IsTree, Nodes
<1>2. s \in StepSet /\ r \in Nodes /\ q = <<s>> \o r
  BY <1>1, HeadTailProperties DEF Nodes
<1>. HIDE DEF s, r
<1>3. <<s>> \in Nodes /\ <<s>> # <<>>
  BY <1>2 DEF Nodes
<1>4. <<s>> \in DOMAIN v
  <2>. DEFINE p == <<s>>
  <2>1. p \in Nodes /\ p \o r \in DOMAIN v
    BY <1>2, <1>3
  <2>. HIDE DEF p
  <2>2. p \in DOMAIN v
    BY <1>2, <2>1, PrefixIsNode
  <2>. QED
    BY <2>2 DEF p
<1>5. Parent(<<s>>) = <<>> /\ <<s>>[Len(<<s>>)] = s
  <2>1. Parent(<<s>> \o <<>>) = <<>> /\ Len(<<s>> \o <<>>) = 1 /\ (<<s>> \o <<>>)[1] = s
    BY <1>2, LastStepBelow, EmptySeq
  <2>2. <<s>> \o <<>> = <<s>>
    OBVIOUS
  <2>. QED
    BY <2>1, <2>2
<1>6. Leads(v, Parent(<<s>>), <<s>>[Len(<<s>>)])
  BY <1>3, <1>4, WellFormedLeads
<1>7. Leads(v, <<>>, s)
  BY <1>5, <1>6
<1>8. \/ KindOf(v) = "array" /\ s[1] = "index"
      \/ KindOf(v) = "object" /\ s[1] = "key"
  BY <1>7 DEF Leads, KindOf
<1>. QED
  BY <1>2, <1>4, <1>8 DEF s, r

\* What is below a node is what is in its subtree.
LEMMA SubSteps ==
  ASSUME NEW v, WellFormed(v), NEW p \in Nodes, NEW s \in StepSet
  PROVE  <<s>> \in DOMAIN Sub(v, p) <=> Append(p, s) \in DOMAIN v
<1>. DEFINE r == <<s>>
<1>1. r \in Nodes /\ Append(p, s) = p \o r
  BY AboveNext
<1>2. DOMAIN Sub(v, p) = {x \in Nodes : p \o x \in DOMAIN v}
  BY SubNodes
<1>. HIDE DEF r
<1>3. r \in DOMAIN Sub(v, p) <=> Append(p, s) \in DOMAIN v
  BY <1>1, <1>2
<1>. QED
  BY <1>3 DEF r

\* The steps of the program's paths.
PathSteps == ({"index"} \X (0 .. SizeMax)) \cup ({"key"} \X Text)

\* They are steps, an index or a key.
LEMMA PathStepTypes ==
  /\ PathSteps \subseteq StepSet
  /\ \A s \in PathSteps : \/ s[1] = "index" /\ s[2] \in 0 .. SizeMax /\ s = Index(s[2])
                          \/ s[1] = "key" /\ s[2] \in Text /\ s = Key(s[2])
<1>1. SizeMax \in Nat
  BY BoundsAssumption
<1>. QED
  BY <1>1 DEF PathSteps, StepSet, Index, Key

\* Tree b is a with more in it: a container at its root, if that was null, and below it
\* nulls, one of them at step s.
Extends(b, a, s) ==
    /\ \A q \in DOMAIN a : q \in DOMAIN b /\ (q # <<>> => b[q] = a[q])
    /\ b[<<>>] = a[<<>>] \/ (a[<<>>].kind = "null" /\ IsContainer(b[<<>>]))
    /\ \A q \in DOMAIN b : q \notin DOMAIN a => b[q].kind = "null"
    /\ <<s>> \in DOMAIN b /\ <<s>> \notin DOMAIN a

\* What a null becomes before an element is made in it.
Base(v, s) == IF KindOf(v) # "null" THEN v ELSE IF s[1] = "index" THEN EmptyArray ELSE EmptyObject

\* A value of another kind than array and object has no elements.
LEMMA ScalarIsLeaf ==
  ASSUME NEW v \in Good, KindOf(v) \notin {"array", "object"}
  PROVE  DOMAIN v = {<<>>}
<1>1. WellFormed(v) /\ <<>> \in DOMAIN v
  BY GoodIsWellFormed DEF WellFormed
<1>2. \A q \in DOMAIN v : q = <<>>
  BY <1>1, NodeOfElement
<1>. QED
  BY <1>1, <1>2

\* It has the nodes of what it was.
LEMMA BaseIsGood ==
  ASSUME NEW v \in Good, NEW s \in PathSteps, KindOf(v) \in {KindFor(s), "null"},
         <<s>> \notin DOMAIN v
  PROVE  LET b == Base(v, s)
         IN  /\ b \in Good /\ KindOf(b) = KindFor(s) /\ DOMAIN b = DOMAIN v
             /\ \A q \in DOMAIN v : q # <<>> => b[q] = v[q]
             /\ b[<<>>] = v[<<>>] \/ (v[<<>>].kind = "null" /\ IsContainer(b[<<>>]))
<1>. DEFINE b == Base(v, s)
<1>0. KindFor(s) = (IF s[1] = "index" THEN "array" ELSE "object") /\ (s[1] = "index" \/ s[1] = "key")
  BY PathStepTypes DEF KindFor
<1>1. CASE KindOf(v) # "null"
  BY <1>1 DEF Base
<1>2. CASE KindOf(v) = "null"
  <2>1. DOMAIN v = {<<>>} /\ v[<<>>].kind = "null"
    BY <1>2, ScalarIsLeaf DEF KindOf
  <2>2. b = IF s[1] = "index" THEN EmptyArray ELSE EmptyObject
    BY <1>2 DEF Base
  <2>3. /\ EmptyArray \in Good /\ KindOf(EmptyArray) = "array" /\ DOMAIN EmptyArray = {<<>>}
        /\ EmptyObject \in Good /\ KindOf(EmptyObject) = "object" /\ DOMAIN EmptyObject = {<<>>}
    BY ConstantsAreWellFormed, GoodIsWellFormed DEF EmptyArray, EmptyObject, Leaf
  <2>4. b \in Good /\ KindOf(b) = KindFor(s) /\ DOMAIN b = {<<>>}
    BY <1>0, <2>2, <2>3
  <2>5. IsContainer(b[<<>>])
    BY <1>0, <2>4 DEF KindOf, IsContainer, ContainerKinds
  <2>. HIDE DEF b
  <2>6. \A q \in DOMAIN v : q = <<>>
    BY <2>1
  <2>. QED
    BY <2>1, <2>4, <2>5, <2>6 DEF b
<1>. QED
  BY <1>1, <1>2

\* A member that is not there is made, and nothing else changes.
LEMMA InsertedExtends ==
  ASSUME NEW b \in Good, KindOf(b) = "object", NEW k \in Text, <<Key(k)>> \notin DOMAIN b
  PROVE  Extends(Inserted(b, k, Null), b, Key(k))
<1>. DEFINE s == Key(k)
            kept == {q \in DOMAIN b : q = <<>> \/ Head(q) # s}
            m == Inserted(b, k, Null)
<1>1. WellFormed(b) /\ <<>> \in DOMAIN b /\ s \in StepSet
  BY GoodIsWellFormed, StepTypes DEF WellFormed
<1>2. kept = DOMAIN b
  BY <1>1, NodeOfElement
<1>3. Below(s, Null) = {<<s>>}
  <2>1. <<s>> \o <<>> = <<s>>
    BY <1>1
  <2>. QED
    BY <2>1, NullLabel DEF Below
<1>4. m = [q \in kept \cup Below(s, Null) |-> IF q \in kept THEN b[q] ELSE Null[Tail(q)]]
  BY DEF Inserted, HasKey, PutMember, Put
<1>5. Tail(<<s>>) = <<>>
  BY <1>1
<1>. DEFINE x == <<s>>
<1>6. x \notin DOMAIN b /\ Tail(x) = <<>> /\ Below(s, Null) = {x}
  BY <1>3, <1>5
<1>. HIDE DEF kept, m, x
<1>7. /\ DOMAIN m = DOMAIN b \cup {x} /\ \A q \in DOMAIN b : m[q] = b[q]
      /\ m[x] = Null[<<>>]
  BY <1>2, <1>4, <1>6
<1>8. m[x].kind = "null"
  BY <1>7, NullLabel
<1>. QED
  BY <1>1, <1>6, <1>7, <1>8 DEF Extends, m, x

\* An array is filled with nulls up to an index that is not there.
LEMMA ResizedExtends ==
  ASSUME NEW b \in Good, KindOf(b) = "array", NEW i \in Nat, <<Index(i)>> \notin DOMAIN b
  PROVE  Extends(ArrayOf(Resized(Elements(b), i + 1, Null)), b, Index(i))
<1>. DEFINE n == Size(b)
            es == Elements(b)
            rs == Resized(es, i + 1, Null)
            a == ArrayOf(rs)
<1>1. WellFormed(b) /\ <<>> \in DOMAIN b /\ b \in [DOMAIN b -> Labels]
  BY GoodIsWellFormed DEF WellFormed, IsTree
<1>2. es \in Seq(Good) /\ Len(es) = n /\ n \in Nat /\ \A j \in 1 .. n : es[j] = Sub(b, <<Index(j - 1)>>)
  BY ElementsAreGood
<1>3. n <= i /\ \A j \in Nat : <<Index(j)>> \in DOMAIN b <=> j < n
  BY <1>1, <1>2, ArraySteps
<1>. HIDE DEF n, es
<1>4. /\ rs \in Seq(Good) /\ DOMAIN rs = 1 .. i + 1
      /\ \A j \in 1 .. n : j \in 1 .. i + 1 /\ rs[j] = es[j]
      /\ \A j \in 1 .. i + 1 : j \notin 1 .. n => rs[j] = Null
  <2>1. i + 1 \in Nat /\ Null \in Good
    BY NullLabel
  <2>2. rs \in Seq(Good)
    BY <1>2, <2>1, ResizedIsSequence
  <2>3. rs = [j \in 1 .. i + 1 |-> IF j <= Len(es) THEN es[j] ELSE Null]
    BY DEF Resized
  <2>. HIDE DEF rs
  <2>. QED
    BY <1>2, <1>3, <2>2, <2>3
<1>. HIDE DEF rs
<1>5. IsArrayOf(a, rs)
  <2>. DEFINE m == i + 1
  <2>1. m \in Nat /\ DOMAIN rs = 1 .. m /\ \A j \in 1 .. m : WellFormed(rs[j])
    BY <1>4, ElementOfSeq, LenProperties, GoodIsWellFormed
  <2>. HIDE DEF m
  <2>. QED
    BY <2>1, ArrayNodes
<1>. HIDE DEF a
<1>6. /\ <<>> \in DOMAIN a /\ a[<<>>] = Label("array", "")
      /\ \A q \in DOMAIN a \ {<<>>} :
            \E j \in 1 .. i + 1 : \E r \in DOMAIN rs[j] : q = <<Index(j - 1)>> \o r
      /\ \A j \in 1 .. i + 1 : \A r \in DOMAIN rs[j] :
            <<Index(j - 1)>> \o r \in DOMAIN a /\ a[<<Index(j - 1)>> \o r] = rs[j][r]
  BY <1>4, <1>5 DEF IsArrayOf
<1>7. b[<<>>] = Label("array", "")
  BY <1>1 DEF Labels, Label, KindOf, ScalarKinds
<1>8. ASSUME NEW j \in 1 .. n, NEW r \in Nodes
      PROVE  /\ r \in DOMAIN rs[j] <=> <<Index(j - 1)>> \o r \in DOMAIN b
             /\ r \in DOMAIN rs[j] => rs[j][r] = b[<<Index(j - 1)>> \o r]
  <2>. DEFINE p == <<Index(j - 1)>>
  <2>1. p \in Nodes /\ rs[j] = Sub(b, p)
    <3>1. j - 1 \in Nat
      OBVIOUS
    <3>2. p \in Nodes
      BY <3>1, StepTypes DEF Nodes
    <3>. QED
      BY <1>2, <1>4, <3>2
  <2>. HIDE DEF p
  <2>2. /\ DOMAIN Sub(b, p) = {x \in Nodes : p \o x \in DOMAIN b}
        /\ \A x \in DOMAIN Sub(b, p) : Sub(b, p)[x] = b[p \o x]
    BY <1>1, <2>1, SubNodes
  <2>3. /\ r \in DOMAIN rs[j] <=> p \o r \in DOMAIN b
        /\ r \in DOMAIN rs[j] => rs[j][r] = b[p \o r]
    BY <2>1, <2>2
  <2>. QED
    BY <2>3 DEF p
<1>9. ASSUME NEW q \in DOMAIN b, q # <<>> PROVE q \in DOMAIN a /\ a[q] = b[q]
  <2>1. /\ Head(q) \in StepSet /\ Tail(q) \in Nodes /\ q = <<Head(q)>> \o Tail(q)
        /\ <<Head(q)>> \in DOMAIN b /\ Head(q)[1] = "index"
    BY <1>1, <1>9, NodeOfElement
  <2>2. PICK l \in Nat : Head(q) = Index(l)
    BY <2>1 DEF StepSet, Index
  <2>3. l < n
    BY <1>3, <2>1, <2>2
  <2>. DEFINE j == l + 1
              r == Tail(q)
  <2>4. j \in 1 .. n /\ j - 1 = l
    BY <1>2, <2>3
  <2>5. r \in Nodes /\ q = <<Index(j - 1)>> \o r
    BY <2>1, <2>2, <2>4
  <2>. HIDE DEF j, r
  <2>6. r \in DOMAIN rs[j] /\ rs[j][r] = b[q]
    BY <1>8, <2>4, <2>5
  <2>7. j \in 1 .. i + 1
    BY <1>4, <2>4
  <2>. QED
    BY <1>6, <2>5, <2>6, <2>7
<1>10. ASSUME NEW q \in DOMAIN a, q \notin DOMAIN b PROVE a[q].kind = "null"
  <2>1. q # <<>>
    BY <1>1, <1>10
  <2>2. PICK j \in 1 .. i + 1 : \E r \in DOMAIN rs[j] : q = <<Index(j - 1)>> \o r
    BY <1>6, <2>1
  <2>3. PICK r \in DOMAIN rs[j] : q = <<Index(j - 1)>> \o r
    BY <2>2
  <2>4. r \in Nodes /\ a[q] = rs[j][r]
    <3>1. WellFormed(rs[j])
      BY <1>4, ElementOfSeq, LenProperties, GoodIsWellFormed
    <3>2. r \in Nodes
      BY <3>1 DEF WellFormed, IsTree, Nodes
    <3>. QED
      BY <1>6, <2>3, <3>2
  <2>5. j \notin 1 .. n
    BY <1>8, <1>10, <2>3, <2>4
  <2>6. rs[j] = Null
    BY <1>4, <2>5
  <2>7. r = <<>>
    BY <2>6, NullLabel
  <2>. QED
    BY <2>4, <2>6, <2>7, NullLabel
<1>11. <<Index(i)>> \in DOMAIN a
  <2>. DEFINE j == i + 1
  <2>1. j \in 1 .. i + 1 /\ j - 1 = i /\ j \notin 1 .. n
    BY <1>2, <1>3
  <2>2. <<>> \in DOMAIN rs[j]
    BY <1>4, <2>1, NullLabel
  <2>. HIDE DEF j
  <2>3. <<Index(j - 1)>> \o <<>> \in DOMAIN a
    BY <1>6, <2>1, <2>2
  <2>4. <<Index(i)>> \o <<>> = <<Index(i)>>
    BY StepTypes
  <2>. QED
    BY <2>1, <2>3, <2>4
<1>. QED
  <2>1. Extends(a, b, Index(i))
    BY <1>6, <1>7, <1>9, <1>10, <1>11 DEF Extends
  <2>. QED
    BY <2>1 DEF a, rs, es

\* value::path at a step that leads nowhere makes a value; and unless the successor of the
\* index is 0, it makes that step, and changes nothing else.
LEMMA ExtendedExtends ==
  ASSUME NEW v \in Good, NEW s \in PathSteps, KindOf(v) \in {KindFor(s), "null"},
         <<s>> \notin DOMAIN v
  PROVE  /\ Extended(v, s) \in Good
         /\ s # Index(SizeMax) => Extends(Extended(v, s), v, s)
<1>. DEFINE b == Base(v, s)
            e == Extended(v, s)
<1>1. /\ b \in Good /\ KindOf(b) = KindFor(s) /\ DOMAIN b = DOMAIN v
      /\ \A q \in DOMAIN v : q # <<>> => b[q] = v[q]
      /\ b[<<>>] = v[<<>>] \/ (v[<<>>].kind = "null" /\ IsContainer(b[<<>>]))
  BY BaseIsGood
<1>2. e = IF s[1] = "key" THEN Inserted(b, s[2], Null)
          ELSE ArrayOf(Resized(Elements(b), (s[2] + 1) % (SizeMax + 1), Null))
  BY DEF Extended, Base
<1>. HIDE DEF b, e
<1>3. ASSUME Extends(e, b, s) PROVE Extends(e, v, s)
  BY <1>1, <1>3 DEF Extends
<1>4. CASE s[1] = "key"
  <2>1. s[2] \in Text /\ s = Key(s[2]) /\ KindOf(b) = "object"
    BY <1>1, <1>4, PathStepTypes DEF KindFor
  <2>2. e \in Good
    BY <1>1, <1>2, <1>4, <2>1, InsertedIsGood, NullLabel
  <2>. DEFINE k == s[2]
  <2>3. k \in Text /\ s = Key(k) /\ e = Inserted(b, k, Null) /\ <<Key(k)>> \notin DOMAIN b
    BY <1>1, <1>2, <1>4, <2>1
  <2>. HIDE DEF k
  <2>4. Extends(e, b, s)
    BY <1>1, <2>1, <2>3, InsertedExtends
  <2>. QED
    BY <1>3, <2>2, <2>4 DEF e
<1>5. CASE s[1] = "index"
  <2>. DEFINE i == s[2]
              n == (i + 1) % (SizeMax + 1)
  <2>1. /\ i \in 0 .. SizeMax /\ s = Index(i) /\ KindOf(b) = "array"
        /\ e = ArrayOf(Resized(Elements(b), n, Null)) /\ <<Index(i)>> \notin DOMAIN b
    BY <1>1, <1>2, <1>5, PathStepTypes DEF KindFor
  <2>. HIDE DEF i
  <2>2. n \in Nat /\ (i # SizeMax => n = i + 1)
    BY <2>1, BoundsAssumption
  <2>. HIDE DEF n
  <2>3. e \in Good
    <3>1. Elements(b) \in Seq(Good)
      BY <1>1, <2>1, ElementsAreGood
    <3>2. Resized(Elements(b), n, Null) \in Seq(Good)
      BY <2>2, <3>1, ResizedIsSequence, NullLabel
    <3>. QED
      BY <2>1, <3>2, ArrayIsGood
  <2>4. ASSUME s # Index(SizeMax) PROVE Extends(e, b, s)
    <3>1. n = i + 1 /\ i \in Nat
      BY <2>1, <2>2, <2>4
    <3>2. Extends(ArrayOf(Resized(Elements(b), i + 1, Null)), b, Index(i))
      BY <1>1, <2>1, <3>1, ResizedExtends
    <3>. QED
      BY <2>1, <3>1, <3>2
  <2>. QED
    BY <1>3, <2>3, <2>4 DEF e
<1>. QED
  BY <1>4, <1>5, PathStepTypes DEF e

\* Tree u is v with no more than the nodes on the way to p, and nulls beside it.
Grown(u, v, p) ==
    /\ \A q \in DOMAIN v : q \in DOMAIN u /\
          (u[q] = v[q] \/ (v[q].kind = "null" /\ Above(q, p) /\ q # p))
    /\ \A q \in DOMAIN u : q \notin DOMAIN v =>
          u[q].kind = "null" \/ (IsContainer(u[q]) /\ Above(q, p) /\ q # p)

\* One more step of a path makes no more than that.
LEMMA GrowthGoesOn ==
  ASSUME NEW u \in Good, NEW v \in Good, NEW p \in DOMAIN u, Grown(u, v, p),
         NEW s \in StepSet, NEW m \in Good, Extends(m, Sub(u, p), s)
  PROVE  LET g == Graft(u, p, m)
         IN  /\ Grown(g, v, Append(p, s))
             /\ Append(p, s) \in DOMAIN g /\ g[Append(p, s)].kind = "null"
<1>. DEFINE g == Graft(u, p, m)
            here == Sub(u, p)
            x == Append(p, s)
<1>1. /\ WellFormed(u) /\ WellFormed(v) /\ WellFormed(m)
      /\ DOMAIN u \subseteq Nodes /\ DOMAIN v \subseteq Nodes /\ DOMAIN m \subseteq Nodes
      /\ p \in Nodes
  BY GoodIsWellFormed DEF WellFormed, IsTree, Nodes
<1>2. Grafted(g, u, p, m)
  BY <1>1, GraftNodes
<1>3. /\ DOMAIN here = {r \in Nodes : p \o r \in DOMAIN u}
      /\ \A r \in DOMAIN here : here[r] = u[p \o r]
  BY <1>1, SubNodes
<1>4. /\ x \in Nodes /\ Above(p, x) /\ p # x /\ x = p \o <<s>>
      /\ \A q \in Nodes : Above(q, p) => Above(q, x) /\ q # x
  BY <1>1, AboveNext, StillAbove
<1>5. <<>> \in DOMAIN here /\ p \o <<>> = p
  <2>1. p \o <<>> = p /\ <<>> \in Nodes
    BY <1>1, ConcatEmptySeq, EmptySeq DEF Nodes
  <2>. QED
    BY <1>3, <2>1
<1>. HIDE DEF g, here, x
<1>6. /\ \A q \in DOMAIN here : q \in DOMAIN m /\ (q # <<>> => m[q] = here[q])
      /\ m[<<>>] = here[<<>>] \/ (here[<<>>].kind = "null" /\ IsContainer(m[<<>>]))
      /\ \A q \in DOMAIN m : q \notin DOMAIN here => m[q].kind = "null"
      /\ <<s>> \in DOMAIN m /\ <<s>> \notin DOMAIN here
  BY DEF Extends, here
<1>7. /\ \A q \in DOMAIN g : (q \in DOMAIN u /\ ~Above(p, q)) \/ \E r \in DOMAIN m : q = p \o r
      /\ \A q \in DOMAIN u : ~Above(p, q) => q \in DOMAIN g /\ g[q] = u[q]
      /\ \A r \in DOMAIN m : p \o r \in DOMAIN g /\ g[p \o r] = m[r]
  BY <1>2 DEF Grafted
<1>8. ASSUME NEW q \in DOMAIN u
      PROVE  q \in DOMAIN g /\ (g[q] = u[q] \/ (q = p /\ u[q].kind = "null" /\ IsContainer(g[q])))
  <2>1. CASE ~Above(p, q)
    BY <1>7, <2>1
  <2>2. CASE Above(p, q)
    <3>1. PICK r \in Nodes : q = p \o r
      BY <1>1, <2>2, BelowMeansAbove
    <3>2. r \in DOMAIN here /\ here[r] = u[q]
      BY <1>3, <3>1
    <3>3. q \in DOMAIN g /\ g[q] = m[r]
      BY <1>6, <1>7, <3>1, <3>2
    <3>4. CASE r # <<>>
      BY <1>6, <3>2, <3>3, <3>4
    <3>5. CASE r = <<>>
      <4>1. q = p
        BY <1>5, <3>1, <3>5
      <4>. QED
        BY <1>6, <3>2, <3>3, <3>5, <4>1
    <3>. QED
      BY <3>4, <3>5
  <2>. QED
    BY <2>1, <2>2
<1>9. ASSUME NEW q \in DOMAIN g, q \notin DOMAIN u PROVE g[q].kind = "null"
  <2>1. PICK r \in DOMAIN m : q = p \o r
    BY <1>7, <1>9
  <2>2. r \notin DOMAIN here
    BY <1>1, <1>3, <1>9, <2>1
  <2>. QED
    BY <1>6, <1>7, <2>1, <2>2
<1>10. x \in DOMAIN g /\ g[x].kind = "null"
  <2>1. x \notin DOMAIN u
    <3>. DEFINE y == <<s>>
    <3>1. y \in Nodes /\ y \notin DOMAIN here /\ x = p \o y
      BY <1>4, <1>6 DEF Nodes
    <3>. HIDE DEF y
    <3>. QED
      BY <1>3, <3>1
  <2>2. x \in DOMAIN g
    BY <1>4, <1>6, <1>7
  <2>. QED
    BY <1>9, <2>1, <2>2
<1>11. Grown(g, v, x)
  <2>1. /\ \A q \in DOMAIN v : q \in DOMAIN u /\
              (u[q] = v[q] \/ (v[q].kind = "null" /\ Above(q, p) /\ q # p))
        /\ \A q \in DOMAIN u : q \notin DOMAIN v =>
              u[q].kind = "null" \/ (IsContainer(u[q]) /\ Above(q, p) /\ q # p)
    BY DEF Grown
  <2>2. ASSUME NEW q \in DOMAIN v
        PROVE  q \in DOMAIN g /\ (g[q] = v[q] \/ (v[q].kind = "null" /\ Above(q, x) /\ q # x))
    <3>1. q \in Nodes
      BY <1>1
    <3>. QED
      BY <1>4, <1>8, <2>1, <3>1
  <2>3. ASSUME NEW q \in DOMAIN g, q \notin DOMAIN v
        PROVE  g[q].kind = "null" \/ (IsContainer(g[q]) /\ Above(q, x) /\ q # x)
    <3>1. CASE q \notin DOMAIN u
      BY <1>9, <3>1
    <3>2. CASE q \in DOMAIN u
      <4>1. q \in Nodes
        BY <1>1, <3>2
      <4>. QED
        BY <1>4, <1>8, <2>1, <2>3, <3>2, <4>1
    <3>. QED
      BY <3>1, <3>2
  <2>. QED
    BY <2>2, <2>3 DEF Grown
<1>. QED
  BY <1>10, <1>11 DEF g, x

\* A step s of a walk that has come to p: see Walk.
Walkers == [tree : Good, error : {"done", "kind_error", "out_of_range"}]

WalkStep(w, p, s, create) ==
    LET here == Sub(w.tree, p)
        made == IF create THEN Extended(here, s) ELSE here
    IN  IF w.error # "done" \/ <<s>> \in DOMAIN here THEN w
        ELSE IF KindOf(here) \notin {KindFor(s), "null"} THEN [w EXCEPT !.error = "kind_error"]
        ELSE [tree  |-> Graft(w.tree, p, made),
              error |-> IF <<s>> \in DOMAIN made THEN "done" ELSE "out_of_range"]

\* What a walk of v has come to at p.  Where it does not create, it has found out whether p is
\* there; where it creates, and no index has the successor 0, it has made p from nulls, and
\* what it has made is null so far.
Walked(w, v, p, create, bounded) ==
    /\ w \in Walkers
    /\ w.error = "done" => p \in DOMAIN w.tree
    /\ ~create => w.tree = v /\ (w.error # "done" => p \notin DOMAIN v)
    /\ bounded => /\ Grown(w.tree, v, p)
                  /\ w.tree # v => w.error = "done" /\ w.tree[p].kind = "null"

\* More steps do not undo what was found about fewer.
LEMMA GrownAbove ==
  ASSUME NEW u \in Good, NEW v \in Good, NEW p \in Nodes, NEW s \in StepSet, Grown(u, v, p)
  PROVE  Grown(u, v, Append(p, s))
<1>1. DOMAIN u \subseteq Nodes /\ DOMAIN v \subseteq Nodes
  BY GoodIsWellFormed DEF WellFormed, IsTree, Nodes
<1>. DEFINE x == Append(p, s)
<1>2. \A q \in Nodes : Above(q, p) => Above(q, x) /\ q # x
  BY StillAbove
<1>. HIDE DEF x
<1>3. Grown(u, v, x)
  BY <1>1, <1>2 DEF Grown
<1>. QED
  BY <1>3 DEF x

\* A step leads from what a walk has come to at a node to that at the next one.
LEMMA WalkGoesOn ==
  ASSUME NEW v \in Good, NEW p \in Nodes, NEW s \in PathSteps, NEW create \in BOOLEAN,
         NEW bounded \in BOOLEAN, bounded => s # Index(SizeMax),
         NEW w, Walked(w, v, p, create, bounded)
  PROVE  Walked(WalkStep(w, p, s, create), v, Append(p, s), create, bounded)
<1>. DEFINE here == Sub(w.tree, p)
            made == IF create THEN Extended(here, s) ELSE here
            x == Append(p, s)
            next == WalkStep(w, p, s, create)
            g == Graft(w.tree, p, made)
<1>1. /\ w \in Walkers /\ w.tree \in Good /\ s \in StepSet
      /\ w.error \in {"done", "kind_error", "out_of_range"}
      /\ w.error = "done" => p \in DOMAIN w.tree
      /\ ~create => w.tree = v /\ (w.error # "done" => p \notin DOMAIN v)
      /\ bounded => /\ Grown(w.tree, v, p)
                    /\ w.tree # v => w.error = "done" /\ w.tree[p].kind = "null"
  BY PathStepTypes DEF Walked, Walkers
<1>2. WellFormed(v) /\ WellFormed(w.tree)
  BY <1>1, GoodIsWellFormed
<1>3. /\ x \in DOMAIN v => p \in DOMAIN v
      /\ <<s>> \in DOMAIN here <=> x \in DOMAIN w.tree
  <2>1. x = p \o <<s>> /\ <<s>> \in Nodes
    BY <1>1, AboveNext
  <2>. DEFINE y == <<s>>
  <2>. HIDE DEF y
  <2>2. p \o y \in DOMAIN v => p \in DOMAIN v
    BY <1>2, <2>1, PrefixIsNode DEF y
  <2>3. <<s>> \in DOMAIN here <=> x \in DOMAIN w.tree
    BY <1>1, <1>2, SubSteps
  <2>. QED
    BY <2>1, <2>2, <2>3 DEF y
<1>4. bounded => Grown(w.tree, v, x)
  BY <1>1, GrownAbove
<1>5. w.error = "done" => /\ here \in Good /\ KindOf(here) = w.tree[p].kind
                          /\ Graft(w.tree, p, here) = w.tree
  <2>. SUFFICES ASSUME w.error = "done"
                PROVE  /\ here \in Good /\ KindOf(here) = w.tree[p].kind
                       /\ Graft(w.tree, p, here) = w.tree
    OBVIOUS
  <2>1. WellFormed(here) /\ Graft(w.tree, p, here) = w.tree
    BY <1>1, <1>2, SubIsWellFormed, GraftOfSub
  <2>2. <<>> \in DOMAIN here /\ here \in Good
    BY <2>1, GoodIsWellFormed DEF WellFormed
  <2>3. here[<<>>] = w.tree[p]
    <3>1. here[<<>>] = w.tree[p \o <<>>]
      BY <1>2, <2>2, SubNodes
    <3>2. p \o <<>> = p
      BY ConcatEmptySeq DEF Nodes
    <3>. QED
      BY <3>1, <3>2
  <2>. QED
    BY <2>1, <2>2, <2>3 DEF KindOf
<1>6. next = IF w.error # "done" \/ <<s>> \in DOMAIN here THEN w
             ELSE IF KindOf(here) \notin {KindFor(s), "null"} THEN [w EXCEPT !.error = "kind_error"]
             ELSE [tree  |-> g, error |-> IF <<s>> \in DOMAIN made THEN "done" ELSE "out_of_range"]
  BY DEF WalkStep
<1>7. CASE w.error # "done"
  <2>1. next = w
    BY <1>6, <1>7
  <2>. HIDE DEF next, x
  <2>. QED
    BY <1>1, <1>3, <1>4, <1>7, <2>1 DEF Walked, next, x
<1>8. ASSUME w.error = "done", bounded, KindOf(here) # "null" PROVE w.tree = v
  BY <1>1, <1>5, <1>8
<1>9. CASE w.error = "done" /\ <<s>> \in DOMAIN here
  <2>1. next = w
    BY <1>6, <1>9
  <2>2. KindOf(here) # "null"
    <3>1. here \in Good /\ <<s>> # <<>>
      BY <1>5, <1>9
    <3>2. KindOf(here) = "null" => DOMAIN here = {<<>>}
      BY <3>1, ScalarIsLeaf
    <3>. QED
      BY <1>9, <3>1, <3>2
  <2>3. bounded => w.tree = v
    BY <1>8, <1>9, <2>2
  <2>4. x \in DOMAIN w.tree
    BY <1>3, <1>9
  <2>5. Walked(w, v, x, create, bounded)
    <3>. HIDE DEF next, x, here
    <3>. QED
      BY <1>1, <1>4, <1>9, <2>3, <2>4 DEF Walked
  <2>. QED
    BY <2>1, <2>5
<1>10. CASE w.error = "done" /\ <<s>> \notin DOMAIN here /\ KindOf(here) \notin {KindFor(s), "null"}
  <2>1. next = [w EXCEPT !.error = "kind_error"]
    BY <1>6, <1>10
  <2>2. next \in Walkers /\ next.tree = w.tree /\ next.error = "kind_error"
    BY <1>1, <2>1 DEF Walkers
  <2>3. bounded => w.tree = v
    BY <1>8, <1>10
  <2>4. x \notin DOMAIN w.tree
    BY <1>3, <1>10
  <2>5. Walked(next, v, x, create, bounded)
    <3>. HIDE DEF next, x, here
    <3>. QED
      BY <1>1, <1>4, <1>10, <2>2, <2>3, <2>4 DEF Walked
  <2>. QED
    BY <2>5
<1>11. CASE w.error = "done" /\ <<s>> \notin DOMAIN here /\ KindOf(here) \in {KindFor(s), "null"}
  <2>1. next = [tree  |-> g, error |-> IF <<s>> \in DOMAIN made THEN "done" ELSE "out_of_range"]
    BY <1>6, <1>11
  <2>2. next.tree = g /\ next.error = (IF <<s>> \in DOMAIN made THEN "done" ELSE "out_of_range")
    BY <2>1
  <2>3. CASE ~create
    <3>1. made = here /\ g = w.tree
      BY <1>5, <1>11, <2>3
    <3>2. next = [tree |-> v, error |-> "out_of_range"] /\ w.tree = v
      BY <1>1, <1>11, <2>1, <2>3, <3>1
    <3>3. next \in Walkers /\ next.tree = v /\ next.error = "out_of_range"
      BY <3>2 DEF Walkers
    <3>4. x \notin DOMAIN v
      BY <1>3, <1>11, <3>2
    <3>. HIDE DEF next, x, here, made
    <3>. QED
      BY <1>4, <3>2, <3>3, <3>4 DEF Walked, next, x
  <2>4. CASE create
    <3>. DEFINE e == Extended(here, s)
    <3>1. e \in Good /\ (s # Index(SizeMax) => Extends(e, here, s))
      BY <1>5, <1>11, ExtendedExtends
    <3>2. made = e
      BY <2>4
    <3>. HIDE DEF e, made
    <3>3. g \in Good
      BY <1>1, <1>2, <1>11, <3>1, <3>2, GraftIsWellFormed, GoodIsWellFormed
    <3>4. next \in Walkers
      BY <2>1, <3>3 DEF Walkers
    <3>5. <<s>> \in DOMAIN e => x \in DOMAIN g
      <4>1. Grafted(g, w.tree, p, e)
        BY <1>2, <3>1, <3>2, GraftNodes, GoodIsWellFormed
      <4>2. x = p \o <<s>>
        BY <1>1, AboveNext
      <4>. HIDE DEF g, x
      <4>. QED
        BY <4>1, <4>2 DEF Grafted
    <3>6. ASSUME bounded
          PROVE  Grown(g, v, x) /\ next.error = "done" /\ g[x].kind = "null"
      <4>1. Extends(e, here, s)
        BY <3>1, <3>6
      <4>2. <<s>> \in DOMAIN e
        BY <4>1 DEF Extends
      <4>3. Grown(w.tree, v, p) /\ p \in DOMAIN w.tree
        BY <1>1, <1>11, <3>6
      <4>4. Grown(Graft(w.tree, p, e), v, x) /\ Graft(w.tree, p, e)[x].kind = "null"
        <5>. DEFINE u == w.tree
        <5>1. u \in Good /\ Grown(u, v, p) /\ p \in DOMAIN u /\ Extends(e, Sub(u, p), s)
          BY <1>1, <4>1, <4>3
        <5>. HIDE DEF u
        <5>2. Grown(Graft(u, p, e), v, x) /\ Graft(u, p, e)[x].kind = "null"
          BY <1>1, <3>1, <5>1, GrowthGoesOn
        <5>. QED
          BY <5>2 DEF u
      <4>. QED
        BY <2>2, <3>2, <4>2, <4>4
    <3>7. next.error = "done" => x \in DOMAIN next.tree
      BY <2>2, <3>2, <3>5
    <3>. HIDE DEF next, x, here, g
    <3>8. Walked(next, v, x, create, bounded)
      BY <2>2, <2>4, <3>4, <3>6, <3>7 DEF Walked
    <3>. QED
      BY <3>8 DEF next, x
  <2>. QED
    BY <2>3, <2>4
<1>. QED
  BY <1>7, <1>9, <1>10, <1>11

\* The first steps of a path.
LEMMA FirstSteps ==
  ASSUME NEW p \in Seq(PathSteps)
  PROVE  /\ p \in Nodes /\ Len(p) \in Nat /\ SubSeq(p, 1, 0) = <<>> /\ SubSeq(p, 1, Len(p)) = p
         /\ \A n \in 1 .. Len(p) :
               /\ p[n] \in PathSteps /\ SubSeq(p, 1, n - 1) \in Nodes
               /\ SubSeq(p, 1, n) = Append(SubSeq(p, 1, n - 1), p[n])
<1>1. p \in Nodes /\ Len(p) \in Nat /\ \A n \in 1 .. Len(p) : p[n] \in PathSteps /\ p[n] \in StepSet
  <2>1. Len(p) \in Nat /\ \A n \in 1 .. Len(p) : p[n] \in PathSteps
    BY LenProperties, ElementOfSeq
  <2>2. p \in Nodes
    <3>1. p \in [1 .. Len(p) -> StepSet]
      BY <2>1, LenProperties, PathStepTypes
    <3>. QED
      BY <2>1, <3>1, SeqDef DEF Nodes
  <2>. QED
    BY <2>1, <2>2, PathStepTypes
<1>2. SubSeq(p, 1, Len(p)) = p
  BY <1>1, SubSeqFull DEF Nodes
<1>3. SubSeq(p, 1, 0) = <<>>
  BY <1>1, SubSeqEmpty DEF Nodes
<1>4. ASSUME NEW n \in 1 .. Len(p)
      PROVE  /\ SubSeq(p, 1, n - 1) \in Nodes
             /\ SubSeq(p, 1, n) = Append(SubSeq(p, 1, n - 1), p[n])
  <2>. DEFINE a == SubSeq(p, 1, n)
              b == SubSeq(p, 1, n - 1)
              c == Append(b, p[n])
  <2>1. n - 1 \in 0 .. Len(p) /\ n - 1 \in n - 1 .. Len(p) /\ n \in 0 .. Len(p) /\ n \in n .. Len(p)
    BY <1>1
  <2>2. a \in Nodes /\ Len(a) = n /\ b \in Nodes /\ Len(b) = n - 1
    BY <1>1, <2>1, PartsOfSequence DEF Nodes
  <2>3. (\A i \in 1 .. n : a[i] = p[i]) /\ \A i \in 1 .. n - 1 : b[i] = p[i]
    <3>1. (\A i \in 1 .. n : p[i] \in StepSet) /\ (\A i \in 1 .. n - 1 : p[i] \in StepSet)
      BY <1>1
    <3>2. /\ \A i \in 1 .. n - 1 + 1 : a[i] = p[1 + i - 1]
          /\ \A i \in 1 .. n - 1 - 1 + 1 : b[i] = p[1 + i - 1]
      BY <1>1, <2>1, <3>1, SubSeqProperties
    <3>3. n - 1 + 1 = n /\ n - 1 - 1 + 1 = n - 1
      BY <1>1
    <3>. HIDE DEF a, b
    <3>. QED
      BY <1>1, <3>2, <3>3
  <2>. HIDE DEF a, b
  <2>4. /\ c \in Nodes /\ Len(c) = n /\ c[n] = p[n]
        /\ \A i \in 1 .. n - 1 : c[i] = b[i]
    <3>1. c \in Seq(StepSet) /\ Len(c) = Len(b) + 1 /\ c[Len(b) + 1] = p[n]
          /\ \A i \in 1 .. Len(b) : c[i] = b[i]
      BY <1>1, <2>2, AppendProperties DEF Nodes
    <3>2. Len(b) + 1 = n
      BY <1>1, <2>2
    <3>. HIDE DEF c
    <3>. QED
      BY <2>2, <3>1, <3>2 DEF Nodes
  <2>. HIDE DEF c
  <2>5. \A i \in 1 .. n : a[i] = c[i]
    BY <1>1, <2>3, <2>4
  <2>6. a = c
    BY <2>2, <2>4, <2>5, SeqEqual DEF Nodes
  <2>. QED
    BY <2>2, <2>6 DEF a, b, c
<1>. QED
  BY <1>1, <1>2, <1>3, <1>4

\* What a walk comes to.
LEMMA WalkIsWalked ==
  ASSUME NEW v \in Good, NEW p \in Seq(PathSteps), NEW create \in BOOLEAN,
         NEW bounded \in BOOLEAN, bounded => Index(SizeMax) \notin ToSet(p)
  PROVE  Walked(Walk(v, p, create), v, p, create, bounded)
<1>. DEFINE N == Len(p)
            start == [tree |-> v, error |-> "done"]
            Upto(n) == SubSeq(p, 1, n)
            Step(w, n) == WalkStep(w, Upto(n - 1), p[n], create)
            h == [x \in Walkers \X (1 .. N) |->
                    IF Step(x[1], x[2]) \in Walkers THEN Step(x[1], x[2]) ELSE start]
            Defines(g) == g = [n \in 0 .. N |-> IF n = 0 THEN start ELSE Step(g[n - 1], n)]
            walked == CHOOSE g : Defines(g)
            IsWalked(w, n) == Walked(w, v, Upto(n), create, bounded)
<1>1. /\ N \in Nat /\ Upto(0) = <<>> /\ Upto(N) = p
      /\ \A n \in 1 .. N : /\ p[n] \in PathSteps /\ Upto(n - 1) \in Nodes
                           /\ Upto(n) = Append(Upto(n - 1), p[n])
  BY FirstSteps
<1>2. \A n \in 1 .. N : bounded => p[n] # Index(SizeMax)
  <2>1. \A n \in 1 .. N : p[n] \in ToSet(p)
    BY DEF ToSet
  <2>. QED
    BY <2>1
<1>3. start \in Walkers
  BY DEF Walkers
<1>4. IsWalked(start, 0)
  <2>1. <<>> \in DOMAIN v /\ start.tree = v /\ start.error = "done"
    BY GoodIsWellFormed DEF WellFormed
  <2>2. Grown(v, v, <<>>)
    BY DEF Grown
  <2>. HIDE DEF start
  <2>. QED
    BY <1>1, <1>3, <2>1, <2>2 DEF Walked
<1>5. ASSUME NEW n \in 1 .. N, NEW w, IsWalked(w, n - 1)
      PROVE  IsWalked(Step(w, n), n) /\ Step(w, n) \in Walkers
  <2>. DEFINE q == Upto(n - 1)
              s == p[n]
  <2>1. /\ q \in Nodes /\ s \in PathSteps /\ (bounded => s # Index(SizeMax))
        /\ Walked(w, v, q, create, bounded)
    BY <1>1, <1>2, <1>5
  <2>2. Upto(n) = Append(q, s)
    BY <1>1
  <2>. HIDE DEF q, s
  <2>3. Walked(WalkStep(w, q, s, create), v, Append(q, s), create, bounded)
    BY <2>1, WalkGoesOn
  <2>4. IsWalked(Step(w, n), n)
    <3>. HIDE DEF Upto
    <3>. QED
      BY <2>2, <2>3, Zenon DEF q, s
  <2>. HIDE DEF Step, Upto
  <2>. QED
    BY <2>4 DEF Walked
<1>6. h \in [Walkers \X (1 .. N) -> Walkers]
  <2>. HIDE DEF Step, start
  <2>. QED
    BY <1>3
<1>7. PICK f \in [0 .. N -> Walkers] : f[0] = start /\ \A n \in 1 .. N : f[n] = h[<<f[n - 1], n>>]
  <2>. HIDE DEF h, N, start
  <2>1. \E f \in [0 .. N -> Walkers] : Iterates(f, N, start, h)
    BY <1>1, <1>3, <1>6, Iteration
  <2>. QED
    BY <2>1 DEF Iterates
<1>8. ASSUME NEW n \in 1 .. N, IsWalked(f[n - 1], n - 1)
      PROVE  f[n] = Step(f[n - 1], n) /\ IsWalked(f[n], n)
  <2>. DEFINE w == f[n - 1]
  <2>1. w \in Walkers
    BY <1>7
  <2>2. IsWalked(Step(w, n), n) /\ Step(w, n) \in Walkers
    <3>1. IsWalked(w, n - 1)
      BY <1>8
    <3>. HIDE DEF w, Step, IsWalked
    <3>. QED
      BY <1>5, <3>1
  <2>. HIDE DEF Step, start
  <2>3. f[n] = Step(w, n)
    BY <1>7, <2>1, <2>2
  <2>. HIDE DEF w, IsWalked
  <2>. QED
    BY <2>2, <2>3 DEF w
<1>. HIDE DEF Step, h, start, IsWalked
<1>9. \A n \in 0 .. N : IsWalked(f[n], n)
  <2>. DEFINE T == {n \in 0 .. N : IsWalked(f[n], n)}
  <2>1. 0 \in T
    BY <1>1, <1>4, <1>7
  <2>2. ASSUME NEW n \in 1 .. N, n - 1 \in T PROVE n \in T
    BY <1>8, <2>2
  <2>. HIDE DEF T, N
  <2>3. 0 .. N \subseteq T
    BY <1>1, <2>1, <2>2, InductionUpto
  <2>. QED
    BY <2>3 DEF T
<1>10. ASSUME NEW n \in 1 .. N PROVE f[n] = Step(f[n - 1], n)
  <2>1. n - 1 \in 0 .. N
    BY <1>1
  <2>2. IsWalked(f[n - 1], n - 1)
    BY <1>9, <2>1
  <2>. QED
    BY <1>8, <2>2
<1>11. Defines(f)
  BY <1>7, <1>10
<1>12. Defines(walked)
  <2>. HIDE DEF Defines
  <2>. QED
    BY <1>11
<1>. HIDE DEF walked
<1>13. \A n \in 0 .. N : walked[n] = f[n]
  <2>. DEFINE T == {n \in 0 .. N : walked[n] = f[n]}
  <2>1. 0 \in T
    BY <1>1, <1>7, <1>12
  <2>2. ASSUME NEW n \in 1 .. N, n - 1 \in T PROVE n \in T
    BY <1>10, <1>12, <2>2
  <2>. HIDE DEF T, N
  <2>3. 0 .. N \subseteq T
    BY <1>1, <2>1, <2>2, InductionUpto
  <2>. QED
    BY <2>3 DEF T
<1>14. Walk(v, p, create) = walked[N]
  BY DEF Walk, walked, Step, WalkStep, start
<1>15. IsWalked(walked[N], N)
  <2>1. N \in 0 .. N
    BY <1>1
  <2>. HIDE DEF N
  <2>. QED
    BY <1>9, <1>13, <2>1
<1>16. Walked(walked[N], v, Upto(N), create, bounded)
  BY <1>15 DEF IsWalked
<1>. HIDE DEF Upto, N
<1>. QED
  BY <1>1, <1>14, <1>16

-----------------------------------------------------------------------------
(* The access by paths, and what follows for every call *)

\* What PathMakesWhatItFinds says of a step.
PathFindsWhatItMakes ==
    last'.name \in {"path", "at_path"} /\ Index(SizeMax) \notin ToSet(last'.arg[2]) =>
       LET t == last'.at
           p == last'.arg[2]
           before == At(t)
           after == AfterAt(t)
       IN  /\ \A x \in Variables \ {t[1]} : trees'[x] = trees[x]
           /\ last'.outcome = "done" => p \in DOMAIN after
           /\ last'.name = "at_path" =>
                 /\ after = before
                 /\ last'.outcome = "done" <=> p \in DOMAIN before
           /\ \A q \in DOMAIN before : q \in DOMAIN after /\
                 (after[q] = before[q] \/ (before[q].kind = "null" /\ Above(q, p) /\ q # p))
           /\ \A q \in DOMAIN after \ DOMAIN before :
                 after[q].kind = "null" \/ (IsContainer(after[q]) /\ Above(q, p) /\ q # p)

\* Putting back at a place what is there changes no variable; what is put there is there.
LEMMA WithWhatIsThere ==
  ASSUME Typed, NEW t \in Exist
  PROVE  /\ With(trees, t, At(t)) = trees
         /\ \A v \in Good :
               /\ Sub(With(trees, t, v)[t[1]], t[2]) = v
               /\ \A x \in Variables \ {t[1]} : With(trees, t, v)[x] = trees[x]
<1>1. PICK x \in Variables : \E p \in DOMAIN trees[x] : t = <<x, p>>
  BY ExistReaches DEF Reaches
<1>2. PICK p \in DOMAIN trees[x] : t = <<x, p>>
  BY <1>1
<1>3. /\ t[1] = x /\ t[2] = p /\ WellFormed(trees[x])
      /\ trees \in [Variables -> Good]
  BY <1>2, GoodIsWellFormed DEF Typed, Stores
<1>4. With(trees, t, At(t)) = trees
  <2>1. Graft(trees[x], p, Sub(trees[x], p)) = trees[x]
    BY <1>3, GraftOfSub
  <2>2. With(trees, t, At(t)) = [trees EXCEPT ![x] = trees[x]]
    BY <1>3, <2>1 DEF With, At
  <2>. QED
    BY <1>3, <2>2
<1>5. ASSUME NEW v \in Good
      PROVE  /\ Sub(With(trees, t, v)[t[1]], t[2]) = v
             /\ \A y \in Variables \ {t[1]} : With(trees, t, v)[y] = trees[y]
  <2>. DEFINE g == Graft(trees[x], p, v)
  <2>1. With(trees, t, v) = [trees EXCEPT ![x] = g]
    BY <1>3 DEF With
  <2>2. Sub(g, p) = v
    BY <1>3, GoodIsWellFormed, SubOfGraft
  <2>. HIDE DEF g
  <2>3. /\ With(trees, t, v)[x] = g
        /\ \A y \in Variables \ {x} : With(trees, t, v)[y] = trees[y]
    BY <1>3, <2>1
  <2>. QED
    BY <1>3, <2>2, <2>3
<1>. QED
  BY <1>4, <1>5

\* path and at_path.
LEMMA AccessPathIsGood ==
  ASSUME Typed, AccessPath
  PROVE  Typed' /\ Harmless /\ PathFindsWhatItMakes
<1>1. PICK t \in Exist, p \in Paths, create \in BOOLEAN :
         LET made == Made(t, p, create)
         IN  Ends(IF create THEN "path" ELSE "at_path", made.error, t, <<"path", p>>,
                  With(trees, t, made.tree))
  BY Zenon DEF AccessPath
<1>. DEFINE v == At(t)
            made == Walk(v, p, create)
            name == IF create THEN "path" ELSE "at_path"
            bounded == Index(SizeMax) \notin ToSet(p)
<1>2. /\ trees' = With(trees, t, made.tree) /\ handles' = handles
      /\ last' = [name |-> name, outcome |-> made.error, at |-> t, arg |-> <<"path", p>>]
  BY <1>1, Zenon DEF Ends, Made
<1>3. /\ last'.name = name /\ last'.outcome = made.error /\ last'.at = t
      /\ last'.arg = <<"path", p>> /\ last'.arg[2] = p /\ last'.arg[1] = "path"
  BY <1>2
<1>4. v \in Good
  BY AtIsGood
<1>5. p \in Seq(PathSteps)
  BY PathsAssumption DEF PathSteps
<1>6. Walked(made, v, p, create, bounded)
  <2>. HIDE DEF v
  <2>1. bounded \in BOOLEAN /\ (bounded => Index(SizeMax) \notin ToSet(p))
    OBVIOUS
  <2>. HIDE DEF bounded
  <2>. QED
    BY <1>4, <1>5, <2>1, WalkIsWalked
<1>. HIDE DEF made, v
<1>7. /\ made.tree \in Good /\ made.error \in {"done", "kind_error", "out_of_range"}
      /\ made.error = "done" => p \in DOMAIN made.tree
      /\ ~create => made.tree = v /\ (made.error # "done" => p \notin DOMAIN v)
      /\ bounded => /\ Grown(made.tree, v, p)
                    /\ made.tree # v => made.error = "done"
  BY <1>6 DEF Walked, Walkers
<1>8. Typed'
  <2>1. With(trees, t, made.tree) \in Stores
    BY <1>7, ExistReaches, WithIsStore DEF Typed
  <2>. QED
    BY <1>2, <2>1 DEF Typed
<1>9. made.tree = v => trees' = trees
  BY <1>2, WithWhatIsThere DEF v
<1>10. Harmless
  <2>1. CASE bounded
    <3>1. made.error \in Errors => made.tree = v
      BY <1>7, <2>1 DEF Errors
    <3>. QED
      BY <1>2, <1>3, <1>9, <3>1 DEF Harmless
  <2>2. CASE ~bounded
    <3>1. Index(SizeMax) \in ToSet(p) /\ <<"path", p>> # <<>>
      BY <2>2
    <3>. QED
      BY <1>2, <1>3, <3>1 DEF Harmless
  <2>. QED
    BY <2>1, <2>2
<1>11. PathFindsWhatItMakes
  <2>. SUFFICES ASSUME bounded PROVE PathFindsWhatItMakes
    BY <1>3 DEF PathFindsWhatItMakes
  <2>1. AfterAt(t) = made.tree /\ \A x \in Variables \ {t[1]} : trees'[x] = trees[x]
    BY <1>2, <1>7, WithWhatIsThere DEF AfterAt
  <2>2. name = "at_path" => ~create
    OBVIOUS
  <2>. HIDE DEF name
  <2>3. /\ \A q \in DOMAIN v : q \in DOMAIN made.tree /\
              (made.tree[q] = v[q] \/ (v[q].kind = "null" /\ Above(q, p) /\ q # p))
        /\ \A q \in DOMAIN made.tree \ DOMAIN v :
              made.tree[q].kind = "null" \/ (IsContainer(made.tree[q]) /\ Above(q, p) /\ q # p)
    BY <1>7 DEF Grown
  <2>4. name = "at_path" => /\ made.tree = v
                            /\ made.error = "done" <=> p \in DOMAIN v
    BY <1>7, <2>2
  <2>5. /\ \A x \in Variables \ {t[1]} : trees'[x] = trees[x]
        /\ made.error = "done" => p \in DOMAIN AfterAt(t)
        /\ name = "at_path" => /\ AfterAt(t) = At(t)
                               /\ made.error = "done" <=> p \in DOMAIN At(t)
        /\ \A q \in DOMAIN At(t) : q \in DOMAIN AfterAt(t) /\
              (AfterAt(t)[q] = At(t)[q] \/ (At(t)[q].kind = "null" /\ Above(q, p) /\ q # p))
        /\ \A q \in DOMAIN AfterAt(t) \ DOMAIN At(t) :
              AfterAt(t)[q].kind = "null" \/ (IsContainer(AfterAt(t)[q]) /\ Above(q, p) /\ q # p)
    BY <1>7, <2>1, <2>3, <2>4 DEF v
  <2>. HIDE DEF bounded
  <2>. QED
    BY <1>3, <2>5, Zenon DEF PathFindsWhatItMakes
<1>. QED
  BY <1>8, <1>10, <1>11

\* Every step keeps the values well-formed, is harmless if it fails, and does what a path is
\* to do if it is the access by one.
LEMMA StepsAreGood ==
  ASSUME Typed, [Next]_vars
  PROVE  /\ Typed'
         /\ Harmless \/ UNCHANGED vars
         /\ PathFindsWhatItMakes \/ UNCHANGED vars
<1>1. CASE UNCHANGED vars
  BY <1>1 DEF vars, Typed
<1>2. CASE Next /\ ~AccessPath
  <2>1. GoodStep
    BY <1>2, Zenon, CopyAssignIsGood, ConstructIsGood, ClearIsGood, MoveAssignIsGood, SwapIsGood,
       ArrayPushBackIsGood, ArrayPushFrontIsGood, ArrayInsertIsGood, ArrayPopIsGood,
       ArrayEraseIsGood, ArrayResizeIsGood, ArrayAssignIsGood, ArrayInsertRangeIsGood,
       AtsAreGood, ObjectSubscriptIsGood, ObjectInsertIsGood, ObjectEraseIsGood, ExtractIsGood,
       InsertHandleIsGood, MoveHandleIsGood, DropHandleIsGood DEF Next
  <2>2. PathFindsWhatItMakes
    BY <2>1, Zenon DEF GoodStep, PathNames, PathFindsWhatItMakes
  <2>. QED
    BY <2>1, <2>2 DEF GoodStep
<1>3. CASE AccessPath
  BY <1>3, AccessPathIsGood
<1>. QED
  BY <1>1, <1>2, <1>3

\* At first there are nulls.
LEMMA InitIsTyped == Init => Typed
<1>. SUFFICES ASSUME Init PROVE Typed
  OBVIOUS
<1>1. trees = [x \in Variables |-> Null] /\ handles = [h \in Handles |-> EmptyHandle]
  BY DEF Init
<1>. QED
  BY <1>1, EmptyHandleIsTyped, ConstantsAreGood DEF Typed, Stores

\* The invariant that the steps keep: the variables and the handles hold values.
THEOREM StoresAreTyped == Spec => []Typed
<1>1. Typed /\ [Next]_vars => Typed'
  BY StepsAreGood
<1>. QED
  BY <1>1, InitIsTyped, PTL DEF Spec

\* Whatever calls the program makes, of values that may lie inside each other, with arguments
\* moved from anywhere: every value, in a variable or a handle, stays well-formed.
THEOREM ValuesAreWellFormed == Spec => []ValuesStayWellFormed
<1>1. Typed => ValuesStayWellFormed
  <2>. SUFFICES ASSUME Typed PROVE ValuesStayWellFormed
    OBVIOUS
  <2>1. \A x \in Variables : WellFormed(trees[x])
    BY GoodIsWellFormed DEF Typed, Stores
  <2>2. \A h \in Handles : handles[h] \in HandleRecords
    BY DEF Typed
  <2>3. \A h \in Handles : WellFormed(handles[h].value) /\ handles[h].has_value \in BOOLEAN
    BY <2>2, GoodIsWellFormed DEF HandleRecords
  <2>. QED
    BY <2>1, <2>3 DEF ValuesStayWellFormed
<1>. QED
  BY <1>1, StoresAreTyped, PTL

\* A call that throws has changed nothing, but taken the argument it was given, or emptied an
\* array with the index whose successor is 0.
THEOREM FailuresAreHarmless == Spec => FailuresChangeNothing
<1>1. Typed /\ [Next]_vars => [Harmless]_vars
  BY StepsAreGood
<1>. QED
  BY <1>1, StoresAreTyped, PTL DEF Spec, FailuresChangeNothing, Harmless, Errors

\* path(p) makes p, and loses nothing; at_path(p) finds it just when it is there.
THEOREM PathsMakeWhatTheyFind == Spec => PathMakesWhatItFinds
<1>1. Typed /\ [Next]_vars => [PathFindsWhatItMakes]_vars
  BY StepsAreGood
<1>. QED
  BY <1>1, StoresAreTyped, PTL DEF Spec, PathMakesWhatItFinds, PathFindsWhatItMakes

-----------------------------------------------------------------------------
(* Counting *)

\* Two sets that have nothing in common have as many elements together as each has.
LEMMA CountApart ==
  ASSUME NEW S, NEW T, IsFiniteSet(S), IsFiniteSet(T), S \cap T = {}
  PROVE  /\ IsFiniteSet(S \cup T) /\ Cardinality(S) \in Nat /\ Cardinality(T) \in Nat
         /\ Cardinality(S \cup T) = Cardinality(S) + Cardinality(T)
<1>1. Cardinality(S \cap T) = 0
  BY FS_EmptySet
<1>2. /\ IsFiniteSet(S \cup T)
      /\ Cardinality(S \cup T) = Cardinality(S) + Cardinality(T) - Cardinality(S \cap T)
  BY FS_Union
<1>3. Cardinality(S) \in Nat /\ Cardinality(T) \in Nat
  BY FS_CardinalityType
<1>. QED
  BY <1>1, <1>2, <1>3

\* What f takes one to one from a finite set is as many.
LEMMA CountImage ==
  ASSUME NEW S, IsFiniteSet(S), NEW f, DOMAIN f = S, f = [x \in S |-> f[x]],
         \A x, y \in S : f[x] = f[y] => x = y
  PROVE  /\ IsFiniteSet({f[x] : x \in S})
         /\ Cardinality({f[x] : x \in S}) = Cardinality(S)
<1>. DEFINE T == {f[x] : x \in S}
<1>1. f \in [S -> T]
  OBVIOUS
<1>2. f \in Injection(S, T)
  BY <1>1 DEF Injection, IsInjective
<1>3. f \in Surjection(S, T)
  BY <1>1 DEF Surjection
<1>. HIDE DEF T
<1>. QED
  BY <1>2, <1>3, FS_Surjection DEF T

\* The nodes of a set, seen from above p.
LEMMA CountBelow ==
  ASSUME NEW S \in SUBSET Nodes, IsFiniteSet(S), NEW p \in Nodes
  PROVE  /\ IsFiniteSet({p \o r : r \in S})
         /\ Cardinality({p \o r : r \in S}) = Cardinality(S)
<1>. DEFINE f == [r \in S |-> p \o r]
<1>1. \A r, t \in S : f[r] = f[t] => r = t
  BY SameRest
<1>2. DOMAIN f = S /\ f = [r \in S |-> f[r]]
  OBVIOUS
<1>3. {f[r] : r \in S} = {p \o r : r \in S}
  OBVIOUS
<1>. HIDE DEF f
<1>4. IsFiniteSet({f[r] : r \in S}) /\ Cardinality({f[r] : r \in S}) = Cardinality(S)
  BY <1>1, <1>2, CountImage
<1>. QED
  BY <1>3, <1>4, Zenon

\* The numbers of a value are finitely many nodes.
LEMMA NumbersAreNodes ==
  ASSUME NEW v \in Good
  PROVE  /\ NumbersIn(v) \subseteq Nodes /\ NumbersIn(v) \subseteq DOMAIN v
         /\ IsFiniteSet(NumbersIn(v)) /\ Numbers(v) \in Nat
<1>1. DOMAIN v \subseteq Nodes /\ IsFiniteSet(DOMAIN v)
  BY GoodIsWellFormed DEF WellFormed, IsTree, Nodes
<1>2. NumbersIn(v) \subseteq DOMAIN v
  BY DEF NumbersIn
<1>. QED
  BY <1>1, <1>2, FS_Subset, FS_CardinalityType DEF Numbers

\* A null holds none.
LEMMA NullHasNone == Numbers(Null) = 0
<1>1. NumbersIn(Null) = {}
  BY NullLabel DEF NumbersIn
<1>. QED
  BY <1>1, FS_EmptySet DEF Numbers

\* Those of a value are those outside what is at p and those in it.
LEMMA CountAround ==
  ASSUME NEW v \in Good, NEW p \in DOMAIN v
  PROVE  LET rest == {q \in NumbersIn(v) : ~Above(p, q)}
         IN  IsFiniteSet(rest) /\ Numbers(v) = Cardinality(rest) + Numbers(Sub(v, p))
<1>. DEFINE rest == {q \in NumbersIn(v) : ~Above(p, q)}
            s == Sub(v, p)
            below == {p \o r : r \in NumbersIn(s)}
<1>1. /\ WellFormed(v) /\ p \in Nodes /\ DOMAIN v \subseteq Nodes /\ s \in Good
  BY GoodIsWellFormed, SubIsWellFormed DEF WellFormed, IsTree, Nodes
<1>2. DOMAIN s = {r \in Nodes : p \o r \in DOMAIN v} /\ \A r \in DOMAIN s : s[r] = v[p \o r]
  BY <1>1, SubNodes
<1>. HIDE DEF s
<1>3. NumbersIn(s) \subseteq Nodes /\ NumbersIn(s) \subseteq DOMAIN s /\ IsFiniteSet(NumbersIn(s))
  BY <1>1, NumbersAreNodes
<1>4. IsFiniteSet(below) /\ Cardinality(below) = Numbers(s)
  BY <1>1, <1>3, CountBelow DEF Numbers
<1>5. IsFiniteSet(rest)
  BY NumbersAreNodes, FS_Subset
<1>6. rest \cap below = {}
  <2>1. \A r \in NumbersIn(s) : Above(p, p \o r)
    BY <1>1, <1>3, AboveMeansBelow
  <2>. QED
    BY <2>1
<1>7. ASSUME NEW q \in NumbersIn(v), Above(p, q) PROVE q \in below
  <2>1. PICK r \in Nodes : q = p \o r
    BY <1>1, <1>7, BelowMeansAbove DEF NumbersIn
  <2>2. r \in DOMAIN s /\ s[r] = v[q] /\ v[q].kind = "number"
    BY <1>2, <1>7, <2>1 DEF NumbersIn
  <2>3. r \in NumbersIn(s)
    BY <2>2 DEF NumbersIn
  <2>. QED
    BY <2>1, <2>3
<1>8. ASSUME NEW q \in below PROVE q \in NumbersIn(v)
  BY <1>2, <1>3 DEF NumbersIn
<1>9. NumbersIn(v) = rest \cup below
  BY <1>7, <1>8
<1>. HIDE DEF rest, below
<1>. QED
  BY <1>4, <1>5, <1>6, <1>9, CountApart DEF Numbers, rest, s

\* So a value put at p replaces what was there.
LEMMA CountGraft ==
  ASSUME NEW v \in Good, NEW w \in Good, NEW p \in DOMAIN v
  PROVE  Numbers(Graft(v, p, w)) = Numbers(v) - Numbers(Sub(v, p)) + Numbers(w)
<1>. DEFINE g == Graft(v, p, w)
            outside(u) == {q \in NumbersIn(u) : ~Above(p, q)}
<1>1. /\ WellFormed(v) /\ WellFormed(w) /\ p \in Nodes /\ <<>> \in DOMAIN w
      /\ DOMAIN w \subseteq Nodes
  BY GoodIsWellFormed DEF WellFormed, IsTree, Nodes
<1>2. g \in Good /\ Grafted(g, v, p, w) /\ Sub(g, p) = w
  BY <1>1, GraftIsWellFormed, GoodIsWellFormed, GraftNodes, SubOfGraft
<1>. HIDE DEF g
<1>3. p \in DOMAIN g
  <2>1. p \o <<>> = p
    BY <1>1, ConcatEmptySeq DEF Nodes
  <2>. QED
    BY <1>1, <1>2, <2>1 DEF Grafted
<1>4. \A r \in DOMAIN w : Above(p, p \o r)
  BY <1>1, AboveMeansBelow
<1>5. outside(g) = outside(v)
  BY <1>2, <1>4 DEF NumbersIn, Grafted
<1>6. Numbers(v) = Cardinality(outside(v)) + Numbers(Sub(v, p)) /\ IsFiniteSet(outside(v))
  BY CountAround
<1>7. Numbers(g) = Cardinality(outside(g)) + Numbers(w)
  BY <1>2, <1>3, CountAround
<1>8. Sub(v, p) \in Good
  BY <1>1, SubIsWellFormed, GoodIsWellFormed
<1>9. /\ Numbers(v) \in Nat /\ Numbers(w) \in Nat /\ Numbers(Sub(v, p)) \in Nat
      /\ Cardinality(outside(v)) \in Nat
  BY <1>6, <1>8, NumbersAreNodes, FS_CardinalityType
<1>. HIDE DEF outside
<1>. QED
  BY <1>5, <1>6, <1>7, <1>9 DEF g

\* The numbers of values that have names, each with the name of its value.
Tagged(f) == UNION {{x} \X NumbersIn(f[x]) : x \in DOMAIN f}

\* They are finitely many, and those of one value are as many as it holds.
LEMMA TaggedIsFinite ==
  ASSUME NEW X, IsFiniteSet(X), NEW f \in [X -> Good]
  PROVE  /\ IsFiniteSet(Tagged(f)) /\ NumbersOf(f) = Cardinality(Tagged(f)) /\ NumbersOf(f) \in Nat
         /\ \A x \in X : /\ IsFiniteSet({x} \X NumbersIn(f[x]))
                         /\ Cardinality({x} \X NumbersIn(f[x])) = Numbers(f[x])
<1>1. ASSUME NEW x \in X
      PROVE  /\ IsFiniteSet({x} \X NumbersIn(f[x]))
             /\ Cardinality({x} \X NumbersIn(f[x])) = Numbers(f[x])
  <2>1. IsFiniteSet({x}) /\ Cardinality({x}) = 1
    BY FS_Singleton
  <2>2. IsFiniteSet(NumbersIn(f[x])) /\ Numbers(f[x]) \in Nat
    BY NumbersAreNodes
  <2>3. /\ IsFiniteSet({x} \X NumbersIn(f[x]))
        /\ Cardinality({x} \X NumbersIn(f[x])) = Cardinality({x}) * Cardinality(NumbersIn(f[x]))
    BY <2>1, <2>2, FS_Product
  <2>. QED
    BY <2>1, <2>2, <2>3 DEF Numbers
<1>. DEFINE g == [x \in X |-> {x} \X NumbersIn(f[x])]
            T == {g[x] : x \in X}
<1>2. g \in Surjection(X, T)
  BY DEF Surjection
<1>3. \A t \in T : IsFiniteSet(t)
  BY <1>1
<1>4. Tagged(f) = UNION T
  BY DEF Tagged
<1>. HIDE DEF T, g
<1>5. IsFiniteSet(T)
  BY <1>2, FS_Surjection
<1>6. IsFiniteSet(Tagged(f))
  BY <1>3, <1>4, <1>5, FS_UNION
<1>7. NumbersOf(f) = Cardinality(Tagged(f))
  BY DEF NumbersOf, Tagged
<1>. QED
  BY <1>1, <1>6, <1>7, FS_CardinalityType

\* A value with a name replaced.
LEMMA CountChange ==
  ASSUME NEW X, IsFiniteSet(X), NEW f \in [X -> Good], NEW x \in X, NEW w \in Good
  PROVE  NumbersOf([f EXCEPT ![x] = w]) = NumbersOf(f) - Numbers(f[x]) + Numbers(w)
<1>. DEFINE g == [f EXCEPT ![x] = w]
            others == {z \in Tagged(f) : z[1] # x}
            Of1(h) == {x} \X NumbersIn(h[x])
<1>1. g \in [X -> Good] /\ g[x] = w /\ \A y \in X \ {x} : g[y] = f[y]
  OBVIOUS
<1>. HIDE DEF g
<1>2. /\ Tagged(f) = others \cup Of1(f) /\ others \cap Of1(f) = {}
  BY DEF Tagged
<1>3. /\ Tagged(g) = others \cup Of1(g) /\ others \cap Of1(g) = {}
  <2>1. ASSUME NEW z \in Tagged(g) PROVE z \in others \cup Of1(g)
    BY <1>1 DEF Tagged
  <2>2. ASSUME NEW z \in others \cup Of1(g) PROVE z \in Tagged(g)
    BY <1>1 DEF Tagged
  <2>. QED
    BY <2>1, <2>2
<1>4. /\ IsFiniteSet(others) /\ NumbersOf(f) = Cardinality(Tagged(f))
      /\ NumbersOf(g) = Cardinality(Tagged(g))
      /\ IsFiniteSet(Of1(f)) /\ Cardinality(Of1(f)) = Numbers(f[x])
      /\ IsFiniteSet(Of1(g)) /\ Cardinality(Of1(g)) = Numbers(w)
  BY <1>1, TaggedIsFinite, FS_Subset
<1>. HIDE DEF others, Of1
<1>5. /\ Cardinality(Tagged(f)) = Cardinality(others) + Cardinality(Of1(f))
      /\ Cardinality(Tagged(g)) = Cardinality(others) + Cardinality(Of1(g))
      /\ Cardinality(others) \in Nat /\ Cardinality(Of1(f)) \in Nat /\ Cardinality(Of1(g)) \in Nat
  BY <1>2, <1>3, <1>4, CountApart
<1>. QED
  BY <1>4, <1>5 DEF g

\* A sequence of values is a function.
LEMMA SequenceIsFunction ==
  ASSUME NEW es \in Seq(Good)
  PROVE  /\ Len(es) \in Nat /\ DOMAIN es = 1 .. Len(es) /\ es \in [1 .. Len(es) -> Good]
         /\ IsFiniteSet(1 .. Len(es))
<1>1. Len(es) \in Nat /\ DOMAIN es = 1 .. Len(es) /\ \A i \in 1 .. Len(es) : es[i] \in Good
  BY LenProperties, ElementOfSeq
<1>2. es = [i \in DOMAIN es |-> es[i]]
  OBVIOUS
<1>3. IsFiniteSet(1 .. Len(es))
  BY <1>1, FS_Interval
<1>. QED
  BY <1>1, <1>2, <1>3

\* An array holds what its elements hold.
LEMMA CountArray ==
  ASSUME NEW es \in Seq(Good)
  PROVE  Numbers(ArrayOf(es)) = NumbersOf(es) /\ NumbersOf(es) \in Nat
<1>. DEFINE n == Len(es)
            a == ArrayOf(es)
            at == [z \in Tagged(es) |-> <<Index(z[1] - 1)>> \o z[2]]
<1>1. n \in Nat /\ DOMAIN es = 1 .. n /\ es \in [1 .. n -> Good] /\ IsFiniteSet(1 .. n)
  BY SequenceIsFunction
<1>. HIDE DEF n
<1>2. \A i \in 1 .. n : /\ NumbersIn(es[i]) \subseteq Nodes /\ NumbersIn(es[i]) \subseteq DOMAIN es[i]
                        /\ WellFormed(es[i]) /\ DOMAIN es[i] \subseteq Nodes
  BY <1>1, NumbersAreNodes, GoodIsWellFormed DEF WellFormed, IsTree, Nodes
<1>3. IsArrayOf(a, es)
  BY <1>1, <1>2, ArrayNodes
<1>. HIDE DEF a
<1>4. ASSUME NEW z \in Tagged(es)
      PROVE  /\ z[1] \in 1 .. n /\ z[2] \in NumbersIn(es[z[1]]) /\ z = <<z[1], z[2]>>
             /\ Tail(at[z]) = z[2] /\ Head(at[z])[2] + 1 = z[1]
  <2>1. z[1] \in 1 .. n /\ z[2] \in NumbersIn(es[z[1]]) /\ z = <<z[1], z[2]>>
    BY <1>1 DEF Tagged
  <2>. DEFINE i == z[1]
              r == z[2]
  <2>2. at[z] = <<Index(i - 1)>> \o r
    OBVIOUS
  <2>3. i \in 1 .. n /\ r \in Nodes
    BY <1>2, <2>1
  <2>. HIDE DEF i, r, at
  <2>4. Tail(at[z]) = r /\ Head(at[z])[2] + 1 = i
    BY <1>1, <2>2, <2>3, FirstStep
  <2>. QED
    BY <2>1, <2>4 DEF i, r
<1>5. ASSUME NEW y \in Tagged(es), NEW z \in Tagged(es), at[y] = at[z] PROVE y = z
  <2>. HIDE DEF at
  <2>1. y = <<y[1], y[2]>> /\ z = <<z[1], z[2]>>
    BY <1>4
  <2>2. y[2] = z[2] /\ y[1] = z[1]
    BY <1>4, <1>5
  <2>. QED
    BY <2>1, <2>2
<1>6. ASSUME NEW z \in Tagged(es) PROVE at[z] \in NumbersIn(a)
  <2>1. z[2] \in DOMAIN es[z[1]] /\ es[z[1]][z[2]].kind = "number" /\ z[1] \in DOMAIN es
    BY <1>1, <1>4 DEF NumbersIn
  <2>2. at[z] \in DOMAIN a /\ a[at[z]] = es[z[1]][z[2]]
    BY <1>3, <2>1 DEF IsArrayOf
  <2>. QED
    BY <2>1, <2>2 DEF NumbersIn
<1>7. ASSUME NEW q \in NumbersIn(a) PROVE \E z \in Tagged(es) : q = at[z]
  <2>0. a[<<>>].kind = "array"
    <3>1. Label("array", "").kind = "array"
      BY DEF Label
    <3>. QED
      BY <1>3, <3>1 DEF IsArrayOf
  <2>1. q \in DOMAIN a /\ a[q].kind = "number" /\ q # <<>>
    BY <2>0 DEF NumbersIn
  <2>2. PICK i \in DOMAIN es : \E r \in DOMAIN es[i] : q = <<Index(i - 1)>> \o r
    BY <1>3, <2>1 DEF IsArrayOf
  <2>3. PICK r \in DOMAIN es[i] : q = <<Index(i - 1)>> \o r
    BY <2>2
  <2>4. a[q] = es[i][r]
    BY <1>3, <2>3 DEF IsArrayOf
  <2>5. r \in NumbersIn(es[i])
    BY <2>1, <2>4 DEF NumbersIn
  <2>6. <<i, r>> \in Tagged(es)
    BY <2>5 DEF Tagged
  <2>. QED
    BY <2>3, <2>6
<1>8. DOMAIN at = Tagged(es) /\ at = [z \in Tagged(es) |-> at[z]]
  OBVIOUS
<1>. HIDE DEF at
<1>9. {at[z] : z \in Tagged(es)} = NumbersIn(a)
  BY <1>6, <1>7
<1>10. IsFiniteSet(Tagged(es)) /\ NumbersOf(es) = Cardinality(Tagged(es)) /\ NumbersOf(es) \in Nat
  BY <1>1, TaggedIsFinite
<1>11. Cardinality({at[z] : z \in Tagged(es)}) = Cardinality(Tagged(es))
  BY <1>5, <1>8, <1>10, CountImage
<1>. QED
  BY <1>9, <1>10, <1>11 DEF Numbers, a

\* One value alone.
LEMMA CountOne ==
  ASSUME NEW w \in Good
  PROVE  NumbersOf(<<w>>) = Numbers(w)
<1>1. <<w>> \in [{1} -> Good] /\ DOMAIN <<w>> = {1} /\ <<w>>[1] = w /\ IsFiniteSet({1})
  BY FS_Singleton
<1>2. Tagged(<<w>>) = {1} \X NumbersIn(w)
  BY DEF Tagged
<1>. QED
  BY <1>1, <1>2, TaggedIsFinite

\* Sequences of values one behind the other.
LEMMA CountConcat ==
  ASSUME NEW es \in Seq(Good), NEW fs \in Seq(Good)
  PROVE  NumbersOf(es \o fs) = NumbersOf(es) + NumbersOf(fs)
<1>. DEFINE m == Len(es)
            n == Len(fs)
            c == es \o fs
            up == [z \in Tagged(fs) |-> <<z[1] + m, z[2]>>]
            moved == {up[z] : z \in Tagged(fs)}
<1>0. /\ c \in Seq(Good) /\ Len(c) = m + n
      /\ \A i \in 1 .. m + n : c[i] = IF i <= m THEN es[i] ELSE fs[i - m]
  BY ConcatProperties
<1>1. /\ m \in Nat /\ DOMAIN es = 1 .. m /\ es \in [1 .. m -> Good] /\ IsFiniteSet(1 .. m)
      /\ n \in Nat /\ DOMAIN fs = 1 .. n /\ fs \in [1 .. n -> Good] /\ IsFiniteSet(1 .. n)
      /\ \A i \in 1 .. m + n : c[i] = IF i <= m THEN es[i] ELSE fs[i - m]
  BY <1>0, SequenceIsFunction
<1>2. DOMAIN c = 1 .. m + n /\ c \in [1 .. m + n -> Good] /\ IsFiniteSet(1 .. m + n)
  <2>. HIDE DEF c, m, n
  <2>. QED
    BY <1>0, SequenceIsFunction
<1>. HIDE DEF m, n, c
<1>3. \A z \in Tagged(fs) : z[1] \in 1 .. n /\ z[2] \in NumbersIn(fs[z[1]]) /\ z = <<z[1], z[2]>>
  BY <1>1 DEF Tagged
<1>4. \A z \in Tagged(es) : z[1] \in 1 .. m /\ z[2] \in NumbersIn(es[z[1]]) /\ z = <<z[1], z[2]>>
  BY <1>1 DEF Tagged
<1>5. \A z \in Tagged(c) : z[1] \in 1 .. m + n /\ z[2] \in NumbersIn(c[z[1]]) /\ z = <<z[1], z[2]>>
  BY <1>2 DEF Tagged
<1>6. /\ \A i \in 1 .. m : \A r \in NumbersIn(es[i]) : <<i, r>> \in Tagged(es)
      /\ \A i \in 1 .. n : \A r \in NumbersIn(fs[i]) : <<i, r>> \in Tagged(fs)
      /\ \A i \in 1 .. m + n : \A r \in NumbersIn(c[i]) : <<i, r>> \in Tagged(c)
  BY <1>1, <1>2 DEF Tagged
<1>7. ASSUME NEW y \in Tagged(fs), NEW z \in Tagged(fs), up[y] = up[z] PROVE y = z
  <2>1. y[1] + m = z[1] + m /\ y[2] = z[2] /\ y[1] \in Nat /\ z[1] \in Nat
    BY <1>3, <1>7
  <2>2. y[1] = z[1]
    BY <1>1, <2>1
  <2>. QED
    BY <1>3, <2>1, <2>2
<1>8. ASSUME NEW z \in Tagged(c) PROVE z \in Tagged(es) \cup moved
  <2>. DEFINE i == z[1]
              r == z[2]
  <2>1. i \in 1 .. m + n /\ r \in NumbersIn(c[i]) /\ z = <<i, r>>
    BY <1>5
  <2>. HIDE DEF i, r
  <2>2. CASE i <= m
    <3>1. c[i] = es[i] /\ i \in 1 .. m
      BY <1>1, <2>1, <2>2
    <3>. QED
      BY <1>6, <2>1, <3>1
  <2>3. CASE ~(i <= m)
    <3>1. c[i] = fs[i - m] /\ i - m \in 1 .. n /\ (i - m) + m = i
      BY <1>1, <2>1, <2>3
    <3>2. <<i - m, r>> \in Tagged(fs)
      BY <1>6, <2>1, <3>1
    <3>3. up[<<i - m, r>>] = z
      BY <2>1, <3>1, <3>2
    <3>. QED
      BY <3>2, <3>3
  <2>. QED
    BY <2>2, <2>3
<1>9. ASSUME NEW z \in Tagged(es) PROVE z \in Tagged(c)
  <2>1. z[1] \in 1 .. m + n /\ c[z[1]] = es[z[1]]
    BY <1>1, <1>4
  <2>. QED
    BY <1>4, <1>6, <2>1
<1>10. ASSUME NEW z \in Tagged(fs) PROVE up[z] \in Tagged(c)
  <2>. DEFINE i == z[1] + m
  <2>1. i \in 1 .. m + n /\ ~(i <= m) /\ i - m = z[1]
    BY <1>1, <1>3
  <2>2. up[z] = <<i, z[2]>>
    OBVIOUS
  <2>. HIDE DEF i
  <2>3. c[i] = fs[z[1]]
    BY <1>1, <2>1
  <2>. QED
    BY <1>3, <1>6, <2>1, <2>2, <2>3
<1>11. Tagged(es) \cap moved = {}
  <2>1. ASSUME NEW z \in Tagged(fs) PROVE up[z] \notin Tagged(es)
    <3>1. up[z][1] = z[1] + m /\ z[1] \in 1 .. n
      BY <1>3
    <3>. HIDE DEF up
    <3>2. up[z][1] \notin 1 .. m
      BY <1>1, <3>1
    <3>. QED
      BY <1>4, <3>2
  <2>. QED
    BY <2>1
<1>12. Tagged(c) = Tagged(es) \cup moved
  BY <1>8, <1>9, <1>10
<1>13. DOMAIN up = Tagged(fs) /\ up = [z \in Tagged(fs) |-> up[z]]
  OBVIOUS
<1>. HIDE DEF up
<1>14. /\ IsFiniteSet(Tagged(es)) /\ NumbersOf(es) = Cardinality(Tagged(es))
       /\ IsFiniteSet(Tagged(fs)) /\ NumbersOf(fs) = Cardinality(Tagged(fs))
       /\ NumbersOf(c) = Cardinality(Tagged(c))
  BY <1>1, <1>2, TaggedIsFinite
<1>15. IsFiniteSet(moved) /\ Cardinality(moved) = Cardinality(Tagged(fs))
  BY <1>7, <1>13, <1>14, CountImage
<1>. HIDE DEF moved
<1>16. Cardinality(Tagged(c)) = Cardinality(Tagged(es)) + Cardinality(moved)
  BY <1>11, <1>12, <1>14, <1>15, CountApart
<1>17. NumbersOf(c) = NumbersOf(es) + NumbersOf(fs)
  BY <1>14, <1>15, <1>16
<1>. QED
  BY <1>17 DEF c

\* An array is the array of its elements.
LEMMA ArrayOfElements ==
  ASSUME NEW v \in Good, KindOf(v) = "array"
  PROVE  ArrayOf(Elements(v)) = v
<1>. DEFINE n == Size(v)
            es == Elements(v)
            a == ArrayOf(es)
<1>1. /\ WellFormed(v) /\ DOMAIN v \subseteq Nodes /\ <<>> \in DOMAIN v
      /\ v \in [DOMAIN v -> Labels]
  BY GoodIsWellFormed DEF WellFormed, IsTree, Nodes
<1>2. /\ es \in Seq(Good) /\ n \in Nat /\ DOMAIN es = 1 .. n
      /\ \A i \in 1 .. n : es[i] = Sub(v, <<Index(i - 1)>>)
  BY ElementsAreGood, SequenceIsFunction
<1>3. \A i \in Nat : <<Index(i)>> \in DOMAIN v <=> i < n
  BY <1>1, ArraySteps
<1>. HIDE DEF es, n
<1>4. IsArrayOf(a, es) /\ WellFormed(a)
  <2>1. \A i \in 1 .. n : WellFormed(es[i])
    BY <1>2, SequenceIsFunction, GoodIsWellFormed
  <2>. QED
    BY <1>2, <2>1, ArrayNodes, ArrayIsWellFormed
<1>. HIDE DEF a
<1>5. ASSUME NEW i \in 1 .. n
      PROVE  /\ DOMAIN es[i] = {r \in Nodes : <<Index(i - 1)>> \o r \in DOMAIN v}
             /\ \A r \in DOMAIN es[i] : es[i][r] = v[<<Index(i - 1)>> \o r]
  <2>. DEFINE p == <<Index(i - 1)>>
  <2>1. p \in Nodes
    BY <1>2, StepTypes DEF Nodes
  <2>. HIDE DEF p
  <2>2. /\ DOMAIN Sub(v, p) = {r \in Nodes : p \o r \in DOMAIN v}
        /\ \A r \in DOMAIN Sub(v, p) : Sub(v, p)[r] = v[p \o r]
    BY <1>1, <2>1, SubNodes
  <2>. QED
    BY <1>2, <2>2 DEF p
<1>6. a[<<>>] = v[<<>>]
  <2>1. v[<<>>] \in Labels /\ v[<<>>].kind = "array"
    BY <1>1 DEF KindOf
  <2>2. v[<<>>] \in [kind : ContainerKinds, content : {""}]
    BY <2>1 DEF Labels, ScalarKinds
  <2>3. v[<<>>] = Label("array", "")
    BY <2>1, <2>2 DEF Label
  <2>. QED
    BY <1>4, <2>3 DEF IsArrayOf
<1>7. ASSUME NEW q \in DOMAIN a, q # <<>> PROVE q \in DOMAIN v /\ a[q] = v[q]
  <2>1. PICK i \in DOMAIN es : \E r \in DOMAIN es[i] : q = <<Index(i - 1)>> \o r
    BY <1>4, <1>7 DEF IsArrayOf
  <2>2. PICK r \in DOMAIN es[i] : q = <<Index(i - 1)>> \o r
    BY <2>1
  <2>3. a[q] = es[i][r]
    BY <1>4, <2>2 DEF IsArrayOf
  <2>. QED
    BY <1>2, <1>5, <2>2, <2>3
<1>8. ASSUME NEW q \in DOMAIN v, q # <<>> PROVE q \in DOMAIN a
  <2>. DEFINE s == Head(q)
              r == Tail(q)
  <2>1. /\ s \in StepSet /\ r \in Nodes /\ q = <<s>> \o r /\ <<s>> \in DOMAIN v /\ s[1] = "index"
    BY <1>1, <1>8, NodeOfElement
  <2>. HIDE DEF s, r
  <2>2. PICK j \in Nat : s = Index(j)
    BY <2>1 DEF StepSet, Index
  <2>3. j < n
    BY <1>3, <2>1, <2>2
  <2>. DEFINE i == j + 1
  <2>4. i \in 1 .. n /\ i - 1 = j
    BY <1>2, <2>3
  <2>. HIDE DEF i
  <2>5. r \in DOMAIN es[i] /\ q = <<Index(i - 1)>> \o r
    BY <1>5, <2>1, <2>2, <2>4
  <2>. QED
    BY <1>2, <1>4, <2>4, <2>5 DEF IsArrayOf
<1>9. DOMAIN a = DOMAIN v
  BY <1>1, <1>4, <1>7, <1>8 DEF IsArrayOf
<1>10. a = v
  <2>1. \A q \in DOMAIN a : a[q] = v[q]
    BY <1>6, <1>7
  <2>. QED
    BY <1>1, <1>4, <1>9, <2>1, SameTree
<1>. QED
  BY <1>10 DEF a, es

\* Values put between those of a sequence.
LEMMA CountBetween ==
  ASSUME NEW es \in Seq(Good), NEW fs \in Seq(Good), NEW i \in 0 .. Len(es)
  PROVE  LET all == SubSeq(es, 1, i) \o fs \o SubSeq(es, i + 1, Len(es))
         IN  all \in Seq(Good) /\ NumbersOf(all) = NumbersOf(es) + NumbersOf(fs)
<1>. DEFINE n == Len(es)
            a == SubSeq(es, 1, i)
            b == SubSeq(es, i + 1, n)
<1>1. n \in Nat /\ i \in Nat /\ i <= n
  BY LenProperties
<1>2. a \in Seq(Good) /\ b \in Seq(Good)
  BY <1>1, PartsOfSequence
<1>3. a \o b = es
  <2>1. i \in 1 - 1 .. n /\ n \in i .. n /\ 1 \in 1 .. n + 1
    BY <1>1
  <2>2. SubSeq(es, 1, i) \o SubSeq(es, i + 1, n) = SubSeq(es, 1, n)
    BY <2>1, ConcatAdjacentSubSeq
  <2>. QED
    BY <2>2, SubSeqFull
<1>. HIDE DEF a, b
<1>4. a \o fs \in Seq(Good) /\ NumbersOf(a \o fs) = NumbersOf(a) + NumbersOf(fs)
  BY <1>2, ConcatProperties, CountConcat
<1>. DEFINE c == a \o fs
<1>. HIDE DEF c
<1>5. c \o b \in Seq(Good) /\ NumbersOf(c \o b) = NumbersOf(c) + NumbersOf(b)
  BY <1>2, <1>4, ConcatProperties, CountConcat DEF c
<1>6. NumbersOf(es) = NumbersOf(a) + NumbersOf(b)
  BY <1>2, <1>3, CountConcat
<1>7. NumbersOf(a) \in Nat /\ NumbersOf(b) \in Nat /\ NumbersOf(fs) \in Nat
  BY <1>2, CountArray
<1>8. NumbersOf(c \o b) = NumbersOf(es) + NumbersOf(fs)
  BY <1>4, <1>5, <1>6, <1>7 DEF c
<1>. QED
  BY <1>5, <1>8 DEF a, b, c

\* One more element.
LEMMA CountInsertedAt ==
  ASSUME NEW v \in Good, KindOf(v) = "array", NEW i \in 0 .. Size(v), NEW w \in Good
  PROVE  Numbers(InsertedAt(v, i, w)) = Numbers(v) + Numbers(w)
<1>. DEFINE es == Elements(v)
            all == SubSeq(es, 1, i) \o <<w>> \o SubSeq(es, i + 1, Len(es))
<1>1. es \in Seq(Good) /\ Len(es) = Size(v) /\ ArrayOf(es) = v /\ Size(v) \in Nat
  BY ElementsAreGood, ArrayOfElements
<1>. HIDE DEF es
<1>2. <<w>> \in Seq(Good) /\ i \in 0 .. Len(es)
  BY <1>1
<1>3. all \in Seq(Good) /\ NumbersOf(all) = NumbersOf(es) + NumbersOf(<<w>>)
  BY <1>1, <1>2, CountBetween
<1>4. InsertAt(es, i + 1, w) = all
  <2>. DEFINE m == i + 1
  <2>1. InsertAt(es, m, w) = SubSeq(es, 1, m - 1) \o <<w>> \o SubSeq(es, m, Len(es))
    BY DEF InsertAt
  <2>2. m - 1 = i
    BY <1>1
  <2>. HIDE DEF m
  <2>3. InsertAt(es, m, w) = SubSeq(es, 1, i) \o <<w>> \o SubSeq(es, m, Len(es))
    BY <2>1, <2>2, Zenon
  <2>. QED
    BY <2>3 DEF m
<1>. HIDE DEF all
<1>5. InsertedAt(v, i, w) = ArrayOf(all)
  BY <1>4 DEF InsertedAt, es
<1>. QED
  BY <1>1, <1>3, <1>5, CountArray, CountOne

\* What is below a step is what begins with it.
LEMMA AboveStep ==
  ASSUME NEW s \in StepSet, NEW q \in Nodes
  PROVE  Above(<<s>>, q) <=> q # <<>> /\ Head(q) = s
<1>. DEFINE p == <<s>>
<1>1. p \in Nodes
  BY DEF Nodes
<1>2. ASSUME Above(p, q) PROVE q # <<>> /\ Head(q) = s
  <2>1. PICK r \in Nodes : q = p \o r
    BY <1>1, <1>2, BelowMeansAbove
  <2>. QED
    BY <2>1, PrependStep DEF Nodes
<1>3. ASSUME q # <<>>, Head(q) = s PROVE Above(p, q)
  <2>1. Tail(q) \in Nodes /\ q = p \o Tail(q)
    BY <1>3, HeadTailProperties DEF Nodes
  <2>. HIDE DEF p
  <2>. QED
    BY <1>1, <2>1, AboveMeansBelow
<1>. QED
  BY <1>2, <1>3

\* An object without a member, and the member.
LEMMA CountWithout ==
  ASSUME NEW v \in Good, NEW k \in Text, HasKey(v, k)
  PROVE  Numbers(v) = Numbers(Without(v, k)) + Numbers(Member(v, k))
<1>. DEFINE s == Key(k)
            p == <<s>>
            rest == {q \in NumbersIn(v) : ~Above(p, q)}
<1>1. s \in StepSet /\ p \in DOMAIN v
  BY StepTypes DEF HasKey
<1>2. NumbersIn(v) \subseteq Nodes
  BY NumbersAreNodes
<1>3. Numbers(v) = Cardinality(rest) + Numbers(Sub(v, p))
  BY <1>1, CountAround
<1>. HIDE DEF s
<1>4. \A q \in NumbersIn(v) : ~Above(p, q) <=> q = <<>> \/ Head(q) # s
  BY <1>1, <1>2, AboveStep
<1>5. NumbersIn(Without(v, k)) = rest
  BY <1>4 DEF NumbersIn, Without, s
<1>. HIDE DEF rest
<1>. QED
  BY <1>3, <1>5 DEF Numbers, Member, s

\* One more member, if it is not there.
LEMMA CountInserted ==
  ASSUME NEW v \in Good, NEW w \in Good, KindOf(v) = "object", NEW k \in Text
  PROVE  /\ Numbers(Inserted(v, k, w)) = Numbers(v) + (IF HasKey(v, k) THEN 0 ELSE Numbers(w))
         /\ Size(Inserted(v, k, w)) > Size(v) <=> ~HasKey(v, k)
<1>1. CASE HasKey(v, k)
  <2>1. Inserted(v, k, w) = v
    BY <1>1 DEF Inserted
  <2>2. Numbers(v) \in Nat /\ Size(v) \in Nat
    BY NumbersAreNodes, StepsOfValue, GoodIsWellFormed
  <2>. QED
    BY <1>1, <2>1, <2>2
<1>2. CASE ~HasKey(v, k)
  <2>. DEFINE s == Key(k)
              u == Put(v, s, w)
              below == {<<s>> \o r : r \in NumbersIn(w)}
  <2>1. /\ s \in StepSet /\ <<s>> \in Nodes /\ <<s>> \notin DOMAIN v /\ WellFormed(v)
        /\ WellFormed(w) /\ DOMAIN v \subseteq Nodes /\ DOMAIN w \subseteq Nodes /\ <<>> \in DOMAIN w
    BY <1>2, StepTypes, GoodIsWellFormed DEF HasKey, WellFormed, IsTree, Nodes
  <2>2. Inserted(v, k, w) = u /\ u \in Good
    BY <1>2, InsertedIsGood DEF Inserted, PutMember
  <2>. HIDE DEF s
  <2>3. \A q \in DOMAIN v : q = <<>> \/ Head(q) # s
    BY <2>1, NodeOfElement
  <2>4. \A r \in DOMAIN w : /\ <<s>> \o r # <<>> /\ Head(<<s>> \o r) = s /\ Tail(<<s>> \o r) = r
                            /\ <<s>> \o r \notin DOMAIN v
    BY <2>1, <2>3, PrependStep DEF Nodes
  <2>5. /\ DOMAIN u = DOMAIN v \cup {<<s>> \o r : r \in DOMAIN w}
        /\ \A q \in DOMAIN v : u[q] = v[q]
        /\ \A r \in DOMAIN w : u[<<s>> \o r] = w[r]
    <3>1. {q \in DOMAIN v : q = <<>> \/ Head(q) # s} = DOMAIN v
      BY <2>3
    <3>2. u = [q \in DOMAIN v \cup Below(s, w) |-> IF q \in DOMAIN v THEN v[q] ELSE w[Tail(q)]]
      BY <3>1, Zenon DEF Put
    <3>. HIDE DEF u
    <3>. QED
      BY <2>4, <3>2 DEF Below
  <2>. HIDE DEF u
  <2>6. NumbersIn(u) = NumbersIn(v) \cup below /\ NumbersIn(v) \cap below = {}
    <3>1. NumbersIn(w) \subseteq DOMAIN w /\ NumbersIn(v) \subseteq DOMAIN v
      BY NumbersAreNodes
    <3>2. NumbersIn(v) \cap below = {}
      BY <2>4, <3>1
    <3>3. ASSUME NEW q \in NumbersIn(u) PROVE q \in NumbersIn(v) \cup below
      <4>1. q \in DOMAIN u /\ u[q].kind = "number"
        BY DEF NumbersIn
      <4>2. CASE q \in DOMAIN v
        BY <2>5, <4>1, <4>2 DEF NumbersIn
      <4>3. CASE q \in {<<s>> \o r : r \in DOMAIN w}
        BY <2>5, <4>1, <4>3 DEF NumbersIn
      <4>. QED
        BY <2>5, <4>1, <4>2, <4>3
    <3>4. ASSUME NEW q \in NumbersIn(v) PROVE q \in NumbersIn(u)
      BY <2>5 DEF NumbersIn
    <3>5. ASSUME NEW r \in NumbersIn(w) PROVE <<s>> \o r \in NumbersIn(u)
      BY <2>5 DEF NumbersIn
    <3>. QED
      BY <3>2, <3>3, <3>4, <3>5
  <2>7. /\ IsFiniteSet(NumbersIn(v)) /\ IsFiniteSet(below) /\ Cardinality(below) = Numbers(w)
    <3>1. NumbersIn(w) \subseteq Nodes /\ IsFiniteSet(NumbersIn(w)) /\ IsFiniteSet(NumbersIn(v))
      BY NumbersAreNodes
    <3>. QED
      BY <2>1, <3>1, CountBelow DEF Numbers
  <2>. HIDE DEF below
  <2>8. Numbers(u) = Numbers(v) + Numbers(w)
    BY <2>6, <2>7, CountApart DEF Numbers
  <2>9. Steps(u) = Steps(v) \cup {s} /\ s \notin Steps(v)
    <3>1. /\ Steps(u) = {x \in StepSet : <<x>> \in DOMAIN u}
          /\ Steps(v) = {x \in StepSet : <<x>> \in DOMAIN v}
      BY <2>1, <2>2, StepsOfValue, GoodIsWellFormed
    <3>2. <<s>> \in DOMAIN u
      <4>1. <<s>> \o <<>> = <<s>>
        BY <2>1, ConcatEmptySeq DEF Nodes
      <4>. QED
        BY <2>1, <2>5, <4>1
    <3>3. ASSUME NEW x \in StepSet, <<x>> \in DOMAIN u, <<x>> \notin DOMAIN v PROVE x = s
      <4>1. PICK r \in DOMAIN w : <<x>> = <<s>> \o r
        BY <2>5, <3>3
      <4>2. Head(<<x>>) = s
        BY <2>4, <4>1
      <4>. QED
        BY <4>2
    <3>. QED
      BY <2>1, <2>5, <3>1, <3>2, <3>3
  <2>10. Size(u) = Size(v) + 1 /\ Size(v) \in Nat
    BY <2>1, <2>2, <2>9, StepsOfValue, GoodIsWellFormed, FS_AddElement
  <2>. QED
    BY <1>2, <2>2, <2>8, <2>10
<1>. QED
  BY <1>1, <1>2

\* Of two nodes above the same node, one is above the other.
LEMMA AboveBoth ==
  ASSUME NEW p \in Nodes, NEW q \in Nodes, NEW n \in Nodes, Above(p, n), Above(q, n)
  PROVE  Above(p, q) \/ Above(q, p)
<1>1. PICK r \in Nodes : n = p \o r
  BY BelowMeansAbove
<1>2. PICK t \in Nodes : n = q \o t
  BY BelowMeansAbove
<1>3. Len(p) \in Nat /\ Len(q) \in Nat
  BY LenProperties DEF Nodes
<1>4. \A i \in 1 .. Len(p) : n[i] = p[i]
  BY <1>1, ConcatProperties, LenProperties DEF Nodes
<1>5. \A i \in 1 .. Len(q) : n[i] = q[i]
  BY <1>2, ConcatProperties, LenProperties DEF Nodes
<1>6. ASSUME NEW a \in Nodes, NEW b \in Nodes, Len(a) \in Nat, Len(b) \in Nat, Len(a) <= Len(b),
             \A i \in 1 .. Len(a) : a[i] = b[i]
      PROVE  Above(a, b)
  <2>. DEFINE u == SubSeq(a, 1, Len(a))
              w == SubSeq(b, 1, Len(a))
  <2>1. /\ \A i \in 1 .. Len(a) : a[i] \in StepSet
        /\ \A i \in 1 .. Len(a) : b[i] \in StepSet
    BY <1>6, ElementOfSeq DEF Nodes
  <2>2. /\ u \in Nodes /\ Len(u) = Len(a) /\ \A i \in 1 .. Len(a) : u[i] = a[i]
        /\ w \in Nodes /\ Len(w) = Len(a) /\ \A i \in 1 .. Len(a) : w[i] = b[i]
    BY <1>6, <2>1, SubSeqProperties DEF Nodes
  <2>. HIDE DEF u, w
  <2>3. u = w
    BY <1>6, <2>2, SeqEqual DEF Nodes
  <2>. QED
    BY <1>6, <2>3 DEF Above, IsPrefix, u, w
<1>7. CASE Len(p) <= Len(q)
  <2>1. \A i \in 1 .. Len(p) : p[i] = q[i]
    BY <1>3, <1>4, <1>5, <1>7
  <2>. QED
    BY <1>3, <1>6, <1>7, <2>1
<1>8. CASE Len(q) <= Len(p)
  <2>1. \A i \in 1 .. Len(q) : q[i] = p[i]
    BY <1>3, <1>4, <1>5, <1>8
  <2>. QED
    BY <1>3, <1>6, <1>8, <2>1
<1>. QED
  BY <1>3, <1>7, <1>8

-----------------------------------------------------------------------------
(* What the program's values hold *)

\* The values in the handles.
HeldBy(hs) == [h \in Handles |-> hs[h].value]

LEMMA HeldAreGood ==
  ASSUME NEW hs \in [Handles -> HandleRecords]
  PROVE  HeldBy(hs) \in [Handles -> Good] /\ NumbersOf(HeldBy(hs)) \in Nat
<1>1. HeldBy(hs) \in [Handles -> Good]
  BY DEF HeldBy, HandleRecords
<1>. QED
  BY <1>1, StoresAssumption, TaggedIsFinite

\* The number of the numbers of all values.
LEMMA AllIsSum ==
  ASSUME NEW ts, NEW hs
  PROVE  All(ts, hs) = NumbersOf(ts) + NumbersOf(HeldBy(hs))
  BY DEF All, HeldBy

\* A value put at a place.
LEMMA CountWith ==
  ASSUME NEW ts \in Stores, NEW t, Reaches(ts, t), NEW v \in Good
  PROVE  /\ NumbersOf(With(ts, t, v)) = NumbersOf(ts) - Numbers(Sub(ts[t[1]], t[2])) + Numbers(v)
         /\ NumbersOf(ts) \in Nat /\ NumbersOf(With(ts, t, v)) \in Nat
         /\ Numbers(Sub(ts[t[1]], t[2])) \in Nat /\ Numbers(v) \in Nat
         /\ Sub(With(ts, t, v)[t[1]], t[2]) = v
<1>1. PICK x \in Variables : \E p \in DOMAIN ts[x] : t = <<x, p>>
  BY DEF Reaches
<1>2. PICK p \in DOMAIN ts[x] : t = <<x, p>>
  BY <1>1
<1>3. t[1] = x /\ t[2] = p /\ ts[x] \in Good /\ ts \in [Variables -> Good] /\ IsFiniteSet(Variables)
  BY <1>2, StoresAssumption DEF Stores
<1>. DEFINE g == Graft(ts[x], p, v)
<1>4. With(ts, t, v) = [ts EXCEPT ![x] = g]
  BY <1>3 DEF With
<1>5. Sub(ts[x], p) \in Good /\ g \in Good /\ Sub(g, p) = v
  <2>1. WellFormed(ts[x]) /\ WellFormed(v) /\ p \in Nodes
    BY <1>3, GoodIsWellFormed DEF WellFormed, IsTree, Nodes
  <2>. QED
    BY <2>1, SubIsWellFormed, GraftIsWellFormed, GoodIsWellFormed, SubOfGraft
<1>6. Numbers(g) = Numbers(ts[x]) - Numbers(Sub(ts[x], p)) + Numbers(v)
  BY <1>3, CountGraft
<1>. HIDE DEF g
<1>7. NumbersOf([ts EXCEPT ![x] = g]) = NumbersOf(ts) - Numbers(ts[x]) + Numbers(g)
  <2>1. g \in Good /\ ts \in [Variables -> Good] /\ IsFiniteSet(Variables)
    BY <1>3, <1>5
  <2>. QED
    BY <2>1, CountChange, Zenon
<1>8. With(ts, t, v) \in [Variables -> Good] /\ With(ts, t, v)[x] = g
  BY <1>3, <1>4, <1>5
<1>9. /\ Numbers(ts[x]) \in Nat /\ Numbers(g) \in Nat /\ Numbers(Sub(ts[x], p)) \in Nat /\ Numbers(v) \in Nat
      /\ NumbersOf(ts) \in Nat /\ NumbersOf(With(ts, t, v)) \in Nat
  BY <1>3, <1>5, <1>8, NumbersAreNodes, TaggedIsFinite
<1>10. NumbersOf(With(ts, t, v)) = NumbersOf(ts) - Numbers(Sub(ts[x], p)) + Numbers(v)
  BY <1>4, <1>6, <1>7, <1>9
<1>. QED
  BY <1>3, <1>5, <1>8, <1>9, <1>10

\* What is put at a place does not show at one that it is not inside of, nor that inside it.
LEMMA DisjointStays ==
  ASSUME NEW ts \in Stores, NEW s, NEW t, Reaches(ts, s), Reaches(ts, t), NEW v \in Good,
         ~Holds(s, t), ~Holds(t, s)
  PROVE  Sub(With(ts, s, v)[t[1]], t[2]) = Sub(ts[t[1]], t[2])
<1>1. PICK x \in Variables : \E p \in DOMAIN ts[x] : t = <<x, p>>
  BY DEF Reaches
<1>2. PICK p \in DOMAIN ts[x] : t = <<x, p>>
  BY <1>1
<1>3. PICK y \in Variables : \E q \in DOMAIN ts[y] : s = <<y, q>>
  BY DEF Reaches
<1>4. PICK q \in DOMAIN ts[y] : s = <<y, q>>
  BY <1>3
<1>5. t[1] = x /\ t[2] = p /\ s[1] = y /\ s[2] = q
  BY <1>2, <1>4
<1>. DEFINE g == Graft(ts[y], q, v)
            us == With(ts, s, v)
<1>6. us = [ts EXCEPT ![y] = g]
  BY <1>5 DEF With
<1>. HIDE DEF us
<1>7. CASE x # y
  BY <1>5, <1>6, <1>7 DEF Stores, us
<1>8. CASE x = y
  <2>. DEFINE a == Sub(g, p)
              b == Sub(ts[x], p)
  <2>1. /\ WellFormed(ts[x]) /\ WellFormed(v) /\ p \in Nodes /\ q \in Nodes
        /\ DOMAIN ts[x] \subseteq Nodes /\ DOMAIN v \subseteq Nodes
    BY <1>8, GoodIsWellFormed DEF Stores, WellFormed, IsTree, Nodes
  <2>2. ~Above(p, q) /\ ~Above(q, p)
    BY <1>5, <1>8 DEF Holds
  <2>3. WellFormed(g) /\ Grafted(g, ts[x], q, v)
    BY <1>8, <2>1, GraftIsWellFormed, GraftNodes
  <2>4. us[x] = g
    BY <1>6, <1>8 DEF Stores
  <2>. HIDE DEF g
  <2>5. p \in DOMAIN g
    BY <2>2, <2>3 DEF Grafted
  <2>6. /\ DOMAIN a = {r \in Nodes : p \o r \in DOMAIN g} /\ \A r \in DOMAIN a : a[r] = g[p \o r]
        /\ DOMAIN b = {r \in Nodes : p \o r \in DOMAIN ts[x]} /\ \A r \in DOMAIN b : b[r] = ts[x][p \o r]
    BY <2>1, <2>3, SubNodes
  <2>7. WellFormed(a) /\ WellFormed(b)
    BY <2>1, <2>3, <2>5, SubIsWellFormed
  <2>. HIDE DEF a, b
  <2>8. ASSUME NEW r \in Nodes PROVE ~Above(q, p \o r)
    <3>1. SUFFICES ASSUME Above(q, p \o r) PROVE FALSE
      OBVIOUS
    <3>2. p \o r \in Nodes /\ Above(p, p \o r)
      BY <2>1, AboveMeansBelow
    <3>3. Above(p, q) \/ Above(q, p)
      BY <2>1, <3>1, <3>2, AboveBoth
    <3>. QED
      BY <2>2, <3>3
  <2>9. ASSUME NEW r \in Nodes
        PROVE  /\ p \o r \in DOMAIN g <=> p \o r \in DOMAIN ts[x]
               /\ p \o r \in DOMAIN g => g[p \o r] = ts[x][p \o r]
    <3>. DEFINE n == p \o r
    <3>1. ~Above(q, n)
      BY <2>8
    <3>2. \A z \in DOMAIN v : Above(q, q \o z)
      BY <2>1, AboveMeansBelow
    <3>. HIDE DEF n
    <3>3. (n \in DOMAIN g <=> n \in DOMAIN ts[x]) /\ (n \in DOMAIN g => g[n] = ts[x][n])
      BY <2>3, <3>1, <3>2 DEF Grafted
    <3>. QED
      BY <3>3 DEF n
  <2>10. DOMAIN a = DOMAIN b /\ \A r \in DOMAIN a : a[r] = b[r]
    BY <2>6, <2>9
  <2>11. a = b
    BY <2>7, <2>10, SameTree
  <2>. QED
    BY <1>5, <2>4, <2>11 DEF us, a, b
<1>. QED
  BY <1>7, <1>8

\* A place holds itself.
LEMMA HoldsItself ==
  ASSUME NEW ts \in Stores, NEW t, Reaches(ts, t)
  PROVE  Holds(t, t)
<1>1. PICK x \in Variables : \E p \in DOMAIN ts[x] : t = <<x, p>>
  BY DEF Reaches
<1>2. PICK p \in DOMAIN ts[x] : t = <<x, p>>
  BY <1>1
<1>3. WellFormed(ts[x])
  BY GoodIsWellFormed DEF Stores
<1>4. p \in Nodes /\ t[2] = p
  BY <1>2, <1>3 DEF WellFormed, IsTree, Nodes
<1>5. p \o <<>> = p /\ <<>> \in Nodes
  BY <1>4, ConcatEmptySeq, EmptySeq DEF Nodes
<1>6. Above(p, p \o <<>>)
  BY <1>4, <1>5, AboveMeansBelow
<1>. QED
  BY <1>4, <1>5, <1>6 DEF Holds

-----------------------------------------------------------------------------
(* The accounts of the calls *)

\* What a call is given.
By(arg) == IF arg = <<>> THEN "nothing" ELSE arg[1]

\* What MovesKeepEverything says of a call that leaves ts and hs.
Accounts(name, outcome, t, arg, ts, hs) ==
    LET Change(n) == All(ts, hs) = NumbersNow + n
        grew == Size(Sub(ts[t[1]], t[2])) > Size(At(t))
    IN  /\ outcome \in {"leaked", "undefined"} /\ name # "assign" => Overlap(t, arg[2])
        /\ outcome = "done" /\ By(arg) = "move" =>
              IF name = "move_assign" THEN Change(IF t = arg[2] THEN 0 ELSE -Numbers(At(t)))
              ELSE IF name = "insert_pair" /\ ~grew THEN Change(-Numbers(At(arg[2])))
              ELSE Change(0)
        /\ outcome = "kind_error" /\ By(arg) = "move" => Change(-Numbers(At(arg[2])))
        /\ outcome = "done" /\ By(arg) = "swap" => Change(0)
        /\ outcome = "done" /\ By(arg) = "copy" /\ ~Overlap(t, arg[2]) =>
              Change(IF name = "copy_assign" THEN Numbers(At(arg[2])) - Numbers(At(t))
                     ELSE IF name = "insert_pair" /\ ~grew THEN 0
                     ELSE Numbers(At(arg[2])))
        /\ name \in {"extract", "insert_hint_handle"} => Change(0)
        /\ name = "insert_handle" /\ outcome = "done" /\ By(arg) = "handle" =>
              Change(IF grew THEN 0 ELSE -Numbers(handles[arg[2]].value))

\* A handle without a value holds a null.
NoneHeld(hs) == \A h \in Handles : ~hs[h].has_value => hs[h].value = Null

\* The step is that of a call whose accounts are right.
Accounted == \E name, outcome, t, arg, ts, hs :
    /\ EndsWith(name, outcome, t, arg, ts, hs)
    /\ Accounts(name, outcome, t, arg, ts, hs)
    /\ NoneHeld(hs)

\* The calls of which it says nothing.
Quiet(name, outcome, arg) ==
    /\ name \notin {"extract", "insert_hint_handle", "insert_handle"}
    /\ outcome \in {"leaked", "undefined"} => name = "assign"
    /\ By(arg) \notin {"move", "swap", "copy"}

LEMMA QuietIsAccounted ==
  ASSUME NEW name, NEW outcome, NEW t, NEW arg, NEW ts, NEW hs, Quiet(name, outcome, arg),
         EndsWith(name, outcome, t, arg, ts, hs), NoneHeld(hs)
  PROVE  Accounted
<1>1. Accounts(name, outcome, t, arg, ts, hs)
  BY DEF Quiet, Accounts
<1>. QED
  BY <1>1, Zenon DEF Accounted

\* All is a number, and the accounts are those of the variables where the handles stay.
LEMMA AllIsNat ==
  ASSUME Typed
  PROVE  /\ NumbersOf(trees) \in Nat /\ NumbersOf(HeldBy(handles)) \in Nat
         /\ NumbersNow = NumbersOf(trees) + NumbersOf(HeldBy(handles)) /\ NumbersNow \in Nat
         /\ \A ts : All(ts, handles) = NumbersOf(ts) + NumbersOf(HeldBy(handles))
<1>1. NumbersOf(trees) \in Nat
  BY StoresAssumption, TaggedIsFinite DEF Typed, Stores
<1>2. NumbersOf(HeldBy(handles)) \in Nat
  BY HeldAreGood DEF Typed
<1>3. NumbersNow = NumbersOf(trees) + NumbersOf(HeldBy(handles))
  BY AllIsSum DEF NumbersNow
<1>. QED
  BY <1>1, <1>2, <1>3, AllIsSum

LEMMA EndsIsAccounted ==
  ASSUME NoneHeld(handles), NEW name, NEW outcome, NEW t, NEW arg, NEW ts,
         Ends(name, outcome, t, arg, ts), Accounts(name, outcome, t, arg, ts, handles)
  PROVE  Accounted
<1>1. EndsWith(name, outcome, t, arg, ts, handles)
  BY EndsIsEndsWith
<1>. QED
  BY <1>1, Zenon DEF Accounted

\* A call that changes nothing.
LEMMA FailsIsAccounted ==
  ASSUME Typed, NoneHeld(handles), NEW name, NEW error, NEW t, Fails(name, error, t),
         error \notin {"leaked", "undefined"} \/ name = "assign"
  PROVE  Accounted
<1>1. Ends(name, error, t, <<>>, trees)
  BY Zenon DEF Fails
<1>2. All(trees, handles) = NumbersNow + 0 /\ By(<<>>) = "nothing"
  BY AllIsNat DEF NumbersNow, By
<1>3. Accounts(name, error, t, <<>>, trees, handles)
  BY <1>2 DEF Accounts
<1>. QED
  BY <1>1, <1>3, EndsIsAccounted

-----------------------------------------------------------------------------
(* The accounts of value.cpp *)

LEMMA CopyAssignIsAccounted ==
  ASSUME Typed, NoneHeld(handles), CopyAssign
  PROVE  Accounted
<1>1. PICK t, s \in Exist :
         Ends("copy_assign", "done", t, <<"copy", s>>, With(trees, t, At(s)))
  BY DEF CopyAssign
<1>. DEFINE ts == With(trees, t, At(s))
            arg == <<"copy", s>>
<1>2. /\ NumbersOf(ts) = NumbersOf(trees) - Numbers(At(t)) + Numbers(At(s))
      /\ NumbersOf(ts) \in Nat /\ Numbers(At(t)) \in Nat /\ Numbers(At(s)) \in Nat
  BY AtIsGood, CountWith DEF Typed, At
<1>3. By(arg) = "copy" /\ arg[2] = s
  BY DEF By
<1>. HIDE DEF ts, arg
<1>4. All(ts, handles) = NumbersNow + (Numbers(At(arg[2])) - Numbers(At(t)))
  BY <1>2, <1>3, AllIsNat
<1>5. Accounts("copy_assign", "done", t, arg, ts, handles)
  BY <1>3, <1>4 DEF Accounts
<1>. QED
  BY <1>1, <1>5, EndsIsAccounted DEF ts, arg

LEMMA ConstructIsAccounted ==
  ASSUME Typed, NoneHeld(handles), Construct
  PROVE  Accounted
<1>1. PICK t \in Exist, v \in Fresh :
         Ends("construct", "done", t, <<"fresh", v>>, With(trees, t, v))
  BY DEF Construct
<1>2. Quiet("construct", "done", <<"fresh", v>>)
  BY DEF Quiet, By
<1>. QED
  BY <1>1, <1>2, QuietIsAccounted, EndsIsEndsWith

LEMMA ClearIsAccounted ==
  ASSUME Typed, NoneHeld(handles), Clear
  PROVE  Accounted
<1>1. PICK t \in Exist : Ends("clear", "done", t, <<>>, With(trees, t, Null))
  BY DEF Clear
<1>2. Quiet("clear", "done", <<>>)
  BY DEF Quiet, By
<1>. QED
  BY <1>1, <1>2, QuietIsAccounted, EndsIsEndsWith

\* A value from one place and a value to another: the second replaces what was there.
LEMMA CountTwo ==
  ASSUME Typed, NEW t \in Exist, NEW s \in Exist, Disjoint(s, t), NEW v \in Good, NEW w \in Good
  PROVE  LET ts == With(With(trees, s, v), t, w)
         IN  /\ NumbersOf(ts) \in Nat
             /\ NumbersOf(ts) = NumbersOf(trees) - Numbers(At(s)) + Numbers(v) - Numbers(At(t)) + Numbers(w)
<1>. DEFINE us == With(trees, s, v)
<1>1. /\ us \in Stores /\ Reaches(us, t) /\ Sub(us[t[1]], t[2]) = At(t)
  BY AtIsGood, WithIsStore, DisjointStays DEF Typed, Disjoint, At
<1>2. /\ NumbersOf(us) = NumbersOf(trees) - Numbers(At(s)) + Numbers(v) /\ NumbersOf(us) \in Nat
      /\ NumbersOf(trees) \in Nat /\ Numbers(At(s)) \in Nat /\ Numbers(v) \in Nat
  BY AtIsGood, CountWith DEF Typed, At
<1>. HIDE DEF us
<1>3. /\ NumbersOf(With(us, t, w)) = NumbersOf(us) - Numbers(At(t)) + Numbers(w)
      /\ NumbersOf(With(us, t, w)) \in Nat /\ Numbers(At(t)) \in Nat /\ Numbers(w) \in Nat
  BY <1>1, CountWith
<1>. QED
  BY <1>2, <1>3 DEF us

LEMMA MoveAssignIsAccounted ==
  ASSUME Typed, NoneHeld(handles), MoveAssign
  PROVE  Accounted
<1>1. PICK t, s \in Exist :
         \/ t = s /\ Ends("move_assign", "done", t, <<"move", s>>, trees)
         \/ Holds(t, s) /\ Ends("move_assign", "undefined", t, <<"move", s>>, trees)
         \/ Holds(s, t) /\ Ends("move_assign", "leaked", t, <<"move", s>>, With(trees, s, Null))
         \/ /\ Disjoint(s, t)
            /\ Ends("move_assign", "done", t, <<"move", s>>, With(With(trees, s, Null), t, At(s)))
  BY Zenon DEF MoveAssign, Disjoint
<1>. DEFINE arg == <<"move", s>>
            moved == With(With(trees, s, Null), t, At(s))
<1>2. By(arg) = "move" /\ arg[2] = s
  BY DEF By
<1>3. CASE t = s /\ Ends("move_assign", "done", t, arg, trees)
  <2>. HIDE DEF arg
  <2>1. All(trees, handles) = NumbersNow + 0
    BY AllIsNat DEF NumbersNow
  <2>2. Accounts("move_assign", "done", t, arg, trees, handles)
    BY <1>2, <1>3, <2>1 DEF Accounts
  <2>. QED
    BY <1>3, <2>2, EndsIsAccounted
<1>4. CASE Holds(t, s) /\ Ends("move_assign", "undefined", t, arg, trees)
  <2>. HIDE DEF arg
  <2>1. Accounts("move_assign", "undefined", t, arg, trees, handles)
    BY <1>2, <1>4 DEF Accounts, Overlap
  <2>. QED
    BY <1>4, <2>1, EndsIsAccounted
<1>5. CASE Holds(s, t) /\ Ends("move_assign", "leaked", t, arg, With(trees, s, Null))
  <2>. HIDE DEF arg
  <2>1. Accounts("move_assign", "leaked", t, arg, With(trees, s, Null), handles)
    BY <1>2, <1>5 DEF Accounts, Overlap
  <2>. QED
    BY <1>5, <2>1, EndsIsAccounted
<1>6. CASE Disjoint(s, t) /\ Ends("move_assign", "done", t, arg, moved)
  <2>1. t # s
    BY <1>6, AtIsGood, HoldsItself DEF Disjoint, Typed
  <2>2. /\ NumbersOf(moved) = NumbersOf(trees) - Numbers(At(s)) + Numbers(Null) - Numbers(At(t)) + Numbers(At(s))
    BY <1>6, AtIsGood, ConstantsAreGood, CountTwo
  <2>3. Numbers(At(t)) \in Nat /\ Numbers(At(s)) \in Nat
    BY AtIsGood, NumbersAreNodes
  <2>. HIDE DEF arg, moved
  <2>4. All(moved, handles) = NumbersNow + (-Numbers(At(t)))
    BY <2>2, <2>3, NullHasNone, AllIsNat
  <2>5. Accounts("move_assign", "done", t, arg, moved, handles)
    BY <1>2, <2>1, <2>4 DEF Accounts
  <2>. QED
    BY <1>6, <2>5, EndsIsAccounted
<1>. QED
  BY <1>1, <1>3, <1>4, <1>5, <1>6

LEMMA SwapIsAccounted ==
  ASSUME Typed, NoneHeld(handles), Swap
  PROVE  Accounted
<1>1. PICK t, s \in Exist :
         \/ /\ (Disjoint(s, t) \/ s = t)
            /\ Ends("swap", "done", t, <<"swap", s>>, With(With(trees, s, At(t)), t, At(s)))
         \/ /\ Holds(s, t)
            /\ Ends("swap", "leaked", t, <<"swap", s>>, With(trees, s, At(t)))
  BY Zenon DEF Swap
<1>. DEFINE arg == <<"swap", s>>
            swapped == With(With(trees, s, At(t)), t, At(s))
<1>2. By(arg) = "swap" /\ arg[2] = s
  BY DEF By
<1>3. CASE (Disjoint(s, t) \/ s = t) /\ Ends("swap", "done", t, arg, swapped)
  <2>1. NumbersOf(swapped) = NumbersOf(trees)
    <3>1. CASE s = t
      <4>1. With(trees, s, At(t)) = trees /\ With(trees, t, At(s)) = trees
        BY <3>1, WithWhatIsThere
      <4>. QED
        BY <4>1
    <3>2. CASE Disjoint(s, t)
      <4>1. NumbersOf(swapped) = NumbersOf(trees) - Numbers(At(s)) + Numbers(At(t)) - Numbers(At(t)) + Numbers(At(s))
        BY <3>2, AtIsGood, CountTwo
      <4>2. Numbers(At(t)) \in Nat /\ Numbers(At(s)) \in Nat
        BY AtIsGood, NumbersAreNodes
      <4>. HIDE DEF swapped
      <4>. QED
        BY <4>1, <4>2, AllIsNat
    <3>. QED
      BY <1>3, <3>1, <3>2
  <2>. HIDE DEF arg, swapped
  <2>2. All(swapped, handles) = NumbersNow + 0
    BY <2>1, AllIsNat
  <2>3. Accounts("swap", "done", t, arg, swapped, handles)
    BY <1>2, <2>2 DEF Accounts
  <2>. QED
    BY <1>3, <2>3, EndsIsAccounted
<1>4. CASE Holds(s, t) /\ Ends("swap", "leaked", t, arg, With(trees, s, At(t)))
  <2>. HIDE DEF arg
  <2>1. Accounts("swap", "leaked", t, arg, With(trees, s, At(t)), handles)
    BY <1>2, <1>4 DEF Accounts, Overlap
  <2>. QED
    BY <1>4, <2>1, EndsIsAccounted
<1>. QED
  BY <1>1, <1>3, <1>4

-----------------------------------------------------------------------------
(* The accounts of arguments *)

\* An argument that is moved is missing where it was.
LEMMA CountGiven ==
  ASSUME Typed, NEW arg \in Arguments
  PROVE  /\ By(arg) = arg[1] /\ arg[1] \in {"fresh", "copy", "move"}
         /\ arg[1] # "fresh" => Item(arg) = At(arg[2])
         /\ NumbersOf(Given(arg)) = NumbersOf(trees) - (IF arg[1] = "move" THEN Numbers(Item(arg)) ELSE 0)
         /\ NumbersOf(Given(arg)) \in Nat /\ Numbers(Item(arg)) \in Nat
<1>1. CASE arg \in {<<"fresh", v>> : v \in Fresh}
  <2>1. PICK v \in Fresh : arg = <<"fresh", v>>
    BY <1>1
  <2>2. By(arg) = arg[1] /\ arg[1] = "fresh" /\ Given(arg) = trees
    BY <2>1 DEF By, Given
  <2>3. Item(arg) \in Good
    BY ArgumentIsGood
  <2>. QED
    BY <2>2, <2>3, NumbersAreNodes, AllIsNat
<1>2. CASE arg \in {"copy", "move"} \X Exist
  <2>1. PICK s \in Exist : arg = <<"copy", s>> \/ arg = <<"move", s>>
    BY <1>2
  <2>2. /\ By(arg) = arg[1] /\ arg[1] \in {"copy", "move"} /\ arg[2] = s
        /\ Item(arg) = At(s)
    BY <2>1 DEF By, Item
  <2>3. At(s) \in Good /\ Numbers(At(s)) \in Nat
    BY AtIsGood, NumbersAreNodes
  <2>4. CASE arg[1] = "move"
    <3>1. Given(arg) = With(trees, s, Null)
      BY <2>2, <2>4 DEF Given
    <3>2. /\ NumbersOf(With(trees, s, Null)) = NumbersOf(trees) - Numbers(At(s)) + Numbers(Null)
          /\ NumbersOf(With(trees, s, Null)) \in Nat
      BY AtIsGood, ConstantsAreGood, CountWith DEF Typed, At
    <3>. QED
      BY <2>2, <2>3, <2>4, <3>1, <3>2, NullHasNone, AllIsNat
  <2>5. CASE arg[1] = "copy"
    <3>1. Given(arg) = trees
      BY <2>5 DEF Given
    <3>. QED
      BY <2>2, <2>3, <2>5, <3>1, AllIsNat
  <2>. QED
    BY <2>2, <2>4, <2>5
<1>. QED
  BY <1>1, <1>2 DEF Arguments

\* What Done makes of the receiver holds what the receiver and the argument do, but where
\* insert has found the key.
Adds(name, v, w, item) ==
    Numbers(v) = Numbers(w) + (IF name = "insert_pair" /\ ~(Size(v) > Size(w)) THEN 0 ELSE Numbers(item))

LEMMA TakenIsAccounted ==
  ASSUME Typed, NoneHeld(handles), NEW t \in Exist, NEW arg \in Arguments,
         NEW name \in {"push_back", "push_front", "insert", "insert_pair"},
         NEW kind, kind # "null", NEW v, TakenTo(name, kind, t, arg, v),
         ~Swallowed(arg, t) /\ KindOf(Receiver(arg, t)) = kind =>
            v \in Good /\ Adds(name, v, Receiver(arg, t), Item(arg))
  PROVE  Accounted
<1>1. /\ By(arg) = arg[1] /\ arg[1] \in {"fresh", "copy", "move"}
      /\ arg[1] # "fresh" => Item(arg) = At(arg[2])
      /\ NumbersOf(Given(arg)) = NumbersOf(trees) - (IF arg[1] = "move" THEN Numbers(Item(arg)) ELSE 0)
      /\ NumbersOf(Given(arg)) \in Nat /\ Numbers(Item(arg)) \in Nat
  BY CountGiven
<1>2. CASE Swallowed(arg, t) /\ Ends(name, "leaked", t, arg, Given(arg))
  <2>1. Holds(arg[2], t)
    BY <1>2 DEF Swallowed
  <2>2. Accounts(name, "leaked", t, arg, Given(arg), handles)
    BY <1>1, <2>1 DEF Accounts, Overlap
  <2>. QED
    BY <1>2, <2>2, EndsIsAccounted
<1>3. CASE Ends(name, "kind_error", t, arg, Given(arg))
  <2>1. arg[1] = "move" => All(Given(arg), handles) = NumbersNow + (-Numbers(At(arg[2])))
    BY <1>1, AllIsNat
  <2>2. Accounts(name, "kind_error", t, arg, Given(arg), handles)
    BY <1>1, <2>1 DEF Accounts
  <2>. QED
    BY <1>3, <2>2, EndsIsAccounted
<1>4. CASE /\ ~Swallowed(arg, t) /\ KindOf(Receiver(arg, t)) = kind
           /\ Ends(name, "done", t, arg, With(Given(arg), t, v))
  <2>. DEFINE ts == With(Given(arg), t, v)
              w == Receiver(arg, t)
              grew == Size(Sub(ts[t[1]], t[2])) > Size(At(t))
              added == IF name = "insert_pair" /\ ~grew THEN 0 ELSE Numbers(Item(arg))
  <2>1. v \in Good /\ Adds(name, v, w, Item(arg)) /\ Given(arg) \in Stores /\ Reaches(Given(arg), t)
    BY <1>4, ArgumentIsGood
  <2>2. /\ NumbersOf(ts) = NumbersOf(Given(arg)) - Numbers(w) + Numbers(v)
        /\ NumbersOf(ts) \in Nat /\ Numbers(w) \in Nat /\ Numbers(v) \in Nat
        /\ Sub(ts[t[1]], t[2]) = v
    BY <2>1, CountWith DEF Receiver
  <2>3. Size(w) = Size(At(t))
    BY <1>4, GivenKeepsSize
  <2>. HIDE DEF ts, w
  <2>4. Numbers(v) = Numbers(w) + added
    BY <2>1, <2>2, <2>3 DEF Adds
  <2>. HIDE DEF grew
  <2>5. All(ts, handles) = NumbersNow + (added - (IF arg[1] = "move" THEN Numbers(Item(arg)) ELSE 0))
    BY <1>1, <2>2, <2>4, AllIsNat
  <2>6. CASE arg[1] = "move"
    <3>1. IF name = "insert_pair" /\ ~grew THEN All(ts, handles) = NumbersNow + (-Numbers(At(arg[2])))
          ELSE All(ts, handles) = NumbersNow + 0
      BY <1>1, <2>5, <2>6
    <3>2. Accounts(name, "done", t, arg, ts, handles)
      BY <1>1, <2>6, <3>1 DEF Accounts, grew
    <3>. QED
      BY <1>4, <3>2, EndsIsAccounted DEF ts
  <2>7. CASE arg[1] = "copy"
    <3>1. All(ts, handles) = NumbersNow + (IF name = "insert_pair" /\ ~grew THEN 0 ELSE Numbers(At(arg[2])))
      BY <1>1, <2>5, <2>7
    <3>2. Accounts(name, "done", t, arg, ts, handles)
      BY <1>1, <2>7, <3>1 DEF Accounts, grew
    <3>. QED
      BY <1>4, <3>2, EndsIsAccounted DEF ts
  <2>8. CASE arg[1] = "fresh"
    <3>1. Quiet(name, "done", arg)
      BY <1>1, <2>8 DEF Quiet
    <3>. QED
      BY <1>4, <3>1, QuietIsAccounted, EndsIsEndsWith
  <2>. QED
    BY <1>1, <2>6, <2>7, <2>8
<1>. QED
  BY <1>2, <1>3, <1>4 DEF TakenTo

-----------------------------------------------------------------------------
(* The accounts of array.cpp *)

LEMMA ArrayPushBackIsAccounted ==
  ASSUME Typed, NoneHeld(handles), ArrayPushBack
  PROVE  Accounted
<1>1. PICK t \in Exist, arg \in Arguments :
         LET v == Receiver(arg, t)
         IN  TakenTo("push_back", "array", t, arg, InsertedAt(v, Size(v), Item(arg)))
  BY Zenon DEF ArrayPushBack, Take, TakenTo
<1>. DEFINE v == Receiver(arg, t)
            w == InsertedAt(v, Size(v), Item(arg))
<1>2. ASSUME ~Swallowed(arg, t), KindOf(v) = "array" PROVE w \in Good /\ Adds("push_back", w, v, Item(arg))
  <2>1. v \in Good /\ Item(arg) \in Good
    BY <1>2, ArgumentIsGood
  <2>. HIDE DEF v
  <2>2. Size(v) \in 0 .. Size(v)
    BY <1>2, <2>1, ElementsAreGood
  <2>. QED
    BY <1>2, <2>1, <2>2, InsertedAtIsGood, CountInsertedAt DEF Adds
<1>. QED
  BY <1>1, <1>2, TakenIsAccounted

LEMMA ArrayPushFrontIsAccounted ==
  ASSUME Typed, NoneHeld(handles), ArrayPushFront
  PROVE  Accounted
<1>1. PICK t \in Exist, arg \in Arguments :
         TakenTo("push_front", "array", t, arg, InsertedAt(Receiver(arg, t), 0, Item(arg)))
  BY Zenon DEF ArrayPushFront, Take, TakenTo
<1>. DEFINE v == Receiver(arg, t)
            w == InsertedAt(v, 0, Item(arg))
<1>2. ASSUME ~Swallowed(arg, t), KindOf(v) = "array" PROVE w \in Good /\ Adds("push_front", w, v, Item(arg))
  <2>1. v \in Good /\ Item(arg) \in Good
    BY <1>2, ArgumentIsGood
  <2>. HIDE DEF v
  <2>2. 0 \in 0 .. Size(v)
    BY <1>2, <2>1, ElementsAreGood
  <2>. QED
    BY <1>2, <2>1, <2>2, InsertedAtIsGood, CountInsertedAt DEF Adds
<1>. QED
  BY <1>1, <1>2, TakenIsAccounted

LEMMA ArrayInsertIsAccounted ==
  ASSUME Typed, NoneHeld(handles), ArrayInsert
  PROVE  Accounted
<1>0. PICK t \in Exist, arg \in Arguments : \E i \in 0 .. Size(At(t)) :
         TakenTo("insert", "array", t, arg, InsertedAt(Receiver(arg, t), i, Item(arg)))
  BY Zenon DEF ArrayInsert, Take, TakenTo
<1>1. PICK i \in 0 .. Size(At(t)) :
         TakenTo("insert", "array", t, arg, InsertedAt(Receiver(arg, t), i, Item(arg)))
  BY <1>0
<1>. DEFINE v == Receiver(arg, t)
            w == InsertedAt(v, i, Item(arg))
<1>2. ASSUME ~Swallowed(arg, t), KindOf(v) = "array" PROVE w \in Good /\ Adds("insert", w, v, Item(arg))
  <2>1. v \in Good /\ Item(arg) \in Good /\ Size(v) = Size(At(t))
    BY <1>2, ArgumentIsGood, GivenKeepsSize
  <2>. HIDE DEF v
  <2>. QED
    BY <1>2, <2>1, InsertedAtIsGood, CountInsertedAt DEF Adds
<1>. QED
  BY <1>1, <1>2, TakenIsAccounted

\* The calls that change elements or members without an argument to be moved.
LEMMA QuietWithout ==
  ASSUME NoneHeld(handles), NEW name, NEW outcome, NEW t, NEW ts, Ends(name, outcome, t, <<>>, ts),
         name \notin {"extract", "insert_hint_handle", "insert_handle"},
         outcome \in {"leaked", "undefined"} => name = "assign"
  PROVE  Accounted
<1>1. Quiet(name, outcome, <<>>)
  BY DEF Quiet, By
<1>. QED
  BY <1>1, QuietIsAccounted, EndsIsEndsWith

LEMMA ArrayChangesAreAccounted ==
  ASSUME NoneHeld(handles), ArrayPop \/ ArrayErase \/ ArrayResize \/ ArrayAssign
  PROVE  Accounted
<1>1. \E name \in {"pop", "erase", "resize", "assign"} :
      \E outcome \in {"logic_error", "kind_error", "done", "undefined"} : \E t, ts :
         /\ Ends(name, outcome, t, <<>>, ts)
         /\ outcome = "undefined" => name = "assign"
  <2>1. CASE ArrayPop
    BY <2>1, Zenon DEF ArrayPop, Elementwise, Fails
  <2>2. CASE ArrayErase
    BY <2>2, Zenon DEF ArrayErase, Elementwise, Fails
  <2>3. CASE ArrayResize
    BY <2>3, Zenon DEF ArrayResize, Elementwise, Fails
  <2>4. CASE ArrayAssign
    BY <2>4, Zenon DEF ArrayAssign, Elementwise, Fails
  <2>. QED
    BY <2>1, <2>2, <2>3, <2>4
<1>. QED
  BY <1>1, QuietWithout

LEMMA ArrayInsertRangeIsAccounted ==
  ASSUME Typed, NoneHeld(handles), ArrayInsertRange
  PROVE  Accounted
<1>. DEFINE Between(t, s, i) == SubSeq(Elements(At(t)), 1, i) \o Elements(At(s))
                                \o SubSeq(Elements(At(t)), i + 1, Size(At(t)))
<1>0. PICK t \in Of("array"), s \in Of("array") : \E i \in 0 .. Size(At(t)) : \E v :
         /\ Ends("insert_range", "done", t, <<"copy", s>>, With(trees, t, v))
         /\ s # t => Disjoint(s, t) /\ v = ArrayOf(Between(t, s, i))
  BY Zenon DEF ArrayInsertRange
<1>1. PICK i \in 0 .. Size(At(t)) : \E v :
         /\ Ends("insert_range", "done", t, <<"copy", s>>, With(trees, t, v))
         /\ s # t => Disjoint(s, t) /\ v = ArrayOf(Between(t, s, i))
  BY <1>0
<1>2. PICK v : /\ Ends("insert_range", "done", t, <<"copy", s>>, With(trees, t, v))
               /\ s # t => Disjoint(s, t) /\ v = ArrayOf(Between(t, s, i))
  BY <1>1
<1>. DEFINE ts == With(trees, t, v)
            arg == <<"copy", s>>
            all == Between(t, s, i)
<1>3. By(arg) = "copy" /\ arg[2] = s
  BY DEF By
<1>4. /\ t \in Exist /\ s \in Exist /\ KindOf(At(t)) = "array" /\ KindOf(At(s)) = "array"
      /\ At(t) \in Good /\ At(s) \in Good
  BY AtIsGood DEF Of
<1>5. CASE s = t
  <2>. HIDE DEF ts, arg
  <2>1. Overlap(t, s)
    BY <1>4, <1>5, AtIsGood, HoldsItself DEF Overlap, Typed
  <2>2. Accounts("insert_range", "done", t, arg, ts, handles)
    BY <1>3, <2>1 DEF Accounts
  <2>. QED
    BY <1>2, <2>2, EndsIsAccounted DEF ts, arg
<1>6. CASE s # t
  <2>. DEFINE a == At(t)
              b == At(s)
  <2>1. /\ Elements(a) \in Seq(Good) /\ Elements(b) \in Seq(Good) /\ Len(Elements(a)) = Size(a)
        /\ ArrayOf(Elements(a)) = a /\ ArrayOf(Elements(b)) = b
    BY <1>4, ElementsAreGood, ArrayOfElements
  <2>2. /\ Numbers(a) = NumbersOf(Elements(a)) /\ Numbers(b) = NumbersOf(Elements(b))
        /\ Numbers(a) \in Nat /\ Numbers(b) \in Nat
    BY <2>1, CountArray
  <2>3. all \in Seq(Good) /\ NumbersOf(all) = NumbersOf(Elements(a)) + NumbersOf(Elements(b))
    BY <2>1, CountBetween
  <2>. HIDE DEF all, a, b
  <2>4. v \in Good /\ Numbers(v) = Numbers(a) + Numbers(b)
    BY <1>2, <1>6, <2>2, <2>3, ArrayIsGood, CountArray DEF all
  <2>5. NumbersOf(ts) = NumbersOf(trees) - Numbers(a) + Numbers(v) /\ NumbersOf(ts) \in Nat
    BY <1>4, <2>4, AtIsGood, CountWith DEF Typed, At, a
  <2>. HIDE DEF ts, arg
  <2>6. All(ts, handles) = NumbersNow + Numbers(b)
    BY <2>2, <2>4, <2>5, AllIsNat
  <2>7. Accounts("insert_range", "done", t, arg, ts, handles)
    BY <1>3, <2>6 DEF Accounts, b
  <2>. QED
    BY <1>2, <2>7, EndsIsAccounted DEF ts, arg
<1>. QED
  BY <1>5, <1>6

LEMMA AtsAreAccounted ==
  ASSUME NoneHeld(handles), ArrayAt \/ ObjectAt
  PROVE  Accounted
<1>1. \E name \in {"at", "at_key"} : \E outcome \in {"kind_error", "done", "out_of_range"} : \E t, ts :
         Ends(name, outcome, t, <<>>, ts)
  <2>1. CASE ArrayAt
    BY <2>1 DEF ArrayAt, Fails
  <2>2. CASE ObjectAt
    BY <2>2 DEF ObjectAt, Fails
  <2>. QED
    BY <2>1, <2>2
<1>. QED
  BY <1>1, QuietWithout

-----------------------------------------------------------------------------
(* The accounts of object.cpp *)

LEMMA ObjectChangesAreAccounted ==
  ASSUME NoneHeld(handles), ObjectSubscript \/ ObjectErase
  PROVE  Accounted
<1>1. \E name \in {"subscript", "erase_key"} : \E outcome \in {"kind_error", "done"} : \E t, ts :
         Ends(name, outcome, t, <<>>, ts)
  <2>1. CASE ObjectSubscript
    BY <2>1, Zenon DEF ObjectSubscript, Memberwise, Fails
  <2>2. CASE ObjectErase
    BY <2>2, Zenon DEF ObjectErase, Memberwise, Fails
  <2>. QED
    BY <2>1, <2>2
<1>. QED
  BY <1>1, QuietWithout

LEMMA ObjectInsertIsAccounted ==
  ASSUME Typed, NoneHeld(handles), ObjectInsert
  PROVE  Accounted
<1>1. PICK t \in Exist, arg \in Arguments, k \in Keys :
         TakenTo("insert_pair", "object", t, arg, Inserted(Receiver(arg, t), k, Item(arg)))
  BY Zenon DEF ObjectInsert, Take, TakenTo
<1>. DEFINE v == Receiver(arg, t)
            w == Inserted(v, k, Item(arg))
<1>2. ASSUME ~Swallowed(arg, t), KindOf(v) = "object" PROVE w \in Good /\ Adds("insert_pair", w, v, Item(arg))
  <2>1. v \in Good /\ Item(arg) \in Good /\ k \in Text
    BY <1>2, ArgumentIsGood, KeysAreText
  <2>. HIDE DEF v
  <2>. QED
    BY <1>2, <2>1, InsertedIsGood, CountInserted DEF Adds
<1>. QED
  BY <1>1, <1>2, TakenIsAccounted

\* What the handles hold when one of them is set.
LEMMA CountHeld ==
  ASSUME Typed, NEW h \in Handles, NEW rec \in HandleRecords
  PROVE  /\ NumbersOf(HeldBy([handles EXCEPT ![h] = rec]))
              = NumbersOf(HeldBy(handles)) - Numbers(handles[h].value) + Numbers(rec.value)
         /\ NumbersOf(HeldBy([handles EXCEPT ![h] = rec])) \in Nat
         /\ Numbers(handles[h].value) \in Nat /\ Numbers(rec.value) \in Nat
<1>. DEFINE f == HeldBy(handles)
            g == HeldBy([handles EXCEPT ![h] = rec])
<1>1. f \in [Handles -> Good] /\ rec.value \in Good /\ f[h] = handles[h].value
  BY HeldAreGood DEF Typed, HandleRecords, HeldBy
<1>2. [handles EXCEPT ![h] = rec] \in [Handles -> HandleRecords]
  BY DEF Typed
<1>3. g = [f EXCEPT ![h] = rec.value]
  BY DEF HeldBy, Typed
<1>4. NumbersOf(g) \in Nat
  BY <1>2, HeldAreGood
<1>. HIDE DEF f, g
<1>5. NumbersOf([f EXCEPT ![h] = rec.value]) = NumbersOf(f) - Numbers(f[h]) + Numbers(rec.value)
  BY <1>1, StoresAssumption, CountChange
<1>6. Numbers(f[h]) \in Nat /\ Numbers(rec.value) \in Nat
  BY <1>1, NumbersAreNodes
<1>. QED
  BY <1>1, <1>3, <1>4, <1>5, <1>6 DEF f, g

LEMMA ExtractIsAccounted ==
  ASSUME Typed, NoneHeld(handles), Extract
  PROVE  Accounted
<1>. DEFINE full(v, k) == [has_value |-> TRUE, key |-> k, value |-> Member(v, k)]
<1>1. PICK t \in Exist, k \in Keys, h \in Handles :
         /\ ~handles[h].has_value
         /\ \/ Fails("extract", "kind_error", t)
            \/ EndsWith("extract", "done", t, <<"handle", h>>, trees,
                        [handles EXCEPT ![h] = EmptyHandle])
            \/ /\ t \notin NotOf("object") /\ HasKey(At(t), k)
               /\ EndsWith("extract", "done", t, <<"handle", h>>, With(trees, t, Without(At(t), k)),
                           [handles EXCEPT ![h] = full(At(t), k)])
  BY Zenon DEF Extract
<1>. DEFINE arg == <<"handle", h>>
<1>2. By(arg) = "handle"
  BY DEF By
<1>3. Numbers(handles[h].value) = 0
  BY <1>1, NullHasNone DEF NoneHeld
<1>. HIDE DEF arg
<1>4. CASE Fails("extract", "kind_error", t)
  BY <1>4, FailsIsAccounted
<1>5. CASE EndsWith("extract", "done", t, arg, trees, [handles EXCEPT ![h] = EmptyHandle])
  <2>. DEFINE hs == [handles EXCEPT ![h] = EmptyHandle]
  <2>1. EmptyHandle \in HandleRecords /\ EmptyHandle.value = Null
    BY EmptyHandleIsTyped DEF EmptyHandle
  <2>2. NumbersOf(HeldBy(hs)) = NumbersOf(HeldBy(handles))
    <3>1. /\ NumbersOf(HeldBy(hs)) = NumbersOf(HeldBy(handles)) - Numbers(handles[h].value) + Numbers(Null)
      BY <2>1, CountHeld
    <3>. HIDE DEF hs
    <3>. QED
      BY <1>3, <3>1, NullHasNone, AllIsNat
  <2>3. NoneHeld(hs)
    BY <2>1 DEF NoneHeld, Typed
  <2>. HIDE DEF hs
  <2>4. All(trees, hs) = NumbersNow + 0
    BY <2>2, AllIsNat, AllIsSum
  <2>5. Accounts("extract", "done", t, arg, trees, hs)
    BY <1>2, <2>4 DEF Accounts
  <2>. QED
    BY <1>5, <2>3, <2>5, Zenon DEF Accounted, hs
<1>6. CASE /\ t \notin NotOf("object") /\ HasKey(At(t), k)
           /\ EndsWith("extract", "done", t, arg, With(trees, t, Without(At(t), k)),
                       [handles EXCEPT ![h] = full(At(t), k)])
  <2>. DEFINE v == At(t)
              w == Without(v, k)
              m == Member(v, k)
              ts == With(trees, t, w)
              hs == [handles EXCEPT ![h] = full(v, k)]
  <2>1. v \in Good /\ KindOf(v) = "object" /\ k \in Text /\ HasKey(v, k)
    BY <1>6, AtIsGood, KeysAreText DEF NotOf, Of
  <2>2. m \in Good /\ w \in Good /\ Numbers(v) = Numbers(w) + Numbers(m)
    <3>. HIDE DEF v
    <3>. QED
      BY <2>1, PartsOfObject, CountWithout
  <2>. HIDE DEF w
  <2>3. /\ NumbersOf(ts) = NumbersOf(trees) - Numbers(v) + Numbers(w) /\ NumbersOf(ts) \in Nat
    BY <2>2, AtIsGood, CountWith DEF Typed, At
  <2>. HIDE DEF v, m, ts
  <2>4. full(v, k) \in HandleRecords /\ full(v, k).value = m /\ full(v, k).has_value
    BY <2>1, <2>2 DEF HandleRecords, m
  <2>. HIDE DEF full
  <2>5. NumbersOf(HeldBy(hs)) = NumbersOf(HeldBy(handles)) - Numbers(handles[h].value) + Numbers(m)
    BY <2>4, CountHeld
  <2>6. NoneHeld(hs)
    BY <2>4 DEF NoneHeld, Typed
  <2>7. Numbers(v) \in Nat /\ Numbers(w) \in Nat /\ Numbers(m) \in Nat
    BY <2>1, <2>2, NumbersAreNodes
  <2>. HIDE DEF hs
  <2>8. All(ts, hs) = NumbersNow + 0
    BY <1>3, <2>2, <2>3, <2>5, <2>7, AllIsNat, AllIsSum
  <2>9. Accounts("extract", "done", t, arg, ts, hs)
    BY <1>2, <2>8 DEF Accounts
  <2>10. EndsWith("extract", "done", t, arg, ts, hs)
    BY <1>6 DEF ts, hs, w, v
  <2>. QED
    BY <2>6, <2>9, <2>10, Zenon DEF Accounted
<1>. HIDE DEF full
<1>. QED
  BY <1>1, <1>4, <1>5, <1>6 DEF arg

LEMMA InsertHandleIsAccounted ==
  ASSUME Typed, NoneHeld(handles), InsertHandle
  PROVE  Accounted
<1>. DEFINE left(v, handle, hint) == IF hint THEN Kept(v, handle) ELSE MovedFrom(handle)
<1>1. PICK t \in Exist, h \in Handles, hint \in BOOLEAN :
         LET name == IF hint THEN "insert_hint_handle" ELSE "insert_handle"
         IN  \/ Fails(name, "kind_error", t)
             \/ Fails(name, "done", t)
             \/ /\ t \notin NotOf("object") /\ handles[h].has_value
                /\ EndsWith(name, "done", t, <<"handle", h>>,
                            With(trees, t, Inserted(At(t), handles[h].key, handles[h].value)),
                            [handles EXCEPT ![h] = left(At(t), handles[h], hint)])
  BY Zenon DEF InsertHandle
<1>. DEFINE name == IF hint THEN "insert_hint_handle" ELSE "insert_handle"
            arg == <<"handle", h>>
            v == At(t)
            handle == handles[h]
            rest == left(v, handle, hint)
            w == Inserted(v, handle.key, handle.value)
            ts == With(trees, t, w)
            hs == [handles EXCEPT ![h] = rest]
<1>2. By(arg) = "handle" /\ arg[2] = h
  BY DEF By
<1>. HIDE DEF arg
<1>3. CASE Fails(name, "kind_error", t) \/ Fails(name, "done", t)
  <2>. HIDE DEF name
  <2>. QED
    BY <1>3, FailsIsAccounted
<1>4. CASE /\ t \notin NotOf("object") /\ handles[h].has_value
           /\ EndsWith(name, "done", t, arg, ts, hs)
  <2>1. v \in Good /\ KindOf(v) = "object"
    BY <1>4, AtIsGood DEF NotOf, Of
  <2>2. handle \in HandleRecords /\ handle.key \in Text /\ handle.value \in Good /\ handle.has_value
    BY <1>4 DEF Typed, HandleRecords
  <2>3. /\ MovedFrom(handle) \in HandleRecords /\ MovedFrom(handle).value = Null
        /\ MovedFrom(handle).has_value = handle.has_value
    BY <2>2, MovedFromIsTyped DEF MovedFrom, HandleRecords
  <2>. DEFINE grew == Size(Sub(ts[t[1]], t[2])) > Size(At(t))
              keeps == hint /\ HasKey(v, handle.key)
              n == Numbers(handle.value)
              added == IF HasKey(v, handle.key) THEN 0 ELSE n
  <2>4. w \in Good /\ Numbers(w) = Numbers(v) + added /\ (Size(w) > Size(v) <=> ~HasKey(v, handle.key))
    <3>. HIDE DEF v, handle
    <3>. QED
      BY <2>1, <2>2, InsertedIsGood, CountInserted
  <2>. HIDE DEF w
  <2>5. /\ NumbersOf(ts) = NumbersOf(trees) - Numbers(v) + Numbers(w) /\ NumbersOf(ts) \in Nat
        /\ Numbers(v) \in Nat /\ Numbers(w) \in Nat /\ Sub(ts[t[1]], t[2]) = w
    BY <2>4, AtIsGood, CountWith DEF Typed, At
  <2>. HIDE DEF ts
  <2>6. grew <=> ~HasKey(v, handle.key)
    BY <2>4, <2>5
  <2>7. rest = IF keeps THEN handle ELSE MovedFrom(handle)
    BY DEF Kept
  <2>. HIDE DEF left, rest
  <2>8. rest \in HandleRecords /\ rest.has_value /\ Numbers(rest.value) = IF keeps THEN n ELSE 0
    BY <2>2, <2>3, <2>7, NullHasNone
  <2>9. /\ NumbersOf(HeldBy(hs)) = NumbersOf(HeldBy(handles)) - n + Numbers(rest.value)
        /\ NumbersOf(HeldBy(hs)) \in Nat /\ n \in Nat
    BY <2>8, CountHeld
  <2>10. NoneHeld(hs)
    BY <2>8 DEF NoneHeld, Typed
  <2>. HIDE DEF hs
  <2>11. All(ts, hs) = NumbersNow + (added - n + (IF keeps THEN n ELSE 0))
    <3>. HIDE DEF keeps, added, n
    <3>1. added \in Nat
      BY <2>9 DEF added
    <3>2. All(ts, hs) = NumbersOf(ts) + NumbersOf(HeldBy(hs))
      BY AllIsSum
    <3>3. (IF keeps THEN n ELSE 0) \in Nat
      BY <2>9
    <3>. QED
      BY <2>4, <2>5, <2>8, <2>9, <3>1, <3>2, <3>3, AllIsNat
  <2>. HIDE DEF n
  <2>12. Accounts(name, "done", t, arg, ts, hs)
    <3>1. CASE hint
      <4>1. added - n + (IF keeps THEN n ELSE 0) = 0
        BY <2>9, <3>1
      <4>2. name = "insert_hint_handle" /\ All(ts, hs) = NumbersNow + 0
        BY <2>11, <3>1, <4>1
      <4>. QED
        BY <1>2, <4>2 DEF Accounts
    <3>2. CASE ~hint
      <4>1. added - n + (IF keeps THEN n ELSE 0) = IF grew THEN 0 ELSE -n
        BY <2>6, <2>9, <3>2
      <4>2. name = "insert_handle" /\ All(ts, hs) = NumbersNow + (IF grew THEN 0 ELSE -n)
        BY <2>11, <3>2, <4>1
      <4>. HIDE DEF name
      <4>. QED
        BY <1>2, <4>2 DEF Accounts, n
    <3>. QED
      BY <3>1, <3>2
  <2>. QED
    BY <1>4, <2>10, <2>12, Zenon DEF Accounted
<1>. QED
  BY <1>1, <1>3, <1>4 DEF arg

LEMMA HandlesAreAccounted ==
  ASSUME Typed, NoneHeld(handles), MoveHandle \/ DropHandle
  PROVE  Accounted
<1>1. CASE MoveHandle
  <2>. DEFINE left(handle, construct) == [MovedFrom(handle) EXCEPT !.has_value = @ /\ ~construct]
  <2>1. PICK g, h \in Handles, construct \in BOOLEAN :
           EndsWith("move_handle", "done", <<>>, <<"handle", h>>, trees,
                    [handles EXCEPT ![g] = handles[h], ![h] = left(handles[h], construct)])
    BY <1>1 DEF MoveHandle
  <2>. DEFINE hs == [handles EXCEPT ![g] = handles[h], ![h] = left(handles[h], construct)]
  <2>2. left(handles[h], construct).value = Null
    BY DEF MovedFrom, Typed, HandleRecords
  <2>. HIDE DEF left
  <2>3. NoneHeld(hs)
    BY <2>2 DEF NoneHeld, Typed
  <2>4. Quiet("move_handle", "done", <<"handle", h>>)
    BY DEF Quiet, By
  <2>. HIDE DEF hs
  <2>. QED
    BY <2>1, <2>3, <2>4, QuietIsAccounted DEF hs
<1>2. CASE DropHandle
  <2>1. PICK h \in Handles :
           EndsWith("drop_handle", "done", <<>>, <<"handle", h>>, trees, [handles EXCEPT ![h] = EmptyHandle])
    BY <1>2 DEF DropHandle
  <2>. DEFINE hs == [handles EXCEPT ![h] = EmptyHandle]
  <2>2. NoneHeld(hs)
    BY DEF NoneHeld, Typed, EmptyHandle
  <2>3. Quiet("drop_handle", "done", <<"handle", h>>)
    BY DEF Quiet, By
  <2>. HIDE DEF hs
  <2>. QED
    BY <2>1, <2>2, <2>3, QuietIsAccounted DEF hs
<1>. QED
  BY <1>1, <1>2

LEMMA AccessPathIsAccounted ==
  ASSUME Typed, NoneHeld(handles), AccessPath
  PROVE  Accounted
<1>1. PICK t \in Exist, p \in Paths, create \in BOOLEAN :
         LET made == Made(t, p, create)
         IN  Ends(IF create THEN "path" ELSE "at_path", made.error, t, <<"path", p>>,
                  With(trees, t, made.tree))
  BY Zenon DEF AccessPath
<1>. DEFINE v == At(t)
            made == Walk(v, p, create)
            name == IF create THEN "path" ELSE "at_path"
<1>2. p \in Seq(PathSteps)
  BY PathsAssumption DEF PathSteps
<1>3. Walked(made, v, p, create, FALSE)
  <2>1. v \in Good
    BY AtIsGood
  <2>. HIDE DEF v
  <2>. QED
    BY <1>2, <2>1, WalkIsWalked
<1>4. Ends(name, made.error, t, <<"path", p>>, With(trees, t, made.tree))
  BY <1>1 DEF Made
<1>. HIDE DEF made, v
<1>5. made.error \in {"done", "kind_error", "out_of_range"}
  BY <1>3 DEF Walked, Walkers
<1>6. Quiet(name, made.error, <<"path", p>>)
  BY <1>5 DEF Quiet, By
<1>. HIDE DEF name
<1>. QED
  BY <1>4, <1>6, QuietIsAccounted, EndsIsEndsWith

-----------------------------------------------------------------------------
(* What follows for every call *)

LEMMA StepsAreAccounted ==
  ASSUME Typed, NoneHeld(handles), Next
  PROVE  Accounted
  BY Zenon, CopyAssignIsAccounted, MoveAssignIsAccounted, ConstructIsAccounted, SwapIsAccounted,
     ClearIsAccounted, ArrayPushBackIsAccounted, ArrayPushFrontIsAccounted, ArrayInsertIsAccounted,
     ArrayChangesAreAccounted, ArrayInsertRangeIsAccounted, AtsAreAccounted,
     ObjectChangesAreAccounted, ObjectInsertIsAccounted, ExtractIsAccounted,
     InsertHandleIsAccounted, HandlesAreAccounted, AccessPathIsAccounted DEF Next

\* What MovesKeepEverything says of a step.
KeepsEverything ==
    LET t == last'.at
        arg == last'.arg
        by == IF arg = <<>> THEN "nothing" ELSE arg[1]
        Change(n) == NumbersNow' = NumbersNow + n
    IN  /\ last'.outcome \in {"leaked", "undefined"} /\ last'.name # "assign" => Overlap(t, arg[2])
        /\ last'.outcome = "done" /\ by = "move" =>
              IF last'.name = "move_assign" THEN Change(IF t = arg[2] THEN 0 ELSE -Numbers(At(t)))
              ELSE IF last'.name = "insert_pair" /\ ~Grew(t) THEN Change(-Numbers(At(arg[2])))
              ELSE Change(0)
        /\ last'.outcome = "kind_error" /\ by = "move" => Change(-Numbers(At(arg[2])))
        /\ last'.outcome = "done" /\ by = "swap" => Change(0)
        /\ last'.outcome = "done" /\ by = "copy" /\ ~Overlap(t, arg[2]) =>
              Change(IF last'.name = "copy_assign" THEN Numbers(At(arg[2])) - Numbers(At(t))
                     ELSE IF last'.name = "insert_pair" /\ ~Grew(t) THEN 0
                     ELSE Numbers(At(arg[2])))
        /\ last'.name \in {"extract", "insert_hint_handle"} => Change(0)
        /\ last'.name = "insert_handle" /\ last'.outcome = "done" /\ by = "handle" =>
              Change(IF Grew(t) THEN 0 ELSE -Numbers(handles[arg[2]].value))

LEMMA AccountedKeepsEverything ==
  ASSUME Accounted
  PROVE  KeepsEverything /\ NoneHeld(handles')
<1>1. PICK name, outcome, t, arg, ts, hs :
         /\ EndsWith(name, outcome, t, arg, ts, hs)
         /\ Accounts(name, outcome, t, arg, ts, hs)
         /\ NoneHeld(hs)
  BY Zenon DEF Accounted
<1>2. /\ trees' = ts /\ handles' = hs
      /\ last' = [name |-> name, outcome |-> outcome, at |-> t, arg |-> arg]
  BY <1>1, Zenon DEF EndsWith
<1>3. last'.name = name /\ last'.outcome = outcome /\ last'.at = t /\ last'.arg = arg
  BY <1>2
<1>4. NumbersNow' = All(trees', handles')
  BY DEF NumbersNow, All, NumbersOf, NumbersIn
<1>5. Accounts(last'.name, last'.outcome, last'.at, last'.arg, trees', handles')
  BY <1>1, <1>2, <1>3, Zenon
<1>6. KeepsEverything
  BY <1>4, <1>5, Zenon DEF KeepsEverything, Accounts, By, Grew, AfterAt
<1>. QED
  BY <1>1, <1>2, <1>6

\* The values that are moved, swapped and put into containers and handles are neither lost nor
\* doubled, whichever variables there are, but where MovesKeepEverything names it.
THEOREM MovesLoseNothing == Spec => MovesKeepEverything
<1>1. Init => NoneHeld(handles)
  <2>1. EmptyHandle.value = Null
    BY EmptyHandleIsTyped DEF EmptyHandle
  <2>2. Init => \A h \in Handles : handles[h] = EmptyHandle
    BY DEF Init
  <2>. QED
    BY <2>1, <2>2, Zenon DEF NoneHeld
<1>2. Typed /\ NoneHeld(handles) /\ [Next]_vars => NoneHeld(handles)' /\ [KeepsEverything]_vars
  <2>1. ASSUME Typed, NoneHeld(handles), Next PROVE NoneHeld(handles)' /\ KeepsEverything
    BY <2>1, StepsAreAccounted, AccountedKeepsEverything DEF NoneHeld
  <2>2. NoneHeld(handles) /\ UNCHANGED vars => NoneHeld(handles)'
    BY DEF NoneHeld, vars
  <2>. QED
    BY <2>1, <2>2
<1>. QED
  BY <1>1, <1>2, StoresAreTyped, PTL DEF Spec, MovesKeepEverything, KeepsEverything

=============================================================================
