---------------------------- MODULE GrammarProofs ----------------------------
(***************************************************************************)
(* What the reference grammar means: its recursion is well-founded, and a  *)
(* reader that goes over the tokens once, from left to right, comes to the *)
(* values it gives.                                                        *)
(***************************************************************************)
EXTENDS JsonReader, JsonValueLemmas

\* What the provers need of a tree here: nodes are paths, one of them the root.
Rooted == {v \in Trees : <<>> \in DOMAIN v}

Pairs == Text \X Rooted

\* The sets a piece may denote, by what it is read as.
SetsOf(sort) ==
    CASE sort = "value"   -> SUBSET Rooted
      [] sort = "member"  -> SUBSET Pairs
      [] sort = "values"  -> SUBSET Seq(Rooted)
      [] sort = "members" -> SUBSET Seq(Pairs)

Height(sort) == CASE sort = "value" -> 0 [] sort = "member" -> 1 [] OTHER -> 2

\* Long pieces are made of short ones, lists of elements, members of values.
Rank(x) == IF x[2] <= x[3] THEN 3 * (x[3] - x[2]) + Height(x[1]) ELSE 0

Lower(w, x) == {y \in Pieces(w) : Rank(y) < Rank(x)}

-----------------------------------------------------------------------------
(* Trees built from lists. *)

\* The nodes of h are the root and those of the trees f[s] below it.
Nodes(h, root, F, f) ==
    /\ <<>> \in DOMAIN h /\ h[<<>>] = root
    /\ \A s \in F : \A q \in DOMAIN f[s] : <<s>> \o q \in DOMAIN h /\ h[<<s>> \o q] = f[s][q]
    /\ \A p \in DOMAIN h : p # <<>> =>
         /\ Head(p) \in F /\ Tail(p) \in DOMAIN f[Head(p)]
         /\ p = <<Head(p)>> \o Tail(p) /\ p \in Seq(StepSet)
         /\ h[p] = f[Head(p)][Tail(p)]

\* The tree with the label root and, below each step s, the tree f[s].
Hung(root, f) ==
    [p \in {<<>>} \cup UNION {Below(s, f[s]) : s \in DOMAIN f} |->
        IF p = <<>> THEN root ELSE f[Head(p)][Tail(p)]]

\* A rooted tree has a root, and nodes that are paths, finitely many, with labels.
LEMMA RootedTrees ==
  \A v : v \in Rooted <=> /\ <<>> \in DOMAIN v /\ DOMAIN v \subseteq Seq(StepSet)
                          /\ IsFiniteSet(DOMAIN v) /\ v \in [DOMAIN v -> Labels]
  BY TreesAreTrees DEF Rooted, IsTree

\* Finitely many things are named by finitely many others.
LEMMA ImageIsFinite ==
  ASSUME NEW S, IsFiniteSet(S), NEW f, DOMAIN f = S
  PROVE  IsFiniteSet({f[s] : s \in S})
<1>. DEFINE R == {f[s] : s \in S}
            g == [s \in S |-> f[s]]
<1>1. g \in Surjection(S, R)
  BY DEF Surjection
<1>. QED
  BY <1>1, FS_Surjection

\* So is null, a scalar, an empty array or object.
LEMMA LeafIsRooted == ASSUME NEW l \in Labels PROVE Leaf(l) \in Rooted
  BY LeafIsTree DEF Leaf, Rooted

\* The nodes of such a tree: the root and those of the trees below it.
LEMMA HungNodes ==
  ASSUME NEW root, NEW F \in SUBSET StepSet, NEW f \in [F -> Rooted]
  PROVE  Nodes(Hung(root, f), root, F, f)
<1>. DEFINE D == {<<>>} \cup UNION {Below(s, f[s]) : s \in DOMAIN f}
            h == Hung(root, f)
<1>1. DOMAIN h = D /\ \A p \in D : h[p] = IF p = <<>> THEN root ELSE f[Head(p)][Tail(p)]
  BY DEF Hung
<1>2. \A p : p \in D <=> p = <<>> \/ \E s \in F : \E q \in DOMAIN f[s] : p = <<s>> \o q
  <2>1. DOMAIN f = F /\ \A s, p : p \in Below(s, f[s]) <=> \E q \in DOMAIN f[s] : p = <<s>> \o q
    BY DEF Below
  <2>2. \A p : p \in D <=> p = <<>> \/ \E s \in F : p \in Below(s, f[s])
    OBVIOUS
  <2>. HIDE DEF D
  <2>3. ASSUME NEW p
        PROVE p \in D <=> p = <<>> \/ \E s \in F : \E q \in DOMAIN f[s] : p = <<s>> \o q
    <3>1. \A s : p \in Below(s, f[s]) <=> \E q \in DOMAIN f[s] : p = <<s>> \o q
      BY DEF Below
    <3>. QED
      BY <2>2, <3>1, Zenon
  <2>. QED
    BY <2>3, Zenon
<1>3. ASSUME NEW s \in F, NEW q \in DOMAIN f[s]
      PROVE  /\ <<s>> \o q # <<>> /\ Head(<<s>> \o q) = s /\ Tail(<<s>> \o q) = q
             /\ <<s>> \o q \in Seq(StepSet)
  BY PrependStep, RootedTrees
<1>. HIDE DEF h, D
<1>4. \A s \in F : \A q \in DOMAIN f[s] : <<s>> \o q \in D /\ h[<<s>> \o q] = f[s][q]
  BY <1>1, <1>2, <1>3
<1>5. <<>> \in D /\ h[<<>>] = root
  BY <1>1, <1>2
<1>6. ASSUME NEW p \in D, p # <<>>
      PROVE  /\ Head(p) \in F /\ Tail(p) \in DOMAIN f[Head(p)]
             /\ p = <<Head(p)>> \o Tail(p) /\ p \in Seq(StepSet)
             /\ h[p] = f[Head(p)][Tail(p)]
  <2>1. PICK s \in F : \E q \in DOMAIN f[s] : p = <<s>> \o q
    BY <1>2, <1>6
  <2>2. PICK q \in DOMAIN f[s] : p = <<s>> \o q
    BY <2>1
  <2>3. Head(p) = s /\ Tail(p) = q /\ p \in Seq(StepSet)
    BY <1>3, <2>2
  <2>. QED
    BY <1>1, <1>6, <2>2, <2>3
<1>. QED
  BY <1>1, <1>4, <1>5, <1>6 DEF h, Nodes

\* Hanging rooted trees below a root gives a rooted tree.
LEMMA HungIsRooted ==
  ASSUME NEW root \in Labels, NEW F \in SUBSET StepSet, NEW f \in [F -> Rooted], IsFiniteSet(F)
  PROVE  Hung(root, f) \in Rooted
<1>. DEFINE h == Hung(root, f)
<1>0. Nodes(h, root, F, f)
  BY HungNodes
<1>1. <<>> \in DOMAIN h /\ h[<<>>] \in Labels /\ <<>> \in Seq(StepSet)
  BY <1>0, EmptySeq DEF Nodes
<1>2. ASSUME NEW p \in DOMAIN h, p # <<>> PROVE p \in Seq(StepSet) /\ h[p] \in Labels
  <2>1. /\ Head(p) \in F /\ Tail(p) \in DOMAIN f[Head(p)] /\ p \in Seq(StepSet)
        /\ h[p] = f[Head(p)][Tail(p)]
    <3>. HIDE DEF h
    <3>. QED
      BY <1>0, <1>2 DEF Nodes
  <2>2. f[Head(p)] \in Rooted
    BY <2>1
  <2>. QED
    BY <2>1, <2>2, RootedTrees
<1>3. h \in [DOMAIN h -> Labels]
  <2>1. h = [p \in DOMAIN h |-> h[p]]
    BY DEF Hung
  <2>2. \A p \in DOMAIN h : h[p] \in Labels
    BY <1>1, <1>2
  <2>. HIDE DEF h
  <2>. QED
    BY <2>1, <2>2
<1>4. DOMAIN h \subseteq Seq(StepSet)
  BY <1>1, <1>2
<1>5. IsFiniteSet(DOMAIN h)
  <2>. DEFINE B == {Below(s, f[s]) : s \in F}
  <2>1. IsFiniteSet(B)
    <3>. DEFINE g == [s \in F |-> Below(s, f[s])]
    <3>1. {g[s] : s \in F} = B
      OBVIOUS
    <3>2. IsFiniteSet({g[s] : s \in F})
      <4>1. DOMAIN g = F
        OBVIOUS
      <4>. HIDE DEF g
      <4>. QED
        BY <4>1, ImageIsFinite
    <3>. QED
      BY <3>1, <3>2
  <2>2. \A s \in F : IsFiniteSet(Below(s, f[s]))
    BY BelowIsFinite DEF Rooted
  <2>3. \A X \in B : IsFiniteSet(X)
    <3>. HIDE DEF Below
    <3>. QED
      BY <2>2
  <2>4. DOMAIN h = {<<>>} \cup UNION B
    BY DEF Hung
  <2>. HIDE DEF B, h
  <2>5. IsFiniteSet(UNION B) /\ IsFiniteSet({<<>>})
    BY <2>1, <2>3, FS_UNION, FS_Singleton
  <2>6. IsFiniteSet({<<>>} \cup UNION B)
    BY <2>5, FS_Union
  <2>. QED
    BY <2>4, <2>6
<1>. QED
  BY <1>1, <1>3, <1>4, <1>5, RootedTrees

\* The steps that leave its root.
LEMMA HungSteps ==
  ASSUME NEW root, NEW F \in SUBSET StepSet, NEW f \in [F -> Rooted]
  PROVE  /\ Steps(Hung(root, f)) = F
         /\ \A s \in StepSet : <<s>> \in DOMAIN Hung(root, f) <=> s \in F
<1>. DEFINE h == Hung(root, f)
<1>0. Nodes(h, root, F, f)
  BY HungNodes
<1>1. \A s \in StepSet : /\ <<s>> \o <<>> = <<s>> /\ Len(<<s>>) = 1 /\ <<s>>[1] = s
                         /\ <<s>> # <<>> /\ Head(<<s>>) = s
  OBVIOUS
<1>2. ASSUME NEW s \in F PROVE <<s>> \in DOMAIN h
  <2>1. <<>> \in DOMAIN f[s]
    BY RootedTrees
  <2>2. <<s>> \o <<>> \in DOMAIN h
    BY <1>0, <2>1 DEF Nodes
  <2>. QED
    BY <1>1, <2>2
<1>3. ASSUME NEW p \in DOMAIN h, Len(p) = 1 PROVE p[1] \in F
  <2>1. p # <<>>
    <3>1. Len(<<>>) = 0
      OBVIOUS
    <3>. HIDE DEF h
    <3>. QED
      BY <1>3, <3>1
  <2>2. Head(p) \in F /\ p \in Seq(StepSet)
    <3>. HIDE DEF h
    <3>. QED
      BY <1>0, <2>1 DEF Nodes
  <2>3. Head(p) = p[1]
    BY <1>3, <2>1, <2>2
  <2>. QED
    BY <2>2, <2>3
<1>4. Steps(h) = F
  <2>1. \A s : s \in Steps(h) <=> \E p \in DOMAIN h : Len(p) = 1 /\ s = p[1]
    BY DEF Steps
  <2>. HIDE DEF h
  <2>2. ASSUME NEW s \in Steps(h) PROVE s \in F
    BY <1>3, <2>1, <2>2
  <2>3. ASSUME NEW s \in F PROVE s \in Steps(h)
    <3>1. <<s>> \in DOMAIN h /\ Len(<<s>>) = 1 /\ <<s>>[1] = s
      BY <1>1, <1>2
    <3>. QED
      BY <2>1, <3>1
  <2>. QED
    BY <2>2, <2>3
<1>5. ASSUME NEW s \in StepSet, <<s>> \in DOMAIN h PROVE s \in F
  <2>. HIDE DEF h
  <2>. QED
    BY <1>1, <1>3, <1>5
<1>. QED
  BY <1>2, <1>4, <1>5

\* One more tree below the root.
Plus(f, s, w) == [r \in DOMAIN f \cup {s} |-> IF r = s THEN w ELSE f[r]]

\* Putting a tree at a new step is hanging one tree more.
LEMMA PutHung ==
  ASSUME NEW root, NEW F \in SUBSET StepSet, NEW f \in [F -> Rooted],
         NEW s \in StepSet \ F, NEW w \in Rooted
  PROVE  Put(Hung(root, f), s, w) = Hung(root, Plus(f, s, w))
<1>. DEFINE g == Plus(f, s, w)
            G == F \cup {s}
            v == Hung(root, f)
            h == Hung(root, g)
            kept == {p \in DOMAIN v : p = <<>> \/ Head(p) # s}
            u == Put(v, s, w)
<1>1. /\ G \in SUBSET StepSet /\ g \in [G -> Rooted] /\ g[s] = w
      /\ \A r \in F : g[r] = f[r] /\ r # s
  BY DEF Plus
<1>a. Nodes(v, root, F, f)
  BY HungNodes
<1>. HIDE DEF g, G
<1>b. Nodes(h, root, G, g)
  BY <1>1, HungNodes
<1>2. kept = DOMAIN v
  <2>. HIDE DEF v
  <2>. QED
    BY <1>a DEF Nodes
<1>3. u = [p \in DOMAIN v \cup Below(s, w) |-> IF p \in DOMAIN v THEN v[p] ELSE w[Tail(p)]]
  <2>1. u = [p \in kept \cup Below(s, w) |-> IF p \in kept THEN v[p] ELSE w[Tail(p)]]
    BY DEF Put
  <2>. HIDE DEF kept, u, v
  <2>. QED
    BY <1>2, <2>1
<1>4. \A p : p \in Below(s, w) <=> \E q \in DOMAIN w : p = <<s>> \o q
  BY DEF Below
<1>5. \A q \in DOMAIN w : /\ Head(<<s>> \o q) = s /\ Tail(<<s>> \o q) = q
                          /\ <<s>> \o q # <<>> /\ <<s>> \o q \notin DOMAIN v
  <2>1. \A q \in DOMAIN w : /\ Head(<<s>> \o q) = s /\ Tail(<<s>> \o q) = q /\ <<s>> \o q # <<>>
    BY PrependStep, RootedTrees
  <2>2. \A p \in DOMAIN v : p # <<>> => Head(p) # s
    <3>. HIDE DEF v
    <3>. QED
      BY <1>a DEF Nodes
  <2>. HIDE DEF v
  <2>. QED
    BY <2>1, <2>2
<1>9. h = [p \in DOMAIN h |-> h[p]]
  BY DEF Hung
<1>. HIDE DEF h, v, u, kept
<1>6. ASSUME NEW p \in DOMAIN v PROVE p \in DOMAIN h /\ h[p] = v[p]
  <2>1. CASE p = <<>>
    BY <1>a, <1>b, <2>1 DEF Nodes
  <2>2. CASE p # <<>>
    <3>1. /\ Head(p) \in F /\ Tail(p) \in DOMAIN f[Head(p)] /\ p = <<Head(p)>> \o Tail(p)
          /\ v[p] = f[Head(p)][Tail(p)]
      BY <1>a, <2>2 DEF Nodes
    <3>2. Head(p) \in G /\ g[Head(p)] = f[Head(p)]
      BY <1>1, <3>1 DEF G
    <3>3. /\ <<Head(p)>> \o Tail(p) \in DOMAIN h
          /\ h[<<Head(p)>> \o Tail(p)] = g[Head(p)][Tail(p)]
      BY <1>b, <3>1, <3>2 DEF Nodes
    <3>. QED
      BY <3>1, <3>2, <3>3
  <2>. QED
    BY <2>1, <2>2
<1>7. ASSUME NEW q \in DOMAIN w PROVE <<s>> \o q \in DOMAIN h /\ h[<<s>> \o q] = w[q]
  <2>1. s \in G /\ q \in DOMAIN g[s]
    BY <1>1 DEF G
  <2>. QED
    BY <1>1, <1>b, <2>1 DEF Nodes
<1>8. ASSUME NEW p \in DOMAIN h PROVE p \in DOMAIN v \/ p \in Below(s, w)
  <2>1. CASE p = <<>>
    BY <1>a, <2>1 DEF Nodes
  <2>2. CASE p # <<>>
    <3>1. Head(p) \in G /\ Tail(p) \in DOMAIN g[Head(p)] /\ p = <<Head(p)>> \o Tail(p)
      BY <1>b, <2>2 DEF Nodes
    <3>2. CASE Head(p) = s
      BY <1>1, <1>4, <3>1, <3>2
    <3>3. CASE Head(p) \in F
      <4>1. Tail(p) \in DOMAIN f[Head(p)]
        BY <1>1, <3>1, <3>3
      <4>2. <<Head(p)>> \o Tail(p) \in DOMAIN v
        BY <1>a, <3>3, <4>1 DEF Nodes
      <4>. QED
        BY <3>1, <4>2
    <3>. QED
      BY <3>1, <3>2, <3>3 DEF G
  <2>. QED
    BY <2>1, <2>2
<1>c. ASSUME NEW p \in Below(s, w)
      PROVE  p \in DOMAIN h /\ p \notin DOMAIN v /\ h[p] = w[Tail(p)]
  <2>1. PICK q \in DOMAIN w : p = <<s>> \o q
    BY <1>4
  <2>. QED
    BY <1>5, <1>7, <2>1
<1>10. DOMAIN h = DOMAIN v \cup Below(s, w)
  BY <1>6, <1>8, <1>c
<1>11. \A p \in DOMAIN v \cup Below(s, w) : h[p] = IF p \in DOMAIN v THEN v[p] ELSE w[Tail(p)]
  BY <1>6, <1>c
<1>12. u = h
  BY <1>3, <1>9, <1>10, <1>11
<1>. QED
  BY <1>12 DEF u, v, h, g

\* Where the elements of an array hang.
Indices(vs) == {Index(i - 1) : i \in 1 .. Len(vs)}
ByIndex(vs) == [s \in Indices(vs) |-> vs[s[2] + 1]]

\* An array is its elements, hung below a root by index.
LEMMA ArrayIsHung ==
  ASSUME NEW vs \in Seq(Rooted)
  PROVE  /\ Indices(vs) \in SUBSET StepSet /\ ByIndex(vs) \in [Indices(vs) -> Rooted]
         /\ \A i \in 1 .. Len(vs) : Index(i - 1) \in Indices(vs)
             /\ ByIndex(vs)[Index(i - 1)] = vs[i]
         /\ \A i \in Nat : Index(i) \in Indices(vs) => i < Len(vs)
         /\ ArrayOf(vs) = Hung(EmptyArray[<<>>], ByIndex(vs))
<1>. DEFINE F == Indices(vs)
            f == ByIndex(vs)
            D == {<<>>} \cup UNION {Below(Index(i - 1), vs[i]) : i \in DOMAIN vs}
<1>1. /\ Len(vs) \in Nat /\ DOMAIN vs = 1 .. Len(vs) /\ \A i \in 1 .. Len(vs) : vs[i] \in Rooted
      /\ \A i \in 1 .. Len(vs) : i - 1 \in Nat
  OBVIOUS
<1>2. \A i \in Nat : Index(i)[2] = i /\ Index(i) \in StepSet
  BY StepTypes DEF Index
<1>3. \A i \in 1 .. Len(vs) : Index(i - 1) \in F /\ Index(i - 1) \in StepSet
        /\ f[Index(i - 1)] = vs[i]
  <2>1. \A i \in 1 .. Len(vs) : Index(i - 1) \in F
    BY DEF Indices
  <2>2. \A i \in 1 .. Len(vs) : Index(i - 1)[2] + 1 = i
    BY <1>1, <1>2
  <2>. HIDE DEF F
  <2>3. \A s \in F : f[s] = vs[s[2] + 1]
    BY DEF ByIndex, F
  <2>. QED
    BY <1>1, <1>2, <2>1, <2>2, <2>3
<1>4. \A s : s \in F <=> \E i \in 1 .. Len(vs) : s = Index(i - 1)
  BY DEF Indices
<1>5. DOMAIN f = F /\ f = [s \in F |-> f[s]]
  BY DEF ByIndex
<1>. HIDE DEF f, F
<1>6. F \in SUBSET StepSet /\ f \in [F -> Rooted]
  <2>1. \A s \in F : s \in StepSet /\ f[s] \in Rooted
    BY <1>1, <1>3, <1>4
  <2>. QED
    BY <1>5, <2>1
<1>7. ASSUME NEW i \in Nat, Index(i) \in F PROVE i < Len(vs)
  <2>1. PICK j \in 1 .. Len(vs) : Index(i) = Index(j - 1)
    BY <1>4, <1>7
  <2>2. i = j - 1
    BY <1>1, <1>2, <2>1
  <2>. QED
    BY <1>1, <2>2
<1>8. D = {<<>>} \cup UNION {Below(s, f[s]) : s \in F}
  <2>1. {Below(Index(i - 1), vs[i]) : i \in DOMAIN vs} = {Below(s, f[s]) : s \in F}
    <3>1. ASSUME NEW i \in DOMAIN vs PROVE \E s \in F : Below(Index(i - 1), vs[i]) = Below(s, f[s])
      BY <1>1, <1>3
    <3>2. ASSUME NEW s \in F PROVE \E i \in DOMAIN vs : Below(s, f[s]) = Below(Index(i - 1), vs[i])
      BY <1>1, <1>3, <1>4
    <3>. QED
      BY <3>1, <3>2
  <2>. QED
    BY <2>1
<1>9. Nodes(Hung(EmptyArray[<<>>], f), EmptyArray[<<>>], F, f)
  BY <1>6, HungNodes
<1>10. ArrayOf(vs) = [p \in D |-> IF p = <<>> THEN EmptyArray[<<>>]
         ELSE vs[Head(p)[2] + 1][Tail(p)]]
  BY <1>1 DEF ArrayOf
<1>11. /\ Hung(EmptyArray[<<>>], f) = [p \in D |-> IF p = <<>> THEN EmptyArray[<<>>]
           ELSE f[Head(p)][Tail(p)]]
       /\ DOMAIN Hung(EmptyArray[<<>>], f) = D
  <2>. HIDE DEF D
  <2>. QED
    BY <1>5, <1>8 DEF Hung
<1>12. ASSUME NEW p \in D, p # <<>> PROVE f[Head(p)] = vs[Head(p)[2] + 1]
  <2>1. Head(p) \in F
    BY <1>9, <1>11, <1>12 DEF Nodes
  <2>2. PICK i \in 1 .. Len(vs) : Head(p) = Index(i - 1)
    BY <1>4, <2>1
  <2>3. Head(p)[2] = i - 1 /\ (i - 1) + 1 = i
    BY <1>1, <1>2, <2>2
  <2>. QED
    BY <1>3, <2>2, <2>3
<1>13. ArrayOf(vs) = Hung(EmptyArray[<<>>], f)
  <2>. HIDE DEF D
  <2>. QED
    BY <1>10, <1>11, <1>12
<1>. QED
  BY <1>3, <1>6, <1>7, <1>13 DEF f, F

\* The labels of the roots of arrays and objects.
LEMMA EmptyLabels == EmptyArray[<<>>] \in Labels /\ EmptyObject[<<>>] \in Labels
<1>1. \A k \in ContainerKinds : Label(k, "") \in Labels
  BY DEF Label, Labels
<1>. QED
  BY <1>1 DEF EmptyArray, EmptyObject, Leaf, ContainerKinds

\* An array of rooted trees is one.
LEMMA ArrayOfIsRooted ==
  ASSUME NEW vs \in Seq(Rooted)
  PROVE  ArrayOf(vs) \in Rooted
<1>1. /\ Indices(vs) \in SUBSET StepSet /\ ByIndex(vs) \in [Indices(vs) -> Rooted]
      /\ ArrayOf(vs) = Hung(EmptyArray[<<>>], ByIndex(vs))
  BY ArrayIsHung
<1>2. IsFiniteSet(Indices(vs))
  <2>. DEFINE g == [i \in 1 .. Len(vs) |-> Index(i - 1)]
  <2>1. {g[i] : i \in 1 .. Len(vs)} = Indices(vs)
    BY DEF Indices
  <2>2. IsFiniteSet(1 .. Len(vs))
    <3>1. 1 \in Int /\ Len(vs) \in Int
      OBVIOUS
    <3>. QED
      BY <3>1, FS_Interval
  <2>3. DOMAIN g = 1 .. Len(vs)
    OBVIOUS
  <2>. HIDE DEF g
  <2>. QED
    BY <2>1, <2>2, <2>3, ImageIsFinite
<1>. DEFINE F == Indices(vs)
            f == ByIndex(vs)
            root == EmptyArray[<<>>]
<1>3. F \in SUBSET StepSet /\ IsFiniteSet(F) /\ f \in [F -> Rooted] /\ root \in Labels
  BY <1>1, <1>2, EmptyLabels
<1>. HIDE DEF F, f, root
<1>4. Hung(root, f) \in Rooted
  BY <1>3, HungIsRooted
<1>. QED
  BY <1>1, <1>4 DEF F, f, root

\* value::size() of an array is the number of its elements.
LEMMA SizeOfArray ==
  ASSUME NEW vs \in Seq(Rooted)
  PROVE  Size(ArrayOf(vs)) = Len(vs)
<1>. DEFINE b == [i \in 1 .. Len(vs) |-> Index(i - 1)]
<1>1. /\ Indices(vs) \in SUBSET StepSet /\ ByIndex(vs) \in [Indices(vs) -> Rooted]
      /\ ArrayOf(vs) = Hung(EmptyArray[<<>>], ByIndex(vs))
  BY ArrayIsHung
<1>2. Steps(ArrayOf(vs)) = Indices(vs)
  <2>. DEFINE F == Indices(vs)
              f == ByIndex(vs)
              root == EmptyArray[<<>>]
  <2>1. F \in SUBSET StepSet /\ f \in [F -> Rooted] /\ ArrayOf(vs) = Hung(root, f)
    BY <1>1
  <2>. HIDE DEF F, f, root, b
  <2>2. Steps(Hung(root, f)) = F
    BY <2>1, HungSteps
  <2>. QED
    BY <2>1, <2>2 DEF F
<1>3. b \in Bijection(1 .. Len(vs), Indices(vs))
  <2>1. b \in [1 .. Len(vs) -> Indices(vs)]
    BY DEF Indices
  <2>2. \A i, j \in 1 .. Len(vs) : Index(i - 1) = Index(j - 1) => i = j
    BY DEF Index
  <2>3. \A s \in Indices(vs) : \E i \in 1 .. Len(vs) : b[i] = s
    BY DEF Indices
  <2>. QED
    BY <2>1, <2>2, <2>3, Fun_IsBij
<1>4. Cardinality(1 .. Len(vs)) = Len(vs) /\ IsFiniteSet(1 .. Len(vs))
  <2>1. 1 \in Int /\ Len(vs) \in Int /\ Len(vs) >= 0
    OBVIOUS
  <2>2. /\ IsFiniteSet(1 .. Len(vs))
        /\ Cardinality(1 .. Len(vs)) = IF 1 > Len(vs) THEN 0 ELSE Len(vs) - 1 + 1
    BY <2>1, FS_Interval
  <2>. QED
    BY <2>1, <2>2
<1>5. Cardinality(Indices(vs)) = Len(vs)
  BY <1>3, <1>4, FS_Bijection DEF ExistsBijection
<1>. QED
  BY <1>2, <1>5 DEF Size

\* value::push_back on the array of some elements makes the array of one more.
LEMMA PushBackOnArray ==
  ASSUME NEW vs \in Seq(Rooted), NEW v \in Rooted
  PROVE  PushBack(ArrayOf(vs), v) = ArrayOf(Append(vs, v))
<1>. DEFINE n == Len(vs)
            ws == Append(vs, v)
            g == Plus(ByIndex(vs), Index(n), v)
<1>1. /\ Indices(vs) \in SUBSET StepSet /\ ByIndex(vs) \in [Indices(vs) -> Rooted]
      /\ \A i \in 1 .. Len(vs) : Index(i - 1) \in Indices(vs) /\ ByIndex(vs)[Index(i - 1)] = vs[i]
      /\ \A i \in Nat : Index(i) \in Indices(vs) => i < Len(vs)
      /\ ArrayOf(vs) = Hung(EmptyArray[<<>>], ByIndex(vs))
  BY ArrayIsHung
<1>2. ws \in Seq(Rooted) /\ Len(ws) = n + 1 /\ ws[n + 1] = v /\ \A i \in 1 .. n : ws[i] = vs[i]
  BY AppendProperties
<1>. HIDE DEF ws
<1>3. /\ Indices(ws) \in SUBSET StepSet /\ ByIndex(ws) \in [Indices(ws) -> Rooted]
      /\ \A i \in 1 .. Len(ws) : Index(i - 1) \in Indices(ws) /\ ByIndex(ws)[Index(i - 1)] = ws[i]
      /\ ArrayOf(ws) = Hung(EmptyArray[<<>>], ByIndex(ws))
  BY <1>2, ArrayIsHung
<1>4. Index(n) \in StepSet \ Indices(vs) /\ n \in Nat
  BY <1>1, StepTypes
<1>5. PushBack(ArrayOf(vs), v) = Put(Hung(EmptyArray[<<>>], ByIndex(vs)), Index(n), v)
  BY <1>1, SizeOfArray DEF PushBack
<1>6. PushBack(ArrayOf(vs), v) = Hung(EmptyArray[<<>>], g)
  BY <1>1, <1>4, <1>5, PutHung
<1>7. \A s : s \in Indices(vs) <=> \E i \in 1 .. n : s = Index(i - 1)
  BY DEF Indices
<1>8. \A s : s \in Indices(ws) <=> \E i \in 1 .. n + 1 : s = Index(i - 1)
  BY <1>2 DEF Indices
<1>9. Indices(ws) = Indices(vs) \cup {Index(n)}
  <2>1. ASSUME NEW s \in Indices(ws) PROVE s \in Indices(vs) \/ s = Index(n)
    <3>1. PICK i \in 1 .. n + 1 : s = Index(i - 1)
      BY <1>8
    <3>2. i \in 1 .. n \/ i - 1 = n
      BY <1>4
    <3>. QED
      BY <1>7, <3>1, <3>2
  <2>2. ASSUME NEW s \in Indices(vs) PROVE s \in Indices(ws)
    <3>1. PICK i \in 1 .. n : s = Index(i - 1)
      BY <1>7
    <3>2. i \in 1 .. n + 1
      BY <1>4
    <3>. QED
      BY <1>8, <3>1, <3>2
  <2>3. Index(n) \in Indices(ws)
    <3>1. n + 1 \in 1 .. n + 1 /\ (n + 1) - 1 = n
      BY <1>4
    <3>. QED
      BY <1>8, <3>1
  <2>. QED
    BY <2>1, <2>2, <2>3
<1>10. ASSUME NEW s \in Indices(ws) PROVE ByIndex(ws)[s] = g[s]
  <2>1. CASE s = Index(n)
    <3>1. n + 1 \in 1 .. Len(ws) /\ (n + 1) - 1 = n
      BY <1>2, <1>4
    <3>2. ByIndex(ws)[Index(n)] = v
      BY <1>2, <1>3, <3>1
    <3>. QED
      BY <1>1, <1>9, <2>1, <3>2 DEF Plus
  <2>2. CASE s # Index(n)
    <3>1. PICK i \in 1 .. n : s = Index(i - 1)
      BY <1>7, <1>9, <2>2
    <3>2. i \in 1 .. Len(ws)
      BY <1>2, <1>4
    <3>3. ByIndex(ws)[s] = ws[i] /\ ByIndex(vs)[s] = vs[i] /\ ws[i] = vs[i]
      BY <1>1, <1>2, <1>3, <3>1, <3>2
    <3>4. g[s] = ByIndex(vs)[s]
      BY <1>1, <1>9, <2>2 DEF Plus
    <3>. QED
      BY <3>3, <3>4
  <2>. QED
    BY <2>1, <2>2
<1>11. ByIndex(ws) = g
  <2>1. ByIndex(ws) = [s \in Indices(ws) |-> ByIndex(ws)[s]]
    BY <1>3
  <2>. HIDE DEF g
  <2>2. g = [s \in Indices(ws) |-> g[s]]
    BY <1>1, <1>9 DEF g, Plus
  <2>. QED
    BY <1>10, <2>1, <2>2
<1>. QED
  BY <1>3, <1>6, <1>11 DEF ws

\* Where the members of an object hang.
KeySteps(ms) == {Key(ms[i][1]) : i \in 1 .. Len(ms)}
PositionOf(ms, k) == CHOOSE i \in DOMAIN ms : ms[i][1] = k
ByKey(ms) == [s \in KeySteps(ms) |-> ms[PositionOf(ms, s[2])][2]]

\* An object with distinct keys is its values, hung below a root by key.
LEMMA ObjectIsHung ==
  ASSUME NEW ms \in Seq(Pairs), DistinctKeys(ms)
  PROVE  /\ KeySteps(ms) \in SUBSET StepSet /\ ByKey(ms) \in [KeySteps(ms) -> Rooted]
         /\ \A s : s \in KeySteps(ms) <=> \E i \in 1 .. Len(ms) : s = Key(ms[i][1])
         /\ \A i \in 1 .. Len(ms) : ByKey(ms)[Key(ms[i][1])] = ms[i][2]
         /\ ObjectOf(ms) = Hung(EmptyObject[<<>>], ByKey(ms))
<1>. DEFINE F == KeySteps(ms)
            f == ByKey(ms)
            D == {<<>>} \cup UNION {Below(Key(ms[i][1]), ms[i][2]) : i \in DOMAIN ms}
<1>1. /\ Len(ms) \in Nat /\ DOMAIN ms = 1 .. Len(ms)
      /\ \A i \in 1 .. Len(ms) : ms[i][1] \in Text /\ ms[i][2] \in Rooted
  BY DEF Pairs
<1>2. \A k \in Text : Key(k)[2] = k /\ Key(k) \in StepSet
  BY StepTypes DEF Key
<1>3. \A s : s \in F <=> \E i \in 1 .. Len(ms) : s = Key(ms[i][1])
  BY DEF KeySteps
<1>4. DOMAIN f = F /\ \A s \in F : f[s] = ms[PositionOf(ms, s[2])][2]
  BY DEF ByKey
<1>5. f = [s \in F |-> f[s]]
  BY DEF ByKey
<1>. HIDE DEF f, F
<1>6. ASSUME NEW i \in 1 .. Len(ms) PROVE PositionOf(ms, ms[i][1]) = i
  <2>1. /\ PositionOf(ms, ms[i][1]) \in DOMAIN ms
        /\ ms[PositionOf(ms, ms[i][1])][1] = ms[i][1]
    BY <1>1 DEF PositionOf
  <2>. QED
    BY <1>1, <2>1 DEF DistinctKeys
<1>7. \A i \in 1 .. Len(ms) : Key(ms[i][1]) \in F /\ f[Key(ms[i][1])] = ms[i][2]
  BY <1>1, <1>2, <1>3, <1>4, <1>6
<1>8. F \in SUBSET StepSet /\ f \in [F -> Rooted]
  <2>1. ASSUME NEW s \in F PROVE s \in StepSet /\ f[s] \in Rooted
    BY <1>1, <1>2, <1>3, <1>7
  <2>. QED
    BY <1>5, <2>1
<1>10. Nodes(Hung(EmptyObject[<<>>], f), EmptyObject[<<>>], F, f)
  BY <1>8, HungNodes
<1>11. ObjectOf(ms)
       = [p \in D |-> IF p = <<>> THEN EmptyObject[<<>>]
         ELSE ms[PositionOf(ms, Head(p)[2])][2][Tail(p)]]
  BY DEF ObjectOf, PositionOf
<1>12. D = {<<>>} \cup UNION {Below(s, f[s]) : s \in F}
  <2>1. {Below(Key(ms[i][1]), ms[i][2]) : i \in DOMAIN ms} = {Below(s, f[s]) : s \in F}
    <3>1. ASSUME NEW i \in DOMAIN ms
          PROVE  \E s \in F : Below(Key(ms[i][1]), ms[i][2]) = Below(s, f[s])
      BY <1>1, <1>7
    <3>2. ASSUME NEW s \in F
          PROVE  \E i \in DOMAIN ms : Below(s, f[s]) = Below(Key(ms[i][1]), ms[i][2])
      BY <1>1, <1>3, <1>7
    <3>. QED
      BY <3>1, <3>2
  <2>. QED
    BY <2>1
<1>13. /\ Hung(EmptyObject[<<>>], f)
          = [p \in D |-> IF p = <<>> THEN EmptyObject[<<>>] ELSE f[Head(p)][Tail(p)]]
       /\ DOMAIN Hung(EmptyObject[<<>>], f) = D
  <2>. HIDE DEF D
  <2>. QED
    BY <1>4, <1>12 DEF Hung
<1>14. ASSUME NEW p \in D, p # <<>> PROVE f[Head(p)] = ms[PositionOf(ms, Head(p)[2])][2]
  <2>1. Head(p) \in F
    BY <1>10, <1>13, <1>14 DEF Nodes
  <2>. QED
    BY <1>4, <2>1
<1>15. ObjectOf(ms) = Hung(EmptyObject[<<>>], f)
  <2>. HIDE DEF D
  <2>. QED
    BY <1>11, <1>13, <1>14
<1>. QED
  BY <1>3, <1>7, <1>8, <1>15 DEF f, F

\* An object of rooted trees is one.
LEMMA ObjectOfIsRooted ==
  ASSUME NEW ms \in Seq(Pairs), DistinctKeys(ms)
  PROVE  ObjectOf(ms) \in Rooted
<1>1. /\ KeySteps(ms) \in SUBSET StepSet /\ ByKey(ms) \in [KeySteps(ms) -> Rooted]
      /\ ObjectOf(ms) = Hung(EmptyObject[<<>>], ByKey(ms))
  BY ObjectIsHung
<1>2. IsFiniteSet(KeySteps(ms))
  <2>. DEFINE g == [i \in 1 .. Len(ms) |-> Key(ms[i][1])]
  <2>1. {g[i] : i \in 1 .. Len(ms)} = KeySteps(ms)
    BY DEF KeySteps
  <2>2. IsFiniteSet(1 .. Len(ms))
    <3>1. 1 \in Int /\ Len(ms) \in Int
      OBVIOUS
    <3>. QED
      BY <3>1, FS_Interval
  <2>3. DOMAIN g = 1 .. Len(ms)
    OBVIOUS
  <2>. HIDE DEF g
  <2>. QED
    BY <2>1, <2>2, <2>3, ImageIsFinite
<1>. DEFINE F == KeySteps(ms)
            f == ByKey(ms)
            root == EmptyObject[<<>>]
<1>3. F \in SUBSET StepSet /\ IsFiniteSet(F) /\ f \in [F -> Rooted] /\ root \in Labels
  BY <1>1, <1>2, EmptyLabels
<1>. HIDE DEF F, f, root
<1>4. Hung(root, f) \in Rooted
  BY <1>3, HungIsRooted
<1>. QED
  BY <1>1, <1>4 DEF F, f, root

\* The keys of an object are those of its members.
LEMMA KeysOfObject ==
  ASSUME NEW ms \in Seq(Pairs), DistinctKeys(ms), NEW k \in Text
  PROVE  HasKey(ObjectOf(ms), k) <=> \E i \in 1 .. Len(ms) : ms[i][1] = k
<1>1. /\ KeySteps(ms) \in SUBSET StepSet /\ ByKey(ms) \in [KeySteps(ms) -> Rooted]
      /\ \A s : s \in KeySteps(ms) <=> \E i \in 1 .. Len(ms) : s = Key(ms[i][1])
      /\ ObjectOf(ms) = Hung(EmptyObject[<<>>], ByKey(ms))
  BY ObjectIsHung
<1>2. Key(k) \in StepSet /\ \A l : Key(l) = Key(k) => l = k
  BY StepTypes DEF Key
<1>3. <<Key(k)>> \in DOMAIN Hung(EmptyObject[<<>>], ByKey(ms)) <=> Key(k) \in KeySteps(ms)
  <2>. DEFINE F == KeySteps(ms)
              f == ByKey(ms)
              root == EmptyObject[<<>>]
              s == Key(k)
  <2>1. F \in SUBSET StepSet /\ f \in [F -> Rooted] /\ s \in StepSet
    BY <1>1, <1>2
  <2>. HIDE DEF F, f, root, s
  <2>2. <<s>> \in DOMAIN Hung(root, f) <=> s \in F
    BY <2>1, HungSteps
  <2>. QED
    BY <2>2 DEF F, f, root, s
<1>. QED
  BY <1>1, <1>2, <1>3 DEF HasKey

\* A member with a new key makes the object of one more member.
LEMMA PutOnObject ==
  ASSUME NEW ms \in Seq(Pairs), DistinctKeys(ms), NEW k \in Text, NEW v \in Rooted,
         \A i \in 1 .. Len(ms) : ms[i][1] # k
  PROVE  /\ Append(ms, <<k, v>>) \in Seq(Pairs) /\ DistinctKeys(Append(ms, <<k, v>>))
         /\ PutMember(ObjectOf(ms), k, v) = ObjectOf(Append(ms, <<k, v>>))
<1>. DEFINE n == Len(ms)
            ws == Append(ms, <<k, v>>)
            g == Plus(ByKey(ms), Key(k), v)
<1>1. /\ KeySteps(ms) \in SUBSET StepSet /\ ByKey(ms) \in [KeySteps(ms) -> Rooted]
      /\ \A s : s \in KeySteps(ms) <=> \E i \in 1 .. Len(ms) : s = Key(ms[i][1])
      /\ \A i \in 1 .. Len(ms) : ByKey(ms)[Key(ms[i][1])] = ms[i][2]
      /\ ObjectOf(ms) = Hung(EmptyObject[<<>>], ByKey(ms))
  BY ObjectIsHung
<1>2. /\ ws \in Seq(Pairs) /\ Len(ws) = n + 1 /\ ws[n + 1] = <<k, v>> /\ n \in Nat
      /\ \A i \in 1 .. n : ws[i] = ms[i]
      /\ DOMAIN ws = 1 .. n + 1 /\ DOMAIN ms = 1 .. n
  <2>1. <<k, v>> \in Pairs
    BY DEF Pairs
  <2>. QED
    BY <2>1, AppendProperties
<1>. HIDE DEF ws
<1>3. DistinctKeys(ws)
  <2>1. ASSUME NEW i \in DOMAIN ws, NEW j \in DOMAIN ws, ws[i][1] = ws[j][1] PROVE i = j
    <3>1. (i \in 1 .. n \/ i = n + 1) /\ (j \in 1 .. n \/ j = n + 1)
      BY <1>2
    <3>2. ws[n + 1][1] = k
      BY <1>2
    <3>. QED
      BY <1>2, <2>1, <3>1, <3>2 DEF DistinctKeys
  <2>. QED
    BY <2>1 DEF DistinctKeys
<1>4. /\ KeySteps(ws) \in SUBSET StepSet /\ ByKey(ws) \in [KeySteps(ws) -> Rooted]
      /\ \A s : s \in KeySteps(ws) <=> \E i \in 1 .. Len(ws) : s = Key(ws[i][1])
      /\ \A i \in 1 .. Len(ws) : ByKey(ws)[Key(ws[i][1])] = ws[i][2]
      /\ ObjectOf(ws) = Hung(EmptyObject[<<>>], ByKey(ws))
  BY <1>2, <1>3, ObjectIsHung
<1>5. Key(k) \in StepSet /\ Key(k) \notin KeySteps(ms)
  <2>1. Key(k) \in StepSet /\ \A l : Key(l) = Key(k) => l = k
    BY StepTypes DEF Key
  <2>. QED
    BY <1>1, <2>1
<1>6. PutMember(ObjectOf(ms), k, v) = Hung(EmptyObject[<<>>], g)
  BY <1>1, <1>5, PutHung DEF PutMember
<1>7. KeySteps(ws) = KeySteps(ms) \cup {Key(k)}
  <2>1. ASSUME NEW s PROVE s \in KeySteps(ws) <=> s \in KeySteps(ms) \/ s = Key(k)
    <3>1. s \in KeySteps(ws) <=> \E i \in 1 .. n + 1 : s = Key(ws[i][1])
      BY <1>2, <1>4
    <3>2. (\E i \in 1 .. n + 1 : s = Key(ws[i][1]))
          <=> s = Key(ws[n + 1][1]) \/ \E i \in 1 .. n : s = Key(ws[i][1])
      <4>1. \A i : i \in 1 .. n + 1 <=> i = n + 1 \/ i \in 1 .. n
        BY <1>2
      <4>. QED
        BY <4>1
    <3>3. ws[n + 1][1] = k
      BY <1>2
    <3>. QED
      BY <1>1, <1>2, <3>1, <3>2, <3>3
  <2>. QED
    BY <2>1
<1>8. ASSUME NEW s \in KeySteps(ws) PROVE ByKey(ws)[s] = g[s]
  <2>1. CASE s = Key(k)
    <3>1. ws[n + 1][1] = k /\ ws[n + 1][2] = v /\ n + 1 \in 1 .. Len(ws)
      BY <1>2
    <3>2. ByKey(ws)[Key(k)] = v
      BY <1>4, <3>1
    <3>. QED
      BY <1>1, <1>7, <2>1, <3>2 DEF Plus
  <2>2. CASE s # Key(k)
    <3>1. PICK i \in 1 .. n : s = Key(ms[i][1])
      BY <1>1, <1>7, <2>2
    <3>2. i \in 1 .. Len(ws)
      BY <1>2
    <3>3. ByKey(ws)[s] = ms[i][2] /\ ByKey(ms)[s] = ms[i][2]
      BY <1>1, <1>2, <1>4, <3>1, <3>2
    <3>4. g[s] = ByKey(ms)[s]
      BY <1>1, <1>7, <2>2 DEF Plus
    <3>. QED
      BY <3>3, <3>4
  <2>. QED
    BY <2>1, <2>2
<1>9. ByKey(ws) = g
  <2>1. ByKey(ws) = [s \in KeySteps(ws) |-> ByKey(ws)[s]]
    BY <1>4
  <2>. HIDE DEF g
  <2>2. g = [s \in KeySteps(ws) |-> g[s]]
    BY <1>1, <1>7 DEF g, Plus
  <2>. QED
    BY <1>8, <2>1, <2>2
<1>. QED
  BY <1>2, <1>3, <1>4, <1>6, <1>9 DEF ws

\* No elements and no members make the empty containers.
LEMMA EmptyContainers ==
  /\ ArrayOf(<<>>) = EmptyArray /\ ObjectOf(<<>>) = EmptyObject
  /\ <<>> \in Seq(Rooted) /\ <<>> \in Seq(Pairs) /\ DistinctKeys(<<>>)
<1>1. DOMAIN <<>> = {} /\ <<>> \in Seq(Rooted) /\ <<>> \in Seq(Pairs)
  BY EmptySeq
<1>3. ArrayOf(<<>>) = EmptyArray
  <2>1. UNION {Below(Index(i - 1), <<>>[i]) : i \in DOMAIN <<>>} = {}
    BY <1>1
  <2>2. ArrayOf(<<>>) = [p \in {<<>>} |-> EmptyArray[<<>>]]
    BY <2>1 DEF ArrayOf
  <2>. QED
    BY <2>2 DEF EmptyArray, Leaf
<1>4. ObjectOf(<<>>) = EmptyObject
  <2>1. UNION {Below(Key(<<>>[i][1]), <<>>[i][2]) : i \in DOMAIN <<>>} = {}
    BY <1>1
  <2>2. ObjectOf(<<>>) = [p \in {<<>>} |-> EmptyObject[<<>>]]
    BY <2>1 DEF ObjectOf
  <2>. QED
    BY <2>2 DEF EmptyObject, Leaf
<1>. QED
  BY <1>1, <1>3, <1>4 DEF DistinctKeys

-----------------------------------------------------------------------------
(* The recursion of Meaning is well-founded. *)

\* The four sorts of things a piece may be read as.
LEMMA SetsOfSorts ==
  /\ SetsOf("value") = SUBSET Rooted /\ SetsOf("member") = SUBSET Pairs
  /\ SetsOf("values") = SUBSET Seq(Rooted) /\ SetsOf("members") = SUBSET Seq(Pairs)
  /\ Sorts = {"value", "member", "values", "members"}
  BY DEF SetsOf, Sorts

\* Ranks are bounded by the number of tokens.
LEMMA RankIsNat ==
  ASSUME NEW w, Len(w) \in Nat, NEW x \in Pieces(w)
  PROVE  Rank(x) \in 0 .. 3 * Len(w) + 2
<1>1. x[1] \in Sorts /\ x[2] \in 0 .. Len(w) /\ x[3] \in 0 .. Len(w)
  BY DEF Pieces
<1>2. Height(x[1]) \in {0, 1, 2}
  BY DEF Height
<1>. QED
  BY <1>1, <1>2 DEF Rank

\* The pieces that a piece is made of are of lower rank: the recursion of the grammar ends.
LEMMA LowerPieces ==
  ASSUME NEW w, Len(w) \in Nat, NEW i \in 0 .. Len(w), NEW j \in 0 .. Len(w)
  PROVE  /\ \A list \in {"values", "members"} :
              /\ i + 2 <= j => <<list, i + 1, j - 1>> \in Lower(w, <<"value", i, j>>)
              /\ i + 1 < j - 1 => <<list, i + 1, (j - 1) - 1>> \in Lower(w, <<"value", i, j>>)
              /\ \A k \in i .. j - 1 :
                   /\ <<"value", k, j>> \in Lower(w, <<list, i, j>>)
                   /\ <<"member", k, j>> \in Lower(w, <<list, i, j>>)
                   /\ k # i => <<list, i, k - 1>> \in Lower(w, <<list, i, j>>)
         /\ i + 2 < j => <<"value", i + 2, j>> \in Lower(w, <<"member", i, j>>)
<1>1. \A sort \in Sorts : \A a, b \in 0 .. Len(w) : <<sort, a, b>> \in Pieces(w)
  BY DEF Pieces
<1>2. \A a, b \in 0 .. Len(w) : a <= b =>
        /\ Rank(<<"value", a, b>>) = 3 * (b - a)
        /\ Rank(<<"member", a, b>>) = 3 * (b - a) + 1
        /\ \A list \in {"values", "members"} : Rank(<<list, a, b>>) = 3 * (b - a) + 2
  BY DEF Rank, Height
<1>3. \A sort, s \in Sorts : \A a, b, c, d \in 0 .. Len(w) :
         Rank(<<s, c, d>>) < Rank(<<sort, a, b>>) => <<s, c, d>> \in Lower(w, <<sort, a, b>>)
  BY <1>1 DEF Lower
<1>4. ASSUME i + 2 <= j, NEW list \in {"values", "members"}
      PROVE  <<list, i + 1, j - 1>> \in Lower(w, <<"value", i, j>>)
  <2>1. /\ i + 1 \in 0 .. Len(w) /\ j - 1 \in 0 .. Len(w) /\ i + 1 <= j - 1 /\ i <= j
        /\ 3 * ((j - 1) - (i + 1)) + 2 < 3 * (j - i)
    BY <1>4
  <2>2. Rank(<<list, i + 1, j - 1>>) < Rank(<<"value", i, j>>)
    BY <1>2, <2>1
  <2>. QED
    BY <1>3, <2>1, <2>2 DEF Sorts
<1>5. ASSUME i + 1 < j - 1, NEW list \in {"values", "members"}
      PROVE  <<list, i + 1, (j - 1) - 1>> \in Lower(w, <<"value", i, j>>)
  <2>1. /\ i + 1 \in 0 .. Len(w) /\ (j - 1) - 1 \in 0 .. Len(w)
        /\ i + 1 <= (j - 1) - 1 /\ i <= j
        /\ 3 * (((j - 1) - 1) - (i + 1)) + 2 < 3 * (j - i)
    BY <1>5
  <2>2. Rank(<<list, i + 1, (j - 1) - 1>>) < Rank(<<"value", i, j>>)
    BY <1>2, <2>1
  <2>. QED
    BY <1>3, <2>1, <2>2 DEF Sorts
<1>6. ASSUME NEW k \in i .. j - 1, NEW list \in {"values", "members"}
      PROVE  /\ <<"value", k, j>> \in Lower(w, <<list, i, j>>)
             /\ <<"member", k, j>> \in Lower(w, <<list, i, j>>)
             /\ k # i => <<list, i, k - 1>> \in Lower(w, <<list, i, j>>)
  <2>1. /\ k \in 0 .. Len(w) /\ k <= j /\ i <= j
        /\ 3 * (j - k) + 1 < 3 * (j - i) + 2
        /\ 3 * (j - k) < 3 * (j - i) + 2
    BY <1>6
  <2>2. k # i => /\ k - 1 \in 0 .. Len(w) /\ i <= k - 1
                 /\ 3 * ((k - 1) - i) + 2 < 3 * (j - i) + 2
    BY <1>6
  <2>3. Rank(<<"value", k, j>>) < Rank(<<list, i, j>>)
    BY <1>2, <2>1
  <2>4. Rank(<<"member", k, j>>) < Rank(<<list, i, j>>)
    BY <1>2, <2>1
  <2>5. k # i => Rank(<<list, i, k - 1>>) < Rank(<<list, i, j>>)
    BY <1>2, <2>1, <2>2
  <2>. QED
    BY <1>3, <2>1, <2>2, <2>3, <2>4, <2>5 DEF Sorts
<1>7. ASSUME i + 2 < j PROVE <<"value", i + 2, j>> \in Lower(w, <<"member", i, j>>)
  <2>1. i + 2 \in 0 .. Len(w) /\ i + 2 <= j /\ i <= j /\ 3 * (j - (i + 2)) < 3 * (j - i) + 1
    BY <1>7
  <2>2. Rank(<<"value", i + 2, j>>) < Rank(<<"member", i, j>>)
    BY <1>2, <2>1
  <2>. QED
    BY <1>3, <2>1, <2>2 DEF Sorts
<1>. QED
  BY <1>4, <1>5, <1>6, <1>7

\* Lists with one more element.
LEMMA InExtended ==
  ASSUME NEW E, NEW ls \in SUBSET Seq(E), NEW es \in SUBSET E, NEW x \in Extended(ls, es)
  PROVE  x \in Seq(E) /\ \E l \in ls : \E e \in es : x = Append(l, e)
<1>1. PICK l \in ls, e \in es : x = Append(l, e)
  BY DEF Extended
<1>2. l \in Seq(E) /\ e \in E
  OBVIOUS
<1>. QED
  BY <1>1, <1>2, AppendProperties

\* What a list is made of: the list before its last element, and that.
LEMMA InLists ==
  ASSUME NEW w, NEW m, NEW list, NEW element, NEW i, NEW j, NEW x
  PROVE  x \in Lists(w, m, list, element, i, j) <=>
           \E k \in Starts(w, i, j) : x \in Extended(Listed(w, m, list, i, k), m[<<element, k, j>>])
  BY DEF Lists

\* What a piece denotes depends only on what the pieces of lower rank denote.
LEMMA DenotesLooksBelow ==
  ASSUME NEW w, Len(w) \in Nat, NEW o, NEW sort \in Sorts,
         NEW i \in 0 .. Len(w), NEW j \in 0 .. Len(w), NEW m, NEW n,
         \A y \in Lower(w, <<sort, i, j>>) : m[y] = n[y]
  PROVE  Denotes(w, o, m, sort, i, j) = Denotes(w, o, n, sort, i, j)
<1>1. CASE sort = "value"
  <2>1. ASSUME NEW list \in {"values", "members"}, i + 2 <= j
        PROVE  Enclosed(w, o, m, list, i + 1, j - 1) = Enclosed(w, o, n, list, i + 1, j - 1)
    <3>1. m[<<list, i + 1, j - 1>>] = n[<<list, i + 1, j - 1>>]
      BY <1>1, <2>1, LowerPieces, SetsOfSorts
    <3>2. i + 1 < j - 1 => m[<<list, i + 1, (j - 1) - 1>>] = n[<<list, i + 1, (j - 1) - 1>>]
      BY <1>1, <2>1, LowerPieces, SetsOfSorts
    <3>. QED
      BY <3>1, <3>2 DEF Enclosed
  <2>2. ValuesOf(w, o, m, i, j) = ValuesOf(w, o, n, i, j)
    <3>1. CASE i + 2 <= j
      BY <2>1, <3>1 DEF ValuesOf
    <3>2. CASE ~(i + 2 <= j)
      BY <3>2 DEF ValuesOf, Brackets
    <3>. QED
      BY <3>1, <3>2
  <2>. QED
    BY <1>1, <2>2 DEF Denotes
<1>2. CASE sort = "member"
  <2>1. i + 2 < j => m[<<"value", i + 2, j>>] = n[<<"value", i + 2, j>>]
    BY <1>2, LowerPieces, SetsOfSorts
  <2>. QED
    BY <1>2, <2>1 DEF Denotes, MembersOfPiece
<1>3. ASSUME NEW list \in {"values", "members"}, NEW element \in {"value", "member"}, sort = list
      PROVE  Lists(w, m, list, element, i, j) = Lists(w, n, list, element, i, j)
  <2>1. ASSUME NEW k \in Starts(w, i, j)
        PROVE  /\ Listed(w, m, list, i, k) = Listed(w, n, list, i, k)
               /\ m[<<element, k, j>>] = n[<<element, k, j>>]
    <3>1. k \in i .. j - 1
      BY DEF Starts
    <3>2. /\ m[<<element, k, j>>] = n[<<element, k, j>>]
          /\ k # i => m[<<list, i, k - 1>>] = n[<<list, i, k - 1>>]
      BY <1>3, <3>1, LowerPieces, SetsOfSorts
    <3>. QED
      BY <3>2 DEF Listed
  <2>2. {Extended(Listed(w, m, list, i, k), m[<<element, k, j>>]) : k \in Starts(w, i, j)}
        = {Extended(Listed(w, n, list, i, k), n[<<element, k, j>>]) : k \in Starts(w, i, j)}
    BY <2>1
  <2>. QED
    BY <2>2 DEF Lists
<1>. QED
  BY <1>1, <1>2, <1>3 DEF Denotes, Sorts

\* What a piece denotes is of its sort, if it is so for those of lower rank.
LEMMA DenotesIsTyped ==
  ASSUME NEW T, \A t \in T : t.means \in Text, NEW w \in Seq(T), NEW o, NEW sort \in Sorts,
         NEW i \in 0 .. Len(w), NEW j \in 0 .. Len(w), NEW m,
         \A s, a, b : <<s, a, b>> \in Lower(w, <<sort, i, j>>) => m[<<s, a, b>>] \in SetsOf(s)
  PROVE  Denotes(w, o, m, sort, i, j) \in SetsOf(sort)
<1>0. Len(w) \in Nat /\ \A k \in 1 .. Len(w) : w[k] \in T /\ w[k].means \in Text
  OBVIOUS
<1>1. CASE sort = "value"
  <2>1. CASE j = i + 1
    <3>1. ASSUME Readable(w[j], o) PROVE Leaf(Label(w[j].kind, w[j].means)) \in Rooted
      <4>1. w[j].kind \in ScalarKinds /\ w[j].means \in Text
        BY <1>0, <2>1, <3>1 DEF Readable
      <4>2. \A k \in ScalarKinds : \A c \in Text : Label(k, c) \in Labels
        BY DEF Label, Labels
      <4>. QED
        BY <4>1, <4>2, LeafIsRooted
    <3>2. Denotes(w, o, m, sort, i, j)
          = IF Readable(w[j], o) THEN {Leaf(Label(w[j].kind, w[j].means))} ELSE {}
      BY <1>1, <2>1 DEF Denotes, ValuesOf, Brackets
    <3>3. Denotes(w, o, m, sort, i, j) \in SUBSET Rooted
      <4>. HIDE DEF Leaf, Label
      <4>. QED
        BY <3>1, <3>2
    <3>. QED
      BY <1>1, <3>3, SetsOfSorts
  <2>2. ASSUME NEW list \in {"values", "members"}, i + 2 <= j,
               NEW es \in Enclosed(w, o, m, list, i + 1, j - 1)
        PROVE  IF list = "values" THEN es \in Seq(Rooted) ELSE es \in Seq(Pairs)
    <3>0. /\ <<list, i + 1, j - 1>> \in Lower(w, <<sort, i, j>>)
          /\ i + 1 < j - 1 => <<list, i + 1, (j - 1) - 1>> \in Lower(w, <<sort, i, j>>)
      BY <1>0, <1>1, <2>2, LowerPieces
    <3>1. m[<<list, i + 1, j - 1>>] \in SetsOf(list)
      BY <3>0
    <3>2. i + 1 < j - 1 => m[<<list, i + 1, (j - 1) - 1>>] \in SetsOf(list)
      BY <3>0
    <3>3. <<>> \in Seq(Rooted) /\ <<>> \in Seq(Pairs)
      BY EmptySeq
    <3>4. \/ es = <<>>
          \/ es \in m[<<list, i + 1, j - 1>>]
          \/ i + 1 < j - 1 /\ es \in m[<<list, i + 1, (j - 1) - 1>>]
      BY <2>2, Zenon DEF Enclosed
    <3>5. es = <<>> \/ \E X \in {SetsOf(list)} : \E Y \in X : es \in Y
      BY <3>1, <3>2, <3>4
    <3>6. CASE list = "values"
      BY <3>3, <3>5, <3>6, SetsOfSorts
    <3>7. CASE list = "members"
      BY <3>3, <3>5, <3>7, SetsOfSorts
    <3>. QED
      BY <2>2, <3>6, <3>7
  <2>3. \A vs \in Seq(Rooted) : ArrayOf(vs) \in Rooted
    BY ArrayOfIsRooted
  <2>4. \A ms \in Seq(Pairs) : DistinctKeys(ms) => ObjectOf(ms) \in Rooted
    BY ObjectOfIsRooted
  <2>5. CASE Brackets(w, i, j, "array_begin", "array_end") /\ j # i + 1
    <3>1. Denotes(w, o, m, sort, i, j)
             = {ArrayOf(vs) : vs \in Enclosed(w, o, m, "values", i + 1, j - 1)}
      BY <1>1, <2>5 DEF Denotes, ValuesOf, Brackets
    <3>2. i + 2 <= j
      BY <2>5 DEF Brackets
    <3>3. \A vs \in Enclosed(w, o, m, "values", i + 1, j - 1) : vs \in Seq(Rooted)
      BY <2>2, <3>2
    <3>. QED
      BY <1>1, <2>3, <3>1, <3>3, SetsOfSorts
  <2>6. CASE Brackets(w, i, j, "object_begin", "object_end") /\ j # i + 1
    <3>1. Denotes(w, o, m, sort, i, j) = {ObjectOf(ms) :
             ms \in {ms \in Enclosed(w, o, m, "members", i + 1, j - 1) : DistinctKeys(ms)}}
      BY <1>1, <2>6 DEF Denotes, ValuesOf, Brackets
    <3>2. i + 2 <= j
      BY <2>6 DEF Brackets
    <3>3. \A ms \in Enclosed(w, o, m, "members", i + 1, j - 1) : ms \in Seq(Pairs)
      BY <2>2, <3>2
    <3>. QED
      BY <1>1, <2>4, <3>1, <3>3, SetsOfSorts
  <2>7. CASE /\ j # i + 1 /\ ~Brackets(w, i, j, "array_begin", "array_end")
             /\ ~Brackets(w, i, j, "object_begin", "object_end")
    BY <1>1, <2>7, SetsOfSorts DEF Denotes, ValuesOf
  <2>. QED
    BY <2>1, <2>5, <2>6, <2>7
<1>2. CASE sort = "member"
  <2>1. i + 2 < j => m[<<"value", i + 2, j>>] \in SUBSET Rooted
    <3>1. i + 2 < j => <<"value", i + 2, j>> \in Lower(w, <<sort, i, j>>)
      BY <1>0, <1>2, LowerPieces
    <3>2. i + 2 < j => m[<<"value", i + 2, j>>] \in SetsOf("value")
      BY <3>1
    <3>. QED
      BY <3>2, SetsOfSorts
  <2>2. i + 2 < j => w[i + 1].means \in Text
    BY <1>0
  <2>3. ASSUME NEW x \in MembersOfPiece(w, o, m, i, j) PROVE x \in Pairs
    <3>1. i + 2 < j /\ \E v \in m[<<"value", i + 2, j>>] : x = <<w[i + 1].means, v>>
      BY <2>3 DEF MembersOfPiece
    <3>2. PICK v \in m[<<"value", i + 2, j>>] : x = <<w[i + 1].means, v>>
      BY <3>1
    <3>. QED
      BY <2>1, <2>2, <3>1, <3>2 DEF Pairs
  <2>. QED
    BY <1>2, <2>3, SetsOfSorts DEF Denotes
<1>3. ASSUME NEW list \in {"values", "members"}, NEW element \in {"value", "member"}, sort = list,
             NEW E, SetsOf(list) = SUBSET Seq(E), SetsOf(element) = SUBSET E
      PROVE  Lists(w, m, list, element, i, j) \in SetsOf(list)
  <2>a. SUFFICES ASSUME NEW x \in Lists(w, m, list, element, i, j) PROVE x \in Seq(E)
    BY <1>3
  <2>0. PICK k \in Starts(w, i, j) :
          x \in Extended(Listed(w, m, list, i, k), m[<<element, k, j>>])
    BY InLists
  <2>1. k \in i .. j - 1
    BY DEF Starts
  <2>2. m[<<element, k, j>>] \in SUBSET E
    <3>1. <<element, k, j>> \in Lower(w, <<sort, i, j>>)
      BY <1>0, <1>3, <2>1, LowerPieces
    <3>2. m[<<element, k, j>>] \in SetsOf(element)
      BY <3>1
    <3>. QED
      BY <1>3, <3>2
  <2>3. Listed(w, m, list, i, k) \in SUBSET Seq(E)
    <3>1. k # i => <<list, i, k - 1>> \in Lower(w, <<sort, i, j>>)
      BY <1>0, <1>3, <2>1, LowerPieces
    <3>2. k # i => m[<<list, i, k - 1>>] \in SetsOf(list)
      BY <3>1
    <3>3. <<>> \in Seq(E)
      BY EmptySeq
    <3>. QED
      BY <1>3, <3>2, <3>3 DEF Listed
  <2>. QED
    BY <2>0, <2>2, <2>3, InExtended
<1>. QED
  BY <1>1, <1>2, <1>3, SetsOfSorts DEF Denotes

\* Meaning is what its definition says, and every piece denotes things of its sort.
LEMMA MeaningOfPieces ==
  ASSUME NEW T, \A t \in T : t.means \in Text, NEW w \in Seq(T), NEW o
  PROVE  \A sort \in Sorts : \A i, j \in 0 .. Len(w) :
           /\ Meaning(w, o)[<<sort, i, j>>] = Denotes(w, o, Meaning(w, o), sort, i, j)
           /\ Meaning(w, o)[<<sort, i, j>>] \in SetsOf(sort)
<1>. DEFINE D == Pieces(w)
            R == UNION {SetsOf(sort) : sort \in Sorts}
            Body(x, f) == Denotes(w, o, f, x[1], x[2], x[3])
            Typed(x, f) == IF Body(x, f) \in SetsOf(x[1]) THEN Body(x, f) ELSE {}
            h == [p \in D \X [D -> R] |-> Typed(p[1], p[2])]
            rank == [x \in D |-> Rank(x)]
            Defines(m) == m = [x \in D |-> Denotes(w, o, m, x[1], x[2], x[3])]
<1>1. Len(w) \in Nat
  OBVIOUS
<1>2. \A x \in D : /\ x[1] \in Sorts /\ x[2] \in 0 .. Len(w) /\ x[3] \in 0 .. Len(w)
                   /\ x = <<x[1], x[2], x[3]>>
  BY DEF Pieces
<1>3. {} \in R /\ \A sort \in Sorts : SetsOf(sort) \subseteq R /\ {} \in SetsOf(sort)
  BY SetsOfSorts
<1>4. rank \in [D -> 0 .. 3 * Len(w) + 2] /\ 3 * Len(w) + 2 \in Nat
  BY <1>1, RankIsNat
<1>5. ASSUME NEW x \in D, NEW f, NEW g, \A y \in D : Rank(y) < Rank(x) => f[y] = g[y]
      PROVE  Body(x, f) = Body(x, g)
  <2>1. \A y \in Lower(w, <<x[1], x[2], x[3]>>) : f[y] = g[y]
    BY <1>2, <1>5 DEF Lower
  <2>. QED
    BY <1>1, <1>2, <2>1, DenotesLooksBelow
<1>. HIDE DEF Body, D, R
<1>6. \A x \in D : \A f : Typed(x, f) \in SetsOf(x[1])
  BY <1>2, <1>3
<1>7. h \in [D \X [D -> R] -> R]
  <2>1. \A x \in D : \A f : Typed(x, f) \in R
    BY <1>2, <1>3, <1>6
  <2>. HIDE DEF Typed
  <2>. QED
    BY <2>1
<1>8. \A x \in D : \A f \in [D -> R] : h[<<x, f>>] = Typed(x, f)
  <2>. HIDE DEF Typed
  <2>. QED
    OBVIOUS
<1>9. LooksBelow(D, R, rank, h)
  <2>1. ASSUME NEW x \in D, NEW f \in [D -> R], NEW g \in [D -> R],
               \A y \in D : rank[y] < rank[x] => f[y] = g[y]
        PROVE  h[<<x, f>>] = h[<<x, g>>]
    <3>1. \A y \in D : Rank(y) < Rank(x) => f[y] = g[y]
      BY <2>1
    <3>2. Typed(x, f) = Typed(x, g)
      BY <1>5, <3>1
    <3>. QED
      BY <1>8, <3>2
  <2>. HIDE DEF h, rank
  <2>. QED
    BY <2>1 DEF LooksBelow
<1>10. PICK f \in [D -> R] : Solves(f, D, h)
  <2>. HIDE DEF h, rank
  <2>. QED
    BY <1>3, <1>4, <1>7, <1>9, RecursionByRank
<1>11. \A x \in D : f[x] = Typed(x, f) /\ f[x] \in SetsOf(x[1])
  <2>. HIDE DEF h, Typed
  <2>1. ASSUME NEW x \in D PROVE f[x] = Typed(x, f)
    <3>1. f[x] = h[<<x, f>>]
      BY <1>10 DEF Solves
    <3>2. h[<<x, f>>] = Typed(x, f)
      BY <1>8
    <3>. QED
      BY <3>1, <3>2
  <2>. QED
    BY <1>6, <2>1
<1>12. ASSUME NEW x \in D, NEW m,
              \A y \in D : Rank(y) < Rank(x) => m[y] \in SetsOf(y[1])
       PROVE  Body(x, m) \in SetsOf(x[1])
  <2>1. ASSUME NEW s, NEW a, NEW b, <<s, a, b>> \in Lower(w, <<x[1], x[2], x[3]>>)
        PROVE  m[<<s, a, b>>] \in SetsOf(s)
    <3>1. <<s, a, b>> \in D /\ Rank(<<s, a, b>>) < Rank(x) /\ <<s, a, b>>[1] = s
      BY <1>2, <2>1 DEF Lower, D
    <3>. QED
      BY <1>12, <3>1
  <2>. QED
    BY <1>2, <2>1, DenotesIsTyped DEF Body
<1>13. Defines(f)
  <2>1. ASSUME NEW x \in D PROVE f[x] = Body(x, f)
    BY <1>11, <1>12
  <2>2. f = [x \in D |-> f[x]]
    OBVIOUS
  <2>. QED
    BY <2>1, <2>2 DEF Body
<1>14. Meaning(w, o) = CHOOSE m : Defines(m)
  BY DEF Meaning, D
<1>15. Defines(Meaning(w, o))
  <2>. HIDE DEF Defines
  <2>. QED
    BY <1>13, <1>14
<1>. DEFINE m == Meaning(w, o)
<1>16. \A x \in D : m[x] = Body(x, m)
  <2>. HIDE DEF m
  <2>1. m = [x \in D |-> Denotes(w, o, m, x[1], x[2], x[3])]
    BY <1>15 DEF m
  <2>. QED
    BY <2>1 DEF Body
<1>17. \A x \in D : m[x] \in SetsOf(x[1])
  <2>. DEFINE B == {x \in D : m[x] \in SetsOf(x[1])}
              S == {n \in Nat : \A x \in D : Rank(x) = n => x \in B}
  <2>1. ASSUME NEW n \in Nat, \A k \in Nat : k < n => k \in S PROVE n \in S
    <3>1. SUFFICES ASSUME NEW x \in D, Rank(x) = n PROVE x \in B
      BY <2>1
    <3>2. ASSUME NEW y \in D, Rank(y) < Rank(x) PROVE m[y] \in SetsOf(y[1])
      <4>1. Rank(y) \in Nat
        BY <1>1, RankIsNat DEF D
      <4>. QED
        BY <2>1, <3>1, <3>2, <4>1
    <3>. HIDE DEF m
    <3>3. Body(x, m) \in SetsOf(x[1])
      BY <1>12, <3>2
    <3>. QED
      BY <1>16, <3>3
  <2>2. Nat \subseteq S
    <3>. HIDE DEF S
    <3>. QED
      BY <2>1, InductionBelow
  <2>3. ASSUME NEW x \in D PROVE x \in B
    <3>1. Rank(x) \in Nat
      BY <1>1, RankIsNat DEF D
    <3>. QED
      BY <2>2, <3>1
  <2>. QED
    BY <2>3
<1>. QED
  <2>1. ASSUME NEW sort \in Sorts, NEW i \in 0 .. Len(w), NEW j \in 0 .. Len(w)
        PROVE  /\ m[<<sort, i, j>>] = Denotes(w, o, m, sort, i, j)
               /\ m[<<sort, i, j>>] \in SetsOf(sort)
    <3>. DEFINE x == <<sort, i, j>>
    <3>1. x \in D /\ x[1] = sort /\ Body(x, m) = Denotes(w, o, m, sort, i, j)
      BY DEF D, Pieces, Body
    <3>. HIDE DEF m, x
    <3>2. m[x] = Denotes(w, o, m, sort, i, j) /\ m[x] \in SetsOf(sort)
      BY <1>16, <1>17, <3>1
    <3>. QED
      BY <3>2 DEF x
  <2>. QED
    BY <2>1

-----------------------------------------------------------------------------
(* The reader. *)

\* The containers that are open, and the states of the reader.
Levels == [fn : ContainerKinds, trailing : BOOLEAN, key : Text, out : Trees]
Inside == {"item", "item_end", "key", "colon", "member_end"}
ReaderSites == Inside \cup {"value", "end", "error"}
ReaderStates ==
    {c \in [at : ReaderSites, stack : Seq(Levels), val : Trees] :
        c.at \in Inside => c.stack # <<>>}

\* Pushing and popping.
LEMMA PushedLevel ==
  ASSUME NEW s \in Seq(Levels), NEW f \in Levels
  PROVE  /\ Append(s, f) \in Seq(Levels) /\ Append(s, f) # <<>> /\ Len(Append(s, f)) = Len(s) + 1
         /\ Last(Append(s, f)) = f /\ Front(Append(s, f)) = s
<1>. DEFINE a == Append(s, f)
<1>1. /\ a \in Seq(Levels) /\ a # <<>> /\ Len(a) = Len(s) + 1 /\ a[Len(s) + 1] = f
      /\ \A i \in 1 .. Len(s) : a[i] = s[i]
  BY AppendProperties
<1>. HIDE DEF a
<1>2. Last(a) = f
  BY <1>1 DEF Last
<1>3. Front(a) = s
  <2>1. Front(a) = SubSeq(a, 1, Len(a) - 1)
    BY DEF Front
  <2>2. /\ SubSeq(a, 1, Len(a) - 1) \in Seq(Levels)
        /\ a = Append(SubSeq(a, 1, Len(a) - 1), a[Len(a)])
    BY <1>1, LastOfSequence
  <2>3. Len(SubSeq(a, 1, Len(a) - 1)) = Len(s)
        /\ \A i \in 1 .. Len(s) : SubSeq(a, 1, Len(a) - 1)[i] = s[i]
    BY <1>1
  <2>. QED
    BY <2>1, <2>2, <2>3, SeqEqual
<1>. QED
  BY <1>1, <1>2, <1>3 DEF a

\* The innermost of the open containers, and those around it.
LEMMA PoppedLevel ==
  ASSUME NEW s \in Seq(Levels), s # <<>>
  PROVE  /\ Front(s) \in Seq(Levels) /\ Last(s) \in Levels
         /\ s = Append(Front(s), Last(s))
  BY LastOfSequence DEF Front, Last

\* A container with one more element is one.
LEMMA GrownIsALevel ==
  ASSUME NEW f \in Levels, NEW v \in Trees
  PROVE  Grown(f, v) \in Levels
<1>1. f.out \in Trees /\ f.key \in Text
  BY DEF Levels
<1>2. PushBack(f.out, v) \in Trees /\ PutMember(f.out, f.key, v) \in Trees
  BY <1>1, BuildingTrees
<1>. QED
  BY <1>2 DEF Grown, Levels

\* What a separator and a key change of an open container.
LEMMA ChangedLevels ==
  ASSUME NEW f \in Levels
  PROVE  /\ Separated(f) \in Levels /\ Separated(f).fn = f.fn /\ Separated(f).out = f.out
         /\ Separated(f).key = f.key /\ Separated(f).trailing
         /\ \A k \in Text : /\ Named(f, k) \in Levels /\ Named(f, k).fn = f.fn
                           /\ Named(f, k).out = f.out /\ Named(f, k).key = k
                           /\ ~Named(f, k).trailing
  BY DEF Separated, Named, Levels

\* What a state of the reader is made of.
LEMMA ExpectsHas ==
  ASSUME NEW site, NEW s PROVE Expects(site, s).at = site /\ Expects(site, s).stack = s
  BY DEF Expects

\* The states of the reader inside a container.
LEMMA ExpectsTypes ==
  ASSUME NEW site \in Inside \cup {"value"}, NEW s \in Seq(Levels), s # <<>>
  PROVE  Expects(site, s) \in ReaderStates
  BY ConstantTrees DEF Expects, ReaderStates, ReaderSites, Inside

\* The reader after a value.
LEMMA AbsorbTypes ==
  ASSUME NEW s \in Seq(Levels), NEW v \in Trees
  PROVE  Absorb(s, v) \in ReaderStates
<1>1. CASE s = <<>>
  BY <1>1 DEF Absorb, Ended, ReaderStates, ReaderSites, Inside
<1>2. Failed \in ReaderStates
  BY EmptySeq, ConstantTrees DEF Failed, ReaderStates, ReaderSites, Inside
<1>3. CASE s # <<>>
  <2>. DEFINE a == Append(Front(s), Grown(Last(s), v))
  <2>1. a \in Seq(Levels) /\ a # <<>>
    BY <1>3, PoppedLevel, PushedLevel, GrownIsALevel
  <2>. HIDE DEF a
  <2>2. Expects("item_end", a) \in ReaderStates /\ Expects("member_end", a) \in ReaderStates
    BY <2>1, ExpectsTypes DEF Inside
  <2>. QED
    BY <1>2, <1>3, <2>2 DEF Absorb, a
<1>. QED
  BY <1>1, <1>3

\* The containers that have just been opened.
LEMMA OpeningTypes == Opening("array", EmptyArray) \in Levels
                        /\ Opening("object", EmptyObject) \in Levels
  BY ConstantTrees DEF Opening, Levels, ContainerKinds, Text

\* A scalar is a tree.
LEMMA ScalarIsRooted ==
  ASSUME NEW k \in ScalarKinds, NEW c \in Text
  PROVE  Leaf(Label(k, c)) \in Rooted
<1>1. Label(k, c) \in Labels
  BY DEF Label, Labels
<1>. QED
  BY <1>1, LeafIsRooted

\* The reader after the first token of a value.
LEMMA BeginsValueTypes ==
  ASSUME NEW o, NEW s \in Seq(Levels), NEW t, t.means \in Text
  PROVE  BeginsValue(o, s, t) \in ReaderStates
<1>1. Failed \in ReaderStates
  BY EmptySeq, ConstantTrees DEF Failed, ReaderStates, ReaderSites, Inside
<1>2. ASSUME t.kind \in ScalarKinds PROVE Absorb(s, Leaf(Label(t.kind, t.means))) \in ReaderStates
  <2>1. Leaf(Label(t.kind, t.means)) \in Trees
    BY <1>2, ScalarIsRooted DEF Rooted
  <2>. QED
    BY <2>1, AbsorbTypes
<1>3. /\ Expects("item", Append(s, Opening("array", EmptyArray))) \in ReaderStates
      /\ Expects("key", Append(s, Opening("object", EmptyObject))) \in ReaderStates
  BY OpeningTypes, PushedLevel, ExpectsTypes DEF Inside
<1>. QED
  BY <1>1, <1>2, <1>3 DEF BeginsValue

\* The reader always comes to a state of its own.
LEMMA TakesTypes ==
  ASSUME NEW o, NEW c \in ReaderStates, NEW t, t.means \in Text
  PROVE  Takes(o, c, t) \in ReaderStates
<1>1. Failed \in ReaderStates
  BY EmptySeq, ConstantTrees DEF Failed, ReaderStates, ReaderSites, Inside
<1>2. c.stack \in Seq(Levels) /\ c.at \in ReaderSites
  BY DEF ReaderStates
<1>3. CASE c.at \in {"value", "end", "error"}
  BY <1>1, <1>2, <1>3, BeginsValueTypes DEF Takes
<1>4. CASE c.at \in Inside
  <2>. DEFINE s == c.stack
  <2>1. s # <<>> /\ s \in Seq(Levels)
    BY <1>2, <1>4 DEF ReaderStates
  <2>. HIDE DEF s
  <2>2. Front(s) \in Seq(Levels) /\ Last(s) \in Levels /\ Last(s).out \in Trees
    BY <2>1, PoppedLevel DEF Levels
  <2>3. Closed(s) \in ReaderStates /\ ClosedEarly(o, s) \in ReaderStates
    BY <1>1, <2>2, AbsorbTypes DEF Closed, ClosedEarly
  <2>4. GoesOn("item", s) \in ReaderStates /\ GoesOn("key", s) \in ReaderStates
    <3>1. Separated(Last(s)) \in Levels
      BY <2>2, ChangedLevels
    <3>. QED
      BY <2>2, <3>1, PushedLevel, ExpectsTypes DEF GoesOn, Inside
  <2>5. BeginsMember(o, s, t) \in ReaderStates
    <3>1. Named(Last(s), t.means) \in Levels
      BY <2>2, ChangedLevels
    <3>2. Expects("colon", Append(Front(s), Named(Last(s), t.means)))
            \in ReaderStates
      BY <2>2, <3>1, PushedLevel, ExpectsTypes DEF Inside
    <3>. QED
      BY <1>1, <3>2 DEF BeginsMember
  <2>6. BeginsValue(o, s, t) \in ReaderStates
    BY <2>1, BeginsValueTypes
  <2>7. Expects("value", s) \in ReaderStates
    BY <2>1, ExpectsTypes
  <2>. QED
    BY <1>1, <1>4, <2>3, <2>4, <2>5, <2>6, <2>7 DEF Takes, Inside, s
<1>. QED
  BY <1>2, <1>3, <1>4 DEF ReaderSites

\* The states of the reader are what their definition says.
LEMMA ReadingSteps ==
  ASSUME NEW T, \A t \in T : t.means \in Text, NEW w \in Seq(T), NEW o
  PROVE  /\ Reading(w, o)[0] = Expects("value", <<>>)
         /\ \A n \in 1 .. Len(w) : Reading(w, o)[n] = Takes(o, Reading(w, o)[n - 1], w[n])
         /\ \A n \in 0 .. Len(w) : Reading(w, o)[n] \in ReaderStates
<1>. DEFINE N == Len(w)
            R == ReaderStates
            a == Expects("value", <<>>)
            h == [p \in R \X (1 .. N) |-> Takes(o, p[1], w[p[2]])]
            Defines(c) == c = [n \in 0 .. N |-> IF n = 0 THEN a ELSE Takes(o, c[n - 1], w[n])]
<1>1. N \in Nat /\ \A n \in 1 .. N : w[n].means \in Text /\ n # 0 /\ n - 1 \in 0 .. N
        /\ n \in 0 .. N
  OBVIOUS
<1>2. a \in R
  BY EmptySeq, ConstantTrees DEF Expects, ReaderStates, ReaderSites, Inside
<1>3. h \in [R \X (1 .. N) -> R]
  BY <1>1, TakesTypes
<1>4. \A c \in R : \A n \in 1 .. N : h[<<c, n>>] = Takes(o, c, w[n])
  OBVIOUS
<1>. HIDE DEF R, h, a
<1>5. PICK f \in [0 .. N -> R] : Iterates(f, N, a, h)
  <2>. HIDE DEF N
  <2>. QED
    BY <1>1, <1>2, <1>3, Iteration
<1>6. f[0] = a /\ \A n \in 1 .. N : f[n] = Takes(o, f[n - 1], w[n])
  BY <1>1, <1>4, <1>5 DEF Iterates
<1>7. Defines(f)
  <2>1. \A n \in 0 .. N : n = 0 \/ n \in 1 .. N
    BY <1>1
  <2>2. f = [n \in 0 .. N |-> f[n]]
    BY <1>5
  <2>. HIDE DEF N
  <2>3. \A n \in 0 .. N : f[n] = IF n = 0 THEN a ELSE Takes(o, f[n - 1], w[n])
    BY <1>6, <2>1
  <2>. QED
    BY <2>2, <2>3
<1>8. Reading(w, o) = CHOOSE c : Defines(c)
  BY DEF Reading, a
<1>9. Defines(Reading(w, o))
  <2>. HIDE DEF Defines
  <2>. QED
    BY <1>7, <1>8
<1>. DEFINE g == Reading(w, o)
<1>10. g[0] = a /\ \A n \in 1 .. N : g[n] = Takes(o, g[n - 1], w[n])
  <2>. HIDE DEF N, g
  <2>1. g = [n \in 0 .. N |-> IF n = 0 THEN a ELSE Takes(o, g[n - 1], w[n])]
    BY <1>9 DEF g
  <2>2. 0 \in 0 .. N
    BY <1>1
  <2>. QED
    BY <1>1, <2>1, <2>2
<1>11. 0 .. N \subseteq {n \in 0 .. N : g[n] \in R}
  <2>. DEFINE S == {n \in 0 .. N : g[n] \in R}
  <2>. HIDE DEF g
  <2>1. 0 \in S
    BY <1>1, <1>2, <1>10
  <2>2. ASSUME NEW n \in 1 .. N, n - 1 \in S PROVE n \in S
    <3>1. Takes(o, g[n - 1], w[n]) \in R
      BY <1>1, <2>2, TakesTypes DEF R
    <3>. QED
      BY <1>1, <1>10, <3>1
  <2>. HIDE DEF S, N
  <2>3. 0 .. N \subseteq S
    BY <1>1, <2>1, <2>2, InductionUpto
  <2>. QED
    BY <2>3 DEF S
<1>. QED
  BY <1>10, <1>11 DEF a, g, R

\* What the reader does when f is the innermost of the open containers.
AtLevel(o, s, f, t) ==
    /\ \A v : Absorb(Append(s, f), v) =
         IF f.fn = "array" THEN Expects("item_end", Append(s, Grown(f, v)))
         ELSE IF HasKey(f.out, f.key) THEN Failed
         ELSE Expects("member_end", Append(s, Grown(f, v)))
    /\ Takes(o, Expects("item", Append(s, f)), t) =
         IF t.kind = "array_end"
         THEN IF f.trailing /\ o.comma_policy # "allow_trailing" THEN Failed
           ELSE Absorb(s, f.out)
         ELSE BeginsValue(o, Append(s, f), t)
    /\ Takes(o, Expects("item_end", Append(s, f)), t) =
         IF t.kind = "array_end" THEN Absorb(s, f.out)
         ELSE IF t.kind = "separator"
              THEN Expects("item", Append(s, Separated(f))) ELSE Failed
    /\ Takes(o, Expects("key", Append(s, f)), t) =
         IF t.kind = "object_end"
         THEN IF f.trailing /\ o.comma_policy # "allow_trailing" THEN Failed
           ELSE Absorb(s, f.out)
         ELSE IF t.kind = "string" /\ Readable(t, o)
         THEN Expects("colon", Append(s, Named(f, t.means)))
         ELSE Failed
    /\ Takes(o, Expects("colon", Append(s, f)), t) =
         IF t.kind = "object_key_delimiter" THEN Expects("value", Append(s, f)) ELSE Failed
    /\ Takes(o, Expects("member_end", Append(s, f)), t) =
         IF t.kind = "object_end" THEN Absorb(s, f.out)
         ELSE IF t.kind = "separator"
              THEN Expects("key", Append(s, Separated(f))) ELSE Failed

\* What the reader does with the innermost of the open containers.
LEMMA TakesAtLevels ==
  ASSUME NEW o, NEW t, NEW s \in Seq(Levels), NEW f \in Levels
  PROVE  AtLevel(o, s, f, t)
<1>. DEFINE a == Append(s, f)
<1>1. a # <<>> /\ Last(a) = f /\ Front(a) = s
  BY PushedLevel
<1>. HIDE DEF a, AtLevel
<1>2. \A site : Expects(site, a).at = site /\ Expects(site, a).stack = a
  BY DEF Expects
<1>3. \A v : Absorb(a, v) =
         IF f.fn = "array" THEN Expects("item_end", Append(s, Grown(f, v)))
         ELSE IF HasKey(f.out, f.key) THEN Failed
         ELSE Expects("member_end", Append(s, Grown(f, v)))
  BY <1>1 DEF Absorb
<1>4. Closed(a) = Absorb(s, f.out)
  BY <1>1 DEF Closed
<1>5. ClosedEarly(o, a) =
        IF f.trailing /\ o.comma_policy # "allow_trailing" THEN Failed ELSE Absorb(s, f.out)
  BY <1>1, <1>4 DEF ClosedEarly
<1>6. \A site : GoesOn(site, a) = Expects(site, Append(s, Separated(f)))
  BY <1>1 DEF GoesOn
<1>7. BeginsMember(o, a, t) =
        IF t.kind = "string" /\ Readable(t, o)
        THEN Expects("colon", Append(s, Named(f, t.means)))
        ELSE Failed
  BY <1>1 DEF BeginsMember
<1>8. Takes(o, Expects("item", a), t) =
        IF t.kind = "array_end" THEN ClosedEarly(o, a) ELSE BeginsValue(o, a, t)
  BY <1>2 DEF Takes
<1>9. Takes(o, Expects("item_end", a), t) =
        IF t.kind = "array_end" THEN Closed(a)
        ELSE IF t.kind = "separator" THEN GoesOn("item", a) ELSE Failed
  BY <1>2 DEF Takes
<1>10. Takes(o, Expects("key", a), t) =
        IF t.kind = "object_end" THEN ClosedEarly(o, a) ELSE BeginsMember(o, a, t)
  BY <1>2 DEF Takes
<1>11. Takes(o, Expects("colon", a), t) =
        IF t.kind = "object_key_delimiter" THEN Expects("value", a) ELSE Failed
  BY <1>2 DEF Takes
<1>12. Takes(o, Expects("member_end", a), t) =
        IF t.kind = "object_end" THEN Closed(a)
        ELSE IF t.kind = "separator" THEN GoesOn("key", a) ELSE Failed
  BY <1>2 DEF Takes
<1>. QED
  BY <1>3, <1>4, <1>5, <1>6, <1>7, <1>8, <1>9, <1>10, <1>11, <1>12 DEF a, AtLevel

\* The reader after a value inside the container f.
LEMMA AbsorbsInto ==
  ASSUME NEW s \in Seq(Levels), NEW f \in Levels, NEW v
  PROVE  Absorb(Append(s, f), v) =
           IF f.fn = "array" THEN Expects("item_end", Append(s, Grown(f, v)))
           ELSE IF HasKey(f.out, f.key) THEN Failed
           ELSE Expects("member_end", Append(s, Grown(f, v)))
<1>1. \A o, t : AtLevel(o, s, f, t)
  BY TakesAtLevels, Zenon
<1>. QED
  BY <1>1, Zenon DEF AtLevel

\* The reader before an element, or the end of an array.
LEMMA TakesItem ==
  ASSUME NEW o, NEW t, NEW s \in Seq(Levels), NEW f \in Levels
  PROVE  Takes(o, Expects("item", Append(s, f)), t) =
           IF t.kind = "array_end"
           THEN IF f.trailing /\ o.comma_policy # "allow_trailing" THEN Failed ELSE Absorb(s, f.out)
           ELSE BeginsValue(o, Append(s, f), t)
<1>1. AtLevel(o, s, f, t)
  BY TakesAtLevels, Zenon
<1>. QED
  BY <1>1, Zenon DEF AtLevel

\* The reader after an element.
LEMMA TakesItemEnd ==
  ASSUME NEW o, NEW t, NEW s \in Seq(Levels), NEW f \in Levels
  PROVE  Takes(o, Expects("item_end", Append(s, f)), t) =
           IF t.kind = "array_end" THEN Absorb(s, f.out)
           ELSE IF t.kind = "separator"
                THEN Expects("item", Append(s, Separated(f))) ELSE Failed
<1>1. AtLevel(o, s, f, t)
  BY TakesAtLevels, Zenon
<1>. QED
  BY <1>1, Zenon DEF AtLevel

\* The reader before a key, or the end of an object.
LEMMA TakesKey ==
  ASSUME NEW o, NEW t, NEW s \in Seq(Levels), NEW f \in Levels
  PROVE  Takes(o, Expects("key", Append(s, f)), t) =
           IF t.kind = "object_end"
           THEN IF f.trailing /\ o.comma_policy # "allow_trailing" THEN Failed ELSE Absorb(s, f.out)
           ELSE IF t.kind = "string" /\ Readable(t, o)
           THEN Expects("colon", Append(s, Named(f, t.means)))
           ELSE Failed
<1>1. AtLevel(o, s, f, t)
  BY TakesAtLevels, Zenon
<1>. QED
  BY <1>1, Zenon DEF AtLevel

\* The reader after a key.
LEMMA TakesColon ==
  ASSUME NEW o, NEW t, NEW s \in Seq(Levels), NEW f \in Levels
  PROVE  Takes(o, Expects("colon", Append(s, f)), t) =
           IF t.kind = "object_key_delimiter" THEN Expects("value", Append(s, f)) ELSE Failed
<1>1. AtLevel(o, s, f, t)
  BY TakesAtLevels, Zenon
<1>. QED
  BY <1>1, Zenon DEF AtLevel

\* The reader after a member.
LEMMA TakesMemberEnd ==
  ASSUME NEW o, NEW t, NEW s \in Seq(Levels), NEW f \in Levels
  PROVE  Takes(o, Expects("member_end", Append(s, f)), t) =
           IF t.kind = "object_end" THEN Absorb(s, f.out)
           ELSE IF t.kind = "separator"
                THEN Expects("key", Append(s, Separated(f))) ELSE Failed
<1>1. AtLevel(o, s, f, t)
  BY TakesAtLevels, Zenon
<1>. QED
  BY <1>1, Zenon DEF AtLevel

\* What an open container is after the elements vs, or the members ms, have been read.
ArrayLevel(vs) == [fn |-> "array", trailing |-> FALSE, key |-> "", out |-> ArrayOf(vs)]
ObjectLevel(ms) ==
    [fn |-> "object", trailing |-> FALSE, out |-> ObjectOf(ms),
     key |-> IF ms = <<>> THEN "" ELSE ms[Len(ms)][1]]

\* Containers begin with no elements and no members.
LEMMA OpeningLevels ==
  /\ Opening("array", EmptyArray) = ArrayLevel(<<>>)
  /\ Opening("object", EmptyObject) = ObjectLevel(<<>>)
  BY EmptyContainers DEF Opening, ArrayLevel, ObjectLevel

\* What an open array is.
LEMMA ArrayLevels ==
  ASSUME NEW vs \in Seq(Rooted)
  PROVE  /\ ArrayLevel(vs) \in Levels
         /\ ArrayLevel(vs).fn = "array" /\ ArrayLevel(vs).out = ArrayOf(vs)
         /\ ArrayLevel(vs).key = "" /\ ~ArrayLevel(vs).trailing
  BY ArrayOfIsRooted DEF ArrayLevel, Levels, Rooted, ContainerKinds, Text

\* One more element of an open array is one more element of the array it will be.
LEMMA GrownArrayLevels ==
  ASSUME NEW vs \in Seq(Rooted), NEW v \in Rooted, NEW f \in Levels,
         f.fn = "array", f.key = "", f.out = ArrayOf(vs)
  PROVE  Grown(f, v) = ArrayLevel(Append(vs, v))
<1>. DEFINE a == ArrayOf(vs)
            b == ArrayOf(Append(vs, v))
<1>1. PushBack(a, v) = b
  BY PushBackOnArray
<1>2. ArrayLevel(Append(vs, v)) = [fn |-> "array", trailing |-> FALSE, key |-> "", out |-> b]
  BY DEF ArrayLevel
<1>3. f.out = a
  OBVIOUS
<1>. HIDE DEF a, b
<1>4. Grown(f, v) = [fn |-> "array", trailing |-> FALSE, key |-> "", out |-> b]
  BY <1>1, <1>3 DEF Grown, Levels
<1>. QED
  BY <1>2, <1>4

\* What an open object is.
LEMMA ObjectLevels ==
  ASSUME NEW ms \in Seq(Pairs), DistinctKeys(ms)
  PROVE  /\ ObjectLevel(ms) \in Levels
         /\ ObjectLevel(ms).fn = "object" /\ ObjectLevel(ms).out = ObjectOf(ms)
         /\ ~ObjectLevel(ms).trailing
<1>1. (IF ms = <<>> THEN "" ELSE ms[Len(ms)][1]) \in Text
  <2>1. ms # <<>> => ms[Len(ms)] \in Pairs
    BY LastOfSequence
  <2>2. "" \in Text
    BY DEF Text
  <2>. QED
    BY <2>1, <2>2 DEF Pairs
<1>. QED
  BY <1>1, ObjectOfIsRooted DEF ObjectLevel, Levels, Rooted, ContainerKinds

\* One more member of an open object is one more member of the object it will be.
LEMMA GrownObjectLevels ==
  ASSUME NEW ms \in Seq(Pairs), DistinctKeys(ms), NEW k \in Text, NEW v \in Rooted,
         \A i \in 1 .. Len(ms) : ms[i][1] # k,
         NEW f \in Levels, f.fn = "object", f.out = ObjectOf(ms), ~f.trailing, f.key = k
  PROVE  ~HasKey(f.out, f.key) /\ Grown(f, v) = ObjectLevel(Append(ms, <<k, v>>))
<1>. DEFINE ws == Append(ms, <<k, v>>)
            a == ObjectOf(ms)
            b == ObjectOf(ws)
<1>1. PutMember(a, k, v) = b /\ ~HasKey(a, k)
  BY PutOnObject, KeysOfObject
<1>2. ws # <<>> /\ ws[Len(ws)][1] = k
  <2>1. ws # <<>> /\ ws[Len(ws)] = <<k, v>>
    <3>1. <<k, v>> \in Pairs
      BY DEF Pairs
    <3>. QED
      BY <3>1, AppendProperties
  <2>. HIDE DEF ws
  <2>. QED
    BY <2>1
<1>3. ObjectLevel(ws) = [fn |-> "object", trailing |-> FALSE, key |-> k, out |-> b]
  <2>. HIDE DEF ws
  <2>. QED
    BY <1>2 DEF ObjectLevel
<1>4. f.out = a
  OBVIOUS
<1>. HIDE DEF a, b
<1>5. Grown(f, v) = [fn |-> "object", trailing |-> FALSE, key |-> k, out |-> b]
  BY <1>1, <1>4 DEF Grown, Levels
<1>. QED
  BY <1>1, <1>3, <1>4, <1>5 DEF ws

-----------------------------------------------------------------------------
(* Where the grammar finds a value, the reader finds it too. *)

\* What it is for the reader to find x in the piece from i to j, m being Meaning(w, o) and
\* c Reading(w, o).
Finds(c, sort, i, j, x) ==
    CASE sort = "value" ->
           c[i].at \in {"value", "item"} => c[j] = Absorb(c[i].stack, x)
      [] sort = "member" ->
           \A s \in Seq(Levels), f \in Levels :
              c[i] = Expects("key", Append(s, f)) =>
                 c[j] = Absorb(Append(s, Named(f, x[1])), x[2])
      [] sort = "values" ->
           \A s \in Seq(Levels) :
              c[i] = Expects("item", Append(s, ArrayLevel(<<>>))) =>
                 c[j] = Expects("item_end", Append(s, ArrayLevel(x)))
      [] sort = "members" ->
           \A s \in Seq(Levels) :
              DistinctKeys(x) /\ c[i] = Expects("key", Append(s, ObjectLevel(<<>>))) =>
                 c[j] = Expects("member_end", Append(s, ObjectLevel(x)))

FindsAll(c, m, sort, i, j) == \A x \in m[<<sort, i, j>>] : Finds(c, sort, i, j, x)

\* The reader and the grammar on the tokens w.
ReadsOn(w, o, c) ==
    \A n \in 1 .. Len(w) : c[n] = Takes(o, c[n - 1], w[n])

Follows(w, o, c, m) ==
    /\ Len(w) \in Nat
    /\ \A n \in 1 .. Len(w) : w[n].means \in Text
    /\ ReadsOn(w, o, c)
    /\ \A n \in 0 .. Len(w) : c[n] \in ReaderStates
    /\ \A sort \in Sorts : \A i, j \in 0 .. Len(w) :
          /\ m[<<sort, i, j>>] = Denotes(w, o, m, sort, i, j)
          /\ m[<<sort, i, j>>] \in SetsOf(sort)

\* An input that is followed has a length.
LEMMA LengthIsNat ==
  ASSUME NEW w, NEW o, NEW c, NEW m, Follows(w, o, c, m)
  PROVE  Len(w) \in Nat
  BY DEF Follows

\* The reader goes from each of its states to the next by the token between them.
LEMMA ReaderGoesOn ==
  ASSUME NEW w, NEW o, NEW c, NEW m, Follows(w, o, c, m), NEW n \in 1 .. Len(w)
  PROVE  /\ c[n] = Takes(o, c[n - 1], w[n]) /\ w[n].means \in Text
         /\ n \in 0 .. Len(w) /\ n - 1 \in 0 .. Len(w)
  BY DEF Follows, ReadsOn

\* What is open is a sequence of containers.
LEMMA StacksOfReader ==
  ASSUME NEW w, NEW o, NEW c, NEW m, Follows(w, o, c, m), NEW n \in 0 .. Len(w)
  PROVE  c[n].stack \in Seq(Levels)
  BY DEF Follows, ReaderStates

Denoted(w, o, m, i, j) ==
         /\ m[<<"value", i, j>>] = ValuesOf(w, o, m, i, j)
         /\ m[<<"member", i, j>>] = MembersOfPiece(w, o, m, i, j)
         /\ m[<<"values", i, j>>] = Lists(w, m, "values", "value", i, j)
         /\ m[<<"members", i, j>>] = Lists(w, m, "members", "member", i, j)
         /\ m[<<"value", i, j>>] \in SUBSET Rooted
         /\ m[<<"member", i, j>>] \in SUBSET Pairs
         /\ m[<<"values", i, j>>] \in SUBSET Seq(Rooted)
         /\ m[<<"members", i, j>>] \in SUBSET Seq(Pairs)

\* The meaning of a piece is what the grammar derives from those of the shorter ones.
LEMMA PiecesDenote ==
  ASSUME NEW w, NEW o, NEW c, NEW m, Follows(w, o, c, m),
         NEW i \in 0 .. Len(w), NEW j \in 0 .. Len(w)
  PROVE  Denoted(w, o, m, i, j)
<1>1. \A sort \in {"value", "member", "values", "members"} :
        m[<<sort, i, j>>] = Denotes(w, o, m, sort, i, j) /\ m[<<sort, i, j>>] \in SetsOf(sort)
  BY DEF Follows, Sorts
<1>. QED
  BY <1>1, SetsOfSorts DEF Denotes, Denoted

\* A list and an element make a longer list.
LEMMA ExtendedMeans ==
  ASSUME NEW ls, NEW es, NEW x, x \in Extended(ls, es)
  PROVE  \E l \in ls : \E e \in es : x = Append(l, e)
  BY DEF Extended

\* The reader finds a value of one token.
LEMMA ScalarIsFound ==
  ASSUME NEW w, NEW o, NEW c, NEW m, Follows(w, o, c, m),
         NEW i \in 0 .. Len(w), NEW j \in 0 .. Len(w), j = i + 1, NEW x \in m[<<"value", i, j>>]
  PROVE  Finds(c, "value", i, j, x)
<1>1. j \in 1 .. Len(w) /\ j - 1 = i
  BY LengthIsNat
<1>2. m[<<"value", i, j>>] = ValuesOf(w, o, m, i, j)
  <2>1. Denoted(w, o, m, i, j)
    BY PiecesDenote
  <2>. QED
    BY <2>1 DEF Denoted
<1>3. Readable(w[j], o) /\ x = Leaf(Label(w[j].kind, w[j].means))
  <2>1. ValuesOf(w, o, m, i, j)
        = IF Readable(w[j], o) THEN {Leaf(Label(w[j].kind, w[j].means))} ELSE {}
    BY DEF ValuesOf, Brackets
  <2>. HIDE DEF Leaf, Label
  <2>. QED
    BY <1>2, <2>1
<1>4. w[j].kind \in ScalarKinds /\ w[j].kind # "array_end"
  BY <1>3 DEF Readable, ScalarKinds
<1>5. ASSUME c[i].at \in {"value", "item"} PROVE c[j] = Absorb(c[i].stack, x)
  <2>1. c[j] = Takes(o, c[i], w[j])
    BY <1>1, ReaderGoesOn
  <2>2. Takes(o, c[i], w[j]) = BeginsValue(o, c[i].stack, w[j])
    BY <1>4, <1>5 DEF Takes
  <2>3. BeginsValue(o, c[i].stack, w[j]) = Absorb(c[i].stack, Leaf(Label(w[j].kind, w[j].means)))
    BY <1>3, <1>4 DEF BeginsValue, ScalarKinds
  <2>. QED
    BY <1>3, <2>1, <2>2, <2>3
<1>. QED
  BY <1>5 DEF Finds

\* The reader finds an array when it finds the elements inside its brackets.
LEMMA ArrayIsFound ==
  ASSUME NEW w, NEW o, NEW c, NEW m, Follows(w, o, c, m),
         NEW i \in 0 .. Len(w), NEW j \in 0 .. Len(w),
         Brackets(w, i, j, "array_begin", "array_end"),
         NEW vs \in Enclosed(w, o, m, "values", i + 1, j - 1),
         FindsAll(c, m, "values", i + 1, j - 1),
         i + 1 < j - 1 => FindsAll(c, m, "values", i + 1, (j - 1) - 1)
  PROVE  Finds(c, "value", i, j, ArrayOf(vs))
<1>a. Len(w) \in Nat /\ i + 2 <= j
  BY LengthIsNat DEF Brackets
<1>0. /\ Len(w) \in Nat /\ i + 2 <= j /\ i + 1 \in 1 .. Len(w) /\ j \in 1 .. Len(w)
          /\ (i + 1) - 1 = i
      /\ j - 1 \in 0 .. Len(w) /\ w[i + 1].kind = "array_begin" /\ w[j].kind = "array_end"
      /\ i + 1 \in 0 .. Len(w)
      /\ i + 1 < j - 1 => j - 1 \in 1 .. Len(w) /\ (j - 1) - 1 \in 0 .. Len(w)
  BY <1>a DEF Brackets
<1>1. SUFFICES ASSUME c[i].at \in {"value", "item"}
               PROVE  c[j] = Absorb(c[i].stack, ArrayOf(vs))
  BY DEF Finds
<1>. DEFINE s == c[i].stack
<1>2. s \in Seq(Levels)
  BY StacksOfReader
<1>3. c[i + 1] = Expects("item", Append(s, ArrayLevel(<<>>)))
  <2>1. c[i + 1] = Takes(o, c[i], w[i + 1])
    BY <1>0, ReaderGoesOn
  <2>2. Takes(o, c[i], w[i + 1]) = BeginsValue(o, s, w[i + 1])
    BY <1>0, <1>1 DEF Takes
  <2>3. BeginsValue(o, s, w[i + 1]) = Expects("item", Append(s, Opening("array", EmptyArray)))
    BY <1>0 DEF BeginsValue, ScalarKinds
  <2>. QED
    BY <2>1, <2>2, <2>3, OpeningLevels
<1>. HIDE DEF s
<1>4. c[j] = Takes(o, c[j - 1], w[j])
  BY <1>0, ReaderGoesOn
<1>5. CASE i + 1 = j - 1 /\ vs = <<>>
  <2>1. ArrayLevel(<<>>) \in Levels /\ ~ArrayLevel(<<>>).trailing
          /\ ArrayLevel(<<>>).out = ArrayOf(<<>>)
    BY EmptyContainers, ArrayLevels
  <2>2. Takes(o, Expects("item", Append(s, ArrayLevel(<<>>))), w[j]) = Absorb(s, ArrayOf(<<>>))
    BY <1>0, <1>2, <2>1, TakesItem
  <2>. QED
    BY <1>3, <1>4, <1>5, <2>2 DEF s
<1>6. ASSUME vs \in m[<<"values", i + 1, j - 1>>] PROVE c[j] = Absorb(s, ArrayOf(vs))
  <2>1. c[j - 1] = Expects("item_end", Append(s, ArrayLevel(vs)))
    BY <1>2, <1>3, <1>6 DEF FindsAll, Finds
  <2>2. vs \in Seq(Rooted)
    BY <1>0, <1>6, PiecesDenote DEF Denoted
  <2>3. ArrayLevel(vs) \in Levels /\ ArrayLevel(vs).out = ArrayOf(vs)
    BY <2>2, ArrayLevels
  <2>. QED
    BY <1>0, <1>2, <1>4, <2>1, <2>3, TakesItemEnd
<1>7. ASSUME i + 1 < j - 1, w[j - 1].kind = "separator", o.comma_policy = "allow_trailing",
             vs \in m[<<"values", i + 1, (j - 1) - 1>>]
      PROVE  c[j] = Absorb(s, ArrayOf(vs))
  <2>1. c[(j - 1) - 1] = Expects("item_end", Append(s, ArrayLevel(vs)))
    BY <1>2, <1>3, <1>7 DEF FindsAll, Finds
  <2>2. vs \in Seq(Rooted)
    BY <1>0, <1>7, PiecesDenote DEF Denoted
  <2>3. ArrayLevel(vs) \in Levels /\ ArrayLevel(vs).out = ArrayOf(vs)
    BY <2>2, ArrayLevels
  <2>. DEFINE f == Separated(ArrayLevel(vs))
  <2>4. f \in Levels /\ f.out = ArrayOf(vs)
    BY <2>3, ChangedLevels
  <2>a. j - 1 \in 1 .. Len(w)
    BY <1>0, <1>7
  <2>5. c[j - 1] = Takes(o, c[(j - 1) - 1], w[j - 1])
    BY <2>a, ReaderGoesOn
  <2>6. c[j - 1] = Expects("item", Append(s, f))
    BY <1>2, <1>7, <2>1, <2>3, <2>5, TakesItemEnd
  <2>. HIDE DEF f
  <2>7. Takes(o, Expects("item", Append(s, f)), w[j]) = Absorb(s, f.out)
    BY <1>0, <1>2, <1>7, <2>4, TakesItem
  <2>. QED
    BY <1>4, <2>4, <2>6, <2>7
<1>. QED
  BY <1>5, <1>6, <1>7 DEF Enclosed, s

\* The reader finds an object when it finds the members inside its braces.
LEMMA ObjectIsFound ==
  ASSUME NEW w, NEW o, NEW c, NEW m, Follows(w, o, c, m),
         NEW i \in 0 .. Len(w), NEW j \in 0 .. Len(w),
         Brackets(w, i, j, "object_begin", "object_end"),
         NEW ms \in Enclosed(w, o, m, "members", i + 1, j - 1), DistinctKeys(ms),
         FindsAll(c, m, "members", i + 1, j - 1),
         i + 1 < j - 1 => FindsAll(c, m, "members", i + 1, (j - 1) - 1)
  PROVE  Finds(c, "value", i, j, ObjectOf(ms))
<1>a. Len(w) \in Nat /\ i + 2 <= j
  BY LengthIsNat DEF Brackets
<1>0. /\ Len(w) \in Nat /\ i + 2 <= j /\ i + 1 \in 1 .. Len(w) /\ j \in 1 .. Len(w)
          /\ (i + 1) - 1 = i
      /\ j - 1 \in 0 .. Len(w) /\ w[i + 1].kind = "object_begin" /\ w[j].kind = "object_end"
      /\ i + 1 \in 0 .. Len(w)
      /\ i + 1 < j - 1 => j - 1 \in 1 .. Len(w) /\ (j - 1) - 1 \in 0 .. Len(w)
  BY <1>a DEF Brackets
<1>1. SUFFICES ASSUME c[i].at \in {"value", "item"}
               PROVE  c[j] = Absorb(c[i].stack, ObjectOf(ms))
  BY DEF Finds
<1>. DEFINE s == c[i].stack
<1>2. s \in Seq(Levels)
  BY StacksOfReader
<1>3. c[i + 1] = Expects("key", Append(s, ObjectLevel(<<>>)))
  <2>1. c[i + 1] = Takes(o, c[i], w[i + 1])
    BY <1>0, ReaderGoesOn
  <2>2. Takes(o, c[i], w[i + 1]) = BeginsValue(o, s, w[i + 1])
    BY <1>0, <1>1 DEF Takes
  <2>3. BeginsValue(o, s, w[i + 1]) = Expects("key", Append(s, Opening("object", EmptyObject)))
    BY <1>0 DEF BeginsValue, ScalarKinds
  <2>. QED
    BY <2>1, <2>2, <2>3, OpeningLevels
<1>. HIDE DEF s
<1>4. c[j] = Takes(o, c[j - 1], w[j])
  BY <1>0, ReaderGoesOn
<1>5. CASE i + 1 = j - 1 /\ ms = <<>>
  <2>1. ObjectLevel(<<>>) \in Levels /\ ~ObjectLevel(<<>>).trailing
          /\ ObjectLevel(<<>>).out = ObjectOf(<<>>)
    BY EmptyContainers, ObjectLevels
  <2>2. Takes(o, Expects("key", Append(s, ObjectLevel(<<>>))), w[j]) = Absorb(s, ObjectOf(<<>>))
    BY <1>0, <1>2, <2>1, TakesKey
  <2>. QED
    BY <1>3, <1>4, <1>5, <2>2 DEF s
<1>6. ASSUME ms \in m[<<"members", i + 1, j - 1>>] PROVE c[j] = Absorb(s, ObjectOf(ms))
  <2>1. c[j - 1] = Expects("member_end", Append(s, ObjectLevel(ms)))
    BY <1>2, <1>3, <1>6 DEF FindsAll, Finds
  <2>2. ms \in Seq(Pairs)
    BY <1>0, <1>6, PiecesDenote DEF Denoted
  <2>3. ObjectLevel(ms) \in Levels /\ ObjectLevel(ms).out = ObjectOf(ms)
    BY <2>2, ObjectLevels
  <2>. QED
    BY <1>0, <1>2, <1>4, <2>1, <2>3, TakesMemberEnd
<1>7. ASSUME i + 1 < j - 1, w[j - 1].kind = "separator", o.comma_policy = "allow_trailing",
             ms \in m[<<"members", i + 1, (j - 1) - 1>>]
      PROVE  c[j] = Absorb(s, ObjectOf(ms))
  <2>1. c[(j - 1) - 1] = Expects("member_end", Append(s, ObjectLevel(ms)))
    BY <1>2, <1>3, <1>7 DEF FindsAll, Finds
  <2>2. ms \in Seq(Pairs)
    BY <1>0, <1>7, PiecesDenote DEF Denoted
  <2>3. ObjectLevel(ms) \in Levels /\ ObjectLevel(ms).out = ObjectOf(ms)
    BY <2>2, ObjectLevels
  <2>. DEFINE f == Separated(ObjectLevel(ms))
  <2>4. f \in Levels /\ f.out = ObjectOf(ms)
    BY <2>3, ChangedLevels
  <2>a. j - 1 \in 1 .. Len(w)
    BY <1>0, <1>7
  <2>5. c[j - 1] = Takes(o, c[(j - 1) - 1], w[j - 1])
    BY <2>a, ReaderGoesOn
  <2>6. c[j - 1] = Expects("key", Append(s, f))
    BY <1>2, <1>7, <2>1, <2>3, <2>5, TakesMemberEnd
  <2>. HIDE DEF f
  <2>7. Takes(o, Expects("key", Append(s, f)), w[j]) = Absorb(s, f.out)
    BY <1>0, <1>2, <1>7, <2>4, TakesKey
  <2>. QED
    BY <1>4, <2>4, <2>6, <2>7
<1>. QED
  BY <1>5, <1>6, <1>7 DEF Enclosed, s

\* The reader finds a member when it finds its value.
LEMMA MemberIsFound ==
  ASSUME NEW w, NEW o, NEW c, NEW m, Follows(w, o, c, m),
         NEW i \in 0 .. Len(w), NEW j \in 0 .. Len(w), NEW x \in m[<<"member", i, j>>],
         i + 2 < j => FindsAll(c, m, "value", i + 2, j)
  PROVE  Finds(c, "member", i, j, x)
<1>1. /\ i + 2 < j /\ Readable(w[i + 1], o)
      /\ w[i + 1].kind = "string" /\ w[i + 2].kind = "object_key_delimiter"
      /\ \E v \in m[<<"value", i + 2, j>>] : x = <<w[i + 1].means, v>>
  <2>0. Denoted(w, o, m, i, j)
    BY PiecesDenote
  <2>1. m[<<"member", i, j>>] = MembersOfPiece(w, o, m, i, j)
    BY <2>0 DEF Denoted
  <2>. QED
    BY <2>1 DEF MembersOfPiece, Brackets
<1>2. PICK v \in m[<<"value", i + 2, j>>] : x = <<w[i + 1].means, v>>
  BY <1>1
<1>3. x[1] = w[i + 1].means /\ x[2] = v
  BY <1>2
<1>4. /\ i + 1 \in 1 .. Len(w) /\ i + 2 \in 1 .. Len(w) /\ (i + 1) - 1 = i /\ (i + 2) - 1 = i + 1
  BY <1>1, LengthIsNat
<1>5. SUFFICES ASSUME NEW s \in Seq(Levels), NEW f \in Levels, c[i] = Expects("key", Append(s, f))
               PROVE  c[j] = Absorb(Append(s, Named(f, x[1])), x[2])
  BY DEF Finds
<1>. DEFINE g == Named(f, w[i + 1].means)
<1>6. g \in Levels
  BY <1>4, ReaderGoesOn, ChangedLevels
<1>7. c[i + 1] = Expects("colon", Append(s, g))
  <2>1. c[i + 1] = Takes(o, c[i], w[i + 1])
    BY <1>4, ReaderGoesOn
  <2>. QED
    BY <1>1, <1>5, <2>1, TakesKey
<1>8. c[i + 2] = Expects("value", Append(s, g))
  <2>. HIDE DEF g
  <2>1. c[i + 2] = Takes(o, c[i + 1], w[i + 2])
    BY <1>4, ReaderGoesOn
  <2>. QED
    BY <1>1, <1>6, <1>7, <2>1, TakesColon
<1>9. c[j] = Absorb(Append(s, g), v)
  <2>1. c[i + 2].at = "value" /\ c[i + 2].stack = Append(s, g)
    <3>. DEFINE a == Append(s, g)
    <3>1. c[i + 2] = Expects("value", a)
      BY <1>8
    <3>. HIDE DEF a
    <3>2. c[i + 2].at = "value" /\ c[i + 2].stack = a
      BY <3>1, ExpectsHas
    <3>. QED
      BY <3>2 DEF a
  <2>2. Finds(c, "value", i + 2, j, v)
    BY <1>1, <1>2 DEF FindsAll
  <2>. QED
    BY <2>1, <2>2 DEF Finds
<1>. QED
  BY <1>3, <1>9

\* The list of the elements before the last one, and what the reader is like after it.
LEMMA ValuesAreFound ==
  ASSUME NEW w, NEW o, NEW c, NEW m, Follows(w, o, c, m),
         NEW i \in 0 .. Len(w), NEW j \in 0 .. Len(w), NEW x \in m[<<"values", i, j>>],
         \A k \in i .. j - 1 : /\ FindsAll(c, m, "value", k, j)
                               /\ k # i => FindsAll(c, m, "values", i, k - 1)
  PROVE  Finds(c, "values", i, j, x)
<1>0. Denoted(w, o, m, i, j)
  BY PiecesDenote
<1>1. m[<<"values", i, j>>] = Lists(w, m, "values", "value", i, j)
  BY <1>0 DEF Denoted
<1>2. PICK k \in Starts(w, i, j) :
        x \in Extended(Listed(w, m, "values", i, k), m[<<"value", k, j>>])
  BY <1>1, InLists
<1>3. k \in i .. j - 1 /\ k \in 0 .. Len(w) /\ (k = i \/ w[k].kind = "separator")
  BY LengthIsNat DEF Starts
<1>4. k # i => k - 1 \in 0 .. Len(w) /\ k \in 1 .. Len(w)
  BY <1>3, LengthIsNat
<1>5. m[<<"value", k, j>>] \in SUBSET Rooted
  BY <1>3, PiecesDenote DEF Denoted
<1>6. Listed(w, m, "values", i, k) \in SUBSET Seq(Rooted)
  <2>1. k # i => m[<<"values", i, k - 1>>] \in SUBSET Seq(Rooted)
    BY <1>4, PiecesDenote DEF Denoted
  <2>. QED
    BY <2>1, EmptyContainers DEF Listed
<1>7. \E l \in Listed(w, m, "values", i, k) : \E v \in m[<<"value", k, j>>] : x = Append(l, v)
  <2>. DEFINE ls == Listed(w, m, "values", i, k)
              es == m[<<"value", k, j>>]
  <2>1. x \in Extended(ls, es)
    BY <1>2
  <2>. HIDE DEF ls, es
  <2>2. \E l \in ls : \E v \in es : x = Append(l, v)
    BY <2>1, ExtendedMeans
  <2>. QED
    BY <2>2 DEF ls, es
<1>8. PICK l \in Listed(w, m, "values", i, k), v \in m[<<"value", k, j>>] : x = Append(l, v)
  BY <1>7
<1>9. l \in Seq(Rooted) /\ v \in Rooted
  BY <1>5, <1>6
<1>10. SUFFICES ASSUME NEW s \in Seq(Levels), c[i] = Expects("item", Append(s, ArrayLevel(<<>>)))
                PROVE  c[j] = Expects("item_end", Append(s, ArrayLevel(x)))
  BY DEF Finds
<1>11. PICK f \in Levels : /\ f.fn = "array" /\ f.key = "" /\ f.out = ArrayOf(l)
                           /\ c[k] = Expects("item", Append(s, f))
  <2>1. ArrayLevel(l) \in Levels /\ ArrayLevel(l).fn = "array" /\ ArrayLevel(l).key = ""
        /\ ArrayLevel(l).out = ArrayOf(l)
    BY <1>9, ArrayLevels
  <2>2. CASE k = i
    <3>1. l = <<>>
      BY <2>2 DEF Listed
    <3>. QED
      BY <1>10, <2>1, <2>2, <3>1
  <2>3. CASE k # i
    <3>1. l \in m[<<"values", i, k - 1>>] /\ w[k].kind = "separator"
      BY <2>3 DEF Listed
    <3>2. c[k - 1] = Expects("item_end", Append(s, ArrayLevel(l)))
      BY <1>3, <1>10, <2>3, <3>1 DEF FindsAll, Finds
    <3>3. c[k] = Takes(o, c[k - 1], w[k])
      BY <1>4, <2>3, ReaderGoesOn
    <3>. DEFINE g == Separated(ArrayLevel(l))
    <3>4. c[k] = Expects("item", Append(s, g))
      <4>. DEFINE f == ArrayLevel(l)
      <4>1. f \in Levels
        BY <2>1
      <4>. HIDE DEF f
      <4>2. Takes(o, Expects("item_end", Append(s, f)), w[k]) =
              Expects("item", Append(s, Separated(f)))
        BY <3>1, <4>1, TakesItemEnd
      <4>. QED
        BY <3>2, <3>3, <4>2 DEF f
    <3>5. g \in Levels /\ g.fn = "array" /\ g.key = "" /\ g.out = ArrayOf(l)
      BY <2>1, ChangedLevels
    <3>. QED
      BY <3>4, <3>5
  <2>. QED
    BY <2>2, <2>3
<1>12. Grown(f, v) = ArrayLevel(x)
  BY <1>8, <1>9, <1>11, GrownArrayLevels
<1>13. c[j] = Absorb(Append(s, f), v)
  <2>1. c[k].at = "item" /\ c[k].stack = Append(s, f)
    <3>. DEFINE a == Append(s, f)
    <3>1. c[k] = Expects("item", a)
      BY <1>11
    <3>. HIDE DEF a
    <3>2. c[k].at = "item" /\ c[k].stack = a
      BY <3>1, ExpectsHas
    <3>. QED
      BY <3>2 DEF a
  <2>2. Finds(c, "value", k, j, v)
    BY <1>3 DEF FindsAll
  <2>. QED
    BY <2>1, <2>2 DEF Finds
<1>14. Absorb(Append(s, f), v) = Expects("item_end", Append(s, Grown(f, v)))
  BY <1>11, AbsorbsInto
<1>. QED
  BY <1>12, <1>13, <1>14

\* The members before the last one have distinct keys, and not its key.
LEMMA DistinctBefore ==
  ASSUME NEW l \in Seq(Pairs), NEW k, NEW v, <<k, v>> \in Pairs, DistinctKeys(Append(l, <<k, v>>))
  PROVE  DistinctKeys(l) /\ \A n \in 1 .. Len(l) : l[n][1] # k
<1>. DEFINE x == Append(l, <<k, v>>)
<1>1. /\ Len(l) \in Nat /\ DOMAIN l = 1 .. Len(l) /\ DOMAIN x = 1 .. Len(l) + 1
      /\ x[Len(l) + 1] = <<k, v>> /\ \A n \in 1 .. Len(l) : x[n] = l[n]
  BY AppendProperties
<1>2. DistinctKeys(x)
  OBVIOUS
<1>. HIDE DEF x
<1>3. x[Len(l) + 1][1] = k
  BY <1>1
<1>4. \A i, j \in DOMAIN x : x[i][1] = x[j][1] => i = j
  BY <1>2 DEF DistinctKeys
<1>5. Len(l) + 1 \in DOMAIN x /\ \A n \in 1 .. Len(l) : n \in DOMAIN x /\ n # Len(l) + 1
  BY <1>1
<1>6. ASSUME NEW n \in 1 .. Len(l) PROVE l[n][1] # k
  BY <1>1, <1>3, <1>4, <1>5
<1>7. ASSUME NEW i \in DOMAIN l, NEW j \in DOMAIN l, l[i][1] = l[j][1] PROVE i = j
  BY <1>1, <1>4, <1>5, <1>7
<1>. QED
  BY <1>6, <1>7 DEF DistinctKeys

\* The reader finds a list of members when it finds the shorter ones, and each member.
LEMMA MembersAreFound ==
  ASSUME NEW w, NEW o, NEW c, NEW m, Follows(w, o, c, m),
         NEW i \in 0 .. Len(w), NEW j \in 0 .. Len(w), NEW x \in m[<<"members", i, j>>],
         \A k \in i .. j - 1 : /\ FindsAll(c, m, "member", k, j)
                               /\ k # i => FindsAll(c, m, "members", i, k - 1)
  PROVE  Finds(c, "members", i, j, x)
<1>0. Denoted(w, o, m, i, j)
  BY PiecesDenote
<1>1. m[<<"members", i, j>>] = Lists(w, m, "members", "member", i, j)
  BY <1>0 DEF Denoted
<1>2. PICK k \in Starts(w, i, j) :
        x \in Extended(Listed(w, m, "members", i, k), m[<<"member", k, j>>])
  BY <1>1, InLists
<1>3. k \in i .. j - 1 /\ k \in 0 .. Len(w) /\ (k = i \/ w[k].kind = "separator")
  BY LengthIsNat DEF Starts
<1>4. k # i => k - 1 \in 0 .. Len(w) /\ k \in 1 .. Len(w)
  BY <1>3, LengthIsNat
<1>5. m[<<"member", k, j>>] \in SUBSET Pairs
  <2>1. Denoted(w, o, m, k, j)
    BY <1>3, PiecesDenote
  <2>. QED
    BY <2>1 DEF Denoted
<1>6. Listed(w, m, "members", i, k) \in SUBSET Seq(Pairs)
  <2>1. k # i => m[<<"members", i, k - 1>>] \in SUBSET Seq(Pairs)
    <3>1. k # i => Denoted(w, o, m, i, k - 1)
      BY <1>4, PiecesDenote
    <3>. QED
      BY <3>1 DEF Denoted
  <2>. QED
    BY <2>1, EmptyContainers DEF Listed
<1>7. \E l \in Listed(w, m, "members", i, k) : \E y \in m[<<"member", k, j>>] : x = Append(l, y)
  <2>. DEFINE ls == Listed(w, m, "members", i, k)
              es == m[<<"member", k, j>>]
  <2>1. x \in Extended(ls, es)
    BY <1>2
  <2>. HIDE DEF ls, es
  <2>2. \E l \in ls : \E y \in es : x = Append(l, y)
    BY <2>1, ExtendedMeans
  <2>. QED
    BY <2>2 DEF ls, es
<1>8. PICK l \in Listed(w, m, "members", i, k), y \in m[<<"member", k, j>>] : x = Append(l, y)
  BY <1>7
<1>9. /\ l \in Seq(Pairs) /\ y \in Pairs /\ y[1] \in Text /\ y[2] \in Rooted
      /\ y = <<y[1], y[2]>> /\ x = Append(l, <<y[1], y[2]>>)
  <2>1. l \in Seq(Pairs) /\ y \in Pairs
    BY <1>5, <1>6
  <2>2. y[1] \in Text /\ y[2] \in Rooted /\ y = <<y[1], y[2]>>
    BY <2>1 DEF Pairs
  <2>. QED
    BY <1>8, <2>1, <2>2
<1>10. SUFFICES ASSUME NEW s \in Seq(Levels), DistinctKeys(x),
                       c[i] = Expects("key", Append(s, ObjectLevel(<<>>)))
                PROVE  c[j] = Expects("member_end", Append(s, ObjectLevel(x)))
  BY DEF Finds
<1>a. DistinctKeys(l) /\ \A n \in 1 .. Len(l) : l[n][1] # y[1]
  BY <1>8, <1>9, <1>10, DistinctBefore
<1>11. PICK f \in Levels : /\ f.fn = "object" /\ f.out = ObjectOf(l)
                           /\ c[k] = Expects("key", Append(s, f))
  <2>1. ObjectLevel(l) \in Levels /\ ObjectLevel(l).fn = "object"
          /\ ObjectLevel(l).out = ObjectOf(l)
    BY <1>9, <1>a, ObjectLevels
  <2>2. CASE k = i
    <3>1. l = <<>>
      BY <2>2 DEF Listed
    <3>. QED
      BY <1>10, <2>1, <2>2, <3>1
  <2>3. CASE k # i
    <3>1. l \in m[<<"members", i, k - 1>>] /\ w[k].kind = "separator"
      BY <2>3 DEF Listed
    <3>2. c[k - 1] = Expects("member_end", Append(s, ObjectLevel(l)))
      BY <1>3, <1>10, <1>a, <2>3, <3>1 DEF FindsAll, Finds
    <3>3. c[k] = Takes(o, c[k - 1], w[k])
      BY <1>4, <2>3, ReaderGoesOn
    <3>. DEFINE g == Separated(ObjectLevel(l))
    <3>4. c[k] = Expects("key", Append(s, g))
      BY <2>1, <3>1, <3>2, <3>3, TakesMemberEnd
    <3>5. g \in Levels /\ g.fn = "object" /\ g.out = ObjectOf(l)
      BY <2>1, ChangedLevels
    <3>. QED
      BY <3>4, <3>5
  <2>. QED
    BY <2>2, <2>3
<1>. DEFINE g == Named(f, y[1])
<1>b. /\ g \in Levels /\ g.fn = "object" /\ g.out = ObjectOf(l) /\ ~g.trailing /\ g.key = y[1]
  BY <1>9, <1>11, ChangedLevels
<1>13. c[j] = Absorb(Append(s, g), y[2])
  <2>2. Finds(c, "member", k, j, y)
    BY <1>3 DEF FindsAll
  <2>. QED
    BY <1>11, <2>2 DEF Finds
<1>. HIDE DEF g
<1>12. ~HasKey(g.out, g.key) /\ Grown(g, y[2]) = ObjectLevel(x)
  BY <1>9, <1>a, <1>b, GrownObjectLevels
<1>14. Absorb(Append(s, g), y[2]) = Expects("member_end", Append(s, Grown(g, y[2])))
  BY <1>b, <1>12, AbsorbsInto
<1>. QED
  BY <1>12, <1>13, <1>14

\* Whatever the grammar finds in a piece, the reader finds.
LEMMA ReaderFinds ==
  ASSUME NEW w, NEW o, NEW c, NEW m, Follows(w, o, c, m)
  PROVE  \A sort \in Sorts : \A i, j \in 0 .. Len(w) : FindsAll(c, m, sort, i, j)
<1>. DEFINE OK(x) == FindsAll(c, m, x[1], x[2], x[3])
            S == {n \in Nat : \A x \in Pieces(w) : Rank(x) = n => OK(x)}
<1>1. Len(w) \in Nat
  BY LengthIsNat
<1>2. ASSUME NEW n \in Nat, \A k \in Nat : k < n => k \in S PROVE n \in S
  <2>1. SUFFICES ASSUME NEW sort \in Sorts, NEW i \in 0 .. Len(w), NEW j \in 0 .. Len(w),
                        Rank(<<sort, i, j>>) = n
                 PROVE  FindsAll(c, m, sort, i, j)
    <3>1. ASSUME NEW x \in Pieces(w)
          PROVE  x[1] \in Sorts /\ x[2] \in 0 .. Len(w) /\ x[3] \in 0 .. Len(w)
                   /\ x = <<x[1], x[2], x[3]>>
      BY DEF Pieces
    <3>. QED
      BY <1>2, <2>1, <3>1
  <2>2. ASSUME NEW t, NEW a, NEW b, <<t, a, b>> \in Lower(w, <<sort, i, j>>)
        PROVE  FindsAll(c, m, t, a, b)
    <3>. DEFINE y == <<t, a, b>>
    <3>1. y \in Pieces(w) /\ Rank(y) < n /\ Rank(y) \in Nat
      BY <1>1, <2>1, <2>2, RankIsNat DEF Lower
    <3>2. Rank(y) \in S
      BY <1>2, <3>1
    <3>3. OK(y)
      BY <3>1, <3>2
    <3>. QED
      BY <3>3
  <2>3. SUFFICES ASSUME NEW x \in m[<<sort, i, j>>] PROVE Finds(c, sort, i, j, x)
    BY DEF FindsAll
  <2>0. Denoted(w, o, m, i, j)
    BY PiecesDenote
  <2>4. CASE sort = "value"
    <3>0. x \in ValuesOf(w, o, m, i, j)
      BY <2>0, <2>3, <2>4 DEF Denoted
    <3>1. CASE j = i + 1
      BY <2>3, <2>4, <3>1, ScalarIsFound
    <3>2. ASSUME NEW list \in {"values", "members"}, i + 2 <= j
          PROVE  /\ FindsAll(c, m, list, i + 1, j - 1)
                 /\ i + 1 < j - 1 => FindsAll(c, m, list, i + 1, (j - 1) - 1)
      BY <1>1, <2>2, <2>4, <3>2, LowerPieces
    <3>3. CASE j # i + 1 /\ Brackets(w, i, j, "array_begin", "array_end")
      <4>1. PICK vs \in Enclosed(w, o, m, "values", i + 1, j - 1) : x = ArrayOf(vs)
        BY <3>0, <3>3 DEF ValuesOf, Brackets
      <4>2. i + 2 <= j
        BY <3>3 DEF Brackets
      <4>3. Finds(c, "value", i, j, ArrayOf(vs))
        BY <3>2, <3>3, <4>2, ArrayIsFound
      <4>. QED
        BY <2>4, <4>1, <4>3
    <3>4. CASE j # i + 1 /\ Brackets(w, i, j, "object_begin", "object_end")
      <4>1. PICK ms \in Enclosed(w, o, m, "members", i + 1, j - 1) : DistinctKeys(ms)
                 /\ x = ObjectOf(ms)
        BY <3>0, <3>4 DEF ValuesOf, Brackets
      <4>2. i + 2 <= j
        BY <3>4 DEF Brackets
      <4>3. Finds(c, "value", i, j, ObjectOf(ms))
        BY <3>2, <3>4, <4>1, <4>2, ObjectIsFound
      <4>. QED
        BY <2>4, <4>1, <4>3
    <3>. QED
      BY <3>0, <3>1, <3>3, <3>4 DEF ValuesOf
  <2>5. CASE sort = "member"
    <3>1. i + 2 < j => FindsAll(c, m, "value", i + 2, j)
      BY <1>1, <2>2, <2>5, LowerPieces
    <3>2. x \in m[<<"member", i, j>>]
      BY <2>3, <2>5
    <3>. QED
      BY <2>5, <3>1, <3>2, MemberIsFound
  <2>6. ASSUME NEW list \in {"values", "members"}, sort = list
        PROVE  \A k \in i .. j - 1 :
                 /\ FindsAll(c, m, "value", k, j) /\ FindsAll(c, m, "member", k, j)
                 /\ k # i => FindsAll(c, m, list, i, k - 1)
    BY <1>1, <2>2, <2>6, LowerPieces
  <2>7. CASE sort = "values"
    <3>1. x \in m[<<"values", i, j>>]
      BY <2>3, <2>7
    <3>. QED
      BY <2>6, <2>7, <3>1, ValuesAreFound
  <2>8. CASE sort = "members"
    <3>1. x \in m[<<"members", i, j>>]
      BY <2>3, <2>8
    <3>. QED
      BY <2>6, <2>8, <3>1, MembersAreFound
  <2>. QED
    BY <2>4, <2>5, <2>7, <2>8 DEF Sorts
<1>3. Nat \subseteq S
  <2>. HIDE DEF S
  <2>. QED
    BY <1>2, InductionBelow
<1>4. ASSUME NEW sort \in Sorts, NEW i \in 0 .. Len(w), NEW j \in 0 .. Len(w)
      PROVE  FindsAll(c, m, sort, i, j)
  <2>. DEFINE x == <<sort, i, j>>
  <2>1. x \in Pieces(w)
    BY DEF Pieces
  <2>2. Rank(x) \in Nat
    BY <1>1, <2>1, RankIsNat
  <2>3. OK(x)
    BY <1>3, <2>1, <2>2
  <2>. QED
    BY <2>3
<1>. QED
  BY <1>4

-----------------------------------------------------------------------------
(* What the reader has read, the grammar finds. *)

\* Where a container reads on once its innermost element or member is complete.
Inner(fn) == IF fn = "array" THEN "item" ELSE "value"

\* The array f, opened by the token after a, has been read up to k and expects what site says.
HeldArray(w, m, f, site, a, k) ==
    /\ w[a + 1].kind = "array_begin"
    /\ \/ /\ site = "item" /\ (f.trailing <=> k # a + 1)
          /\ \E l \in Listed(w, m, "values", a + 1, k) : f.out = ArrayOf(l)
       \/ site = "item_end" /\ \E l \in m[<<"values", a + 1, k>>] : f.out = ArrayOf(l)

Holds(f, l) == DistinctKeys(l) /\ f.out = ObjectOf(l)

KeyRead(w, o, f, k) == w[k].kind = "string" /\ Readable(w[k], o) /\ f.key = w[k].means

HeldObject(w, o, m, f, site, a, k) ==
    /\ w[a + 1].kind = "object_begin"
    /\ \/ /\ site = "key" /\ (f.trailing <=> k # a + 1)
          /\ \E l \in Listed(w, m, "members", a + 1, k) : Holds(f, l)
       \/ /\ site = "colon" /\ a + 1 < k /\ KeyRead(w, o, f, k)
          /\ \E l \in Listed(w, m, "members", a + 1, k - 1) : Holds(f, l)
       \/ /\ site = "value" /\ a + 2 < k /\ KeyRead(w, o, f, k - 1)
          /\ w[k].kind = "object_key_delimiter"
          /\ \E l \in Listed(w, m, "members", a + 1, k - 2) : Holds(f, l)
       \/ site = "member_end" /\ \E l \in m[<<"members", a + 1, k>>] : Holds(f, l)

Held(w, o, m, f, site, a, k) ==
    /\ a < k
    /\ f.fn = "array"  => HeldArray(w, m, f, site, a, k)
    /\ f.fn = "object" => HeldObject(w, o, m, f, site, a, k)

\* The containers s have been read up to k, each up to the opening of the next one.
Suspended(w, o, m, s, k) ==
    \E p \in [1 .. Len(s) + 1 -> Nat] :
       /\ p[1] = 0 /\ p[Len(s) + 1] = k
       /\ \A i \in 1 .. Len(s) : Held(w, o, m, s[i], Inner(s[i].fn), p[i], p[i + 1])

\* The state c of the reader is right after n tokens.
ExplainedEnd(w, o, m, n, c) ==
    \E i \in 0 .. n : \E v \in m[<<"value", 0, i>>] :
       c = Ended(v) /\ \A j \in i + 1 .. n : o.complete_parse /\ w[j].nul

ExplainedLevel(w, o, m, n, c) ==
    \E s \in Seq(Levels), f \in Levels, site \in Inside \cup {"value"}, a \in 0 .. n :
       /\ c = Expects(site, Append(s, f))
       /\ Suspended(w, o, m, s, a) /\ Held(w, o, m, f, site, a, n)

Explained(w, o, m, n, c) ==
    \/ c = Failed
    \/ ExplainedEnd(w, o, m, n, c)
    \/ n = 0 /\ c = Expects("value", <<>>)
    \/ ExplainedLevel(w, o, m, n, c)

\* With nothing open, nothing is suspended.
LEMMA NothingSuspended ==
  ASSUME NEW w, NEW o, NEW m, NEW k
  PROVE  Suspended(w, o, m, <<>>, k) <=> k = 0
<1>1. Len(<<>>) = 0
  OBVIOUS
<1>2. ASSUME Suspended(w, o, m, <<>>, k) PROVE k = 0
  BY <1>1, <1>2 DEF Suspended
<1>3. ASSUME k = 0 PROVE Suspended(w, o, m, <<>>, k)
  <2>. DEFINE p == [i \in 1 .. Len(<<>>) + 1 |-> 0]
  <2>1. p \in [1 .. Len(<<>>) + 1 -> Nat] /\ p[1] = 0 /\ p[Len(<<>>) + 1] = k
    BY <1>1, <1>3
  <2>2. 1 .. Len(<<>>) = {}
    BY <1>1
  <2>. QED
    BY <2>1, <2>2 DEF Suspended
<1>. QED
  BY <1>2, <1>3

\* One container more is open: the others stay suspended.
LEMMA OneMoreSuspended ==
  ASSUME NEW w, NEW o, NEW m, NEW s \in Seq(Levels), NEW f \in Levels, NEW k \in Nat
  PROVE  Suspended(w, o, m, Append(s, f), k) <=>
           \E a \in Nat : Suspended(w, o, m, s, a) /\ Held(w, o, m, f, Inner(f.fn), a, k)
<1>. DEFINE t == Append(s, f)
            N == Len(s)
            H(g, a, b) == Held(w, o, m, g, Inner(g.fn), a, b)
<1>1. /\ N \in Nat /\ Len(t) = N + 1 /\ t[N + 1] = f /\ \A i \in 1 .. N : t[i] = s[i]
  BY AppendProperties
<1>2. /\ \A i \in 1 .. N : i \in 1 .. N + 1 /\ i + 1 \in 1 .. N + 1 /\ i \in 1 .. (N + 1) + 1
                           /\ i + 1 \in 1 .. (N + 1) + 1 /\ i # (N + 1) + 1 /\ i + 1 # (N + 1) + 1
      /\ N + 1 \in 1 .. N + 1 /\ N + 1 \in 1 .. (N + 1) + 1 /\ (N + 1) + 1 \in 1 .. (N + 1) + 1
      /\ N + 1 # (N + 1) + 1 /\ 1 \in 1 .. N + 1 /\ 1 # (N + 1) + 1 /\ 1 \in 1 .. (N + 1) + 1
      /\ \A i \in 1 .. N + 1 : i \in 1 .. (N + 1) + 1 /\ i # (N + 1) + 1
          /\ (i = N + 1 \/ i \in 1 .. N)
      /\ \A i \in 1 .. (N + 1) + 1 : i = (N + 1) + 1 \/ i \in 1 .. N + 1
  BY <1>1
<1>3. Suspended(w, o, m, s, k) <=> Suspended(w, o, m, s, k)
  OBVIOUS
<1>. HIDE DEF t, N
<1>4. \A a : Suspended(w, o, m, s, a) <=>
               \E p \in [1 .. N + 1 -> Nat] :
                  p[1] = 0 /\ p[N + 1] = a /\ \A i \in 1 .. N : H(s[i], p[i], p[i + 1])
  BY DEF Suspended, N
<1>5. Suspended(w, o, m, t, k) <=>
               \E p \in [1 .. (N + 1) + 1 -> Nat] :
                  /\ p[1] = 0 /\ p[(N + 1) + 1] = k
                  /\ \A i \in 1 .. N + 1 : H(t[i], p[i], p[i + 1])
  BY <1>1 DEF Suspended
<1>. HIDE DEF H
<1>6. ASSUME Suspended(w, o, m, t, k)
      PROVE  \E a \in Nat : Suspended(w, o, m, s, a) /\ H(f, a, k)
  <2>1. PICK p \in [1 .. (N + 1) + 1 -> Nat] :
               /\ p[1] = 0 /\ p[(N + 1) + 1] = k
               /\ \A i \in 1 .. N + 1 : H(t[i], p[i], p[i + 1])
    BY <1>5, <1>6
  <2>. DEFINE q == [i \in 1 .. N + 1 |-> p[i]]
  <2>2. /\ q \in [1 .. N + 1 -> Nat] /\ q[1] = 0 /\ q[N + 1] = p[N + 1] /\ p[N + 1] \in Nat
        /\ \A i \in 1 .. N : q[i] = p[i] /\ q[i + 1] = p[i + 1]
    BY <1>2, <2>1
  <2>. HIDE DEF q
  <2>3. Suspended(w, o, m, s, p[N + 1])
    <3>1. \A i \in 1 .. N : H(s[i], q[i], q[i + 1])
      BY <1>1, <1>2, <2>1, <2>2
    <3>. QED
      BY <1>4, <2>2, <3>1
  <2>4. H(f, p[N + 1], k)
    BY <1>1, <1>2, <2>1
  <2>. QED
    BY <2>2, <2>3, <2>4
<1>7. ASSUME NEW a \in Nat, Suspended(w, o, m, s, a), H(f, a, k)
      PROVE  Suspended(w, o, m, t, k)
  <2>1. PICK q \in [1 .. N + 1 -> Nat] :
               q[1] = 0 /\ q[N + 1] = a /\ \A i \in 1 .. N : H(s[i], q[i], q[i + 1])
    BY <1>4, <1>7
  <2>. DEFINE p == [i \in 1 .. (N + 1) + 1 |-> IF i = (N + 1) + 1 THEN k ELSE q[i]]
  <2>2. /\ p \in [1 .. (N + 1) + 1 -> Nat] /\ p[1] = 0 /\ p[(N + 1) + 1] = k /\ p[N + 1] = a
        /\ \A i \in 1 .. N : p[i] = q[i] /\ p[i + 1] = q[i + 1]
    BY <1>2, <2>1
  <2>. HIDE DEF p
  <2>3. ASSUME NEW i \in 1 .. N + 1 PROVE H(t[i], p[i], p[i + 1])
    <3>1. CASE i = N + 1
      BY <1>1, <1>7, <2>2, <3>1
    <3>2. CASE i \in 1 .. N
      BY <1>1, <2>1, <2>2, <3>2
    <3>. QED
      BY <1>2, <3>1, <3>2
  <2>. QED
    BY <1>5, <2>2, <2>3
<1>. QED
  BY <1>6, <1>7 DEF t, H

\* A list of the grammar with one more element.
LEMMA OneMoreListed ==
  ASSUME NEW w, NEW o, NEW c, NEW m, Follows(w, o, c, m),
         NEW i \in 0 .. Len(w), NEW j \in 0 .. Len(w), NEW k \in i .. j - 1, NEW e, NEW l
  PROVE  /\ l \in Listed(w, m, "values", i, k) /\ e \in m[<<"value", k, j>>]
              => Append(l, e) \in m[<<"values", i, j>>] /\ l \in Seq(Rooted) /\ e \in Rooted
         /\ l \in Listed(w, m, "members", i, k) /\ e \in m[<<"member", k, j>>]
              => Append(l, e) \in m[<<"members", i, j>>] /\ l \in Seq(Pairs) /\ e \in Pairs
<1>0. Denoted(w, o, m, i, j)
  BY PiecesDenote
<1>1. k \in 0 .. Len(w) /\ (k # i => k - 1 \in 0 .. Len(w))
  BY LengthIsNat
<1>2. Denoted(w, o, m, k, j) /\ (k # i => Denoted(w, o, m, i, k - 1))
  BY <1>1, PiecesDenote
<1>3. ASSUME NEW ls, NEW es, l \in ls, e \in es PROVE Append(l, e) \in Extended(ls, es)
  BY <1>3 DEF Extended
<1>4. ASSUME NEW list, l \in Listed(w, m, list, i, k) PROVE k \in Starts(w, i, j)
  BY <1>4 DEF Listed, Starts
<1>5. ASSUME NEW list, NEW element, l \in Listed(w, m, list, i, k), e \in m[<<element, k, j>>]
      PROVE  Append(l, e) \in Lists(w, m, list, element, i, j)
  <2>1. Append(l, e) \in Extended(Listed(w, m, list, i, k), m[<<element, k, j>>])
    BY <1>3, <1>5
  <2>2. k \in Starts(w, i, j)
    BY <1>4, <1>5
  <2>. QED
    BY <2>1, <2>2, InLists
<1>6. ASSUME l \in Listed(w, m, "values", i, k), e \in m[<<"value", k, j>>]
      PROVE  Append(l, e) \in m[<<"values", i, j>>] /\ l \in Seq(Rooted) /\ e \in Rooted
  <2>1. Append(l, e) \in m[<<"values", i, j>>]
    BY <1>0, <1>5, <1>6 DEF Denoted
  <2>2. e \in Rooted
    BY <1>2, <1>6 DEF Denoted
  <2>3. l \in Seq(Rooted)
    BY <1>2, <1>6, EmptyContainers DEF Denoted, Listed
  <2>. QED
    BY <2>1, <2>2, <2>3
<1>7. ASSUME l \in Listed(w, m, "members", i, k), e \in m[<<"member", k, j>>]
      PROVE  Append(l, e) \in m[<<"members", i, j>>] /\ l \in Seq(Pairs) /\ e \in Pairs
  <2>1. Append(l, e) \in m[<<"members", i, j>>]
    BY <1>0, <1>5, <1>7 DEF Denoted
  <2>2. e \in Pairs
    BY <1>2, <1>7 DEF Denoted
  <2>3. l \in Seq(Pairs)
    BY <1>2, <1>7, EmptyContainers DEF Denoted, Listed
  <2>. QED
    BY <2>1, <2>2, <2>3
<1>. QED
  BY <1>6, <1>7

\* Only a piece with tokens in it denotes anything.
LEMMA PiecesHaveTokens ==
  ASSUME NEW w, NEW o, NEW c, NEW m, Follows(w, o, c, m),
         NEW i \in 0 .. Len(w), NEW j \in 0 .. Len(w)
  PROVE  /\ m[<<"value", i, j>>] # {} => i < j
         /\ m[<<"values", i, j>>] # {} => i < j
         /\ m[<<"members", i, j>>] # {} => i < j
<1>0. Denoted(w, o, m, i, j) /\ Len(w) \in Nat
  BY PiecesDenote, LengthIsNat
<1>1. ASSUME i >= j PROVE ValuesOf(w, o, m, i, j) = {}
  BY <1>0, <1>1 DEF ValuesOf, Brackets
<1>2. ASSUME i >= j, NEW list, NEW element PROVE Lists(w, m, list, element, i, j) = {}
  <2>1. Starts(w, i, j) = {}
    BY <1>0, <1>2 DEF Starts
  <2>. QED
    BY <2>1, InLists
<1>. QED
  BY <1>0, <1>1, <1>2 DEF Denoted

\* What the reader makes of a value that the grammar finds after the containers s.
LEMMA AbsorbIsExplained ==
  ASSUME NEW w, NEW o, NEW c, NEW m, Follows(w, o, c, m),
         NEW k \in 0 .. Len(w), NEW n \in 0 .. Len(w), NEW s \in Seq(Levels),
         Suspended(w, o, m, s, k), NEW v \in m[<<"value", k, n>>]
  PROVE  Explained(w, o, m, n, Absorb(s, v))
<1>0. k < n /\ Len(w) \in Nat /\ v \in Rooted /\ v \in Trees
  <2>1. Denoted(w, o, m, k, n)
    BY PiecesDenote
  <2>2. v \in Rooted
    BY <2>1 DEF Denoted
  <2>. QED
    BY <2>2, PiecesHaveTokens, LengthIsNat DEF Rooted
<1>1. CASE s = <<>>
  <2>1. k = 0
    BY <1>1, NothingSuspended
  <2>2. Absorb(s, v) = Ended(v)
    BY <1>1 DEF Absorb
  <2>3. ExplainedEnd(w, o, m, n, Ended(v))
    <3>1. v \in m[<<"value", 0, n>>]
      BY <2>1
    <3>2. n \in 0 .. n /\ \A j : j \notin n + 1 .. n
      BY <1>0
    <3>. DEFINE e == Ended(v)
    <3>. HIDE DEF e
    <3>3. \E i \in 0 .. n : \E x \in m[<<"value", 0, i>>] :
             Ended(v) = Ended(x) /\ \A j \in i + 1 .. n : o.complete_parse /\ w[j].nul
      BY <3>1, <3>2
    <3>. QED
      BY <3>3 DEF ExplainedEnd
  <2>. QED
    BY <2>2, <2>3 DEF Explained
<1>2. CASE s # <<>>
  <2>1. PICK t \in Seq(Levels), f \in Levels : s = Append(t, f)
    BY <1>2, PoppedLevel
  <2>2. PICK a \in Nat : Suspended(w, o, m, t, a) /\ Held(w, o, m, f, Inner(f.fn), a, k)
    BY <2>1, OneMoreSuspended
  <2>3. a < k /\ a \in 0 .. n /\ a + 1 \in 0 .. Len(w) /\ k \in a + 1 .. n - 1
    BY <1>0, <2>2 DEF Held
  <2>. DEFINE g == Grown(f, v)
  <2>4. g \in Levels /\ g.fn = f.fn
    BY <1>0, GrownIsALevel DEF Grown, Levels
  <2>5. ASSUME NEW site \in Inside, Held(w, o, m, g, site, a, n)
        PROVE  Explained(w, o, m, n, Expects(site, Append(t, g)))
    <3>. HIDE DEF g
    <3>1. site \in Inside \cup {"value"}
      OBVIOUS
    <3>2. ExplainedLevel(w, o, m, n, Expects(site, Append(t, g)))
      BY <2>2, <2>3, <2>4, <2>5, <3>1 DEF ExplainedLevel
    <3>. QED
      BY <3>2 DEF Explained
  <2>6. CASE f.fn = "array"
    <3>1. HeldArray(w, m, f, "item", a, k)
      BY <2>2, <2>6 DEF Held, Inner
    <3>2. PICK l \in Listed(w, m, "values", a + 1, k) : f.out = ArrayOf(l)
      BY <3>1 DEF HeldArray
    <3>3. Append(l, v) \in m[<<"values", a + 1, n>>] /\ l \in Seq(Rooted)
      BY <2>3, OneMoreListed
    <3>4. g.out = ArrayOf(Append(l, v))
      <4>1. PushBack(ArrayOf(l), v) = ArrayOf(Append(l, v))
        BY <1>0, <3>3, PushBackOnArray
      <4>2. g.out = PushBack(f.out, v)
        BY <2>6 DEF Grown, Levels
      <4>. QED
        BY <3>2, <4>1, <4>2
    <3>. HIDE DEF g
    <3>5. HeldArray(w, m, g, "item_end", a, n)
      BY <3>1, <3>3, <3>4 DEF HeldArray
    <3>6. Held(w, o, m, g, "item_end", a, n)
      BY <1>0, <2>3, <2>4, <2>6, <3>5 DEF Held
    <3>7. Absorb(s, v) = Expects("item_end", Append(t, g))
      BY <2>1, <2>6, AbsorbsInto DEF g
    <3>. QED
      BY <2>5, <3>6, <3>7 DEF Inside
  <2>7. CASE f.fn = "object"
    <3>1. HeldObject(w, o, m, f, "value", a, k)
      BY <2>2, <2>7 DEF Held, Inner
    <3>2. /\ a + 2 < k /\ KeyRead(w, o, f, k - 1) /\ w[k].kind = "object_key_delimiter"
          /\ \E l \in Listed(w, m, "members", a + 1, k - 2) : Holds(f, l)
      BY <3>1 DEF HeldObject
    <3>3. PICK l \in Listed(w, m, "members", a + 1, k - 2) : Holds(f, l)
      BY <3>2
    <3>4. k - 2 \in a + 1 .. n - 1 /\ k - 2 \in 0 .. Len(w) /\ (k - 2) + 1 = k - 1
          /\ (k - 2) + 2 = k /\ k - 1 \in 1 .. Len(w)
      BY <1>0, <2>3, <3>2
    <3>5. f.key \in Text /\ f.key = w[k - 1].means
      BY <3>2, <3>4, ReaderGoesOn DEF KeyRead
    <3>. DEFINE e == <<w[k - 1].means, v>>
    <3>6. e \in m[<<"member", k - 2, n>>]
      <4>1. Denoted(w, o, m, k - 2, n)
        BY <3>4, PiecesDenote
      <4>2. m[<<"member", k - 2, n>>] = MembersOfPiece(w, o, m, k - 2, n)
        BY <4>1 DEF Denoted
      <4>3. Brackets(w, k - 2, (k - 2) + 2, "string", "object_key_delimiter")
        <5>1. w[k - 1].kind = "string" /\ w[k].kind = "object_key_delimiter"
          BY <3>2 DEF KeyRead
        <5>2. (k - 2) + 2 <= (k - 2) + 2 /\ (k - 2) + 1 = k - 1 /\ (k - 2) + 2 = k
          BY <3>4
        <5>. QED
          BY <5>1, <5>2, Zenon DEF Brackets
      <4>4. (k - 2) + 2 < n /\ Readable(w[(k - 2) + 1], o)
        BY <1>0, <3>2, <3>4 DEF KeyRead
      <4>5. MembersOfPiece(w, o, m, k - 2, n)
            = {<<w[(k - 2) + 1].means, x>> : x \in m[<<"value", (k - 2) + 2, n>>]}
        BY <4>3, <4>4 DEF MembersOfPiece
      <4>. QED
        BY <3>4, <4>2, <4>5
    <3>7. Append(l, e) \in m[<<"members", a + 1, n>>] /\ l \in Seq(Pairs)
      <4>. HIDE DEF e
      <4>. QED
        BY <2>3, <3>4, <3>6, OneMoreListed
    <3>8. CASE HasKey(f.out, f.key)
      <4>1. Absorb(s, v) = Failed
        BY <2>1, <2>7, <3>8, AbsorbsInto
      <4>. QED
        BY <4>1 DEF Explained
    <3>9. CASE ~HasKey(f.out, f.key)
      <4>1. DistinctKeys(l) /\ f.out = ObjectOf(l)
        BY <3>3 DEF Holds
      <4>2. \A i \in 1 .. Len(l) : l[i][1] # f.key
        BY <3>5, <3>7, <3>9, <4>1, KeysOfObject
      <4>3. /\ DistinctKeys(Append(l, <<f.key, v>>))
            /\ PutMember(ObjectOf(l), f.key, v) = ObjectOf(Append(l, <<f.key, v>>))
        BY <1>0, <3>5, <3>7, <4>1, <4>2, PutOnObject
      <4>4. g.out = PutMember(f.out, f.key, v)
        BY <2>7 DEF Grown, Levels
      <4>5. Holds(g, Append(l, e))
        BY <3>5, <4>1, <4>3, <4>4 DEF Holds
      <4>. HIDE DEF g, e
      <4>6. HeldObject(w, o, m, g, "member_end", a, n)
        BY <3>1, <3>7, <4>5 DEF HeldObject
      <4>7. Held(w, o, m, g, "member_end", a, n)
        BY <1>0, <2>3, <2>4, <2>7, <4>6 DEF Held
      <4>8. Absorb(s, v) = Expects("member_end", Append(t, g))
        BY <2>1, <2>7, <3>9, AbsorbsInto DEF g
      <4>. QED
        BY <2>5, <4>7, <4>8 DEF Inside
    <3>. QED
      BY <3>8, <3>9
  <2>. QED
    BY <2>6, <2>7 DEF Levels, ContainerKinds
<1>. QED
  BY <1>1, <1>2

\* What the reader makes of the first token of a value after the containers s.
LEMMA BeginningIsExplained ==
  ASSUME NEW w, NEW o, NEW c, NEW m, Follows(w, o, c, m),
         NEW n \in 1 .. Len(w), NEW s \in Seq(Levels), Suspended(w, o, m, s, n - 1)
  PROVE  Explained(w, o, m, n, BeginsValue(o, s, w[n]))
<1>0. /\ Len(w) \in Nat /\ n - 1 \in 0 .. Len(w) /\ n \in 0 .. Len(w) /\ (n - 1) + 1 = n
      /\ n - 1 < n /\ n - 1 \in 0 .. n
  BY LengthIsNat
<1>1. CASE w[n].kind \in ScalarKinds
  <2>. DEFINE v == Leaf(Label(w[n].kind, w[n].means))
  <2>1. ASSUME Readable(w[n], o) PROVE v \in m[<<"value", n - 1, n>>]
    <3>1. Denoted(w, o, m, n - 1, n)
      BY <1>0, PiecesDenote
    <3>2. m[<<"value", n - 1, n>>] = ValuesOf(w, o, m, n - 1, n)
      BY <3>1 DEF Denoted
    <3>3. ValuesOf(w, o, m, n - 1, n) = IF Readable(w[n], o) THEN {v} ELSE {}
      BY <1>0 DEF ValuesOf, Brackets
    <3>. HIDE DEF v
    <3>. QED
      BY <2>1, <3>2, <3>3
  <2>2. BeginsValue(o, s, w[n]) = IF Readable(w[n], o) THEN Absorb(s, v) ELSE Failed
    BY <1>1 DEF BeginsValue, ScalarKinds
  <2>. HIDE DEF v
  <2>3. Readable(w[n], o) => Explained(w, o, m, n, Absorb(s, v))
    BY <1>0, <2>1, AbsorbIsExplained
  <2>. QED
    BY <2>2, <2>3 DEF Explained
<1>2. ASSUME NEW f \in Levels, NEW site \in Inside, Held(w, o, m, f, site, n - 1, n)
      PROVE  Explained(w, o, m, n, Expects(site, Append(s, f)))
  <2>1. ExplainedLevel(w, o, m, n, Expects(site, Append(s, f)))
    BY <1>0, <1>2 DEF ExplainedLevel
  <2>. QED
    BY <2>1 DEF Explained
<1>3. CASE w[n].kind = "array_begin"
  <2>. DEFINE f == Opening("array", EmptyArray)
  <2>1. f \in Levels /\ f.fn = "array" /\ f.out = ArrayOf(<<>>) /\ f.trailing = FALSE
    BY OpeningTypes, EmptyContainers DEF Opening
  <2>2. BeginsValue(o, s, w[n]) = Expects("item", Append(s, f))
    BY <1>3 DEF BeginsValue, ScalarKinds
  <2>. HIDE DEF f
  <2>3. <<>> \in Listed(w, m, "values", (n - 1) + 1, n)
    BY <1>0 DEF Listed
  <2>4. HeldArray(w, m, f, "item", n - 1, n)
    BY <1>0, <1>3, <2>1, <2>3 DEF HeldArray
  <2>5. Held(w, o, m, f, "item", n - 1, n)
    BY <1>0, <2>1, <2>4 DEF Held
  <2>. QED
    BY <1>2, <2>1, <2>2, <2>5 DEF Inside
<1>4. CASE w[n].kind = "object_begin"
  <2>. DEFINE f == Opening("object", EmptyObject)
  <2>1. f \in Levels /\ f.fn = "object" /\ Holds(f, <<>>) /\ f.trailing = FALSE
    BY OpeningTypes, EmptyContainers DEF Opening, Holds
  <2>2. BeginsValue(o, s, w[n]) = Expects("key", Append(s, f))
    BY <1>4 DEF BeginsValue, ScalarKinds
  <2>. HIDE DEF f
  <2>3. <<>> \in Listed(w, m, "members", (n - 1) + 1, n)
    BY <1>0 DEF Listed
  <2>4. HeldObject(w, o, m, f, "key", n - 1, n)
    BY <1>0, <1>4, <2>1, <2>3 DEF HeldObject
  <2>5. Held(w, o, m, f, "key", n - 1, n)
    BY <1>0, <2>1, <2>4 DEF Held
  <2>. QED
    BY <1>2, <2>1, <2>2, <2>5 DEF Inside
<1>5. CASE w[n].kind \notin ScalarKinds \cup {"array_begin", "object_begin"}
  BY <1>5 DEF BeginsValue, Explained
<1>. QED
  BY <1>1, <1>3, <1>4, <1>5

\* What the reader makes of the end of a container.
LEMMA ClosingIsExplained ==
  ASSUME NEW w, NEW o, NEW c, NEW m, Follows(w, o, c, m), NEW a \in 0 .. Len(w),
         NEW n \in 1 .. Len(w), a + 2 <= n, NEW s \in Seq(Levels), Suspended(w, o, m, s, a)
  PROVE  /\ \A vs \in Enclosed(w, o, m, "values", a + 1, n - 1) :
              w[a + 1].kind = "array_begin" /\ w[n].kind = "array_end"
                 => Explained(w, o, m, n, Absorb(s, ArrayOf(vs)))
         /\ \A ms \in Enclosed(w, o, m, "members", a + 1, n - 1) :
              DistinctKeys(ms) /\ w[a + 1].kind = "object_begin" /\ w[n].kind = "object_end"
                 => Explained(w, o, m, n, Absorb(s, ObjectOf(ms)))
<1>0. Len(w) \in Nat /\ n \in 0 .. Len(w) /\ n # a + 1
  BY LengthIsNat
<1>1. m[<<"value", a, n>>] = ValuesOf(w, o, m, a, n)
  <2>1. Denoted(w, o, m, a, n)
    BY <1>0, PiecesDenote
  <2>. QED
    BY <2>1 DEF Denoted
<1>2. ASSUME NEW vs \in Enclosed(w, o, m, "values", a + 1, n - 1),
             w[a + 1].kind = "array_begin", w[n].kind = "array_end"
      PROVE  Explained(w, o, m, n, Absorb(s, ArrayOf(vs)))
  <2>1. ValuesOf(w, o, m, a, n) = {ArrayOf(x) : x \in Enclosed(w, o, m, "values", a + 1, n - 1)}
    BY <1>0, <1>2 DEF ValuesOf, Brackets
  <2>2. ArrayOf(vs) \in m[<<"value", a, n>>]
    BY <1>1, <1>2, <2>1
  <2>. QED
    BY <1>0, <2>2, AbsorbIsExplained
<1>3. ASSUME NEW ms \in Enclosed(w, o, m, "members", a + 1, n - 1), DistinctKeys(ms),
             w[a + 1].kind = "object_begin", w[n].kind = "object_end"
      PROVE  Explained(w, o, m, n, Absorb(s, ObjectOf(ms)))
  <2>1. ValuesOf(w, o, m, a, n) = {ObjectOf(x) :
           x \in {x \in Enclosed(w, o, m, "members", a + 1, n - 1) : DistinctKeys(x)}}
    BY <1>0, <1>3 DEF ValuesOf, Brackets
  <2>2. ObjectOf(ms) \in m[<<"value", a, n>>]
    BY <1>1, <1>3, <2>1
  <2>. QED
    BY <1>0, <2>2, AbsorbIsExplained
<1>. QED
  BY <1>2, <1>3

\* A list that is not cut off is one that brackets may enclose, and so is, where a separator
\* may come before the bracket, one that goes on.
LEMMA EnclosedLists ==
  ASSUME NEW w, NEW o, NEW c, NEW m, Follows(w, o, c, m), NEW list \in {"values", "members"},
         NEW i \in 0 .. Len(w), NEW j \in 0 .. Len(w), NEW l
  PROVE  /\ l \in m[<<list, i, j>>] => l \in Enclosed(w, o, m, list, i, j)
         /\ l \in Listed(w, m, list, i, j) /\ (i # j => i < j /\ o.comma_policy = "allow_trailing")
              => l \in Enclosed(w, o, m, list, i, j)
<1>1. ASSUME l \in m[<<list, i, j>>] PROVE l \in Enclosed(w, o, m, list, i, j)
  <2>1. i < j
    BY <1>1, PiecesHaveTokens
  <2>. QED
    BY <1>1, <2>1 DEF Enclosed
<1>2. ASSUME l \in Listed(w, m, list, i, j), i # j => i < j /\ o.comma_policy = "allow_trailing"
      PROVE  l \in Enclosed(w, o, m, list, i, j)
  <2>1. CASE i = j
    BY <1>2, <2>1 DEF Listed, Enclosed
  <2>2. CASE i # j
    <3>1. w[j].kind = "separator" /\ l \in m[<<list, i, j - 1>>]
      BY <1>2, <2>2 DEF Listed
    <3>. QED
      BY <1>2, <2>2, <3>1 DEF Enclosed
  <2>. QED
    BY <2>1, <2>2
<1>. QED
  BY <1>1, <1>2

\* One token taken in an array.
LEMMA ArrayStepIsExplained ==
  ASSUME NEW w, NEW o, NEW c, NEW m, Follows(w, o, c, m), NEW n \in 1 .. Len(w),
         NEW s \in Seq(Levels), NEW f \in Levels, NEW site \in {"item", "item_end"},
         NEW a \in 0 .. n - 1,
         Suspended(w, o, m, s, a), Held(w, o, m, f, site, a, n - 1)
  PROVE  Explained(w, o, m, n, Takes(o, Expects(site, Append(s, f)), w[n]))
<1>0. /\ Len(w) \in Nat /\ a < n - 1 /\ a + 1 \in 0 .. Len(w) /\ n - 1 \in 0 .. Len(w)
      /\ a + 2 <= n /\ a \in 0 .. n /\ n # a + 1 /\ a \in 0 .. Len(w) /\ a + 1 <= n - 1
      /\ a \in Nat /\ n - 1 \in Nat
  BY LengthIsNat DEF Held
<1>1. f.fn = "array" /\ HeldArray(w, m, f, site, a, n - 1)
  BY DEF Held, HeldObject, Levels, ContainerKinds
<1>2. w[a + 1].kind = "array_begin"
  BY <1>1 DEF HeldArray
<1>3. Explained(w, o, m, n, Failed)
  BY DEF Explained
<1>4. ASSUME NEW l \in Enclosed(w, o, m, "values", a + 1, n - 1), f.out = ArrayOf(l),
             w[n].kind = "array_end"
      PROVE  Explained(w, o, m, n, Absorb(s, f.out))
  BY <1>0, <1>2, <1>4, ClosingIsExplained
<1>5. CASE site = "item"
  <2>1. PICK l \in Listed(w, m, "values", a + 1, n - 1) : f.out = ArrayOf(l)
    BY <1>1, <1>5 DEF HeldArray
  <2>2. f.trailing <=> n - 1 # a + 1
    BY <1>1, <1>5 DEF HeldArray
  <2>3. CASE w[n].kind = "array_end"
    <3>1. CASE f.trailing /\ o.comma_policy # "allow_trailing"
      BY <1>3, <1>5, <2>3, <3>1, TakesItem
    <3>2. CASE ~(f.trailing /\ o.comma_policy # "allow_trailing")
      <4>1. l \in Enclosed(w, o, m, "values", a + 1, n - 1)
        <5>1. a + 1 # n - 1 => a + 1 < n - 1 /\ o.comma_policy = "allow_trailing"
          BY <1>0, <2>2, <3>2
        <5>. QED
          BY <1>0, <2>1, <5>1, EnclosedLists
      <4>2. Explained(w, o, m, n, Absorb(s, f.out))
        BY <1>4, <2>1, <2>3, <4>1
      <4>. QED
        BY <1>5, <2>3, <3>2, <4>2, TakesItem
    <3>. QED
      BY <3>1, <3>2
  <2>4. CASE w[n].kind # "array_end"
    <3>1. Append(s, f) \in Seq(Levels) /\ Suspended(w, o, m, Append(s, f), n - 1)
      <4>1. Held(w, o, m, f, Inner(f.fn), a, n - 1)
        BY <1>1, <1>5 DEF Inner
      <4>. QED
        BY <1>0, <4>1, OneMoreSuspended, PushedLevel
    <3>. DEFINE b == Append(s, f)
    <3>. HIDE DEF b
    <3>2. Explained(w, o, m, n, BeginsValue(o, b, w[n]))
      BY <3>1, BeginningIsExplained DEF b
    <3>. QED
      BY <1>5, <2>4, <3>2, TakesItem DEF b
  <2>. QED
    BY <2>3, <2>4
<1>6. CASE site = "item_end"
  <2>1. PICK l \in m[<<"values", a + 1, n - 1>>] : f.out = ArrayOf(l)
    BY <1>1, <1>6 DEF HeldArray
  <2>2. CASE w[n].kind = "array_end"
    <3>1. l \in Enclosed(w, o, m, "values", a + 1, n - 1)
      BY <1>0, <2>1, EnclosedLists
    <3>2. Explained(w, o, m, n, Absorb(s, f.out))
      BY <1>4, <2>1, <2>2, <3>1
    <3>. QED
      BY <1>6, <2>2, <3>2, TakesItemEnd
  <2>3. CASE w[n].kind = "separator"
    <3>. DEFINE g == Separated(f)
    <3>1. g \in Levels /\ g.fn = "array" /\ g.out = f.out /\ g.trailing
      BY <1>1, ChangedLevels
    <3>. HIDE DEF g
    <3>2. l \in Listed(w, m, "values", a + 1, n)
      BY <1>0, <2>1, <2>3 DEF Listed
    <3>3. HeldArray(w, m, g, "item", a, n)
      BY <1>0, <1>2, <2>1, <3>1, <3>2 DEF HeldArray
    <3>4. Held(w, o, m, g, "item", a, n)
      BY <1>0, <3>1, <3>3 DEF Held
    <3>5. ExplainedLevel(w, o, m, n, Expects("item", Append(s, g)))
      BY <1>0, <3>1, <3>4 DEF ExplainedLevel, Inside
    <3>6. Takes(o, Expects(site, Append(s, f)), w[n]) = Expects("item", Append(s, g))
      BY <1>6, <2>3, TakesItemEnd DEF g
    <3>. QED
      BY <3>5, <3>6 DEF Explained
  <2>4. CASE w[n].kind \notin {"array_end", "separator"}
    BY <1>3, <1>6, <2>4, TakesItemEnd
  <2>. QED
    BY <2>2, <2>3, <2>4
<1>. QED
  BY <1>5, <1>6

\* One token taken in an object.
LEMMA ObjectStepIsExplained ==
  ASSUME NEW w, NEW o, NEW c, NEW m, Follows(w, o, c, m), NEW n \in 1 .. Len(w),
         NEW s \in Seq(Levels), NEW f \in Levels,
         NEW site \in {"key", "colon", "value", "member_end"}, NEW a \in 0 .. n - 1,
         Suspended(w, o, m, s, a), Held(w, o, m, f, site, a, n - 1)
  PROVE  Explained(w, o, m, n, Takes(o, Expects(site, Append(s, f)), w[n]))
<1>0. /\ Len(w) \in Nat /\ a < n - 1 /\ a + 1 \in 0 .. Len(w) /\ n - 1 \in 0 .. Len(w)
      /\ a + 2 <= n /\ a \in 0 .. n /\ n # a + 1 /\ a \in 0 .. Len(w) /\ a + 1 <= n - 1
      /\ a \in Nat /\ n - 1 \in Nat /\ a < n /\ (n - 1) - 1 = n - 2
  BY LengthIsNat DEF Held
<1>1. f.fn = "object" /\ HeldObject(w, o, m, f, site, a, n - 1)
  BY DEF Held, HeldArray, Levels, ContainerKinds
<1>2. w[a + 1].kind = "object_begin"
  BY <1>1 DEF HeldObject
<1>3. Explained(w, o, m, n, Failed)
  BY DEF Explained
<1>4. ASSUME NEW l \in Enclosed(w, o, m, "members", a + 1, n - 1), Holds(f, l),
             w[n].kind = "object_end"
      PROVE  Explained(w, o, m, n, Absorb(s, f.out))
  <2>1. DistinctKeys(l) /\ f.out = ObjectOf(l)
    BY <1>4 DEF Holds
  <2>2. Explained(w, o, m, n, Absorb(s, ObjectOf(l)))
    BY <1>0, <1>2, <1>4, <2>1, ClosingIsExplained
  <2>. QED
    BY <2>1, <2>2
<1>5. ASSUME NEW g \in Levels, g.fn = "object", NEW next \in {"key", "colon", "value"},
             HeldObject(w, o, m, g, next, a, n)
      PROVE  Explained(w, o, m, n, Expects(next, Append(s, g)))
  <2>1. Held(w, o, m, g, next, a, n)
    BY <1>0, <1>5 DEF Held
  <2>2. ExplainedLevel(w, o, m, n, Expects(next, Append(s, g)))
    BY <1>0, <1>5, <2>1 DEF ExplainedLevel, Inside
  <2>. QED
    BY <2>2 DEF Explained
<1>6. CASE site = "key"
  <2>1. PICK l \in Listed(w, m, "members", a + 1, n - 1) : Holds(f, l)
    BY <1>1, <1>6 DEF HeldObject
  <2>2. f.trailing <=> n - 1 # a + 1
    BY <1>1, <1>6 DEF HeldObject
  <2>3. CASE w[n].kind = "object_end"
    <3>1. CASE f.trailing /\ o.comma_policy # "allow_trailing"
      BY <1>3, <1>6, <2>3, <3>1, TakesKey
    <3>2. CASE ~(f.trailing /\ o.comma_policy # "allow_trailing")
      <4>1. l \in Enclosed(w, o, m, "members", a + 1, n - 1)
        <5>1. a + 1 # n - 1 => a + 1 < n - 1 /\ o.comma_policy = "allow_trailing"
          BY <1>0, <2>2, <3>2
        <5>. QED
          BY <1>0, <2>1, <5>1, EnclosedLists
      <4>2. Explained(w, o, m, n, Absorb(s, f.out))
        BY <1>4, <2>1, <2>3, <4>1
      <4>. QED
        BY <1>6, <2>3, <3>2, <4>2, TakesKey
    <3>. QED
      BY <3>1, <3>2
  <2>4. CASE w[n].kind # "object_end" /\ w[n].kind = "string" /\ Readable(w[n], o)
    <3>. DEFINE g == Named(f, w[n].means)
    <3>1. g \in Levels /\ g.fn = "object" /\ g.out = f.out /\ g.key = w[n].means
      BY <1>1, ReaderGoesOn, ChangedLevels
    <3>. HIDE DEF g
    <3>2. KeyRead(w, o, g, n) /\ Holds(g, l) /\ a + 1 < n
      BY <1>0, <2>1, <2>4, <3>1 DEF KeyRead, Holds
    <3>3. HeldObject(w, o, m, g, "colon", a, n)
      BY <1>2, <2>1, <3>2 DEF HeldObject
    <3>4. Takes(o, Expects(site, Append(s, f)), w[n]) = Expects("colon", Append(s, g))
      BY <1>6, <2>4, TakesKey DEF g
    <3>. QED
      BY <1>5, <3>1, <3>3, <3>4
  <2>5. CASE w[n].kind # "object_end" /\ ~(w[n].kind = "string" /\ Readable(w[n], o))
    BY <1>3, <1>6, <2>5, TakesKey
  <2>. QED
    BY <2>3, <2>4, <2>5
<1>7. CASE site = "colon"
  <2>1. /\ a + 1 < n - 1 /\ KeyRead(w, o, f, n - 1)
        /\ \E l \in Listed(w, m, "members", a + 1, (n - 1) - 1) : Holds(f, l)
    BY <1>1, <1>7 DEF HeldObject
  <2>2. CASE w[n].kind = "object_key_delimiter"
    <3>1. \E l \in Listed(w, m, "members", a + 1, n - 2) : Holds(f, l)
      BY <1>0, <2>1
    <3>2. a + 2 < n
      BY <1>0, <2>1
    <3>3. HeldObject(w, o, m, f, "value", a, n)
      BY <1>2, <2>1, <2>2, <3>1, <3>2 DEF HeldObject
    <3>4. Takes(o, Expects(site, Append(s, f)), w[n]) = Expects("value", Append(s, f))
      BY <1>7, <2>2, TakesColon
    <3>. QED
      BY <1>1, <1>5, <3>3, <3>4
  <2>3. CASE w[n].kind # "object_key_delimiter"
    BY <1>3, <1>7, <2>3, TakesColon
  <2>. QED
    BY <2>2, <2>3
<1>8. CASE site = "value"
  <2>1. Append(s, f) \in Seq(Levels) /\ Suspended(w, o, m, Append(s, f), n - 1)
    <3>1. Held(w, o, m, f, Inner(f.fn), a, n - 1)
      BY <1>1, <1>8 DEF Inner
    <3>. QED
      BY <1>0, <3>1, OneMoreSuspended, PushedLevel
  <2>. DEFINE b == Append(s, f)
  <2>. HIDE DEF b
  <2>2. Explained(w, o, m, n, BeginsValue(o, b, w[n]))
    BY <2>1, BeginningIsExplained DEF b
  <2>3. Takes(o, Expects("value", b), w[n]) = BeginsValue(o, b, w[n])
    BY ExpectsHas DEF Takes
  <2>. QED
    BY <1>8, <2>2, <2>3 DEF b
<1>9. CASE site = "member_end"
  <2>1. PICK l \in m[<<"members", a + 1, n - 1>>] : Holds(f, l)
    BY <1>1, <1>9 DEF HeldObject
  <2>2. CASE w[n].kind = "object_end"
    <3>1. l \in Enclosed(w, o, m, "members", a + 1, n - 1)
      BY <1>0, <2>1, EnclosedLists
    <3>2. Explained(w, o, m, n, Absorb(s, f.out))
      BY <1>4, <2>1, <2>2, <3>1
    <3>. QED
      BY <1>9, <2>2, <3>2, TakesMemberEnd
  <2>3. CASE w[n].kind = "separator"
    <3>. DEFINE g == Separated(f)
    <3>1. g \in Levels /\ g.fn = "object" /\ g.out = f.out /\ g.trailing
      BY <1>1, ChangedLevels
    <3>. HIDE DEF g
    <3>2. l \in Listed(w, m, "members", a + 1, n) /\ Holds(g, l)
      BY <1>0, <2>1, <2>3, <3>1 DEF Listed, Holds
    <3>3. HeldObject(w, o, m, g, "key", a, n)
      BY <1>0, <1>2, <3>1, <3>2 DEF HeldObject
    <3>4. Takes(o, Expects(site, Append(s, f)), w[n]) = Expects("key", Append(s, g))
      BY <1>9, <2>3, TakesMemberEnd DEF g
    <3>. QED
      BY <1>5, <3>1, <3>3, <3>4
  <2>4. CASE w[n].kind \notin {"object_end", "separator"}
    BY <1>3, <1>9, <2>4, TakesMemberEnd
  <2>. QED
    BY <2>2, <2>3, <2>4
<1>. QED
  BY <1>6, <1>7, <1>8, <1>9

\* One token taken after the document.
LEMMA EndStepIsExplained ==
  ASSUME NEW w, NEW o, NEW c, NEW m, Follows(w, o, c, m), NEW n \in 1 .. Len(w), NEW d,
         ExplainedEnd(w, o, m, n - 1, d)
  PROVE  Explained(w, o, m, n, Takes(o, d, w[n]))
<1>0. n \in Nat /\ n - 1 \in Nat
  BY LengthIsNat
<1>1. PICK i \in 0 .. n - 1 : \E v \in m[<<"value", 0, i>>] :
         d = Ended(v) /\ \A j \in i + 1 .. n - 1 : o.complete_parse /\ w[j].nul
  BY DEF ExplainedEnd
<1>2. PICK v \in m[<<"value", 0, i>>] :
         d = Ended(v) /\ \A j \in i + 1 .. n - 1 : o.complete_parse /\ w[j].nul
  BY <1>1
<1>3. d.at = "end"
  BY <1>2 DEF Ended
<1>4. CASE o.complete_parse /\ w[n].nul
  <2>1. Takes(o, d, w[n]) = d
    BY <1>3, <1>4 DEF Takes
  <2>2. i \in 0 .. n /\ \A j \in i + 1 .. n : j = n \/ j \in i + 1 .. n - 1
    BY <1>0
  <2>3. \A j \in i + 1 .. n : o.complete_parse /\ w[j].nul
    BY <1>2, <1>4, <2>2
  <2>4. ExplainedEnd(w, o, m, n, d)
    BY <1>2, <2>2, <2>3 DEF ExplainedEnd
  <2>. QED
    BY <2>1, <2>4 DEF Explained
<1>5. CASE ~(o.complete_parse /\ w[n].nul)
  <2>1. Takes(o, d, w[n]) = Failed
    BY <1>3, <1>5 DEF Takes
  <2>. QED
    BY <2>1 DEF Explained
<1>. QED
  BY <1>4, <1>5

\* Whatever the reader has read, the grammar finds.
LEMMA GrammarExplains ==
  ASSUME NEW w, NEW o, NEW c, NEW m, Follows(w, o, c, m), c[0] = Expects("value", <<>>)
  PROVE  \A n \in 0 .. Len(w) : Explained(w, o, m, n, c[n])
<1>. DEFINE S == {n \in 0 .. Len(w) : Explained(w, o, m, n, c[n])}
<1>0. Len(w) \in Nat
  BY LengthIsNat
<1>1. 0 \in S
  BY <1>0 DEF Explained
<1>2. ASSUME NEW n \in 1 .. Len(w), n - 1 \in S PROVE n \in S
  <2>0. n \in 0 .. Len(w) /\ n - 1 \in 0 .. Len(w)
    BY <1>0
  <2>. DEFINE d == c[n - 1]
  <2>1. c[n] = Takes(o, d, w[n])
    BY <1>2, ReaderGoesOn
  <2>2. Explained(w, o, m, n - 1, d)
    BY <1>2
  <2>. HIDE DEF d
  <2>3. CASE d = Failed
    <3>1. Takes(o, d, w[n]) = Failed
      BY <2>3 DEF Takes, Failed
    <3>. QED
      BY <2>0, <2>1, <3>1 DEF Explained
  <2>4. CASE ExplainedEnd(w, o, m, n - 1, d)
    BY <1>2, <2>0, <2>1, <2>4, EndStepIsExplained
  <2>5. CASE n - 1 = 0 /\ d = Expects("value", <<>>)
    <3>1. Takes(o, d, w[n]) = BeginsValue(o, <<>>, w[n])
      BY <2>5, ExpectsHas DEF Takes
    <3>2. Suspended(w, o, m, <<>>, n - 1) /\ <<>> \in Seq(Levels)
      BY <2>5, NothingSuspended, EmptySeq
    <3>3. Explained(w, o, m, n, BeginsValue(o, <<>>, w[n]))
      BY <1>2, <3>2, BeginningIsExplained
    <3>. QED
      BY <2>0, <2>1, <3>1, <3>3
  <2>6. CASE ExplainedLevel(w, o, m, n - 1, d)
    <3>1. PICK s \in Seq(Levels), f \in Levels, site \in Inside \cup {"value"}, a \in 0 .. n - 1 :
            /\ d = Expects(site, Append(s, f))
            /\ Suspended(w, o, m, s, a) /\ Held(w, o, m, f, site, a, n - 1)
      BY <2>6 DEF ExplainedLevel
    <3>2. CASE site \in {"item", "item_end"}
      BY <1>2, <2>0, <2>1, <3>1, <3>2, ArrayStepIsExplained
    <3>3. CASE site \in {"key", "colon", "value", "member_end"}
      BY <1>2, <2>0, <2>1, <3>1, <3>3, ObjectStepIsExplained
    <3>. QED
      BY <3>2, <3>3 DEF Inside
  <2>. QED
    BY <2>2, <2>3, <2>4, <2>5, <2>6 DEF Explained
<1>. HIDE DEF S
<1>3. 0 .. Len(w) \subseteq S
  BY <1>0, <1>1, <1>2, InductionUpto
<1>. QED
  BY <1>3 DEF S

-----------------------------------------------------------------------------
(* The documents of an input are what the reader reads. *)

Skipped == {"whitespace", "comment"}

\* The significant tokens are what their definition says.
LEMMA KeptTokens ==
  ASSUME NEW T, NEW ts \in Seq(T)
  PROVE  /\ SignificantUpTo(ts)[0] = <<>>
         /\ \A n \in 1 .. Len(ts) : SignificantUpTo(ts)[n] =
              IF ts[n].kind \in Skipped THEN SignificantUpTo(ts)[n - 1]
              ELSE Append(SignificantUpTo(ts)[n - 1], ts[n])
         /\ \A n \in 0 .. Len(ts) : SignificantUpTo(ts)[n] \in Seq(T)
<1>. DEFINE N == Len(ts)
            R == Seq(T)
            Step(s, n) == IF ts[n].kind \in Skipped THEN s ELSE Append(s, ts[n])
            h == [p \in R \X (1 .. N) |-> Step(p[1], p[2])]
            Defines(c) == c = [n \in 0 .. N |-> IF n = 0 THEN <<>> ELSE Step(c[n - 1], n)]
<1>1. N \in Nat /\ \A n \in 1 .. N : ts[n] \in T /\ n # 0 /\ n - 1 \in 0 .. N /\ n \in 0 .. N
  OBVIOUS
<1>2. <<>> \in R
  BY EmptySeq
<1>a. \A s \in R : \A n \in 1 .. N : Step(s, n) \in R
  BY <1>1, AppendProperties
<1>. HIDE DEF Step, R
<1>3. h \in [R \X (1 .. N) -> R]
  BY <1>a
<1>4. \A s \in R : \A n \in 1 .. N : h[<<s, n>>] = Step(s, n)
  OBVIOUS
<1>. HIDE DEF h
<1>5. PICK f \in [0 .. N -> R] : Iterates(f, N, <<>>, h)
  <2>. HIDE DEF N
  <2>. QED
    BY <1>1, <1>2, <1>3, Iteration
<1>6. f[0] = <<>> /\ \A n \in 1 .. N : f[n] = Step(f[n - 1], n)
  BY <1>1, <1>4, <1>5 DEF Iterates
<1>7. Defines(f)
  <2>1. \A n \in 0 .. N : n = 0 \/ n \in 1 .. N
    BY <1>1
  <2>2. f = [n \in 0 .. N |-> f[n]]
    BY <1>5
  <2>. HIDE DEF N
  <2>3. \A n \in 0 .. N : f[n] = IF n = 0 THEN <<>> ELSE Step(f[n - 1], n)
    BY <1>6, <2>1
  <2>. QED
    BY <2>2, <2>3
<1>8. SignificantUpTo(ts) = CHOOSE c : Defines(c)
  <2>1. \A c, n : (IF n = 0 THEN <<>>
                   ELSE IF ts[n].kind \in {"whitespace", "comment"} THEN c[n - 1]
                   ELSE Append(c[n - 1], ts[n]))
                = IF n = 0 THEN <<>> ELSE Step(c[n - 1], n)
    BY DEF Step, Skipped
  <2>. QED
    BY <2>1 DEF SignificantUpTo, Step, Skipped
<1>9. Defines(SignificantUpTo(ts))
  <2>. HIDE DEF Defines
  <2>. QED
    BY <1>7, <1>8
<1>. DEFINE g == SignificantUpTo(ts)
<1>10. g[0] = <<>> /\ \A n \in 1 .. N : g[n] = Step(g[n - 1], n)
  <2>. HIDE DEF N, g
  <2>1. g = [n \in 0 .. N |-> IF n = 0 THEN <<>> ELSE Step(g[n - 1], n)]
    BY <1>9 DEF g
  <2>2. 0 \in 0 .. N
    BY <1>1
  <2>. QED
    BY <1>1, <2>1, <2>2
<1>11. 0 .. N \subseteq {n \in 0 .. N : g[n] \in R}
  <2>. DEFINE S == {n \in 0 .. N : g[n] \in R}
  <2>. HIDE DEF g
  <2>1. 0 \in S
    BY <1>1, <1>2, <1>10
  <2>2. ASSUME NEW n \in 1 .. N, n - 1 \in S PROVE n \in S
    BY <1>1, <1>10, <1>a, <2>2
  <2>. HIDE DEF S, N
  <2>3. 0 .. N \subseteq S
    BY <1>1, <2>1, <2>2, InductionUpto
  <2>. QED
    BY <2>3 DEF S
<1>. QED
  BY <1>10, <1>11 DEF g, R, Step

\* Functions on 0 .. N that begin and go on alike are alike.
LEMMA GoingOnAlike ==
  ASSUME NEW N \in Nat, NEW f, NEW g, f[0] = g[0],
         \A n \in 1 .. N : f[n - 1] = g[n - 1] => f[n] = g[n]
  PROVE  f[N] = g[N]
<1>. DEFINE S == {n \in 0 .. N : f[n] = g[n]}
<1>1. 0 \in S /\ \A n \in 1 .. N : n - 1 \in S => n \in S
  OBVIOUS
<1>2. S \in SUBSET Nat
  OBVIOUS
<1>. HIDE DEF S
<1>3. 0 .. N \subseteq S
  BY <1>1, <1>2, InductionUpto
<1>. QED
  BY <1>3 DEF S

\* The significant tokens of an input with one token more.
LEMMA SignificantGrows ==
  ASSUME NEW T, NEW ts \in Seq(T), NEW t \in T
  PROVE  /\ Significant(ts) \in Seq(T)
         /\ Significant(Append(ts, t)) =
              IF t.kind \in Skipped THEN Significant(ts) ELSE Append(Significant(ts), t)
<1>. DEFINE a == Append(ts, t)
            N == Len(ts)
            f == SignificantUpTo(ts)
            g == SignificantUpTo(a)
<1>1. /\ a \in Seq(T) /\ Len(a) = N + 1 /\ a[N + 1] = t /\ N \in Nat
      /\ \A n \in 1 .. N : a[n] = ts[n]
  BY AppendProperties
<1>. HIDE DEF a
<1>2. /\ f[0] = <<>> /\ \A n \in 1 .. N : f[n] = IF ts[n].kind \in Skipped THEN f[n - 1]
          ELSE Append(f[n - 1], ts[n])
      /\ f[N] \in Seq(T)
  BY <1>1, KeptTokens
<1>3. /\ g[0] = <<>>
      /\ \A n \in 1 .. N + 1 : g[n] = IF a[n].kind \in Skipped THEN g[n - 1]
          ELSE Append(g[n - 1], a[n])
  BY <1>1, KeptTokens
<1>. HIDE DEF f, g, N
<1>4. \A n \in 1 .. N : n \in 1 .. N + 1
  BY <1>1
<1>5. f[N] = g[N]
  <2>1. ASSUME NEW n \in 1 .. N, f[n - 1] = g[n - 1] PROVE f[n] = g[n]
    BY <1>1, <1>2, <1>3, <1>4, <2>1
  <2>2. N \in Nat /\ f[0] = g[0]
    BY <1>1, <1>2, <1>3
  <2>. QED
    BY <2>1, <2>2, GoingOnAlike, Zenon
<1>6. N + 1 \in 1 .. N + 1 /\ (N + 1) - 1 = N
  BY <1>1
<1>7. g[N + 1] = IF t.kind \in Skipped THEN f[N] ELSE Append(f[N], t)
  BY <1>1, <1>3, <1>5, <1>6
<1>8. Significant(ts) = f[N] /\ Significant(a) = g[N + 1]
  BY <1>1 DEF Significant, f, g, N
<1>. QED
  BY <1>2, <1>7, <1>8 DEF a

\* Nothing is significant in an empty input.
LEMMA NothingSignificant == Significant(<<>>) = <<>>
<1>1. <<>> \in Seq({}) /\ Len(<<>>) = 0
  BY EmptySeq
<1>. QED
  BY <1>1, KeptTokens DEF Significant

\* The reader on one more token.
LEMMA ReadGrows ==
  ASSUME NEW T, \A t \in T : t.means \in Text, NEW w \in Seq(T), NEW t \in T, NEW o
  PROVE  /\ Read(w, o) \in ReaderStates
         /\ Read(Append(w, t), o) = Takes(o, Read(w, o), t)
<1>. DEFINE a == Append(w, t)
            N == Len(w)
            f == Reading(w, o)
            g == Reading(a, o)
<1>1. /\ a \in Seq(T) /\ Len(a) = N + 1 /\ a[N + 1] = t /\ N \in Nat
      /\ \A n \in 1 .. N : a[n] = w[n]
  BY AppendProperties
<1>. HIDE DEF a
<1>2. /\ f[0] = Expects("value", <<>>) /\ \A n \in 1 .. N : f[n] = Takes(o, f[n - 1], w[n])
      /\ f[N] \in ReaderStates
  BY <1>1, ReadingSteps
<1>3. /\ g[0] = Expects("value", <<>>) /\ \A n \in 1 .. N + 1 : g[n] = Takes(o, g[n - 1], a[n])
  BY <1>1, ReadingSteps
<1>. HIDE DEF f, g, N
<1>4. \A n \in 1 .. N : n \in 1 .. N + 1
  BY <1>1
<1>5. f[N] = g[N]
  BY <1>1, <1>2, <1>3, <1>4, GoingOnAlike
<1>6. N + 1 \in 1 .. N + 1 /\ (N + 1) - 1 = N
  BY <1>1
<1>7. g[N + 1] = Takes(o, f[N], t)
  BY <1>1, <1>3, <1>5, <1>6
<1>8. Read(w, o) = f[N] /\ Read(a, o) = g[N + 1]
  BY <1>1 DEF Read, f, g, N
<1>. QED
  BY <1>2, <1>7, <1>8 DEF a

\* Before its first token the reader expects a value.
LEMMA NothingRead == ASSUME NEW o PROVE Read(<<>>, o) = Expects("value", <<>>)
<1>1. <<>> \in Seq({}) /\ Len(<<>>) = 0 /\ \A t \in {} : t.means \in Text
  BY EmptySeq
<1>. QED
  BY <1>1, ReadingSteps DEF Read

\* Nothing comes after an error.
LEMMA FailedForGood == \A o, t : Takes(o, Failed, t) = Failed
  BY DEF Takes, Failed

\* The reader and the reference grammar go over the same tokens.
LEMMA ReaderAndGrammar ==
  ASSUME NEW T, \A t \in T : t.means \in Text, NEW w \in Seq(T), NEW o
  PROVE  Follows(w, o, Reading(w, o), Meaning(w, o)) /\ Reading(w, o)[0] = Expects("value", <<>>)
<1>1. Len(w) \in Nat /\ \A n \in 1 .. Len(w) : w[n].means \in Text
  OBVIOUS
<1>. QED
  BY <1>1, ReadingSteps, MeaningOfPieces DEF Follows, ReadsOn

\* After a value that begins the tokens and the NULs that may follow it, the reader ends
\* with it.
LEMMA ReaderEndsWith ==
  ASSUME NEW w, NEW o, NEW c, NEW m, Follows(w, o, c, m), c[0] = Expects("value", <<>>),
         NEW i \in 0 .. Len(w), NEW v \in m[<<"value", 0, i>>],
         i # Len(w) => o.complete_parse, \A j \in i + 1 .. Len(w) : w[j].nul
  PROVE  c[Len(w)] = Ended(v)
<1>. DEFINE N == Len(w)
            S == {n \in 0 .. N : n < i \/ c[n] = Ended(v)}
<1>0. N \in Nat
  BY LengthIsNat
<1>1. c[i] = Ended(v)
  <2>1. FindsAll(c, m, "value", 0, i)
    BY <1>0, ReaderFinds DEF Sorts
  <2>2. c[i] = Absorb(<<>>, v)
    BY <2>1, ExpectsHas DEF FindsAll, Finds
  <2>. QED
    BY <2>2 DEF Absorb
<1>2. 0 \in S
  BY <1>0, <1>1
<1>3. ASSUME NEW n \in 1 .. N, n - 1 \in S PROVE n \in S
  <2>1. n \in 0 .. N /\ n - 1 \in 0 .. N
    BY <1>0
  <2>2. CASE n <= i
    BY <1>1, <2>1, <2>2
  <2>3. CASE n > i
    <3>1. c[n - 1] = Ended(v) /\ w[n].nul /\ o.complete_parse
      BY <1>0, <1>3, <2>3
    <3>2. c[n] = Takes(o, c[n - 1], w[n])
      BY ReaderGoesOn
    <3>3. Takes(o, Ended(v), w[n]) = Ended(v)
      BY <3>1 DEF Takes, Ended
    <3>. QED
      BY <2>1, <3>1, <3>2, <3>3
  <2>. QED
    BY <1>0, <2>2, <2>3
<1>4. S \in SUBSET Nat
  OBVIOUS
<1>. HIDE DEF S
<1>5. 0 .. N \subseteq S
  BY <1>0, <1>2, <1>3, <1>4, InductionUpto
<1>. QED
  BY <1>0, <1>5 DEF S

\* The values of the document at the beginning of an input.
Candidates(ts, o) ==
    LET s == Significant(ts)
        ends == IF o.complete_parse
                THEN {i \in DOMAIN s : \A j \in i + 1 .. Len(s) : s[j].nul}
                ELSE IF EndsInAToken(ts) THEN {Len(s)} ELSE {}
    IN  UNION {Meaning(s, o)[<<"value", 0, i>>] : i \in ends}

\* The documents are those candidates that pass the checks on the whole input.
LEMMA DocumentsAre ==
  ASSUME NEW ts, NEW o
  PROVE  Documents(ts, o) =
           IF HasRefusedComment(ts, o) THEN {} ELSE {v \in Candidates(ts, o) : Admissible(v, o)}
  BY DEF Documents, Candidates, HasRefusedComment, EndsInAToken

\* The documents of an input, without the checks on their values: the reader ends with
\* them, and with nothing else.
LEMMA ReaderReadsCandidates ==
  ASSUME NEW T, \A t \in T : t.means \in Text, NEW ts \in Seq(T), NEW o, NEW v
  PROVE  v \in Candidates(ts, o) <=>
           /\ Read(Significant(ts), o) = Ended(v)
           /\ o.complete_parse \/ EndsInAToken(ts)
<1>. DEFINE w == Significant(ts)
            N == Len(w)
            c == Reading(w, o)
            m == Meaning(w, o)
<1>0. w \in Seq(T) /\ N \in Nat /\ DOMAIN w = 1 .. N
  <2>1. w \in Seq(T)
    BY KeptTokens DEF Significant
  <2>. HIDE DEF w
  <2>. QED
    BY <2>1
<1>a. Read(Significant(ts), o) = c[N]
  BY DEF Read
<1>. HIDE DEF w
<1>1. Follows(w, o, c, m) /\ c[0] = Expects("value", <<>>)
  BY <1>0, ReaderAndGrammar
<1>. DEFINE Ends == IF o.complete_parse
                    THEN {i \in 1 .. N : \A j \in i + 1 .. N : w[j].nul}
                    ELSE IF EndsInAToken(ts) THEN {N} ELSE {}
<1>2. v \in Candidates(ts, o) <=> \E i \in Ends : v \in m[<<"value", 0, i>>]
  BY <1>0 DEF Candidates, w
<1>. HIDE DEF c, m
<1>3. ASSUME v \in Candidates(ts, o)
      PROVE  c[N] = Ended(v) /\ (o.complete_parse \/ EndsInAToken(ts))
  <2>1. PICK i \in Ends : v \in m[<<"value", 0, i>>]
    BY <1>2, <1>3
  <2>2. /\ i \in 0 .. N /\ (i # N => o.complete_parse) /\ \A j \in i + 1 .. N : w[j].nul
        /\ o.complete_parse \/ EndsInAToken(ts)
    <3>1. CASE o.complete_parse
      BY <1>0, <3>1
    <3>2. CASE ~o.complete_parse
      <4>1. EndsInAToken(ts) /\ i = N
        BY <3>2
      <4>. QED
        BY <1>0, <4>1
    <3>. QED
      BY <3>1, <3>2
  <2>. QED
    BY <1>1, <2>1, <2>2, ReaderEndsWith
<1>4. ASSUME c[N] = Ended(v), o.complete_parse \/ EndsInAToken(ts)
      PROVE  v \in Candidates(ts, o)
  <2>0. N \in 0 .. N
    BY <1>0
  <2>1. Explained(w, o, m, N, c[N])
    BY <1>1, <2>0, GrammarExplains
  <2>2. c[N].at = "end" /\ c[N].val = v
    BY <1>4 DEF Ended
  <2>3. ExplainedEnd(w, o, m, N, c[N])
    <3>1. c[N] # Failed /\ c[N] # Expects("value", <<>>)
      BY <2>2 DEF Failed, Expects
    <3>2. \A s, site : site \in Inside \cup {"value"} => c[N] # Expects(site, s)
      BY <2>2 DEF Expects, Inside
    <3>3. ~ExplainedLevel(w, o, m, N, c[N])
      BY <3>2 DEF ExplainedLevel
    <3>. QED
      BY <2>1, <3>1, <3>3 DEF Explained
  <2>4. PICK i \in 0 .. N : \E x \in m[<<"value", 0, i>>] :
          c[N] = Ended(x) /\ \A j \in i + 1 .. N : o.complete_parse /\ w[j].nul
    BY <2>3 DEF ExplainedEnd
  <2>5. PICK x \in m[<<"value", 0, i>>] :
          c[N] = Ended(x) /\ \A j \in i + 1 .. N : o.complete_parse /\ w[j].nul
    BY <2>4
  <2>6. x = v
    BY <2>2, <2>5 DEF Ended
  <2>7. 0 < i
    <3>1. 0 \in 0 .. N
      BY <1>0
    <3>2. m[<<"value", 0, i>>] # {}
      BY <2>5
    <3>. QED
      BY <1>1, <3>1, <3>2, PiecesHaveTokens
  <2>8. i \in Ends
    <3>1. CASE o.complete_parse
      BY <1>0, <2>5, <2>7, <3>1
    <3>2. CASE ~o.complete_parse
      <4>1. i = N
        <5>1. ASSUME i # N PROVE i + 1 \in i + 1 .. N
          <6>. HIDE DEF N, Ends
          <6>1. N \in Nat
            BY <1>0
          <6>2. i \in Nat /\ i + 1 <= N
            BY <5>1, <6>1
          <6>. QED
            BY <6>1, <6>2
        <5>. QED
          BY <2>5, <3>2, <5>1
      <4>. QED
        BY <1>4, <3>2, <4>1
    <3>. QED
      BY <3>1, <3>2
  <2>. QED
    BY <1>2, <2>5, <2>6, <2>8
<1>. QED
  BY <1>3, <1>4, <1>a

\* The reference grammar and the reader agree on every input.
THEOREM ReaderReadsDocuments ==
  ASSUME NEW T, \A t \in T : t.means \in Text, NEW ts \in Seq(T), NEW o, NEW v
  PROVE  v \in Documents(ts, o) <=>
           /\ Read(Significant(ts), o) = Ended(v)
           /\ ~HasRefusedComment(ts, o)
           /\ o.complete_parse \/ EndsInAToken(ts)
           /\ Admissible(v, o)
<1>1. v \in Documents(ts, o) <=>
        ~HasRefusedComment(ts, o) /\ v \in Candidates(ts, o) /\ Admissible(v, o)
  BY DocumentsAre
<1>. QED
  BY <1>1, ReaderReadsCandidates
=============================================================================
