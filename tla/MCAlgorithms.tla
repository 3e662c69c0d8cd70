---------------------------- MODULE MCAlgorithms ----------------------------
(***************************************************************************)
(* Model checking of Algorithms: every algorithm on every pair of a set of *)
(* values, against definitions of its result that go by the paths of the   *)
(* arguments instead of recursion.  Integers have 4 bits, -8 .. 7, and     *)
(* decimals represent them exactly up to 4, so 5 and 7 lose their last bit.*)
(***************************************************************************)
EXTENDS Algorithms

MCCharacters == <<"1", "A", "B", "a", "b", "d", "e", "f", "i", "k", "l", "m", "n", "u">>

Obj(f) == ObjectOfMap(f)
Arr(vs) == ArrayOf(vs)

Strings == {String(s) : s \in {"", "a", "A", "b", "1", "null"}}
Numbers == {Integer(n) : n \in {-8, 0, 1, 4, 5, 7}} \cup {Halves(h) : h \in {1, 2, 3, 8, 12, 16, 20, -20}}
           \cup NonFinite
Scalars == {Null, Boolean(TRUE), Boolean(FALSE)} \cup Strings \cup Numbers
Atoms   == {Integer(1), Halves(2), String("a"), Null}
Arrays  == {Arr(<<>>), Arr(<<Arr(<<Integer(1), String("a")>>), Integer(1)>>)} \cup
           {Arr(<<x>>) : x \in Atoms \cup NonFinite} \cup
           {Arr(<<x, y>>) : x, y \in Atoms}
Inner   == {Null, Integer(1), String("a"), Arr(<<Integer(1)>>), Obj([k \in {"k"} |-> Integer(1)]),
            Obj(("k" :> Integer(1)) @@ ("m" :> String("a"))),
            Obj(("k" :> String("b")) @@ ("m" :> String("a")))}
Objects == {Obj(<<>>)} \cup {Obj([k \in {key} |-> x]) : key \in {"k", "m", "A"}, x \in Inner}
           \cup {Obj(("k" :> x) @@ ("m" :> y)) : x, y \in Inner}
           \cup {Arr(<<x, Obj(("k" :> y) @@ ("m" :> String("a")))>>) :
                    x \in {Integer(1), Null}, y \in {Integer(1), Halves(1)}}

Inputs == Scalars \cup Arrays \cup Objects
Witnesses == {Null, Integer(1), Integer(4), Halves(1), Halves(2), String("a"), String("b"),
              Arr(<<>>), Arr(<<Halves(2), Null>>), Obj([k \in {"k"} |-> Integer(1)]),
              Obj([k \in {"m"} |-> String("a")])}

VARIABLES a, b, call, result
vars == <<a, b, call, result>>

Init == a \in Inputs /\ b \in Inputs /\ call = "none" /\ result = <<>>

Returns(name, r) ==
    /\ call = "none"
    /\ call' = name /\ result' = r
    /\ UNCHANGED <<a, b>>

CallCompare == Returns("compare", <<Compare(a, b), CompareIcase(a, b)>>)
CallDiff    == Returns("diff", Diff(a, b))
CallMerge   == Returns("merge", MergeThrowing(a, b))
CallRecursive == Returns("merge_recursive", MergeRecursive(a, b))

\* The functions of dynamic rules: the second of the two values, and a pair of both.
Second(pairs) == [x \in pairs |-> x[2]]
Both(pairs)   == [x \in pairs |-> Arr(<<x[1], x[2]>>)]
CallDynamic ==
    LET shared == IF ~(KindOf(a) = "object" /\ KindOf(b) = "object") THEN {}
                  ELSE {<<Member(a, k), Member(b, k)>> : k \in KeysOf(a) \cap KeysOf(b)}
    IN  Returns("merge_dynamic", MergeDynamic(a, b, Second(shared \cup {<<a, b>>}), Both({<<a, b>>})))

\* (With one outcome: not where the conversion of b is undefined.)
CallCoerceMerge ==
    /\ Cardinality(CoerceInteger(b)) < 2
    /\ Returns("coerce_merge", CoerceMerge(a, b))

\* Functions of one value.
CallTraverse ==
    /\ b = Null
    /\ Returns("traverse", [all |-> Traverse(a, <<>>, FALSE), leafs |-> Traverse(a, <<>>, TRUE),
                            invalid |-> Validate(a)])
CallMap == b = Null /\ \E call_of \in 1 .. 3 :
    Returns("map", <<Map([v \in {Sub(a, p) : p \in DOMAIN a} |-> Arr(<<v>>)], a), call_of, LeftByMap(a, call_of)>>)
CallCoerce ==
    /\ b = Null
    /\ Returns("coerce", [integer |-> CoerceInteger(a), decimal |-> CoerceDecimal(a),
                           string |-> String(CoerceString(a))])

Next ==
    \/ CallCompare \/ CallDiff \/ CallMerge \/ CallRecursive \/ CallDynamic
    \/ CallCoerceMerge \/ CallTraverse \/ CallMap \/ CallCoerce

Spec == Init /\ [][Next]_vars

-----------------------------------------------------------------------------
(* compare *)

LabelsOf(v) == {v[p] : p \in DOMAIN v}
Exact(label) ==
    CASE label.kind = "integer" -> AbsOf(IntegerOf[label.content]) <= 2 ^ Precision
      [] label.kind = "decimal" -> label.content \in DOMAIN HalvesOf
      [] OTHER -> TRUE

\* Where numbers are compared as they should be: there are no infinities or NaN, and no
\* integers that decimals cannot represent next to decimals.
Tame(vs) ==
    LET labels == UNION {LabelsOf(v) : v \in vs}
    IN  \/ \A l \in labels : Exact(l)
        \/ \A l \in labels : l.kind # "decimal"

\* A value with its decimals turned into the integers they are equal to.
Normal(v) ==
    [p \in DOMAIN v |->
        IF v[p].kind = "decimal" /\ v[p].content \in DOMAIN IntegerOf
        THEN Label("integer", v[p].content) ELSE v[p]]

LowerCase(v) ==
    LET LowerText(s) == FoldLeft(LAMBDA x, y : x \o y, "", [i \in 1 .. Len(s) |-> Lower(CharAt(s, i))])
    IN  [p \in DOMAIN v |->
            IF v[p].kind = "string" THEN Label("string", LowerText(v[p].content)) ELSE v[p]]

\* compare is a total order in which values are equal just when they are the same up to the
\* kinds of their numbers, and compare_icase is that order on values whose strings, but not
\* their keys, are in lower case.  Equal values hash alike just when their numbers are of
\* the same kinds.
CompareIsAnOrder ==
    call = "compare" /\ Tame({a, b}) =>
        /\ result[1] = 0 <=> Normal(a) = Normal(b)
        /\ Compare(b, a) = -result[1]
        /\ result[1] = 0 => (Hash(a) = Hash(b) <=> a = b)
        /\ \A c \in Witnesses :
              Tame({a, b, c}) /\ result[1] <= 0 /\ Compare(b, c) <= 0 => Compare(a, c) <= 0
        /\ result[2] = Compare(LowerCase(a), LowerCase(b))

-----------------------------------------------------------------------------
(* diff *)

\* The nodes of both values all of whose proper ancestors are containers of one kind.
Comparable ==
    {p \in DOMAIN a \cap DOMAIN b :
        \A n \in 0 .. Len(p) - 1 :
            LET q == SubSeq(p, 1, n) IN a[q].kind = b[q].kind}

SameAt(p) == Equal(Sub(a, p), Sub(b, p))
Ancestors(p) == {SubSeq(p, 1, n) : n \in 0 .. Len(p) - 1}
Has(v, p, w) == p \in DOMAIN v /\ Sub(v, p) = w
Blank(v, p) == p \notin DOMAIN v \/ Has(v, p, Null)

\* diff puts every element that is on one side only, or differs, on its side and on no
\* other; it keeps in same what is equal, except inside a member of an object that differs.
DiffIsExact ==
    call = "diff" =>
        LET d == result
            Open(p) == ~SameAt(p) /\ IsContainer(a[p]) /\ a[p].kind = b[p].kind
            outermost == {p \in Comparable : \A q \in Ancestors(p) : ~SameAt(q)}
            OneSided(v, w) ==
                {p \in DOMAIN v \ DOMAIN w : Parent(p) \in outermost /\ Open(Parent(p))}
            InMember(p) == \E q \in Ancestors(p) \ {<<>>} : Last(q)[1] = "key"
        IN  /\ \A p \in {q \in outermost : SameAt(q)} :
                  /\ Blank(d.left, p) /\ Blank(d.right, p)
                  /\ IF InMember(p) THEN Blank(d.same, p) ELSE Has(d.same, p, Sub(a, p))
            /\ \A p \in {q \in outermost : ~SameAt(q) /\ ~Open(q)} :
                  Has(d.left, p, Sub(a, p)) /\ Has(d.right, p, Sub(b, p)) /\ Blank(d.same, p)
            /\ \A p \in OneSided(a, b) : Has(d.left, p, Sub(a, p)) /\ Blank(d.right, p)
            /\ \A p \in OneSided(b, a) : Has(d.right, p, Sub(b, p)) /\ Blank(d.left, p)

-----------------------------------------------------------------------------
(* merge *)

\* The paths at which both values have an object inside nothing but objects.
SharedObjects ==
    {p \in DOMAIN a \cap DOMAIN b :
        \A q \in Ancestors(p) \cup {p} : a[q].kind = "object" /\ b[q].kind = "object"}

\* What merge_recursive makes of two values one of which is not an object, going by the
\* table of merge_explicit and, for different kinds, by the kind of the first: an array gets
\* the elements of an array or any other value but null, null gives way to the other value,
\* texts are joined.
Unites(m, u, v) ==
    /\ KindOf(u) = "array" =>
          Elements(m) = Elements(u) \o CASE KindOf(v) = "array" -> Elements(v)
                                         [] KindOf(v) = "null"  -> <<>>
                                         [] OTHER -> <<v>>
    /\ KindOf(u) = "null" => m = v
    /\ KindOf(v) = "null" => m = u
    /\ KindOf(u) = "string" /\ KindOf(v) = "string" => Content(m) = Content(u) \o Content(v)
    /\ KindOf(u) = "object" /\ KindOf(v) # "object" =>
          \A k \in KeysOf(u) \ {"undefined"} : Has(m, <<Key(k)>>, Member(u, k))

\* merge fails just when kinds conflict or a key is in both objects, of which it names the
\* first.  The dynamic rules decide about the keys of both objects, by the function for
\* equal keys, and about no others; and two values of one kind they do not see.
\* merge_recursive never fails, and the merged objects have all the members of both,
\* at every depth: the members of one side alone as they were, those of both united.
MergeUnites ==
    /\ call = "merge" =>
          LET clashes == KeysOf(a) \cap KeysOf(b)
              objects == KindOf(a) = "object" /\ KindOf(b) = "object"
          IN  /\ result.error = "kind_error" <=> Conflict(a, b)
              /\ result.error = "logic_error" <=> objects /\ clashes # {}
              /\ result.error = "logic_error" =>
                    \E k \in clashes : /\ result.path = <<Key(k)>>
                                       /\ \A l \in clashes : CompareStrings(k, l) <= 0
              /\ result.error = "none" /\ objects =>
                    \A v \in {a, b} : \A k \in KeysOf(v) : Has(result.value, <<Key(k)>>, Member(v, k))
    /\ call = "merge_dynamic" /\ KindOf(a) = KindOf(b) =>
          IF KindOf(a) = "object"
          THEN /\ KeysOf(result) = KeysOf(a) \cup KeysOf(b)
               /\ \A k \in KeysOf(result) :
                     Member(result, k) = Member(IF k \in KeysOf(b) THEN b ELSE a, k)
          ELSE Unites(result, a, b)
    /\ call = "merge_recursive" =>
          /\ \A p \in SharedObjects :
                LET x == Sub(a, p)  y == Sub(b, p)  m == Sub(result, p)
                IN  /\ KindOf(m) = "object" /\ KeysOf(m) = KeysOf(x) \cup KeysOf(y)
                    /\ \A k \in KeysOf(x) \ KeysOf(y) : Member(m, k) = Member(x, k)
                    /\ \A k \in KeysOf(y) \ KeysOf(x) : Member(m, k) = Member(y, k)
                    /\ \A k \in KeysOf(x) \cap KeysOf(y) :
                          Unites(Member(m, k), Member(x, k), Member(y, k))
          /\ SharedObjects = {} => Unites(result, a, b)

\* merge_explicit leaves a conflict of types to the function that dynamic_merge_rules is given
\* for it ("call on_type_conflict and return the result").
ConflictsGoToTheirRule ==
    call = "merge_dynamic" /\ Conflict(a, b) => result = Both({<<a, b>>})[<<a, b>>]

-----------------------------------------------------------------------------
(* traverse, map *)

PathBefore(p, q) ==
    \/ IsStrictPrefix(p, q)
    \/ \E i \in 1 .. Min({Len(p), Len(q)}) :
          /\ SubSeq(p, 1, i - 1) = SubSeq(q, 1, i - 1)
          /\ IF p[i][1] = "index" THEN p[i][2] < q[i][2] ELSE CompareStrings(p[i][2], q[i][2]) < 0

\* traverse visits every node (or every node with nothing below it) once, a container before
\* its elements and these in order, and shows what is there; validate complains of the
\* first number that JSON cannot express, and only if there is one.
TraverseVisitsInOrder ==
    call = "traverse" =>
        LET leaf == {p \in DOMAIN a : ~\E q \in DOMAIN a : p \in Ancestors(q)}
            Visits(vs, nodes) ==
                /\ {vs[i][1] : i \in DOMAIN vs} = nodes
                /\ \A i, j \in DOMAIN vs : i < j => PathBefore(vs[i][1], vs[j][1])
                /\ \A i \in DOMAIN vs : vs[i][2] = Sub(a, vs[i][1])
            odd == {p \in DOMAIN a : Leaf(a[p]) \in NonFinite}
        IN  /\ Visits(result.all, DOMAIN a)
            /\ Visits(result.leafs, leaf)
            /\ result.invalid = {p \in odd : \A q \in odd \ {p} : PathBefore(p, q)}

\* map keeps the shape of a container; and a function that throws leaves a value that is
\* still well-formed and has every element that no call was made for.
MapLosesOnlyWhatItPassed ==
    call = "map" =>
        LET at == result[2]  left == result[3]
        IN  /\ IsContainer(a[<<>>]) => Steps(result[1]) = Steps(a)
            /\ WellFormed([p \in DOMAIN left |-> Label(IF IsContainer(left[p]) THEN left[p].kind ELSE "null", "")])
            /\ IsContainer(a[<<>>]) /\ at <= Size(a) =>
                  /\ Steps(left) = Steps(a)
                  /\ Cardinality({s \in Steps(a) : Sub(left, <<s>>) # Sub(a, <<s>>)}) <= at
                  /\ Cardinality({s \in Steps(a) : Sub(left, <<s>>) = Null}) >= at

-----------------------------------------------------------------------------
(* coerce *)

\* can_coerce promises a conversion to a number just when it will succeed (nothing is said of
\* booleans, which it denies and coerce_integer converts).  A decimal becomes the integer that
\* is left of it without its fraction; out of the range of integers, the nearest (nothing is
\* said of NaN, nor of the one decimal that is next to the range: the check against the
\* largest integer, as a decimal, lets it through).  And a finite number that has become a
\* string comes back from it.
CoercionKeepsItsPromise ==
    call = "coerce" =>
        LET n == CASE Content(a) = "inf" -> MaxInt + 2
                   [] Content(a) = "-inf" -> MinInt - 1
                   [] OTHER -> Sign(AsHalves(a)) * (AbsOf(AsHalves(a)) \div 2)
            Clamped == IF n > MaxInt THEN MaxInt ELSE IF n < MinInt THEN MinInt ELSE n
        IN  /\ KindOf(a) # "boolean" =>
                  /\ CanCoerce(a, "integer") <=> result.integer # {}
                  /\ CanCoerce(a, "decimal") <=> result.decimal # {}
            /\ KindOf(a) = "decimal" /\ Content(a) # "nan" /\ n # MaxInt + 1 =>
                  result.integer = {Clamped}
            /\ Numeric(a) /\ Finite(a) /\ Exact(a[<<>>]) =>
                  /\ CoerceDecimal(result.string) = {Halves(AsHalves(a))}
                  /\ n \in IntRange => CoerceInteger(result.string) = {n}

\* coerce_merge keeps the kind of its first argument, unless that is null or a number and
\* the second is not one; and it puts the second where nothing of the first is lost, except
\* in an object that already has the key "undefined".
CoerceMergeFavoursTheFirst ==
    call = "coerce_merge" =>
        LET swapped == Numeric(a) /\ ~Numeric(b) /\ KindOf(b) # "null"
                       /\ ~(KindOf(b) = "string" /\ CoerceDecimal(b) # {})
        IN  /\ KindOf(result) = IF KindOf(a) = "null" \/ swapped THEN KindOf(b)
                                ELSE IF KindOf(a) = "integer" /\ KindOf(b) = "string"
                                        /\ CoerceInteger(b) = {} THEN "decimal"
                                ELSE KindOf(a)
            /\ KindOf(a) = "array" => IsPrefix(Elements(a), Elements(result))
            /\ KindOf(a) = "object" /\ ~IsContainer(b[<<>>]) =>
                  \A k \in KeysOf(a) : k = "undefined" \/ Member(result, k) = Member(a, k)
            /\ KindOf(a) = "string" => SubSeq(Content(result), 1, Len(Content(a))) = Content(a)
=============================================================================
