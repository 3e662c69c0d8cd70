----------------------------- MODULE Algorithms -----------------------------
(***************************************************************************)
(* The free functions on values: compare, compare_icase, std::hash, diff,  *)
(* map, merge, traverse and validate (src/jsonv/algorithm_*.cpp,           *)
(* include/jsonv/algorithm.hpp) and the coercions (src/jsonv/coerce.cpp).  *)
(* They are pure: each is an operator on the trees of JsonTree.            *)
(*                                                                         *)
(* Numbers are small: an integer is a Width-bit one, a decimal a multiple  *)
(* of a half, or an infinity or NaN.  Decimals represent the integers up   *)
(* to 2^Precision in magnitude, and from there on the even ones only.      *)
(* The content of a scalar is its text.                                    *)
(***************************************************************************)
EXTENDS JsonTree, Integers

CONSTANTS
    Width,        \* of an integer (64 in the code)
    Precision,    \* of a decimal (53)
    Characters    \* those that strings are made of, in the order of their codes

\* (Wide enough for as_decimal to lose the last bit of an integer, and no more.)
ASSUME WidthAssumption == Width \in 3 .. 8 /\ Precision \in Width - 2 .. Width
ASSUME CharactersAssumption == Characters \in Seq(Text)

AbsOf(n) == IF n < 0 THEN -n ELSE n
Sign(n) == IF n = 0 THEN 0 ELSE IF n < 0 THEN -1 ELSE 1

MaxInt == 2 ^ (Width - 1) - 1
MinInt == -(2 ^ (Width - 1))
IntRange == MinInt .. MaxInt

\* The sum of two integers in two's complement.
Wrapped(n) == ((n - MinInt) % 2 ^ Width) + MinInt

\* A decimal of h halves, as it is written.
HalfText(h) == (IF h < 0 THEN "-" ELSE "") \o ToString(AbsOf(h) \div 2)
               \o (IF h % 2 = 1 THEN ".5" ELSE "")
HalfRange == -(8 * MaxInt) .. 8 * MaxInt

Integer(n) == Leaf(Label("integer", ToString(n)))
Halves(h)  == Leaf(Label("decimal", HalfText(h)))
String(s)  == Leaf(Label("string", s))
Boolean(b) == Leaf(Label("boolean", IF b THEN "true" ELSE "false"))
NonFinite  == {Leaf(Label("decimal", t)) : t \in {"inf", "-inf", "nan"}}

Content(v) == v[<<>>].content
IntegerOf == [t \in {ToString(n) : n \in IntRange} |-> CHOOSE n \in IntRange : ToString(n) = t]
HalvesOf  == [t \in {HalfText(h) : h \in HalfRange} |-> CHOOSE h \in HalfRange : HalfText(h) = t]

\* value::as_boolean, as_integer, as_decimal (in halves: of an integer, the nearest decimal,
\* the one with an even significand of two as near).
AsBoolean(v) == Content(v) = "true"
AsInteger(v) == IntegerOf[Content(v)]
Nearest(n) == IF AbsOf(n) <= 2 ^ Precision THEN n ELSE 4 * ((n + 1) \div 4) + (IF n % 4 = 2 THEN 2 ELSE 0)
AsHalves(v) == IF KindOf(v) = "integer" THEN 2 * Nearest(AsInteger(v)) ELSE HalvesOf[Content(v)]

Numeric(v) == KindOf(v) \in {"integer", "decimal"}
Finite(v) == v \notin NonFinite

-----------------------------------------------------------------------------
(* compare *)

\* compare_traits::kindval
KindVal == [null |-> 0, boolean |-> 1, integer |-> 2, decimal |-> 2,
            string |-> 3, array |-> 4, object |-> 5]

\* The comparison of two ranges of n and m elements, the i-th of which compare as at[i].
Lexical(n, m, at) ==
    LET different == {i \in 1 .. Min({n, m}) : at[i] # 0}
    IN  IF different = {} THEN Sign(n - m) ELSE at[Min(different)]

CharAt(s, i) == SubSeq(s, i, i)
Code(c) == CHOOSE i \in DOMAIN Characters : Characters[i] = c
Lower(c) ==
    IF c \in {"A", "B"} THEN (IF c = "A" THEN "a" ELSE "b") ELSE c

CompareStrings(s, t) ==
    Lexical(Len(s), Len(t), [i \in 1 .. Min({Len(s), Len(t)}) |->
                                Sign(Code(CharAt(s, i)) - Code(CharAt(t, i)))])

\* compare_traits_icase::compare_strings
CompareStringsIcase(s, t) ==
    Lexical(Len(s), Len(t), [i \in 1 .. Min({Len(s), Len(t)}) |->
                                Sign(Code(Lower(CharAt(s, i))) - Code(Lower(CharAt(t, i))))])

\* Two decimals are equal if their difference is next to zero, which the difference of two
\* equal infinities, NaN, is not; and whatever is neither equal nor less is greater.
CompareDecimals(a, b) ==
    IF Finite(a) /\ Finite(b) THEN Sign(AsHalves(a) - AsHalves(b))
    ELSE IF \/ Content(a) = "-inf" /\ Content(b) \notin {"-inf", "nan"}
            \/ Content(b) = "inf" /\ Content(a) \notin {"inf", "nan"}
         THEN -1 ELSE 1

\* Mutant of CompareNumbers: integers are compared as decimals too.
CompareNumbersAsDecimals(a, b) == CompareDecimals(a, b)

CompareNumbers(a, b) ==
    IF KindOf(a) = "integer" /\ KindOf(b) = "integer"
    THEN Sign(AsInteger(a) - AsInteger(b))
    ELSE CompareDecimals(a, b)

\* A std::map iterates in the order of its keys.
KeysInOrder(v) == SetToSortSeq(KeysOf(v), LAMBDA k, l : CompareStrings(k, l) < 0)

RECURSIVE CompareTrees(_, _, _)

\* The comparison of two different objects.  The keys of objects are compared with case
\* even if strings are not.
CompareTrees(a, b, icase) ==
    LET kind == KindOf(a)
        ka == KeysInOrder(a)
        kb == KeysInOrder(b)
        atMember[i \in 1 .. Min({Len(ka), Len(kb)})] ==
            IF ka[i] # kb[i] THEN CompareStrings(ka[i], kb[i])
            ELSE CompareTrees(Member(a, ka[i]), Member(b, kb[i]), icase)
        atElement[i \in 1 .. Min({Size(a), Size(b)})] ==
            CompareTrees(Element(a, i - 1), Element(b, i - 1), icase)
    IN  CASE KindVal[kind] # KindVal[KindOf(b)] -> Sign(KindVal[kind] - KindVal[KindOf(b)])
          [] kind = "null" -> 0
          [] kind = "boolean" -> IF a = b THEN 0 ELSE IF AsBoolean(a) THEN 1 ELSE -1
          [] Numeric(a) /\ Numeric(b) -> CompareNumbers(a, b)
          [] kind = "string" /\ ~icase -> CompareStrings(Content(a), Content(b))
          [] kind = "string" /\ icase -> CompareStringsIcase(Content(a), Content(b))
          [] kind = "array" -> Lexical(Size(a), Size(b), atElement)
          [] kind = "object" -> Lexical(Size(a), Size(b), atMember)

Compare(a, b)      == CompareTrees(a, b, FALSE)
CompareIcase(a, b) == CompareTrees(a, b, TRUE)

\* value::operator== of two different objects.
Equal(a, b) == Compare(a, b) = 0

RECURSIVE Hash(_)

\* std::hash<value>: the hash of a scalar goes by its kind and content (0 and the zero of
\* decimals apart), those of elements are combined in order.
Hash(v) ==
    LET keys == KeysInOrder(v)
    IN  CASE KindOf(v) = "array" -> <<"range">> \o [i \in 1 .. Size(v) |-> Hash(Element(v, i - 1))]
          [] KindOf(v) = "object" ->
               <<"range">> \o [i \in DOMAIN keys |->
                   <<"xor", Hash(String(keys[i])), Hash(Member(v, keys[i]))>>]
          [] OTHER -> <<KindOf(v), Content(v)>>

-----------------------------------------------------------------------------
(* diff *)

\* Mutant of EqualMembers: the values are not compared.
SharedMembers(a, b) == KeysOf(a) \cap KeysOf(b)

EqualMembers(a, b) == {k \in KeysOf(a) \cap KeysOf(b) : Equal(Member(a, k), Member(b, k))}

RECURSIVE Diff(_, _)

\* Whatever is equal on both sides goes to same, the rest to left and right; but of the
\* members of an object that differ, what is the same inside them is dropped.
Diff(a, b) ==
    LET kind == KindOf(a)
        shorter == Min({Size(a), Size(b)})
        sub == [i \in 1 .. shorter |-> Diff(Element(a, i - 1), Element(b, i - 1))]
        Rest(v) == SubSeq(Elements(v), shorter + 1, Size(v))
        shared == KeysOf(a) \cap KeysOf(b)
        equal == EqualMembers(a, b)
        Of(k) == Diff(Member(a, k), Member(b, k))
    IN  CASE Equal(a, b) -> [same |-> a, left |-> Null, right |-> Null]
          [] ~Equal(a, b) /\ (KindOf(a) # KindOf(b) \/ ~IsContainer(a[<<>>])) ->
               [same |-> Null, left |-> a, right |-> b]
          [] ~Equal(a, b) /\ kind = "array" /\ KindOf(b) = "array" ->
               [same  |-> ArrayOf([i \in DOMAIN sub |-> sub[i].same]),
                left  |-> ArrayOf([i \in DOMAIN sub |-> sub[i].left] \o Rest(a)),
                right |-> ArrayOf([i \in DOMAIN sub |-> sub[i].right] \o Rest(b))]
          [] ~Equal(a, b) /\ kind = "object" /\ KindOf(b) = "object" ->
               [same  |-> ObjectOfMap([k \in equal |-> Member(a, k)]),
                left  |-> ObjectOfMap([k \in KeysOf(a) \ equal |->
                              IF k \in shared THEN Of(k).left ELSE Member(a, k)]),
                right |-> ObjectOfMap([k \in KeysOf(b) \ equal |->
                              IF k \in shared THEN Of(k).right ELSE Member(b, k)])]

-----------------------------------------------------------------------------
(* map, traverse and validate *)

\* map(func, const value&)
Map(func, v) ==
    CASE KindOf(v) = "array" -> ArrayOf([i \in 1 .. Size(v) |-> func[Element(v, i - 1)]])
      [] KindOf(v) = "object" -> ObjectOfMap([k \in KeysOf(v) |-> func[Member(v, k)]])
      [] OTHER -> func[v]

\* Mutant of LeftByMap: the input is given up before the calls.
LeftByMapNothing(v, call) == Null

\* map(func, value&&), of a function that throws when it is called for the call-th time:
\* what it leaves of the input, where the arguments of the calls are moved from.
LeftByMap(v, call) ==
    LET keys == KeysInOrder(v)
        called == {keys[i] : i \in {j \in DOMAIN keys : j <= call}}
    IN  CASE KindOf(v) = "array" /\ call <= Size(v) ->
               ArrayOf([i \in 1 .. Size(v) |-> IF i <= call THEN Null ELSE Element(v, i - 1)])
          [] KindOf(v) = "object" /\ call <= Size(v) ->
               ObjectOfMap([k \in KeysOf(v) |-> IF k \in called THEN Null ELSE Member(v, k)])
          [] OTHER -> Null

\* Mutant of IsLeaf: without tree.empty().
IsScalar(v) == ~IsContainer(v[<<>>])

\* What leafs_only keeps.
IsLeaf(v) == IsContainer(v[<<>>]) => Size(v) = 0

RECURSIVE Traverse(_, _, _)

\* The calls of traverse's function, in order: each a path and the value there.
Traverse(v, base, leafs_only) ==
    LET keys == KeysInOrder(v)
        steps == IF KindOf(v) = "object" THEN [i \in DOMAIN keys |-> Key(keys[i])]
                 ELSE IF KindOf(v) = "array" THEN [i \in 1 .. Size(v) |-> Index(i - 1)]
                 ELSE <<>>
        here == IF ~leafs_only \/ IsLeaf(v) THEN <<<<base, v>>>> ELSE <<>>
    IN  here \o FlattenSeq([i \in DOMAIN steps |->
            Traverse(Sub(v, <<steps[i]>>), Append(base, steps[i]), leafs_only)])

\* validate: the path of the validation_error, if there is one.
Validate(v) ==
    LET visits == Traverse(v, <<>>, FALSE)
        wrong == {i \in DOMAIN visits : KindOf(visits[i][2]) = "decimal" /\ ~Finite(visits[i][2])}
    IN  IF wrong = {} THEN {} ELSE {visits[Min(wrong)][1]}

-----------------------------------------------------------------------------
(* coerce *)

\* can_coerce of kinds: nothing is said to become a number but a number.
CanCoerceKind(from, to) ==
    CASE to \in {"null", "object", "array"} -> from = to
      [] to \in {"string", "boolean"} -> TRUE
      [] to \in {"decimal", "integer"} -> from \in {"decimal", "integer"}

\* What parse makes of the texts in use: numbers and null are told from the rest.
Parsed(s) ==
    CASE s \in DOMAIN IntegerOf -> {Integer(IntegerOf[s])}
      [] s \notin DOMAIN IntegerOf /\ s \in DOMAIN HalvesOf -> {Halves(HalvesOf[s])}
      [] s = "null" -> {Null}
      [] OTHER -> {}

\* std::int64_t(double), truncation, is undefined out of the range of an integer: processors
\* give the smallest integer, or the nearest one, and zero for a NaN.
Casts(v) ==
    LET h == HalvesOf[Content(v)]
        n == Sign(h) * (AbsOf(h) \div 2)
    IN  CASE Content(v) = "nan" -> {MinInt, 0}
          [] Content(v) = "-inf" -> {MinInt}
          [] Content(v) = "inf" -> {MinInt, MaxInt}
          [] OTHER -> IF n > MaxInt THEN {MinInt, MaxInt} ELSE IF n < MinInt THEN {MinInt} ELSE {n}

\* Mutant of Truncated: the check against the largest integer is missing.
TruncatedUnchecked(v) == Casts(v)

\* Only what is above the decimal nearest to the largest integer is replaced by it.
Truncated(v) ==
    IF Content(v) = "inf" \/ (Finite(v) /\ AsHalves(v) > 2 * Nearest(MaxInt))
    THEN {MaxInt} ELSE Casts(v)

\* coerce_integer: the outcomes, none if it throws kind_error.
CoerceInteger(v) ==
    LET OfNumber(x) == CASE KindOf(x) = "integer" -> {AsInteger(x)}
                         [] KindOf(x) = "decimal" -> Truncated(x)
                         [] OTHER -> {}
    IN  CASE KindOf(v) = "boolean" -> {IF AsBoolean(v) THEN 1 ELSE 0}
          [] KindOf(v) = "string" -> UNION {OfNumber(x) : x \in Parsed(Content(v))}
          [] OTHER -> OfNumber(v)

\* coerce_decimal: the outcome, none if it throws kind_error.
CoerceDecimal(v) ==
    LET OfNumber(x) == IF KindOf(x) = "integer" THEN {Halves(AsHalves(x))}
                       ELSE IF KindOf(x) = "decimal" THEN {x} ELSE {}
    IN  CASE KindOf(v) = "boolean" -> {Halves(IF AsBoolean(v) THEN 2 ELSE 0)}
          [] KindOf(v) = "string" -> UNION {OfNumber(x) : x \in Parsed(Content(v))}
          [] OTHER -> OfNumber(v)

\* Mutant of CanCoerce: strings are not read.
CanCoerceByKind(v, to) == CanCoerceKind(KindOf(v), to)

\* can_coerce of a value: a string is read to see what number it is.
CanCoerce(v, to) ==
    \/ CanCoerceKind(KindOf(v), to)
    \/ KindOf(v) = "string" /\ to = "decimal" /\ CoerceDecimal(v) # {}
    \/ KindOf(v) = "string" /\ to = "integer" /\ CoerceInteger(v) # {}

CoerceBoolean(v) ==
    CASE KindOf(v) = "null" -> FALSE
      [] KindOf(v) \in {"object", "array"} -> Size(v) # 0
      [] KindOf(v) = "string" -> Content(v) # ""
      [] Numeric(v) -> CompareNumbers(v, Integer(0)) # 0
      [] KindOf(v) = "boolean" -> AsBoolean(v)

RECURSIVE Written(_)

\* to_string of a value: what the plain encoder writes.
Written(v) ==
    LET keys == KeysInOrder(v)
        Quoted(s) == "\"" \o s \o "\""
        Listed(parts) == FoldLeft(LAMBDA x, y : IF x = "" THEN y ELSE x \o "," \o y, "", parts)
    IN  CASE KindOf(v) = "array" ->
               "[" \o Listed([i \in 1 .. Size(v) |-> Written(Element(v, i - 1))]) \o "]"
          [] KindOf(v) = "object" ->
               "{" \o Listed([i \in DOMAIN keys |->
                         Quoted(keys[i]) \o ":" \o Written(Member(v, keys[i]))]) \o "}"
          [] KindOf(v) = "string" -> Quoted(Content(v))
          [] KindOf(v) = "null" \/ ~Finite(v) -> "null"
          [] OTHER -> Content(v)

CoerceString(v) == IF KindOf(v) = "string" THEN Content(v) ELSE Written(v)

-----------------------------------------------------------------------------
(* merge *)

Conflict(a, b) == KindOf(a) # KindOf(b) /\ ~(Numeric(a) /\ Numeric(b))

SumOfDecimals(a, b) ==
    CASE Finite(a) /\ Finite(b) -> Halves(AsHalves(a) + AsHalves(b))
      [] Finite(a) /\ ~Finite(b) -> b
      [] ~Finite(a) /\ Finite(b) -> a
      [] OTHER -> IF a = b THEN a ELSE Leaf(Label("decimal", "nan"))

\* merge_explicit of two values of the same kind, other than objects.
Joined(a, b) ==
    CASE KindOf(a) = "array" -> ArrayOf(Elements(a) \o Elements(b))
      [] KindOf(a) = "boolean" -> Boolean(AsBoolean(a) \/ AsBoolean(b))
      [] KindOf(a) = "integer" /\ KindOf(b) = "integer" ->
           Integer(Wrapped(AsInteger(a) + AsInteger(b)))
      [] Numeric(a) /\ "decimal" \in {KindOf(a), KindOf(b)} -> SumOfDecimals(a, b)
      [] KindOf(a) = "null" -> a
      [] KindOf(a) = "string" -> String(Content(a) \o Content(b))

\* Mutant of Union: what is left of the second object is forgotten.
UnionOfFirst(a, b, resolved) ==
    ObjectOfMap([k \in KeysOf(a) |-> IF k \in KeysOf(b) THEN resolved[k] ELSE Member(a, k)])

\* merge_explicit of two objects, where the rules resolve a key of both to resolved[key].
Union(a, b, resolved) ==
    ObjectOfMap([k \in KeysOf(a) \cup KeysOf(b) |->
        CASE k \notin KeysOf(b) -> Member(a, k)
          [] k \notin KeysOf(a) -> Member(b, k)
          [] OTHER -> resolved[k]])

\* merge_explicit with throwing_merge_rules: the value, or the error with its path.
MergeThrowing(a, b) ==
    LET shared == [i \in DOMAIN KeysInOrder(a) |-> KeysInOrder(a)[i] \in KeysOf(b)]
        clashes == {i \in DOMAIN shared : shared[i]}
        Fail(error, path) == [error |-> error, path |-> path, value |-> Null]
    IN  CASE Conflict(a, b) -> Fail("kind_error", <<>>)
          [] KindOf(a) = "object" /\ KindOf(b) = "object" /\ clashes # {} ->
               Fail("logic_error", <<Key(KeysInOrder(a)[Min(clashes)])>>)
          [] OTHER ->
               [error |-> "none", path |-> <<>>,
                value |-> IF KindOf(a) = "object"
                          THEN Union(a, b, <<>>) ELSE Joined(a, b)]

\* merge_explicit with dynamic_merge_rules, whose functions take a pair of values; same_key
\* resolves a conflict of types too.
MergeDynamic(a, b, same_key, type_conflict) ==
    CASE Conflict(a, b) -> same_key[<<a, b>>]
      [] KindOf(a) = "object" /\ KindOf(b) = "object" ->
           Union(a, b, [k \in KeysOf(a) \cap KeysOf(b) |-> same_key[<<Member(a, k), Member(b, k)>>]])
      [] OTHER -> Joined(a, b)

RECURSIVE MergeRecursive(_, _), CoerceMerge(_, _)

\* merge_explicit with recursive_merge_rules.
MergeRecursive(a, b) ==
    CASE Conflict(a, b) -> CoerceMerge(a, b)
      [] KindOf(a) = "object" /\ KindOf(b) = "object" ->
           Union(a, b, [k \in KeysOf(a) \cap KeysOf(b) |-> MergeRecursive(Member(a, k), Member(b, k))])
      [] OTHER -> Joined(a, b)

\* A coercion that gives one outcome (its argument is in the range of an integer).
Sole(outcomes) == CHOOSE x \in outcomes : TRUE

\* Combines any two values; the kind of the result is that of the first, unless the first
\* is a number and the second no number, when they change places.
CoerceMerge(a, b) ==
    LET kind == KindOf(a)
    IN  IF kind = KindOf(b) THEN MergeRecursive(a, b)
        ELSE IF KindOf(b) = "null" THEN a
        ELSE IF kind = "null" THEN b
        ELSE IF kind = "array" THEN PushBack(a, b)
        ELSE IF kind = "object" THEN PutMember(a, "undefined", b)
        ELSE IF kind = "string" THEN String(Content(a) \o CoerceString(b))
        ELSE IF kind = "boolean" THEN Boolean(AsBoolean(a) \/ CoerceBoolean(b))
        ELSE IF kind = "integer" /\ CanCoerce(b, "integer")
             THEN Integer(Wrapped(AsInteger(a) + Sole(CoerceInteger(b))))
        ELSE IF CanCoerce(b, "decimal") THEN SumOfDecimals(a, Sole(CoerceDecimal(b)))
        ELSE CoerceMerge(b, a)
=============================================================================
