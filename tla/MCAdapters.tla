----------------------------- MODULE MCAdapters -----------------------------
(***************************************************************************)
(* Model checking of Adapters: the DSL goes on from formats that it has    *)
(* begun, and after every call each type of the formats is extracted from  *)
(* every input and each of its objects is written and read back.           *)
(* Unsigned integers have 2 bits.                                          *)
(***************************************************************************)
EXTENDS Adapters

Obj(f) == ObjectOfMap(f)
S(text) == Scalar("string", text)
Number(n) == <<"integer", n>>

MCOthers ==
    ("maybe" :> [adapter |-> "optional", of |-> "int"])
    @@ ("ints" :> [adapter |-> "container", of |-> "int"])
    @@ ("boxed" :> [adapter |-> "wrapper", of |-> "maybe"])
    @@ ("colour" :> [adapter |-> "enum", mapping |-> <<<<"red", S("r")>>, <<"rot", S("r")>>, <<"red", S("R")>>>>])
    @@ ("shape" :> [adapter |-> "polymorphic", subtypes |-> <<>>, null_input |-> FALSE, null_output |-> FALSE])

Base == "int" :> [adapter |-> "integer", width |-> 2]

\* The formats that some calls of the DSL have made.
Member1 == NewMember("a", "int")
Member2 == [NewMember("b", "maybe") EXCEPT !.default = <<<<"some", Number(1)>>>>, !.names = <<"b", "c">>,
                                         !.checks = <<[test |-> "differs", from |-> <<"some", Number(3)>>]>>]
Plain   == [NewObject EXCEPT !.members = <<Member1, Member2>>]
Strict  == [NewObject EXCEPT !.members = <<NewMember("c", "ints")>>, !.pre = <<<<"extra_keys">>>>]
Keyed(type, value, action) ==
    [type |-> type, keyed |-> TRUE, key |-> "k", value |-> S(value), action |-> action]
Shape == [MCOthers["shape"] EXCEPT !.subtypes = <<Keyed("point", "p", "insert"), Keyed("path", "q", "insert")>>,
                                   !.null_input = TRUE, !.null_output = TRUE]
Shapes == [adapter |-> "container", of |-> "shape"]

Begun == Base @@ ("point" :> Plain) @@ ("maybe" :> MCOthers["maybe"]) @@ ("path" :> Strict)
         @@ ("ints" :> MCOthers["ints"]) @@ ("shape" :> Shape) @@ ("shapes" :> Shapes)

MCStarts == {Base, Begun}
MCSamples ==
    ("int" :> {Number(1)}) @@ ("maybe" :> {<<"empty">>, <<"some", Number(2)>>})
    @@ ("colour" :> {<<"enum", "rot">>}) @@ ("ints" :> {<<"list", <<>>>>}) @@ ("shape" :> {<<"null">>})
    @@ ("boxed" :> {<<"wrapper", <<"empty">>>>})
    @@ ("point" :> {<<"object", <<Number(1), <<"empty">>>>>>, <<"object", <<Number(2), <<"empty">>>>>>})
MCDiscriminators == {S("p")}

\* Values to extract from: most of them for "point", then for the others.
Leaves  == {Null, Integer(1), Integer(5), Integer(-1), S("r")}
Lists   == {ArrayOf(<<>>), ArrayOf(<<Integer(1), Null>>), ArrayOf(<<S("r"), Integer(5), Null>>)}
Objects == {Obj(<<>>)} \cup {Obj(k :> x) : k \in {"a", "b", "c"}, x \in {Null, Integer(5)}}
           \cup {Obj(("a" :> x) @@ (k :> y)) : x \in {Null, Integer(5)}, k \in {"b", "c", "k"},
                                              y \in {Null, Integer(1), S("p"), ArrayOf(<<Integer(1)>>)}}
           \cup {Obj(("b" :> x) @@ ("c" :> y)) : x, y \in {Integer(1), S("r")}}
           \cup {Obj(("k" :> S("q")) @@ ("c" :> x)) : x \in Lists}
Point(x, discriminator) == Obj(("a" :> Integer(1)) @@ ("b" :> x) @@ ("k" :> S(discriminator)))
Many == {ArrayOf(<<Null, Point(Null, "p"), v>>) :
            v \in {Null, Point(Integer(1), "p"), Point(S("r"), "p"), Point(Null, "x")}}
Inputs == Leaves \cup Lists \cup Objects \cup Many

\* The types of objects and the one that contains the subtypes; the others are in them.
Built == AdaptersOf("object") \cup ({"shapes"} \cap DOMAIN formats)

Spec == AdaptersInit /\ [][AdaptersNext]_adapterVars

-----------------------------------------------------------------------------
(* The culprit of a failed extraction *)

\* The key a member is read from: the earliest of its names that the object has.
ReadsFrom(m, v, k) ==
    \E i \in DOMAIN m.names : m.names[i] = k /\ HasKey(v, k) /\ \A j \in 1 .. i - 1 : ~HasKey(v, m.names[j])

\* A type is at fault for a value of which it cannot even read the parts.
AtFault(t, w) ==
    IF t \notin DOMAIN formats THEN TRUE
    ELSE LET a == formats[t]
             Lacks(m) == /\ m.default = <<>>
                         /\ ~ \E k \in KeysOf(w) :
                               ReadsFrom(m, w, k) /\ (m.default_on_null => KindOf(Member(w, k)) # "null")
             Unnamed(k) == \A i \in DOMAIN a.members : k \notin ToSet(a.members[i].names)
         IN  CASE a.adapter \in {"integer", "string"} -> KindOf(w) # a.adapter
               [] a.adapter = "container" -> KindOf(w) # "array"
               [] a.adapter = "enum" -> w \notin {pair[2] : pair \in ToSet(a.mapping)}
               [] a.adapter \in {"optional", "wrapper"} -> FALSE
               [] a.adapter = "polymorphic" ->
                    /\ KindOf(w) = "null" => ~a.null_input
                    /\ ~ \E s \in ToSet(a.subtypes) : Discriminates(s, w)
               [] a.adapter = "object" ->
                    \/ <<"refuse", w>> \in ToSet(a.pre)
                    \/ <<"extra_keys">> \in ToSet(a.pre) /\ (KindOf(w) = "object" => \E k \in KeysOf(w) : Unnamed(k))
                    \/ IF a.default_on_null /\ KindOf(w) = "null" THEN a.default = <<>>
                       ELSE /\ a.members # <<>>
                            /\ KindOf(w) = "object" => \E m \in ToSet(a.members) : Lacks(m)

\* The types that are extracted from the node p of v when t is extracted from v.
RECURSIVE TypesAt(_, _, _)
TypesAt(t, v, p) ==
    LET inner ==
            IF t \notin DOMAIN formats THEN {}
            ELSE LET a == formats[t]
                     first == CHOOSE i \in DOMAIN a.subtypes :
                                 /\ Discriminates(a.subtypes[i], v)
                                 /\ \A j \in 1 .. i - 1 : ~Discriminates(a.subtypes[j], v)
                     step  == Head(p)
                     below == Sub(v, <<step>>)
                     read  == {m \in ToSet(a.members) :
                                  /\ step[1] = "key" /\ ReadsFrom(m, v, step[2])
                                  /\ m.default_on_null => KindOf(below) # "null"}
                 IN  CASE a.adapter = "wrapper" -> TypesAt(a.of, v, p)
                       [] a.adapter = "optional" -> IF KindOf(v) = "null" THEN {} ELSE TypesAt(a.of, v, p)
                       [] a.adapter = "polymorphic" ->
                            IF AtFault(t, v) \/ (a.null_input /\ KindOf(v) = "null") THEN {}
                            ELSE TypesAt(a.subtypes[first].type, v, p)
                       [] a.adapter = "container" /\ p # <<>> /\ KindOf(v) = "array" -> TypesAt(a.of, below, Tail(p))
                       [] a.adapter = "object" /\ p # <<>> /\ KindOf(v) = "object" ->
                            UNION {TypesAt(m.type, below, Tail(p)) : m \in read}
                       [] OTHER -> {}
    IN  inner \cup IF p = <<>> THEN {t} ELSE {}

Faulty(t, v, p) == \E u \in TypesAt(t, v, p) : AtFault(u, Sub(v, p))

\* Extraction fails just when some type is at fault for the part of the value that it is
\* extracted from; it fails with an extraction_error, and its path is that of such a part
\* and, in an array, of the first.
ErrorsNameTheCulprit ==
    \A t \in Built, v \in Inputs :
        LET r == Extract(formats, t, v, <<>>)
        IN  \/ IsOk(r) /\ \A p \in DOMAIN v : ~Faulty(t, v, p)
            \/ /\ r[1] = "extraction_error" /\ r[2] \in DOMAIN v /\ Faulty(t, v, r[2])
               /\ r[2] # <<>> /\ Last(r[2])[1] = "index" =>
                     \A i \in 0 .. Last(r[2])[2] - 1 : ~Faulty(t, v, Append(Front(r[2]), Index(i)))

\* The versions to write at: one where no member depends on it.
Contexts ==
    IF \E t \in AdaptersOf("object") : \E m \in ToSet(formats[t].members) :
          \E check \in ToSet(m.checks) : check.test # "differs"
    THEN 0 .. 3 ELSE {0}

-----------------------------------------------------------------------------
(* Extra keys *)

WithoutKeys(v, keys) == [p \in {q \in DOMAIN v : q = <<>> \/ Head(q)[2] \notin keys} |-> v[p]]

\* The keys that on_extract_extra_keys reports are those that extraction does not read: a
\* type that reports them accepts just what it would accept without the handler from an
\* object without these keys, and makes the same of it.
ExtraKeysAreUnread ==
    \A t \in AdaptersOf("object"), v \in Objects :
        LET a == formats[t]
            extra   == ExtraKeys(a.members, v)
            plain   == [formats EXCEPT ![t].pre = <<>>]
        IN  ToSet(a.pre) = {<<"extra_keys">>} =>
               /\ Extract(formats, t, WithoutKeys(v, extra), <<>>) = Extract(plain, t, v, <<>>)
               /\ extra # {} => Extract(formats, t, v, <<>>) = ExtractionError(<<>>)

-----------------------------------------------------------------------------
(* What comes back of an object that was written *)

RECURSIVE ObjectsOf(_)
ObjectsOf(t) ==
    IF t \notin DOMAIN formats THEN {}
    ELSE LET a == formats[t]
         IN  CASE a.adapter = "integer" -> {Number(0), Number(3)}
               [] a.adapter = "optional" -> {<<"empty">>} \cup {<<"some", x>> : x \in ObjectsOf(a.of)}
               [] a.adapter = "wrapper" -> {<<"wrapper", x>> : x \in ObjectsOf(a.of)}
               [] a.adapter = "container" -> {<<"list", xs>> : xs \in SeqOf(ObjectsOf(a.of), 1)}
               [] a.adapter = "enum" -> {<<"enum", e>> : e \in {"red", "rot", "blue"}}
               [] a.adapter = "polymorphic" ->
                    {<<"null">>} \cup
                    UNION {{<<"pointer", s.type, x>> : x \in ObjectsOf(s.type)} : s \in ToSet(a.subtypes)}
               [] a.adapter = "object" ->
                    LET of == [i \in DOMAIN a.members |-> ObjectsOf(a.members[i].type)]
                    IN  {<<"object", xs>> : xs \in CASE Len(of) = 0 -> {<<>>}
                                                     [] Len(of) = 1 -> {<<x>> : x \in of[1]}
                                                     [] Len(of) = 2 -> {<<x, y>> : x \in of[1], y \in of[2]}}

\* All that a program asks of a type to have its objects back: no two members share a name,
\* no hook interferes, and the subtypes of a pointer can be told apart by their one key,
\* which is inserted and which no subtype has as a member.
RECURSIVE TellsItsObjectsApart(_)
TellsItsObjectsApart(t) ==
    t \in DOMAIN formats /\
    LET a == formats[t]
    IN  CASE a.adapter \in {"optional", "wrapper", "container"} -> TellsItsObjectsApart(a.of)
          [] a.adapter = "polymorphic" ->
               /\ a.null_input /\ a.null_output
               /\ \A i, j \in DOMAIN a.subtypes :
                     LET r == a.subtypes[i]  s == a.subtypes[j]
                         sub == formats[r.type]
                     IN  /\ r.keyed /\ s.keyed /\ r.key = s.key /\ (i # j => r.value # s.value)
                         /\ r.action = "insert" /\ TellsItsObjectsApart(r.type)
                         /\ \A m \in ToSet(sub.members) : r.key \notin ToSet(m.names)
          [] a.adapter = "object" ->
               /\ a.post = <<>> /\ ToSet(a.pre) \subseteq {<<"extra_keys">>}
               /\ \A m \in ToSet(a.members) : TellsItsObjectsApart(m.type)
               /\ \A i, j \in DOMAIN a.members :
                     i # j => ToSet(a.members[i].names) \cap ToSet(a.members[j].names) = {}
          [] OTHER -> TRUE

Lost == <<"lost">>

\* What should come back of x: x, but for the enumerators that share a value, the values
\* that are written as null and the defaults of what is not written.
RECURSIVE Expected(_, _, _)
Expected(t, x, version) ==
    LET a == formats[t]
        Wrapped(sort, y) == IF y = Lost THEN Lost ELSE <<sort, y>>
        Together(sort, ys) == IF \E i \in DOMAIN ys : ys[i] = Lost THEN Lost ELSE <<sort, ys>>
        Default(m) == IF m.default = <<>> THEN Lost ELSE m.default[1]
        BackOf(m, y) ==
            IF \/ \E c \in ToSet(m.checks) : ~Passes(c, version, y)
               \/ m.default_on_null /\ ToJson(formats, m.type, y, version) = Ok(Null)
            THEN Default(m)
            ELSE Expected(m.type, y, version)
        written == IF \E pair \in ToSet(a.mapping) : pair[1] = x[2]
                   THEN SelectSeq(a.mapping, LAMBDA pair : pair[1] = x[2])[1][2] ELSE Null
        readers == SelectSeq(a.mapping, LAMBDA pair : pair[2] = written)
    IN  CASE a.adapter = "integer" -> x
          [] a.adapter = "wrapper" -> Wrapped("wrapper", Expected(a.of, x[2], version))
          [] a.adapter = "optional" ->
               IF x = <<"empty">> \/ ToJson(formats, a.of, x[2], version) = Ok(Null) THEN <<"empty">>
               ELSE Wrapped("some", Expected(a.of, x[2], version))
          [] a.adapter = "container" ->
               Together("list", [i \in DOMAIN x[2] |-> Expected(a.of, x[2][i], version)])
          [] a.adapter = "enum" -> IF readers = <<>> THEN Lost ELSE <<"enum", readers[1][1]>>
          [] a.adapter = "polymorphic" ->
               IF x = <<"null">> THEN x
               ELSE IF <<"extra_keys">> \in ToSet(formats[x[2]].pre) THEN Lost
               ELSE LET y == Expected(x[2], x[3], version)
                    IN  IF y = Lost THEN Lost ELSE <<"pointer", x[2], y>>
          [] a.adapter = "object" ->
               Together("object", [i \in DOMAIN a.members |-> BackOf(a.members[i], x[2][i])])

\* An object that is written, at any version, is read back as expected, or is refused where
\* something was not written and has no default or where a subtype reports the
\* discriminator as an extra key.
WrittenIsReadBack ==
    \A t \in {u \in Built : TellsItsObjectsApart(u)}, version \in Contexts :
        \A x \in ObjectsOf(t) :
            LET json == ToJson(formats, t, x, version)
                back == Extract(formats, t, json[2], <<>>)
                expected == Expected(t, x, version)
            IN  /\ IsOk(json)
                /\ IF expected = Lost THEN ~IsOk(back) ELSE back = Ok(expected)
=============================================================================
