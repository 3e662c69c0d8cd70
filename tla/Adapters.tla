------------------------------ MODULE Adapters ------------------------------
(***************************************************************************)
(* The adapters that the serialization DSL builds (serialization_builder   *)
(* .hpp, serialization_util.hpp, serialization_optional.hpp) and the       *)
(* contexts they run in (extraction_context and serialization_context of   *)
(* serialization.cpp).  The calls of the DSL are actions: they go on       *)
(* changing an adapter through a pointer after it has been registered.     *)
(* Extraction and encoding change nothing and are operators.               *)
(*                                                                         *)
(* formats is seen as the function from types to adapters that lookup      *)
(* gives; how lookup finds them is in Formats.  A C++ object is a sequence *)
(* headed by its sort:  <<"integer", n>>,  <<"string", s>>,                *)
(* <<"object", values of the members>>,  <<"empty">> and <<"some", x>>,    *)
(* <<"list", xs>>,  <<"wrapper", x>>,  <<"enum", name>>,  <<"null">> and   *)
(* <<"pointer", type, x>>.                                                 *)
(***************************************************************************)
EXTENDS JsonTree, Integers, TLC

CONSTANTS
    Starts,         \* formats to start from
    NewTypes,       \* types that type<T>() may be called for
    Others,         \* a function from types to the other adapters that may be registered
    Names,          \* the names of members
    Samples,        \* a function from types to objects: defaults, refused and changed values
    MemberTypes, SubTypes, \* the types of the members and the subtypes that are added
    Versions,       \* the versions that members are limited to, as numbers above 0
    Discriminators, \* the values of keyed subtypes
    IntegerLimit,   \* bound: the JSON integers are -IntegerLimit .. IntegerLimit
    MaxMembers, MaxCalls   \* bounds: the members of a type, the calls of the DSL

ASSUME BoundsAssumption == IntegerLimit \in Nat /\ MaxMembers \in Nat /\ MaxCalls \in Nat

VARIABLES
    formats,    \* from types to adapters
    calls       \* the calls of the DSL so far

adapterVars == <<formats, calls>>

\* The results of a call: a value, an extraction_error with its path, another exception,
\* or none because the behaviour is undefined.
Ok(x) == <<"ok", x>>
ExtractionError(path) == <<"extraction_error", path>>
Thrown    == <<"thrown">>
Undefined == <<"undefined">>
IsOk(r) == r[1] = "ok"

\* All of the results, as one: the first that is not a value decides.
AllOf(rs) ==
    LET failed == SelectInSeq(rs, LAMBDA r : ~IsOk(r))
    IN  IF failed # 0 THEN rs[failed] ELSE Ok([i \in DOMAIN rs |-> rs[i][2]])

Scalar(kind, content) == Leaf(Label(kind, content))
Integer(n) == Scalar("integer", ToString(n))
IntegerOf(v) == CHOOSE n \in -IntegerLimit .. IntegerLimit : ToString(n) = v[<<>>].content

-----------------------------------------------------------------------------
(* Extraction *)

RECURSIVE Extract(_, _, _, _)

\* extraction_context::extract_sub.
ExtractSub(f, type, from, step, path) ==
    IF <<step>> \in DOMAIN from
    THEN Extract(f, type, Sub(from, <<step>>), Append(path, step))
    ELSE ExtractionError(Append(path, step))

\* Calling a std::function that may be empty.
Call(function) == IF function = <<>> THEN Thrown ELSE Ok(function[1])

\* member_adapter_impl::mutate: the value of member m.  (What check_input has stored in
\* m.refused is not looked at.)
Mutate(f, m, from, path) ==
    LET found == SelectInSeq(m.names, LAMBDA name : HasKey(from, name))
        key   == m.names[found]
    IN  CASE KindOf(from) # "object" -> Thrown
          [] KindOf(from) = "object" /\ found = 0 ->
               IF m.default = <<>> THEN ExtractionError(path) ELSE Call(m.default)
          [] KindOf(from) = "object" /\ found # 0 ->
               IF m.default_on_null /\ KindOf(Member(from, key)) = "null" THEN Call(m.default)
               ELSE ExtractSub(f, m.type, from, Key(key), path)

\* Mutant of HasExtractKey: alternate names are left out.
HasExtractKeyFirst(m, key) == m.names[1] = key

HasExtractKey(m, key) == key \in ToSet(m.names)

ExtraKeys(members, from) == {k \in KeysOf(from) : \A i \in DOMAIN members : ~HasExtractKey(members[i], k)}

\* A pre_extract function: that of on_extract_extra_keys with the handler
\* throw_extra_keys_extraction_error, or one of the program that refuses a value.
RunHook(hook, members, from, path) ==
    CASE hook = <<"extra_keys">> ->
           IF KindOf(from) # "object" THEN Thrown
           ELSE IF ExtraKeys(members, from) # {} THEN ExtractionError(path) ELSE Ok(from)
      [] hook[1] = "refuse" -> IF from = hook[2] THEN Thrown ELSE Ok(from)

CreateObject(f, a, from, path) ==
    LET hooks   == AllOf([i \in DOMAIN a.pre |-> RunHook(a.pre[i], a.members, from, path)])
        members == AllOf([i \in DOMAIN a.members |-> Mutate(f, a.members[i], from, path)])
        Changed(x, change) == IF x = change[1] THEN change[2] ELSE x
    IN  IF ~IsOk(hooks) THEN hooks
        ELSE IF a.default_on_null /\ KindOf(from) = "null" THEN Call(a.default)
        ELSE IF ~IsOk(members) THEN members
        ELSE Ok(FoldLeft(Changed, <<"object", members[2]>>, a.post))

\* Whether a subtype of a polymorphic adapter is the one for a value.
Discriminates(s, from) ==
    IF s.keyed THEN /\ KindOf(from) = "object" /\ HasKey(from, s.key)
                    /\ Member(from, s.key) = s.value
    ELSE KindOf(from) = s.kind

Map(Wrap(_), r) == IF IsOk(r) THEN Ok(Wrap(r[2])) ELSE r

CreatePolymorphic(f, a, from, path) ==
    LET found == SelectInSeq(a.subtypes, LAMBDA s : Discriminates(s, from))
        type  == a.subtypes[found].type
    IN  IF a.null_input /\ KindOf(from) = "null" THEN Ok(<<"null">>)
        ELSE IF found = 0 THEN ExtractionError(path)
        ELSE Map(LAMBDA x : <<"pointer", type, x>>, Extract(f, type, from, path))

CreateEnum(a, from, path) ==
    LET found == SelectInSeq(a.mapping, LAMBDA pair : pair[2] = from)
    IN  IF found # 0 THEN Ok(<<"enum", a.mapping[found][1]>>) ELSE ExtractionError(path)

CreateList(f, a, from, path) ==
    IF KindOf(from) # "array" THEN Thrown
    ELSE Map(LAMBDA xs : <<"list", xs>>,
             AllOf([i \in 1 .. Size(from) |-> ExtractSub(f, a.of, from, Index(i - 1), path)]))

\* formats::extract: what the extractor of the type makes of a value.
Create(f, type, from, path) ==
    IF type \notin DOMAIN f THEN Thrown
    ELSE LET a == f[type]
         IN  CASE a.adapter = "integer" ->
                    IF KindOf(from) = "integer" THEN Ok(<<"integer", IntegerOf(from) % 2 ^ a.width>>)
                    ELSE Thrown
               [] a.adapter = "string" ->
                    IF KindOf(from) = "string" THEN Ok(<<"string", from[<<>>].content>>) ELSE Thrown
               [] a.adapter = "optional" ->
                    IF KindOf(from) = "null" THEN Ok(<<"empty">>)
                    ELSE Map(LAMBDA x : <<"some", x>>, Extract(f, a.of, from, path))
               [] a.adapter = "wrapper" ->
                    Map(LAMBDA x : <<"wrapper", x>>, Extract(f, a.of, from, path))
               [] a.adapter = "container" -> CreateList(f, a, from, path)
               [] a.adapter = "enum" -> CreateEnum(a, from, path)
               [] a.adapter = "polymorphic" -> CreatePolymorphic(f, a, from, path)
               [] a.adapter = "object" -> CreateObject(f, a, from, path)

\* Mutant of Reported: an extraction_error is caught like the other exceptions.
ReportedAnew(r, path) == IF IsOk(r) THEN r ELSE ExtractionError(path)

\* extraction_context::extract: an extraction_error goes on as it is, and any other
\* exception becomes one with the path of this context.
Reported(r, path) == IF r = Thrown THEN ExtractionError(path) ELSE r

Extract(f, type, from, path) == Reported(Create(f, type, from, path), path)

-----------------------------------------------------------------------------
(* Encoding *)

RECURSIVE ToJson(_, _, _, _)

\* The functions given to encode_if, by since, until, after and before among others.
Passes(check, version, x) ==
    CASE check.test = "since"  -> version = 0 \/ version >= check.version
      [] check.test = "until"  -> version = 0 \/ version <= check.version
      [] check.test = "after"  -> version = 0 \/ version > check.version
      [] check.test = "before" -> version = 0 \/ version < check.version
      [] check.test = "differs" -> x # check.from

\* Mutant of ShouldEncode: a further check takes the place of the one before.
ShouldEncodeLatest(m, version, x) == m.checks # <<>> => Passes(Last(m.checks), version, x)

ShouldEncode(m, version, x) == \A i \in DOMAIN m.checks : Passes(m.checks[i], version, x)

\* adapter_impl::to_json; value::insert keeps the first of two members with one key.
ObjectToJson(f, a, x, version) ==
    LET written == SelectSeq([i \in DOMAIN a.members |-> i],
                             LAMBDA i : ShouldEncode(a.members[i], version, x[2][i]))
        results == AllOf([j \in DOMAIN written |->
                             ToJson(f, a.members[written[j]].type, x[2][written[j]], version)])
        NameOf(j) == a.members[written[j]].names[1]
        First(k)  == CHOOSE j \in DOMAIN written : NameOf(j) = k /\ \A i \in 1 .. j - 1 : NameOf(i) # k
    IN  Map(LAMBDA vs : ObjectOfMap([k \in {NameOf(j) : j \in DOMAIN written} |-> vs[First(k)]]), results)

\* polymorphic_adapter::to_json: what the action of a keyed subtype makes of its JSON.
Discriminated(s, v) ==
    CASE s.action = "none" -> Ok(v)
      [] s.action = "check" ->
           IF KindOf(v) = "object" /\ HasKey(v, s.key) /\ Member(v, s.key) = s.value THEN Ok(v) ELSE Thrown
      [] s.action = "insert" ->
           IF KindOf(v) = "object" /\ ~HasKey(v, s.key) THEN Ok(PutMember(v, s.key, s.value)) ELSE Thrown

PointerToJson(f, a, x, version) ==
    LET r     == ToJson(f, x[2], x[3], version)
        keyed == SelectInSeq(a.subtypes, LAMBDA s : s.keyed /\ s.type = x[2])
    IN  IF x = <<"null">> THEN IF a.null_output THEN Ok(Null) ELSE Undefined
        ELSE IF keyed = 0 \/ ~IsOk(r) THEN r ELSE Discriminated(a.subtypes[keyed], r[2])

EnumToJson(a, x) ==
    LET found == SelectInSeq(a.mapping, LAMBDA pair : pair[1] = x[2])
    IN  Ok(IF found # 0 THEN a.mapping[found][2] ELSE Null)

\* serialization_context::to_json and formats::to_json.
ToJson(f, type, x, version) ==
    IF type \notin DOMAIN f THEN Thrown
    ELSE LET a == f[type]
         IN  CASE a.adapter = "integer" -> Ok(Integer(x[2]))
               [] a.adapter = "string"  -> Ok(Scalar("string", x[2]))
               [] a.adapter = "optional" -> IF x = <<"empty">> THEN Ok(Null) ELSE ToJson(f, a.of, x[2], version)
               [] a.adapter = "wrapper" -> ToJson(f, a.of, x[2], version)
               [] a.adapter = "container" ->
                    Map(ArrayOf, AllOf([i \in DOMAIN x[2] |-> ToJson(f, a.of, x[2][i], version)]))
               [] a.adapter = "enum" -> EnumToJson(a, x)
               [] a.adapter = "polymorphic" -> PointerToJson(f, a, x, version)
               [] a.adapter = "object" -> ObjectToJson(f, a, x, version)

-----------------------------------------------------------------------------
(* The DSL *)

NewMember(name, type) ==
    [names |-> <<name>>, type |-> type, default |-> <<>>, default_on_null |-> FALSE,
     checks |-> <<>>, refused |-> {}]
NewObject == [adapter |-> "object", members |-> <<>>, pre |-> <<>>, post |-> <<>>,
              default |-> <<>>, default_on_null |-> FALSE]

AdaptersOf(kind) == {t \in DOMAIN formats : formats[t].adapter = kind}

Becomes(f) == calls < MaxCalls /\ calls' = calls + 1 /\ formats' = f

\* type<T>(), with the adapter registered before it has any members.
Type == \E t \in NewTypes \ DOMAIN formats : Becomes(formats @@ (t :> NewObject))

\* enum_type, polymorphic_type, register_optional, register_container, register_wrapper.
Register == \E t \in DOMAIN Others \ DOMAIN formats : Becomes(formats @@ (t :> Others[t]))

\* member(name, ...).
AddMember ==
    \E t \in AdaptersOf("object") : \E name \in Names, type \in MemberTypes :
        /\ Len(formats[t].members) < MaxMembers
        /\ Becomes([formats EXCEPT ![t].members = Append(@, NewMember(name, type))])

\* The calls on a member_adapter_builder: member m becomes a member of Changed(m).
OnMember(Changed(_)) ==
    \E t \in AdaptersOf("object") : \E i \in DOMAIN formats[t].members :
        \E m \in Changed(formats[t].members[i]) : Becomes([formats EXCEPT ![t].members[i] = m])

AlternateName == OnMember(LAMBDA m : {[m EXCEPT !.names = Append(@, name)] : name \in Names})
DefaultValue  == OnMember(LAMBDA m : {[m EXCEPT !.default = <<x>>] : x \in Samples[m.type]})
DefaultOnNull == OnMember(LAMBDA m : {[m EXCEPT !.default_on_null = on] : on \in BOOLEAN})
CheckInput    == OnMember(LAMBDA m : {[m EXCEPT !.refused = @ \cup {x}] : x \in Samples[m.type]})

AddEncodeCheck(Checks(_)) ==
    OnMember(LAMBDA m : {[m EXCEPT !.checks = Append(@, check)] : check \in Checks(m)})

EncodeIf == AddEncodeCheck(LAMBDA m : [test : {"differs"}, from : Samples[m.type]])
ForVersions ==
    AddEncodeCheck(LAMBDA m : [test : {"since", "until", "after", "before"}, version : Versions])

\* The calls on an adapter_builder.
OnType(kind, Changed(_)) ==
    \E t \in AdaptersOf(kind) : \E a \in Changed(formats[t]) : Becomes([formats EXCEPT ![t] = a])

TypeDefaultOnNull == OnType("object", LAMBDA a : {[a EXCEPT !.default_on_null = on] : on \in BOOLEAN})
TypeDefaultValue ==
    \E t \in AdaptersOf("object") \cap DOMAIN Samples : \E x \in Samples[t] :
        Becomes([formats EXCEPT ![t].default = <<x>>])
OnExtractExtraKeys == OnType("object", LAMBDA a : {[a EXCEPT !.pre = Append(@, <<"extra_keys">>)]})
PreExtract  == OnType("object", LAMBDA a : {[a EXCEPT !.pre = Append(@, <<"refuse", v>>)] : v \in {Null, EmptyObject}})
PostExtract ==
    \E t \in AdaptersOf("object") \cap DOMAIN Samples : \E x, y \in Samples[t] :
        x # y /\ Becomes([formats EXCEPT ![t].post = Append(@, <<x, y>>)])

\* The calls on a polymorphic_adapter_builder.  A keyed subtype that is there already is
\* a duplicate_type_error and changes nothing.
CheckNullInput  == OnType("polymorphic", LAMBDA a : {[a EXCEPT !.null_input = on] : on \in BOOLEAN})
CheckNullOutput == OnType("polymorphic", LAMBDA a : {[a EXCEPT !.null_output = on] : on \in BOOLEAN})

KeyedSubtype ==
    OnType("polymorphic", LAMBDA a :
        {[a EXCEPT !.subtypes = Append(@, s)] : s \in
            {s \in [type : SubTypes, keyed : {TRUE}, key : Names, value : Discriminators,
                    action : {"none", "check", "insert"}] :
                \A i \in DOMAIN a.subtypes : a.subtypes[i].keyed => a.subtypes[i].type # s.type}})
Subtype ==
    OnType("polymorphic", LAMBDA a :
        {[a EXCEPT !.subtypes = Append(@, s)] : s \in
            [type : SubTypes, keyed : {FALSE}, kind : {"null", "object"}]})

AdaptersInit == formats \in Starts /\ calls = 0

AdaptersNext ==
    \/ Type \/ Register \/ AddMember
    \/ AlternateName \/ DefaultValue \/ DefaultOnNull \/ CheckInput \/ EncodeIf \/ ForVersions
    \/ TypeDefaultOnNull \/ TypeDefaultValue \/ OnExtractExtraKeys \/ PreExtract \/ PostExtract
    \/ CheckNullInput \/ CheckNullOutput \/ KeyedSubtype \/ Subtype
=============================================================================
