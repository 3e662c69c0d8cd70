------------------------------ MODULE Encoder ------------------------------
(***************************************************************************)
(* jsonv::encoder with ostream_encoder and ostream_pretty_encoder          *)
(* (src/jsonv/encode.cpp).  encode walks a value and calls a write_*       *)
(* function for each of its parts; the pretty encoder remembers how deep   *)
(* it is and whether a line break is due, and keeps that from one encode   *)
(* to the next, and across an exception of the stream.                     *)
(*                                                                         *)
(* The output is a sequence of the tokens of JsonGrammar; a line break is  *)
(* a token of white space with the number of spaces that follow it.  How   *)
(* the characters of a string are written is in Codec.                     *)
(***************************************************************************)
EXTENDS JsonTree, Integers

CONSTANTS
    Sources,        \* the values to encode
    KeyOrder,       \* the keys in use, in the order of a std::map
    IndentSize,     \* _indent_size
    MaxCalls        \* bound: the calls of encode on one encoder

NonFinite == {"inf", "-inf", "nan"}

\* The value that the text of a value can express: numbers are numbers, infinities are null.
Printed(v) ==
    [p \in DOMAIN v |->
        IF v[p].kind \notin {"integer", "decimal"} THEN v[p]
        ELSE IF v[p].content \in NonFinite THEN Label("null", "")
        ELSE Label("number", v[p].content)]

\* jsonv::kind
Kinds == {"null", "boolean", "integer", "decimal", "string", "array", "object"}

ASSUME SourcesAssumption == \A v \in Sources :
    /\ WellFormed(Printed(v))
    /\ \A p \in DOMAIN v : v[p].kind \in Kinds /\ v[p].content \in Text
    /\ \A p \in DOMAIN v : \A i \in DOMAIN p : p[i][1] = "key" => p[i][2] \in ToSet(KeyOrder)
ASSUME KeysAssumption == KeyOrder \in Seq(Text) /\ IsInjective(KeyOrder)
ASSUME BoundsAssumption == IndentSize \in Nat \ {0} /\ MaxCalls \in Nat \ {0}

VARIABLES
    pretty,     \* whether this is an ostream_pretty_encoder
    indent,     \* _indent
    defer,      \* _defer_indent
    source,     \* the value of the last call of encode
    todo,       \* the write_* calls that encode has yet to make
    out,        \* what the stream has received since encode was called
    base,       \* the indent when encode was called
    calls,      \* the calls of encode so far
    stream      \* "good", or "thrown" when a write has ended encode by an exception

encoderVars == <<pretty, indent, defer, source, todo, out, base, calls, stream>>

Token(kind, means) == [kind |-> kind, means |-> means, refused_by |-> {}, nul |-> FALSE, width |-> 0]
Space == Token("whitespace", "space")
Eol(width) == [Token("whitespace", "line break") EXCEPT !.width = width]

-----------------------------------------------------------------------------
(* encoder::encode: the calls it makes, in order *)

Call(write, content) == [write |-> write, content |-> content]

Begin     == [array |-> "array_begin", object |-> "object_begin"]
Delimiter == [array |-> "array_delimiter", object |-> "object_delimiter"]
End       == [array |-> "array_end", object |-> "object_end"]

\* The steps to the elements of the container at node p of v, in the order of the iterators.
StepsFrom(v, p) ==
    IF v[p].kind = "array"
    THEN [i \in 1 .. Cardinality({q \in DOMAIN v \ {<<>>} : Parent(q) = p}) |-> Index(i - 1)]
    ELSE [i \in DOMAIN KeyOrder |-> Key(KeyOrder[i])]

\* The calls after those before, for the element at step of the container at node p of v,
\* where the calls for the element itself are in at.
AndEntry(before, v, p, step, at) ==
    IF Append(p, step) \notin DOMAIN v THEN before
    ELSE before
         \o (IF before = <<>> THEN <<>> ELSE <<Call(Delimiter[v[p].kind], "")>>)
         \o ((IF v[p].kind = "object" THEN <<Call("object_key", step[2])>> ELSE <<>>)
             \o at[Append(p, step)])

CallsOfContainer(v, p, at) ==
    LET steps == StepsFrom(v, p)
        entries[n \in 0 .. Len(steps)] ==
            IF n = 0 THEN <<>> ELSE AndEntry(entries[n - 1], v, p, steps[n], at)
    IN  <<Call(Begin[v[p].kind], "")>> \o entries[Len(steps)] \o <<Call(End[v[p].kind], "")>>

CallsOf(v) ==
    LET at[p \in DOMAIN v] ==
            IF IsContainer(v[p]) THEN CallsOfContainer(v, p, at)
            ELSE <<Call(v[p].kind, v[p].content)>>
    IN  at[<<>>]

-----------------------------------------------------------------------------
(* ostream_encoder: the tokens of a call *)

\* Mutant of Written: non-finite numbers are written as the stream has them.
WrittenAsNumber(call) ==
    CASE call.write \in {"array_delimiter", "object_delimiter"} -> <<Token("separator", "")>>
      [] call.write = "object_key" ->
           <<Token("string", call.content), Token("object_key_delimiter", "")>>
      [] call.write \in {"integer", "decimal"} -> <<Token("number", call.content)>>
      [] OTHER -> <<Token(call.write, call.content)>>

Written(call) ==
    CASE call.write \in {"array_delimiter", "object_delimiter"} -> <<Token("separator", "")>>
      [] call.write = "object_key" ->
           <<Token("string", call.content), Token("object_key_delimiter", "")>>
      [] call.write \in {"integer", "decimal"} /\ call.content \notin NonFinite ->
           <<Token("number", call.content)>>
      [] call.write \in {"integer", "decimal"} /\ call.content \in NonFinite -> <<Token("null", "")>>
      [] OTHER -> <<Token(call.write, call.content)>>

-----------------------------------------------------------------------------
(* ostream_pretty_encoder: what a call writes before and after, and leaves *)

Opens(call)  == call.write \in {"array_begin", "object_begin"}
Closes(call) == call.write \in {"array_end", "object_end"}

\* write_prefix, and the line break of write_array_end and write_object_end.
Prefix(call) ==
    IF ~pretty \/ call.write = "object_delimiter" THEN <<>>
    ELSE IF Closes(call) THEN IF defer THEN <<>> ELSE <<Eol(indent - IndentSize)>>
    ELSE IF defer THEN <<Eol(indent)>> ELSE <<>>

Suffix(call) ==
    IF ~pretty THEN <<>>
    ELSE IF call.write = "array_delimiter" THEN <<Eol(indent)>>
    ELSE IF call.write = "object_key" THEN <<Space>>
    ELSE <<>>

\* Mutant of IndentAfter: a closing bracket does not take its indent back.
IndentAfterOpen(call) == IF Opens(call) THEN indent + IndentSize ELSE indent

IndentAfter(call) ==
    CASE pretty /\ Opens(call)  -> indent + IndentSize
      [] pretty /\ Closes(call) -> indent - IndentSize
      [] OTHER -> indent

Defers(call) == pretty /\ (Opens(call) \/ call.write = "object_delimiter")

-----------------------------------------------------------------------------

EncoderInit ==
    /\ pretty \in BOOLEAN
    /\ indent = 0 /\ defer = FALSE /\ base = 0 /\ calls = 0 /\ stream = "good"
    /\ source = EmptyArray /\ todo = <<>> /\ out = <<>>

Encode ==
    /\ todo = <<>> /\ calls < MaxCalls
    /\ source' \in Sources
    /\ todo' = CallsOf(source') /\ out' = <<>>
    /\ base' = indent /\ calls' = calls + 1 /\ stream' = "good"
    /\ UNCHANGED <<pretty, indent, defer>>

Write ==
    /\ todo # <<>>
    /\ LET call == Head(todo)
       IN  /\ out' = out \o Prefix(call) \o Written(call) \o Suffix(call)
           /\ indent' = IndentAfter(call) /\ defer' = Defers(call)
    /\ todo' = Tail(todo)
    /\ UNCHANGED <<pretty, source, base, calls, stream>>

\* The stream throws while a call writes: the indent of a closing bracket is taken back
\* before that, and a line break that was due has been written or not.
StreamThrows ==
    /\ todo # <<>>
    /\ LET call == Head(todo)
       IN  /\ indent' = IF Closes(call) THEN IndentAfter(call) ELSE indent
           /\ defer' \in IF Closes(call) THEN {FALSE}
                         ELSE IF call.write = "object_delimiter" THEN {defer} ELSE {defer, FALSE}
    /\ todo' = <<>> /\ stream' = "thrown"
    /\ UNCHANGED <<pretty, source, out, base, calls>>

EncoderNext == Encode \/ Write \/ StreamThrows

EncoderSpec == EncoderInit /\ [][EncoderNext]_encoderVars

-----------------------------------------------------------------------------

Returned == calls > 0 /\ todo = <<>> /\ stream = "good"

OpeningBrackets == {"array_begin", "object_begin"}
ClosingBrackets == {"array_end", "object_end"}
IsBreak(token) == token.kind = "whitespace" /\ token.means = "line break"

\* The brackets that are open behind the i-th token of tokens.
Depth(tokens, i) == Cardinality({j \in 1 .. i : tokens[j].kind \in OpeningBrackets})
                    - Cardinality({j \in 1 .. i : tokens[j].kind \in ClosingBrackets})
ClosesNext(tokens, i) == i < Len(tokens) /\ tokens[i + 1].kind \in ClosingBrackets

\* Each line of pretty output is indented by the depth of its first token, above what
\* earlier exceptions of the stream have left: an encode that returns leaves the indent as
\* it was and no line break due.  The indent, which is unsigned, never falls below 0.
IndentationIsDepth ==
    /\ \A i \in DOMAIN out : IsBreak(out[i]) =>
          out[i].width = base + IndentSize * (Depth(out, i) - (IF ClosesNext(out, i) THEN 1 ELSE 0))
    /\ pretty => \A i \in DOMAIN out :
          out[i].kind \in OpeningBrackets \cup {"separator"} /\ i < Len(out) =>
              ClosesNext(out, i) \/ IsBreak(out[i + 1])
    /\ base >= 0 /\ indent >= base
    /\ Returned => indent = base /\ ~defer
=============================================================================
