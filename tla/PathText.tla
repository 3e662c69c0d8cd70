------------------------------ MODULE PathText ------------------------------
(***************************************************************************)
(* The text of a jsonv::path (src/jsonv/path.cpp): printing, and           *)
(* path::create with the patterns path_match takes a specification apart   *)
(* by (src/jsonv/detail/token_patterns.cpp), which are those of the        *)
(* tokenizer.                                                              *)
(*                                                                         *)
(* A text is a sequence of characters; a path is a sequence of elements,   *)
(* whose keys are texts too.                                               *)
(***************************************************************************)
EXTENDS Integers, SequencesExt

CONSTANTS
    CodeOf,     \* the bytes of the characters in use, each of its own
    SizeMax     \* of a std::size_t (2^64 - 1)

C == INSTANCE Codec
T == INSTANCE Tokenizer WITH Texts <- {}, MaxIdle <- 0, text <- <<>>, position <- 0,
                             current <- <<>>, returned <- "", idle <- 0

ArrayIndex(n)   == [kind |-> "array_index", index |-> n]
ObjectKey(key)  == [kind |-> "object_key", key |-> key]

Alnum  == {c \in DOMAIN CodeOf : CodeOf[c] \in (48 .. 57) \cup (65 .. 90) \cup (97 .. 122)}
Letter == {c \in DOMAIN CodeOf : c \in (Alnum \ T!Digits) \cup {"_", "$"}}

DigitOf == [c \in T!Digits |-> CHOOSE d \in 0 .. 9 : ToString(d) = c]
Decimal(n) == LET s == ToString(n) IN [i \in 1 .. Len(s) |-> SubSeq(s, i, i)]

\* Mutant of ElementText: letters and digits are written after a dot whatever else there is.
ElementTextOfAny(element) ==
    IF element.kind = "array_index" THEN <<"[">> \o Decimal(element.index) \o <<"]">>
    ELSE IF ToSet(element.key) \cap Alnum # {} THEN <<".">> \o element.key
    ELSE <<"[", "\"">> \o element.key \o <<"\"", "]">>

\* stream_path_element: what a quoted key contains is not escaped.
ElementText(element) ==
    IF element.kind = "array_index" THEN <<"[">> \o Decimal(element.index) \o <<"]">>
    ELSE IF element.key # <<>> /\ ToSet(element.key) \subseteq Alnum THEN <<".">> \o element.key
    ELSE <<"[", "\"">> \o element.key \o <<"\"", "]">>

\* to_string(const path&)
PathText(path) == FlattenSeq([i \in DOMAIN path |-> ElementText(path[i])])

-----------------------------------------------------------------------------

\* match_simple_string, of s from offset i: the length, none if it does not match.
SimpleString(s, i) ==
    IF ~T!Has(s, i, Letter) THEN {}
    ELSE {T!Leading(T!Where(s, Letter \cup T!Digits), i, Len(s))}

\* path_match: the kind of the match at the start of s and its length, or neither.
PathMatch(s) ==
    LET braced == T!AttemptMatch(s, 1)
    IN  CASE Len(s) < 2 -> {}
          [] Len(s) > 1 /\ s[1] = "." ->
               {[kind |-> "simple_object", length |-> n + 1] : n \in SimpleString(s, 1)}
          [] Len(s) > 1 /\ s[1] = "[" ->
               {[kind |-> "brace", length |-> m.length + 2] :
                   m \in {x \in {braced} : /\ x.kind \in {"string", "number"}
                                           /\ T!Has(s, x.length + 1, {"]"})}}
          [] OTHER -> {}

\* boost::lexical_cast<std::size_t>: digits, and a sign that counts down from 2^64.  None if
\* there is anything else, or too much.
LexicalCast(s) ==
    LET minus  == s[1] = "-"
        digits == IF minus THEN Tail(s) ELSE s
        n == FoldLeft(LAMBDA x, c : (10 * x) + DigitOf[c], 0, digits)
    IN  IF ~(ToSet(digits) \subseteq T!Digits) \/ n > SizeMax THEN {}
        ELSE {IF minus /\ n > 0 THEN SizeMax + 1 - n ELSE n}

\* The text between quotes, by get_string_decoder(utf8).
Unquoted(s) ==
    LET CharOf(code) == CHOOSE c \in DOMAIN CodeOf : CodeOf[c] = code
    IN  {[i \in DOMAIN codes |-> CharOf(codes[i])] :
            codes \in C!Decode([i \in DOMAIN s |-> CodeOf[s[i]]], "utf8")}

\* The elements a match stands for: none if it cannot be converted.
ElementsOf(m, s) ==
    CASE m.kind = "simple_object" -> {ObjectKey(SubSeq(s, 2, m.length))}
      [] m.kind = "brace" /\ s[2] = "\"" -> {ObjectKey(k) : k \in Unquoted(SubSeq(s, 3, m.length - 2))}
      [] m.kind = "brace" /\ s[2] # "\"" -> {ArrayIndex(n) : n \in LexicalCast(SubSeq(s, 2, m.length - 1))}

RECURSIVE Create(_)

\* path::create: the path, or the exception.
Create(s) ==
    LET Fails(error) == [error |-> error, path |-> <<>>]
        m == CHOOSE x \in PathMatch(s) : TRUE
        elements == ElementsOf(m, s)
        rest == Create(SubSeq(s, m.length + 1, Len(s)))
    IN  IF s = <<>> THEN Fails("none")
        ELSE IF PathMatch(s) = {} THEN Fails("invalid_argument")
        ELSE IF elements = {} THEN Fails(IF s[2] = "\"" THEN "decode_error" ELSE "bad_lexical_cast")
        ELSE IF rest.error # "none" THEN rest
        ELSE [error |-> "none", path |-> SetToSeq(elements) \o rest.path]
=============================================================================
