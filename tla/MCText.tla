------------------------------- MODULE MCText -------------------------------
(***************************************************************************)
(* Model checking of the modules about text: Codec and PathText, whose     *)
(* operators are asked about every one of a set of inputs, and Encoder, an *)
(* encoder that is used again, after an exception too.                     *)
(***************************************************************************)
EXTENDS EncoderGrammar, TLC

CONSTANTS MaxUnits, MaxPieces    \* bounds: the units of a string and of a path's text

Obj(f) == ObjectOfMap(f)
Atom(kind, content) == Leaf(Label(kind, content))

MCKeyOrder == <<"a", "b">>
MCScalars == {Null, Atom("string", "s"), Atom("integer", "1"), Atom("decimal", "inf"),
              Atom("boolean", "true")}
MCInner   == {EmptyArray, EmptyObject, Atom("integer", "1"), Atom("decimal", "nan"),
              ArrayOf(<<Null, EmptyArray>>), Obj([k \in {"a"} |-> EmptyObject]),
              Obj([k \in {"a", "b"} |-> Atom("decimal", "0.5")])}
MCSources == MCScalars \cup MCInner \cup {ArrayOf(<<x, y>>) : x, y \in MCInner}
             \cup {Obj(("a" :> x) @@ ("b" :> y)) : x, y \in MCInner}

\* The characters of the texts of paths.
MCCodeOf ==
    ("\"" :> 34) @@ ("$" :> 36) @@ ("-" :> 45) @@ ("." :> 46) @@ ("0" :> 48) @@ ("1" :> 49)
    @@ ("[" :> 91) @@ ("\\" :> 92) @@ ("]" :> 93) @@ ("a" :> 97) @@ ("e" :> 101)

ASSUME CodesAssumption == \A c, d \in DOMAIN MCCodeOf : MCCodeOf[c] = MCCodeOf[d] => c = d

P == INSTANCE PathText WITH CodeOf <- MCCodeOf, SizeMax <- 99
C == INSTANCE Codec
N == INSTANCE Numbers WITH Width <- 5

VARIABLES question, answer
vars == <<encoderVars, question, answer>>

-----------------------------------------------------------------------------
(* The inputs *)

Concatenations(units, n) == {FlattenSeq(s) : s \in SeqOf(units, n)}

Chars(s) == [i \in 1 .. Len(s) |-> SubSeq(s, i, i)]
Hex(unit) == C!ToHex(unit)

\* Well-formed UTF-8: of 1 to 4 bytes, the shortest of each length among them; then what is
\* not: bytes out of place, a sequence cut short, a surrogate, some too long, one too large.
Characters == {<<97>>, <<34>>, <<47>>, <<9>>, <<127>>, <<194, 128>>, <<226, 130, 172>>,
               <<240, 144, 128, 128>>, <<244, 143, 191, 191>>}
Broken == {<<128>>, <<255>>, <<195>>, <<226, 130>>, <<237, 160, 189>>, <<237, 184, 128>>,
           <<192, 128>>, <<224, 129, 129>>, <<240, 128, 129, 129>>,
           <<244, 144, 128, 128>>, <<248, 136, 128, 128, 128>>}
Strings == Concatenations(Characters \cup Broken \cup {<<92>>}, MaxUnits)
Escapes == {<<92, 110>>, <<92, 34>>, <<92, 97>>, Hex(97), Hex(8364), Hex(55357), Hex(56832),
            <<92, 117, 48, 48, 54>>, <<92, 117, 48, 48, 52, 65>>}

WideUnits == {97, 233, 8364, 55357, 56832, 65535}

\* The pieces of a path's text, and elements of paths.
PathPieces == {Chars(s) : s \in {".a", ".", "$", "1", "a", "[1]", "[-1]", "[100]", "[1e1]", "[\"a\"]", "[\"", "\"]", "\\"}}
Keys == {Chars(s) : s \in {"", "a", "a1", "1a", "$", "a.", "\"", "\\", "\"][\"", "]"}}
Elements2 == {P!ArrayIndex(n) : n \in {0, 99}} \cup {P!ObjectKey(k) : k \in Keys}

\* The texts of number tokens: integers with and without zeros before them, and decimals.
NumberTexts ==
    {sign \o zeros \o ToString(n) : sign \in {"", "-"}, zeros \in {"", "0", "00"}, n \in 0 .. 70}
    \cup {"0.5", "-0.5", "1e1", "01.5", "0E7"}

-----------------------------------------------------------------------------

Init == EncoderInit /\ question = <<"none">> /\ answer = <<>>

Ask(name, input, result) ==
    /\ question = <<"none">> /\ calls = 0
    /\ question' = <<name, input>> /\ answer' = result
    /\ UNCHANGED encoderVars

AskEncode == \E s \in Strings :
    Ask("encode", s, [ascii |-> C!Encode(s, TRUE), passed |-> C!Encode(s, FALSE)])
AskDecode == \E s \in Concatenations(Characters \cup Broken \cup Escapes, MaxUnits) :
    Ask("decode", s, [e \in {"cesu8", "utf8", "utf8_strict"} |-> C!Decode(s, e)])
AskWide == \E s \in Strings : Ask("wide", s, C!ConvertToWide(s))
AskNarrow == \E w \in SeqOf(WideUnits, MaxUnits + 1) : Ask("narrow", w, C!ConvertToNarrow(w))
AskPath == \E p \in SeqOf(Elements2, 2) : Ask("path", p, P!Create(P!PathText(p)))
AskNumber == \E s \in NumberTexts :
    Ask("number", s, [e \in {"decimal", "strict_numbers"} |-> N!ParseNumber(s, e)])
AskCreate == \E s \in Concatenations(PathPieces, MaxPieces) :
    LET parts == {SubSeq(s, 1, i) : i \in DOMAIN s} \cup {SubSeq(s, i, Len(s)) : i \in DOMAIN s}
    IN  Ask("create", s, [t \in parts \cup {<<>>} |-> P!Create(t)])
AskAgain ==
    /\ question[1] = "create" /\ answer[question[2]].error = "none"
    /\ question' = <<"path", answer[question[2]].path>>
    /\ answer' = P!Create(P!PathText(question'[2]))
    /\ UNCHANGED encoderVars

Next ==
    \/ EncoderNext /\ question = <<"none">> /\ UNCHANGED <<question, answer>>
    \/ AskEncode \/ AskDecode \/ AskWide \/ AskNarrow \/ AskPath \/ AskCreate \/ AskAgain \/ AskNumber

Spec == Init /\ [][Next]_vars

-----------------------------------------------------------------------------
(* The string codec *)

\* The bytes of one Unicode character, by the table of the UTF-8 standard.
IsCharacter(c) ==
    LET In(i, low, high) == c[i] \in low .. high
        Rest(n) == Len(c) = n /\ \A i \in 2 .. n : In(i, 128, 191)
    IN  \/ Rest(1) /\ In(1, 0, 127)
        \/ Rest(2) /\ In(1, 194, 223)
        \/ Rest(3) /\ In(1, 224, 239) /\ (c[1] = 224 => c[2] >= 160) /\ (c[1] = 237 => c[2] < 160)
        \/ Rest(4) /\ In(1, 240, 244) /\ (c[1] = 240 => c[2] >= 144) /\ (c[1] = 244 => c[2] < 144)

\* Whether s is a sequence of pieces that all satisfy IsPiece, of at most 12 bytes each.
Splits(s, IsPiece(_)) ==
    LET from[i \in 1 .. Len(s) + 1] ==
            i = Len(s) + 1 \/ \E j \in i .. Min({i + 11, Len(s)}) : IsPiece(SubSeq(s, i, j)) /\ from[j + 1]
    IN  from[1]

IsUtf8(s) == Splits(s, IsCharacter)
AsciiOf(s) == SelectSeq(s, LAMBDA c : c < 128)
Holds(s, IsByte(_)) == \E i \in DOMAIN s : IsByte(s[i])

\* The readings of one item of the text between quotes: a sequence of UTF-8 by its form
\* alone, an escape, or two escapes for a pair of surrogates.
HexDigits == [c \in (48 .. 57) \cup (65 .. 70) \cup (97 .. 102) |->
                 IF c < 58 THEN c - 48 ELSE (c % 32) + 9]
UnitOf(x) == HexDigits[x[3]] * 4096 + HexDigits[x[4]] * 256 + HexDigits[x[5]] * 16 + HexDigits[x[6]]
IsHexEscape(x) ==
    Len(x) = 6 /\ x[1] = 92 /\ x[2] = 117 /\ \A i \in 3 .. 6 : x[i] \in DOMAIN HexDigits
Surrogate(unit) == unit \in 55296 .. 57343

IsSequence(x) ==
    LET lead == x[1]
        length == IF lead < 128 THEN 1 ELSE IF lead < 192 \/ lead > 253 THEN 0
                  ELSE IF lead < 224 THEN 2 ELSE IF lead < 240 THEN 3
                  ELSE IF lead < 248 THEN 4 ELSE IF lead < 252 THEN 5 ELSE 6
    IN  Len(x) = length /\ lead # 92 /\ \A i \in 2 .. length : x[i] \in 128 .. 191

IsItem(x, e) ==
    \/ IsSequence(x) /\ (e = "utf8_strict" /\ Len(x) = 1 => x[1] \in 32 .. 126)
    \/ Len(x) = 2 /\ x[1] = 92 /\ x[2] \in {34, 47, 92, 98, 102, 110, 114, 116}
    \/ IsHexEscape(x) /\ (e = "cesu8" \/ ~Surrogate(UnitOf(x)))
    \/ /\ e # "cesu8" /\ Len(x) = 12
       /\ IsHexEscape(SubSeq(x, 1, 6)) /\ IsHexEscape(SubSeq(x, 7, 12))
       /\ UnitOf(SubSeq(x, 1, 6)) \in 55296 .. 56319 /\ UnitOf(SubSeq(x, 7, 12)) \in 56320 .. 57343

\* Whether every piece of s that has the form of a sequence is a character: none of them is
\* too long, a surrogate or too large.
FormsAreCharacters(s) ==
    \A i, j \in DOMAIN s :
        i <= j /\ IsSequence(SubSeq(s, i, j)) => s[i] = 92 \/ IsCharacter(SubSeq(s, i, j))

\* Whether no sequence of s is cut short: every byte that begins one is followed by the rest.
NoneIsCut(s) ==
    \A i \in DOMAIN s : s[i] \in 192 .. 253 => \E j \in i .. Len(s) : IsSequence(SubSeq(s, i, j))

\* What encode writes for a UTF-8 string is printable ASCII in which no quote ends the
\* string, and every decoder of UTF-8 reads the same string from it; from what it
\* writes with ensure_ascii off the lenient one does.  What it writes for
\* other bytes is read too, with the ASCII among them as it was: if it is to write ASCII,
\* unless a piece has the form of a sequence and is no character (encode writes the number
\* it holds, which may be that of a letter or half a pair); if it may write all
\* characters, unless a sequence is cut short (its first byte is written as it is).
EncodeIsReadBack ==
    question[1] = "encode" =>
        LET s == question[2]  ascii == answer.ascii
            Keeps(text) == \E t \in C!Decode(text, "utf8") : AsciiOf(t) = AsciiOf(s)
        IN  /\ \A i \in DOMAIN ascii : ascii[i] \in 32 .. 126
            /\ Splits(ascii, LAMBDA x : x[1] # 34 /\ IsItem(x, "cesu8"))
            /\ IsUtf8(s) => /\ C!Decode(answer.passed, "utf8") = {s}
                             /\ \A e \in {"utf8", "utf8_strict"} : C!Decode(ascii, e) = {s}
            /\ FormsAreCharacters(s) => Keeps(ascii)
            /\ NoneIsCut(s) => Keeps(answer.passed)

\* The decoders accept just the texts made of such items, and for CESU-8 those that break off
\* in the last one too.  The strict one reads what the other reads; and a text of UTF-8 is
\* read as UTF-8, whatever its escapes are.
DecodeIsExact ==
    question[1] = "decode" =>
        LET s == question[2]
            Accepted(e) == \/ Splits(s, LAMBDA x : IsItem(x, e))
                           \/ /\ e = "cesu8"
                              /\ \E n \in 1 .. 5 : Splits(s \o [i \in 1 .. n |-> 128],
                                                          LAMBDA x : IsItem(x, e))
        IN  /\ \A e \in DOMAIN answer : Cardinality(answer[e]) = IF Accepted(e) THEN 1 ELSE 0
            /\ answer.utf8_strict \subseteq answer.utf8
            /\ IsUtf8(s) => \A t \in answer.utf8 : IsUtf8(t)
            /\ ~Holds(s, LAMBDA c : c = 92) => \A e \in DOMAIN answer : answer[e] \subseteq {s}

-----------------------------------------------------------------------------
(* Wide strings *)

Astral(s) == Len(s) >= 4 /\ s[Len(s) - 3] >= 240

\* UTF-8 becomes UTF-16 and comes back from it as the same, and so does UTF-16 from UTF-8 if
\* its surrogates come in pairs; one that begins a pair is not accepted alone.  Nothing that
\* is not UTF-8 comes back.  (Not said is that a text comes back if its last character takes a
\* pair of units, which convert_to_narrow takes to be cut off.)
WideComesBack ==
    /\ question[1] = "wide" =>
          LET s == question[2]
          IN  /\ IsUtf8(s) => answer # {}
              /\ \A w \in answer :
                    /\ IsUtf8(s) => C!ConvertToNarrow(w) \subseteq {s}
                    /\ IsUtf8(s) /\ ~Astral(s) => C!ConvertToNarrow(w) = {s}
                    /\ ~IsUtf8(s) => s \notin C!ConvertToNarrow(w)
    /\ question[1] = "narrow" =>
          LET w == question[2]
              High(i) == i \in DOMAIN w /\ w[i] \in 55296 .. 56319
              Low(i)  == i \in DOMAIN w /\ w[i] \in 56320 .. 57343
              unpaired == \E i \in DOMAIN w : High(i) /\ ~Low(i + 1)
          IN  /\ unpaired => answer = {}
              /\ ~unpaired /\ ~High(Len(w) - 1) => answer # {}
              /\ \A s \in answer :
                    C!ConvertToWide(s) =
                        IF \E i \in DOMAIN w : Low(i) /\ ~High(i - 1) THEN {} ELSE {w}

-----------------------------------------------------------------------------
(* Paths *)

KeysIn(p) == {p[i].key : i \in {j \in DOMAIN p : p[j].kind = "object_key"}}
Quotable(key) == ToSet(key) \cap {"\"", "\\"} = {}
Numbered(key) == key # <<>> /\ ToSet(key) \subseteq P!Alnum /\ key[1] \in {"0", "1"}

\* path::create reads the text of a path as that path if no key holds a quote or a backslash
\* and no key of letters and digits begins with a digit; the last are never read.  Of two
\* texts that are read, the concatenation is read as the concatenation of their paths.
PathReadsItself ==
    /\ question[1] = "path" /\ (\A k \in KeysIn(question[2]) : Quotable(k)) =>
          (answer = [error |-> "none", path |-> question[2]]
              <=> \A k \in KeysIn(question[2]) : ~Numbered(k))
    /\ question[1] = "create" =>
          LET s == question[2]
          IN  \A i \in 1 .. Len(s) - 1 :
                LET left == answer[SubSeq(s, 1, i)]  right == answer[SubSeq(s, i + 1, Len(s))]
                IN  left.error = "none" /\ right.error = "none" =>
                        answer[s] = [error |-> "none", path |-> left.path \o right.path]

-----------------------------------------------------------------------------
(* Numbers *)

\* A number whose value an int64 can hold is read as that value, and one that only a uint64
\* can hold as the integer with the same bits; the setting decides only which texts are an
\* error, and of the integers that JSON allows (no 0 before another digit) it is none.
NumbersAreRead ==
    question[1] = "number" =>
        LET text == question[2]
            integers == {n \in -16 .. 31 : \E zeros \in {"", "0", "00"} :
                            text = (IF n < 0 THEN "-" ELSE "") \o zeros \o ToString(IF n < 0 THEN -n ELSE n)}
        IN  /\ \A n \in integers :
                  answer["decimal"].value = <<"integer", IF n < 16 THEN n ELSE n - 32>>
            /\ answer["strict_numbers"].value = answer["decimal"].value
            /\ ~answer["decimal"].complains
            /\ \A n \in -70 .. 70 : text = ToString(n) => ~answer["strict_numbers"].complains
            /\ answer["decimal"].value[1] = "decimal" <=> text \in {"0.5", "-0.5", "1e1", "01.5", "0E7"}
=============================================================================
