-------------------------------- MODULE Codec --------------------------------
(***************************************************************************)
(* The conversions of strings (src/jsonv/char_convert.cpp): the escaping   *)
(* of a string for JSON text, the decoding of the text between two quotes, *)
(* and the conversions between UTF-8 and the UTF-16 of std::wstring.       *)
(*                                                                         *)
(* A narrow string is a sequence of bytes, a wide one a sequence of 16-bit *)
(* units.  Masks and shifts are divisions and remainders.                  *)
(***************************************************************************)
EXTENDS Integers, SequencesExt

Backslash == 92
Ascii == [b |-> 98, f |-> 102, n |-> 110, r |-> 114, t |-> 116, u |-> 117, quote |-> 34, slash |-> 47]

\* encode_map and decode_map, by the character escaped.
EncodeMap ==
    [c \in {8, 12, 10, 13, 9, Backslash, Ascii.slash, Ascii.quote} |->
        CASE c = 8 -> Ascii.b [] c = 12 -> Ascii.f [] c = 10 -> Ascii.n
          [] c = 13 -> Ascii.r [] c = 9 -> Ascii.t [] OTHER -> c]
DecodeMap == [e \in Range(EncodeMap) |-> CHOOSE c \in DOMAIN EncodeMap : EncodeMap[c] = e]

IsPrint(c) == c \in 32 .. 126
NeedsUnicodeEscaping(c) == c >= 128 \/ ~IsPrint(c)
IsContinuation(c) == c \in 128 .. 191

\* utf8_extract_info: the length of the sequence a byte begins; 0 if it begins none.
SequenceLength(c) ==
    CASE c < 128 -> 1 [] c \in 128 .. 191 -> 0 [] c \in 192 .. 223 -> 2 [] c \in 224 .. 239 -> 3
      [] c \in 240 .. 247 -> 4 [] c \in 248 .. 251 -> 5 [] c \in 252 .. 253 -> 6 [] OTHER -> 0

\* The bits of the code point in a first byte.
LeadBits(c) == IF c < 128 THEN c ELSE c % 2 ^ (7 - SequenceLength(c))

\* utf8_extract_code: of a sequence of bytes all but the first of which continue it.
Code(bytes) == FoldLeft(LAMBDA code, c : (code * 64) + (c % 64), LeadBits(Head(bytes)), Tail(bytes))

From(s, i) == SubSeq(s, i, Len(s))

\* Mutant of Sequence: bytes after the first are not looked at.
SequenceByLength(s, i) ==
    LET length == SequenceLength(s[i])
    IN  IF length > 0 /\ i + length - 1 <= Len(s) THEN {SubSeq(s, i, i + length - 1)} ELSE {}

\* The whole sequence that begins at s[i], if there is one.
Sequence(s, i) ==
    LET length == SequenceLength(s[i])
        bytes  == SubSeq(s, i, i + length - 1)
    IN  IF /\ length > 0 /\ i + length - 1 <= Len(s)
           /\ \A c \in ToSet(Tail(bytes)) : IsContinuation(c)
        THEN {bytes} ELSE {}

-----------------------------------------------------------------------------
(* string_encode *)

HexCode(d) == IF d < 10 THEN 48 + d ELSE 87 + d
ToHex(code) == <<Backslash, Ascii.u>> \o [i \in 1 .. 4 |-> HexCode((code \div 16 ^ (4 - i)) % 16)]

\* utf16_create_surrogates: of a code point that is too large some upper bits are lost, and
\* one of them spoils the surrogate.
High(code) ==
    LET top == (code - 65536) \div 1024
    IN  55296 + (top % 2048) + (8192 * ((top \div 8192) % 2))
Low(code) == ((code - 65536) % 1024) + 56320

\* One step of the loop: what is written for s[i], and how many bytes it stands for.  A
\* byte that is part of no sequence is written as the code point of its value, unless it
\* begins one and the output need not be ASCII: then it is written as it is.
EncodeStep(s, i, ensure_ascii) ==
    LET c == s[i]
        whole == Sequence(s, i)
        length == IF whole = {} THEN 1 ELSE SequenceLength(c)
        code == IF whole = {} THEN c ELSE Code(CHOOSE bytes \in whole : TRUE)
        Step(out, used) == [out |-> out, used |-> used]
    IN  CASE c \in DOMAIN EncodeMap -> Step(<<Backslash, EncodeMap[c]>>, 1)
          [] c \notin DOMAIN EncodeMap /\ ~NeedsUnicodeEscaping(c) -> Step(<<c>>, 1)
          [] c \notin DOMAIN EncodeMap /\ NeedsUnicodeEscaping(c) ->
               Step(IF SequenceLength(c) > 0 /\ ~ensure_ascii THEN SubSeq(s, i, i + length - 1)
                    ELSE IF code < 65536 THEN ToHex(code)
                    ELSE ToHex(High(code)) \o ToHex(Low(code)), length)

RECURSIVE EncodeFrom(_, _, _)
EncodeFrom(s, i, ensure_ascii) ==
    IF i > Len(s) THEN <<>>
    ELSE LET step == EncodeStep(s, i, ensure_ascii)
         IN  step.out \o EncodeFrom(s, i + step.used, ensure_ascii)

Encode(s, ensure_ascii) == EncodeFrom(s, 1, ensure_ascii)

-----------------------------------------------------------------------------
(* string_decode *)

\* utf8_append_code
Utf8(code) ==
    LET Continued(first, n) ==
            <<first>> \o [i \in 1 .. n |-> 128 + ((code \div 64 ^ (n - i)) % 64)]
    IN  CASE code < 128 -> <<code>>
          [] code \in 128 .. 2047 -> Continued(192 + code \div 64, 1)
          [] code \in 2048 .. 65535 -> Continued(224 + code \div 64 ^ 2, 2)
          [] code \in 65536 .. 2097151 -> Continued(240 + code \div 64 ^ 3, 3)
          [] code \in 2097152 .. 67108863 -> Continued(248 + code \div 64 ^ 4, 4)
          [] OTHER -> Continued(252 + code \div 64 ^ 5, 5)

IsSurrogate(unit) == unit \in 55296 .. 57343
IsHigh(unit) == unit \in 55296 .. 56319
IsLow(unit) == unit \in 56320 .. 57343

\* utf16_combine_surrogates
Combined(high, low) == 65536 + ((high % 1024) * 1024) + (low % 1024)

HexValue(c) ==
    CASE c \in 48 .. 57 -> {c - 48} [] c \in 97 .. 102 -> {c - 87}
      [] c \in 65 .. 70 -> {c - 55} [] OTHER -> {}

\* from_hex of the four bytes from s[i]: none if one is not a digit.
FromHex(s, i) ==
    LET digits == [j \in 1 .. 4 |-> HexValue(s[i + j - 1])]
    IN  IF \E j \in 1 .. 4 : digits[j] = {} THEN {}
        ELSE {FoldLeft(LAMBDA x, d : (x * 16) + (CHOOSE n \in d : TRUE), 0, digits)}

\* A \u escape at s[i]: the code units, if there are four digits.
UnicodeEscape(s, i) ==
    IF i + 5 <= Len(s) /\ s[i] = Backslash /\ s[i + 1] = Ascii.u THEN FromHex(s, i + 2) ELSE {}

\* Mutant of Escape: a low surrogate may come first.
EscapeOfAnyPair(s, i, encoding) ==
    {[out |-> Utf8(unit), used |-> 6] : unit \in UnicodeEscape(s, i)}

\* What an escape at s[i] stands for and its length: none if it is in error.  Surrogates
\* must come in pairs, except for CESU-8.
Escape(s, i, encoding) ==
    IF s[i + 1] \in DOMAIN DecodeMap THEN {[out |-> <<DecodeMap[s[i + 1]]>>, used |-> 2]}
    ELSE UNION {
        IF encoding = "cesu8" \/ ~IsSurrogate(unit) THEN {[out |-> Utf8(unit), used |-> 6]}
        ELSE {[out |-> Utf8(Combined(unit, low)), used |-> 12] :
                 low \in {x \in UnicodeEscape(s, i + 6) : IsHigh(unit) /\ IsLow(x)}}
        : unit \in UnicodeEscape(s, i)}

RECURSIVE DecodeFrom(_, _, _, _)

\* The loop from s[i], of which remaining bytes must continue a sequence: the decoded bytes,
\* none if there is an error.  A sequence may end with the input for CESU-8 only.  (The
\* last byte is not the backslash of an escape: the tokenizer has found the closing quote.)
DecodeFrom(s, i, remaining, encoding) ==
    LET Copied(next) == {<<s[i]>> \o rest : rest \in DecodeFrom(s, i + 1, next, encoding)}
        length == SequenceLength(s[i])
    IN  IF i > Len(s) THEN IF remaining = 0 \/ encoding = "cesu8" THEN {<<>>} ELSE {}
        ELSE IF remaining > 0 THEN IF IsContinuation(s[i]) THEN Copied(remaining - 1) ELSE {}
        ELSE IF s[i] = Backslash
             THEN UNION {{step.out \o rest : rest \in DecodeFrom(s, i + step.used, 0, encoding)} :
                             step \in Escape(s, i, encoding)}
        ELSE IF length = 0 \/ (encoding = "utf8_strict" /\ length = 1 /\ ~IsPrint(s[i])) THEN {}
        ELSE Copied(length - 1)

\* get_string_decoder(encoding)(s)
Decode(s, encoding) == DecodeFrom(s, 1, 0, encoding)

-----------------------------------------------------------------------------
(* convert_to_wide, convert_to_narrow *)

RECURSIVE WideFrom(_, _)

\* The wide string, none if there is an error.  A sequence longer than it need be is none.
WideFrom(s, i) ==
    IF i > Len(s) THEN {<<>>}
    ELSE UNION {
        LET code == Code(bytes)
            units == IF code < 65536 THEN <<code>> ELSE <<High(code), Low(code)>>
        IN  IF Len(bytes) > 4 \/ IsSurrogate(code) \/ code > 1114111 THEN {}
            ELSE {units \o rest : rest \in WideFrom(s, i + Len(bytes))}
        : bytes \in Sequence(s, i)}

ConvertToWide(s) == WideFrom(s, 1)

\* Mutant of PairAt: the second unit is not looked at.
PairOfAny(w, i) == i + 1 < Len(w)

\* Whether a high surrogate at w[i] is followed by the low one, and by something more.
PairAt(w, i) == i + 1 < Len(w) /\ IsLow(w[i + 1])

RECURSIVE NarrowFrom(_, _)

\* A low surrogate alone is a character like any other.
NarrowFrom(w, i) ==
    IF i > Len(w) THEN {<<>>}
    ELSE IF ~IsHigh(w[i]) THEN {Utf8(w[i]) \o rest : rest \in NarrowFrom(w, i + 1)}
    ELSE IF ~PairAt(w, i) THEN {}
    ELSE {Utf8(Combined(w[i], w[i + 1])) \o rest : rest \in NarrowFrom(w, i + 2)}

ConvertToNarrow(w) == NarrowFrom(w, 1)
=============================================================================
