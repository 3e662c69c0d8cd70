------------------------------ MODULE Numbers ------------------------------
(***************************************************************************)
(* parse_number (src/jsonv/parse.cpp): what the text of a number token     *)
(* becomes.  Integers have Width bits; a decimal is its text.              *)
(***************************************************************************)
EXTENDS Integers, Sequences

CONSTANT Width  \* the bits of std::int64_t

Modulus == 2 ^ Width

CharAt(s, i) == SubSeq(s, i, i)
DigitValue == [d \in {"0", "1", "2", "3", "4", "5", "6", "7", "8", "9"} |->
                  CHOOSE n \in 0 .. 9 : SubSeq("0123456789", n + 1, n + 1) = d]

IsNegative(s)    == CharAt(s, 1) = "-"
IsDecimalLike(s) == \E i \in 1 .. Len(s) : CharAt(s, i) \in {".", "E", "e"}

\* The number that the digits of s stand for.
Magnitude(s) ==
    LET first == IF IsNegative(s) THEN 2 ELSE 1
        upTo[i \in first - 1 .. Len(s)] ==
            IF i < first THEN 0 ELSE upTo[i - 1] * 10 + DigitValue[CharAt(s, i)]
    IN  upTo[Len(s)]

\* std::strtoul and std::strtoull: one that is too large becomes the largest there is, and
\* a sign negates what is left modulo 2^Width.
StrToUnsigned(s) ==
    LET n == Magnitude(s)
    IN  CASE n >= Modulus -> Modulus - 1
          [] n < Modulus /\ IsNegative(s) -> (Modulus - n) % Modulus
          [] n < Modulus /\ ~IsNegative(s) -> n

\* Mutant of ToSigned: the least integer keeps the bits of an unsigned one.
ToSignedOffByOne(u) == IF u <= 2 ^ (Width - 1) THEN u ELSE u - Modulus

\* The integer with the bits of u.
ToSigned(u) == IF u < 2 ^ (Width - 1) THEN u ELSE u - Modulus

ParseNumber(s, encoding) ==
    [complains |-> encoding = "strict_numbers" /\ Len(s) > 1 /\ CharAt(s, 1) = "0",
     value |-> IF IsDecimalLike(s) THEN <<"decimal", s>> ELSE <<"integer", ToSigned(StrToUnsigned(s))>>]
=============================================================================
