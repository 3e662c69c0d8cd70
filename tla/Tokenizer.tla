----------------------------- MODULE Tokenizer -----------------------------
(***************************************************************************)
(* jsonv::tokenizer (src/include/jsonv/tokenizer.hpp, src/jsonv/           *)
(* tokenizer.cpp) and the patterns it splits its input by (src/jsonv/      *)
(* detail/token_patterns.cpp).                                             *)
(*                                                                         *)
(* A text is a sequence of characters and a place in it is a 0-based       *)
(* offset, as the C++ pointers are.  The loops of the patterns, which      *)
(* advance while the next character is of some set, are the operator       *)
(* Leading; nothing here is recursive.                                     *)
(***************************************************************************)
EXTENDS Integers, Sequences, FiniteSets

CONSTANTS
    Texts,     \* the inputs a tokenizer may be constructed with
    MaxIdle    \* bound: the calls of next that return false

ASSUME TextsAssumption   == \A s \in Texts : s \in Seq(STRING)
ASSUME MaxIdleAssumption == MaxIdle \in Nat

Digits     == {"0", "1", "2", "3", "4", "5", "6", "7", "8", "9"}
Spaces     == {" ", "\t", "\n", "\r"}
Structural == {"[", "]", "{", "}", ":", ","}
StructuralKind(c) ==
    CASE c = "[" -> "array_begin"  [] c = "]" -> "array_end"
      [] c = "{" -> "object_begin" [] c = "}" -> "object_end"
      [] c = ":" -> "object_key_delimiter" [] OTHER -> "separator"
Literals == [t |-> <<"t", "r", "u", "e">>, f |-> <<"f", "a", "l", "s", "e">>,
             n |-> <<"n", "u", "l", "l">>]

LexicalKinds == {"array_begin", "array_end", "object_begin", "object_end",
    "object_key_delimiter", "separator", "boolean", "null", "number", "string",
    "whitespace", "comment", "error"}

-----------------------------------------------------------------------------
(* token_patterns.cpp: what a pattern matches from offset i < Len(s) of a text s. *)

\* How many offsets i, i + 1, ... below n there are before the first outside S.
Leading(S, i, n) == Cardinality({j \in i .. n - 1 : i .. j \subseteq S})

\* The offsets of s that hold a character of C.
Where(s, C) == {j \in 0 .. Len(s) - 1 : s[j + 1] \in C}

\* The character at offset i, if there is one, is in C.
Has(s, i, C) == i \in Where(s, C)

Matched(kind, length)   == [kind |-> kind, length |-> length]
Unmatched(length)       == [kind |-> "error", length |-> length]

\* Mutant of MatchLiteral: the first letter decides.
MatchFirstLetter(s, i, kind, literal) == Matched(kind, Len(literal))

\* match_literal: the length of a failed match is what does agree.
MatchLiteral(s, i, kind, literal) ==
    LET agrees == {j \in i .. Len(s) - 1 : j - i < Len(literal) /\ s[j + 1] = literal[j - i + 1]}
        length == Leading(agrees, i, Len(s))
    IN  IF length = Len(literal) THEN Matched(kind, length) ELSE Unmatched(length)

\* match_number: a minus, digits, a point with digits, an exponent with digits; a part
\* that has been begun and lacks its digits makes the whole an error.
DigitsFrom(s, i) == Leading(Where(s, Digits), i, Len(s))

MatchNumber(s, i) ==
    LET minus == IF Has(s, i, {"-"}) THEN 1 ELSE 0
        point == i + minus + DigitsFrom(s, i + minus)
        frac  == IF Has(s, point, {"."}) THEN 1 + DigitsFrom(s, point + 1) ELSE 0
        exp   == point + frac
        sign  == IF Has(s, exp + 1, {"+", "-"}) THEN 1 ELSE 0
        tail  == IF Has(s, exp, {"e", "E"})
                 THEN 1 + sign + DigitsFrom(s, exp + 1 + sign) ELSE 0
    IN  IF point = i + minus THEN Unmatched(minus)
        ELSE IF frac = 1 THEN Unmatched(point + 1 - i)
        ELSE IF tail > 0 /\ tail = 1 + sign THEN Unmatched(exp + tail - i)
        ELSE Matched("number", exp + tail - i)

\* match_string: up to the first quote that is not the second character of an escape.
\* A text that ends in the middle of an escape leaves the backslash out of the match.
Escaped(s, i) ==
    LET escaped[j \in i .. Len(s)] ==
            j > i + 1 /\ s[j] = "\\" /\ ~escaped[j - 1]
    IN  {j \in i + 2 .. Len(s) : escaped[j]}

MatchString(s, i) ==
    LET quotes == Where(s, {"\""}) \ Escaped(s, i)
        body   == Leading((0 .. Len(s)) \ quotes, i + 1, Len(s))
    IN  IF i + 1 + body < Len(s) THEN Matched("string", body + 2)
        ELSE IF Len(s) \in Escaped(s, i) THEN Unmatched(body)
        ELSE Unmatched(body + 1)

\* match_whitespace
MatchWhitespace(s, i) == Matched("whitespace", Leading(Where(s, Spaces), i, Len(s)))

\* Mutant of MatchComment: the asterisk of "/*" also ends it.
CommentClosedByItself(s, i) ==
    LET ends == {j \in i + 2 .. Len(s) - 1 : s[j] = "*" /\ s[j + 1] = "/"}
        body == Leading((0 .. Len(s)) \ ends, i + 2, Len(s))
    IN  IF ~Has(s, i + 1, {"*"}) THEN Unmatched(1)
        ELSE IF i + 2 + body < Len(s) THEN Matched("comment", body + 3)
        ELSE Unmatched(body + 2)

\* match_comment: the first "*/" after a "/*"; a lone slash is an error of length 1.
MatchComment(s, i) ==
    LET ends == {j \in i + 3 .. Len(s) - 1 : s[j] = "*" /\ s[j + 1] = "/"}
        body == Leading((0 .. Len(s)) \ ends, i + 2, Len(s))
    IN  IF ~Has(s, i + 1, {"*"}) THEN Unmatched(1)
        ELSE IF i + 2 + body < Len(s) THEN Matched("comment", body + 3)
        ELSE Unmatched(body + 2)

\* attempt_match: the pattern that the first character calls for.
AttemptMatch(s, i) ==
    LET c == s[i + 1]
    IN  CASE c \in Structural -> Matched(StructuralKind(c), 1)
          [] c \in {"t", "f"} -> MatchLiteral(s, i, "boolean", Literals[c])
          [] c = "n"          -> MatchLiteral(s, i, "null", Literals[c])
          [] c \in Digits \cup {"-"} -> MatchNumber(s, i)
          [] c = "\""         -> MatchString(s, i)
          [] c \in Spaces     -> MatchWhitespace(s, i)
          [] c = "/"          -> MatchComment(s, i)
          [] OTHER            -> Unmatched(1)

-----------------------------------------------------------------------------

VARIABLES
    text,      \* tokenizer::_input
    position,  \* tokenizer::_position, as an offset: it may pass the end
    current,   \* tokenizer::_current, with the offset of its text
    returned,  \* what the last call of next returned
    idle       \* calls of next that returned false

vars == <<text, position, current, returned, idle>>

NoToken == [kind |-> "none", begin |-> 0, length |-> 0]

Init ==
    /\ text \in Texts
    /\ position = 0 /\ current = NoToken
    /\ returned = "nothing yet" /\ idle = 0

\* Mutant of Moved: the current token is not left.
NotMoved == position

\* The position after the current token, which every call of next moves to first.
Moved == position + current.length

\* Mutant of NextTrue: the position is moved over the token at once.
MovedTwice ==
    /\ Moved < Len(text)
    /\ LET m == AttemptMatch(text, Moved)
       IN  /\ current' = [kind |-> m.kind, begin |-> Moved, length |-> m.length]
           /\ position' = Moved + m.length
    /\ returned' = "true"
    /\ UNCHANGED <<text, idle>>

\* next returns true.
NextTrue ==
    /\ Moved < Len(text)
    /\ LET m == AttemptMatch(text, Moved)
       IN  current' = [kind |-> m.kind, begin |-> Moved, length |-> m.length]
    /\ position' = Moved
    /\ returned' = "true"
    /\ UNCHANGED <<text, idle>>

\* next returns false: the current token stays, and the position moves all the same.
NextFalse ==
    /\ idle < MaxIdle
    /\ Moved >= Len(text)
    /\ position' = Moved
    /\ returned' = "false"
    /\ idle' = idle + 1
    /\ UNCHANGED <<text, current>>

\* The caller stops calling.
Stop == idle = MaxIdle /\ UNCHANGED vars

Next == NextTrue \/ NextFalse \/ Stop

Spec == Init /\ [][Next]_vars

\* Someone who reads on: parse_context::next is called until it returns false.
FairSpec == Spec /\ WF_vars(NextTrue) /\ WF_vars(NextFalse)

\* tokenizer::current: returns a token, or throws.
CurrentThrows == current.kind = "none"

-----------------------------------------------------------------------------
(* Properties *)

TypeOK ==
    /\ text \in Texts
    /\ position \in Nat /\ idle \in 0 .. MaxIdle
    /\ current = NoToken \/
          /\ current \in [kind : LexicalKinds, begin : Nat, length : Nat \ {0}]
          /\ current.begin + current.length <= Len(text)
    /\ returned \in {"nothing yet", "true", "false"}

\* The tokens cover the input: each begins where the one before it ends, the first at
\* the beginning, and the first false is returned when the last has reached the end.
TokensTileTheText ==
    [][/\ returned' = "true" => current'.begin = current.begin + current.length
       /\ idle = 0 /\ idle' = 1 => current.begin + current.length = Len(text)]_vars
=============================================================================
