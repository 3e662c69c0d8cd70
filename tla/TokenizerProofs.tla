-------------------------- MODULE TokenizerProofs --------------------------
(***************************************************************************)
(* Theorems about Tokenizer, for every set of texts: texts of any length   *)
(* over any characters.                                                    *)
(***************************************************************************)
EXTENDS TokenizerGrammar, Inductions

-----------------------------------------------------------------------------
(* The lengths of matches: never empty, never past the end. *)

\* The loops of token_patterns.cpp stop at the end of the text, and take a character at
\* least if the first one will do.
LEMMA LeadingBounds ==
  ASSUME NEW S, NEW i \in Nat, NEW n \in Nat, i <= n
  PROVE  /\ Leading(S, i, n) \in Nat
         /\ i + Leading(S, i, n) <= n
         /\ i \in S /\ i < n => Leading(S, i, n) > 0
<1>. DEFINE L == {j \in i .. n - 1 : i .. j \subseteq S}
<1>1. IsFiniteSet(i .. n - 1) /\ Cardinality(i .. n - 1) = n - i
  <2>. DEFINE m == n - 1
  <2>1. m \in Int /\ (IF i > m THEN 0 ELSE m - i + 1) = n - i
    OBVIOUS
  <2>. HIDE DEF m
  <2>2. IsFiniteSet(i .. m) /\ Cardinality(i .. m) = IF i > m THEN 0 ELSE m - i + 1
    BY <2>1, FS_Interval
  <2>. QED
    BY <2>1, <2>2 DEF m
<1>2. IsFiniteSet(L) /\ Cardinality(L) <= n - i /\ Cardinality(L) \in Nat
  BY <1>1, FS_Subset, FS_CardinalityType
<1>3. Leading(S, i, n) = Cardinality(L)
  BY DEF Leading
<1>4. ASSUME i \in S, i < n PROVE Cardinality(L) # 0
  <2>1. i .. i = {i}
    OBVIOUS
  <2>2. i \in L
    BY <1>4, <2>1
  <2>. QED
    BY <1>2, <2>2, FS_EmptySet
<1>. HIDE DEF L
<1>. QED
  BY <1>2, <1>3, <1>4

\* The same of a loop over the characters of one set.
LEMMA WhereLeads ==
  ASSUME NEW s \in Seq(STRING), NEW C, NEW i \in Nat, i <= Len(s)
  PROVE  /\ Leading(Where(s, C), i, Len(s)) \in Nat
         /\ i + Leading(Where(s, C), i, Len(s)) <= Len(s)
         /\ i < Len(s) /\ s[i + 1] \in C => Leading(Where(s, C), i, Len(s)) > 0
<1>. DEFINE W == Where(s, C)
<1>1. i < Len(s) /\ s[i + 1] \in C => i \in W
  BY DEF Where
<1>2. Len(s) \in Nat
  OBVIOUS
<1>. HIDE DEF W
<1>3. /\ Leading(W, i, Len(s)) \in Nat
      /\ i + Leading(W, i, Len(s)) <= Len(s)
      /\ i \in W /\ i < Len(s) => Leading(W, i, Len(s)) > 0
  BY <1>2, LeadingBounds
<1>. QED
  BY <1>1, <1>3 DEF W

\* What a match is: of a known kind, of at least one character, all of them in the text.
MatchOK(m, s, i) ==
    /\ m \in [kind : LexicalKinds, length : Nat]
    /\ m.length > 0
    /\ i + m.length <= Len(s)

LEMMA MatchedIsOK ==
  ASSUME NEW s \in Seq(STRING), NEW i \in Nat, NEW k \in LexicalKinds, NEW n \in Nat,
         n > 0, i + n <= Len(s)
  PROVE  MatchOK(Matched(k, n), s, i) /\ MatchOK(Unmatched(n), s, i)
  BY DEF MatchOK, Matched, Unmatched, LexicalKinds

\* match_literal, on a text that begins like the literal.
LEMMA LiteralMatches ==
  ASSUME NEW s \in Seq(STRING), NEW i \in Nat, i < Len(s), NEW k \in LexicalKinds,
         NEW literal, Len(literal) \in Nat \ {0}, s[i + 1] = literal[1]
  PROVE  MatchOK(MatchLiteral(s, i, k, literal), s, i)
<1>. DEFINE agrees == {j \in i .. Len(s) - 1 : j - i < Len(literal)
                                               /\ s[j + 1] = literal[j - i + 1]}
            length == Leading(agrees, i, Len(s))
<1>1. i \in agrees
  OBVIOUS
<1>. HIDE DEF agrees
<1>2. length \in Nat /\ length > 0 /\ i + length <= Len(s)
  BY <1>1, LeadingBounds
<1>3. MatchLiteral(s, i, k, literal) =
        IF length = Len(literal) THEN Matched(k, length) ELSE Unmatched(length)
  BY DEF MatchLiteral, agrees
<1>. HIDE DEF length
<1>. QED
  BY <1>2, <1>3, MatchedIsOK

\* match_number, on a text that begins with a minus or a digit.
LEMMA NumberMatches ==
  ASSUME NEW s \in Seq(STRING), NEW i \in Nat, i < Len(s), s[i + 1] \in Digits \cup {"-"}
  PROVE  MatchOK(MatchNumber(s, i), s, i)
<1>. DEFINE minus == IF Has(s, i, {"-"}) THEN 1 ELSE 0
            digits == DigitsFrom(s, i + minus)
            point == i + minus + digits
            fracDigits == DigitsFrom(s, point + 1)
            frac == IF Has(s, point, {"."}) THEN 1 + fracDigits ELSE 0
            exp == point + frac
            sign == IF Has(s, exp + 1, {"+", "-"}) THEN 1 ELSE 0
            expDigits == DigitsFrom(s, exp + 1 + sign)
            tail == IF Has(s, exp, {"e", "E"}) THEN 1 + sign + expDigits ELSE 0
<1>1. \A j, C : Has(s, j, C) => j \in Nat /\ j < Len(s)
  BY DEF Has, Where
<1>2. \A j \in Nat : j <= Len(s) =>
        DigitsFrom(s, j) \in Nat /\ j + DigitsFrom(s, j) <= Len(s)
  BY WhereLeads DEF DigitsFrom
<1>3. minus \in {0, 1} /\ i + minus <= Len(s)
  OBVIOUS
<1>4. digits \in Nat /\ point <= Len(s) /\ point \in Nat
  <2>. DEFINE first == i + minus
  <2>1. first \in Nat /\ first <= Len(s)
    BY <1>3
  <2>. HIDE DEF first
  <2>2. DigitsFrom(s, first) \in Nat /\ first + DigitsFrom(s, first) <= Len(s)
    BY <1>2, <2>1
  <2>3. digits = DigitsFrom(s, first) /\ point = first + DigitsFrom(s, first)
    BY DEF first
  <2>. HIDE DEF digits, point
  <2>. QED
    BY <2>1, <2>2, <2>3
<1>5. minus = 0 => digits > 0
  <2>. SUFFICES ASSUME minus = 0 PROVE digits > 0
    OBVIOUS
  <2>1. s[i + 1] # "-"
    BY DEF Has, Where
  <2>. QED
    BY <2>1, WhereLeads DEF DigitsFrom
<1>. HIDE DEF minus, digits
<1>6. frac \in Nat /\ exp <= Len(s) /\ exp \in Nat
  <2>1. CASE Has(s, point, {"."})
    <3>1. point + 1 \in Nat /\ point + 1 <= Len(s)
      BY <1>1, <1>4, <2>1
    <3>2. fracDigits \in Nat /\ point + 1 + fracDigits <= Len(s)
      BY <1>2, <3>1
    <3>3. frac = 1 + fracDigits
      BY <2>1
    <3>. HIDE DEF point, fracDigits, frac
    <3>. QED
      BY <1>4, <3>1, <3>2, <3>3
  <2>2. CASE ~Has(s, point, {"."})
    <3>1. frac = 0
      BY <2>2
    <3>. HIDE DEF point, frac
    <3>. QED
      BY <1>4, <3>1
  <2>. QED
    BY <2>1, <2>2
<1>7. frac = 1 => point < Len(s)
  BY <1>1
<1>. HIDE DEF point, frac
<1>8. sign \in {0, 1}
  OBVIOUS
<1>9. tail \in Nat /\ exp + tail <= Len(s)
  <2>1. CASE Has(s, exp, {"e", "E"})
    <3>1. exp + 1 <= Len(s) /\ exp + 1 + sign <= Len(s)
      BY <1>1, <1>6, <2>1
    <3>2. exp + 1 + sign \in Nat
      BY <1>6, <1>8
    <3>3. expDigits \in Nat /\ exp + 1 + sign + expDigits <= Len(s)
      BY <1>2, <3>1, <3>2
    <3>4. tail = 1 + sign + expDigits
      BY <2>1
    <3>. HIDE DEF exp, sign, expDigits, tail
    <3>. QED
      BY <1>6, <1>8, <3>3, <3>4
  <2>2. CASE ~Has(s, exp, {"e", "E"})
    <3>1. tail = 0
      BY <2>2
    <3>. HIDE DEF exp, tail
    <3>. QED
      BY <1>6, <3>1
  <2>. QED
    BY <2>1, <2>2
<1>10. MatchNumber(s, i) =
         IF point = i + minus THEN Unmatched(minus)
         ELSE IF frac = 1 THEN Unmatched(point + 1 - i)
         ELSE IF tail > 0 /\ tail = 1 + sign THEN Unmatched(exp + tail - i)
         ELSE Matched("number", exp + tail - i)
  BY DEF MatchNumber, minus, digits, point, frac
<1>11. point = i + minus + digits /\ exp = point + frac
  BY DEF point
<1>. HIDE DEF exp, sign, tail
<1>12. CASE point = i + minus
  <2>1. minus = 1
    BY <1>3, <1>4, <1>5, <1>11, <1>12
  <2>. QED
    BY <1>3, <1>10, <1>12, <2>1, MatchedIsOK DEF LexicalKinds
<1>13. CASE point # i + minus
  <2>1. point > i
    BY <1>3, <1>4, <1>11, <1>13
  <2>2. CASE frac = 1
    BY <1>4, <1>7, <1>10, <1>13, <2>1, <2>2, MatchedIsOK DEF LexicalKinds
  <2>3. CASE frac # 1
    <3>1. /\ exp + tail - i \in Nat /\ exp + tail - i > 0
          /\ i + (exp + tail - i) <= Len(s)
      <4>. HIDE DEF fracDigits, expDigits
      <4>1. exp + tail >= point
        BY <1>4, <1>6, <1>9, <1>11
      <4>. QED
        BY <1>4, <1>6, <1>9, <2>1, <4>1
    <3>2. "number" \in LexicalKinds
      BY DEF LexicalKinds
    <3>. QED
      BY <1>10, <1>13, <2>3, <3>1, <3>2, MatchedIsOK
  <2>. QED
    BY <2>2, <2>3
<1>. QED
  BY <1>12, <1>13

\* match_string, on a text that begins with a quote.
LEMMA StringMatches ==
  ASSUME NEW s \in Seq(STRING), NEW i \in Nat, i < Len(s)
  PROVE  MatchOK(MatchString(s, i), s, i)
<1>. DEFINE escaped == Escaped(s, i)
            quotes == Where(s, {"\""}) \ escaped
            others == (0 .. Len(s)) \ quotes
            body == Leading(others, i + 1, Len(s))
<1>1. MatchString(s, i) =
        IF i + 1 + body < Len(s) THEN Matched("string", body + 2)
        ELSE IF Len(s) \in escaped THEN Unmatched(body)
        ELSE Unmatched(body + 1)
  BY DEF MatchString
<1>2. escaped \subseteq i + 2 .. Len(s)
  BY DEF Escaped
<1>. HIDE DEF escaped, others
<1>3. i + 1 \in Nat /\ Len(s) \in Nat /\ i + 1 <= Len(s)
  OBVIOUS
<1>4. body \in Nat /\ i + 1 + body <= Len(s)
  BY <1>3, LeadingBounds
<1>. HIDE DEF body
<1>5. CASE i + 1 + body < Len(s)
  BY <1>1, <1>4, <1>5, MatchedIsOK DEF LexicalKinds
<1>6. CASE ~(i + 1 + body < Len(s)) /\ Len(s) \in escaped
  BY <1>1, <1>2, <1>4, <1>6, MatchedIsOK DEF LexicalKinds
<1>7. CASE ~(i + 1 + body < Len(s)) /\ Len(s) \notin escaped
  BY <1>1, <1>4, <1>7, MatchedIsOK DEF LexicalKinds
<1>. QED
  BY <1>5, <1>6, <1>7

\* match_whitespace, on a text that begins with a space.
LEMMA WhitespaceMatches ==
  ASSUME NEW s \in Seq(STRING), NEW i \in Nat, i < Len(s), s[i + 1] \in Spaces
  PROVE  MatchOK(MatchWhitespace(s, i), s, i)
<1>. DEFINE n == Leading(Where(s, Spaces), i, Len(s))
<1>1. n \in Nat /\ n > 0 /\ i + n <= Len(s)
  <2>1. i <= Len(s)
    OBVIOUS
  <2>. QED
    BY <2>1, WhereLeads
<1>2. MatchWhitespace(s, i) = Matched("whitespace", n)
  BY DEF MatchWhitespace
<1>. HIDE DEF n
<1>. QED
  BY <1>1, <1>2, MatchedIsOK DEF LexicalKinds

\* match_comment, on a text that begins with a slash.
LEMMA CommentMatches ==
  ASSUME NEW s \in Seq(STRING), NEW i \in Nat, i < Len(s)
  PROVE  MatchOK(MatchComment(s, i), s, i)
<1>. DEFINE ends == {j \in i + 3 .. Len(s) - 1 : s[j] = "*" /\ s[j + 1] = "/"}
            others == (0 .. Len(s)) \ ends
            body == Leading(others, i + 2, Len(s))
<1>1. MatchComment(s, i) =
        IF ~Has(s, i + 1, {"*"}) THEN Unmatched(1)
        ELSE IF i + 2 + body < Len(s) THEN Matched("comment", body + 3)
        ELSE Unmatched(body + 2)
  BY DEF MatchComment
<1>2. CASE ~Has(s, i + 1, {"*"})
  BY <1>1, <1>2, MatchedIsOK DEF LexicalKinds
<1>3. CASE Has(s, i + 1, {"*"})
  <2>1. i + 2 \in Nat /\ Len(s) \in Nat /\ i + 2 <= Len(s)
    BY <1>3 DEF Has, Where
  <2>. HIDE DEF others
  <2>2. body \in Nat /\ i + 2 + body <= Len(s)
    BY <2>1, LeadingBounds
  <2>. HIDE DEF body
  <2>. QED
    BY <1>1, <1>3, <2>2, MatchedIsOK DEF LexicalKinds
<1>. QED
  BY <1>2, <1>3

\* attempt_match, anywhere in a text: it takes at least a character, and only characters
\* of the text.
LEMMA AttemptsMatch ==
  ASSUME NEW s \in Seq(STRING), NEW i \in Nat, i < Len(s)
  PROVE  MatchOK(AttemptMatch(s, i), s, i)
<1>. DEFINE c == s[i + 1]
<1>. USE DEF Structural, Digits, Spaces
<1>1. CASE c \in Structural
  <2>1. AttemptMatch(s, i) = Matched(StructuralKind(c), 1)
    BY <1>1 DEF AttemptMatch
  <2>2. StructuralKind(c) \in LexicalKinds
    BY <1>1 DEF StructuralKind, LexicalKinds
  <2>. QED
    BY <2>1, <2>2, MatchedIsOK
<1>2. CASE c \in {"t", "f", "n"}
  <2>1. /\ Literals["t"] = <<"t", "r", "u", "e">>
        /\ Literals["f"] = <<"f", "a", "l", "s", "e">>
        /\ Literals["n"] = <<"n", "u", "l", "l">>
    BY DEF Literals
  <2>2. Len(Literals[c]) \in Nat \ {0} /\ c = Literals[c][1]
    BY <1>2, <2>1
  <2>3. \/ AttemptMatch(s, i) = MatchLiteral(s, i, "boolean", Literals[c])
        \/ AttemptMatch(s, i) = MatchLiteral(s, i, "null", Literals[c])
    BY <1>2 DEF AttemptMatch
  <2>. QED
    BY <2>2, <2>3, LiteralMatches DEF LexicalKinds
<1>3. CASE c \in Digits \cup {"-"}
  <2>1. AttemptMatch(s, i) = MatchNumber(s, i)
    BY <1>3 DEF AttemptMatch
  <2>. QED
    BY <1>3, <2>1, NumberMatches
<1>4. CASE c = "\""
  <2>1. AttemptMatch(s, i) = MatchString(s, i)
    BY <1>4 DEF AttemptMatch
  <2>. QED
    BY <2>1, StringMatches
<1>5. CASE c \in Spaces
  <2>1. AttemptMatch(s, i) = MatchWhitespace(s, i)
    BY <1>5 DEF AttemptMatch
  <2>. QED
    BY <1>5, <2>1, WhitespaceMatches
<1>6. CASE c = "/"
  <2>1. AttemptMatch(s, i) = MatchComment(s, i)
    BY <1>6 DEF AttemptMatch
  <2>. QED
    BY <2>1, CommentMatches
<1>7. CASE c \notin Structural \cup {"t", "f", "n", "-", "\"", "/"} \cup Digits \cup Spaces
  <2>1. AttemptMatch(s, i) = Unmatched(1)
    BY <1>7 DEF AttemptMatch
  <2>. QED
    BY <2>1, MatchedIsOK DEF LexicalKinds
<1>. QED
  BY <1>1, <1>2, <1>3, <1>4, <1>5, <1>6, <1>7

-----------------------------------------------------------------------------
(* The tokenizer *)

\* The strengthening of TypeOK: until the end has been met the position is the
\* beginning of the current token, and then it stays past the end.
PlaceInv ==
    /\ idle = 0 => position = current.begin
    /\ idle > 0 => position >= Len(text)

Inv == TypeOK /\ PlaceInv

\* The current token, if there is one, lies in the text.
LEMMA CurrentTypes ==
  ASSUME TypeOK
  PROVE  /\ text \in Seq(STRING) /\ Len(text) \in Nat
         /\ current.begin \in Nat /\ current.length \in Nat
         /\ current.begin + current.length <= Len(text)
         /\ Moved \in Nat /\ position \in Nat /\ position <= Moved
         /\ idle \in Nat /\ idle <= MaxIdle
<1>1. text \in Texts /\ position \in Nat /\ idle \in 0 .. MaxIdle
  BY DEF TypeOK
<1>2. text \in Seq(STRING) /\ Len(text) \in Nat
  BY <1>1, TextsAssumption
<1>3. idle \in Nat /\ idle <= MaxIdle
  BY <1>1, MaxIdleAssumption
<1>4. /\ current.begin \in Nat /\ current.length \in Nat
      /\ current.begin + current.length <= Len(text)
  <2>1. CASE current = NoToken
    BY <1>2, <2>1 DEF NoToken
  <2>2. CASE /\ current \in [kind : LexicalKinds, begin : Nat, length : Nat \ {0}]
             /\ current.begin + current.length <= Len(text)
    BY <2>2
  <2>. QED
    BY <2>1, <2>2 DEF TypeOK
<1>5. Moved \in Nat /\ position <= Moved
  BY <1>1, <1>4 DEF Moved
<1>. QED
  BY <1>1, <1>2, <1>3, <1>4, <1>5

\* At the beginning the place is the beginning of the text.
LEMMA InitialPlace == ASSUME Init PROVE Inv
<1>1. 0 \in 0 .. MaxIdle
  BY MaxIdleAssumption
<1>2. TypeOK
  BY <1>1 DEF Init, TypeOK
<1>3. PlaceInv
  <2>1. idle = 0 /\ position = 0 /\ current = NoToken
    BY DEF Init
  <2>2. NoToken.begin = 0
    BY DEF NoToken
  <2>. QED
    BY <2>1, <2>2 DEF PlaceInv
<1>. QED
  BY <1>2, <1>3 DEF Inv

\* next keeps the place, and takes the token that begins where the current one ends.
LEMMA StepsKeepPlace == ASSUME Inv, [Next]_vars PROVE Inv'
<1>. USE DEF Inv
<1>1. CASE NextTrue
  <2>. DEFINE m == AttemptMatch(text, Moved)
  <2>1. /\ text \in Seq(STRING) /\ Moved \in Nat /\ Moved < Len(text)
        /\ current' = [kind |-> m.kind, begin |-> Moved, length |-> m.length]
        /\ position' = Moved /\ returned' = "true" /\ text' = text /\ idle' = idle
    BY <1>1, CurrentTypes DEF NextTrue
  <2>2. MatchOK(m, text, Moved)
    BY <2>1, AttemptsMatch
  <2>. HIDE DEF m
  <2>3. /\ current' \in [kind : LexicalKinds, begin : Nat, length : Nat \ {0}]
        /\ current'.begin = Moved
        /\ current'.begin + current'.length <= Len(text)
    BY <2>1, <2>2 DEF MatchOK
  <2>4. idle = 0
    BY <2>1, CurrentTypes DEF PlaceInv
  <2>5. TypeOK'
    BY <2>1, <2>3 DEF TypeOK
  <2>6. PlaceInv'
    BY <2>1, <2>3, <2>4 DEF PlaceInv
  <2>. QED
    BY <2>5, <2>6
<1>2. CASE NextFalse
  <2>1. /\ Moved \in Nat /\ Moved >= Len(text)
        /\ position' = Moved /\ returned' = "false" /\ idle' = idle + 1 /\ idle < MaxIdle
        /\ text' = text /\ current' = current
    BY <1>2, CurrentTypes DEF NextFalse
  <2>2. idle' \in 0 .. MaxIdle /\ idle' > 0
    BY <2>1, MaxIdleAssumption, CurrentTypes
  <2>3. TypeOK'
    BY <2>1, <2>2 DEF TypeOK
  <2>4. PlaceInv'
    BY <2>1, <2>2 DEF PlaceInv
  <2>. QED
    BY <2>3, <2>4
<1>3. CASE UNCHANGED vars
  BY <1>3 DEF vars, TypeOK, PlaceInv
<1>. QED
  BY <1>1, <1>2, <1>3 DEF Next, Stop

LEMMA PlaceIsKept == Spec => []Inv
  BY InitialPlace, StepsKeepPlace, PTL DEF Spec

\* Whatever the text, tokens are never empty and never go past the end of the input: the
\* tokenizer reads no character that is not there, and makes progress with each token.
THEOREM TokensAreInTheText == Spec => []TypeOK
<1>1. Inv => TypeOK
  BY DEF Inv
<1>. QED
  BY <1>1, PlaceIsKept, PTL

\* Whatever the text, no character is skipped or read twice: each token begins where the
\* one before it ends, and next first returns false when the last has reached the end.
THEOREM TokensTile == Spec => TokensTileTheText
<1>. DEFINE Tiles == /\ returned' = "true" =>
                          current'.begin = current.begin + current.length
                     /\ idle = 0 /\ idle' = 1 => current.begin + current.length = Len(text)
<1>1. Inv /\ [Next]_vars => [Tiles]_vars
  <2>. SUFFICES ASSUME Inv, Next PROVE Tiles \/ UNCHANGED vars
    OBVIOUS
  <2>. USE DEF Inv
  <2>1. CASE NextTrue
    <3>1. idle = 0 /\ idle' = 0
      BY <2>1, CurrentTypes DEF NextTrue, PlaceInv
    <3>. QED
      BY <2>1, <3>1, CurrentTypes DEF NextTrue, PlaceInv, Moved
  <2>2. CASE NextFalse
    BY <2>2, CurrentTypes DEF NextFalse, PlaceInv, Moved
  <2>3. CASE Stop
    BY <2>3 DEF Stop
  <2>. QED
    BY <2>1, <2>2, <2>3 DEF Next
<1>. QED
  BY <1>1, PlaceIsKept, PTL DEF Spec, TokensTileTheText

-----------------------------------------------------------------------------
(* Runs of characters, and the beginnings of what is left of a text *)

\* The run of numbers in S that begins at i ends at m, or at n if it goes on so far.
RunEnds(S, i, n, m) ==
    /\ m \in i .. n
    /\ \A j \in i .. m - 1 : j \in S
    /\ m = n \/ m \notin S

\* Every run has an end, and Leading is how far it is.
LEMMA LeadingIsARun ==
  ASSUME NEW S, NEW i \in Nat, NEW n \in Nat, i <= n
  PROVE  RunEnds(S, i, n, i + Leading(S, i, n))
<1>. DEFINE T == {m \in Nat : m >= i /\ (m = n \/ m \notin S)}
<1>1. n \in T /\ T \in SUBSET Nat
  OBVIOUS
<1>2. PICK m \in T : \A k \in T : m <= k
  <2>. HIDE DEF T
  <2>. QED
    BY <1>1, LeastElement
<1>3. m \in Nat /\ i <= m /\ m <= n /\ (m = n \/ m \notin S)
  BY <1>1, <1>2
<1>4. ASSUME NEW j \in i .. m - 1 PROVE j \in S
  BY <1>2, <1>3
<1>5. {j \in i .. n - 1 : i .. j \subseteq S} = i .. m - 1
  <2>1. ASSUME NEW j \in i .. m - 1 PROVE j \in i .. n - 1 /\ i .. j \subseteq S
    <3>1. j \in i .. n - 1
      BY <1>3
    <3>2. \A k \in i .. j : k \in i .. m - 1
      BY <1>3
    <3>. QED
      BY <1>4, <3>1, <3>2
  <2>2. ASSUME NEW j \in i .. n - 1, i .. j \subseteq S, j \notin i .. m - 1 PROVE FALSE
    <3>1. m \in i .. j /\ m # n
      BY <1>3, <2>2
    <3>. QED
      BY <1>3, <2>2, <3>1
  <2>. QED
    BY <2>1, <2>2
<1>6. Cardinality(i .. m - 1) = m - i
  <2>. DEFINE k == m - 1
  <2>1. k \in Int /\ (IF i > k THEN 0 ELSE k - i + 1) = m - i
    BY <1>3
  <2>. HIDE DEF k
  <2>2. Cardinality(i .. k) = IF i > k THEN 0 ELSE k - i + 1
    BY <2>1, FS_Interval
  <2>. QED
    BY <2>1, <2>2 DEF k
<1>7. i + Leading(S, i, n) = m
  <2>1. Leading(S, i, n) = m - i
    BY <1>5, <1>6 DEF Leading
  <2>. QED
    BY <1>3, <2>1
<1>. QED
  BY <1>3, <1>4, <1>7 DEF RunEnds

\* The piece of s from offset i up to offset e.
Piece(s, i, e) == SubSeq(s, i + 1, e)

\* Its length and its characters.
LEMMA PieceIs ==
  ASSUME NEW s \in Seq(STRING), NEW i \in Nat, NEW e \in i .. Len(s)
  PROVE  /\ Piece(s, i, e) \in Seq(STRING) /\ Len(Piece(s, i, e)) = e - i
         /\ DOMAIN Piece(s, i, e) = 1 .. e - i
         /\ \A k \in 1 .. e - i : Piece(s, i, e)[k] = s[i + k]
         /\ Piece(s, i, e) = <<>> <=> i = e
         /\ i < e => Head(Piece(s, i, e)) = s[i + 1] /\ Tail(Piece(s, i, e)) = Piece(s, i + 1, e)
<1>. DEFINE p == Piece(s, i, e)
<1>0. i + 1 \in 1 .. Len(s) + 1 /\ e \in 0 .. Len(s) /\ e \in Nat /\ Len(s) \in Nat
  OBVIOUS
<1>1. /\ p \in Seq(STRING) /\ Len(p) = e - i
      /\ \A k \in 1 .. e - i : p[k] = s[i + k]
  <2>1. p = [k \in 1 .. e - i |-> s[i + k]]
    BY <1>0 DEF Piece
  <2>2. \A k \in 1 .. e - i : s[i + k] \in STRING
    BY <1>0
  <2>. HIDE DEF p
  <2>. QED
    BY <1>0, <2>1, <2>2
<1>2. DOMAIN p = 1 .. e - i
  <2>. HIDE DEF p
  <2>. QED
    BY <1>0, <1>1
<1>3. p = <<>> <=> i = e
  <2>. HIDE DEF p
  <2>. QED
    BY <1>0, <1>1, EmptySeq
<1>4. ASSUME i < e PROVE Head(p) = s[i + 1] /\ Tail(p) = Piece(s, i + 1, e)
  <2>1. p # <<>> /\ p[1] = s[i + 1]
    BY <1>0, <1>1, <1>3, <1>4
  <2>. DEFINE q == Piece(s, i + 1, e)
  <2>2. /\ Tail(p) \in Seq(STRING) /\ Len(Tail(p)) = (e - i) - 1
        /\ \A k \in 1 .. (e - i) - 1 : Tail(p)[k] = p[k + 1]
    <3>. HIDE DEF p
    <3>. QED
      BY <1>0, <1>1, <2>1, HeadTailProperties
  <2>3. /\ q \in Seq(STRING) /\ Len(q) = e - (i + 1)
        /\ \A k \in 1 .. e - (i + 1) : q[k] = s[(i + 1) + k]
    <3>1. q = [k \in 1 .. e - (i + 1) |-> s[(i + 1) + k]]
      BY <1>0, <1>4 DEF Piece
    <3>2. \A k \in 1 .. e - (i + 1) : s[(i + 1) + k] \in STRING
      BY <1>0
    <3>. HIDE DEF q
    <3>. QED
      BY <1>0, <1>4, <3>1, <3>2
  <2>. HIDE DEF p, q
  <2>4. \A k \in 1 .. (e - i) - 1 : Tail(p)[k] = q[k]
    <3>. TAKE k \in 1 .. (e - i) - 1
    <3>1. k + 1 \in 1 .. e - i /\ k \in 1 .. e - (i + 1) /\ i + (k + 1) = (i + 1) + k
      BY <1>0
    <3>. QED
      BY <1>1, <2>2, <2>3, <3>1
  <2>5. Tail(p) = q
    <3>1. Len(Tail(p)) = Len(q)
      BY <1>0, <2>2, <2>3
    <3>. QED
      BY <2>2, <2>3, <2>4, <3>1, SeqEqual
  <2>. HIDE DEF p
  <2>. QED
    BY <2>1, <2>5 DEF q
<1>. QED
  BY <1>1, <1>2, <1>3, <1>4

\* That and no more, which is what most proofs need.
LEMMA PieceHas ==
  ASSUME NEW s \in Seq(STRING), NEW i \in Nat, NEW e \in i .. Len(s)
  PROVE  /\ Len(Piece(s, i, e)) = e - i
         /\ \A k \in 1 .. e - i : Piece(s, i, e)[k] = s[i + k]
  BY PieceIs

\* A piece of a piece.
LEMMA PieceOfPiece ==
  ASSUME NEW s \in Seq(STRING), NEW i \in Nat, NEW e \in i .. Len(s),
         NEW a \in 0 .. e - i, NEW b \in a .. e - i
  PROVE  SubSeq(Piece(s, i, e), a + 1, b) = Piece(s, i + a, i + b)
<1>. DEFINE p == Piece(s, i, e)
            q == SubSeq(p, a + 1, b)
            r == Piece(s, i + a, i + b)
<1>0. /\ Len(s) \in Nat /\ a \in Nat /\ b \in Nat /\ e \in Nat /\ a <= b /\ b <= e - i
      /\ i + a \in Nat /\ i + b \in i + a .. Len(s) /\ (i + b) - (i + a) = b - a
  OBVIOUS
<1>1. p \in Seq(STRING) /\ Len(p) = e - i /\ \A k \in 1 .. e - i : p[k] = s[i + k]
  BY PieceIs
<1>2. /\ r \in Seq(STRING) /\ Len(r) = b - a
      /\ \A k \in 1 .. b - a : r[k] = s[(i + a) + k]
  <2>. DEFINE x == i + a
              y == i + b
  <2>. HIDE DEF x, y
  <2>1. x \in Nat /\ y \in x .. Len(s) /\ y - x = b - a
    BY <1>0 DEF x, y
  <2>2. /\ Piece(s, x, y) \in Seq(STRING) /\ Len(Piece(s, x, y)) = y - x
        /\ \A k \in 1 .. y - x : Piece(s, x, y)[k] = s[x + k]
    BY <2>1, PieceIs
  <2>. QED
    BY <2>1, <2>2 DEF x, y
<1>3. q = [k \in 1 .. b - a |-> p[a + k]]
  <2>. HIDE DEF p
  <2>. QED
    BY <1>0, <1>1
<1>4. \A k \in 1 .. b - a : a + k \in 1 .. e - i /\ i + (a + k) = (i + a) + k
  BY <1>0
<1>. HIDE DEF p, r
<1>5. \A k \in 1 .. b - a : p[a + k] = r[k] /\ r[k] \in STRING
  BY <1>0, <1>1, <1>2, <1>4
<1>. HIDE DEF q
<1>6. q \in Seq(STRING) /\ Len(q) = b - a /\ \A k \in 1 .. b - a : q[k] = r[k]
  <2>1. \A k \in 1 .. b - a : q[k] = r[k] /\ p[a + k] \in STRING
    BY <1>3, <1>5
  <2>2. b - a \in Nat
    BY <1>0
  <2>3. q \in Seq(STRING) /\ Len(q) = b - a
    BY <1>3, <2>1, <2>2
  <2>. QED
    BY <2>1, <2>3
<1>7. q = r
  <2>1. Len(q) = Len(r) /\ \A k \in 1 .. Len(q) : q[k] = r[k]
    BY <1>2, <1>6
  <2>. QED
    BY <1>2, <1>6, <2>1, SeqEqual
<1>. QED
  BY <1>7 DEF p, q, r

-----------------------------------------------------------------------------
(* Numbers: the grammar says where each part of a number may end, and MatchNumber goes as *)
(* far as each part goes.                                                                  *)

DigitsIn(s, a, b) == a < b /\ \A j \in a .. b - 1 : s[j + 1] \in Digits

IntegerIn(s, i, x) == DigitsIn(s, i, x) \/ (i < x /\ s[i + 1] = "-" /\ DigitsIn(s, i + 1, x))

FractionIn(s, x, y) == x = y \/ (x < y /\ s[x + 1] = "." /\ DigitsIn(s, x + 1, y))

ExponentIn(s, y, e) ==
    \/ y = e
    \/ /\ y < e /\ s[y + 1] \in {"e", "E"}
       /\ \/ DigitsIn(s, y + 1, e)
          \/ y + 1 < e /\ s[y + 2] \in {"+", "-"} /\ DigitsIn(s, y + 2, e)

NumberIn(s, i, e) ==
    \E x \in i .. e : \E y \in x .. e :
       IntegerIn(s, i, x) /\ FractionIn(s, x, y) /\ ExponentIn(s, y, e)

\* The digits of a piece.
LEMMA DigitsOfPiece ==
  ASSUME NEW s \in Seq(STRING), NEW a \in Nat, NEW b \in a .. Len(s)
  PROVE  IsDigits(Piece(s, a, b)) <=> DigitsIn(s, a, b)
<1>. DEFINE p == Piece(s, a, b)
<1>0. b \in Nat /\ a <= b
  OBVIOUS
<1>1. /\ DOMAIN p = 1 .. b - a /\ (p = <<>> <=> a = b)
      /\ \A k \in 1 .. b - a : p[k] = s[a + k]
  BY PieceIs
<1>. HIDE DEF p
<1>2. IsDigits(p) <=> a < b /\ \A k \in 1 .. b - a : s[a + k] \in Digits
  <2>1. IsDigits(p) <=> p # <<>> /\ \A k \in 1 .. b - a : p[k] \in Digits
    BY <1>1 DEF IsDigits, AllIn
  <2>2. p # <<>> <=> a < b
    BY <1>0, <1>1
  <2>3. (\A k \in 1 .. b - a : p[k] \in Digits) <=> \A k \in 1 .. b - a : s[a + k] \in Digits
    BY <1>1
  <2>. QED
    BY <2>1, <2>2, <2>3
<1>3. (\A k \in 1 .. b - a : s[a + k] \in Digits) <=> \A j \in a .. b - 1 : s[j + 1] \in Digits
  <2>1. ASSUME \A k \in 1 .. b - a : s[a + k] \in Digits, NEW j \in a .. b - 1
        PROVE  s[j + 1] \in Digits
    <3>1. j + 1 - a \in 1 .. b - a /\ a + (j + 1 - a) = j + 1
      BY <1>0
    <3>. QED
      BY <2>1, <3>1
  <2>2. ASSUME \A j \in a .. b - 1 : s[j + 1] \in Digits, NEW k \in 1 .. b - a
        PROVE  s[a + k] \in Digits
    <3>1. a + k - 1 \in a .. b - 1 /\ (a + k - 1) + 1 = a + k
      BY <1>0
    <3>. QED
      BY <2>2, <3>1
  <2>. QED
    BY <2>1, <2>2
<1>. QED
  BY <1>2, <1>3 DEF p, DigitsIn

\* The integer that a number begins with.
LEMMA IntegerOfPiece ==
  ASSUME NEW s \in Seq(STRING), NEW i \in Nat, NEW x \in i .. Len(s)
  PROVE  LET int == Piece(s, i, x)
         IN  IsDigits(int) \/ (int # <<>> /\ Head(int) = "-" /\ IsDigits(Tail(int)))
             <=> IntegerIn(s, i, x)
<1>0. x \in Nat /\ i <= x /\ (i < x => i + 1 \in Nat /\ x \in i + 1 .. Len(s))
  OBVIOUS
<1>1. /\ Piece(s, i, x) = <<>> <=> i = x
      /\ i < x => Head(Piece(s, i, x)) = s[i + 1] /\ Tail(Piece(s, i, x)) = Piece(s, i + 1, x)
  BY PieceIs
<1>2. IsDigits(Piece(s, i, x)) <=> DigitsIn(s, i, x)
  BY DigitsOfPiece
<1>3. i < x => (IsDigits(Piece(s, i + 1, x)) <=> DigitsIn(s, i + 1, x))
  BY <1>0, DigitsOfPiece
<1>4. ~DigitsIn(s, i, i)
  BY DEF DigitsIn
<1>5. CASE i = x
  BY <1>1, <1>2, <1>4, <1>5 DEF IntegerIn
<1>6. CASE i < x
  <2>1. i # x
    BY <1>0, <1>6
  <2>. QED
    BY <1>1, <1>2, <1>3, <1>6, <2>1, Zenon DEF IntegerIn
<1>. QED
  BY <1>0, <1>5, <1>6

\* Its fraction, which may be missing.
LEMMA FractionOfPiece ==
  ASSUME NEW s \in Seq(STRING), NEW x \in Nat, NEW y \in x .. Len(s)
  PROVE  IsFraction(Piece(s, x, y)) <=> FractionIn(s, x, y)
<1>0. y \in Nat /\ x <= y /\ (x < y => x + 1 \in Nat /\ y \in x + 1 .. Len(s))
  OBVIOUS
<1>1. /\ Piece(s, x, y) = <<>> <=> x = y
      /\ x < y => Head(Piece(s, x, y)) = s[x + 1] /\ Tail(Piece(s, x, y)) = Piece(s, x + 1, y)
  BY PieceIs
<1>2. x < y => (IsDigits(Piece(s, x + 1, y)) <=> DigitsIn(s, x + 1, y))
  BY <1>0, DigitsOfPiece
<1>3. CASE x = y
  BY <1>1, <1>3 DEF IsFraction, FractionIn
<1>4. CASE x < y
  <2>1. x # y
    BY <1>0, <1>4
  <2>. QED
    BY <1>1, <1>2, <1>4, <2>1, Zenon DEF IsFraction, FractionIn
<1>. QED
  BY <1>0, <1>3, <1>4

\* Its exponent, which may be missing too.
LEMMA ExponentOfPiece ==
  ASSUME NEW s \in Seq(STRING), NEW y \in Nat, NEW e \in y .. Len(s)
  PROVE  IsExponent(Piece(s, y, e)) <=> ExponentIn(s, y, e)
<1>. DEFINE p == Piece(s, y, e)
<1>0. e \in Nat /\ y <= e /\ (y < e => y + 1 \in Nat /\ e \in y + 1 .. Len(s))
      /\ (y + 1 < e => y + 2 \in Nat /\ e \in y + 2 .. Len(s) /\ (y + 1) + 1 = y + 2)
  OBVIOUS
<1>1. /\ p = <<>> <=> y = e
      /\ Len(p) = e - y /\ \A k \in 1 .. e - y : p[k] = s[y + k]
      /\ y < e => Head(p) = s[y + 1] /\ Tail(p) = Piece(s, y + 1, e)
  <2>1. Len(Piece(s, y, e)) = e - y /\ \A k \in 1 .. e - y : Piece(s, y, e)[k] = s[y + k]
    BY PieceIs
  <2>2. Piece(s, y, e) = <<>> <=> y = e
    BY PieceIs
  <2>3. y < e => Head(Piece(s, y, e)) = s[y + 1] /\ Tail(Piece(s, y, e)) = Piece(s, y + 1, e)
    BY PieceIs
  <2>. QED
    BY <2>1, <2>2, <2>3 DEF p
<1>2. y + 1 < e => Tail(Piece(s, y + 1, e)) = Piece(s, y + 2, e)
  <2>. SUFFICES ASSUME y + 1 < e PROVE Tail(Piece(s, y + 1, e)) = Piece(s, y + 2, e)
    OBVIOUS
  <2>. DEFINE x == y + 1
  <2>1. x \in Nat /\ e \in x .. Len(s) /\ x < e /\ x + 1 = y + 2
    BY <1>0
  <2>. HIDE DEF x, p
  <2>2. Tail(Piece(s, x, e)) = Piece(s, x + 1, e)
    BY <2>1, PieceIs
  <2>. QED
    BY <2>1, <2>2 DEF x
<1>3. y < e => (IsDigits(Piece(s, y + 1, e)) <=> DigitsIn(s, y + 1, e))
  BY <1>0, DigitsOfPiece
<1>4. y + 1 < e => (IsDigits(Piece(s, y + 2, e)) <=> DigitsIn(s, y + 2, e))
  BY <1>0, DigitsOfPiece
<1>. HIDE DEF p
<1>5. (Len(p) > 1 <=> y + 1 < e) /\ (y + 1 < e => p[2] = s[y + 2])
  BY <1>0, <1>1
<1>. QED
  <2>1. CASE y = e
    BY <1>1, <2>1 DEF p, IsExponent, ExponentIn
  <2>2. CASE y < e
    BY <1>1, <1>2, <1>3, <1>4, <1>5, <2>2 DEF p, IsExponent, ExponentIn
  <2>. QED
    BY <1>0, <2>1, <2>2

\* A piece is a number if it can be cut into the parts of one.
LEMMA NumberOfPiece ==
  ASSUME NEW s \in Seq(STRING), NEW i \in Nat, NEW e \in i .. Len(s)
  PROVE  IsNumber(Piece(s, i, e)) <=> NumberIn(s, i, e)
<1>. DEFINE p == Piece(s, i, e)
            Cut(a, b) == /\ LET int == SubSeq(p, 1, a)
                            IN  \/ IsDigits(int)
                                \/ int # <<>> /\ Head(int) = "-" /\ IsDigits(Tail(int))
                         /\ IsFraction(SubSeq(p, a + 1, b))
                         /\ IsExponent(SubSeq(p, b + 1, Len(p)))
            CutIn(x, y) == IntegerIn(s, i, x) /\ FractionIn(s, x, y) /\ ExponentIn(s, y, e)
<1>0. e \in Nat /\ i <= e /\ Len(s) \in Nat /\ Len(p) = e - i
  <2>1. e \in Nat /\ i <= e /\ Len(s) \in Nat
    OBVIOUS
  <2>. QED
    BY <2>1, PieceIs
<1>1. ASSUME NEW a \in 0 .. e - i, NEW b \in a .. e - i
      PROVE  Cut(a, b) <=> CutIn(i + a, i + b)
  <2>0. /\ a \in Nat /\ b \in Nat /\ a <= b /\ b <= e - i
        /\ 0 \in 0 .. e - i /\ a \in 0 .. e - i /\ b \in 0 .. e - i /\ e - i \in b .. e - i
        /\ i + 0 = i /\ 0 + 1 = 1 /\ i + (e - i) = e
        /\ i + a \in Nat /\ i + a \in i .. Len(s) /\ i + b \in i + a .. Len(s)
        /\ i + b \in Nat /\ e \in i + b .. Len(s)
    BY <1>0
  <2>1. SubSeq(p, 1, a) = Piece(s, i, i + a)
    <3>1. SubSeq(p, 0 + 1, a) = Piece(s, i + 0, i + a)
      BY <2>0, PieceOfPiece
    <3>. QED
      BY <2>0, <3>1
  <2>2. SubSeq(p, a + 1, b) = Piece(s, i + a, i + b)
    BY <2>0, PieceOfPiece
  <2>3. SubSeq(p, b + 1, Len(p)) = Piece(s, i + b, e)
    <3>1. SubSeq(p, b + 1, e - i) = Piece(s, i + b, i + (e - i))
      BY <2>0, PieceOfPiece
    <3>. QED
      BY <1>0, <2>0, <3>1
  <2>. HIDE DEF p
  <2>4. LET int == SubSeq(p, 1, a)
        IN  IsDigits(int) \/ (int # <<>> /\ Head(int) = "-" /\ IsDigits(Tail(int)))
            <=> IntegerIn(s, i, i + a)
    BY <2>0, <2>1, IntegerOfPiece
  <2>5. IsFraction(SubSeq(p, a + 1, b)) <=> FractionIn(s, i + a, i + b)
    BY <2>0, <2>2, FractionOfPiece
  <2>6. IsExponent(SubSeq(p, b + 1, Len(p))) <=> ExponentIn(s, i + b, e)
    BY <2>0, <2>3, ExponentOfPiece
  <2>. QED
    BY <2>4, <2>5, <2>6
<1>2. IsNumber(p) <=> \E a \in 0 .. e - i : \E b \in a .. e - i : Cut(a, b)
  <2>. HIDE DEF p
  <2>1. IsNumber(p) <=> \E a, b \in 0 .. Len(p) : a <= b /\ Cut(a, b)
    BY DEF IsNumber
  <2>. HIDE DEF Cut
  <2>. QED
    BY <1>0, <2>1
<1>3. NumberIn(s, i, e) <=> \E x \in i .. e : \E y \in x .. e : CutIn(x, y)
  BY DEF NumberIn
<1>. HIDE DEF p, Cut, CutIn
<1>4. ASSUME NEW a \in 0 .. e - i, NEW b \in a .. e - i, Cut(a, b)
      PROVE  NumberIn(s, i, e)
  <2>1. i + a \in i .. e /\ i + b \in i + a .. e
    BY <1>0
  <2>. QED
    BY <1>1, <1>3, <1>4, <2>1
<1>5. ASSUME NEW x \in i .. e, NEW y \in x .. e, CutIn(x, y)
      PROVE  IsNumber(p)
  <2>1. x - i \in 0 .. e - i /\ y - i \in x - i .. e - i /\ i + (x - i) = x /\ i + (y - i) = y
    BY <1>0
  <2>2. Cut(x - i, y - i)
    BY <1>1, <1>5, <2>1
  <2>. QED
    BY <1>2, <2>1, <2>2
<1>. QED
  BY <1>2, <1>3, <1>4, <1>5 DEF p

\* The digits from offset a go on up to m.
DigitRun(s, a, m) ==
    /\ m \in a .. Len(s)
    /\ \A j \in a .. m - 1 : s[j + 1] \in Digits
    /\ m = Len(s) \/ s[m + 1] \notin Digits

\* Every run of digits has an end, and DigitsFrom is how far it is.
LEMMA DigitsFromIsARun ==
  ASSUME NEW s \in Seq(STRING), NEW a \in 0 .. Len(s)
  PROVE  DigitRun(s, a, a + DigitsFrom(s, a))
<1>. DEFINE W == Where(s, Digits)
            m == a + Leading(W, a, Len(s))
<1>0. a \in Nat /\ Len(s) \in Nat /\ a <= Len(s)
  OBVIOUS
<1>1. \A j \in 0 .. Len(s) - 1 : j \in W <=> s[j + 1] \in Digits
  BY DEF Where
<1>2. RunEnds(W, a, Len(s), m)
  <2>. HIDE DEF W
  <2>. QED
    BY <1>0, LeadingIsARun
<1>3. m = a + DigitsFrom(s, a)
  BY DEF DigitsFrom
<1>. HIDE DEF W, m
<1>4. m \in a .. Len(s) /\ (\A j \in a .. m - 1 : j \in W) /\ (m = Len(s) \/ m \notin W)
  BY <1>2 DEF RunEnds
<1>5. \A j \in a .. m - 1 : s[j + 1] \in Digits
  <2>1. \A j \in a .. m - 1 : j \in 0 .. Len(s) - 1
    BY <1>0, <1>4
  <2>. QED
    BY <1>1, <1>4, <2>1
<1>6. m = Len(s) \/ s[m + 1] \notin Digits
  <2>1. m # Len(s) => m \in 0 .. Len(s) - 1
    BY <1>0, <1>4
  <2>. QED
    BY <1>1, <1>4, <2>1
<1>. QED
  BY <1>3, <1>4, <1>5, <1>6 DEF DigitRun

\* Digits that begin with the run are part of it.
LEMMA DigitsAreInTheRun ==
  ASSUME NEW s \in Seq(STRING), NEW a \in Nat, NEW m, DigitRun(s, a, m)
  PROVE  /\ m \in Nat /\ a <= m /\ m <= Len(s)
         /\ a < m => DigitsIn(s, a, m) /\ s[a + 1] \in Digits
         /\ a = m => m = Len(s) \/ s[a + 1] \notin Digits
         /\ \A b \in a .. Len(s) : DigitsIn(s, a, b) =>
              a < m /\ b <= m /\ (b # m => s[b + 1] \in Digits)
<1>1. /\ m \in a .. Len(s) /\ m \in Nat /\ Len(s) \in Nat /\ a <= m /\ m <= Len(s)
      /\ \A j \in a .. m - 1 : s[j + 1] \in Digits
      /\ m = Len(s) \/ s[m + 1] \notin Digits
  BY DEF DigitRun
<1>2. ASSUME a < m PROVE DigitsIn(s, a, m) /\ s[a + 1] \in Digits
  <2>1. a \in a .. m - 1
    BY <1>1, <1>2
  <2>. QED
    BY <1>1, <1>2, <2>1 DEF DigitsIn
<1>3. ASSUME NEW b \in a .. Len(s), DigitsIn(s, a, b)
      PROVE  a < m /\ b <= m /\ (b # m => s[b + 1] \in Digits)
  <2>1. a < b /\ b \in Nat /\ \A j \in a .. b - 1 : s[j + 1] \in Digits
    BY <1>3 DEF DigitsIn
  <2>2. ~(m < b)
    <3>. SUFFICES ASSUME m < b PROVE FALSE
      OBVIOUS
    <3>1. m \in a .. b - 1 /\ m # Len(s)
      BY <1>1, <2>1
    <3>. QED
      BY <1>1, <2>1, <3>1
  <2>3. b # m => b \in a .. m - 1
    BY <1>1, <2>1, <2>2
  <2>. QED
    BY <1>1, <2>1, <2>2, <2>3
<1>. QED
  BY <1>1, <1>2, <1>3

\* The characters that separate the parts of a number are no digits.
LEMMA NotDigits ==
  /\ \A c \in {".", "e", "E", "+", "-"} : c \notin Digits
  /\ \A c \in {"e", "E"} : c # "." /\ c \notin {"+", "-"}
  BY DEF Digits

\* Where the parts of a number end when each goes on as far as it can: the digits before the
\* point, those after it, and those of the exponent.
PartsEnd(s, i, a, point, exp, start, end) ==
    /\ a = IF s[i + 1] = "-" THEN i + 1 ELSE i
    /\ DigitRun(s, a, point)
    /\ IF point < Len(s) /\ s[point + 1] = "."
       THEN DigitRun(s, point + 1, exp) ELSE exp = point
    /\ start = IF exp + 1 < Len(s) /\ s[exp + 2] \in {"+", "-"} THEN exp + 2 ELSE exp + 1
    /\ IF exp < Len(s) /\ s[exp + 1] \in {"e", "E"}
       THEN DigitRun(s, start, end) ELSE end = exp

LacksFraction(s, point, exp) == point < Len(s) /\ s[point + 1] = "." /\ exp = point + 1
LacksExponent(s, exp, start, end) == exp < Len(s) /\ s[exp + 1] \in {"e", "E"} /\ end = start

\* The parts follow each other and stay in the text.
LEMMA PartsAreOrdered ==
  ASSUME NEW s \in Seq(STRING), NEW i \in Nat, i < Len(s), NEW a, NEW point, NEW exp,
         NEW start, NEW end, PartsEnd(s, i, a, point, exp, start, end)
  PROVE  /\ a \in {i, i + 1} /\ a \in Nat /\ point \in Nat /\ exp \in Nat /\ start \in Nat
         /\ end \in Nat
         /\ a <= point /\ point <= exp /\ exp <= end /\ end <= Len(s)
         /\ start \in {exp + 1, exp + 2}
         /\ exp < Len(s) /\ s[exp + 1] \in {"e", "E"} => start <= end
         /\ point < Len(s) /\ s[point + 1] = "." => point < exp
<1>1. a \in {i, i + 1} /\ a \in Nat /\ Len(s) \in Nat
  BY DEF PartsEnd
<1>2. point \in Nat /\ a <= point /\ point <= Len(s)
  BY <1>1, DigitsAreInTheRun DEF PartsEnd
<1>3. exp \in Nat /\ point <= exp /\ exp <= Len(s)
      /\ (point < Len(s) /\ s[point + 1] = "." => point < exp)
  <2>1. CASE point < Len(s) /\ s[point + 1] = "."
    <3>1. DigitRun(s, point + 1, exp) /\ point + 1 \in Nat
      BY <1>2, <2>1 DEF PartsEnd
    <3>2. exp \in Nat /\ point + 1 <= exp /\ exp <= Len(s)
      BY <3>1, DigitsAreInTheRun
    <3>. QED
      BY <1>1, <1>2, <3>2
  <2>2. CASE ~(point < Len(s) /\ s[point + 1] = ".")
    <3>1. exp = point
      BY <2>2 DEF PartsEnd
    <3>. QED
      BY <1>1, <1>2, <2>2, <3>1
  <2>. QED
    BY <2>1, <2>2
<1>4. start \in {exp + 1, exp + 2} /\ start \in Nat
  BY <1>3 DEF PartsEnd
<1>5. end \in Nat /\ exp <= end /\ end <= Len(s)
      /\ (exp < Len(s) /\ s[exp + 1] \in {"e", "E"} => start <= end)
  <2>1. CASE exp < Len(s) /\ s[exp + 1] \in {"e", "E"}
    <3>1. DigitRun(s, start, end)
      BY <2>1 DEF PartsEnd
    <3>2. end \in Nat /\ start <= end /\ end <= Len(s)
      BY <1>4, <3>1, DigitsAreInTheRun
    <3>. QED
      BY <1>3, <1>4, <3>2
  <2>2. CASE ~(exp < Len(s) /\ s[exp + 1] \in {"e", "E"})
    <3>1. end = exp
      BY <2>2 DEF PartsEnd
    <3>. QED
      BY <1>1, <1>3, <2>2, <3>1
  <2>. QED
    BY <2>1, <2>2
<1>. QED
  BY <1>1, <1>2, <1>3, <1>4, <1>5

\* If all parts that are begun have digits, the number goes on up to the end.
LEMMA PartsMakeANumber ==
  ASSUME NEW s \in Seq(STRING), NEW i \in Nat, i < Len(s), NEW a, NEW point, NEW exp,
         NEW start, NEW end, PartsEnd(s, i, a, point, exp, start, end),
         a < point, ~LacksFraction(s, point, exp), ~LacksExponent(s, exp, start, end)
  PROVE  NumberIn(s, i, end)
<1>0. /\ a \in {i, i + 1} /\ a \in Nat /\ point \in Nat /\ exp \in Nat /\ start \in Nat
      /\ end \in Nat /\ Len(s) \in Nat
      /\ a <= point /\ point <= exp /\ exp <= end /\ end <= Len(s)
      /\ start \in {exp + 1, exp + 2}
      /\ exp < Len(s) /\ s[exp + 1] \in {"e", "E"} => start <= end
      /\ point < Len(s) /\ s[point + 1] = "." => point < exp
  <2>1. Len(s) \in Nat
    OBVIOUS
  <2>. QED
    BY <2>1, PartsAreOrdered
<1>1. IntegerIn(s, i, point)
  <2>1. DigitsIn(s, a, point)
    BY <1>0, DigitsAreInTheRun DEF PartsEnd
  <2>2. CASE s[i + 1] = "-"
    <3>1. a = i + 1 /\ i < point
      BY <1>0, <2>2 DEF PartsEnd
    <3>. QED
      BY <2>1, <2>2, <3>1 DEF IntegerIn
  <2>3. CASE s[i + 1] # "-"
    <3>1. a = i
      BY <2>3 DEF PartsEnd
    <3>. QED
      BY <2>1, <3>1 DEF IntegerIn
  <2>. QED
    BY <2>2, <2>3
<1>2. FractionIn(s, point, exp)
  <2>1. CASE point < Len(s) /\ s[point + 1] = "."
    <3>1. DigitRun(s, point + 1, exp) /\ point + 1 \in Nat /\ exp # point + 1
          /\ point + 1 <= exp
      BY <1>0, <2>1 DEF PartsEnd, LacksFraction
    <3>2. DigitsIn(s, point + 1, exp)
      <4>1. point + 1 < exp
        BY <1>0, <3>1
      <4>. QED
        BY <3>1, <4>1, DigitsAreInTheRun
    <3>3. point < exp
      BY <1>0, <2>1
    <3>. QED
      BY <2>1, <3>2, <3>3 DEF FractionIn
  <2>2. CASE ~(point < Len(s) /\ s[point + 1] = ".")
    BY <2>2 DEF PartsEnd, FractionIn
  <2>. QED
    BY <2>1, <2>2
<1>3. ExponentIn(s, exp, end)
  <2>1. CASE exp < Len(s) /\ s[exp + 1] \in {"e", "E"}
    <3>1. DigitRun(s, start, end) /\ start < end
      <4>1. DigitRun(s, start, end) /\ end # start
        BY <2>1 DEF PartsEnd, LacksExponent
      <4>. QED
        BY <1>0, <2>1, <4>1
    <3>2. DigitsIn(s, start, end)
      BY <1>0, <3>1, DigitsAreInTheRun
    <3>3. exp < end
      BY <1>0, <3>1
    <3>4. CASE exp + 1 < Len(s) /\ s[exp + 2] \in {"+", "-"}
      <4>1. start = exp + 2 /\ exp + 1 < end
        BY <1>0, <3>1, <3>4 DEF PartsEnd
      <4>. QED
        BY <2>1, <3>2, <3>3, <3>4, <4>1 DEF ExponentIn
    <3>5. CASE ~(exp + 1 < Len(s) /\ s[exp + 2] \in {"+", "-"})
      <4>1. start = exp + 1
        BY <3>5 DEF PartsEnd
      <4>. QED
        BY <2>1, <3>2, <3>3, <4>1 DEF ExponentIn
    <3>. QED
      BY <3>4, <3>5
  <2>2. CASE ~(exp < Len(s) /\ s[exp + 1] \in {"e", "E"})
    BY <2>2 DEF PartsEnd, ExponentIn
  <2>. QED
    BY <2>1, <2>2
<1>4. point \in i .. end /\ exp \in point .. end
  BY <1>0
<1>. QED
  BY <1>1, <1>2, <1>3, <1>4 DEF NumberIn

\* No number that begins at i goes on further, or past a part that lacks its digits.
LEMMA NumbersEndWithTheParts ==
  ASSUME NEW s \in Seq(STRING), NEW i \in Nat, i < Len(s), NEW a, NEW point, NEW exp,
         NEW start, NEW end, PartsEnd(s, i, a, point, exp, start, end),
         NEW e \in i .. Len(s), NumberIn(s, i, e)
  PROVE  /\ a < point /\ e <= end
         /\ LacksFraction(s, point, exp) => e <= point
         /\ LacksExponent(s, exp, start, end) => e <= exp
<1>0. /\ a \in {i, i + 1} /\ a \in Nat /\ point \in Nat /\ exp \in Nat /\ start \in Nat
      /\ end \in Nat /\ Len(s) \in Nat /\ e \in Nat /\ i <= e /\ e <= Len(s)
      /\ a <= point /\ point <= exp /\ exp <= end /\ end <= Len(s)
      /\ start \in {exp + 1, exp + 2}
      /\ exp < Len(s) /\ s[exp + 1] \in {"e", "E"} => start <= end
      /\ point < Len(s) /\ s[point + 1] = "." => point < exp
  <2>1. Len(s) \in Nat /\ e \in Nat /\ i <= e /\ e <= Len(s)
    OBVIOUS
  <2>. QED
    BY <2>1, PartsAreOrdered
<1>x. PICK x \in i .. e : \E y \in x .. e :
         IntegerIn(s, i, x) /\ FractionIn(s, x, y) /\ ExponentIn(s, y, e)
  BY DEF NumberIn
<1>1. PICK y \in x .. e : IntegerIn(s, i, x) /\ FractionIn(s, x, y) /\ ExponentIn(s, y, e)
  BY <1>x
<1>2. /\ x \in Nat /\ y \in Nat /\ i <= x /\ x <= y /\ y <= e /\ x <= Len(s) /\ y <= Len(s)
  BY <1>0, <1>1
\* the digits before the point
<1>3. DigitsIn(s, a, x) /\ x \in a .. Len(s)
  <2>1. CASE s[i + 1] = "-"
    <3>1. a = i + 1
      BY <2>1 DEF PartsEnd
    <3>2. ~DigitsIn(s, i, x)
      <4>1. DigitsIn(s, i, x) => i \in i .. x - 1 /\ \A j \in i .. x - 1 : s[j + 1] \in Digits
        BY <1>2 DEF DigitsIn
      <4>. QED
        BY <2>1, <4>1, NotDigits
    <3>3. i < x /\ DigitsIn(s, i + 1, x)
      BY <1>1, <3>2 DEF IntegerIn
    <3>. QED
      BY <1>0, <1>2, <3>1, <3>3
  <2>2. CASE s[i + 1] # "-"
    <3>1. a = i
      BY <2>2 DEF PartsEnd
    <3>2. DigitsIn(s, i, x)
      BY <1>1, <2>2 DEF IntegerIn
    <3>. QED
      BY <1>0, <1>2, <3>1, <3>2
  <2>. QED
    BY <2>1, <2>2
<1>4. a < point /\ x <= point /\ (x # point => s[x + 1] \in Digits)
  BY <1>0, <1>3, DigitsAreInTheRun DEF PartsEnd
<1>5. CASE x # point
  <2>1. s[x + 1] \in Digits
    BY <1>4, <1>5
  <2>2. y = x
    BY <1>1, <2>1, NotDigits DEF FractionIn
  <2>3. e = y
    BY <1>1, <2>1, <2>2, NotDigits DEF ExponentIn
  <2>. QED
    BY <1>0, <1>4, <2>2, <2>3
\* the exponent
<1>7. ASSUME y = exp, e # y
      PROVE  e <= end /\ ~LacksExponent(s, exp, start, end)
  <2>1. /\ exp < e /\ s[exp + 1] \in {"e", "E"}
        /\ \/ DigitsIn(s, exp + 1, e)
           \/ exp + 1 < e /\ s[exp + 2] \in {"+", "-"} /\ DigitsIn(s, exp + 2, e)
    BY <1>1, <1>7 DEF ExponentIn
  <2>2. exp < Len(s) /\ DigitRun(s, start, end)
    BY <1>0, <2>1 DEF PartsEnd
  <2>3. DigitsIn(s, start, e) /\ e \in start .. Len(s)
    <3>1. CASE exp + 1 < Len(s) /\ s[exp + 2] \in {"+", "-"}
      <4>1. start = exp + 2 /\ s[exp + 2] \notin Digits
        BY <3>1, NotDigits DEF PartsEnd
      <4>2. ~DigitsIn(s, exp + 1, e)
        <5>1. DigitsIn(s, exp + 1, e) =>
                exp + 1 \in exp + 1 .. e - 1 /\ \A j \in exp + 1 .. e - 1 : s[j + 1] \in Digits
          BY <1>0 DEF DigitsIn
        <5>2. (exp + 1) + 1 = exp + 2
          BY <1>0
        <5>. QED
          BY <4>1, <5>1, <5>2
      <4>. QED
        BY <1>0, <2>1, <4>1, <4>2
    <3>2. CASE ~(exp + 1 < Len(s) /\ s[exp + 2] \in {"+", "-"})
      <4>1. start = exp + 1
        BY <3>2 DEF PartsEnd
      <4>2. ~(exp + 1 < e /\ s[exp + 2] \in {"+", "-"})
        BY <1>0, <3>2
      <4>. QED
        BY <1>0, <2>1, <4>1, <4>2
    <3>. QED
      BY <3>1, <3>2
  <2>4. start < end /\ e <= end
    BY <1>0, <2>2, <2>3, DigitsAreInTheRun
  <2>. QED
    BY <1>0, <2>4 DEF LacksExponent
\* the digits after it
<1>6. CASE x = point /\ x # y
  <2>1. point < y /\ s[point + 1] = "." /\ DigitsIn(s, point + 1, y)
    BY <1>1, <1>6 DEF FractionIn
  <2>2. point < Len(s) /\ DigitRun(s, point + 1, exp) /\ point + 1 \in Nat
        /\ y \in point + 1 .. Len(s)
    BY <1>0, <1>2, <2>1 DEF PartsEnd
  <2>3. point + 1 < exp /\ y <= exp /\ (y # exp => s[y + 1] \in Digits)
    BY <2>1, <2>2, DigitsAreInTheRun
  <2>4. ~LacksFraction(s, point, exp)
    BY <1>0, <2>3 DEF LacksFraction
  <2>5. CASE y # exp
    <3>1. e = y
      BY <1>1, <2>3, <2>5, NotDigits DEF ExponentIn
    <3>. QED
      BY <1>0, <1>2, <1>4, <2>3, <2>4, <3>1
  <2>6. CASE y = exp /\ e = y
    BY <1>0, <1>4, <2>4, <2>6
  <2>. QED
    BY <1>7, <1>4, <2>3, <2>4, <2>5, <2>6
\* and neither
<1>8. CASE x = point /\ x = y
  <2>1. CASE e = y
    BY <1>0, <1>4, <1>8, <2>1
  <2>2. CASE e # y
    <3>1. y < e /\ s[point + 1] \in {"e", "E"}
      BY <1>1, <1>8, <2>2 DEF ExponentIn
    <3>2. s[point + 1] # "."
      BY <3>1, NotDigits
    <3>3. exp = point /\ ~LacksFraction(s, point, exp)
      BY <3>2 DEF PartsEnd, LacksFraction
    <3>. QED
      BY <1>4, <1>7, <1>8, <2>2, <3>3
  <2>. QED
    BY <2>1, <2>2
<1>. QED
  BY <1>5, <1>6, <1>8

\* A place holds a character of a set.
LEMMA HasIs ==
  ASSUME NEW s \in Seq(STRING), NEW j \in Nat, NEW C
  PROVE  Has(s, j, C) <=> j < Len(s) /\ s[j + 1] \in C
<1>1. Len(s) \in Nat
  OBVIOUS
<1>. QED
  BY <1>1 DEF Has, Where

\* How many digits there are is a number.
LEMMA DigitsFromIsANumber ==
  ASSUME NEW s \in Seq(STRING), NEW a \in 0 .. Len(s)
  PROVE  DigitsFrom(s, a) \in Nat
<1>1. a \in Nat /\ a <= Len(s)
  OBVIOUS
<1>. QED
  BY <1>1, WhereLeads DEF DigitsFrom

\* match_number goes as far as each part goes, and reports the first that lacks its digits.
LEMMA MatchNumberIs ==
  ASSUME NEW s \in Seq(STRING), NEW i \in Nat, i < Len(s)
  PROVE  \E a, point, exp, start, end :
           /\ PartsEnd(s, i, a, point, exp, start, end)
           /\ MatchNumber(s, i) =
                IF point = a THEN Unmatched(a - i)
                ELSE IF LacksFraction(s, point, exp) THEN Unmatched(point + 1 - i)
                ELSE IF LacksExponent(s, exp, start, end) THEN Unmatched(end - i)
                ELSE Matched("number", end - i)
<1>. DEFINE minus == IF Has(s, i, {"-"}) THEN 1 ELSE 0
            point == i + minus + DigitsFrom(s, i + minus)
            frac == IF Has(s, point, {"."}) THEN 1 + DigitsFrom(s, point + 1) ELSE 0
            exp == point + frac
            sign == IF Has(s, exp + 1, {"+", "-"}) THEN 1 ELSE 0
            tail == IF Has(s, exp, {"e", "E"})
                    THEN 1 + sign + DigitsFrom(s, exp + 1 + sign) ELSE 0
            a == i + minus
            start == exp + 1 + sign
            end == exp + tail
<1>0. MatchNumber(s, i) =
         IF point = i + minus THEN Unmatched(minus)
         ELSE IF frac = 1 THEN Unmatched(point + 1 - i)
         ELSE IF tail > 0 /\ tail = 1 + sign THEN Unmatched(exp + tail - i)
         ELSE Matched("number", exp + tail - i)
  BY DEF MatchNumber
<1>1. /\ Has(s, i, {"-"}) <=> s[i + 1] = "-"
      /\ minus \in {0, 1} /\ minus = IF s[i + 1] = "-" THEN 1 ELSE 0
  BY HasIs
<1>2. /\ a = IF s[i + 1] = "-" THEN i + 1 ELSE i
      /\ a \in Nat /\ i <= a /\ a <= Len(s) /\ a - i = minus
  BY <1>1
<1>3. point = a + DigitsFrom(s, a)
  OBVIOUS
<1>4. DigitRun(s, a, point)
  <2>. HIDE DEF a, point
  <2>1. a \in 0 .. Len(s)
    BY <1>2
  <2>. QED
    BY <1>3, <2>1, DigitsFromIsARun
<1>5. point \in Nat /\ a <= point /\ point <= Len(s)
  <2>. HIDE DEF a, point
  <2>. QED
    BY <1>2, <1>4, DigitsAreInTheRun
<1>6. Has(s, point, {"."}) <=> point < Len(s) /\ s[point + 1] = "."
  <2>. HIDE DEF point
  <2>. QED
    BY <1>5, HasIs
<1>7. frac = IF Has(s, point, {"."}) THEN 1 + DigitsFrom(s, point + 1) ELSE 0
  OBVIOUS
<1>8. exp = point + frac
  OBVIOUS
<1>9. sign = IF Has(s, exp + 1, {"+", "-"}) THEN 1 ELSE 0
  OBVIOUS
<1>10. tail = IF Has(s, exp, {"e", "E"}) THEN 1 + sign + DigitsFrom(s, exp + 1 + sign) ELSE 0
  OBVIOUS
<1>11. start = exp + 1 + sign /\ end = exp + tail
  OBVIOUS
<1>. HIDE DEF minus, a, point, frac, exp, sign, tail, start, end
<1>12. /\ exp \in Nat /\ point <= exp /\ exp <= Len(s) /\ frac \in Nat
       /\ IF point < Len(s) /\ s[point + 1] = "."
          THEN DigitRun(s, point + 1, exp) ELSE exp = point
  <2>1. CASE point < Len(s) /\ s[point + 1] = "."
    <3>1. frac = 1 + DigitsFrom(s, point + 1) /\ point + 1 \in 0 .. Len(s)
      BY <1>5, <1>6, <1>7, <2>1
    <3>2. DigitRun(s, point + 1, (point + 1) + DigitsFrom(s, point + 1))
      BY <3>1, DigitsFromIsARun
    <3>3. DigitsFrom(s, point + 1) \in Nat
      BY <3>1, DigitsFromIsANumber
    <3>4. exp = (point + 1) + DigitsFrom(s, point + 1) /\ frac \in Nat
      BY <1>5, <1>8, <3>1, <3>3
    <3>5. DigitRun(s, point + 1, exp)
      BY <3>2, <3>4
    <3>6. point + 1 \in Nat
      BY <1>5
    <3>7. exp \in Nat /\ point + 1 <= exp /\ exp <= Len(s)
      BY <3>5, <3>6, DigitsAreInTheRun
    <3>. QED
      BY <1>5, <2>1, <3>4, <3>5, <3>7
  <2>2. CASE ~(point < Len(s) /\ s[point + 1] = ".")
    <3>1. frac = 0 /\ exp = point
      BY <1>5, <1>6, <1>7, <1>8, <2>2
    <3>. QED
      BY <1>5, <2>2, <3>1
  <2>. QED
    BY <2>1, <2>2
<1>13. /\ Has(s, exp, {"e", "E"}) <=> exp < Len(s) /\ s[exp + 1] \in {"e", "E"}
       /\ Has(s, exp + 1, {"+", "-"}) <=> exp + 1 < Len(s) /\ s[exp + 2] \in {"+", "-"}
  <2>1. exp + 1 \in Nat /\ (exp + 1) + 1 = exp + 2
    BY <1>12
  <2>. QED
    BY <1>12, <2>1, HasIs
<1>14. /\ start = IF exp + 1 < Len(s) /\ s[exp + 2] \in {"+", "-"} THEN exp + 2 ELSE exp + 1
       /\ sign \in {0, 1}
  <2>1. CASE exp + 1 < Len(s) /\ s[exp + 2] \in {"+", "-"}
    <3>1. sign = 1
      BY <1>9, <1>13, <2>1
    <3>. QED
      BY <1>11, <1>12, <2>1, <3>1
  <2>2. CASE ~(exp + 1 < Len(s) /\ s[exp + 2] \in {"+", "-"})
    <3>1. sign = 0
      BY <1>9, <1>13, <2>2
    <3>. QED
      BY <1>11, <1>12, <2>2, <3>1
  <2>. QED
    BY <2>1, <2>2
<1>15. /\ tail \in Nat /\ (tail > 0 <=> Has(s, exp, {"e", "E"}))
       /\ IF exp < Len(s) /\ s[exp + 1] \in {"e", "E"}
          THEN DigitRun(s, start, end) ELSE end = exp
  <2>1. CASE exp < Len(s) /\ s[exp + 1] \in {"e", "E"}
    <3>1. /\ tail = 1 + sign + DigitsFrom(s, exp + 1 + sign)
          /\ Has(s, exp, {"e", "E"})
      BY <1>10, <1>13, <2>1
    <3>2. tail = 1 + sign + DigitsFrom(s, start)
      BY <1>11, <3>1
    <3>3. start \in 0 .. Len(s)
      BY <1>12, <1>14, <2>1
    <3>4. DigitRun(s, start, start + DigitsFrom(s, start))
      BY <3>3, DigitsFromIsARun
    <3>5. DigitsFrom(s, start) \in Nat
      BY <3>3, DigitsFromIsANumber
    <3>6. end = start + DigitsFrom(s, start)
      <4>. DEFINE d == DigitsFrom(s, start)
      <4>1. /\ exp \in Nat /\ sign \in Nat /\ d \in Nat
            /\ tail = 1 + sign + d /\ end = exp + tail /\ start = exp + 1 + sign
        BY <1>11, <1>12, <1>14, <3>2, <3>5
      <4>. HIDE DEF d
      <4>2. end = start + d
        BY <4>1
      <4>. QED
        BY <4>2 DEF d
    <3>7. tail \in Nat /\ tail > 0
      BY <1>14, <3>2, <3>5
    <3>. QED
      BY <2>1, <3>1, <3>4, <3>6, <3>7
  <2>2. CASE ~(exp < Len(s) /\ s[exp + 1] \in {"e", "E"})
    <3>1. ~Has(s, exp, {"e", "E"}) /\ tail = 0
      BY <1>10, <1>13, <2>2
    <3>2. end = exp
      BY <1>11, <1>12, <3>1
    <3>. QED
      BY <2>2, <3>1, <3>2
  <2>. QED
    BY <2>1, <2>2
<1>16. PartsEnd(s, i, a, point, exp, start, end)
  BY <1>2, <1>4, <1>12, <1>14, <1>15 DEF PartsEnd
<1>17. frac = 1 <=> LacksFraction(s, point, exp)
  <2>1. frac = 1 => Has(s, point, {"."})
    BY <1>7
  <2>2. frac = 1 <=> exp = point + 1
    BY <1>5, <1>8, <1>12
  <2>. QED
    BY <1>6, <2>1, <2>2 DEF LacksFraction
<1>18. tail > 0 /\ tail = 1 + sign <=> LacksExponent(s, exp, start, end)
  <2>1. tail = 1 + sign <=> end = start
    BY <1>11, <1>12, <1>14, <1>15
  <2>. QED
    BY <1>13, <1>15, <2>1 DEF LacksExponent
<1>19. exp + tail - i = end - i
  BY <1>11, <1>12, <1>15
<1>20. (point = i + minus <=> point = a) /\ minus = a - i
  <2>1. a = i + minus
    BY DEF a
  <2>. QED
    BY <1>2, <2>1
<1>21. MatchNumber(s, i) =
         IF point = a THEN Unmatched(a - i)
         ELSE IF LacksFraction(s, point, exp) THEN Unmatched(point + 1 - i)
         ELSE IF LacksExponent(s, exp, start, end) THEN Unmatched(end - i)
         ELSE Matched("number", end - i)
  BY <1>0, <1>17, <1>18, <1>19, <1>20
<1>. QED
  BY <1>16, <1>21

\* What a match says of the lexemes of kind k that begin where it begins and end at the
\* offsets L: it is the longest of them; and if it is an error there are none, but for
\* numbers that end before what makes it one.
Reads(m, i, n, k, L) ==
    /\ m.kind \in {"error", k} /\ m.length \in Nat
    /\ IF m.kind = "error"
       THEN \A e \in i .. n : e \in L => k = "number" /\ e < i + m.length
       ELSE i + m.length \in L /\ \A e \in i .. n : e > i + m.length => e \notin L

\* A matched number is the longest there is, and after one that goes wrong there is none.
LEMMA NumbersAreRead ==
  ASSUME NEW s \in Seq(STRING), NEW i \in Nat, i < Len(s)
  PROVE  Reads(MatchNumber(s, i), i, Len(s), "number",
               {e \in i .. Len(s) : IsNumber(Piece(s, i, e))})
<1>. DEFINE m == MatchNumber(s, i)
            L == {e \in i .. Len(s) : IsNumber(Piece(s, i, e))}
<1>1. \A e \in i .. Len(s) : e \in L <=> NumberIn(s, i, e)
  BY NumberOfPiece
<1>2. \E a, point, exp, start, end :
           /\ PartsEnd(s, i, a, point, exp, start, end)
           /\ m = IF point = a THEN Unmatched(a - i)
                  ELSE IF LacksFraction(s, point, exp) THEN Unmatched(point + 1 - i)
                  ELSE IF LacksExponent(s, exp, start, end) THEN Unmatched(end - i)
                  ELSE Matched("number", end - i)
  BY MatchNumberIs
<1>. HIDE DEF m, L
<1>3. PICK a, point, exp, start, end :
           /\ PartsEnd(s, i, a, point, exp, start, end)
           /\ m = IF point = a THEN Unmatched(a - i)
                  ELSE IF LacksFraction(s, point, exp) THEN Unmatched(point + 1 - i)
                  ELSE IF LacksExponent(s, exp, start, end) THEN Unmatched(end - i)
                  ELSE Matched("number", end - i)
  BY <1>2
<1>4. /\ a \in {i, i + 1} /\ a \in Nat /\ point \in Nat /\ exp \in Nat /\ start \in Nat
      /\ end \in Nat /\ Len(s) \in Nat
      /\ a <= point /\ point <= exp /\ exp <= end /\ end <= Len(s)
      /\ start \in {exp + 1, exp + 2}
  <2>1. Len(s) \in Nat
    OBVIOUS
  <2>. QED
    BY <1>3, <2>1, PartsAreOrdered
<1>5. ASSUME NEW e \in L, e \in i .. Len(s)
      PROVE  /\ e \in Nat /\ a < point /\ e <= end
             /\ LacksFraction(s, point, exp) => e <= point
             /\ LacksExponent(s, exp, start, end) => e <= exp
  <2>1. NumberIn(s, i, e)
    BY <1>1, <1>5
  <2>2. e \in Nat
    BY <1>4, <1>5
  <2>. QED
    BY <1>3, <1>5, <2>1, <2>2, NumbersEndWithTheParts
<1>6. \A n : /\ Unmatched(n).kind = "error" /\ Unmatched(n).length = n
             /\ Matched("number", n).kind = "number" /\ Matched("number", n).length = n
  BY DEF Matched, Unmatched
<1>7. CASE point = a
  <2>1. m.kind = "error" /\ m.length = a - i /\ m.length \in Nat
    BY <1>3, <1>4, <1>6, <1>7
  <2>2. \A e \in i .. Len(s) : e \notin L
    BY <1>4, <1>5, <1>7
  <2>. QED
    BY <2>1, <2>2 DEF Reads, m, L
<1>8. CASE point # a /\ LacksFraction(s, point, exp)
  <2>1. m.kind = "error" /\ m.length = point + 1 - i
    BY <1>3, <1>6, <1>8
  <2>2. m.length \in Nat /\ i + m.length = point + 1
    BY <1>4, <2>1
  <2>3. \A e \in i .. Len(s) : e \in L => e < i + m.length
    BY <1>4, <1>5, <1>8, <2>2
  <2>. QED
    BY <2>1, <2>2, <2>3 DEF Reads, m, L
<1>9. CASE point # a /\ ~LacksFraction(s, point, exp) /\ LacksExponent(s, exp, start, end)
  <2>1. m.kind = "error" /\ m.length = end - i
    BY <1>3, <1>6, <1>9
  <2>2. m.length \in Nat /\ i + m.length = end /\ end > exp
    BY <1>4, <1>9, <2>1 DEF LacksExponent
  <2>3. \A e \in i .. Len(s) : e \in L => e < i + m.length
    BY <1>4, <1>5, <1>9, <2>2
  <2>. QED
    BY <2>1, <2>2, <2>3 DEF Reads, m, L
<1>10. CASE point # a /\ ~LacksFraction(s, point, exp) /\ ~LacksExponent(s, exp, start, end)
  <2>1. m.kind = "number" /\ m.length = end - i
    BY <1>3, <1>6, <1>10
  <2>2. m.length \in Nat /\ i + m.length = end /\ a < point /\ end \in i .. Len(s)
    BY <1>4, <1>10, <2>1
  <2>3. end \in L
    BY <1>1, <1>3, <1>10, <2>2, PartsMakeANumber
  <2>4. \A e \in i .. Len(s) : e > i + m.length => e \notin L
    BY <1>4, <1>5, <2>2
  <2>. QED
    BY <2>1, <2>2, <2>3, <2>4 DEF Reads, m, L
<1>. QED
  BY <1>7, <1>8, <1>9, <1>10

-----------------------------------------------------------------------------
(* Literals and whitespace *)

\* The characters of a piece match those of a literal.
LEMMA LiteralsAreRead ==
  ASSUME NEW s \in Seq(STRING), NEW i \in Nat, i < Len(s), NEW k, k # "error",
         NEW S, NEW literal \in Seq(S)
  PROVE  Reads(MatchLiteral(s, i, k, literal), i, Len(s), k,
               {e \in i .. Len(s) : Piece(s, i, e) = literal})
<1>. DEFINE agrees == {j \in i .. Len(s) - 1 : j - i < Len(literal)
                                               /\ s[j + 1] = literal[j - i + 1]}
            r == i + Leading(agrees, i, Len(s))
            m == MatchLiteral(s, i, k, literal)
            L == {e \in i .. Len(s) : Piece(s, i, e) = literal}
<1>0. Len(s) \in Nat /\ Len(literal) \in Nat /\ i <= Len(s)
  OBVIOUS
<1>1. \A j : j \in agrees <=> /\ j \in i .. Len(s) - 1 /\ j - i < Len(literal)
                              /\ s[j + 1] = literal[j - i + 1]
  OBVIOUS
<1>2. m = IF Leading(agrees, i, Len(s)) = Len(literal) THEN Matched(k, Leading(agrees, i, Len(s)))
          ELSE Unmatched(Leading(agrees, i, Len(s)))
  BY DEF MatchLiteral
<1>3. RunEnds(agrees, i, Len(s), r)
  <2>. HIDE DEF agrees
  <2>. QED
    BY <1>0, LeadingIsARun
<1>. HIDE DEF agrees
<1>4. Leading(agrees, i, Len(s)) \in Nat
  BY <1>0, LeadingBounds
<1>5. r - i = Leading(agrees, i, Len(s)) /\ r \in Nat /\ i + (r - i) = r
  BY <1>4
<1>. HIDE DEF r
<1>6. r \in i .. Len(s) /\ (\A j \in i .. r - 1 : j \in agrees) /\ (r = Len(s) \/ r \notin agrees)
  BY <1>3 DEF RunEnds
<1>7. ASSUME NEW e \in i .. Len(s), Piece(s, i, e) = literal
      PROVE  e - i = Len(literal) /\ \A j \in i .. e - 1 : j \in agrees
  <2>. DEFINE p == Piece(s, i, e)
  <2>1. Len(p) = e - i /\ \A n \in 1 .. e - i : p[n] = s[i + n]
    BY PieceIs
  <2>. HIDE DEF p
  <2>2. e - i = Len(literal) /\ \A n \in 1 .. e - i : literal[n] = s[i + n]
    BY <1>7, <2>1 DEF p
  <2>3. ASSUME NEW j \in i .. e - 1 PROVE j \in agrees
    <3>1. j - i + 1 \in 1 .. e - i /\ i + (j - i + 1) = j + 1 /\ j \in i .. Len(s) - 1
          /\ j - i < e - i
      BY <1>0
    <3>2. literal[j - i + 1] = s[i + (j - i + 1)]
      BY <2>2, <3>1
    <3>. QED
      BY <1>1, <2>2, <3>1, <3>2
  <2>. QED
    BY <2>2, <2>3
<1>8. CASE r - i = Len(literal)
  <2>1. m = Matched(k, r - i)
    BY <1>2, <1>5, <1>8
  <2>2. m.kind = k /\ m.length = r - i /\ m.length \in Nat /\ i + m.length = r
    BY <1>4, <1>5, <2>1 DEF Matched
  <2>3. Piece(s, i, r) = literal
    <3>. DEFINE p == Piece(s, i, r)
    <3>1. p \in Seq(STRING) /\ Len(p) = r - i /\ \A n \in 1 .. r - i : p[n] = s[i + n]
      BY <1>6, PieceIs
    <3>2. ASSUME NEW n \in 1 .. r - i PROVE s[i + n] = literal[n]
      <4>. DEFINE j == i + n - 1
      <4>1. j \in i .. r - 1 /\ j + 1 = i + n /\ j - i + 1 = n
        BY <1>5
      <4>. HIDE DEF j
      <4>2. j \in agrees
        BY <1>6, <4>1
      <4>. QED
        BY <1>1, <4>1, <4>2
    <3>. HIDE DEF p
    <3>3. Len(p) = Len(literal) /\ \A n \in 1 .. Len(p) : p[n] = literal[n]
      BY <1>8, <3>1, <3>2
    <3>4. p \in Seq(STRING \cup S) /\ literal \in Seq(STRING \cup S)
      BY <3>1
    <3>5. p = literal
      BY <3>3, <3>4, SeqEqual
    <3>. QED
      BY <3>5 DEF p
  <2>4. r \in L
    BY <1>6, <2>3
  <2>5. \A e \in i .. Len(s) : e > r => e \notin L
    <3>1. \A e \in i .. Len(s) : e \in L => e - i = Len(literal)
      BY <1>7
    <3>. HIDE DEF L
    <3>. QED
      BY <1>5, <1>8, <3>1
  <2>. HIDE DEF L, m
  <2>. QED
    BY <2>2, <2>4, <2>5 DEF Reads, m, L
<1>9. CASE r - i # Len(literal)
  <2>1. m = Unmatched(r - i)
    BY <1>2, <1>5, <1>9
  <2>2. m.kind = "error" /\ m.length = r - i /\ m.length \in Nat /\ i + m.length = r
    BY <1>4, <1>5, <2>1 DEF Unmatched
  <2>3. \A e \in i .. Len(s) : e \notin L
    <3>. SUFFICES ASSUME NEW e \in i .. Len(s), Piece(s, i, e) = literal PROVE FALSE
      OBVIOUS
    <3>1. e - i = Len(literal) /\ \A j \in i .. e - 1 : j \in agrees
      BY <1>7
    <3>2. e # r
      BY <1>9, <3>1
    <3>3. CASE r < e
      <4>1. r \in i .. e - 1 /\ r # Len(s)
        BY <1>0, <1>6, <3>3
      <4>. QED
        BY <1>6, <3>1, <4>1
    <3>4. CASE e < r
      <4>1. e \in i .. r - 1
        BY <1>0, <1>6, <3>4
      <4>. QED
        BY <1>1, <1>6, <3>1, <4>1
    <3>. QED
      BY <1>5, <3>2, <3>3, <3>4
  <2>. HIDE DEF L, m
  <2>. QED
    BY <2>2, <2>3 DEF Reads, m, L
<1>. QED
  BY <1>8, <1>9

\* Whitespace goes on as far as it can.
LEMMA WhitespaceIsRead ==
  ASSUME NEW s \in Seq(STRING), NEW i \in Nat, i < Len(s), s[i + 1] \in Spaces
  PROVE  Reads(MatchWhitespace(s, i), i, Len(s), "whitespace",
               {e \in i .. Len(s) : Piece(s, i, e) # <<>> /\ AllIn(Piece(s, i, e), Spaces)})
<1>. DEFINE W == Where(s, Spaces)
            r == i + Leading(W, i, Len(s))
            m == MatchWhitespace(s, i)
            L == {e \in i .. Len(s) : Piece(s, i, e) # <<>> /\ AllIn(Piece(s, i, e), Spaces)}
<1>0. Len(s) \in Nat /\ i <= Len(s)
  OBVIOUS
<1>1. \A j \in 0 .. Len(s) - 1 : j \in W <=> s[j + 1] \in Spaces
  BY DEF Where
<1>2. m = Matched("whitespace", Leading(W, i, Len(s)))
  BY DEF MatchWhitespace
<1>3. RunEnds(W, i, Len(s), r) /\ Leading(W, i, Len(s)) \in Nat
  <2>. HIDE DEF W
  <2>. QED
    BY <1>0, LeadingIsARun, LeadingBounds
<1>. HIDE DEF W
<1>4. m.kind = "whitespace" /\ m.length \in Nat /\ i + m.length = r
  BY <1>2, <1>3 DEF Matched
<1>. HIDE DEF r
<1>5. r \in i .. Len(s) /\ (\A j \in i .. r - 1 : j \in W) /\ (r = Len(s) \/ r \notin W)
  BY <1>3 DEF RunEnds
<1>6. ASSUME NEW e \in i .. Len(s)
      PROVE  e \in L <=> i # e /\ \A j \in i .. e - 1 : j \in W
  <2>. DEFINE p == Piece(s, i, e)
  <2>1. /\ DOMAIN p = 1 .. e - i /\ (p = <<>> <=> i = e)
        /\ \A n \in 1 .. e - i : p[n] = s[i + n]
    BY PieceIs
  <2>. HIDE DEF p
  <2>2. e \in L <=> p # <<>> /\ \A n \in 1 .. e - i : p[n] \in Spaces
    BY <2>1 DEF AllIn, p
  <2>3. ASSUME \A n \in 1 .. e - i : p[n] \in Spaces, NEW j \in i .. e - 1 PROVE j \in W
    <3>1. j - i + 1 \in 1 .. e - i /\ i + (j - i + 1) = j + 1 /\ j \in 0 .. Len(s) - 1
      BY <1>0
    <3>2. p[j - i + 1] = s[i + (j - i + 1)] /\ p[j - i + 1] \in Spaces
      BY <2>1, <2>3, <3>1
    <3>. QED
      BY <1>1, <3>1, <3>2
  <2>4. ASSUME \A j \in i .. e - 1 : j \in W, NEW n \in 1 .. e - i PROVE p[n] \in Spaces
    <3>1. i + n - 1 \in i .. e - 1 /\ (i + n - 1) + 1 = i + n /\ i + n - 1 \in 0 .. Len(s) - 1
      BY <1>0
    <3>. QED
      BY <1>1, <2>1, <2>4, <3>1
  <2>. QED
    BY <2>1, <2>2, <2>3, <2>4
<1>7. i \in W
  BY <1>0, <1>1
<1>8. r # i
  BY <1>0, <1>5, <1>7
<1>9. r \in L
  BY <1>5, <1>6, <1>8
<1>10. ASSUME NEW e \in i .. Len(s), e > r PROVE e \notin L
  <2>1. r \in i .. e - 1 /\ r # Len(s)
    BY <1>0, <1>5, <1>10
  <2>. QED
    BY <1>5, <1>6, <2>1
<1>. HIDE DEF L, m
<1>. QED
  BY <1>4, <1>9, <1>10 DEF Reads, m, L

-----------------------------------------------------------------------------
(* Strings *)

\* The character that begins and ends a string.
Quote == "\""

\* A character of a string is the second one of an escape if a backslash that is not comes
\* before it.
LEMMA EscapesAlternate ==
  ASSUME NEW s \in Seq(STRING), NEW i \in Nat, i < Len(s)
  PROVE  /\ Escaped(s, i) \subseteq i + 2 .. Len(s)
         /\ \A j \in i + 2 .. Len(s) :
               j \in Escaped(s, i) <=> s[j] = "\\" /\ j - 1 \notin Escaped(s, i)
<1>. DEFINE D == i .. Len(s)
            At(g, j) == j > i + 1 /\ s[j] = "\\" /\ ~g[j - 1]
            rank == [j \in D |-> j]
            h == [p \in D \X [D -> BOOLEAN] |-> At(p[2], p[1])]
            Defines(g) == g = [j \in D |-> At(g, j)]
            escaped == CHOOSE g : Defines(g)
<1>0. Len(s) \in Nat /\ \A j \in D : j \in Nat /\ i <= j /\ j <= Len(s)
  OBVIOUS
<1>1. h \in [D \X [D -> BOOLEAN] -> BOOLEAN]
  OBVIOUS
<1>2. rank \in [D -> 0 .. Len(s)] /\ \A j \in D : rank[j] = j
  BY <1>0
<1>3. LooksBelow(D, BOOLEAN, rank, h)
  <2>1. SUFFICES ASSUME NEW j \in D, NEW f \in [D -> BOOLEAN], NEW g \in [D -> BOOLEAN],
                        \A k \in D : rank[k] < rank[j] => f[k] = g[k]
                 PROVE  h[<<j, f>>] = h[<<j, g>>]
    BY DEF LooksBelow
  <2>2. j > i + 1 => f[j - 1] = g[j - 1]
    <3>1. j > i + 1 => j - 1 \in D /\ j - 1 < j
      BY <1>0
    <3>. QED
      BY <1>2, <2>1, <3>1
  <2>3. At(f, j) = At(g, j)
    BY <2>2
  <2>. QED
    BY <2>3
<1>4. PICK f \in [D -> BOOLEAN] : Solves(f, D, h)
  <2>. HIDE DEF D, rank, h
  <2>. QED
    BY <1>0, <1>1, <1>2, <1>3, RecursionByRank
<1>5. Defines(f)
  <2>1. \A j \in D : h[<<j, f>>] = At(f, j)
    BY <1>1
  <2>2. \A j \in D : f[j] = At(f, j)
    BY <1>4, <2>1 DEF Solves
  <2>. HIDE DEF D, At, h
  <2>. QED
    BY <2>2
<1>6. Defines(escaped)
  <2>. HIDE DEF Defines
  <2>. QED
    BY <1>5
<1>7. Escaped(s, i) = {j \in i + 2 .. Len(s) : escaped[j]}
  BY DEF Escaped
<1>. HIDE DEF escaped
<1>8. \A j \in D : escaped[j] <=> At(escaped, j)
  BY <1>6
<1>. HIDE DEF Defines
<1>9. ASSUME NEW j \in i + 2 .. Len(s)
      PROVE  j \in Escaped(s, i) <=> s[j] = "\\" /\ j - 1 \notin Escaped(s, i)
  <2>1. j \in D /\ j - 1 \in D /\ j > i + 1 /\ (j - 1 \in i + 2 .. Len(s) <=> j - 1 > i + 1)
    BY <1>0
  <2>2. j \in Escaped(s, i) <=> s[j] = "\\" /\ ~escaped[j - 1]
    BY <1>7, <1>8, <2>1
  <2>3. j - 1 \in Escaped(s, i) <=> escaped[j - 1]
    BY <1>7, <1>8, <2>1
  <2>. QED
    BY <2>2, <2>3
<1>. QED
  BY <1>7, <1>9

\* Characters and escapes begin at the offsets i + k, for the k of begins, and the last of
\* them ends at i + n + 1.
BeginsIn(s, i, n, begins) ==
    /\ begins \in SUBSET (1 .. n + 1) /\ 1 \in begins
    /\ \A k \in begins :
          \/ k = n + 1
          \/ s[i + 1 + k] \notin {Quote, "\\"} /\ k + 1 \in begins
          \/ s[i + 1 + k] = "\\" /\ k + 2 \in begins

\* The characters that begin a plain character or an escape are those that are not escaped.
LEMMA UnescapedBegin ==
  ASSUME NEW s \in Seq(STRING), NEW i \in Nat, i < Len(s), NEW n \in Nat, i + n + 2 <= Len(s),
         NEW begins, BeginsIn(s, i, n, begins),
         NEW k \in 1 .. n + 1, i + k \notin Escaped(s, i)
  PROVE  k \in begins
<1>. DEFINE E == Escaped(s, i)
            T == {x \in 1 .. n + 1 : i + x \notin E /\ x \notin begins}
<1>0. /\ Len(s) \in Nat
      /\ \A j \in i + 2 .. Len(s) : j \in E <=> s[j] = "\\" /\ j - 1 \notin E
  BY EscapesAlternate
<1>00. E \subseteq i + 2 .. Len(s)
  BY EscapesAlternate
<1>. HIDE DEF E
<1>1. SUFFICES ASSUME T # {} PROVE FALSE
  <2>1. k \notin begins => k \in T
    BY DEF E
  <2>. QED
    BY <2>1
<1>2. PICK x \in T : \A y \in T : x <= y
  <2>1. T \in SUBSET Nat
    OBVIOUS
  <2>. HIDE DEF T
  <2>. QED
    BY <1>1, <2>1, LeastElement
<1>3. x \in 2 .. n + 1 /\ i + x \notin E /\ x \notin begins
  <2>1. 1 \in begins
    BY DEF BeginsIn
  <2>. QED
    BY <1>2, <2>1
<1>4. ASSUME NEW y \in 1 .. n + 1, y < x, i + y \notin E PROVE y \in begins
  BY <1>2, <1>4
<1>5. /\ x \in Nat /\ x - 1 \in 1 .. n + 1 /\ x - 1 < x /\ x - 1 # n + 1
      /\ i + (x - 1) = (i + x) - 1 /\ i + 1 + (x - 1) = i + x /\ (x - 1) + 1 = x
      /\ i + x \in i + 2 .. Len(s)
  BY <1>3
<1>6. CASE i + (x - 1) \in E
  <2>1. i + (x - 1) \in i + 2 .. Len(s)
    BY <1>00, <1>6
  <2>2. s[i + (x - 1)] = "\\" /\ (i + (x - 1)) - 1 \notin E
    BY <1>0, <1>6, <2>1
  <2>3. /\ x - 2 \in 1 .. n + 1 /\ x - 2 < x /\ x - 2 # n + 1
        /\ i + (x - 2) = (i + (x - 1)) - 1
        /\ i + 1 + (x - 2) = i + (x - 1) /\ (x - 2) + 2 = x
    BY <1>3, <2>1
  <2>4. x - 2 \in begins
    BY <1>4, <2>2, <2>3
  <2>5. s[i + 1 + (x - 2)] = "\\"
    BY <2>2, <2>3
  <2>6. (x - 2) + 2 \in begins
    BY <2>3, <2>4, <2>5 DEF BeginsIn
  <2>. QED
    BY <1>3, <2>3, <2>6
<1>7. CASE i + (x - 1) \notin E
  <2>1. x - 1 \in begins
    BY <1>4, <1>5, <1>7
  <2>2. s[i + x] # "\\"
    BY <1>0, <1>3, <1>5, <1>7
  <2>3. s[i + 1 + (x - 1)] # "\\"
    BY <1>5, <2>2
  <2>4. (x - 1) + 1 \in begins
    BY <1>5, <2>1, <2>3 DEF BeginsIn
  <2>. QED
    BY <1>3, <1>5, <2>4
<1>. QED
  BY <1>6, <1>7

\* What a piece that is a string looks like.
LEMMA StringOfPiece ==
  ASSUME NEW s \in Seq(STRING), NEW i \in Nat, i < Len(s), NEW e \in i .. Len(s)
  PROVE  IsString(Piece(s, i, e)) <=>
           /\ i + 1 < e /\ s[i + 1] = Quote /\ s[e] = Quote
           /\ \E begins : BeginsIn(s, i, e - i - 2, begins)
<1>. DEFINE p == Piece(s, i, e)
            q == SubSeq(p, 2, Len(p) - 1)
            n == e - i - 2
<1>0. Len(s) \in Nat /\ e \in Nat /\ i <= e /\ e <= Len(s)
  OBVIOUS
<1>1. p \in Seq(STRING) /\ Len(p) = e - i /\ \A k \in 1 .. e - i : p[k] = s[i + k]
  BY PieceIs
<1>2. Len(p) > 1 <=> i + 1 < e
  <2>. HIDE DEF p
  <2>. QED
    BY <1>0, <1>1
<1>. SUFFICES ASSUME i + 1 < e
              PROVE  IsString(p) <=>
                       /\ s[i + 1] = Quote /\ s[e] = Quote
                       /\ \E begins : BeginsIn(s, i, n, begins)
  BY <1>2, Zenon DEF IsString, Quote
<1>3. p[1] = s[i + 1] /\ p[Len(p)] = s[e]
  <2>1. 1 \in 1 .. e - i /\ e - i \in 1 .. e - i /\ i + (e - i) = e
    BY <1>0
  <2>. HIDE DEF p
  <2>. QED
    BY <1>1, <2>1
<1>4. n \in Nat /\ n + 1 = e - i - 1
  BY <1>0
<1>5. Len(q) = n /\ \A k \in 1 .. n : q[k] = s[i + 1 + k]
  <2>1. q = Piece(s, i + 1, e - 1)
    <3>1. 1 \in 0 .. e - i /\ e - i - 1 \in 1 .. e - i /\ i + (e - i - 1) = e - 1 /\ 1 + 1 = 2
      BY <1>0
    <3>2. SubSeq(p, 1 + 1, e - i - 1) = Piece(s, i + 1, i + (e - i - 1))
      <4>. DEFINE b == e - i - 1
      <4>. HIDE DEF b, p
      <4>1. b \in 1 .. e - i
        BY <3>1 DEF b
      <4>2. SubSeq(p, 1 + 1, b) = Piece(s, i + 1, i + b)
        BY <3>1, <4>1, PieceOfPiece DEF p
      <4>. QED
        BY <4>2 DEF b
    <3>. HIDE DEF p
    <3>. QED
      BY <1>1, <3>1, <3>2
  <2>. DEFINE a == i + 1
              b == e - 1
  <2>2. a \in Nat /\ b \in a .. Len(s) /\ b - a = n
    BY <1>0
  <2>. HIDE DEF a, b, n, q
  <2>3. Len(Piece(s, a, b)) = b - a /\ \A k \in 1 .. b - a : Piece(s, a, b)[k] = s[a + k]
    <3>1. a \in Nat /\ b \in a .. Len(s)
      BY <2>2
    <3>. QED
      BY <3>1, PieceHas
  <2>4. q = Piece(s, a, b)
    BY <2>1 DEF a, b
  <2>5. Len(q) = n /\ \A k \in 1 .. n : q[k] = s[a + k]
    BY <2>2, <2>3, <2>4
  <2>. QED
    BY <2>5 DEF a
<1>. HIDE DEF q, n
<1>6. IsString(p) <=> s[i + 1] = Quote /\ s[e] = Quote /\ IsBody(q)
  BY <1>2, <1>3, Zenon DEF IsString, q, Quote
<1>7. IsBody(q) <=>
        \E begins \in SUBSET (1 .. n + 1) :
           /\ 1 \in begins
           /\ \A k \in begins :
                 \/ k = n + 1
                 \/ q[k] \notin {Quote, "\\"} /\ k + 1 \in begins
                 \/ q[k] = "\\" /\ k + 2 \in begins
  BY <1>5, Zenon DEF IsBody, Quote
<1>8. IsBody(q) <=> \E begins : BeginsIn(s, i, n, begins)
  <2>1. \A begins \in SUBSET (1 .. n + 1) : \A k \in begins : k = n + 1 \/ q[k] = s[i + 1 + k]
    <3>1. \A k \in 1 .. n + 1 : k = n + 1 \/ k \in 1 .. n
      BY <1>4
    <3>. QED
      BY <1>5, <3>1
  <2>. QED
    BY <1>7, <2>1 DEF BeginsIn
<1>. QED
  BY <1>4, <1>6, <1>8

\* A string goes on up to the first quote that is not escaped.
LEMMA StringsAreRead ==
  ASSUME NEW s \in Seq(STRING), NEW i \in Nat, i < Len(s), s[i + 1] = Quote
  PROVE  Reads(MatchString(s, i), i, Len(s), "string",
               {e \in i .. Len(s) : IsString(Piece(s, i, e))})
<1>. DEFINE E == Escaped(s, i)
            quotes == Where(s, {Quote}) \ E
            others == (0 .. Len(s)) \ quotes
            body == Leading(others, i + 1, Len(s))
            r == i + 1 + body
            m == MatchString(s, i)
            L == {e \in i .. Len(s) : IsString(Piece(s, i, e))}
<1>0. Len(s) \in Nat /\ i + 1 \in Nat /\ i + 1 <= Len(s)
  OBVIOUS
<1>1. m = IF r < Len(s) THEN Matched("string", body + 2)
          ELSE IF Len(s) \in E THEN Unmatched(body)
          ELSE Unmatched(body + 1)
  BY Zenon DEF MatchString, Quote
<1>2. /\ E \subseteq i + 2 .. Len(s)
      /\ \A j \in i + 2 .. Len(s) : j \in E <=> s[j] = "\\" /\ j - 1 \notin E
  BY EscapesAlternate
<1>. HIDE DEF E
<1>3. \A j \in 0 .. Len(s) : j \notin others <=> j < Len(s) /\ s[j + 1] = Quote /\ j \notin E
  BY <1>0 DEF Where
<1>. HIDE DEF others
<1>4. body \in Nat /\ RunEnds(others, i + 1, Len(s), r)
  <2>1. RunEnds(others, i + 1, Len(s), (i + 1) + body)
    BY <1>0, LeadingIsARun
  <2>. QED
    BY <1>0, <2>1, LeadingBounds
<1>. HIDE DEF body
<1>5. r \in Nat /\ r = i + 1 + body
  BY <1>4
<1>. HIDE DEF r
<1>6. /\ r \in i + 1 .. Len(s)
      /\ \A j \in i + 1 .. r - 1 : j \in others
      /\ r = Len(s) \/ r \notin others
  BY <1>4 DEF RunEnds
\* a string ends with the first such quote
<1>7. ASSUME NEW e \in i .. Len(s), IsString(Piece(s, i, e))
      PROVE  e = r + 1 /\ r < Len(s)
  <2>1. /\ i + 1 < e /\ s[e] = Quote
        /\ \E begins : BeginsIn(s, i, e - i - 2, begins)
    BY <1>7, StringOfPiece
  <2>. DEFINE n == e - i - 2
  <2>2. /\ e \in Nat /\ n \in Nat /\ i + n + 2 = e /\ i + n + 2 <= Len(s)
        /\ i + (n + 1) = e - 1
    BY <1>0, <2>1
  <2>3. PICK begins : BeginsIn(s, i, n, begins)
    BY <2>1
  <2>. HIDE DEF n
  <2>4. ASSUME NEW k \in 1 .. n + 1, i + k \notin E PROVE k \in begins
    BY <2>2, <2>3, <2>4, UnescapedBegin DEF E
  <2>5. ASSUME NEW k \in 1 .. n, i + k \notin E
        PROVE  s[i + 1 + k] # Quote /\ (s[i + 1 + k] = "\\" => k + 2 \in 1 .. n + 1)
    <3>1. k \in 1 .. n + 1 /\ k # n + 1
      BY <2>2
    <3>2. k \in begins
      BY <2>4, <2>5, <3>1
    <3>3. /\ begins \in SUBSET (1 .. n + 1)
          /\ \/ s[i + 1 + k] \notin {Quote, "\\"}
             \/ s[i + 1 + k] = "\\" /\ k + 2 \in begins
      BY <3>1, <3>2, <2>3, Zenon DEF BeginsIn
    <3>4. "\\" # Quote
      BY Zenon DEF Quote
    <3>. QED
      BY <3>3, <3>4, Zenon
  <2>6. e - 1 \notin E
    <3>. SUFFICES ASSUME e - 1 \in E PROVE FALSE
      OBVIOUS
    <3>1. e - 1 \in i + 2 .. Len(s)
      BY <1>2
    <3>2. s[e - 1] = "\\" /\ (e - 1) - 1 \notin E
      BY <1>2, <3>1
    <3>3. n \in 1 .. n /\ i + n = (e - 1) - 1 /\ i + 1 + n = e - 1 /\ n + 2 \notin 1 .. n + 1
      BY <2>2, <3>1
    <3>. QED
      BY <2>5, <3>2, <3>3
  <2>7. e - 1 \notin others
    <3>1. e - 1 \in 0 .. Len(s) /\ e - 1 < Len(s) /\ (e - 1) + 1 = e
      BY <1>0, <2>1, <2>2
    <3>. QED
      BY <1>3, <2>1, <2>6, <3>1
  <2>8. ~(r > e - 1)
    <3>. SUFFICES ASSUME r > e - 1 PROVE FALSE
      OBVIOUS
    <3>1. e - 1 \in i + 1 .. r - 1
      BY <1>5, <2>1, <2>2
    <3>. QED
      BY <1>6, <2>7, <3>1
  <2>9. ~(r < e - 1)
    <3>. SUFFICES ASSUME r < e - 1 PROVE FALSE
      OBVIOUS
    <3>1. r # Len(s) /\ r \in 0 .. Len(s)
      BY <1>0, <1>5, <1>6, <2>2
    <3>2. s[r + 1] = Quote /\ r \notin E
      BY <1>3, <1>6, <3>1
    <3>3. r # i + 1 \/ n > 0
      BY <2>2
    <3>4. CASE r = i
      BY <1>6, <3>4, <1>0
    <3>5. CASE r # i
      <4>1. r - i \in 1 .. n /\ i + (r - i) = r /\ i + 1 + (r - i) = r + 1
        BY <1>5, <1>6, <2>2, <3>5
      <4>. QED
        BY <2>5, <3>2, <4>1
    <3>. QED
      BY <3>4, <3>5
  <2>. QED
    BY <1>5, <2>2, <2>8, <2>9
\* and that one does end it
<1>8. ASSUME r < Len(s) PROVE IsString(Piece(s, i, r + 1))
  <2>. DEFINE n == r - i - 1
              begins == {k \in 1 .. n + 1 : i + k \notin E}
  <2>1. /\ r + 1 \in i .. Len(s) /\ i + 1 < r + 1 /\ n \in Nat /\ (r + 1) - i - 2 = n
        /\ i + (n + 1) = r /\ r \in 0 .. Len(s) /\ r # Len(s)
    BY <1>0, <1>5, <1>6, <1>8
  <2>2. s[r + 1] = Quote /\ r \notin E
    BY <1>3, <1>6, <2>1
  <2>. HIDE DEF n
  <2>3. 1 \in begins
    <3>1. i + 1 \notin E
      BY <1>0, <1>2
    <3>. QED
      BY <2>1, <3>1
  <2>4. ASSUME NEW k \in begins, k # n + 1
        PROVE  \/ s[i + 1 + k] \notin {Quote, "\\"} /\ k + 1 \in begins
               \/ s[i + 1 + k] = "\\" /\ k + 2 \in begins
    <3>0. k \in 1 .. n /\ i + k \notin E /\ k \in Nat
      BY <2>1, <2>4
    <3>. HIDE DEF begins
    <3>1. /\ k \in 1 .. n /\ i + k \notin E /\ k \in Nat
          /\ i + k \in i + 1 .. r - 1 /\ i + k < Len(s) /\ i + k \in 0 .. Len(s)
          /\ i + (k + 1) = i + 1 + k /\ (i + k) + 1 = i + 1 + k
          /\ (i + (k + 1)) - 1 = i + k /\ (i + (k + 2)) - 1 = i + (k + 1)
          /\ i + (k + 1) \in i + 2 .. Len(s) /\ k + 1 \in 1 .. n + 1
      <4>1. /\ k + 1 <= n + 1 /\ k >= 1 /\ i + k <= r - 1 /\ r \in Nat /\ Len(s) \in Nat
        BY <1>0, <1>5, <2>1, <3>0
      <4>2. /\ i + (k + 1) = i + 1 + k /\ (i + k) + 1 = i + 1 + k
            /\ (i + (k + 1)) - 1 = i + k /\ (i + (k + 2)) - 1 = i + (k + 1)
        BY <3>0
      <4>3. /\ i + k \in i + 1 .. r - 1 /\ i + k < Len(s) /\ i + k \in 0 .. Len(s)
            /\ i + (k + 1) \in i + 2 .. Len(s) /\ k + 1 \in 1 .. n + 1
        BY <1>8, <2>1, <3>0, <4>1
      <4>. QED
        BY <3>0, <4>2, <4>3
    <3>2. s[i + 1 + k] # Quote
      BY <1>3, <1>6, <3>1
    <3>3. i + (k + 1) \in E <=> s[i + 1 + k] = "\\"
      BY <1>2, <3>1
    <3>4. CASE s[i + 1 + k] = "\\"
      <4>1. i + (k + 1) \in E
        BY <3>3, <3>4
      <4>2. i + (k + 2) \notin E
        <5>. SUFFICES ASSUME i + (k + 2) \in E PROVE FALSE
          OBVIOUS
        <5>1. i + (k + 2) \in i + 2 .. Len(s)
          BY <1>2
        <5>2. (i + (k + 2)) - 1 \notin E
          BY <1>2, <5>1
        <5>. QED
          BY <3>1, <4>1, <5>2
      <4>3. k # n
        BY <2>1, <2>2, <4>1
      <4>4. k + 2 \in 1 .. n + 1
        BY <2>1, <3>1, <4>3
      <4>. QED
        BY <3>4, <4>2, <4>4 DEF begins
    <3>5. CASE s[i + 1 + k] # "\\"
      BY <3>1, <3>2, <3>3, <3>5 DEF begins
    <3>. QED
      BY <3>4, <3>5
  <2>5. begins \in SUBSET (1 .. n + 1)
    OBVIOUS
  <2>. HIDE DEF begins
  <2>6. BeginsIn(s, i, n, begins)
    BY <2>3, <2>4, <2>5 DEF BeginsIn
  <2>. DEFINE e == r + 1
  <2>7. e \in i .. Len(s) /\ i + 1 < e /\ s[e] = Quote /\ e - i - 2 = n
    BY <2>1, <2>2
  <2>. HIDE DEF e
  <2>8. IsString(Piece(s, i, e))
    BY <2>6, <2>7, StringOfPiece
  <2>. QED
    BY <2>8 DEF e
<1>9. \A k : Unmatched(k).kind = "error" /\ Unmatched(k).length = k
             /\ Matched("string", k).kind = "string" /\ Matched("string", k).length = k
  BY DEF Matched, Unmatched
<1>10. CASE r < Len(s)
  <2>1. m.kind = "string" /\ m.length = body + 2
    BY <1>1, <1>9, <1>10
  <2>2. m.length \in Nat /\ i + m.length = r + 1 /\ r + 1 \in i .. Len(s)
    BY <1>0, <1>4, <1>5, <1>10, <2>1
  <2>3. r + 1 \in L
    BY <1>8, <1>10, <2>2
  <2>4. \A e \in i .. Len(s) : e > r + 1 => e \notin L
    <3>1. \A e \in i .. Len(s) : e \in L => e = r + 1
      BY <1>7
    <3>. HIDE DEF L
    <3>. QED
      BY <1>5, <3>1
  <2>. HIDE DEF L, m
  <2>. QED
    BY <2>1, <2>2, <2>3, <2>4 DEF Reads, m, L
<1>11. CASE ~(r < Len(s))
  <2>1. m.kind = "error" /\ m.length \in Nat
    <3>1. body + 1 \in Nat
      BY <1>4
    <3>. QED
      BY <1>1, <1>4, <1>9, <1>11, <3>1
  <2>2. \A e \in i .. Len(s) : e \notin L
    BY <1>7, <1>11
  <2>. HIDE DEF L, m
  <2>. QED
    BY <2>1, <2>2 DEF Reads, m, L
<1>. QED
  BY <1>10, <1>11

-----------------------------------------------------------------------------
(* Comments *)

\* Where a comment that begins at i may end.
EndsOf(s, i) == {j \in i + 3 .. Len(s) - 1 : s[j] = "*" /\ s[j + 1] = "/"}

\* What a piece that is a comment looks like.
LEMMA CommentOfPiece ==
  ASSUME NEW s \in Seq(STRING), NEW i \in Nat, i < Len(s), NEW e \in i .. Len(s)
  PROVE  IsComment(Piece(s, i, e)) <=>
           /\ i + 3 < e /\ s[i + 1] = "/" /\ s[i + 2] = "*"
           /\ e - 1 \in EndsOf(s, i) /\ \A j \in i + 3 .. e - 2 : j \notin EndsOf(s, i)
<1>. DEFINE p == Piece(s, i, e)
            At(k) == p[k] = "*" /\ p[k + 1] = "/"
<1>0. Len(s) \in Nat /\ e \in Nat /\ i <= e /\ e <= Len(s)
  OBVIOUS
<1>1. p \in Seq(STRING) /\ Len(p) = e - i /\ \A k \in 1 .. e - i : p[k] = s[i + k]
  BY PieceIs
<1>2. IsComment(p) <=> /\ Len(p) > 3 /\ p[1] = "/" /\ p[2] = "*" /\ At(Len(p) - 1)
                       /\ \A k \in 3 .. Len(p) - 2 : ~At(k)
  BY DEF IsComment
<1>. HIDE DEF p
<1>3. Len(p) > 3 <=> i + 3 < e
  BY <1>0, <1>1
<1>4. SUFFICES ASSUME i + 3 < e
      PROVE  p[1] = "/" /\ p[2] = "*" /\ At(Len(p) - 1) /\ (\A k \in 3 .. Len(p) - 2 : ~At(k))
             <=> /\ s[i + 1] = "/" /\ s[i + 2] = "*"
                 /\ e - 1 \in EndsOf(s, i) /\ \A j \in i + 3 .. e - 2 : j \notin EndsOf(s, i)
  BY <1>2, <1>3 DEF p
<1>5. p[1] = s[i + 1] /\ p[2] = s[i + 2]
  BY <1>0, <1>1, <1>4
<1>6. ASSUME NEW k \in 3 .. e - i - 1 PROVE At(k) <=> i + k \in EndsOf(s, i)
  <2>1. /\ k \in 1 .. e - i /\ k + 1 \in 1 .. e - i /\ i + (k + 1) = (i + k) + 1
        /\ i + k \in i + 3 .. Len(s) - 1
    BY <1>0
  <2>2. p[k] = s[i + k] /\ p[k + 1] = s[(i + k) + 1]
    BY <1>1, <2>1
  <2>3. i + k \in EndsOf(s, i) <=> s[i + k] = "*" /\ s[(i + k) + 1] = "/"
    BY <2>1 DEF EndsOf
  <2>. QED
    BY <2>2, <2>3
<1>. HIDE DEF At
<1>7. At(Len(p) - 1) <=> e - 1 \in EndsOf(s, i)
  <2>1. Len(p) - 1 = e - i - 1 /\ e - i - 1 \in 3 .. e - i - 1 /\ i + (e - i - 1) = e - 1
    BY <1>0, <1>1, <1>4
  <2>. QED
    BY <1>6, <2>1
<1>8. (\A k \in 3 .. Len(p) - 2 : ~At(k)) <=> \A j \in i + 3 .. e - 2 : j \notin EndsOf(s, i)
  <2>1. ASSUME \A k \in 3 .. Len(p) - 2 : ~At(k), NEW j \in i + 3 .. e - 2
        PROVE  j \notin EndsOf(s, i)
    <3>1. j - i \in 3 .. Len(p) - 2 /\ j - i \in 3 .. e - i - 1 /\ i + (j - i) = j
      BY <1>0, <1>1
    <3>. QED
      BY <1>6, <2>1, <3>1
  <2>2. ASSUME \A j \in i + 3 .. e - 2 : j \notin EndsOf(s, i), NEW k \in 3 .. Len(p) - 2
        PROVE  ~At(k)
    <3>1. i + k \in i + 3 .. e - 2 /\ k \in 3 .. e - i - 1
      BY <1>0, <1>1
    <3>. QED
      BY <1>6, <2>2, <3>1
  <2>. QED
    BY <2>1, <2>2
<1>. QED
  BY <1>5, <1>7, <1>8

\* A comment goes on up to the first place where it may end.
LEMMA CommentsAreRead ==
  ASSUME NEW s \in Seq(STRING), NEW i \in Nat, i < Len(s), s[i + 1] = "/"
  PROVE  Reads(MatchComment(s, i), i, Len(s), "comment",
               {e \in i .. Len(s) : IsComment(Piece(s, i, e))})
<1>. DEFINE ends == EndsOf(s, i)
            others == (0 .. Len(s)) \ ends
            body == Leading(others, i + 2, Len(s))
            r == i + 2 + body
            m == MatchComment(s, i)
            L == {e \in i .. Len(s) : IsComment(Piece(s, i, e))}
<1>0. Len(s) \in Nat
  OBVIOUS
<1>1. m = IF ~Has(s, i + 1, {"*"}) THEN Unmatched(1)
          ELSE IF r < Len(s) THEN Matched("comment", body + 3)
          ELSE Unmatched(body + 2)
  BY DEF MatchComment, EndsOf
<1>2. Has(s, i + 1, {"*"}) <=> i + 1 < Len(s) /\ s[i + 2] = "*"
  <2>1. i + 1 \in Nat /\ (i + 1) + 1 = i + 2
    OBVIOUS
  <2>2. Has(s, i + 1, {"*"}) <=> i + 1 < Len(s) /\ s[(i + 1) + 1] \in {"*"}
    BY <2>1, HasIs
  <2>. QED
    BY <2>1, <2>2
<1>3. /\ ends \subseteq i + 3 .. Len(s) - 1
      /\ \A j \in 0 .. Len(s) : j \notin others <=> j \in ends
  BY DEF EndsOf
<1>4. \A e \in i .. Len(s) : e \in L <=>
           /\ i + 3 < e /\ s[i + 1] = "/" /\ s[i + 2] = "*"
           /\ e - 1 \in ends /\ \A j \in i + 3 .. e - 2 : j \notin ends
  BY CommentOfPiece
<1>. HIDE DEF ends, others, L, m
<1>5. \A k : /\ Unmatched(k).kind = "error" /\ Unmatched(k).length = k
             /\ Matched("comment", k).kind = "comment" /\ Matched("comment", k).length = k
  BY DEF Matched, Unmatched
<1>6. CASE ~(i + 1 < Len(s) /\ s[i + 2] = "*")
  <2>1. m.kind = "error" /\ m.length = 1
    BY <1>1, <1>2, <1>5, <1>6
  <2>2. \A e \in i .. Len(s) : e \notin L
    <3>1. \A e \in i .. Len(s) : e \in L => i + 3 < e /\ s[i + 2] = "*"
      BY <1>4
    <3>2. \A e \in i .. Len(s) : i + 3 < e => i + 1 < Len(s)
      BY <1>0
    <3>. QED
      BY <1>6, <3>1, <3>2
  <2>. QED
    BY <2>1, <2>2 DEF Reads, m, L
<1>7. CASE i + 1 < Len(s) /\ s[i + 2] = "*"
  <2>1. i + 2 \in Nat /\ i + 2 <= Len(s)
    BY <1>0, <1>7
  <2>2. body \in Nat /\ RunEnds(others, i + 2, Len(s), r)
    <3>1. RunEnds(others, i + 2, Len(s), (i + 2) + body)
      BY <1>0, <2>1, LeadingIsARun
    <3>. QED
      BY <1>0, <2>1, <3>1, LeadingBounds
  <2>. HIDE DEF body
  <2>3. r \in Nat /\ r = i + 2 + body
    BY <2>2
  <2>. HIDE DEF r
  <2>4. /\ r \in i + 2 .. Len(s)
        /\ \A j \in i + 2 .. r - 1 : j \in others
        /\ r = Len(s) \/ r \notin others
    BY <2>2 DEF RunEnds
  <2>5. ASSUME NEW e \in i .. Len(s), e \in L PROVE e = r + 1 /\ r < Len(s)
    <3>1. i + 3 < e /\ e - 1 \in ends /\ \A j \in i + 3 .. e - 2 : j \notin ends
      BY <1>4, <2>5
    <3>2. e \in Nat /\ e - 1 \in 0 .. Len(s) /\ e - 1 < Len(s) /\ e <= Len(s)
      BY <1>0, <3>1
    <3>3. e - 1 \notin others
      BY <1>3, <3>1, <3>2
    <3>4. ~(r > e - 1)
      <4>. SUFFICES ASSUME r > e - 1 PROVE FALSE
        OBVIOUS
      <4>1. e - 1 \in i + 2 .. r - 1
        BY <2>3, <3>1, <3>2
      <4>. QED
        BY <2>4, <3>3, <4>1
    <3>5. ~(r < e - 1)
      <4>. SUFFICES ASSUME r < e - 1 PROVE FALSE
        OBVIOUS
      <4>1. r # Len(s) /\ r \in 0 .. Len(s)
        BY <1>0, <2>3, <2>4, <3>2
      <4>2. r \in ends
        BY <1>3, <2>4, <4>1
      <4>3. r \in i + 3 .. e - 2
        BY <1>3, <2>3, <3>2, <4>2
      <4>. QED
        BY <3>1, <4>2, <4>3
    <3>. QED
      BY <2>3, <3>2, <3>4, <3>5
  <2>6. CASE r < Len(s)
    <3>1. m.kind = "comment" /\ m.length = body + 3
      BY <1>1, <1>2, <1>5, <1>7, <2>6
    <3>2. m.length \in Nat /\ i + m.length = r + 1 /\ r + 1 \in i .. Len(s)
      BY <1>0, <2>2, <2>3, <2>6, <3>1
    <3>3. r \in ends
      <4>1. r \in 0 .. Len(s) /\ r # Len(s)
        BY <1>0, <2>3, <2>6
      <4>. QED
        BY <1>3, <2>4, <4>1
    <3>4. \A j \in i + 3 .. r - 1 : j \notin ends
      <4>1. \A j \in i + 3 .. r - 1 : j \in i + 2 .. r - 1 /\ j \in 0 .. Len(s)
        BY <1>0, <2>3, <2>4
      <4>. QED
        BY <1>3, <2>4, <4>1
    <3>5. r + 1 \in L
      <4>1. i + 3 < r + 1 /\ (r + 1) - 1 = r /\ (r + 1) - 2 = r - 1
        BY <1>3, <2>3, <3>3
      <4>. QED
        BY <1>4, <1>7, <3>2, <3>3, <3>4, <4>1
    <3>6. \A e \in i .. Len(s) : e > r + 1 => e \notin L
      <4>1. \A e \in i .. Len(s) : e \in L => e = r + 1
        BY <2>5
      <4>. QED
        BY <2>3, <4>1
    <3>. QED
      BY <3>1, <3>2, <3>5, <3>6 DEF Reads, m, L
  <2>7. CASE ~(r < Len(s))
    <3>1. m.kind = "error" /\ m.length \in Nat
      BY <1>1, <1>2, <1>5, <1>7, <2>2, <2>7
    <3>2. \A e \in i .. Len(s) : e \notin L
      BY <2>5, <2>7
    <3>. QED
      BY <3>1, <3>2 DEF Reads, m, L
  <2>. QED
    BY <2>6, <2>7
<1>. QED
  BY <1>6, <1>7

-----------------------------------------------------------------------------
(* The first character of a lexeme decides its kind, as it decides the pattern. *)

\* What each kind of lexeme begins with.
LEMMA Beginnings ==
  ASSUME NEW p \in Seq(STRING), p # <<>>
  PROVE  /\ p \in {<<c>> : c \in Structural} <=> Len(p) = 1 /\ p[1] \in Structural
         /\ p = Literals["t"] => p[1] = "t"
         /\ p = Literals["f"] => p[1] = "f"
         /\ p = Literals["n"] => p[1] = "n"
         /\ AllIn(p, Spaces) => p[1] \in Spaces
         /\ IsNumber(p) => p[1] \in Digits \cup {"-"}
         /\ IsString(p) => p[1] = Quote
         /\ IsComment(p) => p[1] = "/"
<1>0. Len(p) \in Nat /\ Len(p) > 0 /\ 1 \in DOMAIN p /\ DOMAIN p = 1 .. Len(p)
  <2>1. Len(p) \in Nat /\ Len(p) # 0
    BY EmptySeq
  <2>. QED
    BY <2>1
<1>1. p \in {<<c>> : c \in Structural} <=> Len(p) = 1 /\ p[1] \in Structural
  <2>1. ASSUME NEW c \in Structural, p = <<c>> PROVE Len(p) = 1 /\ p[1] \in Structural
    BY <2>1
  <2>2. ASSUME Len(p) = 1, p[1] \in Structural PROVE p \in {<<c>> : c \in Structural}
    <3>1. p = <<p[1]>>
      BY <1>0, <2>2
    <3>. QED
      BY <2>2, <3>1
  <2>. QED
    BY <2>1, <2>2
<1>2. /\ p = Literals["t"] => p[1] = "t"
      /\ p = Literals["f"] => p[1] = "f"
      /\ p = Literals["n"] => p[1] = "n"
  BY DEF Literals
<1>3. AllIn(p, Spaces) => p[1] \in Spaces
  BY <1>0 DEF AllIn
<1>4. IsNumber(p) => p[1] \in Digits \cup {"-"}
  <2>1. Piece(p, 0, Len(p)) = p
    <3>. DEFINE q == Piece(p, 0, Len(p))
    <3>1. q \in Seq(STRING) /\ Len(q) = Len(p) - 0 /\ \A k \in 1 .. Len(p) - 0 : q[k] = p[0 + k]
      <4>. DEFINE e == Len(p)
                  a == 0
      <4>1. a \in Nat /\ e \in a .. Len(p)
        BY <1>0
      <4>. HIDE DEF a, e, q
      <4>2. /\ Piece(p, a, e) \in Seq(STRING) /\ Len(Piece(p, a, e)) = e - a
            /\ \A k \in 1 .. e - a : Piece(p, a, e)[k] = p[a + k]
        BY <4>1, PieceIs
      <4>. QED
        BY <4>2 DEF a, e, q
    <3>. HIDE DEF q
    <3>2. Len(q) = Len(p) /\ \A k \in 1 .. Len(q) : q[k] = p[k]
      BY <1>0, <3>1
    <3>3. q = p
      BY <3>1, <3>2, SeqEqual
    <3>. QED
      BY <3>3 DEF q
  <2>2. IsNumber(p) => NumberIn(p, 0, Len(p))
    <3>1. Len(p) \in 0 .. Len(p)
      BY <1>0
    <3>2. IsNumber(Piece(p, 0, Len(p))) <=> NumberIn(p, 0, Len(p))
      BY <3>1, NumberOfPiece
    <3>. QED
      BY <2>1, <3>2
  <2>3. ASSUME NEW x \in 0 .. Len(p), IntegerIn(p, 0, x) PROVE p[1] \in Digits \cup {"-"}
    <3>1. CASE DigitsIn(p, 0, x)
      <4>1. 0 \in 0 .. x - 1
        BY <3>1 DEF DigitsIn
      <4>2. p[0 + 1] \in Digits
        BY <3>1, <4>1 DEF DigitsIn
      <4>. QED
        BY <4>2
    <3>2. CASE p[0 + 1] = "-"
      BY <3>2
    <3>. QED
      BY <2>3, <3>1, <3>2 DEF IntegerIn
  <2>. QED
    BY <2>2, <2>3 DEF NumberIn
<1>5. IsString(p) => p[1] = Quote
  BY Zenon DEF IsString, Quote
<1>6. IsComment(p) => p[1] = "/"
  BY DEF IsComment
<1>. QED
  BY <1>1, <1>2, <1>3, <1>4, <1>5, <1>6

\* The kinds of characters a lexeme may begin with have nothing in common.
LEMMA FirstsDiffer ==
  /\ \A c \in Structural : /\ c \notin {"t", "f", "n", "/", "-"} /\ c # Quote
                           /\ c \notin Digits /\ c \notin Spaces
  /\ \A c \in Digits \cup {"-"} : /\ c \notin {"t", "f", "n", "/"} /\ c # Quote
                                  /\ c \notin Spaces
  /\ \A c \in Spaces : c \notin {"t", "f", "n", "/"} /\ c # Quote
  /\ Quote \notin {"t", "f", "n", "/"}
  BY Zenon DEF Structural, Digits, Spaces, Quote

\* Nothing is no lexeme.
LEMMA EmptyIsNoLexeme ==
  /\ ~IsNumber(<<>>) /\ ~IsString(<<>>) /\ ~IsComment(<<>>)
  /\ LexemeKind(<<>>) = "none"
<1>1. ~IsString(<<>>) /\ ~IsComment(<<>>)
  BY DEF IsString, IsComment
<1>2. ~IsNumber(<<>>)
  <2>1. /\ <<>> \in Seq(STRING) /\ Len(<<>>) = 0 /\ 0 \in 0 .. 0
        /\ Piece(<<>>, 0, 0) = <<>>
    <3>1. <<>> \in Seq(STRING) /\ Len(<<>>) = 0
      OBVIOUS
    <3>2. Piece(<<>>, 0, 0) = <<>>
      BY DEF Piece
    <3>. QED
      BY <3>1, <3>2
  <2>2. ~NumberIn(<<>>, 0, 0)
    BY DEF NumberIn, IntegerIn, DigitsIn
  <2>3. 0 \in 0 .. Len(<<>>)
    BY <2>1
  <2>4. IsNumber(Piece(<<>>, 0, 0)) <=> NumberIn(<<>>, 0, 0)
    BY <2>1, <2>3, NumberOfPiece
  <2>. QED
    BY <2>1, <2>2, <2>4
<1>3. <<>> \notin {<<c>> : c \in Structural}
  OBVIOUS
<1>4. <<>> \notin {Literals["t"], Literals["f"]} /\ <<>> # Literals["n"]
  BY DEF Literals
<1>. QED
  BY <1>1, <1>2, <1>3, <1>4 DEF LexemeKind

\* The kind of a lexeme, by its first character.
LEMMA KindByFirst ==
  ASSUME NEW p \in Seq(STRING), p # <<>>
  PROVE  /\ p[1] \in Structural =>
              LexemeKind(p) = IF Len(p) = 1 THEN StructuralKind(p[1]) ELSE "none"
         /\ p[1] = "t" => LexemeKind(p) = IF p = Literals["t"] THEN "boolean" ELSE "none"
         /\ p[1] = "f" => LexemeKind(p) = IF p = Literals["f"] THEN "boolean" ELSE "none"
         /\ p[1] = "n" => LexemeKind(p) = IF p = Literals["n"] THEN "null" ELSE "none"
         /\ p[1] \in Spaces =>
              LexemeKind(p) = IF AllIn(p, Spaces) THEN "whitespace" ELSE "none"
         /\ p[1] \in Digits \cup {"-"} =>
              LexemeKind(p) = IF IsNumber(p) THEN "number" ELSE "none"
         /\ p[1] = Quote => LexemeKind(p) = IF IsString(p) THEN "string" ELSE "none"
         /\ p[1] = "/" => LexemeKind(p) = IF IsComment(p) THEN "comment" ELSE "none"
         /\ p[1] \notin Structural \cup {"t", "f", "n", "-", Quote, "/"} \cup Digits \cup Spaces =>
              LexemeKind(p) = "none"
<1>. DEFINE structural == p \in {<<c>> : c \in Structural}
            true == p = Literals["t"]
            false == p = Literals["f"]
            null == p = Literals["n"]
            spaces == AllIn(p, Spaces)
            number == IsNumber(p)
            string == IsString(p)
            comment == IsComment(p)
            c == p[1]
<1>1. LexemeKind(p) =
        CASE structural -> StructuralKind(c)
          [] true \/ false -> "boolean"
          [] null -> "null"
          [] spaces -> "whitespace"
          [] number -> "number"
          [] string -> "string"
          [] comment -> "comment"
          [] OTHER -> "none"
  BY DEF LexemeKind
<1>2. /\ structural <=> Len(p) = 1 /\ c \in Structural
      /\ true => c = "t"
      /\ false => c = "f"
      /\ null => c = "n"
      /\ spaces => c \in Spaces
      /\ number => c \in Digits \cup {"-"}
      /\ string => c = Quote
      /\ comment => c = "/"
  BY Beginnings
<1>. HIDE DEF structural, true, false, null, spaces, number, string, comment, c
<1>3. ASSUME c \in Structural
      PROVE  LexemeKind(p) = IF Len(p) = 1 THEN StructuralKind(c) ELSE "none"
  <2>1. ~true /\ ~false /\ ~null /\ ~spaces /\ ~number /\ ~string /\ ~comment
    BY <1>2, <1>3, FirstsDiffer, Zenon
  <2>. QED
    BY <1>1, <1>2, <1>3, <2>1
<1>4. ASSUME c = "t"
      PROVE  LexemeKind(p) = IF true THEN "boolean" ELSE "none"
  <2>1. ~structural /\ ~false /\ ~null /\ ~spaces /\ ~number /\ ~string /\ ~comment
    BY <1>2, <1>4, FirstsDiffer, Zenon
  <2>. QED
    BY <1>1, <2>1
<1>5. ASSUME c = "f"
      PROVE  LexemeKind(p) = IF false THEN "boolean" ELSE "none"
  <2>1. ~structural /\ ~true /\ ~null /\ ~spaces /\ ~number /\ ~string /\ ~comment
    BY <1>2, <1>5, FirstsDiffer, Zenon
  <2>. QED
    BY <1>1, <2>1
<1>6. ASSUME c = "n"
      PROVE  LexemeKind(p) = IF null THEN "null" ELSE "none"
  <2>1. ~structural /\ ~true /\ ~false /\ ~spaces /\ ~number /\ ~string /\ ~comment
    BY <1>2, <1>6, FirstsDiffer, Zenon
  <2>. QED
    BY <1>1, <2>1
<1>7. ASSUME c \in Spaces
      PROVE  LexemeKind(p) = IF spaces THEN "whitespace" ELSE "none"
  <2>1. ~structural /\ ~true /\ ~false /\ ~null /\ ~number /\ ~string /\ ~comment
    BY <1>2, <1>7, FirstsDiffer, Zenon
  <2>. QED
    BY <1>1, <2>1
<1>8. ASSUME c \in Digits \cup {"-"}
      PROVE  LexemeKind(p) = IF number THEN "number" ELSE "none"
  <2>1. ~structural /\ ~true /\ ~false /\ ~null /\ ~spaces /\ ~string /\ ~comment
    BY <1>2, <1>8, FirstsDiffer, Zenon
  <2>. QED
    BY <1>1, <2>1
<1>9. ASSUME c = Quote
      PROVE  LexemeKind(p) = IF string THEN "string" ELSE "none"
  <2>1. ~structural /\ ~true /\ ~false /\ ~null /\ ~spaces /\ ~number /\ ~comment
    BY <1>2, <1>9, FirstsDiffer, Zenon
  <2>. QED
    BY <1>1, <2>1
<1>10. ASSUME c = "/"
      PROVE  LexemeKind(p) = IF comment THEN "comment" ELSE "none"
  <2>1. ~structural /\ ~true /\ ~false /\ ~null /\ ~spaces /\ ~number /\ ~string
    BY <1>2, <1>10, FirstsDiffer, Zenon
  <2>. QED
    BY <1>1, <2>1
<1>11. ASSUME c \notin Structural \cup {"t", "f", "n", "-", Quote, "/"} \cup Digits \cup Spaces
      PROVE  LexemeKind(p) = "none"
  <2>1. ~structural /\ ~true /\ ~false /\ ~null /\ ~spaces /\ ~number /\ ~string /\ ~comment
    BY <1>2, <1>11, FirstsDiffer, Zenon
  <2>. QED
    BY <1>1, <2>1
<1>. QED
  BY <1>3, <1>4, <1>5, <1>6, <1>7, <1>8, <1>9, <1>10, <1>11, Zenon
     DEF c, true, false, null, spaces, number, string, comment

\* The kind of a piece, by the character it begins with; nothing has no kind.
LEMMA KindOfPiece ==
  ASSUME NEW s \in Seq(STRING), NEW i \in Nat, i < Len(s), NEW e \in i .. Len(s)
  PROVE  LET p == Piece(s, i, e)
             c == s[i + 1]
         IN  /\ c \in Structural =>
                  LexemeKind(p) = IF e = i + 1 THEN StructuralKind(c) ELSE "none"
             /\ c = "t" => LexemeKind(p) = IF p = Literals["t"] THEN "boolean" ELSE "none"
             /\ c = "f" => LexemeKind(p) = IF p = Literals["f"] THEN "boolean" ELSE "none"
             /\ c = "n" => LexemeKind(p) = IF p = Literals["n"] THEN "null" ELSE "none"
             /\ c \in Spaces =>
                  LexemeKind(p) = IF p # <<>> /\ AllIn(p, Spaces) THEN "whitespace" ELSE "none"
             /\ c \in Digits \cup {"-"} =>
                  LexemeKind(p) = IF IsNumber(p) THEN "number" ELSE "none"
             /\ c = Quote => LexemeKind(p) = IF IsString(p) THEN "string" ELSE "none"
             /\ c = "/" => LexemeKind(p) = IF IsComment(p) THEN "comment" ELSE "none"
             /\ c \notin Structural \cup {"t", "f", "n", "-", Quote, "/"} \cup Digits \cup Spaces =>
                  LexemeKind(p) = "none"
<1>. DEFINE p == Piece(s, i, e)
            c == s[i + 1]
<1>0. i \in Nat /\ e \in Nat /\ i <= e
  OBVIOUS
<1>1. /\ p \in Seq(STRING) /\ Len(p) = e - i /\ (p = <<>> <=> i = e)
      /\ \A k \in 1 .. e - i : p[k] = s[i + k]
  BY PieceIs
<1>. HIDE DEF p
<1>2. CASE i = e
  <2>1. p = <<>> /\ e # i + 1
    BY <1>0, <1>1, <1>2
  <2>2. p # Literals["t"] /\ p # Literals["f"] /\ p # Literals["n"]
    BY <2>1 DEF Literals
  <2>3. /\ LexemeKind(p) = "none" /\ ~IsNumber(p) /\ ~IsString(p) /\ ~IsComment(p)
    BY <2>1, EmptyIsNoLexeme
  <2>. QED
    BY <2>1, <2>2, <2>3, Zenon DEF p
<1>3. CASE i # e
  <2>1. p # <<>> /\ p[1] = c /\ (Len(p) = 1 <=> e = i + 1)
    BY <1>0, <1>1, <1>3
  <2>. HIDE DEF c
  <2>2. /\ c \in Structural =>
              LexemeKind(p) = IF Len(p) = 1 THEN StructuralKind(c) ELSE "none"
        /\ c = "t" => LexemeKind(p) = IF p = Literals["t"] THEN "boolean" ELSE "none"
        /\ c = "f" => LexemeKind(p) = IF p = Literals["f"] THEN "boolean" ELSE "none"
        /\ c = "n" => LexemeKind(p) = IF p = Literals["n"] THEN "null" ELSE "none"
        /\ c \in Spaces =>
              LexemeKind(p) = IF AllIn(p, Spaces) THEN "whitespace" ELSE "none"
        /\ c \in Digits \cup {"-"} =>
              LexemeKind(p) = IF IsNumber(p) THEN "number" ELSE "none"
        /\ c = Quote => LexemeKind(p) = IF IsString(p) THEN "string" ELSE "none"
        /\ c = "/" => LexemeKind(p) = IF IsComment(p) THEN "comment" ELSE "none"
        /\ c \notin Structural \cup {"t", "f", "n", "-", Quote, "/"} \cup Digits \cup Spaces =>
              LexemeKind(p) = "none"
    <3>1. p \in Seq(STRING) /\ p # <<>> /\ p[1] = c
      BY <1>1, <2>1
    <3>. QED
      BY <3>1, KindByFirst
  <2>. QED
    BY <2>1, <2>2, Zenon DEF p, c
<1>. QED
  BY <1>2, <1>3

\* The pattern that attempt_match tries, by the character it is at.
LEMMA AttemptByFirst ==
  ASSUME NEW s, NEW i
  PROVE  LET m == AttemptMatch(s, i)
             c == s[i + 1]
         IN  /\ c \in Structural => m = Matched(StructuralKind(c), 1)
             /\ c = "t" => m = MatchLiteral(s, i, "boolean", Literals["t"])
             /\ c = "f" => m = MatchLiteral(s, i, "boolean", Literals["f"])
             /\ c = "n" => m = MatchLiteral(s, i, "null", Literals["n"])
             /\ c \in Spaces => m = MatchWhitespace(s, i)
             /\ c \in Digits \cup {"-"} => m = MatchNumber(s, i)
             /\ c = Quote => m = MatchString(s, i)
             /\ c = "/" => m = MatchComment(s, i)
             /\ c \notin Structural \cup {"t", "f", "n", "-", Quote, "/"} \cup Digits \cup Spaces =>
                  m = Unmatched(1)
<1>. DEFINE c == s[i + 1]
<1>1. AttemptMatch(s, i) =
        CASE c \in Structural -> Matched(StructuralKind(c), 1)
          [] c \in {"t", "f"} -> MatchLiteral(s, i, "boolean", Literals[c])
          [] c = "n"          -> MatchLiteral(s, i, "null", Literals[c])
          [] c \in Digits \cup {"-"} -> MatchNumber(s, i)
          [] c = Quote        -> MatchString(s, i)
          [] c \in Spaces     -> MatchWhitespace(s, i)
          [] c = "/"          -> MatchComment(s, i)
          [] OTHER            -> Unmatched(1)
  BY Zenon DEF AttemptMatch, Quote
<1>. HIDE DEF c
<1>2. ASSUME c \in Structural PROVE AttemptMatch(s, i) = Matched(StructuralKind(c), 1)
  <2>1. /\ c \notin {"t", "f"} /\ c # "n" /\ c \notin Digits \cup {"-"} /\ c # Quote
        /\ c \notin Spaces /\ c # "/"
    BY <1>2, FirstsDiffer, Zenon
  <2>. QED
    BY <1>1, <1>2, <2>1
<1>3. ASSUME c \in {"t", "f", "n"}
      PROVE  AttemptMatch(s, i) =
                MatchLiteral(s, i, IF c = "n" THEN "null" ELSE "boolean", Literals[c])
  <2>1. /\ c \notin Structural /\ c \notin Digits \cup {"-"} /\ c # Quote
        /\ c \notin Spaces /\ c # "/"
    BY <1>3, FirstsDiffer, Zenon
  <2>2. c \in {"t", "f"} <=> c # "n"
    BY <1>3
  <2>. QED
    BY <1>1, <1>3, <2>1, <2>2
<1>4. ASSUME c \in Spaces PROVE AttemptMatch(s, i) = MatchWhitespace(s, i)
  <2>1. /\ c \notin Structural /\ c \notin {"t", "f"} /\ c # "n" /\ c \notin Digits \cup {"-"}
        /\ c # Quote /\ c # "/"
    BY <1>4, FirstsDiffer, Zenon
  <2>. QED
    BY <1>1, <1>4, <2>1
<1>5. ASSUME c \in Digits \cup {"-"} PROVE AttemptMatch(s, i) = MatchNumber(s, i)
  <2>1. /\ c \notin Structural /\ c \notin {"t", "f"} /\ c # "n"
        /\ c # Quote /\ c \notin Spaces /\ c # "/"
    BY <1>5, FirstsDiffer, Zenon
  <2>. QED
    BY <1>1, <1>5, <2>1
<1>6. ASSUME c = Quote PROVE AttemptMatch(s, i) = MatchString(s, i)
  <2>1. /\ c \notin Structural /\ c \notin {"t", "f"} /\ c # "n" /\ c \notin Digits \cup {"-"}
        /\ c \notin Spaces /\ c # "/"
    BY <1>6, FirstsDiffer, Zenon
  <2>. QED
    BY <1>1, <1>6, <2>1
<1>7. ASSUME c = "/" PROVE AttemptMatch(s, i) = MatchComment(s, i)
  <2>1. /\ c \notin Structural /\ c \notin {"t", "f"} /\ c # "n" /\ c \notin Digits \cup {"-"}
        /\ c # Quote /\ c \notin Spaces
    BY <1>7, FirstsDiffer, Zenon
  <2>. QED
    BY <1>1, <1>7, <2>1
<1>8. ASSUME c \notin Structural \cup {"t", "f", "n", "-", Quote, "/"} \cup Digits \cup Spaces
      PROVE  AttemptMatch(s, i) = Unmatched(1)
  BY <1>1, <1>8
<1>9. /\ c = "t" => AttemptMatch(s, i) = MatchLiteral(s, i, "boolean", Literals["t"])
      /\ c = "f" => AttemptMatch(s, i) = MatchLiteral(s, i, "boolean", Literals["f"])
      /\ c = "n" => AttemptMatch(s, i) = MatchLiteral(s, i, "null", Literals["n"])
  BY <1>3
<1>. QED
  BY <1>2, <1>4, <1>5, <1>6, <1>7, <1>8, <1>9, Zenon DEF c

\* What a match m at i says of the lexemes that begin there: it is the longest one, or there
\* are none but for numbers that end within it.
IsLongest(m, s, i) ==
    /\ m.kind # "error" =>
         /\ m.kind # "none" /\ LexemeKind(Piece(s, i, i + m.length)) = m.kind
         /\ \A e \in i .. Len(s) : e > i + m.length => LexemeKind(Piece(s, i, e)) = "none"
    /\ m.kind = "error" =>
         \A e \in i .. Len(s) :
            /\ LexemeKind(Piece(s, i, e)) \in {"none", "number"}
            /\ LexemeKind(Piece(s, i, e)) = "number" => e < i + m.length

\* It does if it says so of the one kind of lexeme that may begin there.
LEMMA ReadsTheLongest ==
  ASSUME NEW s \in Seq(STRING), NEW i \in Nat, NEW m, i + m.length \in i .. Len(s),
         NEW k, k \notin {"error", "none"}, NEW L,
         Reads(m, i, Len(s), k, L),
         \A e \in i .. Len(s) : LexemeKind(Piece(s, i, e)) = IF e \in L THEN k ELSE "none"
  PROVE  IsLongest(m, s, i)
<1>. DEFINE K(e) == LexemeKind(Piece(s, i, e))
            r == i + m.length
<1>1. /\ m.kind \in {"error", k}
      /\ m.kind = "error" => \A e \in i .. Len(s) : e \in L => k = "number" /\ e < r
      /\ m.kind # "error" => r \in L /\ \A e \in i .. Len(s) : e > r => e \notin L
  BY DEF Reads
<1>2. r \in i .. Len(s) /\ \A e \in i .. Len(s) : K(e) = IF e \in L THEN k ELSE "none"
  OBVIOUS
<1>. HIDE DEF K, r
<1>3. ASSUME m.kind # "error"
      PROVE  m.kind # "none" /\ K(r) = m.kind /\ \A e \in i .. Len(s) : e > r => K(e) = "none"
  BY <1>1, <1>2, <1>3
<1>4. ASSUME m.kind = "error", NEW e \in i .. Len(s)
      PROVE  K(e) \in {"none", "number"} /\ (K(e) = "number" => e < r)
  <2>1. CASE e \in L
    BY <1>1, <1>2, <1>4, <2>1
  <2>2. CASE e \notin L
    BY <1>2, <2>2
  <2>. QED
    BY <2>1, <2>2
<1>. QED
  BY <1>3, <1>4 DEF IsLongest, K, r

\* The literals are words.
Letters == {"t", "r", "u", "e", "f", "a", "l", "s", "n"}

\* They are sequences of letters.
LEMMA LiteralsAreWords == \A x \in {"t", "f", "n"} : Literals[x] \in Seq(Letters)
<1>1. /\ Literals["t"] = <<"t", "r", "u", "e">>
      /\ Literals["f"] = <<"f", "a", "l", "s", "e">>
      /\ Literals["n"] = <<"n", "u", "l", "l">>
  BY DEF Literals
<1>2. \A c \in {"t", "r", "u", "e", "f", "a", "l", "s", "n"} : c \in Letters
  BY DEF Letters
<1>3. /\ "t" \in Letters /\ "r" \in Letters /\ "u" \in Letters /\ "e" \in Letters
      /\ "f" \in Letters /\ "a" \in Letters /\ "l" \in Letters /\ "s" \in Letters
      /\ "n" \in Letters
  BY <1>2
<1>4. <<"t", "r", "u", "e">> \in Seq(Letters)
  BY <1>3
<1>5. <<"f", "a", "l", "s", "e">> \in Seq(Letters)
  BY <1>3
<1>6. <<"n", "u", "l", "l">> \in Seq(Letters)
  BY <1>3
<1>. QED
  BY <1>1, <1>4, <1>5, <1>6

\* attempt_match reads the longest lexeme.
LEMMA AttemptReadsTheLongest ==
  ASSUME NEW s \in Seq(STRING), NEW i \in Nat, i < Len(s)
  PROVE  IsLongest(AttemptMatch(s, i), s, i)
<1>. DEFINE m == AttemptMatch(s, i)
            c == s[i + 1]
            P(e) == Piece(s, i, e)
<1>0. Len(s) \in Nat /\ i + m.length \in i .. Len(s) /\ m.length \in Nat
  <2>1. MatchOK(m, s, i)
    BY AttemptsMatch
  <2>. HIDE DEF m
  <2>2. m.length \in Nat /\ i + m.length <= Len(s) /\ Len(s) \in Nat
    BY <2>1 DEF MatchOK
  <2>. QED
    BY <2>2
<1>1. /\ c \in Structural => m = Matched(StructuralKind(c), 1)
      /\ c = "t" => m = MatchLiteral(s, i, "boolean", Literals["t"])
      /\ c = "f" => m = MatchLiteral(s, i, "boolean", Literals["f"])
      /\ c = "n" => m = MatchLiteral(s, i, "null", Literals["n"])
      /\ c \in Spaces => m = MatchWhitespace(s, i)
      /\ c \in Digits \cup {"-"} => m = MatchNumber(s, i)
      /\ c = Quote => m = MatchString(s, i)
      /\ c = "/" => m = MatchComment(s, i)
      /\ c \notin Structural \cup {"t", "f", "n", "-", Quote, "/"} \cup Digits \cup Spaces =>
           m = Unmatched(1)
  BY AttemptByFirst, Zenon
<1>2. \A e \in i .. Len(s) :
         /\ c \in Structural =>
              LexemeKind(P(e)) = IF e = i + 1 THEN StructuralKind(c) ELSE "none"
         /\ c = "t" => LexemeKind(P(e)) = IF P(e) = Literals["t"] THEN "boolean" ELSE "none"
         /\ c = "f" => LexemeKind(P(e)) = IF P(e) = Literals["f"] THEN "boolean" ELSE "none"
         /\ c = "n" => LexemeKind(P(e)) = IF P(e) = Literals["n"] THEN "null" ELSE "none"
         /\ c \in Spaces =>
              LexemeKind(P(e)) = IF P(e) # <<>> /\ AllIn(P(e), Spaces) THEN "whitespace" ELSE "none"
         /\ c \in Digits \cup {"-"} =>
              LexemeKind(P(e)) = IF IsNumber(P(e)) THEN "number" ELSE "none"
         /\ c = Quote => LexemeKind(P(e)) = IF IsString(P(e)) THEN "string" ELSE "none"
         /\ c = "/" => LexemeKind(P(e)) = IF IsComment(P(e)) THEN "comment" ELSE "none"
         /\ c \notin Structural \cup {"t", "f", "n", "-", Quote, "/"} \cup Digits \cup Spaces =>
              LexemeKind(P(e)) = "none"
  BY KindOfPiece, Zenon
<1>. HIDE DEF m
<1>3. CASE c \in Structural
  <2>. DEFINE k == StructuralKind(c)
              L == {i + 1}
  <2>1. k \notin {"error", "none"}
    BY DEF StructuralKind
  <2>2. m.kind = k /\ m.length = 1
    BY <1>1, <1>3 DEF Matched
  <2>. HIDE DEF k
  <2>3. Reads(m, i, Len(s), k, L)
    BY <2>1, <2>2 DEF Reads
  <2>4. \A e \in i .. Len(s) : LexemeKind(Piece(s, i, e)) = IF e \in L THEN k ELSE "none"
    BY <1>2, <1>3 DEF k
  <2>. HIDE DEF L
  <2>. QED
    BY <1>0, <2>1, <2>3, <2>4, ReadsTheLongest DEF m
<1>4. ASSUME NEW k \in {"boolean", "null"}, NEW x \in {"t", "f", "n"}, c = x,
             k = IF x = "n" THEN "null" ELSE "boolean"
      PROVE  IsLongest(m, s, i)
  <2>. DEFINE L == {e \in i .. Len(s) : Piece(s, i, e) = Literals[x]}
  <2>1. k \notin {"error", "none"}
    OBVIOUS
  <2>2. m = MatchLiteral(s, i, k, Literals[x])
    BY <1>1, <1>4
  <2>3. Reads(m, i, Len(s), k, L)
    <3>1. Literals[x] \in Seq(Letters)
      BY LiteralsAreWords
    <3>. QED
      BY <2>1, <2>2, <3>1, LiteralsAreRead
  <2>4. \A e \in i .. Len(s) : LexemeKind(Piece(s, i, e)) = IF e \in L THEN k ELSE "none"
    BY <1>2, <1>4
  <2>. HIDE DEF L
  <2>. QED
    BY <1>0, <2>1, <2>3, <2>4, ReadsTheLongest DEF m
<1>5. CASE c \in Spaces
  <2>. DEFINE L == {e \in i .. Len(s) : Piece(s, i, e) # <<>> /\ AllIn(Piece(s, i, e), Spaces)}
  <2>1. Reads(m, i, Len(s), "whitespace", L)
    BY <1>1, <1>5, WhitespaceIsRead
  <2>2. \A e \in i .. Len(s) : LexemeKind(Piece(s, i, e)) = IF e \in L THEN "whitespace" ELSE "none"
    BY <1>2, <1>5
  <2>. HIDE DEF L
  <2>. QED
    BY <1>0, <2>1, <2>2, ReadsTheLongest DEF m
<1>6. CASE c \in Digits \cup {"-"}
  <2>. DEFINE L == {e \in i .. Len(s) : IsNumber(Piece(s, i, e))}
  <2>1. Reads(m, i, Len(s), "number", L)
    BY <1>1, <1>6, NumbersAreRead
  <2>2. \A e \in i .. Len(s) : LexemeKind(Piece(s, i, e)) = IF e \in L THEN "number" ELSE "none"
    BY <1>2, <1>6
  <2>. HIDE DEF L
  <2>. QED
    BY <1>0, <2>1, <2>2, ReadsTheLongest DEF m
<1>7. CASE c = Quote
  <2>. DEFINE L == {e \in i .. Len(s) : IsString(Piece(s, i, e))}
  <2>1. Reads(m, i, Len(s), "string", L)
    BY <1>1, <1>7, StringsAreRead
  <2>2. \A e \in i .. Len(s) : LexemeKind(Piece(s, i, e)) = IF e \in L THEN "string" ELSE "none"
    BY <1>2, <1>7
  <2>. HIDE DEF L
  <2>. QED
    BY <1>0, <2>1, <2>2, ReadsTheLongest DEF m
<1>8. CASE c = "/"
  <2>. DEFINE L == {e \in i .. Len(s) : IsComment(Piece(s, i, e))}
  <2>1. Reads(m, i, Len(s), "comment", L)
    BY <1>1, <1>8, CommentsAreRead
  <2>2. \A e \in i .. Len(s) : LexemeKind(Piece(s, i, e)) = IF e \in L THEN "comment" ELSE "none"
    BY <1>2, <1>8
  <2>. HIDE DEF L
  <2>. QED
    BY <1>0, <2>1, <2>2, ReadsTheLongest DEF m
<1>9. CASE c \notin Structural \cup {"t", "f", "n", "-", Quote, "/"} \cup Digits \cup Spaces
  <2>1. m.kind = "error"
    BY <1>1, <1>9 DEF Unmatched
  <2>2. \A e \in i .. Len(s) : LexemeKind(Piece(s, i, e)) = "none"
    BY <1>2, <1>9
  <2>. QED
    BY <2>1, <2>2 DEF IsLongest, m
<1>10. CASE c \in {"t", "f", "n"}
  BY <1>4, <1>10 DEF m
<1>. HIDE DEF c
<1>. QED
  BY <1>3, <1>5, <1>6, <1>7, <1>8, <1>9, <1>10, Zenon

-----------------------------------------------------------------------------
(* The tokens of the tokenizer are the lexemes *)

\* The current token is what attempt_match reads where it begins.
TokenInv ==
    current # NoToken =>
        /\ current.begin < Len(text)
        /\ current.kind = AttemptMatch(text, current.begin).kind
        /\ current.length = AttemptMatch(text, current.begin).length

\* There is no token at the beginning.
LEMMA InitialToken == Init => TokenInv
  BY DEF Init, TokenInv

\* next takes what attempt_match reads.
LEMMA StepsKeepToken == TokenInv /\ [Next]_vars => TokenInv'
<1>. SUFFICES ASSUME TokenInv, [Next]_vars PROVE TokenInv'
  OBVIOUS
<1>1. CASE NextTrue
  <2>. DEFINE m == AttemptMatch(text, Moved)
  <2>1. /\ Moved < Len(text) /\ text' = text
        /\ current' = [kind |-> m.kind, begin |-> Moved, length |-> m.length]
    BY <1>1 DEF NextTrue
  <2>. HIDE DEF m
  <2>2. current'.begin = Moved /\ current'.kind = m.kind /\ current'.length = m.length
    BY <2>1
  <2>3. AttemptMatch(text', current'.begin) = m
    BY <2>1, <2>2 DEF m
  <2>. QED
    BY <2>1, <2>2, <2>3 DEF TokenInv
<1>2. CASE NextFalse
  BY <1>2 DEF NextFalse, TokenInv
<1>3. CASE UNCHANGED vars
  BY <1>3 DEF vars, TokenInv
<1>. QED
  BY <1>1, <1>2, <1>3 DEF Next, Stop

LEMMA TokenIsKept == Spec => []TokenInv
  BY InitialToken, StepsKeepToken, PTL DEF Spec

\* The longest match is the longest prefix of a kind.
LEMMA LongestIsLexeme ==
  ASSUME TypeOK, TokenInv
  PROVE  LexesLikeTheGrammar
<1>. SUFFICES ASSUME current # NoToken PROVE LexesLikeTheGrammar
  BY DEF LexesLikeTheGrammar
<1>. DEFINE b == current.begin
            n == Len(text) - b
            K(k) == LexemeKind(SubSeq(text, b + 1, b + k))
            Best(k) == /\ k = 0 \/ K(k) # "none"
                       /\ \A j \in k + 1 .. n : K(j) = "none"
            Longest == CHOOSE k \in 0 .. n : Best(k)
            m == AttemptMatch(text, b)
<1>1. LexesLikeTheGrammar <=>
        IF current.kind = "error"
        THEN Longest < current.length /\ K(Longest) \in {"none", "number"}
        ELSE Longest = current.length /\ K(Longest) = current.kind
  BY DEF LexesLikeTheGrammar
<1>2. /\ text \in Seq(STRING) /\ Len(text) \in Nat /\ b \in Nat /\ current.length \in Nat
      /\ b + current.length <= Len(text)
  BY CurrentTypes
<1>3. b < Len(text) /\ current.kind = m.kind /\ current.length = m.length
  BY DEF TokenInv
<1>4. IsLongest(m, text, b) /\ MatchOK(m, text, b)
  <2>. HIDE DEF b
  <2>. QED
    BY <1>2, <1>3, AttemptReadsTheLongest, AttemptsMatch
<1>. HIDE DEF m
<1>5. /\ n \in Nat /\ m.length \in 1 .. n
  BY <1>2, <1>3, <1>4 DEF MatchOK
<1>6. ASSUME NEW k \in 0 .. n
      PROVE  /\ b + k \in b .. Len(text) /\ K(k) = LexemeKind(Piece(text, b, b + k))
             /\ b + k > b + m.length <=> k > m.length
             /\ b + k < b + m.length <=> k < m.length
  <2>1. b + k \in b .. Len(text)
    BY <1>2
  <2>2. /\ b + k > b + m.length <=> k > m.length
        /\ b + k < b + m.length <=> k < m.length
    BY <1>2, <1>5
  <2>. QED
    BY <2>1, <2>2 DEF Piece
<1>7. /\ m.kind # "error" =>
           /\ m.kind # "none" /\ K(m.length) = m.kind
           /\ \A k \in 0 .. n : k > m.length => K(k) = "none"
      /\ m.kind = "error" => \A k \in 0 .. n :
           K(k) \in {"none", "number"} /\ (K(k) = "number" => k < m.length)
  <2>1. m.length \in 0 .. n
    BY <1>5
  <2>. HIDE DEF K, n, b
  <2>. QED
    BY <1>4, <1>6, <2>1 DEF IsLongest
<1>. HIDE DEF K, n, b
<1>8. \E k \in 0 .. n : Best(k)
  <2>. DEFINE T == {k \in 0 .. n : k = 0 \/ K(k) # "none"}
  <2>1. T \in SUBSET (0 .. n) /\ 0 \in T
    BY <1>5
  <2>2. PICK k \in T : \A j \in T : j <= k
    <3>. HIDE DEF T
    <3>. QED
      BY <1>5, <2>1, LargestElement
  <2>3. ASSUME NEW j \in k + 1 .. n PROVE K(j) = "none"
    <3>1. j \in 0 .. n /\ ~(j <= k)
      BY <1>5, <2>2
    <3>2. j \notin T
      BY <2>2, <3>1
    <3>. QED
      BY <3>1, <3>2
  <2>. QED
    BY <2>2, <2>3
<1>9. Longest \in 0 .. n /\ Best(Longest)
  <2>. HIDE DEF Best
  <2>. QED
    BY <1>8
<1>. HIDE DEF Longest
<1>10. CASE m.kind = "error"
  <2>1. K(Longest) \in {"none", "number"} /\ (K(Longest) = "number" => Longest < m.length)
    BY <1>7, <1>9, <1>10
  <2>2. Longest < m.length
    <3>1. CASE Longest = 0
      BY <1>5, <3>1
    <3>2. CASE K(Longest) # "none"
      BY <2>1, <3>2
    <3>. QED
      BY <1>9, <3>1, <3>2
  <2>. QED
    BY <1>1, <1>3, <1>10, <2>1, <2>2
<1>11. CASE m.kind # "error"
  <2>1. ~(Longest > m.length)
    <3>. SUFFICES ASSUME Longest > m.length PROVE FALSE
      OBVIOUS
    <3>1. K(Longest) = "none" /\ Longest # 0
      BY <1>5, <1>7, <1>9, <1>11
    <3>. QED
      BY <1>9, <3>1
  <2>2. ~(Longest < m.length)
    <3>. SUFFICES ASSUME Longest < m.length PROVE FALSE
      OBVIOUS
    <3>1. m.length \in Longest + 1 .. n
      BY <1>5, <1>9
    <3>2. K(m.length) = "none"
      BY <1>9, <3>1
    <3>. QED
      BY <1>7, <1>11, <3>2
  <2>3. Longest = m.length
    BY <1>5, <1>9, <2>1, <2>2
  <2>. QED
    BY <1>1, <1>3, <1>7, <1>11, <2>3
<1>. QED
  BY <1>10, <1>11

\* Whatever the text, the tokenizer reads at each place the longest lexeme of the language
\* that begins there, and calls it what it is; it reports an error only where there is no
\* lexeme, or a number that goes wrong after it.
THEOREM TokensAreLexemes == Spec => []LexesLikeTheGrammar
<1>1. TypeOK /\ TokenInv => LexesLikeTheGrammar
  BY LongestIsLexeme
<1>. QED
  BY <1>1, TokensAreInTheText, TokenIsKept, PTL
=============================================================================
