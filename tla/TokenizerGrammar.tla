-------------------------- MODULE TokenizerGrammar --------------------------
(***************************************************************************)
(* The tokens of Tokenizer against a reference definition of the lexemes   *)
(* of the language.                                                        *)
(***************************************************************************)
EXTENDS Tokenizer

-----------------------------------------------------------------------------
(* The lexemes, as the grammar of JSON (with its comments) has them *)

AllIn(s, C) == \A i \in DOMAIN s : s[i] \in C
IsDigits(s) == s # <<>> /\ AllIn(s, Digits)

IsFraction(s) == s = <<>> \/ (Head(s) = "." /\ IsDigits(Tail(s)))

IsExponent(s) ==
    \/ s = <<>>
    \/ /\ Head(s) \in {"e", "E"}
       /\ \/ IsDigits(Tail(s))
          \/ Len(s) > 1 /\ s[2] \in {"+", "-"} /\ IsDigits(Tail(Tail(s)))

IsNumber(s) ==
    \E i, j \in 0 .. Len(s) :
        /\ i <= j
        /\ LET int == SubSeq(s, 1, i)
           IN  IsDigits(int) \/ (int # <<>> /\ Head(int) = "-" /\ IsDigits(Tail(int)))
        /\ IsFraction(SubSeq(s, i + 1, j))
        /\ IsExponent(SubSeq(s, j + 1, Len(s)))

\* Plain characters and escapes, each of which begins where the one before it ends.
IsBody(s) ==
    \E begins \in SUBSET (1 .. Len(s) + 1) :
        /\ 1 \in begins
        /\ \A k \in begins :
              \/ k = Len(s) + 1
              \/ s[k] \notin {"\"", "\\"} /\ k + 1 \in begins
              \/ s[k] = "\\" /\ k + 2 \in begins

IsString(s) ==
    Len(s) > 1 /\ s[1] = "\"" /\ s[Len(s)] = "\"" /\ IsBody(SubSeq(s, 2, Len(s) - 1))

IsComment(s) ==
    LET EndsAt(i) == s[i] = "*" /\ s[i + 1] = "/"
    IN  /\ Len(s) > 3 /\ s[1] = "/" /\ s[2] = "*" /\ EndsAt(Len(s) - 1)
        /\ \A i \in 3 .. Len(s) - 2 : ~EndsAt(i)

LexemeKind(s) ==
    CASE s \in {<<c>> : c \in Structural} -> StructuralKind(s[1])
      [] s \in {Literals["t"], Literals["f"]} -> "boolean"
      [] s = Literals["n"] -> "null"
      [] s # <<>> /\ AllIn(s, Spaces) -> "whitespace"
      [] IsNumber(s)  -> "number"
      [] IsString(s)  -> "string"
      [] IsComment(s) -> "comment"
      [] OTHER -> "none"

-----------------------------------------------------------------------------
(* Properties *)

\* The current token is the longest lexeme at its place; and where the tokenizer reports
\* an error, there is no lexeme, or the beginning of a number that goes wrong after it.
LexesLikeTheGrammar ==
    current # NoToken =>
        LET Prefix(n) == SubSeq(text, current.begin + 1, current.begin + n)
            Longest == CHOOSE n \in 0 .. Len(text) - current.begin :
                          /\ n = 0 \/ LexemeKind(Prefix(n)) # "none"
                          /\ \A m \in n + 1 .. Len(text) - current.begin :
                                LexemeKind(Prefix(m)) = "none"
        IN  IF current.kind = "error"
            THEN Longest < current.length /\ LexemeKind(Prefix(Longest)) \in {"none", "number"}
            ELSE Longest = current.length /\ LexemeKind(Prefix(Longest)) = current.kind
=============================================================================
