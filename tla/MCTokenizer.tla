---------------------------- MODULE MCTokenizer ----------------------------
(***************************************************************************)
(* Model checking of Tokenizer: texts over small alphabets.                *)
(***************************************************************************)
EXTENDS TokenizerGrammar, SequencesExt

\* All texts of up to five characters over alphabets that bring out one pattern each
\* (four over the ones for literals, which are too wide), and whole literals.
NumberChars  == {"-", "0", "1", ".", "e", "+"}
StringChars  == {"\"", "\\", "a", " "}
CommentChars == {"/", "*", "\n", "["}
LiteralChars == {"t", "r", "u", "n", ","}

MCTexts ==
    SeqOf(NumberChars, 5) \cup SeqOf(StringChars, 5) \cup SeqOf(CommentChars, 5)
    \cup SeqOf(LiteralChars, 4)
    \cup {Literals[k] \o e : k \in DOMAIN Literals, e \in SeqOf({"e", "]", " "}, 2)}

LoneTexts == SeqOf({"[", "1", " "}, 2)

-----------------------------------------------------------------------------
(* Properties *)

\* Whoever reads until next returns false gets there.
ReadingEnds == <>(returned = "false")

-----------------------------------------------------------------------------
(* What the documentation says and the code does not do *)

\* current throws unless next has returned true (tokenizer.hpp: it "throws
\* std::logic_error if next has not been called or if it returned false").
NoCurrentAfterFalse == returned = "false" => CurrentThrows
=============================================================================
