------------------------------ MODULE MCParser ------------------------------
(***************************************************************************)
(* Model checking of Parser: tokens and options for the runs, and the      *)
(* properties that compare the parser with the reference grammar.          *)
(***************************************************************************)
EXTENDS ParserGrammar

-----------------------------------------------------------------------------
(* Tokens *)

LBracket == Token("array_begin", "[", "")
LBrace   == Token("object_begin", "{", "")
One      == Token("number", "1", "1")
Comma    == Token("separator", ",", "")
Str(raw, s) == [Token("string", raw, s) EXCEPT !.size = 3]
StrA     == Str("'a'", "a")
EscapedA == [Str("'&a'", "a") EXCEPT !.size = 8]           \* decodes to the same key
Tabbed   == [Str("'t'", "t") EXCEPT !.refused_by = {"utf8_strict"}]
BadStr   == [Str("'u'", "u") EXCEPT !.refused_by = Encodings]
ZeroOne  == [Token("number", "01", "1") EXCEPT !.size = 2, !.refused_by = {"strict_numbers"}]
True     == [Token("boolean", "true", "true") EXCEPT !.size = 4]
Garbage  == Token("error", "@", "")
Nul      == [Token("error", "0", "") EXCEPT !.nul = TRUE]
NewLine  == [Token("whitespace", " ", "") EXCEPT !.size = 3, !.lines = 1, !.tail = 1]
Remark   == [Token("comment", "/**/", "") EXCEPT !.size = 4]

ArrayTokens  == {LBracket, RBracket, Comma, One, Garbage, NewLine}
MemberTokens == {LBrace, RBrace, Colon, Comma, StrA, EscapedA, One}
AllTokens    == {LBracket, RBracket, LBrace, RBrace, Colon, Comma, StrA, Tabbed, ZeroOne,
                 Garbage, Nul, Remark}
RecoveryTokens == {LBracket, RBracket, LBrace, RBrace, Colon, Comma, StrA, BadStr, True,
                   Garbage, Remark}
StreamTokens == {LBracket, RBracket, One, Comma, NewLine, Garbage}
BrokenTokens == {LBrace, RBrace, Colon, Comma, StrA, Garbage, True}
LineTokens   == {LBracket, Garbage, NewLine}

(* Options *)

\* parse_options::create_default and create_strict; a depth of 20 is out of the
\* reach of these bounds, so the strict runs use one of 2.
Default ==
    [failure_mode |-> "fail_immediately", max_failures |-> 10, string_encoding |-> "utf8",
     number_encoding |-> "decimal", comma_policy |-> "allow_trailing",
     max_structure_depth |-> 0, require_document |-> FALSE, complete_parse |-> TRUE,
     comments |-> TRUE]
Strict ==
    [Default EXCEPT !.string_encoding = "utf8_strict", !.number_encoding = "strict_numbers",
                    !.comma_policy = "strict", !.max_structure_depth = 2,
                    !.require_document = TRUE, !.comments = FALSE]

InMode(o, mode, limit) == [o EXCEPT !.failure_mode = mode, !.max_failures = limit]
Modes(o) == {o, InMode(o, "collect_all", 2), InMode(o, "ignore", 2)}
Streaming(o) == [o EXCEPT !.complete_parse = FALSE]

(* Scenarios *)

Scenario(options, tokens, max_tokens, max_parses) ==
    [options |-> options, tokens |-> tokens,
     max_tokens |-> max_tokens, max_parses |-> max_parses]

\* In fail_immediately only inputs without an error are read far, so these scenarios
\* reach the longer ones: every kind of token, and objects with a repeated key.
Exact ==
    {Scenario(o, AllTokens, 6, 1) : o \in {Default, Strict}}
    \cup {Scenario(o, MemberTokens, 10, 1) : o \in {Default, Strict}}

\* The parser goes on after errors: arrays in every mode, then every construct, then objects.
Recovering ==
    {Scenario(o, ArrayTokens, 5, 1) : o \in Modes(Default) \cup Modes(Strict)}
    \cup {Scenario(o, RecoveryTokens, 4, 1) :
              o \in {InMode(Default, "collect_all", 2), InMode(Strict, "ignore", 2)}}
    \cup {Scenario(InMode(Default, "ignore", 2), BrokenTokens, 6, 1)}

\* Several documents, one tokenizer.
Streams == {Scenario(Streaming(o), StreamTokens, 4, 3) : o \in Modes(Default)}

SafetyScenarios == Exact \cup Recovering \cup Streams

LineScenarios == {Scenario(InMode(Default, "collect_all", 2), LineTokens, 3, 1)}

-----------------------------------------------------------------------------
(* Properties *)

\* Every call of parse ends, whatever the tokenizer delivers.
EveryCallEnds == (outcome = "running") ~> (pc = "done")

-----------------------------------------------------------------------------
(* What the documentation says and the code does not do *)

\* A problem's line is a line of the input (parse_error::problem::line).
ProblemsAreOnLinesOfTheInput ==
    \A i \in DOMAIN problems : problems[i].line <= 1 + Breaks(Taken)
=============================================================================
