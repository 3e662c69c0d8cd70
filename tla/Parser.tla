------------------------------- MODULE Parser -------------------------------
(***************************************************************************)
(* jsonv::parse (src/jsonv/parse.cpp): the recursive descent that turns the*)
(* tokens of a tokenizer into a value, with the error reporting and the    *)
(* recovery of its three failure modes.                                    *)
(*                                                                         *)
(* The C++ call stack is the variable stack: one frame per active call of  *)
(* parse_array or parse_object.  Between two steps the parser stands at a  *)
(* call of parse_context::next (pc says which one) or is returning from    *)
(* parse_generic.  A call of next is a step per token it takes from the    *)
(* tokenizer; the code that handles the token it returns is one more step. *)
(*                                                                         *)
(* The tokenizer is the environment: it delivers any token of the scenario *)
(* or the end of the input, and the delivered tokens are kept in seen.  A  *)
(* tokenizer may be parsed from several times (parse(tokenizer&)).         *)
(***************************************************************************)
EXTENDS JsonValue

CONSTANT Scenarios  \* what parse may be called with: see ScenarioOK

BlankKinds  == {"whitespace", "comment"}
ScalarTokenKinds == ScalarKinds
TokenKinds  == ScalarTokenKinds \cup BlankKinds \cup
    {"array_begin", "array_end", "object_begin", "object_end",
     "object_key_delimiter", "separator", "error"}

Encodings == {"utf8", "utf8_strict", "cesu8"}
Numbers   == {"decimal", "strict_numbers"}

\* What the parser uses of a token: its kind ("error" is any kind with the
\* parse_error_indicator bit), its text, what the text means once decoded, the
\* settings that refuse to decode it, and its extent: length, line breaks,
\* characters after the last break, and whether it is all NUL characters.
TokenOK(t) ==
    /\ DOMAIN t = {"kind", "text", "means", "refused_by", "size", "lines", "tail", "nul"}
    /\ t.kind \in TokenKinds
    /\ t.text \in Text /\ t.means \in Text
    /\ t.refused_by \subseteq Encodings \cup Numbers
    /\ t.size \in Nat \ {0}
    /\ t.lines \in 0 .. t.size
    /\ t.tail \in 0 .. t.size - t.lines
    /\ t.nul \in BOOLEAN /\ (t.nul => t.kind = "error")

OptionsOK(o) ==
    /\ DOMAIN o = {"failure_mode", "max_failures", "string_encoding", "number_encoding",
                   "comma_policy", "max_structure_depth", "require_document",
                   "complete_parse", "comments"}
    /\ o.failure_mode \in {"fail_immediately", "collect_all", "ignore"}
    /\ o.max_failures \in Nat
    /\ o.string_encoding \in Encodings
    /\ o.number_encoding \in Numbers
    /\ o.comma_policy \in {"strict", "allow_trailing"}
    /\ o.max_structure_depth \in Nat
    /\ {o.require_document, o.complete_parse, o.comments} \subseteq BOOLEAN

\* A scenario: the parse_options, the tokens the input is made of, and two bounds,
\* on the tokens in the input and on the calls of parse on one tokenizer.
ScenarioOK(c) ==
    /\ DOMAIN c = {"options", "tokens", "max_tokens", "max_parses"}
    /\ OptionsOK(c.options)
    /\ \A t \in c.tokens : TokenOK(t)
    /\ c.max_tokens \in Nat
    /\ c.max_parses \in Nat

ASSUME ScenariosAssumption == \A c \in Scenarios : ScenarioOK(c)

-----------------------------------------------------------------------------

VARIABLES
    scenario,    \* what parse is called with
    seen,        \* every token the tokenizer has delivered, in order
    exhausted,   \* the tokenizer has returned false
    calls,       \* calls of parse so far
    begin,       \* how many tokens earlier calls had taken
    pos,         \* parse_context::line, column, character
    complete,    \* parse_context::complete
    successful,  \* parse_context::successful
    problems,    \* parse_context::problems; of a thrown parse_error, its list
    stack,       \* the active calls of parse_array and parse_object, outermost first
    pc,          \* the call of next in progress, or what follows it
    got,         \* what that call of next returned: a token, the end, or nothing yet
    ret,         \* what parse_generic is returning, at pc = "return"
    val,         \* the value it leaves; at pc = "done", the result or partial result
    outcome      \* how the call of parse ended

input    == <<scenario, seen, exhausted, calls, begin>>
errors   == <<successful, problems, outcome>>
position == <<pos, complete>>
control  == <<stack, pc, got, ret, val>>
vars     == <<input, errors, position, control>>

\* parse_context::options
opts == scenario.options

Current == seen[Len(seen)]

FailFast == opts.failure_mode = "fail_immediately"

\* The calls of parse_context::next, each named for what is looked for.
NextSites == {"value", "item", "item_end", "key", "colon", "member_end", "skip", "trailing"}

Start == [line |-> 0, column |-> 1, character |-> 0]

InitialContext ==
    /\ pos = Start /\ complete = FALSE
    /\ successful = TRUE /\ problems = <<>> /\ outcome = "running"
    /\ stack = <<>> /\ pc = "value" /\ got = "none" /\ ret = FALSE /\ val = Null

Init ==
    /\ seen = <<>> /\ exhausted = FALSE /\ begin = 0 /\ calls = 1
    /\ scenario \in Scenarios
    /\ InitialContext

-----------------------------------------------------------------------------
(* parse_context::parse_error *)

\* Mutant of Recorded: off by one.
RecordedOneMore(at) ==
    IF Len(problems) <= opts.max_failures THEN Append(problems, at) ELSE problems

\* A problem is recorded while there are fewer than max_failures; reaching the
\* limit does not stop the parser.
Recorded(at) == IF Len(problems) < opts.max_failures THEN Append(problems, at) ELSE problems

Complain(at) ==
    /\ successful' = FALSE
    /\ problems' = Recorded(at)
    /\ UNCHANGED outcome

\* Mutant of Throw: the exception is swallowed on the way.
SwallowedThrow(at) ==
    /\ problems' = <<at>>
    /\ outcome' = "thrown"
    /\ stack' = <<>> /\ pc' = "finish" /\ got' = "none" /\ ret' = FALSE /\ val' = Null
    /\ UNCHANGED successful

\* In fail_immediately the first problem leaves parse with an exception that
\* carries it and a null partial result.
Throw(at) ==
    /\ problems' = <<at>>
    /\ outcome' = "thrown"
    /\ stack' = <<>> /\ pc' = "done" /\ got' = "none" /\ ret' = FALSE /\ val' = Null
    /\ UNCHANGED successful

\* A piece of code that may call parse_error (if wrong, at position at) and goes
\* on with step if that does not throw.
Checked(wrong, at, step) ==
    \/ ~wrong /\ step /\ UNCHANGED errors
    \/ wrong /\ ~FailFast /\ step /\ Complain(at)
    \/ wrong /\ FailFast /\ Throw(at)

-----------------------------------------------------------------------------
(* parse_context::next *)

\* Moves over a token: a line begins after each line break in it.
Over(p, t) ==
    [line      |-> p.line + t.lines,
     column    |-> IF t.lines > 0 THEN 1 + t.tail ELSE p.column + t.size,
     character |-> p.character + t.size]

\* Mutant of Advanced: the last token is counted again after the end of the input.
AdvancedPastEnd ==
    IF pos.line # 0 THEN Over(pos, Current) ELSE [pos EXCEPT !.line = @ + 1]

\* Every call first moves the position over the token it leaves; the first call,
\* and each one after the end of the input, counts a line instead.
Advanced ==
    IF ~complete /\ pos.line # 0
    THEN Over(pos, Current)
    ELSE [pos EXCEPT !.line = @ + 1]

Deliver(t) ==
    /\ pc \in NextSites /\ got = "none"
    /\ ~exhausted /\ Len(seen) < scenario.max_tokens
    /\ seen' = Append(seen, t)
    /\ pos' = Advanced
    /\ UNCHANGED <<scenario, exhausted, calls, begin, complete>>

NextToken == \E t \in scenario.tokens :
    /\ t.kind \notin BlankKinds
    /\ Deliver(t)
    /\ got' = "token"
    /\ UNCHANGED <<errors, stack, pc, ret, val>>

\* next calls itself on white space and on a comment, which may be an error.
SkipWhitespace == \E t \in scenario.tokens :
    /\ t.kind = "whitespace"
    /\ Deliver(t)
    /\ UNCHANGED <<errors, control>>

SkipComment == \E t \in scenario.tokens :
    /\ t.kind = "comment"
    /\ Deliver(t)
    /\ Checked(~opts.comments, Advanced, UNCHANGED control)

\* Mutant of NextEnd: next takes the end of the input for a blank and calls itself.
NextEndAsBlank ==
    /\ pc \in NextSites /\ got = "none"
    /\ exhausted' = TRUE
    /\ complete' = TRUE
    /\ UNCHANGED <<scenario, seen, calls, begin, errors, pos, control>>

\* The input may end anywhere, and then the tokenizer has no more tokens.
NextEnd ==
    /\ pc \in NextSites /\ got = "none"
    /\ exhausted' = TRUE
    /\ complete' = TRUE
    /\ pos' = Advanced
    /\ got' = "end"
    /\ UNCHANGED <<scenario, seen, calls, begin, errors, stack, pc, ret, val>>

-----------------------------------------------------------------------------
(* Control inside parse: calls of next and returns of parse_generic. *)

At(site) == pc = site /\ got = "token"
AtEnd(site) == pc = site /\ got = "end"

\* Calls next again at a site, with the stack s.
Ask(site, s) ==
    /\ pc' = site /\ got' = "none" /\ stack' = s
    /\ UNCHANGED <<ret, val>>

\* Returns b from parse_generic to the frame on top of the stack s.
Return(b, v, s) ==
    /\ pc' = "return" /\ got' = "none" /\ stack' = s
    /\ ret' = b /\ val' = v

Top == stack[Len(stack)]
Popped == SubSeq(stack, 1, Len(stack) - 1)
WithTop(f) == [stack EXCEPT ![Len(stack)] = f]

Frame(fn, out) == [fn |-> fn, trailing |-> FALSE, key |-> "", out |-> out]

-----------------------------------------------------------------------------
(* parse_generic, on the token next has returned *)

Dispatching == At("value") \/ (At("item") /\ Current.kind # "array_end")

Refused(t) ==
    \/ t.kind = "string" /\ opts.string_encoding \in t.refused_by
    \/ t.kind = "number" /\ opts.number_encoding \in t.refused_by

\* parse_boolean, parse_null, parse_number and parse_string: a scalar whose text
\* is refused is an error, and is returned nevertheless.
Scalar ==
    /\ Dispatching
    /\ Current.kind \in ScalarTokenKinds
    /\ Checked(Refused(Current), pos,
               Return(TRUE, Leaf(Label(Current.kind, Current.means)), stack))
    /\ UNCHANGED <<input, position>>

OpenArray ==
    /\ Dispatching
    /\ Current.kind = "array_begin"
    /\ Ask("item", Append(stack, Frame("array", EmptyArray)))
    /\ UNCHANGED <<input, errors, position>>

OpenObject ==
    /\ Dispatching
    /\ Current.kind = "object_begin"
    /\ Ask("key", Append(stack, Frame("object", EmptyObject)))
    /\ UNCHANGED <<input, errors, position>>

\* Any other token is invalid, and forward_to_separator looks for what follows.
Invalid ==
    /\ Dispatching
    /\ Current.kind \notin ScalarTokenKinds \cup {"array_begin", "object_begin"}
    /\ Checked(TRUE, pos, Ask("skip", stack))
    /\ UNCHANGED <<input, position>>

NoValue ==
    /\ AtEnd("value")
    /\ Return(FALSE, Null, stack)
    /\ UNCHANGED <<input, errors, position>>

\* forward_to_separator: stops on a structural token, which the caller of
\* parse_generic then takes for the last token of a (null) value.
Skip ==
    /\ At("skip")
    /\ IF Current.kind \in ScalarTokenKinds \cup {"error"}
       THEN Ask("skip", stack)
       ELSE Return(TRUE, Null, stack)
    /\ UNCHANGED <<input, errors, position>>

SkipToEnd ==
    /\ AtEnd("skip")
    /\ Return(FALSE, Null, stack)
    /\ UNCHANGED <<input, errors, position>>

-----------------------------------------------------------------------------
(* parse_array *)

\* Mutant of TrailingComma: comma_policy is not looked at.
TrailingCommaAllowed == FALSE

\* The comma before a closing bracket or brace, where it is not allowed.
TrailingComma == Top.trailing /\ opts.comma_policy # "allow_trailing"

CloseArrayForItem ==
    /\ At("item")
    /\ Current.kind = "array_end"
    /\ Checked(TrailingComma, pos, Return(TRUE, Top.out, Popped))
    /\ UNCHANGED <<input, position>>

ReturnToArray ==
    /\ pc = "return" /\ stack # <<>> /\ Top.fn = "array"
    /\ Ask("item_end",
           IF ret
           THEN WithTop([Top EXCEPT !.trailing = FALSE, !.out = PushBack(@, val)])
           ELSE stack)
    /\ UNCHANGED <<input, errors, position>>

CloseArray ==
    /\ At("item_end")
    /\ Current.kind = "array_end"
    /\ Return(TRUE, Top.out, Popped)
    /\ UNCHANGED <<input, errors, position>>

ArraySeparator ==
    /\ At("item_end")
    /\ Current.kind = "separator"
    /\ Ask("item", WithTop([Top EXCEPT !.trailing = TRUE]))
    /\ UNCHANGED <<input, errors, position>>

NoArraySeparator ==
    /\ At("item_end")
    /\ Current.kind \notin {"array_end", "separator"}
    /\ Checked(TRUE, pos, Ask("item", stack))
    /\ UNCHANGED <<input, position>>

UnmatchedBracket ==
    /\ AtEnd("item") \/ AtEnd("item_end")
    /\ Checked(TRUE, pos, Return(FALSE, Top.out, Popped))
    /\ UNCHANGED <<input, position>>

-----------------------------------------------------------------------------
(* parse_object *)

\* Mutant of MemberKey: keys are compared as they are written, not as decoded.
RawMemberKey ==
    /\ At("key")
    /\ Current.kind # "object_end"
    /\ LET isString == Current.kind = "string"
       IN  Checked(~isString \/ Refused(Current), pos,
                   Ask("colon", WithTop([Top EXCEPT
                       !.trailing = @ /\ ~isString, !.key = Current.text])))
    /\ UNCHANGED <<input, position>>

\* A key: any token but a closing brace is taken for one, in error if it is not a
\* string.  An undecodable string is an error too.
MemberKey ==
    /\ At("key")
    /\ Current.kind # "object_end"
    /\ LET isString == Current.kind = "string"
       IN  Checked(~isString \/ Refused(Current), pos,
                   Ask("colon", WithTop([Top EXCEPT
                       !.trailing = @ /\ ~isString,
                       !.key = IF isString THEN Current.means ELSE Current.text])))
    /\ UNCHANGED <<input, position>>

CloseObjectForKey ==
    /\ At("key")
    /\ Current.kind = "object_end"
    /\ Checked(TrailingComma, pos, Return(TRUE, Top.out, Popped))
    /\ UNCHANGED <<input, position>>

\* Mutant of Delimiter: any token will do.
AnyDelimiter ==
    /\ At("colon")
    /\ Ask("value", stack)
    /\ UNCHANGED <<input, errors, position>>

\* Whatever the delimiter is, parse_generic goes on with the token after it.
Delimiter ==
    /\ At("colon")
    /\ Checked(Current.kind # "object_key_delimiter", pos, Ask("value", stack))
    /\ UNCHANGED <<input, position>>

\* A duplicate key is an error, and the later value replaces the earlier one.
ReturnToObject ==
    /\ pc = "return" /\ stack # <<>> /\ Top.fn = "object" /\ ret
    /\ Checked(HasKey(Top.out, Top.key), pos,
               Ask("member_end", WithTop([Top EXCEPT !.out = PutMember(@, Top.key, val)])))
    /\ UNCHANGED <<input, position>>

\* Mutant of IncompleteMember: the members before are not handed on.
IncompleteMemberForgets ==
    /\ pc = "return" /\ stack # <<>> /\ Top.fn = "object" /\ ~ret
    /\ Checked(TRUE, pos, Return(FALSE, Null, Popped))
    /\ UNCHANGED <<input, position>>

\* No value for the key: the end of the input, or a nested call that met it.
IncompleteMember ==
    /\ pc = "return" /\ stack # <<>> /\ Top.fn = "object" /\ ~ret
    /\ Checked(TRUE, pos, Return(FALSE, Top.out, Popped))
    /\ UNCHANGED <<input, position>>

\* Mutant of CloseObject: the return is missing.
CloseObjectGoesOn ==
    /\ At("member_end")
    /\ Current.kind = "object_end"
    /\ Ask("key", stack)
    /\ UNCHANGED <<input, errors, position>>

CloseObject ==
    /\ At("member_end")
    /\ Current.kind = "object_end"
    /\ Return(TRUE, Top.out, Popped)
    /\ UNCHANGED <<input, errors, position>>

ObjectSeparator ==
    /\ At("member_end")
    /\ Current.kind = "separator"
    /\ Ask("key", WithTop([Top EXCEPT !.trailing = TRUE]))
    /\ UNCHANGED <<input, errors, position>>

NoObjectSeparator ==
    /\ At("member_end")
    /\ Current.kind \notin {"object_end", "separator"}
    /\ Checked(TRUE, pos, Ask("key", stack))
    /\ UNCHANGED <<input, position>>

UnmatchedBrace ==
    /\ AtEnd("key") \/ AtEnd("colon") \/ AtEnd("member_end")
    /\ Checked(TRUE, pos, Return(FALSE, Top.out, Popped))
    /\ UNCHANGED <<input, position>>

-----------------------------------------------------------------------------
(* parse and post_parse *)

\* parse_generic returns to parse.  What follows the value is looked at only in
\* a complete_parse that has been successful so far.
ReturnToParse ==
    /\ pc = "return" /\ stack = <<>>
    /\ Checked(~ret, pos,
               /\ pc' = IF ret /\ successful /\ opts.complete_parse THEN "trailing" ELSE "finish"
               /\ UNCHANGED <<stack, got, ret, val>>)
    /\ UNCHANGED <<input, position>>

\* Every token after the value is an error, unless it is all NUL characters.
Trailing ==
    /\ At("trailing")
    /\ Checked(~Current.nul, pos, Ask("trailing", stack))
    /\ UNCHANGED <<input, position>>

TrailingEnd ==
    /\ AtEnd("trailing")
    /\ pc' = "finish" /\ got' = "none"
    /\ UNCHANGED <<input, errors, position, stack, ret, val>>

\* The checks on the value: require_document, then depth_checker, which complains
\* of each container it enters at the maximum depth (a scalar has none).
FinalComplaints ==
    IF successful /\ opts.require_document /\ KindOf(val) \notin ContainerKinds
    THEN 1
    ELSE IF opts.max_structure_depth > 0
         THEN Cardinality(ContainersAtDepth(val, opts.max_structure_depth))
         ELSE 0

Least(m, n) == IF m < n THEN m ELSE n

\* problems with the complaints that max_failures leaves room for.
RecordedTimes(n) ==
    LET room == IF Len(problems) < opts.max_failures
                THEN opts.max_failures - Len(problems) ELSE 0
    IN  problems \o [i \in 1 .. Least(n, room) |-> pos]

Finish ==
    /\ pc = "finish"
    /\ \/ FinalComplaints > 0 /\ FailFast /\ Throw(pos)
       \/ /\ ~(FinalComplaints > 0 /\ FailFast)
          /\ successful' = (successful /\ FinalComplaints = 0)
          /\ problems' = RecordedTimes(FinalComplaints)
          /\ outcome' = IF successful' \/ opts.failure_mode = "ignore"
                        THEN "returned" ELSE "thrown"
          /\ pc' = "done"
          /\ UNCHANGED <<stack, got, ret, val>>
    /\ UNCHANGED <<input, position>>

\* The caller parses again from the same tokenizer: a new context, the old token.
ParseAgain ==
    /\ pc = "done" /\ calls < scenario.max_parses
    /\ calls' = calls + 1
    /\ begin' = Len(seen)
    /\ pos' = Start /\ complete' = FALSE
    /\ successful' = TRUE /\ problems' = <<>> /\ outcome' = "running"
    /\ stack' = <<>> /\ pc' = "value" /\ got' = "none" /\ ret' = FALSE /\ val' = Null
    /\ UNCHANGED <<scenario, seen, exhausted>>

\* The caller stops.
Stop == pc = "done" /\ calls >= scenario.max_parses /\ UNCHANGED vars

-----------------------------------------------------------------------------

Next ==
    \/ NextToken \/ SkipWhitespace \/ SkipComment \/ NextEnd
    \/ Scalar \/ OpenArray \/ OpenObject \/ Invalid \/ NoValue
    \/ Skip \/ SkipToEnd
    \/ CloseArrayForItem \/ ReturnToArray \/ CloseArray
    \/ ArraySeparator \/ NoArraySeparator \/ UnmatchedBracket
    \/ MemberKey \/ CloseObjectForKey \/ Delimiter
    \/ ReturnToObject \/ IncompleteMember \/ CloseObject
    \/ ObjectSeparator \/ NoObjectSeparator \/ UnmatchedBrace
    \/ ReturnToParse \/ Trailing \/ TrailingEnd \/ Finish
    \/ ParseAgain \/ Stop

Spec == Init /\ [][Next]_vars

\* parse is a plain sequential call: it takes its next step as long as it has one.
FairSpec == Spec /\ WF_vars(Next)

-----------------------------------------------------------------------------
(* What a call has read *)

\* The tokens this call has taken.
Taken == SubSeq(seen, begin + 1, Len(seen))

\* Those of them the parser has handled.
Handled ==
    IF got = "token" THEN SubSeq(Taken, 1, Len(Taken) - 1) ELSE Taken

\* The sum of some numbers, and with it the line breaks and the characters in some tokens.
Total[ns \in Seq(Nat)] ==
    IF ns = <<>> THEN 0 ELSE Total[SubSeq(ns, 1, Len(ns) - 1)] + ns[Len(ns)]

Breaks(ts) == Total[[i \in DOMAIN ts |-> ts[i].lines]]
Chars(ts)  == Total[[i \in DOMAIN ts |-> ts[i].size]]

\* p is the position after the tokens ts: of the last of them with a line break the
\* characters after the break count in the column, with those of the tokens that follow.
IsAfter(p, ts) ==
    /\ p.line = 1 + Breaks(ts)
    /\ p.character = Chars(ts)
    /\ \E last \in 0 .. Len(ts) :
          /\ last # 0 => ts[last].lines > 0
          /\ \A i \in last + 1 .. Len(ts) : ts[i].lines = 0
          /\ p.column = 1 + (IF last = 0 THEN 0 ELSE ts[last].tail)
                          + Chars(SubSeq(ts, last + 1, Len(ts)))

\* The functions whose calls the frames s are.
Fns(s) == [i \in DOMAIN s |-> s[i].fn]

Kinds(ts) == [i \in DOMAIN ts |-> ts[i].kind]

\* The brackets and braces open after o and one more token, of kind k.
Bracketed(o, k) ==
    CASE k = "array_begin" -> Append(o, "array")
      [] k = "object_begin" -> Append(o, "object")
      [] k \in {"array_end", "object_end"} /\ o # <<>> -> SubSeq(o, 1, Len(o) - 1)
      [] OTHER -> o

\* The brackets and braces that tokens of the kinds ks leave open.
Nesting[ks \in Seq(TokenKinds)] ==
    IF ks = <<>> THEN <<>>
    ELSE Bracketed(Nesting[SubSeq(ks, 1, Len(ks) - 1)], ks[Len(ks)])

-----------------------------------------------------------------------------
(* Properties *)

Positions == [line : Nat, column : Nat, character : Nat]

FrameOK(f) ==
    /\ DOMAIN f = {"fn", "trailing", "key", "out"}
    /\ f.fn \in ContainerKinds
    /\ f.trailing \in BOOLEAN
    /\ f.key \in Text
    /\ IsTree(f.out)

\* The types of the variables of parse_context and of the C++ call stack, and the
\* outcomes a call of parse can have at each point.
TypeOK ==
    /\ scenario \in Scenarios
    /\ seen \in Seq(scenario.tokens) /\ begin \in 0 .. Len(seen)
    /\ exhausted \in BOOLEAN /\ complete \in BOOLEAN /\ successful \in BOOLEAN
    /\ calls \in Nat
    /\ pos \in Positions /\ problems \in Seq(Positions)
    /\ \A i \in DOMAIN stack : FrameOK(stack[i])
    /\ pc \in NextSites \cup {"return", "finish", "done"}
    /\ got \in {"none", "token", "end"}
    /\ ret \in BOOLEAN /\ IsTree(val)
    /\ outcome \in {"running", "returned", "thrown"}
    /\ outcome = "running" <=> pc # "done"

\* What the caller learns of the errors is right (parse_error_impl, post_parse): no more
\* problems than asked for; a value is returned only if there were none, or they are to
\* be ignored; an exception carries one as far as max_failures leaves room for it; and
\* the problems are in the order of the input.
ReportIsSound ==
    /\ Len(problems) <= IF FailFast THEN 1 ELSE opts.max_failures
    /\ outcome = "returned" /\ opts.failure_mode # "ignore" => problems = <<>>
    /\ outcome = "thrown" /\ (FailFast \/ opts.max_failures > 0) => problems # <<>>
    /\ \A i, j \in DOMAIN problems : i <= j =>
          /\ problems[i].line <= problems[j].line
          /\ problems[i].character <= problems[j].character

\* While no error has been found, the active calls of parse_array and parse_object are
\* the brackets and braces that are open in the input: no call returns early or late.
StackMirrorsBrackets ==
    outcome = "running" /\ successful => Fns(stack) = Nesting[Kinds(Handled)]

\* The position is that of the current token in the input of this call: line and column
\* count the breaks and characters before it, character is its offset.  After the end of
\* the input character is the length of the input.
PositionIsThatOfTheToken ==
    /\ pos.line # 0 /\ ~complete => IsAfter(pos, SubSeq(Taken, 1, Len(Taken) - 1))
    /\ complete => pos.character = Chars(Taken)
=============================================================================
