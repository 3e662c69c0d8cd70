---------------------------- MODULE ParserProofs ----------------------------
(***************************************************************************)
(* Proofs about Parser: its types, its report, the trees it builds and     *)
(* the positions of its tokens; that it implements JsonAutomaton, and that *)
(* it agrees with JsonGrammar, through JsonReader.                         *)
(***************************************************************************)
EXTENDS ParserGrammar, GrammarProofs

Frames == [fn : ContainerKinds, trailing : BOOLEAN, key : Text, out : Trees]

\* The calls of next that parse_array and parse_object make.
ContainerSites == {"item", "item_end", "key", "colon", "member_end"}

\* The tokenizer and the position in its input.  Unless the parse has just begun or
\* has met the end, there is a token to move over.
InputType ==
    /\ scenario \in Scenarios
    /\ seen \in Seq(scenario.tokens) /\ begin \in 0 .. Len(seen)
    /\ exhausted \in BOOLEAN /\ calls \in Nat
    /\ pos \in Positions /\ complete \in BOOLEAN
    /\ pos.line # 0 /\ ~complete => seen # <<>>

ErrorType ==
    /\ successful \in BOOLEAN
    /\ problems \in Seq(Positions)
    /\ outcome \in {"running", "returned", "thrown"}

\* The point reached inside parse.  parse_array and parse_object only run with a
\* frame of theirs, and a token is only handled once there is one.
ControlType ==
    /\ stack \in Seq(Frames)
    /\ pc \in NextSites \cup {"return", "finish", "done"}
    /\ got \in {"none", "token", "end"}
    /\ ret \in BOOLEAN /\ val \in Trees
    /\ got # "none" => pc \in NextSites
    /\ got = "token" => seen # <<>>
    /\ pc \in ContainerSites => stack # <<>>
    /\ outcome = "running" <=> pc # "done"

TypeInv == InputType /\ ErrorType /\ ControlType

-----------------------------------------------------------------------------
(* What the pieces of the actions do to the types. *)

\* The options and the current token of a state are what the scenario says they are.
LEMMA ScenarioTypes ==
  ASSUME InputType
  PROVE  /\ OptionsOK(opts)
         /\ seen # <<>> => Current \in scenario.tokens /\ TokenOK(Current)
<1>1. ScenarioOK(scenario)
  BY ScenariosAssumption DEF InputType
<1>2. ASSUME seen # <<>> PROVE Current \in scenario.tokens
  BY <1>2 DEF InputType, Current
<1>. QED
  BY <1>1, <1>2 DEF ScenarioOK, opts

\* Moving over a token goes forward, by lines and by characters.
LEMMA OverGoesForward ==
  ASSUME NEW p \in Positions, NEW t, TokenOK(t)
  PROVE  /\ Over(p, t) \in Positions
         /\ p.line <= Over(p, t).line
         /\ p.character < Over(p, t).character
<1>1. t.size \in Nat \ {0} /\ t.lines \in Nat /\ t.tail \in Nat
  BY DEF TokenOK
<1>. QED
  BY <1>1 DEF Over, Positions

\* So does every call of parse_context::next.
LEMMA AdvancedGoesForward ==
  ASSUME InputType
  PROVE  /\ Advanced \in Positions
         /\ Advanced.line # 0 \/ complete \/ seen # <<>>
         /\ pos.line <= Advanced.line
         /\ pos.character <= Advanced.character
<1>1. CASE ~complete /\ pos.line # 0
  <2>1. seen # <<>>
    BY <1>1 DEF InputType
  <2>2. Advanced = Over(pos, Current)
    BY <1>1 DEF Advanced
  <2>3. pos \in Positions /\ TokenOK(Current)
    BY <2>1, ScenarioTypes DEF InputType
  <2>4. /\ Over(pos, Current) \in Positions
        /\ pos.line <= Over(pos, Current).line
        /\ pos.character < Over(pos, Current).character
    BY <2>3, OverGoesForward
  <2>. QED
    BY <2>1, <2>2, <2>3, <2>4 DEF Positions
<1>2. CASE ~(~complete /\ pos.line # 0)
  BY <1>2 DEF Advanced, InputType, Positions
<1>. QED
  BY <1>1, <1>2

\* A frame pushed, popped or replaced leaves a stack of frames.
LEMMA StackTypes ==
  ASSUME ControlType, stack # <<>>
  PROVE  /\ Top \in Frames
         /\ Popped \in Seq(Frames)
         /\ \A f \in Frames : WithTop(f) \in Seq(Frames) /\ WithTop(f) # <<>>
<1>1. stack \in Seq(Frames) /\ Len(stack) \in 1 .. Len(stack)
  BY DEF ControlType
<1>2. Top \in Frames
  BY <1>1 DEF Top
<1>3. Popped \in Seq(Frames)
  BY <1>1 DEF Popped
<1>4. ASSUME NEW f \in Frames PROVE WithTop(f) \in Seq(Frames) /\ WithTop(f) # <<>>
  BY <1>1 DEF WithTop
<1>. QED
  BY <1>2, <1>3, <1>4

LEMMA PushTypes ==
  ASSUME ControlType, NEW f \in Frames
  PROVE  Append(stack, f) \in Seq(Frames) /\ Append(stack, f) # <<>>
  BY DEF ControlType

\* An error that is recorded.
LEMMA ComplainTypes ==
  ASSUME ErrorType, NEW at \in Positions, Complain(at)
  PROVE  ErrorType'
<1>1. Append(problems, at) \in Seq(Positions) /\ problems \in Seq(Positions)
  BY DEF ErrorType
<1>2. Recorded(at) = Append(problems, at) \/ Recorded(at) = problems
  BY DEF Recorded
<1>. QED
  BY <1>1, <1>2 DEF ErrorType, Complain

\* An error that leaves parse.
LEMMA ThrowTypes ==
  ASSUME ErrorType, NEW at \in Positions, Throw(at)
  PROVE  ErrorType' /\ ControlType'
<1>1. <<at>> \in Seq(Positions)
  OBVIOUS
<1>2. <<>> \in Seq(Frames)
  OBVIOUS
<1>. QED
  BY <1>1, <1>2, ConstantTrees DEF ErrorType, ControlType, Throw, NextSites, ContainerSites

\* A call of next.
LEMMA AskTypes ==
  ASSUME ControlType, outcome = "running", UNCHANGED outcome,
         NEW site \in NextSites, NEW s \in Seq(Frames),
         site \in ContainerSites => s # <<>>,
         Ask(site, s)
  PROVE  ControlType'
  BY DEF ControlType, Ask, NextSites

\* A return from parse_generic.
LEMMA ReturnTypes ==
  ASSUME ControlType, outcome = "running", UNCHANGED outcome,
         NEW b \in BOOLEAN, NEW v \in Trees, NEW s \in Seq(Frames),
         Return(b, v, s)
  PROVE  ControlType'
  BY DEF ControlType, Return, NextSites, ContainerSites

\* A step that stays in parse, with or without a complaint at the current position, or
\* leaves it.
Noted == UNCHANGED errors \/ (~FailFast /\ Complain(pos))

LEMMA HandledTypes ==
  ASSUME TypeInv, UNCHANGED <<input, position>>,
         (ControlType' /\ Noted) \/ Throw(pos)
  PROVE  TypeInv'
<1>1. InputType'
  BY DEF TypeInv, InputType, input, position
<1>2. pos \in Positions
  BY DEF TypeInv, InputType
<1>3. CASE ControlType' /\ UNCHANGED errors
  BY <1>1, <1>3 DEF TypeInv, errors, ErrorType
<1>4. CASE ControlType' /\ Complain(pos)
  BY <1>1, <1>2, <1>4, ComplainTypes DEF TypeInv
<1>5. CASE Throw(pos)
  BY <1>1, <1>2, <1>5, ThrowTypes DEF TypeInv
<1>. QED
  BY <1>3, <1>4, <1>5 DEF Noted

-----------------------------------------------------------------------------
(* The actions, a function of parse.cpp at a time. *)

\* parse_context::next keeps the types.
LEMMA NextSitesTypes ==
  ASSUME TypeInv, NextToken \/ SkipWhitespace \/ SkipComment \/ NextEnd
  PROVE  TypeInv'
<1>. USE DEF TypeInv
<1>1. /\ Advanced \in Positions
      /\ Advanced.line # 0 \/ complete \/ seen # <<>>
  BY AdvancedGoesForward
<1>2. ASSUME NEW t \in scenario.tokens, Deliver(t) PROVE InputType' /\ seen' # <<>>
  <2>1. /\ Append(seen, t) \in Seq(scenario.tokens)
        /\ Append(seen, t) # <<>>
        /\ begin \in 0 .. Len(Append(seen, t))
    BY DEF InputType
  <2>. QED
    BY <1>1, <1>2, <2>1 DEF InputType, Deliver
<1>3. CASE NextToken
  <2>1. PICK t \in scenario.tokens :
          Deliver(t) /\ got' = "token" /\ UNCHANGED <<errors, stack, pc, ret, val>>
    BY <1>3 DEF NextToken
  <2>2. pc \in NextSites
    BY <2>1 DEF Deliver
  <2>. QED
    BY <1>2, <2>1, <2>2 DEF ErrorType, ControlType, errors
<1>4. CASE SkipWhitespace
  <2>1. PICK t \in scenario.tokens : Deliver(t) /\ UNCHANGED <<errors, control>>
    BY <1>4 DEF SkipWhitespace
  <2>. QED
    BY <1>2, <2>1 DEF ErrorType, ControlType, errors, control
<1>5. CASE SkipComment
  <2>1. PICK t \in scenario.tokens :
          Deliver(t) /\ Checked(~opts.comments, Advanced, UNCHANGED control)
    BY <1>5 DEF SkipComment
  <2>2. InputType' /\ seen' # <<>>
    BY <1>2, <2>1
  <2>3. \/ UNCHANGED <<errors, control>>
        \/ Complain(Advanced) /\ UNCHANGED control
        \/ Throw(Advanced)
    BY <2>1 DEF Checked
  <2>4. CASE UNCHANGED <<errors, control>>
    BY <2>2, <2>4 DEF ErrorType, ControlType, errors, control
  <2>5. CASE Complain(Advanced) /\ UNCHANGED control
    <3>1. ErrorType'
      BY <1>1, <2>5, ComplainTypes
    <3>. QED
      BY <2>2, <2>5, <3>1 DEF ControlType, control, Complain
  <2>6. CASE Throw(Advanced)
    BY <1>1, <2>2, <2>6, ThrowTypes
  <2>. QED
    BY <2>3, <2>4, <2>5, <2>6
<1>6. CASE NextEnd
  BY <1>1, <1>6 DEF NextEnd, InputType, ErrorType, ControlType, errors
<1>. QED
  BY <1>3, <1>4, <1>5, <1>6

\* What is known where a token is handled, or the end.
LEMMA HandlingTypes ==
  ASSUME TypeInv, got # "none" \/ pc = "return"
  PROVE  /\ outcome = "running"
         /\ pos \in Positions
         /\ got = "token" => Current \in scenario.tokens /\ TokenOK(Current)
  BY ScenarioTypes DEF TypeInv, ControlType, NextSites, InputType

\* parse_generic and the functions for scalars keep the types.
LEMMA GenericTypes ==
  ASSUME TypeInv,
         \/ Scalar \/ OpenArray \/ OpenObject \/ Invalid \/ NoValue
         \/ Skip \/ SkipToEnd
  PROVE  TypeInv'
<1>. USE DEF TypeInv
<1>1. stack \in Seq(Frames)
  BY DEF ControlType
<1>2. ASSUME Dispatching \/ At("skip") \/ AtEnd("value") \/ AtEnd("skip")
      PROVE  outcome = "running" /\ pos \in Positions
  BY <1>2, HandlingTypes DEF Dispatching, At, AtEnd
<1>3. CASE Scalar
  <2>. DEFINE v == Leaf(Label(Current.kind, Current.means))
  <2>1. TokenOK(Current) /\ Current.kind \in ScalarTokenKinds
    BY <1>3, HandlingTypes DEF Scalar, Dispatching, At
  <2>2. Label(Current.kind, Current.means) \in Labels
    BY <2>1 DEF TokenOK, Label, Labels, ScalarTokenKinds
  <2>3. v \in Trees
    BY <2>2, LeafIsTree
  <2>4. \/ Return(TRUE, v, stack) /\ Noted
        \/ Throw(pos)
    BY <1>3 DEF Scalar, Checked, Noted
  <2>5. ASSUME Return(TRUE, v, stack), Noted PROVE ControlType'
    BY <1>1, <1>2, <1>3, <2>3, <2>5, ReturnTypes DEF Scalar, Noted, Complain, errors
  <2>. QED
    BY <1>3, <2>4, <2>5, HandledTypes DEF Scalar
<1>4. CASE OpenArray
  <2>1. Frame("array", EmptyArray) \in Frames
    BY ConstantTrees DEF Frame, Frames, ContainerKinds, Text
  <2>2. ControlType'
    BY <1>2, <1>4, <2>1, PushTypes, AskTypes DEF OpenArray, errors, NextSites
  <2>. QED
    BY <1>4, <2>2, HandledTypes DEF OpenArray, Noted
<1>5. CASE OpenObject
  <2>1. Frame("object", EmptyObject) \in Frames
    BY ConstantTrees DEF Frame, Frames, ContainerKinds, Text
  <2>2. ControlType'
    BY <1>2, <1>5, <2>1, PushTypes, AskTypes DEF OpenObject, errors, NextSites
  <2>. QED
    BY <1>5, <2>2, HandledTypes DEF OpenObject, Noted
<1>6. CASE Invalid
  <2>1. \/ Ask("skip", stack) /\ Noted
        \/ Throw(pos)
    BY <1>6 DEF Invalid, Checked, Noted
  <2>2. ASSUME Ask("skip", stack), Noted PROVE ControlType'
    BY <1>1, <1>2, <1>6, <2>2, AskTypes
       DEF Invalid, Noted, Complain, errors, NextSites, ContainerSites
  <2>. QED
    BY <1>6, <2>1, <2>2, HandledTypes DEF Invalid
<1>7. CASE NoValue
  <2>1. ControlType'
    BY <1>1, <1>2, <1>7, ConstantTrees, ReturnTypes DEF NoValue, errors
  <2>. QED
    BY <1>7, <2>1, HandledTypes DEF NoValue, Noted
<1>8. CASE Skip
  <2>1. \/ Ask("skip", stack)
        \/ Return(TRUE, Null, stack)
    BY <1>8 DEF Skip
  <2>2. ControlType'
    BY <1>1, <1>2, <1>8, <2>1, ConstantTrees, AskTypes, ReturnTypes
       DEF Skip, errors, NextSites, ContainerSites
  <2>. QED
    BY <1>8, <2>2, HandledTypes DEF Skip, Noted
<1>9. CASE SkipToEnd
  <2>1. ControlType'
    BY <1>1, <1>2, <1>9, ConstantTrees, ReturnTypes DEF SkipToEnd, errors
  <2>. QED
    BY <1>9, <2>1, HandledTypes DEF SkipToEnd, Noted
<1>. QED
  BY <1>3, <1>4, <1>5, <1>6, <1>7, <1>8, <1>9

\* parse_array keeps the types.
LEMMA ArrayTypes ==
  ASSUME TypeInv,
         \/ CloseArrayForItem \/ ReturnToArray \/ CloseArray
         \/ ArraySeparator \/ NoArraySeparator \/ UnmatchedBracket
  PROVE  TypeInv'
<1>. USE DEF TypeInv
<1>1. /\ stack # <<>>
      /\ outcome = "running"
      /\ stack \in Seq(Frames)
  BY HandlingTypes
     DEF CloseArrayForItem, ReturnToArray, CloseArray, ArraySeparator, NoArraySeparator,
         UnmatchedBracket, At, AtEnd, ControlType, ContainerSites
<1>2. /\ Top \in Frames
      /\ Popped \in Seq(Frames)
      /\ \A f \in Frames : WithTop(f) \in Seq(Frames) /\ WithTop(f) # <<>>
  BY <1>1, StackTypes
<1>3. Top.out \in Trees
  BY <1>2 DEF Frames
<1>4. ASSUME NEW b \in BOOLEAN, Return(b, Top.out, Popped), UNCHANGED outcome
      PROVE  ControlType'
  BY <1>1, <1>2, <1>3, <1>4, ReturnTypes
<1>5. CASE CloseArrayForItem
  <2>1. \/ Return(TRUE, Top.out, Popped) /\ Noted
        \/ Throw(pos)
    BY <1>5 DEF CloseArrayForItem, Checked, Noted
  <2>. QED
    BY <1>4, <1>5, <2>1, HandledTypes DEF CloseArrayForItem, Noted, Complain, errors
<1>6. CASE ReturnToArray
  <2>. DEFINE f == [Top EXCEPT !.trailing = FALSE, !.out = PushBack(@, val)]
  <2>1. PushBack(Top.out, val) \in Trees
    BY <1>3, BuildingTrees DEF ControlType
  <2>2. f \in Frames
    BY <1>2, <2>1 DEF Frames
  <2>3. \/ Ask("item_end", WithTop(f))
        \/ Ask("item_end", stack)
    BY <1>6 DEF ReturnToArray
  <2>4. ControlType'
    BY <1>1, <1>2, <1>6, <2>2, <2>3, AskTypes DEF ReturnToArray, NextSites, errors
  <2>. QED
    BY <1>6, <2>4, HandledTypes DEF ReturnToArray, Noted
<1>7. CASE CloseArray
  BY <1>4, <1>7, HandledTypes DEF CloseArray, Noted, errors
<1>8. CASE ArraySeparator
  <2>. DEFINE f == [Top EXCEPT !.trailing = TRUE]
  <2>1. f \in Frames
    BY <1>2 DEF Frames
  <2>2. ControlType'
    BY <1>1, <1>2, <1>8, <2>1, AskTypes DEF ArraySeparator, NextSites, errors
  <2>. QED
    BY <1>8, <2>2, HandledTypes DEF ArraySeparator, Noted
<1>9. CASE NoArraySeparator
  <2>1. \/ Ask("item", stack) /\ Noted
        \/ Throw(pos)
    BY <1>9 DEF NoArraySeparator, Checked, Noted
  <2>2. ASSUME Ask("item", stack), Noted PROVE ControlType'
    BY <1>1, <2>2, AskTypes DEF Noted, Complain, errors, NextSites
  <2>. QED
    BY <1>9, <2>1, <2>2, HandledTypes DEF NoArraySeparator
<1>10. CASE UnmatchedBracket
  <2>1. \/ Return(FALSE, Top.out, Popped) /\ Noted
        \/ Throw(pos)
    BY <1>10 DEF UnmatchedBracket, Checked, Noted
  <2>. QED
    BY <1>4, <1>10, <2>1, HandledTypes DEF UnmatchedBracket, Noted, Complain, errors
<1>. QED
  BY <1>5, <1>6, <1>7, <1>8, <1>9, <1>10

\* parse_object keeps the types.
LEMMA ObjectTypes ==
  ASSUME TypeInv,
         \/ MemberKey \/ CloseObjectForKey \/ Delimiter
         \/ ReturnToObject \/ IncompleteMember \/ CloseObject
         \/ ObjectSeparator \/ NoObjectSeparator \/ UnmatchedBrace
  PROVE  TypeInv'
<1>. USE DEF TypeInv
<1>1. /\ stack # <<>>
      /\ outcome = "running"
      /\ stack \in Seq(Frames)
  BY HandlingTypes
     DEF MemberKey, CloseObjectForKey, Delimiter, ReturnToObject, IncompleteMember,
         CloseObject, ObjectSeparator, NoObjectSeparator, UnmatchedBrace,
         At, AtEnd, ControlType, ContainerSites
<1>2. /\ Top \in Frames
      /\ Popped \in Seq(Frames)
      /\ \A f \in Frames : WithTop(f) \in Seq(Frames) /\ WithTop(f) # <<>>
  BY <1>1, StackTypes
<1>3. Top.out \in Trees /\ Top.key \in Text /\ Top.trailing \in BOOLEAN
  BY <1>2 DEF Frames
<1>4. ASSUME NEW b \in BOOLEAN, Return(b, Top.out, Popped), UNCHANGED outcome
      PROVE  ControlType'
  BY <1>1, <1>2, <1>3, <1>4, ReturnTypes
<1>5. ASSUME NEW site \in NextSites, NEW f \in Frames, Ask(site, WithTop(f)),
             UNCHANGED outcome
      PROVE  ControlType'
  BY <1>1, <1>2, <1>5, AskTypes
<1>6. ASSUME NEW site \in NextSites, Ask(site, stack), UNCHANGED outcome
      PROVE  ControlType'
  BY <1>1, <1>6, AskTypes
<1>7. /\ {"key", "colon", "value", "member_end"} \subseteq NextSites
      /\ Noted => UNCHANGED outcome
  BY DEF NextSites, Noted, Complain, errors
<1>8. CASE MemberKey
  <2>. DEFINE isString == Current.kind = "string"
              f == [Top EXCEPT !.trailing = @ /\ ~isString,
                               !.key = IF isString THEN Current.means ELSE Current.text]
  <2>1. Current.means \in Text /\ Current.text \in Text
    BY <1>8, HandlingTypes DEF MemberKey, At, TokenOK
  <2>2. (Top.trailing /\ ~isString) \in BOOLEAN
    OBVIOUS
  <2>3. f \in Frames
    BY <1>2, <2>1, <2>2 DEF Frames
  <2>4. \/ Ask("colon", WithTop(f)) /\ Noted
        \/ Throw(pos)
    BY <1>8 DEF MemberKey, Checked, Noted
  <2>. QED
    BY <1>5, <1>7, <1>8, <2>3, <2>4, HandledTypes DEF MemberKey
<1>9. CASE CloseObjectForKey
  <2>1. \/ Return(TRUE, Top.out, Popped) /\ Noted
        \/ Throw(pos)
    BY <1>9 DEF CloseObjectForKey, Checked, Noted
  <2>. QED
    BY <1>4, <1>7, <1>9, <2>1, HandledTypes DEF CloseObjectForKey
<1>10. CASE Delimiter
  <2>1. \/ Ask("value", stack) /\ Noted
        \/ Throw(pos)
    BY <1>10 DEF Delimiter, Checked, Noted
  <2>. QED
    BY <1>6, <1>7, <1>10, <2>1, HandledTypes DEF Delimiter
<1>11. CASE ReturnToObject
  <2>. DEFINE f == [Top EXCEPT !.out = PutMember(@, Top.key, val)]
  <2>1. PutMember(Top.out, Top.key, val) \in Trees
    BY <1>3, BuildingTrees DEF ControlType
  <2>2. f \in Frames
    BY <1>2, <2>1 DEF Frames
  <2>3. \/ Ask("member_end", WithTop(f)) /\ Noted
        \/ Throw(pos)
    BY <1>11 DEF ReturnToObject, Checked, Noted
  <2>. QED
    BY <1>5, <1>7, <1>11, <2>2, <2>3, HandledTypes DEF ReturnToObject
<1>12. CASE IncompleteMember
  <2>1. \/ Return(FALSE, Top.out, Popped) /\ Noted
        \/ Throw(pos)
    BY <1>12 DEF IncompleteMember, Checked, Noted
  <2>. QED
    BY <1>4, <1>7, <1>12, <2>1, HandledTypes DEF IncompleteMember
<1>13. CASE CloseObject
  BY <1>4, <1>7, <1>13, HandledTypes DEF CloseObject, Noted
<1>14. CASE ObjectSeparator
  <2>. DEFINE f == [Top EXCEPT !.trailing = TRUE]
  <2>1. f \in Frames
    BY <1>2 DEF Frames
  <2>. QED
    BY <1>5, <1>7, <1>14, <2>1, HandledTypes DEF ObjectSeparator, Noted
<1>15. CASE NoObjectSeparator
  <2>1. \/ Ask("key", stack) /\ Noted
        \/ Throw(pos)
    BY <1>15 DEF NoObjectSeparator, Checked, Noted
  <2>. QED
    BY <1>6, <1>7, <1>15, <2>1, HandledTypes DEF NoObjectSeparator
<1>16. CASE UnmatchedBrace
  <2>1. \/ Return(FALSE, Top.out, Popped) /\ Noted
        \/ Throw(pos)
    BY <1>16 DEF UnmatchedBrace, Checked, Noted
  <2>. QED
    BY <1>4, <1>7, <1>16, <2>1, HandledTypes DEF UnmatchedBrace
<1>. QED
  BY <1>8, <1>9, <1>10, <1>11, <1>12, <1>13, <1>14, <1>15, <1>16

\* There are finitely many final complaints.
LEMMA FinalComplaintsIsNat == ASSUME TypeInv PROVE FinalComplaints \in Nat
<1>1. ASSUME NEW d PROVE Cardinality(ContainersAtDepth(val, d)) \in Nat
  <2>1. IsFiniteSet(DOMAIN val)
    BY DEF TypeInv, ControlType, Trees
  <2>2. ContainersAtDepth(val, d) \subseteq DOMAIN val
    BY DEF ContainersAtDepth
  <2>. QED
    BY <2>1, <2>2, FS_Subset, FS_CardinalityType
<1>. QED
  BY <1>1 DEF FinalComplaints

\* Recording n times appends the current position, as often as there is room.
LEMMA RecordedTimesAppends ==
  ASSUME TypeInv, NEW n \in Nat
  PROVE  /\ RecordedTimes(n) \in Seq(Positions)
         /\ Len(RecordedTimes(n)) >= Len(problems)
         /\ Len(RecordedTimes(n)) > Len(problems) =>
              Len(RecordedTimes(n)) <= opts.max_failures
         /\ n > 0 /\ Len(problems) < opts.max_failures =>
              Len(RecordedTimes(n)) > Len(problems)
         /\ n = 0 => RecordedTimes(n) = problems
         /\ \A i \in 1 .. Len(RecordedTimes(n)) :
              RecordedTimes(n)[i] = IF i <= Len(problems) THEN problems[i] ELSE pos
<1>. DEFINE room == IF Len(problems) < opts.max_failures
                    THEN opts.max_failures - Len(problems) ELSE 0
            m == Least(n, room)
            more == [i \in 1 .. m |-> pos]
<1>1. /\ problems \in Seq(Positions) /\ pos \in Positions
      /\ Len(problems) \in Nat /\ opts.max_failures \in Nat
  BY ScenarioTypes DEF TypeInv, ErrorType, InputType, OptionsOK
<1>2. /\ m \in Nat /\ m <= n /\ m <= room
      /\ n > 0 /\ room > 0 => m > 0
  BY <1>1 DEF Least
<1>3. more \in Seq(Positions) /\ Len(more) = m /\ \A i \in 1 .. m : more[i] = pos
  <2>. HIDE DEF m
  <2>. QED
    BY <1>1, <1>2
<1>4. RecordedTimes(n) = problems \o more
  BY DEF RecordedTimes
<1>. HIDE DEF more
<1>5. /\ problems \o more \in Seq(Positions)
      /\ Len(problems \o more) = Len(problems) + m
      /\ \A i \in 1 .. Len(problems) + m :
           (problems \o more)[i] = IF i <= Len(problems) THEN problems[i]
                                   ELSE more[i - Len(problems)]
  BY <1>1, <1>2, <1>3, ConcatProperties
<1>6. \A i \in 1 .. Len(problems) + m :
        (problems \o more)[i] = IF i <= Len(problems) THEN problems[i] ELSE pos
  <2>. HIDE DEF m
  <2>1. ASSUME NEW i \in 1 .. Len(problems) + m, ~(i <= Len(problems))
        PROVE  i - Len(problems) \in 1 .. m
    BY <1>1, <1>2, <2>1
  <2>. QED
    BY <1>1, <1>2, <1>3, <1>5, <2>1
<1>7. n = 0 => problems \o more = problems
  <2>. SUFFICES ASSUME n = 0 PROVE problems \o more = problems
    OBVIOUS
  <2>1. m = 0
    BY <1>1, <1>2
  <2>. HIDE DEF m
  <2>2. /\ Len(problems \o more) = Len(problems)
        /\ \A i \in 1 .. Len(problems) : (problems \o more)[i] = problems[i]
    BY <1>1, <1>5, <2>1
  <2>. QED
    BY <1>1, <1>5, <2>2, SeqEqual
<1>8. /\ Len(problems) + m > Len(problems) => Len(problems) + m <= opts.max_failures
      /\ n > 0 /\ Len(problems) < opts.max_failures => m > 0
  BY <1>1, <1>2
<1>. HIDE DEF m
<1>. QED
  BY <1>1, <1>2, <1>4, <1>5, <1>6, <1>7, <1>8

\* parse and post_parse keep the types.
LEMMA ParseTypes ==
  ASSUME TypeInv,
         ReturnToParse \/ Trailing \/ TrailingEnd \/ Finish \/ ParseAgain \/ Stop
  PROVE  TypeInv'
<1>. USE DEF TypeInv
<1>1. stack \in Seq(Frames) /\ pos \in Positions
  BY DEF ControlType, InputType
<1>2. CASE ReturnToParse
  <2>1. outcome = "running"
    BY <1>2, HandlingTypes DEF ReturnToParse
  <2>2. \/ /\ pc' \in {"trailing", "finish"} /\ UNCHANGED <<stack, got, ret, val>>
           /\ Noted
        \/ Throw(pos)
    BY <1>2 DEF ReturnToParse, Checked, Noted
  <2>3. ASSUME pc' \in {"trailing", "finish"}, UNCHANGED <<stack, got, ret, val>>, Noted
        PROVE  ControlType'
    BY <1>2, <2>1, <2>3
       DEF ReturnToParse, ControlType, Noted, Complain, errors, NextSites, ContainerSites
  <2>. QED
    BY <1>2, <2>2, <2>3, HandledTypes DEF ReturnToParse
<1>3. CASE Trailing
  <2>1. outcome = "running"
    BY <1>3, HandlingTypes DEF Trailing, At
  <2>2. \/ Ask("trailing", stack) /\ Noted
        \/ Throw(pos)
    BY <1>3 DEF Trailing, Checked, Noted
  <2>3. ASSUME Ask("trailing", stack), Noted PROVE ControlType'
    BY <1>1, <2>1, <2>3, AskTypes DEF Noted, Complain, errors, NextSites, ContainerSites
  <2>. QED
    BY <1>3, <2>2, <2>3, HandledTypes DEF Trailing
<1>4. CASE TrailingEnd
  <2>1. ControlType'
    BY <1>4 DEF TrailingEnd, AtEnd, ControlType, errors, NextSites, ContainerSites
  <2>. QED
    BY <1>4, <2>1, HandledTypes DEF TrailingEnd, Noted
<1>5. CASE Finish
  <2>1. InputType'
    BY <1>5 DEF Finish, InputType, input, position
  <2>2. CASE Throw(pos)
    BY <1>1, <2>1, <2>2, ThrowTypes
  <2>3. CASE ~Throw(pos)
    <3>1. RecordedTimes(FinalComplaints) \in Seq(Positions)
      BY FinalComplaintsIsNat, RecordedTimesAppends
    <3>2. /\ pc = "finish" /\ pc' = "done" /\ UNCHANGED <<stack, got, ret, val>>
          /\ successful' = (successful /\ FinalComplaints = 0)
          /\ problems' \in Seq(Positions)
          /\ outcome' \in {"returned", "thrown"}
      BY <1>5, <2>3, <3>1 DEF Finish
    <3>3. successful' \in BOOLEAN
      BY <3>2
    <3>. QED
      BY <1>5, <2>1, <3>2, <3>3
         DEF Finish, ErrorType, ControlType, input, ContainerSites, NextSites
  <2>. QED
    BY <2>2, <2>3
<1>6. CASE ParseAgain
  <2>1. Start \in Positions /\ Start.line = 0
    BY DEF Start, Positions
  <2>2. <<>> \in Seq(Frames) /\ <<>> \in Seq(Positions)
    OBVIOUS
  <2>3. InputType'
    <3>1. scenario' = scenario /\ seen' = seen /\ exhausted' = exhausted
      BY <1>6 DEF ParseAgain
    <3>2. begin' \in 0 .. Len(seen') /\ calls' \in Nat
      BY <1>6, <3>1 DEF ParseAgain, InputType
    <3>3. pos' = Start /\ complete' = FALSE
      BY <1>6 DEF ParseAgain
    <3>4. pos'.line = 0 /\ pos' \in Positions
      BY <2>1, <3>3
    <3>. QED
      BY <3>1, <3>2, <3>3, <3>4 DEF InputType
  <2>4. ErrorType'
    BY <1>6, <2>2 DEF ParseAgain, ErrorType
  <2>5. ControlType'
    BY <1>6, <2>2, ConstantTrees DEF ParseAgain, ControlType, NextSites, ContainerSites
  <2>. QED
    BY <2>3, <2>4, <2>5
<1>7. CASE Stop
  BY <1>7 DEF Stop, vars, input, errors, position, control, InputType, ErrorType, ControlType
<1>. QED
  BY <1>2, <1>3, <1>4, <1>5, <1>6, <1>7

\* Nothing happens in a stuttering step.
LEMMA StutteringTypes == ASSUME TypeInv, UNCHANGED vars PROVE TypeInv'
  BY DEF TypeInv, vars, input, errors, position, control, InputType, ErrorType, ControlType

\* The first call of parse begins with the right types.
LEMMA InitialTypes == ASSUME Init PROVE TypeInv
<1>1. Start \in Positions /\ Start.line = 0
  BY DEF Start, Positions
<1>2. <<>> \in Seq(Frames) /\ <<>> \in Seq(Positions) /\ <<>> \in Seq(scenario.tokens)
  OBVIOUS
<1>3. InputType
  <2>1. begin \in 0 .. Len(seen) /\ calls \in Nat
    BY DEF Init
  <2>2. pos = Start /\ pos.line = 0
    BY <1>1 DEF Init, InitialContext
  <2>. QED
    BY <1>1, <1>2, <2>1, <2>2 DEF Init, InitialContext, InputType
<1>4. ErrorType
  BY <1>2 DEF Init, InitialContext, ErrorType
<1>5. ControlType
  BY <1>2, ConstantTrees DEF Init, InitialContext, ControlType, NextSites, ContainerSites
<1>. QED
  BY <1>3, <1>4, <1>5 DEF TypeInv

\* Every step of parse keeps the types.
LEMMA StepsTypes == TypeInv /\ [Next]_vars => TypeInv'
  BY NextSitesTypes, GenericTypes, ArrayTypes, ObjectTypes, ParseTypes, StutteringTypes
     DEF Next

\* The types of the proofs are those that TLC checks.
LEMMA TypeInvImpliesTypeOK == TypeInv => TypeOK
<1>. SUFFICES ASSUME TypeInv PROVE TypeOK
  OBVIOUS
<1>1. ASSUME NEW i \in DOMAIN stack PROVE FrameOK(stack[i])
  <2>1. stack[i] \in Frames
    BY DEF TypeInv, ControlType
  <2>. QED
    BY <2>1, TreesAreTrees DEF Frames, FrameOK
<1>2. IsTree(val)
  BY TreesAreTrees DEF TypeInv, ControlType
<1>. QED
  BY <1>1, <1>2 DEF TypeInv, InputType, ErrorType, ControlType, TypeOK

\* The variables of the parser always have their types, and it has an outcome exactly when
\* it is done: whatever the options and the tokens, parse never handles a token that is
\* not there, nor works on a container it is not in.
THEOREM TypesAreRight == Spec => []TypeOK
<1>1. Spec => []TypeInv
  BY InitialTypes, StepsTypes, PTL DEF Spec
<1>. QED
  BY <1>1, TypeInvImpliesTypeOK, PTL

-----------------------------------------------------------------------------
(* What the caller learns of the errors. *)

Before(p, q) == p.line <= q.line /\ p.character <= q.character

\* The strengthening of ReportIsSound that the steps keep.  While parse runs, success
\* stands for an empty list of problems, which fail_immediately never leaves; and no
\* problem is ahead of the position.
ReportInv ==
    /\ Len(problems) <= IF FailFast THEN 1 ELSE opts.max_failures
    /\ outcome = "running" /\ successful => problems = <<>>
    /\ outcome = "running" /\ ~successful =>
         ~FailFast /\ (opts.max_failures > 0 => problems # <<>>)
    /\ outcome = "returned" /\ opts.failure_mode # "ignore" => problems = <<>>
    /\ outcome = "thrown" /\ (FailFast \/ opts.max_failures > 0) => problems # <<>>
    /\ \A i \in DOMAIN problems : Before(problems[i], pos)
    /\ \A i, j \in DOMAIN problems : i <= j => Before(problems[i], problems[j])

\* The order of positions.
LEMMA BeforeIsTransitive ==
  ASSUME NEW p \in Positions, NEW q \in Positions, NEW r \in Positions,
         Before(p, q), Before(q, r)
  PROVE  Before(p, r)
  BY DEF Before, Positions

LEMMA BeforeIsReflexive == ASSUME NEW p \in Positions PROVE Before(p, p)
  BY DEF Before, Positions

\* Moving on without an error.
LEMMA QuietReport ==
  ASSUME TypeInv, TypeInv', ReportInv, UNCHANGED <<scenario, errors>>, Before(pos, pos')
  PROVE  ReportInv'
<1>1. /\ problems' = problems /\ successful' = successful /\ outcome' = outcome
      /\ opts' = opts /\ FailFast' = FailFast
  BY DEF errors, opts, FailFast
<1>2. ASSUME NEW i \in DOMAIN problems PROVE Before(problems[i], pos')
  <2>1. /\ problems[i] \in Positions /\ pos \in Positions /\ pos' \in Positions
        /\ Before(problems[i], pos)
    BY DEF TypeInv, ErrorType, InputType, ReportInv
  <2>. QED
    BY <2>1, BeforeIsTransitive
<1>. QED
  BY <1>1, <1>2 DEF ReportInv

\* An error at the position moved to that leaves parse.
LEMMA ThrowReport ==
  ASSUME TypeInv', Throw(pos'), UNCHANGED scenario, FailFast
  PROVE  ReportInv'
<1>1. FailFast' /\ problems' = <<pos'>> /\ outcome' = "thrown" /\ pos' \in Positions
  BY DEF Throw, FailFast, opts, TypeInv, InputType
<1>2. Before(pos', pos')
  BY <1>1, BeforeIsReflexive
<1>3. DOMAIN <<pos'>> = {1} /\ Len(<<pos'>>) = 1 /\ <<pos'>>[1] = pos' /\ <<pos'>> # <<>>
  OBVIOUS
<1>. QED
  BY <1>1, <1>2, <1>3 DEF ReportInv

\* An error at the position moved to that is recorded, or dropped beyond max_failures.
LEMMA ComplainReport ==
  ASSUME TypeInv, TypeInv', ReportInv, outcome = "running", ~FailFast,
         UNCHANGED scenario, Complain(pos'), Before(pos, pos')
  PROVE  ReportInv'
<1>1. /\ opts' = opts /\ ~FailFast' /\ successful' = FALSE /\ outcome' = "running"
      /\ problems' = Recorded(pos')
      /\ problems \in Seq(Positions) /\ pos \in Positions /\ pos' \in Positions
      /\ opts.max_failures \in Nat
  BY ScenarioTypes
     DEF Complain, opts, FailFast, TypeInv, ErrorType, InputType, OptionsOK
<1>2. ASSUME NEW i \in DOMAIN problems PROVE Before(problems[i], pos')
  <2>1. problems[i] \in Positions /\ Before(problems[i], pos)
    BY <1>1 DEF ReportInv
  <2>. QED
    BY <1>1, <2>1, BeforeIsTransitive
<1>3. CASE Len(problems) < opts.max_failures
  <2>1. problems' = Append(problems, pos')
    BY <1>1, <1>3 DEF Recorded
  <2>2. /\ Len(problems') = Len(problems) + 1 /\ Len(problems) \in Nat
        /\ problems'[Len(problems) + 1] = pos'
        /\ \A i \in 1 .. Len(problems) : problems'[i] = problems[i]
        /\ problems' # <<>>
        /\ DOMAIN problems' = 1 .. Len(problems) + 1
        /\ DOMAIN problems = 1 .. Len(problems)
    BY <1>1, <2>1, AppendProperties
  <2>3. \A i \in DOMAIN problems' :
          Before(problems'[i], pos') /\ (i \in DOMAIN problems \/ problems'[i] = pos')
    BY <1>1, <1>2, <2>2, BeforeIsReflexive
  <2>4. ASSUME NEW i \in DOMAIN problems', NEW j \in DOMAIN problems', i <= j
        PROVE  Before(problems'[i], problems'[j])
    <3>1. CASE j \in DOMAIN problems
      <4>1. i \in DOMAIN problems
        BY <2>2, <2>4, <3>1
      <4>. QED
        BY <2>2, <2>4, <3>1, <4>1 DEF ReportInv
    <3>2. CASE problems'[j] = pos'
      BY <2>3, <3>2
    <3>. QED
      BY <2>3, <3>1, <3>2
  <2>5. Len(problems') <= opts'.max_failures
    BY <1>1, <1>3, <2>2
  <2>. QED
    BY <1>1, <2>2, <2>3, <2>4, <2>5 DEF ReportInv
<1>4. CASE ~(Len(problems) < opts.max_failures)
  <2>1. problems' = problems
    BY <1>1, <1>4 DEF Recorded
  <2>2. opts.max_failures > 0 => problems # <<>>
    BY <1>1, <1>4
  <2>. QED
    BY <1>1, <1>2, <2>1, <2>2 DEF ReportInv
<1>. QED
  BY <1>3, <1>4

\* Every step between two calls of next leaves the position, and notes at most one error.
LEMMA HandledReport ==
  ASSUME TypeInv, TypeInv', ReportInv, outcome = "running",
         UNCHANGED <<input, position>>,
         Noted \/ (FailFast /\ Throw(pos))
  PROVE  ReportInv'
<1>1. UNCHANGED scenario /\ pos' = pos /\ pos \in Positions
  BY DEF input, position, TypeInv, InputType
<1>2. Before(pos, pos')
  BY <1>1, BeforeIsReflexive
<1>3. CASE UNCHANGED errors
  BY <1>1, <1>2, <1>3, QuietReport
<1>4. CASE ~FailFast /\ Complain(pos)
  BY <1>1, <1>2, <1>4, ComplainReport
<1>5. CASE FailFast /\ Throw(pos)
  BY <1>1, <1>5, ThrowReport
<1>. QED
  BY <1>3, <1>4, <1>5 DEF Noted

\* The code between two calls of next is a step of that form.
LEMMA StepsAreHandled ==
  ASSUME TypeInv,
         \/ Scalar \/ OpenArray \/ OpenObject \/ Invalid \/ NoValue
         \/ Skip \/ SkipToEnd
         \/ CloseArrayForItem \/ ReturnToArray \/ CloseArray
         \/ ArraySeparator \/ NoArraySeparator \/ UnmatchedBracket
         \/ MemberKey \/ CloseObjectForKey \/ Delimiter
         \/ ReturnToObject \/ IncompleteMember \/ CloseObject
         \/ ObjectSeparator \/ NoObjectSeparator \/ UnmatchedBrace
         \/ ReturnToParse \/ Trailing \/ TrailingEnd
  PROVE  /\ outcome = "running"
         /\ UNCHANGED <<input, position>>
         /\ Noted \/ (FailFast /\ Throw(pos))
<1>1. got # "none" \/ pc = "return"
  BY DEF Scalar, OpenArray, OpenObject, Invalid, NoValue, Skip, SkipToEnd,
         CloseArrayForItem, ReturnToArray, CloseArray, ArraySeparator, NoArraySeparator,
         UnmatchedBracket, MemberKey, CloseObjectForKey, Delimiter, ReturnToObject,
         IncompleteMember, CloseObject, ObjectSeparator, NoObjectSeparator, UnmatchedBrace,
         ReturnToParse, Trailing, TrailingEnd, Dispatching, At, AtEnd
<1>2. outcome = "running"
  BY <1>1, HandlingTypes
<1>3. CASE Scalar \/ OpenArray \/ OpenObject \/ Invalid \/ NoValue \/ Skip \/ SkipToEnd
  BY <1>2, <1>3
     DEF Scalar, OpenArray, OpenObject, Invalid, NoValue, Skip, SkipToEnd, Checked, Noted
<1>4. CASE \/ CloseArrayForItem \/ ReturnToArray \/ CloseArray
           \/ ArraySeparator \/ NoArraySeparator \/ UnmatchedBracket
  BY <1>2, <1>4
     DEF CloseArrayForItem, ReturnToArray, CloseArray, ArraySeparator, NoArraySeparator,
         UnmatchedBracket, Checked, Noted
<1>5. CASE MemberKey \/ CloseObjectForKey \/ Delimiter \/ ReturnToObject
  BY <1>2, <1>5
     DEF MemberKey, CloseObjectForKey, Delimiter, ReturnToObject, Checked, Noted
<1>6. CASE \/ IncompleteMember \/ CloseObject
           \/ ObjectSeparator \/ NoObjectSeparator \/ UnmatchedBrace
  BY <1>2, <1>6
     DEF IncompleteMember, CloseObject, ObjectSeparator, NoObjectSeparator, UnmatchedBrace,
         Checked, Noted
<1>7. CASE ReturnToParse \/ Trailing \/ TrailingEnd
  BY <1>2, <1>7 DEF ReturnToParse, Trailing, TrailingEnd, Checked, Noted
<1>. QED
  BY <1>3, <1>4, <1>5, <1>6, <1>7

\* A call of parse_context::next moves on, and may complain of a comment.
LEMMA NextSitesReport ==
  ASSUME TypeInv, TypeInv', ReportInv, NextToken \/ SkipWhitespace \/ SkipComment \/ NextEnd
  PROVE  ReportInv'
<1>1. Before(pos, Advanced)
  BY AdvancedGoesForward DEF TypeInv, Before
<1>2. /\ UNCHANGED scenario /\ pos' = Advanced /\ outcome = "running"
      /\ \/ UNCHANGED errors
         \/ ~FailFast /\ Complain(Advanced)
         \/ FailFast /\ Throw(Advanced)
  <2>1. outcome = "running" \/ pc \notin NextSites
    BY DEF TypeInv, ControlType, NextSites
  <2>2. CASE NextToken
    BY <2>1, <2>2 DEF NextToken, Deliver
  <2>3. CASE SkipWhitespace
    BY <2>1, <2>3 DEF SkipWhitespace, Deliver
  <2>4. CASE SkipComment
    BY <2>1, <2>4 DEF SkipComment, Deliver, Checked
  <2>5. CASE NextEnd
    BY <2>1, <2>5 DEF NextEnd
  <2>. QED
    BY <2>2, <2>3, <2>4, <2>5
<1>. QED
  BY <1>1, <1>2, QuietReport, ComplainReport, ThrowReport

\* post_parse: the last complaints, and the decision between returning and throwing.
LEMMA FinishReport ==
  ASSUME TypeInv, TypeInv', ReportInv, Finish
  PROVE  ReportInv'
<1>. DEFINE n == FinalComplaints
            after == RecordedTimes(n)
<1>1. /\ UNCHANGED scenario /\ pos' = pos /\ pos \in Positions
      /\ opts' = opts /\ FailFast' = FailFast /\ opts.max_failures \in Nat
      /\ outcome = "running"
      /\ problems \in Seq(Positions)
      /\ n \in Nat
  BY ScenarioTypes, FinalComplaintsIsNat
     DEF Finish, input, position, opts, FailFast, TypeInv, InputType, ErrorType,
         ControlType, OptionsOK
<1>2. CASE FailFast /\ Throw(pos)
  BY <1>1, <1>2, ThrowReport
<1>3. CASE ~(FailFast /\ Throw(pos))
  <2>1. /\ ~(n > 0 /\ FailFast)
        /\ successful' = (successful /\ n = 0)
        /\ problems' = after
        /\ outcome' = IF successful' \/ opts.failure_mode = "ignore"
                      THEN "returned" ELSE "thrown"
    BY <1>3 DEF Finish
  <2>. HIDE DEF n
  <2>2. /\ after \in Seq(Positions)
        /\ Len(after) >= Len(problems)
        /\ Len(after) > Len(problems) => Len(after) <= opts.max_failures
        /\ n > 0 /\ Len(problems) < opts.max_failures => Len(after) > Len(problems)
        /\ n = 0 => after = problems
        /\ \A i \in 1 .. Len(after) :
             after[i] = IF i <= Len(problems) THEN problems[i] ELSE pos
    BY <1>1, RecordedTimesAppends
  <2>. HIDE DEF after
  <2>3. Len(after) <= IF FailFast THEN 1 ELSE opts.max_failures
    BY <1>1, <2>1, <2>2 DEF ReportInv
  <2>4. \A i \in 1 .. Len(problems) : Before(problems[i], pos)
    BY <1>1 DEF ReportInv
  <2>5. \A i \in DOMAIN after : Before(after[i], pos)
    BY <1>1, <2>2, <2>4, BeforeIsReflexive
  <2>6. ASSUME NEW i \in DOMAIN after, NEW j \in DOMAIN after, i <= j
        PROVE  Before(after[i], after[j])
    <3>1. CASE j <= Len(problems)
      <4>1. i \in DOMAIN problems /\ j \in DOMAIN problems
        BY <1>1, <2>2, <2>6, <3>1
      <4>2. after[i] = problems[i] /\ after[j] = problems[j]
        BY <1>1, <2>2, <2>6, <3>1
      <4>. QED
        BY <2>6, <4>1, <4>2 DEF ReportInv
    <3>2. CASE ~(j <= Len(problems))
      BY <2>2, <2>5, <3>2
    <3>. QED
      BY <3>1, <3>2
  <2>7. successful' => after = <<>>
    BY <1>1, <2>1, <2>2 DEF ReportInv
  <2>8. outcome' = "thrown" /\ (FailFast \/ opts.max_failures > 0) => after # <<>>
    <3>. SUFFICES ASSUME outcome' = "thrown", FailFast \/ opts.max_failures > 0
                  PROVE  after # <<>>
      OBVIOUS
    <3>1. ~successful'
      BY <2>1
    <3>2. ~successful \/ n # 0
      BY <2>1, <3>1
    <3>3. opts.max_failures > 0 /\ ~FailFast
      BY <1>1, <2>1, <3>2 DEF ReportInv
    <3>4. CASE successful
      <4>1. Len(problems) = 0
        BY <1>1, <3>4 DEF ReportInv
      <4>2. n > 0
        BY <1>1, <3>2, <3>4
      <4>. QED
        BY <1>1, <2>2, <3>3, <4>1, <4>2
    <3>5. CASE ~successful
      <4>1. Len(problems) > 0
        BY <1>1, <3>3, <3>5 DEF ReportInv
      <4>. QED
        BY <1>1, <2>2, <4>1
    <3>. QED
      BY <3>4, <3>5
  <2>9. outcome' # "running"
    BY <2>1
  <2>10. outcome' = "returned" /\ opts.failure_mode # "ignore" => after = <<>>
    BY <2>1, <2>7
  <2>. QED
    BY <1>1, <2>1, <2>3, <2>5, <2>6, <2>8, <2>9, <2>10 DEF ReportInv
<1>. QED
  BY <1>2, <1>3

\* A call of parse starts with no problems.
LEMMA FreshReport ==
  /\ Init => ReportInv
  /\ TypeInv /\ ParseAgain => ReportInv'
<1>1. Len(<<>>) = 0 /\ DOMAIN <<>> = {}
  OBVIOUS
<1>2. ASSUME Init PROVE ReportInv
  <2>1. opts.max_failures \in Nat
    BY <1>2, InitialTypes, ScenarioTypes DEF TypeInv, OptionsOK
  <2>. QED
    BY <1>1, <1>2, <2>1 DEF Init, InitialContext, ReportInv
<1>3. ASSUME TypeInv, ParseAgain PROVE ReportInv'
  <2>1. opts' = opts /\ opts.max_failures \in Nat
    BY <1>3, ScenarioTypes DEF TypeInv, OptionsOK, ParseAgain, opts
  <2>. QED
    BY <1>1, <1>3, <2>1 DEF ParseAgain, ReportInv
<1>. QED
  BY <1>2, <1>3

\* Every step keeps the strengthening.
LEMMA ReportStep == TypeInv /\ TypeInv' /\ ReportInv /\ [Next]_vars => ReportInv'
<1>. SUFFICES ASSUME TypeInv, TypeInv', ReportInv, [Next]_vars PROVE ReportInv'
  OBVIOUS
<1>1. CASE UNCHANGED vars
  <2>1. UNCHANGED <<scenario, errors>> /\ pos' = pos /\ pos \in Positions
    BY <1>1 DEF vars, input, position, TypeInv, InputType
  <2>. QED
    BY <2>1, BeforeIsReflexive, QuietReport
<1>2. CASE ParseAgain
  BY <1>2, FreshReport
<1>3. CASE Stop
  BY <1>1, <1>3 DEF Stop
<1>. QED
  BY <1>1, <1>2, <1>3, NextSitesReport, StepsAreHandled, HandledReport, FinishReport
     DEF Next

\* Whatever the options, the tokens and the length of the input: parse never reports more
\* problems than max_failures (one in fail_immediately), returns a value only if there was
\* no problem or problems are ignored, throws with a problem in hand unless max_failures is
\* 0, and lists the problems in the order of the input.
THEOREM ReportsAreSound == Spec => []ReportIsSound
<1>1. Init => ReportInv
  BY FreshReport
<1>2. ReportInv => ReportIsSound
  BY DEF ReportInv, ReportIsSound, Before
<1>3. Spec => []TypeInv
  BY InitialTypes, StepsTypes, PTL DEF Spec
<1>. QED
  BY <1>1, <1>2, <1>3, ReportStep, PTL DEF Spec

-----------------------------------------------------------------------------
(* The values under construction. *)

Sound(f) == WellFormed(f.out) /\ KindOf(f.out) = f.fn

AllSound(s) == \A i \in DOMAIN s : Sound(s[i])

\* Every value is a tree: arrays without holes, objects keyed by strings, nothing hanging
\* from a scalar.
TreesStayWellFormed ==
    /\ WellFormed(val)
    /\ \A i \in DOMAIN stack :
          WellFormed(stack[i].out) /\ KindOf(stack[i].out) = stack[i].fn

\* The frames that are left when one is pushed, popped or replaced.
LEMMA SoundStacks ==
  ASSUME TypeInv, TreesStayWellFormed
  PROVE  /\ AllSound(stack) /\ AllSound(<<>>)
         /\ \A f \in Frames : Sound(f) => AllSound(Append(stack, f))
         /\ stack # <<>> =>
              /\ Sound(Top) /\ AllSound(Popped)
              /\ \A f \in Frames : Sound(f) => AllSound(WithTop(f))
<1>. DEFINE n == Len(stack)
<1>1. stack \in Seq(Frames) /\ n \in Nat /\ DOMAIN stack = 1 .. n
  BY DEF TypeInv, ControlType
<1>2. AllSound(stack)
  BY DEF TreesStayWellFormed, AllSound, Sound
<1>3. AllSound(<<>>)
  BY DEF AllSound
<1>4. ASSUME NEW f \in Frames, Sound(f) PROVE AllSound(Append(stack, f))
  <2>1. /\ DOMAIN Append(stack, f) = 1 .. n + 1
        /\ \A i \in 1 .. n : Append(stack, f)[i] = stack[i]
        /\ Append(stack, f)[n + 1] = f
    BY <1>1, AppendProperties
  <2>2. \A i \in 1 .. n + 1 : i \in 1 .. n \/ i = n + 1
    BY <1>1
  <2>. QED
    BY <1>1, <1>2, <1>4, <2>1, <2>2 DEF AllSound
<1>5. ASSUME stack # <<>> PROVE Sound(Top) /\ AllSound(Popped)
  <2>1. n \in 1 .. n /\ n - 1 \in Nat
    BY <1>1, <1>5
  <2>2. /\ DOMAIN Popped = 1 .. n - 1
        /\ \A i \in 1 .. n - 1 : Popped[i] = stack[i] /\ i \in 1 .. n
    BY <1>1, <2>1 DEF Popped
  <2>. QED
    BY <1>1, <1>2, <2>1, <2>2 DEF AllSound, Top
<1>6. ASSUME NEW f \in Frames, Sound(f) PROVE AllSound(WithTop(f))
  <2>1. /\ DOMAIN WithTop(f) = DOMAIN stack
        /\ \A i \in DOMAIN stack : WithTop(f)[i] = stack[i] \/ WithTop(f)[i] = f
    BY <1>1 DEF WithTop
  <2>. QED
    BY <1>2, <1>6, <2>1 DEF AllSound
<1>. QED
  BY <1>2, <1>3, <1>4, <1>5, <1>6

LEMMA TreesByStack ==
  ASSUME AllSound(stack'), WellFormed(val')
  PROVE  TreesStayWellFormed'
  BY DEF TreesStayWellFormed, AllSound, Sound

\* An error that leaves parse.
LEMMA ThrowTrees ==
  ASSUME TypeInv, TreesStayWellFormed, NEW at, Throw(at)
  PROVE  TreesStayWellFormed'
  BY SoundStacks, ConstantsAreWellFormed, TreesByStack DEF Throw

\* A call of next with the same frames, or others that are sound.
LEMMA AskTrees ==
  ASSUME TreesStayWellFormed, NEW site, NEW s, Ask(site, s), AllSound(s)
  PROVE  TreesStayWellFormed'
  BY TreesByStack DEF Ask, TreesStayWellFormed

\* A return from parse_generic.
LEMMA ReturnTrees ==
  ASSUME NEW b, NEW v, NEW s, Return(b, v, s), WellFormed(v), AllSound(s)
  PROVE  TreesStayWellFormed'
  BY TreesByStack DEF Return

\* parse_context::next and parse itself build nothing.
LEMMA QuietTrees ==
  ASSUME TypeInv, TreesStayWellFormed,
         \/ NextToken \/ SkipWhitespace \/ SkipComment \/ NextEnd
         \/ ReturnToParse \/ Trailing \/ TrailingEnd \/ Finish \/ ParseAgain \/ Stop
  PROVE  TreesStayWellFormed'
<1>1. \/ UNCHANGED <<stack, val>>
      \/ Throw(pos) \/ Throw(Advanced)
      \/ stack' = <<>> /\ val' = Null
  <2>1. CASE NextToken \/ SkipWhitespace \/ SkipComment \/ NextEnd
    BY <2>1 DEF NextToken, SkipWhitespace, SkipComment, NextEnd, Checked, control
  <2>2. CASE ReturnToParse \/ Trailing \/ TrailingEnd \/ Finish \/ ParseAgain
    BY <2>2 DEF ReturnToParse, Trailing, TrailingEnd, Finish, ParseAgain, Checked, Ask
  <2>3. CASE Stop
    BY <2>3 DEF Stop, vars, control
  <2>. QED
    BY <2>1, <2>2, <2>3
<1>2. CASE UNCHANGED <<stack, val>>
  BY <1>2 DEF TreesStayWellFormed
<1>3. CASE stack' = <<>> /\ val' = Null
  BY <1>3, SoundStacks, ConstantsAreWellFormed, TreesByStack
<1>. QED
  BY <1>1, <1>2, <1>3, ThrowTrees

\* parse_generic and the functions for scalars.
LEMMA GenericTrees ==
  ASSUME TypeInv, TreesStayWellFormed,
         \/ Scalar \/ OpenArray \/ OpenObject \/ Invalid \/ NoValue
         \/ Skip \/ SkipToEnd
  PROVE  TreesStayWellFormed'
<1>1. CASE Throw(pos)
  BY <1>1, ThrowTrees
<1>2. CASE Scalar /\ ~Throw(pos)
  <2>. DEFINE l == Label(Current.kind, Current.means)
  <2>1. TokenOK(Current) /\ Current.kind \in ScalarTokenKinds
    BY <1>2, HandlingTypes DEF Scalar, Dispatching, At
  <2>2. l \in Labels
    BY <2>1 DEF TokenOK, Label, Labels, ScalarTokenKinds
  <2>3. Return(TRUE, Leaf(l), stack)
    BY <1>2 DEF Scalar, Checked
  <2>. HIDE DEF l
  <2>. QED
    BY <2>2, <2>3, LeafIsWellFormed, SoundStacks, ReturnTrees
<1>3. CASE OpenArray
  <2>. DEFINE f == Frame("array", EmptyArray)
  <2>1. f \in Frames /\ Sound(f)
    BY ConstantTrees, ConstantsAreWellFormed DEF Frame, Frames, ContainerKinds, Text, Sound
  <2>2. Ask("item", Append(stack, f))
    BY <1>3 DEF OpenArray
  <2>. HIDE DEF f
  <2>. QED
    BY <2>1, <2>2, SoundStacks, AskTrees
<1>4. CASE OpenObject
  <2>. DEFINE f == Frame("object", EmptyObject)
  <2>1. f \in Frames /\ Sound(f)
    BY ConstantTrees, ConstantsAreWellFormed DEF Frame, Frames, ContainerKinds, Text, Sound
  <2>2. Ask("key", Append(stack, f))
    BY <1>4 DEF OpenObject
  <2>. HIDE DEF f
  <2>. QED
    BY <2>1, <2>2, SoundStacks, AskTrees
<1>5. CASE (Invalid \/ NoValue \/ Skip \/ SkipToEnd) /\ ~Throw(pos)
  <2>1. Ask("skip", stack) \/ \E b \in BOOLEAN : Return(b, Null, stack)
    BY <1>5 DEF Invalid, NoValue, Skip, SkipToEnd, Checked
  <2>. QED
    BY <2>1, SoundStacks, ConstantsAreWellFormed, AskTrees, ReturnTrees
<1>. QED
  BY <1>1, <1>2, <1>3, <1>4, <1>5

\* parse_array: what it appends is well-formed, and so is what it returns.
LEMMA ArrayTrees ==
  ASSUME TypeInv, TreesStayWellFormed,
         \/ CloseArrayForItem \/ ReturnToArray \/ CloseArray
         \/ ArraySeparator \/ NoArraySeparator \/ UnmatchedBracket
  PROVE  TreesStayWellFormed'
<1>1. stack # <<>>
  BY DEF CloseArrayForItem, ReturnToArray, CloseArray, ArraySeparator, NoArraySeparator,
         UnmatchedBracket, At, AtEnd, TypeInv, ControlType, ContainerSites
<1>2. Top \in Frames /\ Sound(Top) /\ AllSound(Popped) /\ AllSound(stack)
  BY <1>1, StackTypes, SoundStacks DEF TypeInv
<1>3. CASE Throw(pos)
  BY <1>3, ThrowTrees
<1>4. CASE (CloseArrayForItem \/ CloseArray \/ UnmatchedBracket) /\ ~Throw(pos)
  <2>1. \E b \in BOOLEAN : Return(b, Top.out, Popped)
    BY <1>4 DEF CloseArrayForItem, CloseArray, UnmatchedBracket, Checked
  <2>. QED
    BY <1>2, <2>1, ReturnTrees DEF Sound
<1>5. CASE ReturnToArray
  <2>. DEFINE f == [Top EXCEPT !.trailing = FALSE, !.out = PushBack(@, val)]
  <2>1. PushBack(Top.out, val) \in Trees
    BY <1>2, BuildingTrees DEF Frames, TypeInv, ControlType
  <2>2. f \in Frames /\ f.fn = Top.fn /\ f.out = PushBack(Top.out, val)
    BY <1>2, <2>1 DEF Frames
  <2>3. Top.fn = "array"
    BY <1>5 DEF ReturnToArray
  <2>4. Ask("item_end", WithTop(f)) \/ Ask("item_end", stack)
    BY <1>5 DEF ReturnToArray
  <2>. HIDE DEF f
  <2>5. Sound(f)
    BY <1>2, <2>2, <2>3, BuildingIsWellFormed DEF Sound, TreesStayWellFormed
  <2>. QED
    BY <1>1, <1>2, <2>2, <2>4, <2>5, SoundStacks, AskTrees
<1>6. CASE ArraySeparator
  <2>. DEFINE f == [Top EXCEPT !.trailing = TRUE]
  <2>1. f \in Frames /\ Sound(f)
    BY <1>2 DEF Frames, Sound
  <2>2. Ask("item", WithTop(f))
    BY <1>6 DEF ArraySeparator
  <2>. HIDE DEF f
  <2>. QED
    BY <1>1, <2>1, <2>2, SoundStacks, AskTrees
<1>7. CASE NoArraySeparator /\ ~Throw(pos)
  <2>1. Ask("item", stack)
    BY <1>7 DEF NoArraySeparator, Checked
  <2>. QED
    BY <1>2, <2>1, AskTrees
<1>. QED
  BY <1>3, <1>4, <1>5, <1>6, <1>7

\* parse_object, whatever its keys and duplicates are.
LEMMA ObjectTrees ==
  ASSUME TypeInv, TreesStayWellFormed,
         \/ MemberKey \/ CloseObjectForKey \/ Delimiter
         \/ ReturnToObject \/ IncompleteMember \/ CloseObject
         \/ ObjectSeparator \/ NoObjectSeparator \/ UnmatchedBrace
  PROVE  TreesStayWellFormed'
<1>1. stack # <<>>
  BY DEF MemberKey, CloseObjectForKey, Delimiter, ReturnToObject, IncompleteMember,
         CloseObject, ObjectSeparator, NoObjectSeparator, UnmatchedBrace, At, AtEnd,
         TypeInv, ControlType, ContainerSites
<1>2. Top \in Frames /\ Sound(Top) /\ AllSound(Popped) /\ AllSound(stack)
  BY <1>1, StackTypes, SoundStacks DEF TypeInv
<1>3. CASE Throw(pos)
  BY <1>3, ThrowTrees
<1>4. CASE (CloseObjectForKey \/ IncompleteMember \/ CloseObject \/ UnmatchedBrace)
             /\ ~Throw(pos)
  <2>1. \E b \in BOOLEAN : Return(b, Top.out, Popped)
    BY <1>4 DEF CloseObjectForKey, IncompleteMember, CloseObject, UnmatchedBrace, Checked
  <2>. QED
    BY <1>2, <2>1, ReturnTrees DEF Sound
<1>5. CASE MemberKey /\ ~Throw(pos)
  <2>. DEFINE isString == Current.kind = "string"
              key == IF isString THEN Current.means ELSE Current.text
              f == [Top EXCEPT !.trailing = @ /\ ~isString, !.key = key]
  <2>1. TokenOK(Current)
    BY <1>5, HandlingTypes DEF MemberKey, At
  <2>2. key \in Text
    BY <2>1 DEF TokenOK
  <2>3. f \in Frames /\ f.fn = Top.fn /\ f.out = Top.out
    BY <1>2, <2>2 DEF Frames
  <2>4. Ask("colon", WithTop(f))
    BY <1>5 DEF MemberKey, Checked
  <2>. HIDE DEF f
  <2>5. Sound(f)
    BY <1>2, <2>3 DEF Sound
  <2>. QED
    BY <1>1, <2>3, <2>4, <2>5, SoundStacks, AskTrees
<1>6. CASE (Delimiter \/ NoObjectSeparator) /\ ~Throw(pos)
  <2>1. Ask("value", stack) \/ Ask("key", stack)
    BY <1>6 DEF Delimiter, NoObjectSeparator, Checked
  <2>. QED
    BY <1>2, <2>1, AskTrees
<1>7. CASE ReturnToObject /\ ~Throw(pos)
  <2>. DEFINE f == [Top EXCEPT !.out = PutMember(@, Top.key, val)]
  <2>1. PutMember(Top.out, Top.key, val) \in Trees /\ Top.key \in Text
    BY <1>2, BuildingTrees DEF Frames, TypeInv, ControlType
  <2>2. f \in Frames /\ f.fn = Top.fn /\ f.out = PutMember(Top.out, Top.key, val)
    BY <1>2, <2>1 DEF Frames
  <2>3. Top.fn = "object"
    BY <1>7 DEF ReturnToObject
  <2>4. Ask("member_end", WithTop(f))
    BY <1>7 DEF ReturnToObject, Checked
  <2>. HIDE DEF f
  <2>5. Sound(f)
    <3>1. WellFormed(Top.out) /\ KindOf(Top.out) = "object" /\ WellFormed(val)
      BY <1>2, <2>3 DEF Sound, TreesStayWellFormed
    <3>2. /\ WellFormed(PutMember(Top.out, Top.key, val))
          /\ KindOf(PutMember(Top.out, Top.key, val)) = "object"
      BY <2>1, <3>1, BuildingIsWellFormed
    <3>. QED
      BY <2>2, <2>3, <3>2 DEF Sound
  <2>. QED
    BY <1>1, <2>2, <2>4, <2>5, SoundStacks, AskTrees
<1>8. CASE ObjectSeparator
  <2>. DEFINE f == [Top EXCEPT !.trailing = TRUE]
  <2>1. f \in Frames /\ Sound(f)
    BY <1>2 DEF Frames, Sound
  <2>2. Ask("key", WithTop(f))
    BY <1>8 DEF ObjectSeparator
  <2>. HIDE DEF f
  <2>. QED
    BY <1>1, <2>1, <2>2, SoundStacks, AskTrees
<1>. QED
  BY <1>3, <1>4, <1>5, <1>6, <1>7, <1>8

\* Whatever the input is, correct or not, and however deep and long: every value that parse
\* builds, returns or hands out as a partial result is a proper tree.
LEMMA TreesAreWellFormed == Spec => []TreesStayWellFormed
<1>1. Init => TreesStayWellFormed
  BY ConstantsAreWellFormed DEF Init, InitialContext, TreesStayWellFormed
<1>2. TypeInv /\ TreesStayWellFormed /\ [Next]_vars => TreesStayWellFormed'
  <2>. SUFFICES ASSUME TypeInv, TreesStayWellFormed, [Next]_vars
                PROVE  TreesStayWellFormed'
    OBVIOUS
  <2>1. CASE UNCHANGED vars
    BY <2>1 DEF vars, control, TreesStayWellFormed
  <2>. QED
    BY <2>1, QuietTrees, GenericTrees, ArrayTrees, ObjectTrees DEF Next
<1>3. Spec => []TypeInv
  BY InitialTypes, StepsTypes, PTL DEF Spec
<1>. QED
  BY <1>1, <1>2, <1>3, PTL DEF Spec

-----------------------------------------------------------------------------
(* The position. *)

\* What a call has taken is made of tokens of the scenario.
LEMMA TakenTypes ==
  ASSUME TypeInv
  PROVE  /\ Taken \in Seq(scenario.tokens)
         /\ \A t \in scenario.tokens : TokenOK(t) /\ t.kind \in TokenKinds
<1>1. ScenarioOK(scenario)
  BY ScenariosAssumption DEF TypeInv, InputType
<1>2. PICK S : S = scenario.tokens
  OBVIOUS
<1>3. seen \in Seq(S) /\ begin \in 0 .. Len(seen)
  BY <1>2 DEF TypeInv, InputType
<1>4. SubSeq(seen, begin + 1, Len(seen)) \in Seq(S)
  BY <1>3, EndOfSequence, ZenonT(30)
<1>5. \A t \in scenario.tokens : TokenOK(t)
  BY <1>1 DEF ScenarioOK
<1>. QED
  BY <1>2, <1>4, <1>5 DEF TokenOK, Taken

\* The token a call has is the last it has taken.
LEMMA LastTaken ==
  ASSUME TypeInv, begin < Len(seen)
  PROVE  /\ Taken # <<>> /\ Current \in scenario.tokens
         /\ SubSeq(Taken, 1, Len(Taken) - 1) \in Seq(scenario.tokens)
         /\ Taken = Append(SubSeq(Taken, 1, Len(Taken) - 1), Current)
<1>1. PICK S : S = scenario.tokens
  OBVIOUS
<1>2. seen \in Seq(S) /\ begin \in 0 .. Len(seen) - 1 /\ seen # <<>>
  BY <1>1 DEF TypeInv, InputType
<1>3. Taken # <<>> /\ Taken[Len(Taken)] = Current /\ Current \in S
  <2>1. /\ SubSeq(seen, begin + 1, Len(seen)) # <<>>
        /\ SubSeq(seen, begin + 1, Len(seen))[Len(SubSeq(seen, begin + 1, Len(seen)))]
             = seen[Len(seen)]
        /\ seen[Len(seen)] \in S
    BY <1>2, LastOfSequence, ZenonT(30)
  <2>. QED
    BY <2>1 DEF Taken, Current
<1>4. Taken \in Seq(S)
  BY <1>1, TakenTypes
<1>5. /\ SubSeq(Taken, 1, Len(Taken) - 1) \in Seq(S)
      /\ Taken = Append(SubSeq(Taken, 1, Len(Taken) - 1), Taken[Len(Taken)])
  BY <1>3, <1>4, LastOfSequence, ZenonT(30)
<1>. QED
  BY <1>1, <1>3, <1>5

\* A call takes one more token.
LEMMA TakenGrows ==
  ASSUME TypeInv, UNCHANGED begin, NEW t \in scenario.tokens, seen' = Append(seen, t)
  PROVE  /\ Taken' = Append(Taken, t) /\ SubSeq(Taken', 1, Len(Taken') - 1) = Taken
         /\ begin' < Len(seen')
<1>1. PICK S : S = scenario.tokens
  OBVIOUS
<1>2. seen \in Seq(S) /\ begin \in 0 .. Len(seen) /\ t \in S
  BY <1>1 DEF TypeInv, InputType
<1>3. SubSeq(Append(seen, t), begin + 1, Len(Append(seen, t)))
        = Append(SubSeq(seen, begin + 1, Len(seen)), t)
  BY <1>2, OneElementMore, ZenonT(30)
<1>4. Taken' = Append(Taken, t) /\ Taken \in Seq(S)
  BY <1>1, <1>3, TakenTypes DEF Taken
<1>5. SubSeq(Append(Taken, t), 1, Len(Append(Taken, t)) - 1) = Taken
  BY <1>2, <1>4
<1>. QED
  BY <1>2, <1>4, <1>5

\* The sum of one number more.
LEMMA TotalSteps ==
  /\ Total[<<>>] = 0
  /\ \A ns \in Seq(Nat), n \in Nat :
       Total[ns] \in Nat /\ Total[Append(ns, n)] = Total[ns] + n
<1>. DEFINE h == [p \in Nat \X Nat |-> p[1] + p[2]]
            Defines(g) == g = [ns \in Seq(Nat) |->
              IF ns = <<>> THEN 0 ELSE g[SubSeq(ns, 1, Len(ns) - 1)] + ns[Len(ns)]]
<1>1. h \in [Nat \X Nat -> Nat] /\ \A m, n \in Nat : h[<<m, n>>] = m + n
  OBVIOUS
<1>. HIDE DEF h
<1>2. PICK f \in [Seq(Nat) -> Nat] :
        /\ f[<<>>] = 0
        /\ \A ns \in Seq(Nat), n \in Nat : f[Append(ns, n)] = h[<<f[ns], n>>]
  <2>. DEFINE Recursion(S, R) ==
         \A a \in R, g \in [R \X S -> R] : \E f \in [Seq(S) -> R] :
           /\ f[<<>>] = a
           /\ \A s \in Seq(S), x \in S : f[Append(s, x)] = g[<<f[s], x>>]
  <2>1. \A S, R : Recursion(S, R)
    BY RecursionOnSequences
  <2>2. Recursion(Nat, Nat)
    <3>. HIDE DEF Recursion
    <3>. QED
      BY <2>1
  <2>3. 0 \in Nat
    OBVIOUS
  <2>4. \E f \in [Seq(Nat) -> Nat] :
          /\ f[<<>>] = 0
          /\ \A ns \in Seq(Nat), n \in Nat : f[Append(ns, n)] = h[<<f[ns], n>>]
    BY <1>1, <2>2, <2>3, Zenon
  <2>. QED
    BY <2>4
<1>3. Defines(f)
  <2>1. ASSUME NEW ns \in Seq(Nat), ns # <<>>
        PROVE  f[ns] = f[SubSeq(ns, 1, Len(ns) - 1)] + ns[Len(ns)]
    <3>. DEFINE b == SubSeq(ns, 1, Len(ns) - 1)
    <3>1. b \in Seq(Nat) /\ ns[Len(ns)] \in Nat /\ ns = Append(b, ns[Len(ns)])
      BY <2>1, LastOfSequence
    <3>. HIDE DEF b
    <3>2. f[ns] = h[<<f[b], ns[Len(ns)]>>] /\ f[b] \in Nat
      BY <1>2, <3>1
    <3>. QED
      BY <1>1, <3>1, <3>2 DEF b
  <2>. QED
    BY <1>2, <2>1
<1>4. Defines(Total)
  <2>1. Total = CHOOSE g : Defines(g)
    BY DEF Total
  <2>. HIDE DEF Defines
  <2>. QED
    BY <1>3, <2>1
<1>5. Total[<<>>] = 0
  BY <1>4
<1>6. ASSUME NEW ns \in Seq(Nat), NEW n \in Nat PROVE Total[Append(ns, n)] = Total[ns] + n
  <2>. DEFINE w == Append(ns, n)
  <2>1. w \in Seq(Nat) /\ w # <<>> /\ SubSeq(w, 1, Len(w) - 1) = ns /\ w[Len(w)] = n
    OBVIOUS
  <2>. HIDE DEF w
  <2>2. Total[w] = Total[SubSeq(w, 1, Len(w) - 1)] + w[Len(w)]
    BY <1>4, <2>1
  <2>. QED
    BY <2>1, <2>2 DEF w
<1>. DEFINE N == {n \in Nat : \A ns \in Seq(Nat) : Len(ns) = n => Total[ns] \in Nat}
<1>7. N = Nat
  <2>1. 0 \in N
    BY <1>5
  <2>2. ASSUME NEW n \in N PROVE n + 1 \in N
    <3>1. SUFFICES ASSUME NEW ns \in Seq(Nat), Len(ns) = n + 1 PROVE Total[ns] \in Nat
      OBVIOUS
    <3>. DEFINE b == SubSeq(ns, 1, Len(ns) - 1)
    <3>2. b \in Seq(Nat) /\ Len(b) = n /\ ns # <<>> /\ ns[Len(ns)] \in Nat
      BY <3>1
    <3>3. Total[b] \in Nat
      BY <3>2
    <3>4. Total[ns] = Total[b] + ns[Len(ns)]
      BY <1>4, <3>2
    <3>. QED
      BY <3>2, <3>3, <3>4
  <2>3. N \in SUBSET Nat
    OBVIOUS
  <2>. HIDE DEF N
  <2>. QED
    BY <2>1, <2>2, <2>3, Induction
<1>8. ASSUME NEW ns \in Seq(Nat) PROVE Total[ns] \in Nat
  <2>1. Len(ns) \in N
    <3>1. Len(ns) \in Nat
      OBVIOUS
    <3>. HIDE DEF N
    <3>. QED
      BY <1>7, <3>1
  <2>. QED
    BY <2>1
<1>. QED
  BY <1>5, <1>6, <1>8

\* Line breaks and characters of one token more.
LEMMA CountsOfAppend ==
  ASSUME NEW S, \A t \in S : TokenOK(t), NEW ts \in Seq(S), NEW t \in S
  PROVE  /\ Breaks(ts) \in Nat /\ Breaks(Append(ts, t)) = Breaks(ts) + t.lines
         /\ Chars(ts) \in Nat /\ Chars(Append(ts, t)) = Chars(ts) + t.size
<1>. DEFINE n == Len(ts)
            w == Append(ts, t)
            lines == [i \in DOMAIN ts |-> ts[i].lines]
            sizes == [i \in DOMAIN ts |-> ts[i].size]
<1>1. \A u \in S : u.lines \in Nat /\ u.size \in Nat
  BY DEF TokenOK
<1>2. n \in Nat /\ DOMAIN ts = 1 .. n /\ \A i \in 1 .. n : ts[i] \in S
  BY LenProperties, ElementOfSeq
<1>3. /\ DOMAIN w = 1 .. n + 1 /\ w[n + 1] = t /\ \A i \in 1 .. n : w[i] = ts[i]
  BY <1>2, AppendProperties
<1>4. /\ lines \in Seq(Nat) /\ Len(lines) = n /\ \A i \in 1 .. n : lines[i] = ts[i].lines
      /\ sizes \in Seq(Nat) /\ Len(sizes) = n /\ \A i \in 1 .. n : sizes[i] = ts[i].size
  BY <1>1, <1>2, IsASeq
<1>. HIDE DEF w, lines, sizes, n
<1>5. [i \in DOMAIN w |-> w[i].lines] = Append(lines, t.lines)
  <2>1. /\ DOMAIN Append(lines, t.lines) = 1 .. n + 1
        /\ Append(lines, t.lines) \in Seq(Nat)
        /\ \A i \in 1 .. n : Append(lines, t.lines)[i] = lines[i]
        /\ Append(lines, t.lines)[n + 1] = t.lines
    BY <1>1, <1>2, <1>4, AppendProperties
  <2>. DEFINE more == Append(lines, t.lines)
              new == [i \in DOMAIN w |-> w[i].lines]
  <2>. HIDE DEF more
  <2>2. \A i \in 1 .. n + 1 : w[i].lines = more[i] /\ w[i].lines \in Nat
    BY <1>1, <1>2, <1>3, <1>4, <2>1 DEF more
  <2>3. new \in Seq(Nat) /\ Len(new) = n + 1 /\ \A i \in 1 .. n + 1 : new[i] = more[i]
    BY <1>2, <1>3, <2>2, IsASeq
  <2>4. more \in Seq(Nat) /\ Len(more) = n + 1
    BY <1>2, <2>1, LenProperties DEF more
  <2>. HIDE DEF new
  <2>5. new = more
    BY <2>3, <2>4, SeqEqual
  <2>. QED
    BY <2>5 DEF new, more
<1>6. [i \in DOMAIN w |-> w[i].size] = Append(sizes, t.size)
  <2>1. /\ DOMAIN Append(sizes, t.size) = 1 .. n + 1
        /\ Append(sizes, t.size) \in Seq(Nat)
        /\ \A i \in 1 .. n : Append(sizes, t.size)[i] = sizes[i]
        /\ Append(sizes, t.size)[n + 1] = t.size
    BY <1>1, <1>2, <1>4, AppendProperties
  <2>. DEFINE more == Append(sizes, t.size)
              new == [i \in DOMAIN w |-> w[i].size]
  <2>. HIDE DEF more
  <2>2. \A i \in 1 .. n + 1 : w[i].size = more[i] /\ w[i].size \in Nat
    BY <1>1, <1>2, <1>3, <1>4, <2>1 DEF more
  <2>3. new \in Seq(Nat) /\ Len(new) = n + 1 /\ \A i \in 1 .. n + 1 : new[i] = more[i]
    BY <1>2, <1>3, <2>2, IsASeq
  <2>4. more \in Seq(Nat) /\ Len(more) = n + 1
    BY <1>2, <2>1, LenProperties DEF more
  <2>. HIDE DEF new
  <2>5. new = more
    BY <2>3, <2>4, SeqEqual
  <2>. QED
    BY <2>5 DEF new, more
<1>7. t.lines \in Nat /\ t.size \in Nat
  BY <1>1
<1>8. Breaks(ts) = Total[lines] /\ Chars(ts) = Total[sizes]
  BY DEF Breaks, Chars, lines, sizes
<1>9. Breaks(w) = Total[Append(lines, t.lines)] /\ Chars(w) = Total[Append(sizes, t.size)]
  BY <1>5, <1>6 DEF Breaks, Chars
<1>. QED
  BY <1>4, <1>7, <1>8, <1>9, TotalSteps DEF w

LEMMA NothingCounts == Breaks(<<>>) = 0 /\ Chars(<<>>) = 0
<1>1. /\ [i \in DOMAIN <<>> |-> <<>>[i].lines] = <<>>
      /\ [i \in DOMAIN <<>> |-> <<>>[i].size] = <<>>
  OBVIOUS
<1>. QED
  BY <1>1, TotalSteps DEF Breaks, Chars

\* Moving over one token more.
LEMMA OverIsAfter ==
  ASSUME NEW S, \A t \in S : TokenOK(t), NEW ts \in Seq(S), NEW t \in S,
         NEW p \in Positions, IsAfter(p, ts)
  PROVE  IsAfter(Over(p, t), Append(ts, t))
<1>. DEFINE n == Len(ts)
            w == Append(ts, t)
            o == Over(p, t)
<1>1. t.lines \in Nat /\ t.size \in Nat /\ t.tail \in Nat
  BY DEF TokenOK
<1>2. n \in Nat /\ Len(w) = n + 1 /\ w[n + 1] = t /\ \A i \in 1 .. n : w[i] = ts[i]
  BY AppendProperties, LenProperties
<1>3. /\ Breaks(ts) \in Nat /\ Breaks(w) = Breaks(ts) + t.lines
      /\ Chars(ts) \in Nat /\ Chars(w) = Chars(ts) + t.size
  BY CountsOfAppend
<1>4. p.line = 1 + Breaks(ts) /\ p.character = Chars(ts)
  BY DEF IsAfter
<1>5. o.line = 1 + Breaks(w) /\ o.character = Chars(w)
  BY <1>1, <1>3, <1>4 DEF Over
<1>6. PICK last \in 0 .. n :
          /\ last # 0 => ts[last].lines > 0
          /\ \A i \in last + 1 .. n : ts[i].lines = 0
          /\ p.column = 1 + (IF last = 0 THEN 0 ELSE ts[last].tail)
                          + Chars(SubSeq(ts, last + 1, n))
  BY DEF IsAfter
<1>. DEFINE Breaking(m) ==
       /\ m # 0 => w[m].lines > 0
       /\ \A i \in m + 1 .. Len(w) : w[i].lines = 0
       /\ o.column = 1 + (IF m = 0 THEN 0 ELSE w[m].tail) + Chars(SubSeq(w, m + 1, Len(w)))
<1>7. CASE t.lines > 0
  <2>1. o.column = 1 + t.tail
    BY <1>7 DEF Over
  <2>2. SubSeq(w, n + 1 + 1, Len(w)) = <<>>
    BY <1>2, SubSeqEmpty
  <2>3. n + 1 \in 0 .. Len(w) /\ n + 1 # 0 /\ \A i \in n + 1 + 1 .. Len(w) : FALSE
    BY <1>2
  <2>. HIDE DEF w, o
  <2>4. Breaking(n + 1)
    <3>1. w[n + 1].lines > 0
      BY <1>2, <1>7
    <3>2. \A i \in n + 1 + 1 .. Len(w) : w[i].lines = 0
      BY <2>3
    <3>3. Chars(SubSeq(w, n + 1 + 1, Len(w))) = 0
      BY <2>2, NothingCounts
    <3>4. o.column = 1 + t.tail + 0 /\ w[n + 1].tail = t.tail
      BY <1>1, <1>2, <2>1
    <3>. HIDE DEF n
    <3>. QED
      BY <2>3, <3>1, <3>2, <3>3, <3>4
  <2>. QED
    BY <1>5, <2>3, <2>4 DEF IsAfter, w, o
<1>8. CASE t.lines = 0
  <2>1. o.column = p.column + t.size
    BY <1>8 DEF Over
  <2>2. SubSeq(w, last + 1, Len(w)) = Append(SubSeq(ts, last + 1, n), t)
    BY OneElementMore, ZenonT(30)
  <2>3. SubSeq(ts, last + 1, n) \in Seq(S)
    BY EndOfSequence, ZenonT(30)
  <2>4. /\ Chars(SubSeq(ts, last + 1, n)) \in Nat
        /\ Chars(SubSeq(w, last + 1, Len(w))) = Chars(SubSeq(ts, last + 1, n)) + t.size
    <3>1. PICK e \in Seq(S) : e = SubSeq(ts, last + 1, n)
      BY <2>3
    <3>2. Chars(e) \in Nat /\ Chars(Append(e, t)) = Chars(e) + t.size
      BY CountsOfAppend
    <3>. QED
      BY <2>2, <3>1, <3>2
  <2>5. /\ last \in 0 .. Len(w) /\ last \in Nat
        /\ last # 0 => last \in 1 .. n
        /\ \A i \in last + 1 .. Len(w) : i \in last + 1 .. n \/ i = n + 1
        /\ \A i \in last + 1 .. n : i \in 1 .. n
    BY <1>2
  <2>6. last # 0 => ts[last].tail \in Nat
    <3>1. last # 0 => ts[last] \in S
      BY <2>5, ElementOfSeq
    <3>. QED
      BY <3>1 DEF TokenOK
  <2>. HIDE DEF w, o, n
  <2>7. Breaking(last)
    <3>1. last # 0 => w[last].lines > 0
      BY <1>2, <1>6, <2>5
    <3>2. \A i \in last + 1 .. Len(w) : w[i].lines = 0
      BY <1>2, <1>6, <1>8, <2>5
    <3>3. last # 0 => w[last].tail = ts[last].tail
      BY <1>2, <2>5
    <3>4. o.column = 1 + (IF last = 0 THEN 0 ELSE w[last].tail)
                       + Chars(SubSeq(w, last + 1, Len(w)))
      <4>. DEFINE a == Chars(SubSeq(ts, last + 1, n))
                  b == Chars(SubSeq(w, last + 1, Len(w)))
                  tail == IF last = 0 THEN 0 ELSE ts[last].tail
                  new == IF last = 0 THEN 0 ELSE w[last].tail
      <4>1. a \in Nat /\ b = a + t.size
        BY <2>4
      <4>2. p.column = 1 + (IF last = 0 THEN 0 ELSE ts[last].tail) + a
        BY <1>6
      <4>3. tail \in Nat /\ new = tail
        BY <2>6, <3>3
      <4>4. p.column = 1 + tail + a
        BY <4>2
      <4>. HIDE DEF a, b, tail, new
      <4>5. o.column = 1 + tail + a + t.size
        BY <2>1, <4>4
      <4>6. \A x, y, z \in Nat : 1 + x + y + z = 1 + x + (y + z)
        OBVIOUS
      <4>7. o.column = 1 + new + b
        BY <1>1, <4>1, <4>3, <4>5, <4>6
      <4>. QED
        BY <4>7 DEF b, new
    <3>. QED
      BY <3>1, <3>2, <3>4
  <2>. QED
    BY <1>5, <2>5, <2>7 DEF IsAfter, w, o
<1>. QED
  BY <1>1, <1>7, <1>8

\* Before the first token the position is that after nothing.
LEMMA StartIsAfterNothing ==
  IsAfter([Start EXCEPT !.line = @ + 1], <<>>) /\ [Start EXCEPT !.line = @ + 1].line = 1
<1>1. SubSeq(<<>>, 0 + 1, Len(<<>>)) = <<>> /\ Len(<<>>) = 0
  OBVIOUS
<1>2. 0 \in 0 .. Len(<<>>) /\ \A i \in 0 + 1 .. Len(<<>>) : FALSE
  OBVIOUS
<1>. DEFINE p == [Start EXCEPT !.line = @ + 1]
<1>3. p.line = 1 /\ p.column = 1 /\ p.character = 0
  BY DEF Start
<1>. HIDE DEF p
<1>4. p.line = 1 + Breaks(<<>>) /\ p.character = Chars(<<>>)
  BY <1>3, NothingCounts
<1>5. p.column = 1 + 0 + Chars(SubSeq(<<>>, 0 + 1, Len(<<>>)))
  <2>1. Chars(SubSeq(<<>>, 0 + 1, Len(<<>>))) = 0
    BY <1>1, NothingCounts
  <2>. QED
    BY <1>3, <2>1
<1>6. IsAfter(p, <<>>)
  BY <1>2, <1>4, <1>5 DEF IsAfter
<1>. QED
  BY <1>3, <1>6 DEF p

\* What the position is at any time.
PositionInv ==
    /\ complete => exhausted
    /\ pos.line = 0 /\ ~complete => pos = Start /\ Taken = <<>>
    /\ pos.line # 0 /\ ~complete => begin < Len(seen)
    /\ PositionIsThatOfTheToken

\* next moves the position to where it has got to.
LEMMA AdvancedIsAfter ==
  ASSUME TypeInv, PositionInv, ~complete
  PROVE  IsAfter(Advanced, Taken) /\ Advanced.line # 0
<1>1. CASE pos.line = 0
  <2>1. Advanced = [Start EXCEPT !.line = @ + 1] /\ Taken = <<>>
    BY <1>1 DEF PositionInv, Advanced
  <2>. QED
    BY <2>1, StartIsAfterNothing
<1>2. CASE pos.line # 0
  <2>. DEFINE b == SubSeq(Taken, 1, Len(Taken) - 1)
  <2>1. Advanced = Over(pos, Current) /\ pos \in Positions
    BY <1>2 DEF Advanced, TypeInv, InputType
  <2>2. begin < Len(seen) /\ IsAfter(pos, b)
    BY <1>2 DEF PositionInv, PositionIsThatOfTheToken
  <2>3. /\ b \in Seq(scenario.tokens) /\ Current \in scenario.tokens
        /\ Taken = Append(b, Current)
        /\ \A t \in scenario.tokens : TokenOK(t)
    BY <2>2, LastTaken, TakenTypes
  <2>. HIDE DEF b
  <2>4. PICK S : S = scenario.tokens
    OBVIOUS
  <2>5. IsAfter(Over(pos, Current), Append(b, Current))
    BY <2>1, <2>2, <2>3, <2>4, OverIsAfter
  <2>6. pos.line <= Over(pos, Current).line /\ pos.line \in Nat
        /\ Over(pos, Current).line \in Nat
    BY <2>1, <2>3, OverGoesForward DEF Positions
  <2>. QED
    BY <1>2, <2>1, <2>3, <2>5, <2>6
<1>. QED
  BY <1>1, <1>2

LEMMA PositionStep == TypeInv /\ PositionInv /\ [Next]_vars => PositionInv'
<1>. SUFFICES ASSUME TypeInv, PositionInv, [Next]_vars PROVE PositionInv'
  OBVIOUS
<1>1. CASE UNCHANGED <<input, position>>
  <2>1. Taken' = Taken /\ UNCHANGED <<seen, begin, exhausted, pos, complete>>
    BY <1>1 DEF input, position, Taken
  <2>. QED
    BY <2>1 DEF PositionInv, PositionIsThatOfTheToken
<1>2. CASE NextToken \/ SkipWhitespace \/ SkipComment
  <2>1. PICK t \in scenario.tokens : Deliver(t)
    BY <1>2 DEF NextToken, SkipWhitespace, SkipComment
  <2>2. /\ ~exhausted /\ UNCHANGED <<begin, complete, exhausted>>
        /\ seen' = Append(seen, t) /\ pos' = Advanced
    BY <2>1 DEF Deliver
  <2>3. ~complete
    BY <2>2 DEF PositionInv
  <2>4. IsAfter(pos', Taken) /\ pos'.line # 0
    BY <2>2, <2>3, AdvancedIsAfter
  <2>5. SubSeq(Taken', 1, Len(Taken') - 1) = Taken /\ begin' < Len(seen')
    BY <2>2, TakenGrows
  <2>. QED
    BY <2>2, <2>3, <2>4, <2>5 DEF PositionInv, PositionIsThatOfTheToken
<1>3. CASE NextEnd
  <2>1. /\ exhausted' /\ complete' /\ pos' = Advanced /\ UNCHANGED <<seen, begin>>
        /\ Taken' = Taken
    BY <1>3 DEF NextEnd, Taken
  <2>2. CASE complete
    <3>1. Advanced = [pos EXCEPT !.line = @ + 1] /\ pos \in Positions
      BY <2>2 DEF Advanced, TypeInv, InputType
    <3>2. Advanced.character = pos.character
      BY <3>1 DEF Positions
    <3>. QED
      BY <2>1, <2>2, <3>2 DEF PositionInv, PositionIsThatOfTheToken
  <2>3. CASE ~complete
    <3>1. Advanced.character = Chars(Taken)
      BY <2>3, AdvancedIsAfter DEF IsAfter
    <3>. QED
      BY <2>1, <3>1 DEF PositionInv, PositionIsThatOfTheToken
  <2>. QED
    BY <2>2, <2>3
<1>4. CASE ParseAgain
  <2>1. begin' = Len(seen') /\ Len(seen') \in Nat
    BY <1>4 DEF ParseAgain, TypeInv, InputType
  <2>2. Taken' = <<>>
    BY <2>1, SubSeqEmpty DEF Taken
  <2>3. pos' = Start /\ complete' = FALSE
    BY <1>4 DEF ParseAgain, InitialContext
  <2>. QED
    BY <2>2, <2>3 DEF PositionInv, PositionIsThatOfTheToken, Start
<1>5. CASE Finish \/ Stop
  <2>1. UNCHANGED <<input, position>>
    BY <1>5 DEF Finish, Stop, vars
  <2>. QED
    BY <1>1, <2>1
<1>. QED
  BY <1>1, <1>2, <1>3, <1>4, <1>5, StepsAreHandled DEF Next, vars

\* However many tokens the input has and wherever parse_context::next is called from: what
\* it reports as line, column and character is where the token it has read begins.
THEOREM PositionsAreRight == Spec => []PositionIsThatOfTheToken
<1>1. Init => PositionInv
  <2>. SUFFICES ASSUME Init PROVE PositionInv
    OBVIOUS
  <2>1. Taken = <<>>
    BY SubSeqEmpty DEF Init, Taken
  <2>. QED
    BY <2>1 DEF Init, InitialContext, PositionInv, PositionIsThatOfTheToken, Start
<1>2. PositionInv => PositionIsThatOfTheToken
  BY DEF PositionInv
<1>3. Spec => []TypeInv
  BY InitialTypes, StepsTypes, PTL DEF Spec
<1>. QED
  BY <1>1, <1>2, <1>3, PositionStep, PTL DEF Spec

-----------------------------------------------------------------------------
(* The stack of frames and the stack of the automaton. *)

\* The frame a call works with after it has replaced or pushed one.
LEMMA NewTops ==
  ASSUME NEW s \in Seq(Frames), NEW f \in Frames
  PROVE  /\ Append(s, f) # <<>> /\ Append(s, f)[Len(Append(s, f))] = f
         /\ s # <<>> => LET w == [s EXCEPT ![Len(s)] = f]
                        IN  w # <<>> /\ w[Len(w)] = f
<1>1. Append(s, f) # <<>> /\ Append(s, f)[Len(Append(s, f))] = f
  BY AppendProperties
<1>2. ASSUME s # <<>>
      PROVE  LET w == [s EXCEPT ![Len(s)] = f] IN w # <<>> /\ w[Len(w)] = f
  <2>1. Len(s) \in 1 .. Len(s)
    BY <1>2
  <2>2. /\ [s EXCEPT ![Len(s)] = f] \in Seq(Frames)
        /\ Len([s EXCEPT ![Len(s)] = f]) = Len(s)
        /\ [s EXCEPT ![Len(s)] = f][Len(s)] = f
    BY <2>1, ExceptSeq
  <2>. QED
    BY <2>1, <2>2
<1>. QED
  BY <1>1, <1>2

\* The functions of the frames, when a frame is pushed, popped or replaced.
LEMMA FnsOfFrames ==
  ASSUME NEW s \in Seq(Frames), NEW f \in Frames
  PROVE  /\ Fns(s) \in Seq(ContainerKinds) /\ Len(Fns(s)) = Len(s)
         /\ Fns(s) = <<>> <=> s = <<>>
         /\ Fns(Append(s, f)) = Append(Fns(s), f.fn)
         /\ s # <<>> =>
              /\ Fns(s)[Len(Fns(s))] = s[Len(s)].fn
              /\ Fns(SubSeq(s, 1, Len(s) - 1)) = SubSeq(Fns(s), 1, Len(Fns(s)) - 1)
              /\ f.fn = s[Len(s)].fn => Fns([s EXCEPT ![Len(s)] = f]) = Fns(s)
<1>. DEFINE n == Len(s)
<1>1. /\ n \in Nat /\ DOMAIN s = 1 .. n
      /\ \A i \in 1 .. n : s[i] \in Frames /\ s[i].fn \in ContainerKinds
  <2>1. n \in Nat /\ DOMAIN s = 1 .. n /\ \A i \in 1 .. n : s[i] \in Frames
    BY LenProperties, ElementOfSeq
  <2>2. \A g \in Frames : g.fn \in ContainerKinds
    BY DEF Frames
  <2>. QED
    BY <2>1, <2>2
<1>2. /\ Fns(s) \in Seq(ContainerKinds) /\ Len(Fns(s)) = n
      /\ \A i \in 1 .. n : Fns(s)[i] = s[i].fn
  BY <1>1, IsASeq DEF Fns
<1>3. Fns(s) = <<>> <=> s = <<>>
  BY <1>1, <1>2
<1>4. Fns(Append(s, f)) = Append(Fns(s), f.fn)
  <2>1. /\ Append(s, f) \in Seq(Frames) /\ Len(Append(s, f)) = n + 1
        /\ DOMAIN Append(s, f) = 1 .. n + 1
        /\ \A i \in 1 .. n : Append(s, f)[i] = s[i]
        /\ Append(s, f)[n + 1] = f
    BY <1>1, AppendProperties
  <2>2. f.fn \in ContainerKinds
    BY DEF Frames
  <2>3. /\ Append(Fns(s), f.fn) \in Seq(ContainerKinds)
        /\ DOMAIN Append(Fns(s), f.fn) = 1 .. n + 1
        /\ \A i \in 1 .. n : Append(Fns(s), f.fn)[i] = s[i].fn
        /\ Append(Fns(s), f.fn)[n + 1] = f.fn
    BY <1>1, <1>2, <2>2, AppendProperties
  <2>4. \A i \in 1 .. n + 1 : Append(s, f)[i].fn = Append(Fns(s), f.fn)[i]
    BY <1>1, <2>1, <2>3
  <2>. QED
    BY <2>1, <2>3, <2>4 DEF Fns
<1>5. ASSUME s # <<>> PROVE Fns(s)[Len(Fns(s))] = s[n].fn
  BY <1>1, <1>2, <1>5
<1>6. ASSUME s # <<>> PROVE Fns(SubSeq(s, 1, n - 1)) = SubSeq(Fns(s), 1, n - 1)
  <2>1. n - 1 \in Nat
    BY <1>1, <1>6
  <2>2. /\ DOMAIN SubSeq(s, 1, n - 1) = 1 .. n - 1
        /\ \A i \in 1 .. n - 1 : SubSeq(s, 1, n - 1)[i] = s[i]
    BY <1>1, <2>1
  <2>3. /\ DOMAIN SubSeq(Fns(s), 1, n - 1) = 1 .. n - 1
        /\ \A i \in 1 .. n - 1 : SubSeq(Fns(s), 1, n - 1)[i] = Fns(s)[i]
    BY <1>1, <1>2, <2>1
  <2>4. SubSeq(Fns(s), 1, n - 1) = [i \in 1 .. n - 1 |-> s[i].fn]
    BY <1>1, <1>2, <2>1, <2>3
  <2>. QED
    BY <2>2, <2>4 DEF Fns
<1>7. ASSUME s # <<>>, f.fn = s[n].fn PROVE Fns([s EXCEPT ![n] = f]) = Fns(s)
  <2>. DEFINE w == [s EXCEPT ![n] = f]
  <2>1. DOMAIN w = DOMAIN s /\ \A i \in DOMAIN s : w[i].fn = s[i].fn
    BY <1>1, <1>7
  <2>. QED
    BY <2>1 DEF Fns
<1>. QED
  BY <1>2, <1>3, <1>4, <1>5, <1>6, <1>7

-----------------------------------------------------------------------------
(* The control states keep their shape. *)

\* An error that leaves parse leaves no frame, and no token to handle.
LEMMA ThrowStructured ==
  ASSUME NEW at, Throw(at), UNCHANGED <<exhausted, complete>>, complete => exhausted
  PROVE  ControlIsStructured'
  BY DEF Throw, ControlIsStructured

\* The frames a step leaves on top.
LEMMA TopAfter ==
  ASSUME TypeInv
  PROVE  /\ \A f \in Frames : stack' = Append(stack, f) => stack' # <<>> /\ Top' = f
         /\ \A f \in Frames : stack # <<>> /\ stack' = WithTop(f) =>
              stack' # <<>> /\ Top' = f
         /\ stack' = stack => Top' = Top
<1>1. stack \in Seq(Frames)
  BY DEF TypeInv, ControlType
<1>. QED
  BY <1>1, NewTops DEF Top, WithTop

\* parse_context::next.
LEMMA NextSitesStructured ==
  ASSUME TypeInv, ControlIsStructured, NextToken \/ SkipWhitespace \/ SkipComment \/ NextEnd
  PROVE  ControlIsStructured'
<1>1. stack' = stack => Top' = Top
  BY TopAfter
<1>2. CASE NextToken
  BY <1>1, <1>2
     DEF NextToken, Deliver, ControlIsStructured, errors, NextSites
<1>3. CASE SkipWhitespace
  BY <1>1, <1>3
     DEF SkipWhitespace, Deliver, ControlIsStructured, errors, control, NextSites
<1>4. CASE SkipComment
  <2>1. PICK t \in scenario.tokens :
          Deliver(t) /\ Checked(~opts.comments, Advanced, UNCHANGED control)
    BY <1>4 DEF SkipComment
  <2>2. UNCHANGED <<exhausted, complete>> /\ pc \in NextSites
    BY <2>1 DEF Deliver
  <2>3. \/ UNCHANGED control /\ (successful' = successful \/ successful' = FALSE)
        \/ Throw(Advanced)
    BY <2>1 DEF Checked, errors, Complain
  <2>4. CASE Throw(Advanced)
    BY <2>2, <2>4, ThrowStructured DEF ControlIsStructured
  <2>5. CASE UNCHANGED control /\ (successful' = successful \/ successful' = FALSE)
    BY <1>1, <2>2, <2>5 DEF ControlIsStructured, control, NextSites
  <2>. QED
    BY <2>3, <2>4, <2>5
<1>5. CASE NextEnd
  BY <1>1, <1>5 DEF NextEnd, ControlIsStructured, errors, NextSites
<1>. QED
  BY <1>2, <1>3, <1>4, <1>5

\* parse_generic.
LEMMA GenericStructured ==
  ASSUME TypeInv, ControlIsStructured,
         \/ Scalar \/ OpenArray \/ OpenObject \/ Invalid \/ NoValue
         \/ Skip \/ SkipToEnd
  PROVE  ControlIsStructured'
<1>. USE DEF ControlIsStructured
<1>1. UNCHANGED <<exhausted, complete>>
  BY DEF Scalar, OpenArray, OpenObject, Invalid, NoValue, Skip, SkipToEnd, input, position
<1>2. CASE Throw(pos)
  BY <1>1, <1>2, ThrowStructured
<1>3. CASE Scalar /\ ~Throw(pos)
  BY <1>1, <1>3 DEF Scalar, Checked, Return, Dispatching, At, errors, Complain
<1>4. CASE OpenArray
  <2>1. Frame("array", EmptyArray) \in Frames
    BY ConstantTrees DEF Frame, Frames, ContainerKinds, Text
  <2>2. stack' # <<>> /\ Top' = Frame("array", EmptyArray)
    BY <1>4, <2>1, TopAfter DEF OpenArray, Ask
  <2>. QED
    BY <1>1, <1>4, <2>2 DEF OpenArray, Ask, Frame, errors
<1>5. CASE OpenObject
  <2>1. Frame("object", EmptyObject) \in Frames
    BY ConstantTrees DEF Frame, Frames, ContainerKinds, Text
  <2>2. stack' # <<>> /\ Top' = Frame("object", EmptyObject)
    BY <1>5, <2>1, TopAfter DEF OpenObject, Ask
  <2>. QED
    BY <1>1, <1>5, <2>2 DEF OpenObject, Ask, Frame, errors
<1>6. CASE Invalid /\ ~Throw(pos)
  BY <1>1, <1>6 DEF Invalid, Checked, Ask, Complain
<1>7. CASE NoValue
  BY <1>1, <1>7 DEF NoValue, Return, AtEnd
<1>8. CASE Skip
  BY <1>1, <1>8 DEF Skip, Ask, Return, At, errors
<1>9. CASE SkipToEnd
  BY <1>1, <1>9 DEF SkipToEnd, Return, AtEnd
<1>. QED
  BY <1>2, <1>3, <1>4, <1>5, <1>6, <1>7, <1>8, <1>9

\* parse_array.
LEMMA ArrayStructured ==
  ASSUME TypeInv, ControlIsStructured,
         \/ CloseArrayForItem \/ ReturnToArray \/ CloseArray
         \/ ArraySeparator \/ NoArraySeparator \/ UnmatchedBracket
  PROVE  ControlIsStructured'
<1>. USE DEF ControlIsStructured
<1>1. UNCHANGED <<exhausted, complete>>
  BY DEF CloseArrayForItem, ReturnToArray, CloseArray, ArraySeparator, NoArraySeparator,
         UnmatchedBracket, input, position
<1>2. CASE Throw(pos)
  BY <1>1, <1>2, ThrowStructured
<1>3. stack # <<>> /\ Top \in Frames /\ Top.fn = "array"
  <2>1. stack # <<>> /\ Top.fn = "array"
    BY DEF CloseArrayForItem, ReturnToArray, CloseArray, ArraySeparator, NoArraySeparator,
           UnmatchedBracket, At, AtEnd
  <2>. QED
    BY <2>1, StackTypes DEF TypeInv
<1>4. CASE CloseArrayForItem /\ ~Throw(pos)
  BY <1>1, <1>4 DEF CloseArrayForItem, Checked, Return, At, errors, Complain
<1>5. CASE ReturnToArray
  <2>. DEFINE f == [Top EXCEPT !.trailing = FALSE, !.out = PushBack(@, val)]
  <2>1. f \in Frames /\ f.fn = "array"
    BY <1>3, BuildingTrees DEF Frames, TypeInv, ControlType
  <2>2. Ask("item_end", WithTop(f)) \/ Ask("item_end", stack)
    BY <1>5 DEF ReturnToArray
  <2>. HIDE DEF f
  <2>3. stack' # <<>> /\ Top'.fn = "array"
    BY <1>3, <2>1, <2>2, TopAfter DEF Ask
  <2>. QED
    BY <1>1, <1>5, <2>2, <2>3 DEF ReturnToArray, Ask, errors
<1>6. CASE CloseArray
  BY <1>1, <1>6 DEF CloseArray, Return, At, errors
<1>7. CASE ArraySeparator
  <2>. DEFINE f == [Top EXCEPT !.trailing = TRUE]
  <2>1. f \in Frames /\ f.fn = "array"
    BY <1>3 DEF Frames
  <2>2. Ask("item", WithTop(f))
    BY <1>7 DEF ArraySeparator
  <2>. HIDE DEF f
  <2>3. stack' # <<>> /\ Top'.fn = "array"
    BY <1>3, <2>1, <2>2, TopAfter DEF Ask
  <2>. QED
    BY <1>1, <1>7, <2>2, <2>3 DEF ArraySeparator, Ask, errors
<1>8. CASE NoArraySeparator /\ ~Throw(pos)
  <2>1. Ask("item", stack) /\ successful' = FALSE
    BY <1>8 DEF NoArraySeparator, Checked, Complain
  <2>2. stack' # <<>> /\ Top'.fn = "array"
    BY <1>3, <2>1, TopAfter DEF Ask
  <2>. QED
    BY <1>1, <2>1, <2>2 DEF Ask
<1>9. CASE UnmatchedBracket /\ ~Throw(pos)
  BY <1>1, <1>9 DEF UnmatchedBracket, Checked, Return, AtEnd, Complain
<1>. QED
  BY <1>2, <1>4, <1>5, <1>6, <1>7, <1>8, <1>9

\* parse_object.
LEMMA ObjectStructured ==
  ASSUME TypeInv, ControlIsStructured,
         \/ MemberKey \/ CloseObjectForKey \/ Delimiter
         \/ ReturnToObject \/ IncompleteMember \/ CloseObject
         \/ ObjectSeparator \/ NoObjectSeparator \/ UnmatchedBrace
  PROVE  ControlIsStructured'
<1>. USE DEF ControlIsStructured
<1>1. UNCHANGED <<exhausted, complete>>
  BY DEF MemberKey, CloseObjectForKey, Delimiter, ReturnToObject, IncompleteMember,
         CloseObject, ObjectSeparator, NoObjectSeparator, UnmatchedBrace, input, position
<1>2. CASE Throw(pos)
  BY <1>1, <1>2, ThrowStructured
<1>3. stack # <<>> /\ Top \in Frames /\ Top.fn = "object"
  <2>1. stack # <<>> /\ Top.fn = "object"
    BY DEF MemberKey, CloseObjectForKey, Delimiter, ReturnToObject, IncompleteMember,
           CloseObject, ObjectSeparator, NoObjectSeparator, UnmatchedBrace, At, AtEnd
  <2>. QED
    BY <2>1, StackTypes DEF TypeInv
<1>4. ASSUME NEW site, NEW f \in Frames, f.fn = "object", Ask(site, WithTop(f))
      PROVE  stack' # <<>> /\ Top'.fn = "object"
  BY <1>3, <1>4, TopAfter DEF Ask
<1>5. ASSUME NEW site, Ask(site, stack) PROVE stack' # <<>> /\ Top'.fn = "object"
  BY <1>3, <1>5, TopAfter DEF Ask
<1>6. CASE MemberKey /\ ~Throw(pos)
  <2>. DEFINE isString == Current.kind = "string"
              key == IF isString THEN Current.means ELSE Current.text
              f == [Top EXCEPT !.trailing = @ /\ ~isString, !.key = key]
  <2>1. TokenOK(Current)
    BY <1>6, HandlingTypes DEF MemberKey, At
  <2>2. key \in Text
    BY <2>1 DEF TokenOK
  <2>3. f \in Frames /\ f.fn = "object"
    BY <1>3, <2>2 DEF Frames
  <2>4. Ask("colon", WithTop(f))
    BY <1>6 DEF MemberKey, Checked
  <2>. HIDE DEF f
  <2>5. stack' # <<>> /\ Top'.fn = "object"
    BY <1>4, <2>3, <2>4
  <2>. QED
    BY <1>1, <2>4, <2>5 DEF Ask
<1>7. CASE CloseObjectForKey /\ ~Throw(pos)
  BY <1>1, <1>7 DEF CloseObjectForKey, Checked, Return, At, errors, Complain
<1>8. CASE Delimiter /\ ~Throw(pos)
  <2>1. Ask("value", stack)
    BY <1>8 DEF Delimiter, Checked
  <2>. QED
    BY <1>1, <2>1 DEF Ask
<1>9. CASE ReturnToObject /\ ~Throw(pos)
  <2>. DEFINE f == [Top EXCEPT !.out = PutMember(@, Top.key, val)]
  <2>1. f \in Frames /\ f.fn = "object"
    BY <1>3, BuildingTrees DEF Frames, TypeInv, ControlType
  <2>2. Ask("member_end", WithTop(f))
    BY <1>9 DEF ReturnToObject, Checked
  <2>. HIDE DEF f
  <2>3. stack' # <<>> /\ Top'.fn = "object"
    BY <1>4, <2>1, <2>2
  <2>. QED
    BY <1>1, <2>2, <2>3 DEF Ask
<1>10. CASE IncompleteMember /\ ~Throw(pos)
  BY <1>1, <1>10 DEF IncompleteMember, Checked, Return, Complain
<1>11. CASE CloseObject
  BY <1>1, <1>11 DEF CloseObject, Return, At, errors
<1>12. CASE ObjectSeparator
  <2>. DEFINE f == [Top EXCEPT !.trailing = TRUE]
  <2>1. f \in Frames /\ f.fn = "object"
    BY <1>3 DEF Frames
  <2>2. Ask("key", WithTop(f))
    BY <1>12 DEF ObjectSeparator
  <2>. HIDE DEF f
  <2>3. stack' # <<>> /\ Top'.fn = "object"
    BY <1>4, <2>1, <2>2
  <2>. QED
    BY <1>1, <2>2, <2>3 DEF Ask
<1>13. CASE NoObjectSeparator /\ ~Throw(pos)
  <2>1. Ask("key", stack)
    BY <1>13 DEF NoObjectSeparator, Checked
  <2>2. stack' # <<>> /\ Top'.fn = "object"
    BY <1>5, <2>1
  <2>. QED
    BY <1>1, <2>1, <2>2 DEF Ask
<1>14. CASE UnmatchedBrace /\ ~Throw(pos)
  BY <1>1, <1>14 DEF UnmatchedBrace, Checked, Return, Complain
<1>. QED
  BY <1>2, <1>6, <1>7, <1>8, <1>9, <1>10, <1>11, <1>12, <1>13, <1>14

\* parse, and the caller.
LEMMA ParseStructured ==
  ASSUME TypeInv, ControlIsStructured,
         ReturnToParse \/ Trailing \/ TrailingEnd \/ Finish \/ ParseAgain \/ Stop
  PROVE  ControlIsStructured'
<1>. USE DEF ControlIsStructured
<1>1. CASE Throw(pos) /\ UNCHANGED <<input, position>>
  BY <1>1, ThrowStructured DEF input, position
<1>2. CASE ReturnToParse /\ ~Throw(pos)
  BY <1>2 DEF ReturnToParse, Checked, input, position
<1>3. CASE Trailing /\ ~Throw(pos)
  BY <1>3 DEF Trailing, Checked, Ask, At, input, position
<1>4. CASE TrailingEnd
  BY <1>4 DEF TrailingEnd, AtEnd, input, position
<1>5. CASE Finish /\ ~Throw(pos)
  BY <1>5 DEF Finish, input, position
<1>6. CASE ParseAgain
  BY <1>6 DEF ParseAgain
<1>7. CASE Stop
  BY <1>7, TopAfter DEF Stop, vars, input, errors, position, control
<1>. QED
  BY <1>1, <1>2, <1>3, <1>4, <1>5, <1>6, <1>7 DEF ReturnToParse, Trailing, Finish

\* Every step of parse.
LEMMA StructuredStep ==
  ASSUME TypeInv, ControlIsStructured, [Next]_vars
  PROVE  ControlIsStructured'
<1>1. CASE UNCHANGED vars
  BY <1>1, TopAfter
     DEF vars, input, errors, position, control, ControlIsStructured
<1>. QED
  BY <1>1, NextSitesStructured, GenericStructured, ArrayStructured, ObjectStructured,
     ParseStructured DEF Next

-----------------------------------------------------------------------------
(* The steps under the refinement mapping. *)

Mapped == <<Lenient, Open, Expect, Verdict>>

\* A step of the parser is one of the automaton, or none.
Maps == Automaton!Move \/ UNCHANGED Mapped

\* The automaton's variables as long as nothing is wrong.
View ==
    /\ Open = Fns(stack)
    /\ successful /\ outcome # "thrown"
    /\ pc # "done" => Verdict = "reading"
    /\ pc = "done" => Verdict = "accepted"
    /\ pc = "item" => Expect = IF Top.trailing THEN "next_item" ELSE "first_item"
    /\ pc = "key" => Expect = IF Top.trailing THEN "next_key" ELSE "first_key"
    /\ pc \in {"value", "colon", "item_end", "member_end"} => Expect = pc
    /\ pc \in {"return", "trailing", "finish", "done"} => Expect = Automaton!After(Fns(stack))

\* As long as nothing is wrong the automaton is where the parser is.
LEMMA WhileAccepting == TypeInv /\ ~Rejected => View
<1>. SUFFICES ASSUME TypeInv, ~Rejected PROVE View
  OBVIOUS
<1>1. stack \in Seq(Frames)
  BY DEF TypeInv, ControlType
<1>2. ASSUME stack # <<>>
      PROVE  Fns(stack) # <<>> /\ Fns(stack)[Len(Fns(stack))] = Top.fn
  <2>1. Top \in Frames
    BY <1>2, StackTypes DEF TypeInv
  <2>. QED
    BY <1>1, <1>2, <2>1, FnsOfFrames DEF Top
<1>3. ASSUME stack = <<>> PROVE Fns(stack) = <<>>
  BY <1>3 DEF Fns
<1>4. Automaton!After(Fns(stack)) =
        IF stack = <<>> THEN "end" ELSE IF Top.fn = "array" THEN "item_end" ELSE "member_end"
  BY <1>2, <1>3 DEF Automaton!After
<1>. QED
  BY <1>4 DEF View, Rejected, Open, Expect, Verdict

\* The same after a step.
LEMMA StillAccepting == TypeInv' /\ ~Rejected' => View'
  BY WhileAccepting, PTL

\* Once the input is rejected the automaton stays where it is.
LEMMA StaysRejected ==
  ASSUME Rejected, Rejected', UNCHANGED scenario
  PROVE  Maps
  BY DEF Maps, Mapped, Lenient, opts, Open, Expect, Verdict

\* The first error, or the end of the input inside a value.
LEMMA BecomesRejected ==
  ASSUME ~Rejected, pc # "done", Rejected', UNCHANGED scenario
  PROVE  Maps
  BY DEF Maps, Lenient, opts, Open, Expect, Verdict,
         Automaton!Move, Automaton!Refuse, Automaton!Reading

\* A step that leaves the frames, and what may come next, as they are.
LEMMA MapsToNothing ==
  ASSUME View, View', UNCHANGED scenario, Fns(stack') = Fns(stack), Expect' = Expect,
         pc # "done", pc' # "done"
  PROVE  Maps
  BY DEF View, Maps, Mapped, Lenient, opts

\* What a step that handles a token does while nothing is wrong.
Accepting ==
    /\ TypeInv /\ ControlIsStructured /\ View /\ ~Rejected
    /\ TypeInv' /\ View' /\ ~Rejected'

\* parse_context::next.
LEMMA NextSitesMap ==
  ASSUME Accepting, NextToken \/ SkipWhitespace \/ SkipComment \/ NextEnd
  PROVE  Maps
<1>1. UNCHANGED <<scenario, stack, pc>> /\ pc \in NextSites
  <2>1. CASE NextToken
    BY <2>1 DEF NextToken, Deliver
  <2>2. CASE SkipWhitespace
    BY <2>2 DEF SkipWhitespace, Deliver, control
  <2>3. CASE SkipComment
    BY <2>3 DEF SkipComment, Deliver, Checked, control, Throw, Accepting, View
  <2>4. CASE NextEnd
    BY <2>4 DEF NextEnd
  <2>. QED
    BY <2>1, <2>2, <2>3, <2>4
<1>2. Top' = Top /\ Fns(stack') = Fns(stack)
  BY <1>1 DEF Top
<1>3. Expect' = Expect
  <2>1. pc # "skip"
    BY DEF Accepting, View, ControlIsStructured
  <2>. QED
    BY <1>1, <1>2, <2>1 DEF Accepting, View, NextSites
<1>. QED
  BY <1>1, <1>2, <1>3, MapsToNothing DEF Accepting, NextSites

\* The automaton takes a value where the parser dispatches on one.
LEMMA DispatchingExpects ==
  ASSUME Accepting, Dispatching
  PROVE  Expect \in {"value", "first_item", "next_item"} /\ Verdict = "reading"
  BY DEF Accepting, View, Dispatching, At

\* parse_generic.
LEMMA GenericMap ==
  ASSUME Accepting,
         \/ Scalar \/ OpenArray \/ OpenObject \/ Invalid \/ NoValue
         \/ Skip \/ SkipToEnd
  PROVE  Maps
<1>. USE DEF Accepting
<1>1. UNCHANGED scenario /\ stack \in Seq(Frames)
  BY DEF Scalar, OpenArray, OpenObject, Invalid, NoValue, Skip, SkipToEnd, input,
         TypeInv, ControlType
<1>2. Lenient' = Lenient
  BY <1>1 DEF Lenient, opts
<1>3. CASE Scalar
  <2>1. stack' = stack /\ pc' = "return"
    BY <1>3 DEF Scalar, Checked, Return, Complain, Throw, View
  <2>. QED
    BY <1>2, <1>3, <2>1, DispatchingExpects
       DEF Scalar, View, Maps, Automaton!Move, Automaton!TakeScalar, Automaton!Reading,
           Automaton!Goes
<1>4. CASE OpenArray
  <2>. DEFINE f == Frame("array", EmptyArray)
  <2>1. f \in Frames /\ f.fn = "array" /\ f.trailing = FALSE
    BY ConstantTrees DEF Frame, Frames, ContainerKinds, Text
  <2>2. stack' = Append(stack, f) /\ pc' = "item"
    BY <1>4 DEF OpenArray, Ask
  <2>. HIDE DEF f
  <2>3. Fns(stack') = Append(Fns(stack), "array") /\ Top' = f
    <3>1. Fns(Append(stack, f)) = Append(Fns(stack), f.fn)
      BY <1>1, <2>1, FnsOfFrames
    <3>2. Top' = f
      BY <2>1, <2>2, TopAfter
    <3>. QED
      BY <2>1, <2>2, <3>1, <3>2
  <2>. QED
    BY <1>2, <1>4, <2>1, <2>2, <2>3, DispatchingExpects
       DEF OpenArray, View, Maps, Automaton!Move, Automaton!TakeOpening, Automaton!Reading,
           Automaton!Goes
<1>5. CASE OpenObject
  <2>. DEFINE f == Frame("object", EmptyObject)
  <2>1. f \in Frames /\ f.fn = "object" /\ f.trailing = FALSE
    BY ConstantTrees DEF Frame, Frames, ContainerKinds, Text
  <2>2. stack' = Append(stack, f) /\ pc' = "key"
    BY <1>5 DEF OpenObject, Ask
  <2>. HIDE DEF f
  <2>3. Fns(stack') = Append(Fns(stack), "object") /\ Top' = f
    <3>1. Fns(Append(stack, f)) = Append(Fns(stack), f.fn)
      BY <1>1, <2>1, FnsOfFrames
    <3>2. Top' = f
      BY <2>1, <2>2, TopAfter
    <3>. QED
      BY <2>1, <2>2, <3>1, <3>2
  <2>. QED
    BY <1>2, <1>5, <2>1, <2>2, <2>3, DispatchingExpects
       DEF OpenObject, View, Maps, Automaton!Move, Automaton!TakeOpening, Automaton!Reading,
           Automaton!Goes
<1>6. CASE Invalid
  BY <1>6 DEF Invalid, Checked, Complain, Throw, View
<1>7. CASE NoValue
  BY <1>7 DEF NoValue, Return, Rejected
<1>8. CASE Skip
  BY <1>8 DEF Skip, At, View, ControlIsStructured
<1>9. CASE SkipToEnd
  BY <1>9 DEF SkipToEnd, AtEnd, View, ControlIsStructured
<1>. QED
  BY <1>3, <1>4, <1>5, <1>6, <1>7, <1>8, <1>9

\* The end of a container, in parse_array or parse_object.
LEMMA ClosingMaps ==
  ASSUME Accepting, UNCHANGED scenario, stack # <<>>, pc # "done",
         Return(TRUE, Top.out, Popped),
         \/ Top.fn = "array" /\ Expect \in {"first_item", "item_end"}
         \/ Top.fn = "object" /\ Expect \in {"first_key", "member_end"}
         \/ Lenient /\ Expect \in {"next_item", "next_key"}
  PROVE  Maps
<1>1. stack' = SubSeq(stack, 1, Len(stack) - 1) /\ pc' = "return"
  BY DEF Return, Popped
<1>2. stack \in Seq(Frames) /\ Top \in Frames
  BY StackTypes DEF Accepting, TypeInv, ControlType
<1>3. /\ Fns(stack) # <<>> /\ Fns(stack)[Len(Fns(stack))] = Top.fn
      /\ Fns(stack') = SubSeq(Fns(stack), 1, Len(Fns(stack)) - 1)
  BY <1>1, <1>2, FnsOfFrames DEF Top
<1>4. Lenient' = Lenient
  BY DEF Lenient, opts
<1>. QED
  BY <1>1, <1>3, <1>4
     DEF Accepting, View, Maps, Automaton!Move, Automaton!TakeClosing, Automaton!Reading,
         Automaton!Goes, Automaton!Innermost, Automaton!Closed

\* A step that only changes the frame on top, not whose call it is.
LEMMA ReplacedTop ==
  ASSUME TypeInv, stack # <<>>, NEW f \in Frames, f.fn = Top.fn, stack' = WithTop(f)
  PROVE  Fns(stack') = Fns(stack) /\ Top' = f /\ stack' # <<>>
<1>1. stack \in Seq(Frames)
  BY DEF TypeInv, ControlType
<1>. QED
  BY <1>1, FnsOfFrames, TopAfter DEF Top, WithTop

\* parse_array.
LEMMA ArrayMap ==
  ASSUME Accepting,
         \/ CloseArrayForItem \/ ReturnToArray \/ CloseArray
         \/ ArraySeparator \/ NoArraySeparator \/ UnmatchedBracket
  PROVE  Maps
<1>. USE DEF Accepting
<1>1. UNCHANGED scenario
  BY DEF CloseArrayForItem, ReturnToArray, CloseArray, ArraySeparator, NoArraySeparator,
         UnmatchedBracket, input
<1>2. stack # <<>> /\ Top \in Frames /\ Top.fn = "array" /\ Top.trailing \in BOOLEAN
  <2>1. stack # <<>> /\ Top.fn = "array"
    BY DEF CloseArrayForItem, ReturnToArray, CloseArray, ArraySeparator, NoArraySeparator,
           UnmatchedBracket, At, AtEnd, ControlIsStructured
  <2>2. Top \in Frames
    BY <2>1, StackTypes DEF TypeInv
  <2>. QED
    BY <2>1, <2>2 DEF Frames
<1>3. Lenient' = Lenient
  BY <1>1 DEF Lenient, opts
<1>4. CASE CloseArrayForItem
  <2>1. pc = "item" /\ Return(TRUE, Top.out, Popped) /\ (Top.trailing => Lenient)
    BY <1>4
       DEF CloseArrayForItem, Checked, Complain, Throw, View, At, TrailingComma, Lenient
  <2>. QED
    BY <1>1, <1>2, <2>1, ClosingMaps DEF View
<1>5. CASE ReturnToArray
  <2>. DEFINE f == [Top EXCEPT !.trailing = FALSE, !.out = PushBack(@, val)]
  <2>1. f \in Frames /\ f.fn = "array"
    BY <1>2, BuildingTrees DEF Frames, TypeInv, ControlType
  <2>2. pc = "return" /\ stack' = WithTop(f) /\ pc' = "item_end"
    BY <1>5 DEF ReturnToArray, Ask, Rejected
  <2>. HIDE DEF f
  <2>3. Fns(stack') = Fns(stack)
    BY <1>2, <2>1, <2>2, ReplacedTop
  <2>4. Expect = "item_end"
    <3>1. Fns(stack) # <<>> /\ Fns(stack)[Len(Fns(stack))] = "array"
      BY <1>2, FnsOfFrames DEF TypeInv, ControlType, Top
    <3>. QED
      BY <2>2, <3>1 DEF View, Automaton!After
  <2>5. Expect' = "item_end"
    BY <2>2 DEF View
  <2>. QED
    BY <1>1, <2>2, <2>3, <2>4, <2>5, MapsToNothing
<1>6. CASE CloseArray
  <2>1. pc = "item_end" /\ Return(TRUE, Top.out, Popped)
    BY <1>6 DEF CloseArray, At
  <2>. QED
    BY <1>1, <1>2, <2>1, ClosingMaps DEF View
<1>7. CASE ArraySeparator
  <2>. DEFINE f == [Top EXCEPT !.trailing = TRUE]
  <2>1. f \in Frames /\ f.fn = "array" /\ f.trailing = TRUE
    BY <1>2 DEF Frames
  <2>2. pc = "item_end" /\ stack' = WithTop(f) /\ pc' = "item"
    BY <1>7 DEF ArraySeparator, Ask, At
  <2>. HIDE DEF f
  <2>3. Fns(stack') = Fns(stack) /\ Top' = f
    BY <1>2, <2>1, <2>2, ReplacedTop
  <2>. QED
    BY <1>3, <2>1, <2>2, <2>3
       DEF View, Maps, Automaton!Move, Automaton!TakeComma, Automaton!Reading, Automaton!Goes
<1>8. CASE NoArraySeparator
  BY <1>8 DEF NoArraySeparator, Checked, Complain, Throw, View
<1>9. CASE UnmatchedBracket
  BY <1>9 DEF UnmatchedBracket, Checked, Complain, Throw, View
<1>. QED
  BY <1>4, <1>5, <1>6, <1>7, <1>8, <1>9

\* parse_object.
LEMMA ObjectMap ==
  ASSUME Accepting,
         \/ MemberKey \/ CloseObjectForKey \/ Delimiter
         \/ ReturnToObject \/ IncompleteMember \/ CloseObject
         \/ ObjectSeparator \/ NoObjectSeparator \/ UnmatchedBrace
  PROVE  Maps
<1>. USE DEF Accepting
<1>1. UNCHANGED scenario
  BY DEF MemberKey, CloseObjectForKey, Delimiter, ReturnToObject, IncompleteMember,
         CloseObject, ObjectSeparator, NoObjectSeparator, UnmatchedBrace, input
<1>2. stack # <<>> /\ Top \in Frames /\ Top.fn = "object" /\ Top.trailing \in BOOLEAN
  <2>1. stack # <<>> /\ Top.fn = "object"
    BY DEF MemberKey, CloseObjectForKey, Delimiter, ReturnToObject, IncompleteMember,
           CloseObject, ObjectSeparator, NoObjectSeparator, UnmatchedBrace, At, AtEnd,
           ControlIsStructured
  <2>2. Top \in Frames
    BY <2>1, StackTypes DEF TypeInv
  <2>. QED
    BY <2>1, <2>2 DEF Frames
<1>3. Lenient' = Lenient
  BY <1>1 DEF Lenient, opts
<1>4. CASE MemberKey
  <2>. DEFINE isString == Current.kind = "string"
              key == IF isString THEN Current.means ELSE Current.text
              f == [Top EXCEPT !.trailing = @ /\ ~isString, !.key = key]
  <2>1. TokenOK(Current)
    BY <1>4, HandlingTypes DEF MemberKey, At
  <2>2. key \in Text
    BY <2>1 DEF TokenOK
  <2>3. f \in Frames /\ f.fn = "object"
    BY <1>2, <2>2 DEF Frames
  <2>4. pc = "key" /\ stack' = WithTop(f) /\ pc' = "colon"
    BY <1>4 DEF MemberKey, Checked, Ask, At, Complain, Throw, View
  <2>. HIDE DEF f
  <2>5. Fns(stack') = Fns(stack)
    BY <1>2, <2>3, <2>4, ReplacedTop
  <2>. QED
    BY <1>2, <1>3, <2>4, <2>5
       DEF View, Maps, Automaton!Move, Automaton!TakeKey, Automaton!Reading, Automaton!Goes
<1>5. CASE CloseObjectForKey
  <2>1. pc = "key" /\ Return(TRUE, Top.out, Popped) /\ (Top.trailing => Lenient)
    BY <1>5
       DEF CloseObjectForKey, Checked, Complain, Throw, View, At, TrailingComma, Lenient
  <2>. QED
    BY <1>1, <1>2, <2>1, ClosingMaps DEF View
<1>6. CASE Delimiter
  <2>1. pc = "colon" /\ stack' = stack /\ pc' = "value"
    BY <1>6 DEF Delimiter, Checked, Ask, At, Complain, Throw, View
  <2>. QED
    BY <1>3, <2>1
       DEF View, Maps, Automaton!Move, Automaton!TakeColon, Automaton!Reading, Automaton!Goes
<1>7. CASE ReturnToObject
  <2>. DEFINE f == [Top EXCEPT !.out = PutMember(@, Top.key, val)]
  <2>1. f \in Frames /\ f.fn = "object"
    BY <1>2, BuildingTrees DEF Frames, TypeInv, ControlType
  <2>2. pc = "return" /\ stack' = WithTop(f) /\ pc' = "member_end"
    BY <1>7 DEF ReturnToObject, Checked, Ask, Complain, Throw, View
  <2>. HIDE DEF f
  <2>3. Fns(stack') = Fns(stack)
    BY <1>2, <2>1, <2>2, ReplacedTop
  <2>4. Expect = "member_end"
    <3>1. Fns(stack) # <<>> /\ Fns(stack)[Len(Fns(stack))] = "object"
      BY <1>2, FnsOfFrames DEF TypeInv, ControlType, Top
    <3>. QED
      BY <2>2, <3>1 DEF View, Automaton!After
  <2>5. Expect' = "member_end"
    BY <2>2 DEF View
  <2>. QED
    BY <1>1, <2>2, <2>3, <2>4, <2>5, MapsToNothing
<1>8. CASE IncompleteMember
  BY <1>8 DEF IncompleteMember, Rejected
<1>9. CASE CloseObject
  <2>1. pc = "member_end" /\ Return(TRUE, Top.out, Popped)
    BY <1>9 DEF CloseObject, At
  <2>. QED
    BY <1>1, <1>2, <2>1, ClosingMaps DEF View
<1>10. CASE ObjectSeparator
  <2>. DEFINE f == [Top EXCEPT !.trailing = TRUE]
  <2>1. f \in Frames /\ f.fn = "object" /\ f.trailing = TRUE
    BY <1>2 DEF Frames
  <2>2. pc = "member_end" /\ stack' = WithTop(f) /\ pc' = "key"
    BY <1>10 DEF ObjectSeparator, Ask, At
  <2>. HIDE DEF f
  <2>3. Fns(stack') = Fns(stack) /\ Top' = f
    BY <1>2, <2>1, <2>2, ReplacedTop
  <2>. QED
    BY <1>3, <2>1, <2>2, <2>3
       DEF View, Maps, Automaton!Move, Automaton!TakeComma, Automaton!Reading, Automaton!Goes
<1>11. CASE NoObjectSeparator
  BY <1>11 DEF NoObjectSeparator, Checked, Complain, Throw, View
<1>12. CASE UnmatchedBrace
  BY <1>12 DEF UnmatchedBrace, Checked, Complain, Throw, View
<1>. QED
  BY <1>4, <1>5, <1>6, <1>7, <1>8, <1>9, <1>10, <1>11, <1>12

\* parse: what follows the value, and its return.
LEMMA ParseMap ==
  ASSUME Accepting, ReturnToParse \/ Trailing \/ TrailingEnd \/ Finish
  PROVE  Maps
<1>. USE DEF Accepting
<1>1. UNCHANGED scenario /\ pc # "done"
  BY DEF ReturnToParse, Trailing, TrailingEnd, Finish, At, AtEnd, input
<1>2. pc \in {"return", "trailing", "finish"} /\ stack = <<>> /\ stack' = stack
  BY DEF ReturnToParse, Trailing, TrailingEnd, Finish, Checked, Ask, At, AtEnd,
         Complain, Throw, View, ControlIsStructured
<1>3. Expect = "end"
  BY <1>2 DEF View, Automaton!After, Fns
<1>4. pc' \in {"trailing", "finish", "done"} /\ (pc' = "done" => Finish)
  BY <1>1 DEF ReturnToParse, Trailing, TrailingEnd, Finish, Checked, Ask,
         Complain, Throw, View
<1>5. Expect' = "end"
  BY <1>2, <1>4 DEF View, Automaton!After, Fns
<1>6. CASE pc' # "done"
  BY <1>1, <1>2, <1>3, <1>5, <1>6, MapsToNothing
<1>7. CASE pc' = "done"
  BY <1>1, <1>2, <1>3, <1>5, <1>7
     DEF View, Maps, Lenient, opts, Automaton!Move, Automaton!Accept, Automaton!Reading
<1>. QED
  BY <1>6, <1>7

\* The caller's next call.
LEMMA ParseAgainMaps ==
  ASSUME ParseAgain
  PROVE  Maps
  BY DEF ParseAgain, Maps, Lenient, opts, Open, Expect, Verdict, Rejected, Fns, NextSites,
         Automaton!Move, Automaton!Restart

\* An input that is rejected stays so until the next call.
LEMMA RejectionLasts ==
  ASSUME TypeInv, ControlIsStructured, Next, Rejected, ~ParseAgain
  PROVE  Rejected'
<1>1. CASE Stop
  BY <1>1 DEF Stop, vars, input, errors, position, control, Rejected
<1>2. CASE NextToken \/ SkipWhitespace \/ SkipComment \/ NextEnd
  BY <1>2
     DEF NextToken, SkipWhitespace, SkipComment, NextEnd, Deliver, Checked, Complain, Throw,
         errors, control, Rejected, NextSites
<1>3. CASE Finish
  <2>1. pc = "finish" /\ outcome # "thrown"
    BY <1>3 DEF Finish, TypeInv, ControlType
  <2>2. successful = FALSE
    BY <2>1 DEF Rejected, NextSites, TypeInv, ErrorType
  <2>3. successful' = FALSE \/ outcome' = "thrown"
    BY <1>3, <2>2 DEF Finish, Throw
  <2>. QED
    BY <2>3 DEF Rejected
<1>. DEFINE Handling ==
              \/ Scalar \/ OpenArray \/ OpenObject \/ Invalid \/ NoValue
              \/ Skip \/ SkipToEnd
              \/ CloseArrayForItem \/ ReturnToArray \/ CloseArray
              \/ ArraySeparator \/ NoArraySeparator \/ UnmatchedBracket
              \/ MemberKey \/ CloseObjectForKey \/ Delimiter
              \/ ReturnToObject \/ IncompleteMember \/ CloseObject
              \/ ObjectSeparator \/ NoObjectSeparator \/ UnmatchedBrace
              \/ ReturnToParse \/ Trailing \/ TrailingEnd
<1>4. CASE Handling
  <2>1. /\ outcome = "running" /\ complete' = complete
        /\ UNCHANGED errors \/ successful' = FALSE \/ outcome' = "thrown"
    BY <1>4, StepsAreHandled DEF Noted, Complain, Throw, position
  <2>2. CASE ~successful
    BY <2>1, <2>2 DEF errors, Rejected
  <2>3. CASE successful
    <3>1. complete /\ ((pc = "return" /\ ~ret) \/ pc \in NextSites \ {"trailing"})
      BY <2>1, <2>3 DEF Rejected, ControlIsStructured
    <3>2. got # "token"
      BY <3>1 DEF ControlIsStructured
    <3>. HIDE DEF Handling
    <3>3. CASE NoValue \/ SkipToEnd
      BY <3>3 DEF NoValue, SkipToEnd, Return, Rejected
    <3>4. CASE ReturnToArray
      BY <2>1, <3>1, <3>4 DEF ReturnToArray, Ask, Rejected, NextSites
    <3>5. CASE UnmatchedBracket \/ UnmatchedBrace \/ IncompleteMember
      BY <3>5
         DEF UnmatchedBracket, UnmatchedBrace, IncompleteMember, Checked, Complain, Throw,
             Rejected
    <3>6. CASE ReturnToParse
      BY <3>1, <3>6 DEF ReturnToParse, Checked, Complain, Throw, Rejected, NextSites
    <3>7. ~ReturnToObject \/ Rejected'
      BY <3>1 DEF ReturnToObject, NextSites
    <3>8. ~TrailingEnd
      BY <3>1 DEF TrailingEnd, AtEnd, NextSites
    <3>9. /\ ~Scalar /\ ~OpenArray /\ ~OpenObject /\ ~Invalid /\ ~Skip
          /\ ~CloseArrayForItem /\ ~CloseArray /\ ~ArraySeparator /\ ~NoArraySeparator
          /\ ~MemberKey /\ ~CloseObjectForKey /\ ~Delimiter /\ ~CloseObject
          /\ ~ObjectSeparator /\ ~NoObjectSeparator /\ ~Trailing
      BY <3>2
         DEF Scalar, OpenArray, OpenObject, Invalid, Skip, CloseArrayForItem, CloseArray,
             ArraySeparator, NoArraySeparator, MemberKey, CloseObjectForKey, Delimiter,
             CloseObject, ObjectSeparator, NoObjectSeparator, Trailing, Dispatching, At
    <3>. QED
      BY <1>4, <3>3, <3>4, <3>5, <3>6, <3>7, <3>8, <3>9 DEF Handling
  <2>. QED
    BY <2>2, <2>3
<1>. QED
  BY <1>1, <1>2, <1>3, <1>4 DEF Next

\* Every step of the parser is a step of the automaton, or leaves it as it is.
LEMMA StepsMap ==
  ASSUME TypeInv, TypeInv', ControlIsStructured, [Next]_vars
  PROVE  Maps
<1>1. CASE UNCHANGED vars
  BY <1>1
     DEF vars, input, errors, position, control, Maps, Mapped, Lenient, opts, Open, Expect,
         Verdict, Rejected, Top
<1>2. CASE ParseAgain
  BY <1>2, ParseAgainMaps
<1>3. CASE Next /\ ~ParseAgain
  <2>1. CASE Stop
    BY <1>1, <2>1 DEF Stop
  <2>2. CASE ~Stop
    <3>1. UNCHANGED scenario /\ pc # "done"
      <4>1. CASE NextToken \/ SkipWhitespace \/ SkipComment \/ NextEnd
        BY <4>1 DEF NextToken, SkipWhitespace, SkipComment, NextEnd, Deliver, NextSites
      <4>2. CASE Finish
        BY <4>2 DEF Finish, input
      <4>3. CASE ~(NextToken \/ SkipWhitespace \/ SkipComment \/ NextEnd \/ Finish)
        <5>1. outcome = "running" /\ UNCHANGED input
          BY <1>3, <2>2, <4>3, StepsAreHandled DEF Next
        <5>. QED
          BY <5>1 DEF input, TypeInv, ControlType
      <4>. QED
        BY <4>1, <4>2, <4>3
    <3>2. CASE Rejected
      BY <1>3, <3>1, <3>2, RejectionLasts, StaysRejected
    <3>3. CASE ~Rejected /\ Rejected'
      BY <3>1, <3>3, BecomesRejected
    <3>4. CASE ~Rejected /\ ~Rejected'
      <4>1. Accepting
        BY <3>4, WhileAccepting, StillAccepting DEF Accepting
      <4>. QED
        BY <1>3, <2>2, <4>1, NextSitesMap, GenericMap, ArrayMap, ObjectMap, ParseMap DEF Next
    <3>. QED
      BY <3>2, <3>3, <3>4
  <2>. QED
    BY <2>1, <2>2
<1>. QED
  BY <1>1, <1>2, <1>3

\* The first call of parse begins where the automaton begins.
LEMMA InitialMaps == Init => Automaton!Begin
  BY DEF Init, InitialContext, Automaton!Begin, Lenient, Open, Expect, Verdict, Rejected,
         Fns, NextSites

\* The control states of the first call are as they should be.
LEMMA InitialStructured == Init => ControlIsStructured
  BY DEF Init, InitialContext, ControlIsStructured

\* The point reached in parse.cpp, the innermost frame and the end of the input always
\* belong together: parse_array and parse_object only look for what belongs into their own
\* container, and nothing is read past the value while a container is open.
THEOREM ControlStaysStructured == Spec => []ControlIsStructured
<1>1. Spec => []TypeInv
  BY InitialTypes, StepsTypes, PTL DEF Spec
<1>2. TypeInv /\ ControlIsStructured /\ [Next]_vars => ControlIsStructured'
  BY StructuredStep
<1>. QED
  BY <1>1, <1>2, InitialStructured, PTL DEF Spec

\* Whatever the options, the tokens and the length of the input, parse takes only what the
\* pushdown automaton of JSON takes, in that order, and returns a value as successful only
\* where the automaton accepts: no recovery from an error ever lets an input pass.
THEOREM ParserImplementsAutomaton == Spec => ImplementsAutomaton
<1>1. Spec => []TypeInv
  BY InitialTypes, StepsTypes, PTL DEF Spec
<1>2. TypeInv /\ TypeInv' /\ ControlIsStructured /\ [Next]_vars
        => [Automaton!Move]_(Automaton!automatonVars)
  BY StepsMap DEF Maps, Mapped, Automaton!automatonVars
<1>. QED
  BY <1>1, <1>2, InitialMaps, ControlStaysStructured, PTL
     DEF Spec, ImplementsAutomaton, Automaton!Behaviour

-----------------------------------------------------------------------------
(* The active calls and the open brackets. *)

\* The brackets open after one more token, from those open before it.
LEMMA NestingSteps ==
  /\ Nesting[<<>>] = <<>>
  /\ \A ks \in Seq(TokenKinds), k \in TokenKinds :
       /\ Nesting[ks] \in Seq(ContainerKinds)
       /\ Nesting[Append(ks, k)] = Bracketed(Nesting[ks], k)
<1>. DEFINE Opened == Seq(ContainerKinds)
            h == [p \in Opened \X TokenKinds |-> Bracketed(p[1], p[2])]
            Defines(g) == g = [ks \in Seq(TokenKinds) |->
              IF ks = <<>> THEN <<>>
              ELSE Bracketed(g[SubSeq(ks, 1, Len(ks) - 1)], ks[Len(ks)])]
<1>1. ASSUME NEW o \in Opened, NEW k PROVE Bracketed(o, k) \in Opened
  <2>1. "array" \in ContainerKinds /\ "object" \in ContainerKinds
    BY DEF ContainerKinds
  <2>2. Append(o, "array") \in Opened /\ Append(o, "object") \in Opened
    BY <2>1
  <2>3. o # <<>> => SubSeq(o, 1, Len(o) - 1) \in Opened
    OBVIOUS
  <2>. QED
    BY <2>2, <2>3 DEF Bracketed
<1>2. h \in [Opened \X TokenKinds -> Opened]
  BY <1>1
<1>3. ASSUME NEW o \in Opened, NEW k \in TokenKinds PROVE h[<<o, k>>] = Bracketed(o, k)
  OBVIOUS
<1>4. <<>> \in Opened
  OBVIOUS
<1>. HIDE DEF h, Opened
<1>5. PICK f \in [Seq(TokenKinds) -> Opened] :
        /\ f[<<>>] = <<>>
        /\ \A ks \in Seq(TokenKinds), k \in TokenKinds : f[Append(ks, k)] = h[<<f[ks], k>>]
  <2>. DEFINE Recursion(S, R) ==
         \A a \in R, g \in [R \X S -> R] : \E f \in [Seq(S) -> R] :
           /\ f[<<>>] = a
           /\ \A s \in Seq(S), x \in S : f[Append(s, x)] = g[<<f[s], x>>]
  <2>1. \A S, R : Recursion(S, R)
    BY RecursionOnSequences
  <2>2. Recursion(TokenKinds, Opened)
    <3>. HIDE DEF Recursion
    <3>. QED
      BY <2>1
  <2>. QED
    BY <1>2, <1>4, <2>2
<1>6. ASSUME NEW ks \in Seq(TokenKinds), ks # <<>>
      PROVE  /\ SubSeq(ks, 1, Len(ks) - 1) \in Seq(TokenKinds)
             /\ ks[Len(ks)] \in TokenKinds
             /\ ks = Append(SubSeq(ks, 1, Len(ks) - 1), ks[Len(ks)])
  BY <1>6
<1>7. Defines(f)
  <2>1. ASSUME NEW ks \in Seq(TokenKinds), ks # <<>>
        PROVE  f[ks] = Bracketed(f[SubSeq(ks, 1, Len(ks) - 1)], ks[Len(ks)])
    <3>. DEFINE b == SubSeq(ks, 1, Len(ks) - 1)
    <3>1. b \in Seq(TokenKinds) /\ ks[Len(ks)] \in TokenKinds /\ ks = Append(b, ks[Len(ks)])
      BY <1>6, <2>1
    <3>. HIDE DEF b
    <3>2. f[ks] = h[<<f[b], ks[Len(ks)]>>] /\ f[b] \in Opened
      BY <1>5, <3>1
    <3>. QED
      BY <1>3, <3>1, <3>2 DEF b
  <2>. QED
    BY <1>5, <2>1
<1>8. Defines(Nesting)
  <2>1. Nesting = CHOOSE g : Defines(g)
    BY DEF Nesting
  <2>. HIDE DEF Defines
  <2>. QED
    BY <1>7, <2>1
<1>9. Nesting[<<>>] = <<>>
  BY <1>8
<1>10. ASSUME NEW ks \in Seq(TokenKinds), NEW k \in TokenKinds
       PROVE  Nesting[Append(ks, k)] = Bracketed(Nesting[ks], k)
  <2>. DEFINE w == Append(ks, k)
  <2>1. /\ w \in Seq(TokenKinds) /\ w # <<>>
        /\ SubSeq(w, 1, Len(w) - 1) = ks /\ w[Len(w)] = k
    OBVIOUS
  <2>. HIDE DEF w
  <2>2. Nesting[w] = Bracketed(Nesting[SubSeq(w, 1, Len(w) - 1)], w[Len(w)])
    BY <1>8, <2>1
  <2>. QED
    BY <2>1, <2>2 DEF w
<1>. DEFINE N == {n \in Nat : \A ks \in Seq(TokenKinds) : Len(ks) = n => Nesting[ks] \in Opened}
<1>11. N = Nat
  <2>1. 0 \in N
    BY <1>4, <1>9
  <2>2. ASSUME NEW n \in N PROVE n + 1 \in N
    <3>1. SUFFICES ASSUME NEW ks \in Seq(TokenKinds), Len(ks) = n + 1
                   PROVE  Nesting[ks] \in Opened
      OBVIOUS
    <3>. DEFINE b == SubSeq(ks, 1, Len(ks) - 1)
    <3>2. b \in Seq(TokenKinds) /\ Len(b) = n /\ ks # <<>>
      BY <3>1
    <3>3. Nesting[b] \in Opened
      BY <3>2
    <3>4. Nesting[ks] = Bracketed(Nesting[b], ks[Len(ks)])
      BY <1>8, <3>2
    <3>. QED
      BY <1>1, <3>3, <3>4
  <2>3. N \in SUBSET Nat
    OBVIOUS
  <2>. HIDE DEF N
  <2>. QED
    BY <2>1, <2>2, <2>3, Induction
<1>12. ASSUME NEW ks \in Seq(TokenKinds) PROVE Nesting[ks] \in Opened
  <2>1. Len(ks) \in N
    <3>1. Len(ks) \in Nat
      OBVIOUS
    <3>. HIDE DEF N
    <3>. QED
      BY <1>11, <3>1
  <2>. QED
    BY <2>1
<1>. QED
  BY <1>9, <1>10, <1>12 DEF Opened

\* The kinds of one more token.
LEMMA KindsOfAppend ==
  ASSUME NEW S, \A t \in S : t.kind \in TokenKinds, NEW ts \in Seq(S), NEW t \in S
  PROVE  /\ Kinds(ts) \in Seq(TokenKinds)
         /\ Kinds(Append(ts, t)) = Append(Kinds(ts), t.kind)
<1>. DEFINE n == Len(ts)
<1>1. n \in Nat /\ DOMAIN ts = 1 .. n /\ \A i \in 1 .. n : ts[i].kind \in TokenKinds
  BY LenProperties, ElementOfSeq
<1>2. /\ Kinds(ts) \in Seq(TokenKinds) /\ Len(Kinds(ts)) = n
      /\ \A i \in 1 .. n : Kinds(ts)[i] = ts[i].kind
  BY <1>1, IsASeq DEF Kinds
<1>3. /\ DOMAIN Append(ts, t) = 1 .. n + 1
      /\ \A i \in 1 .. n : Append(ts, t)[i] = ts[i]
      /\ Append(ts, t)[n + 1] = t
  BY <1>1, AppendProperties
<1>4. /\ DOMAIN Append(Kinds(ts), t.kind) = 1 .. n + 1
      /\ Append(Kinds(ts), t.kind) \in Seq(TokenKinds)
      /\ \A i \in 1 .. n : Append(Kinds(ts), t.kind)[i] = ts[i].kind
      /\ Append(Kinds(ts), t.kind)[n + 1] = t.kind
  BY <1>1, <1>2, AppendProperties
<1>5. \A i \in 1 .. n + 1 : Append(ts, t)[i].kind = Append(Kinds(ts), t.kind)[i]
  BY <1>1, <1>3, <1>4
<1>. QED
  BY <1>2, <1>3, <1>4, <1>5 DEF Kinds

\* A call only handles a token it has taken itself.
HandlingInv == got = "token" => begin < Len(seen)

\* A step that handles the token it holds.
LEMMA OneMoreHandled ==
  ASSUME TypeInv, HandlingInv, got = "token", got' # "token", UNCHANGED <<seen, begin>>
  PROVE  /\ Kinds(Handled) \in Seq(TokenKinds) /\ Current.kind \in TokenKinds
         /\ Kinds(Handled') = Append(Kinds(Handled), Current.kind)
<1>. DEFINE b == SubSeq(Taken, 1, Len(Taken) - 1)
<1>1. /\ b \in Seq(scenario.tokens) /\ Current \in scenario.tokens
      /\ Taken = Append(b, Current)
  BY LastTaken DEF HandlingInv
<1>2. Handled = b /\ Handled' = Taken
  BY DEF Handled, Taken
<1>. HIDE DEF b
<1>. QED
  BY <1>1, <1>2, TakenTypes, KindsOfAppend

\* A step that takes a blank token, or one it does not handle yet.
LEMMA OneMoreTaken ==
  ASSUME TypeInv, got = "none", UNCHANGED begin,
         NEW t \in scenario.tokens, seen' = Append(seen, t)
  PROVE  /\ Kinds(Handled) \in Seq(TokenKinds) /\ t.kind \in TokenKinds
         /\ got' = "token" => Handled' = Handled /\ HandlingInv'
         /\ got' = "none" => Kinds(Handled') = Append(Kinds(Handled), t.kind) /\ HandlingInv'
<1>1. seen \in Seq(scenario.tokens) /\ begin \in 0 .. Len(seen)
  BY DEF TypeInv, InputType
<1>2. /\ Taken \in Seq(scenario.tokens) /\ Taken' = Append(Taken, t)
      /\ SubSeq(Taken', 1, Len(Taken') - 1) = Taken
  BY TakenGrows, TakenTypes
<1>3. Handled = Taken
  BY DEF Handled
<1>4. CASE got' = "token"
  <2>1. HandlingInv'
    BY <1>1 DEF HandlingInv
  <2>. QED
    BY <1>2, <1>3, <1>4, <2>1, TakenTypes, KindsOfAppend DEF Handled
<1>5. CASE got' # "token"
  <2>1. Handled' = Taken' /\ HandlingInv'
    BY <1>5 DEF Handled, HandlingInv
  <2>. QED
    BY <1>2, <1>3, <1>5, <2>1, TakenTypes, KindsOfAppend
<1>. QED
  BY <1>4, <1>5

\* The mirror, with what it takes to keep it.
MirrorInv == HandlingInv /\ StackMirrorsBrackets

\* A step mirrors the token it handles.
LEMMA MirrorsToken ==
  ASSUME TypeInv, MirrorInv, UNCHANGED <<seen, begin>>, got' = "none", successful,
         outcome = "running",
         got = "token" => Fns(stack') = Bracketed(Fns(stack), Current.kind),
         got # "token" => Fns(stack') = Fns(stack)
  PROVE  Fns(stack') = Nesting[Kinds(Handled')]
<1>1. Fns(stack) = Nesting[Kinds(Handled)]
  BY DEF MirrorInv, StackMirrorsBrackets
<1>2. CASE got = "token"
  <2>1. /\ Kinds(Handled) \in Seq(TokenKinds) /\ Current.kind \in TokenKinds
        /\ Kinds(Handled') = Append(Kinds(Handled), Current.kind)
    BY <1>2, OneMoreHandled DEF MirrorInv
  <2>. QED
    BY <1>1, <1>2, <2>1, NestingSteps
<1>3. CASE got # "token"
  <2>1. Handled' = Handled
    BY <1>3 DEF Handled, Taken
  <2>. QED
    BY <1>1, <1>3, <2>1
<1>. QED
  BY <1>2, <1>3

\* What a token does to the frames, as long as it is no error: an opening bracket pushes
\* one, a closing one pops it, and any other leaves them.
LEMMA FramesFollowTokens ==
  ASSUME TypeInv, ControlIsStructured, UNCHANGED errors, successful,
         \/ Scalar \/ OpenArray \/ OpenObject \/ Invalid \/ NoValue
         \/ Skip \/ SkipToEnd
         \/ CloseArrayForItem \/ ReturnToArray \/ CloseArray
         \/ ArraySeparator \/ NoArraySeparator \/ UnmatchedBracket
         \/ MemberKey \/ CloseObjectForKey \/ Delimiter
         \/ ReturnToObject \/ IncompleteMember \/ CloseObject
         \/ ObjectSeparator \/ NoObjectSeparator \/ UnmatchedBrace
         \/ ReturnToParse \/ Trailing \/ TrailingEnd
  PROVE  /\ got' = "none"
         /\ got = "token" => Fns(stack') = Bracketed(Fns(stack), Current.kind)
         /\ got # "token" => Fns(stack') = Fns(stack)
<1>. DEFINE Goal == /\ got' = "none"
                    /\ got = "token" => Fns(stack') = Bracketed(Fns(stack), Current.kind)
                    /\ got # "token" => Fns(stack') = Fns(stack)
            Paired == {"array_begin", "object_begin", "array_end", "object_end"}
            Plain(k) == k \notin Paired
<1>1. \A o, k : Plain(k) => Bracketed(o, k) = o
  BY DEF Bracketed
<1>2. successful' /\ outcome' = outcome /\ outcome = "running"
  BY StepsAreHandled DEF errors
<1>3. ~Complain(pos) /\ ~Throw(pos)
  BY <1>2 DEF Complain, Throw
<1>4. stack \in Seq(Frames)
  BY DEF TypeInv, ControlType
\* The three kinds of steps.
<1>5. ASSUME got' = "none", got = "token", Plain(Current.kind), Fns(stack') = Fns(stack)
      PROVE  Goal
  BY <1>1, <1>5
<1>6. ASSUME NEW fn \in ContainerKinds, NEW out, Frame(fn, out) \in Frames,
             stack' = Append(stack, Frame(fn, out))
      PROVE  Fns(stack') = Append(Fns(stack), fn)
  BY <1>4, <1>6, FnsOfFrames DEF Frame
<1>7. ASSUME got' = "none", got = "token", Current.kind \in {"array_end", "object_end"},
             stack # <<>>, stack' = Popped
      PROVE  Goal
  <2>1. PICK f \in Frames : f = Top
    BY <1>7, StackTypes DEF TypeInv
  <2>2. Fns(stack) # <<>> /\ Fns(stack') = SubSeq(Fns(stack), 1, Len(Fns(stack)) - 1)
    BY <1>4, <1>7, <2>1, FnsOfFrames DEF Popped
  <2>. QED
    BY <1>7, <2>2 DEF Bracketed
<1>8. ASSUME stack # <<>>, NEW f \in Frames, f.fn = Top.fn, stack' = WithTop(f)
      PROVE  Fns(stack') = Fns(stack)
  BY <1>8, ReplacedTop
<1>. HIDE DEF Plain
\* parse_generic.
<1>9. CASE Scalar
  <2>1. got' = "none" /\ stack' = stack /\ got = "token"
    BY <1>3, <1>9 DEF Scalar, Checked, Return, Dispatching, At
  <2>2. Plain(Current.kind)
    BY <1>9 DEF Scalar, ScalarTokenKinds, ScalarKinds, Plain
  <2>. QED
    BY <1>5, <2>1, <2>2
<1>10. CASE OpenArray
  <2>1. Frame("array", EmptyArray) \in Frames
    BY ConstantTrees DEF Frame, Frames, ContainerKinds, Text
  <2>2. Fns(stack') = Append(Fns(stack), "array")
    BY <1>6, <1>10, <2>1 DEF OpenArray, Ask, ContainerKinds
  <2>. QED
    BY <1>10, <2>2 DEF OpenArray, Ask, Dispatching, At, Bracketed
<1>11. CASE OpenObject
  <2>1. Frame("object", EmptyObject) \in Frames
    BY ConstantTrees DEF Frame, Frames, ContainerKinds, Text
  <2>2. Fns(stack') = Append(Fns(stack), "object")
    BY <1>6, <1>11, <2>1 DEF OpenObject, Ask, ContainerKinds
  <2>. QED
    BY <1>11, <2>2 DEF OpenObject, Ask, Dispatching, At, Bracketed
<1>12. ~Invalid /\ ~NoArraySeparator /\ ~UnmatchedBracket /\ ~IncompleteMember
       /\ ~NoObjectSeparator /\ ~UnmatchedBrace
  BY <1>3
     DEF Invalid, NoArraySeparator, UnmatchedBracket, IncompleteMember, NoObjectSeparator,
         UnmatchedBrace, Checked
<1>13. ~Skip /\ ~SkipToEnd
  BY DEF Skip, SkipToEnd, At, AtEnd, ControlIsStructured
<1>14. CASE NoValue
  BY <1>14 DEF NoValue, Return, AtEnd
\* parse_array and parse_object, with a frame on top.
<1>15. ASSUME \/ CloseArrayForItem \/ ReturnToArray \/ CloseArray \/ ArraySeparator
              \/ MemberKey \/ CloseObjectForKey \/ Delimiter
              \/ ReturnToObject \/ CloseObject \/ ObjectSeparator
       PROVE  stack # <<>> /\ Top \in Frames
  <2>1. stack # <<>>
    BY <1>15
       DEF CloseArrayForItem, ReturnToArray, CloseArray, ArraySeparator, MemberKey,
           CloseObjectForKey, Delimiter, ReturnToObject, CloseObject, ObjectSeparator,
           At, ControlIsStructured
  <2>. QED
    BY <2>1, StackTypes DEF TypeInv
<1>16. CASE CloseArrayForItem \/ CloseArray \/ CloseObjectForKey \/ CloseObject
  <2>1. /\ got' = "none" /\ got = "token" /\ stack' = Popped
        /\ Current.kind \in {"array_end", "object_end"}
    BY <1>3, <1>16
       DEF CloseArrayForItem, CloseArray, CloseObjectForKey, CloseObject, Checked, Return, At
  <2>. QED
    BY <1>7, <1>15, <1>16, <2>1
<1>17. CASE ReturnToArray
  <2>. DEFINE f == [Top EXCEPT !.trailing = FALSE, !.out = PushBack(@, val)]
  <2>1. f \in Frames /\ f.fn = Top.fn
    BY <1>15, <1>17, BuildingTrees DEF Frames, TypeInv, ControlType
  <2>2. Ask("item_end", WithTop(f)) \/ Ask("item_end", stack)
    BY <1>17 DEF ReturnToArray
  <2>3. got = "none"
    BY <1>17 DEF ReturnToArray, TypeInv, ControlType, NextSites
  <2>. HIDE DEF f
  <2>. QED
    BY <1>8, <1>15, <1>17, <2>1, <2>2, <2>3 DEF Ask
<1>18. CASE ReturnToObject
  <2>. DEFINE f == [Top EXCEPT !.out = PutMember(@, Top.key, val)]
  <2>1. f \in Frames /\ f.fn = Top.fn
    BY <1>15, <1>18, BuildingTrees DEF Frames, TypeInv, ControlType
  <2>2. Ask("member_end", WithTop(f))
    BY <1>3, <1>18 DEF ReturnToObject, Checked
  <2>3. got = "none"
    BY <1>18 DEF ReturnToObject, TypeInv, ControlType, NextSites
  <2>. HIDE DEF f
  <2>. QED
    BY <1>8, <1>15, <1>18, <2>1, <2>2, <2>3 DEF Ask
<1>19. CASE ArraySeparator \/ ObjectSeparator
  <2>. DEFINE f == [Top EXCEPT !.trailing = TRUE]
  <2>1. f \in Frames /\ f.fn = Top.fn
    BY <1>15, <1>19 DEF Frames
  <2>2. got' = "none" /\ got = "token" /\ stack' = WithTop(f) /\ Current.kind = "separator"
    BY <1>19 DEF ArraySeparator, ObjectSeparator, Ask, At
  <2>. HIDE DEF f
  <2>. QED
    BY <1>5, <1>8, <1>15, <1>19, <2>1, <2>2 DEF Plain
<1>20. CASE MemberKey
  <2>. DEFINE isString == Current.kind = "string"
              key == IF isString THEN Current.means ELSE Current.text
              f == [Top EXCEPT !.trailing = @ /\ ~isString, !.key = key]
  <2>1. TokenOK(Current)
    BY <1>20, HandlingTypes DEF MemberKey, At
  <2>2. key \in Text
    BY <2>1 DEF TokenOK
  <2>3. f \in Frames /\ f.fn = Top.fn
    BY <1>15, <1>20, <2>2 DEF Frames
  <2>4. Ask("colon", WithTop(f)) /\ isString /\ got = "token"
    BY <1>3, <1>20 DEF MemberKey, Checked, At
  <2>. HIDE DEF f
  <2>. QED
    BY <1>5, <1>8, <1>15, <1>20, <2>3, <2>4 DEF Plain, Ask
<1>21. CASE Delimiter
  <2>1. Ask("value", stack) /\ Current.kind = "object_key_delimiter" /\ got = "token"
    BY <1>3, <1>21 DEF Delimiter, Checked, At
  <2>. QED
    BY <1>5, <2>1 DEF Plain, Ask
\* parse.
<1>22. CASE ReturnToParse
  <2>1. got = "none"
    BY <1>22 DEF ReturnToParse, TypeInv, ControlType, NextSites
  <2>. QED
    BY <1>3, <1>22, <2>1 DEF ReturnToParse, Checked
<1>23. CASE Trailing
  <2>1. Ask("trailing", stack) /\ Current.nul /\ got = "token"
    BY <1>3, <1>23 DEF Trailing, Checked, At
  <2>2. TokenOK(Current)
    BY <2>1, HandlingTypes
  <2>. QED
    BY <1>5, <2>1, <2>2 DEF Plain, Ask, TokenOK
<1>24. CASE TrailingEnd
  BY <1>24 DEF TrailingEnd, AtEnd
<1>. QED
  BY <1>9, <1>10, <1>11, <1>12, <1>13, <1>14, <1>16, <1>17, <1>18, <1>19, <1>20, <1>21,
     <1>22, <1>23, <1>24

\* The code between two calls of next keeps the mirror.
LEMMA HandlingMirrors ==
  ASSUME TypeInv, ControlIsStructured, MirrorInv,
         \/ Scalar \/ OpenArray \/ OpenObject \/ Invalid \/ NoValue
         \/ Skip \/ SkipToEnd
         \/ CloseArrayForItem \/ ReturnToArray \/ CloseArray
         \/ ArraySeparator \/ NoArraySeparator \/ UnmatchedBracket
         \/ MemberKey \/ CloseObjectForKey \/ Delimiter
         \/ ReturnToObject \/ IncompleteMember \/ CloseObject
         \/ ObjectSeparator \/ NoObjectSeparator \/ UnmatchedBrace
         \/ ReturnToParse \/ Trailing \/ TrailingEnd
  PROVE  MirrorInv'
<1>1. /\ outcome = "running" /\ UNCHANGED input
      /\ UNCHANGED errors \/ successful' = FALSE \/ outcome' = "thrown"
  BY StepsAreHandled DEF Noted, Complain, Throw
<1>2. UNCHANGED <<seen, begin>>
  BY <1>1 DEF input
<1>3. HandlingInv'
  <2>1. got' = "none" \/ got' = got
    BY DEF Scalar, OpenArray, OpenObject, Invalid, NoValue, Skip, SkipToEnd,
           CloseArrayForItem, ReturnToArray, CloseArray, ArraySeparator, NoArraySeparator,
           UnmatchedBracket, MemberKey, CloseObjectForKey, Delimiter, ReturnToObject,
           IncompleteMember, CloseObject, ObjectSeparator, NoObjectSeparator,
           UnmatchedBrace, ReturnToParse, Trailing, TrailingEnd, Checked, Throw, Ask, Return
  <2>. QED
    BY <1>2, <2>1 DEF MirrorInv, HandlingInv
<1>4. ASSUME outcome' = "running", successful'
      PROVE  Fns(stack') = Nesting[Kinds(Handled')]
  <2>1. UNCHANGED errors /\ successful
    BY <1>1, <1>4 DEF errors
  <2>2. /\ got' = "none"
        /\ got = "token" => Fns(stack') = Bracketed(Fns(stack), Current.kind)
        /\ got # "token" => Fns(stack') = Fns(stack)
    BY <2>1, FramesFollowTokens
  <2>. QED
    BY <1>1, <1>2, <2>1, <2>2, MirrorsToken
<1>. QED
  BY <1>3, <1>4 DEF MirrorInv, StackMirrorsBrackets

\* So does next, whose blank tokens open and close nothing.
LEMMA NextSitesMirror ==
  ASSUME TypeInv, MirrorInv, NextToken \/ SkipWhitespace \/ SkipComment \/ NextEnd
  PROVE  MirrorInv'
<1>1. outcome = "running"
  BY DEF NextToken, SkipWhitespace, SkipComment, NextEnd, Deliver, NextSites, TypeInv,
         ControlType
<1>2. CASE NextEnd
  <2>1. got = "none" /\ got' = "end" /\ UNCHANGED <<seen, begin, errors, stack>>
    BY <1>2 DEF NextEnd
  <2>2. Handled' = Handled
    BY <2>1 DEF Handled, Taken
  <2>. QED
    BY <2>1, <2>2 DEF MirrorInv, HandlingInv, StackMirrorsBrackets, errors
<1>3. CASE NextToken
  <2>1. PICK t \in scenario.tokens :
          got = "none" /\ seen' = Append(seen, t) /\ UNCHANGED begin
    BY <1>3 DEF NextToken, Deliver
  <2>2. got' = "token" /\ UNCHANGED <<errors, stack>>
    BY <1>3 DEF NextToken
  <2>3. Handled' = Handled /\ HandlingInv'
    BY <2>1, <2>2, OneMoreTaken
  <2>. QED
    BY <2>2, <2>3 DEF MirrorInv, StackMirrorsBrackets, errors
<1>4. CASE SkipWhitespace \/ SkipComment
  <2>1. PICK t \in scenario.tokens :
          /\ t.kind \in BlankKinds
          /\ got = "none" /\ seen' = Append(seen, t) /\ UNCHANGED begin
    BY <1>4 DEF SkipWhitespace, SkipComment, Deliver, BlankKinds
  <2>2. /\ got' = "none"
        /\ \/ UNCHANGED <<errors, stack>>
           \/ successful' = FALSE \/ outcome' = "thrown"
    BY <1>4, <2>1
       DEF SkipWhitespace, SkipComment, Checked, Complain, Throw, control, errors
  <2>3. /\ Kinds(Handled) \in Seq(TokenKinds) /\ t.kind \in TokenKinds
        /\ Kinds(Handled') = Append(Kinds(Handled), t.kind) /\ HandlingInv'
    BY <2>1, <2>2, OneMoreTaken
  <2>4. Nesting[Kinds(Handled')] = Nesting[Kinds(Handled)]
    BY <2>1, <2>3, NestingSteps DEF Bracketed, BlankKinds
  <2>. QED
    BY <2>2, <2>3, <2>4 DEF MirrorInv, StackMirrorsBrackets, errors
<1>. QED
  BY <1>2, <1>3, <1>4

\* At the start of a parse nothing is handled, and nothing is open.
Fresh == begin = Len(seen) /\ got = "none" /\ stack = <<>>

\* A fresh call mirrors the brackets: there are none.
LEMMA FreshMirrors == TypeInv /\ Fresh => MirrorInv
<1>. USE DEF Fresh
<1>. SUFFICES ASSUME TypeInv, Fresh PROVE MirrorInv
  OBVIOUS
<1>1. Len(seen) \in Nat /\ Taken = <<>>
  BY SubSeqEmpty DEF Taken, TypeInv, InputType
<1>2. Handled = <<>>
  BY <1>1 DEF Handled
<1>3. Fns(stack) = <<>> /\ Kinds(Handled) = <<>>
  BY <1>2 DEF Fns, Kinds
<1>. QED
  BY <1>3, NestingSteps DEF MirrorInv, HandlingInv, StackMirrorsBrackets

\* The same after a step.
LEMMA NextFreshMirrors == TypeInv' /\ Fresh' => MirrorInv'
  BY FreshMirrors, PTL

\* Every step keeps the mirror.
LEMMA MirrorStep ==
  TypeInv /\ TypeInv' /\ ControlIsStructured /\ MirrorInv /\ [Next]_vars => MirrorInv'
<1>. SUFFICES ASSUME TypeInv, TypeInv', ControlIsStructured, MirrorInv, [Next]_vars
              PROVE  MirrorInv'
  OBVIOUS
<1>1. CASE UNCHANGED vars
  <2>1. Handled' = Handled
    BY <1>1 DEF vars, input, control, Handled, Taken
  <2>. QED
    BY <1>1, <2>1
       DEF vars, input, errors, control, MirrorInv, HandlingInv, StackMirrorsBrackets
<1>2. CASE Stop
  BY <1>1, <1>2 DEF Stop
<1>3. CASE ParseAgain
  BY <1>3, NextFreshMirrors DEF ParseAgain, Fresh
<1>4. CASE Finish
  <2>1. outcome' # "running" /\ UNCHANGED <<seen, begin>> /\ got = "none"
    BY <1>4
       DEF Finish, Throw, input, TypeInv, ControlType, NextSites
  <2>2. got' = "none"
    BY <1>4, <2>1 DEF Finish, Throw
  <2>. QED
    BY <2>1, <2>2 DEF MirrorInv, HandlingInv, StackMirrorsBrackets
<1>. QED
  BY <1>1, <1>2, <1>3, <1>4, NextSitesMirror, HandlingMirrors DEF Next

\* As long as no error is found, and however long and deep the input is, the calls of
\* parse_array and parse_object that are active are exactly the brackets and braces open
\* in what has been read: no call returns too early or too late.
THEOREM CallsAreOpenBrackets == Spec => []StackMirrorsBrackets
<1>1. Init => MirrorInv
  <2>. SUFFICES ASSUME Init PROVE MirrorInv
    OBVIOUS
  <2>1. TypeInv
    BY InitialTypes
  <2>. QED
    BY <2>1, FreshMirrors DEF Init, InitialContext, Fresh
<1>2. Spec => []TypeInv
  BY InitialTypes, StepsTypes, PTL DEF Spec
<1>3. MirrorInv => StackMirrorsBrackets
  BY DEF MirrorInv
<1>. QED
  BY <1>1, <1>2, <1>3, MirrorStep, ControlStaysStructured, PTL DEF Spec

-----------------------------------------------------------------------------
(* The parser follows the reader. *)

\* The reader after the tokens that the parser has handled.
Reader == Read(Significant(Handled), opts)

\* A call only handles a token it has taken itself, and no blank one.
TokenInv == got = "token" => begin < Len(seen) /\ Current.kind \notin BlankKinds

\* The frames of the parser are the levels of the reader.
LEMMA FramesAreLevels ==
  /\ Frames = Levels
  /\ stack # <<>> => Top = Last(stack) /\ Popped = Front(stack)
  /\ \A fn, out : Frame(fn, out) = Opening(fn, out)
  BY DEF Frames, Levels, Top, Popped, Last, Front, Frame, Opening

\* The tokens of a scenario are tokens for the reader.
LEMMA TokensHaveMeanings ==
  ASSUME TypeInv
  PROVE  Taken \in Seq(scenario.tokens) /\ \A t \in scenario.tokens : t.means \in Text
  BY TakenTypes DEF TokenOK

\* The reader takes a token when the parser handles it.
LEMMA ReaderTakesToken ==
  ASSUME TypeInv, TokenInv, got = "token", got' # "token", UNCHANGED <<seen, begin, scenario>>
  PROVE  /\ Handled' = Taken /\ Taken' = Taken
         /\ Read(Significant(Taken), opts) = Takes(opts, Reader, Current)
         /\ EndsInAToken(Taken)
<1>. DEFINE b == SubSeq(Taken, 1, Len(Taken) - 1)
<1>1. /\ b \in Seq(scenario.tokens) /\ Current \in scenario.tokens
      /\ Taken = Append(b, Current) /\ Current.kind \notin Skipped
  BY LastTaken DEF TokenInv, BlankKinds, Skipped
<1>2. Handled = b /\ Handled' = Taken /\ Taken' = Taken
  BY DEF Handled, Taken
<1>. HIDE DEF b
<1>3. /\ Significant(b) \in Seq(scenario.tokens)
      /\ Significant(Taken) = Append(Significant(b), Current)
  BY <1>1, SignificantGrows
<1>4. Read(Significant(Taken), opts) = Takes(opts, Reader, Current)
  BY <1>1, <1>2, <1>3, TokensHaveMeanings, ReadGrows DEF Reader
<1>5. EndsInAToken(Taken)
  BY <1>1, AppendProperties DEF EndsInAToken, Skipped
<1>. QED
  BY <1>2, <1>4, <1>5

\* The next token that next takes is not yet handled; a blank one does not matter to the
\* reader.
LEMMA ReaderSkipsBlanks ==
  ASSUME TypeInv, got = "none", UNCHANGED <<begin, scenario>>,
         NEW t \in scenario.tokens, seen' = Append(seen, t)
  PROVE  /\ Taken' = Append(Taken, t) /\ Taken' \in Seq(scenario.tokens)
         /\ Handled = Taken
         /\ got' = "token" => Handled' = Taken /\ begin' < Len(seen') /\ Current' = t
         /\ got' = "none" => Handled' = Taken'
         /\ t.kind \in BlankKinds => Significant(Taken') = Significant(Taken)
<1>1. seen \in Seq(scenario.tokens) /\ begin \in 0 .. Len(seen)
  BY DEF TypeInv, InputType
<1>2. /\ Taken \in Seq(scenario.tokens) /\ Taken' = Append(Taken, t)
      /\ SubSeq(Taken', 1, Len(Taken') - 1) = Taken /\ begin' < Len(seen')
  BY TakenGrows, TakenTypes
<1>3. Current' = t
  BY <1>1, AppendProperties DEF Current
<1>4. t.kind \in BlankKinds => Significant(Taken') = Significant(Taken)
  BY <1>2, SignificantGrows DEF BlankKinds, Skipped
<1>5. Taken' \in Seq(scenario.tokens)
  BY <1>2, AppendProperties
<1>. QED
  BY <1>2, <1>3, <1>4, <1>5 DEF Handled

\* An input without hope stays so.
LEMMA HopelessForGood ==
  ASSUME TypeInv, UNCHANGED scenario, ~Hopeful(Taken, opts),
         Taken' = Taken \/ \E t \in scenario.tokens : Taken' = Append(Taken, t)
  PROVE  ~Hopeful(Taken', opts')
<1>1. opts' = opts /\ Taken \in Seq(scenario.tokens) /\ Len(Taken) \in Nat
  BY TokensHaveMeanings DEF opts
<1>2. CASE Taken' = Taken
  BY <1>1, <1>2
<1>3. ASSUME NEW t \in scenario.tokens, Taken' = Append(Taken, t) PROVE ~Hopeful(Taken', opts')
  <2>1. CASE HasRefusedComment(Taken, opts)
    <3>1. \A i \in DOMAIN Taken : i \in DOMAIN Taken' /\ Taken'[i] = Taken[i]
      BY <1>1, <1>3, AppendProperties
    <3>. QED
      BY <1>1, <2>1, <3>1 DEF HasRefusedComment, Hopeful
  <2>2. CASE Read(Significant(Taken), opts) = Failed
    <3>1. /\ Significant(Taken) \in Seq(scenario.tokens)
          /\ Significant(Taken') = IF t.kind \in Skipped THEN Significant(Taken)
                                   ELSE Append(Significant(Taken), t)
      BY <1>1, <1>3, SignificantGrows
    <3>2. Read(Append(Significant(Taken), t), opts) = Failed
      BY <2>2, <3>1, TokensHaveMeanings, ReadGrows, FailedForGood
    <3>. QED
      BY <1>1, <2>2, <3>1, <3>2 DEF Hopeful
  <2>. QED
    BY <2>1, <2>2 DEF Hopeful
<1>. QED
  BY <1>2, <1>3

\* What a step does to the input of the call.
LEMMA StepsTake ==
  ASSUME TypeInv, Next, ~ParseAgain
  PROVE  /\ UNCHANGED scenario
         /\ exhausted => exhausted'
         /\ \/ Taken' = Taken
            \/ ~exhausted /\ \E t \in scenario.tokens : Taken' = Append(Taken, t)
         /\ pc = "done" => Stop
<1>1. CASE NextToken \/ SkipWhitespace \/ SkipComment
  <2>1. PICK t \in scenario.tokens : Deliver(t)
    BY <1>1 DEF NextToken, SkipWhitespace, SkipComment
  <2>2. Taken' = Append(Taken, t)
    BY <2>1, TakenGrows DEF Deliver
  <2>. QED
    BY <2>1, <2>2 DEF Deliver, NextSites
<1>2. CASE NextEnd
  BY <1>2 DEF NextEnd, NextSites, Taken
<1>3. CASE Finish \/ Stop
  <2>1. UNCHANGED input /\ (pc = "done" => Stop)
    BY <1>3 DEF Finish, Stop, vars
  <2>. QED
    BY <2>1 DEF input, Taken
<1>4. CASE ~(NextToken \/ SkipWhitespace \/ SkipComment \/ NextEnd \/ Finish \/ Stop)
  <2>1. outcome = "running" /\ UNCHANGED input
    BY <1>4, StepsAreHandled DEF Next
  <2>. QED
    BY <2>1 DEF input, TypeInv, ControlType, Taken
<1>. QED
  BY <1>1, <1>2, <1>3, <1>4

\* An input that is lost stays so until the next call.
LEMMA LostForGood ==
  ASSUME TypeInv, Next, ~ParseAgain, Lost
  PROVE  Lost'
<1>1. /\ UNCHANGED scenario /\ opts' = opts
      /\ exhausted => exhausted'
      /\ \/ Taken' = Taken
         \/ ~exhausted /\ \E t \in scenario.tokens : Taken' = Append(Taken, t)
      /\ pc = "done" => Stop
  BY StepsTake DEF opts
<1>2. CASE ~Hopeful(Taken, opts)
  BY <1>1, <1>2, HopelessForGood DEF Lost
<1>3. CASE exhausted /\ Read(Significant(Taken), opts).at # "end"
  BY <1>1, <1>3 DEF Lost
<1>4. CASE pc = "done" /\ LET c == Read(Significant(Taken), opts)
                         IN  c.at = "end" => ~Admissible(c.val, opts)
  BY <1>1, <1>4 DEF Lost, Stop, vars, input, control, Taken
<1>. QED
  BY <1>2, <1>3, <1>4 DEF Lost

-----------------------------------------------------------------------------
(* The steps of a parser that is in step with the reader. *)

\* What such a step starts from.
Following ==
    /\ TypeInv /\ ControlIsStructured /\ TreesStayWellFormed
    /\ TokenInv /\ ~Rejected /\ InStep

\* The parser handles a token without an error, and goes where the reader goes.
LEMMA BothTake ==
  ASSUME Following, got = "token", got' = "none", UNCHANGED <<input, errors, position>>,
         Takes(opts, Reached, Current) = Reached',
         pc' \in NextSites \cup {"return"}, pc' = "return" => ret',
         pc' = "trailing" => opts.complete_parse
  PROVE  FollowsTheReader'
<1>1. UNCHANGED <<seen, begin, scenario, exhausted>> /\ opts' = opts
  BY DEF input, opts
<1>2. /\ Handled' = Taken /\ Taken' = Taken
      /\ Read(Significant(Taken), opts) = Takes(opts, Reader, Current)
      /\ EndsInAToken(Taken)
  BY <1>1, ReaderTakesToken DEF Following
<1>3. Reader = Reached
  BY DEF Following, InStep, Reader
<1>4. InStep'
  BY <1>1, <1>2, <1>3 DEF InStep, Following, NextSites
<1>5. ~Rejected'
  BY DEF Rejected, Following, ControlIsStructured, errors, position, NextSites
<1>. QED
  BY <1>4, <1>5 DEF FollowsTheReader

\* Both find an error in a token.
LEMMA BothRefuse ==
  ASSUME Following, got = "token", got' = "none", UNCHANGED <<input, position>>,
         Takes(opts, Reached, Current) = Failed, ~successful' \/ outcome' = "thrown"
  PROVE  FollowsTheReader'
<1>1. UNCHANGED <<seen, begin, scenario, exhausted>> /\ opts' = opts
  BY DEF input, opts
<1>2. /\ Taken' = Taken
      /\ Read(Significant(Taken), opts) = Takes(opts, Reader, Current)
  BY <1>1, ReaderTakesToken DEF Following
<1>3. Reader = Reached
  BY DEF Following, InStep, Reader
<1>4. Lost' /\ Rejected'
  BY <1>1, <1>2, <1>3 DEF Lost, Hopeful, Rejected
<1>. QED
  BY <1>4 DEF FollowsTheReader

\* The parser takes a step without a token, and stays with the reader.
LEMMA BothStay ==
  ASSUME Following, got # "token", got' = "none", UNCHANGED <<input, errors, position>>,
         Reached = Reached', pc' \in NextSites \cup {"finish"}, pc # "done",
         pc' \in {"trailing", "finish"} \/ ~complete,
         pc' = "finish" /\ ~opts.complete_parse => pc = "return",
         pc' = "trailing" => opts.complete_parse
  PROVE  FollowsTheReader'
<1>1. UNCHANGED <<seen, begin, scenario, exhausted>> /\ opts' = opts
  BY DEF input, opts
<1>2. Handled' = Handled /\ Taken' = Taken
  BY <1>1 DEF Handled, Taken
<1>3. InStep'
  BY <1>1, <1>2 DEF InStep, Following, NextSites
<1>4. ~Rejected'
  BY DEF Rejected, Following, ControlIsStructured, errors, position, NextSites
<1>. QED
  BY <1>3, <1>4 DEF FollowsTheReader

\* Replacing the frame on top is popping it and pushing another.
LEMMA ReplacedIsPushed ==
  ASSUME TypeInv, stack # <<>>, NEW f \in Frames
  PROVE  WithTop(f) = Append(Popped, f)
<1>. DEFINE n == Len(stack)
<1>1. stack \in Seq(Frames) /\ n \in Nat \ {0} /\ DOMAIN stack = 1 .. n
  BY DEF TypeInv, ControlType
<1>2. /\ SubSeq(stack, 1, n - 1) \in Seq(Frames) /\ Len(SubSeq(stack, 1, n - 1)) = n - 1
      /\ \A i \in 1 .. n - 1 : SubSeq(stack, 1, n - 1)[i] = stack[i]
  BY <1>1
<1>. DEFINE p == SubSeq(stack, 1, n - 1)
            a == Append(p, f)
            w == [stack EXCEPT ![n] = f]
<1>. HIDE DEF n, p
<1>3. /\ a \in Seq(Frames) /\ Len(a) = n /\ a[n] = f
      /\ \A i \in 1 .. n - 1 : a[i] = p[i]
  BY <1>1, <1>2, AppendProperties DEF p
<1>4. w \in Seq(Frames) /\ Len(w) = n /\ \A i \in 1 .. n : w[i] = IF i = n THEN f ELSE stack[i]
  BY <1>1, ExceptSeq DEF n
<1>. HIDE DEF a, w
<1>5. \A i \in 1 .. n : w[i] = a[i]
  BY <1>1, <1>2, <1>3, <1>4 DEF p
<1>6. w = a
  BY <1>3, <1>4, <1>5, SeqEqual
<1>. QED
  BY <1>6 DEF WithTop, Popped, n, p, a, w

\* What the reader does with a token at each call of next.
LEMMA ReaderAtSites ==
  ASSUME stack # <<>> \/ pc \in {"value", "trailing"}, NEW t
  PROVE  /\ pc = "value" => Takes(opts, Reached, t) = BeginsValue(opts, stack, t)
         /\ pc = "item" => Takes(opts, Reached, t) =
              IF t.kind = "array_end" THEN IF TrailingComma THEN Failed ELSE Absorb(Popped, Top.out)
              ELSE BeginsValue(opts, stack, t)
         /\ pc = "item_end" => Takes(opts, Reached, t) =
              IF t.kind = "array_end" THEN Absorb(Popped, Top.out)
              ELSE IF t.kind = "separator" THEN Expects("item", Append(Popped, Separated(Top)))
              ELSE Failed
         /\ pc = "key" => Takes(opts, Reached, t) =
              IF t.kind = "object_end" THEN IF TrailingComma THEN Failed
                ELSE Absorb(Popped, Top.out)
              ELSE IF t.kind = "string" /\ Readable(t, opts)
              THEN Expects("colon", Append(Popped, Named(Top, t.means))) ELSE Failed
         /\ pc = "colon" => Takes(opts, Reached, t) =
              IF t.kind = "object_key_delimiter" THEN Expects("value", stack) ELSE Failed
         /\ pc = "member_end" => Takes(opts, Reached, t) =
              IF t.kind = "object_end" THEN Absorb(Popped, Top.out)
              ELSE IF t.kind = "separator" THEN Expects("key", Append(Popped, Separated(Top)))
              ELSE Failed
         /\ pc = "trailing" => Takes(opts, Reached, t) =
              IF opts.complete_parse /\ t.nul THEN Ended(val) ELSE Failed
<1>1. stack # <<>> => Top = Last(stack) /\ Popped = Front(stack)
  BY FramesAreLevels
<1>2. pc \in NextSites \ {"trailing"} => Reached.at = pc /\ Reached.stack = stack
  BY ExpectsHas DEF Reached, NextSites
<1>3. pc = "trailing" => Reached = Ended(val) /\ Reached.at = "end"
  BY DEF Reached, Ended
<1>4. pc = "value" => Takes(opts, Reached, t) = BeginsValue(opts, stack, t)
  BY <1>2 DEF Takes, NextSites
<1>5. pc = "item" => Takes(opts, Reached, t) =
        IF t.kind = "array_end" THEN IF TrailingComma THEN Failed ELSE Absorb(Popped, Top.out)
        ELSE BeginsValue(opts, stack, t)
  BY <1>1, <1>2 DEF Takes, NextSites, ClosedEarly, Closed, TrailingComma
<1>6. pc = "item_end" => Takes(opts, Reached, t) =
        IF t.kind = "array_end" THEN Absorb(Popped, Top.out)
        ELSE IF t.kind = "separator" THEN Expects("item", Append(Popped, Separated(Top)))
        ELSE Failed
  BY <1>1, <1>2 DEF Takes, NextSites, Closed, GoesOn
<1>7. pc = "key" => Takes(opts, Reached, t) =
        IF t.kind = "object_end" THEN IF TrailingComma THEN Failed ELSE Absorb(Popped, Top.out)
        ELSE IF t.kind = "string" /\ Readable(t, opts)
        THEN Expects("colon", Append(Popped, Named(Top, t.means))) ELSE Failed
  BY <1>1, <1>2 DEF Takes, NextSites, ClosedEarly, Closed, TrailingComma, BeginsMember
<1>8. pc = "colon" => Takes(opts, Reached, t) =
        IF t.kind = "object_key_delimiter" THEN Expects("value", stack) ELSE Failed
  BY <1>2 DEF Takes, NextSites
<1>9. pc = "member_end" => Takes(opts, Reached, t) =
        IF t.kind = "object_end" THEN Absorb(Popped, Top.out)
        ELSE IF t.kind = "separator" THEN Expects("key", Append(Popped, Separated(Top)))
        ELSE Failed
  BY <1>1, <1>2 DEF Takes, NextSites, Closed, GoesOn
<1>10. pc = "trailing" => Takes(opts, Reached, t) =
         IF opts.complete_parse /\ t.nul THEN Ended(val) ELSE Failed
  BY <1>3 DEF Takes
<1>. QED
  BY <1>4, <1>5, <1>6, <1>7, <1>8, <1>9, <1>10

\* A scalar is readable when the parser does not refuse it.
LEMMA ReadableOrRefused ==
  ASSUME NEW t, t.kind \in ScalarKinds PROVE Readable(t, opts) <=> ~Refused(t)
  BY DEF Readable, Refused

\* parse_generic.
LEMMA GenericFollows ==
  ASSUME Following,
         \/ Scalar \/ OpenArray \/ OpenObject \/ Invalid \/ NoValue
         \/ Skip \/ SkipToEnd
  PROVE  FollowsTheReader'
<1>. DEFINE t == Current
<1>1. UNCHANGED <<input, position>> /\ successful /\ outcome = "running"
  BY StepsAreHandled DEF Following, Rejected, TypeInv, ErrorType
<1>2. ASSUME Dispatching
      PROVE  /\ pc # "trailing" /\ got = "token"
             /\ Takes(opts, Reached, t) = BeginsValue(opts, stack, t)
  BY <1>2, ReaderAtSites DEF Dispatching, At, Following, ControlIsStructured
<1>3. CASE Scalar
  <2>1. Current.kind \in ScalarKinds /\ Dispatching
    BY <1>3 DEF Scalar, ScalarTokenKinds
  <2>2. BeginsValue(opts, stack, t) =
          IF ~Refused(t) THEN Absorb(stack, Leaf(Label(t.kind, t.means))) ELSE Failed
    <3>1. BeginsValue(opts, stack, t) =
            IF Readable(t, opts) THEN Absorb(stack, Leaf(Label(t.kind, t.means))) ELSE Failed
      BY <2>1 DEF BeginsValue, ScalarKinds
    <3>2. Readable(t, opts) <=> ~Refused(t)
      BY <2>1, ReadableOrRefused
    <3>. QED
      BY <3>1, <3>2
  <2>3. CASE ~Refused(t)
    <3>1. Return(TRUE, Leaf(Label(t.kind, t.means)), stack) /\ UNCHANGED errors
      BY <1>3, <2>3 DEF Scalar, Checked
    <3>2. Reached' = Absorb(stack, Leaf(Label(t.kind, t.means)))
      BY <3>1 DEF Reached, Return
    <3>. QED
      BY <1>1, <1>2, <2>1, <2>2, <2>3, <3>1, <3>2, BothTake DEF Return
  <2>4. CASE Refused(t)
    <3>1. got' = "none" /\ (~successful' \/ outcome' = "thrown")
      BY <1>3, <2>4 DEF Scalar, Checked, Return, Complain, Throw
    <3>. QED
      BY <1>1, <1>2, <2>1, <2>2, <2>4, <3>1, BothRefuse
  <2>. QED
    BY <2>3, <2>4
<1>4. CASE OpenArray
  <2>1. Ask("item", Append(stack, Opening("array", EmptyArray))) /\ UNCHANGED errors
    BY <1>4, FramesAreLevels DEF OpenArray
  <2>2. Reached' = Expects("item", Append(stack, Opening("array", EmptyArray)))
    BY <2>1 DEF Reached, Ask
  <2>3. BeginsValue(opts, stack, t) = Expects("item", Append(stack, Opening("array", EmptyArray)))
    BY <1>4 DEF OpenArray, BeginsValue, ScalarKinds
  <2>. QED
    BY <1>1, <1>2, <1>4, <2>1, <2>2, <2>3, BothTake DEF OpenArray, Ask, NextSites
<1>5. CASE OpenObject
  <2>1. Ask("key", Append(stack, Opening("object", EmptyObject))) /\ UNCHANGED errors
    BY <1>5, FramesAreLevels DEF OpenObject
  <2>2. Reached' = Expects("key", Append(stack, Opening("object", EmptyObject)))
    BY <2>1 DEF Reached, Ask
  <2>3. BeginsValue(opts, stack, t) = Expects("key", Append(stack, Opening("object", EmptyObject)))
    BY <1>5 DEF OpenObject, BeginsValue, ScalarKinds
  <2>. QED
    BY <1>1, <1>2, <1>5, <2>1, <2>2, <2>3, BothTake DEF OpenObject, Ask, NextSites
<1>6. CASE Invalid
  <2>1. BeginsValue(opts, stack, t) = Failed
    BY <1>6 DEF Invalid, BeginsValue, ScalarTokenKinds
  <2>2. got' = "none" /\ (~successful' \/ outcome' = "thrown")
    BY <1>6 DEF Invalid, Checked, Ask, Complain, Throw
  <2>. QED
    BY <1>1, <1>2, <1>6, <2>1, <2>2, BothRefuse DEF Invalid
<1>7. ~NoValue
  BY DEF NoValue, AtEnd, Following, Rejected, ControlIsStructured, NextSites
<1>8. ~Skip /\ ~SkipToEnd
  BY <1>1 DEF Skip, SkipToEnd, At, AtEnd, Following, ControlIsStructured
<1>. QED
  BY <1>3, <1>4, <1>5, <1>6, <1>7, <1>8

\* The end of a container, in parse_array or parse_object.
LEMMA ClosingFollows ==
  ASSUME Following, got = "token", UNCHANGED <<input, position>>,
         Return(TRUE, Top.out, Popped), UNCHANGED errors,
         Takes(opts, Reached, Current) = Absorb(Popped, Top.out)
  PROVE  FollowsTheReader'
<1>1. Reached' = Absorb(Popped, Top.out)
  BY DEF Reached, Return
<1>. QED
  BY <1>1, BothTake DEF Return

\* parse_array.
LEMMA ArrayFollows ==
  ASSUME Following,
         \/ CloseArrayForItem \/ ReturnToArray \/ CloseArray
         \/ ArraySeparator \/ NoArraySeparator \/ UnmatchedBracket
  PROVE  FollowsTheReader'
<1>. DEFINE t == Current
<1>1. UNCHANGED <<input, position>> /\ successful /\ outcome = "running"
  BY StepsAreHandled DEF Following, Rejected, TypeInv, ErrorType
<1>2. stack # <<>> /\ Top \in Frames /\ Top.fn = "array"
  <2>1. stack # <<>> /\ Top.fn = "array"
    BY DEF CloseArrayForItem, ReturnToArray, CloseArray, ArraySeparator, NoArraySeparator,
           UnmatchedBracket, At, AtEnd, Following, ControlIsStructured
  <2>2. Top \in Frames
    BY <2>1, StackTypes DEF Following, TypeInv
  <2>. QED
    BY <2>1, <2>2
<1>3. CASE CloseArrayForItem
  <2>1. /\ got = "token" /\ pc = "item" /\ t.kind = "array_end"
        /\ Takes(opts, Reached, t) = IF TrailingComma THEN Failed ELSE Absorb(Popped, Top.out)
    BY <1>2, <1>3, ReaderAtSites DEF CloseArrayForItem, At
  <2>2. CASE TrailingComma
    <3>1. got' = "none" /\ (~successful' \/ outcome' = "thrown")
      BY <1>3, <2>2 DEF CloseArrayForItem, Checked, Return, Complain, Throw
    <3>. QED
      BY <1>1, <2>1, <2>2, <3>1, BothRefuse
  <2>3. CASE ~TrailingComma
    <3>1. Return(TRUE, Top.out, Popped) /\ UNCHANGED errors
      BY <1>3, <2>3 DEF CloseArrayForItem, Checked
    <3>. QED
      BY <1>1, <2>1, <2>3, <3>1, ClosingFollows
  <2>. QED
    BY <2>2, <2>3
<1>4. CASE ReturnToArray
  <2>. DEFINE f == [Top EXCEPT !.trailing = FALSE, !.out = PushBack(@, val)]
  <2>1. f \in Frames /\ f = Grown(Top, val)
    BY <1>2, BuildingTrees DEF Frames, Following, TypeInv, ControlType, Grown
  <2>2. /\ pc = "return" /\ Ask("item_end", WithTop(f)) /\ UNCHANGED errors
        /\ got = "none" /\ ~complete
    BY <1>1, <1>4
       DEF ReturnToArray, Following, Rejected, ControlIsStructured, TypeInv, ControlType,
           NextSites
  <2>. HIDE DEF f
  <2>3. Reached' = Expects("item_end", Append(Popped, f))
    BY <1>2, <2>1, <2>2, ReplacedIsPushed DEF Reached, Ask, Following
  <2>4. Reached = Expects("item_end", Append(Popped, f))
    BY <1>2, <2>1, <2>2, FramesAreLevels DEF Reached, Absorb
  <2>. QED
    BY <1>1, <2>2, <2>3, <2>4, BothStay DEF Ask, NextSites
<1>5. CASE CloseArray
  <2>1. /\ got = "token" /\ pc = "item_end" /\ t.kind = "array_end"
        /\ Return(TRUE, Top.out, Popped) /\ UNCHANGED errors
    BY <1>5 DEF CloseArray, At
  <2>. QED
    BY <1>1, <1>2, <2>1, ReaderAtSites, ClosingFollows
<1>6. CASE ArraySeparator
  <2>1. /\ got = "token" /\ pc = "item_end" /\ t.kind = "separator" /\ UNCHANGED errors
        /\ Ask("item", WithTop(Separated(Top))) /\ Separated(Top) \in Frames
    BY <1>2, <1>6 DEF ArraySeparator, At, Separated, Frames
  <2>2. Reached' = Expects("item", Append(Popped, Separated(Top)))
    BY <1>2, <2>1, ReplacedIsPushed DEF Reached, Ask, Following
  <2>3. Takes(opts, Reached, t) = Expects("item", Append(Popped, Separated(Top)))
    BY <1>2, <2>1, ReaderAtSites
  <2>. QED
    BY <1>1, <2>1, <2>2, <2>3, BothTake DEF Ask, NextSites
<1>7. CASE NoArraySeparator
  <2>1. /\ got = "token" /\ pc = "item_end" /\ t.kind \notin {"array_end", "separator"}
        /\ got' = "none" /\ (~successful' \/ outcome' = "thrown")
    BY <1>7 DEF NoArraySeparator, At, Checked, Ask, Complain, Throw
  <2>. QED
    BY <1>1, <1>2, <2>1, ReaderAtSites, BothRefuse
<1>8. ~UnmatchedBracket
  BY DEF UnmatchedBracket, AtEnd, Following, Rejected, ControlIsStructured, NextSites
<1>. QED
  BY <1>3, <1>4, <1>5, <1>6, <1>7, <1>8

\* parse_object.
LEMMA ObjectFollows ==
  ASSUME Following,
         \/ MemberKey \/ CloseObjectForKey \/ Delimiter
         \/ ReturnToObject \/ IncompleteMember \/ CloseObject
         \/ ObjectSeparator \/ NoObjectSeparator \/ UnmatchedBrace
  PROVE  FollowsTheReader'
<1>. DEFINE t == Current
<1>1. UNCHANGED <<input, position>> /\ successful /\ outcome = "running"
  BY StepsAreHandled DEF Following, Rejected, TypeInv, ErrorType
<1>2. stack # <<>> /\ Top \in Frames /\ Top.fn = "object"
  <2>1. stack # <<>> /\ Top.fn = "object"
    BY DEF MemberKey, CloseObjectForKey, Delimiter, ReturnToObject, IncompleteMember,
           CloseObject, ObjectSeparator, NoObjectSeparator, UnmatchedBrace, At, AtEnd,
           Following, ControlIsStructured
  <2>2. Top \in Frames
    BY <2>1, StackTypes DEF Following, TypeInv
  <2>. QED
    BY <2>1, <2>2
<1>3. CASE MemberKey
  <2>1. /\ got = "token" /\ pc = "key" /\ t.kind # "object_end"
        /\ Takes(opts, Reached, t) =
              IF t.kind = "string" /\ Readable(t, opts)
              THEN Expects("colon", Append(Popped, Named(Top, t.means))) ELSE Failed
    BY <1>2, <1>3, ReaderAtSites DEF MemberKey, At
  <2>2. t.kind = "string" => (Readable(t, opts) <=> ~Refused(t))
    BY ReadableOrRefused DEF ScalarKinds
  <2>3. CASE t.kind # "string" \/ Refused(t)
    <3>1. got' = "none" /\ (~successful' \/ outcome' = "thrown")
      BY <1>3, <2>3 DEF MemberKey, Checked, Ask, Complain, Throw
    <3>2. Takes(opts, Reached, t) = Failed
      BY <2>1, <2>2, <2>3
    <3>. QED
      BY <1>1, <2>1, <3>1, <3>2, BothRefuse
  <2>4. CASE t.kind = "string" /\ ~Refused(t)
    <3>1. t.means \in Text
      BY <2>1, HandlingTypes DEF Following, TokenOK
    <3>2. Named(Top, t.means) \in Frames
      BY <1>2, <3>1 DEF Named, Frames
    <3>3. /\ UNCHANGED errors
          /\ Ask("colon", WithTop([Top EXCEPT !.trailing = @ /\ FALSE, !.key = t.means]))
      BY <1>3, <2>4 DEF MemberKey, Checked
    <3>4. [Top EXCEPT !.trailing = @ /\ FALSE, !.key = t.means] = Named(Top, t.means)
      BY <1>2 DEF Named
    <3>5. Reached' = Expects("colon", Append(Popped, Named(Top, t.means)))
      BY <1>2, <3>2, <3>3, <3>4, ReplacedIsPushed DEF Reached, Ask, Following
    <3>6. Takes(opts, Reached, t) = Expects("colon", Append(Popped, Named(Top, t.means)))
      BY <2>1, <2>2, <2>4
    <3>. QED
      BY <1>1, <2>1, <3>3, <3>5, <3>6, BothTake DEF Ask, NextSites
  <2>. QED
    BY <2>3, <2>4
<1>4. CASE CloseObjectForKey
  <2>1. /\ got = "token" /\ pc = "key" /\ t.kind = "object_end"
        /\ Takes(opts, Reached, t) = IF TrailingComma THEN Failed ELSE Absorb(Popped, Top.out)
    BY <1>2, <1>4, ReaderAtSites DEF CloseObjectForKey, At
  <2>2. CASE TrailingComma
    <3>1. got' = "none" /\ (~successful' \/ outcome' = "thrown")
      BY <1>4, <2>2 DEF CloseObjectForKey, Checked, Return, Complain, Throw
    <3>. QED
      BY <1>1, <2>1, <2>2, <3>1, BothRefuse
  <2>3. CASE ~TrailingComma
    <3>1. Return(TRUE, Top.out, Popped) /\ UNCHANGED errors
      BY <1>4, <2>3 DEF CloseObjectForKey, Checked
    <3>. QED
      BY <1>1, <2>1, <2>3, <3>1, ClosingFollows
  <2>. QED
    BY <2>2, <2>3
<1>5. CASE Delimiter
  <2>1. /\ got = "token" /\ pc = "colon"
        /\ Takes(opts, Reached, t) =
              IF t.kind = "object_key_delimiter" THEN Expects("value", stack) ELSE Failed
    BY <1>2, <1>5, ReaderAtSites DEF Delimiter, At
  <2>2. CASE t.kind # "object_key_delimiter"
    <3>1. got' = "none" /\ (~successful' \/ outcome' = "thrown")
      BY <1>5, <2>2 DEF Delimiter, Checked, Ask, Complain, Throw
    <3>. QED
      BY <1>1, <2>1, <2>2, <3>1, BothRefuse
  <2>3. CASE t.kind = "object_key_delimiter"
    <3>1. Ask("value", stack) /\ UNCHANGED errors
      BY <1>5, <2>3 DEF Delimiter, Checked
    <3>2. Reached' = Expects("value", stack)
      BY <3>1 DEF Reached, Ask
    <3>. QED
      BY <1>1, <2>1, <2>3, <3>1, <3>2, BothTake DEF Ask, NextSites
  <2>. QED
    BY <2>2, <2>3
<1>6. CASE ReturnToObject
  <2>. DEFINE f == [Top EXCEPT !.out = PutMember(@, Top.key, val)]
  <2>1. f \in Frames /\ f = Grown(Top, val)
    BY <1>2, BuildingTrees DEF Frames, Following, TypeInv, ControlType, Grown
  <2>2. pc = "return" /\ got = "none" /\ ~complete
    BY <1>1, <1>6
       DEF ReturnToObject, Following, Rejected, ControlIsStructured, TypeInv, ControlType,
           NextSites
  <2>3. Reached = IF HasKey(Top.out, Top.key) THEN Failed
                  ELSE Expects("member_end", Append(Popped, Grown(Top, val)))
    BY <1>2, <2>2, FramesAreLevels DEF Reached, Absorb
  <2>. HIDE DEF f
  <2>4. CASE HasKey(Top.out, Top.key)
    <3>1. got' = "none" /\ (~successful' \/ outcome' = "thrown")
      BY <1>6, <2>4 DEF ReturnToObject, Checked, Ask, Complain, Throw
    <3>2. Taken' = Taken /\ Handled = Taken /\ opts' = opts
      BY <1>1, <2>2 DEF Handled, Taken, input, opts
    <3>3. Read(Significant(Taken), opts) = Failed
      BY <2>3, <2>4, <3>2 DEF Following, InStep
    <3>. QED
      BY <3>1, <3>2, <3>3 DEF FollowsTheReader, Lost, Hopeful, Rejected
  <2>5. CASE ~HasKey(Top.out, Top.key)
    <3>1. Ask("member_end", WithTop(f)) /\ UNCHANGED errors
      BY <1>6, <2>5 DEF ReturnToObject, Checked, f
    <3>2. Reached' = Expects("member_end", Append(Popped, f))
      BY <1>2, <2>1, <3>1, ReplacedIsPushed DEF Reached, Ask, Following
    <3>. QED
      BY <1>1, <2>1, <2>2, <2>3, <2>5, <3>1, <3>2, BothStay DEF Ask, NextSites
  <2>. QED
    BY <2>4, <2>5
<1>7. ~IncompleteMember
  BY DEF IncompleteMember, Following, Rejected
<1>8. CASE CloseObject
  <2>1. /\ got = "token" /\ pc = "member_end" /\ t.kind = "object_end"
        /\ Return(TRUE, Top.out, Popped) /\ UNCHANGED errors
    BY <1>8 DEF CloseObject, At
  <2>. QED
    BY <1>1, <1>2, <2>1, ReaderAtSites, ClosingFollows
<1>9. CASE ObjectSeparator
  <2>1. /\ got = "token" /\ pc = "member_end" /\ t.kind = "separator" /\ UNCHANGED errors
        /\ Ask("key", WithTop(Separated(Top))) /\ Separated(Top) \in Frames
    BY <1>2, <1>9 DEF ObjectSeparator, At, Separated, Frames
  <2>2. Reached' = Expects("key", Append(Popped, Separated(Top)))
    BY <1>2, <2>1, ReplacedIsPushed DEF Reached, Ask, Following
  <2>3. Takes(opts, Reached, t) = Expects("key", Append(Popped, Separated(Top)))
    BY <1>2, <2>1, ReaderAtSites
  <2>. QED
    BY <1>1, <2>1, <2>2, <2>3, BothTake DEF Ask, NextSites
<1>10. CASE NoObjectSeparator
  <2>1. /\ got = "token" /\ pc = "member_end" /\ t.kind \notin {"object_end", "separator"}
        /\ got' = "none" /\ (~successful' \/ outcome' = "thrown")
    BY <1>10 DEF NoObjectSeparator, At, Checked, Ask, Complain, Throw
  <2>. QED
    BY <1>1, <1>2, <2>1, ReaderAtSites, BothRefuse
<1>11. ~UnmatchedBrace
  BY DEF UnmatchedBrace, AtEnd, Following, Rejected, ControlIsStructured, NextSites
<1>. QED
  BY <1>3, <1>4, <1>5, <1>6, <1>7, <1>8, <1>9, <1>10, <1>11

\* In a well-formed value no container is deeper than d when none is as deep as d.
LEMMA NoneDeeper ==
  ASSUME NEW v, WellFormed(v), NEW d \in Nat \ {0}
  PROVE  ContainersAtDepth(v, d) = {} <=>
           \A p \in DOMAIN v : IsContainer(v[p]) => Len(p) + 1 < d
<1>. DEFINE S == {n \in Nat : \A p \in DOMAIN v : IsContainer(v[p]) => Len(p) + 1 # d + n}
<1>1. DOMAIN v \subseteq Seq(StepSet) /\ \A p \in DOMAIN v : Len(p) \in Nat
  BY DEF WellFormed, IsTree
<1>2. ASSUME \A p \in DOMAIN v : IsContainer(v[p]) => Len(p) + 1 < d
      PROVE  ContainersAtDepth(v, d) = {}
  BY <1>1, <1>2 DEF ContainersAtDepth
<1>3. ASSUME ContainersAtDepth(v, d) = {}, NEW p \in DOMAIN v, IsContainer(v[p])
      PROVE  Len(p) + 1 < d
  <2>1. 0 \in S
    BY <1>1, <1>3 DEF ContainersAtDepth
  <2>2. ASSUME NEW n \in S PROVE n + 1 \in S
    <3>1. SUFFICES ASSUME NEW q \in DOMAIN v, IsContainer(v[q]), Len(q) + 1 = d + (n + 1)
                   PROVE  FALSE
      OBVIOUS
    <3>2. q \in Seq(StepSet) /\ q # <<>>
      BY <1>1, <3>1
    <3>3. Parent(q) \in DOMAIN v /\ v[Parent(q)].kind \in {"object", "array"}
      BY <3>2 DEF WellFormed
    <3>4. Len(Parent(q)) = Len(q) - 1
      BY <3>2, ParentSteps
    <3>. QED
      BY <1>1, <3>1, <3>3, <3>4 DEF IsContainer, ContainerKinds
  <2>3. S \in SUBSET Nat
    OBVIOUS
  <2>4. Nat = S
    <3>. HIDE DEF S
    <3>. QED
      BY <2>1, <2>2, <2>3, Induction
  <2>5. ASSUME Len(p) + 1 >= d PROVE FALSE
    <3>1. PICK n \in Nat : Len(p) + 1 = d + n
      <4>. DEFINE n == Len(p) + 1 - d
      <4>1. n \in Nat /\ Len(p) + 1 = d + n
        BY <1>1, <2>5
      <4>. HIDE DEF n
      <4>. QED
        BY <4>1
    <3>2. n \in S
      BY <2>4
    <3>. QED
      BY <1>3, <3>1, <3>2
  <2>. QED
    BY <1>1, <2>5
<1>. QED
  BY <1>2, <1>3

\* post_parse and depth_checker complain exactly of the values that are not admissible.
LEMMA ComplaintsOfInadmissible ==
  ASSUME TypeInv, WellFormed(val), successful
  PROVE  FinalComplaints \in Nat /\ (FinalComplaints = 0 <=> Admissible(val, opts))
<1>. DEFINE d == opts.max_structure_depth
<1>1. d \in Nat /\ FinalComplaints \in Nat
  BY ScenarioTypes, FinalComplaintsIsNat DEF TypeInv, OptionsOK
<1>2. IsFiniteSet(ContainersAtDepth(val, d))
  <2>1. IsFiniteSet(DOMAIN val)
    BY DEF WellFormed, IsTree
  <2>2. ContainersAtDepth(val, d) \subseteq DOMAIN val
    BY DEF ContainersAtDepth
  <2>. QED
    BY <2>1, <2>2, FS_Subset
<1>3. Cardinality(ContainersAtDepth(val, d)) = 0 <=> ContainersAtDepth(val, d) = {}
  BY <1>2, FS_EmptySet
<1>4. d > 0 =>
        (ContainersAtDepth(val, d) = {} <=>
           \A p \in DOMAIN val : IsContainer(val[p]) => Len(p) + 1 < d)
  BY <1>1, NoneDeeper
<1>. HIDE DEF d
<1>5. CASE opts.require_document /\ KindOf(val) \notin ContainerKinds
  BY <1>1, <1>5 DEF FinalComplaints, Admissible
<1>6. CASE ~(opts.require_document /\ KindOf(val) \notin ContainerKinds) /\ d > 0
  BY <1>1, <1>3, <1>4, <1>6 DEF FinalComplaints, Admissible, d
<1>7. CASE ~(opts.require_document /\ KindOf(val) \notin ContainerKinds) /\ ~(d > 0)
  BY <1>1, <1>7 DEF FinalComplaints, Admissible, d
<1>. QED
  BY <1>1, <1>5, <1>6, <1>7

\* parse, and the end of a call.
LEMMA ParseFollows ==
  ASSUME Following, ReturnToParse \/ Trailing \/ TrailingEnd
  PROVE  FollowsTheReader'
<1>1. UNCHANGED <<input, position>> /\ successful /\ outcome = "running"
  BY StepsAreHandled DEF Following, Rejected, TypeInv, ErrorType
<1>2. CASE ReturnToParse
  <2>1. pc = "return" /\ stack = <<>> /\ got = "none" /\ ret
    BY <1>2
       DEF ReturnToParse, Following, Rejected, TypeInv, ControlType, NextSites
  <2>2. /\ pc' = IF opts.complete_parse THEN "trailing" ELSE "finish"
        /\ UNCHANGED <<stack, got, ret, val>> /\ UNCHANGED errors
    BY <1>1, <1>2, <2>1 DEF ReturnToParse, Checked
  <2>3. Reached = Ended(val) /\ Reached' = Ended(val)
    BY <2>1, <2>2 DEF Reached, Absorb
  <2>. QED
    BY <1>1, <2>1, <2>2, <2>3, BothStay DEF NextSites
<1>3. CASE Trailing
  <2>1. /\ got = "token" /\ pc = "trailing" /\ opts.complete_parse
        /\ Takes(opts, Reached, Current) = IF Current.nul THEN Ended(val) ELSE Failed
    BY <1>3, ReaderAtSites DEF Trailing, At, Following, InStep
  <2>2. CASE Current.nul
    <3>1. Ask("trailing", stack) /\ UNCHANGED errors
      BY <1>3, <2>2 DEF Trailing, Checked
    <3>2. Reached' = Ended(val)
      BY <3>1 DEF Reached, Ask
    <3>. QED
      BY <1>1, <2>1, <2>2, <3>1, <3>2, BothTake DEF Ask, NextSites
  <2>3. CASE ~Current.nul
    <3>1. got' = "none" /\ (~successful' \/ outcome' = "thrown")
      BY <1>3, <2>3 DEF Trailing, Checked, Ask, Complain, Throw
    <3>. QED
      BY <1>1, <2>1, <2>3, <3>1, BothRefuse
  <2>. QED
    BY <2>2, <2>3
<1>4. CASE TrailingEnd
  <2>1. /\ got = "end" /\ pc = "trailing" /\ opts.complete_parse
        /\ pc' = "finish" /\ got' = "none" /\ UNCHANGED <<errors, stack, ret, val>>
    BY <1>4 DEF TrailingEnd, AtEnd, Following, InStep
  <2>2. Reached = Ended(val) /\ Reached' = Ended(val)
    BY <2>1 DEF Reached
  <2>. QED
    BY <1>1, <2>1, <2>2, BothStay DEF NextSites
<1>. QED
  BY <1>2, <1>3, <1>4

\* The checks on the whole value, which may find that there is no document.
LEMMA FinishFollows ==
  ASSUME Following, Finish
  PROVE  FollowsTheReader'
<1>1. /\ pc = "finish" /\ got = "none" /\ UNCHANGED <<input, position>>
      /\ successful /\ outcome # "thrown"
  BY DEF Finish, Following, Rejected, TypeInv, ControlType, ErrorType, NextSites
<1>2. Handled = Taken /\ Taken' = Taken /\ opts' = opts
  BY <1>1 DEF Handled, Taken, input, opts
<1>3. /\ Read(Significant(Taken), opts) = Ended(val)
      /\ ~HasRefusedComment(Taken, opts)
      /\ ~opts.complete_parse => EndsInAToken(Taken)
  BY <1>1, <1>2 DEF Following, InStep, Reached
<1>4. FinalComplaints \in Nat /\ (FinalComplaints = 0 <=> Admissible(val, opts))
  BY <1>1, ComplaintsOfInadmissible DEF Following, TreesStayWellFormed
<1>5. CASE FinalComplaints = 0
  <2>1. /\ pc' = "done" /\ UNCHANGED <<stack, got, ret, val>>
        /\ successful' /\ outcome' = "returned"
    <3>1. ~(FinalComplaints > 0)
      BY <1>5
    <3>2. /\ pc' = "done" /\ UNCHANGED <<stack, got, ret, val>>
          /\ successful' = (successful /\ FinalComplaints = 0)
          /\ outcome' = IF successful' \/ opts.failure_mode = "ignore" THEN "returned" ELSE "thrown"
      BY <3>1 DEF Finish
    <3>3. successful'
      BY <1>1, <1>5, <3>2
    <3>. QED
      BY <3>2, <3>3
  <2>2. Handled' = Taken' /\ Reached' = Ended(val)
    BY <1>1, <2>1 DEF Handled, Reached
  <2>3. InStep'
    BY <1>2, <1>3, <1>4, <1>5, <2>1, <2>2 DEF InStep
  <2>4. ~Rejected'
    BY <2>1 DEF Rejected, NextSites
  <2>. QED
    BY <2>3, <2>4 DEF FollowsTheReader
<1>6. CASE FinalComplaints # 0
  <2>1. pc' = "done" /\ (~successful' \/ outcome' = "thrown")
    BY <1>4, <1>6 DEF Finish, Throw
  <2>2. Ended(val).val = val
    BY DEF Ended
  <2>3. Lost'
    BY <1>2, <1>3, <1>4, <1>6, <2>1, <2>2 DEF Lost
  <2>. QED
    BY <2>1, <2>3 DEF FollowsTheReader, Rejected
<1>. QED
  BY <1>5, <1>6

\* parse_context::next.
LEMMA NextSitesFollow ==
  ASSUME Following, NextToken \/ SkipWhitespace \/ SkipComment \/ NextEnd
  PROVE  FollowsTheReader'
<1>1. pc \in NextSites \ {"skip"} /\ got = "none" /\ Reader = Reached
  BY DEF NextToken, SkipWhitespace, SkipComment, NextEnd, Deliver, Following, InStep, Reader,
         ControlIsStructured, Rejected
<1>2. ASSUME NEW t \in scenario.tokens, Deliver(t), UNCHANGED <<errors, stack, pc, ret, val>>,
             t.kind = "comment" => opts.comments,
             got' = "token" \/ (got' = "none" /\ t.kind \in BlankKinds)
      PROVE  FollowsTheReader'
  <2>1. /\ UNCHANGED <<scenario, begin, complete, exhausted>> /\ seen' = Append(seen, t)
        /\ opts' = opts
    BY <1>2 DEF Deliver, opts
  <2>2. /\ Taken' = Append(Taken, t) /\ Taken \in Seq(scenario.tokens) /\ Handled = Taken
        /\ got' = "token" => Handled' = Taken
        /\ got' = "none" => Handled' = Taken'
        /\ t.kind \in BlankKinds => Significant(Taken') = Significant(Taken)
    BY <1>1, <2>1, ReaderSkipsBlanks, TokensHaveMeanings DEF Following
  <2>3. Significant(Handled') = Significant(Handled)
    BY <1>2, <2>2
  <2>4. Reached' = Reached
    BY <1>1, <1>2 DEF Reached
  <2>5. ~HasRefusedComment(Taken', opts')
    <3>1. ~HasRefusedComment(Taken, opts)
      BY DEF Following, InStep
    <3>2. \A i \in DOMAIN Taken' : Taken'[i] = t \/ (i \in DOMAIN Taken /\ Taken'[i] = Taken[i])
      BY <2>2, AppendProperties
    <3>. QED
      BY <1>2, <2>1, <3>1, <3>2 DEF HasRefusedComment
  <2>6. InStep'
    BY <1>1, <1>2, <2>1, <2>3, <2>4, <2>5 DEF InStep, Following, NextSites, Reader
  <2>7. ~Rejected'
    BY <1>1, <1>2, <2>1 DEF Rejected, Following, errors, NextSites
  <2>. QED
    BY <2>6, <2>7 DEF FollowsTheReader
<1>3. CASE NextToken
  BY <1>2, <1>3 DEF NextToken, BlankKinds
<1>4. CASE SkipWhitespace
  BY <1>1, <1>2, <1>4 DEF SkipWhitespace, control, BlankKinds
<1>5. CASE SkipComment
  <2>1. PICK t \in scenario.tokens :
          /\ t.kind = "comment" /\ Deliver(t)
          /\ Checked(~opts.comments, Advanced, UNCHANGED control)
    BY <1>5 DEF SkipComment
  <2>2. CASE opts.comments
    <3>1. UNCHANGED control /\ UNCHANGED errors
      BY <2>1, <2>2 DEF Checked
    <3>. QED
      BY <1>1, <1>2, <2>1, <2>2, <3>1 DEF control, BlankKinds
  <2>3. CASE ~opts.comments
    <3>1. ~successful' \/ outcome' = "thrown"
      BY <2>1, <2>3 DEF Checked, Complain, Throw
    <3>2. Taken' = Append(Taken, t) /\ Taken \in Seq(scenario.tokens) /\ opts' = opts
      BY <2>1, TakenGrows, TokensHaveMeanings DEF Following, Deliver, opts
    <3>3. Len(Taken) + 1 \in DOMAIN Taken' /\ Taken'[Len(Taken) + 1] = t
      BY <3>2, AppendProperties
    <3>4. HasRefusedComment(Taken', opts')
      BY <2>1, <2>3, <3>2, <3>3 DEF HasRefusedComment
    <3>. QED
      BY <3>1, <3>4 DEF FollowsTheReader, Rejected, Lost, Hopeful
  <2>. QED
    BY <2>2, <2>3
<1>6. CASE NextEnd
  <2>1. /\ exhausted' /\ complete' /\ got' = "end"
        /\ UNCHANGED <<scenario, seen, begin, errors, stack, pc, ret, val>>
    BY <1>6 DEF NextEnd
  <2>2. Taken' = Taken /\ Handled' = Taken /\ Handled = Taken /\ opts' = opts
    BY <1>1, <2>1 DEF Handled, Taken, opts
  <2>3. Reached' = Reached
    BY <2>1 DEF Reached
  <2>4. CASE pc = "trailing"
    <3>1. InStep'
      BY <2>1, <2>2, <2>3, <2>4 DEF InStep, Following
    <3>2. ~Rejected'
      BY <2>1, <2>4 DEF Rejected, Following, errors, NextSites
    <3>. QED
      BY <3>1, <3>2 DEF FollowsTheReader
  <2>5. CASE pc # "trailing"
    <3>1. Reached.at = pc /\ pc # "end"
      BY <1>1, <2>5, ExpectsHas DEF Reached, NextSites
    <3>2. Lost'
      BY <1>1, <2>1, <2>2, <3>1 DEF Lost, Reader
    <3>3. Rejected'
      BY <1>1, <2>1, <2>5 DEF Rejected
    <3>. QED
      BY <3>2, <3>3 DEF FollowsTheReader
  <2>. QED
    BY <2>4, <2>5
<1>. QED
  BY <1>3, <1>4, <1>5, <1>6

\* At the start of a call nothing is read.
Begun == Fresh /\ pc = "value" /\ ~Rejected

\* The parser and the reader begin at the same point.
LEMMA FreshFollows == TypeInv /\ Begun => FollowsTheReader
<1>. USE DEF Begun, Fresh
<1>. SUFFICES ASSUME TypeInv, Begun PROVE FollowsTheReader
  OBVIOUS
<1>1. Len(seen) \in Nat /\ Taken = <<>> /\ Handled = <<>>
  BY SubSeqEmpty DEF Handled, Taken, TypeInv, InputType
<1>2. Read(Significant(Handled), opts) = Expects("value", <<>>)
  BY <1>1, NothingSignificant, NothingRead
<1>3. Reached = Expects("value", <<>>)
  BY DEF Reached
<1>4. ~HasRefusedComment(Taken, opts)
  BY <1>1 DEF HasRefusedComment
<1>. QED
  BY <1>2, <1>3, <1>4 DEF FollowsTheReader, InStep

\* The same after a step.
LEMMA NextFreshFollows == TypeInv' /\ Begun' => FollowsTheReader'
  BY FreshFollows, PTL

\* Every step follows the reader.
LEMMA FollowingStep ==
  ASSUME TypeInv, TypeInv', ControlIsStructured, TreesStayWellFormed, TokenInv,
         FollowsTheReader, [Next]_vars
  PROVE  FollowsTheReader'
<1>1. CASE UNCHANGED vars
  <2>1. Taken' = Taken /\ Handled' = Handled /\ opts' = opts
    BY <1>1 DEF vars, input, control, Taken, Handled, opts
  <2>2. Reached' = Reached /\ (Rejected' <=> Rejected)
    BY <1>1 DEF vars, input, errors, position, control, Reached, Rejected
  <2>. QED
    BY <1>1, <2>1, <2>2 DEF FollowsTheReader, InStep, Lost, vars, input, control
<1>2. CASE ParseAgain
  <2>1. ~Rejected'
    BY <1>2 DEF ParseAgain, Rejected
  <2>. QED
    BY <1>2, <2>1, NextFreshFollows DEF ParseAgain, Begun, Fresh
<1>3. CASE Next /\ ~ParseAgain /\ Rejected
  BY <1>3, RejectionLasts, LostForGood DEF FollowsTheReader
<1>4. CASE Next /\ ~ParseAgain /\ ~Rejected
  <2>1. Following
    BY <1>4 DEF Following, FollowsTheReader
  <2>2. CASE Stop
    BY <1>1, <2>2 DEF Stop
  <2>. QED
    BY <1>4, <2>1, <2>2, NextSitesFollow, GenericFollows, ArrayFollows, ObjectFollows,
       ParseFollows, FinishFollows DEF Next
<1>. QED
  BY <1>1, <1>2, <1>3, <1>4

\* No step leaves the parser with a token to handle that is not its own.
LEMMA TokenStep == TypeInv /\ TokenInv /\ [Next]_vars => TokenInv'
<1>. SUFFICES ASSUME TypeInv, TokenInv, [Next]_vars PROVE TokenInv'
  OBVIOUS
<1>1. CASE UNCHANGED vars \/ Stop
  BY <1>1 DEF Stop, vars, input, control, TokenInv, Current
<1>2. CASE NextToken
  <2>1. PICK t \in scenario.tokens :
          /\ t.kind \notin BlankKinds /\ got = "none" /\ UNCHANGED <<begin, scenario>>
          /\ seen' = Append(seen, t)
    BY <1>2 DEF NextToken, Deliver
  <2>2. got' = "token" => begin' < Len(seen') /\ Current' = t
    BY <2>1, ReaderSkipsBlanks
  <2>. QED
    BY <2>1, <2>2 DEF TokenInv
<1>3. CASE SkipWhitespace \/ SkipComment \/ NextEnd \/ Finish \/ ParseAgain
  <2>1. got' # "token"
    BY <1>3
       DEF SkipWhitespace, SkipComment, NextEnd, Finish, ParseAgain, Deliver, Checked, Throw,
           control, TypeInv, ControlType, NextSites
  <2>. QED
    BY <2>1 DEF TokenInv
<1>4. CASE /\ Next /\ ~Stop /\ ~NextToken /\ ~SkipWhitespace /\ ~SkipComment /\ ~NextEnd
           /\ ~Finish /\ ~ParseAgain
  <2>1. UNCHANGED <<seen, begin>>
    BY <1>4, StepsAreHandled DEF Next, input
  <2>2. got' = "none" \/ got' = got
    BY <1>4
       DEF Next, Scalar, OpenArray, OpenObject, Invalid, NoValue, Skip, SkipToEnd,
           CloseArrayForItem, ReturnToArray, CloseArray, ArraySeparator, NoArraySeparator,
           UnmatchedBracket, MemberKey, CloseObjectForKey, Delimiter, ReturnToObject,
           IncompleteMember, CloseObject, ObjectSeparator, NoObjectSeparator,
           UnmatchedBrace, ReturnToParse, Trailing, TrailingEnd, Checked, Throw, Ask, Return
  <2>. QED
    BY <2>1, <2>2 DEF TokenInv, Current
<1>. QED
  BY <1>1, <1>2, <1>3, <1>4

\* Where a call ends in step with the reader it ends with the document, and where it has
\* rejected its input there is none.
LEMMA FollowingAgrees ==
  ASSUME TypeInv, FollowsTheReader
  PROVE  AgreesWithGrammar
<1>. SUFFICES ASSUME pc = "done"
              PROVE  IF outcome = "returned" /\ successful THEN val \in Documents(Taken, opts)
                     ELSE Documents(Taken, opts) = {}
  BY DEF AgreesWithGrammar
<1>1. got = "none" /\ Handled = Taken /\ outcome \in {"returned", "thrown"}
  BY DEF TypeInv, ControlType, ErrorType, NextSites, Handled
<1>2. \A v : v \in Documents(Taken, opts) <=>
        /\ Read(Significant(Taken), opts) = Ended(v)
        /\ ~HasRefusedComment(Taken, opts)
        /\ opts.complete_parse \/ EndsInAToken(Taken)
        /\ Admissible(v, opts)
  BY TokensHaveMeanings, ReaderReadsDocuments
<1>3. Rejected <=> ~(outcome = "returned" /\ successful)
  BY <1>1 DEF Rejected, NextSites
<1>4. CASE ~Rejected
  <2>1. Reached = Ended(val)
    BY DEF Reached
  <2>. QED
    BY <1>1, <1>2, <1>3, <1>4, <2>1 DEF FollowsTheReader, InStep
<1>5. CASE Rejected
  <2>1. ASSUME NEW v \in Documents(Taken, opts) PROVE FALSE
    <3>1. /\ Read(Significant(Taken), opts) = Ended(v)
          /\ ~HasRefusedComment(Taken, opts) /\ Admissible(v, opts)
      BY <1>2, <2>1
    <3>2. Ended(v).at = "end" /\ Ended(v).val = v /\ Ended(v) # Failed
      BY DEF Ended, Failed
    <3>. QED
      BY <1>5, <3>1, <3>2 DEF FollowsTheReader, Lost, Hopeful
  <2>. QED
    BY <1>3, <1>5, <2>1
<1>. QED
  BY <1>4, <1>5

\* As long as parse has not rejected its input it is where the reader is; once it has, it
\* is right, whatever comes.
LEMMA ParseFollowsReader == Spec => [](TypeInv /\ FollowsTheReader)
<1>1. Spec => []TypeInv
  BY InitialTypes, StepsTypes, PTL DEF Spec
<1>2. Init => TypeInv /\ TokenInv /\ FollowsTheReader
  <2>. SUFFICES ASSUME Init PROVE TypeInv /\ TokenInv /\ FollowsTheReader
    OBVIOUS
  <2>1. TypeInv
    BY InitialTypes
  <2>2. begin = Len(seen) /\ got = "none" /\ stack = <<>> /\ pc = "value" /\ ~Rejected
    BY DEF Init, InitialContext, Rejected
  <2>. QED
    BY <2>1, <2>2, FreshFollows DEF TokenInv, Begun, Fresh
<1>3. TypeInv /\ TypeInv' /\ ControlIsStructured /\ TreesStayWellFormed /\ TokenInv
        /\ FollowsTheReader /\ [Next]_vars => FollowsTheReader'
  BY FollowingStep
<1>. QED
  BY <1>1, <1>2, <1>3, TokenStep, ControlStaysStructured, TreesAreWellFormed, PTL
     DEF Spec

\* Whatever the options, the tokens and the length of the input, parse returns exactly the
\* document that the grammar finds in its input, with its value, and where the grammar finds
\* none it throws or is marked unsuccessful: no path through its recursion, its returns and
\* its recovery from errors accepts, rejects or builds anything else.
THEOREM ParseAgreesWithGrammar == Spec => []AgreesWithGrammar
  BY ParseFollowsReader, FollowingAgrees, PTL

-----------------------------------------------------------------------------
(* What has been handled without an error can be completed to a document. *)

\* A list of tokens none of which is blank is significant.
LEMMA NothingSkipped ==
  ASSUME NEW T, \A t \in T : t.kind \notin Skipped, NEW ts \in Seq(T)
  PROVE  Significant(ts) = ts
<1>. DEFINE N == Len(ts)
            g == SignificantUpTo(ts)
            S == {n \in 0 .. N : g[n] = SubSeq(ts, 1, n)}
<1>1. N \in Nat /\ \A n \in 1 .. N : n - 1 \in 0 .. N /\ n \in 0 .. N
  OBVIOUS
<1>2. \A n \in 1 .. N : ts[n].kind \notin Skipped
  OBVIOUS
<1>3. g[0] = <<>> /\ \A n \in 1 .. N : g[n] = Append(g[n - 1], ts[n])
  BY <1>2, KeptTokens
<1>4. 0 \in S
  <2>1. SubSeq(ts, 1, 0) = <<>> /\ 0 \in 0 .. N
    BY <1>1
  <2>. QED
    BY <1>3, <2>1
<1>. HIDE DEF g
<1>5. ASSUME NEW n \in 1 .. N, n - 1 \in S PROVE n \in S
  <2>1. SubSeq(ts, 1, n) = Append(SubSeq(ts, 1, n - 1), ts[n])
    OBVIOUS
  <2>. QED
    BY <1>1, <1>3, <1>5, <2>1
<1>. HIDE DEF S
<1>6. N \in S
  <2>1. 0 .. N \subseteq S
    BY <1>1, <1>4, <1>5, InductionUpto
  <2>. QED
    BY <1>1, <2>1
<1>7. SubSeq(ts, 1, N) = ts
  OBVIOUS
<1>. QED
  BY <1>6, <1>7 DEF S, g, Significant

\* What is significant is so once more.
LEMMA SignificantHasNoBlanks ==
  ASSUME NEW T, NEW ts \in Seq(T)
  PROVE  Significant(ts) \in Seq({t \in T : t.kind \notin Skipped})
<1>. DEFINE N == Len(ts)
            g == SignificantUpTo(ts)
            Q == {t \in T : t.kind \notin Skipped}
            R == Seq(Q)
            S == {n \in 0 .. N : g[n] \in R}
<1>1. N \in Nat /\ \A n \in 1 .. N : n - 1 \in 0 .. N /\ n \in 0 .. N /\ ts[n] \in T
  OBVIOUS
<1>2. /\ g[0] = <<>>
      /\ \A n \in 1 .. N : g[n] = IF ts[n].kind \in Skipped THEN g[n - 1]
                                  ELSE Append(g[n - 1], ts[n])
  BY KeptTokens
<1>. HIDE DEF g
<1>3. 0 \in S
  <2>. HIDE DEF Q
  <2>1. <<>> \in R /\ 0 \in 0 .. N
    BY <1>1, EmptySeq
  <2>. QED
    BY <1>2, <2>1
<1>4. ASSUME NEW n \in 1 .. N, n - 1 \in S PROVE n \in S
  <2>1. CASE ts[n].kind \in Skipped
    BY <1>1, <1>2, <1>4, <2>1
  <2>2. CASE ts[n].kind \notin Skipped
    <3>1. ts[n] \in Q
      BY <1>1, <2>2
    <3>2. Append(g[n - 1], ts[n]) \in R
      <4>. HIDE DEF Q
      <4>. QED
        BY <1>4, <3>1, AppendProperties
    <3>. QED
      BY <1>1, <1>2, <2>2, <3>2
  <2>. QED
    BY <2>1, <2>2
<1>. HIDE DEF S
<1>5. N \in S
  <2>1. 0 .. N \subseteq S
    BY <1>1, <1>3, <1>4, InductionUpto
  <2>. QED
    BY <1>1, <2>1
<1>. QED
  BY <1>5 DEF S, g, Significant

\* The reader looks at some of the options only.
LEMMA ReadAlike ==
  ASSUME NEW T, \A t \in T : t.means \in Text, NEW w \in Seq(T), NEW a, NEW b,
         a.comma_policy = b.comma_policy, a.complete_parse = b.complete_parse,
         a.string_encoding = b.string_encoding, a.number_encoding = b.number_encoding
  PROVE  Read(w, a) = Read(w, b)
<1>. DEFINE f == Reading(w, a)
            g == Reading(w, b)
            N == Len(w)
<1>1. \A t : Readable(t, a) = Readable(t, b)
  BY DEF Readable
<1>2. \A c, t : Takes(a, c, t) = Takes(b, c, t)
  <2>1. \A s, t : /\ BeginsValue(a, s, t) = BeginsValue(b, s, t)
                  /\ BeginsMember(a, s, t) = BeginsMember(b, s, t)
                  /\ ClosedEarly(a, s) = ClosedEarly(b, s)
    BY <1>1 DEF BeginsValue, BeginsMember, ClosedEarly
  <2>. QED
    BY <2>1 DEF Takes
<1>3. /\ N \in Nat /\ f[0] = g[0]
      /\ \A n \in 1 .. N : f[n] = Takes(a, f[n - 1], w[n]) /\ g[n] = Takes(b, g[n - 1], w[n])
  BY ReadingSteps
<1>. HIDE DEF f, g, N
<1>4. f[N] = g[N]
  BY <1>2, <1>3, GoingOnAlike
<1>. QED
  BY <1>4 DEF f, g, N, Read

\* The innermost container ends first.
LEMMA ClosersBegin ==
  ASSUME NEW T, RBracket \in T, RBrace \in T, NEW w \in Seq(T),
         NEW s \in Seq(Levels)
  PROVE  /\ Closers(s) \in Seq(T)
         /\ s = <<>> => Closers(s) = <<>>
         /\ s # <<>> => w \o Closers(s) = Append(w, Closer(Last(s))) \o Closers(Front(s))
<1>. DEFINE n == Len(s)
            p == Front(s)
<1>0. \A f : Closer(f) \in T
  BY DEF Closer
<1>1. \A q \in Seq(Levels) :
        /\ Closers(q) \in Seq(T) /\ Len(Closers(q)) = Len(q)
        /\ \A i \in 1 .. Len(q) : Closers(q)[i] = Closer(q[Len(q) + 1 - i])
  <2>. SUFFICES ASSUME NEW q \in Seq(Levels)
                PROVE  /\ Closers(q) \in Seq(T) /\ Len(Closers(q)) = Len(q)
                       /\ \A i \in 1 .. Len(q) : Closers(q)[i] = Closer(q[Len(q) + 1 - i])
    OBVIOUS
  <2>1. Len(q) \in Nat /\ DOMAIN q = 1 .. Len(q)
    OBVIOUS
  <2>. QED
    BY <1>0, <2>1, IsASeq DEF Closers
<1>2. CASE s = <<>>
  <2>1. Len(Closers(s)) = 0
    BY <1>1, <1>2
  <2>. QED
    BY <1>1, <1>2, <2>1, EmptySeq
<1>3. CASE s # <<>>
  <2>. DEFINE c == Closer(Last(s))
              y == Closers(p)
              z == Closers(s)
  <2>1. n \in Nat \ {0} /\ p \in Seq(Levels) /\ Len(p) = n - 1 /\ Last(s) = s[n]
    <3>1. p \in Seq(Levels) /\ Len(s) = Len(p) + 1
      BY <1>3, PoppedLevel, PushedLevel
    <3>. QED
      BY <3>1 DEF Last
  <2>2. \A i \in 1 .. n - 1 : p[i] = s[i]
    BY <2>1 DEF Front
  <2>3. /\ y \in Seq(T) /\ Len(y) = n - 1 /\ z \in Seq(T) /\ Len(z) = n /\ c \in T
        /\ \A i \in 1 .. n - 1 : y[i] = Closer(p[(n - 1) + 1 - i])
        /\ \A i \in 1 .. n : z[i] = Closer(s[n + 1 - i])
    BY <1>0, <1>1, <2>1
  <2>. HIDE DEF n, p, y, z, c
  <2>4. z[1] = c
    <3>1. 1 \in 1 .. n /\ n + 1 - 1 = n
      BY <2>1
    <3>. QED
      BY <2>1, <2>3, <3>1 DEF c
  <2>5. ASSUME NEW i \in 1 .. n - 1 PROVE z[i + 1] = y[i]
    <3>1. i + 1 \in 1 .. n /\ n + 1 - (i + 1) = n - i /\ (n - 1) + 1 - i = n - i
          /\ n - i \in 1 .. n - 1
      BY <2>1
    <3>2. z[i + 1] = Closer(s[n - i])
      BY <2>3, <3>1
    <3>3. y[i] = Closer(p[n - i])
      BY <2>3, <3>1
    <3>. QED
      BY <2>2, <3>1, <3>2, <3>3
  <2>6. z = <<c>> \o y
    <3>. DEFINE x == <<c>> \o y
    <3>1. /\ x \in Seq(T) /\ Len(x) = n /\ x[1] = c
          /\ \A i \in 1 .. n - 1 : x[i + 1] = y[i]
      BY <2>1, <2>3
    <3>. HIDE DEF x
    <3>2. ASSUME NEW i \in 1 .. n PROVE z[i] = x[i]
      <4>1. i = 1 \/ (i - 1 \in 1 .. n - 1 /\ (i - 1) + 1 = i)
        BY <2>1
      <4>. QED
        BY <2>4, <2>5, <3>1, <4>1
    <3>3. z = x
      BY <2>3, <3>1, <3>2, SeqEqual
    <3>. QED
      BY <3>3 DEF x
  <2>7. Append(w, c) = w \o <<c>> /\ <<c>> \in Seq(T)
    BY <2>3, AppendIsConcat
  <2>8. (w \o <<c>>) \o y = w \o (<<c>> \o y)
    <3>. DEFINE x == <<c>>
    <3>1. x \in Seq(T)
      BY <2>7
    <3>. HIDE DEF x
    <3>2. w \in Seq(T) /\ y \in Seq(T)
      BY <2>3
    <3>3. (w \o x) \o y = w \o (x \o y)
      BY <3>1, <3>2, ConcatAssociative, SMTT(20)
    <3>. QED
      BY <3>3 DEF x
  <2>. QED
    BY <1>1, <1>3, <2>6, <2>7, <2>8 DEF p, c, y, z
<1>. QED
  BY <1>2, <1>3

\* The reader after the end of a container.
LEMMA CloserCloses ==
  ASSUME NEW o, NEW s \in Seq(Levels), NEW f \in Levels
  PROVE  Takes(o, Expects(IF f.fn = "array" THEN "item_end" ELSE "member_end", Append(s, f)),
               Closer(f)) = Absorb(s, f.out)
<1>1. Last(Append(s, f)) = f /\ Front(Append(s, f)) = s
  BY PushedLevel
<1>2. Closed(Append(s, f)) = Absorb(s, f.out)
  BY <1>1 DEF Closed
<1>3. RBracket.kind = "array_end" /\ RBrace.kind = "object_end"
  BY DEF RBracket, RBrace, Token
<1>. QED
  BY <1>2, <1>3, ExpectsHas DEF Takes, Closer

\* A container whose last key it does not have yet.
Unrepeated(f) == f.fn = "object" => ~HasKey(f.out, f.key)

\* After a value, what ends the open containers ends the document.
LEMMA ClosersEnd ==
  ASSUME NEW T, \A t \in T : t.means \in Text, RBracket \in T, RBrace \in T, NEW o,
         NEW s \in Seq(Levels), \A i \in DOMAIN s : Unrepeated(s[i]),
         NEW w \in Seq(T), NEW v \in Trees, Read(w, o) = Absorb(s, v)
  PROVE  \E x : Read(w \o Closers(s), o) = Ended(x)
<1>. DEFINE Ends(q, u) == \E x : Read(u \o Closers(q), o) = Ended(x)
            S == {n \in Nat : \A q \in Seq(Levels), u \in Seq(T), y \in Trees :
                    Len(q) = n /\ (\A i \in DOMAIN q : Unrepeated(q[i]))
                    /\ Read(u, o) = Absorb(q, y) => Ends(q, u)}
<1>1. 0 \in S
  <2>1. ASSUME NEW q \in Seq(Levels), NEW u \in Seq(T), NEW y, Len(q) = 0,
               Read(u, o) = Absorb(q, y)
        PROVE  Ends(q, u)
    <3>1. q = <<>>
      BY <2>1
    <3>2. u \o Closers(q) = u
      BY <3>1, ClosersBegin, ConcatEmptySeq
    <3>3. Absorb(q, y) = Ended(y)
      BY <3>1 DEF Absorb
    <3>. QED
      BY <2>1, <3>2, <3>3
  <2>. QED
    BY <2>1
<1>2. ASSUME NEW n \in S PROVE n + 1 \in S
  <2>1. ASSUME NEW q \in Seq(Levels), NEW u \in Seq(T), NEW y \in Trees, Len(q) = n + 1,
               \A i \in DOMAIN q : Unrepeated(q[i]), Read(u, o) = Absorb(q, y)
        PROVE  Ends(q, u)
    <3>. DEFINE f == Last(q)
                p == Front(q)
                g == Grown(f, y)
                c == Closer(f)
                a == Append(u, c)
    <3>1. /\ n \in Nat /\ q # <<>> /\ p \in Seq(Levels) /\ Len(p) = n
          /\ \A i \in DOMAIN p : i \in DOMAIN q /\ p[i] = q[i]
          /\ f \in Levels /\ f = q[Len(q)] /\ Len(q) \in DOMAIN q
      BY <2>1 DEF Front, Last
    <3>2. g \in Levels /\ g.fn = f.fn
      <4>1. g \in Levels
        BY <3>1, GrownIsALevel
      <4>. QED
        BY <3>1, <4>1 DEF Grown, Levels
    <3>3. Unrepeated(f) /\ \A i \in DOMAIN p : Unrepeated(p[i])
      BY <2>1, <3>1
    <3>4. Absorb(q, y) = Expects(IF g.fn = "array" THEN "item_end" ELSE "member_end", Append(p, g))
      <4>1. CASE f.fn = "array"
        BY <3>1, <3>2, <4>1 DEF Absorb
      <4>2. CASE f.fn = "object"
        BY <3>1, <3>2, <3>3, <4>2 DEF Absorb, Unrepeated
      <4>. QED
        BY <3>1, <4>1, <4>2 DEF Levels, ContainerKinds
    <3>5. a \in Seq(T) /\ c \in T /\ Closer(g) = c
      BY <3>2, AppendProperties DEF Closer
    <3>6. Read(a, o) = Absorb(p, g.out)
      <4>1. Read(a, o) = Takes(o, Read(u, o), c)
        BY <3>5, ReadGrows
      <4>2. g \in Levels /\ p \in Seq(Levels) /\ Closer(g) = c
        BY <3>1, <3>2, <3>5
      <4>3. Read(u, o) = Expects(IF g.fn = "array" THEN "item_end" ELSE "member_end", Append(p, g))
        BY <2>1, <3>4
      <4>. HIDE DEF p, g, c, a
      <4>. QED
        BY <4>1, <4>2, <4>3, CloserCloses
    <3>7. g.out \in Trees
      BY <3>2 DEF Levels
    <3>8. u \o Closers(q) = a \o Closers(p)
      BY <3>1, ClosersBegin
    <3>. HIDE DEF a, p, g, c, f
    <3>9. Ends(p, a)
      BY <3>1, <3>3, <3>5, <3>6, <3>7
    <3>. QED
      BY <3>8, <3>9
  <2>. HIDE DEF Ends
  <2>. QED
    BY <2>1
<1>3. S \in SUBSET Nat
  OBVIOUS
<1>. HIDE DEF S
<1>4. Len(s) \in S
  <2>1. S = Nat
    BY <1>1, <1>2, <1>3, Induction
  <2>. QED
    BY <2>1
<1>. QED
  BY <1>4 DEF S

\* The tokens of a completed input, none of them blank.
Completing ==
    {t \in scenario.tokens \cup {RBracket, RBrace, Colon, Nothing, NewKey} : t.kind \notin Skipped}

\* They can be read, and what was significant is made of them.
LEMMA CompletingTokens ==
  ASSUME TypeInv
  PROVE  /\ \A t \in Completing : t.means \in Text /\ t.kind \notin Skipped
         /\ {RBracket, RBrace, Colon, Nothing, NewKey} \subseteq Completing
         /\ Significant(Taken) \in Seq(Completing)
<1>1. \A t \in scenario.tokens : t.means \in Text
  BY TokensHaveMeanings
<1>2. \A t \in {RBracket, RBrace, Colon, Nothing, NewKey} : t.means \in Text
        /\ t.kind \notin Skipped
  <2>1. /\ RBracket.kind = "array_end" /\ RBracket.means = ""
        /\ RBrace.kind = "object_end" /\ RBrace.means = ""
        /\ Colon.kind = "object_key_delimiter" /\ Colon.means = ""
        /\ Nothing.kind = "null" /\ Nothing.means = ""
        /\ NewKey.kind = "string" /\ NewKey.means = ""
    BY DEF RBracket, RBrace, Colon, Nothing, NewKey, Token
  <2>. QED
    BY <2>1 DEF Text, Skipped
<1>3. Significant(Taken) \in Seq(Completing)
  <2>. DEFINE A == scenario.tokens \cup {RBracket, RBrace, Colon, Nothing, NewKey}
  <2>1. Taken \in Seq(A)
    BY TokensHaveMeanings
  <2>. HIDE DEF A
  <2>2. Significant(Taken) \in Seq({t \in A : t.kind \notin Skipped})
    BY <2>1, SignificantHasNoBlanks
  <2>. QED
    BY <2>2 DEF A, Completing
<1>. QED
  BY <1>1, <1>2, <1>3 DEF Completing

\* What the reader makes of the tokens that complete a value.
LEMMA ReaderOfMissing ==
  ASSUME NEW o, NEW s
  PROVE  /\ \A site \in {"value", "item"} :
               Takes(o, Expects(site, s), Nothing) = Absorb(s, Null)
         /\ Takes(o, Expects("colon", s), Colon) = Expects("value", s)
         /\ Takes(o, Expects("key", s), NewKey)
               = Expects("colon", Append(Front(s), Named(Last(s), NewKey.means)))
         /\ Null \in Trees
<1>1. /\ Nothing.kind = "null" /\ Nothing.means = "" 
      /\ Colon.kind = "object_key_delimiter"
      /\ NewKey.kind = "string" /\ NewKey.refused_by = {}
  BY DEF Nothing, Colon, NewKey, Token
<1>2. Readable(Nothing, o) /\ Readable(NewKey, o)
  BY <1>1 DEF Readable, ScalarKinds
<1>3. BeginsValue(o, s, Nothing) = Absorb(s, Null)
  BY <1>1, <1>2 DEF BeginsValue, ScalarKinds, Null
<1>4. ASSUME NEW site \in {"value", "item"}
      PROVE  Takes(o, Expects(site, s), Nothing) = Absorb(s, Null)
  <2>. DEFINE c == Expects(site, s)
  <2>1. c.at = site /\ c.stack = s
    BY ExpectsHas
  <2>. HIDE DEF c
  <2>2. Takes(o, c, Nothing) = BeginsValue(o, s, Nothing)
    BY <1>1, <2>1 DEF Takes
  <2>. QED
    BY <1>3, <2>2 DEF c
<1>5. Takes(o, Expects("colon", s), Colon) = Expects("value", s)
  <2>. DEFINE c == Expects("colon", s)
  <2>1. c.at = "colon" /\ c.stack = s
    BY ExpectsHas
  <2>. HIDE DEF c
  <2>2. Takes(o, c, Colon) = Expects("value", s)
    BY <1>1, <2>1 DEF Takes
  <2>. QED
    BY <2>2 DEF c
<1>6. Takes(o, Expects("key", s), NewKey)
        = Expects("colon", Append(Front(s), Named(Last(s), NewKey.means)))
  <2>. DEFINE c == Expects("key", s)
  <2>1. c.at = "key" /\ c.stack = s
    BY ExpectsHas
  <2>. HIDE DEF c
  <2>2. Takes(o, c, NewKey) = BeginsMember(o, s, NewKey)
    BY <1>1, <2>1 DEF Takes
  <2>. QED
    BY <1>1, <1>2, <2>2 DEF c, BeginsMember
<1>7. Null \in Trees
  BY ConstantTrees
<1>. QED
  BY <1>4, <1>5, <1>6, <1>7

\* The parser without an error, and with distinct keys, is in step with the reader.
LEMMA NothingWrong ==
  ASSUME TypeInv, ControlIsStructured, FollowsTheReader, NothingWrongYet
  PROVE  /\ Handled = Taken /\ Read(Significant(Taken), opts) = Reached
         /\ pc \in {"value", "item", "item_end", "key", "colon", "member_end", "return",
                    "trailing", "finish"}
<1>1. /\ outcome = "running" /\ successful /\ ~complete /\ got = "none"
  BY DEF NothingWrongYet
<1>2. pc \in NextSites \cup {"return", "finish"} /\ pc # "skip"
  BY <1>1 DEF TypeInv, ControlType, ControlIsStructured
<1>3. ~Rejected
  BY <1>1 DEF Rejected, ControlIsStructured
<1>. QED
  BY <1>1, <1>2, <1>3 DEF FollowsTheReader, InStep, Handled, NextSites

\* What it has handled, and the rest of the value it is in, are a value inside the open
\* containers, whose last keys they do not have yet.
LEMMA ValueIsCompleted ==
  ASSUME TypeInv, ControlIsStructured, FollowsTheReader, NothingWrongYet
  PROVE  \E s \in Seq(Levels), v \in Trees, u \in Seq(Completing) :
            /\ Significant(Taken) \o Missing \o Closers(stack) = u \o Closers(s)
            /\ Read(u, opts) = Absorb(s, v)
            /\ \A i \in DOMAIN s : Unrepeated(s[i])
<1>. DEFINE T == Completing
            w == Significant(Taken)
            Whole == w \o Missing \o Closers(stack)
            Done(s, v, u) == /\ Whole = u \o Closers(s)
                             /\ Read(u, opts) = Absorb(s, v)
                             /\ \A i \in DOMAIN s : Unrepeated(s[i])
<1>. SUFFICES \E s \in Seq(Levels), v \in Trees, u \in Seq(T) : Done(s, v, u)
  OBVIOUS
<1>1. /\ \A t \in T : t.means \in Text
      /\ {RBracket, RBrace, Colon, Nothing, NewKey} \subseteq T /\ w \in Seq(T)
  BY CompletingTokens
<1>2. /\ stack \in Seq(Levels) /\ val \in Trees
      /\ stack # <<>> => Top = Last(stack) /\ Popped = Front(stack)
  BY FramesAreLevels DEF TypeInv, ControlType
<1>3. /\ Read(w, opts) = Reached
      /\ pc \in {"value", "item", "item_end", "key", "colon", "member_end", "return",
                 "trailing", "finish"}
  BY NothingWrong
<1>4. Closers(stack) \in Seq(T)
  BY <1>1, <1>2, ClosersBegin
<1>5. /\ \A i \in DOMAIN stack : i < Len(stack) => Unrepeated(stack[i])
      /\ pc \in {"colon", "value", "return"} => \A i \in DOMAIN stack : Unrepeated(stack[i])
      /\ pc = "key" => ~HasKey(Top.out, NewKey.means)
  BY DEF NothingWrongYet, PendingDuplicate, Unrepeated
<1>6. stack # <<>> => /\ \A i \in DOMAIN Front(stack) : Unrepeated(Front(stack)[i])
                      /\ Last(stack) = stack[Len(stack)] /\ Len(stack) \in DOMAIN stack
                      /\ \A i \in DOMAIN stack : i < Len(stack) \/ i = Len(stack)
  <2>. SUFFICES ASSUME stack # <<>>
                PROVE  /\ \A i \in DOMAIN Front(stack) : Unrepeated(Front(stack)[i])
                       /\ Last(stack) = stack[Len(stack)] /\ Len(stack) \in DOMAIN stack
                       /\ \A i \in DOMAIN stack : i < Len(stack) \/ i = Len(stack)
    OBVIOUS
  <2>1. Front(stack) \in Seq(Levels) /\ Len(stack) = Len(Front(stack)) + 1
    BY <1>2, PoppedLevel, PushedLevel
  <2>2. \A i \in DOMAIN Front(stack) :
          i \in DOMAIN stack /\ i < Len(stack) /\ Front(stack)[i] = stack[i]
    BY <1>2, <2>1 DEF Front
  <2>. QED
    BY <1>2, <1>5, <2>1, <2>2 DEF Last
<1>7. \A u \in Seq(T), a \in T : Append(u, a) \in Seq(T) /\ u \o <<a>> = Append(u, a)
  <2>. HIDE DEF T
  <2>. QED
    BY AppendProperties, AppendIsConcat
<1>8. \A u \in Seq(T), a \in T : Read(Append(u, a), opts) = Takes(opts, Read(u, opts), a)
  BY <1>1, ReadGrows
<1>. HIDE DEF T, w
<1>9. CASE pc \in {"value", "item"}
  <2>1. Missing = <<Nothing>> /\ Reached = Expects(pc, stack)
    BY <1>9 DEF Missing, Reached
  <2>2. Whole = Append(w, Nothing) \o Closers(stack)
    BY <1>1, <1>7, <2>1
  <2>3. Read(Append(w, Nothing), opts) = Absorb(stack, Null) /\ Null \in Trees
    BY <1>1, <1>3, <1>8, <1>9, <2>1, ReaderOfMissing
  <2>4. \A i \in DOMAIN stack : Unrepeated(stack[i])
    <3>1. CASE pc = "value"
      BY <1>5, <3>1
    <3>2. CASE pc = "item"
      <4>1. stack # <<>> /\ Unrepeated(Last(stack))
        BY <1>2, <3>2 DEF ControlIsStructured, Unrepeated
      <4>. QED
        BY <1>5, <1>6, <4>1
    <3>. QED
      BY <1>9, <3>1, <3>2
  <2>5. Append(w, Nothing) \in Seq(T)
    BY <1>1, <1>7
  <2>6. Done(stack, Null, Append(w, Nothing))
    BY <2>2, <2>3, <2>4
  <2>. HIDE DEF Done
  <2>. QED
    BY <1>2, <2>3, <2>5, <2>6
<1>10. CASE pc = "colon"
  <2>1. Missing = <<Colon, Nothing>> /\ Reached = Expects("colon", stack)
    BY <1>10 DEF Missing, Reached
  <2>. DEFINE a == Append(w, Colon)
              u == Append(a, Nothing)
  <2>2. u \in Seq(T) /\ a \in Seq(T)
    BY <1>1, <1>7
  <2>3. w \o <<Colon, Nothing>> = u
    BY <1>1
  <2>4. Read(a, opts) = Expects("value", stack)
    BY <1>1, <1>3, <1>8, <2>1, ReaderOfMissing
  <2>. HIDE DEF a
  <2>5. Read(u, opts) = Absorb(stack, Null) /\ Null \in Trees
    <3>1. Read(u, opts) = Takes(opts, Expects("value", stack), Nothing)
      BY <1>1, <1>8, <2>2, <2>4
    <3>. QED
      BY <3>1, ReaderOfMissing
  <2>. HIDE DEF u
  <2>6. Done(stack, Null, u)
    BY <1>5, <1>10, <2>1, <2>3, <2>5
  <2>. HIDE DEF Done
  <2>. QED
    BY <1>2, <2>2, <2>5, <2>6
<1>11. CASE pc = "key"
  <2>1. Missing = <<NewKey, Colon, Nothing>> /\ Reached = Expects("key", stack)
    BY <1>11 DEF Missing, Reached
  <2>. DEFINE f == Named(Last(stack), NewKey.means)
              s == Append(Front(stack), f)
              a == Append(w, NewKey)
              b == Append(a, Colon)
              u == Append(b, Nothing)
  <2>2. a \in Seq(T) /\ b \in Seq(T) /\ u \in Seq(T)
    BY <1>1, <1>7
  <2>3. w \o <<NewKey, Colon, Nothing>> = u
    BY <1>1
  <2>4. /\ stack # <<>> /\ Top = Last(stack) /\ Last(stack) \in Levels
        /\ Front(stack) \in Seq(Levels) /\ stack = Append(Front(stack), Last(stack))
    BY <1>2, <1>11, PoppedLevel DEF ControlIsStructured
  <2>5. f \in Levels /\ f.fn = Last(stack).fn /\ f.key = NewKey.means /\ f.out = Last(stack).out
    <3>1. NewKey.means \in Text
      BY <1>1
    <3>. QED
      BY <2>4, <3>1, ChangedLevels
  <2>6. Read(a, opts) = Expects("colon", s)
    BY <1>1, <1>3, <1>8, <2>1, ReaderOfMissing
  <2>7. Read(b, opts) = Expects("value", s)
    <3>. HIDE DEF a, s
    <3>1. Read(b, opts) = Takes(opts, Expects("colon", s), Colon)
      BY <1>1, <1>8, <2>2, <2>6
    <3>. QED
      BY <3>1, ReaderOfMissing
  <2>8. Read(u, opts) = Absorb(s, Null) /\ Null \in Trees
    <3>. HIDE DEF b, s
    <3>1. Read(u, opts) = Takes(opts, Expects("value", s), Nothing)
      BY <1>1, <1>8, <2>2, <2>7
    <3>. QED
      BY <3>1, ReaderOfMissing
  <2>. HIDE DEF a, b, u, f
  <2>9. s \in Seq(Levels) /\ Last(s) = f /\ Front(s) = Front(stack) /\ s # <<>>
    BY <2>4, <2>5, PushedLevel
  <2>10. Unrepeated(f)
    BY <1>5, <1>11, <2>4, <2>5 DEF Unrepeated
  <2>11. \A i \in DOMAIN s : Unrepeated(s[i])
    <3>1. Front(stack) \in Seq(Levels) /\ \A i \in DOMAIN Front(stack) : Unrepeated(Front(stack)[i])
      BY <1>6, <2>4
    <3>. QED
      BY <2>5, <2>10, <3>1, AppendProperties
  <2>12. u \o Closers(stack) = u \o Closers(s)
    <3>1. Closer(f) = Closer(Last(stack))
      BY <2>5 DEF Closer
    <3>. HIDE DEF s
    <3>2. u \o Closers(stack) = Append(u, Closer(Last(stack))) \o Closers(Front(stack))
      BY <1>1, <1>2, <2>2, <2>4, ClosersBegin
    <3>3. u \o Closers(s) = Append(u, Closer(Last(s))) \o Closers(Front(s))
      BY <1>1, <2>2, <2>9, ClosersBegin
    <3>. QED
      BY <2>9, <3>1, <3>2, <3>3
  <2>. HIDE DEF s
  <2>13. Done(s, Null, u)
    BY <2>1, <2>3, <2>8, <2>11, <2>12
  <2>. HIDE DEF Done
  <2>. QED
    BY <2>2, <2>8, <2>9, <2>13
<1>12. CASE pc \in {"item_end", "member_end"}
  <2>1. Missing = <<>> /\ Reached = Expects(pc, stack)
    BY <1>12 DEF Missing, Reached
  <2>. DEFINE f == Last(stack)
              s == Front(stack)
              c == Closer(f)
              u == Append(w, c)
  <2>2. /\ stack # <<>> /\ f \in Levels /\ s \in Seq(Levels) /\ stack = Append(s, f)
        /\ pc = IF f.fn = "array" THEN "item_end" ELSE "member_end"
    BY <1>2, <1>12, PoppedLevel DEF ControlIsStructured
  <2>3. c \in T /\ u \in Seq(T)
    BY <1>1, <1>7 DEF Closer
  <2>4. Read(u, opts) = Absorb(s, f.out)
    <3>1. Read(u, opts) = Takes(opts, Expects(pc, stack), c)
      BY <1>1, <1>3, <1>8, <2>1, <2>3
    <3>. HIDE DEF f, s, u
    <3>. QED
      BY <2>2, <3>1, CloserCloses
  <2>5. w \o Closers(stack) = u \o Closers(s)
    BY <1>1, <1>2, <2>2, ClosersBegin
  <2>6. w \o <<>> = w
    BY <1>1, ConcatEmptySeq
  <2>7. f.out \in Trees /\ \A i \in DOMAIN s : Unrepeated(s[i])
    BY <1>6, <2>2 DEF Levels
  <2>. HIDE DEF f, s, u
  <2>8. Done(s, f.out, u)
    BY <2>1, <2>4, <2>5, <2>6, <2>7
  <2>. HIDE DEF Done
  <2>. QED
    BY <2>2, <2>3, <2>7, <2>8
<1>13. CASE pc \in {"return", "trailing", "finish"}
  <2>1. Missing = <<>> /\ w \o <<>> = w
    BY <1>1, <1>13, ConcatEmptySeq DEF Missing
  <2>2. Reached = Absorb(stack, val) /\ \A i \in DOMAIN stack : Unrepeated(stack[i])
    <3>1. CASE pc = "return"
      BY <1>5, <3>1 DEF Reached
    <3>2. CASE pc \in {"trailing", "finish"}
      <4>1. stack = <<>> /\ Reached = Ended(val)
        BY <3>2 DEF ControlIsStructured, Reached
      <4>. QED
        BY <4>1 DEF Absorb
    <3>. QED
      BY <1>13, <3>1, <3>2
  <2>3. Done(stack, val, w)
    BY <1>3, <2>1, <2>2
  <2>. HIDE DEF Done
  <2>. QED
    BY <1>1, <1>2, <2>3
<1>. QED
  BY <1>3, <1>9, <1>10, <1>11, <1>12, <1>13

\* So there is a document.
LEMMA CompletedToADocument ==
  ASSUME TypeInv, ControlIsStructured, FollowsTheReader, NothingWrongYet
  PROVE  Documents(Significant(Handled) \o Missing \o Closers(stack),
                   [opts EXCEPT !.max_structure_depth = 0, !.require_document = FALSE]) # {}
<1>. DEFINE T == Completing
            o == [opts EXCEPT !.max_structure_depth = 0, !.require_document = FALSE]
            Whole == Significant(Taken) \o Missing \o Closers(stack)
<1>1. /\ \A t \in T : t.means \in Text /\ t.kind \notin Skipped
      /\ RBracket \in T /\ RBrace \in T
  BY CompletingTokens
<1>2. PICK s \in Seq(Levels), v \in Trees, u \in Seq(T) :
        /\ Whole = u \o Closers(s) /\ Read(u, opts) = Absorb(s, v)
        /\ \A i \in DOMAIN s : Unrepeated(s[i])
  BY ValueIsCompleted
<1>. HIDE DEF T, Whole
<1>3. Whole \in Seq(T)
  <2>1. Closers(s) \in Seq(T)
    BY <1>1, ClosersBegin
  <2>2. u \o Closers(s) \in Seq(T)
    BY <2>1, ConcatProperties, SMTT(20)
  <2>. QED
    BY <1>2, <2>2
<1>4. PICK x : Read(Whole, opts) = Ended(x)
  <2>1. /\ \A t \in T : t.means \in Text
        /\ RBracket \in T /\ RBrace \in T
        /\ \A i \in DOMAIN s : Unrepeated(s[i])
        /\ Read(u, opts) = Absorb(s, v)
    BY <1>1, <1>2
  <2>2. \E x : Read(u \o Closers(s), opts) = Ended(x)
    BY <2>1, ClosersEnd, ZenonT(30)
  <2>. QED
    BY <1>2, <2>2
<1>5. /\ o.comma_policy = opts.comma_policy /\ o.complete_parse = opts.complete_parse
      /\ o.string_encoding = opts.string_encoding /\ o.number_encoding = opts.number_encoding
      /\ o.max_structure_depth = 0 /\ o.require_document = FALSE
  <2>1. OptionsOK(opts)
    BY ScenarioTypes DEF TypeInv
  <2>. QED
    BY <2>1 DEF OptionsOK
<1>. HIDE DEF o
<1>6. Read(Whole, o) = Ended(x) /\ Significant(Whole) = Whole
  BY <1>1, <1>3, <1>4, <1>5, ReadAlike, NothingSkipped
<1>7. EndsInAToken(Whole) /\ ~HasRefusedComment(Whole, o)
  <2>1. Whole # <<>>
    BY <1>4, NothingRead DEF Ended, Expects
  <2>2. \A i \in DOMAIN Whole : Whole[i] \in T
    BY <1>3
  <2>3. Len(Whole) \in DOMAIN Whole
    BY <1>3, <2>1
  <2>. QED
    BY <1>1, <2>1, <2>2, <2>3 DEF EndsInAToken, HasRefusedComment, Skipped
<1>8. Admissible(x, o)
  BY <1>5 DEF Admissible
<1>9. x \in Documents(Whole, o)
  BY <1>1, <1>3, <1>6, <1>7, <1>8, ReaderReadsDocuments
<1>10. Handled = Taken
  BY NothingWrong
<1>. QED
  BY <1>9, <1>10 DEF o, Whole

\* Whatever the options, the tokens and the length of the input, parse goes on without an
\* error only as long as what it has read is the beginning of a document.
THEOREM ParseNoticesErrors == Spec => []ErrorsAreNoticedAtOnce
<1>1. Spec => [](TypeInv /\ FollowsTheReader)
  BY ParseFollowsReader, PTL
<1>2. TypeInv /\ ControlIsStructured /\ FollowsTheReader => ErrorsAreNoticedAtOnce
  BY CompletedToADocument DEF ErrorsAreNoticedAtOnce
<1>. QED
  BY <1>1, <1>2, ControlStaysStructured, PTL
=============================================================================
