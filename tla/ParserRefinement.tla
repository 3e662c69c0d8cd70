-------------------------- MODULE ParserRefinement --------------------------
(***************************************************************************)
(* The parser as an implementation of JsonAutomaton: the refinement        *)
(* mapping, and the shape of its control states that the mapping rests on. *)
(***************************************************************************)
EXTENDS Parser

\* The parser implements JsonAutomaton.  It has rejected its input as soon as it has found
\* an error or met the end of the input inside a value, also where it goes on.
Rejected ==
    \/ ~successful \/ outcome = "thrown"
    \/ pc = "return" /\ ~ret
    \/ complete /\ pc \in NextSites \ {"trailing"}

Lenient == opts.comma_policy = "allow_trailing"

Open == IF Rejected THEN <<>> ELSE Fns(stack)

Expect ==
    CASE Rejected -> "nothing"
      [] ~Rejected /\ pc = "item" -> IF Top.trailing THEN "next_item" ELSE "first_item"
      [] ~Rejected /\ pc = "key" -> IF Top.trailing THEN "next_key" ELSE "first_key"
      [] ~Rejected /\ pc \in {"value", "colon", "item_end", "member_end"} -> pc
      [] ~Rejected /\ pc \in {"return", "trailing", "finish", "done"} ->
           IF stack = <<>> THEN "end" ELSE IF Top.fn = "array" THEN "item_end" ELSE "member_end"

Verdict ==
    IF Rejected THEN "rejected" ELSE IF pc = "done" THEN "accepted" ELSE "reading"

Automaton == INSTANCE JsonAutomaton WITH
    lenient <- Lenient, open <- Open, expect <- Expect, verdict <- Verdict

\* Every behaviour of parse, through its recursion, its returns and its recovery from
\* errors, is one of the automaton: it takes the tokens the automaton takes, in that
\* order, and returns a value as successful only where the automaton accepts.
ImplementsAutomaton == Automaton!Behaviour

-----------------------------------------------------------------------------

\* How the point reached in parse.cpp, the end of the input and the innermost frame
\* belong together: each call of next is made by the function whose frame is on top;
\* forward_to_separator only runs after an error; without an error, parse_generic
\* returns false exactly at the end of the input; and what follows the value is read
\* with no frame left.
ControlIsStructured ==
    /\ complete => exhausted
    /\ got = "token" => ~complete
    /\ got = "end" => complete
    /\ pc \in {"item", "item_end"} => stack # <<>> /\ Top.fn = "array"
    /\ pc \in {"key", "colon", "member_end"} => stack # <<>> /\ Top.fn = "object"
    /\ pc = "skip" => ~successful
    /\ pc = "return" /\ successful => (ret <=> ~complete)
    /\ pc \in {"trailing", "finish", "done"} => stack = <<>>
=============================================================================
