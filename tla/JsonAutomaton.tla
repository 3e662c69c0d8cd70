--------------------------- MODULE JsonAutomaton ---------------------------
(***************************************************************************)
(* What parse promises, whatever its options, failure mode and recovery    *)
(* are: it is a pushdown automaton that reads the structure of JSON.  It   *)
(* keeps the brackets and braces that are open and what may come next,     *)
(* takes one token at a time, and accepts only after a whole value.  It    *)
(* may refuse an input at any time, as an encoding, a duplicate key or a   *)
(* limit can make it do; it never repairs one and accepts it.              *)
(***************************************************************************)
EXTENDS Sequences, Naturals

VARIABLES
    lenient,    \* whether a comma may come before a closing bracket or brace
    open,       \* the containers that are open, outermost first
    expect,     \* what may come next
    verdict     \* "reading", "accepted" or "rejected"

automatonVars == <<lenient, open, expect, verdict>>

Innermost == open[Len(open)]
Closed == SubSeq(open, 1, Len(open) - 1)

\* What may follow a value inside the containers o.
After(o) ==
    IF o = <<>> THEN "end"
    ELSE IF o[Len(o)] = "array" THEN "item_end" ELSE "member_end"

Reading == verdict = "reading" /\ UNCHANGED lenient
Goes(o, e) == open' = o /\ expect' = e /\ UNCHANGED verdict

Begin ==
    /\ lenient \in BOOLEAN /\ open = <<>> /\ expect = "value" /\ verdict = "reading"

TakeScalar ==
    /\ Reading
    /\ expect \in {"value", "first_item", "next_item"}
    /\ Goes(open, After(open))

TakeOpening ==
    /\ Reading
    /\ expect \in {"value", "first_item", "next_item"}
    /\ \/ Goes(Append(open, "array"), "first_item")
       \/ Goes(Append(open, "object"), "first_key")

TakeClosing ==
    /\ Reading /\ open # <<>>
    /\ \/ Innermost = "array" /\ expect \in {"first_item", "item_end"}
       \/ Innermost = "object" /\ expect \in {"first_key", "member_end"}
       \/ lenient /\ expect \in {"next_item", "next_key"}
    /\ Goes(Closed, After(Closed))

TakeComma ==
    /\ Reading
    /\ \/ expect = "item_end" /\ Goes(open, "next_item")
       \/ expect = "member_end" /\ Goes(open, "next_key")

TakeKey ==
    /\ Reading
    /\ expect \in {"first_key", "next_key"}
    /\ Goes(open, "colon")

TakeColon ==
    /\ Reading
    /\ expect = "colon"
    /\ Goes(open, "value")

Accept ==
    /\ Reading
    /\ expect = "end"
    /\ verdict' = "accepted"
    /\ UNCHANGED <<open, expect>>

Refuse ==
    /\ Reading
    /\ verdict' = "rejected" /\ open' = <<>> /\ expect' = "nothing"

\* The next call.
Restart ==
    /\ verdict # "reading"
    /\ open' = <<>> /\ expect' = "value" /\ verdict' = "reading"
    /\ UNCHANGED lenient

Move ==
    \/ TakeScalar \/ TakeOpening \/ TakeClosing \/ TakeComma \/ TakeKey \/ TakeColon
    \/ Accept \/ Refuse \/ Restart

Behaviour == Begin /\ [][Move]_automatonVars
=============================================================================
