------------------------------ MODULE MCValues ------------------------------
(***************************************************************************)
(* Model checking of Values: two variables and two node handles that share *)
(* a few nodes among them, and the paths of up to two steps.               *)
(***************************************************************************)
EXTENDS Values

Number == Leaf(Label("number", "1"))
MCFresh == {Number, EmptyArray, EmptyObject}
MCPaths == SeqOf({Index(0), Index(1), Index(SizeMax), Key("k")}, 2)

\* The view of TLC: Next reads nothing else of a state, so states that differ in how they
\* were reached are explored once.  (The action properties are checked on every step.)
Contents == <<trees, handles, Goes>>
=============================================================================
