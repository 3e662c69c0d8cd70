------------------------------ MODULE JsonTree ------------------------------
(***************************************************************************)
(* More operators on the trees of JsonValue: the subtree at a node, a tree *)
(* with another subtree there, and the contents of arrays and objects as   *)
(* sequences and functions.  They are definitions only, shared by the      *)
(* modules that model value, the algorithms and the encoders.              *)
(***************************************************************************)
EXTENDS JsonValue, SequencesExt

\* p is a node above q, or q itself.
Above(p, q) == IsPrefix(p, q)

\* Neither place is inside the other.
Apart(p, q) == ~Above(p, q) /\ ~Above(q, p)

\* The subtree of v at its node p.
Sub(v, p) ==
    LET size == Len(p)
        below == {q \in DOMAIN v : Above(p, q)}
    IN  [r \in {SubSeq(q, size + 1, Len(q)) : q \in below} |-> v[p \o r]]

\* v with w in the place of its subtree at p.
Graft(v, p, w) ==
    LET kept == {q \in DOMAIN v : ~Above(p, q)}
    IN  [q \in kept \cup {p \o r : r \in DOMAIN w} |->
            IF q \in kept THEN v[q] ELSE w[SubSeq(q, Len(p) + 1, Len(q))]]

\* The array with the elements vs.
ArrayOf(vs) ==
    [p \in {<<>>} \cup UNION {Below(Index(i - 1), vs[i]) : i \in DOMAIN vs} |->
        IF p = <<>> THEN EmptyArray[<<>>] ELSE vs[Head(p)[2] + 1][Tail(p)]]

\* The elements of an array.
Elements(v) == [i \in 1 .. Size(v) |-> Sub(v, <<Index(i - 1)>>)]

\* The object with the members of the function f from keys to trees.
ObjectOfMap(f) ==
    [p \in {<<>>} \cup UNION {Below(Key(k), f[k]) : k \in DOMAIN f} |->
        IF p = <<>> THEN EmptyObject[<<>>] ELSE f[Head(p)[2]][Tail(p)]]

\* The keys of an object, and its members as a function.
KeysOf(v) == {s[2] : s \in Steps(v)}
MembersOf(v) == [k \in KeysOf(v) |-> Sub(v, <<Key(k)>>)]

Member(v, k) == Sub(v, <<Key(k)>>)
Element(v, i) == Sub(v, <<Index(i)>>)
Without(v, k) == [p \in {q \in DOMAIN v : q = <<>> \/ Head(q) # Key(k)} |-> v[p]]
=============================================================================
