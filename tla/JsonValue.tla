----------------------------- MODULE JsonValue -----------------------------
(***************************************************************************)
(* The data of a jsonv::value (src/include/jsonv/value.hpp, src/jsonv/     *)
(* value.cpp, array.cpp, object.cpp): a tree of null, scalars, arrays and  *)
(* objects, with the operations the parser uses on it.                     *)
(*                                                                         *)
(* A tree is a function from its nodes to their labels.  A node is the     *)
(* path that leads to it from the root: a sequence of steps, each an index *)
(* into an array or a key of an object.  Nothing here is recursive, so the *)
(* modules that use trees can be proved about.                             *)
(***************************************************************************)
EXTENDS Naturals, Sequences, FiniteSets

\* The texts of keys and scalars.  (The empty one is named for the provers, which do not
\* know of a string literal that it is in STRING.)
Text == STRING \cup {""}

\* A step from a container to one of its elements.
Index(i) == <<"index", i>>
Key(k)   == <<"key", k>>

\* The label of a node: its kind and, for a scalar, what it holds.  (A container holds what
\* is below it.)
ScalarKinds    == {"null", "string", "number", "boolean"}
ContainerKinds == {"array", "object"}
Labels == [kind : ScalarKinds, content : Text] \cup [kind : ContainerKinds, content : {""}]
Label(kind, content) == [kind |-> kind, content |-> content]

Leaf(label) == [p \in {<<>>} |-> label]

Null        == Leaf(Label("null", ""))
EmptyArray  == Leaf(Label("array", ""))
EmptyObject == Leaf(Label("object", ""))

\* value::kind() of the root.
KindOf(v) == v[<<>>].kind

IsContainer(label) == label.kind \in ContainerKinds

-----------------------------------------------------------------------------

\* The steps that leave the root: the indices or the keys in use.
Steps(v) == {p[1] : p \in {q \in DOMAIN v : Len(q) = 1}}

\* value::size() of an array or an object.
Size(v) == Cardinality(Steps(v))

\* Whether object v has key k: value::find(key) != end_object().
HasKey(v, k) == <<Key(k)>> \in DOMAIN v

\* The nodes of w, seen from a root that reaches w by step s.
Below(s, w) == {<<s>> \o q : q \in DOMAIN w}

\* v with w as its element at step s: an old element there is dropped with
\* everything below it.
Put(v, s, w) ==
    LET kept == {p \in DOMAIN v : p = <<>> \/ Head(p) # s}
    IN  [p \in kept \cup Below(s, w) |-> IF p \in kept THEN v[p] ELSE w[Tail(p)]]

\* value::push_back.
PushBack(v, w) == Put(v, Index(Size(v)), w)

\* value::insert of a key that is not there, and the assignment through the
\* iterator of one that is.
PutMember(v, k, w) == Put(v, Key(k), w)

-----------------------------------------------------------------------------

\* The type of a tree: nodes are paths, labelled.
StepSet == ({"index"} \X Nat) \cup ({"key"} \X Text)
IsTree(v) ==
    /\ DOMAIN v \subseteq Seq(StepSet) /\ IsFiniteSet(DOMAIN v)
    /\ v \in [DOMAIN v -> Labels]

\* What every value satisfies: it has a root, whatever is below the root hangs
\* from a container of the tree, arrays have the indices 0 .. size - 1 and
\* objects have keys.
Parent(p) == SubSeq(p, 1, Len(p) - 1)

WellFormed(v) ==
    /\ IsTree(v)
    /\ <<>> \in DOMAIN v
    /\ \A p \in DOMAIN v \ {<<>>} :
          /\ Parent(p) \in DOMAIN v
          /\ LET s == p[Len(p)]
                 parent == v[Parent(p)].kind
             IN  \/ parent = "object" /\ s[1] = "key"
                 \/ /\ parent = "array"
                    /\ s[1] = "index"
                    /\ s[2] > 0 => Append(Parent(p), Index(s[2] - 1)) \in DOMAIN v

\* How deep containers nest in v: 0 for a scalar.
ContainersAtDepth(v, d) == {p \in DOMAIN v : IsContainer(v[p]) /\ Len(p) + 1 = d}
=============================================================================
