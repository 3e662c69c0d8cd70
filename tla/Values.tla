------------------------------- MODULE Values -------------------------------
(***************************************************************************)
(* jsonv::value as a container that owns others (src/jsonv/value.cpp,      *)
(* array.cpp, object.cpp): copies, moves and swaps between places that may *)
(* lie inside each other, the operations of arrays and objects, node       *)
(* handles, and the access by paths.                                       *)
(*                                                                         *)
(* The program has some variables; a place is a variable with the path of  *)
(* a node below it, and stands for a value& bound before the call.  The    *)
(* outcome of a call is what it threw, "done", "undefined" where it reads  *)
(* what has been freed, after which nothing can be said, or "leaked" where *)
(* a container was put inside itself and can no longer be reached.         *)
(***************************************************************************)
EXTENDS JsonTree, Integers

CONSTANTS
    Variables,      \* the values on the program's stack
    Handles,        \* its object_node_handles
    Keys,
    Fresh,          \* values it can construct
    SizeMax,        \* the largest std::size_t, whose successor is 0
    Paths,          \* the paths it uses
    MaxNodes        \* bound: the nodes of all values

ASSUME StoresAssumption == IsFiniteSet(Variables) /\ IsFiniteSet(Handles)
ASSUME KeysAssumption == Keys \subseteq Text
ASSUME FreshAssumption == \A v \in Fresh : WellFormed(v)
ASSUME PathsAssumption == Paths \subseteq Seq(({"index"} \X (0 .. SizeMax)) \cup ({"key"} \X Text))
ASSUME BoundsAssumption == MaxNodes \in Nat /\ SizeMax \in Nat /\ SizeMax > MaxNodes

VARIABLES
    trees,      \* the values of the variables
    handles,    \* object_node_handle: has_value, key and value
    last        \* the last call: its name, outcome, place, and argument if it has one

vars == <<trees, handles, last>>

Places == {<<x, p>> : x \in Variables, p \in UNION {DOMAIN trees[y] : y \in Variables}}
Exist  == {t \in Places : t[2] \in DOMAIN trees[t[1]]}

At(t) == Sub(trees[t[1]], t[2])
With(ts, t, v) == [ts EXCEPT ![t[1]] = Graft(@, t[2], v)]

\* s is the value at t or has it inside; s and t are different values, neither in the other.
Holds(s, t) == s[1] = t[1] /\ Above(s[2], t[2])
Disjoint(s, t) == ~Holds(s, t) /\ ~Holds(t, s)

EmptyHandle == [has_value |-> FALSE, key |-> "", value |-> Null]

NodesIn(ts, hs) ==
    FoldSet(LAMBDA x, n : n + Cardinality(DOMAIN ts[x]), 0, Variables)
    + FoldSet(LAMBDA h, n : n + Cardinality(DOMAIN hs[h].value), 0, {h \in Handles : hs[h].has_value})

Ends(name, outcome, t, arg, ts) ==
    /\ NodesIn(ts, handles) <= MaxNodes
    /\ trees' = ts
    /\ last' = [name |-> name, outcome |-> outcome, at |-> t, arg |-> arg]
    /\ UNCHANGED handles

\* Mutant of Fails: a null is made of the value before its kind is checked.
FailsAfterClear(name, error, t) == Ends(name, error, t, <<>>, With(trees, t, Null))

\* A call whose checks fail before it changes anything, and at, which changes nothing.
Fails(name, error, t) == Ends(name, error, t, <<>>, trees)

Init ==
    /\ trees = [x \in Variables |-> Null]
    /\ handles = [h \in Handles |-> EmptyHandle]
    /\ last = [name |-> "none", outcome |-> "done", at |-> <<>>, arg |-> <<>>]

Goes == last.outcome # "undefined"

-----------------------------------------------------------------------------
(* Arguments passed by value: constructed before the call, so before its checks *)

Arguments == {<<"fresh", v>> : v \in Fresh} \cup ({"copy", "move"} \X Exist)

Item(arg)  == IF arg[1] = "fresh" THEN arg[2] ELSE At(arg[2])

\* Mutant of Given: a moved value is copied.
GivenByCopy(arg) == trees

\* The variables once the argument is constructed: the source of a move is null.
Given(arg) == IF arg[1] = "move" THEN With(trees, arg[2], Null) ELSE trees

\* The value at t, if it is not itself the argument or inside it.
Swallowed(arg, t) == arg[1] = "move" /\ Holds(arg[2], t) /\ arg[2] # t
Receiver(arg, t)  == Sub(Given(arg)[t[1]], t[2])

\* A call of a function of t, which must be of the kind, with an argument passed by value;
\* Done is the value of t after it.
Take(name, kind, t, arg, Done(_, _)) ==
    IF Swallowed(arg, t)
    THEN Ends(name, IF KindOf(At(t)) = kind THEN "leaked" ELSE "kind_error", t, arg, Given(arg))
    ELSE IF KindOf(Receiver(arg, t)) # kind THEN Ends(name, "kind_error", t, arg, Given(arg))
    ELSE Ends(name, "done", t, arg, With(Given(arg), t, Done(Receiver(arg, t), Item(arg))))

-----------------------------------------------------------------------------
(* value.cpp *)

\* operator=(const value&): by a copy and a swap, so the places may overlap.
CopyAssign == Goes /\ \E t, s \in Exist :
    Ends("copy_assign", "done", t, <<"copy", s>>, With(trees, t, At(s)))

\* operator=(value&&): clears the target first.  A source inside it is gone by then; a
\* target inside the source receives what it is part of.
MoveAssign == Goes /\ \E t, s \in Exist :
    LET arg == <<"move", s>>
    IN  CASE t = s -> Ends("move_assign", "done", t, arg, trees)
          [] t # s /\ Holds(t, s) -> Ends("move_assign", "undefined", t, arg, trees)
          [] t # s /\ Holds(s, t) -> Ends("move_assign", "leaked", t, arg, With(trees, s, Null))
          [] Disjoint(s, t) -> Ends("move_assign", "done", t, arg, With(With(trees, s, Null), t, At(s)))

Construct == Goes /\ \E t \in Exist, v \in Fresh :
    Ends("construct", "done", t, <<"fresh", v>>, With(trees, t, v))

Swap == Goes /\ \E t, s \in Exist :
    IF Disjoint(s, t) \/ s = t
    THEN Ends("swap", "done", t, <<"swap", s>>, With(With(trees, s, At(t)), t, At(s)))
    ELSE /\ Holds(s, t)
         /\ Ends("swap", "leaked", t, <<"swap", s>>, With(trees, s, At(t)))

Clear == Goes /\ \E t \in Exist : Ends("clear", "done", t, <<>>, With(trees, t, Null))

-----------------------------------------------------------------------------
(* array.cpp *)

Of(kind) == {t \in Exist : KindOf(At(t)) = kind}
NotOf(kind) == Exist \ Of(kind)

\* A call that changes the elements of an array.
Elementwise(name, t, Done(_)) ==
    IF t \in NotOf("array") THEN Fails(name, "kind_error", t)
    ELSE Ends(name, "done", t, <<>>, With(trees, t, ArrayOf(Done(Elements(At(t))))))

InsertedAt(v, i, item) == ArrayOf(InsertAt(Elements(v), i + 1, item))

ArrayPushBack == Goes /\ \E t \in Exist, arg \in Arguments :
    Take("push_back", "array", t, arg, LAMBDA v, item : InsertedAt(v, Size(v), item))

ArrayPushFront == Goes /\ \E t \in Exist, arg \in Arguments :
    Take("push_front", "array", t, arg, LAMBDA v, item : InsertedAt(v, 0, item))

\* insert(position, item): at a valid position.
ArrayInsert == Goes /\ \E t \in Exist, arg \in Arguments : \E i \in 0 .. Size(At(t)) :
    Take("insert", "array", t, arg, LAMBDA v, item : InsertedAt(v, i, item))

\* pop_back, pop_front
ArrayPop == Goes /\ \E t \in Exist, back \in BOOLEAN :
    IF t \in Of("array") /\ Size(At(t)) = 0 THEN Fails("pop", "logic_error", t)
    ELSE Elementwise("pop", t, LAMBDA es : IF back THEN Front(es) ELSE Tail(es))

\* erase(position), erase(first, last): a range of the array.
ArrayErase == Goes /\ \E t \in Exist : \E i, j \in 0 .. Size(At(t)) :
    /\ i <= j
    /\ Elementwise("erase", t, LAMBDA es : SubSeq(es, 1, i) \o SubSeq(es, j + 1, Len(es)))

Resized(es, n, v) == [i \in 1 .. n |-> IF i <= Len(es) THEN es[i] ELSE v]

\* resize(n, val), where val may be a reference to an element.
ArrayResize == Goes /\ \E t \in Exist, s \in Exist, n \in 0 .. 2 :
    Elementwise("resize", t, LAMBDA es : Resized(es, n, At(s)))

\* assign(n, val): of a value that the array is not itself part of, and that is gone while
\* it is being copied if it is part of the array.
ArrayAssign == Goes /\ \E t \in Exist, s \in Exist, n \in 0 .. 2 :
    /\ ~Holds(s, t)
    /\ IF t \in Of("array") /\ Holds(t, s) THEN Fails("assign", "undefined", t)
       ELSE Elementwise("assign", t, LAMBDA es : [i \in 1 .. n |-> At(s)])

\* insert(position, first, last), where the range is an array: an iterator is an index, so in
\* the same array it goes on to an element that has moved up.
Moving(es, i, n) ==
    LET after[k \in 0 .. n] == IF k = 0 THEN es ELSE InsertAt(after[k - 1], i + k, after[k - 1][k])
    IN  after[n]

ArrayInsertRange == Goes /\ \E t \in Of("array"), s \in Of("array") : \E i \in 0 .. Size(At(t)) :
    /\ Disjoint(s, t) \/ s = t
    /\ Ends("insert_range", "done", t, <<"copy", s>>,
            With(trees, t, ArrayOf(IF s = t THEN Moving(Elements(At(t)), i, Size(At(t)))
                                   ELSE SubSeq(Elements(At(t)), 1, i) \o Elements(At(s))
                                        \o SubSeq(Elements(At(t)), i + 1, Size(At(t))))))

-----------------------------------------------------------------------------
(* object.cpp *)

\* A call that changes the members of an object.
Memberwise(name, t, Done(_)) ==
    IF t \in NotOf("object") THEN Fails(name, "kind_error", t)
    ELSE Ends(name, "done", t, <<>>, With(trees, t, Done(At(t))))

\* std::map::insert
Inserted(v, k, item) == IF HasKey(v, k) THEN v ELSE PutMember(v, k, item)

\* operator[] creates what is not there.
ObjectSubscript == Goes /\ \E t \in Exist, k \in Keys :
    Memberwise("subscript", t, LAMBDA v : Inserted(v, k, Null))

\* insert of a pair, with a hint or without: the value of a key that exists is dropped.
ObjectInsert == Goes /\ \E t \in Exist, arg \in Arguments, k \in Keys :
    Take("insert_pair", "object", t, arg, LAMBDA v, item : Inserted(v, k, item))

\* erase(key), erase(position), erase(first, last): members of the object.
ObjectErase == Goes /\ \E t \in Exist, ks \in SUBSET Keys :
    Memberwise("erase_key", t, LAMBDA v : [p \in {q \in DOMAIN v : \A k \in ks : q = <<>> \/ Head(q) # Key(k)} |-> v[p]])

\* at: of an array or an object.
ArrayAt == Goes /\ \E t \in Exist, i \in {0, SizeMax} :
    Fails("at", IF t \in NotOf("array") THEN "kind_error"
                ELSE IF i < Size(At(t)) THEN "done" ELSE "out_of_range", t)
ObjectAt == Goes /\ \E t \in Exist, k \in Keys :
    Fails("at_key", IF t \in NotOf("object") THEN "kind_error"
                    ELSE IF HasKey(At(t), k) THEN "done" ELSE "out_of_range", t)

EndsWith(name, outcome, t, arg, ts, hs) ==
    /\ NodesIn(ts, hs) <= MaxNodes
    /\ trees' = ts /\ handles' = hs
    /\ last' = [name |-> name, outcome |-> outcome, at |-> t, arg |-> arg]

\* extract(key), into a new handle: one whose earlier value is gone.
Extract == Goes /\ \E t \in Exist, k \in Keys, h \in Handles :
    LET v == At(t)
    IN  /\ ~handles[h].has_value
        /\ IF t \in NotOf("object") THEN Fails("extract", "kind_error", t)
           ELSE IF ~HasKey(v, k)
           THEN EndsWith("extract", "done", t, <<"handle", h>>, trees, [handles EXCEPT ![h] = EmptyHandle])
           ELSE EndsWith("extract", "done", t, <<"handle", h>>, With(trees, t, Without(v, k)),
                         [handles EXCEPT ![h] = [has_value |-> TRUE, key |-> k, value |-> Member(v, k)]])

\* What has been moved out of a handle: it goes on saying that it has a value.
MovedFrom(handle) == [handle EXCEPT !.key = "", !.value = Null]

\* Mutant of Kept: the hinted insert moves from the handle before it looks.
KeptNever(v, handle) == MovedFrom(handle)

\* insert(hint, handle&&) moves from the handle only if its key is new.
Kept(v, handle) == IF HasKey(v, handle.key) THEN handle ELSE MovedFrom(handle)

\* insert(handle&&), and insert(hint, handle&&): the first moves from the handle in any case.
InsertHandle == Goes /\ \E t \in Exist, h \in Handles, hint \in BOOLEAN :
    LET name == IF hint THEN "insert_hint_handle" ELSE "insert_handle"
        v == At(t)
        handle == handles[h]
    IN  IF t \in NotOf("object") THEN Fails(name, "kind_error", t)
        ELSE IF ~handle.has_value THEN Fails(name, "done", t)
        ELSE EndsWith(name, "done", t, <<"handle", h>>, With(trees, t, Inserted(v, handle.key, handle.value)),
                      [handles EXCEPT ![h] = IF hint THEN Kept(v, handle) ELSE MovedFrom(handle)])

\* The move constructor and the assignment of handles: the assigned-from handle goes on
\* saying that it has a value.
MoveHandle == Goes /\ \E g, h \in Handles, construct \in BOOLEAN :
    /\ g # h
    /\ construct => ~handles[g].has_value
    /\ EndsWith("move_handle", "done", <<>>, <<"handle", h>>, trees,
                [handles EXCEPT ![g] = handles[h],
                                ![h] = [MovedFrom(handles[h]) EXCEPT !.has_value = @ /\ ~construct]])

\* The end of a handle's scope.
DropHandle == Goes /\ \E h \in Handles :
    EndsWith("drop_handle", "done", <<>>, <<"handle", h>>, trees, [handles EXCEPT ![h] = EmptyHandle])

-----------------------------------------------------------------------------
(* Paths: walk_path with what at_path, path and count_path do where it ends *)

KindFor(step) == IF step[1] = "index" THEN "array" ELSE "object"

\* Mutant of Extended: an array is not filled up to the index.
ExtendedAlone(v, step) ==
    Put(IF KindOf(v) # "null" THEN v ELSE IF step[1] = "index" THEN EmptyArray ELSE EmptyObject, step, Null)

\* value::path where the step leads nowhere: a null becomes a container; an array is resized
\* to one more than the index, in the arithmetic of std::size_t.
Extended(v, step) ==
    LET base == IF KindOf(v) # "null" THEN v
                ELSE IF step[1] = "index" THEN EmptyArray ELSE EmptyObject
    IN  IF step[1] = "key" THEN Inserted(base, step[2], Null)
        ELSE ArrayOf(Resized(Elements(base), (step[2] + 1) % (SizeMax + 1), Null))

\* The value v after the first n steps of p, and the error that has ended the walk.
Walk(v, p, create) ==
    LET walked[n \in 0 .. Len(p)] ==
            IF n = 0 THEN [tree |-> v, error |-> "done"]
            ELSE LET w == walked[n - 1]
                     here == Sub(w.tree, SubSeq(p, 1, n - 1))
                     made == IF create THEN Extended(here, p[n]) ELSE here
                 IN  IF w.error # "done" \/ <<p[n]>> \in DOMAIN here THEN w
                     ELSE IF KindOf(here) \notin {KindFor(p[n]), "null"}
                     THEN [w EXCEPT !.error = "kind_error"]
                     ELSE [tree  |-> Graft(w.tree, SubSeq(p, 1, n - 1), made),
                           error |-> IF <<p[n]>> \in DOMAIN made THEN "done" ELSE "out_of_range"]
    IN  walked[Len(p)]

\* Mutant of Made: a path is made although it is only asked for.
MadeAlways(t, p, create) == Walk(At(t), p, TRUE)

Made(t, p, create) == Walk(At(t), p, create)

\* path(p), and at_path(p), which count_path calls.
AccessPath == Goes /\ \E t \in Exist, p \in Paths, create \in BOOLEAN :
    LET made == Made(t, p, create)
    IN  Ends(IF create THEN "path" ELSE "at_path", made.error, t, <<"path", p>>, With(trees, t, made.tree))

Next ==
    \/ CopyAssign \/ MoveAssign \/ Construct \/ Swap \/ Clear
    \/ ArrayPushBack \/ ArrayPushFront \/ ArrayInsert \/ ArrayPop \/ ArrayErase
    \/ ArrayResize \/ ArrayAssign \/ ArrayInsertRange \/ ArrayAt
    \/ ObjectSubscript \/ ObjectInsert \/ ObjectErase \/ ObjectAt
    \/ Extract \/ InsertHandle \/ MoveHandle \/ DropHandle \/ AccessPath

Spec == Init /\ [][Next]_vars

-----------------------------------------------------------------------------
(* Properties *)

\* Every value, in a variable or a handle, is well-formed after any calls: arrays have no
\* holes, and members hang from objects.
ValuesStayWellFormed ==
    /\ \A x \in Variables : WellFormed(trees[x])
    /\ \A h \in Handles : WellFormed(handles[h].value) /\ handles[h].has_value \in BOOLEAN

\* What is at a place after a step.
AfterAt(t) == Sub(trees'[t[1]], t[2])

\* A call that throws leaves everything as it was: but an argument that it has moved from is
\* gone, and a path with the index whose successor is 0 has emptied the array on its way.
FailuresChangeNothing ==
    [][last'.outcome \in {"kind_error", "logic_error", "out_of_range"} =>
          LET arg == last'.arg
          IN  /\ handles' = handles
              /\ \/ trees' = trees
                 \/ arg # <<>> /\ arg[1] = "move" /\ trees' = With(trees, arg[2], Null)
                 \/ arg # <<>> /\ arg[1] = "path" /\ Index(SizeMax) \in ToSet(arg[2])]_vars

\* path(p) makes what it is asked for, from nulls alone: nothing that is there is replaced
\* or removed but nulls on the way, no node is added but empty ones, and at_path finds p
\* from then on.  at_path changes nothing, and finds just what there is.
PathMakesWhatItFinds ==
    [][last'.name \in {"path", "at_path"} /\ Index(SizeMax) \notin ToSet(last'.arg[2]) =>
          LET t == last'.at
              p == last'.arg[2]
              before == At(t)
              after == AfterAt(t)
          IN  /\ \A x \in Variables \ {t[1]} : trees'[x] = trees[x]
              /\ last'.outcome = "done" => p \in DOMAIN after
              /\ last'.name = "at_path" =>
                    /\ after = before
                    /\ last'.outcome = "done" <=> p \in DOMAIN before
              /\ \A q \in DOMAIN before : q \in DOMAIN after /\
                    (after[q] = before[q] \/ (before[q].kind = "null" /\ Above(q, p) /\ q # p))
              /\ \A q \in DOMAIN after \ DOMAIN before :
                    after[q].kind = "null" \/ (IsContainer(after[q]) /\ Above(q, p) /\ q # p)]_vars

\* The numbers in a value, those in all the values of a function, and those of the program.
NumbersIn(v) == {p \in DOMAIN v : v[p].kind = "number"}
Numbers(v) == Cardinality(NumbersIn(v))
NumbersOf(f) == Cardinality(UNION {{x} \X NumbersIn(f[x]) : x \in DOMAIN f})
All(ts, hs) == NumbersOf(ts) + NumbersOf([h \in Handles |-> hs[h].value])
NumbersNow == All(trees, handles)

Overlap(t, s) == Holds(t, s) \/ Holds(s, t)
Grew(t) == Size(AfterAt(t)) > Size(At(t))

\* A move or a swap of places that do not overlap loses and doubles nothing but the value
\* that was at the target.  Values are lost, or can no longer be relied on, only where a
\* place was moved into, swapped with or assigned from itself or a part of itself; where the
\* key was there already; and where the call has thrown with the argument in hand.
MovesKeepEverything ==
    [][LET t == last'.at
           arg == last'.arg
           by == IF arg = <<>> THEN "nothing" ELSE arg[1]
           Change(n) == NumbersNow' = NumbersNow + n
       IN  /\ last'.outcome \in {"leaked", "undefined"} /\ last'.name # "assign" => Overlap(t, arg[2])
           /\ last'.outcome = "done" /\ by = "move" =>
                 IF last'.name = "move_assign" THEN Change(IF t = arg[2] THEN 0 ELSE -Numbers(At(t)))
                 ELSE IF last'.name = "insert_pair" /\ ~Grew(t) THEN Change(-Numbers(At(arg[2])))
                 ELSE Change(0)
           /\ last'.outcome = "kind_error" /\ by = "move" => Change(-Numbers(At(arg[2])))
           /\ last'.outcome = "done" /\ by = "swap" => Change(0)
           /\ last'.outcome = "done" /\ by = "copy" /\ ~Overlap(t, arg[2]) =>
                 Change(IF last'.name = "copy_assign" THEN Numbers(At(arg[2])) - Numbers(At(t))
                        ELSE IF last'.name = "insert_pair" /\ ~Grew(t) THEN 0
                        ELSE Numbers(At(arg[2])))
           /\ last'.name \in {"extract", "insert_hint_handle"} => Change(0)
           /\ last'.name = "insert_handle" /\ last'.outcome = "done" /\ by = "handle" =>
                 Change(IF Grew(t) THEN 0 ELSE -Numbers(handles[arg[2]].value))]_vars
=============================================================================
