------------------------------ MODULE Formats ------------------------------
(***************************************************************************)
(* jsonv::formats (src/jsonv/serialization.cpp): the graph of registries   *)
(* that extraction and serialization look their extractors and serializers *)
(* up in.                                                                  *)
(*                                                                         *)
(* A formats is a handle on a shared node (formats::data), so a copy of it *)
(* is another handle on the same node.  Nodes are numbered in the order of *)
(* their creation; the first three are the ones behind default_formats_ref *)
(* and coerce_formats_ref.  What the program holds is part of the state:   *)
(* the nodes it has handles on, and the adapters it has shared_ptrs to.    *)
(*                                                                         *)
(* Registering may fail, for a duplicate type or for lack of memory, and   *)
(* is then rolled back.                                                    *)
(***************************************************************************)
EXTENDS Naturals, Sequences, FiniteSets, FiniteSetsExt, SequencesExt

CONSTANTS
    Types,             \* the types that can be registered
    Adapters,          \* the adapter objects (an extractor or a serializer is half of one)
    Managed,           \* those that are held by shared_ptrs
    TypeOf,            \* get_type
    Strict, Coercing,  \* what create_default_formats, create_coerce_formats register
    None,              \* no adapter
    MaxNodes,          \* bound: the nodes ever created
    MaxRegistrations,  \* bound: calls that register something
    MaxFailures        \* bound: allocations that fail

TypeOfAssumption  == TypeOf \in [Adapters -> Types]
ASSUME AdaptersAssumption == None \notin Adapters /\ Managed \subseteq Adapters
                             /\ TypeOfAssumption
ASSUME StaticsAssumption ==
    {Strict, Coercing} \subseteq [Types -> (Adapters \ Managed) \cup {None}]
ASSUME BoundsAssumption == {MaxNodes, MaxRegistrations, MaxFailures} \subseteq Nat

VARIABLES
    nodes,         \* every formats::data
    global,        \* the node of global_formats_ref()
    held,          \* the nodes the program has a handle on
    kept,          \* the managed adapters the program has a shared_ptr to
    result,        \* how the last call ended; of one that throws, its duplicate_type_action
    registrations, failures

vars == <<nodes, global, held, kept, result, registrations, failures>>

RangeOf(s) == {s[i] : i \in DOMAIN s}

Maps    == {"extractors", "serializers"}
Actions == {"ignore", "replace", "exception"}

Default == 1
Coerce  == 3
Statics == {Default, 2, Coerce}

Success == [ended |-> "returned", action |-> "none"]

NoEntries == [t \in Types |-> None]
Node(roots) ==
    [roots |-> roots, extractors |-> NoEntries, serializers |-> NoEntries, owned_items |-> {}]

\* default_formats_ref, global_formats_ref and coerce_formats_ref, once they have run.
Init ==
    /\ nodes = << [Node(<<>>) EXCEPT !.extractors = Strict, !.serializers = Strict],
                  [Node(<<>>) EXCEPT !.extractors = Coercing],
                  Node(<<2, Default>>) >>
    /\ global = Default
    /\ held = {} /\ kept = Managed
    /\ result = Success
    /\ registrations = 0 /\ failures = 0

Throws(what, action) == result' = [ended |-> what, action |-> action]
Returns == result' = Success

-----------------------------------------------------------------------------
(* Lookup *)

\* Mutant of Find: the bases are searched from the right.
FindFromTheRight(map, t) ==
    LET find[n \in DOMAIN nodes] ==
            LET roots == nodes[n].roots
                hits  == {i \in DOMAIN roots : find[roots[i]] # None}
            IN  IF nodes[n][map][t] # None THEN nodes[n][map][t]
                ELSE IF hits = {} THEN None ELSE find[roots[Max(hits)]]
    IN  find

\* formats::data::find_impl, as a function of the node: what the node has itself, or
\* what the first of its roots that finds anything finds.
Find(map, t) ==
    LET find[n \in DOMAIN nodes] ==
            LET roots == nodes[n].roots
                hits  == {i \in DOMAIN roots : find[roots[i]] # None}
            IN  IF nodes[n][map][t] # None THEN nodes[n][map][t]
                ELSE IF hits = {} THEN None ELSE find[roots[Min(hits)]]
    IN  find

-----------------------------------------------------------------------------
(* Registration of adapter a in the maps of node n *)

\* insert_extractor, insert_serializer: an entry that is there is kept or replaced.
Inserted(node, maps, a, action) ==
    LET With(map) ==
            IF map \in maps /\ (node[map][TypeOf[a]] = None \/ action = "replace")
            THEN [node[map] EXCEPT ![TypeOf[a]] = a] ELSE node[map]
    IN  [node EXCEPT !.extractors = With("extractors"), !.serializers = With("serializers")]

Refuses(node, map, a, action) == action = "exception" /\ node[map][TypeOf[a]] # None

\* Mutant of Erased: the rollback is forgotten.
NotErased(node, maps, a) == node

\* The rollback: whatever entry there is for the type is erased.
Erased(node, maps, a) ==
    LET Without(map) ==
            IF map \in maps THEN [node[map] EXCEPT ![TypeOf[a]] = None] ELSE node[map]
    IN  [node EXCEPT !.extractors = Without("extractors"), !.serializers = Without("serializers")]

\* Mutant of Owning: the shared_ptr is not kept.
OwningNothing(node, a) == node

\* Mutant of Owning: a plain pointer is kept as if it were shared.
OwningEverything(node, a) == [node EXCEPT !.owned_items = @ \cup {a}]

Owning(node, a) ==
    IF a \in Managed THEN [node EXCEPT !.owned_items = @ \cup {a}] ELSE node

\* insert_adapter goes to the extractors first.
Before(map, maps) == IF map = "serializers" THEN maps \cap {"extractors"} ELSE {}

\* A call of register_extractor, register_serializer or register_adapter on a formats the
\* program has.  A managed adapter is passed as a shared_ptr, any other as a pointer.
Call(n, a) ==
    /\ n \in held
    /\ a \in Managed => a \in kept
    /\ registrations' = registrations + 1
    /\ UNCHANGED <<global, held, kept>>

Insert(n, maps, a, action) ==
    /\ Call(n, a)
    /\ \A map \in maps : ~Refuses(nodes[n], map, a, action)
    /\ nodes' = [nodes EXCEPT ![n] = Owning(Inserted(@, maps, a, action), a)]
    /\ Returns
    /\ UNCHANGED failures

\* Mutant of Undo: both maps are rolled back, whatever has been inserted.
UndoTooMuch(n, done, a, action) ==
    nodes' = [nodes EXCEPT ![n] = Erased(Inserted(@, done, a, action), Maps, a)]

\* Something goes wrong once the maps in done have been dealt with.
Undo(n, done, a, action) ==
    nodes' = [nodes EXCEPT ![n] = Erased(Inserted(@, done, a, action), done, a)]

InsertDuplicate(n, maps, a, action) ==
    /\ Call(n, a)
    /\ \E map \in maps :
          /\ Refuses(nodes[n], map, a, action)
          /\ \A before \in Before(map, maps) : ~Refuses(nodes[n], before, a, action)
          /\ Undo(n, Before(map, maps), a, action)
    /\ Throws("duplicate", action)
    /\ UNCHANGED failures

\* A new entry of a map, or the one of owned_items, cannot be allocated.
InsertNoMemory(n, maps, a, action) ==
    /\ Call(n, a)
    /\ failures < MaxFailures /\ failures' = failures + 1
    /\ \/ \E map \in maps :
             /\ nodes[n][map][TypeOf[a]] = None
             /\ \A before \in Before(map, maps) : ~Refuses(nodes[n], before, a, action)
             /\ Undo(n, Before(map, maps), a, action)
       \/ /\ a \in Managed \ nodes[n].owned_items
          /\ \A map \in maps : ~Refuses(nodes[n], map, a, action)
          /\ Undo(n, maps, a, action)
    /\ Throws("no memory", action)

\* The adapters of the program: those of the library are static objects of its functions.
Offered == Adapters \ (RangeOf(Strict) \cup RangeOf(Coercing))

Register(n, maps, a, action) ==
    \/ Insert(n, maps, a, action)
    \/ InsertDuplicate(n, maps, a, action)
    \/ InsertNoMemory(n, maps, a, action)

RegisterInAny ==
    /\ registrations < MaxRegistrations
    /\ \E n \in held, a \in Offered, maps \in (SUBSET Maps) \ {{}}, action \in Actions :
          Register(n, maps, a, action)

-----------------------------------------------------------------------------
(* The graph *)

Create(roots) ==
    /\ Len(nodes) < MaxNodes
    /\ nodes' = Append(nodes, Node(roots))
    /\ held' = held \cup {Len(nodes) + 1}
    /\ Returns
    /\ UNCHANGED <<global, kept, registrations, failures>>

\* formats::formats and formats::compose, of no, one or two bases.
Compose == \E bases \in {<<>>} \cup {<<m>> : m \in held} \cup (held \X held) : Create(bases)

\* formats::defaults, global and coerce return a new node on top of the real one.
Defaults == Create(<<Default>>)
Global   == Create(<<global>>)

\* Mutant of Coerced: returns the real one.
CoercedItself ==
    /\ held' = held \cup {Coerce}
    /\ Returns
    /\ UNCHANGED <<nodes, global, kept, registrations, failures>>

Coerced  == Create(<<Coerce>>)

\* formats::set_global and reset_global return the handle they replace.
Swap(n) ==
    /\ global' = n
    /\ held' = held \cup {global}
    /\ Returns
    /\ UNCHANGED <<nodes, kept, registrations, failures>>

SetGlobal == \E n \in held : Swap(n)
ResetGlobal == Swap(Default)

\* The program's last handle on a node, or its last shared_ptr to an adapter, goes.
DropFormats == \E n \in held :
    /\ held' = held \ {n}
    /\ Returns
    /\ UNCHANGED <<nodes, global, kept, registrations, failures>>

DropAdapter == \E a \in kept :
    /\ kept' = kept \ {a}
    /\ Returns
    /\ UNCHANGED <<nodes, global, held, registrations, failures>>

GraphNext ==
    \/ RegisterInAny
    \/ Compose \/ Defaults \/ Global \/ Coerced
    \/ SetGlobal \/ ResetGlobal
    \/ DropAdapter

Next == GraphNext \/ DropFormats

Spec == Init /\ [][Next]_vars

-----------------------------------------------------------------------------
(* Properties *)

Entries == [Types -> Adapters \cup {None}]

Nodes == [roots : Seq(Nat), extractors : Entries, serializers : Entries,
          owned_items : SUBSET Managed]

\* The types of the variables.  The roots of a node are older than it is, so there is no
\* endless loop of formats (as the comment of formats::compose says).
TypeOK ==
    /\ nodes \in Seq(Nodes) /\ Len(nodes) >= Coerce
    /\ \A n \in DOMAIN nodes : \A i \in DOMAIN nodes[n].roots : nodes[n].roots[i] \in 1 .. n - 1
    /\ global \in DOMAIN nodes /\ held \subseteq DOMAIN nodes
    /\ kept \subseteq Managed
    /\ result.ended \in {"returned", "duplicate", "no memory", "unknown types"}
    /\ registrations \in Nat /\ failures \in Nat

\* The nodes that are searched from each node, in order: the node itself, then each of its
\* roots, depth-first from left to right (the comment of formats::compose).
SearchOrder ==
    LET order[n \in DOMAIN nodes] ==
            LET roots == nodes[n].roots
            IN  <<n>> \o FlattenSeq([i \in DOMAIN roots |-> order[roots[i]]])
    IN  order

\* What the first node of the search that has an entry has.
FirstEntry(order, map, t) ==
    LET has == {i \in DOMAIN order : nodes[order[i]][map][t] # None}
    IN  IF has = {} THEN None ELSE nodes[order[Min(has)]][map][t]

\* formats::data::find_impl, which returns from its recursion at the first base that finds
\* anything, takes what the first node of the depth-first search has: so the order of the
\* bases decides, at any depth, and bases that are shared are no exception.
LookupIsDepthFirst ==
    \A n \in DOMAIN nodes :
        LET order == SearchOrder[n]
        IN  \A map \in Maps, t \in Types : Find(map, t)[n] = FirstEntry(order, map, t)

\* The nodes that are referred to: by the library, by the program, or by another one.
Live(n) ==
    LET live[m \in DOMAIN nodes] ==
            \/ m \in Statics \cup {global} \cup held
            \/ \E k \in DOMAIN nodes : k > m /\ m \in RangeOf(nodes[k].roots) /\ live[k]
    IN  live[n]

\* Adapter a has not been destroyed: a shared_ptr to it is left.
Alive(a) ==
    \/ a \notin Managed
    \/ a \in kept
    \/ \E n \in DOMAIN nodes : Live(n) /\ a \in nodes[n].owned_items

\* No lookup returns an adapter that has been destroyed, whatever failed and was rolled
\* back before and whatever handles and shared_ptrs the program has let go of.
NothingFoundIsDangling ==
    \A map \in Maps, t \in Types :
        LET find == Find(map, t)
        IN  \A n \in held \cup {global} : find[n] # None => Alive(find[n])

\* The half of it that does not depend on find_impl: a node owns the managed adapters it
\* refers to, so they live as long as it does.
EntriesAreAlive ==
    \A n \in DOMAIN nodes, map \in Maps, t \in Types :
        Live(n) /\ nodes[n][map][t] # None => Alive(nodes[n][map][t])

\* A registration that throws under the action exception has changed nothing: of the two
\* halves of an adapter none stays behind.
FailureChangesNothing ==
    [][result'.ended \in {"duplicate", "no memory"} /\ result'.action = "exception"
          => nodes' = nodes]_vars

\* What the coercing formats find: the coercing extractor of a type, and for what has none
\* whatever the defaults have at that moment.
Coercible(map, t) ==
    LET own == IF map = "extractors" THEN Coercing[t] ELSE None
    IN  IF own # None THEN own ELSE Find(map, t)[Default]

\* Each formats that formats::coerce() has returned finds what is registered in it, then what
\* the coercing formats find.  They are composed over the real defaults, so registrations
\* there (by a handle from set_global or reset_global) show through wherever there is no
\* coercing extractor; no registration anywhere, in another such formats for one, has a say.
CoerceFallsBackOnDefaults ==
    \A map \in Maps, t \in Types :
        LET find == Find(map, t)
        IN  \A n \in DOMAIN nodes :
                nodes[n].roots = <<Coerce>> =>
                    find[n] = IF nodes[n][map][t] # None THEN nodes[n][map][t]
                              ELSE Coercible(map, t)
=============================================================================
