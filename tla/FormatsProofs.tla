--------------------------- MODULE FormatsProofs ---------------------------
(***************************************************************************)
(* Theorems about Formats: its types (and with them that the graph has no  *)
(* loops), that neither a node nor a lookup refers to an adapter that has  *)
(* been destroyed, that lookup is depth-first, that a registration which   *)
(* throws under the action exception changes nothing, and what coerce()    *)
(* finds, whatever is registered where.                                    *)
(***************************************************************************)
EXTENDS FormatsBuilder, Inductions

Older(ns) == \A n \in DOMAIN ns : \A i \in DOMAIN ns[n].roots : ns[n].roots[i] \in 1 .. n - 1

\* A node owns the managed adapters of its maps.
OwnsItsAdapters(node) ==
    \A map \in Maps, t \in Types :
        node[map][t] \in Managed => node[map][t] \in node.owned_items

EveryNodeOwns == \A n \in DOMAIN nodes : OwnsItsAdapters(nodes[n])

\* The program never gets hold of the coercing formats themselves.
CoercingIsPrivate == {2, Coerce} \cap (held \cup {global}) = {}

-----------------------------------------------------------------------------
(* Registration in one node *)

\* An adapter is of a type.
LEMMA TypeOfType == ASSUME NEW a \in Adapters PROVE TypeOf[a] \in Types
  BY AdaptersAssumption DEF TypeOfAssumption

\* What is in the maps of a node after an insertion.
InsertedEntries(node, map, maps, a, action) ==
    IF map \in maps /\ (node[map][TypeOf[a]] = None \/ action = "replace")
    THEN [node[map] EXCEPT ![TypeOf[a]] = a] ELSE node[map]

\* What an insertion changes of a node.
LEMMA InsertedFields ==
  ASSUME NEW node \in Nodes, NEW maps, NEW a \in Adapters, NEW action
  PROVE  LET new == Inserted(node, maps, a, action)
         IN  /\ new \in Nodes
             /\ \A map \in Maps : new[map] = InsertedEntries(node, map, maps, a, action)
             /\ new.roots = node.roots
             /\ new.owned_items = node.owned_items
<1> DEFINE ext == InsertedEntries(node, "extractors", maps, a, action)
           ser == InsertedEntries(node, "serializers", maps, a, action)
<1>1. Inserted(node, maps, a, action) = [node EXCEPT !.extractors = ext, !.serializers = ser]
  BY DEF Inserted, InsertedEntries
<1>2. /\ node.extractors \in Entries
      /\ node.serializers \in Entries
  BY DEF Nodes
<1>3. ext \in Entries /\ ser \in Entries
  BY <1>2, TypeOfType DEF Entries, InsertedEntries
<1> HIDE DEF ext, ser
<1>4. [node EXCEPT !.extractors = ext, !.serializers = ser] \in Nodes
  BY <1>3 DEF Nodes
<1>5. /\ [node EXCEPT !.extractors = ext, !.serializers = ser].extractors = ext
      /\ [node EXCEPT !.extractors = ext, !.serializers = ser].serializers = ser
      /\ [node EXCEPT !.extractors = ext, !.serializers = ser].roots = node.roots
      /\ [node EXCEPT !.extractors = ext, !.serializers = ser].owned_items = node.owned_items
  BY DEF Nodes
<1>. QED
  BY <1>1, <1>4, <1>5 DEF Maps, ext, ser

\* What is in the maps of a node after a rollback.
ErasedEntries(node, map, maps, a) ==
    IF map \in maps THEN [node[map] EXCEPT ![TypeOf[a]] = None] ELSE node[map]

\* What erasing an entry changes of a node.
LEMMA ErasedFields ==
  ASSUME NEW node \in Nodes, NEW maps, NEW a \in Adapters
  PROVE  LET new == Erased(node, maps, a)
         IN  /\ new \in Nodes
             /\ \A map \in Maps : new[map] = ErasedEntries(node, map, maps, a)
             /\ new.roots = node.roots
             /\ new.owned_items = node.owned_items
<1> DEFINE ext == ErasedEntries(node, "extractors", maps, a)
           ser == ErasedEntries(node, "serializers", maps, a)
<1>1. Erased(node, maps, a) = [node EXCEPT !.extractors = ext, !.serializers = ser]
  BY DEF Erased, ErasedEntries
<1>2. /\ node.extractors \in Entries
      /\ node.serializers \in Entries
  BY DEF Nodes
<1>3. ext \in Entries /\ ser \in Entries
  BY <1>2, TypeOfType DEF Entries, ErasedEntries
<1> HIDE DEF ext, ser
<1>4. [node EXCEPT !.extractors = ext, !.serializers = ser] \in Nodes
  BY <1>3 DEF Nodes
<1>5. /\ [node EXCEPT !.extractors = ext, !.serializers = ser].extractors = ext
      /\ [node EXCEPT !.extractors = ext, !.serializers = ser].serializers = ser
      /\ [node EXCEPT !.extractors = ext, !.serializers = ser].roots = node.roots
      /\ [node EXCEPT !.extractors = ext, !.serializers = ser].owned_items = node.owned_items
  BY DEF Nodes
<1>. QED
  BY <1>1, <1>4, <1>5 DEF Maps, ext, ser

\* What taking over an adapter changes of a node.
LEMMA OwningFields ==
  ASSUME NEW node \in Nodes, NEW a \in Adapters
  PROVE  LET new == Owning(node, a)
         IN  /\ new \in Nodes
             /\ \A map \in Maps : new[map] = node[map]
             /\ new.roots = node.roots
             /\ new.owned_items = node.owned_items \cup ({a} \cap Managed)
  BY DEF Owning, Nodes, Maps

-----------------------------------------------------------------------------
(* A registration in node n, whether it succeeds or fails *)

\* Insertion leaves a node with an owner for each managed entry.
LEMMA InsertOwns ==
  ASSUME NEW node \in Nodes, OwnsItsAdapters(node),
         NEW maps, NEW a \in Adapters, NEW action
  PROVE  OwnsItsAdapters(Owning(Inserted(node, maps, a, action), a))
<1> DEFINE mid == Inserted(node, maps, a, action)
           new == Owning(mid, a)
<1>1. /\ mid \in Nodes /\ mid.owned_items = node.owned_items
      /\ \A map \in Maps : mid[map] = InsertedEntries(node, map, maps, a, action)
  BY InsertedFields
<1>2. /\ \A map \in Maps : new[map] = mid[map]
      /\ new.owned_items = mid.owned_items \cup ({a} \cap Managed)
  BY <1>1, OwningFields
<1>3. ASSUME NEW map \in Maps, NEW t \in Types
      PROVE  new[map][t] \in {a, node[map][t]}
  <2>1. node[map] \in Entries
    BY DEF Nodes, Maps
  <2>2. new[map] = InsertedEntries(node, map, maps, a, action)
    BY <1>1, <1>2
  <2>. QED
    BY <2>1, <2>2, TypeOfType DEF InsertedEntries, Entries
<1> HIDE DEF new, mid
<1>4. OwnsItsAdapters(new)
  BY <1>1, <1>2, <1>3 DEF OwnsItsAdapters
<1>. QED
  BY <1>4 DEF new, mid

\* What an insertion and its undoing leave of a node.
LEMMA UndoneFields ==
  ASSUME NEW node \in Nodes, NEW done, NEW a \in Adapters, NEW action
  PROVE  LET new == Erased(Inserted(node, done, a, action), done, a)
         IN  /\ new \in Nodes
             /\ new.roots = node.roots
             /\ new.owned_items = node.owned_items
             /\ \A map \in Maps, t \in Types :
                   new[map][t] = IF map \in done /\ t = TypeOf[a] THEN None ELSE node[map][t]
<1> DEFINE mid == Inserted(node, done, a, action)
           new == Erased(mid, done, a)
<1>1. /\ mid \in Nodes /\ mid.roots = node.roots /\ mid.owned_items = node.owned_items
      /\ \A map \in Maps : mid[map] = InsertedEntries(node, map, done, a, action)
  BY InsertedFields
<1>2. /\ new \in Nodes /\ new.roots = mid.roots /\ new.owned_items = mid.owned_items
      /\ \A map \in Maps : new[map] = ErasedEntries(mid, map, done, a)
  BY <1>1, ErasedFields
<1>3. ASSUME NEW map \in Maps, NEW t \in Types
      PROVE  new[map][t] = IF map \in done /\ t = TypeOf[a] THEN None ELSE node[map][t]
  <2>1. node[map] \in Entries /\ mid[map] \in Entries
    BY <1>1 DEF Nodes, Maps
  <2>2. /\ mid[map] = InsertedEntries(node, map, done, a, action)
        /\ new[map] = ErasedEntries(mid, map, done, a)
    BY <1>1, <1>2
  <2>3. map \in done => mid[map][t] = node[map][t] \/ t = TypeOf[a]
    BY <2>1, <2>2, TypeOfType DEF InsertedEntries, Entries
  <2>4. map \notin done => mid[map] = node[map] /\ new[map] = mid[map]
    BY <2>2 DEF InsertedEntries, ErasedEntries
  <2>5. map \in done => new[map][t] = IF t = TypeOf[a] THEN None ELSE mid[map][t]
    BY <2>1, <2>2, TypeOfType DEF ErasedEntries, Entries
  <2>. QED
    BY <2>3, <2>4, <2>5
<1>. QED
  BY <1>1, <1>2, <1>3

\* So does the undoing of a registration.
LEMMA UndoOwns ==
  ASSUME NEW node \in Nodes, OwnsItsAdapters(node),
         NEW done, NEW a \in Adapters, NEW action
  PROVE  OwnsItsAdapters(Erased(Inserted(node, done, a, action), done, a))
<1>1. None \notin Managed
  BY AdaptersAssumption
<1>. QED
  BY <1>1, UndoneFields DEF OwnsItsAdapters

\* The maps an insertion has changed under the action exception held nothing before, so
\* the rollback restores the node.
LEMMA UndoRestores ==
  ASSUME NEW node \in Nodes, NEW done, NEW a \in Adapters,
         \A map \in done : ~Refuses(node, map, a, "exception"), done \subseteq Maps
  PROVE  Erased(Inserted(node, done, a, "exception"), done, a) = node
<1> DEFINE new == Erased(Inserted(node, done, a, "exception"), done, a)
<1>1. /\ new \in Nodes /\ new.roots = node.roots /\ new.owned_items = node.owned_items
      /\ \A map \in Maps, t \in Types :
            new[map][t] = IF map \in done /\ t = TypeOf[a] THEN None ELSE node[map][t]
  BY UndoneFields
<1>2. \A map \in Maps, t \in Types : new[map][t] = node[map][t]
  BY <1>1 DEF Refuses
<1> HIDE DEF new
<1>3. /\ new.extractors \in Entries /\ new.serializers \in Entries
      /\ node.extractors \in Entries /\ node.serializers \in Entries
  BY <1>1 DEF Nodes
<1>4. new.extractors = node.extractors /\ new.serializers = node.serializers
  BY <1>2, <1>3 DEF Entries, Maps
<1>5. new = node
  BY <1>1, <1>4 DEF Nodes
<1>. QED
  BY <1>5 DEF new

\* What a registration does to the graph.
ChangesOnly(n) == \E new \in Nodes :
    /\ nodes' = [nodes EXCEPT ![n] = new]
    /\ new.roots = nodes[n].roots
    /\ OwnsItsAdapters(nodes[n]) => OwnsItsAdapters(new)

\* Undoing touches the entries of one type only.
LEMMA UndoChangesOnly ==
  ASSUME nodes \in Seq(Nodes), NEW n \in DOMAIN nodes, NEW done, NEW a \in Adapters, NEW action,
         Undo(n, done, a, action)
  PROVE  ChangesOnly(n)
<1>1. nodes[n] \in Nodes
  OBVIOUS
<1> DEFINE new == Erased(Inserted(nodes[n], done, a, action), done, a)
<1>2. /\ new \in Nodes /\ new.roots = nodes[n].roots
      /\ new.owned_items = nodes[n].owned_items
      /\ \A map \in Maps, t \in Types :
            new[map][t] = IF map \in done /\ t = TypeOf[a] THEN None ELSE nodes[n][map][t]
  BY <1>1, UndoneFields
<1>3. OwnsItsAdapters(nodes[n]) => OwnsItsAdapters(new)
  BY <1>1, UndoOwns
<1>4. nodes' = [nodes EXCEPT ![n] = new]
  BY DEF Undo
<1> HIDE DEF new
<1>. QED
  BY <1>2, <1>3, <1>4 DEF ChangesOnly

\* So does a registration.
LEMMA RegisterChangesOnly ==
  ASSUME nodes \in Seq(Nodes), NEW n \in DOMAIN nodes, NEW maps \in SUBSET Maps,
         NEW a \in Adapters, NEW action, Register(n, maps, a, action)
  PROVE  ChangesOnly(n)
<1>1. CASE Insert(n, maps, a, action)
  <2> DEFINE new == Owning(Inserted(nodes[n], maps, a, action), a)
  <2>1. nodes[n] \in Nodes
    OBVIOUS
  <2>2. Inserted(nodes[n], maps, a, action) \in Nodes
        /\ Inserted(nodes[n], maps, a, action).roots = nodes[n].roots
    BY <2>1, InsertedFields
  <2>3. new \in Nodes /\ new.roots = nodes[n].roots
    BY <2>2, OwningFields
  <2>4. OwnsItsAdapters(nodes[n]) => OwnsItsAdapters(new)
    BY <2>1, InsertOwns
  <2>5. nodes' = [nodes EXCEPT ![n] = new]
    BY <1>1 DEF Insert
  <2> HIDE DEF new
  <2>. QED
    BY <2>3, <2>4, <2>5 DEF ChangesOnly
<1>2. CASE InsertDuplicate(n, maps, a, action)
  <2>1. PICK map \in maps : Undo(n, Before(map, maps), a, action)
    BY <1>2 DEF InsertDuplicate
  <2>. QED
    BY <2>1, UndoChangesOnly
<1>3. CASE InsertNoMemory(n, maps, a, action)
  <2>1. \E done : Undo(n, done, a, action)
    BY <1>3 DEF InsertNoMemory
  <2>. QED
    BY <2>1, UndoChangesOnly
<1>. QED
  BY <1>1, <1>2, <1>3 DEF Register

-----------------------------------------------------------------------------
(* What the two kinds of change of the graph preserve *)

\* A change to the maps of a node keeps the graph, and what it owns.
LEMMA ChangeKeepsGraph ==
  ASSUME nodes \in Seq(Nodes), Older(nodes), NEW n \in DOMAIN nodes, ChangesOnly(n)
  PROVE  /\ nodes' \in Seq(Nodes) /\ Len(nodes') = Len(nodes)
         /\ Older(nodes')
         /\ EveryNodeOwns => EveryNodeOwns'
         /\ \A m \in DOMAIN nodes : m # n => nodes'[m] = nodes[m]
<1>1. PICK new \in Nodes : /\ nodes' = [nodes EXCEPT ![n] = new]
                           /\ new.roots = nodes[n].roots
                           /\ OwnsItsAdapters(nodes[n]) => OwnsItsAdapters(new)
  BY DEF ChangesOnly
<1>2. nodes' \in Seq(Nodes) /\ Len(nodes') = Len(nodes) /\ DOMAIN nodes' = DOMAIN nodes
  BY <1>1
<1>3. \A m \in DOMAIN nodes : nodes'[m] = IF m = n THEN new ELSE nodes[m]
  BY <1>1
<1>4. \A m \in DOMAIN nodes : nodes'[m].roots = nodes[m].roots
  BY <1>1, <1>3
<1>5. Older(nodes')
  BY <1>2, <1>4 DEF Older
<1>6. ASSUME EveryNodeOwns PROVE EveryNodeOwns'
  <2>1. \A m \in DOMAIN nodes : OwnsItsAdapters(nodes'[m])
    BY <1>1, <1>3, <1>6 DEF EveryNodeOwns
  <2>. QED
    BY <1>2, <2>1 DEF EveryNodeOwns
<1>. QED
  BY <1>2, <1>3, <1>5, <1>6

\* The node that formats::create appends.
LEMMA NewNode ==
  ASSUME NEW roots \in Seq(Nat)
  PROVE  Node(roots) \in Nodes /\ Node(roots).roots = roots /\ OwnsItsAdapters(Node(roots))
<1>1. NoEntries \in Entries
  BY DEF NoEntries, Entries
<1>2. /\ Node(roots).extractors = NoEntries /\ Node(roots).serializers = NoEntries
      /\ Node(roots).roots = roots /\ Node(roots).owned_items = {}
  BY DEF Node
<1>3. Node(roots) \in Nodes
  BY <1>1 DEF Node, Nodes
<1>4. \A map \in Maps, t \in Types : Node(roots)[map][t] = None
  BY <1>2 DEF Maps, NoEntries
<1>. QED
  BY <1>2, <1>3, <1>4, AdaptersAssumption DEF OwnsItsAdapters

\* A new node, whether the program gets a handle on it or not.
Grows(roots) ==
    /\ nodes' = Append(nodes, Node(roots))
    /\ held' = held \/ held' = held \cup {Len(nodes) + 1}
    /\ result'.ended \in {"returned", "unknown types"}
    /\ UNCHANGED <<global, kept, registrations, failures>>

\* formats::create adds a node and changes no other.
LEMMA CreateGrows == ASSUME NEW roots, Create(roots) PROVE Grows(roots)
  BY DEF Create, Grows, Returns, Success

\* A graph that grows so keeps its order.
LEMMA GrowsGraph ==
  ASSUME nodes \in Seq(Nodes), Older(nodes), NEW roots \in Seq(DOMAIN nodes), Grows(roots)
  PROVE  /\ nodes' \in Seq(Nodes) /\ Len(nodes') = Len(nodes) + 1
         /\ Older(nodes')
         /\ EveryNodeOwns => EveryNodeOwns'
         /\ \A m \in DOMAIN nodes : nodes'[m] = nodes[m]
<1>1. roots \in Seq(Nat) /\ \A i \in DOMAIN roots : roots[i] \in 1 .. Len(nodes)
  OBVIOUS
<1>2. Node(roots) \in Nodes /\ Node(roots).roots = roots /\ OwnsItsAdapters(Node(roots))
  BY <1>1, NewNode
<1>3. nodes' = Append(nodes, Node(roots))
  BY DEF Grows
<1>4. /\ nodes' \in Seq(Nodes) /\ Len(nodes') = Len(nodes) + 1
      /\ DOMAIN nodes' = 1 .. Len(nodes) + 1 /\ DOMAIN nodes = 1 .. Len(nodes)
      /\ Len(nodes) \in Nat
  BY <1>2, <1>3
<1>5. \A m \in DOMAIN nodes : nodes'[m] = nodes[m]
  BY <1>2, <1>3
<1>6. nodes'[Len(nodes) + 1] = Node(roots)
  BY <1>2, <1>3
<1>7. \A m \in DOMAIN nodes' : m \in DOMAIN nodes \/ m = Len(nodes) + 1
  BY <1>4
<1>8. Older(nodes')
  <2>1. ASSUME NEW m \in DOMAIN nodes
        PROVE \A i \in DOMAIN nodes'[m].roots : nodes'[m].roots[i] \in 1 .. m - 1
    BY <1>5 DEF Older
  <2>2. ASSUME NEW m \in DOMAIN nodes', m = Len(nodes) + 1
        PROVE  \A i \in DOMAIN nodes'[m].roots : nodes'[m].roots[i] \in 1 .. m - 1
    <3>1. nodes'[m].roots = roots
      BY <1>2, <1>6, <2>2
    <3>2. 1 .. m - 1 = 1 .. Len(nodes)
      BY <1>4, <2>2
    <3>. QED
      BY <1>1, <3>1, <3>2
  <2>. QED
    BY <1>7, <2>1, <2>2 DEF Older
<1>9. ASSUME EveryNodeOwns PROVE EveryNodeOwns'
  <2>1. \A m \in DOMAIN nodes' : OwnsItsAdapters(nodes'[m])
    BY <1>2, <1>5, <1>6, <1>7, <1>9 DEF EveryNodeOwns
  <2>. QED
    BY <2>1 DEF EveryNodeOwns
<1>. QED
  BY <1>4, <1>5, <1>8, <1>9

-----------------------------------------------------------------------------
(* The invariant *)

Inv == TypeOK /\ EveryNodeOwns /\ CoercingIsPrivate

\* The static formats, before the program registers anything.
LEMMA StaticsFacts ==
  /\ Strict \in Entries /\ Coercing \in Entries
  /\ \A t \in Types : Strict[t] \notin Managed /\ Coercing[t] \notin Managed
<1>1. /\ Strict \in [Types -> (Adapters \ Managed) \cup {None}]
      /\ Coercing \in [Types -> (Adapters \ Managed) \cup {None}]
  BY StaticsAssumption
<1>2. None \notin Managed
  BY AdaptersAssumption
<1>. QED
  BY <1>1, <1>2 DEF Entries

\* The invariant holds at first.
LEMMA InitInv == Init => Inv
<1> SUFFICES ASSUME Init PROVE Inv
  OBVIOUS
<1> DEFINE strict   == [Node(<<>>) EXCEPT !.extractors = Strict, !.serializers = Strict]
           coercing == [Node(<<>>) EXCEPT !.extractors = Coercing]
           coerce   == Node(<<2, Default>>)
<1>1. nodes = <<strict, coercing, coerce>>
  BY DEF Init
<1>2. <<>> \in Seq(Nat) /\ <<2, Default>> \in Seq(Nat)
  BY DEF Default
<1>3. Node(<<>>) \in Nodes /\ Node(<<>>).roots = <<>>
  BY <1>2, NewNode
<1>4. coerce \in Nodes /\ coerce.roots = <<2, Default>> /\ OwnsItsAdapters(coerce)
  BY <1>2, NewNode
<1>5. NoEntries \in Entries /\ \A t \in Types : NoEntries[t] = None
  BY DEF NoEntries, Entries
<1>6. /\ strict \in Nodes /\ strict.roots = <<>>
      /\ strict.extractors = Strict /\ strict.serializers = Strict
  BY <1>3, StaticsFacts DEF Nodes
<1>7. /\ coercing \in Nodes /\ coercing.roots = <<>>
      /\ coercing.extractors = Coercing /\ coercing.serializers = NoEntries
  BY <1>3, StaticsFacts DEF Nodes, Node
<1>8. OwnsItsAdapters(strict)
  <2>1. ASSUME NEW map \in Maps, NEW t \in Types PROVE strict[map][t] \notin Managed
    BY <1>6, StaticsFacts DEF Maps
  <2> HIDE DEF strict
  <2>. QED
    BY <2>1 DEF OwnsItsAdapters
<1>9. OwnsItsAdapters(coercing)
  <2>1. None \notin Managed
    BY AdaptersAssumption
  <2>2. ASSUME NEW map \in Maps, NEW t \in Types PROVE coercing[map][t] \notin Managed
    BY <2>1, <1>5, <1>7, StaticsFacts DEF Maps
  <2> HIDE DEF coercing
  <2>. QED
    BY <2>2 DEF OwnsItsAdapters
<1> HIDE DEF strict, coercing, coerce
<1>10. /\ nodes \in Seq(Nodes) /\ Len(nodes) = 3 /\ DOMAIN nodes = {1, 2, 3}
       /\ nodes[1] = strict /\ nodes[2] = coercing /\ nodes[3] = coerce
  BY <1>1, <1>4, <1>6, <1>7
<1>11. \A n \in DOMAIN nodes : \A i \in DOMAIN nodes[n].roots : nodes[n].roots[i] \in 1 .. n - 1
  <2>1. \A i \in DOMAIN coerce.roots : coerce.roots[i] \in 1 .. 2
    BY <1>4 DEF Default
  <2>. QED
    BY <1>6, <1>7, <1>10, <2>1
<1>12. TypeOK
  BY <1>10, <1>11, BoundsAssumption DEF Init, TypeOK, Coerce, Default, Success
<1>13. EveryNodeOwns
  BY <1>4, <1>8, <1>9, <1>10 DEF EveryNodeOwns
<1>14. CoercingIsPrivate
  BY DEF Init, CoercingIsPrivate, Coerce, Default
<1>. QED
  BY <1>12, <1>13, <1>14 DEF Inv

\* What the invariant says of a node.
LEMMA InvFacts ==
  ASSUME Inv
  PROVE  /\ nodes \in Seq(Nodes) /\ Older(nodes)
         /\ Len(nodes) \in Nat /\ Len(nodes) >= 3 /\ DOMAIN nodes = 1 .. Len(nodes)
         /\ {1, 2, 3} \subseteq DOMAIN nodes
         /\ global \in DOMAIN nodes /\ held \subseteq DOMAIN nodes
         /\ 2 \notin held \cup {global} /\ 3 \notin held \cup {global}
<1>1. nodes \in Seq(Nodes) /\ Len(nodes) >= 3 /\ global \in DOMAIN nodes
        /\ held \subseteq DOMAIN nodes
  BY DEF Inv, TypeOK, Coerce
<1>2. Older(nodes)
  BY DEF Inv, TypeOK, Older
<1>3. Len(nodes) \in Nat /\ DOMAIN nodes = 1 .. Len(nodes)
  BY <1>1
<1>4. {1, 2, 3} \subseteq 1 .. Len(nodes)
  BY <1>1, <1>3
<1>5. 2 \notin held \cup {global} /\ 3 \notin held \cup {global}
  BY DEF Inv, CoercingIsPrivate, Coerce
<1>. QED
  BY <1>1, <1>2, <1>3, <1>4, <1>5

\* What a registration that throws leaves behind.
LEMMA ThrownFields ==
  ASSUME NEW what, NEW action, Throws(what, action)
  PROVE  result'.ended = what /\ result'.action = action
  BY DEF Throws

\* Registration keeps the invariant.
LEMMA RegisterInv == Inv /\ RegisterInAny => Inv'
<1> SUFFICES ASSUME Inv, RegisterInAny PROVE Inv'
  OBVIOUS
<1>1. PICK n \in held, a \in Offered, maps \in (SUBSET Maps) \ {{}}, action \in Actions :
         Register(n, maps, a, action)
  BY DEF RegisterInAny
<1>2. n \in DOMAIN nodes /\ a \in Adapters /\ maps \in SUBSET Maps
      /\ nodes \in Seq(Nodes) /\ Older(nodes)
  BY InvFacts DEF Offered
<1>3. ChangesOnly(n)
  BY <1>1, <1>2, RegisterChangesOnly
<1>4. nodes' \in Seq(Nodes) /\ Len(nodes') = Len(nodes) /\ Older(nodes')
      /\ (EveryNodeOwns => EveryNodeOwns')
  BY <1>2, <1>3, ChangeKeepsGraph
<1>5. Call(n, a)
  BY <1>1 DEF Register, Insert, InsertDuplicate, InsertNoMemory
<1>6. result'.ended \in {"returned", "duplicate", "no memory", "unknown types"}
  <2>1. result' = Success \/ Throws("duplicate", action) \/ Throws("no memory", action)
    BY <1>1 DEF Register, Insert, InsertDuplicate, InsertNoMemory, Returns
  <2>2. Success.ended = "returned"
    BY DEF Success
  <2>. QED
    BY <2>1, <2>2, ThrownFields
<1>7. failures' \in Nat
  <2>1. failures \in Nat
    BY DEF Inv, TypeOK
  <2>2. failures' = failures \/ failures' = failures + 1
    BY <1>1, Zenon DEF Register, Insert, InsertDuplicate, InsertNoMemory
  <2>. QED
    BY <2>1, <2>2
<1>8. TypeOK'
  <2>1. DOMAIN nodes' = DOMAIN nodes
    BY <1>2, <1>4
  <2>2. /\ global' \in DOMAIN nodes' /\ held' \subseteq DOMAIN nodes'
        /\ Len(nodes') >= Coerce
    BY <1>4, <1>5, <2>1, InvFacts DEF Call, Coerce
  <2>3. kept' \subseteq Managed /\ registrations' \in Nat
    <3>1. kept \subseteq Managed /\ registrations \in Nat
      BY DEF Inv, TypeOK
    <3>2. kept' = kept /\ registrations' = registrations + 1
      BY <1>5 DEF Call
    <3>. QED
      BY <3>1, <3>2
  <2>. QED
    BY <1>4, <1>6, <1>7, <2>2, <2>3 DEF TypeOK, Older
<1>9. CoercingIsPrivate'
  BY <1>5 DEF Inv, CoercingIsPrivate, Call
<1>. QED
  BY <1>4, <1>8, <1>9 DEF Inv

\* So does a new node.
LEMMA GrowsInv ==
  ASSUME Inv, NEW roots \in Seq(DOMAIN nodes), Grows(roots)
  PROVE  Inv'
<1>1. nodes \in Seq(Nodes) /\ Older(nodes) /\ Len(nodes) \in Nat /\ Len(nodes) >= 3
  BY InvFacts
<1>2. /\ nodes' \in Seq(Nodes) /\ Len(nodes') = Len(nodes) + 1
      /\ Older(nodes') /\ (EveryNodeOwns => EveryNodeOwns')
  BY <1>1, GrowsGraph
<1>3. DOMAIN nodes \subseteq DOMAIN nodes' /\ Len(nodes) + 1 \in DOMAIN nodes'
      /\ Len(nodes') >= 3
  BY <1>1, <1>2
<1>4. TypeOK'
  <2>1. /\ global' \in DOMAIN nodes' /\ held' \subseteq DOMAIN nodes'
        /\ Len(nodes') >= Coerce
    BY <1>3, InvFacts DEF Grows, Coerce
  <2>2. /\ kept' \subseteq Managed /\ registrations' \in Nat /\ failures' \in Nat
        /\ result'.ended \in {"returned", "unknown types"}
    BY DEF Grows, Inv, TypeOK
  <2>. QED
    BY <1>2, <2>1, <2>2 DEF TypeOK, Older
<1>5. CoercingIsPrivate'
  <2>1. held' \subseteq held \cup {Len(nodes) + 1} /\ global' = global
    BY DEF Grows
  <2>2. Len(nodes) + 1 # 2 /\ Len(nodes) + 1 # 3
    BY <1>1
  <2>. QED
    BY <2>1, <2>2, InvFacts DEF CoercingIsPrivate, Coerce
<1>. QED
  BY <1>2, <1>4, <1>5 DEF Inv

\* The sequences of at most two roots.
LEMMA ShortSequences ==
  ASSUME NEW S, NEW x \in S, NEW y \in S
  PROVE  <<>> \in Seq(S) /\ <<x>> \in Seq(S) /\ <<x, y>> \in Seq(S)
  OBVIOUS

\* Whatever the program calls but the registrations, it creates a node or leaves them all
\* as they are.
LEMMA GraphStep ==
  ASSUME Inv, Compose \/ Defaults \/ Global \/ Coerced
  PROVE  \E roots \in Seq(DOMAIN nodes) : Grows(roots)
<1>. SUFFICES \E roots \in Seq(DOMAIN nodes) : Create(roots)
  BY CreateGrows
<1>1. /\ held \subseteq DOMAIN nodes /\ global \in DOMAIN nodes
      /\ {Default, Coerce} \subseteq DOMAIN nodes
  BY InvFacts DEF Default, Coerce
<1>2. CASE Compose
  <2>1. PICK bases \in {<<>>} \cup {<<m>> : m \in held} \cup (held \X held) : Create(bases)
    BY <1>2 DEF Compose
  <2>2. bases \in Seq(DOMAIN nodes)
    <3> DEFINE S == DOMAIN nodes
    <3>1. held \subseteq S /\ Default \in S
      BY <1>1
    <3> HIDE DEF S
    <3>2. CASE bases = <<>>
      BY <3>1, <3>2, ShortSequences DEF S
    <3>3. CASE \E m \in held : bases = <<m>>
      BY <3>1, <3>3, ShortSequences DEF S
    <3>4. CASE bases \in held \X held
      <4>1. PICK x \in held, y \in held : bases = <<x, y>>
        BY <3>4
      <4>. QED
        BY <3>1, <4>1, ShortSequences DEF S
    <3>. QED
      BY <2>1, <3>2, <3>3, <3>4
  <2>. QED
    BY <2>1, <2>2
<1>3. CASE Defaults
  BY <1>1, <1>3, ShortSequences DEF Defaults
<1>4. CASE Global
  BY <1>1, <1>4, ShortSequences DEF Global
<1>5. CASE Coerced
  BY <1>1, <1>5, ShortSequences DEF Coerced
<1>. QED
  BY <1>2, <1>3, <1>4, <1>5

\* Every step keeps the invariant.
LEMMA StepInv == Inv /\ [Next]_vars => Inv'
<1> SUFFICES ASSUME Inv, [Next]_vars PROVE Inv'
  OBVIOUS
<1>1. CASE RegisterInAny
  BY <1>1, RegisterInv
<1>2. CASE Compose \/ Defaults \/ Global \/ Coerced
  BY <1>2, GraphStep, GrowsInv
<1>3. CASE SetGlobal \/ ResetGlobal
  <2>1. PICK n \in held \cup {Default} : Swap(n)
    BY <1>3 DEF SetGlobal, ResetGlobal
  <2>2. n \in DOMAIN nodes /\ n \notin {2, Coerce}
    BY InvFacts DEF Default, Coerce
  <2>3. TypeOK'
    <3>1. /\ nodes' = nodes /\ global' = n /\ held' = held \cup {global}
          /\ UNCHANGED <<kept, registrations, failures>> /\ result' = Success
      BY <2>1 DEF Swap, Returns
    <3>. QED
      BY <2>2, <3>1 DEF Inv, TypeOK, Success
  <2>4. CoercingIsPrivate'
    BY <2>1, <2>2 DEF Swap, Inv, CoercingIsPrivate
  <2>5. EveryNodeOwns'
    BY <2>1 DEF Swap, Inv, EveryNodeOwns
  <2>. QED
    BY <2>3, <2>4, <2>5 DEF Inv
<1>4. CASE DropFormats \/ DropAdapter
  <2>1. /\ nodes' = nodes /\ global' = global /\ held' \subseteq held /\ kept' \subseteq kept
        /\ registrations' = registrations /\ failures' = failures
    BY <1>4 DEF DropFormats, DropAdapter
  <2>2. result' = Success
    BY <1>4 DEF DropFormats, DropAdapter, Returns
  <2>3. TypeOK'
    BY <2>1, <2>2 DEF Inv, TypeOK, Success
  <2>4. CoercingIsPrivate'
    BY <2>1 DEF Inv, CoercingIsPrivate
  <2>5. EveryNodeOwns'
    BY <2>1 DEF Inv, EveryNodeOwns
  <2>. QED
    BY <2>3, <2>4, <2>5 DEF Inv
<1>5. CASE UNCHANGED vars
  BY <1>5 DEF vars, Inv, TypeOK, CoercingIsPrivate, EveryNodeOwns
<1>. QED
  BY <1>1, <1>2, <1>3, <1>4, <1>5 DEF Next, GraphNext

\* The invariant always holds.
LEMMA Invariance == Spec => []Inv
  BY InitInv, StepInv, PTL DEF Spec

-----------------------------------------------------------------------------
(* Lookup.  Find and Live are recursive in the graph; as it has no loops they are, at *)
(* every node, what their definitions say.                                            *)

\* What find_impl returns at node n, from what it returns at the roots of n.
FoundAt(find, map, t, n) ==
    LET roots == nodes[n].roots
        hits  == {i \in DOMAIN roots : find[roots[i]] # None}
    IN  IF nodes[n][map][t] # None THEN nodes[n][map][t]
        ELSE IF hits = {} THEN None ELSE find[roots[Min(hits)]]

\* The least element of a set of numbers is one.
LEMMA MinIsLeast ==
  ASSUME NEW S \in SUBSET Nat, S # {}
  PROVE  Min(S) \in S /\ \A k \in S : Min(S) <= k
  BY LeastElement DEF Min

\* The recursion of formats::data::find is well-founded, and goes to the roots in order.
LEMMA FindIsRight ==
  ASSUME nodes \in Seq(Nodes), Older(nodes), NEW map \in Maps, NEW t \in Types
  PROVE  /\ Find(map, t) \in [DOMAIN nodes -> Adapters \cup {None}]
         /\ \A n \in DOMAIN nodes : Find(map, t)[n] = FoundAt(Find(map, t), map, t, n)
<1>. DEFINE D == DOMAIN nodes
            R == Adapters \cup {None}
            rank == [n \in D |-> n]
            h == [p \in D \X [D -> R] |-> FoundAt(p[2], map, t, p[1])]
            Defines(g) == g = [n \in D |-> FoundAt(g, map, t, n)]
<1>1. /\ D = 1 .. Len(nodes) /\ Len(nodes) \in Nat
      /\ \A n \in D : nodes[n][map][t] \in R
      /\ \A n \in D : /\ DOMAIN nodes[n].roots \in SUBSET Nat
                      /\ \A i \in DOMAIN nodes[n].roots :
                            nodes[n].roots[i] \in D /\ nodes[n].roots[i] < n
  <2>1. D = 1 .. Len(nodes) /\ Len(nodes) \in Nat /\ \A n \in D : nodes[n] \in Nodes
    OBVIOUS
  <2>2. \A n \in D : nodes[n].roots \in Seq(Nat) /\ nodes[n][map] \in Entries
    BY <2>1 DEF Nodes, Maps
  <2>3. \A n \in D : \A i \in DOMAIN nodes[n].roots :
           nodes[n].roots[i] \in D /\ nodes[n].roots[i] < n
    BY <2>1, <2>2 DEF Older
  <2>. QED
    BY <2>1, <2>2, <2>3 DEF Entries
<1>. HIDE DEF D
<1>2. ASSUME NEW n \in D, NEW g, \A m \in D : m < n => g[m] \in R
      PROVE  FoundAt(g, map, t, n) \in R
  <2>. DEFINE hits == {i \in DOMAIN nodes[n].roots : g[nodes[n].roots[i]] # None}
  <2>1. hits \in SUBSET Nat
    BY <1>1
  <2>2. hits # {} => Min(hits) \in DOMAIN nodes[n].roots
    BY <2>1, MinIsLeast
  <2>3. hits # {} => g[nodes[n].roots[Min(hits)]] \in R
    <3>. HIDE DEF hits, R
    <3>. QED
      BY <1>1, <1>2, <2>2
  <2>. HIDE DEF hits
  <2>4. FoundAt(g, map, t, n) = IF nodes[n][map][t] # None THEN nodes[n][map][t]
                                ELSE IF hits = {} THEN None ELSE g[nodes[n].roots[Min(hits)]]
    BY DEF FoundAt, hits
  <2>. QED
    BY <1>1, <2>3, <2>4
<1>3. h \in [D \X [D -> R] -> R]
  BY <1>2
<1>4. ASSUME NEW n \in D, NEW f \in [D -> R], NEW g \in [D -> R],
             \A m \in D : m < n => f[m] = g[m]
      PROVE  FoundAt(f, map, t, n) = FoundAt(g, map, t, n)
  <2>. DEFINE hitsF == {i \in DOMAIN nodes[n].roots : f[nodes[n].roots[i]] # None}
              hitsG == {i \in DOMAIN nodes[n].roots : g[nodes[n].roots[i]] # None}
  <2>1. \A i \in DOMAIN nodes[n].roots : f[nodes[n].roots[i]] = g[nodes[n].roots[i]]
    BY <1>1, <1>4
  <2>2. hitsF = hitsG /\ hitsF \in SUBSET Nat
    BY <1>1, <2>1
  <2>3. hitsF # {} => Min(hitsF) \in DOMAIN nodes[n].roots
    BY <2>2, MinIsLeast
  <2>4. hitsF # {} => f[nodes[n].roots[Min(hitsF)]] = g[nodes[n].roots[Min(hitsG)]]
    <3>. HIDE DEF hitsF, hitsG
    <3>. QED
      BY <2>1, <2>2, <2>3
  <2>5. /\ FoundAt(f, map, t, n) = IF nodes[n][map][t] # None THEN nodes[n][map][t]
              ELSE IF hitsF = {} THEN None ELSE f[nodes[n].roots[Min(hitsF)]]
        /\ FoundAt(g, map, t, n) = IF nodes[n][map][t] # None THEN nodes[n][map][t]
              ELSE IF hitsG = {} THEN None ELSE g[nodes[n].roots[Min(hitsG)]]
    BY DEF FoundAt
  <2>. HIDE DEF hitsF, hitsG
  <2>. QED
    BY <2>2, <2>4, <2>5
<1>5. \E f \in [D -> R] : Solves(f, D, h)
  <2>1. rank \in [D -> 0 .. Len(nodes)] /\ \A n \in D : rank[n] = n
    BY <1>1
  <2>2. ASSUME NEW n \in D, NEW f \in [D -> R], NEW g \in [D -> R],
               \A m \in D : rank[m] < rank[n] => f[m] = g[m]
        PROVE  h[<<n, f>>] = h[<<n, g>>]
    <3>1. \A m \in D : m < n => f[m] = g[m]
      BY <2>1, <2>2
    <3>. QED
      BY <1>4, <3>1
  <2>3. None \in R /\ Len(nodes) \in Nat
    BY <1>1
  <2>4. LooksBelow(D, R, rank, h)
    <3>. HIDE DEF rank, h, R
    <3>. QED
      BY <2>2 DEF LooksBelow
  <2>. HIDE DEF rank, h, R
  <2>. QED
    BY <1>3, <2>1, <2>3, <2>4, RecursionByRank
<1>6. \E f \in [D -> R] : Defines(f)
  <2>1. PICK f \in [D -> R] : \A n \in D : f[n] = h[<<n, f>>]
    BY <1>5 DEF Solves
  <2>2. \A n \in D : f[n] = FoundAt(f, map, t, n)
    BY <2>1
  <2>. QED
    BY <2>2
<1>7. Find(map, t) = CHOOSE g : Defines(g)
  BY DEF Find, FoundAt, D
<1>8. Defines(Find(map, t))
  <2>. HIDE DEF Defines
  <2>. QED
    BY <1>6, <1>7
<1>9. \A n \in D : Find(map, t)[n] \in R
  <2>. DEFINE S == {n \in D : Find(map, t)[n] \in R}
  <2>1. ASSUME NEW n \in D, \A m \in D : m < n => m \in S PROVE n \in S
    <3>1. \A m \in D : m < n => Find(map, t)[m] \in R
      BY <2>1
    <3>2. FoundAt(Find(map, t), map, t, n) \in R
      <4>. HIDE DEF R
      <4>. QED
        BY <1>2, <3>1
    <3>. QED
      BY <1>8, <3>2
  <2>2. D \in SUBSET Nat
    BY <1>1
  <2>3. D \subseteq S
    <3>. HIDE DEF S
    <3>. QED
      BY <2>1, <2>2, InductionBelow
  <2>. QED
    BY <2>3
<1>10. Find(map, t) \in [D -> R]
  <2>. HIDE DEF R
  <2>. QED
    BY <1>8, <1>9
<1>. QED
  BY <1>8, <1>10 DEF D

\* What a lookup finds is an entry of the node, or what is found at one of its roots.
LookupIsRight ==
    \A map \in Maps, t \in Types, n \in DOMAIN nodes :
        \/ nodes[n][map][t] # None /\ Find(map, t)[n] = nodes[n][map][t]
        \/ /\ nodes[n][map][t] = None
           /\ \E r \in RangeOf(nodes[n].roots) \cap DOMAIN nodes :
                 r < n /\ Find(map, t)[r] # None /\ Find(map, t)[n] = Find(map, t)[r]
        \/ /\ nodes[n][map][t] = None
           /\ \A r \in RangeOf(nodes[n].roots) : Find(map, t)[r] = None
           /\ Find(map, t)[n] = None

\* So every lookup does what its definition says.
LEMMA LookupRight == TypeOK => LookupIsRight
<1>. SUFFICES ASSUME TypeOK, NEW map \in Maps, NEW t \in Types, NEW n \in DOMAIN nodes
              PROVE  \/ nodes[n][map][t] # None /\ Find(map, t)[n] = nodes[n][map][t]
                     \/ /\ nodes[n][map][t] = None
                        /\ \E r \in RangeOf(nodes[n].roots) \cap DOMAIN nodes :
                              /\ r < n /\ Find(map, t)[r] # None
                              /\ Find(map, t)[n] = Find(map, t)[r]
                     \/ /\ nodes[n][map][t] = None
                        /\ \A r \in RangeOf(nodes[n].roots) : Find(map, t)[r] = None
                        /\ Find(map, t)[n] = None
  BY DEF LookupIsRight
<1>. DEFINE find == Find(map, t)
            roots == nodes[n].roots
            hits == {i \in DOMAIN roots : find[roots[i]] # None}
<1>1. nodes \in Seq(Nodes) /\ Older(nodes)
  BY DEF TypeOK, Older
<1>2. find[n] = FoundAt(find, map, t, n)
  BY <1>1, FindIsRight
<1>3. /\ DOMAIN nodes = 1 .. Len(nodes) /\ Len(nodes) \in Nat
      /\ DOMAIN roots \in SUBSET Nat
      /\ \A i \in DOMAIN roots : roots[i] \in DOMAIN nodes /\ roots[i] < n
  <2>1. nodes[n] \in Nodes /\ DOMAIN nodes = 1 .. Len(nodes) /\ Len(nodes) \in Nat
    BY <1>1
  <2>2. roots \in Seq(Nat)
    BY <2>1 DEF Nodes
  <2>. QED
    BY <1>1, <2>1, <2>2 DEF Older
<1>4. \A r : r \in RangeOf(roots) <=> \E i \in DOMAIN roots : r = roots[i]
  BY DEF RangeOf
<1>5. find[n] = IF nodes[n][map][t] # None THEN nodes[n][map][t]
                ELSE IF hits = {} THEN None ELSE find[roots[Min(hits)]]
  BY <1>2 DEF FoundAt
<1>. HIDE DEF find, roots
<1>6. CASE nodes[n][map][t] # None
  BY <1>5, <1>6 DEF find
<1>7. CASE nodes[n][map][t] = None /\ hits = {}
  BY <1>4, <1>5, <1>7 DEF find, roots
<1>8. CASE nodes[n][map][t] = None /\ hits # {}
  <2>1. Min(hits) \in hits
    BY <1>3, <1>8, MinIsLeast
  <2>2. PICK i \in DOMAIN roots : find[roots[i]] # None /\ find[n] = find[roots[i]]
    BY <1>5, <1>8, <2>1
  <2>3. roots[i] \in RangeOf(roots) \cap DOMAIN nodes /\ roots[i] < n
    BY <1>3, <1>4
  <2>. QED
    BY <1>8, <2>2, <2>3 DEF find, roots
<1>. QED
  BY <1>6, <1>7, <1>8

\* What is referred to: from outside the graph, or by a newer node that is.
LiveAt(live, m) ==
    \/ m \in Statics \cup {global} \cup held
    \/ \E k \in DOMAIN nodes : k > m /\ m \in RangeOf(nodes[k].roots) /\ live[k]

LiveIsRight ==
    \A n \in DOMAIN nodes :
        /\ n \in Statics \cup {global} \cup held => Live(n)
        /\ Live(n) => \A r \in RangeOf(nodes[n].roots) \cap DOMAIN nodes : r < n => Live(r)

\* What Live says follows from its recursion, newest node first.
LEMMA LiveRight == TypeOK => LiveIsRight
<1>. SUFFICES ASSUME TypeOK PROVE LiveIsRight
  OBVIOUS
<1>. DEFINE D == DOMAIN nodes
            rank == [n \in D |-> Len(nodes) - n]
            h == [p \in D \X [D -> BOOLEAN] |-> LiveAt(p[2], p[1])]
            Defines(g) == g = [n \in D |-> LiveAt(g, n)]
            theLive == CHOOSE g : Defines(g)
<1>1. D = 1 .. Len(nodes) /\ Len(nodes) \in Nat
  <2>1. nodes \in Seq(Nodes)
    BY DEF TypeOK
  <2>. QED
    BY <2>1
<1>. HIDE DEF D
<1>2. h \in [D \X [D -> BOOLEAN] -> BOOLEAN]
  BY DEF LiveAt
<1>3. rank \in [D -> 0 .. Len(nodes)] /\ \A n \in D : rank[n] = Len(nodes) - n
  BY <1>1
<1>4. LooksBelow(D, BOOLEAN, rank, h)
  <2>1. SUFFICES ASSUME NEW n \in D, NEW f \in [D -> BOOLEAN], NEW g \in [D -> BOOLEAN],
                        \A m \in D : rank[m] < rank[n] => f[m] = g[m]
                 PROVE  h[<<n, f>>] = h[<<n, g>>]
    BY DEF LooksBelow
  <2>2. \A m \in D : m > n => f[m] = g[m]
    BY <1>1, <1>3, <2>1
  <2>3. LiveAt(f, n) = LiveAt(g, n)
    BY <2>2 DEF LiveAt, D
  <2>. QED
    BY <2>3
<1>5. PICK f \in [D -> BOOLEAN] : Solves(f, D, h)
  <2>. HIDE DEF rank, h
  <2>. QED
    BY <1>1, <1>2, <1>3, <1>4, RecursionByRank
<1>6. Defines(f)
  BY <1>5 DEF Solves
<1>7. Defines(theLive)
  <2>. HIDE DEF Defines
  <2>. QED
    BY <1>6
<1>8. \A n \in D : Live(n) <=> theLive[n]
  BY DEF Live, LiveAt, D
<1>. HIDE DEF theLive
<1>9. \A n \in D : Live(n) <=> LiveAt(theLive, n)
  BY <1>7, <1>8
<1>. QED
  BY <1>8, <1>9 DEF LiveIsRight, LiveAt, D

-----------------------------------------------------------------------------
(* The order of lookup *)

\* x is what a family g of findings, ordered by its indices, begins with: the first that is
\* not None, or None if all are.
Leads(x, g) ==
    \/ x = None /\ \A i \in DOMAIN g : g[i] = None
    \/ /\ x # None
       /\ \E i \in DOMAIN g : g[i] = x /\ \A j \in DOMAIN g : j < i => g[j] = None

\* A family of findings begins with one thing only.
LEMMA OneLeads ==
  ASSUME NEW g, DOMAIN g \in SUBSET Nat, NEW x, NEW y, Leads(x, g), Leads(y, g)
  PROVE  x = y
<1>1. CASE x = None \/ y = None
  BY <1>1 DEF Leads
<1>2. CASE x # None /\ y # None
  <2>1. PICK i \in DOMAIN g : g[i] = x /\ \A k \in DOMAIN g : k < i => g[k] = None
    BY <1>2 DEF Leads
  <2>2. PICK j \in DOMAIN g : g[j] = y /\ \A k \in DOMAIN g : k < j => g[k] = None
    BY <1>2 DEF Leads
  <2>3. i \in Nat /\ j \in Nat /\ ~(i < j) /\ ~(j < i)
    BY <1>2, <2>1, <2>2
  <2>. QED
    BY <2>1, <2>2, <2>3
<1>. QED
  BY <1>1, <1>2

\* The least index with a finding leads to what leads.
LEMMA LeastLeads ==
  ASSUME NEW g, DOMAIN g \in SUBSET Nat
  PROVE  LET hits == {i \in DOMAIN g : g[i] # None}
         IN  Leads(IF hits = {} THEN None ELSE g[Min(hits)], g)
<1>. DEFINE hits == {i \in DOMAIN g : g[i] # None}
<1>1. CASE hits = {}
  BY <1>1 DEF Leads
<1>2. CASE hits # {}
  <2>1. Min(hits) \in hits /\ \A k \in hits : Min(hits) <= k
    <3>1. hits \in SUBSET Nat
      OBVIOUS
    <3>. HIDE DEF hits
    <3>. QED
      BY <1>2, <3>1, MinIsLeast
  <2>. DEFINE m == Min(hits)
  <2>2. m \in DOMAIN g /\ g[m] # None
    BY <2>1
  <2>3. \A j \in DOMAIN g : j < m => g[j] = None
    <3>. SUFFICES ASSUME NEW j \in DOMAIN g, j < m, g[j] # None PROVE FALSE
      OBVIOUS
    <3>1. m <= j /\ m \in Nat /\ j \in Nat
      BY <2>1, <2>2
    <3>. QED
      BY <3>1
  <2>. HIDE DEF m
  <2>4. Leads(g[m], g)
    BY <2>2, <2>3 DEF Leads
  <2>. QED
    BY <1>2, <2>4 DEF m
<1>. QED
  BY <1>1, <1>2

\* What the elements of a sequence have, given what each node has.
Has(e, s) == [i \in DOMAIN s |-> e[s[i]]]

\* What leads in one sequence followed by another.
LEMMA LeadsOfConcat ==
  ASSUME NEW D, NEW e, NEW s \in Seq(D), NEW t \in Seq(D), NEW x, NEW y,
         Leads(x, Has(e, s)), Leads(y, Has(e, t))
  PROVE  Leads(IF x # None THEN x ELSE y, Has(e, s \o t))
<1>. DEFINE st == s \o t
<1>1. /\ Len(s) \in Nat /\ Len(t) \in Nat
      /\ DOMAIN s = 1 .. Len(s) /\ DOMAIN t = 1 .. Len(t)
      /\ DOMAIN st = 1 .. Len(s) + Len(t)
      /\ \A i \in 1 .. Len(s) : st[i] = s[i]
      /\ \A i \in 1 .. Len(t) : st[Len(s) + i] = t[i]
  OBVIOUS
<1>. HIDE DEF st
<1>2. \A i \in DOMAIN st : i \in DOMAIN s \/ (i - Len(s) \in DOMAIN t /\ i = Len(s) + (i - Len(s)))
  BY <1>1
<1>3. \A i \in DOMAIN s : i \in DOMAIN st /\ Has(e, st)[i] = Has(e, s)[i]
  BY <1>1 DEF Has
<1>4. \A i \in DOMAIN t : Len(s) + i \in DOMAIN st /\ Has(e, st)[Len(s) + i] = Has(e, t)[i]
  BY <1>1 DEF Has
<1>5. /\ DOMAIN Has(e, s) = DOMAIN s /\ DOMAIN Has(e, t) = DOMAIN t
      /\ DOMAIN Has(e, st) = DOMAIN st
  BY DEF Has
<1>6. CASE x # None
  <2>1. PICK i \in DOMAIN s : Has(e, s)[i] = x /\ \A j \in DOMAIN s : j < i => Has(e, s)[j] = None
    BY <1>5, <1>6 DEF Leads
  <2>2. \A j \in DOMAIN st : j < i => j \in DOMAIN s
    BY <1>1
  <2>3. \A j \in DOMAIN st : j < i => Has(e, st)[j] = None
    BY <1>3, <2>1, <2>2
  <2>4. i \in DOMAIN st /\ Has(e, st)[i] = x
    BY <1>3, <2>1
  <2>. QED
    BY <1>5, <1>6, <2>3, <2>4 DEF Leads, st
<1>7. CASE x = None
  <2>1. \A i \in DOMAIN s : Has(e, s)[i] = None
    BY <1>5, <1>7 DEF Leads
  <2>2. CASE y = None
    <3>1. \A i \in DOMAIN t : Has(e, t)[i] = None
      BY <1>5, <2>2 DEF Leads
    <3>2. \A i \in DOMAIN st : Has(e, st)[i] = None
      BY <1>2, <1>3, <1>4, <2>1, <3>1
    <3>. QED
      BY <1>5, <1>7, <2>2, <3>2 DEF Leads, st
  <2>3. CASE y # None
    <3>1. PICK i \in DOMAIN t : Has(e, t)[i] = y /\ \A j \in DOMAIN t : j < i => Has(e, t)[j] = None
      BY <1>5, <2>3 DEF Leads
    <3>2. ASSUME NEW j \in DOMAIN st, j < Len(s) + i PROVE Has(e, st)[j] = None
      <4>1. CASE j \in DOMAIN s
        BY <1>3, <2>1, <4>1
      <4>2. CASE j - Len(s) \in DOMAIN t /\ j = Len(s) + (j - Len(s))
        <5>. DEFINE k == j - Len(s)
        <5>1. k \in DOMAIN t /\ j = Len(s) + k /\ k < i
          BY <1>1, <3>2, <4>2
        <5>. HIDE DEF k
        <5>2. Has(e, t)[k] = None
          BY <3>1, <5>1
        <5>. QED
          BY <1>4, <5>1, <5>2
      <4>. QED
        BY <1>2, <4>1, <4>2
    <3>3. Len(s) + i \in DOMAIN st /\ Has(e, st)[Len(s) + i] = y
      BY <1>4, <3>1
    <3>. QED
      BY <1>5, <1>7, <2>3, <3>2, <3>3 DEF Leads, st
  <2>. QED
    BY <2>2, <2>3
<1>. QED
  BY <1>6, <1>7

-----------------------------------------------------------------------------
(* FlattenSeq is a recursive function; its equations. *)

\* The concatenation of the sequences in a sequence.
LEMMA Flattening ==
  ASSUME NEW D, NEW ss \in Seq(Seq(D)), Len(ss) > 0
  PROVE  \E f \in [1 .. Len(ss) -> Seq(D)] :
            /\ f[1] = ss[1]
            /\ \A i \in 2 .. Len(ss) : f[i] = f[i - 1] \o ss[i]
            /\ FlattenSeq(ss) = f[Len(ss)]
<1>. DEFINE N == Len(ss)
            I == 1 .. N
            R == Seq(D)
            At(f, i) == IF i = 1 THEN ss[i] ELSE f[i - 1] \o ss[i]
            Defines(f) == f = [i \in I |-> At(f, i)]
            theFlat == CHOOSE f : Defines(f)
            rank == [i \in I |-> i]
            h == [p \in I \X [I -> R] |-> At(p[2], p[1])]
<1>1. /\ N \in Nat /\ N >= 1 /\ \A i \in I : ss[i] \in R
      /\ \A i \in I : i # 1 => i - 1 \in I /\ i - 1 < i
  OBVIOUS
<1>2. FlattenSeq(ss) = theFlat[N]
  BY DEF FlattenSeq
<1>. HIDE DEF N, R
<1>3. \A i \in I : \A f : (i # 1 => f[i - 1] \in R) => At(f, i) \in R
  BY <1>1 DEF R
<1>4. h \in [I \X [I -> R] -> R]
  <2>1. \A i \in I : \A f \in [I -> R] : At(f, i) \in R
    <3>. HIDE DEF At, I
    <3>. QED
      BY <1>1, <1>3
  <2>. HIDE DEF At, I
  <2>. QED
    BY <2>1
<1>5. rank \in [I -> 0 .. N] /\ \A i \in I : rank[i] = i
  BY <1>1
<1>6. LooksBelow(I, R, rank, h)
  <2>1. SUFFICES ASSUME NEW i \in I, NEW f \in [I -> R], NEW g \in [I -> R],
                        \A j \in I : rank[j] < rank[i] => f[j] = g[j]
                 PROVE  h[<<i, f>>] = h[<<i, g>>]
    BY DEF LooksBelow
  <2>2. i # 1 => f[i - 1] = g[i - 1]
    <3>. HIDE DEF rank, I
    <3>. QED
      BY <1>1, <1>5, <2>1
  <2>3. At(f, i) = At(g, i)
    BY <2>2
  <2>. QED
    BY <2>3
<1>7. PICK f \in [I -> R] : Solves(f, I, h)
  <2>1. <<>> \in R
    BY DEF R
  <2>. HIDE DEF rank, h, I
  <2>. QED
    BY <1>1, <1>4, <1>5, <1>6, <2>1, RecursionByRank
<1>8. Defines(f)
  <2>1. \A i \in I : f[i] = At(f, i)
    <3>. HIDE DEF At, I
    <3>. QED
      BY <1>7 DEF Solves
  <2>. HIDE DEF At, I
  <2>. QED
    BY <2>1
<1>9. Defines(theFlat)
  <2>. HIDE DEF Defines
  <2>. QED
    BY <1>8
<1>. HIDE DEF theFlat
<1>10. \A i \in I : theFlat[i] = At(theFlat, i)
  <2>. HIDE DEF At, I
  <2>. QED
    BY <1>9
<1>11. \A i \in I : theFlat[i] \in R
  <2>. DEFINE S == {i \in I : theFlat[i] \in R}
  <2>1. ASSUME NEW i \in I, \A j \in I : j < i => j \in S PROVE i \in S
    <3>1. i # 1 => theFlat[i - 1] \in R
      <4>. HIDE DEF R, I
      <4>. QED
        BY <1>1, <2>1
    <3>2. At(theFlat, i) \in R
      <4>. HIDE DEF At
      <4>. QED
        BY <1>3, <3>1
    <3>. HIDE DEF At
    <3>. QED
      BY <1>10, <3>2
  <2>2. I \in SUBSET Nat
    BY <1>1
  <2>3. I \subseteq S
    <3>. HIDE DEF S, I
    <3>. QED
      BY <2>1, <2>2, InductionBelow
  <2>. QED
    BY <2>3
<1>12. theFlat \in [I -> R]
  <2>1. theFlat = [i \in I |-> At(theFlat, i)]
    BY <1>9
  <2>. HIDE DEF At, I, R
  <2>. QED
    BY <1>10, <1>11, <2>1
<1>13. 1 \in I /\ \A i \in 2 .. N : i \in I /\ i # 1
  BY <1>1
<1>14. theFlat[1] = ss[1] /\ \A i \in 2 .. N : theFlat[i] = theFlat[i - 1] \o ss[i]
  <2>. HIDE DEF I
  <2>. QED
    BY <1>10, <1>13
<1>. QED
  BY <1>2, <1>12, <1>14 DEF N, R

\* It has the elements of those sequences.
LEMMA FlatType ==
  ASSUME NEW D, NEW ss \in Seq(Seq(D))
  PROVE  FlattenSeq(ss) \in Seq(D)
<1>1. CASE Len(ss) = 0
  <2>1. FlattenSeq(ss) = ss
    BY <1>1 DEF FlattenSeq
  <2>2. ss = <<>>
    BY <1>1
  <2>. QED
    BY <2>1, <2>2
<1>2. CASE Len(ss) > 0
  <2>1. PICK f \in [1 .. Len(ss) -> Seq(D)] : FlattenSeq(ss) = f[Len(ss)]
    BY <1>2, Flattening
  <2>2. Len(ss) \in 1 .. Len(ss)
    BY <1>2
  <2>. QED
    BY <2>1, <2>2
<1>. QED
  BY <1>1, <1>2

\* The findings up to the k-th.
Until(g, k) == [i \in 1 .. k |-> g[i]]

\* What a family with one more finding begins with.
LEMMA LeadsOfOneMore ==
  ASSUME NEW g, NEW k \in Nat, k >= 1, NEW x, Leads(x, Until(g, k - 1))
  PROVE  Leads(IF x # None THEN x ELSE g[k], Until(g, k))
<1>1. /\ k \in 1 .. k /\ \A i \in 1 .. k : i = k \/ i \in 1 .. k - 1
      /\ \A i \in 1 .. k - 1 : i \in 1 .. k /\ i < k
  OBVIOUS
<1>2. /\ DOMAIN Until(g, k) = 1 .. k /\ DOMAIN Until(g, k - 1) = 1 .. k - 1
      /\ \A i \in 1 .. k : Until(g, k)[i] = g[i]
      /\ \A i \in 1 .. k - 1 : Until(g, k - 1)[i] = g[i]
  BY DEF Until
<1>3. CASE x # None
  <2>1. PICK i \in 1 .. k - 1 : g[i] = x /\ \A j \in 1 .. k - 1 : j < i => g[j] = None
    BY <1>2, <1>3 DEF Leads
  <2>2. i \in 1 .. k /\ \A j \in 1 .. k : j < i => j \in 1 .. k - 1
    OBVIOUS
  <2>3. Until(g, k)[i] = x /\ \A j \in 1 .. k : j < i => Until(g, k)[j] = None
    BY <1>2, <2>1, <2>2
  <2>. QED
    BY <1>2, <1>3, <2>2, <2>3 DEF Leads
<1>4. CASE x = None
  <2>1. \A i \in 1 .. k - 1 : g[i] = None
    BY <1>2, <1>4 DEF Leads
  <2>2. \A j \in 1 .. k : j < k => Until(g, k)[j] = None
    BY <1>1, <1>2, <2>1
  <2>3. CASE g[k] = None
    <3>1. \A i \in 1 .. k : Until(g, k)[i] = None
      BY <1>1, <1>2, <2>1, <2>3
    <3>. QED
      BY <1>2, <1>4, <2>3, <3>1 DEF Leads
  <2>4. CASE g[k] # None
    BY <1>1, <1>2, <1>4, <2>2, <2>4 DEF Leads
  <2>. QED
    BY <2>3, <2>4
<1>. QED
  BY <1>3, <1>4

\* What leads in the sequences one after the other is what leads among what leads in each.
LEMMA LeadsOfFlat ==
  ASSUME NEW D, NEW e, NEW ss \in Seq(Seq(D)), NEW g, DOMAIN g = DOMAIN ss,
         \A i \in DOMAIN ss : Leads(g[i], Has(e, ss[i])), NEW x, Leads(x, g)
  PROVE  Leads(x, Has(e, FlattenSeq(ss)))
<1>. DEFINE N == Len(ss)
<1>1. N \in Nat /\ DOMAIN ss = 1 .. N /\ \A i \in 1 .. N : ss[i] \in Seq(D)
  OBVIOUS
<1>. HIDE DEF N
<1>2. CASE N = 0
  <2>1. FlattenSeq(ss) = ss
    BY <1>2 DEF FlattenSeq, N
  <2>2. DOMAIN ss = {}
    BY <1>1, <1>2
  <2>3. x = None
    BY <2>2 DEF Leads
  <2>4. DOMAIN Has(e, ss) = {}
    BY <2>2 DEF Has
  <2>. QED
    BY <2>1, <2>3, <2>4 DEF Leads
<1>3. CASE N > 0
  <2>1. PICK f \in [1 .. N -> Seq(D)] :
            /\ f[1] = ss[1]
            /\ \A i \in 2 .. N : f[i] = f[i - 1] \o ss[i]
            /\ FlattenSeq(ss) = f[N]
    BY <1>3, Flattening DEF N
  <2>. DEFINE Good(k) == \E y : Leads(y, Until(g, k)) /\ Leads(y, Has(e, f[k]))
              S == {k \in 0 .. N : k = 0 \/ Good(k)}
  <2>2. ASSUME NEW k \in 1 .. N, k - 1 \in S PROVE k \in S
    <3>1. Leads(g[k], Has(e, ss[k])) /\ k \in 0 .. N /\ k \in Nat /\ k >= 1
      <4>1. k \in DOMAIN ss /\ k \in 0 .. N /\ k \in Nat /\ k >= 1
        BY <1>1
      <4>. QED
        BY <4>1
    <3>2. CASE k = 1
      <4>1. Leads(None, Until(g, k - 1))
        BY <3>2 DEF Leads, Until
      <4>2. Leads(g[k], Until(g, k))
        BY <3>1, <4>1, LeadsOfOneMore
      <4>3. Good(k)
        BY <2>1, <3>1, <3>2, <4>2
      <4>. HIDE DEF Good
      <4>. QED
        BY <3>1, <4>3
    <3>3. CASE k # 1
      <4>1. k \in 2 .. N /\ k - 1 # 0 /\ k - 1 \in 1 .. N /\ k \in Nat /\ k >= 1
        BY <1>1, <3>3
      <4>2. PICK y : Leads(y, Until(g, k - 1)) /\ Leads(y, Has(e, f[k - 1]))
        <5>1. Good(k - 1)
          <6>. HIDE DEF Good
          <6>. QED
            BY <2>2, <4>1
        <5>. QED
          BY <5>1
      <4>. DEFINE z == IF y # None THEN y ELSE g[k]
      <4>3. Leads(z, Until(g, k))
        BY <4>1, <4>2, LeadsOfOneMore
      <4>4. f[k - 1] \in Seq(D) /\ ss[k] \in Seq(D)
        BY <1>1, <2>1, <4>1
      <4>5. Leads(z, Has(e, f[k - 1] \o ss[k]))
        BY <3>1, <4>2, <4>4, LeadsOfConcat
      <4>6. f[k] = f[k - 1] \o ss[k]
        BY <2>1, <4>1
      <4>. HIDE DEF z
      <4>7. Good(k)
        BY <4>3, <4>5, <4>6
      <4>. HIDE DEF Good
      <4>. QED
        BY <3>1, <4>7
    <3>. QED
      BY <3>2, <3>3
  <2>3. 0 .. N \subseteq S
    <3>1. 0 \in S
      BY <1>1
    <3>. HIDE DEF S
    <3>. QED
      BY <1>1, <2>2, <3>1, InductionUpto
  <2>4. N \in 0 .. N /\ N # 0
    BY <1>1, <1>3
  <2>5. Good(N)
    <3>. HIDE DEF Good
    <3>. QED
      BY <2>3, <2>4
  <2>6. PICK y : Leads(y, Until(g, N)) /\ Leads(y, Has(e, f[N]))
    BY <2>5
  <2>7. /\ DOMAIN Until(g, N) = 1 .. N /\ DOMAIN g = 1 .. N
        /\ \A i \in 1 .. N : Until(g, N)[i] = g[i]
        /\ DOMAIN Until(g, N) \in SUBSET Nat
    BY <1>1 DEF Until
  <2>8. Leads(x, Until(g, N))
    BY <2>7 DEF Leads
  <2>9. x = y
    BY <2>6, <2>7, <2>8, OneLeads
  <2>. QED
    BY <2>1, <2>6, <2>9
<1>. QED
  BY <1>1, <1>2, <1>3

-----------------------------------------------------------------------------
(* The order of the search *)

\* The order at node n, from the orders at its roots.
OrderAt(order, n) ==
    LET roots == nodes[n].roots
    IN  <<n>> \o FlattenSeq([i \in DOMAIN roots |-> order[roots[i]]])

\* The order of the search is that of its definition.
LEMMA SearchOrderIsRight ==
  ASSUME nodes \in Seq(Nodes), Older(nodes)
  PROVE  \A n \in DOMAIN nodes :
            /\ SearchOrder[n] = OrderAt(SearchOrder, n)
            /\ SearchOrder[n] \in Seq(DOMAIN nodes)
<1>. DEFINE D == DOMAIN nodes
            R == Seq(D)
            rank == [n \in D |-> n]
            h == [p \in D \X [D -> R] |-> OrderAt(p[2], p[1])]
            Defines(g) == g = [n \in D |-> OrderAt(g, n)]
            Below(g, n) == [i \in DOMAIN nodes[n].roots |-> g[nodes[n].roots[i]]]
<1>1. /\ D = 1 .. Len(nodes) /\ Len(nodes) \in Nat
      /\ \A n \in D : /\ nodes[n].roots \in Seq(D)
                      /\ \A i \in DOMAIN nodes[n].roots :
                            nodes[n].roots[i] \in D /\ nodes[n].roots[i] < n
  <2>1. D = 1 .. Len(nodes) /\ Len(nodes) \in Nat /\ \A n \in D : nodes[n] \in Nodes
    OBVIOUS
  <2>2. \A n \in D : nodes[n].roots \in Seq(Nat)
    BY <2>1 DEF Nodes
  <2>3. \A n \in D : \A i \in DOMAIN nodes[n].roots :
           nodes[n].roots[i] \in D /\ nodes[n].roots[i] < n
    BY <2>1, <2>2 DEF Older
  <2>. HIDE DEF D
  <2>4. ASSUME NEW n \in D PROVE nodes[n].roots \in Seq(D)
    <3>1. PICK s \in Seq(Nat) : s = nodes[n].roots
      BY <2>2
    <3>2. \A i \in DOMAIN s : s[i] \in D
      BY <2>3, <3>1
    <3>3. s \in Seq(D)
      BY <3>2
    <3>. QED
      BY <3>1, <3>3
  <2>. QED
    BY <2>1, <2>3, <2>4
<1>. HIDE DEF D
<1>2. ASSUME NEW n \in D, NEW g, \A m \in D : m < n => g[m] \in R
      PROVE  OrderAt(g, n) \in R
  <2>1. Below(g, n) \in Seq(R)
    <3>1. \A i \in DOMAIN nodes[n].roots : g[nodes[n].roots[i]] \in R
      <4>. HIDE DEF R
      <4>. QED
        BY <1>1, <1>2
    <3>2. DOMAIN nodes[n].roots = 1 .. Len(nodes[n].roots) /\ Len(nodes[n].roots) \in Nat
      BY <1>1
    <3>. HIDE DEF R
    <3>. QED
      BY <3>1, <3>2
  <2>2. FlattenSeq(Below(g, n)) \in Seq(D)
    <3>. HIDE DEF Below
    <3>. QED
      BY <2>1, FlatType
  <2>3. OrderAt(g, n) = <<n>> \o FlattenSeq(Below(g, n))
    BY DEF OrderAt
  <2>. HIDE DEF Below
  <2>. QED
    BY <2>2, <2>3
<1>3. h \in [D \X [D -> R] -> R]
  <2>1. \A n \in D : \A g \in [D -> R] : OrderAt(g, n) \in R
    <3>. HIDE DEF R
    <3>. QED
      BY <1>2
  <2>. HIDE DEF R
  <2>. QED
    BY <2>1
<1>4. ASSUME NEW n \in D, NEW f \in [D -> R], NEW g \in [D -> R],
             \A m \in D : m < n => f[m] = g[m]
      PROVE  OrderAt(f, n) = OrderAt(g, n)
  <2>1. \A i \in DOMAIN nodes[n].roots : f[nodes[n].roots[i]] = g[nodes[n].roots[i]]
    BY <1>1, <1>4
  <2>2. Below(f, n) = Below(g, n)
    BY <2>1
  <2>3. OrderAt(f, n) = <<n>> \o FlattenSeq(Below(f, n))
        /\ OrderAt(g, n) = <<n>> \o FlattenSeq(Below(g, n))
    BY DEF OrderAt
  <2>. HIDE DEF Below
  <2>. QED
    BY <2>2, <2>3
<1>5. PICK f \in [D -> R] : Solves(f, D, h)
  <2>1. rank \in [D -> 0 .. Len(nodes)] /\ \A n \in D : rank[n] = n
    BY <1>1
  <2>2. ASSUME NEW n \in D, NEW f \in [D -> R], NEW g \in [D -> R],
               \A m \in D : rank[m] < rank[n] => f[m] = g[m]
        PROVE  h[<<n, f>>] = h[<<n, g>>]
    <3>1. \A m \in D : m < n => f[m] = g[m]
      BY <2>1, <2>2
    <3>2. OrderAt(f, n) = OrderAt(g, n)
      BY <1>4, <3>1
    <3>. QED
      BY <3>2
  <2>3. <<>> \in R /\ Len(nodes) \in Nat
    BY <1>1
  <2>4. LooksBelow(D, R, rank, h)
    <3>. HIDE DEF rank, h, R
    <3>. QED
      BY <2>2 DEF LooksBelow
  <2>. HIDE DEF rank, h, R
  <2>. QED
    BY <1>3, <2>1, <2>3, <2>4, RecursionByRank
<1>6. Defines(f)
  <2>1. \A n \in D : h[<<n, f>>] = OrderAt(f, n)
    <3>. HIDE DEF R
    <3>. QED
      OBVIOUS
  <2>2. \A n \in D : f[n] = OrderAt(f, n)
    <3>. HIDE DEF h
    <3>. QED
      BY <1>5, <2>1 DEF Solves
  <2>. HIDE DEF R
  <2>. QED
    BY <2>2
<1>7. SearchOrder = CHOOSE g : Defines(g)
  BY DEF SearchOrder, OrderAt, D
<1>8. Defines(SearchOrder)
  <2>. HIDE DEF Defines
  <2>. QED
    BY <1>6, <1>7
<1>9. \A n \in D : SearchOrder[n] = OrderAt(SearchOrder, n)
  BY <1>8
<1>10. \A n \in D : SearchOrder[n] \in R
  <2>. DEFINE S == {n \in D : SearchOrder[n] \in R}
  <2>1. ASSUME NEW n \in D, \A m \in D : m < n => m \in S PROVE n \in S
    <3>1. \A m \in D : m < n => SearchOrder[m] \in R
      BY <2>1
    <3>2. OrderAt(SearchOrder, n) \in R
      <4>. HIDE DEF R
      <4>. QED
        BY <1>2, <3>1
    <3>. HIDE DEF R
    <3>. QED
      BY <1>9, <3>2
  <2>2. D \in SUBSET Nat
    BY <1>1
  <2>3. D \subseteq S
    <3>. HIDE DEF S
    <3>. QED
      BY <2>1, <2>2, InductionBelow
  <2>. QED
    BY <2>3
<1>. QED
  BY <1>9, <1>10 DEF D

\* Lookup finds what leads in the order of the search.
LEMMA FindLeads ==
  ASSUME nodes \in Seq(Nodes), Older(nodes), NEW map \in Maps, NEW t \in Types
  PROVE  LET e == [m \in DOMAIN nodes |-> nodes[m][map][t]]
         IN  \A n \in DOMAIN nodes : Leads(Find(map, t)[n], Has(e, SearchOrder[n]))
<1>. DEFINE D == DOMAIN nodes
            find == Find(map, t)
            e == [m \in D |-> nodes[m][map][t]]
            S == {n \in D : Leads(find[n], Has(e, SearchOrder[n]))}
<1>1. /\ D \in SUBSET Nat
      /\ \A n \in D : /\ nodes[n].roots \in Seq(Nat)
                      /\ \A i \in DOMAIN nodes[n].roots :
                            nodes[n].roots[i] \in D /\ nodes[n].roots[i] < n
  <2>1. D = 1 .. Len(nodes) /\ Len(nodes) \in Nat /\ \A n \in D : nodes[n] \in Nodes
    OBVIOUS
  <2>2. \A n \in D : nodes[n].roots \in Seq(Nat)
    BY <2>1 DEF Nodes
  <2>. QED
    BY <2>1, <2>2 DEF Older
<1>2. /\ \A n \in D : find[n] = FoundAt(find, map, t, n)
      /\ \A n \in D : SearchOrder[n] = OrderAt(SearchOrder, n) /\ SearchOrder[n] \in Seq(D)
  BY FindIsRight, SearchOrderIsRight
<1>3. \A n \in D : e[n] = nodes[n][map][t]
  OBVIOUS
<1>. HIDE DEF D, find, e
<1>4. ASSUME NEW n \in D, \A m \in D : m < n => m \in S PROVE n \in S
  <2>. DEFINE roots == nodes[n].roots
              g == [i \in DOMAIN roots |-> find[roots[i]]]
              ss == [i \in DOMAIN roots |-> SearchOrder[roots[i]]]
              hits == {i \in DOMAIN g : g[i] # None}
              y == IF hits = {} THEN None ELSE g[Min(hits)]
  <2>1. /\ DOMAIN roots = 1 .. Len(roots) /\ Len(roots) \in Nat
        /\ \A i \in DOMAIN roots : roots[i] \in D /\ roots[i] < n
    BY <1>1
  <2>. HIDE DEF roots
  <2>2. ss \in Seq(Seq(D)) /\ DOMAIN ss = DOMAIN roots
    <3>1. \A i \in DOMAIN roots : SearchOrder[roots[i]] \in Seq(D)
      BY <1>2, <2>1
    <3>. QED
      BY <2>1, <3>1
  <2>3. \A i \in DOMAIN ss : Leads(g[i], Has(e, ss[i]))
    <3>1. \A i \in DOMAIN roots : Leads(find[roots[i]], Has(e, SearchOrder[roots[i]]))
      BY <1>4, <2>1
    <3>. QED
      BY <3>1
  <2>4. DOMAIN g = DOMAIN ss /\ DOMAIN g \in SUBSET Nat
    BY <2>1
  <2>5. hits = {i \in DOMAIN roots : find[roots[i]] # None}
    OBVIOUS
  <2>6. hits # {} => Min(hits) \in DOMAIN roots
    <3>1. hits \in SUBSET DOMAIN roots /\ hits \in SUBSET Nat
      BY <2>1, <2>5
    <3>. HIDE DEF hits
    <3>. QED
      BY <3>1, MinIsLeast
  <2>7. hits # {} => g[Min(hits)] = find[roots[Min(hits)]]
    <3>. HIDE DEF hits
    <3>. QED
      BY <2>6
  <2>8. Leads(y, g)
    <3>. HIDE DEF g
    <3>. QED
      BY <2>4, LeastLeads
  <2>9. find[n] = IF e[n] # None THEN e[n] ELSE y
    <3>1. find[n] = IF nodes[n][map][t] # None THEN nodes[n][map][t]
                    ELSE IF hits = {} THEN None ELSE find[roots[Min(hits)]]
      BY <1>2, <2>5 DEF FoundAt, roots
    <3>. HIDE DEF hits, g
    <3>. QED
      BY <1>3, <2>7, <3>1
  <2>. HIDE DEF y
  <2>10. SearchOrder[n] = <<n>> \o FlattenSeq(ss)
    BY <1>2 DEF OrderAt, roots
  <2>. HIDE DEF g, ss
  <2>11. Leads(y, Has(e, FlattenSeq(ss))) /\ FlattenSeq(ss) \in Seq(D)
    BY <2>2, <2>3, <2>4, <2>8, LeadsOfFlat, FlatType
  <2>12. Leads(e[n], Has(e, <<n>>)) /\ <<n>> \in Seq(D)
    BY DEF Leads, Has
  <2>13. Leads(IF e[n] # None THEN e[n] ELSE y, Has(e, <<n>> \o FlattenSeq(ss)))
    BY <2>11, <2>12, LeadsOfConcat
  <2>. QED
    BY <2>9, <2>10, <2>13
<1>5. D \subseteq S
  <2>. HIDE DEF S
  <2>. QED
    BY <1>1, <1>4, InductionBelow
<1>. QED
  BY <1>5 DEF D, e, find

-----------------------------------------------------------------------------
(* The theorems *)

\* The state keeps its types; the roots of a node are always older than the node, so a
\* lookup through the bases (formats::data::find_impl) ends in every graph of formats.
THEOREM GraphIsAcyclic == Spec => []TypeOK
<1>1. Inv => TypeOK
  BY DEF Inv
<1>. QED
  BY <1>1, Invariance, PTL

\* No entry of a node that is referred to points to an adapter that has been destroyed,
\* through all registrations and rollbacks of formats::data and all handles let go of.
THEOREM NoEntryDangles == Spec => []EntriesAreAlive
<1>1. ASSUME Inv PROVE EntriesAreAlive
  <2> SUFFICES ASSUME NEW n \in DOMAIN nodes, NEW map \in Maps, NEW t \in Types, Live(n)
               PROVE  Alive(nodes[n][map][t])
    BY DEF EntriesAreAlive
  <2>1. nodes[n][map][t] \in Managed => nodes[n][map][t] \in nodes[n].owned_items
    BY <1>1 DEF Inv, EveryNodeOwns, OwnsItsAdapters
  <2>. QED
    BY <2>1 DEF Alive
<1>. QED
  BY <1>1, Invariance, PTL

\* And no lookup returns one: whatever an extraction or a serialization finds, in the
\* formats itself or in one of its bases, is an adapter that still exists.
THEOREM NoLookupDangles == Spec => []NothingFoundIsDangling
<1>1. ASSUME Inv PROVE NothingFoundIsDangling
  <2>1. /\ nodes \in Seq(Nodes) /\ DOMAIN nodes \in SUBSET Nat
        /\ held \cup {global} \subseteq DOMAIN nodes
    BY <1>1, InvFacts
  <2>2. LookupIsRight /\ LiveIsRight
    BY <1>1, LookupRight, LiveRight DEF Inv
  <2>. SUFFICES ASSUME NEW map \in Maps, NEW t \in Types, NEW n \in held \cup {global},
                       Find(map, t)[n] # None
                PROVE  Alive(Find(map, t)[n])
    BY DEF NothingFoundIsDangling
  <2>. DEFINE find == Find(map, t)
              S == {m \in DOMAIN nodes : Live(m) /\ find[m] # None => Alive(find[m])}
  <2>. HIDE DEF find
  <2>3. ASSUME NEW m \in DOMAIN nodes, \A k \in DOMAIN nodes : k < m => k \in S
        PROVE  m \in S
    <3>1. SUFFICES ASSUME Live(m), find[m] # None PROVE Alive(find[m])
      OBVIOUS
    <3>2. CASE nodes[m][map][t] # None /\ find[m] = nodes[m][map][t]
      <4>1. nodes[m][map][t] \in Managed => nodes[m][map][t] \in nodes[m].owned_items
        BY <1>1 DEF Inv, EveryNodeOwns, OwnsItsAdapters
      <4>. QED
        BY <3>1, <3>2, <4>1 DEF Alive
    <3>3. CASE \E r \in RangeOf(nodes[m].roots) \cap DOMAIN nodes :
                  r < m /\ find[r] # None /\ find[m] = find[r]
      <4>1. PICK r \in RangeOf(nodes[m].roots) \cap DOMAIN nodes :
                  r < m /\ find[r] # None /\ find[m] = find[r]
        BY <3>3
      <4>2. Live(r)
        BY <2>2, <3>1, <4>1 DEF LiveIsRight
      <4>. QED
        BY <2>3, <4>1, <4>2
    <3>. QED
      BY <2>2, <3>1, <3>2, <3>3 DEF LookupIsRight, find
  <2>4. DOMAIN nodes \subseteq S
    <3>. HIDE DEF S
    <3>. QED
      BY <2>1, <2>3, InductionBelow
  <2>5. Live(n) /\ n \in DOMAIN nodes
    BY <2>1, <2>2 DEF LiveIsRight
  <2>. QED
    BY <2>4, <2>5 DEF find
<1>. QED
  BY <1>1, Invariance, PTL

\* formats::data::find_impl takes the bases from left to right and each with all that is
\* below it, so what it finds is what the first formats in depth-first order has.
THEOREM LookupGoesDepthFirst == Spec => []LookupIsDepthFirst
<1>1. ASSUME Inv PROVE LookupIsDepthFirst
  <2>1. nodes \in Seq(Nodes) /\ Older(nodes)
    BY <1>1 DEF Inv, TypeOK, Older
  <2>. SUFFICES ASSUME NEW map \in Maps, NEW t \in Types, NEW n \in DOMAIN nodes
                PROVE  Find(map, t)[n] = FirstEntry(SearchOrder[n], map, t)
    BY DEF LookupIsDepthFirst
  <2>. DEFINE e == [m \in DOMAIN nodes |-> nodes[m][map][t]]
              s == SearchOrder[n]
              g == Has(e, s)
              hits == {i \in DOMAIN g : g[i] # None}
  <2>2. s \in Seq(DOMAIN nodes)
    BY <2>1, SearchOrderIsRight
  <2>3. Leads(Find(map, t)[n], g)
    BY <2>1, FindLeads
  <2>. HIDE DEF s
  <2>4. /\ DOMAIN g = DOMAIN s /\ DOMAIN g \in SUBSET Nat
        /\ \A i \in DOMAIN s : g[i] = nodes[s[i]][map][t]
    BY <2>2 DEF Has
  <2>. HIDE DEF g, e
  <2>5. Leads(IF hits = {} THEN None ELSE g[Min(hits)], g)
    BY <2>4, LeastLeads
  <2>6. hits = {i \in DOMAIN s : nodes[s[i]][map][t] # None}
    BY <2>4
  <2>7. hits # {} => Min(hits) \in DOMAIN s
    <3>1. hits \in SUBSET DOMAIN s /\ hits \in SUBSET Nat
      BY <2>4
    <3>. HIDE DEF hits
    <3>. QED
      BY <3>1, MinIsLeast
  <2>8. FirstEntry(s, map, t) = IF hits = {} THEN None ELSE nodes[s[Min(hits)]][map][t]
    BY <2>6 DEF FirstEntry
  <2>. HIDE DEF hits
  <2>9. FirstEntry(s, map, t) = IF hits = {} THEN None ELSE g[Min(hits)]
    BY <2>4, <2>7, <2>8
  <2>10. Leads(FirstEntry(s, map, t), g)
    BY <2>5, <2>9
  <2>11. Find(map, t)[n] = FirstEntry(s, map, t)
    BY <2>3, <2>4, <2>10, OneLeads
  <2>. QED
    BY <2>11 DEF s
<1>. QED
  BY <1>1, Invariance, PTL

\* An insertion that throws under duplicate_type_action::exception leaves all formats as
\* they were: what it has inserted before is what its rollback erases.
THEOREM FailedInsertIsUndone == Spec => FailureChangesNothing
<1> DEFINE A == result'.ended \in {"duplicate", "no memory"} /\ result'.action = "exception"
                   => nodes' = nodes
<1>1. ASSUME Inv, [Next]_vars PROVE [A]_vars
  <2>1. CASE RegisterInAny
    <3>1. PICK n \in held, a \in Offered, maps \in (SUBSET Maps) \ {{}}, action \in Actions :
             Register(n, maps, a, action)
      BY <2>1 DEF RegisterInAny
    <3>2. n \in DOMAIN nodes /\ a \in Adapters /\ nodes \in Seq(Nodes) /\ nodes[n] \in Nodes
      BY <1>1, InvFacts DEF Offered
    <3>3. ASSUME NEW done \in SUBSET Maps, Undo(n, done, a, "exception"),
                 \A map \in done : ~Refuses(nodes[n], map, a, "exception")
          PROVE  nodes' = nodes
      <4>1. Erased(Inserted(nodes[n], done, a, "exception"), done, a) = nodes[n]
        BY <3>2, <3>3, UndoRestores
      <4>2. nodes' = [nodes EXCEPT ![n] = nodes[n]]
        BY <3>3, <4>1 DEF Undo
      <4>. QED
        BY <3>2, <4>2
    <3>4. \A map : Before(map, maps) \in SUBSET Maps
      BY DEF Before, Maps
    <3>5. CASE Insert(n, maps, a, action)
      BY <3>5 DEF Insert, Returns, Success
    <3>6. CASE InsertDuplicate(n, maps, a, action) /\ action = "exception"
      BY <3>3, <3>4, <3>6 DEF InsertDuplicate
    <3>7. CASE InsertNoMemory(n, maps, a, action) /\ action = "exception"
      BY <3>3, <3>4, <3>7 DEF InsertNoMemory
    <3>8. CASE /\ InsertDuplicate(n, maps, a, action) \/ InsertNoMemory(n, maps, a, action)
               /\ action # "exception"
      <4>1. Throws("duplicate", action) \/ Throws("no memory", action)
        BY <3>8 DEF InsertDuplicate, InsertNoMemory
      <4>2. result'.action = action
        BY <4>1, ThrownFields
      <4>. QED
        BY <3>8, <4>2
    <3>. QED
      BY <3>1, <3>5, <3>6, <3>7, <3>8 DEF Register
  <2>2. CASE Compose \/ Defaults \/ Global \/ Coerced
    <3>1. result' = Success
      BY <2>2 DEF Compose, Defaults, Global, Coerced, Create, Returns
    <3>. QED
      BY <3>1 DEF Success
  <2>3. CASE SetGlobal \/ ResetGlobal \/ DropAdapter \/ DropFormats
    BY <2>3 DEF SetGlobal, ResetGlobal, Swap, DropAdapter, DropFormats
  <2>. QED
    BY <1>1, <2>1, <2>2, <2>3 DEF Next, GraphNext
<1>. QED
  BY <1>1, Invariance, PTL DEF Spec, FailureChangesNothing

\* formats::coerce hands out a new node each time, so no program has a handle on the
\* coercing formats to register with.
LEMMA CoercingStays ==
  ASSUME Inv, [Next]_vars
  PROVE  \A n \in {2, Coerce} : nodes'[n] = nodes[n]
<1>1. nodes \in Seq(Nodes) /\ Older(nodes) /\ {2, Coerce} \subseteq DOMAIN nodes
  BY InvFacts DEF Coerce
<1>2. CASE RegisterInAny
  <2>1. PICK n \in held, a \in Offered, maps \in (SUBSET Maps) \ {{}}, action \in Actions :
           Register(n, maps, a, action)
    BY <1>2 DEF RegisterInAny
  <2>2. n \in DOMAIN nodes /\ a \in Adapters /\ maps \in SUBSET Maps /\ n \notin {2, Coerce}
    BY InvFacts DEF Offered, Coerce
  <2>3. ChangesOnly(n)
    BY <1>1, <2>1, <2>2, RegisterChangesOnly
  <2>. QED
    BY <1>1, <2>2, <2>3, ChangeKeepsGraph
<1>3. CASE Compose \/ Defaults \/ Global \/ Coerced
  BY <1>1, <1>3, GraphStep, GrowsGraph
<1>4. CASE UNCHANGED vars
  BY <1>4 DEF vars
<1>5. CASE SetGlobal \/ ResetGlobal \/ DropAdapter \/ DropFormats
  BY <1>5 DEF SetGlobal, ResetGlobal, Swap, DropAdapter, DropFormats
<1>. QED
  BY <1>2, <1>3, <1>4, <1>5 DEF Next, GraphNext

\* So they are as create_coerce_formats and compose have made them.
CoercingAsCreated ==
    /\ nodes[2].roots = <<>> /\ nodes[Coerce].roots = <<2, Default>>
    /\ \A map \in Maps, t \in Types :
          /\ nodes[2][map][t] = IF map = "extractors" THEN Coercing[t] ELSE None
          /\ nodes[Coerce][map][t] = None

LEMMA InitCoercing == Init => CoercingAsCreated
<1> SUFFICES ASSUME Init PROVE CoercingAsCreated
  OBVIOUS
<1>1. /\ nodes[2] = [Node(<<>>) EXCEPT !.extractors = Coercing]
      /\ nodes[Coerce] = Node(<<2, Default>>)
  BY DEF Init, Coerce
<1>2. /\ nodes[2].roots = <<>> /\ nodes[Coerce].roots = <<2, Default>>
      /\ nodes[2].extractors = Coercing /\ nodes[2].serializers = NoEntries
      /\ nodes[Coerce].extractors = NoEntries /\ nodes[Coerce].serializers = NoEntries
  BY <1>1 DEF Node
<1>. QED
  BY <1>2 DEF CoercingAsCreated, Maps, NoEntries

\* The least of at most two.
LEMMA MinOfTwo ==
  ASSUME NEW S \in SUBSET {1, 2}
  PROVE  /\ 1 \in S => Min(S) = 1
         /\ 1 \notin S /\ 2 \in S => Min(S) = 2
<1>1. S \in SUBSET Nat
  OBVIOUS
<1>2. S # {} => Min(S) \in S /\ \A k \in S : Min(S) <= k
  BY <1>1, MinIsLeast
<1>3. 1 \in S => Min(S) = 1
  <2>1. 1 \in S => Min(S) \in {1, 2} /\ Min(S) <= 1
    BY <1>2
  <2>. QED
    BY <2>1
<1>. QED
  BY <1>2, <1>3

\* What a node finds that has nothing of its own and one root, or two.
LEMMA FindInRoots ==
  ASSUME NEW find, NEW map, NEW t, NEW n, nodes[n][map][t] = None
  PROVE  /\ nodes[n].roots = <<>> => FoundAt(find, map, t, n) = None
         /\ \A m : nodes[n].roots = <<m>> => FoundAt(find, map, t, n) = find[m]
         /\ \A l, r : nodes[n].roots = <<l, r>> =>
               FoundAt(find, map, t, n) = IF find[l] # None THEN find[l] ELSE find[r]
<1> DEFINE roots == nodes[n].roots
           hits == {i \in DOMAIN roots : find[roots[i]] # None}
<1>1. FoundAt(find, map, t, n) = IF hits = {} THEN None ELSE find[roots[Min(hits)]]
  BY DEF FoundAt
<1>2. ASSUME roots = <<>> PROVE FoundAt(find, map, t, n) = None
  BY <1>1, <1>2
<1>3. ASSUME NEW m, roots = <<m>> PROVE FoundAt(find, map, t, n) = find[m]
  <2>1. DOMAIN roots = {1} /\ roots[1] = m
    BY <1>3
  <2>2. hits = IF find[m] # None THEN {1} ELSE {}
    BY <2>1
  <2> HIDE DEF hits
  <2>3. hits # {} => Min(hits) = 1
    BY <2>2, MinOfTwo
  <2>. QED
    BY <1>1, <2>1, <2>2, <2>3
<1>4. ASSUME NEW l, NEW r, roots = <<l, r>>
      PROVE  FoundAt(find, map, t, n) = IF find[l] # None THEN find[l] ELSE find[r]
  <2>1. DOMAIN roots = {1, 2} /\ roots[1] = l /\ roots[2] = r
    BY <1>4
  <2>2. hits \subseteq {1, 2} /\ (1 \in hits <=> find[l] # None) /\ (2 \in hits <=> find[r] # None)
    BY <2>1
  <2> HIDE DEF hits
  <2>3. 1 \in hits => Min(hits) = 1
    BY <2>2, MinOfTwo
  <2>4. 1 \notin hits /\ 2 \in hits => Min(hits) = 2
    BY <2>2, MinOfTwo
  <2>5. 1 \notin hits /\ 2 \notin hits => hits = {}
    BY <2>2
  <2>. QED
    BY <1>1, <2>1, <2>2, <2>3, <2>4, <2>5
<1>. QED
  BY <1>2, <1>3, <1>4

\* What coerce() returns finds what is registered in it, then the coercing extractors, then
\* what the defaults find at the time; what is registered elsewhere has no say.
THEOREM CoerceFallsBack == Spec => []CoerceFallsBackOnDefaults
<1>1. CoercingAsCreated /\ Inv /\ [Next]_vars => CoercingAsCreated'
  BY CoercingStays DEF CoercingAsCreated, Coerce
<1>2. ASSUME Inv, CoercingAsCreated PROVE CoerceFallsBackOnDefaults
  <2>. SUFFICES ASSUME NEW map \in Maps, NEW t \in Types, NEW n \in DOMAIN nodes,
                       nodes[n].roots = <<Coerce>>
                PROVE  Find(map, t)[n] = IF nodes[n][map][t] # None THEN nodes[n][map][t]
                                         ELSE Coercible(map, t)
    BY DEF CoerceFallsBackOnDefaults
  <2>. DEFINE find == Find(map, t)
  <2>1. \A m \in DOMAIN nodes : find[m] = FoundAt(find, map, t, m)
    BY <1>2, InvFacts, FindIsRight
  <2>2. 2 \in DOMAIN nodes /\ Coerce \in DOMAIN nodes
    BY <1>2, InvFacts DEF Coerce
  <2>. HIDE DEF find
  <2>3. find[2] = nodes[2][map][t]
    <3>1. nodes[2][map][t] = None => FoundAt(find, map, t, 2) = None
      BY <1>2, FindInRoots DEF CoercingAsCreated
    <3>2. nodes[2][map][t] # None => FoundAt(find, map, t, 2) = nodes[2][map][t]
      BY DEF FoundAt
    <3>. QED
      BY <2>1, <2>2, <3>1, <3>2
  <2>4. find[Coerce] = IF find[2] # None THEN find[2] ELSE find[Default]
    BY <1>2, <2>1, <2>2, FindInRoots DEF CoercingAsCreated
  <2>5. find[Coerce] = Coercible(map, t)
    BY <1>2, <2>3, <2>4 DEF CoercingAsCreated, Coercible, find
  <2>6. nodes[n][map][t] = None => find[n] = find[Coerce]
    BY <2>1, FindInRoots
  <2>7. nodes[n][map][t] # None => find[n] = nodes[n][map][t]
    BY <2>1 DEF FoundAt
  <2>. QED
    BY <2>5, <2>6, <2>7 DEF find
<1>. QED
  BY <1>1, <1>2, InitCoercing, Invariance, PTL DEF Spec

\* A step of the graph takes no entry and no root away.
EntriesStay ==
    /\ DOMAIN nodes \subseteq DOMAIN nodes'
    /\ \A n \in DOMAIN nodes :
          /\ nodes'[n].roots = nodes[n].roots
          /\ \A map \in Maps, t \in Types :
                nodes[n][map][t] # None => nodes'[n][map][t] # None

-----------------------------------------------------------------------------
(* What is known stays known *)

\* A lookup also does so after a step.
LEMMA NextLookupRight == TypeOK' => LookupIsRight'
  BY LookupRight, PTL

\* As long as entries and roots stay, a lookup that found something goes on finding.
LEMMA KnowledgeStays ==
  ASSUME TypeOK, TypeOK', EntriesStay, NEW map \in Maps, NEW t \in Types
  PROVE  \A n \in DOMAIN nodes : Find(map, t)[n] # None => Find(map, t)'[n] # None
<1>. DEFINE S == {n \in DOMAIN nodes : Find(map, t)[n] # None => Find(map, t)'[n] # None}
<1>1. LookupIsRight /\ LookupIsRight'
  BY LookupRight, NextLookupRight
<1>2. ASSUME NEW n \in DOMAIN nodes, \A m \in DOMAIN nodes : m < n => m \in S
      PROVE  n \in S
  <2>1. SUFFICES ASSUME Find(map, t)[n] # None PROVE Find(map, t)'[n] # None
    OBVIOUS
  <2>2. n \in DOMAIN nodes' /\ nodes'[n].roots = nodes[n].roots
    BY DEF EntriesStay
  <2>3. CASE nodes'[n][map][t] # None
    BY <1>1, <2>2, <2>3 DEF LookupIsRight
  <2>4. CASE nodes'[n][map][t] = None
    <3>1. nodes[n][map][t] = None
      BY <2>4 DEF EntriesStay
    <3>2. PICK r \in RangeOf(nodes[n].roots) \cap DOMAIN nodes :
            r < n /\ Find(map, t)[r] # None
      BY <1>1, <2>1, <3>1 DEF LookupIsRight
    <3>3. r \in RangeOf(nodes'[n].roots) /\ Find(map, t)'[r] # None
      BY <1>2, <2>2, <3>2
    <3>. QED
      BY <1>1, <2>2, <2>4, <3>3 DEF LookupIsRight
  <2>. QED
    BY <2>3, <2>4
<1>3. DOMAIN nodes \in SUBSET Nat
  <2>1. nodes \in Seq(Nodes)
    BY DEF TypeOK
  <2>. QED
    BY <2>1
<1>4. DOMAIN nodes \subseteq S
  <2>. HIDE DEF S
  <2>. QED
    BY <1>2, <1>3, InductionBelow
<1>. QED
  BY <1>4

-----------------------------------------------------------------------------
(* Which steps take nothing away *)

\* A new node leaves the others as they are.
LEMMA GrowsStays ==
  ASSUME Inv, NEW roots \in Seq(DOMAIN nodes), Grows(roots)
  PROVE  EntriesStay
<1>1. nodes \in Seq(Nodes) /\ Older(nodes)
  BY InvFacts
<1>2. /\ nodes' \in Seq(Nodes) /\ Len(nodes') = Len(nodes) + 1
      /\ \A m \in DOMAIN nodes : nodes'[m] = nodes[m]
  BY <1>1, GrowsGraph
<1>3. DOMAIN nodes \subseteq DOMAIN nodes'
  BY <1>1, <1>2
<1>. QED
  BY <1>2, <1>3 DEF EntriesStay

\* What an insertion puts into a map is an adapter, so it takes no entry away.
LEMMA InsertStays ==
  ASSUME Inv, NEW n \in DOMAIN nodes, NEW maps, NEW a \in Adapters, NEW action,
         Insert(n, maps, a, action)
  PROVE  EntriesStay
<1>. DEFINE mid == Inserted(nodes[n], maps, a, action)
            new == Owning(mid, a)
<1>1. nodes \in Seq(Nodes) /\ nodes[n] \in Nodes
  BY InvFacts
<1>2. /\ mid \in Nodes /\ mid.roots = nodes[n].roots
      /\ \A map \in Maps : mid[map] = InsertedEntries(nodes[n], map, maps, a, action)
  BY <1>1, InsertedFields
<1>. HIDE DEF mid
<1>3. new \in Nodes /\ new.roots = mid.roots /\ \A map \in Maps : new[map] = mid[map]
  BY <1>2, OwningFields
<1>4. nodes' = [nodes EXCEPT ![n] = new]
  BY DEF Insert, mid
<1>. HIDE DEF new
<1>5. a # None
  BY AdaptersAssumption
<1>6. ASSUME NEW map \in Maps, NEW t \in Types, nodes[n][map][t] # None
      PROVE  new[map][t] # None
  <2>1. nodes[n][map] \in Entries
    BY <1>1 DEF Nodes, Maps
  <2>2. new[map] = InsertedEntries(nodes[n], map, maps, a, action)
    BY <1>2, <1>3
  <2>. QED
    BY <1>5, <1>6, <2>1, <2>2 DEF InsertedEntries, Entries
<1>7. /\ DOMAIN nodes' = DOMAIN nodes
      /\ \A m \in DOMAIN nodes : nodes'[m] = IF m = n THEN new ELSE nodes[m]
  BY <1>1, <1>4
<1>. QED
  BY <1>2, <1>3, <1>6, <1>7 DEF EntriesStay

\* A duplicate is only refused under the action exception, and what had been inserted
\* before it was not there before, so its rollback restores the node.
LEMMA DuplicateStays ==
  ASSUME Inv, NEW n \in DOMAIN nodes, NEW maps \in SUBSET Maps, NEW a \in Adapters,
         NEW action, InsertDuplicate(n, maps, a, action)
  PROVE  EntriesStay
<1>1. nodes \in Seq(Nodes) /\ nodes[n] \in Nodes
  BY InvFacts
<1>2. PICK map \in maps :
         /\ Refuses(nodes[n], map, a, action)
         /\ \A before \in Before(map, maps) : ~Refuses(nodes[n], before, a, action)
         /\ Undo(n, Before(map, maps), a, action)
  BY DEF InsertDuplicate
<1>3. action = "exception" /\ Before(map, maps) \subseteq Maps
  BY <1>2 DEF Refuses, Before, Maps
<1>4. Erased(Inserted(nodes[n], Before(map, maps), a, action), Before(map, maps), a) = nodes[n]
  BY <1>1, <1>2, <1>3, UndoRestores
<1>5. nodes' = [nodes EXCEPT ![n] = nodes[n]]
  BY <1>2, <1>4 DEF Undo
<1>6. nodes' = nodes
  BY <1>1, <1>5
<1>. QED
  BY <1>6 DEF EntriesStay

\* A registration takes no entry away.
LEMMA RegisterStays ==
  ASSUME Inv, NEW n \in held, NEW maps \in SUBSET Maps, NEW a \in Offered, NEW action,
         Register(n, maps, a, action), failures' = failures
  PROVE  EntriesStay
<1>1. n \in DOMAIN nodes /\ a \in Adapters
  BY InvFacts DEF Offered
<1>2. ~InsertNoMemory(n, maps, a, action)
  <2>1. failures \in Nat
    BY DEF Inv, TypeOK
  <2>2. InsertNoMemory(n, maps, a, action) => failures' = failures + 1
    BY Zenon DEF InsertNoMemory
  <2>. QED
    BY <2>1, <2>2
<1>. QED
  BY <1>1, <1>2, InsertStays, DuplicateStays DEF Register

\* All that a program can do to the graph.
LEMMA NextStays ==
  ASSUME Inv, [Next]_vars, failures' = failures
  PROVE  EntriesStay
<1>1. CASE RegisterInAny
  BY <1>1, RegisterStays DEF RegisterInAny
<1>2. CASE Compose \/ Defaults \/ Global \/ Coerced
  BY <1>2, GraphStep, GrowsStays
<1>3. CASE nodes' = nodes
  BY <1>3 DEF EntriesStay
<1>4. UNCHANGED vars \/ SetGlobal \/ ResetGlobal \/ DropAdapter \/ DropFormats => nodes' = nodes
  BY DEF vars, SetGlobal, ResetGlobal, Swap, DropAdapter, DropFormats
<1>. QED
  BY <1>1, <1>2, <1>3, <1>4 DEF Next, GraphNext

\* However a step ends, no node goes away.
LEMMA NodesStay ==
  ASSUME Inv, [Next]_vars
  PROVE  DOMAIN nodes \subseteq DOMAIN nodes'
<1>1. nodes \in Seq(Nodes) /\ Older(nodes)
  BY InvFacts
<1>2. CASE RegisterInAny
  <2>1. PICK n \in held, a \in Offered, maps \in (SUBSET Maps) \ {{}}, action \in Actions :
           Register(n, maps, a, action)
    BY <1>2 DEF RegisterInAny
  <2>2. n \in DOMAIN nodes /\ a \in Adapters /\ maps \in SUBSET Maps
    BY InvFacts DEF Offered
  <2>3. ChangesOnly(n)
    BY <1>1, <2>1, <2>2, RegisterChangesOnly
  <2>4. nodes' \in Seq(Nodes) /\ Len(nodes') = Len(nodes)
    BY <1>1, <2>2, <2>3, ChangeKeepsGraph
  <2>. QED
    BY <1>1, <2>4
<1>3. CASE Compose \/ Defaults \/ Global \/ Coerced
  BY <1>3, GraphStep, GrowsStays DEF EntriesStay
<1>4. UNCHANGED vars \/ SetGlobal \/ ResetGlobal \/ DropAdapter \/ DropFormats => nodes' = nodes
  BY DEF vars, SetGlobal, ResetGlobal, Swap, DropAdapter, DropFormats
<1>. QED
  BY <1>2, <1>3, <1>4 DEF Next, GraphNext

-----------------------------------------------------------------------------
(* The steps of a builder *)

BuilderInv == Inv /\ BuilderTypeOK /\ CheckedFormatsStayComplete

\* Every step of a builder but compose_checked is one of the graph.
LEMMA GraphOrCompose ==
  ASSUME BuilderTypeOK, [BuilderNext]_allVars
  PROVE  [Next]_vars \/ ComposeChecked
<1>1. NewBuilder => Compose
  BY DEF NewBuilder, Compose
<1>2. BuilderRegister => RegisterInAny
  <2>. SUFFICES ASSUME BuilderRegister PROVE RegisterInAny
    OBVIOUS
  <2>1. PICK a \in Offered : Register(builder, Maps, a, on_duplicate)
    BY DEF BuilderRegister
  <2>2. builder \in held
    BY <2>1 DEF Register, Insert, InsertDuplicate, InsertNoMemory, Call
  <2>3. on_duplicate \in Actions /\ Maps \in (SUBSET Maps) \ {{}}
    <3>1. {} # Maps
      BY DEF Maps
    <3>. QED
      BY <3>1 DEF BuilderTypeOK
  <2>4. registrations < MaxRegistrations
    BY DEF BuilderRegister
  <2>. QED
    BY <2>1, <2>2, <2>3, <2>4, Zenon DEF RegisterInAny
<1>. QED
  BY <1>1, <1>2 DEF BuilderNext, Next, GraphNext, OnDuplicateType, allVars

\* compose_checked makes a node out of the builder's and others, which the program only
\* gets if it passes the check.
LEMMA ComposeCheckedGrows ==
  ASSUME Inv, BuilderTypeOK, ComposeChecked
  PROVE  \E roots \in Seq(DOMAIN nodes) : Grows(roots)
<1>1. PICK others \in {<<>>} \cup {<<m>> : m \in held} :
         /\ nodes' = Append(nodes, Node(<<builder>> \o others))
         /\ held' = held \/ held' = held \cup {Len(nodes) + 1}
         /\ Returns \/ Throws("unknown types", "none")
         /\ UNCHANGED <<global, kept, registrations, failures>>
  BY Zenon DEF ComposeChecked
<1>2. builder \in DOMAIN nodes
  BY DEF ComposeChecked, HasBuilder, BuilderTypeOK
<1>3. <<builder>> \o others \in Seq(DOMAIN nodes)
  <2>. DEFINE S == DOMAIN nodes
  <2>1. held \subseteq S /\ builder \in S
    BY <1>2, InvFacts
  <2>2. others = <<>> \/ \E m \in S : others = <<m>>
    BY <1>1, <2>1
  <2>. HIDE DEF S
  <2>3. <<>> \in Seq(S) /\ <<builder>> \in Seq(S)
    BY <2>1, ShortSequences
  <2>4. \A m \in S : <<m>> \in Seq(S)
    BY ShortSequences
  <2>5. others \in Seq(S)
    BY <2>2, <2>3, <2>4
  <2>. QED
    BY <2>3, <2>5 DEF S
<1>4. result'.ended \in {"returned", "unknown types"}
  <2>1. Returns => result'.ended = "returned"
    BY DEF Returns, Success
  <2>2. Throws("unknown types", "none") => result'.ended = "unknown types"
    BY ThrownFields
  <2>. QED
    BY <1>1, <2>1, <2>2
<1>. QED
  BY <1>1, <1>3, <1>4 DEF Grows

\* A step of the builder keeps the graph in order, takes no node away, and takes no entry
\* away unless an allocation fails.
LEMMA BuilderStepOnGraph ==
  ASSUME Inv, BuilderTypeOK, [BuilderNext]_allVars
  PROVE  /\ Inv'
         /\ DOMAIN nodes \subseteq DOMAIN nodes'
         /\ failures' = failures => EntriesStay
<1>1. CASE ComposeChecked
  <2>1. PICK roots \in Seq(DOMAIN nodes) : Grows(roots)
    BY <1>1, ComposeCheckedGrows
  <2>. QED
    BY <2>1, GrowsInv, GrowsStays DEF EntriesStay
<1>2. CASE [Next]_vars
  BY <1>2, StepInv, NextStays, NodesStay
<1>. QED
  BY <1>1, <1>2, GraphOrCompose

\* The types of the builder.
LEMMA BuilderTypes ==
  ASSUME Inv, BuilderTypeOK, [BuilderNext]_allVars
  PROVE  BuilderTypeOK'
<1>1. TypeOK' /\ DOMAIN nodes \subseteq DOMAIN nodes'
  BY BuilderStepOnGraph DEF Inv
<1>2. CASE NewBuilder
  <2>1. <<>> \in Seq(DOMAIN nodes)
    OBVIOUS
  <2>2. nodes \in Seq(Nodes) /\ Older(nodes) /\ Len(nodes) \in Nat /\ Grows(<<>>)
    BY <1>2, InvFacts, CreateGrows DEF NewBuilder
  <2>3. nodes' \in Seq(Nodes) /\ Len(nodes') = Len(nodes) + 1
    BY <2>1, <2>2, GrowsGraph
  <2>4. Len(nodes) + 1 \in DOMAIN nodes'
    BY <2>2, <2>3
  <2>. QED
    BY <1>1, <1>2, <2>4 DEF NewBuilder, BuilderTypeOK
<1>3. CASE OnDuplicateType \/ BuilderRegister
  BY <1>1, <1>3 DEF OnDuplicateType, BuilderRegister, BuilderTypeOK
<1>4. CASE ComposeChecked
  <2>1. PICK roots \in Seq(DOMAIN nodes) : Grows(roots)
    BY <1>4, ComposeCheckedGrows
  <2>2. nodes \in Seq(Nodes) /\ Older(nodes) /\ Len(nodes) \in Nat
    BY InvFacts
  <2>3. nodes' \in Seq(Nodes) /\ Len(nodes') = Len(nodes) + 1
    BY <2>1, <2>2, GrowsGraph
  <2>4. Len(nodes) + 1 \in DOMAIN nodes'
    BY <2>2, <2>3
  <2>5. /\ UNCHANGED <<builder, on_duplicate, referenced>>
        /\ \/ checked' = checked
           \/ checked' = checked \cup {[node |-> Len(nodes) + 1, types |-> referenced]}
    BY <1>4, Zenon DEF ComposeChecked
  <2>. QED
    BY <1>1, <2>4, <2>5 DEF BuilderTypeOK
<1>5. CASE UNCHANGED builderVars
  BY <1>1, <1>5 DEF builderVars, BuilderTypeOK
<1>. QED
  BY <1>2, <1>3, <1>4, <1>5 DEF BuilderNext, allVars

\* Only allocations that fail are counted, one at a time.
LEMMA FailuresCounted ==
  ASSUME Inv, BuilderTypeOK, [BuilderNext]_allVars, failures' = 0
  PROVE  failures' = failures
<1>1. failures \in Nat
  BY DEF Inv, TypeOK
<1>2. CASE ComposeChecked
  BY <1>2, ComposeCheckedGrows DEF Grows
<1>3. CASE RegisterInAny
  <2>1. PICK n \in held, a \in Offered, action \in Actions, maps \in (SUBSET Maps) \ {{}} :
           Register(n, maps, a, action)
    BY <1>3 DEF RegisterInAny
  <2>2. failures' = failures \/ failures' = failures + 1
    BY <2>1, Zenon DEF Register, Insert, InsertDuplicate, InsertNoMemory
  <2>. QED
    BY <1>1, <2>2
<1>4. CASE Compose \/ Defaults \/ Global \/ Coerced
  BY <1>4, GraphStep DEF Grows
<1>5. CASE UNCHANGED vars \/ SetGlobal \/ ResetGlobal \/ DropAdapter \/ DropFormats
  BY <1>5 DEF vars, SetGlobal, ResetGlobal, Swap, DropAdapter, DropFormats
<1>. QED
  BY <1>2, <1>3, <1>4, <1>5, GraphOrCompose DEF Next, GraphNext

\* What has been promised stays true, and what is promised now is.
LEMMA PromisesStay ==
  ASSUME BuilderInv, [BuilderNext]_allVars
  PROVE  CheckedFormatsStayComplete'
<1>. SUFFICES ASSUME failures' = 0, NEW map \in Maps, NEW t \in Types,
                     NEW c \in checked', t \in c.types
              PROVE  Find(map, t)'[c.node] # None
  BY DEF CheckedFormatsStayComplete
<1>1. Inv /\ BuilderTypeOK
  BY DEF BuilderInv
<1>2. failures = 0 /\ failures' = failures
  BY <1>1, FailuresCounted
<1>3. TypeOK /\ TypeOK' /\ EntriesStay
  BY <1>1, <1>2, BuilderStepOnGraph DEF Inv
<1>4. CASE c \in checked
  <2>1. Find(map, t)[c.node] # None /\ c.node \in DOMAIN nodes
    BY <1>1, <1>2, <1>4 DEF BuilderInv, CheckedFormatsStayComplete, BuilderTypeOK
  <2>. QED
    BY <1>3, <2>1, KnowledgeStays
<1>5. CASE c \notin checked
  <2>1. ComposeChecked
    BY <1>5
       DEF BuilderNext, allVars, builderVars, NewBuilder, OnDuplicateType, BuilderRegister
  <2>. DEFINE find == [m \in Maps |-> [u \in Types |-> Find(m, u)']]
  <2>. DEFINE promise == [node |-> Len(nodes) + 1, types |-> referenced]
  <2>2. \/ checked' = checked
        \/ /\ checked' = checked \cup {promise}
           /\ \A u \in referenced : Knows(find, u, Len(nodes) + 1)
    BY <2>1, Zenon DEF ComposeChecked
  <2>3. c = promise /\ \A u \in referenced : Knows(find, u, Len(nodes) + 1)
    BY <1>5, <2>2
  <2>4. c.node = Len(nodes) + 1 /\ c.types = referenced
    BY <2>3
  <2>5. Knows(find, t, c.node)
    BY <2>3, <2>4
  <2>6. find[map][t] = Find(map, t)'
    OBVIOUS
  <2>. QED
    BY <2>5, <2>6 DEF Knows
<1>. QED
  BY <1>4, <1>5

-----------------------------------------------------------------------------
(* The theorems *)

\* The invariant of formats_builder holds at first.
LEMMA BuilderInit_Inv == BuilderInit => BuilderInv
<1>. SUFFICES ASSUME BuilderInit PROVE BuilderInv
  OBVIOUS
<1>1. Inv
  BY InitInv DEF BuilderInit
<1>. QED
  BY <1>1 DEF BuilderInit, BuilderInv, BuilderTypeOK, CheckedFormatsStayComplete, Actions, Inv

\* Every step of formats_builder keeps it.
LEMMA BuilderStep == BuilderInv /\ [BuilderNext]_allVars => BuilderInv'
  BY BuilderStepOnGraph, BuilderTypes, PromisesStay DEF BuilderInv

\* It always holds.
LEMMA BuilderInvariance == BuilderSpec => []BuilderInv
  BY BuilderInit_Inv, BuilderStep, PTL DEF BuilderSpec

\* The builder's state keeps its types; its formats, and those it has composed, are nodes of
\* a graph without loops.
THEOREM BuilderStaysTyped == BuilderSpec => []BuilderTypeOK
<1>1. BuilderInv => BuilderTypeOK
  BY DEF BuilderInv
<1>. QED
  BY <1>1, BuilderInvariance, PTL

\* What compose_checked has found to be complete stays complete: later registrations in any
\* formats, replaced and refused ones included, take nothing away from a lookup, as long as
\* no allocation fails.
THEOREM CheckedStayComplete == BuilderSpec => []CheckedFormatsStayComplete
<1>1. BuilderInv => CheckedFormatsStayComplete
  BY DEF BuilderInv
<1>. QED
  BY <1>1, BuilderInvariance, PTL
=============================================================================
