--------------------------- MODULE FormatsBuilder ---------------------------
(***************************************************************************)
(* jsonv::formats_builder (src/include/jsonv/serialization_builder.hpp,    *)
(* src/jsonv/serialization_builder.cpp) on top of Formats: a builder fills *)
(* a formats of its own, remembers the types the adapters it registers     *)
(* refer to, and checks that they can all be found before it composes its  *)
(* formats with others.                                                    *)
(*                                                                         *)
(* The builder's formats can be had from it at any time (operator formats) *)
(* and is the same node, so the program is free to go on with both.        *)
(***************************************************************************)
EXTENDS Formats

VARIABLES
    builder,     \* the node of formats_builder::_formats; 0 before there is a builder
    on_duplicate,\* formats_builder::_duplicate_type_action
    referenced,  \* formats_builder::_referenced_types
    checked      \* what compose_checked has returned: nodes, with the types checked

builderVars == <<builder, on_duplicate, referenced, checked>>
allVars == <<vars, builderVars>>

BuilderInit ==
    /\ Init
    /\ builder = 0 /\ on_duplicate = "exception"
    /\ referenced = {} /\ checked = {}

NewBuilder ==
    /\ builder = 0
    /\ Create(<<>>)
    /\ builder' = Len(nodes) + 1
    /\ UNCHANGED <<on_duplicate, referenced, checked>>

HasBuilder == builder # 0

OnDuplicateType ==
    /\ HasBuilder
    /\ on_duplicate' \in Actions
    /\ UNCHANGED <<vars, builder, referenced, checked>>

\* type, enum_type, polymorphic_type, register_optional, register_container,
\* register_adapter: the types the adapter refers to are noted first, and stay noted if
\* it cannot be registered.
BuilderRegister ==
    /\ HasBuilder /\ registrations < MaxRegistrations
    /\ \E a \in Offered, types \in SUBSET Types :
          /\ Register(builder, Maps, a, on_duplicate)
          /\ referenced' = referenced \cup types
    /\ UNCHANGED <<builder, on_duplicate, checked>>

-----------------------------------------------------------------------------

\* check_references_impl, for one type.
Knows(find, t, n) == \A map \in Maps : find[map][t][n] # None

\* compose_checked(others): the composed formats is thrown away if a type is missing.
ComposeChecked == \E others \in {<<>>} \cup {<<m>> : m \in held} :
    /\ HasBuilder /\ Len(nodes) < MaxNodes
    /\ LET roots == <<builder>> \o others
           n     == Len(nodes) + 1
           find  == [map \in Maps |-> [t \in Types |-> Find(map, t)']]
       IN  /\ nodes' = Append(nodes, Node(roots))
           /\ IF \A t \in referenced : Knows(find, t, n)
              THEN /\ held' = held \cup {n}
                   /\ checked' = checked \cup {[node |-> n, types |-> referenced]}
                   /\ Returns
              ELSE /\ UNCHANGED <<held, checked>>
                   /\ Throws("unknown types", "none")
    /\ UNCHANGED <<global, kept, registrations, failures, builder, on_duplicate, referenced>>

BuilderNext ==
    \/ NewBuilder \/ OnDuplicateType \/ BuilderRegister \/ ComposeChecked
    \/ (GraphNext /\ UNCHANGED builderVars)
    \/ (DropFormats /\ builder \in held' \cup {0} /\ UNCHANGED builderVars)

BuilderSpec == BuilderInit /\ [][BuilderNext]_allVars

-----------------------------------------------------------------------------
(* Properties *)

\* A formats that compose_checked has returned goes on knowing every type it was checked
\* for, whatever is registered anywhere afterwards -- in it, in the builder, or in the
\* formats they are composed of -- as long as no allocation fails.
CheckedFormatsStayComplete ==
    failures = 0 =>
        \A map \in Maps, t \in Types :
            LET find == Find(map, t)
            IN  \A c \in checked : t \in c.types => find[c.node] # None

\* The types of the variables of the builder and of the graph.
BuilderTypeOK ==
    /\ TypeOK
    /\ builder \in DOMAIN nodes \cup {0}
    /\ on_duplicate \in Actions
    /\ referenced \subseteq Types
    /\ \A c \in checked : c.node \in DOMAIN nodes /\ c.types \subseteq Types
=============================================================================
