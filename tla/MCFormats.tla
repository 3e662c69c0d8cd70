----------------------------- MODULE MCFormats -----------------------------
(***************************************************************************)
(* Model checking of Formats: two types, one of which the library knows.   *)
(***************************************************************************)
EXTENDS Formats

\* int is known to the library, thing is the program's own.  The program has an adapter
\* for each, and holds the one for int by a shared_ptr.
MCTypes    == {"int", "thing"}
MCTypeOf   == [strict_int |-> "int", coerce_int |-> "int", shared_int |-> "int",
               thing |-> "thing"]
MCAdapters == DOMAIN MCTypeOf
MCManaged  == {"shared_int"}
MCStrict   == [t \in MCTypes |-> IF t = "int" THEN "strict_int" ELSE "none"]
MCCoercing == [t \in MCTypes |-> IF t = "int" THEN "coerce_int" ELSE "none"]

-----------------------------------------------------------------------------
(* What a test says and the code does not do *)

\* defaults, global and coerce return sub-formats "so nobody can change the real ones".
NobodyChangesTheRealOnes == [][\A n \in Statics, map \in Maps : nodes'[n][map] = nodes[n][map]]_vars
=============================================================================
