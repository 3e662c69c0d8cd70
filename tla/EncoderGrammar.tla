--------------------------- MODULE EncoderGrammar ---------------------------
(***************************************************************************)
(* The output of Encoder, against the reference grammar.                   *)
(***************************************************************************)
EXTENDS Encoder, JsonGrammar

\* The strictest settings of parse_options, but for those that limit the shape of a value.
StrictOptions ==
    [string_encoding |-> "utf8", number_encoding |-> "decimal", comma_policy |-> "strict",
     comments |-> FALSE, require_document |-> FALSE, complete_parse |-> TRUE,
     max_structure_depth |-> 0]

\* What encode writes, if the stream takes it, is a document for the parser under its
\* strictest options, and denotes the value.
OutputIsTheValue == Returned => Documents(out, StrictOptions) = {Printed(source)}
=============================================================================
