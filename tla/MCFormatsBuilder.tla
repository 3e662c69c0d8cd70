-------------------------- MODULE MCFormatsBuilder --------------------------
(***************************************************************************)
(* Model checking of FormatsBuilder, with the types and adapters of        *)
(* MCFormats.                                                              *)
(***************************************************************************)
EXTENDS FormatsBuilder, MCFormats
=============================================================================
