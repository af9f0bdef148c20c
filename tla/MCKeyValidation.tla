--------------------------- MODULE MCKeyValidation ---------------------------
(***************************************************************************)
(* KeyValidation on a few instances.                                       *)
(***************************************************************************)
EXTENDS KeyValidation
=============================================================================
