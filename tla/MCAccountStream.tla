-------------------------- MODULE MCAccountStream --------------------------
(* Model-checking instances of AccountStream. *)
EXTENDS AccountStream
=============================================================================
