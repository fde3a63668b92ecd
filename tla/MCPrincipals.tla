---------------------------- MODULE MCPrincipals ----------------------------
(* Model-checking instances of Principals. *)
EXTENDS Principals, TLC

\* Handlers, keys and field values are interchangeable.
HandlerKeySymmetry ==
  Permutations(Handlers) \union Permutations(Keys) \union Permutations(Values)
=============================================================================
