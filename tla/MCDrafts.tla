------------------------------ MODULE MCDrafts ------------------------------
(* Model-checking instances of Drafts. *)
EXTENDS Drafts, TLC

\* Handlers are interchangeable, and so are the texts.
HandlerTextSymmetry == Permutations(Handlers) \union Permutations(Texts)
=============================================================================
