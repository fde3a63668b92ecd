----------------------------- MODULE MCArticles -----------------------------
(* Model-checking instances of Articles. *)
EXTENDS Articles, TLC

\* Handlers are interchangeable.
HandlerSymmetry == Permutations(Handlers)
=============================================================================
