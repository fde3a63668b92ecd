------------------------------- MODULE MCTso -------------------------------
(* Model-checking instances of Tso. *)
EXTENDS Tso, TLC

\* Threads are interchangeable.
ThreadSymmetry == Permutations(Threads)
=============================================================================
