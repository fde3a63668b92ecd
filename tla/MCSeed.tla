------------------------------- MODULE MCSeed -------------------------------
(* Model-checking instance of Seed: two systems, one user, and an account  *)
(* with a draft.  The ranker has two scopes, the one that ranks first.     *)
(* One directory adds the account that the user follows, one an article,   *)
(* one has the key of an account that is not planned and one that of a     *)
(* system that is not; successive runs may read any of them.               *)
EXTENDS Seed

CONSTANTS ranker, admin, s3, a1, a2, a3, u1, x1, d1

Base == [systems |-> <<admin, ranker>>, accounts |-> <<a1>>, users |-> <<u1>>,
         articles |-> <<>>, drafts |-> <<d1>>]
MCPlans == {[Base EXCEPT !.accounts = <<a1, a2>>], [Base EXCEPT !.articles = <<x1>>],
            [Base EXCEPT !.accounts = <<a1, a3>>],
            [Base EXCEPT !.systems = <<admin, ranker, s3>>]}
MCOwner == [e \in {x1, d1} |-> a1]
MCFollows == << <<u1, a2>> >>
MCSystems == [s \in {admin, ranker} |->
                IF s = ranker THEN <<RankScope, "events.read">> ELSE <<"admin.*">>]
=============================================================================
