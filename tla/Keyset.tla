------------------------------- MODULE Keyset -------------------------------
(***************************************************************************)
(* The keyset pages of the listings.  A row is an item with a sort key;    *)
(* keys are pairs of integers in ascending lexicographic order (a listing  *)
(* in descending order negates both).  A page token is the set of the key  *)
(* it holds, empty for the empty token.                                    *)
(***************************************************************************)
EXTENDS Integers, FiniteSets

(* (a, b) < (c, d), as the row comparison of SQL. *)
Before(k, l) == k[1] < l[1] \/ (k[1] = l[1] /\ k[2] < l[2])

(* Mutant: the cursor clause looks at the first part of the key only. *)
BeyondFirstPart(token, rows) == {r \in rows : \A k \in token : k[1] < r.key[1]}

(* The rows the cursor clause lets through: all with the empty token. *)
Beyond(token, rows) == {r \in rows : \A k \in token : Before(k, r.key)}

(* ORDER BY key LIMIT n *)
First(n, rows) == {r \in rows : Cardinality({q \in rows : Before(q.key, r.key)}) < n}

(* encode_cursor of the last row *)
TokenOf(rows) == {r.key : r \in {r \in rows : \A q \in rows : ~Before(r.key, q.key)}}

DistinctKeys(rows) == \A r, q \in rows : r.key = q.key => r = q
=============================================================================
