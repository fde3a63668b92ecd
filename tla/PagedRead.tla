----------------------------- MODULE PagedRead -----------------------------
(***************************************************************************)
(* What a paged listing promises to a client that follows its page tokens  *)
(* while other requests change the rows in any way: each page is a run of  *)
(* the rows beyond the token, from the first one on, and the token is      *)
(* empty only when nothing was left.  A page may be shorter than asked     *)
(* for, and the client may give up or start again at any time.             *)
(***************************************************************************)
EXTENDS Keyset

Rows == [item : Int, key : Int \X Int]

VARIABLES
  rows,     \* the rows the listing selects now
  phase,    \* "idle", "open" (more pages to come) or "ended"
  token,    \* the page token the client holds
  page,     \* the page it received last
  got,      \* what the pages before that one held
  steady    \* history: the rows that were there, unchanged, ever since the scan began

vars == <<rows, phase, token, page, got, steady>>

PagedTypeOK ==
  /\ rows \subseteq Rows /\ DistinctKeys(rows)
  /\ phase \in {"idle", "open", "ended"}
  /\ token \subseteq Int \X Int
  /\ page \subseteq Rows /\ got \subseteq Rows /\ steady \subseteq rows

Init ==
  /\ rows \subseteq Rows /\ DistinctKeys(rows)
  /\ phase = "idle" /\ token = {} /\ page = {} /\ got = {} /\ steady = {}

(* Other requests insert, update and delete rows. *)
Change ==
  /\ rows' \subseteq Rows /\ DistinctKeys(rows')
  /\ steady' = steady \intersect rows'
  /\ UNCHANGED <<phase, token, page, got>>

(* A scan begins, of this or of another listing. *)
Open ==
  /\ rows' \subseteq Rows /\ DistinctKeys(rows')
  /\ phase' = "open" /\ token' = {} /\ page' = {} /\ got' = {}
  /\ steady' = rows'

Run(p, s) == p \subseteq s /\ \A r \in p, q \in s \ p : Before(r.key, q.key)

ReadPage ==
  /\ phase = "open"
  /\ Run(page', Beyond(token, rows))
  /\ got' = got \union page
  /\ \/ page' = Beyond(token, rows) /\ phase' = "ended" /\ token' = {}
     \/ /\ page' # Beyond(token, rows) /\ UNCHANGED phase
        /\ \E last \in page' :
             (\A r \in page' : ~Before(last.key, r.key)) /\ token' = {last.key}
  /\ UNCHANGED <<rows, steady>>

(* The client gives up, or a page fails. *)
GiveUp ==
  /\ rows' \subseteq Rows /\ DistinctKeys(rows')
  /\ phase' = "idle" /\ token' = {} /\ page' = {} /\ got' = {} /\ steady' = {}

Next == Change \/ Open \/ ReadPage \/ GiveUp

Spec == Init /\ [][Next]_vars

-----------------------------------------------------------------------------
(* Following the tokens to the end returns every row that was there        *)
(* unchanged from the first page on, whatever happened to the others.      *)
ScanComplete == phase = "ended" => steady \subseteq got \union page

(* Pages go forward only, so no row is returned twice.                     *)
ScanForward == \A r \in got, q \in page : Before(r.key, q.key)
=============================================================================
