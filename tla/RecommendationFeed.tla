------------------------- MODULE RecommendationFeed -------------------------
(***************************************************************************)
(* The recommendation feed of each user and the rankers that replace it.   *)
(* replace is a transaction at READ COMMITTED: a DELETE of the user's rows *)
(* and an INSERT at positions 0, 1, ...  A DELETE takes its snapshot when  *)
(* it starts, then waits for the transactions that have deleted the same   *)
(* rows; an INSERT waits for those that hold the same positions, and fails *)
(* on a committed row.                                                     *)
(***************************************************************************)
EXTENDS Directory, Sequences

CONSTANTS
  Rankers,    \* replace requests that run concurrently
  Lists,      \* what they push
  MaxItems,   \* feeds.replace_max_items
  InitFeed    \* the feed of each user at the start

ASSUME FeedAssumption ==
  /\ Lists \subseteq Seq(Articles) /\ MaxItems \in Nat
  /\ InitFeed \in [Users -> Lists]

VARIABLES
  feed,   \* the rows of feed_recommendation per user
  rreq,   \* each request's progress
  last    \* history per user: the acknowledged replaces that no other
          \* acknowledged replace began after

feedVars == <<feed, rreq, last>>

(* by, the request that wrote the row, stands for the identity of the row  *)
(* version.                                                                *)
RowsOf(push) ==
  {[position |-> i - 1, article |-> push.list[i], by |-> push.id] : i \in DOMAIN push.list}
Pushes == [id : 0..MaxRequests, list : Lists]
FeedRows == UNION {RowsOf(p) : p \in Pushes}

NoReplace ==
  [pc |-> "idle", user |-> 0, push |-> [id |-> 0, list |-> <<>>], target |-> {},
   prior |-> {}, before |-> FALSE]

FeedTypeOK ==
  /\ feed \in [Users -> SUBSET FeedRows]
  /\ \A u \in Users, r, q \in FeedRows :
       {r, q} \subseteq feed[u] /\ r.position = q.position => r = q
  /\ last \in [Users -> SUBSET Pushes]
  /\ \A h \in Rankers :
       \/ rreq[h] = NoReplace
       \/ /\ rreq[h].pc \in {"user", "delete", "deleting", "insert", "commit"}
          /\ rreq[h].user \in Users /\ rreq[h].push \in Pushes
          /\ rreq[h].target \subseteq FeedRows /\ Len(rreq[h].push.list) <= MaxItems

Initial(u) == [id |-> 0, list |-> InitFeed[u]]
FeedInit ==
  /\ feed = [u \in Users |-> RowsOf(Initial(u))]
  /\ rreq = [h \in Rankers |-> NoReplace]
  /\ last = [u \in Users |-> {Initial(u)}]

Goto(h, from, to) ==
  /\ rreq[h].pc = from
  /\ rreq' = [rreq EXCEPT ![h].pc = to]

RankerDone(h) == rreq' = [rreq EXCEPT ![h] = NoReplace]

(* A caller without the scope is refused at once, and so is a list that is *)
(* too long or names an article twice.                                     *)
Duplicates(list) == \E i, j \in DOMAIN list : i # j /\ list[i] = list[j]

ReplaceBegin(h, u, list) ==
  /\ rreq[h].pc = "idle"
  /\ Len(list) <= MaxItems /\ ~Duplicates(list)
  /\ Serve
  /\ rreq' = [rreq EXCEPT ![h] =
       [pc |-> "user", user |-> u, push |-> [id |-> served + 1, list |-> list],
        target |-> {}, prior |-> last[u], before |-> u \in gone]]
  /\ UNCHANGED <<gone, state, drafts, feed, last>>

ReplaceCheckUser(h) ==
  /\ rreq[h].pc = "user"
  /\ \/ rreq[h].user \in gone /\ RankerDone(h)
     \/ rreq[h].user \notin gone /\ Goto(h, "user", "delete")
  /\ UNCHANGED <<directoryVars, feed, last>>

DeleteStart(h) ==
  /\ rreq[h].pc = "delete"
  /\ rreq' = [rreq EXCEPT ![h].pc = "deleting", ![h].target = feed[rreq[h].user]]
  /\ UNCHANGED <<directoryVars, feed, last>>

Open(h) == rreq[h].pc \in {"insert", "commit"}
Others(h) == {g \in Rankers \ {h} : Open(g) /\ rreq[g].user = rreq[h].user}

(* Rows that another transaction has deleted and committed are skipped. *)
DeleteEnd(h) ==
  /\ rreq[h].pc = "deleting"
  /\ \A g \in Others(h) : rreq[g].target \intersect rreq[h].target = {}
  /\ rreq' = [rreq EXCEPT ![h].pc = "insert",
                          ![h].target = @ \intersect feed[rreq[h].user]]
  /\ UNCHANGED <<directoryVars, feed, last>>

Positions(rows) == {r.position : r \in rows}
Inserted(h) == IF rreq[h].pc = "commit" THEN RowsOf(rreq[h].push) ELSE {}

Insert(h) ==
  LET rows == RowsOf(rreq[h].push)
      taken == feed[rreq[h].user] \ rreq[h].target
  IN  /\ rreq[h].pc = "insert"
      /\ \A g \in Others(h) :
           Positions(Inserted(g) \union rreq[g].target) \intersect Positions(rows) = {}
      /\ \/ Positions(taken) \intersect Positions(rows) = {} /\ Goto(h, "insert", "commit")
         \/ Positions(taken) \intersect Positions(rows) # {} /\ RankerDone(h)
      /\ UNCHANGED <<directoryVars, feed, last>>

(* Mutant: only the rows at the positions of the new list are replaced, so *)
(* that a shorter list keeps the tail of the old one.                      *)
CommitKeepsOld(h) ==
  LET u == rreq[h].user
  IN  /\ rreq[h].pc = "commit"
      /\ feed' = [feed EXCEPT ![u] =
           {r \in @ : r.position \notin Positions(RowsOf(rreq[h].push))}
             \union RowsOf(rreq[h].push)]
      /\ last' = [last EXCEPT ![u] = (@ \ rreq[h].prior) \union {rreq[h].push}]
      /\ RankerDone(h)
      /\ UNCHANGED directoryVars

Commit(h) ==
  LET u == rreq[h].user
  IN  /\ rreq[h].pc = "commit"
      /\ feed' = [feed EXCEPT ![u] = (@ \ rreq[h].target) \union RowsOf(rreq[h].push)]
      /\ last' = [last EXCEPT ![u] = (@ \ rreq[h].prior) \union {rreq[h].push}]
      /\ RankerDone(h)
      /\ UNCHANGED directoryVars

(* The connection is lost or the request is cancelled: rollback. *)
RankerAbort(h) ==
  /\ rreq[h].pc # "idle"
  /\ RankerDone(h)
  /\ UNCHANGED <<directoryVars, feed, last>>

FeedNext ==
  \E h \in Rankers :
    \/ \E u \in Users, list \in Lists : ReplaceBegin(h, u, list)
    \/ ReplaceCheckUser(h) \/ DeleteStart(h) \/ DeleteEnd(h) \/ Insert(h) \/ Commit(h)
    \/ RankerAbort(h)

(* The feed of a user is at any time the whole list of one replace, never  *)
(* a mixture of two; and that replace was not superseded: no replace that  *)
(* began after it was acknowledged has been acknowledged since.            *)
LatestReplaceServed ==
  \A u \in Users : \E push \in last[u] : feed[u] = RowsOf(push)
=============================================================================
