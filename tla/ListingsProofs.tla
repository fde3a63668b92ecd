--------------------------- MODULE ListingsProofs ---------------------------
(***************************************************************************)
(* Proofs about Listings and the components it reads: follow edges,        *)
(* recommendation feeds and the event log, for any users, accounts,        *)
(* articles, lists, requests, page sizes and numbers of handlers.          *)
(*                                                                         *)
(* ListingsInv, the inductive invariant, has a part per component.  The    *)
(* listings are then shown to implement PagedRead, and PagedRead to be     *)
(* exact, which gives ScanExact.                                           *)
(***************************************************************************)
EXTENDS Listings, FiniteSetTheorems, WellFoundedInduction, TLAPS

-----------------------------------------------------------------------------
(* The inductive invariant. *)

FollowRequests ==
  {NoFollowRequest} \union
  [pc : {"user", "account", "select", "upsert", "unfollow", "update"}, edge : Edges,
   now : Instants \union {0}, before : BOOLEAN]

\* A follow that was late for its user or its account does not pass the check
\* of the one it was late for; an unfollow that saw the edge will find it.
FollowInv ==
  /\ follows \in [Edges -> {NoEdge} \union EdgeRows]
  /\ freq \in [FollowHandlers -> FollowRequests]
  /\ \A h \in FollowHandlers :
       /\ freq[h].pc \in {"upsert", "update"} => freq[h].now \in Instants
       /\ freq[h].pc = "update" => follows[freq[h].edge].status # "none"
       /\ freq[h].pc = "user" /\ freq[h].before =>
            freq[h].edge[1] \in gone \/ freq[h].edge[2] \in gone
       /\ freq[h].pc = "account" /\ freq[h].before => freq[h].edge[2] \in gone
       /\ freq[h].pc \in {"select", "upsert"} => ~freq[h].before

ReplaceRequests ==
  [pc : {"idle", "user", "delete", "deleting", "insert", "commit"}, user : Int,
   push : [id : 0..MaxRequests, list : Lists \union {<<>>}], target : SUBSET FeedRows,
   prior : SUBSET Pushes, before : BOOLEAN]

Busy(h) == rreq[h].pc # "idle"
\* The request has taken its snapshot of the rows to delete.
Aimed(h) == rreq[h].pc \in {"deleting", "insert", "commit"}

FeedRequestsOK ==
  /\ rreq \in [Rankers -> ReplaceRequests]
  /\ feed \in [Users -> SUBSET FeedRows]
  /\ last \in [Users -> SUBSET Pushes]
  /\ \A h \in Rankers :
       /\ rreq[h].pc = "idle" => rreq[h] = NoReplace
       /\ Busy(h) => /\ rreq[h].user \in Users /\ rreq[h].push \in Pushes
                     /\ Len(rreq[h].push.list) <= MaxItems
       /\ rreq[h].pc = "user" /\ rreq[h].before => rreq[h].user \in gone
       /\ rreq[h].pc \in {"delete", "deleting", "insert", "commit"} => ~rreq[h].before

\* A replace that is under way has a number of its own: no acknowledged
\* replace, no row to delete and no other replace carries it.
FreshPush(h) ==
  /\ rreq[h].push.id \in 1..served
  /\ \A u \in Users : \A p \in last[u] : p.id # rreq[h].push.id
  /\ \A g \in Rankers : \A p \in rreq[g].prior : p.id # rreq[h].push.id
  /\ \A g \in Rankers : \A r \in rreq[g].target : r.by # rreq[h].push.id
  /\ \A g \in Rankers : Busy(g) /\ g # h => rreq[g].push.id # rreq[h].push.id

Numbered ==
  /\ \A h \in Rankers : Busy(h) => FreshPush(h)
  /\ \A u \in Users : \A p \in last[u] : p.id <= served
  /\ \A h \in Rankers : \A p \in rreq[h].prior : p.id <= served
  /\ \A h \in Rankers : \A r \in rreq[h].target : r.by <= served

\* The feed is the whole list of p; every replace that has aimed at other
\* rows began before p was acknowledged.
Serves(u, p) ==
  /\ p \in last[u] /\ feed[u] = RowsOf(p)
  /\ \A h \in Rankers :
       Aimed(h) /\ rreq[h].user = u => rreq[h].target = feed[u] \/ p \notin rreq[h].prior

\* What a replace has locked is all of the feed or nothing of it; only one
\* holds it, and only that one may have inserted rows.
Locks(h) ==
  LET u == rreq[h].user
  IN  /\ rreq[h].pc = "deleting" =>
           rreq[h].target = feed[u] \/ rreq[h].target \intersect feed[u] = {}
      /\ Open(h) => rreq[h].target = feed[u] \/ rreq[h].target = {}
      /\ rreq[h].pc = "commit" => rreq[h].push.list = <<>> \/ rreq[h].target = feed[u]
      /\ \A g \in Others(h) :
           /\ Open(h) => rreq[g].target \intersect rreq[h].target = {}
           /\ rreq[g].pc = "commit" /\ rreq[h].pc = "commit" =>
                rreq[g].push.list = <<>> \/ rreq[h].push.list = <<>>

Locked == \A h \in Rankers : Locks(h)

FeedInv ==
  /\ FeedRequestsOK /\ Numbered /\ Locked
  /\ \A u \in Users : \E p \in Pushes : Serves(u, p)

Recordings ==
  [pc : {"idle", "validate", "insert"}, request : {{}} \union {{r} : r \in EventRequests},
   received : Instants \union {0}]

\* The rows are numbered from 1 on; a request that will insert has an instant
\* and only events that its caller may record.
EventInv ==
  /\ IsFiniteSet(log)
  /\ \A e, f \in log : e.id = f.id => e = f
  /\ \A e \in log : /\ e.id \in 1..Cardinality(log)
                    /\ e.received \in Instants /\ e.user \in Users
  /\ EventsAttributed
  /\ ereq \in [Recorders -> Recordings]
  /\ \A h \in Recorders :
       /\ ereq[h].pc = "idle" <=> ereq[h].request = {}
       /\ ereq[h].pc = "insert" =>
            /\ ereq[h].received \in Instants
            /\ \A r \in ereq[h].request : \A i \in DOMAIN r.events :
                 r.subject.class = "user" => r.events[i].user = r.subject.user

Readers ==
  [pc : {"idle", "user", "select", "hydrate"}, phase : {"idle", "open", "ended"},
   scan : Scans \union {NoScan.scan}, token : SUBSET (Int \X Int), page : SUBSET Paged!Rows,
   got : SUBSET Paged!Rows, steady : SUBSET Paged!Rows, todo : SUBSET Articles]

\* Between two pages the scan is open.
ReaderInv ==
  /\ reader \in Readers
  /\ reader.pc \in {"user", "select"} => reader.phase = "open"
  /\ reader.pc # "idle" => reader.scan \in Scans
  /\ Cardinality(reader.page) <= Limit

ListingsInv == DirectoryTypeOK /\ FollowInv /\ FeedInv /\ EventInv /\ ReaderInv


-----------------------------------------------------------------------------
(* The recommendation feed. *)

\* The rows of a push: one per item, from position 0 on, all of this push.
LEMMA RowsTyped ==
  ASSUME NEW p \in Pushes
  PROVE  /\ RowsOf(p) \subseteq FeedRows
         /\ \A r \in RowsOf(p) : /\ r.by = p.id /\ r.position \in Nat /\ r.article \in Articles
         /\ \A r, q \in RowsOf(p) : r.position = q.position => r = q
         /\ IsFiniteSet(RowsOf(p))
<1>1. p.list \in Seq(Articles)
  BY FeedAssumption DEF Pushes
<1>2. DOMAIN p.list = 1..Len(p.list) /\ Len(p.list) \in Nat
  BY <1>1
<1>3. RowsOf(p) \subseteq FeedRows
  BY DEF FeedRows
<1>4. ASSUME NEW r \in RowsOf(p)
      PROVE  \E i \in DOMAIN p.list :
               r = [position |-> i - 1, article |-> p.list[i], by |-> p.id]
  BY <1>4 DEF RowsOf
<1>5. \A r \in RowsOf(p) : r.by = p.id /\ r.position \in Nat /\ r.article \in Articles
  BY <1>1, <1>2, <1>4
<1>6. \A r, q \in RowsOf(p) : r.position = q.position => r = q
  <2> SUFFICES ASSUME NEW r \in RowsOf(p), NEW q \in RowsOf(p), r.position = q.position
               PROVE  r = q
    OBVIOUS
  <2>1. PICK i \in DOMAIN p.list :
          r = [position |-> i - 1, article |-> p.list[i], by |-> p.id]
    BY <1>4
  <2>2. PICK j \in DOMAIN p.list :
          q = [position |-> j - 1, article |-> p.list[j], by |-> p.id]
    BY <1>4
  <2>3. i = j
    BY <1>2, <2>1, <2>2
  <2> QED  BY <2>1, <2>2, <2>3
<1>7. IsFiniteSet(RowsOf(p))
  <2> DEFINE f == [i \in DOMAIN p.list |-> [position |-> i - 1, article |-> p.list[i], by |-> p.id]]
  <2>1. IsFiniteSet(DOMAIN p.list)
    <3>1. 1 \in Int /\ Len(p.list) \in Int
      BY <1>2
    <3>2. IsFiniteSet(1..Len(p.list))
      BY <3>1, FS_Interval, Zenon
    <3> QED  BY <1>2, <3>2, Zenon
  <2>2. f \in Surjection(DOMAIN p.list, RowsOf(p))
    BY DEF RowsOf, Surjection
  <2> QED  BY <2>1, <2>2, FS_Surjection
<1> QED  BY <1>3, <1>5, <1>6, <1>7

\* A list that is not empty takes position 0.
LEMMA RowsFirst ==
  ASSUME NEW p \in Pushes
  PROVE  /\ p.list = <<>> => RowsOf(p) = {}
         /\ p.list # <<>> => 0 \in Positions(RowsOf(p))
<1>1. p.list \in Seq(Articles)
  BY FeedAssumption DEF Pushes
<1>2. CASE p.list = <<>>
  BY <1>2 DEF RowsOf
<1>3. CASE p.list # <<>>
  <2>1. 1 \in DOMAIN p.list
    BY <1>1, <1>3
  <2>2. [position |-> 1 - 1, article |-> p.list[1], by |-> p.id] \in RowsOf(p)
    BY <2>1 DEF RowsOf
  <2> QED  BY <1>3, <2>2 DEF Positions
<1> QED  BY <1>2, <1>3

\* A request's record after a step that moves its pc and its target.
Moved(h, to, t) ==
  rreq' = [rreq EXCEPT ![h].pc = to, ![h].target = t]

\* A replace that moves on leaves the others alone and keeps its request.
LEMMA MovedIs ==
  ASSUME FeedRequestsOK, NEW h \in Rankers, NEW t \in SUBSET FeedRows,
         NEW to \in {"delete", "deleting", "insert", "commit"}, Moved(h, to, t)
  PROVE  /\ rreq' \in [Rankers -> ReplaceRequests]
         /\ rreq'[h].pc = to /\ rreq'[h].target = t /\ rreq'[h].user = rreq[h].user
         /\ rreq'[h].push = rreq[h].push /\ rreq'[h].prior = rreq[h].prior
         /\ rreq'[h].before = rreq[h].before
         /\ \A g \in Rankers : g # h => rreq'[g] = rreq[g]
<1>1. rreq[h] \in ReplaceRequests
  BY DEF FeedRequestsOK
<1>2. rreq'[h] = [rreq[h] EXCEPT !.pc = to, !.target = t]
  BY DEF Moved, FeedRequestsOK
<1>3. rreq'[h] \in ReplaceRequests
  BY <1>1, <1>2 DEF ReplaceRequests
<1>4. \A g \in Rankers : g # h => rreq'[g] = rreq[g]
  BY DEF Moved, FeedRequestsOK
<1>5. rreq' \in [Rankers -> ReplaceRequests]
  BY <1>3, <1>4 DEF Moved, FeedRequestsOK
<1> QED  BY <1>1, <1>2, <1>4, <1>5 DEF ReplaceRequests

\* Goto moves a replace without changing what it aims at.
LEMMA GotoIs ==
  ASSUME FeedRequestsOK, NEW h \in Rankers, NEW from, NEW to, Goto(h, from, to)
  PROVE  Moved(h, to, rreq[h].target)
<1>1. rreq[h] \in ReplaceRequests
  BY DEF FeedRequestsOK
<1>2. [rreq[h] EXCEPT !.pc = to] = [rreq[h] EXCEPT !.pc = to, !.target = rreq[h].target]
  BY <1>1 DEF ReplaceRequests
<1>3. rreq' = [rreq EXCEPT ![h] = [rreq[h] EXCEPT !.pc = to]]
  BY DEF Goto, FeedRequestsOK
<1> QED  BY <1>2, <1>3 DEF Moved, FeedRequestsOK

\* A request that is done, whatever it was: its record is the empty one.
LEMMA DoneIs ==
  ASSUME FeedRequestsOK, NEW h \in Rankers, RankerDone(h)
  PROVE  /\ rreq' \in [Rankers -> ReplaceRequests]
         /\ rreq'[h] = NoReplace
         /\ \A g \in Rankers : g # h => rreq'[g] = rreq[g]
<1>1. NoReplace \in ReplaceRequests
  BY DirectoryAssumption DEF NoReplace, ReplaceRequests
<1> QED  BY <1>1 DEF RankerDone, FeedRequestsOK

\* A request aims, locks or inserts: what it has locked afterwards is all of
\* the feed or nothing of it, and nobody else has it.
LEMMA MovedStep ==
  ASSUME FeedInv, NEW h \in Rankers, NEW t \in SUBSET FeedRows,
         NEW to \in {"delete", "deleting", "insert", "commit"},
         Moved(h, to, t), UNCHANGED <<feed, last, served, gone>>,
         Busy(h), rreq[h].pc = "user" => rreq[h].user \notin gone,
         t \subseteq rreq[h].target \union feed[rreq[h].user],
         to = "deleting" => t = feed[rreq[h].user],
         to \in {"insert", "commit"} =>
           /\ t = feed[rreq[h].user] \/ t = {}
           /\ \A g \in Others(h) : rreq[g].target \intersect t = {},
         to \in {"insert", "commit"} =>
           Aimed(h) /\ (rreq[h].target = feed[rreq[h].user] => t = feed[rreq[h].user]),
         to = "commit" =>
           /\ rreq[h].push.list = <<>> \/ t = feed[rreq[h].user]
           /\ \A g \in Others(h) :
                rreq[g].pc = "commit" => rreq[g].push.list = <<>> \/ rreq[h].push.list = <<>>
  PROVE  FeedInv'
<1> DEFINE u == rreq[h].user
<1>0. FeedRequestsOK /\ Numbered /\ Locked
  BY DEF FeedInv
<1>1. /\ rreq' \in [Rankers -> ReplaceRequests]
      /\ rreq'[h].pc = to /\ rreq'[h].target = t /\ rreq'[h].user = rreq[h].user
      /\ rreq'[h].push = rreq[h].push /\ rreq'[h].prior = rreq[h].prior
      /\ rreq'[h].before = rreq[h].before
      /\ \A g \in Rankers : g # h => rreq'[g] = rreq[g]
  BY <1>0, MovedIs
<1>2. u \in Users /\ rreq[h].push \in Pushes
  BY <1>0 DEF FeedRequestsOK
<1>3. FeedRequestsOK'
  <2>1. ~rreq[h].before
    <3>1. rreq[h].pc = "user" => ~rreq[h].before
      BY <1>0 DEF FeedRequestsOK
    <3>2. rreq[h].pc \in {"user", "delete", "deleting", "insert", "commit"}
      BY <1>0 DEF FeedRequestsOK, ReplaceRequests, Busy
    <3> QED  BY <1>0, <3>1, <3>2 DEF FeedRequestsOK
  <2>2. ASSUME NEW g \in Rankers
        PROVE  /\ rreq'[g].pc = "idle" => rreq'[g] = NoReplace
               /\ rreq'[g].pc # "idle" => /\ rreq'[g].user \in Users /\ rreq'[g].push \in Pushes
                                          /\ Len(rreq'[g].push.list) <= MaxItems
               /\ rreq'[g].pc = "user" /\ rreq'[g].before => rreq'[g].user \in gone
               /\ rreq'[g].pc \in {"delete", "deleting", "insert", "commit"} => ~rreq'[g].before
    <3>1. CASE g = h
      BY <1>0, <1>1, <1>2, <2>1, <3>1 DEF FeedRequestsOK
    <3>2. CASE g # h
      BY <1>0, <1>1, <3>2 DEF FeedRequestsOK, Busy
    <3> QED  BY <3>1, <3>2
  <2> QED  BY <1>0, <1>1, <2>2 DEF FeedRequestsOK, Busy
<1>4. \A g \in Rankers : Busy(g)' <=> Busy(g)
  BY <1>1 DEF Busy
<1>5. \A r \in t : r.by <= served /\ \A g \in Rankers : Busy(g) => r.by # rreq[g].push.id
  <2> SUFFICES ASSUME NEW r \in t
               PROVE  r.by <= served /\ \A g \in Rankers : Busy(g) => r.by # rreq[g].push.id
    OBVIOUS
  <2>1. CASE r \in rreq[h].target
    BY <1>0, <2>1 DEF Numbered, FreshPush
  <2>2. CASE r \in feed[u]
    <3>1. PICK p \in Pushes : p \in last[u] /\ feed[u] = RowsOf(p)
      BY <1>2 DEF FeedInv, Serves
    <3>2. r.by = p.id
      BY <2>2, <3>1, RowsTyped
    <3> QED  BY <1>0, <1>2, <3>1, <3>2 DEF Numbered, FreshPush
  <2> QED  BY <2>1, <2>2
<1>6. Numbered'
  <2>1. ASSUME NEW g \in Rankers, Busy(g) PROVE FreshPush(g)'
    <3>1. FreshPush(g) /\ rreq'[g].push = rreq[g].push
      BY <1>0, <1>1, <2>1 DEF Numbered
    <3>2. \A k \in Rankers : rreq'[k].prior = rreq[k].prior /\ rreq'[k].push = rreq[k].push
      BY <1>1
    <3>3. \A k \in Rankers : \A r \in rreq'[k].target : r.by # rreq[g].push.id
      BY <1>1, <1>5, <2>1, <3>1 DEF FreshPush
    <3> QED  BY <1>4, <3>1, <3>2, <3>3 DEF FreshPush
  <2>2. \A g \in Rankers : rreq'[g].prior = rreq[g].prior
    BY <1>1
  <2>3. \A g \in Rankers : \A r \in rreq'[g].target : r.by <= served
    BY <1>0, <1>1, <1>5 DEF Numbered
  <2> QED  BY <1>0, <1>4, <2>1, <2>2, <2>3 DEF Numbered
<1>7. Locked'
  <2> SUFFICES ASSUME NEW g \in Rankers PROVE Locks(g)'
    BY DEF Locked
  <2>1. CASE g = h
    <3>1. \A k \in Others(g)' : k \in Others(h) /\ rreq'[k] = rreq[k]
      BY <1>1, <2>1 DEF Others, Open
    <3> QED  BY <1>1, <2>1, <3>1 DEF Locks, Open
  <2>2. CASE g # h
    <3>1. rreq'[g] = rreq[g] /\ (Open(g)' <=> Open(g))
      BY <1>1, <2>2 DEF Open
    <3>2. ASSUME NEW k \in Others(g)', k = h, Open(g)
          PROVE  /\ rreq'[k].target \intersect rreq'[g].target = {}
                 /\ rreq'[k].pc = "commit" /\ rreq'[g].pc = "commit" =>
                                rreq'[k].push.list = <<>> \/ rreq'[g].push.list = <<>>
      <4>1. g \in Others(h) /\ to \in {"insert", "commit"}
        BY <1>1, <2>2, <3>1, <3>2 DEF Others, Open
      <4> QED  BY <1>1, <2>2, <3>1, <3>2, <4>1
    <3>3. ASSUME NEW k \in Others(g)', k # h PROVE k \in Others(g) /\ rreq'[k] = rreq[k]
      BY <1>1, <2>2, <3>1, <3>3 DEF Others, Open
    <3> QED  BY <1>0, <3>1, <3>2, <3>3 DEF Locked, Locks, Open
  <2> QED  BY <2>1, <2>2
<1>8. ASSUME NEW v \in Users PROVE \E p \in Pushes : Serves(v, p)'
  <2>1. PICK p \in Pushes : Serves(v, p)
    BY DEF FeedInv
  <2>2. ASSUME NEW g \in Rankers, Aimed(g)', rreq'[g].user = v
        PROVE  rreq'[g].target = feed[v] \/ p \notin rreq'[g].prior
    <3>1. CASE g # h
      BY <1>1, <2>1, <2>2, <3>1 DEF Serves, Aimed
    <3>2. CASE g = h
      BY <1>1, <2>1, <2>2, <3>2 DEF Serves, Aimed
    <3> QED  BY <3>1, <3>2
  <2> QED  BY <2>1, <2>2 DEF Serves
<1> QED  BY <1>3, <1>6, <1>7, <1>8 DEF FeedInv

\* A request that fails or is rolled back leaves no trace.
LEMMA DoneStep ==
  ASSUME FeedInv, NEW h \in Rankers, RankerDone(h), UNCHANGED <<feed, last, served, gone>>
  PROVE  FeedInv'
<1>0. FeedRequestsOK /\ Numbered /\ Locked
  BY DEF FeedInv
<1>1. /\ rreq' \in [Rankers -> ReplaceRequests]
      /\ rreq'[h] = NoReplace
      /\ \A g \in Rankers : g # h => rreq'[g] = rreq[g]
  BY <1>0, DoneIs
<1>2. rreq'[h].pc = "idle" /\ rreq'[h].target = {} /\ rreq'[h].prior = {}
  BY <1>1 DEF NoReplace
<1>3. FeedRequestsOK'
  BY <1>0, <1>1, <1>2 DEF FeedRequestsOK, Busy
<1>4. \A g \in Rankers : Busy(g)' => Busy(g) /\ g # h
  BY <1>1, <1>2 DEF Busy
<1>5. Numbered'
  <2>1. ASSUME NEW g \in Rankers, Busy(g)' PROVE FreshPush(g)'
    <3>1. FreshPush(g) /\ rreq'[g] = rreq[g]
      BY <1>0, <1>1, <1>4, <2>1 DEF Numbered
    <3>2. \A k \in Rankers : \A p \in rreq'[k].prior : p.id # rreq[g].push.id
      BY <1>1, <1>2, <3>1 DEF FreshPush
    <3>3. \A k \in Rankers : \A r \in rreq'[k].target : r.by # rreq[g].push.id
      BY <1>1, <1>2, <3>1 DEF FreshPush
    <3>4. \A k \in Rankers : Busy(k)' /\ k # g => rreq'[k].push.id # rreq[g].push.id
      BY <1>1, <1>4, <3>1 DEF FreshPush
    <3> QED  BY <3>1, <3>2, <3>3, <3>4 DEF FreshPush
  <2> QED  BY <1>0, <1>1, <1>2, <2>1 DEF Numbered
<1>6. \A g \in Rankers : Open(g)' => Open(g) /\ g # h /\ rreq'[g] = rreq[g]
  BY <1>1, <1>2 DEF Open
<1>7. Locked'
  <2>1. \A g \in Rankers : g # h => \A k \in Others(g)' : k \in Others(g) /\ k # h
    BY <1>1, <1>2, <1>6 DEF Others
  <2>2. ASSUME NEW g \in Rankers, g # h PROVE Locks(g)'
    <3>1. rreq'[g] = rreq[g] /\ feed' = feed /\ Locks(g)
      BY <1>0, <1>1, <2>2 DEF Locked
    <3>2. \A k \in Others(g)' : k \in Others(g) /\ rreq'[k] = rreq[k]
      BY <1>1, <2>1, <2>2 DEF Others
    <3> QED  BY <3>1, <3>2 DEF Locks, Open
  <2>3. Locks(h)'
    BY <1>1, <1>2 DEF Locks, Open
  <2> QED  BY <2>2, <2>3 DEF Locked
<1>8. ASSUME NEW v \in Users PROVE \E p \in Pushes : Serves(v, p)'
  <2>1. PICK p \in Pushes : Serves(v, p)
    BY DEF FeedInv
  <2> QED  BY <1>1, <1>2, <2>1 DEF Serves, Aimed
<1> QED  BY <1>3, <1>5, <1>7, <1>8 DEF FeedInv

\* A new request takes the next number.
LEMMA BeginStep ==
  ASSUME DirectoryTypeOK, FeedInv, NEW h \in Rankers, NEW u \in Users, NEW list \in Lists,
         ReplaceBegin(h, u, list)
  PROVE  FeedInv'
<1> DEFINE r == [pc |-> "user", user |-> u, push |-> [id |-> served + 1, list |-> list],
                 target |-> {}, prior |-> last[u], before |-> u \in gone]
<1>0. FeedRequestsOK /\ Numbered /\ Locked
  BY DEF FeedInv
<1>1. served \in Nat /\ served < MaxRequests /\ MaxRequests \in Nat /\ served' = served + 1
      /\ UNCHANGED <<feed, last, gone>> /\ Len(list) <= MaxItems /\ rreq[h].pc = "idle"
  BY DirectoryAssumption DEF ReplaceBegin, Serve, DirectoryTypeOK
<1>2. rreq' = [rreq EXCEPT ![h] = r]
  BY DEF ReplaceBegin
<1>3. r.push \in Pushes /\ last[u] \in SUBSET Pushes
  BY <1>0, <1>1 DEF Pushes, FeedRequestsOK
<1>4. r \in ReplaceRequests
  BY <1>0, <1>1, <1>3, DirectoryAssumption DEF ReplaceRequests, Pushes
<1>5. /\ rreq' \in [Rankers -> ReplaceRequests] /\ rreq'[h] = r
      /\ \A g \in Rankers : g # h => rreq'[g] = rreq[g]
  BY <1>0, <1>2, <1>4 DEF FeedRequestsOK
<1>6. /\ r.pc = "user" /\ r.user = u /\ r.push.id = served + 1 /\ r.push.list = list
      /\ r.target = {} /\ r.prior = last[u] /\ (r.before <=> u \in gone)
  OBVIOUS
<1> HIDE DEF r
<1>7. FeedRequestsOK'
  <2>1. ASSUME NEW g \in Rankers
        PROVE  /\ rreq'[g].pc = "idle" => rreq'[g] = NoReplace
               /\ rreq'[g].pc # "idle" => /\ rreq'[g].user \in Users /\ rreq'[g].push \in Pushes
                                          /\ Len(rreq'[g].push.list) <= MaxItems
               /\ rreq'[g].pc = "user" /\ rreq'[g].before => rreq'[g].user \in gone
               /\ rreq'[g].pc \in {"delete", "deleting", "insert", "commit"} => ~rreq'[g].before
    <3>1. CASE g = h
      BY <1>1, <1>3, <1>5, <1>6, <3>1
    <3>2. CASE g # h
      BY <1>0, <1>5, <3>2 DEF FeedRequestsOK, Busy
    <3> QED  BY <3>1, <3>2
  <2> QED  BY <1>0, <1>1, <1>5, <2>1 DEF FeedRequestsOK, Busy
<1>8. Numbered'
  <2>1. ASSUME NEW g \in Rankers, Busy(g)' PROVE FreshPush(g)'
    <3>1. CASE g # h
      <4>1. FreshPush(g) /\ rreq'[g] = rreq[g]
        BY <1>0, <1>5, <2>1, <3>1 DEF Numbered, Busy
      <4>2. \A k \in Rankers : \A p \in rreq'[k].prior : p.id # rreq[g].push.id
        BY <1>5, <1>6, <4>1 DEF FreshPush
      <4>3. \A k \in Rankers : \A q \in rreq'[k].target : q.by # rreq[g].push.id
        BY <1>5, <1>6, <4>1 DEF FreshPush
      <4>4. \A k \in Rankers : Busy(k)' /\ k # g => rreq'[k].push.id # rreq[g].push.id
        BY <1>1, <1>5, <1>6, <4>1 DEF FreshPush, Busy
      <4> QED  BY <1>1, <4>1, <4>2, <4>3, <4>4 DEF FreshPush
    <3>2. CASE g = h
      <4>1. \A v \in Users : \A p \in last[v] : p.id # served + 1
        <5> SUFFICES ASSUME NEW v \in Users, NEW p \in last[v] PROVE p.id # served + 1
          OBVIOUS
        <5>1. p \in Pushes /\ p.id <= served
          BY <1>0 DEF Numbered, FeedRequestsOK
        <5> QED  BY <1>1, <5>1 DEF Pushes
      <4>2. \A k \in Rankers : \A p \in rreq'[k].prior : p.id # served + 1
        <5> SUFFICES ASSUME NEW k \in Rankers, k # h, NEW p \in rreq[k].prior PROVE p.id # served + 1
          BY <1>5, <1>6, <4>1
        <5>1. p \in Pushes /\ p.id <= served
          BY <1>0 DEF Numbered, FeedRequestsOK, ReplaceRequests
        <5> QED  BY <1>1, <5>1 DEF Pushes
      <4>3. \A k \in Rankers : \A q \in rreq'[k].target : q.by # served + 1
        <5> SUFFICES ASSUME NEW k \in Rankers, k # h, NEW q \in rreq[k].target PROVE q.by # served + 1
          BY <1>5, <1>6
        <5>1. q \in FeedRows /\ q.by <= served
          BY <1>0 DEF Numbered, FeedRequestsOK, ReplaceRequests
        <5>2. PICK p \in Pushes : q \in RowsOf(p)
          BY <5>1 DEF FeedRows
        <5>3. q.by = p.id
          BY <5>2, RowsTyped
        <5> QED  BY <1>1, <5>1, <5>3 DEF Pushes
      <4>4. \A k \in Rankers : Busy(k)' /\ k # h => rreq'[k].push.id # served + 1
        BY <1>0, <1>1, <1>5 DEF Numbered, FreshPush, Busy
      <4> QED  BY <1>1, <1>5, <1>6, <3>2, <4>1, <4>2, <4>3, <4>4 DEF FreshPush
    <3> QED  BY <3>1, <3>2
  <2>2. ASSUME NEW v \in Users, NEW p \in last[v] PROVE p.id <= served + 1
    <3>1. p \in Pushes /\ p.id <= served
      BY <1>0 DEF Numbered, FeedRequestsOK
    <3> QED  BY <1>1, <3>1 DEF Pushes
  <2>3. ASSUME NEW k \in Rankers, NEW p \in rreq'[k].prior PROVE p.id <= served + 1
    <3>1. CASE k = h
      BY <1>5, <1>6, <2>2, <2>3, <3>1
    <3>2. CASE k # h
      <4>1. p \in Pushes /\ p.id <= served
        BY <1>0, <1>5, <2>3, <3>2 DEF Numbered, FeedRequestsOK, ReplaceRequests
      <4> QED  BY <1>1, <4>1 DEF Pushes
    <3> QED  BY <3>1, <3>2
  <2>4. ASSUME NEW k \in Rankers, NEW q \in rreq'[k].target PROVE q.by <= served + 1
    <3>1. k # h /\ q \in rreq[k].target
      BY <1>5, <1>6, <2>4
    <3>2. q \in FeedRows /\ q.by <= served
      BY <1>0, <3>1 DEF Numbered, FeedRequestsOK, ReplaceRequests
    <3>3. PICK p \in Pushes : q \in RowsOf(p)
      BY <3>2 DEF FeedRows
    <3>4. q.by = p.id
      BY <3>3, RowsTyped
    <3> QED  BY <1>1, <3>2, <3>4 DEF Pushes
  <2> QED  BY <1>1, <2>1, <2>2, <2>3, <2>4 DEF Numbered
<1>9. \A g \in Rankers : Open(g)' => Open(g) /\ g # h /\ rreq'[g] = rreq[g]
  BY <1>5, <1>6 DEF Open
<1>10. Locked'
  <2>1. \A g \in Rankers : g # h => \A k \in Others(g)' : k \in Others(g) /\ k # h
    BY <1>5, <1>9 DEF Others
  <2>2. ASSUME NEW g \in Rankers, g # h PROVE Locks(g)'
    <3>1. rreq'[g] = rreq[g] /\ feed' = feed /\ Locks(g)
      BY <1>0, <1>1, <1>5, <2>2 DEF Locked
    <3>2. \A k \in Others(g)' : k \in Others(g) /\ rreq'[k] = rreq[k]
      BY <1>5, <2>1, <2>2 DEF Others
    <3> QED  BY <3>1, <3>2 DEF Locks, Open
  <2>3. Locks(h)'
    BY <1>5, <1>6 DEF Locks, Open
  <2> QED  BY <2>2, <2>3 DEF Locked
<1>11. ASSUME NEW v \in Users PROVE \E p \in Pushes : Serves(v, p)'
  <2>1. PICK p \in Pushes : Serves(v, p)
    BY DEF FeedInv
  <2> QED  BY <1>1, <1>5, <1>6, <2>1 DEF Serves, Aimed
<1> QED  BY <1>7, <1>8, <1>10, <1>11 DEF FeedInv

\* A commit either replaces the feed that it has locked, or has nothing to
\* delete and nothing to insert, and then the feed of a replace that it did not
\* know of stays.
LEMMA CommitFeed ==
  ASSUME FeedInv, NEW h \in Rankers, Commit(h)
  PROVE  /\ feed' \in [Users -> SUBSET FeedRows]
         /\ last' \in [Users -> SUBSET Pushes]
         /\ rreq[h].user \in Users /\ rreq[h].push \in Pushes
         /\ \A v \in Users : v # rreq[h].user => feed'[v] = feed[v] /\ last'[v] = last[v]
         /\ last'[rreq[h].user] = (last[rreq[h].user] \ rreq[h].prior) \union {rreq[h].push}
         /\ \/ /\ rreq[h].target = feed[rreq[h].user]
               /\ feed'[rreq[h].user] = RowsOf(rreq[h].push)
            \/ /\ rreq[h].target # feed[rreq[h].user]
               /\ feed'[rreq[h].user] = feed[rreq[h].user]
<1> DEFINE u == rreq[h].user
           p == rreq[h].push
<1>1. FeedRequestsOK /\ Locks(h) /\ rreq[h].pc = "commit"
  BY DEF FeedInv, Commit, Locked
<1>2. u \in Users /\ p \in Pushes
  BY <1>1 DEF FeedRequestsOK, Busy
<1>3. /\ feed' = [feed EXCEPT ![u] = (feed[u] \ rreq[h].target) \union RowsOf(p)]
      /\ last' = [last EXCEPT ![u] = (last[u] \ rreq[h].prior) \union {p}]
  BY DEF Commit
<1>4. RowsOf(p) \subseteq FeedRows
  BY <1>2, RowsTyped
<1>5. feed' \in [Users -> SUBSET FeedRows] /\ last' \in [Users -> SUBSET Pushes]
  BY <1>1, <1>2, <1>3, <1>4 DEF FeedRequestsOK
<1>6. /\ feed'[u] = (feed[u] \ rreq[h].target) \union RowsOf(p)
      /\ last'[u] = (last[u] \ rreq[h].prior) \union {p}
      /\ \A v \in Users : v # u => feed'[v] = feed[v] /\ last'[v] = last[v]
  BY <1>1, <1>2, <1>3 DEF FeedRequestsOK
<1>7. CASE rreq[h].target = feed[u]
  BY <1>2, <1>5, <1>6, <1>7
<1>8. CASE rreq[h].target # feed[u]
  <2>1. rreq[h].target = {} /\ p.list = <<>>
    BY <1>1, <1>8 DEF Locks, Open
  <2>2. RowsOf(p) = {}
    BY <1>2, <2>1, RowsFirst
  <2> QED  BY <1>2, <1>5, <1>6, <1>8, <2>1, <2>2
<1> QED  BY <1>7, <1>8

\* What the others have locked after a commit.
LEMMA CommitLocks ==
  ASSUME FeedInv, NEW h \in Rankers, Commit(h), NEW g \in Rankers, g # h
  PROVE  Locks(g)'
<1> DEFINE u == rreq[h].user
           p == rreq[h].push
<1>1. FeedRequestsOK /\ Locked /\ rreq[h].pc = "commit" /\ FreshPush(h)
  BY DEF FeedInv, Commit, Numbered, Busy
<1>2. rreq'[h] = NoReplace /\ rreq'[g] = rreq[g] /\ \A k \in Rankers : k # h => rreq'[k] = rreq[k]
  BY <1>1, DoneIs DEF Commit
<1>3. \A k \in Others(g)' : k \in Others(g) /\ rreq'[k] = rreq[k]
  BY <1>2 DEF Others, Open, NoReplace
<1>4. Locks(g) /\ Locks(h)
  BY <1>1 DEF Locked
<1>5. CASE feed'[rreq[g].user] = feed[rreq[g].user]
  BY <1>2, <1>3, <1>4, <1>5 DEF Locks, Open
<1>6. CASE rreq[g].user \notin Users
  <2>1. rreq[g].pc = "idle"
    BY <1>1, <1>6 DEF FeedRequestsOK, Busy
  <2> QED  BY <1>2, <2>1, <1>3 DEF Locks, Open
<1>7. CASE /\ rreq[g].user = u /\ rreq[h].target = feed[u] /\ feed'[u] = RowsOf(p)
           /\ p \in Pushes
  <2>1. \A r \in RowsOf(p) : r.by = p.id
    BY <1>7, RowsTyped
  <2>2. rreq[g].target \intersect feed'[u] = {}
    BY <1>1, <1>7, <2>1 DEF FreshPush
  <2>3. Open(g) => g \in Others(h) /\ rreq[g].target \intersect feed[u] = {}
    BY <1>1, <1>4, <1>7 DEF Locks, Others, Open
  <2>4. Open(g) => rreq[g].target = {}
    BY <1>4, <1>7, <2>3 DEF Locks
  <2>5. ASSUME rreq[g].pc = "commit", rreq[g].push.list # <<>> PROVE rreq[g].target = feed'[u]
    <3>1. Open(g) /\ g \in Others(h)
      BY <2>3, <2>5 DEF Open
    <3>2. p.list = <<>>
      BY <1>1, <1>4, <2>5, <3>1 DEF Locks
    <3> QED  BY <1>7, <2>4, <3>1, <3>2, RowsFirst
  <2> QED  BY <1>2, <1>3, <1>4, <1>7, <2>2, <2>4, <2>5 DEF Locks, Open
<1>8. \/ feed'[rreq[g].user] = feed[rreq[g].user] \/ rreq[g].user \notin Users
      \/ /\ rreq[g].user = u /\ rreq[h].target = feed[u] /\ feed'[u] = RowsOf(p)
         /\ p \in Pushes
  BY CommitFeed
<1> QED  BY <1>5, <1>6, <1>7, <1>8

\* COMMIT of a replace makes its list the feed.
LEMMA CommitStep ==
  ASSUME FeedInv, NEW h \in Rankers, Commit(h)
  PROVE  FeedInv'
<1> DEFINE u == rreq[h].user
           p == rreq[h].push
<1>0. FeedRequestsOK /\ Numbered /\ Locked /\ rreq[h].pc = "commit" /\ FreshPush(h)
      /\ UNCHANGED <<gone, served>>
  BY DEF FeedInv, Commit, Numbered, Busy, directoryVars
<1>1. /\ rreq' \in [Rankers -> ReplaceRequests] /\ rreq'[h] = NoReplace
      /\ \A g \in Rankers : g # h => rreq'[g] = rreq[g]
  BY <1>0, DoneIs DEF Commit
<1>2. rreq'[h].pc = "idle" /\ rreq'[h].target = {} /\ rreq'[h].prior = {}
  BY <1>1 DEF NoReplace
<1>3. /\ u \in Users /\ p \in Pushes
      /\ \A v \in Users : v # u => feed'[v] = feed[v] /\ last'[v] = last[v]
      /\ last'[u] = (last[u] \ rreq[h].prior) \union {p}
  BY CommitFeed
<1>4. FeedRequestsOK'
  <2>1. feed' \in [Users -> SUBSET FeedRows] /\ last' \in [Users -> SUBSET Pushes]
    BY CommitFeed
  <2> QED  BY <1>0, <1>1, <1>2, <2>1 DEF FeedRequestsOK, Busy
<1>5. \A g \in Rankers : Busy(g)' => Busy(g) /\ g # h
  BY <1>1, <1>2 DEF Busy
<1>6. \A v \in Users : \A q \in last'[v] : q \in last[v] \/ q = p
  BY <1>3
<1>7. Numbered'
  <2>1. ASSUME NEW g \in Rankers, Busy(g)' PROVE FreshPush(g)'
    <3>1. FreshPush(g) /\ rreq'[g] = rreq[g] /\ p.id # rreq[g].push.id
      BY <1>0, <1>1, <1>5, <2>1 DEF Numbered, FreshPush
    <3>2. \A k \in Rankers : \A q \in rreq'[k].prior : q.id # rreq[g].push.id
      BY <1>1, <1>2, <3>1 DEF FreshPush
    <3>3. \A k \in Rankers : \A r \in rreq'[k].target : r.by # rreq[g].push.id
      BY <1>1, <1>2, <3>1 DEF FreshPush
    <3>4. \A k \in Rankers : Busy(k)' /\ k # g => rreq'[k].push.id # rreq[g].push.id
      BY <1>1, <1>5, <3>1 DEF FreshPush
    <3>5. \A v \in Users : \A q \in last'[v] : q.id # rreq[g].push.id
      BY <1>6, <3>1 DEF FreshPush
    <3> QED  BY <1>0, <3>1, <3>2, <3>3, <3>4, <3>5 DEF FreshPush
  <2>2. \A v \in Users : \A q \in last'[v] : q.id <= served
    BY <1>0, <1>6 DEF Numbered, FreshPush
  <2> QED  BY <1>0, <1>1, <1>2, <2>1, <2>2 DEF Numbered
<1>8. Locked'
  <2>1. Locks(h)'
    BY <1>1, <1>2 DEF Locks, Open
  <2> QED  BY <2>1, CommitLocks DEF Locked
<1>9. ASSUME NEW v \in Users PROVE \E q \in Pushes : Serves(v, q)'
  <2>1. PICK q \in Pushes : Serves(v, q)
    BY DEF FeedInv
  <2>2. CASE v # u
    BY <1>1, <1>2, <1>3, <2>1, <2>2 DEF Serves, Aimed
  <2>3. CASE v = u /\ feed'[u] = feed[u] /\ rreq[h].target # feed[u]
    <3>1. q \in last'[u]
      BY <1>0, <1>3, <2>1, <2>3 DEF Serves, Aimed
    <3> QED  BY <1>1, <1>2, <2>1, <2>3, <3>1 DEF Serves, Aimed
  <2>4. CASE v = u /\ feed'[u] = RowsOf(p)
    <3>1. \A g \in Rankers : p \notin rreq'[g].prior
      BY <1>0, <1>1, <1>2 DEF FreshPush
    <3> QED  BY <1>3, <2>4, <3>1 DEF Serves
  <2> QED  BY <2>2, <2>3, <2>4, CommitFeed
<1> QED  BY <1>4, <1>7, <1>8, <1>9 DEF FeedInv

\* Requests of other kinds do not touch the feeds; deletions only add to gone.
LEMMA FeedFrame ==
  ASSUME DirectoryTypeOK, FeedInv, UNCHANGED feedVars, gone \subseteq gone',
         served' = served \/ served' = served + 1
  PROVE  FeedInv'
<1>0. feed' = feed /\ rreq' = rreq /\ last' = last /\ served \in Nat
  BY DirectoryAssumption DEF feedVars, DirectoryTypeOK
<1>1. FeedRequestsOK'
  BY <1>0 DEF FeedInv, FeedRequestsOK, Busy
<1>2. Locked'
  BY <1>0 DEF FeedInv, Locked, Locks, Others, Open
<1>3. Numbered'
  <2>1. ASSUME NEW h \in Rankers, Busy(h) PROVE FreshPush(h)'
    BY <1>0, <2>1 DEF FeedInv, Numbered, FreshPush, Busy
  <2>2. \A n \in 0..MaxRequests : n <= served => n <= served'
    BY <1>0, DirectoryAssumption
  <2>3. \A u \in Users : \A p \in last[u] : p.id <= served'
    BY <2>2 DEF FeedInv, Numbered, FeedRequestsOK, Pushes
  <2>4. \A h \in Rankers : \A p \in rreq[h].prior : p.id <= served'
    BY <2>2 DEF FeedInv, Numbered, FeedRequestsOK, ReplaceRequests, Pushes
  <2>5. \A h \in Rankers : \A r \in rreq[h].target : r.by <= served'
    <3> SUFFICES ASSUME NEW h \in Rankers, NEW r \in rreq[h].target PROVE r.by <= served'
      OBVIOUS
    <3>1. r \in FeedRows /\ r.by <= served
      BY DEF FeedInv, Numbered, FeedRequestsOK, ReplaceRequests
    <3>2. PICK p \in Pushes : r \in RowsOf(p)
      BY <3>1 DEF FeedRows
    <3>3. r.by = p.id /\ p.id \in 0..MaxRequests
      BY <3>2, RowsTyped DEF Pushes
    <3> QED  BY <2>2, <3>1, <3>3
  <2> QED  BY <1>0, <2>1, <2>3, <2>4, <2>5 DEF Numbered, Busy
<1>4. ASSUME NEW u \in Users PROVE \E p \in Pushes : Serves(u, p)'
  <2>1. PICK p \in Pushes : Serves(u, p)
    BY DEF FeedInv
  <2> QED  BY <1>0, <2>1 DEF Serves, Aimed
<1> QED  BY <1>1, <1>2, <1>3, <1>4 DEF FeedInv

\* Every statement of a replace keeps FeedInv.
LEMMA FeedStep ==
  ASSUME DirectoryTypeOK, FeedInv, FeedNext
  PROVE  FeedInv'
<1>0. FeedRequestsOK /\ Locked
  BY DEF FeedInv
<1>1. PICK h \in Rankers :
        \/ \E u \in Users, list \in Lists : ReplaceBegin(h, u, list)
        \/ ReplaceCheckUser(h) \/ DeleteStart(h) \/ DeleteEnd(h) \/ Insert(h) \/ Commit(h)
        \/ RankerAbort(h)
  BY DEF FeedNext
<1> DEFINE u == rreq[h].user
<1>2. /\ rreq[h] \in ReplaceRequests /\ rreq[h].target \in SUBSET FeedRows
      /\ Busy(h) => u \in Users /\ rreq[h].push \in Pushes /\ feed[u] \in SUBSET FeedRows
  BY <1>0 DEF FeedRequestsOK, ReplaceRequests
<1>3. CASE ReplaceCheckUser(h)
  <2>1. UNCHANGED <<feed, last, served, gone>>
    BY <1>3 DEF ReplaceCheckUser, directoryVars
  <2>2. CASE RankerDone(h)
    BY <2>1, <2>2, DoneStep
  <2>3. CASE u \notin gone /\ Goto(h, "user", "delete")
    <3>1. Moved(h, "delete", rreq[h].target) /\ Busy(h)
      BY <1>0, <2>3, GotoIs DEF Goto, Busy
    <3> QED  BY <1>2, <2>1, <2>3, <3>1, MovedStep
  <2> QED  BY <1>3, <2>2, <2>3 DEF ReplaceCheckUser
<1>4. CASE DeleteStart(h)
  <2>1. UNCHANGED <<feed, last, served, gone>> /\ rreq[h].pc = "delete"
    BY <1>4 DEF DeleteStart, directoryVars
  <2>2. Moved(h, "deleting", feed[u]) /\ Busy(h)
    BY <1>4 DEF DeleteStart, Moved, Busy
  <2> QED  BY <1>2, <2>1, <2>2, MovedStep
<1>5. CASE DeleteEnd(h)
  <2> DEFINE t == rreq[h].target \intersect feed[u]
  <2>1. UNCHANGED <<feed, last, served, gone>> /\ rreq[h].pc = "deleting"
        /\ \A g \in Others(h) : rreq[g].target \intersect rreq[h].target = {}
    BY <1>5 DEF DeleteEnd, directoryVars
  <2>2. Moved(h, "insert", t) /\ Busy(h) /\ Aimed(h)
    BY <1>2, <1>5 DEF DeleteEnd, Moved, Busy, Aimed, ReplaceRequests
  <2>3. rreq[h].target = feed[u] \/ t = {}
    BY <1>0, <2>1 DEF Locked, Locks
  <2>4. t \in SUBSET FeedRows /\ t \subseteq rreq[h].target
    BY <1>2
  <2>5. t = feed[u] \/ t = {}
    BY <2>3
  <2>6. \A g \in Others(h) : rreq[g].target \intersect t = {}
    BY <2>1
  <2>7. rreq[h].target = feed[u] => t = feed[u]
    OBVIOUS
  <2> HIDE DEF t
  <2> QED  BY <1>2, <2>1, <2>2, <2>4, <2>5, <2>6, <2>7, MovedStep
<1>6. CASE Insert(h)
  <2>1. UNCHANGED <<feed, last, served, gone>> /\ rreq[h].pc = "insert"
    BY <1>6 DEF Insert, directoryVars
  <2>2. CASE RankerDone(h)
    BY <2>1, <2>2, DoneStep
  <2>3. CASE /\ Positions(feed[u] \ rreq[h].target) \intersect Positions(RowsOf(rreq[h].push)) = {}
             /\ Goto(h, "insert", "commit")
    <3>1. Moved(h, "commit", rreq[h].target) /\ Busy(h) /\ Aimed(h) /\ Open(h)
      BY <1>0, <2>1, <2>3, GotoIs DEF Busy, Aimed, Open
    <3>2. Locks(h)
      BY <1>0 DEF Locked
    <3>3. ASSUME rreq[h].push.list # <<>> PROVE rreq[h].target = feed[u]
      <4>1. 0 \in Positions(RowsOf(rreq[h].push))
        BY <1>2, <3>1, <3>3, RowsFirst
      <4>2. PICK p \in Pushes : feed[u] = RowsOf(p)
        BY <1>2, <3>1 DEF FeedInv, Serves
      <4>3. CASE rreq[h].target = {}
        <5>1. 0 \notin Positions(feed[u])
          BY <2>3, <4>1, <4>3
        <5>2. feed[u] = {}
          BY <4>2, <5>1, RowsFirst
        <5> QED  BY <4>3, <5>2
      <4> QED  BY <3>1, <3>2, <4>3 DEF Locks
    <3>4. ASSUME NEW g \in Others(h), rreq[g].pc = "commit",
                 rreq[g].push.list # <<>>, rreq[h].push.list # <<>>
          PROVE  FALSE
      <4>1. g \in Rankers /\ rreq[g].push \in Pushes
        BY <1>0, <3>4 DEF Others, FeedRequestsOK, Busy
      <4>2. 0 \in Positions(RowsOf(rreq[g].push)) /\ 0 \in Positions(RowsOf(rreq[h].push))
        BY <1>2, <3>1, <3>4, <4>1, RowsFirst
      <4>3. 0 \in Positions(Inserted(g) \union rreq[g].target)
        BY <3>4, <4>2 DEF Inserted, Positions
      <4> QED  BY <1>6, <3>4, <4>2, <4>3 DEF Insert
    <3>5. /\ rreq[h].target = feed[u] \/ rreq[h].target = {}
          /\ \A g \in Others(h) : rreq[g].target \intersect rreq[h].target = {}
      BY <3>1, <3>2 DEF Locks
    <3> QED  BY <1>2, <2>1, <3>1, <3>3, <3>4, <3>5, MovedStep
  <2> QED  BY <1>6, <2>2, <2>3 DEF Insert
<1>7. CASE Commit(h)
  BY <1>7, CommitStep
<1>8. CASE RankerAbort(h)
  BY <1>8, DoneStep DEF RankerAbort, directoryVars
<1> QED  BY <1>1, <1>3, <1>4, <1>5, <1>6, <1>7, <1>8, BeginStep

\* The feeds at the start are the lists of acknowledged replaces.
LEMMA FeedStarts ==
  ASSUME DirectoryInit, FeedInit
  PROVE  FeedInv
<1>0. \A u \in Users : Initial(u) \in Pushes /\ Initial(u).id = 0
  BY FeedAssumption, DirectoryAssumption DEF Initial, Pushes
<1>1. NoReplace \in ReplaceRequests /\ NoReplace.pc = "idle" /\ NoReplace.prior = {} /\ NoReplace.target = {}
  BY DirectoryAssumption DEF NoReplace, ReplaceRequests
<1>2. /\ rreq = [h \in Rankers |-> NoReplace]
      /\ \A u \in Users : feed[u] = RowsOf(Initial(u)) /\ last[u] = {Initial(u)}
      /\ served = 0
  BY DEF FeedInit, DirectoryInit
<1>3. FeedRequestsOK
  <2>1. feed \in [Users -> SUBSET FeedRows]
    <3>1. \A u \in Users : RowsOf(Initial(u)) \in SUBSET FeedRows
      BY <1>0, RowsTyped
    <3> QED  BY <3>1 DEF FeedInit
  <2>2. last \in [Users -> SUBSET Pushes]
    BY <1>0 DEF FeedInit
  <2> QED  BY <1>1, <1>2, <2>1, <2>2 DEF FeedRequestsOK, Busy
<1>4. Numbered /\ Locked
  BY <1>0, <1>1, <1>2 DEF Numbered, Locked, Locks, Busy, Open
<1>5. \A u \in Users : \E p \in Pushes : Serves(u, p)
  BY <1>0, <1>1, <1>2 DEF Serves, Aimed
<1> QED  BY <1>3, <1>4, <1>5 DEF FeedInv

-----------------------------------------------------------------------------
(* The directory, follow edges and the event log. *)

\* What every writing step does to the directory: ids are only added to gone,
\* and at most one request more is served.
DirectoryMoves ==
  DirectoryTypeOK' /\ gone \subseteq gone' /\ (served' = served \/ served' = served + 1)

\* Deletions, tombstones and drafts move the directory forward.
LEMMA DirectoryStep ==
  ASSUME DirectoryTypeOK, DirectoryNext
  PROVE  DirectoryMoves
<1>0. ASSUME Serve PROVE served' \in 0..MaxRequests /\ served' = served + 1
  BY <1>0, DirectoryAssumption DEF Serve, DirectoryTypeOK
<1>1. ASSUME NEW s \in (Users \union Accounts) \ gone, SoftDelete(s) PROVE DirectoryMoves
  BY <1>0, <1>1 DEF SoftDelete, DirectoryTypeOK, DirectoryMoves
<1>2. ASSUME NEW x \in Articles, Publish(x) \/ Tombstone(x) PROVE DirectoryMoves
  BY <1>0, <1>2 DEF Publish, Tombstone, DirectoryTypeOK, DirectoryMoves
<1>3. ASSUME NEW d \in DraftIds, DeleteDraft(d) PROVE DirectoryMoves
  BY <1>0, <1>3 DEF DeleteDraft, DirectoryTypeOK, DirectoryMoves
<1>4. ASSUME NEW d \in DraftIds, NEW now \in Instants, SaveDraft(d, now) PROVE DirectoryMoves
  BY <1>0, <1>4 DEF SaveDraft, DirectoryTypeOK, DirectoryMoves
<1>5. ASSUME NEW d \in DraftIds, NEW x \in Articles, PublishDraft(d, x) PROVE DirectoryMoves
  BY <1>0, <1>5 DEF PublishDraft, DirectoryTypeOK, DirectoryMoves
<1> QED  BY <1>1, <1>2, <1>3, <1>4, <1>5 DEF DirectoryNext

\* So does a request that only counts as served.
LEMMA DirectoryServes ==
  ASSUME DirectoryTypeOK,
         \/ UNCHANGED directoryVars
         \/ Serve /\ UNCHANGED <<gone, state, drafts>>
  PROVE  DirectoryMoves
<1>1. CASE UNCHANGED directoryVars
  BY <1>1 DEF DirectoryTypeOK, DirectoryMoves, directoryVars
<1>2. CASE Serve /\ UNCHANGED <<gone, state, drafts>>
  <2>1. served' \in 0..MaxRequests /\ served' = served + 1
    BY <1>2, DirectoryAssumption DEF DirectoryTypeOK, Serve
  <2> QED  BY <1>2, <2>1 DEF DirectoryTypeOK, DirectoryMoves
<1> QED  BY <1>1, <1>2

\* So does every writer.
LEMMA WritersMoveDirectory ==
  ASSUME DirectoryTypeOK, DirectoryNext \/ FollowsNext \/ FeedNext \/ EventsNext
  PROVE  DirectoryMoves
<1>1. CASE DirectoryNext
  BY <1>1, DirectoryStep
<1>2. CASE FollowsNext
  BY <1>2, DirectoryServes DEF FollowsNext, FollowBegin, FollowCheckUser, FollowCheckAccount,
     FollowSelect, FollowUpsert, UnfollowSelect, UnfollowUpdate, FollowAbort
<1>3. CASE FeedNext
  BY <1>3, DirectoryServes DEF FeedNext, ReplaceBegin, ReplaceCheckUser, DeleteStart, DeleteEnd,
     Insert, Commit, RankerAbort
<1>4. CASE EventsNext
  BY <1>4, DirectoryServes DEF EventsNext, RecordBegin, RecordValidate, RecordInsert, RecordAbort
<1> QED  BY <1>1, <1>2, <1>3, <1>4

\* A follow request moves on to a pc that it may reach, with an instant if it
\* is going to write.
LEMMA FollowMoves ==
  ASSUME FollowInv, NEW h \in FollowHandlers, NEW r \in FollowRequests, gone \subseteq gone',
         freq' = [freq EXCEPT ![h] = r],
         follows' \in [Edges -> {NoEdge} \union EdgeRows],
         \A e \in Edges : follows[e].status # "none" => follows'[e].status # "none",
         r.pc \in {"upsert", "update"} => r.now \in Instants,
         r.pc = "update" => follows'[r.edge].status # "none",
         r.pc = "user" /\ r.before => r.edge[1] \in gone \/ r.edge[2] \in gone,
         r.pc = "account" /\ r.before => r.edge[2] \in gone,
         r.pc \in {"select", "upsert"} => ~r.before
  PROVE  FollowInv'
<1>1. /\ freq' \in [FollowHandlers -> FollowRequests] /\ freq'[h] = r
      /\ \A g \in FollowHandlers : g # h => freq'[g] = freq[g]
  BY DEF FollowInv
<1>2. ASSUME NEW g \in FollowHandlers
      PROVE  /\ freq'[g].pc \in {"upsert", "update"} => freq'[g].now \in Instants
             /\ freq'[g].pc = "update" => follows'[freq'[g].edge].status # "none"
             /\ freq'[g].pc = "user" /\ freq'[g].before =>
                  freq'[g].edge[1] \in gone' \/ freq'[g].edge[2] \in gone'
             /\ freq'[g].pc = "account" /\ freq'[g].before => freq'[g].edge[2] \in gone'
             /\ freq'[g].pc \in {"select", "upsert"} => ~freq'[g].before
  <2>1. CASE g = h
    BY <1>1, <2>1
  <2>2. CASE g # h
    <3>1. freq[g].pc = "update" => freq[g].edge \in Edges
      BY DEF FollowInv, FollowRequests, NoFollowRequest
    <3> QED  BY <1>1, <2>2, <3>1 DEF FollowInv
  <2> QED  BY <2>1, <2>2
<1> QED  BY <1>1, <1>2 DEF FollowInv

\* What leaves the edges alone keeps FollowInv.
LEMMA FollowFrame ==
  ASSUME FollowInv, UNCHANGED followVars, gone \subseteq gone'
  PROVE  FollowInv'
BY DEF FollowInv, followVars

\* Every statement of a follow or unfollow keeps FollowInv.
LEMMA FollowsStep ==
  ASSUME DirectoryTypeOK, FollowInv, FollowsNext
  PROVE  FollowInv'
<1>0. gone \subseteq gone'
  BY WritersMoveDirectory DEF DirectoryMoves
<1>1. PICK h \in FollowHandlers :
        \/ \E e \in Edges : FollowBegin(h, e, "user") \/ FollowBegin(h, e, "unfollow")
        \/ FollowCheckUser(h) \/ FollowCheckAccount(h) \/ FollowSelect(h) \/ FollowUpsert(h)
        \/ UnfollowSelect(h) \/ UnfollowUpdate(h) \/ FollowAbort(h)
  BY DEF FollowsNext
<1>2. freq \in [FollowHandlers -> FollowRequests] /\ freq[h] \in FollowRequests
      /\ (freq[h].pc # "idle" =>
            /\ freq[h].edge \in Edges /\ freq[h].now \in Instants \union {0}
            /\ freq[h].before \in BOOLEAN /\ follows[freq[h].edge] \in {NoEdge} \union EdgeRows)
  BY DEF FollowInv, FollowRequests, NoFollowRequest
<1>3. ASSUME Answered(h), UNCHANGED follows PROVE FollowInv'
  <2>1. NoFollowRequest \in FollowRequests /\ NoFollowRequest.pc = "idle"
    BY DEF FollowRequests, NoFollowRequest
  <2> QED  BY <1>0, <1>3, <2>1, FollowMoves DEF Answered, FollowInv
<1>4. ASSUME NEW e \in Edges, NEW first \in {"user", "unfollow"}, FollowBegin(h, e, first)
      PROVE  FollowInv'
  <2> DEFINE r == [pc |-> first, edge |-> e, now |-> 0, before |-> {e[1], e[2]} \intersect gone # {}]
  <2>1. r \in FollowRequests /\ r.pc = first /\ r.edge = e
        /\ (r.before => e[1] \in gone \/ e[2] \in gone)
    BY DEF FollowRequests
  <2>2. freq' = [freq EXCEPT ![h] = r] /\ follows' = follows
    BY <1>4 DEF FollowBegin
  <2> HIDE DEF r
  <2> QED  BY <1>0, <2>1, <2>2, FollowMoves DEF FollowInv
<1>5. ASSUME NEW from, NEW to \in {"account", "select"}, FollowStep(h, from, to), from # "idle"
      PROVE  \E r \in FollowRequests :
               /\ freq' = [freq EXCEPT ![h] = r] /\ r.pc = to /\ r.edge = freq[h].edge
               /\ r.before = freq[h].before
  <2>1. [freq[h] EXCEPT !.pc = to] \in FollowRequests
    BY <1>2, <1>5 DEF FollowRequests, FollowStep, NoFollowRequest
  <2>2. freq' = [freq EXCEPT ![h] = [freq[h] EXCEPT !.pc = to]]
    BY <1>2, <1>5 DEF FollowStep
  <2> QED  BY <1>2, <2>1, <2>2 DEF FollowRequests, NoFollowRequest
<1>6. ASSUME NEW from, NEW to \in {"upsert", "update"}, NEW now \in Instants, freq[h].pc = from, from # "idle",
             freq' = [freq EXCEPT ![h].pc = to, ![h].now = now]
      PROVE  \E r \in FollowRequests :
               /\ freq' = [freq EXCEPT ![h] = r] /\ r.pc = to /\ r.edge = freq[h].edge
               /\ r.before = freq[h].before /\ r.now = now
  <2>1. [freq[h] EXCEPT !.pc = to, !.now = now] \in FollowRequests
    BY <1>2, <1>6 DEF FollowRequests, NoFollowRequest
  <2>2. freq' = [freq EXCEPT ![h] = [freq[h] EXCEPT !.pc = to, !.now = now]]
    BY <1>2, <1>6
  <2> QED  BY <1>2, <2>1, <2>2 DEF FollowRequests, NoFollowRequest
<1>7. CASE FollowCheckUser(h)
  <2>1. CASE freq[h].edge[1] \notin gone /\ FollowStep(h, "user", "account") /\ follows' = follows
    <3>1. freq[h].pc = "user" /\ (freq[h].before => freq[h].edge[2] \in gone)
      BY <2>1 DEF FollowInv, FollowStep
    <3> QED  BY <1>0, <1>5, <2>1, <3>1, FollowMoves DEF FollowInv
  <2> QED  BY <1>3, <1>7, <2>1 DEF FollowCheckUser
<1>8. CASE FollowCheckAccount(h)
  <2>1. CASE freq[h].edge[2] \notin gone /\ FollowStep(h, "account", "select") /\ follows' = follows
    <3>1. freq[h].pc = "account" /\ ~freq[h].before
      BY <2>1 DEF FollowInv, FollowStep
    <3> QED  BY <1>0, <1>5, <2>1, <3>1, FollowMoves DEF FollowInv
  <2> QED  BY <1>3, <1>8, <2>1 DEF FollowCheckAccount
<1>9. CASE FollowSelect(h)
  <2>1. ASSUME NEW now \in Instants, freq' = [freq EXCEPT ![h].pc = "upsert", ![h].now = now]
        PROVE  FollowInv'
    <3>1. freq[h].pc = "select" /\ ~freq[h].before /\ follows' = follows
      BY <1>9 DEF FollowInv, FollowSelect
    <3>2. PICK r \in FollowRequests :
            /\ freq' = [freq EXCEPT ![h] = r] /\ r.pc = "upsert" /\ r.edge = freq[h].edge
            /\ r.before = freq[h].before /\ r.now = now
      BY <1>6, <2>1, <3>1, Zenon
    <3> QED  BY <1>0, <3>1, <3>2, FollowMoves DEF FollowInv
  <2> QED  BY <1>3, <1>9, <2>1 DEF FollowSelect
<1>10. CASE UnfollowSelect(h)
  <2>1. ASSUME NEW now \in Instants, follows[freq[h].edge].status = "active",
               freq' = [freq EXCEPT ![h].pc = "update", ![h].now = now]
        PROVE  FollowInv'
    <3>1. freq[h].pc = "unfollow" /\ follows' = follows
      BY <1>10 DEF UnfollowSelect
    <3>2. PICK r \in FollowRequests :
            /\ freq' = [freq EXCEPT ![h] = r] /\ r.pc = "update" /\ r.edge = freq[h].edge
            /\ r.now = now
      BY <1>6, <2>1, <3>1
    <3> QED  BY <1>0, <2>1, <3>1, <3>2, FollowMoves DEF FollowInv
  <2> QED  BY <1>3, <1>10, <2>1 DEF UnfollowSelect
<1>11. ASSUME NEW row \in EdgeRows, follows' = [follows EXCEPT ![freq[h].edge] = row],
              Answered(h), freq[h].pc # "idle"
       PROVE  FollowInv'
  <2>1. NoFollowRequest \in FollowRequests /\ NoFollowRequest.pc = "idle"
    BY DEF FollowRequests, NoFollowRequest
  <2>2. row.status # "none"
    BY DEF EdgeRows
  <2>3. /\ follows' \in [Edges -> {NoEdge} \union EdgeRows]
        /\ \A e \in Edges : follows[e].status # "none" => follows'[e].status # "none"
    BY <1>2, <1>11, <2>2 DEF FollowInv
  <2> QED  BY <1>0, <1>11, <2>1, <2>3, FollowMoves DEF Answered
<1>12. CASE FollowUpsert(h)
  <2> DEFINE row == [status |-> "active", created |-> freq[h].now, unfollowed |-> {}]
  <2>1. freq[h].now \in Instants
    BY <1>12 DEF FollowUpsert, FollowInv
  <2>2. row \in EdgeRows
    BY <2>1 DEF EdgeRows
  <2> QED  BY <1>11, <1>12, <2>2 DEF FollowUpsert
<1>13. CASE UnfollowUpdate(h)
  <2> DEFINE old == follows[freq[h].edge]
             row == [old EXCEPT !.status = "unfollowed", !.unfollowed = {freq[h].now}]
  <2>1. freq[h].now \in Instants /\ old.status # "none" /\ freq[h].pc = "update"
    BY <1>13 DEF UnfollowUpdate, FollowInv
  <2>2. old \in EdgeRows
    BY <1>2, <2>1 DEF NoEdge
  <2>3. row \in EdgeRows
    BY <2>1, <2>2 DEF EdgeRows
  <2>4. follows' = [follows EXCEPT ![freq[h].edge] = row]
    BY <1>2, <1>13, <2>1 DEF UnfollowUpdate, FollowInv
  <2> QED  BY <1>11, <1>13, <2>1, <2>3, <2>4 DEF UnfollowUpdate
<1>14. CASE FollowAbort(h)
  BY <1>3, <1>14 DEF FollowAbort
<1> QED  BY <1>1, <1>4, <1>7, <1>8, <1>9, <1>10, <1>12, <1>13, <1>14

\* What leaves the log alone keeps EventInv.
LEMMA EventFrame ==
  ASSUME EventInv, UNCHANGED eventVars
  PROVE  EventInv'
BY DEF EventInv, eventVars, EventsAttributed

\* The rows of one INSERT get the numbers after those in the log.
LEMMA LogGrows ==
  ASSUME EventInv, NEW h \in Recorders, RecordInsert(h), Recording(h) \in EventRequests
  PROVE  /\ IsFiniteSet(log')
         /\ \A e, f \in log' : e.id = f.id => e = f
         /\ \A e \in log' : e.id \in 1..Cardinality(log')
<1> DEFINE r == Recording(h)
           base == Cardinality(log)
           n == Len(r.events)
           f == [i \in 1..n |-> EventRow(r, base + i, i, ereq[h].received)]
           new == {EventRow(r, base + i, i, ereq[h].received) : i \in DOMAIN r.events}
<1>0. /\ IsFiniteSet(log) /\ \A e, g \in log : e.id = g.id => e = g
      /\ \A e \in log : e.id \in 1..base
      /\ log' = log \union new
  BY DEF EventInv, RecordInsert
<1>1. base \in Nat /\ n \in Nat /\ DOMAIN r.events = 1..n
  BY <1>0, FS_CardinalityType, EventsAssumption
<1>2. \A i \in 1..n : f[i].id = base + i
  BY DEF EventRow
<1>3. new = {f[i] : i \in 1..n}
  BY <1>1
<1> HIDE DEF f, new, r
<1>4. f \in Bijection(1..n, new)
  <2>1. f \in [1..n -> new]
    BY <1>3 DEF f
  <2>2. \A i, j \in 1..n : f[i] = f[j] => i = j
    BY <1>1, <1>2
  <2> QED  BY <1>3, <2>1, <2>2 DEF Bijection, Injection, Surjection, IsInjective
<1>5. IsFiniteSet(new) /\ Cardinality(new) = n
  <2>1. IsFiniteSet(1..n) /\ Cardinality(1..n) = n
    BY <1>1, FS_Interval
  <2> QED  BY <1>4, <2>1, FS_Bijection DEF ExistsBijection
<1>6. \A e \in new : \E i \in 1..n : e = f[i] /\ e.id = base + i
  BY <1>2, <1>3
<1>7. log \intersect new = {}
  BY <1>0, <1>1, <1>6
<1>8. IsFiniteSet(log \union new) /\ Cardinality(log \union new) = base + n
  <2>1. Cardinality(log \intersect new) = 0
    BY <1>7, FS_EmptySet
  <2>2. /\ IsFiniteSet(log \union new)
        /\ Cardinality(log \union new) = base + Cardinality(new) - Cardinality(log \intersect new)
    BY <1>0, <1>5, FS_Union
  <2> QED  BY <1>1, <1>5, <2>1, <2>2
<1>9. \A e \in log \union new : e.id \in 1..(base + n)
  BY <1>0, <1>1, <1>6
<1>10. \A e, g \in log \union new : e.id = g.id => e = g
  <2> SUFFICES ASSUME NEW e \in log \union new, NEW g \in log \union new, e.id = g.id
               PROVE  e = g
    OBVIOUS
  <2>1. CASE e \in log /\ g \in log
    BY <1>0, <2>1
  <2>2. CASE e \in new /\ g \in new
    BY <1>1, <1>6, <2>2
  <2>3. CASE (e \in log /\ g \in new) \/ (e \in new /\ g \in log)
    BY <1>0, <1>1, <1>6, <2>3
  <2> QED  BY <2>1, <2>2, <2>3
<1> QED  BY <1>0, <1>8, <1>9, <1>10

\* Every statement of a recording keeps EventInv.
LEMMA EventsStep ==
  ASSUME EventInv, EventsNext
  PROVE  EventInv'
<1>1. PICK h \in Recorders :
        \/ \E r \in EventRequests : RecordBegin(h, r)
        \/ RecordValidate(h) \/ RecordInsert(h) \/ RecordAbort(h)
  BY DEF EventsNext
<1>2. ereq \in [Recorders -> Recordings] /\ ereq[h] \in Recordings
  BY DEF EventInv
<1>3. ASSUME NEW q \in Recordings, ereq' = [ereq EXCEPT ![h] = q],
             q.pc = "idle" <=> q.request = {},
             q.pc = "insert" =>
               /\ q.received \in Instants
               /\ \A r \in q.request : \A i \in DOMAIN r.events :
                    r.subject.class = "user" => r.events[i].user = r.subject.user
      PROVE  /\ ereq' \in [Recorders -> Recordings]
             /\ \A g \in Recorders :
                  /\ ereq'[g].pc = "idle" <=> ereq'[g].request = {}
                  /\ ereq'[g].pc = "insert" =>
                       /\ ereq'[g].received \in Instants
                       /\ \A r \in ereq'[g].request : \A i \in DOMAIN r.events :
                            r.subject.class = "user" => r.events[i].user = r.subject.user
  <2>1. ereq' \in [Recorders -> Recordings] /\ ereq'[h] = q
        /\ \A g \in Recorders : g # h => ereq'[g] = ereq[g]
    BY <1>2, <1>3
  <2> QED  BY <1>3, <2>1 DEF EventInv
<1>4. NoRecording \in Recordings /\ NoRecording.pc = "idle" /\ NoRecording.request = {}
  BY DEF NoRecording, Recordings
<1>5. ASSUME RecordAnswered(h), UNCHANGED log PROVE EventInv'
  BY <1>3, <1>4, <1>5 DEF RecordAnswered, EventInv, EventsAttributed
<1>6. ASSUME NEW r \in EventRequests, RecordBegin(h, r) PROVE EventInv'
  <2> DEFINE q == [ereq[h] EXCEPT !.pc = "validate", !.request = {r}]
  <2>1. q \in Recordings /\ q.pc = "validate" /\ q.request # {}
    BY <1>2 DEF Recordings
  <2>2. ereq' = [ereq EXCEPT ![h] = q] /\ log' = log
    BY <1>2, <1>6 DEF RecordBegin
  <2> HIDE DEF q
  <2> QED  BY <1>3, <2>1, <2>2 DEF EventInv, EventsAttributed
<1>7. ereq[h].pc # "idle" =>
        /\ ereq[h].request = {Recording(h)} /\ Recording(h) \in EventRequests
  <2> SUFFICES ASSUME ereq[h].pc # "idle"
               PROVE  ereq[h].request = {Recording(h)} /\ Recording(h) \in EventRequests
    OBVIOUS
  <2>1. ereq[h].request # {}
    BY DEF EventInv
  <2>2. \E r \in EventRequests : ereq[h].request = {r}
    BY <1>2, <2>1 DEF Recordings
  <2> QED  BY <2>2 DEF Recording
<1>8. CASE RecordValidate(h)
  <2> DEFINE r == Recording(h)
  <2>1. ASSUME NEW now \in Instants, NEW received \in Instants,
               \A i \in DOMAIN r.events : Prepared(r.events[i], r.subject, now),
               ereq' = [ereq EXCEPT ![h].pc = "insert", ![h].received = received]
        PROVE  EventInv'
    <3> DEFINE q == [ereq[h] EXCEPT !.pc = "insert", !.received = received]
    <3>1. ereq[h].pc = "validate" /\ ereq[h].request = {r} /\ log' = log
      BY <1>7, <1>8 DEF RecordValidate
    <3>2. q \in Recordings /\ q.pc = "insert" /\ q.request = {r} /\ q.received = received
      BY <1>2, <3>1 DEF Recordings
    <3>3. ereq' = [ereq EXCEPT ![h] = q]
      BY <1>2, <2>1
    <3>4. \A i \in DOMAIN r.events : r.subject.class = "user" => r.events[i].user = r.subject.user
      BY <2>1 DEF Prepared
    <3> HIDE DEF q, r
    <3> QED  BY <1>3, <3>1, <3>2, <3>3, <3>4 DEF EventInv, EventsAttributed
  <2> QED  BY <1>5, <1>8, <2>1 DEF RecordValidate
<1>9. CASE RecordInsert(h)
  <2> DEFINE r == Recording(h)
             new == {EventRow(r, Cardinality(log) + i, i, ereq[h].received) : i \in DOMAIN r.events}
  <2>1. log' = log \union new /\ RecordAnswered(h) /\ ereq[h].pc = "insert"
    BY <1>9 DEF RecordInsert
  <2>2. r \in EventRequests /\ ereq[h].request = {r} /\ ereq[h].received \in Instants
    BY <1>7, <2>1 DEF EventInv
  <2>3. \A e \in new : \E i \in DOMAIN r.events : e = EventRow(r, Cardinality(log) + i, i, ereq[h].received)
    OBVIOUS
  <2>4. /\ IsFiniteSet(log') /\ \A e, f \in log' : e.id = f.id => e = f
        /\ \A e \in log' : e.id \in 1..Cardinality(log')
    BY <1>9, <2>2, LogGrows
  <2>5. \A i \in DOMAIN r.events : r.events[i].user \in Users
    <3>1. r.events \in Seq(EventInputs)
      BY <2>2, EventsAssumption
    <3> HIDE DEF r
    <3>2. \A i \in DOMAIN r.events : r.events[i] \in EventInputs
      BY <3>1
    <3> QED  BY <3>2 DEF EventInputs
  <2> HIDE DEF new, r
  <2>6. ASSUME NEW e \in new
        PROVE  e.received \in Instants /\ e.user \in Users /\ (e.by.class = "user" => e.user = e.by.user)
    <3>1. PICK i \in DOMAIN r.events : e = EventRow(r, Cardinality(log) + i, i, ereq[h].received)
      BY <2>3
    <3>2. e.received = ereq[h].received /\ e.user = r.events[i].user /\ e.by = r.subject
      BY <3>1 DEF EventRow
    <3>3. r.subject.class = "user" => r.events[i].user = r.subject.user
      BY <2>1, <2>2 DEF EventInv
    <3> QED  BY <2>2, <2>5, <3>2, <3>3
  <2>7. \A e \in log' : e.received \in Instants /\ e.user \in Users
    BY <2>1, <2>6 DEF EventInv
  <2>8. EventsAttributed'
    BY <2>1, <2>6 DEF EventInv, EventsAttributed
  <2>9. /\ ereq' \in [Recorders -> Recordings]
        /\ \A g \in Recorders :
                  /\ ereq'[g].pc = "idle" <=> ereq'[g].request = {}
                  /\ ereq'[g].pc = "insert" =>
                       /\ ereq'[g].received \in Instants
                       /\ \A s \in ereq'[g].request : \A i \in DOMAIN s.events :
                            s.subject.class = "user" => s.events[i].user = s.subject.user
    BY <1>3, <1>4, <2>1 DEF RecordAnswered
  <2> QED  BY <2>4, <2>7, <2>8, <2>9 DEF EventInv
<1>10. CASE RecordAbort(h)
  BY <1>5, <1>10 DEF RecordAbort
<1> QED  BY <1>1, <1>6, <1>8, <1>9, <1>10

-----------------------------------------------------------------------------
(* Keyset pages: the order of the keys, and ORDER BY ... LIMIT n on a      *)
(* finite set of rows with distinct keys.                                  *)

Key == Int \X Int

\* The order of keys is total and strict.
LEMMA KeyTotal ==
  ASSUME NEW a \in Key, NEW b \in Key
  PROVE  /\ Before(a, b) \/ Before(b, a) \/ a = b
         /\ ~(Before(a, b) /\ Before(b, a)) /\ ~Before(a, a)
BY DEF Before, Key

\* It is transitive.
LEMMA KeyTransitive ==
  ASSUME NEW a \in Key, NEW b \in Key, NEW c \in Key, Before(a, b), Before(b, c)
  PROVE  Before(a, c)
BY DEF Before, Key

\* Rows have keys.
LEMMA RowKey ==
  ASSUME NEW r \in Paged!Rows
  PROVE  r.key \in Key
BY DEF Paged!Rows, Key

\* A non-empty set of naturals has a least member; a bounded one, a greatest.
LEMMA LeastNatural ==
  ASSUME NEW S, S \subseteq Nat, S # {}
  PROVE  \E x \in S : \A y \in S : x <= y
<1> DEFINE R == {ss \in Nat \X Nat : ss[1] < ss[2]}
<1>1. IsWellFoundedOn(R, Nat)
  BY NatLessThanWellFounded, Zenon DEF OpToRel
<1>2. PICK x \in S : \A y \in S : ~(<<y, x>> \in R)
  BY <1>1, WFMin, Zenon
<1>3. ASSUME NEW y \in S PROVE x <= y
  <2>1. x \in Nat /\ y \in Nat
    OBVIOUS
  <2>2. ~(y < x)
    BY <1>2, <2>1
  <2> QED  BY <2>1, <2>2
<1> QED  BY <1>3

\* The rows before r in the order of the keys.
Ahead(S, r) == {q \in S : Before(q.key, r.key)}
Listing(S) == S \subseteq Paged!Rows /\ DistinctKeys(S) /\ IsFiniteSet(S)

\* The rank of a row in a listing is a natural.
LEMMA RankType ==
  ASSUME NEW S, Listing(S), NEW r
  PROVE  IsFiniteSet(Ahead(S, r)) /\ Cardinality(Ahead(S, r)) \in Nat
<1>1. Ahead(S, r) \in SUBSET S
  BY DEF Ahead
<1> QED  BY <1>1, FS_Subset, FS_CardinalityType DEF Listing

\* A row has fewer rows before it than a row that it precedes.
LEMMA RankGrows ==
  ASSUME NEW S, Listing(S), NEW q \in S, NEW r \in S, Before(q.key, r.key)
  PROVE  Cardinality(Ahead(S, q)) < Cardinality(Ahead(S, r))
<1>1. q.key \in Key /\ r.key \in Key /\ \A p \in S : p.key \in Key
  BY RowKey DEF Listing
<1>2. Ahead(S, q) \in SUBSET Ahead(S, r)
  BY <1>1, KeyTransitive DEF Ahead
<1>3. q \in Ahead(S, r) /\ q \notin Ahead(S, q)
  BY <1>1, KeyTotal DEF Ahead
<1>4. Cardinality(Ahead(S, q)) \in Nat /\ Cardinality(Ahead(S, r)) \in Nat
      /\ IsFiniteSet(Ahead(S, r))
  BY RankType
<1>5. Cardinality(Ahead(S, q)) <= Cardinality(Ahead(S, r))
      /\ Cardinality(Ahead(S, q)) # Cardinality(Ahead(S, r))
  BY <1>2, <1>3, <1>4, FS_Subset
<1> QED  BY <1>4, <1>5

\* Rows with as many rows before them are the same row.
LEMMA RankTells ==
  ASSUME NEW S, Listing(S), NEW q \in S, NEW r \in S,
         Cardinality(Ahead(S, q)) = Cardinality(Ahead(S, r))
  PROVE  q = r
<1>1. q.key \in Key /\ r.key \in Key
  BY RowKey DEF Listing
<1>2. Cardinality(Ahead(S, q)) \in Nat /\ Cardinality(Ahead(S, r)) \in Nat
  BY RankType
<1>3. ~Before(q.key, r.key) /\ ~Before(r.key, q.key)
  BY <1>2, RankGrows
<1> QED  BY <1>1, <1>3, KeyTotal DEF Listing, DistinctKeys

\* The first n rows are those with fewer than n ahead of them.
LEMMA FirstIs ==
  ASSUME NEW n, NEW S
  PROVE  First(n, S) = {r \in S : Cardinality(Ahead(S, r)) < n}
BY DEF First, Ahead

\* The first rows are closed towards the front.
LEMMA FirstCloses ==
  ASSUME NEW S, Listing(S), NEW n \in Nat, NEW r \in First(n, S), NEW q \in S,
         Before(q.key, r.key)
  PROVE  q \in First(n, S)
<1>1. r \in S /\ Cardinality(Ahead(S, r)) < n
  BY FirstIs
<1>2. Cardinality(Ahead(S, q)) < Cardinality(Ahead(S, r))
  BY <1>1, RankGrows
<1>3. Cardinality(Ahead(S, q)) \in Nat /\ Cardinality(Ahead(S, r)) \in Nat
  BY RankType
<1> QED  BY <1>1, <1>2, <1>3, FirstIs

\* A page of a listing is a listing.
LEMMA FirstListing ==
  ASSUME NEW S, Listing(S), NEW n
  PROVE  Listing(First(n, S)) /\ First(n, S) \subseteq S
<1>1. First(n, S) \in SUBSET S
  BY DEF First
<1> QED  BY <1>1, FS_Subset DEF Listing, DistinctKeys

\* The first m of the first n rows are the first m rows.
LEMMA FirstOfFirst ==
  ASSUME NEW S, Listing(S), NEW n \in Nat, NEW m \in Nat, m <= n
  PROVE  First(m, First(n, S)) = First(m, S)
<1>1. ASSUME NEW r \in First(n, S) PROVE Ahead(First(n, S), r) = Ahead(S, r)
  BY <1>1, FirstCloses, FirstListing DEF Ahead
<1>2. \A r : Cardinality(Ahead(S, r)) \in Nat
  BY RankType
<1>3. \A r \in S : Cardinality(Ahead(S, r)) < m => r \in First(n, S)
  BY <1>2, FirstIs
<1>4. First(m, First(n, S)) = {r \in First(n, S) : Cardinality(Ahead(S, r)) < m}
  BY <1>1, FirstIs
<1>5. First(m, S) = {r \in S : Cardinality(Ahead(S, r)) < m}
  BY FirstIs
<1> QED  BY <1>3, <1>4, <1>5, FirstListing

\* LIMIT n returns at most n rows.
LEMMA FirstBound ==
  ASSUME NEW S, Listing(S), NEW n \in Nat
  PROVE  Cardinality(First(n, S)) <= n
<1> DEFINE F == First(n, S)
           f == [r \in F |-> Cardinality(Ahead(S, r))]
<1>1. \A r \in F : r \in S /\ Cardinality(Ahead(S, r)) \in 0..(n - 1)
  BY RankType, FirstIs
<1>2. f \in [F -> 0..(n - 1)]
  BY <1>1
<1>3. \A q, r \in F : f[q] = f[r] => q = r
  BY <1>1, RankTells
<1> HIDE DEF f
<1>4. f \in Injection(F, 0..(n - 1))
  BY <1>2, <1>3 DEF Injection, IsInjective
<1>5. IsFiniteSet(0..(n - 1)) /\ Cardinality(0..(n - 1)) = n
  BY FS_Interval
<1> QED  BY <1>4, <1>5, FS_Injection

\* If LIMIT n + 1 returns at most n rows, there are no others.
LEMMA FirstAll ==
  ASSUME NEW S, Listing(S), NEW n \in Nat, Cardinality(First(n + 1, S)) <= n
  PROVE  First(n, S) = S
<1> DEFINE F == First(n + 1, S)
<1>0. F \subseteq S /\ Listing(F) /\ IsFiniteSet(F) /\ Cardinality(F) \in Nat
  BY FirstListing, FS_CardinalityType DEF Listing
<1>1. ASSUME F # S PROVE FALSE
  <2> DEFINE R == {Cardinality(Ahead(S, r)) : r \in S \ F}
  <2>1. R \subseteq Nat /\ R # {}
    BY <1>0, <1>1, RankType
  <2>2. PICK k \in R : \A l \in R : k <= l
    BY <2>1, LeastNatural
  <2>3. PICK x \in S \ F : k = Cardinality(Ahead(S, x))
    BY <2>2
  <2>4. \A q \in S : Before(q.key, x.key) => q \in F
    <3> SUFFICES ASSUME NEW q \in S, Before(q.key, x.key), q \notin F PROVE FALSE
      OBVIOUS
    <3>1. Cardinality(Ahead(S, q)) < k /\ Cardinality(Ahead(S, q)) \in R
      BY <2>3, RankGrows
    <3>2. k \in Nat /\ Cardinality(Ahead(S, q)) \in Nat /\ k <= Cardinality(Ahead(S, q))
      BY <2>2, <2>3, <3>1, RankType
    <3> QED  BY <3>1, <3>2
  <2>5. Ahead(S, x) \in SUBSET F
    BY <2>4 DEF Ahead
  <2>6. Cardinality(Ahead(S, x)) <= Cardinality(F)
    BY <1>0, <2>5, FS_Subset
  <2>7. Cardinality(Ahead(S, x)) \in Nat /\ Cardinality(Ahead(S, x)) < n + 1
    BY <1>0, <2>6, RankType
  <2> QED  BY <2>3, <2>7, FirstIs
<1>2. ASSUME NEW r \in S PROVE Cardinality(Ahead(S, r)) < n
  <2>1. IsFiniteSet(S) /\ Cardinality(S) <= n /\ Cardinality(S) \in Nat
    BY <1>0, <1>1
  <2>2. r \notin Ahead(S, r) /\ Ahead(S, r) \in SUBSET S
    BY RowKey, KeyTotal DEF Ahead, Listing
  <2>3. Cardinality(Ahead(S, r)) <= Cardinality(S) /\ Cardinality(Ahead(S, r)) # Cardinality(S)
    BY <2>1, <2>2, FS_Subset
  <2> QED  BY <2>1, <2>3, RankType
<1> QED  BY <1>2, FirstIs

\* A first row exists, and a last one of a page, whose key is the token.
LEMMA FirstSome ==
  ASSUME NEW S, Listing(S), S # {}, NEW n \in Nat \ {0}
  PROVE  First(n, S) # {}
<1> DEFINE R == {Cardinality(Ahead(S, r)) : r \in S}
<1>1. R \subseteq Nat /\ R # {}
  BY RankType
<1>2. PICK k \in R : \A l \in R : k <= l
  BY <1>1, LeastNatural
<1>3. PICK x \in S : k = Cardinality(Ahead(S, x))
  BY <1>2
<1>4. Ahead(S, x) = {}
  <2> SUFFICES ASSUME NEW q \in Ahead(S, x) PROVE FALSE
    OBVIOUS
  <2>1. q \in S /\ Before(q.key, x.key)
    BY DEF Ahead
  <2>2. Cardinality(Ahead(S, q)) < k /\ Cardinality(Ahead(S, q)) \in R
    BY <1>3, <2>1, RankGrows
  <2> QED  BY <1>1, <1>2, <2>2
<1>5. Cardinality(Ahead(S, x)) < n
  BY <1>4, FS_EmptySet
<1> QED  BY <1>5, FirstIs

\* The token of a page is the key of its last row.
LEMMA TokenOfPage ==
  ASSUME NEW S, Listing(S), S # {}
  PROVE  \E z \in S : (\A r \in S : ~Before(z.key, r.key)) /\ TokenOf(S) = {z.key}
<1> DEFINE size == Cardinality(S)
           R == {size - Cardinality(Ahead(S, r)) : r \in S}
<1>0. size \in Nat /\ \A r \in S : /\ Cardinality(Ahead(S, r)) \in Nat
                                   /\ Cardinality(Ahead(S, r)) <= size
  <2>1. IsFiniteSet(S) /\ size \in Nat
    BY FS_CardinalityType DEF Listing
  <2>2. \A r \in S : Ahead(S, r) \in SUBSET S
    BY DEF Ahead
  <2> QED  BY <2>1, <2>2, FS_Subset, RankType
<1>1. R \subseteq Nat /\ R # {}
  BY <1>0
<1>2. PICK k \in R : \A l \in R : k <= l
  BY <1>1, LeastNatural
<1>3. PICK z \in S : k = size - Cardinality(Ahead(S, z))
  BY <1>2
<1>4. ASSUME NEW r \in S PROVE ~Before(z.key, r.key)
  <2>1. size - Cardinality(Ahead(S, r)) \in R
    OBVIOUS
  <2>2. Cardinality(Ahead(S, r)) <= Cardinality(Ahead(S, z))
    BY <1>0, <1>2, <1>3, <2>1
  <2> QED  BY <1>0, <2>2, RankGrows
<1>5. ASSUME NEW y \in S, \A q \in S : ~Before(y.key, q.key) PROVE y.key = z.key
  BY <1>4, <1>5, RowKey, KeyTotal DEF Listing
<1> QED  BY <1>4, <1>5 DEF TokenOf

-----------------------------------------------------------------------------
(* What each listing selects is a finite set of rows with distinct keys.   *)

\* Rows made one by one from a finite set, with distinct keys, are a listing.
LEMMA ImageListing ==
  ASSUME NEW D, IsFiniteSet(D), NEW f \in [D -> Paged!Rows],
         \A x, y \in D : f[x].key = f[y].key => f[x] = f[y]
  PROVE  Listing({f[x] : x \in D})
<1> DEFINE S == {f[x] : x \in D}
<1>1. f \in Surjection(D, S)
  BY DEF Surjection
<1>2. IsFiniteSet(S)
  BY <1>1, FS_Surjection
<1> QED  BY <1>2 DEF Listing, DistinctKeys

\* A newest-first listing of ids: the id tells apart what one instant joins.
LEMMA NewestListing ==
  ASSUME NEW D, IsFiniteSet(D), D \subseteq Int, NEW t \in [D -> Int]
  PROVE  Listing({[item |-> x, key |-> Newest(t[x], x)] : x \in D})
<1> DEFINE f == [x \in D |-> [item |-> x, key |-> Newest(t[x], x)]]
<1>1. ASSUME NEW x \in D PROVE f[x] \in Paged!Rows /\ f[x].key[2] = 0 - x
  BY DEF Newest, Paged!Rows
<1>2. f \in [D -> Paged!Rows]
  BY <1>1
<1>3. \A x, y \in D : f[x].key = f[y].key => f[x] = f[y]
  <2> SUFFICES ASSUME NEW x \in D, NEW y \in D, f[x].key = f[y].key PROVE x = y
    OBVIOUS
  <2>1. 0 - x = 0 - y /\ x \in Int /\ y \in Int
    BY <1>1
  <2> QED  BY <2>1
<1> HIDE DEF f
<1>4. Listing({f[x] : x \in D})
  BY <1>2, <1>3, ImageListing
<1> QED  BY <1>4 DEF f

\* An edge that is there has an instant.
LEMMA EdgeCreated ==
  ASSUME FollowInv, NEW e \in Edges, follows[e].status # "none"
  PROVE  follows[e].created \in Int
<1>1. follows[e] \in EdgeRows
  BY DEF FollowInv, NoEdge
<1> QED  BY <1>1, DirectoryAssumption DEF EdgeRows

\* list_user_follows and list_account_followers select listings.
LEMMA FollowListings ==
  ASSUME FollowInv, NEW all
  PROVE  /\ \A u \in Users : Listing(UserFollows(u, all))
         /\ \A a \in Accounts : Listing(AccountFollowers(a, all))
<1>1. ASSUME NEW u \in Users PROVE Listing(UserFollows(u, all))
  <2> DEFINE D == {a \in Accounts : follows[<<u, a>>].status = "active"
                                      \/ (all /\ follows[<<u, a>>].status # "none")}
             t == [a \in D |-> follows[<<u, a>>].created]
  <2>1. D \in SUBSET Accounts /\ IsFiniteSet(D) /\ D \subseteq Int
    BY DirectoryAssumption, FS_Subset
  <2>2. \A a \in D : <<u, a>> \in Edges /\ follows[<<u, a>>].status # "none"
    BY <1>1 DEF Edges
  <2>3. t \in [D -> Int]
    BY <2>2, EdgeCreated
  <2>4. \A a \in D : t[a] = follows[<<u, a>>].created
    OBVIOUS
  <2>5. UserFollows(u, all) = {[item |-> a, key |-> Newest(follows[<<u, a>>].created, a)] : a \in D}
    BY DEF UserFollows
  <2> HIDE DEF D, t
  <2>6. UserFollows(u, all) = {[item |-> a, key |-> Newest(t[a], a)] : a \in D}
    BY <2>4, <2>5
  <2> QED  BY <2>1, <2>3, <2>6, NewestListing
<1>2. ASSUME NEW a \in Accounts PROVE Listing(AccountFollowers(a, all))
  <2> DEFINE D == {u \in Users : follows[<<u, a>>].status = "active"
                                   \/ (all /\ follows[<<u, a>>].status # "none")}
             t == [u \in D |-> follows[<<u, a>>].created]
  <2>1. D \in SUBSET Users /\ IsFiniteSet(D) /\ D \subseteq Int
    BY DirectoryAssumption, FS_Subset
  <2>2. \A u \in D : <<u, a>> \in Edges /\ follows[<<u, a>>].status # "none"
    BY <1>2 DEF Edges
  <2>3. t \in [D -> Int]
    BY <2>2, EdgeCreated
  <2>4. \A u \in D : t[u] = follows[<<u, a>>].created
    OBVIOUS
  <2>5. AccountFollowers(a, all) = {[item |-> u, key |-> Newest(follows[<<u, a>>].created, u)] : u \in D}
    BY DEF AccountFollowers
  <2> HIDE DEF D, t
  <2>6. AccountFollowers(a, all) = {[item |-> u, key |-> Newest(t[u], u)] : u \in D}
    BY <2>4, <2>5
  <2> QED  BY <2>1, <2>3, <2>6, NewestListing
<1> QED  BY <1>1, <1>2

\* Listings of articles are newest first, whatever their condition.
LEMMA ArticleListings ==
  ASSUME NEW D \in SUBSET Articles
  PROVE  Listing({[item |-> x, key |-> Newest(CreatedAt[x], x)] : x \in D})
<1> DEFINE t == [x \in D |-> CreatedAt[x]]
<1>1. IsFiniteSet(D) /\ D \subseteq Int /\ t \in [D -> Int]
  BY DirectoryAssumption, FS_Subset
<1>2. \A x \in D : t[x] = CreatedAt[x]
  OBVIOUS
<1> HIDE DEF t
<1>3. {[item |-> x, key |-> Newest(CreatedAt[x], x)] : x \in D}
        = {[item |-> x, key |-> Newest(t[x], x)] : x \in D}
  BY <1>2
<1> QED  BY <1>1, <1>3, NewestListing

\* So does the listing of the drafts of an account.
LEMMA DraftListing ==
  ASSUME DirectoryTypeOK, NEW a
  PROVE  Listing(DraftList(a))
<1> DEFINE D == {d \in DraftIds : DraftOwner[d] = a /\ drafts[d] # {}}
           t == [d \in D |-> CHOOSE x \in Instants : drafts[d] = {x}]
<1>1. D \in SUBSET DraftIds /\ IsFiniteSet(D) /\ D \subseteq Int
  BY DirectoryAssumption, FS_Subset
<1>2. \A d \in D : t[d] \in Instants /\ drafts[d] = {t[d]}
  <2> SUFFICES ASSUME NEW d \in D PROVE t[d] \in Instants /\ drafts[d] = {t[d]}
    OBVIOUS
  <2>1. \E x \in Instants : drafts[d] = {x}
    BY DEF DirectoryTypeOK
  <2> QED  BY <2>1
<1>3. t \in [D -> Int]
  BY <1>2, DirectoryAssumption
<1>4. \A d \in DraftIds : DraftOwner[d] = a => d \in D \/ drafts[d] = {}
  OBVIOUS
<1>5. \A d \in D : d \in DraftIds /\ DraftOwner[d] = a
  OBVIOUS
<1> HIDE DEF D, t
<1>6. DraftList(a) = {[item |-> d, key |-> Newest(t[d], d)] : d \in D}
  BY <1>2, <1>4, <1>5 DEF DraftList
<1> QED  BY <1>1, <1>3, <1>6, NewestListing

\* So does the recommended feed: no position is taken twice.
LEMMA RecommendedListing ==
  ASSUME FeedInv, NEW u \in Users
  PROVE  Listing(RecommendedFeed(u))
<1>1. PICK p \in Pushes : feed[u] = RowsOf(p)
  BY DEF FeedInv, Serves
<1> DEFINE D == {r \in feed[u] : state[r.article] = "live"}
           f == [r \in D |-> [item |-> r.article, key |-> <<r.position, 0>>]]
<1>2. D \in SUBSET feed[u] /\ IsFiniteSet(D)
  BY <1>1, RowsTyped, FS_Subset
<1>3. \A r \in D : r.position \in Int /\ r.article \in Int
  <2>1. \A r \in RowsOf(p) : r.position \in Nat /\ r.article \in Articles
    BY RowsTyped
  <2>2. Articles \subseteq Int
    BY DirectoryAssumption, Zenon
  <2>3. \A r \in D : r \in RowsOf(p)
    BY <1>1, Zenon
  <2> HIDE DEF D, f
  <2> TAKE r \in D
  <2>4. r.position \in Nat /\ r.article \in Articles
    BY <2>1, <2>3, Zenon
  <2>5. \A n \in Nat : n \in Int
    OBVIOUS
  <2>6. \A a \in Articles : a \in Int
    BY <2>2, Zenon
  <2> QED  BY <2>4, <2>5, <2>6, Zenon
<1>4. f \in [D -> Paged!Rows]
  BY <1>3 DEF Paged!Rows
<1>5. \A r, q \in D : f[r].key = f[q].key => f[r] = f[q]
  BY <1>1, <1>2, RowsTyped
<1>6. RecommendedFeed(u) = {f[r] : r \in D}
  BY DEF RecommendedFeed
<1> HIDE DEF f, D
<1> QED  BY <1>2, <1>4, <1>5, <1>6, ImageListing

\* So does the event log: no id is given twice.
LEMMA EventListing ==
  ASSUME EventInv, NEW filter
  PROVE  Listing(EventList(filter))
<1> DEFINE D == {e \in log : /\ e.user \in filter.users /\ e.type \in filter.types
                             /\ filter.article = {} \/ e.article = filter.article
                             /\ filter.after <= e.received /\ e.received < filter.before}
           f == [e \in D |-> [item |-> e.id, key |-> <<e.received, e.id>>]]
<1>1. D \in SUBSET log /\ IsFiniteSet(D)
  BY FS_Subset DEF EventInv
<1>2. \A e \in D : e.id \in Int /\ e.received \in Int
  <2>1. \A e \in log : e.id \in 1..Cardinality(log) /\ e.received \in Instants
    BY DEF EventInv
  <2>2. Cardinality(log) \in Nat
    BY FS_CardinalityType DEF EventInv
  <2>3. \A n \in 1..Cardinality(log) : n \in Int
    BY <2>2
  <2>4. Instants \subseteq Int
    BY DirectoryAssumption
  <2>5. \A e \in log : e.id \in Int /\ e.received \in Int
    BY <2>1, <2>3, <2>4, Zenon
  <2> QED  BY <1>1, <2>5
<1>3. f \in [D -> Paged!Rows]
  BY <1>2 DEF Paged!Rows
<1>4. \A e, g \in D : f[e].key = f[g].key => f[e] = f[g]
  BY <1>1 DEF EventInv
<1>5. EventList(filter) = {f[e] : e \in D}
  BY DEF EventList
<1> HIDE DEF f, D
<1> QED  BY <1>1, <1>3, <1>4, <1>5, ImageListing

\* Whatever is scanned selects a listing.
LEMMA SelectedListing ==
  ASSUME DirectoryTypeOK, FollowInv, FeedInv, EventInv, NEW scan \in Scans \union {NoScan.scan}
  PROVE  Listing(Selected(scan))
<1>1. CASE scan \in [list : {"user_follows"}, of : Users, all : BOOLEAN]
  BY <1>1, FollowListings DEF Selected
<1>2. CASE scan \in [list : {"account_followers"}, of : Accounts, all : BOOLEAN]
  BY <1>2, FollowListings DEF Selected
<1>3. ASSUME NEW a, NEW all PROVE Listing(AccountArticles(a, all)) /\ Listing(FollowFeed(a))
  BY ArticleListings DEF AccountArticles, FollowFeed
<1>4. CASE scan \in [list : {"account_articles"}, of : Accounts, all : BOOLEAN]
  BY <1>3, <1>4 DEF Selected
<1>5. CASE scan \in [list : {"drafts"}, of : Accounts]
  BY <1>5, DraftListing DEF Selected
<1>6. CASE scan \in [list : {"follow_feed"}, of : Users]
  BY <1>3, <1>6 DEF Selected
<1>7. CASE scan \in [list : {"recommended_feed"}, of : Users]
  BY <1>7, RecommendedListing DEF Selected
<1>8. CASE scan.list = "events"
  BY <1>8, EventListing DEF Selected
<1>9. CASE scan = NoScan.scan
  <2>1. Selected(scan) = {}
    BY <1>9 DEF Selected, NoScan
  <2> QED  BY <2>1, FS_EmptySet DEF Listing, DistinctKeys
<1> QED
  <2>1. \/ scan = NoScan.scan
        \/ scan \in [list : {"user_follows"}, of : Users, all : BOOLEAN]
        \/ scan \in [list : {"account_followers", "account_articles"}, of : Accounts, all : BOOLEAN]
        \/ scan \in [list : {"drafts"}, of : Accounts]
        \/ scan \in [list : {"follow_feed", "recommended_feed"}, of : Users]
        \/ scan.list = "events"
    BY ScansAssumption
  <2> QED  BY <1>1, <1>2, <1>4, <1>5, <1>6, <1>7, <1>8, <1>9, <2>1

-----------------------------------------------------------------------------
(* The reader. *)

\* A page is a run of at most Limit of the rows beyond the token; the row read
\* ahead tells whether there are others, and then the page has a last row.
LEMMA PageFacts ==
  ASSUME NEW B, Listing(B), NEW fetched, NEW page,
         fetched = First(Limit + 1, B), page = First(Limit, fetched)
  PROVE  /\ page \subseteq B /\ Cardinality(page) <= Limit
         /\ \A r \in page, q \in B \ page : Before(r.key, q.key)
         /\ ~(Cardinality(fetched) > Limit) => page = B
         /\ Cardinality(fetched) > Limit =>
              /\ page # B
              /\ \E z \in page : (\A r \in page : ~Before(z.key, r.key)) /\ TokenOf(page) = {z.key}
<1>1. Limit \in Nat /\ Limit # 0 /\ Limit + 1 \in Nat /\ Limit <= Limit + 1
  BY LimitAssumption
<1>2. page = First(Limit, B)
  BY <1>1, FirstOfFirst
<1>3. page \subseteq B /\ Listing(page) /\ fetched \subseteq B /\ Listing(fetched)
  BY <1>2, FirstListing
<1>4. Cardinality(page) <= Limit
  BY <1>1, <1>2, FirstBound
<1>5. Cardinality(page) \in Nat /\ Cardinality(fetched) \in Nat
  BY <1>3, FS_CardinalityType DEF Listing
<1>6. ASSUME NEW r \in page, NEW q \in B \ page PROVE Before(r.key, q.key)
  <2>1. r.key \in Key /\ q.key \in Key /\ r.key # q.key
    BY <1>3, RowKey DEF Listing, DistinctKeys
  <2>2. ~Before(q.key, r.key)
    BY <1>1, <1>2, FirstCloses
  <2> QED  BY <2>1, <2>2, KeyTotal
<1>7. ASSUME ~(Cardinality(fetched) > Limit) PROVE page = B
  BY <1>1, <1>2, <1>5, <1>7, FirstAll
<1>8. ASSUME Cardinality(fetched) > Limit
      PROVE  /\ page # B
             /\ \E z \in page : (\A r \in page : ~Before(z.key, r.key)) /\ TokenOf(page) = {z.key}
  <2>1. page # B
    <3>1. IsFiniteSet(B) /\ Cardinality(fetched) <= Cardinality(B) /\ Cardinality(B) \in Nat
      BY <1>3, FS_Subset, FS_CardinalityType DEF Listing
    <3> QED  BY <1>1, <1>4, <1>5, <1>8, <3>1
  <2>2. B # {}
    BY <1>3, <2>1
  <2>3. page # {}
    BY <1>1, <1>2, <2>2, FirstSome
  <2> QED  BY <1>3, <2>1, <2>3, TokenOfPage
<1> QED  BY <1>3, <1>4, <1>6, <1>7, <1>8

TablesInv == DirectoryTypeOK /\ FollowInv /\ FeedInv /\ EventInv

\* What is selected beyond the token.
Remaining == Beyond(reader.token, Selected(reader.scan))

\* So does the WHERE clause of the next page.
LEMMA BeyondListing ==
  ASSUME TablesInv, ReaderInv
  PROVE  Listing(Remaining) /\ Remaining \subseteq Selected(reader.scan) /\ Listing(Selected(reader.scan))
<1>1. reader.scan \in Scans \union {NoScan.scan}
  BY DEF ReaderInv, Readers
<1>2. Listing(Selected(reader.scan))
  BY <1>1, SelectedListing DEF TablesInv
<1>3. Remaining \in SUBSET Selected(reader.scan)
  BY DEF Remaining, Beyond
<1> QED  BY <1>2, <1>3, FS_Subset DEF Listing, DistinctKeys

\* A reader without a scan satisfies ReaderInv.
LEMMA ReaderResets ==
  ASSUME reader' = NoScan
  PROVE  ReaderInv'
<1>1. NoScan \in Readers /\ NoScan.pc = "idle" /\ NoScan.page = {}
  BY DEF NoScan, Readers
<1>2. Cardinality(NoScan.page) <= Limit
  BY <1>1, FS_EmptySet, LimitAssumption
<1> QED  BY <1>1, <1>2 DEF ReaderInv

\* A scan that opens has an owner of the right kind and no page yet.
LEMMA OpensStep ==
  ASSUME TablesInv, NEW scan \in Scans, ReaderOpens(scan)
  PROVE  ReaderInv'
<1>1. Selected(scan) \in SUBSET Paged!Rows
  BY SelectedListing DEF TablesInv, Listing
<1>2. FirstStatement(scan) \in {"user", "select"}
  BY DEF FirstStatement
<1> DEFINE r == [NoScan EXCEPT !.pc = FirstStatement(scan), !.phase = "open", !.scan = scan,
                               !.steady = Selected(scan)]
<1>3. reader' = r
  BY DEF ReaderOpens
<1>4. r \in Readers /\ r.phase = "open" /\ r.scan = scan /\ r.page = {}
  BY <1>1, <1>2 DEF NoScan, Readers
<1>5. Cardinality(r.page) <= Limit
  BY <1>4, FS_EmptySet, LimitAssumption
<1> HIDE DEF r
<1> QED  BY <1>3, <1>4, <1>5 DEF ReaderInv

\* A page read keeps the scan open, or ends it.
LEMMA PageStep ==
  ASSUME TablesInv, ReaderInv, SelectPage
  PROVE  ReaderInv'
<1> DEFINE fetched == First(Limit + 1, Remaining)
           page == First(Limit, fetched)
           more == Cardinality(fetched) > Limit
           token == IF more THEN TokenOf(page) ELSE {}
           todo == IF reader.scan.list = "account_articles"
                   THEN {r.item : r \in {r \in page : state[r.item] = "live"}} ELSE {}
           pc == CASE reader.scan.list = "account_articles" -> "hydrate"
                    [] more -> FirstStatement(reader.scan)
                    [] OTHER -> "idle"
           phase == IF more THEN "open" ELSE "ended"
<1>1. reader \in Readers /\ reader.phase = "open" /\ reader.scan \in Scans
  BY DEF ReaderInv, SelectPage
<1>2. reader' = [reader EXCEPT !.page = page, !.got = @ \union reader.page, !.token = token,
                               !.phase = phase, !.todo = todo, !.pc = pc]
  BY DEF SelectPage, Remaining
<1>3. /\ page \subseteq Remaining /\ Cardinality(page) <= Limit
      /\ more => \E z \in page : TokenOf(page) = {z.key}
  BY BeyondListing, PageFacts
<1>4. page \subseteq Paged!Rows /\ page \subseteq Selected(reader.scan)
  BY <1>3, BeyondListing DEF Listing
<1>5. token \subseteq Int \X Int
  BY <1>3, <1>4, RowKey DEF Key
<1>6. todo \subseteq Articles
  <2>1. CASE reader.scan.list = "account_articles"
    <3>1. Selected(reader.scan) = AccountArticles(reader.scan.of, reader.scan.all)
      BY <2>1 DEF Selected
    <3>2. \A r \in Selected(reader.scan) : r.item \in Articles
      BY <3>1 DEF AccountArticles
    <3> QED  BY <1>4, <3>2
  <2>2. CASE reader.scan.list # "account_articles"
    BY <2>2
  <2> QED  BY <2>1, <2>2
<1>7. pc \in {"idle", "user", "select", "hydrate"} /\ (pc \in {"user", "select"} => phase = "open")
      /\ phase \in {"open", "ended"}
  BY DEF FirstStatement
<1>8. reader.got \union reader.page \subseteq Paged!Rows
  BY <1>1 DEF Readers
<1> HIDE DEF page, token, todo, pc, phase, more, fetched
<1>9. /\ reader'.pc = pc /\ reader'.phase = phase /\ reader'.scan = reader.scan
      /\ reader'.page = page /\ reader' \in Readers
  BY <1>1, <1>2, <1>4, <1>5, <1>6, <1>7, <1>8 DEF Readers
<1> QED  BY <1>1, <1>3, <1>7, <1>9 DEF ReaderInv

\* The other steps of the reader, and what the writers do to steady.
LEMMA ReaderStep ==
  ASSUME TablesInv, ReaderInv, CheckUser \/ Hydrate \/ Watched \/ UNCHANGED reader
  PROVE  ReaderInv'
<1>0. reader \in Readers /\ Cardinality(reader.page) <= Limit
  BY DEF ReaderInv
<1>1. ASSUME NEW pc \in {"idle", "user", "select", "hydrate"}, NEW steady \in SUBSET Paged!Rows,
             NEW todo \in SUBSET Articles,
             reader' = [reader EXCEPT !.pc = pc, !.steady = steady, !.todo = todo],
             pc \in {"user", "select"} => reader.phase = "open",
             pc # "idle" => reader.scan \in Scans
      PROVE  ReaderInv'
  <2>1. /\ reader' \in Readers /\ reader'.pc = pc /\ reader'.page = reader.page
        /\ reader'.phase = reader.phase /\ reader'.scan = reader.scan
    BY <1>0, <1>1 DEF Readers
  <2> QED  BY <1>0, <1>1, <2>1 DEF ReaderInv
<1>2. /\ reader.steady \in SUBSET Paged!Rows /\ reader.todo \in SUBSET Articles
      /\ reader.pc \in {"idle", "user", "select", "hydrate"}
  BY <1>0 DEF Readers
<1>3. \A pc, todo : [reader EXCEPT !.pc = pc, !.todo = todo]
                      = [reader EXCEPT !.pc = pc, !.steady = reader.steady, !.todo = todo]
  BY <1>0 DEF Readers
<1>4. CASE CheckUser
  <2>1. CASE reader' = [reader EXCEPT !.pc = "select"]
    <3>1. reader' = [reader EXCEPT !.pc = "select", !.steady = reader.steady, !.todo = reader.todo]
      BY <1>0, <2>1 DEF Readers
    <3>2. reader.phase = "open" /\ reader.scan \in Scans
      BY <1>4 DEF CheckUser, ReaderInv
    <3> QED  BY <1>1, <1>2, <3>1, <3>2
  <2> QED  BY <1>4, <2>1, ReaderResets DEF CheckUser
<1>5. CASE Hydrate
  <2>1. ASSUME NEW x \in reader.todo, reader' = [reader EXCEPT !.todo = @ \ {x}] PROVE ReaderInv'
    <3>1. reader' = [reader EXCEPT !.pc = reader.pc, !.steady = reader.steady,
                                   !.todo = reader.todo \ {x}]
      BY <1>0, <2>1 DEF Readers
    <3>2. reader.pc = "hydrate" /\ reader.scan \in Scans /\ reader.todo \ {x} \in SUBSET Articles
      BY <1>2, <1>5 DEF Hydrate, ReaderInv
    <3> QED  BY <1>1, <1>2, <3>1, <3>2
  <2>2. ASSUME reader' = [reader EXCEPT !.pc = IF reader.phase = "open" THEN "select" ELSE "idle"]
        PROVE  ReaderInv'
    <3>1. reader' = [reader EXCEPT !.pc = IF reader.phase = "open" THEN "select" ELSE "idle",
                                   !.steady = reader.steady, !.todo = reader.todo]
      BY <1>0, <2>2 DEF Readers
    <3>2. reader.phase = "open" => reader.scan \in Scans
      BY <1>5 DEF Hydrate, ReaderInv
    <3> QED  BY <1>1, <1>2, <3>1, <3>2
  <2> QED  BY <1>5, <2>1, <2>2, ReaderResets DEF Hydrate
<1>6. CASE Watched
  <2>1. PICK scan \in {reader.scan} :
          reader' = [reader EXCEPT !.steady = reader.steady \intersect Selected(scan)']
    BY <1>6 DEF Watched
  <2>2. PICK st \in SUBSET Paged!Rows : reader' = [reader EXCEPT !.steady = st]
    BY <1>2, <2>1
  <2>3. reader' = [reader EXCEPT !.pc = reader.pc, !.steady = st, !.todo = reader.todo]
    BY <1>0, <2>2 DEF Readers
  <2>4. /\ reader.pc \in {"user", "select"} => reader.phase = "open"
        /\ reader.pc # "idle" => reader.scan \in Scans
    BY DEF ReaderInv
  <2> QED  BY <1>1, <1>2, <2>3, <2>4
<1>7. CASE UNCHANGED reader
  BY <1>7 DEF ReaderInv
<1> QED  BY <1>4, <1>5, <1>6, <1>7

-----------------------------------------------------------------------------
(* The invariant of the whole. *)

\* The tables at the start satisfy the invariant.
LEMMA ListingsStarts ==
  ASSUME Init
  PROVE  ListingsInv
<1>1. DirectoryTypeOK
  BY DirectoryAssumption DEF Init, DirectoryInit, DirectoryTypeOK
<1>2. FollowInv
  <2>1. freq \in [FollowHandlers -> FollowRequests]
    BY DEF Init, FollowsInit, FollowRequests
  <2>2. \A h \in FollowHandlers : freq[h].pc = "idle"
    BY DEF Init, FollowsInit, NoFollowRequest
  <2> QED  BY <2>1, <2>2, InitFollowsAssumption DEF Init, FollowsInit, FollowInv
<1>3. FeedInv
  BY FeedStarts DEF Init
<1>4. EventInv
  <2>1. NoRecording \in Recordings /\ NoRecording.pc = "idle" /\ NoRecording.request = {}
    BY DEF NoRecording, Recordings
  <2>2. ereq \in [Recorders -> Recordings] /\ \A h \in Recorders : ereq[h] = NoRecording
    BY <2>1 DEF Init, EventsInit
  <2>3. log = InitLog
    BY DEF Init, EventsInit
  <2>4. EventsAttributed
    BY <2>3, EventsAssumption DEF EventsAttributed
  <2> QED  BY <2>1, <2>2, <2>3, <2>4, EventsAssumption DEF EventInv
<1>5. ReaderInv
  <2>1. NoScan \in Readers /\ NoScan.pc = "idle" /\ NoScan.page = {}
    BY DEF NoScan, Readers
  <2>2. Cardinality(NoScan.page) <= Limit
    BY <2>1, FS_EmptySet, LimitAssumption
  <2> QED  BY <2>1, <2>2 DEF ReaderInv, Init
<1> QED  BY <1>1, <1>2, <1>3, <1>4, <1>5 DEF ListingsInv

\* Every action of any component keeps it.
LEMMA ListingsStep ==
  ASSUME ListingsInv, [Next]_vars
  PROVE  ListingsInv'
<1>0. TablesInv /\ ReaderInv /\ DirectoryTypeOK /\ FollowInv /\ FeedInv /\ EventInv
  BY DEF ListingsInv, TablesInv
<1>1. ASSUME UNCHANGED <<directoryVars, followVars, feedVars, eventVars>> PROVE TablesInv'
  <2>1. DirectoryTypeOK' /\ gone' = gone /\ served' = served
    BY <1>0, <1>1 DEF DirectoryTypeOK, directoryVars
  <2> QED  BY <1>0, <1>1, <2>1, FollowFrame, FeedFrame, EventFrame DEF TablesInv
<1>2. CASE Writers /\ Watched
  <2>1. DirectoryMoves
    BY <1>0, <1>2, WritersMoveDirectory DEF Writers
  <2>2. FollowInv'
    BY <1>0, <1>2, <2>1, FollowsStep, FollowFrame DEF Writers, DirectoryMoves
  <2>3. FeedInv'
    BY <1>0, <1>2, <2>1, FeedStep, FeedFrame DEF Writers, DirectoryMoves
  <2>4. EventInv'
    BY <1>0, <1>2, EventsStep, EventFrame DEF Writers
  <2>5. ReaderInv'
    BY <1>0, <1>2, ReaderStep
  <2> QED  BY <2>1, <2>2, <2>3, <2>4, <2>5 DEF ListingsInv, DirectoryMoves
<1>3. ASSUME NEW scan \in Scans, ReaderOpens(scan) PROVE ListingsInv'
  BY <1>0, <1>1, <1>3, OpensStep DEF ReaderOpens, ListingsInv, TablesInv
<1>4. CASE CheckUser \/ Hydrate
  BY <1>0, <1>1, <1>4, ReaderStep DEF CheckUser, Hydrate, ListingsInv, TablesInv
<1>5. CASE SelectPage
  BY <1>0, <1>1, <1>5, PageStep DEF SelectPage, ListingsInv, TablesInv
<1>6. CASE UNCHANGED vars
  BY <1>0, <1>1, <1>6, ReaderStep DEF vars, ListingsInv, TablesInv
<1> QED  BY <1>2, <1>3, <1>4, <1>5, <1>6 DEF Next

\* The rows of every table and what each request under way knows of them stay
\* consistent, whatever the handlers' statements do to each other.
THEOREM ListingsInvariant == Spec => []ListingsInv
<1>1. Init => ListingsInv
  BY ListingsStarts
<1>2. ListingsInv /\ [Next]_vars => ListingsInv'
  BY ListingsStep
<1> QED  BY <1>1, <1>2, PTL DEF Spec

\* However the statements of the requests interleave, the rows that the
\* listings read are well formed, no position of a feed is taken twice and no
\* event is recorded for another user.
THEOREM RowsSoundCorrect == Spec => []RowsSound
<1>1. ASSUME ListingsInv PROVE RowsSound
  <2>1. FollowsTypeOK
    <3>1. \A h \in FollowHandlers : freq[h] \in FollowRequests
      BY <1>1 DEF ListingsInv, FollowInv
    <3> QED  BY <1>1, <3>1 DEF ListingsInv, FollowInv, FollowsTypeOK, FollowRequests
  <2>2. FeedTypeOK
    <3>1. ASSUME NEW u \in Users, NEW r \in FeedRows, NEW q \in FeedRows,
                 {r, q} \subseteq feed[u], r.position = q.position
          PROVE  r = q
      <4>1. PICK p \in Pushes : feed[u] = RowsOf(p)
        BY <1>1 DEF ListingsInv, FeedInv, Serves
      <4> QED  BY <3>1, <4>1, RowsTyped
    <3>2. ASSUME NEW h \in Rankers
          PROVE  \/ rreq[h] = NoReplace
                 \/ /\ rreq[h].pc \in {"user", "delete", "deleting", "insert", "commit"}
                    /\ rreq[h].user \in Users /\ rreq[h].push \in Pushes
                    /\ rreq[h].target \subseteq FeedRows /\ Len(rreq[h].push.list) <= MaxItems
      <4>1. rreq[h] \in ReplaceRequests /\ FeedRequestsOK
        BY <1>1 DEF ListingsInv, FeedInv, FeedRequestsOK
      <4>2. rreq[h].target \subseteq FeedRows
        BY <4>1 DEF ReplaceRequests
      <4>3. rreq[h].pc \in {"idle", "user", "delete", "deleting", "insert", "commit"}
        BY <4>1 DEF ReplaceRequests
      <4> QED  BY <4>1, <4>2, <4>3 DEF FeedRequestsOK, Busy
    <3> QED  BY <1>1, <3>1, <3>2 DEF ListingsInv, FeedInv, FeedRequestsOK, FeedTypeOK
  <2>3. EventsTypeOK
    BY <1>1 DEF ListingsInv, EventInv, EventsTypeOK, Recordings
  <2>4. /\ reader.pc \in {"idle", "user", "select", "hydrate"}
        /\ reader.phase \in {"idle", "open", "ended"}
        /\ reader.todo \subseteq Articles /\ Cardinality(reader.page) <= Limit
    BY <1>1 DEF ListingsInv, ReaderInv, Readers
  <2> QED  BY <1>1, <2>1, <2>2, <2>3, <2>4 DEF ListingsInv, EventInv, RowsSound, ListingsTypeOK
<1>2. ListingsInv => RowsSound
  BY <1>1
<1> QED  BY <1>2, ListingsInvariant, PTL

\* The feed of a user is the whole list of one acknowledged replace that no
\* later one has superseded, for any number of concurrent rankers.
THEOREM LatestReplaceServedCorrect == Spec => []LatestReplaceServed
<1>1. ListingsInv => LatestReplaceServed
  BY DEF ListingsInv, FeedInv, Serves, LatestReplaceServed
<1> QED  BY <1>1, ListingsInvariant, PTL

\* The step of NoLateWrite.
LEMMA NoLateStep ==
  ASSUME ListingsInv, [Next]_vars
  PROVE  /\ \A e \in Edges :
              follows[e].status # "active" /\ follows'[e].status = "active" =>
                \E h \in FollowHandlers :
                  freq[h].edge = e /\ freq[h].pc = "upsert" /\ ~freq[h].before
         /\ \A u \in Users :
              feed'[u] # feed[u] =>
                \E h \in Rankers : rreq[h].user = u /\ rreq[h].pc = "commit" /\ ~rreq[h].before
<1>0. FollowInv /\ FeedInv /\ FeedRequestsOK
  BY DEF ListingsInv, FeedInv
<1>1. ASSUME NEW e \in Edges, follows[e].status # "active", follows'[e].status = "active"
      PROVE  \E h \in FollowHandlers :
               freq[h].edge = e /\ freq[h].pc = "upsert" /\ ~freq[h].before
  <2>1. follows' # follows
    BY <1>1
  <2>2. FollowsNext
    BY <2>1 DEF Next, Writers, ReaderOpens, CheckUser, SelectPage, Hydrate, followVars, vars
  <2>3. PICK h \in FollowHandlers : FollowUpsert(h) \/ UnfollowUpdate(h)
    BY <2>1, <2>2 DEF FollowsNext, FollowBegin, FollowCheckUser, FollowCheckAccount, FollowSelect,
       UnfollowSelect, FollowAbort
  <2>4. freq[h].edge \in Edges /\ follows \in [Edges -> {NoEdge} \union EdgeRows]
    BY <1>0, <2>3 DEF FollowInv, FollowRequests, NoFollowRequest, FollowUpsert, UnfollowUpdate
  <2>5. CASE UnfollowUpdate(h)
    <3>1. freq[h].edge # e => follows'[e] = follows[e]
      BY <2>4, <2>5 DEF UnfollowUpdate
    <3>2. follows[e] \in EdgeRows \/ follows[e] = NoEdge
      BY <2>4
    <3>3. freq[h].edge = e => follows'[e].status = "unfollowed"
      BY <2>4, <2>5, <3>2 DEF UnfollowUpdate, EdgeRows, NoEdge
    <3> QED  BY <1>1, <3>1, <3>3
  <2>6. CASE FollowUpsert(h)
    <3>1. freq[h].edge = e
      BY <1>1, <2>4, <2>6 DEF FollowUpsert
    <3> QED  BY <1>0, <2>6, <3>1 DEF FollowUpsert, FollowInv
  <2> QED  BY <2>3, <2>5, <2>6
<1>2. ASSUME NEW u \in Users, feed'[u] # feed[u]
      PROVE  \E h \in Rankers : rreq[h].user = u /\ rreq[h].pc = "commit" /\ ~rreq[h].before
  <2>1. FeedNext
    BY <1>2 DEF Next, Writers, ReaderOpens, CheckUser, SelectPage, Hydrate, feedVars, vars
  <2>2. PICK h \in Rankers : Commit(h)
    BY <1>2, <2>1 DEF FeedNext, ReplaceBegin, ReplaceCheckUser, DeleteStart, DeleteEnd, Insert,
       RankerAbort
  <2>3. rreq[h].user = u
    BY <1>0, <1>2, <2>2, CommitFeed
  <2> QED  BY <1>0, <2>2, <2>3 DEF Commit, FeedRequestsOK
<1> QED  BY <1>1, <1>2

\* An edge becomes active, and a feed changes, only by a request that arrived
\* before its user or account was deleted.
THEOREM NoLateWriteCorrect == Spec => NoLateWrite
<1>1. ListingsInv /\ [Next]_vars =>
        [/\ \A e \in Edges :
              follows[e].status # "active" /\ follows'[e].status = "active" =>
                \E h \in FollowHandlers :
                  freq[h].edge = e /\ freq[h].pc = "upsert" /\ ~freq[h].before
         /\ \A u \in Users :
              feed'[u] # feed[u] =>
                \E h \in Rankers : rreq[h].user = u /\ rreq[h].pc = "commit" /\ ~rreq[h].before
        ]_vars
  BY NoLateStep
<1> QED  BY <1>1, ListingsInvariant, PTL DEF Spec, NoLateWrite

-----------------------------------------------------------------------------
(* The listings implement the abstract paged read. *)

\* A step of the reader changes no table, so a listing selects what it did.
LEMMA SelectedSame ==
  ASSUME UNCHANGED <<directoryVars, followVars, feedVars, eventVars>>, NEW scan
  PROVE  Selected(scan)' = Selected(scan)
BY DEF Selected, UserFollows, AccountFollowers, AccountArticles, DraftList, FollowFeed,
   RecommendedFeed, EventList, directoryVars, followVars, feedVars, eventVars

\* What is selected depends on the scan and the tables alone.
LEMMA SelectedAt ==
  ASSUME NEW scan, reader'.scan = scan
  PROVE  Selected(reader.scan)' = Selected(scan)'
BY DEF Selected, UserFollows, AccountFollowers, AccountArticles, DraftList, FollowFeed,
   RecommendedFeed, EventList

\* The initial states are initial states of the paged read.
LEMMA PagedStarts ==
  ASSUME Init
  PROVE  Paged!Init
<1>1. Selected(reader.scan) = {}
  BY DEF Init, NoScan, Selected
<1> QED  BY <1>1 DEF Init, NoScan, Paged!Init, Paged!DistinctKeys

\* The rows are those of a listing, before the step and after it.
RowsListed == Listing(Selected(reader.scan))

\* A reader that drops its scan gives up.
LEMMA GivesUp ==
  ASSUME RowsListed', reader' = NoScan
  PROVE  Paged!GiveUp
BY DEF RowsListed, Listing, NoScan, Paged!GiveUp, Paged!DistinctKeys, DistinctKeys

\* A scan that opens opens an abstract read.
LEMMA OpensRefines ==
  ASSUME ListingsInv, RowsListed', NEW scan \in Scans, ReaderOpens(scan)
  PROVE  Paged!Open
<1> DEFINE r == [NoScan EXCEPT !.pc = FirstStatement(scan), !.phase = "open", !.scan = scan,
                               !.steady = Selected(scan)]
<1>1. reader' = r /\ UNCHANGED <<directoryVars, followVars, feedVars, eventVars>>
  BY DEF ReaderOpens
<1>2. /\ r.phase = "open" /\ r.token = {} /\ r.page = {} /\ r.got = {} /\ r.scan = scan
      /\ r.steady = Selected(scan)
  BY DEF NoScan
<1> HIDE DEF r
<1>3. Selected(reader.scan)' = Selected(scan)
  BY <1>1, <1>2, SelectedAt, SelectedSame
<1> QED  BY <1>1, <1>2, <1>3 DEF RowsListed, Listing, Paged!Open, DistinctKeys, Paged!DistinctKeys

\* A page of the listing is a page of the abstract read: this is where the row
\* read ahead and the token of the last row kept matter.
LEMMA PageRefines ==
  ASSUME ListingsInv, SelectPage
  PROVE  Paged!ReadPage
<1> DEFINE fetched == First(Limit + 1, Remaining)
           page == First(Limit, fetched)
           more == Cardinality(fetched) > Limit
<1>0. TablesInv /\ ReaderInv
  BY DEF ListingsInv, TablesInv
<1>1. reader \in Readers /\ reader.phase = "open"
  BY <1>0 DEF ReaderInv, SelectPage
<1>2. /\ reader'.page = page /\ reader'.got = reader.got \union reader.page
      /\ reader'.token = (IF more THEN TokenOf(page) ELSE {})
      /\ reader'.phase = (IF more THEN "open" ELSE "ended")
      /\ reader'.scan = reader.scan /\ reader'.steady = reader.steady
  BY <1>1 DEF SelectPage, Remaining, Readers
<1>3. UNCHANGED <<directoryVars, followVars, feedVars, eventVars>>
  BY DEF SelectPage
<1>4. Selected(reader.scan)' = Selected(reader.scan)
  <2>1. PICK scan : scan = reader.scan
    OBVIOUS
  <2>2. reader'.scan = scan
    BY <1>2, <2>1
  <2>3. Selected(reader.scan)' = Selected(scan)'
    BY <2>2, SelectedAt
  <2>4. Selected(scan)' = Selected(scan)
    BY <1>3, SelectedSame
  <2> QED  BY <2>1, <2>3, <2>4
<1>5. Listing(Remaining)
  BY <1>0, BeyondListing
<1>6. /\ page \subseteq Remaining
      /\ \A r \in page, q \in Remaining \ page : Before(r.key, q.key)
      /\ ~more => page = Remaining
      /\ more => /\ page # Remaining
                 /\ \E z \in page :
                      (\A r \in page : ~Before(z.key, r.key)) /\ TokenOf(page) = {z.key}
  BY <1>5, PageFacts
<1>7. Paged!Beyond(reader.token, Selected(reader.scan)) = Remaining
  BY DEF Remaining, Beyond, Before, Paged!Beyond, Paged!Before
<1>8. \A k, l : Paged!Before(k, l) = Before(k, l)
  BY DEF Before, Paged!Before
<1> HIDE DEF page, more, fetched
<1>9. Paged!Run(reader'.page, Remaining)
  BY <1>2, <1>6, <1>8 DEF Paged!Run
<1>10. CASE ~more
  BY <1>1, <1>2, <1>4, <1>6, <1>7, <1>9, <1>10 DEF Paged!ReadPage
<1>11. CASE more
  BY <1>1, <1>2, <1>4, <1>6, <1>7, <1>8, <1>9, <1>11 DEF Paged!ReadPage
<1> QED  BY <1>10, <1>11

\* A write between two pages is a change of the rows.
LEMMA WatchedRefines ==
  ASSUME ListingsInv, RowsListed', Watched
  PROVE  Paged!Change
<1>1. reader \in Readers
  BY DEF ListingsInv, ReaderInv
<1>2. PICK scan \in {reader.scan} :
        reader' = [reader EXCEPT !.steady = reader.steady \intersect Selected(scan)']
  BY DEF Watched
<1>3. /\ reader'.scan = scan /\ reader'.phase = reader.phase /\ reader'.token = reader.token
      /\ reader'.page = reader.page /\ reader'.got = reader.got
      /\ reader'.steady = reader.steady \intersect Selected(scan)'
  BY <1>1, <1>2 DEF Readers
<1>4. Selected(reader.scan)' = Selected(scan)'
  BY <1>3, SelectedAt
<1> QED  BY <1>3, <1>4 DEF RowsListed, Listing, Paged!Change, DistinctKeys, Paged!DistinctKeys

\* The lookups between two pages change nothing the client sees, unless they
\* fail, and then the client starts again.
LEMMA LookupsRefine ==
  ASSUME ListingsInv, RowsListed', CheckUser \/ Hydrate \/ UNCHANGED vars
  PROVE  Paged!GiveUp \/ UNCHANGED Paged!vars
<1>1. reader \in Readers
  BY DEF ListingsInv, ReaderInv
<1>2. ASSUME reader'.scan = reader.scan, reader'.phase = reader.phase, reader'.token = reader.token,
             reader'.page = reader.page, reader'.got = reader.got, reader'.steady = reader.steady,
             UNCHANGED <<directoryVars, followVars, feedVars, eventVars>>
      PROVE  UNCHANGED Paged!vars
  <2>1. PICK scan : scan = reader.scan
    OBVIOUS
  <2>2. reader'.scan = scan
    BY <1>2, <2>1
  <2>3. Selected(reader.scan)' = Selected(scan)'
    BY <2>2, SelectedAt
  <2>4. Selected(scan)' = Selected(scan)
    BY <1>2, SelectedSame
  <2> QED  BY <1>2, <2>1, <2>3, <2>4 DEF Paged!vars
<1>3. CASE CheckUser
  <2>1. CASE reader' = [reader EXCEPT !.pc = "select"]
    BY <1>1, <1>2, <1>3, <2>1 DEF CheckUser, Readers
  <2> QED  BY <1>3, <2>1, GivesUp DEF CheckUser
<1>4. CASE Hydrate
  <2>1. ASSUME NEW x, reader' = [reader EXCEPT !.todo = @ \ {x}] PROVE UNCHANGED Paged!vars
    BY <1>1, <1>2, <1>4, <2>1 DEF Hydrate, Readers
  <2>2. ASSUME NEW pc, reader' = [reader EXCEPT !.pc = pc] PROVE UNCHANGED Paged!vars
    BY <1>1, <1>2, <1>4, <2>2 DEF Hydrate, Readers
  <2> QED  BY <1>4, <2>1, <2>2, GivesUp DEF Hydrate
<1>5. CASE UNCHANGED vars
  BY <1>2, <1>5 DEF vars
<1> QED  BY <1>3, <1>4, <1>5

\* Every step is a step of the paged read or a stutter.
LEMMA PagedRefines ==
  ASSUME ListingsInv, RowsListed', [Next]_vars
  PROVE  [Paged!Next]_Paged!vars
BY OpensRefines, PageRefines, WatchedRefines, LookupsRefine DEF Next, Paged!Next

\* Every listing implements the abstract paged read, whatever the other
\* requests do between its pages.
THEOREM ImplementsPagedReadCorrect == Spec => ImplementsPagedRead
<1>1. Init => Paged!Init
  BY PagedStarts
<1>2. ListingsInv => RowsListed
  BY BeyondListing DEF ListingsInv, TablesInv, RowsListed
<1>3. ListingsInv /\ RowsListed' /\ [Next]_vars => [Paged!Next]_Paged!vars
  BY PagedRefines
<1> QED  BY <1>1, <1>2, <1>3, ListingsInvariant, PTL DEF Spec, ImplementsPagedRead, Paged!Spec

-----------------------------------------------------------------------------
(* The abstract paged read is exact.  Only steps of PagedRead are used     *)
(* here: what the rows are and why they change plays no part.              *)

\* The lexicographic order of the keys is total: what is not behind k comes
\* before everything beyond k.
LEMMA KeyOrder ==
  ASSUME NEW k \in Int \X Int, NEW a \in Int \X Int, NEW b \in Int \X Int,
         ~Paged!Before(k, a), Paged!Before(k, b)
  PROVE  Paged!Before(a, b) /\ ~Paged!Before(b, a)
BY DEF Paged!Before

\* No key comes before one that comes before it.
LEMMA KeyAsymmetry ==
  ASSUME NEW a \in Int \X Int, NEW b \in Int \X Int, Paged!Before(a, b)
  PROVE  ~Paged!Before(b, a)
BY DEF Paged!Before

Served == reader.got \union reader.page
Unread == Paged!Beyond(reader.token, Selected(reader.scan))

\* The pages so far lie up to the token, and what they have left out of the
\* steady rows lies beyond it.
TokenInv ==
  reader.phase = "open" =>
    /\ \A r \in reader.steady : r \in Served \/ r \in Unread
    /\ \A r \in Served, k \in reader.token : ~Paged!Before(k, r.key)
    /\ reader.token = {} => Served = {}

PagedInv == Paged!PagedTypeOK /\ TokenInv /\ Paged!ScanForward /\ Paged!ScanComplete

\* The initial states: no scan is under way.
LEMMA PagedInit ==
  ASSUME Paged!Init
  PROVE  PagedInv
BY DEF Paged!Init, PagedInv, Paged!PagedTypeOK, TokenInv, Paged!ScanForward, Paged!ScanComplete

\* A page keeps the invariant: it begins where the token points, and the new
\* token is its last key.
LEMMA ReadStep ==
  ASSUME PagedInv, Paged!ReadPage
  PROVE  PagedInv'
<1> USE DEF PagedInv, Served, Unread
<1>1. /\ Selected(reader.scan)' = Selected(reader.scan) /\ reader'.steady = reader.steady
      /\ reader'.got = Served /\ reader.phase = "open"
  BY DEF Paged!ReadPage
<1>2. /\ reader'.page \subseteq Unread /\ reader'.page \subseteq Paged!Rows
      /\ \A r \in reader'.page, q \in Unread \ reader'.page : Paged!Before(r.key, q.key)
  BY DEF Paged!ReadPage, Paged!Run, Paged!Beyond, Paged!PagedTypeOK
<1>3. \A r \in Paged!Rows : r.key \in Int \X Int
  BY DEF Paged!Rows
<1>4. Paged!ScanForward'
  <2> SUFFICES ASSUME NEW r \in Served, NEW q \in reader'.page
               PROVE  Paged!Before(r.key, q.key)
    BY <1>1 DEF Paged!ScanForward
  <2>1. PICK k \in reader.token : TRUE
    BY <1>1 DEF TokenInv
  <2>2. ~Paged!Before(k, r.key) /\ Paged!Before(k, q.key)
    BY <1>1, <1>2, <2>1 DEF TokenInv, Paged!Beyond
  <2>3. k \in Int \X Int /\ r.key \in Int \X Int /\ q.key \in Int \X Int
    BY <1>2, <1>3 DEF Paged!PagedTypeOK
  <2> QED  BY <2>2, <2>3, KeyOrder
<1>5. CASE reader'.page = Unread /\ reader'.phase = "ended" /\ reader'.token = {}
  <2>1. \A r \in reader.steady : r \in Served \/ r \in reader'.page
    BY <1>1, <1>5 DEF TokenInv
  <2>2. Paged!ScanComplete' /\ TokenInv'
    BY <1>1, <1>5, <2>1 DEF Paged!ScanComplete, TokenInv
  <2> QED  BY <1>1, <1>2, <1>4, <1>5, <2>2 DEF Paged!PagedTypeOK
<1>6. CASE /\ reader'.page # Unread /\ reader'.phase = reader.phase
           /\ \E z \in reader'.page :
                (\A r \in reader'.page : ~Paged!Before(z.key, r.key)) /\ reader'.token = {z.key}
  <2>1. PICK z \in reader'.page :
          (\A r \in reader'.page : ~Paged!Before(z.key, r.key)) /\ reader'.token = {z.key}
    BY <1>6
  <2>2. z.key \in Int \X Int
    BY <1>2, <1>3
  <2>3. ASSUME NEW r \in reader.steady, r \notin Served, r \notin reader'.page
        PROVE  r \in Unread'
    <3>1. r \in Unread \ reader'.page /\ r \in Selected(reader.scan)
      BY <1>1, <2>3 DEF TokenInv, Paged!PagedTypeOK
    <3>2. Paged!Before(z.key, r.key)
      BY <1>2, <3>1
    <3> QED  BY <1>1, <2>1, <3>1, <3>2 DEF Paged!Beyond
  <2>4. ASSUME NEW r \in Served
        PROVE  ~Paged!Before(z.key, r.key)
    <3>1. Paged!Before(r.key, z.key)
      BY <1>1, <1>4 DEF Paged!ScanForward
    <3>2. r.key \in Int \X Int
      BY <1>3 DEF Paged!PagedTypeOK
    <3> QED  BY <2>2, <3>1, <3>2, KeyAsymmetry
  <2>5. TokenInv'
    BY <1>1, <2>1, <2>3, <2>4 DEF TokenInv
  <2>6. Paged!ScanComplete'
    BY <1>1, <1>6 DEF Paged!ScanComplete
  <2> QED  BY <1>1, <1>2, <1>4, <1>6, <2>1, <2>2, <2>5, <2>6 DEF Paged!PagedTypeOK
<1> QED  BY <1>5, <1>6 DEF Paged!ReadPage

\* The other steps keep the invariant: a change of the rows takes rows out of
\* the steady ones, a new scan starts from nothing.
LEMMA PagedStep ==
  ASSUME PagedInv, [Paged!Next]_Paged!vars
  PROVE  PagedInv'
<1> USE DEF PagedInv, Served, Unread, Paged!PagedTypeOK, Paged!ScanForward, Paged!ScanComplete
<1>1. CASE Paged!Change
  <2>1. Paged!PagedTypeOK' /\ Paged!ScanForward' /\ Paged!ScanComplete'
    BY <1>1 DEF Paged!Change
  <2>2. TokenInv'
    BY <1>1 DEF Paged!Change, TokenInv, Paged!Beyond
  <2> QED  BY <2>1, <2>2
<1>2. CASE Paged!Open
  BY <1>2 DEF Paged!Open, TokenInv, Paged!Beyond
<1>3. CASE Paged!ReadPage
  BY <1>3, ReadStep
<1>4. CASE Paged!GiveUp
  BY <1>4 DEF Paged!GiveUp, TokenInv
<1>5. CASE UNCHANGED Paged!vars
  BY <1>5 DEF Paged!vars, TokenInv, Paged!Beyond
<1> QED  BY <1>1, <1>2, <1>3, <1>4, <1>5 DEF Paged!Next

\* Whatever follows the abstract paged read is exact, for any rows, any page
\* sizes and any changes in between.
THEOREM PagedReadExact == Paged!Spec => []ScanExact
<1>1. Paged!Init => PagedInv
  BY PagedInit
<1>2. PagedInv /\ [Paged!Next]_Paged!vars => PagedInv'
  BY PagedStep
<1>3. PagedInv => ScanExact
  BY DEF PagedInv, ScanExact
<1> QED  BY <1>1, <1>2, <1>3, PTL DEF Paged!Spec

\* Following the page tokens of any of the listings to the end returns every
\* row that stayed as it was, and no row twice, while any requests change the
\* tables in between.
THEOREM ScanExactCorrect == Spec => []ScanExact
BY ImplementsPagedReadCorrect, PagedReadExact, PTL DEF ImplementsPagedRead
=============================================================================
