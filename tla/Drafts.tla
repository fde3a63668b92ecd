------------------------------- MODULE Drafts -------------------------------
(***************************************************************************)
(* Drafts: the drafts table and the DraftService handlers create_draft,    *)
(* get_draft, update_draft, delete_draft and publish_draft (api            *)
(* services/draft.rs over store repo/drafts.rs).                           *)
(*                                                                         *)
(* The service reads the draft (to authorize against its owner) and, for   *)
(* create and publish, the account, each on a connection of its own; the   *)
(* repository call that follows opens the transaction.  As in Articles one *)
(* action is one statement at READ COMMITTED: UPDATE, DELETE and SELECT    *)
(* FOR UPDATE wait for the draft's row lock and then see the newest row.   *)
(*                                                                         *)
(* The drafts belong to one account.  title stands for the three text      *)
(* fields: each of the four masked fields has an UPDATE of its own.  The   *)
(* validators accept every request modelled; updated_at only orders the    *)
(* listing and is left out.                                                *)
(***************************************************************************)
EXTENDS Integers

CONSTANTS
  Ids,       \* draft UUIDs
  Handlers,  \* request handlers running concurrently
  Texts      \* titles and contents a client may send

ASSUME TextsAssumption == "keep" \notin Texts /\ "none" \notin Texts
ASSUME IdsAssumption == "none" \notin Ids

VARIABLES
  drafts,    \* the drafts row of each id, NoRow when there is none
  articles,  \* what publish inserted under the id (articles, _live, version 1)
  account,   \* accounts.status of the owner
  tx,        \* each handler's request
  acked,     \* history: the row the acknowledged writes of a draft add up to
  ends       \* history: OK answers to delete_draft and publish_draft, up to 2

vars == <<drafts, articles, account, tx, acked, ends>>

NoRow == [title |-> "none", content |-> "none"]
Rows == [title : Texts, content : Texts]
\* An UpdateDraft: the new value of a masked field, "keep" for one outside the mask.
Masks == [title : Texts \union {"keep"}, content : Texts \union {"keep"}]
      \ {[title |-> "keep", content |-> "keep"]}

HasDraft(d) == drafts[d] # NoRow
HasArticle(d) == articles[d] # NoRow

PCs == {"idle", "c_account", "c_insert", "g_get", "u_get", "u_select", "u_update",
        "u_commit", "d_get", "d_delete", "p_get", "p_account", "p_lock", "p_commit"}

\* row: the row create inserts, or the one last read; mask: what update sets;
\* late, a history field of create and publish: the owner was deleted when the
\* request arrived.
IdleTx == [pc |-> "idle", id |-> "none", row |-> NoRow, mask |-> NoRow, late |-> FALSE]

TxRecords == [pc : PCs, id : Ids \union {"none"}, row : Rows \union {NoRow},
              mask : Masks \union {NoRow}, late : BOOLEAN]

DraftsTypeOK ==
  /\ drafts \in [Ids -> Rows \union {NoRow}]
  /\ articles \in [Ids -> Rows \union {NoRow}]
  /\ account \in {"active", "deleted"}
  /\ tx \in [Handlers -> TxRecords]
  /\ acked \in [Ids -> Rows \union {NoRow}]
  /\ ends \in [Ids -> 0..2]

Init ==
  /\ drafts = [d \in Ids |-> NoRow]
  /\ articles = [d \in Ids |-> NoRow]
  /\ account = "active"
  /\ tx = [h \in Handlers |-> IdleTx]
  /\ acked = [d \in Ids |-> NoRow]
  /\ ends = [d \in Ids |-> 0]

Tables == <<drafts, articles, account>>
History == <<acked, ends>>

Others(h) == Handlers \ {h}

\* The draft's row lock, held from the first write (or FOR UPDATE) to COMMIT.
LocksDraft(h, d) == tx[h].id = d /\ tx[h].pc \in {"u_commit", "p_commit"}
Unlocked(h) == \A g \in Others(h) : ~LocksDraft(g, tx[h].id)

Go(h, p) == tx' = [tx EXCEPT ![h].pc = p]
Finish(h) == tx' = [tx EXCEPT ![h] = IdleTx]

\* A row with the masked fields replaced.
Apply(row, mask) ==
  [f \in {"title", "content"} |-> IF mask[f] = "keep" THEN row[f] ELSE mask[f]]

\* An OK answer to delete_draft or publish_draft (counted up to 2).
AckEnd(d) == ends' = [ends EXCEPT ![d] = IF @ = 0 THEN 1 ELSE 2]

-----------------------------------------------------------------------------
(* create_draft *)

Arrived(h, d, p, row, mask) ==
  /\ tx[h].pc = "idle"
  /\ tx' = [tx EXCEPT ![h] = [pc |-> p, id |-> d, row |-> row, mask |-> mask,
                              late |-> account = "deleted" /\ p \in {"c_account", "p_get"}]]
  /\ UNCHANGED <<Tables, History>>

\* Uuid::now_v7() mints an id nobody has seen.
CreateArrives(h) == \E d \in Ids, r \in Rows :
  /\ acked[d] = NoRow
  /\ \A g \in Others(h) : tx[g].id # d
  /\ Arrived(h, d, "c_account", r, NoRow)

\* AccountDeleted.
CreateCheckAccount(h) ==
  /\ tx[h].pc = "c_account"
  /\ IF account = "active" THEN Go(h, "c_insert") ELSE Finish(h)
  /\ UNCHANGED <<Tables, History>>

CreateInsert(h) == LET t == tx[h] IN
  /\ t.pc = "c_insert"
  /\ drafts' = [drafts EXCEPT ![t.id] = t.row]
  /\ acked' = [acked EXCEPT ![t.id] = t.row]
  /\ Finish(h)
  /\ UNCHANGED <<articles, account, ends>>

-----------------------------------------------------------------------------
(* The other requests name an id that create_draft returned, and begin with *)
(* the service's get; get_draft is nothing else.                            *)

RequestArrives(h) == \E d \in Ids : acked[d] # NoRow /\
  \/ \E p \in {"g_get", "d_get", "p_get"} : Arrived(h, d, p, NoRow, NoRow)
  \/ \E m \in Masks : Arrived(h, d, "u_get", NoRow, m)

AfterGet == [u_get |-> "u_select", d_get |-> "d_delete", p_get |-> "p_account"]

\* DraftNotFound, or the caller is authorized against the row's owner.
ServiceGet(h) == LET t == tx[h] IN
  /\ t.pc \in {"g_get", "u_get", "d_get", "p_get"}
  /\ IF HasDraft(t.id) /\ t.pc # "g_get"
       THEN tx' = [tx EXCEPT ![h].pc = AfterGet[t.pc], ![h].row = drafts[t.id]]
       ELSE Finish(h)
  /\ UNCHANGED <<Tables, History>>

-----------------------------------------------------------------------------
(* update_draft *)

\* "Confirm existence first": DraftNotFound.  It takes no lock.
UpdateSelect(h) ==
  /\ tx[h].pc = "u_select"
  /\ IF HasDraft(tx[h].id) THEN Go(h, "u_update") ELSE Finish(h)
  /\ UNCHANGED <<Tables, History>>

\* The first UPDATE waits for the row and locks it.  If the draft was deleted or
\* published meanwhile every UPDATE matches no row and the re-select fails:
\* Internal.
UpdateFields(h) ==
  /\ tx[h].pc = "u_update"
  /\ Unlocked(h)
  /\ IF HasDraft(tx[h].id) THEN Go(h, "u_commit") ELSE Finish(h)
  /\ UNCHANGED <<Tables, History>>

\* acked records what the client asked for, the masked fields, in commit order.
UpdateCommit(h) == LET t == tx[h] IN
  /\ t.pc = "u_commit"
  /\ drafts' = [drafts EXCEPT ![t.id] = Apply(@, t.mask)]
  /\ acked' = [acked EXCEPT ![t.id] = Apply(@, t.mask)]
  /\ Finish(h)
  /\ UNCHANGED <<articles, account, ends>>

-----------------------------------------------------------------------------
(* delete_draft *)

\* One autocommit DELETE; n == 0 is DraftNotFound.
Delete(h) == LET t == tx[h] IN
  /\ t.pc = "d_delete"
  /\ Unlocked(h)
  /\ IF HasDraft(t.id) THEN AckEnd(t.id) ELSE UNCHANGED ends
  /\ drafts' = [drafts EXCEPT ![t.id] = NoRow]
  /\ Finish(h)
  /\ UNCHANGED <<articles, account, acked>>

-----------------------------------------------------------------------------
(* publish_draft *)

\* (Mutant: the account's status is not looked at.)
PublishAnyAccount(h) ==
  tx[h].pc = "p_account" /\ Go(h, "p_lock") /\ UNCHANGED <<Tables, History>>

\* The account is read outside the transaction: AccountDeleted.
PublishCheckAccount(h) ==
  /\ tx[h].pc = "p_account"
  /\ IF account = "active" THEN Go(h, "p_lock") ELSE Finish(h)
  /\ UNCHANGED <<Tables, History>>

\* (Mutant: the draft is not locked, the row is the one the service read.)
PublishNoLock(h) ==
  /\ tx[h].pc = "p_lock"
  /\ Go(h, "p_commit")
  /\ UNCHANGED <<Tables, History>>

\* (Mutant: the row published is the one the service read before the lock.)
PublishLockStale(h) == LET t == tx[h] IN
  /\ t.pc = "p_lock"
  /\ Unlocked(h)
  /\ IF HasDraft(t.id) THEN Go(h, "p_commit") ELSE Finish(h)
  /\ UNCHANGED <<Tables, History>>

\* SELECT ... FOR UPDATE waits for the row and returns its newest values; no
\* row any more: DraftNotFound.
PublishLock(h) == LET t == tx[h] IN
  /\ t.pc = "p_lock"
  /\ Unlocked(h)
  /\ IF HasDraft(t.id)
       THEN tx' = [tx EXCEPT ![h].pc = "p_commit", ![h].row = drafts[t.id]]
       ELSE Finish(h)
  /\ UNCHANGED <<Tables, History>>

\* (Mutant: the draft row is left behind.)
PublishKeepsDraft(h) == LET t == tx[h] IN
  /\ t.pc = "p_commit"
  /\ articles' = [articles EXCEPT ![t.id] = t.row]
  /\ AckEnd(t.id)
  /\ Finish(h)
  /\ UNCHANGED <<drafts, account, acked>>

\* The inserts into articles, articles_live and article_versions and the DELETE.
PublishCommit(h) == LET t == tx[h] IN
  /\ t.pc = "p_commit"
  /\ articles' = [articles EXCEPT ![t.id] = t.row]
  /\ drafts' = [drafts EXCEPT ![t.id] = NoRow]
  /\ AckEnd(t.id)
  /\ Finish(h)
  /\ UNCHANGED <<account, acked>>

-----------------------------------------------------------------------------
\* soft_delete of the owner; drafts and articles are kept.
DeleteAccount ==
  /\ account = "active"
  /\ account' = "deleted"
  /\ UNCHANGED <<drafts, articles, tx, History>>

\* The connection or the server goes down: the transaction rolls back.
Abort(h) == tx[h].pc # "idle" /\ Finish(h) /\ UNCHANGED <<Tables, History>>

Statement(h) ==
  \/ CreateCheckAccount(h) \/ CreateInsert(h)
  \/ ServiceGet(h)
  \/ UpdateSelect(h) \/ UpdateFields(h) \/ UpdateCommit(h)
  \/ Delete(h)
  \/ PublishCheckAccount(h) \/ PublishLock(h) \/ PublishCommit(h)

Next == DeleteAccount \/ \E h \in Handlers :
  CreateArrives(h) \/ RequestArrives(h) \/ Statement(h) \/ Abort(h)

Spec == Init /\ [][Next]_vars

-----------------------------------------------------------------------------
(* Correctness. *)

\* "The same UUID is never present in drafts and articles simultaneously"
\* (docs/design/data-model.md:45), and a draft is answered for once: of all the
\* delete_draft and publish_draft requests racing for it at most one is
\* answered OK, and the article exists only if that one was the publish.
OneEnd == \A d \in Ids :
  /\ ~(HasDraft(d) /\ HasArticle(d))
  /\ ends[d] <= 1
  /\ HasDraft(d) => ends[d] = 0
  /\ HasArticle(d) => ends[d] = 1

\* No acknowledged write is lost: the draft, or the article it became, holds the
\* newest acknowledged value of every field, although update_draft checks before
\* it locks and publish_draft reads the draft twice.
NoLostUpdate == \A d \in Ids :
  /\ HasDraft(d) => drafts[d] = acked[d]
  /\ HasArticle(d) => articles[d] = acked[d]

\* A published article is never taken back or rewritten by a draft request, and
\* a draft id that has ended never holds a draft again.
PublishedForGood == [][\A d \in Ids :
  /\ HasArticle(d) => articles'[d] = articles[d]
  /\ ends[d] > 0 => drafts'[d] = NoRow /\ articles'[d] = articles[d]]_vars

\* A request that arrives after the owner was deleted creates no draft and
\* publishes none (docs/design/drafts.md, AccountDeleted).  One under way at the
\* deletion may still: the account is read outside the transaction, although
\* drafts.md:152-156 shows the assertion inside it, after the FOR UPDATE.
NoLateArticle == [][\A h \in Handlers : tx[h].late /\ tx'[h] # tx[h] =>
  articles' = articles /\ \A d \in Ids : HasDraft(d)' => HasDraft(d)]_vars
=============================================================================
