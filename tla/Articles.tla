------------------------------ MODULE Articles ------------------------------
(***************************************************************************)
(* The article repository of headlines-store (repo/articles.rs): the four  *)
(* tables articles, articles_live, articles_tombstone, article_versions,   *)
(* and the request handlers that run publish, edit, tombstone,             *)
(* redact_version and get against them.                                    *)
(*                                                                         *)
(* Every writing operation is one Postgres transaction at READ COMMITTED:  *)
(* each SELECT sees what is committed when that statement runs, an UPDATE, *)
(* DELETE or INSERT first waits for the transaction that holds the row or  *)
(* the key, and nothing is visible to others before COMMIT.  One action is *)
(* one statement.  The writes of an open transaction are determined by its *)
(* program counter and fields, so they are applied when it commits.        *)
(*                                                                         *)
(* `now` is read with Utc::now() before the transaction opens.  The clock  *)
(* is the best case for the code: it never goes back and no two handlers   *)
(* read the same instant.                                                  *)
(*                                                                         *)
(* Title and author fields carry over from version to version exactly like *)
(* the content and are never nulled; only the content is modelled.         *)
(***************************************************************************)
EXTENDS Integers

CONSTANTS
  Ids,         \* article UUIDs
  Handlers,    \* request handlers running concurrently (tasks, server processes)
  Bodies,      \* contents a client may send
  MaxVersion,  \* the largest version number (i32::MAX in the code)
  MaxClock     \* bound: writing requests (each reads a new instant)

\* "none", "empty" and "redacted" stand for the absence of a row, the empty
\* node list and a NULL content; "keep" is an edit without content in its mask.
Marks == {"none", "empty", "redacted", "keep"}

ASSUME BoundsAssumption == MaxVersion \in Nat /\ MaxVersion >= 1 /\ MaxClock \in Nat
ASSUME NamesAssumption == (Bodies \union Ids) \cap Marks = {}

VARIABLES
  articles,    \* articles.state of each id, "none" when there is no row
  live,        \* the articles_live row of each id
  tomb,        \* articles_tombstone.tombstoned_at of each id, 0 when no row
  versions,    \* the article_versions rows: the content of each (id, version)
  clock,       \* the last instant handed out by Utc::now()
  tx           \* each handler's transaction (or chain of reads)

vars == <<articles, live, tomb, versions, clock, tx>>

Versions == 1..MaxVersion
Content == Bodies \union {"none", "empty", "redacted"}

NoLiveRow == [current_version |-> 0, updated_at |-> 0]
HasLive(a) == live[a].current_version # 0
Exists(a, v) == v \in Versions /\ versions[a][v] # "none"

\* The content GetArticle serves for a live article: its current version's.
Served(a) == versions[a][live[a].current_version]

EditPCs == {"e_article", "e_live", "e_version", "e_insert", "e_update", "e_commit"}
TombPCs == {"t_article", "t_update", "t_insert", "t_delete", "t_commit"}
RedactPCs == {"r_article", "r_version", "r_update", "r_live", "r_bump", "r_commit"}
GetPCs == {"g_article", "g_live", "g_version", "g_tomb"}
PCs == {"idle", "p_commit"} \union EditPCs \union TombPCs \union RedactPCs \union GetPCs

(* A handler's fields: the article, the instant, the version it reads or   *)
(* writes, the content the request carries and the one it will store, the  *)
(* state it read in articles (redact), whether it has written - and so     *)
(* locked - the articles_live row, and `low`, a history field of get: the  *)
(* oldest version that get may return as live, see Floor.                  *)
NewTx(p, a, now, ver, req, low) ==
  [pc |-> p, id |-> a, now |-> now, ver |-> ver, req |-> req, body |-> "none",
   state |-> "none", hit |-> FALSE, low |-> low]

IdleTx == NewTx("idle", "none", 0, 0, "none", 0)

TxRecords ==
  [pc : PCs, id : Ids \union {"none"}, now : 0..MaxClock, ver : 0..MaxVersion,
   req : Bodies \union {"none", "empty", "keep"}, body : Bodies \union {"none", "empty"},
   state : {"none", "live", "tombstone"}, hit : BOOLEAN, low : 0..(MaxVersion + 1)]

TypeOK ==
  /\ articles \in [Ids -> {"none", "live", "tombstone"}]
  /\ live \in [Ids -> [current_version : 0..MaxVersion, updated_at : 0..MaxClock]]
  /\ tomb \in [Ids -> 0..MaxClock]
  /\ versions \in [Ids -> [Versions -> Content]]
  /\ clock \in 0..MaxClock
  /\ tx \in [Handlers -> TxRecords]

Init ==
  /\ articles = [a \in Ids |-> "none"]
  /\ live = [a \in Ids |-> NoLiveRow]
  /\ tomb = [a \in Ids |-> 0]
  /\ versions = [a \in Ids |-> [v \in Versions |-> "none"]]
  /\ clock = 0
  /\ tx = [h \in Handlers |-> IdleTx]

-----------------------------------------------------------------------------
(* Row and key locks, held from the statement that takes them to COMMIT.   *)

LocksArticle(h, a) == tx[h].id = a /\ tx[h].pc \in {"t_insert", "t_delete", "t_commit"}
LocksLive(h, a) == tx[h].id = a /\ tx[h].hit
HoldsNewVersion(h, a, v) ==
  tx[h].id = a /\ tx[h].ver = v /\ tx[h].pc \in {"e_update", "e_commit"}
LocksVersion(h, a, v) ==
  tx[h].id = a /\ tx[h].ver = v /\ tx[h].pc \in {"r_live", "r_bump", "r_commit"}

Others(h) == Handlers \ {h}

\* Go(h, p): the handler proceeds to statement p.
Go(h, p) == tx' = [tx EXCEPT ![h].pc = p]

\* The request ends, with an error or (for a read) an answer; an open
\* transaction rolls back, which discards its writes and frees its locks.
Finish(h) == tx' = [tx EXCEPT ![h] = IdleTx]

Tables == <<articles, live, tomb, versions>>

\* A request arrives: `now` is read, then the transaction opens at p.
Begin(h, a, p, ver, req) ==
  /\ tx[h].pc = "idle"
  /\ clock < MaxClock
  /\ clock' = clock + 1
  /\ tx' = [tx EXCEPT ![h] = NewTx(p, a, clock + 1, ver, req, 0)]
  /\ UNCHANGED Tables

\* What a get that starts now may return at the earliest: the current version,
\* and for a tombstoned article no live view at all.
NoLiveView == MaxVersion + 1
Floor(a) == IF articles[a] = "tombstone" THEN NoLiveView ELSE live[a].current_version

\* The re-read at the end of publish, edit and tombstone; low is what the
\* handler's own commit has made current.
ReadBack(h, low) ==
  tx' = [tx EXCEPT ![h] = NewTx("g_article", tx[h].id, 0, 0, "none", low)]

-----------------------------------------------------------------------------
(* publish.  The id is a new UUID, so no other transaction contends for    *)
(* the keys it inserts.  The account is active: the services of publish    *)
(* and edit refuse a deleted one before they call the repository, which    *)
(* never looks at the account (Drafts models that check).                  *)

PublishBegin(h) == \E a \in Ids, b \in Bodies :
  /\ articles[a] = "none"
  /\ \A g \in Others(h) : ~(tx[g].pc = "p_commit" /\ tx[g].id = a)
  /\ Begin(h, a, "p_commit", 1, b)

PublishCommit(h) == LET t == tx[h] IN
  /\ t.pc = "p_commit"
  /\ articles' = [articles EXCEPT ![t.id] = "live"]
  /\ live' = [live EXCEPT ![t.id] = [current_version |-> 1, updated_at |-> t.now]]
  /\ versions' = [versions EXCEPT ![t.id][1] = t.req]
  /\ ReadBack(h, 1)
  /\ UNCHANGED <<tomb, clock>>

-----------------------------------------------------------------------------
(* edit *)

\* The services of edit and tombstone fetch the article first and refuse a
\* missing or tombstoned one; it may be tombstoned again by the time the
\* repository reads its `now`.
EditBegin(h) == \E a \in Ids, b \in Bodies \union {"keep"} :
  articles[a] # "none" /\ Begin(h, a, "e_article", 0, b)

\* No row: ArticleNotFound.  A tombstone: ArticleTombstoned.
EditSelectArticle(h) ==
  /\ tx[h].pc = "e_article"
  /\ IF articles[tx[h].id] = "live" THEN Go(h, "e_live") ELSE Finish(h)
  /\ UNCHANGED <<Tables, clock>>

\* The row is gone when a tombstone committed since: Internal.  At i32::MAX the
\* sum wraps below 1 and CHECK (version >= 1) refuses the insert, or it panics:
\* either way the transaction rolls back.
EditSelectLive(h) == LET t == tx[h] IN
  /\ t.pc = "e_live"
  /\ IF HasLive(t.id) /\ live[t.id].current_version < MaxVersion
       THEN tx' = [tx EXCEPT ![h].pc = "e_version",
                             ![h].ver = live[t.id].current_version + 1]
       ELSE Finish(h)
  /\ UNCHANGED <<Tables, clock>>

\* edit.content.or(cur_version.content).unwrap_or([])
EditSelectVersion(h) == LET t == tx[h]
                            cur == versions[t.id][t.ver - 1] IN
  /\ t.pc = "e_version"
  /\ IF cur # "none"
       THEN tx' = [tx EXCEPT ![h].pc = "e_insert",
                             ![h].body = IF t.req # "keep" THEN t.req
                                         ELSE IF cur = "redacted" THEN "empty" ELSE cur]
       ELSE Finish(h)
  /\ UNCHANGED <<Tables, clock>>

\* (Mutant: ON CONFLICT DO UPDATE in place of a plain insert.)
EditUpsertVersion(h) ==
  tx[h].pc = "e_insert" /\ Go(h, "e_update") /\ UNCHANGED <<Tables, clock>>

\* The primary key (article_id, version) makes a second inserter of the same
\* version wait, and fail when the first one commits: Internal.
EditInsertVersion(h) == LET t == tx[h] IN
  /\ t.pc = "e_insert"
  /\ \A g \in Others(h) : ~HoldsNewVersion(g, t.id, t.ver)
  /\ IF Exists(t.id, t.ver) THEN Finish(h) ELSE Go(h, "e_update")
  /\ UNCHANGED <<Tables, clock>>

\* (Mutant: an upsert of the live row in place of the UPDATE.)
EditUpsertLive(h) == LET t == tx[h] IN
  /\ t.pc = "e_update"
  /\ \A g \in Others(h) : ~LocksLive(g, t.id)
  /\ tx' = [tx EXCEPT ![h].pc = "e_commit", ![h].hit = TRUE]
  /\ UNCHANGED <<Tables, clock>>

\* An UPDATE that matches no row (tombstoned meanwhile) is not an error.
EditUpdateLive(h) == LET t == tx[h] IN
  /\ t.pc = "e_update"
  /\ \A g \in Others(h) : ~LocksLive(g, t.id)
  /\ tx' = [tx EXCEPT ![h].pc = "e_commit", ![h].hit = HasLive(t.id)]
  /\ UNCHANGED <<Tables, clock>>

\* (Mutants: the live row is committed without the version it names; without
\* the new current_version; after locking the previous version's row.)
EditCommitLiveFirst(h) == LET t == tx[h] IN
  /\ t.pc = "e_commit"
  /\ live' = IF t.hit THEN [live EXCEPT ![t.id] = [current_version |-> t.ver,
                                                   updated_at |-> t.now]]
                      ELSE live
  /\ UNCHANGED <<articles, tomb, versions, clock>>
  /\ ReadBack(h, IF t.hit THEN t.ver ELSE NoLiveView)

EditCommitOldCurrent(h) == LET t == tx[h] IN
  /\ t.pc = "e_commit"
  /\ versions' = [versions EXCEPT ![t.id][t.ver] = t.body]
  /\ live' = IF t.hit THEN [live EXCEPT ![t.id].updated_at = t.now] ELSE live
  /\ UNCHANGED <<articles, tomb, clock>>
  /\ ReadBack(h, IF t.hit THEN t.ver - 1 ELSE NoLiveView)

EditCommitLocksPrevious(h) == LET t == tx[h] IN
  /\ t.pc = "e_commit"
  /\ \A g \in Others(h) : ~LocksVersion(g, t.id, t.ver - 1)
  /\ versions' = [versions EXCEPT ![t.id][t.ver] = t.body]
  /\ live' = IF t.hit THEN [live EXCEPT ![t.id] = [current_version |-> t.ver,
                                                   updated_at |-> t.now]]
                      ELSE live
  /\ UNCHANGED <<articles, tomb, clock>>
  /\ ReadBack(h, IF t.hit THEN t.ver ELSE NoLiveView)

EditCommit(h) == LET t == tx[h] IN
  /\ t.pc = "e_commit"
  /\ versions' = [versions EXCEPT ![t.id][t.ver] = t.body]
  /\ live' = IF t.hit THEN [live EXCEPT ![t.id] = [current_version |-> t.ver,
                                                   updated_at |-> t.now]]
                      ELSE live
  /\ UNCHANGED <<articles, tomb, clock>>
  /\ ReadBack(h, IF t.hit THEN t.ver ELSE NoLiveView)

-----------------------------------------------------------------------------
(* tombstone *)

TombstoneBegin(h) == \E a \in Ids : articles[a] # "none" /\ Begin(h, a, "t_article", 0, "none")

TombstoneSelectArticle(h) ==
  /\ tx[h].pc = "t_article"
  /\ IF articles[tx[h].id] = "live" THEN Go(h, "t_update") ELSE Finish(h)
  /\ UNCHANGED <<Tables, clock>>

\* The predicate is the id alone: the row matches whatever state it is in by now.
TombstoneUpdateArticle(h) ==
  /\ tx[h].pc = "t_update"
  /\ \A g \in Others(h) : ~LocksArticle(g, tx[h].id)
  /\ Go(h, "t_insert")
  /\ UNCHANGED <<Tables, clock>>

\* The primary key of articles_tombstone stops the second tombstone: Internal.
TombstoneInsertRow(h) ==
  /\ tx[h].pc = "t_insert"
  /\ IF tomb[tx[h].id] # 0 THEN Finish(h) ELSE Go(h, "t_delete")
  /\ UNCHANGED <<Tables, clock>>

TombstoneDeleteLive(h) == LET t == tx[h] IN
  /\ t.pc = "t_delete"
  /\ \A g \in Others(h) : ~LocksLive(g, t.id)
  /\ tx' = [tx EXCEPT ![h].pc = "t_commit", ![h].hit = HasLive(t.id)]
  /\ UNCHANGED <<Tables, clock>>

\* (Mutant: the live row is not deleted.)
TombstoneCommitKeepsLive(h) == LET t == tx[h] IN
  /\ t.pc = "t_commit"
  /\ articles' = [articles EXCEPT ![t.id] = "tombstone"]
  /\ tomb' = [tomb EXCEPT ![t.id] = t.now]
  /\ UNCHANGED <<live, versions, clock>>
  /\ ReadBack(h, NoLiveView)

TombstoneCommit(h) == LET t == tx[h] IN
  /\ t.pc = "t_commit"
  /\ articles' = [articles EXCEPT ![t.id] = "tombstone"]
  /\ tomb' = [tomb EXCEPT ![t.id] = t.now]
  /\ live' = IF t.hit THEN [live EXCEPT ![t.id] = NoLiveRow] ELSE live
  /\ UNCHANGED <<versions, clock>>
  /\ ReadBack(h, NoLiveView)

-----------------------------------------------------------------------------
(* redact_version *)

\* The service fetches nothing: any id and any version > 0 reaches the repository.
RedactBegin(h) == \E a \in Ids, v \in Versions : Begin(h, a, "r_article", v, "none")

RedactSelectArticle(h) == LET a == tx[h].id IN
  /\ tx[h].pc = "r_article"
  /\ IF articles[a] # "none"
       THEN tx' = [tx EXCEPT ![h].pc = "r_version", ![h].state = articles[a]]
       ELSE Finish(h)
  /\ UNCHANGED <<Tables, clock>>

\* No row: VersionNotFound.  redacted_at set: VersionAlreadyRedacted.
RedactSelectVersion(h) ==
  /\ tx[h].pc = "r_version"
  /\ IF versions[tx[h].id][tx[h].ver] \notin {"none", "redacted"}
       THEN Go(h, "r_update") ELSE Finish(h)
  /\ UNCHANGED <<Tables, clock>>

RedactUpdateVersion(h) == LET t == tx[h] IN
  /\ t.pc = "r_update"
  /\ \A g \in Others(h) : ~LocksVersion(g, t.id, t.ver)
  /\ Go(h, IF t.state = "live" THEN "r_live" ELSE "r_commit")
  /\ UNCHANGED <<Tables, clock>>

\* (Mutant: a redaction of the current version does not touch the live row.)
RedactSelectLiveNoBump(h) ==
  /\ tx[h].pc = "r_live"
  /\ IF HasLive(tx[h].id) THEN Go(h, "r_commit") ELSE Finish(h)
  /\ UNCHANGED <<Tables, clock>>

\* Tombstoned since the first SELECT: no row, Internal, the redaction is undone.
RedactSelectLive(h) == LET t == tx[h] IN
  /\ t.pc = "r_live"
  /\ IF HasLive(t.id)
       THEN Go(h, IF live[t.id].current_version = t.ver THEN "r_bump" ELSE "r_commit")
       ELSE Finish(h)
  /\ UNCHANGED <<Tables, clock>>

RedactBumpLive(h) == LET t == tx[h] IN
  /\ t.pc = "r_bump"
  /\ \A g \in Others(h) : ~LocksLive(g, t.id)
  /\ tx' = [tx EXCEPT ![h].pc = "r_commit", ![h].hit = HasLive(t.id)]
  /\ UNCHANGED <<Tables, clock>>

RedactCommit(h) == LET t == tx[h] IN
  /\ t.pc = "r_commit"
  /\ versions' = [versions EXCEPT ![t.id][t.ver] = "redacted"]
  /\ live' = IF t.hit THEN [live EXCEPT ![t.id].updated_at = t.now] ELSE live
  /\ Finish(h)
  /\ UNCHANGED <<articles, tomb, clock>>

-----------------------------------------------------------------------------
(* get: three SELECTs, each its own snapshot (no transaction). *)

GetBegin(h) == \E a \in Ids :
  /\ tx[h].pc = "idle"
  /\ tx' = [tx EXCEPT ![h] = NewTx("g_article", a, 0, 0, "none", Floor(a))]
  /\ UNCHANGED <<Tables, clock>>

GetArticle(h) == LET a == tx[h].id IN
  /\ tx[h].pc = "g_article"
  /\ CASE articles[a] = "live"      -> Go(h, "g_live")
       [] articles[a] = "tombstone" -> Go(h, "g_tomb")
       [] OTHER                     -> Finish(h)       \* ArticleNotFound
  /\ UNCHANGED <<Tables, clock>>

\* Tombstoned since the first SELECT: Internal.
GetLive(h) == LET t == tx[h] IN
  /\ t.pc = "g_live"
  /\ IF HasLive(t.id)
       THEN tx' = [tx EXCEPT ![h].pc = "g_version",
                             ![h].ver = live[t.id].current_version]
       ELSE Finish(h)
  /\ UNCHANGED <<Tables, clock>>

GetVersion(h) == tx[h].pc = "g_version" /\ Finish(h) /\ UNCHANGED <<Tables, clock>>
GetTombstone(h) == tx[h].pc = "g_tomb" /\ Finish(h) /\ UNCHANGED <<Tables, clock>>

\* The connection or the server goes down between two statements: Postgres
\* rolls the transaction back and the request is not retried.
Abort(h) == tx[h].pc # "idle" /\ Finish(h) /\ UNCHANGED <<Tables, clock>>

-----------------------------------------------------------------------------
Edit(h) == \/ EditSelectArticle(h) \/ EditSelectLive(h) \/ EditSelectVersion(h)
           \/ EditInsertVersion(h) \/ EditUpdateLive(h) \/ EditCommit(h)

Tombstone(h) == \/ TombstoneSelectArticle(h) \/ TombstoneUpdateArticle(h)
                \/ TombstoneInsertRow(h) \/ TombstoneDeleteLive(h) \/ TombstoneCommit(h)

Redact(h) == \/ RedactSelectArticle(h) \/ RedactSelectVersion(h) \/ RedactUpdateVersion(h)
             \/ RedactSelectLive(h) \/ RedactBumpLive(h) \/ RedactCommit(h)

Get(h) == GetArticle(h) \/ GetLive(h) \/ GetVersion(h) \/ GetTombstone(h)

\* A handler's next statement, and a request's arrival.
Statement(h) == PublishCommit(h) \/ Edit(h) \/ Tombstone(h) \/ Redact(h) \/ Get(h)
Arrive(h) == PublishBegin(h) \/ EditBegin(h) \/ TombstoneBegin(h) \/ RedactBegin(h) \/ GetBegin(h)

Next == \E h \in Handlers : Arrive(h) \/ Statement(h) \/ Abort(h)

Spec == Init /\ [][Next]_vars

-----------------------------------------------------------------------------
(* Correctness. *)

\* The table family agrees with articles.state (docs/design/data-model.md:116-117,
\* articles.rs:4-10): a live article has its articles_live row and no tombstone
\* row, a tombstoned one the converse, an id without an articles row neither -
\* although tombstone, edit and redact check the state and write the child
\* tables in different statements.
TableFamily == \A a \in Ids :
  /\ articles[a] = "live" <=> HasLive(a)
  /\ articles[a] = "tombstone" <=> tomb[a] # 0

\* articles_live.current_version names the newest version row, and the rows
\* below it are all there (data-model.md:118): two edits that read the same
\* current_version never leave a gap, a duplicate or a lost version.
CurrentIsNewest == \A a \in Ids : articles[a] = "live" =>
  \A v \in Versions : Exists(a, v) <=> v <= live[a].current_version

\* article_versions is append-only (data-model.md:119): a committed row never
\* changes except that redaction nulls its content, for good, and a new row
\* always follows the previous version - also for an edit that loses the race
\* against a tombstone and commits its version after it.
AppendStep == \A a \in Ids, v \in Versions :
  versions'[a][v] # versions[a][v] =>
    \/ versions[a][v] = "none" /\ versions'[a][v] # "redacted" /\ (v = 1 \/ Exists(a, v - 1))
    \/ Exists(a, v) /\ versions'[a][v] = "redacted"
AppendOnly == [][AppendStep]_vars

\* get reads three tables in three snapshots.  What it returns as live is
\* whole (the version its second SELECT named has a row for the third) and not
\* stale: never older than the version current when get started, or than the
\* handler's own edit, and never an article tombstoned before it started.
GetConsistent == \A h \in Handlers : tx[h].pc = "g_version" =>
  Exists(tx[h].id, tx[h].ver) /\ tx[h].ver >= tx[h].low

\* Redacting the version a live article serves always changes updated_at in the
\* same commit, so that the account stream sees an event (articles.rs:772-774),
\* whatever edits commit between redact_version's statements.
RedactionTouches == [][\A a \in Ids :
  (HasLive(a) /\ Served(a) # "redacted" /\ HasLive(a)' /\
   versions'[a][live[a].current_version] = "redacted")
    => live'[a].updated_at # live[a].updated_at]_vars

\* The committed tables, seen as the lifecycle of ArticleLifecycle.
Lifecycle == INSTANCE ArticleLifecycle WITH
  phase <- articles,
  current <- [a \in Ids |-> live[a].current_version],
  withheld <- [a \in Ids |-> {v \in Versions : versions[a][v] = "redacted"}]

\* However the statements of concurrent requests interleave, each commit is one
\* step of the lifecycle (or, for an edit overtaken by a tombstone and a version
\* redacted twice, none): published once, one version per edit, one tombstone,
\* no redaction undone.
ImplementsLifecycle == Lifecycle!Spec

\* The row and key locks that edit, tombstone and redact_version take, in
\* different orders, never form a cycle: while requests are under way one of
\* them can run its next statement.
NeverDeadlocked ==
  (\E h \in Handlers : tx[h].pc # "idle") => \E h \in Handlers : ENABLED Statement(h)

-----------------------------------------------------------------------------
(* A statement of the documentation that the code does not keep. *)

\* "If the redacted version was the current version of a live article,
\* subsequent GetArticle returns ArticleLive.content = []" and "Irreversible"
\* (docs/design/articles.md:264-265): an edit that supplies no content does not
\* bring a body back into service after the served version was redacted.
RedactionHides == [][\A h \in Handlers : LET a == tx[h].id IN
  (EditCommit(h) /\ tx[h].req = "keep" /\ HasLive(a) /\ Served(a) = "redacted")
    => tx[h].body = "empty"]_vars
=============================================================================
