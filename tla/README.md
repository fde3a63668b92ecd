# Headlines: a TLA+ verification project

Headlines (`src/`) is a publishing service: accounts publish articles, edit,
redact and tombstone them; users follow accounts and read feeds; republishers
mirror an account through a resumable stream. Every request is signed and
carries a timestamp from the server's timestamp oracle (TSO). The server is one
Rust process (several may share a database) over Postgres; a REST gateway
translates HTTP to gRPC.

The modules here model the parts in which concurrency, crashes, clocks and
conversions decide whether the answer is right. TLC checks small instances; TLAPS proves
the safety properties for every value of the constants (section 5).

## 1. Inventory

| Component (crate, files) | State | Operations | Interaction | What is hard | What makes it correct |
|---|---|---|---|---|---|
| Articles (`headlines-store/repo/articles.rs`, `headlines-api/services/article.rs`) | tables `articles`, `articles_live`, `articles_tombstone`, `article_versions` | publish, get, list, edit, tombstone, redact_version | transactions at READ COMMITTED; a second connection for the closing re-read | SELECTs take no locks, decisions are out of date when the writes run; locks of four tables in three orders; `now` is read before the transaction | table family consistent; current version is the newest; versions append-only; redaction for good; no deadlock; each commit is one step of a simple lifecycle |
| Account stream (`repo/account_stream.rs`, `services/account_stream.rs`) | none (a query); the republisher keeps a cursor | stream | reads what the article writers commit | commits and event times in different orders, page boundaries | the mirror catches up; nothing changes behind the cursor |
| TSO (`headlines-auth/time/tso.rs`, `time/postgres_store.rs`) | an atomic word; the row `tso_high_water` | boot, issue, validate, flush task, stop | threads of all requests; Postgres | compare-and-swap races, crash between issue and flush, failed flush, clock set back | strictly increasing timestamps, also across restarts; the row never retreats; own timestamps accepted |
| Drafts (`repo/drafts.rs`, `services/draft.rs`) | table `drafts` | create, get, list, update, delete, publish | publish moves a draft into the article tables; the account is read first | update and publish check before they lock | one end per draft, no acknowledged write lost |
| Accounts, users, keys (`services/account.rs`, `services/user.rs`, `repo/accounts.rs`, `repo/users.rs`, `repo/keys.rs`) | `accounts`, `users`, `*_keys` | create, update, delete, add key, revoke key | chains of autocommit statements | every check is out of date at the write; failures halfway | deletion and revocation are for good; nobody is locked out |
| Connection pool (`headlines-store/lib.rs`) | free connections and waiters | get, return (drop) | every repository method; three take two connections | tasks that wait for each other, cancelled requests | nothing leaks, calls end |
| Request authentication (`headlines-auth/strategy.rs`, `nonce.rs`, `interceptor.rs`, `postgres_resolver.rs`) | the nonce LRU | resolve, verify, validate, record | TSO, keys; the gateway and the server each run it, the server trusts the gateway's hop | every stage is an await of its own; the store at capacity; messages delivered twice; clock steps; restarts empty it | a handler runs only for the signer; a nonce is admitted once per horizon |
| Authorization (`headlines-auth/authorize.rs`, `headlines-core/subject.rs`) | none | per-RPC decision, scope match | every handler | unlisted paths | a handler runs only for a class and scope its method allows |
| Follows (`repo/follows.rs`, `services/follow.rs`) | `follows` | follow, unfollow, get, two listings | feed of a user; user and account looked up first | read, then upsert; `created_at` moves under a listing | no edge by a request that came after the deletion; rows well formed |
| Events (`repo/events.rs`, `services/event.rs`) | `events` | record, record_batch, list | TSO for the window | batch partly invalid; ties of `received_at` | all or nothing, nobody records for others, no event skipped |
| Feeds (`repo/feed_follow.rs`, `repo/feed_recommendation.rs` and their services) | `feed_recommendation` | replace, paged reads | follows, articles, users | two replaces delete by different snapshots; a read spanning a replace | one whole list at a time, never a superseded one |
| Notifications (`services/notification.rs`) | none | – | its routes | every RPC is UNIMPLEMENTED | the reply says so |
| REST gateway (`headlines-rest-gateway/lib.rs`, `error.rs`) | none | 39 routes: extract, rebuild the message, sign for it, forward, reply | resolver, time source and nonce store of the server; the services over the trusted listener | every handler rebuilds by hand the message whose encoding the client has signed; the hop may break after the service committed | a correct signature verifies; what runs is what the client means; the reply tells the outcome |
| Error taxonomy (`headlines-core/error.rs`, gateway `error.rs`) | none | domain error -> status -> HTTP reply | every handler | three tables that must agree | no two outcomes look alike; a 4xx changed nothing |
| Protocol (`proto/`, `headlines-proto`) | none | request messages, HTTP bindings, `auth_requirement` | gateway, authorization | annotations and code written apart | the routes serve the messages of the annotations |
| Seed loader (`headlines-server/seed`, `main.rs`) | `seed-state.json`; rows in every table | run, resume, reset, seed at boot | SQL and the gRPC API | stops anywhere; only the file connects two runs; it is written in place | a recorded row is usable, duplicates have an explanation, success means complete |
| Server (`headlines-server/main.rs`, config, cli, metrics) | wiring | start, stop | all | – | – |

The hazards, each at the line where it bites and with the properties that cover
it, are listed in `PROJECT.json`.

## 2. Plan

Done: `Articles` with `ArticleLifecycle`, `AccountStream`, `Tso`,
`ConnectionPool`, `Drafts`, `Principals`, `Authentication`, and `Listings` with
`Directory`, `Follows`, `RecommendationFeed`, `Events`, `Keyset` and the abstract
`PagedRead`; the gateway (`RestWire`, `ErrorTaxonomy`, `RestRoutes`,
`RestReplies`, `Protocol`, composed with `Authentication` in `RestGateway`); `Seed`;
proofs about every one of these (section 5).

Left: the stream closing when its account is deleted.

## 3. Modules and how they correspond to the code

Every SQL statement of a transaction is one action; what a statement waits for
is its guard. The writes of an open transaction are a function of its program
counter and local fields, so they are applied at COMMIT: that is what READ
COMMITTED makes visible. `Abort` is enabled between any two statements (lost
connection, server crash).

* **Articles** – state: the four tables (`articles`, `live`, `tomb`,
  `versions`), the clock, and `tx`, one record per running request with its
  program counter and the local variables of the Rust closure. Actions are named
  after the method and statement: `EditSelectArticle`, `EditSelectLive`,
  `EditSelectVersion`, `EditInsertVersion`, `EditUpdateLive`, `EditCommit` and so
  on; row locks and the wait on a duplicate primary key are `LocksArticle`,
  `LocksLive`, `LocksVersion`, `HoldsNewVersion`. The publish, edit and tombstone
  methods end with the re-read (`ReadBack` enters the get actions). `low` in a
  request is history for `GetConsistent`. Abstractions: content is one model
  value per body; titles and authors carry over exactly like content; field
  validation accepts every request modelled; the account is active. The clock is
  the best case for the code: instants are distinct and increasing.
* **ArticleLifecycle** – the abstract specification: publish, edit, tombstone and
  redact as indivisible steps. `Articles!ImplementsLifecycle` maps the committed
  tables to it.
* **AccountStream** – extends `Articles` with the republisher: `Poll` is one
  call of `stream`, a single SELECT ordered by `event_at`, with the page token
  of the last row kept. The last page's token is empty, so the republisher keeps
  the cursor it had.
* **Tso** – state: the wall clock, the stored row, the process (`status`,
  `floor`, `last`, the flush task) and each thread inside `issue`. Load and
  compare-and-swap are separate actions; the flush task reads, awaits and
  writes; a crash may come anywhere; a flush may fail. A restart takes at least
  one millisecond. `stop` is modelled although the server never calls it.
* **ConnectionPool** – tasks, the FIFO queue of deadpool and the free
  connections; `Reread` is the second `get` of publish, edit and tombstone
  while the first connection is held; `Cancel` drops the request's future at any
  await.
* **Drafts** – the drafts row, what publishing inserted, the owning account's
  status and each request. `acked` and `ends` are history: what the
  acknowledged writes add up to, and how many deletes and publishes were
  answered OK.
* **Principals** – one account or user (`kind`), its keys and the requests
  on them. Nothing runs in a transaction here: every action commits.
* **Authentication** – messages (door, method, body, key, nonce, stamp, and how
  they are authenticated; forged, malformed and anonymous ones too) arrive any
  number of times, at the gateway's door (`AttachAuth`) or the server's
  (`AuthInterceptor`). A call then steps through the awaits of
  `authenticate_inner`: `SelectActive` and `SelectStatus` of the three key tables,
  the pure checks (`Verify`, `Future`, `Expired`) that end in `Rejected` or
  `Validated`, and `Record`; `TrustedSubject` is the hop from the gateway,
  `Authorize` the decision per method. Both doors share one nonce store, from
  which `Survivors` evicts and which refuses when full. Two horizons appear
  because the code has two: the window of the time source is configured, the
  store evicts after a fixed 30 s. Signatures are symbolic: a message verifies
  iff its key's holder signed the canonical string. `admitted` and `peak` are
  history. The module is checked as part of `RestGateway`.
* **RestWire** – JSON values and the readers of a field (`Str`, `I64`, `Opt`,
  `QInt`, ...) with the defaults they fall back to; article content between JSON,
  Node messages and stored JSON; timestamps; `encode_to_vec`, which gives the set
  of encodings a message may have, because prost writes the entries of a map in
  the order of a `HashMap`. `I32Bits` is the width at which a number is cut off.
  The converters of content are recursive functions over `ContentNodes` and
  `ContentDocs`, the nodes and the JSON values there are, whose `Depth` is at most
  `MaxDepth`; `Picked` is `filter_map`, the elements at some positions.
* **ErrorTaxonomy** – every variant of `HeadlinesError` with its code, reason and
  metadata keys, the status it becomes, and the HTTP reply the gateway makes of a
  status or of a body it cannot read.
* **RestRoutes**, **RestReplies** – one operator per handler, under its name: the
  message made of path, query and body (`Forwarded`), the proto a service makes
  of a row and the JSON of the reply (`OkJson`), and the errors each RPC may end
  with (`Faults`), content validation included. `RowIs` says what the row or the
  page of an RPC looks like, from the structs of `headlines-core/repo`.
* **Protocol** – the other side, from the `.proto` files: the fields of the request
  messages, the HTTP binding and the `auth_requirement` of every RPC. From it a
  client makes the message it means and the HTTP request it sends
  (`HttpRequest`), leaving out the optional fields that are not set (`Given`); it is
  independent of what the handlers read. `MessageIs` says what a message of an RPC
  is: every field has a value of its type.
* **RestGateway** – composes these with `Authentication`: `RestDoor` is a
  handler up to `attach_auth`, `GrpcDoor` the interceptor, `NoRoute` and
  `ExtractorRejects` the answers before a handler runs (a path parameter that is not
  UTF-8, a body that is not JSON, a version that is no number; the query strings are
  read into pairs of strings, which refuses none), `RefusalReply`,
  `ServiceReplies` and `AnswerLost` the ways a reply comes about. Every other step
  is one of `Authentication`; no step changes the state of `Authentication` but
  by one of its actions, so what is proved of `Authentication` holds here too
  (`GatewayImplementsAuthentication`).
  What the services do is the subject of the other modules: here they answer with
  any of their outcomes. `Effects` says which of these may leave a write behind: a
  success does, and an error does if it can come up behind a write that stays
  (`LateFaults`; the comment there has the places, found by reading every writing
  handler: each returns its other errors in front of its first write or out of a
  transaction). `ErrorMeansNoEffect` rests on that reading of the services; what it
  checks is what becomes of these outcomes on their way to the HTTP reply. `traffic` picks the requests of a behaviour.
* **Seed** – the database as far as a seeding run writes it (`rows` by entity, by
  the run that created the copy, and by the part written: row, key, each scope,
  date, state), the file, the state in memory and the position in the eight steps.
  `DemoSeed` is the command with its two flags, `BootSeed` the seeding at boot;
  `ClearDemoData` and `RemoveFile` are `--reset`; each INSERT that makes a system, its
  key or one of its scopes (`SYSTEMS` has them in the order of `plan.rs`), and each
  statement or call that makes an account, a user, an article or a draft, is an
  `InsertPart`; `NoPlan` ends a run whose directory names a system or an account
  without a plan; `Record` keeps the ids in memory, `Save` writes the file at the
  end of five of the steps. `Fault` cuts a run short at any statement, call or file
  operation; a save cut short leaves a torn file. The demo directory may change
  between runs. One run is active at a time. `ended` and `stale` are history.
* **Directory** – what the remaining services look up but do not write: deleted
  users and accounts, the state of each article, the drafts.
* **Follows**, **RecommendationFeed**, **Events** – the three writers. `follow`
  and `unfollow` commit every statement; `replace` is a transaction whose DELETE
  takes its snapshot in `DeleteStart` and waits for row locks in `DeleteEnd`, and
  whose INSERT waits for, or fails on, a taken position; recording validates
  (`RecordValidate`) and inserts with one statement.
* **Keyset**, **Listings** – the paged listings. `Selected` is the WHERE clause of
  each of the seven; `SelectPage` the shared part (limit + 1 rows beyond the token,
  the token of the last row kept); `CheckUser` the lookup the feeds make first;
  `Hydrate` the statements per row of the article listing. Descending orders are
  negated keys. `steady` is history: the rows that have been there, unchanged,
  since the scan began.
* **PagedRead** – the abstract specification of a paged listing: while the rows
  change in any way, each page is a run of the rows beyond the token, and the
  token is empty only when nothing is left. `Listings!ImplementsPagedRead` maps
  the current WHERE clause to its rows.
* **MC*** modules extend these with symmetry sets; the `.cfg` files give the
  constants. Definitions marked "(Mutant: ...)" are deliberately wrong variants
  of the definition that follows them; no specification uses them.

## 4. Runs

| Run | Instance | Shows |
|---|---|---|
| `articles` (282 499 states) | 1 article, 3 handlers, 3 versions, 4 writing requests | any three requests overlapping, in every statement order and with aborts. Three handlers suffice for an edit, a tombstone and a redaction to overlap; four writes for a publish and three more; three versions for an edit of an edit and for the version limit |
| `articles_redact` (violation) | 2 handlers | an edit that supplies no content copies the old body across its redaction |
| `account_stream` (101 394 states) | 2 articles, 1 writer, page of 1, 5 writes | the stream with one writer at a time: nothing behind the cursor changes and the mirror converges; page size 1 crosses a page boundary at every row |
| `account_stream_lost` (violation) | 3 articles, 2 writers | with concurrent writers an article commits behind the cursor |
| `tso` (770 457 states) | 2 threads, 4 ms, 3 logical values, clock set back by 1 ms at a time | strict timestamps, the row never retreats, own timestamps accepted. 4 ms are two processes with issue, flush and a clock correction each |
| `connection_pool` (42 588 states) | 4 writers, 2 readers, 3 connections | nothing leaks; the pool stops only when each connection is held by a publish, edit or tombstone that waits for a second one; every call ends unless the pool has stopped so for good. Three writers stop the pool; the fourth waits behind them, and takes its turn when one of them is cancelled |
| `drafts` (1 108 300 states) | 1 draft, 3 handlers, 2 texts | three requests racing on a draft |
| `principals` (448 382 states) | 1 account or user, 3 handlers, 2 keys, 2 fields, 2 deletions | three requests racing on a principal |
| `authentication` (848 960 states) | module `MCRestGateway`: 2 concurrent calls, 3 arrivals, a store of 1, 9 gRPC messages, and for each route plain, rich, anonymous, altered and malformed requests | both doors, copies of one message, keys added and revoked, clock steps and a restart; and every route with every outcome its service may have. Two calls are what it takes for copies to overlap; the third arrival finds a store that the first two have filled or emptied. The routes are taken one at a time: they share nothing but the store. Each string field has its own name as its value, so a field read from the wrong place shows; content nests to a depth of 2, elements in elements, so a converter that forgets what is inside shows |
| `gateway_map_order` (violation) | the same | a correctly signed request is refused for the order of a map |
| `listings` (569 297 states) | 2 users, 2 accounts, 3 articles (two of one instant), 2 drafts, page of 1, 2 concurrent writing requests over tables that already hold edges, a feed and two events of one instant | scans of all seven listings, one after another, while any two writers overlap in every statement order. Two are what it takes for two follows, a follow and an unfollow, two replaces, or a check and a deletion to race; a page of one ends at every row, inside ties too |
| `seed` (682 547 states) | 2 systems, the ranker with two scopes, 1 user, 1 or 2 accounts, a draft, an article or none, 1 edge; 3 runs, 2 faults; four demo directories | every place where two runs can be cut short, and the run that follows them. Two faults are what it takes for a fault to meet what another left (a reset over a torn file, a second break in the step that is repeated); the last run is spared, so that it shows what a run without a fault comes to. Two scopes are what it takes for a run to be cut between the one that ranks and another. The directories differ by the account that is followed, by an article, and by a key without a plan, so a later run has something to add, a follow its target to miss, and a run a name to stop at |

One article, draft or principal is enough in the runs that use one: no
statement of those methods touches two of them (the stream, which orders
several articles, has two or three). Requests are issued again and again by the
same handlers, so the histories are longer than the number of handlers.

**Fairness.** `AccountStream` assumes weak fairness of each handler's next
statement (tokio polls a ready task, Postgres answers) and of `Poll` (the
republisher keeps polling). `ConnectionPool` assumes weak fairness of each
task's step; the pool is first come, first served, so no stronger assumption is
needed. It does not assume that a stuck pool gets unstuck: `CallsEnd` excepts a pool
that is stuck for ever, and a client that goes away may free it. `Seed` assumes weak fairness of `Step`: a run that was started goes on
unless it is cut short, and each of its statements and calls is answered. That a
run is started, or spared, is not assumed. Arrivals, cancellations, crashes,
faults and clock ticks are never fair. The
other modules state safety only.

### What the violations show

* `RedactionHides` – `docs/design/articles.md:264-265`. `edit` reads the version
  row without a lock (`articles.rs:617`); a redaction that commits before the
  edit does is undone in effect, for the new version carries the body.
* `NothingBehindCursor` with two writers –
  `docs/design/account-stream.md:82`. `now` is read before the transaction
  waits and commits, so event times become visible out of order; also an
  article's own event time may decrease (`account-stream.md:77`).
* `GenuineNotRefused` – `docs/design/auth.md:72` and the gateway's own comment
  (`lib.rs:594-595`). `attach_auth` hashes its own encoding of the rebuilt message;
  a map of two entries (an `img` with `src` and `alt`, the `data` of a notification)
  may be encoded in another order than the client signed. `GenuineVerified`
  states what holds: that is the only cause.

Two more statements of the documentation do not hold, and the passing properties
state what does. "Monotonically increases ... across restarts" (`tso.rs:4-5`)
fails when a flush is late or fails and the clock is set back across the restart
(an NTP correction, another host): `StrictStamps` has the condition. "RevokeAccountKey rejects ... if it would leave zero active
keys" (`docs/design/accounts.md:172`) fails for two concurrent revocations, the
count and the revocation being two statements: `NoLoneLockout` states that only
such a race takes the last key.

Smaller disagreements that the passing properties state as they are:
two follows that race restamp `created_at` of an edge that is already active,
where `follows.md` has a no-op; `up.sql` says that `events.received_at` comes from
the TSO, while `events.rs:171,226` reads the wall clock;
`revoke_user_key` lacks the deleted check of `revoke_account_key`
(`FrozenAfterDelete` excepts it; `users.md:139`); `soft_delete` restamps a row
already deleted (`accounts.rs:188`, `account.rs:475`); `publish_draft` checks the
account before the transaction, not under the lock (`drafts.md:152-156`,
`NoLateArticle`). Consequences of the code that no document rules out: an edit
overtaken by a tombstone leaves a version row nobody serves; a create that
fails between its two inserts leaves an account without a key; `UpdateAccount`
is not atomic across fields; two concurrent revocations of one key are both
answered OK; with at least as many concurrent article writers as connections
(16 by default, `config.rs:142`) the pool can stop until one of their clients goes
away, since no wait timeout is set (`StuckOnlyByWriters`, `StuckUntilCancelled`); two concurrent replaces of one feed may end with INTERNAL
for one of them (a duplicate position), which keeps the feed whole; an article
tombstoned between the SELECT of a listing and its hydration fails the page; the
nonce store is in memory, so single admission holds per process lifetime
(`Restart` clears the history of `NonceOncePerHorizon`).

Of the gateway: the annotations of `UpdateAccount`, `DeleteAccount`,
`AddAccountKey` and `RevokeAccountKey` (`account.proto:86-140`) have no route, so the
gateway answers 404 or 405; the body of the notification preferences
(`notification.proto:235`) and of `UpdateUser` (`user.proto:92`) is read as the
handler has it, not as the annotation does, and `Protocol` follows the handler's
documented form there.

Of the seed: "re-runs after a partial run pick up where they left off"
(`demo/README.md:76-78`; likewise `seed/mod.rs:4-6`, `runner.rs:4-6`) holds between
steps. A run cut short inside a step leaves what it created in that step
unrecorded, and the next run creates it again (`DuplicatesExplained`); events are
recorded anew in every run; a system found by name keeps what an interrupted run
left undone, without its key or some of its scopes (`DoneComplete`), and the runs
that find it report success: only a ranker that lacks its key or the scope
`feeds.recommendation.write`, the first one inserted, is noticed, and the scope only
when there are articles to rank; a torn file, a reset interrupted before the file is
removed, and such a ranker stop later runs until a reset (`SeedConverges`); and the seeding at boot is not resumed
once one account exists (`main.rs:404-405`).

## 5. Proofs

All proofs are checked by TLAPS with SMT, Zenon and LS4. Every inductive invariant
was checked by TLC on the instance of the component's run before it was proved.

* **ArticlesProofs** – for any sets of articles, handlers, bodies and any
  bounds: `TypeCorrect`, `FamilyCorrect`, `CurrentCorrect`, `GetCorrect`,
  `AppendOnlyCorrect`, `RedactionTouchesCorrect`, `NoDeadlockCorrect` and the
  refinement `LifecycleCorrect`. The properties are
  not inductive: what a transaction will write at COMMIT was decided by SELECTs
  that may be out of date. `IndInv` therefore adds what each program counter
  still knows of the tables (an edit past its insert holds the only claim to
  its version number and every lower version exists; a tombstone past its insert
  holds the articles row, and the article is still live; a handler that touched
  `articles_live` holds its lock, so the row has not changed) and that no two
  handlers hold the same lock. Steps that only move a handler are dealt with by
  one lemma (`LocalStep`), the four commits by one lemma each.

  `RedactionTouchesCorrect` needs more: `TouchInv` says that the instant of a
  request is its own and in no table yet (`Stamped`), so writing it changes
  `updated_at`, and that a redaction which leaves `articles_live` alone was
  overtaken, the article being a tombstone or its current version a later one
  (`Overtaken`). `NoDeadlockCorrect` states without ENABLED what `NeverDeadlocked`
  rests on: `Blocked` says which lock a statement would wait for, no statement runs
  while it is blocked (`BlockedWaits`), and while requests are under way one of them
  is not blocked. A request that waits for a version or for the articles row waits
  for one that waits at most for a live row, whose holder waits for nobody.

  About `AccountStream`, for any finite set of articles, any page size, any number of
  concurrent writers and any bounds: `StreamTypeCorrect`, and `LostOnlyLateCorrect`.
  `NothingBehindCursor` is false with two writers (the run `account_stream_lost`);
  `LostOnlyLate` says how it fails, and in no other way: the step that leaves a change
  behind the cursor is the commit of a request on that article whose instant was read
  before the cursor had passed it. So a poll passes over nothing, a redaction that
  decides by an outdated read loses nothing, and a writer whose instant lies past the
  cursor is always seen. The invariant carries `IndInv` and `TouchInv` along: a commit
  moves the event time of its article to its own instant (`CommitMoves`), but for a
  redaction that is `Overtaken` and changes nothing the stream shows. A poll is safe
  (`PollPassesNone`) because a page is a prefix of the order (`PagePrefix`) and its
  token the greatest key in it (`PageToken`).
* **DraftsProofs** – for any drafts, handlers and texts: `DraftsTypeCorrect`,
  `OneEndCorrect`, `NoLostUpdateCorrect`, `PublishedForGoodCorrect` and
  `NoLateArticleCorrect`. `DraftsInv` adds what each program counter knows: a
  request past FOR UPDATE, or past its first UPDATE, holds the row alone, so the row
  is there and is what it read; the id a create will insert is nobody else's; and a
  request that arrived after the deletion never gets past the check of the account.
* **PrincipalsProofs** – for any finite set of handlers, any keys, fields and
  bounds: `PrincipalTypeCorrect`, `NoRevivalCorrect`, `FrozenAfterDeleteCorrect` and
  `NoLoneLockoutCorrect`. Every step moves the row and each key only forward
  (`Forward`). `PrincipalInv` adds that a key about to be inserted is its request's
  own, that a late request never gets past the status check, that a revocation past
  the lockout check has seen another active key, and, for the bound on deletions,
  that those under way are counted.
* **TsoProofs** – for any number of threads, any flush interval and counter
  width: `TsoTypeCorrect`, `OwnStampsCorrect`, `StoredNeverRetreatsCorrect` and
  `StrictStampsCorrect`, on a clock that may be set back at any time. `ProcessInv` orders row <= value in flight <=
  `last`, and gives a thread about to compare-and-swap room in the counter it
  loaded; `ClockInv` adds that, until the clock is set back, nothing issued is
  ahead of it and a fresh process starts strictly above its predecessors.
* **ConnectionPoolProofs** – for any tasks and pool size: `PoolTypeCorrect`,
  `ConservedCorrect`, `StuckOnlyByWritersCorrect` and `StuckUntilCancelledCorrect`,
  with no bound on the writers. In a stuck pool every connection is held by a task in
  `second`, and only writers come there, so counting the connections counts them; such
  a pool stays as it is until one of these requests is cancelled. The counting uses
  the library's facts about cardinalities; the queue is handled by lemmas
  about joining and leaving it.
* **AuthenticationProofs** – for any keys, messages, calls, horizons and
  capacity: `AuthTypeCorrect`, `NonceOnceCorrect`, `HandledForSignerCorrect` and
  `ReplayJustifiedCorrect`.
  `AuthInv` ties the nonce store to the history of admissions: what was admitted
  is in the store, or its stamp lies more than the horizon behind the highest
  reading of the clock. Eviction keeps that, because it compares with the stamp
  of an arriving request, which was validated and so is not ahead of that
  reading; and a full store refuses instead of forgetting. `SignerInv` carries
  along what the earlier stages of a call have established: in which tables the
  key was found active after the call arrived, that the signature is its
  holder's, and whose subject it is. `ReplayInv` adds that the store holds only what
  was admitted, that everything admitted was signed by its key, and that a call
  refused as a replay has a nonce that was admitted.

  About `RestGateway`, for any HTTP requests, changed on the way or not, any rows,
  any content and any interleaving of the two doors:
  `GatewayImplementsAuthentication`, that every step of the gateway is a step of
  `Authentication` or leaves its state alone, from which `GatewayHandledForSigner`,
  `GatewayNonceOnce` and `GatewayReplayJustified` follow for both doors;
  `ErrorMeansNoEffectCorrect`, `ExecutedAsMeantCorrect`, `GenuineVerifiedCorrect`,
  `ContentSurvivesCorrect` and `RepliesDistinguishCorrect`. The invariants speak of
  one state, the reason for them lies steps back, so three more are carried along.
  `GatewayInv` adds to `AuthInv` and `SignerInv` which HTTP request a call serves and
  that the message of the call is that request with an encoding of what its handler
  rebuilt (`Served`), and whose subject a verified call has (`SubjectInv`).
  `AnswersMade` says how each reply came about: from an extractor or a verdict, from
  an outcome of the service, or because the answer was lost. `AnsweredAsMeant` says that a service
  which answered was handed what the client means. For `GenuineVerified`, `BadSigned`
  keeps the reason of a refusal, a row of the key whose holder did not make the
  signature; by `RowsHome` a key has rows in its own table only.

  Three groups of lemmas about the operators carry these proofs.

  *What is written is read back* (`ContentReadBack`, and `json_to_node` after
  `stored_node`, `parse_node` after `node_to_json`): by induction on the depth of the
  content. The induction is over the set of depths for which the statement holds, as
  the library's induction theorem for sets has it; that the recursive functions of
  the converters exist is shown the same way.

  *Every handler rebuilds its message* (`HandlersRebuildCorrect`): for all 39 routes,
  whatever message the client means, what the handler makes of the path, the query
  and the body that `Protocol` has for the message is the message. There is one lemma
  for each reader of a field, each type of field (`Written`: every field that is set
  is in the JSON under its name), each message inside another (`Whole`), each parser
  and each handler, with the rules of the RPCs (`Ruled`) read off the tables of
  `Protocol`. A query is taken apart by the positions of its pairs, whatever their
  order (`Queried`). That a handler drops, defaults or swaps a field is therefore
  excluded for every value of the field, unset ones included; `ExecutedAsMeant` and
  `GenuineVerified` rest on it, and on what verifies having been signed by the holder
  of the key over these very bytes (`VerifiedAsMeant`).

  *Rows that differ are shown differently*: one lemma for each kind of row, through
  the proto a service makes of it and the JSON the gateway makes of that, and one for
  pages; two errors differ in their code, reason or metadata keys; and no error looks
  like a success. `RepliesDistinguishCorrect` goes through the RPCs with them.
* **ListingsProofs** – for any users, accounts, articles, rankings, requests, page
  size and number of handlers: `RowsSoundCorrect`, `LatestReplaceServedCorrect`,
  `NoLateWriteCorrect`, the refinement `ImplementsPagedReadCorrect`, and
  `ScanExactCorrect`. `ListingsInv` has a part per component. `FollowInv`: a follow
  that came too late never passes the check of the one it was late for, and an
  unfollow that saw the edge still finds it. `FeedInv`: replaces are numbered apart
  (`Numbered`); what a replace has locked is the whole feed or nothing of it, and
  only its holder may have inserted rows (`Locked`); the feed is the list of one
  acknowledged replace, and whoever aims at other rows began before it was
  acknowledged (`Serves`), which is why the loser of a race finds its positions
  taken and cannot mix two lists. `EventInv`: ids are dense and a batch about to be
  inserted was validated for its caller. `ReaderInv`: a scan is open between its
  pages, and a page holds no more than its limit. The refinement then shows, listing
  by listing, that the rows a WHERE clause selects have distinct keys and that the
  first `Limit` of them are a prefix of their order. `PagedReadExact` proves the
  abstract paged read exact: `TokenInv` says that what the pages have left out of
  the steady rows lies beyond the token, and everything they held lies up to it.
  `ScanExactCorrect` follows from the two.
* **SeedProofs** – for any demo directories, any number of runs and faults:
  `RecordedUsableCorrect`, `DuplicatesExplainedCorrect` and `DoneCompleteCorrect`,
  from one inductive invariant, `SeedInv`. The properties speak of the file and of
  the rows, and between two saves neither tells what the run in memory has done.
  `Accounted` closes that gap: every row is named by the file, or is of a run that
  stopped in the step that makes it, or is of the step that is going on. `FileUsable`
  and `MemoryUsable` say the same of what the file and the run name, `HalfInv` which
  systems were left half made, `Progress` (with `FollowsMade` and `FeedsMade`) that
  what the cursor has passed is done, and `Cleared` and `Written` what a reset and a
  torn write leave. The actions are grouped by what they do to the run (stop,
  advance, record, end a step), with one lemma for each group.

Assumptions: only the named `ASSUME`s of the modules, which TLC evaluates in every
run. Numbers are naturals; marks such as `"none"` are not article ids; the sets of
tasks, of handlers on a principal, of articles in a stream and of ids in the
directory are finite; the events a caller may send have the fields of the request
message, and the log at the start was recorded by requests (`EventsAssumption`);
each listing is asked for an owner of the right kind (`ScansAssumption`); every demo
directory names the same users, at least one, as `demo init-keys` makes them
(`UsersAssumption`, `ensure_canonical_keys`, `seed/keys.rs:102-115`; a directory from
which someone removed the keys of a user by hand is outside it). Of the gateway:
content is made of the three shapes of a node, nests to some depth, and what the
converters write of it is among the JSON values there are (`ContentAssumption`;
serde_json itself stops at a depth of 128); the message a client means has a value
of its type in every field, maps are finite, nobody but the holder of a key signs
with it, the holder signs what it means, a key UUID belongs to one principal, and a
request without a signature arrives as it was sent (`ClientsAssumption`); what a
service answers with are rows of its tables (`RowsAssumption`); the messages include
what the gateway makes of the requests (`TrafficAssumption`); and a number has at
least two bits (`WidthAssumption`).

The type invariants of `Articles`, `AccountStream`, `ConnectionPool`, `Drafts`,
`Principals` and `Authentication` are proved, for every instance, and not checked
again by the runs; those of `Listings` and `Seed` are conjuncts of `RowsSound` and
`RecordedUsable`, which are checked and proved.

Only model-checked: liveness (`MirrorConverges`, `CallsEnd`, `SeedConverges`), which
is out of the prover's reach, and `NeverDeadlocked` as it stands, since it uses
ENABLED (`NoDeadlockCorrect` proves the argument about locks behind it). Every other
property of the passing runs is also a theorem.

## 6. Not modelled

* Signature algorithms (third-party cryptography) and the codec of page tokens (a
  bijection on keys).
* Of the field validators, the limits on text fields: they are outcomes of the
  RPC (`Faults`), not computed. The validation of content is modelled.
* Of the seed loader, the conversion of Markdown and front matter and the
  generation of missing keys: pure functions of files, with no state between
  runs. (`content_md.rs:13` says that the width, height and allowfullscreen of an
  embed are preserved, and the code keeps `src` only.) Two seeding runs at the same
  time are not modelled.
* The scanner of `headlines-proto/build.rs`, which reads the `auth_requirement`
  options from the descriptor: the table it generates is written out in
  `Protocol`.
* Configuration, command line, telemetry and the OpenAPI document: no state of
  their own. Migrations and `ping`: I/O.
* The stream closing when its account is deleted.
* Single reads (`get_follow`, `get_account`, `get_user`) change nothing; their
  routes and replies are part of `RestGateway`.
