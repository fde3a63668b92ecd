------------------------------ MODULE Listings ------------------------------
(***************************************************************************)
(* The paged listings, read by a client that follows their page tokens     *)
(* while the requests of Follows, RecommendationFeed, Events and Directory *)
(* change the tables under it: the follows of a user, the followers, the   *)
(* articles and the drafts of an account, the two feeds, the event log.    *)
(*                                                                         *)
(* A page is one SELECT of limit + 1 rows beyond the token.  The feeds     *)
(* look up the user in a statement before it; the articles of an account   *)
(* are hydrated row by row in statements after it.                         *)
(***************************************************************************)
EXTENDS Follows, RecommendationFeed, Events, Keyset

CONSTANTS
  Scans,   \* the listings the client reads, with owner and filter
  Limit    \* rows per page

ASSUME LimitAssumption == Limit \in Nat \ {0}

(* Each listing is asked for an owner of the right kind, the event log by  *)
(* any filter.                                                             *)
ASSUME ScansAssumption ==
  \A scan \in Scans :
    \/ scan \in [list : {"user_follows"}, of : Users, all : BOOLEAN]
    \/ scan \in [list : {"account_followers", "account_articles"}, of : Accounts, all : BOOLEAN]
    \/ scan \in [list : {"drafts"}, of : Accounts]
    \/ scan \in [list : {"follow_feed", "recommended_feed"}, of : Users]
    \/ scan.list = "events"

VARIABLE reader

vars == <<directoryVars, followVars, feedVars, eventVars, reader>>

(* Newest first: both parts of the key descend. *)
Newest(created, id) == <<0 - created, 0 - id>>

UserFollows(u, all) ==
  {[item |-> a, key |-> Newest(follows[<<u, a>>].created, a)] :
     a \in {a \in Accounts : follows[<<u, a>>].status = "active"
                               \/ (all /\ follows[<<u, a>>].status # "none")}}

AccountFollowers(a, all) ==
  {[item |-> u, key |-> Newest(follows[<<u, a>>].created, u)] :
     u \in {u \in Users : follows[<<u, a>>].status = "active"
                            \/ (all /\ follows[<<u, a>>].status # "none")}}

AccountArticles(a, all) ==
  {[item |-> x, key |-> Newest(CreatedAt[x], x)] :
     x \in {x \in Articles : AccountOf[x] = a
                               /\ (state[x] = "live" \/ (all /\ state[x] = "tombstone"))}}

DraftList(a) ==
  UNION {{[item |-> d, key |-> Newest(t, d)] : t \in drafts[d]} :
           d \in {d \in DraftIds : DraftOwner[d] = a}}

(* The joins with articles_live drop tombstones and unknown articles. *)
FollowFeed(u) ==
  {[item |-> x, key |-> Newest(CreatedAt[x], x)] :
     x \in {x \in Articles : follows[<<u, AccountOf[x]>>].status = "active" /\ state[x] = "live"}}

RecommendedFeed(u) ==
  {[item |-> r.article, key |-> <<r.position, 0>>] :
     r \in {r \in feed[u] : state[r.article] = "live"}}

(* Oldest first; the filters are conjoined, received_at in [after, before). *)
(* A row without article_id passes only where no article is asked for.     *)
EventList(filter) ==
  {[item |-> e.id, key |-> <<e.received, e.id>>] :
     e \in {e \in log : /\ e.user \in filter.users /\ e.type \in filter.types
                        /\ filter.article = {} \/ e.article = filter.article
                        /\ filter.after <= e.received /\ e.received < filter.before}}

Selected(scan) ==
  CASE scan.list = "user_follows" -> UserFollows(scan.of, scan.all)
    [] scan.list = "account_followers" -> AccountFollowers(scan.of, scan.all)
    [] scan.list = "account_articles" -> AccountArticles(scan.of, scan.all)
    [] scan.list = "drafts" -> DraftList(scan.of)
    [] scan.list = "follow_feed" -> FollowFeed(scan.of)
    [] scan.list = "recommended_feed" -> RecommendedFeed(scan.of)
    [] scan.list = "events" -> EventList(scan.of)
    [] scan.list = "none" -> {}

NoScan ==
  [pc |-> "idle", phase |-> "idle", scan |-> [list |-> "none"], token |-> {}, page |-> {},
   got |-> {}, steady |-> {}, todo |-> {}]

(* get_follow_feed and get_recommendation_feed check the user first. *)
FirstStatement(scan) ==
  IF scan.list \in {"follow_feed", "recommended_feed"} THEN "user" ELSE "select"

(* steady is history: the rows that were there ever since the scan began. *)
ReaderOpens(scan) ==
  /\ reader.pc = "idle"
  /\ reader' = [NoScan EXCEPT !.pc = FirstStatement(scan), !.phase = "open", !.scan = scan,
                              !.steady = Selected(scan)]
  /\ UNCHANGED <<directoryVars, followVars, feedVars, eventVars>>

CheckUser ==
  /\ reader.pc = "user"
  /\ reader' = IF reader.scan.of \in gone THEN NoScan ELSE [reader EXCEPT !.pc = "select"]
  /\ UNCHANGED <<directoryVars, followVars, feedVars, eventVars>>

(* Mutant: the token is made of the row read ahead. *)
SelectPagePeeked ==
  LET fetched == First(Limit + 1, Beyond(reader.token, Selected(reader.scan)))
      more == Cardinality(fetched) > Limit
  IN  /\ reader.pc = "select"
      /\ reader' = [reader EXCEPT
           !.page = First(Limit, fetched), !.got = @ \union reader.page,
           !.token = IF more THEN TokenOf(fetched) ELSE {},
           !.phase = IF more THEN "open" ELSE "ended",
           !.pc = IF more THEN FirstStatement(reader.scan) ELSE "idle"]
      /\ UNCHANGED <<directoryVars, followVars, feedVars, eventVars>>

(* limit + 1 rows are read, the last one only to know that there is more;  *)
(* the token is the key of the last row that is kept.                      *)
SelectPage ==
  LET fetched == First(Limit + 1, Beyond(reader.token, Selected(reader.scan)))
      more == Cardinality(fetched) > Limit
      page == First(Limit, fetched)
  IN  /\ reader.pc = "select"
      /\ reader' = [reader EXCEPT
           !.page = page, !.got = @ \union reader.page,
           !.token = IF more THEN TokenOf(page) ELSE {},
           !.phase = IF more THEN "open" ELSE "ended",
           !.todo = IF reader.scan.list = "account_articles"
                    THEN {r.item : r \in {r \in page : state[r.item] = "live"}} ELSE {},
           !.pc = CASE reader.scan.list = "account_articles" -> "hydrate"
                    [] more -> FirstStatement(reader.scan)
                    [] OTHER -> "idle"]
      /\ UNCHANGED <<directoryVars, followVars, feedVars, eventVars>>

(* list_by_account of the articles looks up articles_live for every row it *)
(* saw live; one that was tombstoned in between fails the whole page.      *)
Hydrate ==
  /\ reader.pc = "hydrate"
  /\ \/ \E x \in reader.todo :
          reader' = IF state[x] = "live" THEN [reader EXCEPT !.todo = @ \ {x}] ELSE NoScan
     \/ /\ reader.todo = {}
        /\ reader' = [reader EXCEPT !.pc = IF reader.phase = "open" THEN "select" ELSE "idle"]
  /\ UNCHANGED <<directoryVars, followVars, feedVars, eventVars>>

(* What other requests do to the rows of the scan. *)
Watched ==
  \E scan \in {reader.scan} :
    reader' = [reader EXCEPT !.steady = @ \intersect Selected(scan)']

Writers ==
  \/ DirectoryNext /\ UNCHANGED <<followVars, feedVars, eventVars>>
  \/ FollowsNext /\ UNCHANGED <<feedVars, eventVars>>
  \/ FeedNext /\ UNCHANGED <<followVars, eventVars>>
  \/ EventsNext /\ UNCHANGED <<followVars, feedVars>>

Init ==
  /\ DirectoryInit /\ FollowsInit /\ FeedInit /\ EventsInit
  /\ reader = NoScan

Next ==
  \/ Writers /\ Watched
  \/ \E scan \in Scans : ReaderOpens(scan)
  \/ CheckUser \/ SelectPage \/ Hydrate

Spec == Init /\ [][Next]_vars

-----------------------------------------------------------------------------
(* Properties. *)

ListingsTypeOK ==
  /\ DirectoryTypeOK /\ FollowsTypeOK /\ FeedTypeOK /\ EventsTypeOK
  /\ reader.pc \in {"idle", "user", "select", "hydrate"}
  /\ reader.phase \in {"idle", "open", "ended"}
  /\ reader.todo \subseteq Articles /\ Cardinality(reader.page) <= Limit

(* However the statements of two requests interleave, the rows that the    *)
(* listings read are well formed (an active edge carries no unfollowed_at, *)
(* no position of a feed is taken twice) and no event is recorded for      *)
(* another user, not even in a batch with valid ones.                      *)
RowsSound == ListingsTypeOK /\ EventsAttributed

Paged == INSTANCE PagedRead
  WITH rows <- Selected(reader.scan), phase <- reader.phase, token <- reader.token,
       page <- reader.page, got <- reader.got, steady <- reader.steady

(* Every listing implements the abstract paged read, whatever the other    *)
(* requests do between its pages: its order is total (ties of the instant  *)
(* are broken by the id), no page skips a row or repeats one, and an empty *)
(* token comes only when there is nothing left.                            *)
ImplementsPagedRead == Paged!Spec

(* A client that follows the tokens to the end gets every row that was     *)
(* there, unchanged, all along, and none twice: not the rows at a page     *)
(* boundary, not those of one instant, and whatever is followed, replaced, *)
(* recorded or tombstoned meanwhile.                                       *)
ScanExact == Paged!ScanComplete /\ Paged!ScanForward

(* An edge becomes active, and a feed changes, only by a request that      *)
(* arrived before its user or account was deleted.                         *)
NoLateWrite ==
  [][/\ \A e \in Edges :
          follows[e].status # "active" /\ follows'[e].status = "active" =>
            \E h \in FollowHandlers :
              freq[h].edge = e /\ freq[h].pc = "upsert" /\ ~freq[h].before
     /\ \A u \in Users :
          feed'[u] # feed[u] =>
            \E h \in Rankers : rreq[h].user = u /\ rreq[h].pc = "commit" /\ ~rreq[h].before
    ]_vars
=============================================================================
