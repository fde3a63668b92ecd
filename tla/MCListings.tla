----------------------------- MODULE MCListings -----------------------------
(* Model-checking instance of Listings. *)
EXTENDS Listings, TLC

CONSTANTS f1, f2, r1, r2

MCUsers == {1, 2}
MCAccounts == {3, 4}
MCArticles == {5, 6, 7}
(* Two articles of one instant. *)
MCAccountOf == 5 :> 3 @@ 6 :> 4 @@ 7 :> 3
MCCreatedAt == 5 :> 1 @@ 6 :> 1 @@ 7 :> 2
MCDraftIds == {8, 9}
MCDraftOwner == [d \in MCDraftIds |-> 3]
MCInitDrafts == [d \in MCDraftIds |-> {0}]

Active(t) == [status |-> "active", created |-> t, unfollowed |-> {}]
MCInitFollows ==
  [e \in MCUsers \X MCAccounts |->
     CASE e = <<2, 4>> -> NoEdge
       [] e = <<2, 3>> -> [Active(0) EXCEPT !.status = "unfollowed", !.unfollowed = {1}]
       [] OTHER -> Active(0)]

MCLists == {<<>>, <<5, 6>>, <<7>>, <<5, 5>>, <<5, 6, 7>>}
MCInitFeed == [u \in MCUsers |-> IF u = 1 THEN <<5, 6>> ELSE <<>>]

Alice == [class |-> "user", user |-> 1]
Loader == [class |-> "system", writes |-> TRUE]
Like(u, t) ==
  [user |-> u, article |-> {5}, wellformed |-> TRUE, type |-> "LIKE", occurred |-> t, surface |-> "valid",
   properties |-> [selector |-> "LIKE", valid |-> TRUE]]
Single(s, e) == [subject |-> s, batch |-> FALSE, events |-> <<e>>]
Batch(s, es) == [subject |-> s, batch |-> TRUE, events |-> es]
MCEventRequests ==
  { Single(Alice, Like(1, 0)),
    Single(Alice, [Like(1, 0) EXCEPT !.properties.selector = "SHARE"]),
    Single([Loader EXCEPT !.writes = FALSE], Like(1, 0)),
    Batch(Loader, <<Like(1, 1), [Like(2, 1) EXCEPT !.article = {}]>>),
    Batch(Alice, <<Like(1, 1), Like(2, 1)>>),
    Batch(Alice, <<>>) }
MCInitLog ==
  {[id |-> i, user |-> 1, article |-> {4 + i}, type |-> "LIKE", received |-> 1, by |-> Alice] : i \in 1..2}

Everything == [users |-> MCUsers, article |-> {}, types |-> {"LIKE"}, after |-> 0, before |-> 3]
MCScans ==
  { [list |-> "user_follows", of |-> 1, all |-> FALSE],
    [list |-> "account_followers", of |-> 3, all |-> TRUE],
    [list |-> "account_articles", of |-> 3, all |-> TRUE],
    [list |-> "drafts", of |-> 3],
    [list |-> "follow_feed", of |-> 1],
    [list |-> "recommended_feed", of |-> 1],
    [list |-> "events", of |-> Everything],
    [list |-> "events", of |-> [Everything EXCEPT !.article = {5}]],
    [list |-> "events", of |-> [Everything EXCEPT !.users = {1}, !.after = 1, !.before = 2]] }
=============================================================================
