----------------------------- MODULE RestReplies -----------------------------
(***************************************************************************)
(* The way back: the message a service makes of a row (`*_to_proto`), and  *)
(* the JSON the gateway makes of the message (`*_to_json`).  A row has its *)
(* nullable columns as sets with at most one element, an instant is a pair *)
(* of seconds and nanoseconds.                                             *)
(***************************************************************************)
EXTENDS RestRoutes

OrEmpty(S) == IF S = {} THEN "" ELSE The(S)
OrZero(S) == IF S = {} THEN 0 ELSE The(S)
Time(S) == {ts_to_proto(t) : t \in S}
JTime(S) == OrNull(S, timestamp_to_rfc3339)
JText(m, fields) == [f \in fields |-> JStr(m[f])]
StatusStr(names, n) == IF n + 1 \in DOMAIN names THEN names[n + 1] ELSE names[1]

-----------------------------------------------------------------------------
(* Accounts, users and keys. *)
account_to_proto(a) ==
  With(a, [status |-> IF a.status = "active" THEN 1 ELSE 2, deleted_at |-> Time(a.deleted_at),
           created_at |-> Time({a.created_at}), updated_at |-> Time({a.updated_at})])
account_status_str(n) ==
  StatusStr(<<"ACCOUNT_STATUS_UNSPECIFIED", "ACCOUNT_STATUS_ACTIVE", "ACCOUNT_STATUS_DELETED">>, n)

account_to_json(a) ==
  JObj(With(JText(a, {"id", "short_name", "author_name", "author_url"}),
            [status |-> JStr(account_status_str(a.status)), deleted_at |-> JTime(a.deleted_at),
             created_at |-> JTime(a.created_at), updated_at |-> JTime(a.updated_at)]))

user_to_proto(u) ==
  With(u, [status |-> IF u.status = "active" THEN 1 ELSE 2, deleted_at |-> Time(u.deleted_at),
           created_at |-> Time({u.created_at})])
user_status_str(n) ==
  StatusStr(<<"USER_STATUS_UNSPECIFIED", "USER_STATUS_ACTIVE", "USER_STATUS_DELETED">>, n)
user_to_json(u) ==
  JObj(With(JText(u, {"id", "display_name"}),
            [status |-> JStr(user_status_str(u.status)), deleted_at |-> JTime(u.deleted_at),
             created_at |-> JTime(u.created_at)]))

key_to_proto(k) ==
  [user_id |-> k.parent_id, key_id |-> k.key_id, algo |-> k.algo, public_key |-> k.public_key,
   status |-> IF k.status = "active" THEN 1 ELSE 2, created_at |-> Time({k.created_at}),
   revoked_at |-> Time(k.revoked_at)]
key_status_str(n) ==
  StatusStr(<<"KEY_STATUS_UNSPECIFIED", "KEY_STATUS_ACTIVE", "KEY_STATUS_REVOKED">>, n)
user_key_to_json(k) ==
  JObj(With(JText(k, {"user_id", "key_id", "algo", "public_key"}),
            [status |-> JStr(key_status_str(k.status)), created_at |-> JTime(k.created_at),
             revoked_at |-> JTime(k.revoked_at)]))

-----------------------------------------------------------------------------
(* Articles.  A message carries the data of its state: a live version or a *)
(* tombstone.  A summary is an article without content.                    *)
article_summary_to_proto(s) ==
  [id |-> s.id, account_id |-> s.account_id, created_at |-> Time({s.created_at}),
   state |-> IF s.state = "live" THEN 1 ELSE 2,
   live |-> IF s.state # "live" THEN {}
            ELSE {[current_version |-> OrZero(s.current_version), title |-> OrEmpty(s.title),
                   author_name |-> OrEmpty(s.author_name), author_url |-> OrEmpty(s.author_url),
                   redacted |-> s.redacted, published_at |-> Time(s.published_at),
                   updated_at |-> Time(s.updated_at)]},
   tombstone |-> IF s.state = "live" THEN {}
                 ELSE {[reason |-> OrEmpty(s.tombstone_reason),
                        tombstoned_at |-> Time(s.tombstoned_at)]}]
article_to_proto(a) ==
  LET summary == article_summary_to_proto(a.summary)
      content == UNION {{json_to_nodes(j)} : j \in a.content}
  IN  With(summary, [live |-> {With(l, [content |-> IF content = {} THEN <<>> ELSE The(content)]) :
                                 l \in summary.live}])

article_state_str(n) ==
  StatusStr(<<"ARTICLE_STATE_UNSPECIFIED", "ARTICLE_STATE_LIVE", "ARTICLE_STATE_TOMBSTONE">>, n)
article_live_summary_to_json(l) ==
  JObj(With(JText(l, {"title", "author_name", "author_url"}),
            [current_version |-> JNum(l.current_version), redacted |-> JBool(l.redacted),
             published_at |-> JTime(l.published_at), updated_at |-> JTime(l.updated_at)]))
article_live_to_json(l) ==
  JObj(With(article_live_summary_to_json(l).obj, [content |-> nodes_to_json_array(l.content)]))
article_tombstone_to_json(t) ==
  JObj([reason |-> JStr(t.reason), tombstoned_at |-> JTime(t.tombstoned_at)])

(* The sibling for the state is present only in that state. *)
StateData(k, S, ToJson(_)) == [x \in {k : s \in S} |-> ToJson(The(S))]
ArticleFields(a) ==
  With(JText(a, {"id", "account_id"}),
       [state |-> JStr(article_state_str(a.state)), created_at |-> JTime(a.created_at)])
article_to_json(a) ==
  JObj(With(ArticleFields(a), With(StateData("live", a.live, article_live_to_json),
                                   StateData("tombstone", a.tombstone, article_tombstone_to_json))))

(* Mutant: the tombstone of a summary is left out. *)
article_summary_to_json_no_tombstone(s) ==
  JObj(With(ArticleFields(s), StateData("live", s.live, article_live_summary_to_json)))

article_summary_to_json(s) ==
  JObj(With(ArticleFields(s), With(StateData("live", s.live, article_live_summary_to_json),
                                   StateData("tombstone", s.tombstone, article_tombstone_to_json))))

-----------------------------------------------------------------------------
(* Drafts, follows, feeds, events. *)
(* Mutant: the last node is not read back. *)
draft_to_proto_but_last(d) ==
  With(d, [content |-> SubSeq(json_to_nodes(d.content), 1, Len(json_to_nodes(d.content)) - 1),
           created_at |-> Time({d.created_at}), updated_at |-> Time({d.updated_at})])

draft_to_proto(d) ==
  With(d, [content |-> json_to_nodes(d.content), created_at |-> Time({d.created_at}),
           updated_at |-> Time({d.updated_at})])
draft_to_json(d) ==
  JObj(With(JText(d, {"id", "account_id", "title", "author_name", "author_url"}),
            [content |-> nodes_to_json_array(d.content), created_at |-> JTime(d.created_at),
             updated_at |-> JTime(d.updated_at)]))
draft_summary_to_proto(s) ==
  With(s, [created_at |-> Time({s.created_at}), updated_at |-> Time({s.updated_at})])
draft_summary_to_json(s) ==
  JObj(With(JText(s, {"id", "account_id", "title"}),
            [created_at |-> JTime(s.created_at), updated_at |-> JTime(s.updated_at)]))

follow_to_proto(f) ==
  With(f, [status |-> IF f.status = "active" THEN 1 ELSE 2, created_at |-> Time({f.created_at}),
           unfollowed_at |-> Time(f.unfollowed_at)])
follow_status_str(n) ==
  StatusStr(<<"FOLLOW_STATUS_UNSPECIFIED", "FOLLOW_STATUS_ACTIVE", "FOLLOW_STATUS_UNFOLLOWED">>, n)
follow_to_json(f) ==
  JObj(With(JText(f, {"user_id", "account_id"}),
            [status |-> JStr(follow_status_str(f.status)), created_at |-> JTime(f.created_at),
             unfollowed_at |-> JTime(f.unfollowed_at)]))

(* Each of these services has a copy of article_summary_to_proto; only a   *)
(* feed item has a position.                                               *)
feed_item_to_proto(i) ==
  [position |-> i.position, article |-> article_summary_to_proto(i.article)]
follow_feed_item_to_proto(a) == [article |-> article_summary_to_proto(a)]
account_stream_item_to_proto(a) == [article |-> article_summary_to_proto(a)]
feed_item_to_json(item) ==
  JObj([position |-> JNum(item.position), article |-> article_summary_to_json(item.article)])
follow_feed_item_to_json(item) == JObj([article |-> article_summary_to_json(item.article)])
account_stream_item_to_json(item) == JObj([article |-> article_summary_to_json(item.article)])

(* event_to_proto: the properties are read back from the stored JSON by    *)
(* the type; a shape the service did not write is an internal error.       *)
StoredProperties(e) ==
  LET j == e.properties
      has(k, type) == Has(j, k) /\ Is(type, j.obj[k])
  IN  CASE e.type \in {"IMPRESSION", "OPEN"} /\ has("feed_kind", "str") /\ has("position", "num") ->
             {[kind |-> IF e.type = "OPEN" THEN "open" ELSE "impression",
               feed_kind |-> Str(j, "feed_kind"), position |-> Int32(I64(j, "position"))]}
        [] e.type = "DWELL" /\ has("dwell_ms", "num") ->
             {[kind |-> "dwell", dwell_ms |-> I64(j, "dwell_ms")]}
        [] e.type = "LIKE" -> {[kind |-> "like"]}
        [] e.type = "UNLIKE" -> {[kind |-> "unlike"]}
        [] e.type = "SHARE" /\ has("target", "str") -> {[kind |-> "share", target |-> Str(j, "target")]}
        [] OTHER -> {}
event_to_proto(e) ==
  With(e, [type |-> The(parse_event_type_str(JStr(e.type))), article_id |-> OrEmpty(e.article_id),
           occurred_at |-> Time({e.occurred_at}), received_at |-> Time({e.received_at}),
           properties |-> StoredProperties(e)])

event_properties_to_json(S) ==
  IF S = {} THEN JNull
  ELSE LET p == The(S)
       IN  JObj([x \in {p.kind} |->
             CASE p.kind \in {"impression", "open"} ->
                    JObj([feed_kind |-> JStr(p.feed_kind), position |-> JNum(p.position)])
               [] p.kind = "dwell" -> JObj([dwell_ms |-> JNum(p.dwell_ms)])
               [] p.kind = "share" -> JObj([target |-> JStr(p.target)])
               [] OTHER -> JObj([y \in {} |-> JNull])])
event_to_json(e) ==
  JObj(With(JText(e, {"id", "user_id", "article_id", "surface"}),
            [type |-> JStr(event_type_str(e.type)), occurred_at |-> JTime(e.occurred_at),
             received_at |-> JTime(e.received_at),
             properties |-> event_properties_to_json(e.properties)]))

-----------------------------------------------------------------------------
(* What a handler answers when the service has done its work: `r` is the   *)
(* row or the page of rows the service ends with.                          *)
ItemsJson(r, ToJson(_)) ==
  JObj([items |-> JArr([i \in DOMAIN r.items |-> ToJson(r.items[i])]),
        next_page_token |-> JStr(r.next_page_token)])
OkJson(rpc, r) ==
  LET account(a) == account_to_json(account_to_proto(a))
      user(u) == user_to_json(user_to_proto(u))
      event(e) == event_to_json(event_to_proto(e))
  IN  CASE rpc = "CreateAccount" -> JObj([account |-> account(r.account), key_id |-> JStr(r.key_id)])
        [] rpc = "GetAccount" -> account(r)
        [] rpc = "CreateUser" -> JObj([user |-> user(r.user), key_id |-> JStr(r.key_id)])
        [] rpc \in {"GetUser", "UpdateUser", "DeleteUser"} -> user(r)
        [] rpc \in {"AddUserKey", "RevokeUserKey"} -> user_key_to_json(key_to_proto(r))
        [] rpc \in {"PublishArticle", "GetArticle", "EditArticle", "TombstoneArticle", "PublishDraft"} ->
             article_to_json(article_to_proto(r))
        [] rpc \in {"CreateDraft", "GetDraft", "UpdateDraft"} -> draft_to_json(draft_to_proto(r))
        [] rpc \in {"Follow", "Unfollow", "GetFollow"} -> follow_to_json(follow_to_proto(r))
        [] rpc = "ListAccountArticles" ->
             ItemsJson(r, LAMBDA a : article_summary_to_json(article_summary_to_proto(a)))
        [] rpc = "ListAccountDrafts" ->
             ItemsJson(r, LAMBDA d : draft_summary_to_json(draft_summary_to_proto(d)))
        [] rpc \in {"ListUserFollows", "ListAccountFollowers"} ->
             ItemsJson(r, LAMBDA f : follow_to_json(follow_to_proto(f)))
        [] rpc = "GetRecommendationFeed" ->
             ItemsJson(r, LAMBDA i : feed_item_to_json(feed_item_to_proto(i)))
        [] rpc = "GetFollowFeed" ->
             ItemsJson(r, LAMBDA a : follow_feed_item_to_json(follow_feed_item_to_proto(a)))
        [] rpc = "StreamAccountArticles" ->
             ItemsJson(r, LAMBDA a : account_stream_item_to_json(account_stream_item_to_proto(a)))
        [] rpc = "ReplaceRecommendationFeed" -> JObj([stored_count |-> JNum(r.stored_count)])
        [] rpc = "RecordEvent" -> event(r)
        [] rpc = "RecordEventBatch" ->
             JObj([recorded |-> JArr([i \in DOMAIN r.recorded |-> event(r.recorded[i])]),
                   stored_count |-> JNum(r.stored_count)])
        [] rpc = "ListEvents" -> ItemsJson(r, event)
        [] OTHER -> JObj([x \in {} |-> JNull])

-----------------------------------------------------------------------------
(* The rows the services end with: the columns of each, and what the code  *)
(* can have put there.  Text that may be missing is never the empty text,  *)
(* and stored content is what nodes_to_json made of one node or more.      *)
IsRow(r, columns) == r = [f \in columns |-> r[f]]
IsInstant(t) == t = <<t[1], t[2]>> /\ t[2] \in 0..(NanosPerSecond - 1)
IsGiven(values) == values # {} /\ IsOptional(values)
IsText(values) == IsOptional(values) /\ "" \notin values
IsTime(values) == IsOptional(values) /\ \A t \in values : IsInstant(t)
IsStored(j) == json_to_nodes(j) \in Seq(ContentNodes) \ {<<>>} /\ j = nodes_to_json(json_to_nodes(j))

IsAccount(a) ==
  /\ IsRow(a, {"id", "short_name", "author_name", "author_url", "status", "deleted_at", "created_at",
               "updated_at"})
  /\ a.status \in {"active", "deleted"} /\ IsTime(a.deleted_at)
  /\ IsInstant(a.created_at) /\ IsInstant(a.updated_at)
IsUser(u) ==
  /\ IsRow(u, {"id", "display_name", "status", "deleted_at", "created_at"})
  /\ u.status \in {"active", "deleted"} /\ IsTime(u.deleted_at) /\ IsInstant(u.created_at)
IsKey(k) ==
  /\ IsRow(k, {"parent_id", "key_id", "algo", "public_key", "status", "created_at", "revoked_at"})
  /\ k.status \in {"active", "revoked"} /\ IsInstant(k.created_at) /\ IsTime(k.revoked_at)

(* A summary has the columns of its state only. *)
LiveColumns == {"current_version", "title", "author_name", "author_url", "published_at", "updated_at"}
IsSummary(s) ==
  /\ IsRow(s, LiveColumns \union {"id", "account_id", "state", "created_at", "redacted",
                                  "tombstone_reason", "tombstoned_at"})
  /\ IsInstant(s.created_at) /\ IsTime(s.published_at) /\ IsTime(s.updated_at)
  /\ IsText(s.tombstone_reason) /\ IsTime(s.tombstoned_at)
  /\ \/ s.state = "live" /\ s.tombstone_reason = {} /\ s.tombstoned_at = {}
        /\ \A f \in LiveColumns : IsGiven(s[f])
     \/ s.state = "tombstone" /\ s.redacted = FALSE /\ \A f \in LiveColumns : s[f] = {}
IsArticle(a) ==
  /\ IsRow(a, {"summary", "content"}) /\ IsSummary(a.summary)
  /\ IsOptional(a.content) /\ \A j \in a.content : IsStored(j)
  /\ a.summary.state = "tombstone" => a.content = {}
IsDraft(d) ==
  /\ IsRow(d, {"id", "account_id", "title", "author_name", "author_url", "content", "created_at",
               "updated_at"})
  /\ IsStored(d.content) /\ IsInstant(d.created_at) /\ IsInstant(d.updated_at)
IsDraftSummary(s) ==
  /\ IsRow(s, {"id", "account_id", "title", "created_at", "updated_at"})
  /\ IsInstant(s.created_at) /\ IsInstant(s.updated_at)
IsFollow(f) ==
  /\ IsRow(f, {"user_id", "account_id", "status", "created_at", "unfollowed_at"})
  /\ f.status \in {"active", "unfollowed"} /\ IsInstant(f.created_at) /\ IsTime(f.unfollowed_at)
IsFeedItem(i) == IsRow(i, {"position", "article"}) /\ IsSummary(i.article)

(* The properties of an event are as record_event wrote them. *)
IsEvent(e) ==
  LET p == e.properties
  IN  /\ IsRow(e, {"id", "user_id", "article_id", "type", "occurred_at", "received_at", "surface",
                   "properties"})
      /\ IsText(e.article_id) /\ IsInstant(e.occurred_at) /\ IsInstant(e.received_at)
      /\ \/ /\ e.type \in {"IMPRESSION", "OPEN"}
            /\ p = JObj([feed_kind |-> JStr(Str(p, "feed_kind")),
                         position |-> JNum(Int32(I64(p, "position")))])
         \/ e.type = "DWELL" /\ p = JObj([dwell_ms |-> JNum(I64(p, "dwell_ms"))])
         \/ e.type \in {"LIKE", "UNLIKE"} /\ p = JObj([x \in {} |-> JNull])
         \/ e.type = "SHARE" /\ p = JObj([target |-> JStr(Str(p, "target"))])

AreRows(list, IsItem(_)) == IsRow(list, DOMAIN list) /\ \A i \in DOMAIN list : IsItem(list[i])
IsPage(r, IsItem(_)) == IsRow(r, {"items", "next_page_token"}) /\ AreRows(r.items, IsItem)
RowIs(rpc, r) ==
  CASE rpc = "CreateAccount" -> IsRow(r, {"account", "key_id"}) /\ IsAccount(r.account)
    [] rpc = "GetAccount" -> IsAccount(r)
    [] rpc = "CreateUser" -> IsRow(r, {"user", "key_id"}) /\ IsUser(r.user)
    [] rpc \in {"GetUser", "UpdateUser", "DeleteUser"} -> IsUser(r)
    [] rpc \in {"AddUserKey", "RevokeUserKey"} -> IsKey(r)
    [] rpc \in {"PublishArticle", "GetArticle", "EditArticle", "TombstoneArticle", "PublishDraft"} ->
         IsArticle(r)
    [] rpc \in {"CreateDraft", "GetDraft", "UpdateDraft"} -> IsDraft(r)
    [] rpc \in {"Follow", "Unfollow", "GetFollow"} -> IsFollow(r)
    [] rpc = "ListAccountDrafts" -> IsPage(r, IsDraftSummary)
    [] rpc \in {"ListUserFollows", "ListAccountFollowers"} -> IsPage(r, IsFollow)
    [] rpc = "GetRecommendationFeed" -> IsPage(r, IsFeedItem)
    [] rpc \in {"ListAccountArticles", "GetFollowFeed", "StreamAccountArticles"} -> IsPage(r, IsSummary)
    [] rpc = "ReplaceRecommendationFeed" -> IsRow(r, {"stored_count"})
    [] rpc = "RecordEvent" -> IsEvent(r)
    [] rpc = "RecordEventBatch" ->
         IsRow(r, {"recorded", "stored_count"}) /\ AreRows(r.recorded, IsEvent)
    [] rpc = "ListEvents" -> IsPage(r, IsEvent)
    [] OTHER -> r = [done |-> TRUE]

-----------------------------------------------------------------------------
(* The domain errors of each RPC, of its handler and of the repositories   *)
(* it calls, other than those of the content.  Any statement may fail with *)
(* Internal.                                                               *)
KeyErrors == {"InvalidArgument", "UnsupportedAlgorithm", "InvalidPublicKey"}
MaskErrors == {"InvalidArgument", "EmptyUpdateMask", "UnallowedMaskPath"}
PageErrors == {"InvalidArgument", "InvalidCursor"}
UserErrors == {"InvalidArgument", "UserNotFound"}
AccountAndUserFaults == [
  CreateAccount |-> KeyErrors \union {"RegistrationDisabled"},
  GetAccount |-> {"InvalidArgument", "AccountNotFound"},
  CreateUser |-> KeyErrors \union {"RegistrationDisabled"},
  GetUser |-> UserErrors,
  UpdateUser |-> MaskErrors \union {"UserNotFound", "UserDeleted"},
  DeleteUser |-> UserErrors,
  AddUserKey |-> KeyErrors \union {"UserNotFound", "UserDeleted"},
  RevokeUserKey |-> UserErrors \union {"KeyNotFound", "KeyAlreadyRevoked", "LastActiveKey"}]
ArticleFaults == [
  PublishArticle |-> {"InvalidArgument", "AccountNotFound", "AccountDeleted"},
  GetArticle |-> {"InvalidArgument", "ArticleNotFound"},
  ListAccountArticles |-> PageErrors,
  EditArticle |-> MaskErrors \union {"ArticleNotFound", "ArticleTombstoned", "AccountNotFound",
                                     "AccountDeleted"},
  TombstoneArticle |-> {"InvalidArgument", "ArticleNotFound", "ArticleTombstoned"},
  RedactArticleVersion |-> {"InvalidArgument", "ArticleNotFound", "VersionNotFound",
                            "VersionAlreadyRedacted"}]
DraftFaults == [
  CreateDraft |-> {"InvalidArgument", "AccountNotFound", "AccountDeleted"},
  GetDraft |-> {"InvalidArgument", "DraftNotFound"},
  UpdateDraft |-> MaskErrors \union {"DraftNotFound"},
  DeleteDraft |-> {"InvalidArgument", "DraftNotFound"},
  ListAccountDrafts |-> PageErrors,
  PublishDraft |-> {"InvalidArgument", "DraftNotFound", "AccountNotFound", "AccountDeleted"}]
FollowFaults == [
  Follow |-> UserErrors \union {"SelfFollowForbidden", "UserDeleted", "AccountNotFound",
                                "AccountDeleted"},
  Unfollow |-> UserErrors \union {"SelfFollowForbidden", "FollowNotFound"},
  GetFollow |-> UserErrors \union {"SelfFollowForbidden", "FollowNotFound"},
  ListUserFollows |-> PageErrors \union {"UserNotFound"},
  ListAccountFollowers |-> PageErrors \union {"AccountNotFound"}]
FeedFaults == [
  ReplaceRecommendationFeed |-> UserErrors \union {"FeedTooLarge", "DuplicateArticleId", "UserDeleted"},
  GetRecommendationFeed |-> PageErrors \union {"UserNotFound", "UserDeleted"},
  GetFollowFeed |-> PageErrors \union {"UserNotFound", "UserDeleted"},
  StreamAccountArticles |-> PageErrors \union {"AccountNotFound", "AccountDeleted"}]
EventFaults == [
  RecordEvent |-> {"InvalidArgument", "EventTypeMismatch", "EventTimestampOutOfRange",
                   "UnauthorizedUserId"},
  RecordEventBatch |-> {"InvalidArgument", "EventTypeMismatch", "EventTimestampOutOfRange",
                        "UnauthorizedUserId", "BatchTooLarge"},
  ListEvents |-> PageErrors]
Faults ==
  With(With(With(AccountAndUserFaults, ArticleFaults), With(DraftFaults, FollowFaults)),
       With(FeedFaults, EventFaults))

(* The RPCs that check permissions themselves, with a status that has no   *)
(* detail; and those of NotificationService, which answer `unimpl`.        *)
Denying == {"PublishArticle", "EditArticle", "TombstoneArticle", "CreateDraft", "ListAccountDrafts",
            "ReplaceRecommendationFeed", "StreamAccountArticles", "RecordEvent", "RecordEventBatch",
            "ListEvents"}
Unimplemented == {"SendNotification", "SendNotificationBatch", "ListUserNotifications",
  "MarkNotificationRead", "MarkAllUserNotificationsRead", "GetUserNotificationPreferences",
  "UpdateUserNotificationPreferences"}
Reads == {"GetAccount", "GetUser", "GetArticle", "ListAccountArticles", "GetDraft",
  "ListAccountDrafts", "GetFollow", "ListUserFollows", "ListAccountFollowers",
  "GetRecommendationFeed", "GetFollowFeed", "StreamAccountArticles", "ListEvents"}

(* The content the handler validates: in full, or if the mask names it. *)
ContentOf(rpc, m) ==
  LET masked == \E k \in m.update_mask : \E i \in DOMAIN k.paths : k.paths[i] = "content"
  IN  CASE rpc \in {"PublishArticle", "CreateDraft"} -> {m.content}
        [] rpc = "EditArticle" /\ masked -> IF m.edit = {} THEN {<<>>} ELSE {e.content : e \in m.edit}
        [] rpc = "UpdateDraft" /\ masked -> {d.content : d \in m.draft}
        [] OTHER -> {}
=============================================================================
