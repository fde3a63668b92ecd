------------------------------ MODULE RestRoutes ------------------------------
(***************************************************************************)
(* The routes of the REST gateway.  For each: the request message its      *)
(* handler makes of the path parameters, the query and the JSON body, the  *)
(* RPC it forwards that message to, and the JSON it makes of the answer.   *)
(*                                                                         *)
(* An HTTP request h has the method and the path template it matches       *)
(* (h.at), the path parameters in order ([bytes |-> ...] if one is not     *)
(* UTF-8), the query as a sequence of pairs, and the JSON body.            *)
(***************************************************************************)
EXTENDS RestWire, ErrorTaxonomy

-----------------------------------------------------------------------------
Param(h, i) == h.params[i].str
With(text, extra) ==
  [k \in DOMAIN text \union DOMAIN extra |-> IF k \in DOMAIN extra THEN extra[k] ELSE text[k]]
Page(h) == [page_size |-> QInt(h.query, "page_size"), page_token |-> QStr(h.query, "page_token")]

(* Accounts and users. *)
create_account(h) ==
  [short_name |-> Str(h.body, "short_name"), author_name |-> Str(h.body, "author_name"),
   author_url |-> Str(h.body, "author_url"),
   initial_key |-> Opt(h.body, "initial_key", parse_public_key)]
get_account(h) == [id |-> Param(h, 1)]

create_user(h) ==
  [display_name |-> Str(h.body, "display_name"),
   initial_key |-> Opt(h.body, "initial_key", parse_public_key)]
get_user(h) == [id |-> Param(h, 1)]
update_user(h) ==
  [user |-> {[id |-> Param(h, 1), display_name |-> Str(h.body, "display_name")]},
   update_mask |-> Opt(h.body, "update_mask", parse_field_mask)]
delete_user(h) == [id |-> Param(h, 1)]
add_user_key(h) == [user_id |-> Param(h, 1), key |-> Opt(h.body, "key", parse_public_key)]
revoke_user_key(h) == [user_id |-> Param(h, 1), key_id |-> Param(h, 2)]

-----------------------------------------------------------------------------
(* Articles and drafts. *)
Nodes(v, k) == IF Has(v, k) THEN parse_nodes(v.obj[k]) ELSE <<>>
Text(v) == [title |-> Str(v, "title"), author_name |-> Str(v, "author_name"),
            author_url |-> Str(v, "author_url"), content |-> Nodes(v, "content")]

publish_article(h) == With(Text(h.body), [account_id |-> Param(h, 1)])
get_article_handler(h) == [id |-> Param(h, 1)]

list_account_articles(h) ==
  With(Page(h), [account_id |-> Param(h, 1),
                 include_tombstoned |-> QFlag(h.query, "include_tombstoned")])

(* Mutant: the mask is not passed on. *)
edit_article_no_mask(h) ==
  [id |-> Param(h, 1), edit |-> Opt(h.body, "edit", Text), update_mask |-> {}]

edit_article(h) ==
  [id |-> Param(h, 1), edit |-> Opt(h.body, "edit", Text),
   update_mask |-> Opt(h.body, "update_mask", parse_field_mask)]
tombstone_article(h) == [id |-> Param(h, 1), reason |-> Str(h.body, "reason")]

(* The version of the path is a number or the handler gives up. *)
VersionOf(h) == {v.num : v \in {v \in {h.params[2]} : Is("num", v) /\ Int32(v.num) = v.num}}
redact_article_version(h) ==
  [article_id |-> Param(h, 1), version |-> The(VersionOf(h)),
   redaction_reason |-> Str(h.body, "redaction_reason")]

create_draft(h) == With(Text(h.body), [account_id |-> Param(h, 1)])
get_draft(h) == [id |-> Param(h, 1)]
update_draft(h) ==
  LET draft(v) == With(Text(v), [id |-> Param(h, 1)])
  IN  [draft |-> Opt(h.body, "draft", draft),
       update_mask |-> Opt(h.body, "update_mask", parse_field_mask)]
delete_draft(h) == [id |-> Param(h, 1)]
list_account_drafts(h) == With(Page(h), [account_id |-> Param(h, 1)])
publish_draft(h) == [id |-> Param(h, 1)]

-----------------------------------------------------------------------------
(* Follows, feeds and the account stream. *)
follow_user(h) == [user_id |-> Param(h, 1), account_id |-> Str(h.body, "account_id")]
unfollow_user(h) == [user_id |-> Param(h, 1), account_id |-> Param(h, 2)]
get_follow(h) == [user_id |-> Param(h, 1), account_id |-> Param(h, 2)]
list_user_follows(h) ==
  With(Page(h), [user_id |-> Param(h, 1),
                 include_unfollowed |-> QFlag(h.query, "include_unfollowed")])
list_account_followers(h) ==
  With(Page(h), [account_id |-> Param(h, 1),
                 include_unfollowed |-> QFlag(h.query, "include_unfollowed")])

replace_recommendation_feed(h) ==
  [user_id |-> Param(h, 1), article_ids |-> Strings(ArrayOf(h.body, "article_ids"))]
get_recommendation_feed(h) == With(Page(h), [user_id |-> Param(h, 1)])
get_follow_feed(h) == With(Page(h), [user_id |-> Param(h, 1)])
stream_account_articles(h) == With(Page(h), [account_id |-> Param(h, 1)])

-----------------------------------------------------------------------------
(* Events.  An enum is read by its name, with or without the prefix. *)
EventTypes == <<"IMPRESSION", "OPEN", "DWELL", "LIKE", "UNLIKE", "SHARE">>
FullEventTypes == <<"EVENT_TYPE_IMPRESSION", "EVENT_TYPE_OPEN", "EVENT_TYPE_DWELL",
                    "EVENT_TYPE_LIKE", "EVENT_TYPE_UNLIKE", "EVENT_TYPE_SHARE">>
Numbered(names, full, zero, v) ==
  {i \in DOMAIN names : v \in {JStr(names[i]), JStr(full[i])}}
    \union {0 : x \in {z \in zero : v = JStr(z)}}

parse_event_type_str(v) ==
  Numbered(EventTypes, FullEventTypes, {"UNSPECIFIED", "EVENT_TYPE_UNSPECIFIED"}, v)
event_type_str(n) ==
  IF n \in DOMAIN FullEventTypes THEN FullEventTypes[n] ELSE "EVENT_TYPE_UNSPECIFIED"

(* The first of the known keys counts. *)
PropertyKinds == <<"impression", "open", "dwell", "like", "unlike", "share">>
parse_record_event_properties(v) ==
  LET given == {i \in DOMAIN PropertyKinds : Has(v, PropertyKinds[i])}
      kind == PropertyKinds[CHOOSE i \in given : \A j \in given : i <= j]
      o == v.obj[kind]
  IN  IF given = {} THEN {}
      ELSE {CASE kind \in {"impression", "open"} ->
                   [kind |-> kind, feed_kind |-> Str(o, "feed_kind"),
                    position |-> Int32(I64(o, "position"))]
              [] kind = "dwell" -> [kind |-> kind, dwell_ms |-> I64(o, "dwell_ms")]
              [] kind = "share" -> [kind |-> kind, target |-> Str(o, "target")]
              [] OTHER -> [kind |-> kind]}

parse_record_event_request(v) ==
  LET types == IF Has(v, "type") THEN parse_event_type_str(v.obj["type"]) ELSE {}
  IN  [user_id |-> Str(v, "user_id"), article_id |-> Str(v, "article_id"),
       type |-> IF types = {} THEN 0 ELSE The(types),
       occurred_at |-> IF Has(v, "occurred_at") THEN parse_rfc3339_to_proto(v.obj["occurred_at"])
                       ELSE {},
       surface |-> Str(v, "surface"),
       properties |-> IF Has(v, "properties")
                      THEN parse_record_event_properties(v.obj["properties"]) ELSE {}]

record_event(h) == parse_record_event_request(h.body)
record_event_batch(h) ==
  LET items == ArrayOf(h.body, "events")
  IN  [events |-> [i \in DOMAIN items |-> parse_record_event_request(items[i])]]

(* A type that is unknown, like a time that is none, is no filter. *)
list_events(h) ==
  LET q == h.query
      typed == Picked(q, {i \in DOMAIN q : /\ q[i][1] \in {"types", "types[]"}
                                           /\ parse_event_type_str(q[i][2]) # {}})
      time(k) == UNION {parse_rfc3339_to_proto(v) : v \in LastOf(q, k)}
  IN  With(Page(h), [user_id |-> QStr(q, "user_id"), article_id |-> QStr(q, "article_id"),
        types |-> [i \in DOMAIN typed |-> The(parse_event_type_str(typed[i][2]))],
        received_after |-> time("received_after"), received_before |-> time("received_before")])

-----------------------------------------------------------------------------
(* Notifications. *)
NotificationKinds == <<"NEW_ARTICLE", "NEW_FOLLOWER", "ARTICLE_TOMBSTONED", "ARTICLE_EDITED",
                       "MENTION", "REPLY", "SYSTEM">>
FullNotificationKinds ==
  <<"NOTIFICATION_KIND_NEW_ARTICLE", "NOTIFICATION_KIND_NEW_FOLLOWER",
    "NOTIFICATION_KIND_ARTICLE_TOMBSTONED", "NOTIFICATION_KIND_ARTICLE_EDITED",
    "NOTIFICATION_KIND_MENTION", "NOTIFICATION_KIND_REPLY", "NOTIFICATION_KIND_SYSTEM">>
parse_notification_kind_str(v) ==
  Numbered(NotificationKinds, FullNotificationKinds,
           {"UNSPECIFIED", "NOTIFICATION_KIND_UNSPECIFIED"}, v)
NotificationChannels == <<"PUSH", "EMAIL", "SMS", "IN_APP">>
FullNotificationChannels ==
  <<"NOTIFICATION_CHANNEL_PUSH", "NOTIFICATION_CHANNEL_EMAIL", "NOTIFICATION_CHANNEL_SMS",
    "NOTIFICATION_CHANNEL_IN_APP">>
parse_notification_channel_str(v) ==
  Numbered(NotificationChannels, FullNotificationChannels,
           {"UNSPECIFIED", "NOTIFICATION_CHANNEL_UNSPECIFIED"}, v)

KnownNames(values, Parse(_)) ==
  LET known == Picked(values, {i \in DOMAIN values : Parse(values[i]) # {}})
  IN  [i \in DOMAIN known |-> The(Parse(known[i]))]

parse_notification_payload(v) ==
  [title |-> Str(v, "title"), body |-> Str(v, "body"), image_url |-> Str(v, "image_url"),
   data |-> StringMap(v, "data")]
parse_send_notification_request(v) ==
  LET kinds == IF Has(v, "kind") THEN parse_notification_kind_str(v.obj["kind"]) ELSE {}
  IN  [idempotency_key |-> Str(v, "idempotency_key"), user_id |-> Str(v, "user_id"),
       article_id |-> Str(v, "article_id"), kind |-> IF kinds = {} THEN 0 ELSE The(kinds),
       channels |-> KnownNames(ArrayOf(v, "channels"), parse_notification_channel_str),
       payload |-> Opt(v, "payload", parse_notification_payload)]
parse_quiet_hours(v) ==
  [enabled |-> Bool(v, "enabled"), timezone |-> Str(v, "timezone"),
   start_hour |-> Int32(I64(v, "start_hour")), end_hour |-> Int32(I64(v, "end_hour"))]
parse_notification_preferences(v) ==
  [user_id |-> "", quiet_hours |-> Opt(v, "quiet_hours", parse_quiet_hours),
   disabled_channels |-> KnownNames(ArrayOf(v, "disabled_channels"), parse_notification_channel_str),
   disabled_kinds |-> KnownNames(ArrayOf(v, "disabled_kinds"), parse_notification_kind_str)]

send_notification(h) == parse_send_notification_request(h.body)
send_notification_batch(h) ==
  LET items == ArrayOf(h.body, "notifications")
  IN  [notifications |-> [i \in DOMAIN items |-> parse_send_notification_request(items[i])]]
list_user_notifications(h) ==
  With(Page(h), [user_id |-> Param(h, 1), unread_only |-> QFlag(h.query, "unread_only")])
mark_notification_read(h) == [id |-> Param(h, 1)]
mark_all_user_notifications_read(h) == [user_id |-> Param(h, 1)]
get_user_notification_preferences(h) == [user_id |-> Param(h, 1)]

update_user_notification_preferences(h) ==
  LET v == IF Has(h.body, "preferences") THEN h.body.obj["preferences"] ELSE JNull
  IN  [preferences |-> {With(parse_notification_preferences(v), [user_id |-> Param(h, 1)])},
       update_mask |-> Opt(h.body, "update_mask", parse_field_mask)]

-----------------------------------------------------------------------------
(* build_router: the method and the path that forward to each RPC.         *)
(* /healthz and /openapi.json answer a constant.                           *)
RouteTable == [
  CreateAccount |-> <<"POST", "/v1/accounts">>, GetAccount |-> <<"GET", "/v1/accounts/{}">>,
  CreateUser |-> <<"POST", "/v1/users">>, GetUser |-> <<"GET", "/v1/users/{}">>,
  UpdateUser |-> <<"PATCH", "/v1/users/{}">>, DeleteUser |-> <<"DELETE", "/v1/users/{}">>,
  AddUserKey |-> <<"POST", "/v1/users/{}/keys">>,
  RevokeUserKey |-> <<"POST", "/v1/users/{}/keys/{}/revoke">>,
  PublishArticle |-> <<"POST", "/v1/accounts/{}/articles">>,
  ListAccountArticles |-> <<"GET", "/v1/accounts/{}/articles">>,
  GetArticle |-> <<"GET", "/v1/articles/{}">>, EditArticle |-> <<"PATCH", "/v1/articles/{}">>,
  TombstoneArticle |-> <<"POST", "/v1/articles/{}/tombstone">>,
  RedactArticleVersion |-> <<"POST", "/v1/articles/{}/versions/{}/redact">>,
  CreateDraft |-> <<"POST", "/v1/accounts/{}/drafts">>,
  ListAccountDrafts |-> <<"GET", "/v1/accounts/{}/drafts">>,
  GetDraft |-> <<"GET", "/v1/drafts/{}">>, UpdateDraft |-> <<"PATCH", "/v1/drafts/{}">>,
  DeleteDraft |-> <<"DELETE", "/v1/drafts/{}">>,
  PublishDraft |-> <<"POST", "/v1/drafts/{}/publish">>,
  Follow |-> <<"POST", "/v1/users/{}/follows">>,
  ListUserFollows |-> <<"GET", "/v1/users/{}/follows">>,
  GetFollow |-> <<"GET", "/v1/users/{}/follows/{}">>,
  Unfollow |-> <<"DELETE", "/v1/users/{}/follows/{}">>,
  ListAccountFollowers |-> <<"GET", "/v1/accounts/{}/followers">>,
  ReplaceRecommendationFeed |-> <<"PUT", "/v1/users/{}/feed/recommendation">>,
  GetRecommendationFeed |-> <<"GET", "/v1/users/{}/feed/recommendation">>,
  GetFollowFeed |-> <<"GET", "/v1/users/{}/feed/follow">>,
  StreamAccountArticles |-> <<"GET", "/v1/accounts/{}/article-stream">>,
  RecordEvent |-> <<"POST", "/v1/events">>, ListEvents |-> <<"GET", "/v1/events">>,
  RecordEventBatch |-> <<"POST", "/v1/events:batch">>,
  SendNotification |-> <<"POST", "/v1/notifications">>,
  SendNotificationBatch |-> <<"POST", "/v1/notifications:batch">>,
  ListUserNotifications |-> <<"GET", "/v1/users/{}/notifications">>,
  MarkNotificationRead |-> <<"POST", "/v1/notifications/{}/read">>,
  MarkAllUserNotificationsRead |-> <<"POST", "/v1/users/{}/notifications:mark-all-read">>,
  GetUserNotificationPreferences |-> <<"GET", "/v1/users/{}/notification-preferences">>,
  UpdateUserNotificationPreferences |-> <<"PATCH", "/v1/users/{}/notification-preferences">>]
Routes == {[at |-> RouteTable[rpc], rpc |-> rpc] : rpc \in DOMAIN RouteTable}
RoutesAt(h) == {r \in Routes : r.at = h.at}
RpcOf(h) == The(RoutesAt(h)).rpc

(* The message the handler of the route makes. *)
Forwarded(h) ==
  LET rpc == RpcOf(h)
  IN  CASE rpc = "CreateAccount" -> create_account(h)
        [] rpc = "GetAccount" -> get_account(h)
        [] rpc = "CreateUser" -> create_user(h)
        [] rpc = "GetUser" -> get_user(h)
        [] rpc = "UpdateUser" -> update_user(h)
        [] rpc = "DeleteUser" -> delete_user(h)
        [] rpc = "AddUserKey" -> add_user_key(h)
        [] rpc = "RevokeUserKey" -> revoke_user_key(h)
        [] rpc = "PublishArticle" -> publish_article(h)
        [] rpc = "GetArticle" -> get_article_handler(h)
        [] rpc = "ListAccountArticles" -> list_account_articles(h)
        [] rpc = "EditArticle" -> edit_article(h)
        [] rpc = "TombstoneArticle" -> tombstone_article(h)
        [] rpc = "RedactArticleVersion" -> redact_article_version(h)
        [] rpc = "CreateDraft" -> create_draft(h)
        [] rpc = "GetDraft" -> get_draft(h)
        [] rpc = "UpdateDraft" -> update_draft(h)
        [] rpc = "DeleteDraft" -> delete_draft(h)
        [] rpc = "ListAccountDrafts" -> list_account_drafts(h)
        [] rpc = "PublishDraft" -> publish_draft(h)
        [] rpc = "Follow" -> follow_user(h)
        [] rpc = "Unfollow" -> unfollow_user(h)
        [] rpc = "GetFollow" -> get_follow(h)
        [] rpc = "ListUserFollows" -> list_user_follows(h)
        [] rpc = "ListAccountFollowers" -> list_account_followers(h)
        [] rpc = "ReplaceRecommendationFeed" -> replace_recommendation_feed(h)
        [] rpc = "GetRecommendationFeed" -> get_recommendation_feed(h)
        [] rpc = "GetFollowFeed" -> get_follow_feed(h)
        [] rpc = "StreamAccountArticles" -> stream_account_articles(h)
        [] rpc = "RecordEvent" -> record_event(h)
        [] rpc = "RecordEventBatch" -> record_event_batch(h)
        [] rpc = "ListEvents" -> list_events(h)
        [] rpc = "SendNotification" -> send_notification(h)
        [] rpc = "SendNotificationBatch" -> send_notification_batch(h)
        [] rpc = "ListUserNotifications" -> list_user_notifications(h)
        [] rpc = "MarkNotificationRead" -> mark_notification_read(h)
        [] rpc = "MarkAllUserNotificationsRead" -> mark_all_user_notifications_read(h)
        [] rpc = "GetUserNotificationPreferences" -> get_user_notification_preferences(h)
        [] rpc = "UpdateUserNotificationPreferences" -> update_user_notification_preferences(h)

(* The handlers that take a JSON body. *)
WithBody == {"CreateAccount", "CreateUser", "UpdateUser", "AddUserKey", "PublishArticle",
  "EditArticle", "TombstoneArticle", "RedactArticleVersion", "CreateDraft", "UpdateDraft",
  "Follow", "ReplaceRecommendationFeed", "RecordEvent", "RecordEventBatch", "SendNotification",
  "SendNotificationBatch", "UpdateUserNotificationPreferences"}

(* The maps of a message, in the order they are encoded in. *)
MapsOf(rpc, m) ==
  LET data(n) == IF n.payload = {} THEN <<>> ELSE <<The(n.payload).data>>
  IN  CASE rpc \in {"PublishArticle", "CreateDraft"} -> MapsOfNodes(m.content)
        [] rpc = "EditArticle" -> IF m.edit = {} THEN <<>> ELSE MapsOfNodes(The(m.edit).content)
        [] rpc = "UpdateDraft" -> IF m.draft = {} THEN <<>> ELSE MapsOfNodes(The(m.draft).content)
        [] rpc = "SendNotification" -> data(m)
        [] rpc = "SendNotificationBatch" ->
             FlattenSeq([i \in DOMAIN m.notifications |-> data(m.notifications[i])])
        [] OTHER -> <<>>
=============================================================================
