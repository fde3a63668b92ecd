------------------------------- MODULE Protocol -------------------------------
(***************************************************************************)
(* The .proto files, as far as a REST client uses them: the fields of the  *)
(* request messages, and per RPC the HTTP method, the path, the fields the *)
(* path binds, where the other fields go, and the auth_requirement.  From  *)
(* these a client makes the HTTP request it sends for a message.           *)
(***************************************************************************)
EXTENDS RestRoutes

-----------------------------------------------------------------------------
(* Messages inside requests. *)
S == "string"
ContentFields == [title |-> S, author_name |-> S, author_url |-> S, content |-> "Nodes"]
Notification == [idempotency_key |-> S, user_id |-> S, article_id |-> S, kind |-> "NotificationKind",
                 channels |-> "NotificationChannels", payload |-> "NotificationPayload"]
EventFields == [user_id |-> S, article_id |-> S, type |-> "EventType", occurred_at |-> "Timestamp",
                surface |-> S, properties |-> "Properties"]
Message == [
  PublicKey |-> [algo |-> S, public_key |-> S],
  FieldMask |-> [paths |-> "strings"],
  Account |-> [id |-> S, short_name |-> S, author_name |-> S, author_url |-> S],
  User |-> [id |-> S, display_name |-> S],
  ArticleEdit |-> ContentFields,
  Draft |-> With(ContentFields, [id |-> S]),
  NotificationPayload |-> [title |-> S, body |-> S, image_url |-> S, data |-> "map"],
  QuietHours |-> [enabled |-> "bool", timezone |-> S, start_hour |-> "int32", end_hour |-> "int32"],
  NotificationPreferences |->
    [user_id |-> S, disabled_channels |-> "NotificationChannels",
     disabled_kinds |-> "NotificationKinds", quiet_hours |-> "QuietHours"]]

(* Per RPC: method, path, fields bound by the path, fields of the message, *)
(* what auth_requirement allows, and the scopes a system principal needs.  *)
Rpc(method, path, bound, fields, allowed, scopes) ==
  [method |-> method, path |-> path, bound |-> bound, fields |-> fields,
   allowed |-> allowed, scopes |-> scopes]

Anyone == {"anonymous", "user", "account", "system"}
Owner == {"account_owns", "system"}
UserSelf == {"user", "system"}
Id == [id |-> S]
OfUser == [user_id |-> S]
OfAccount == [account_id |-> S]
Paged(fields) == With(fields, [page_size |-> "int32", page_token |-> S])
Followed == [user_id |-> S, account_id |-> S]

AccountAndUserRpcs == [
  CreateAccount |-> Rpc("POST", "/v1/accounts", <<>>,
    [short_name |-> S, author_name |-> S, author_url |-> S, initial_key |-> "PublicKey"],
    {"anonymous", "system"}, {<<"accounts", "write">>}),
  GetAccount |-> Rpc("GET", "/v1/accounts/{}", <<"id">>, Id, Anyone, {}),
  UpdateAccount |-> Rpc("PATCH", "/v1/accounts/{}", <<"id">>,
    [account |-> "Account", update_mask |-> "FieldMask"], Owner, {<<"accounts", "admin">>}),
  DeleteAccount |-> Rpc("DELETE", "/v1/accounts/{}", <<"id">>, Id, {"account", "system"},
    {<<"accounts", "delete">>}),
  AddAccountKey |-> Rpc("POST", "/v1/accounts/{}/keys", <<"account_id">>,
    [account_id |-> S, key |-> "PublicKey"], Owner, {<<"accounts", "admin">>}),
  RevokeAccountKey |-> Rpc("POST", "/v1/accounts/{}/keys/{}/revoke", <<"account_id", "key_id">>,
    [account_id |-> S, key_id |-> S], Owner, {<<"accounts", "admin">>}),
  CreateUser |-> Rpc("POST", "/v1/users", <<>>, [display_name |-> S, initial_key |-> "PublicKey"],
    {"anonymous", "system"}, {<<"users", "write">>}),
  GetUser |-> Rpc("GET", "/v1/users/{}", <<"id">>, Id, {"anonymous", "user", "system"},
    {<<"users", "read">>}),
  UpdateUser |-> Rpc("PATCH", "/v1/users/{}", <<"id">>, [user |-> "User", update_mask |-> "FieldMask"],
    UserSelf, {<<"users", "admin">>}),
  DeleteUser |-> Rpc("DELETE", "/v1/users/{}", <<"id">>, Id, UserSelf, {<<"users", "delete">>}),
  AddUserKey |-> Rpc("POST", "/v1/users/{}/keys", <<"user_id">>, [user_id |-> S, key |-> "PublicKey"],
    UserSelf, {<<"users", "admin">>}),
  RevokeUserKey |-> Rpc("POST", "/v1/users/{}/keys/{}/revoke", <<"user_id", "key_id">>,
    [user_id |-> S, key_id |-> S], UserSelf, {<<"users", "admin">>})]

ContentRpcs == [
  PublishArticle |-> Rpc("POST", "/v1/accounts/{}/articles", <<"account_id">>,
    With(ContentFields, OfAccount), Owner, {<<"articles", "write">>}),
  GetArticle |-> Rpc("GET", "/v1/articles/{}", <<"id">>, Id, Anyone, {}),
  ListAccountArticles |-> Rpc("GET", "/v1/accounts/{}/articles", <<"account_id">>,
    Paged([account_id |-> S, include_tombstoned |-> "bool"]), Anyone, {}),
  EditArticle |-> Rpc("PATCH", "/v1/articles/{}", <<"id">>,
    [id |-> S, edit |-> "ArticleEdit", update_mask |-> "FieldMask"], Owner, {<<"articles", "write">>}),
  TombstoneArticle |-> Rpc("POST", "/v1/articles/{}/tombstone", <<"id">>, [id |-> S, reason |-> S],
    Owner, {<<"articles", "tombstone">>}),
  RedactArticleVersion |-> Rpc("POST", "/v1/articles/{}/versions/{}/redact",
    <<"article_id", "version">>, [article_id |-> S, version |-> "int32", redaction_reason |-> S],
    {"system"}, {<<"articles", "redact">>}),
  CreateDraft |-> Rpc("POST", "/v1/accounts/{}/drafts", <<"account_id">>,
    With(ContentFields, OfAccount), Owner, {<<"drafts", "write">>}),
  GetDraft |-> Rpc("GET", "/v1/drafts/{}", <<"id">>, Id, Owner, {<<"drafts", "read">>}),
  UpdateDraft |-> Rpc("PATCH", "/v1/drafts/{}", <<"id">>,
    [draft |-> "Draft", update_mask |-> "FieldMask"], Owner, {<<"drafts", "write">>}),
  DeleteDraft |-> Rpc("DELETE", "/v1/drafts/{}", <<"id">>, Id, Owner, {<<"drafts", "write">>}),
  ListAccountDrafts |-> Rpc("GET", "/v1/accounts/{}/drafts", <<"account_id">>, Paged(OfAccount),
    Owner, {<<"drafts", "read">>}),
  PublishDraft |-> Rpc("POST", "/v1/drafts/{}/publish", <<"id">>, Id, Owner, {<<"articles", "write">>})]

FollowAndFeedRpcs == [
  Follow |-> Rpc("POST", "/v1/users/{}/follows", <<"user_id">>, Followed, UserSelf,
    {<<"follows", "write">>}),
  Unfollow |-> Rpc("DELETE", "/v1/users/{}/follows/{}", <<"user_id", "account_id">>, Followed,
    UserSelf, {<<"follows", "write">>}),
  GetFollow |-> Rpc("GET", "/v1/users/{}/follows/{}", <<"user_id", "account_id">>, Followed,
    UserSelf, {<<"follows", "read">>}),
  ListUserFollows |-> Rpc("GET", "/v1/users/{}/follows", <<"user_id">>,
    Paged([user_id |-> S, include_unfollowed |-> "bool"]), UserSelf, {<<"follows", "read">>}),
  ListAccountFollowers |-> Rpc("GET", "/v1/accounts/{}/followers", <<"account_id">>,
    Paged([account_id |-> S, include_unfollowed |-> "bool"]), {"account", "system"},
    {<<"follows", "read">>}),
  ReplaceRecommendationFeed |-> Rpc("PUT", "/v1/users/{}/feed/recommendation", <<"user_id">>,
    [user_id |-> S, article_ids |-> "strings"], {"system"}, {<<"feeds", "recommendation", "write">>}),
  GetRecommendationFeed |-> Rpc("GET", "/v1/users/{}/feed/recommendation", <<"user_id">>,
    Paged(OfUser), UserSelf, {<<"feeds", "recommendation", "read">>}),
  GetFollowFeed |-> Rpc("GET", "/v1/users/{}/feed/follow", <<"user_id">>, Paged(OfUser), UserSelf,
    {<<"feeds", "follow", "read">>}),
  StreamAccountArticles |-> Rpc("GET", "/v1/accounts/{}/article-stream", <<"account_id">>,
    Paged(OfAccount), {"system"}, {<<"articles", "stream">>})]

EventAndNotificationRpcs == [
  RecordEvent |-> Rpc("POST", "/v1/events", <<>>, EventFields, UserSelf, {<<"events", "write">>}),
  RecordEventBatch |-> Rpc("POST", "/v1/events:batch", <<>>, [events |-> "Events"], UserSelf,
    {<<"events", "write">>}),
  ListEvents |-> Rpc("GET", "/v1/events", <<>>,
    Paged([user_id |-> S, article_id |-> S, types |-> "EventTypes", received_after |-> "Timestamp",
           received_before |-> "Timestamp"]), {"system"}, {<<"events", "read">>}),
  SendNotification |-> Rpc("POST", "/v1/notifications", <<>>, Notification, {"system"},
    {<<"notifications", "send">>}),
  SendNotificationBatch |-> Rpc("POST", "/v1/notifications:batch", <<>>,
    [notifications |-> "Notifications"], {"system"}, {<<"notifications", "send">>}),
  ListUserNotifications |-> Rpc("GET", "/v1/users/{}/notifications", <<"user_id">>,
    Paged([user_id |-> S, unread_only |-> "bool"]), UserSelf, {<<"notifications", "read">>}),
  MarkNotificationRead |-> Rpc("POST", "/v1/notifications/{}/read", <<"id">>, Id, {"user"}, {}),
  MarkAllUserNotificationsRead |-> Rpc("POST", "/v1/users/{}/notifications:mark-all-read",
    <<"user_id">>, OfUser, UserSelf, {<<"notifications", "admin">>}),
  GetUserNotificationPreferences |-> Rpc("GET", "/v1/users/{}/notification-preferences",
    <<"user_id">>, OfUser, UserSelf, {<<"notifications", "read">>}),
  UpdateUserNotificationPreferences |-> Rpc("PATCH", "/v1/users/{}/notification-preferences",
    <<"user_id">>, [preferences |-> "NotificationPreferences", update_mask |-> "FieldMask"],
    UserSelf, {<<"notifications", "admin">>})]

Service == With(With(AccountAndUserRpcs, ContentRpcs), With(FollowAndFeedRpcs, EventAndNotificationRpcs))
AUTH_TABLE == [rpc \in DOMAIN Service |-> [allowed |-> Service[rpc].allowed, scopes |-> Service[rpc].scopes]]

-----------------------------------------------------------------------------
(* What a message is: every field has a value of its type, and a message   *)
(* that holds a field the path binds is set.  An optional field may be     *)
(* unset; text is any text.                                                *)
PropertiesAre(p) ==
  \/ /\ p.kind \in {"impression", "open"}
     /\ p = [kind |-> p.kind, feed_kind |-> p.feed_kind, position |-> p.position]
     /\ p.position \in Int /\ Int32(p.position) = p.position
  \/ p.kind = "dwell" /\ p = [kind |-> p.kind, dwell_ms |-> p.dwell_ms]
  \/ p.kind = "share" /\ p = [kind |-> p.kind, target |-> p.target]
  \/ p.kind \in {"like", "unlike"} /\ p = [kind |-> p.kind]
Optional == DOMAIN Message \union {"Timestamp", "Properties"}
FieldIs(type, v) ==
  CASE type = "int32" -> v \in Int /\ Int32(v) = v
    [] type = "bool" -> v \in BOOLEAN
    [] type = "strings" -> v \in Seq(STRING)
    [] type = "Timestamp" ->
         /\ IsOptional(v)
         /\ \A t \in v : /\ t = [seconds |-> t.seconds, nanos |-> t.nanos]
                         /\ t.nanos \in 0..(2 * NanosPerSecond - 1)
    [] type = "map" -> v = [k \in DOMAIN v |-> v[k]]
    [] type = "Nodes" -> v \in Seq(ContentNodes)
    [] type = "EventType" -> v \in DOMAIN EventTypes
    [] type = "EventTypes" -> v \in Seq(DOMAIN EventTypes)
    [] type = "NotificationKind" -> v \in DOMAIN NotificationKinds
    [] type = "NotificationKinds" -> v \in Seq(DOMAIN NotificationKinds)
    [] type = "NotificationChannels" -> v \in Seq(DOMAIN NotificationChannels)
    [] type = "Properties" -> IsOptional(v) /\ \A p \in v : PropertiesAre(p)
    [] OTHER -> TRUE
FieldsAre(fields, m, IsValue(_, _)) ==
  m = [f \in DOMAIN fields |-> m[f]] /\ \A f \in DOMAIN fields : IsValue(fields[f], m[f])
InnerIs(type, v) ==
  IF type \in DOMAIN Message
  THEN IsOptional(v) /\ \A m \in v : FieldsAre(Message[type], m, FieldIs)
  ELSE FieldIs(type, v)
ListIs(list, fields, IsValue(_, _)) ==
  list = [i \in 1..Len(list) |-> list[i]] /\ \A i \in DOMAIN list : FieldsAre(fields, list[i], IsValue)
ValueIs(type, v) ==
  CASE type = "Events" -> ListIs(v, EventFields, FieldIs)
    [] type = "Notifications" -> ListIs(v, Notification, InnerIs)
    [] type \in DOMAIN Message ->
         IsOptional(v) /\ \A m \in v : FieldsAre(Message[type], m, InnerIs)
    [] OTHER -> FieldIs(type, v)

(* The field that holds the message a bound field is in. *)
Holder(rpc, f) ==
  LET fields == Service[rpc].fields
  IN  CHOOSE g \in DOMAIN fields : fields[g] \in DOMAIN Message /\ f \in DOMAIN Message[fields[g]]
Bound(rpc) == {Service[rpc].bound[i] : i \in DOMAIN Service[rpc].bound}
MessageIs(rpc, m) ==
  /\ FieldsAre(Service[rpc].fields, m, ValueIs)
  /\ \A f \in Bound(rpc) \ DOMAIN Service[rpc].fields : m[Holder(rpc, f)] # {}

-----------------------------------------------------------------------------
(* The JSON of a field, of a message inside another, and of a field of a   *)
(* request, without the fields the path binds and those that are unset.    *)
Given(fields, m) == {f \in DOMAIN fields : fields[f] \in Optional => m[f] # {}}
Each(s, F(_)) == JArr([i \in DOMAIN s |-> F(s[i])])
Object(fields, m, bound, ToJson(_, _)) ==
  JObj([f \in Given(fields, m) \ bound |-> ToJson(fields[f], m[f])])

PropertiesJson(p) ==
  JObj([k \in {p.kind} |->
    JObj(CASE p.kind \in {"impression", "open"} ->
                [feed_kind |-> JStr(p.feed_kind), position |-> JNum(p.position)]
           [] p.kind = "dwell" -> [dwell_ms |-> JNum(p.dwell_ms)]
           [] p.kind = "share" -> [target |-> JStr(p.target)]
           [] OTHER -> [x \in {} |-> JNull])])
FieldJson(type, v) ==
  CASE type = S -> JStr(v)
    [] type = "int32" -> JNum(v)
    [] type = "bool" -> JBool(v)
    [] type = "strings" -> Each(v, JStr)
    [] type = "Timestamp" -> timestamp_to_rfc3339(The(v))
    [] type = "map" -> JObj([k \in DOMAIN v |-> JStr(v[k])])
    [] type = "Nodes" -> nodes_to_json_array(v)
    [] type = "EventType" -> JStr(FullEventTypes[v])
    [] type = "NotificationKind" -> JStr(FullNotificationKinds[v])
    [] type = "NotificationKinds" -> Each(v, LAMBDA n : JStr(NotificationKinds[n]))
    [] type = "NotificationChannels" -> Each(v, LAMBDA n : JStr(FullNotificationChannels[n]))
    [] type = "Properties" -> PropertiesJson(The(v))

InnerJson(type, v) ==
  IF type \in DOMAIN Message THEN Object(Message[type], The(v), {}, FieldJson) ELSE FieldJson(type, v)

Json(type, v, bound) ==
  CASE type = "Events" -> Each(v, LAMBDA m : Object(EventFields, m, bound, FieldJson))
    [] type = "Notifications" -> Each(v, LAMBDA m : Object(Notification, m, bound, InnerJson))
    [] type \in DOMAIN Message -> Object(Message[type], The(v), bound, InnerJson)
    [] OTHER -> FieldJson(type, v)

(* The body of UpdateUser is the user, beside the mask. *)
Body(rpc, m) ==
  LET rule == Service[rpc]
      all == [f \in Given(rule.fields, m) \ Bound(rpc) |-> Json(rule.fields[f], m[f], Bound(rpc))]
  IN  CASE rule.method \in {"GET", "DELETE"} -> JNull
        [] rpc = "UpdateUser" -> JObj(With(all.user.obj, [f \in DOMAIN all \ {"user"} |-> all[f]]))
        [] OTHER -> JObj(all)

(* A query has one pair per value, those of a list in their order. *)
Query(rpc, m) ==
  LET rule == Service[rpc]
      value(f) == IF rule.fields[f] = "bool" THEN JStr(IF m[f] THEN "true" ELSE "false")
                  ELSE FieldJson(rule.fields[f], m[f])
      names == SetToSeq({f \in Given(rule.fields, m) \ Bound(rpc) : rule.fields[f] # "EventTypes"})
      types == IF "types" \in DOMAIN rule.fields THEN m.types ELSE <<>>
  IN  IF rule.method # "GET" THEN <<>>
      ELSE [i \in DOMAIN names |-> <<names[i], value(names[i])>>]
             \o [i \in DOMAIN types |-> <<"types", JStr(FullEventTypes[types[i]])>>]

HttpRequest(rpc, m) ==
  LET rule == Service[rpc]
      value(f) == IF f \in DOMAIN rule.fields THEN FieldJson(rule.fields[f], m[f])
                  ELSE JStr(The(m[Holder(rpc, f)])[f])
  IN  [at |-> <<rule.method, rule.path>>, params |-> [i \in DOMAIN rule.bound |-> value(rule.bound[i])],
       query |-> Query(rpc, m), body |-> Body(rpc, m)]
=============================================================================
