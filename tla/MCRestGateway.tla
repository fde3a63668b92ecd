--------------------------- MODULE MCRestGateway ---------------------------
(* Model-checking instance of RestGateway, and with it of Authentication. *)
EXTENDS RestGateway

CONSTANTS ku, ks, kr, n1, n2, c1, c2

(* ku is registered by a user while the server runs.  ks is the key of a   *)
(* system principal, and by an integrity error also of an account.  kr is  *)
(* the key of a system principal with every scope.                         *)
MCKeys == {ku, ks, kr}
MCKeyTable == [k \in MCKeys |-> IF k = ku THEN "user_keys" ELSE "system_keys"]
MCInitRows ==
  [t \in Tables |-> [k \in MCKeys |->
     IF (k = ks /\ t # "user_keys") \/ (k = kr /\ t = "system_keys") THEN "active" ELSE "none"]]
MCRowAlgo == [t \in Tables |-> [k \in MCKeys |-> "ed25519"]]
MCScopes == [k \in MCKeys |-> IF k = kr THEN {<<"*">>} ELSE {<<"events", "*">>}]
MCRpcs == DOMAIN Service \union {"unlisted"}

-----------------------------------------------------------------------------
(* gRPC messages; Sign is what the holder of a key does. *)
Plain(rpc, auth) ==
  [door |-> "grpc", rpc |-> rpc, auth |-> auth, body |-> "bytes", compressed |-> FALSE, key |-> ku,
   algo |-> "ed25519", nonce |-> n1, ts |-> 0, sig |-> {}]
Sign(t, m) == [m EXCEPT !.sig = [by |-> <<t, m.key>>, over |-> Canonical(m)]]

Early == Sign("user_keys", Plain("Follow", "signed"))
Overlapping ==
  { Early, [Early EXCEPT !.ts = 1], Plain("GetArticle", "none"),
    Sign("system_keys", [Plain("GetArticle", "signed") EXCEPT !.key = ks, !.ts = 1]) }
Odd == { [Early EXCEPT !.algo = "p256"], [Early EXCEPT !.compressed = TRUE],
         Plain("unlisted", "none"), Plain("GetArticle", "malformed") }
GrpcMessages == Overlapping \union Odd

-----------------------------------------------------------------------------
(* A client's message in two styles: `plain` has flags and some optional   *)
(* fields unset and maps with one entry, `rich` has flags set and maps     *)
(* with two.  Each string field has its own name as its value, so that one *)
(* read from the wrong place shows.                                        *)
Styles == {"plain", "rich"}
NoAttrs == [s \in {} |-> ""]
Paragraph == Element("p", NoAttrs, <<TextNode("t"), Element("a", [href |-> "u"], <<TextNode("l")>>)>>)
Picture == Element("figure", NoAttrs, <<Element("img", [src |-> "u", alt |-> "t"], <<>>)>>)

RECURSIVE Sample(_, _, _)
Sample(type, field, style) ==
  LET fields(fs) == [f \in DOMAIN fs |-> Sample(fs[f], f, style)]
  IN  CASE style = "plain" /\ type \in {"PublicKey", "Timestamp", "QuietHours"} -> {}
        [] type = S -> field
        [] type = "int32" -> 3
        [] type = "bool" -> style = "rich"
        [] type = "strings" -> IF field = "paths" THEN <<"title", "content">> ELSE <<field, "second">>
        [] type = "Timestamp" -> {[seconds |-> 7, nanos |-> 1]}
        [] type = "map" -> IF style = "rich" THEN [k |-> "v", l |-> "w"] ELSE [k |-> "v"]
        [] type = "Nodes" -> IF style = "rich" THEN <<Paragraph, Picture>> ELSE <<Paragraph>>
        [] type = "EventType" -> IF style = "rich" THEN 2 ELSE 3
        [] type = "EventTypes" -> <<2, 6>>
        [] type = "NotificationKind" -> 1
        [] type = "NotificationKinds" -> <<4, 7>>
        [] type = "NotificationChannels" -> <<4, 1>>
        [] type = "Properties" ->
             IF style = "rich" THEN {[kind |-> "open", feed_kind |-> "feed_kind", position |-> 3]}
             ELSE {[kind |-> "dwell", dwell_ms |-> 9]}
        [] type = "Events" -> <<fields(EventFields)>>
        [] type = "Notifications" -> <<fields(Notification)>>
        [] OTHER -> {fields(Message[type])}

Meant(rpc, style) ==
  LET rule == Service[rpc]
  IN  [f \in DOMAIN rule.fields |-> Sample(rule.fields[f], f, style)]

(* The nodes of these contents, with what is inside them, and their JSON.  *)
Script == <<Element("p", NoAttrs, <<Element("script", NoAttrs, <<>>)>>)>>
Handler == <<TextNode("t"), Element("a", [onclick |-> "u"], <<>>)>>
RECURSIVE Inside(_)
Inside(nodes) ==
  Range(nodes) \union UNION {Inside(n.children) : n \in {n \in Range(nodes) : n.kind = "element"}}
RECURSIVE Nesting(_)
Nesting(n) ==
  IF n.kind # "element" THEN 0 ELSE 1 + Max({0} \union {Nesting(m) : m \in Range(n.children)})
MCContentNodes ==
  LET nodes == {NoKind} \union Inside(<<Paragraph, Picture>> \o Script \o Handler) IN nodes
MCContentDocs == LET docs == {node_to_json[n] : n \in MCContentNodes} IN docs
MCDepth ==
  LET depth == [x \in MCContentNodes \union MCContentDocs |->
                  IF x \in MCContentNodes THEN Nesting(x)
                  ELSE Nesting(CHOOSE n \in MCContentNodes : node_to_json[n] = x)]
  IN  depth

-----------------------------------------------------------------------------
(* HTTP requests.  A name is the RPC, the style of the message, and what   *)
(* is particular: signed by kr; anonymous; signed by kr and then changed   *)
(* in the path, the query or the body; and a few of one route.             *)
Unsigned(rpc, meant) ==
  With(HttpRequest(rpc, meant),
       [extract |-> "ok", auth |-> "none", key |-> kr, algo |-> "ed25519", nonce |-> n1, ts |-> 0,
        sig |-> {}, meant |-> meant])
SignedBy(t, k, n, ts, h) ==
  LET unsigned == [h EXCEPT !.auth = "signed", !.key = k, !.nonce = n, !.ts = ts]
      bytes == The(encode_to_vec(h.meant, MapsOf(RpcOf(h), h.meant)))
  IN  [unsigned EXCEPT !.sig = [by |-> <<t, k>>, over |-> Canonical(SignedRequestParts(unsigned, bytes))]]
SignedRequest(rpc, meant) == SignedBy("system_keys", kr, n1, 0, Unsigned(rpc, meant))

Routed == {r.rpc : r \in Routes}
Changed(rpc) ==
  {"path" : x \in {b \in {Service[rpc].bound} : b # <<>>}}
    \union {"query" : x \in {m \in {Service[rpc].method} : m = "GET" /\ Service[rpc].bound # <<"id">>}}
    \union {"body" : x \in {rpc} \intersect WithBody}

Names ==
  UNION {{<<rpc, style, "signed">>, <<rpc, style, "anonymous">>} : rpc \in Routed, style \in Styles}
    \union {<<rpc, "rich", part>> : rpc \in Routed, part \in {"path", "query", "body"}}
    \union {<<rpc, "plain", "unrouted">> : rpc \in DOMAIN Service \ Routed}
    \union {<<"PublishArticle", "plain", r>> : r \in JsonRejections}
    \union { <<"PublishArticle", "plain", "script">>, <<"PublishArticle", "plain", "onclick">>,
             <<"RedactArticleVersion", "plain", "version">>, <<"GetArticle", "plain", "late">>,
             <<"GetArticle", "plain", "malformed">>, <<"PublishArticle", "plain", "undecodable">>,
             <<"GetArticle", "plain", "undecodable">> }

RequestNamed(n) ==
  LET rpc == n[1]
      meant == Meant(rpc, n[2])
      signed == SignedRequest(rpc, meant)
      text(nodes) == SignedRequest(rpc, [meant EXCEPT !.content = nodes])
  IN  CASE n[3] = "signed" -> signed
        [] n[3] \in {"anonymous", "unrouted"} -> Unsigned(rpc, meant)
        [] n[3] = "path" -> IF signed.params = <<>> THEN signed
                            ELSE [signed EXCEPT !.params[1] = JStr("other")]
        [] n[3] = "query" -> [signed EXCEPT !.query = <<>>]
        [] n[3] = "body" -> [signed EXCEPT !.body = JNull]
        [] n[3] \in JsonRejections -> [signed EXCEPT !.extract = n[3]]
        [] n[3] = "script" -> text(Script)
        [] n[3] = "onclick" -> text(Handler)
        [] n[3] = "version" -> [signed EXCEPT !.params[2] = JStr("latest")]
        [] n[3] = "undecodable" -> [signed EXCEPT !.params[1] = [bytes |-> "FF"]]
        [] n[3] = "late" -> SignedBy("user_keys", ku, n2, 2, Unsigned(rpc, meant))
        [] n[3] = "malformed" -> [Unsigned(rpc, meant) EXCEPT !.auth = "malformed"]

Crossed == {n \in Names : n[3] \in {"signed", "anonymous"}}
HttpTable == [n \in Crossed |-> RequestNamed(n)] @@ [n \in Names \ Crossed |-> RequestNamed(n)]

Sent == {h \in {RequestNamed(n) : n \in Names} : Forwardable(h)}
AllMessages ==
  GrpcMessages \union UNION {{SignedRequestParts(h, bytes) : bytes \in Encodings(h)} : h \in Sent}

-----------------------------------------------------------------------------
(* Rows: per kind, the states that a client should be able to tell apart. *)
T1 == <<1, 0>>
T2 == <<2, 5>>
Account == [id |-> "id", short_name |-> "s", author_name |-> "n", author_url |-> "u",
            status |-> "active", deleted_at |-> {}, created_at |-> T1, updated_at |-> T1]
User == [id |-> "id", display_name |-> "d", status |-> "active", deleted_at |-> {}, created_at |-> T1]
UserKey == [parent_id |-> "u", key_id |-> "k", algo |-> "ed25519", public_key |-> "p",
            status |-> "active", created_at |-> T1, revoked_at |-> {}]
Live == [id |-> "id", account_id |-> "a", state |-> "live", created_at |-> T1, current_version |-> {1},
         title |-> {"t"}, author_name |-> {"n"}, author_url |-> {""}, redacted |-> FALSE,
         published_at |-> {T1}, updated_at |-> {T1}, tombstone_reason |-> {}, tombstoned_at |-> {}]
Gone == [Live EXCEPT !.state = "tombstone", !.current_version = {}, !.title = {}, !.author_name = {},
         !.author_url = {}, !.published_at = {}, !.updated_at = {}, !.tombstone_reason = {"r"},
         !.tombstoned_at = {T2}]
Summaries == {Live, [Live EXCEPT !.redacted = TRUE], [Live EXCEPT !.updated_at = {T2}], Gone,
              [Gone EXCEPT !.tombstone_reason = {}]}
StoredText == nodes_to_json(<<Paragraph>>)
ArticleRow(s) == [summary |-> s, content |-> IF s.state = "live" /\ ~s.redacted THEN {StoredText} ELSE {}]
Draft == [id |-> "id", account_id |-> "a", title |-> "t", author_name |-> "n", author_url |-> "u",
          content |-> StoredText, created_at |-> T1, updated_at |-> T1]
Following == [user_id |-> "u", account_id |-> "a", status |-> "active", created_at |-> T1,
              unfollowed_at |-> {}]
Event(type, properties) ==
  [id |-> "id", user_id |-> "u", article_id |-> {"a"}, type |-> type, occurred_at |-> T1,
   received_at |-> T2, surface |-> "web", properties |-> properties]

Accounts == {Account, [Account EXCEPT !.status = "deleted", !.deleted_at = {T2}]}
Users == {User, [User EXCEPT !.status = "deleted", !.deleted_at = {T2}]}
UserKeys == {UserKey, [UserKey EXCEPT !.status = "revoked", !.revoked_at = {T2}]}
Articles == {ArticleRow(s) : s \in Summaries}
Drafts == {Draft, [Draft EXCEPT !.updated_at = T2]}
Followings == {Following, [Following EXCEPT !.status = "unfollowed", !.unfollowed_at = {T2}]}
Events == { Event("OPEN", JObj([feed_kind |-> JStr("f"), position |-> JNum(3)])),
            Event("IMPRESSION", JObj([feed_kind |-> JStr("f"), position |-> JNum(3)])),
            Event("DWELL", JObj([dwell_ms |-> JNum(9)])), Event("LIKE", JObj(NoAttrs)),
            Event("UNLIKE", JObj(NoAttrs)), Event("SHARE", JObj([target |-> JStr("x")])) }
Pages(rows_) == {[items |-> <<>>, next_page_token |-> ""]}
           \union {[items |-> <<x>>, next_page_token |-> t] : x \in rows_, t \in {"", "next"}}

RowTable == [
  CreateAccount |-> {[account |-> a, key_id |-> "k"] : a \in Accounts}, GetAccount |-> Accounts,
  CreateUser |-> {[user |-> u, key_id |-> "k"] : u \in Users}, GetUser |-> Users,
  UpdateUser |-> {User}, DeleteUser |-> Users, AddUserKey |-> UserKeys, RevokeUserKey |-> UserKeys,
  PublishArticle |-> {ArticleRow(Live)}, GetArticle |-> Articles,
  ListAccountArticles |-> Pages(Summaries), EditArticle |-> {ArticleRow(Live)},
  TombstoneArticle |-> {ArticleRow(s) : s \in Summaries \ {Live}}, RedactArticleVersion |-> {[done |-> TRUE]},
  CreateDraft |-> {Draft}, GetDraft |-> Drafts, UpdateDraft |-> {Draft}, DeleteDraft |-> {[done |-> TRUE]},
  ListAccountDrafts |-> Pages({[f \in {"id", "account_id", "title", "created_at", "updated_at"} |-> d[f]] :
                               d \in Drafts}),
  PublishDraft |-> {ArticleRow(Live)},
  Follow |-> {Following}, Unfollow |-> Followings, GetFollow |-> Followings,
  ListUserFollows |-> Pages(Followings), ListAccountFollowers |-> Pages(Followings),
  ReplaceRecommendationFeed |-> {[stored_count |-> n] : n \in {0, 2}},
  GetRecommendationFeed |-> Pages({[position |-> i, article |-> Live] : i \in 1..2}),
  GetFollowFeed |-> Pages(Summaries), StreamAccountArticles |-> Pages(Summaries),
  RecordEvent |-> Events, RecordEventBatch |-> {[recorded |-> <<e>>, stored_count |-> 1] : e \in Events},
  ListEvents |-> Pages(Events)]

-----------------------------------------------------------------------------
(* Three deliveries of messages to either door that compete for nonces and *)
(* for the store; messages that are odd in some way; two copies of a       *)
(* write; or one of the requests of one route.                             *)
RouteTraffic(rpc) ==
  [grpc |-> {}, limit |-> 1, keys |-> {}, clock |-> 0,
   http |-> {n \in Names : n[1] = rpc /\ n[3] \notin {"path", "query", "body", "late", "malformed"}}
              \union {<<rpc, "rich", part>> : part \in IF rpc \in Routed THEN Changed(rpc) ELSE {}}]
Late == <<"GetArticle", "plain", "late">>
AllTraffics ==
  { [grpc |-> Overlapping, http |-> {Late}, limit |-> 3, keys |-> MCKeys, clock |-> MaxClock],
    [grpc |-> Odd \union {Early}, http |-> {<<"GetArticle", "plain", "malformed">>}, limit |-> 2,
     keys |-> {ku}, clock |-> 1],
    [grpc |-> {}, http |-> {<<"Follow", "plain", "signed">>}, limit |-> 2, keys |-> {},
     clock |-> MaxClock] }
  \union {RouteTraffic(rpc) : rpc \in DOMAIN Service}

(* TLC evaluates each of these tables once; the constants name them.  With *)
(* a LET its coverage statistics do not follow a constant into its table.  *)
MCHttp == LET table == HttpTable IN table
MCMessages == LET messages == AllMessages IN messages
MCRows == LET table == RowTable IN table
MCTraffics == LET traffics == AllTraffics IN traffics

CallSymmetry == Permutations({c1, c2})
=============================================================================
