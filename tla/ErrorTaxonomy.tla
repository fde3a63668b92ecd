---------------------------- MODULE ErrorTaxonomy ----------------------------
(***************************************************************************)
(* What a failure looks like at each hop: the domain error of the services *)
(* (HeadlinesError), the gRPC status it becomes, with one ErrorInfo        *)
(* detail, and the HTTP reply the gateway makes of a status, of a broken   *)
(* connection, or of a body it cannot read.  The message text is left out. *)
(*                                                                         *)
(* A domain error is its variant and the values of its fields, in order.   *)
(***************************************************************************)
EXTENDS Integers, Sequences

Variant(code, reason, keys) == [code |-> code, reason |-> reason, keys |-> keys]

(* code_and_reason and metadata: per variant the code, the reason and the  *)
(* keys its fields have in ErrorInfo.metadata.                             *)
HeadlinesError == [
  AccountNotFound |-> Variant("NotFound", "ACCOUNT_NOT_FOUND", <<"account_id">>),
  UserNotFound |-> Variant("NotFound", "USER_NOT_FOUND", <<"user_id">>),
  ArticleNotFound |-> Variant("NotFound", "ARTICLE_NOT_FOUND", <<"article_id">>),
  DraftNotFound |-> Variant("NotFound", "DRAFT_NOT_FOUND", <<"draft_id">>),
  FollowNotFound |-> Variant("NotFound", "FOLLOW_NOT_FOUND", <<"user_id", "account_id">>),
  KeyNotFound |-> Variant("NotFound", "KEY_NOT_FOUND", <<"key_id">>),
  VersionNotFound |-> Variant("NotFound", "VERSION_NOT_FOUND", <<"article_id", "version">>),
  AccountDeleted |-> Variant("FailedPrecondition", "ACCOUNT_DELETED", <<"account_id">>),
  UserDeleted |-> Variant("FailedPrecondition", "USER_DELETED", <<"user_id">>),
  ArticleTombstoned |-> Variant("FailedPrecondition", "ARTICLE_TOMBSTONED", <<"article_id">>),
  DraftNotPublishable |->
    Variant("FailedPrecondition", "DRAFT_NOT_PUBLISHABLE", <<"draft_id", "reason">>),
  LastActiveKey |-> Variant("FailedPrecondition", "LAST_ACTIVE_KEY", <<>>),
  KeyAlreadyRevoked |-> Variant("AlreadyExists", "KEY_ALREADY_REVOKED", <<"key_id">>),
  VersionAlreadyRedacted |->
    Variant("AlreadyExists", "VERSION_ALREADY_REDACTED", <<"article_id", "version">>),
  InvalidPublicKey |-> Variant("InvalidArgument", "INVALID_PUBLIC_KEY", <<"reason">>),
  UnsupportedAlgorithm |-> Variant("InvalidArgument", "UNSUPPORTED_ALGORITHM", <<"algo">>),
  InvalidNodeTag |-> Variant("InvalidArgument", "INVALID_NODE_TAG", <<"tag">>),
  InvalidNodeAttr |-> Variant("InvalidArgument", "INVALID_NODE_ATTR", <<"tag", "attr">>),
  EmptyUpdateMask |-> Variant("InvalidArgument", "EMPTY_UPDATE_MASK", <<>>),
  UnallowedMaskPath |-> Variant("InvalidArgument", "UNALLOWED_MASK_PATH", <<"path">>),
  DuplicateArticleId |-> Variant("InvalidArgument", "DUPLICATE_ARTICLE_ID", <<"article_id">>),
  InvalidCursor |-> Variant("InvalidArgument", "INVALID_CURSOR", <<"reason">>),
  EventTypeMismatch |-> Variant("InvalidArgument", "EVENT_TYPE_MISMATCH", <<"type", "properties">>),
  EventTimestampOutOfRange |->
    Variant("InvalidArgument", "EVENT_TIMESTAMP_OUT_OF_RANGE", <<"occurred_at">>),
  SelfFollowForbidden |-> Variant("InvalidArgument", "SELF_FOLLOW_FORBIDDEN", <<>>),
  IdempotencyKeyMismatch |->
    Variant("InvalidArgument", "IDEMPOTENCY_KEY_MISMATCH", <<"idempotency_key">>),
  InvalidArgument |-> Variant("InvalidArgument", "INVALID_ARGUMENT", <<"field", "reason">>),
  ContentTooLarge |-> Variant("ResourceExhausted", "CONTENT_TOO_LARGE", <<"actual", "max">>),
  FeedTooLarge |-> Variant("ResourceExhausted", "FEED_TOO_LARGE", <<"actual", "max">>),
  BatchTooLarge |-> Variant("ResourceExhausted", "BATCH_TOO_LARGE", <<"actual", "max">>),
  RegistrationDisabled |-> Variant("PermissionDenied", "REGISTRATION_DISABLED", <<"surface">>),
  UnauthorizedUserId |->
    Variant("PermissionDenied", "UNAUTHORIZED_USER_ID", <<"expected_user_id", "got_user_id">>),
  Unauthenticated |-> Variant("Unauthenticated", "UNAUTHENTICATED", <<"reason">>),
  NotImplementedInV1 |-> Variant("Unimplemented", "NOT_IMPLEMENTED_IN_V1", <<"rpc">>),
  Internal |-> Variant("Internal", "INTERNAL", <<>>)]

DomainError(variant, values) == [variant |-> variant, values |-> values]

(* metadata(): a map, so one value per key. *)
Metadata(e) ==
  LET keys == HeadlinesError[e.variant].keys
  IN  [k \in {keys[i] : i \in DOMAIN keys} |->
         e.values[CHOOSE i \in DOMAIN keys : keys[i] = k]]

(* From<HeadlinesError> for Status, and a status made without it. *)
Status(e) ==
  [code |-> HeadlinesError[e.variant].code,
   details |-> <<[reason |-> HeadlinesError[e.variant].reason, domain |-> "headlines.v1",
                  metadata |-> Metadata(e)]>>]
BareStatus(code) == [code |-> code, details |-> <<>>]

-----------------------------------------------------------------------------
(* The gateway's reply. *)
(* Mutant: what is not in the table is the client's fault. *)
grpc_code_to_http_400(code) ==
  CASE code = "Internal" -> 500 [] code = "Unavailable" -> 503
    [] code = "Unimplemented" -> 501 [] OTHER -> 400

grpc_code_to_http(code) ==
  CASE code = "Ok" -> 200
    [] code \in {"InvalidArgument", "FailedPrecondition"} -> 400
    [] code = "Unauthenticated" -> 401
    [] code = "PermissionDenied" -> 403
    [] code = "NotFound" -> 404
    [] code = "AlreadyExists" -> 409
    [] code = "ResourceExhausted" -> 429
    [] code = "Unimplemented" -> 501
    [] code = "Unavailable" -> 503
    [] OTHER -> 500

Reply(http, code, details) == [http |-> http, code |-> code, details |-> details]

(* decode_status_details and any_to_json_detail: every ErrorInfo in full. *)
DecodedDetails(status) ==
  [i \in DOMAIN status.details |->
     LET info == status.details[i]
     IN  [reason |-> info.reason, domain |-> info.domain,
          metadata |-> [k \in DOMAIN info.metadata |-> info.metadata[k]]]]

(* into_response of a status (a connection that could not be made looks    *)
(* like the status Unavailable), and of a body the extractor refused.      *)
FromStatus(status) ==
  Reply(grpc_code_to_http(status.code), status.code, DecodedDetails(status))

JsonRejections == {"MissingJsonContentType", "JsonDataError", "JsonSyntaxError",
                   "BytesRejection", "other"}
FromJsonRejection(rejection) ==
  CASE rejection = "MissingJsonContentType" -> Reply(415, "InvalidArgument", <<>>)
    [] rejection = "BytesRejection" -> Reply(429, "ResourceExhausted", <<>>)
    [] OTHER -> Reply(400, "InvalidArgument", <<>>)
=============================================================================
