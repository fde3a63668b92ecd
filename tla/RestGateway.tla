---------------------------- MODULE RestGateway ----------------------------
(***************************************************************************)
(* The REST gateway in front of the services.  A request is matched with a *)
(* route, its body extracted, its message rebuilt from JSON and signed for *)
(* by attach_auth over the encoding of that message; the steps of          *)
(* Authentication follow, then the service, whose answer or status becomes *)
(* the reply.  The public gRPC door stays open beside it: both doors share *)
(* the resolver, the clock and the nonce store.                            *)
(*                                                                         *)
(* The client of a request has a message in mind (`meant`), and signs the  *)
(* encoding of that message made by its own process.                       *)
(*                                                                         *)
(* What a service does is the subject of other modules: here it answers    *)
(* with any of its outcomes, except that content is validated, stored and  *)
(* read back as the article and draft services do.                         *)
(***************************************************************************)
EXTENDS Authentication, RestReplies, Protocol

CONSTANTS
  Http,      \* the requests clients send, by name
  Rows,      \* per RPC the rows and pages a service may end with
  Traffics   \* what happens in a behaviour: gRPC messages, names of HTTP
             \* requests, how many of them arrive, the keys that come and go
             \* meanwhile, and the last clock reading

VARIABLES
  traffic,   \* the traffic of this behaviour
  http,      \* name of the HTTP request a call serves, <<>> for a gRPC call
  answer     \* {}, or the reply and what it was made of

restVars == <<traffic, http, answer>>
gatewayVars == <<vars, restVars>>

Request(c) == Http[http[c]]
Outcome(kind, fault, row) == [kind |-> kind, fault |-> fault, row |-> row]
Answer(outcome, reply, json, effect) ==
  {[outcome |-> outcome, reply |-> reply, json |-> json, effect |-> effect]}

GatewayInit ==
  /\ Init
  /\ traffic \in Traffics
  /\ http = [c \in Calls |-> <<>>]
  /\ answer = [c \in Calls |-> {}]

-----------------------------------------------------------------------------
(* The parts that are signed: the method and the path, the query in its    *)
(* canonical order, and the encoding of the message.                       *)
Encodings(h) == encode_to_vec(Forwarded(h), MapsOf(RpcOf(h), Forwarded(h)))

(* Mutant: the request hash is not among the signed parts. *)
SignedRequestPartsNoHash(h, bytes) ==
  [door |-> "rest", rpc |-> RpcOf(h), auth |-> h.auth, key |-> h.key, algo |-> h.algo,
   nonce |-> h.nonce, ts |-> h.ts, sig |-> h.sig, compressed |-> FALSE,
   body |-> [path |-> <<h.at, h.params>>, query |-> canonicalize_query(h.query)]]

SignedRequestParts(h, bytes) ==
  [door |-> "rest", rpc |-> RpcOf(h), auth |-> h.auth, key |-> h.key, algo |-> h.algo,
   nonce |-> h.nonce, ts |-> h.ts, sig |-> h.sig, compressed |-> FALSE,
   body |-> [path |-> <<h.at, h.params>>, query |-> canonicalize_query(h.query), request |-> bytes]]

-----------------------------------------------------------------------------
(* Clients.  The request the protocol has for the message the client of h  *)
(* means, and whether the holder of the key in table t has signed it: over *)
(* the encoding of the message that its own process made.                  *)
Original(h) == With(h, HttpRequest(RpcOf(h), h.meant))
SignedAsMeant(h, t) ==
  \E bytes \in encode_to_vec(h.meant, MapsOf(RpcOf(h), h.meant)) :
    h.sig = [by |-> <<t, h.key>>, over |-> Canonical(SignedRequestParts(Original(h), bytes))]

(* The extractors, and the version in the path of a redaction.  Path       *)
(* refuses a parameter that is not UTF-8 once it is percent-decoded, and   *)
(* is read before the body (EnvelopeJson); Query decodes any string to     *)
(* pairs of strings and refuses none.                                      *)
PathDecodes(h) == \A i \in DOMAIN h.params : ~Is("bytes", h.params[i])
Extracted(h) ==
  /\ PathDecodes(h)
  /\ RpcOf(h) \in WithBody => h.extract = "ok"
  /\ RpcOf(h) = "RedactArticleVersion" => VersionOf(h) # {}
Forwardable(h) == RoutesAt(h) # {} /\ Extracted(h)

(* The holder of a key signs only what it means, and nobody else can sign  *)
(* with that key; a key UUID belongs to one principal.  A request that is  *)
(* not signed arrives as it was sent.  Messages are finite.                *)
ASSUME ClientsAssumption ==
  \A h \in Range(Http) : Forwardable(h) =>
    LET maps == MapsOf(RpcOf(h), h.meant)
        content == ContentOf(RpcOf(h), h.meant)
    IN  /\ \A t \in Tables :
             h.auth = "signed" /\ h.sig.by = <<t, h.key>> =>
               /\ SignedAsMeant(h, t)
               /\ \A u \in Tables \ {t} : InitRows[u][h.key] = "none" /\ KeyTable[h.key] # u
        /\ h.auth = "none" => h = Original(h)
        /\ MessageIs(RpcOf(h), h.meant)
        /\ \A i \in DOMAIN maps : IsFiniteSet(DOMAIN maps[i])
        /\ \A nodes \in content : nodes \in Seq(ContentNodes) /\ content = {nodes}

(* What may arrive is among the messages. *)
ASSUME TrafficAssumption ==
  /\ \A t \in Traffics : t.grpc \subseteq Messages /\ t.http \subseteq DOMAIN Http /\ t.keys \subseteq Keys
  /\ <<>> \notin DOMAIN Http
  /\ \A h \in Range(Http) : Forwardable(h) =>
       \A bytes \in Encodings(h) : SignedRequestParts(h, bytes) \in Messages

(* A service ends with rows of its tables; what was published or edited is *)
(* live.                                                                   *)
ASSUME RowsAssumption ==
  /\ DOMAIN Rows = {r.rpc : r \in Routes} \ Unimplemented
  /\ \A rpc \in DOMAIN Rows : \A row \in Rows[rpc] :
       /\ RowIs(rpc, row)
       /\ rpc \in {"PublishArticle", "EditArticle"} => row.summary.state = "live"

-----------------------------------------------------------------------------
(* The doors. *)
Free(c) == (http[c] = <<>> \/ answer[c] # {}) /\ arrivals < traffic.limit
Serves(c, n) ==
  /\ http' = [http EXCEPT ![c] = n]
  /\ answer' = [answer EXCEPT ![c] = {}]
  /\ UNCHANGED traffic

GrpcDoor(c) ==
  /\ Free(c)
  /\ \E m \in traffic.grpc : AuthInterceptor(c, m) \/ AuthInterceptorRefuses(c, m)
  /\ Serves(c, <<>>)

(* A request that is answered before its signature is looked at. *)
AnswersAtOnce(c, n, reply) ==
  /\ call[c].pc = "idle" /\ http[c] = <<>>
  /\ http' = [http EXCEPT ![c] = n]
  /\ answer' = [answer EXCEPT ![c] = Answer(Outcome("unread", "", {}), reply, {}, FALSE)]
  /\ UNCHANGED <<vars, traffic>>

(* The router knows the path and not the method, or neither.  Its reply    *)
(* and that of Path have no envelope.                                      *)
NoRoute(c) ==
  \E n \in traffic.http :
    /\ RoutesAt(Http[n]) = {}
    /\ AnswersAtOnce(c, n,
         IF \E r \in Routes : r.at[2] = Http[n].at[2] THEN Reply(405, "none", <<>>)
         ELSE Reply(404, "none", <<>>))

ExtractorRejects(c) ==
  \E n \in traffic.http :
    /\ RoutesAt(Http[n]) # {} /\ ~Extracted(Http[n])
    /\ AnswersAtOnce(c, n,
         IF ~PathDecodes(Http[n]) THEN Reply(400, "none", <<>>)
         ELSE IF Http[n].extract # "ok" THEN FromJsonRejection(Http[n].extract)
         ELSE FromStatus(BareStatus("InvalidArgument")))

RestDoor(c) ==
  /\ Free(c)
  /\ \E n \in traffic.http :
       /\ Forwardable(Http[n])
       /\ \E bytes \in Encodings(Http[n]) : AttachAuth(c, SignedRequestParts(Http[n], bytes))
       /\ Serves(c, n)

-----------------------------------------------------------------------------
(* Replies. *)
Answers(c, a) ==
  /\ http[c] # <<>> /\ answer[c] = {}
  /\ answer' = [answer EXCEPT ![c] = a]
  /\ UNCHANGED <<vars, traffic, http>>

(* auth_err_to_gateway_err; the status of the AuthorizationLayer; a        *)
(* trusted listener that cannot be reached.                                *)
StatusOfVerdict(why) ==
  CASE why = "unavailable" -> BareStatus("Unavailable")
    [] why \in {"no_spec", "not_permitted"} -> BareStatus("PermissionDenied")
    [] OTHER -> BareStatus("Unauthenticated")

RefusalReply(c) ==
  /\ call[c].pc = "refused"
  /\ Answers(c, Answer(Outcome("refused", call[c].verdict, {}),
                       FromStatus(StatusOfVerdict(call[c].verdict)), {}, FALSE))

(* The row an article or a draft service ends with has the content of the  *)
(* message, as it is stored.                                               *)
Stored(rpc, m, row) ==
  LET json == {nodes_to_json(nodes) : nodes \in ContentOf(rpc, m)}
  IN  IF json = {} THEN row
      ELSE [row EXCEPT !.content = IF rpc \in {"CreateDraft", "UpdateDraft"} THEN The(json) ELSE json]

(* Any statement may fail with Internal; content fails for its first bad   *)
(* node, or for its size if nothing else is wrong with it.                 *)
FaultsOf(rpc, m) ==
  IF rpc \in Unimplemented THEN {"NotImplementedInV1"}
  ELSE Faults[rpc] \union {"Internal"}
         \union UNION {ContentErrors(nodes, large) : nodes \in ContentOf(rpc, m), large \in BOOLEAN}
RowsOf(rpc, m) ==
  IF rpc \in Unimplemented \/ \E nodes \in ContentOf(rpc, m) : ContentErrors(nodes, FALSE) # {}
  THEN {} ELSE Rows[rpc]

Outcomes(rpc, m) ==
  {Outcome("error", v, {}) : v \in FaultsOf(rpc, m)}
    \union {Outcome("denied", "", {}) : x \in {rpc} \intersect Denying}
    \union {Outcome("ok", "", {Stored(rpc, m, row)}) : row \in RowsOf(rpc, m)}

ReplyTo(rpc, o) ==
  CASE o.kind = "ok" -> Reply(200, "Ok", <<>>)
    [] o.kind = "denied" -> FromStatus(BareStatus("PermissionDenied"))
    [] o.kind = "error" ->
         FromStatus(Status(DomainError(o.fault, HeadlinesError[o.fault].keys)))
JsonTo(rpc, o) == {OkJson(rpc, row) : row \in o.row}

(* The errors a handler may answer with though a row it wrote is there to  *)
(* stay: those of what runs behind that write.  This is keys.create behind *)
(* the row of a new account or user, the re-read behind UPDATE users,      *)
(* event_to_proto behind the INSERT of events, and articles.get behind the *)
(* transaction of publish, edit and tombstone, whose articles row no       *)
(* service removes; or the answer to a COMMIT that is lost.  All are       *)
(* Internal.  Every other error is that of a check in front of the first   *)
(* write, or leaves a transaction that it rolls back.                      *)
LateFaults(rpc) == IF rpc \in Reads \union Unimplemented THEN {} ELSE {"Internal"}

Effects(rpc, o) ==
  IF rpc \in Reads \union Unimplemented THEN {FALSE}
  ELSE IF o.kind = "ok" THEN {TRUE}
  ELSE IF o.fault \in LateFaults(rpc) THEN BOOLEAN ELSE {FALSE}

ServiceReplies(c) ==
  LET rpc == RpcOf(Request(c))
      m == Forwarded(Request(c))
  IN  /\ call[c].pc = "handled" /\ http[c] # <<>>
      /\ \E o \in Outcomes(rpc, m) : \E effect \in Effects(rpc, o) :
           Answers(c, Answer(o, ReplyTo(rpc, o), JsonTo(rpc, o), effect))

(* The loopback connection breaks while the service works or answers. *)
AnswerLost(c) ==
  /\ call[c].pc = "handled" /\ http[c] # <<>>
  /\ \E code \in {"Unavailable", "Unknown", "Internal", "Cancelled"} :
       \E effect \in IF RpcOf(Request(c)) \in Reads \union Unimplemented THEN {FALSE} ELSE BOOLEAN :
         Answers(c, Answer(Outcome("lost", code, {}), FromStatus(BareStatus(code)), {}, effect))

-----------------------------------------------------------------------------
GatewayRestart ==
  /\ Restart
  /\ http' = [c \in Calls |-> <<>>]
  /\ answer' = [c \in Calls |-> {}]
  /\ UNCHANGED traffic

GatewayNext ==
  \/ \E c \in Calls :
       \/ GrpcDoor(c) \/ NoRoute(c) \/ ExtractorRejects(c) \/ RestDoor(c)
       \/ RefusalReply(c) \/ ServiceReplies(c) \/ AnswerLost(c)
  \/ /\ \/ \E c \in Calls, t \in Tables : SelectActive(c, t) \/ SelectStatus(c, t)
        \/ \E c \in Calls :
             \/ ResolverFails(c) \/ Rejected(c) \/ Validated(c) \/ Record(c)
             \/ TrustedSubject(c) \/ HopFails(c) \/ Authorize(c)
        \/ \E k \in traffic.keys : AddKey(k) \/ \E t \in Tables : RevokeKey(t, k)
        \/ ClockMoves /\ clock' <= traffic.clock
     /\ UNCHANGED restVars
  \/ GatewayRestart

GatewaySpec == GatewayInit /\ [][GatewayNext]_gatewayVars

-----------------------------------------------------------------------------
(* Properties. *)

(* The handler of every route rebuilds, from the path, the query and the   *)
(* JSON body that the protocol has for a message, that message: no field   *)
(* is dropped, defaulted, cut to its width or read from the wrong place.   *)
HandlersRebuild ==
  \A h \in Range(Http) : Forwardable(h) /\ h = Original(h) => Forwarded(h) = h.meant

(* The request is as its client meant it, and is signed so. *)
Genuine(h) == h = Original(h) /\ h.auth = "signed" /\ \E t \in Tables : SignedAsMeant(h, t)

(* A request refused for its signature, though the client signed the       *)
(* message it means and sends that message, has a map of several entries   *)
(* in it: the handlers of all other routes and contents rebuild the        *)
(* message to the byte.                                                    *)
GenuineVerified ==
  \A c \in Calls :
    http[c] # <<>> /\ call[c].verdict = "bad_signature" /\ Genuine(Request(c)) =>
      LET maps == MapsOf(RpcOf(Request(c)), Request(c).meant)
      IN  \E i \in DOMAIN maps : Cardinality(DOMAIN maps[i]) > 1

(* As the documentation has it: a request its client signed correctly is   *)
(* never refused for its signature.                                        *)
GenuineNotRefused ==
  \A c \in Calls :
    http[c] # <<>> /\ call[c].verdict = "bad_signature" => ~Genuine(Request(c))

(* The message a service is handed is the one the client had in mind, for  *)
(* the signer of the request if it is signed: no change of path, query or  *)
(* body on the way gets past the signature, no handler forwards a signed   *)
(* request as an anonymous one, and an unsigned request is read as its     *)
(* client wrote it.                                                        *)
ExecutedAsMeant ==
  \A c \in Calls :
    http[c] # <<>> /\ call[c].pc = "handled" =>
      /\ Forwarded(Request(c)) = Request(c).meant
      /\ Request(c).auth = "signed" => call[c].subject # Anonymous

(* The reply tells the client the outcome: no other outcome of the same    *)
(* request, be it another state of the row or another error, looks alike.  *)
RepliesDistinguish ==
  \A c \in Calls : \A a \in answer[c] :
    a.outcome.kind \in {"ok", "error", "denied"} =>
      LET rpc == RpcOf(Request(c))
      IN  \A o \in Outcomes(rpc, Forwarded(Request(c))) :
            ReplyTo(rpc, o) = a.reply /\ JsonTo(rpc, o) = a.json => o = a.outcome

(* Content comes back as it was sent, through the two conversions of the   *)
(* gateway and the two of the service.                                     *)
ContentSurvives ==
  \A c \in Calls : \A a \in answer[c] :
    a.outcome.kind = "ok" =>
      LET rpc == RpcOf(Request(c))
          shown(j) == IF rpc \in {"CreateDraft", "UpdateDraft"} THEN j.obj["content"]
                      ELSE j.obj["live"].obj["content"]
      IN  \A nodes \in ContentOf(rpc, Request(c).meant), j \in a.json :
            shown(j) = nodes_to_json_array(nodes)

(* A reply that blames the request (4xx, or 501) means that nothing was    *)
(* changed: what may have happened is only ever answered with 5xx.         *)
ErrorMeansNoEffect ==
  \A c \in Calls : \A a \in answer[c] :
    a.reply.http \in 400..499 \union {501} => ~a.effect
=============================================================================
