--------------------------- MODULE Authentication ---------------------------
(***************************************************************************)
(* The way of a request from one of the two doors of the server to its     *)
(* handler.  The public gRPC listener wraps the services in                *)
(* AuthInterceptor and AuthorizationLayer.  The REST gateway runs the same *)
(* SignedRequestStrategy (attach_auth) and forwards the subject in a       *)
(* header to a loopback listener wrapped in TrustedSubjectInterceptor and  *)
(* AuthorizationLayer.  The strategy resolves the key in three tables,     *)
(* verifies the signature, validates the timestamp and records the nonce   *)
(* in the in-memory store both doors share.                                *)
(*                                                                         *)
(* Requests run concurrently, the same message may arrive any number of    *)
(* times and in any order, keys are added and revoked meanwhile, the       *)
(* clock moves (backwards too), and a restart empties the store.  One      *)
(* action is one SELECT of the resolver, one read of the clock, one        *)
(* critical section of the store, or one hop.                              *)
(*                                                                         *)
(* Cryptography is symbolic: a signature names the key pair it was made    *)
(* with and the canonical string it was made over.  The clock is the       *)
(* physical part of the time source's reading, max(wall, last issued).     *)
(***************************************************************************)
EXTENDS Integers, FiniteSets, Sequences

CONSTANTS
  Calls,        \* requests running concurrently
  Keys,         \* key UUIDs
  Nonces,
  Algos,        \* names a key or a header may give
  Registered,   \* the names the AlgorithmRegistry has
  Rpcs,         \* paths
  AuthTable,    \* the paths with an auth_requirement, and what it allows
  KeyTable,     \* the table a key is registered in
  RowAlgo,      \* the algo column of each key row
  Scopes,       \* the scopes of the system principal that owns a key
  InitRows,     \* the key rows the server starts with
  Messages,     \* what clients send
  Window,       \* the time source's horizon_ms (auth.time.horizon_seconds)
  Horizon,      \* the nonce store's horizon_ms (30 s, not configured)
  Slack,        \* how far ahead of its clock the time source accepts: 0 for
                \* InProcessTso, the horizon for LocalClock
  Capacity,     \* capacity of the nonce store
  MaxClock,     \* bound: last clock reading
  MaxArrivals   \* bound: messages delivered

Tables == {"account_keys", "user_keys", "system_keys"}
RowStatus == {"none", "active", "revoked"}
Anonymous == [class |-> "anonymous", key |-> {}]
SubjectOf(t, k) ==
  [class |-> CASE t = "account_keys" -> "account" [] t = "user_keys" -> "user"
               [] t = "system_keys" -> "system",
   key |-> {k}]
Subjects == {Anonymous} \union {SubjectOf(t, k) : t \in Tables, k \in Keys}

(* What the client signs: the path of its door, the request and the header. *)
Canonical(m) == [door |-> m.door, rpc |-> m.rpc, body |-> m.body, key |-> m.key,
                 ts |-> m.ts, nonce |-> m.nonce]

ASSUME ConstantsAssumption ==
  /\ Window \in Nat /\ Horizon \in Nat /\ Slack \in Nat /\ Capacity \in Nat \ {0}
  /\ MaxClock \in Nat /\ MaxArrivals \in Nat
  /\ \A m \in Messages : m.ts \in Nat /\ m.key \in Keys /\ m.nonce \in Nonces
  /\ InitRows \in [Tables -> [Keys -> RowStatus]] /\ KeyTable \in [Keys -> Tables]

VARIABLES
  clock,     \* what validate reads
  rows,      \* status of each row of the key tables
  cache,     \* the nonce store
  call,      \* each request's progress
  arrivals,  \* messages delivered so far
  admitted,  \* history: all that this process has put into the store
  peak       \* history: the highest reading of the clock

vars == <<clock, rows, cache, call, arrivals, admitted, peak>>

Entries == [key : Keys, nonce : Nonces, ts : Nat]
PCs == {"idle", "account_keys", "account_status", "user_keys", "user_status",
        "system_keys", "system_status", "decide", "record", "forward",
        "authorize", "handled", "refused"}

(* msg: what arrived.  active, inactive: the tables in which the resolver  *)
(* found the key so.  subject: the extension the layers pass on.  trusted: *)
(* the header of the loopback hop.  verdict: why the call was refused.     *)
(* before: history, the key's rows when the call arrived.                  *)
NoCall == [pc |-> "idle", msg |-> {}, active |-> {}, inactive |-> {},
           subject |-> Anonymous, trusted |-> {}, verdict |-> "none",
           before |-> [t \in Tables |-> "none"]]
Verdicts == {"none", "malformed_header", "body_read_failed", "compressed_frame",
             "resolver", "unknown_key", "revoked", "algo_mismatch", "unsupported_algo",
             "bad_signature", "future_ts", "expired", "replay", "nonce_store_full",
             "unavailable", "no_spec", "not_permitted"}
CallRecords ==
  [pc : PCs, msg : {{}} \union {{m} : m \in Messages}, active : SUBSET Tables,
   inactive : SUBSET Tables, subject : Subjects, trusted : {{}} \union {{s} : s \in Subjects},
   verdict : Verdicts, before : [Tables -> RowStatus]]

AuthTypeOK ==
  /\ clock \in Nat /\ peak \in Nat /\ clock <= peak
  /\ rows \in [Tables -> [Keys -> RowStatus]]
  /\ cache \in SUBSET Entries /\ admitted \in SUBSET Entries
  /\ IsFiniteSet(cache) /\ Cardinality(cache) <= Capacity
  /\ call \in [Calls -> CallRecords]
  /\ arrivals \in Nat

Init ==
  /\ clock = 0 /\ peak = 0
  /\ rows = InitRows
  /\ cache = {} /\ admitted = {}
  /\ call = [c \in Calls |-> NoCall]
  /\ arrivals = 0

Msg(c) == CHOOSE m \in call[c].msg : TRUE

Refuse(c, m, why) ==
  call' = [call EXCEPT ![c] = [NoCall EXCEPT !.msg = {m}, !.pc = "refused", !.verdict = why]]

-----------------------------------------------------------------------------
(* The doors. *)

(* A message without an Authorization header is anonymous; a malformed     *)
(* header is refused before anything else is read.                         *)
Enter(c, m, next, header) ==
  call' = [call EXCEPT ![c] =
    [NoCall EXCEPT !.msg = {m}, !.pc = next, !.trusted = header,
                   !.before = [t \in Tables |-> rows[t][m.key]]]]

Arrives(c) ==
  /\ call[c].pc \in {"idle", "handled", "refused"}
  /\ arrivals < MaxArrivals
  /\ arrivals' = arrivals + 1
  /\ UNCHANGED <<clock, rows, cache, admitted, peak>>

(* AuthInterceptor::call, up to authenticate.  The trusted-subject header  *)
(* is removed first.  A body that cannot be read, and a compressed one,    *)
(* are refused before the strategy sees the request.                       *)
AuthInterceptor(c, m) ==
  /\ Arrives(c) /\ m.door = "grpc"
  /\ \/ m.auth = "none" /\ Enter(c, m, "authorize", {})
     \/ m.auth = "malformed" /\ Refuse(c, m, "malformed_header")
     \/ m.auth = "signed" /\ ~m.compressed /\ Enter(c, m, "account_keys", {})

AuthInterceptorRefuses(c, m) ==
  /\ Arrives(c) /\ m.door = "grpc" /\ m.auth = "signed"
  /\ \E why \in {"body_read_failed", "compressed_frame"} :
       /\ why = "compressed_frame" => m.compressed
       /\ Refuse(c, m, why)

(* attach_auth, up to authenticate.  The outgoing request is a new one:    *)
(* no header of the client is copied into it.                              *)
AttachAuth(c, m) ==
  /\ Arrives(c) /\ m.door = "rest"
  /\ \/ m.auth = "none" /\ Enter(c, m, "forward", {Anonymous})
     \/ m.auth = "malformed" /\ Refuse(c, m, "malformed_header")
     \/ m.auth = "signed" /\ Enter(c, m, "account_keys", {})

-----------------------------------------------------------------------------
(* PostgresKeyResolver::resolve: for each table the active row, and if     *)
(* there is none, the row in whatever status, in autocommit statements.    *)
Probes == [account_keys |-> "account_status", user_keys |-> "user_status",
           system_keys |-> "system_status"]
NextTable == [account_keys |-> "user_keys", user_keys |-> "system_keys",
              system_keys |-> "decide"]

(* Mutant: the filter on the status is missing. *)
SelectActiveAnyStatus(c, t) ==
  /\ call[c].pc = t
  /\ \/ /\ rows[t][Msg(c).key] # "none"
        /\ call' = [call EXCEPT ![c].pc = NextTable[t], ![c].active = @ \union {t}]
     \/ /\ rows[t][Msg(c).key] = "none"
        /\ call' = [call EXCEPT ![c].pc = Probes[t]]
  /\ UNCHANGED <<clock, rows, cache, arrivals, admitted, peak>>

SelectActive(c, t) ==
  /\ call[c].pc = t
  /\ \/ /\ rows[t][Msg(c).key] = "active"
        /\ call' = [call EXCEPT ![c].pc = NextTable[t], ![c].active = @ \union {t}]
     \/ /\ rows[t][Msg(c).key] # "active"
        /\ call' = [call EXCEPT ![c].pc = Probes[t]]
  /\ UNCHANGED <<clock, rows, cache, arrivals, admitted, peak>>

SelectStatus(c, t) ==
  /\ call[c].pc = Probes[t]
  /\ \/ /\ rows[t][Msg(c).key] # "none"
        /\ call' = [call EXCEPT ![c].pc = NextTable[t], ![c].inactive = @ \union {t}]
     \/ /\ rows[t][Msg(c).key] = "none"
        /\ call' = [call EXCEPT ![c].pc = NextTable[t]]
  /\ UNCHANGED <<clock, rows, cache, arrivals, admitted, peak>>

(* No connection, or a statement that fails. *)
ResolverFails(c) ==
  /\ call[c].pc \in Tables \union {Probes[t] : t \in Tables}
  /\ Refuse(c, Msg(c), "resolver")
  /\ UNCHANGED <<clock, rows, cache, arrivals, admitted, peak>>

-----------------------------------------------------------------------------
(* SignedRequestStrategy::authenticate_inner, from the resolver's answer   *)
(* to the validated timestamp: the checks in their order, each with what   *)
(* makes it fail.                                                          *)
Verify(t, m) == m.sig = [by |-> <<t, m.key>>, over |-> Canonical(m)]

Future(m) == m.ts > clock + Slack
Expired(m) == clock - m.ts > Window

Checks(c, m) ==
  LET found == call[c].active
      fails(why, bad) == [why |-> why, bad |-> bad]
  IN  << fails("revoked", found = {} /\ call[c].inactive # {}),
         fails("unknown_key", found = {}),
         fails("resolver", Cardinality(found) > 1),
         fails("algo_mismatch", \E t \in found : m.algo # RowAlgo[t][m.key]),
         fails("unsupported_algo", m.algo \notin Registered),
         fails("bad_signature", \E t \in found : ~Verify(t, m)),
         fails("future_ts", Future(m)),
         fails("expired", Expired(m)) >>

Rejected(c) ==
  /\ call[c].pc = "decide"
  /\ LET checks == Checks(c, Msg(c))
     IN  \E i \in DOMAIN checks :
           /\ checks[i].bad /\ \A j \in 1..(i - 1) : ~checks[j].bad
           /\ Refuse(c, Msg(c), checks[i].why)
  /\ UNCHANGED <<clock, rows, cache, arrivals, admitted, peak>>

Validated(c) ==
  /\ call[c].pc = "decide"
  /\ \A i \in DOMAIN Checks(c, Msg(c)) : ~Checks(c, Msg(c))[i].bad
  /\ call' = [call EXCEPT ![c].pc = "record"]
  /\ UNCHANGED <<clock, rows, cache, arrivals, admitted, peak>>

(* InMemoryNonceStore::record, under its mutex: entries that are expired   *)
(* by the stamp of this request go first; then a known nonce is a replay,  *)
(* and a full store refuses rather than forget a nonce.  Then the subject  *)
(* goes on: into the extensions, or into the header for the loopback hop.  *)
Survivors(ts) == {e \in cache : ts - e.ts <= Horizon}
EntryOf(m) == [key |-> m.key, nonce |-> m.nonce, ts |-> m.ts]

(* Mutant: the store is keyed by the nonce alone. *)
KnownNonce(entries, m) == \E e \in entries : e.nonce = m.nonce

Known(entries, m) == \E e \in entries : e.key = m.key /\ e.nonce = m.nonce

Admit(c, m) ==
  \E t \in call[c].active :
    IF m.door = "grpc"
    THEN call' = [call EXCEPT ![c].pc = "authorize", ![c].subject = SubjectOf(t, m.key)]
    ELSE call' = [call EXCEPT ![c].pc = "forward", ![c].trusted = {SubjectOf(t, m.key)}]

(* Mutant: a full store makes room, as a plain LRU does, before it looks   *)
(* for the nonce.                                                          *)
RecordMakesRoom(c) ==
  LET m == Msg(c)
      alive == Survivors(m.ts)
      oldest == {e \in alive : \A f \in alive : e.ts <= f.ts}
      kept == IF Cardinality(alive) >= Capacity THEN alive \ oldest ELSE alive
  IN  /\ call[c].pc = "record"
      /\ \/ /\ Known(kept, m)
            /\ Refuse(c, m, "replay")
            /\ cache' = kept /\ UNCHANGED admitted
         \/ /\ ~Known(kept, m)
            /\ Admit(c, m)
            /\ cache' = kept \union {EntryOf(m)}
            /\ admitted' = admitted \union {EntryOf(m)}
      /\ UNCHANGED <<clock, rows, arrivals, peak>>

Record(c) ==
  LET m == Msg(c)
      kept == Survivors(m.ts)
  IN  /\ call[c].pc = "record"
      /\ \/ /\ Known(kept, m)
            /\ Refuse(c, m, "replay")
            /\ cache' = kept /\ UNCHANGED admitted
         \/ /\ ~Known(kept, m) /\ Cardinality(kept) >= Capacity
            /\ Refuse(c, m, "nonce_store_full")
            /\ cache' = kept /\ UNCHANGED admitted
         \/ /\ ~Known(kept, m) /\ Cardinality(kept) < Capacity
            /\ Admit(c, m)
            /\ cache' = kept \union {EntryOf(m)}
            /\ admitted' = admitted \union {EntryOf(m)}
      /\ UNCHANGED <<clock, rows, arrivals, peak>>

-----------------------------------------------------------------------------
(* The hop from the gateway to the trusted listener, whose interceptor     *)
(* takes the subject from the header (JSON, which keeps every field).  The *)
(* gateway always sets it.  The loopback channel may fail.                 *)
TrustedSubject(c) ==
  /\ call[c].pc = "forward"
  /\ \E s \in call[c].trusted :
       call' = [call EXCEPT ![c].pc = "authorize", ![c].subject = s, ![c].trusted = {}]
  /\ UNCHANGED <<clock, rows, cache, arrivals, admitted, peak>>

HopFails(c) ==
  /\ call[c].pc = "forward"
  /\ Refuse(c, Msg(c), "unavailable")
  /\ UNCHANGED <<clock, rows, cache, arrivals, admitted, peak>>

(* scope_matches: `*`, the scope itself, or a prefix followed by `.*`.  A  *)
(* scope is the sequence of its dotted segments, <<>> the empty one.       *)
ScopeMatches(granted, target) ==
  \/ granted = <<"*">>
  \/ granted = target
  \/ /\ Len(granted) > 1 /\ granted[Len(granted)] = "*"
     /\ Len(target) >= Len(granted)
     /\ \A i \in 1..(Len(granted) - 1) : target[i] = granted[i]

HasScope(k, scope) ==
  \E granted \in Scopes[k] :
    IF scope = <<>> THEN granted = <<"*">> ELSE ScopeMatches(granted, scope)

(* is_allowed: the class is listed (an account also passes as the owner of *)
(* the resource, which the handler checks), and a system principal has one *)
(* of the scopes, if any is asked for.                                     *)
IsAllowed(s, spec) ==
  /\ CASE s.class = "account" -> spec.allowed \intersect {"account", "account_owns"} # {}
       [] OTHER -> s.class \in spec.allowed
  /\ s.class = "system" =>
       spec.scopes = {} \/ \E k \in s.key, scope \in spec.scopes : HasScope(k, scope)

(* AuthorizationService::call. *)
Authorize(c) ==
  LET rpc == Msg(c).rpc
  IN  /\ call[c].pc = "authorize"
      /\ \/ rpc \notin DOMAIN AuthTable /\ Refuse(c, Msg(c), "no_spec")
         \/ /\ rpc \in DOMAIN AuthTable /\ ~IsAllowed(call[c].subject, AuthTable[rpc])
            /\ Refuse(c, Msg(c), "not_permitted")
         \/ /\ rpc \in DOMAIN AuthTable /\ IsAllowed(call[c].subject, AuthTable[rpc])
            /\ call' = [call EXCEPT ![c].pc = "handled"]
      /\ UNCHANGED <<clock, rows, cache, arrivals, admitted, peak>>

-----------------------------------------------------------------------------
(* The surroundings: keys come and go by the handlers of Principals (a key *)
(* UUID is fresh, so its row is the only one), the clock moves, the server *)
(* restarts with an empty store.                                           *)
AddKey(k) ==
  /\ KeyTable[k] # "system_keys" /\ \A t \in Tables : rows[t][k] = "none"
  /\ rows' = [rows EXCEPT ![KeyTable[k]][k] = "active"]
  /\ UNCHANGED <<clock, cache, call, arrivals, admitted, peak>>

RevokeKey(t, k) ==
  /\ t # "system_keys" /\ rows[t][k] = "active"
  /\ rows' = [rows EXCEPT ![t][k] = "revoked"]
  /\ UNCHANGED <<clock, cache, call, arrivals, admitted, peak>>

ClockMoves ==
  /\ clock' \in 0..MaxClock /\ clock' # clock /\ clock' <= clock + 1
  /\ peak' = IF clock' > peak THEN clock' ELSE peak
  /\ UNCHANGED <<rows, cache, call, arrivals, admitted>>

Restart ==
  /\ cache' = {} /\ admitted' = {}
  /\ call' = [c \in Calls |-> NoCall]
  /\ peak' = clock
  /\ UNCHANGED <<clock, rows, arrivals>>

Next ==
  \/ \E c \in Calls, m \in Messages :
       AuthInterceptor(c, m) \/ AuthInterceptorRefuses(c, m) \/ AttachAuth(c, m)
  \/ \E c \in Calls, t \in Tables : SelectActive(c, t) \/ SelectStatus(c, t)
  \/ \E c \in Calls :
       \/ ResolverFails(c) \/ Rejected(c) \/ Validated(c) \/ Record(c)
       \/ TrustedSubject(c) \/ HopFails(c) \/ Authorize(c)
  \/ \E k \in Keys : AddKey(k) \/ \E t \in Tables : RevokeKey(t, k)
  \/ ClockMoves
  \/ Restart

Spec == Init /\ [][Next]_vars

-----------------------------------------------------------------------------
(* Properties. *)

(* A request that reaches its handler with a subject was signed by that    *)
(* subject's key over this very request, through whichever door it came;   *)
(* the key was active at some moment of the call, and was not active for   *)
(* another principal all along.  A key revoked before a request arrives    *)
(* never lets it in, though the three tables are read at different times.  *)
HandledForSigner ==
  \A c \in Calls :
    call[c].pc = "handled" /\ call[c].subject # Anonymous =>
      LET m == Msg(c)
      IN  \E t \in Tables :
            /\ call[c].subject = SubjectOf(t, m.key)
            /\ m.auth = "signed" /\ Verify(t, m)
            /\ call[c].before[t] # "revoked" /\ rows[t][m.key] # "none"
            /\ \A u \in Tables \ {t} :
                 ~(call[c].before[u] = "active" /\ rows[u][m.key] = "active")

(* In the life of a process a nonce of a key is admitted again only after  *)
(* the clock has read more than the store's horizon past the stamp it was  *)
(* admitted with (less the slack of the time source): copies of a message  *)
(* are refused in between, however they overlap and with a full store too. *)
NonceOncePerHorizon ==
  [][\A c \in Calls, a \in admitted :
       /\ call[c].pc = "record" /\ call'[c].pc \in {"authorize", "forward"}
       /\ a.key = Msg(c).key /\ a.nonce = Msg(c).nonce
       => peak + Slack > a.ts + Horizon]_vars

(* A request is refused as a replay only if a message that its key really  *)
(* signed has used the nonce before: what fails verification leaves no     *)
(* trace that could shut out the genuine request.                          *)
ReplayJustified ==
  \A c \in Calls :
    call[c].verdict = "replay" =>
      \E m \in Messages, t \in Tables :
        /\ m.auth = "signed" /\ Verify(t, m)
        /\ m.key = Msg(c).key /\ m.nonce = Msg(c).nonce
        /\ EntryOf(m) \in admitted
=============================================================================
