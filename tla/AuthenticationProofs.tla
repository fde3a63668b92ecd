------------------------ MODULE AuthenticationProofs ------------------------
(***************************************************************************)
(* Proofs about Authentication and about the REST gateway in front of it,  *)
(* for any messages, keys, calls, horizons and capacity, any HTTP requests *)
(* and any rows.                                                           *)
(*                                                                         *)
(* Authentication.  The inductive invariants: AuthInv, about the nonce     *)
(* store and the clock; SignerInv, about what a call knows of its key at   *)
(* each stage; and ReplayInv, about what stands behind a verdict of replay.*)
(*                                                                         *)
(* The gateway.  Every step of it is a step of Authentication or leaves    *)
(* its state alone (GatewayImplementsAuthentication), so that what is      *)
(* proved of Authentication holds behind the gateway too.  GatewayInv says *)
(* which HTTP request each call serves and that its message is that        *)
(* request, signed; AnswersMade, how each reply came about.  Below them    *)
(* are lemmas about the operators of RestWire, RestRoutes and RestReplies: *)
(* what a converter writes is read back, by induction on the depth of the  *)
(* content; every handler rebuilds the message that a client wrote to its  *)
(* path, query and body, field by field (HandlersRebuildCorrect); and two  *)
(* rows that differ are shown differently.                                 *)
(***************************************************************************)
EXTENDS RestGateway, FiniteSetTheorems, WellFoundedInduction, TLAPS

\* Every call under way has a message.
HasMsg == \A c \in Calls : call[c].pc # "idle" => \E m \in Messages : call[c].msg = {m}

\* What was admitted is still in the store or beyond the horizon.
Remembered == \A a \in admitted : a \in cache \/ peak + Slack > a.ts + Horizon

\* A validated stamp is not ahead of the highest reading of the clock.
Stamped ==
  \A c \in Calls, m \in Messages :
    call[c].pc = "record" /\ call[c].msg = {m} => m.ts <= peak + Slack

AuthInv == AuthTypeOK /\ HasMsg /\ Remembered /\ Stamped

\* Msg names the message of a call that has one.
LEMMA MsgIs ==
  ASSUME NEW c \in Calls, NEW m \in Messages, call[c].msg = {m}
  PROVE  Msg(c) = m
BY DEF Msg

\* The record of a call after it enters, is refused or moves on.
LEMMA EnterTyped ==
  ASSUME AuthTypeOK, NEW c \in Calls, NEW m \in Messages, NEW next \in PCs,
         NEW header, header = {} \/ header = {Anonymous}, Enter(c, m, next, header)
  PROVE  /\ call' \in [Calls -> CallRecords]
         /\ call'[c].msg = {m} /\ call'[c].pc = next
         /\ \A d \in Calls \ {c} : call'[d] = call[d]
<1> DEFINE r == [NoCall EXCEPT !.msg = {m}, !.pc = next, !.trusted = header,
                   !.before = [t \in Tables |-> rows[t][m.key]]]
<1>1. [t \in Tables |-> rows[t][m.key]] \in [Tables -> RowStatus]
  BY ConstantsAssumption DEF AuthTypeOK
<1>2. Anonymous \in Subjects
  BY DEF Subjects
<1>3. r \in CallRecords /\ r.msg = {m} /\ r.pc = next
  BY <1>1, <1>2 DEF CallRecords, NoCall, Verdicts
<1>4. call' = [call EXCEPT ![c] = r]
  BY DEF Enter
<1> QED  BY <1>3, <1>4 DEF AuthTypeOK

\* The same of a call that is refused.
LEMMA RefuseTyped ==
  ASSUME AuthTypeOK, NEW c \in Calls, NEW m \in Messages, NEW why \in Verdicts,
         Refuse(c, m, why)
  PROVE  /\ call' \in [Calls -> CallRecords]
         /\ call'[c].msg = {m} /\ call'[c].pc = "refused"
         /\ \A d \in Calls \ {c} : call'[d] = call[d]
<1> DEFINE r == [NoCall EXCEPT !.msg = {m}, !.pc = "refused", !.verdict = why]
<1>1. [t \in Tables |-> "none"] \in [Tables -> RowStatus]
  BY DEF RowStatus
<1>2. Anonymous \in Subjects
  BY DEF Subjects
<1>3. r \in CallRecords /\ r.msg = {m} /\ r.pc = "refused"
  BY <1>1, <1>2 DEF CallRecords, NoCall, PCs
<1>4. call' = [call EXCEPT ![c] = r]
  BY DEF Refuse
<1> QED  BY <1>3, <1>4 DEF AuthTypeOK

\* A call keeps its message and its typed record through a stage.
Moved(c) ==
  /\ call' \in [Calls -> CallRecords]
  /\ call'[c].msg = call[c].msg /\ call'[c].pc # "idle"
  /\ \A d \in Calls \ {c} : call'[d] = call[d]

\* A call that goes on with its message moves alone.
LEMMA SetRecord ==
  ASSUME AuthTypeOK, NEW c \in Calls, NEW r \in CallRecords, r.msg = call[c].msg,
         r.pc # "idle", call' = [call EXCEPT ![c] = r]
  PROVE  Moved(c)
BY DEF AuthTypeOK, Moved

\* The stages of the resolver, table by table.
LEMMA ResolverStages ==
  /\ Probes["account_keys"] = "account_status" /\ NextTable["account_keys"] = "user_keys"
  /\ Probes["user_keys"] = "user_status" /\ NextTable["user_keys"] = "system_keys"
  /\ Probes["system_keys"] = "system_status" /\ NextTable["system_keys"] = "decide"
BY DEF Probes, NextTable

\* What each stage of a call does to it.
LEMMA CallMoves ==
  ASSUME AuthTypeOK, HasMsg, NEW c \in Calls,
         \/ \E t \in Tables : SelectActive(c, t) \/ SelectStatus(c, t)
         \/ ResolverFails(c) \/ Rejected(c) \/ Validated(c) \/ Record(c)
         \/ TrustedSubject(c) \/ HopFails(c) \/ Authorize(c)
  PROVE  Moved(c)
<1>1. call[c].pc # "idle"
  BY ResolverStages DEF SelectActive, SelectStatus, ResolverFails, Rejected, Validated,
         Record, TrustedSubject, HopFails, Authorize, Tables
<1>2. PICK m \in Messages : call[c].msg = {m}
  BY <1>1 DEF HasMsg
<1>3. Msg(c) = m
  BY <1>2, MsgIs
<1>4. call[c] \in CallRecords /\ call \in [Calls -> CallRecords]
  BY DEF AuthTypeOK
<1>5. ASSUME NEW why \in Verdicts, Refuse(c, m, why)  PROVE Moved(c)
  BY <1>2, <1>5, RefuseTyped DEF Moved
<1>6. CASE \E t \in Tables : SelectActive(c, t)
  <2>1. PICK t \in Tables : SelectActive(c, t)
    BY <1>6
  <2>2. NextTable[t] \in PCs \ {"idle"} /\ Probes[t] \in PCs \ {"idle"}
    BY ResolverStages DEF PCs, Tables
  <2> DEFINE r == [call[c] EXCEPT !.pc = NextTable[t], !.active = @ \union {t}]
             q == [call[c] EXCEPT !.pc = Probes[t]]
  <2>3. /\ r \in CallRecords /\ r.msg = call[c].msg /\ r.pc # "idle"
        /\ q \in CallRecords /\ q.msg = call[c].msg /\ q.pc # "idle"
    BY <1>4, <2>2 DEF CallRecords
  <2>4. call' = [call EXCEPT ![c] = r] \/ call' = [call EXCEPT ![c] = q]
    BY <1>4, <2>1 DEF SelectActive
  <2> QED  BY <2>3, <2>4, SetRecord
<1>7. CASE \E t \in Tables : SelectStatus(c, t)
  <2>1. PICK t \in Tables : SelectStatus(c, t)
    BY <1>7
  <2>2. NextTable[t] \in PCs \ {"idle"}
    BY ResolverStages DEF PCs, Tables
  <2> DEFINE r == [call[c] EXCEPT !.pc = NextTable[t], !.inactive = @ \union {t}]
             q == [call[c] EXCEPT !.pc = NextTable[t]]
  <2>3. /\ r \in CallRecords /\ r.msg = call[c].msg /\ r.pc # "idle"
        /\ q \in CallRecords /\ q.msg = call[c].msg /\ q.pc # "idle"
    BY <1>4, <2>2 DEF CallRecords
  <2>4. call' = [call EXCEPT ![c] = r] \/ call' = [call EXCEPT ![c] = q]
    BY <1>4, <2>1 DEF SelectStatus
  <2> QED  BY <2>3, <2>4, SetRecord
<1>8. CASE ResolverFails(c)
  BY <1>3, <1>5, <1>8 DEF ResolverFails, Verdicts
<1>9. CASE Rejected(c)
  <2>1. PICK i \in DOMAIN Checks(c, m) : Refuse(c, m, Checks(c, m)[i].why)
    BY <1>3, <1>9 DEF Rejected
  <2>2. Checks(c, m)[i].why \in Verdicts
    BY DEF Checks, Verdicts
  <2> QED  BY <1>5, <2>1, <2>2
<1>10. CASE Validated(c)
  BY <1>4, <1>10 DEF Validated, Moved, CallRecords, PCs
<1>11. CASE Record(c)
  <2>1. CASE Refuse(c, m, "replay") \/ Refuse(c, m, "nonce_store_full")
    BY <1>5, <2>1 DEF Verdicts
  <2>2. CASE Admit(c, m)
    <3>1. PICK t \in Tables :
            \/ call' = [call EXCEPT ![c].pc = "authorize", ![c].subject = SubjectOf(t, m.key)]
            \/ call' = [call EXCEPT ![c].pc = "forward", ![c].trusted = {SubjectOf(t, m.key)}]
      BY <1>4, <2>2 DEF Admit, CallRecords
    <3>2. SubjectOf(t, m.key) \in Subjects
      BY ConstantsAssumption DEF Subjects
    <3> DEFINE r == [call[c] EXCEPT !.pc = "authorize", !.subject = SubjectOf(t, m.key)]
               q == [call[c] EXCEPT !.pc = "forward", !.trusted = {SubjectOf(t, m.key)}]
    <3>3. r \in CallRecords /\ r.msg = call[c].msg /\ r.pc # "idle"
      BY <1>4, <3>2 DEF CallRecords, PCs
    <3>4. q \in CallRecords /\ q.msg = call[c].msg /\ q.pc # "idle"
      BY <1>4, <3>2 DEF CallRecords, PCs
    <3>5. call' = [call EXCEPT ![c] = r] \/ call' = [call EXCEPT ![c] = q]
      BY <1>4, <3>1
    <3> QED  BY <3>3, <3>4, <3>5, SetRecord
  <2> QED  BY <1>3, <1>11, <2>1, <2>2 DEF Record
<1>12. CASE TrustedSubject(c)
  <2>1. PICK s \in call[c].trusted :
          call' = [call EXCEPT ![c].pc = "authorize", ![c].subject = s, ![c].trusted = {}]
    BY <1>12 DEF TrustedSubject
  <2>2. s \in Subjects
    BY <1>4 DEF CallRecords
  <2> QED  BY <1>4, <2>1, <2>2 DEF Moved, CallRecords, PCs
<1>13. CASE HopFails(c)
  BY <1>3, <1>5, <1>13 DEF HopFails, Verdicts
<1>14. CASE Authorize(c)
  <2>1. CASE Refuse(c, m, "no_spec") \/ Refuse(c, m, "not_permitted")
    BY <1>5, <2>1 DEF Verdicts
  <2>2. CASE call' = [call EXCEPT ![c].pc = "handled"]
    BY <1>4, <2>2 DEF Moved, CallRecords, PCs
  <2> QED  BY <1>3, <1>14, <2>1, <2>2 DEF Authorize
<1> QED  BY <1>6, <1>7, <1>8, <1>9, <1>10, <1>11, <1>12, <1>13, <1>14

\* The stages of a call, and its arrival.
CallStage(c) ==
  \/ \E t \in Tables : SelectActive(c, t) \/ SelectStatus(c, t)
  \/ ResolverFails(c) \/ Rejected(c) \/ Validated(c) \/ Record(c)
  \/ TrustedSubject(c) \/ HopFails(c) \/ Authorize(c)

Arrival(c, m) == AuthInterceptor(c, m) \/ AuthInterceptorRefuses(c, m) \/ AttachAuth(c, m)

\* An arrival replaces the record of its call.
LEMMA ArrivalMoves ==
  ASSUME AuthTypeOK, NEW c \in Calls, NEW m \in Messages, Arrival(c, m)
  PROVE  /\ call' \in [Calls -> CallRecords]
         /\ call'[c].msg = {m}
         /\ call'[c].pc \in {"account_keys", "authorize", "forward", "refused"}
         /\ \A d \in Calls \ {c} : call'[d] = call[d]
<1>1. ASSUME NEW why \in Verdicts, Refuse(c, m, why)
      PROVE  /\ call' \in [Calls -> CallRecords]
             /\ call'[c].msg = {m} /\ call'[c].pc = "refused"
             /\ \A d \in Calls \ {c} : call'[d] = call[d]
  BY <1>1, RefuseTyped
<1>2. ASSUME NEW next \in {"account_keys", "authorize", "forward"}, NEW header,
             header = {} \/ header = {Anonymous}, Enter(c, m, next, header)
      PROVE  /\ call' \in [Calls -> CallRecords]
             /\ call'[c].msg = {m} /\ call'[c].pc = next
             /\ \A d \in Calls \ {c} : call'[d] = call[d]
  BY <1>2, EnterTyped DEF PCs
<1>3. CASE AuthInterceptor(c, m)
  BY <1>1, <1>2, <1>3 DEF AuthInterceptor, Verdicts
<1>4. CASE AuthInterceptorRefuses(c, m)
  BY <1>1, <1>4 DEF AuthInterceptorRefuses, Verdicts
<1>5. CASE AttachAuth(c, m)
  BY <1>1, <1>2, <1>5 DEF AttachAuth, Verdicts
<1> QED  BY <1>3, <1>4, <1>5 DEF Arrival

\* What the nonce store holds after a call's record.
LEMMA StoreAfterRecord ==
  ASSUME AuthTypeOK, HasMsg, NEW c \in Calls, Record(c)
  PROVE  /\ cache' \in SUBSET Entries /\ admitted' \in SUBSET Entries
         /\ IsFiniteSet(cache') /\ Cardinality(cache') <= Capacity
<1>1. PICK m \in Messages : call[c].msg = {m}
  BY DEF HasMsg, Record
<1>2. Msg(c) = m
  BY <1>1, MsgIs
<1> DEFINE kept == Survivors(m.ts)
<1>3. kept \in SUBSET cache
  BY DEF Survivors
<1>4. /\ IsFiniteSet(kept) /\ Cardinality(kept) \in Nat /\ Cardinality(kept) <= Capacity
      /\ Cardinality(cache) \in Nat /\ Capacity \in Nat
  BY <1>3, FS_Subset, FS_CardinalityType, ConstantsAssumption DEF AuthTypeOK
<1>5. EntryOf(m) \in Entries
  BY ConstantsAssumption DEF EntryOf, Entries
<1>6. CASE cache' = kept /\ UNCHANGED admitted
  BY <1>3, <1>4, <1>6 DEF AuthTypeOK
<1>7. CASE /\ Cardinality(kept) < Capacity
           /\ cache' = kept \union {EntryOf(m)} /\ admitted' = admitted \union {EntryOf(m)}
  <2>1. IsFiniteSet(cache') /\ Cardinality(cache') <= Cardinality(kept) + 1
    BY <1>4, <1>7, FS_AddElement
  <2>2. Cardinality(cache') \in Nat
    BY <2>1, FS_CardinalityType
  <2> QED  BY <1>3, <1>4, <1>5, <1>7, <2>1, <2>2 DEF AuthTypeOK
<1> QED  BY <1>2, <1>6, <1>7 DEF Record

\* An idle call is well typed.
LEMMA NoCallTyped == NoCall \in CallRecords /\ NoCall.pc = "idle"
<1>1. [t \in Tables |-> "none"] \in [Tables -> RowStatus]
  BY DEF RowStatus
<1> QED  BY <1>1 DEF NoCall, CallRecords, PCs, Verdicts, Subjects

\* One step keeps the types and the messages of the calls.
LEMMA TypeStep ==
  ASSUME AuthTypeOK, HasMsg, [Next]_vars
  PROVE  AuthTypeOK' /\ HasMsg'
<1>1. ASSUME NEW c \in Calls, NEW m \in Messages, Arrival(c, m)
      PROVE  AuthTypeOK' /\ HasMsg'
  <2>1. UNCHANGED <<clock, rows, cache, admitted, peak>> /\ arrivals' = arrivals + 1
    BY <1>1 DEF Arrival, AuthInterceptor, AuthInterceptorRefuses, AttachAuth, Arrives
  <2> QED  BY <1>1, <2>1, ArrivalMoves DEF AuthTypeOK, HasMsg
<1>2. ASSUME NEW c \in Calls, CallStage(c)  PROVE AuthTypeOK' /\ HasMsg'
  <2>1. Moved(c)
    BY <1>2, CallMoves DEF CallStage
  <2>2. UNCHANGED <<clock, rows, arrivals, peak>>
    BY <1>2 DEF CallStage, SelectActive, SelectStatus, ResolverFails, Rejected, Validated,
                Record, TrustedSubject, HopFails, Authorize
  <2>3. UNCHANGED <<cache, admitted>> \/ Record(c)
    BY <1>2 DEF CallStage, SelectActive, SelectStatus, ResolverFails, Rejected, Validated,
                TrustedSubject, HopFails, Authorize
  <2>4. /\ cache' \in SUBSET Entries /\ admitted' \in SUBSET Entries
        /\ IsFiniteSet(cache') /\ Cardinality(cache') <= Capacity
    BY <2>3, StoreAfterRecord DEF AuthTypeOK
  <2>5. AuthTypeOK'
    BY <2>1, <2>2, <2>4 DEF AuthTypeOK, Moved
  <2>6. call[c].pc # "idle"
    BY <1>2, ResolverStages DEF CallStage, SelectActive, SelectStatus, ResolverFails, Rejected,
         Validated, Record, TrustedSubject, HopFails, Authorize, Tables
  <2> QED  BY <2>1, <2>5, <2>6 DEF HasMsg, Moved
<1>3. ASSUME NEW k \in Keys, AddKey(k) \/ \E t \in Tables : RevokeKey(t, k)
      PROVE  AuthTypeOK' /\ HasMsg'
  <2>1. PICK t \in Tables, s \in RowStatus : rows' = [rows EXCEPT ![t][k] = s]
    BY <1>3, ConstantsAssumption DEF AddKey, RevokeKey, RowStatus
  <2>2. rows' = [rows EXCEPT ![t] = [rows[t] EXCEPT ![k] = s]]
    BY <2>1
  <2>3. rows \in [Tables -> [Keys -> RowStatus]] /\ [rows[t] EXCEPT ![k] = s] \in [Keys -> RowStatus]
    BY DEF AuthTypeOK
  <2>4. rows' \in [Tables -> [Keys -> RowStatus]]
    BY <2>2, <2>3
  <2> QED  BY <1>3, <2>4 DEF AuthTypeOK, HasMsg, AddKey, RevokeKey
<1>4. CASE ClockMoves
  <2>1. clock \in Nat /\ peak \in Nat /\ clock <= peak
    BY DEF AuthTypeOK
  <2>2. clock' \in Nat /\ peak' = IF clock' > peak THEN clock' ELSE peak
    BY <1>4, ConstantsAssumption DEF ClockMoves
  <2>3. clock' \in Nat /\ peak' \in Nat /\ clock' <= peak'
    BY <2>1, <2>2
  <2>4. UNCHANGED <<rows, cache, call, arrivals, admitted>>
    BY <1>4 DEF ClockMoves
  <2>5. HasMsg'
    BY <2>4 DEF HasMsg
  <2> QED  BY <2>3, <2>4, <2>5 DEF AuthTypeOK
<1>5. CASE Restart
  <2>2. IsFiniteSet({}) /\ Cardinality({}) = 0
    BY FS_EmptySet
  <2>3. call' \in [Calls -> CallRecords] /\ \A c \in Calls : call'[c].pc = "idle"
    BY <1>5, NoCallTyped DEF Restart
  <2> QED  BY <1>5, <2>2, <2>3, ConstantsAssumption DEF AuthTypeOK, HasMsg, Restart
<1>6. CASE UNCHANGED vars
  BY <1>6 DEF AuthTypeOK, HasMsg, vars
<1> QED  BY <1>1, <1>2, <1>3, <1>4, <1>5, <1>6 DEF Next, CallStage, Arrival

\* The initial states.
LEMMA AuthInit ==
  ASSUME Init
  PROVE  AuthInv
<1>1. IsFiniteSet({}) /\ Cardinality({}) = 0
  BY FS_EmptySet
<1> QED  BY <1>1, NoCallTyped, ConstantsAssumption
         DEF Init, AuthInv, AuthTypeOK, HasMsg, Remembered, Stamped

\* A call that is not at the store is not let in by a step.
LEMMA OnlyRecordAdmits ==
  ASSUME AuthInv, [Next]_vars, NEW c \in Calls,
         call[c].pc = "record", call'[c].pc \in {"authorize", "forward"}
  PROVE  Record(c)
<1>1. ASSUME NEW d \in Calls, NEW m \in Messages, Arrival(d, m)  PROVE FALSE
  <2>1. call[d].pc # "record"
    BY <1>1 DEF Arrival, AuthInterceptor, AuthInterceptorRefuses, AttachAuth, Arrives
  <2> QED  BY <1>1, <2>1, ArrivalMoves DEF AuthInv
<1>2. ASSUME NEW d \in Calls, CallStage(d), ~Record(c)  PROVE FALSE
  <2>1. Moved(d)
    BY <1>2, CallMoves DEF CallStage, AuthInv
  <2>2. d = c
    BY <2>1 DEF Moved
  <2> QED  BY <1>2, <2>2, ResolverStages
           DEF CallStage, SelectActive, SelectStatus, ResolverFails, Rejected, Validated,
               TrustedSubject, HopFails, Authorize, Tables
<1>3. ASSUME NEW k \in Keys, AddKey(k) \/ \E t \in Tables : RevokeKey(t, k)  PROVE FALSE
  BY <1>3 DEF AddKey, RevokeKey
<1>4. CASE Restart
  BY <1>4, NoCallTyped DEF Restart
<1> QED  BY <1>1, <1>2, <1>3, <1>4 DEF Next, CallStage, Arrival, ClockMoves, vars

\* A call that has just been validated came from the strategy's check.
LEMMA OnlyValidatedRecords ==
  ASSUME AuthInv, [Next]_vars, NEW c \in Calls,
         call[c].pc # "record", call'[c].pc = "record"
  PROVE  Validated(c)
<1>1. ASSUME NEW d \in Calls, NEW m \in Messages, Arrival(d, m)  PROVE FALSE
  BY <1>1, ArrivalMoves DEF AuthInv
<1>2. ASSUME NEW d \in Calls, CallStage(d), ~Validated(c)  PROVE FALSE
  <2>1. Moved(d)
    BY <1>2, CallMoves DEF CallStage, AuthInv
  <2>2. d = c
    BY <2>1 DEF Moved
  <2>3. call \in [Calls -> CallRecords] /\ call[c] \in CallRecords
    BY DEF AuthInv, AuthTypeOK
  <2>4. ASSUME NEW m, NEW why, Refuse(c, m, why)  PROVE FALSE
    BY <2>3, <2>4 DEF Refuse, NoCall
  <2>5. \A t \in Tables : ~SelectActive(c, t) /\ ~SelectStatus(c, t)
    BY <2>3, ResolverStages DEF SelectActive, SelectStatus, Tables, CallRecords
  <2>6. ~Record(c)
    BY DEF Record
  <2>7. ~ResolverFails(c) /\ ~HopFails(c) /\ ~Rejected(c)
    BY <2>4 DEF ResolverFails, HopFails, Rejected
  <2>8. ~TrustedSubject(c)
    <3>1. ASSUME NEW s, call' = [call EXCEPT ![c].pc = "authorize", ![c].subject = s, ![c].trusted = {}]
          PROVE FALSE
      <4>1. call'[c].pc = "authorize"
        BY <2>3, <3>1 DEF CallRecords
      <4> QED  BY <4>1
    <3> QED  BY <3>1 DEF TrustedSubject
  <2>9. call' # [call EXCEPT ![c].pc = "handled"]
    BY <2>3 DEF CallRecords
  <2>10. ~Authorize(c)
    BY <2>4, <2>9 DEF Authorize
  <2> QED  BY <1>2, <2>2, <2>5, <2>6, <2>7, <2>8, <2>10 DEF CallStage
<1>3. ASSUME NEW k \in Keys, AddKey(k) \/ \E t \in Tables : RevokeKey(t, k)  PROVE FALSE
  BY <1>3 DEF AddKey, RevokeKey
<1>4. CASE Restart
  BY <1>4, NoCallTyped DEF Restart
<1> QED  BY <1>1, <1>2, <1>3, <1>4 DEF Next, CallStage, Arrival, ClockMoves, vars

\* One step keeps what was admitted within reach of the store or the clock.
LEMMA RememberedStep ==
  ASSUME AuthInv, [Next]_vars
  PROVE  Remembered'
<1>1. Slack \in Nat /\ Horizon \in Nat /\ peak \in Nat /\ admitted \in SUBSET Entries
      /\ cache \in SUBSET Entries
  BY ConstantsAssumption DEF AuthInv, AuthTypeOK
<1>2. CASE \E c \in Calls : Record(c)
  <2>1. PICK c \in Calls : Record(c)
    BY <1>2
  <2>2. PICK m \in Messages : call[c].msg = {m}
    BY <2>1 DEF AuthInv, HasMsg, Record
  <2>3. Msg(c) = m /\ m.ts \in Nat
    BY <2>2, MsgIs, ConstantsAssumption
  <2>4. m.ts <= peak + Slack
    BY <2>1, <2>2 DEF AuthInv, Stamped, Record
  <2>5. ASSUME NEW a \in admitted  PROVE a \in Survivors(m.ts) \/ peak + Slack > a.ts + Horizon
    <3>1. a.ts \in Nat
      BY <1>1 DEF Entries
    <3>2. CASE a \in cache
      BY <1>1, <2>3, <2>4, <3>1, <3>2 DEF Survivors
    <3> QED  BY <3>2 DEF AuthInv, Remembered
  <2>6. /\ peak' = peak
        /\ \/ cache' = Survivors(m.ts) /\ admitted' = admitted
           \/ /\ cache' = Survivors(m.ts) \union {EntryOf(m)}
              /\ admitted' = admitted \union {EntryOf(m)}
    BY <2>1, <2>3 DEF Record
  <2> QED  BY <2>5, <2>6 DEF Remembered
<1>3. CASE ClockMoves
  <2>1. peak' \in Nat /\ peak' >= peak /\ UNCHANGED <<cache, admitted>>
    BY <1>1, <1>3, ConstantsAssumption DEF ClockMoves, AuthInv, AuthTypeOK
  <2>2. \A a \in admitted : a.ts \in Nat
    BY <1>1 DEF Entries
  <2> QED  BY <1>1, <2>1, <2>2 DEF AuthInv, Remembered
<1>4. CASE Restart
  BY <1>4 DEF Restart, Remembered
<1>5. CASE UNCHANGED <<cache, admitted, peak>>
  BY <1>5 DEF AuthInv, Remembered
<1> QED
  BY <1>2, <1>3, <1>4, <1>5
  DEF Next, vars, AuthInterceptor, AuthInterceptorRefuses, AttachAuth, Arrives, SelectActive,
      SelectStatus, ResolverFails, Rejected, Validated, TrustedSubject, HopFails, Authorize,
      AddKey, RevokeKey

\* One step keeps the validated stamps behind the clock.
LEMMA StampedStep ==
  ASSUME AuthInv, [Next]_vars
  PROVE  Stamped'
<1>1. SUFFICES ASSUME NEW c \in Calls, NEW m \in Messages,
                      call'[c].pc = "record", call'[c].msg = {m}
               PROVE  m.ts <= peak' + Slack
  BY DEF Stamped
<1>2. m.ts \in Nat /\ Slack \in Nat /\ clock \in Nat /\ peak \in Nat /\ clock <= peak
  BY ConstantsAssumption DEF AuthInv, AuthTypeOK
<1>3. CASE call[c].pc # "record"
  <2>1. Validated(c)
    BY <1>1, <1>3, OnlyValidatedRecords
  <2>2. call[c].msg = {m} /\ peak' = peak
    BY <1>1, <2>1, CallMoves DEF Moved, AuthInv, Validated
  <2>3. Msg(c) = m
    BY <2>2, MsgIs
  <2>4. ~Checks(c, m)[7].bad
    <3>1. 7 \in DOMAIN Checks(c, m)
      BY DEF Checks
    <3> QED  BY <2>1, <2>3, <3>1 DEF Validated
  <2>5. ~Future(m)
    BY <2>4 DEF Checks
  <2> QED  BY <1>2, <2>2, <2>5 DEF Future
<1>4. CASE call[c].pc = "record"
  <2>1. ~Restart
    BY <1>1, NoCallTyped DEF Restart
  <2>2. peak' \in Nat /\ peak' >= peak
    <3>1. CASE ClockMoves
      BY <1>2, <3>1, ConstantsAssumption DEF ClockMoves
    <3>2. CASE ~ClockMoves
      <4>1. peak' = peak
        BY <2>1, <3>2
        DEF Next, vars, AuthInterceptor, AuthInterceptorRefuses, AttachAuth, Arrives,
            SelectActive, SelectStatus, ResolverFails, Rejected, Validated, Record,
            TrustedSubject, HopFails, Authorize, AddKey, RevokeKey
      <4> QED  BY <1>2, <4>1
    <3> QED  BY <3>1, <3>2
  <2>3. call[c].msg = {m}
    <3>1. ASSUME NEW d \in Calls, NEW n \in Messages, Arrival(d, n)  PROVE d # c
      BY <1>4, <3>1 DEF Arrival, AuthInterceptor, AuthInterceptorRefuses, AttachAuth, Arrives
    <3>2. ASSUME NEW d \in Calls, NEW n \in Messages, Arrival(d, n)  PROVE call'[c] = call[c]
      BY <3>1, <3>2, ArrivalMoves DEF AuthInv
    <3>3. ASSUME NEW d \in Calls, CallStage(d)  PROVE call'[c].msg = call[c].msg
      BY <3>3, CallMoves DEF CallStage, Moved, AuthInv
    <3> QED  BY <1>1, <2>1, <3>2, <3>3
             DEF Next, CallStage, Arrival, AddKey, RevokeKey, ClockMoves, vars
  <2>4. m.ts <= peak + Slack
    BY <1>4, <2>3 DEF AuthInv, Stamped
  <2> QED  BY <1>2, <2>2, <2>4
<1> QED  BY <1>3, <1>4

\* Every step keeps the nonce store and the history in agreement.
LEMMA AuthStep ==
  ASSUME AuthInv, [Next]_vars
  PROVE  AuthInv'
BY TypeStep, RememberedStep, StampedStep DEF AuthInv

\* Every state of the pipeline is well typed, and the store never exceeds
\* its capacity.
THEOREM AuthTypeCorrect == Spec => []AuthTypeOK
<1>1. AuthInv => AuthTypeOK
  BY DEF AuthInv
<1> QED  BY <1>1, AuthInit, AuthStep, PTL DEF Spec

\* In the life of a process no nonce of a key is admitted twice before the
\* clock has passed its stamp by the store's horizon, for any messages,
\* capacity, horizons and clock.
THEOREM NonceOnceCorrect == Spec => NonceOncePerHorizon
<1> DEFINE Again(c, a) ==
      /\ call[c].pc = "record" /\ call'[c].pc \in {"authorize", "forward"}
      /\ a.key = Msg(c).key /\ a.nonce = Msg(c).nonce
<1>1. ASSUME AuthInv, [Next]_vars
      PROVE  [\A c \in Calls, a \in admitted :
                Again(c, a) => peak + Slack > a.ts + Horizon]_vars
  <2>1. SUFFICES ASSUME NEW c \in Calls, NEW a \in admitted, Again(c, a)
                 PROVE  peak + Slack > a.ts + Horizon
    BY <1>1
  <2>2. Record(c)
    BY <1>1, <2>1, OnlyRecordAdmits
  <2>3. PICK m \in Messages : call[c].msg = {m}
    BY <1>1, <2>2 DEF AuthInv, HasMsg, Record
  <2>4. Msg(c) = m /\ m.ts \in Nat
    BY <2>3, MsgIs, ConstantsAssumption
  <2>5. ~Known(Survivors(m.ts), m)
    <3>1. ASSUME NEW why, Refuse(c, m, why)  PROVE FALSE
      BY <1>1, <2>1, <3>1 DEF Refuse, NoCall, AuthInv, AuthTypeOK
    <3> QED  BY <2>2, <2>4, <3>1 DEF Record
  <2>6. a \notin Survivors(m.ts)
    BY <2>1, <2>4, <2>5 DEF Known
  <2>7. CASE a \in cache
    <3>1. ~(m.ts - a.ts <= Horizon)
      BY <2>6, <2>7 DEF Survivors
    <3>2. m.ts <= peak + Slack
      BY <1>1, <2>2, <2>3 DEF AuthInv, Stamped, Record
    <3>3. a.ts \in Nat /\ Horizon \in Nat /\ Slack \in Nat /\ peak \in Nat
      BY <1>1, ConstantsAssumption DEF AuthInv, AuthTypeOK, Entries
    <3> QED  BY <2>4, <3>1, <3>2, <3>3
  <2> QED  BY <1>1, <2>7 DEF AuthInv, Remembered
<1> QED  BY <1>1, AuthInit, AuthStep, PTL DEF Spec, NonceOncePerHorizon

-----------------------------------------------------------------------------
(* Handlers run for the signer.  A row only goes from none to active to    *)
(* revoked, so what the resolver read of it bounds what it was and is.     *)

Resolving == {"account_keys", "account_status", "user_keys", "user_status",
              "system_keys", "system_status", "decide", "record"}

\* The tables whose active row has been looked for at a stage.
Passed(pc) ==
  {t \in Tables :
     \/ t = "account_keys" /\ pc # "account_keys"
     \/ t = "user_keys" /\ pc \notin {"account_keys", "account_status", "user_keys"}
     \/ t = "system_keys" /\ pc \in {"system_status", "decide", "record"}}

RowsGrow(c, m) ==
  \A t \in Tables :
    /\ call[c].before[t] = "revoked" => rows[t][m.key] = "revoked"
    /\ call[c].before[t] = "active" => rows[t][m.key] # "none"

KeySeen(c, m, t) == call[c].before[t] # "revoked" /\ rows[t][m.key] # "none"

NotAllAlong(c, m, u) == ~(call[c].before[u] = "active" /\ rows[u][m.key] = "active")

Rightful(c, m, s) ==
  \/ s = Anonymous
  \/ \E t \in Tables :
       /\ s = SubjectOf(t, m.key)
       /\ m.auth = "signed" /\ Verify(t, m)
       /\ KeySeen(c, m, t)
       /\ \A u \in Tables \ {t} : NotAllAlong(c, m, u)

Stage(c, m) ==
  /\ RowsGrow(c, m)
  /\ call[c].pc \in Resolving =>
       /\ m.auth = "signed"
       /\ \A t \in call[c].active : KeySeen(c, m, t)
       /\ \A u \in Passed(call[c].pc) \ call[c].active : NotAllAlong(c, m, u)
  /\ call[c].pc = "record" => \E t \in Tables : call[c].active = {t} /\ Verify(t, m)
  /\ call[c].pc = "forward" => \A s \in call[c].trusted : Rightful(c, m, s)
  /\ call[c].pc \in {"authorize", "handled"} => Rightful(c, m, call[c].subject)

SignerInv ==
  \A c \in Calls, m \in Messages :
    call[c].msg = {m} /\ call[c].pc \notin {"idle", "refused"} => Stage(c, m)

\* A call whose record and rows stay has the same stage.
LEMMA StageKept ==
  ASSUME NEW c \in Calls, NEW m \in Messages, Stage(c, m), call'[c] = call[c], rows' = rows
  PROVE  Stage(c, m)'
BY DEF Stage, RowsGrow, KeySeen, NotAllAlong, Rightful, Passed, Resolving

\* So has one whose rows move on.
LEMMA StageOutlivesRows ==
  ASSUME AuthTypeOK, NEW c \in Calls, NEW m \in Messages, Stage(c, m), call' = call,
         NEW k \in Keys, AddKey(k) \/ \E t \in Tables : RevokeKey(t, k)
  PROVE  Stage(c, m)'
<1>1. m.key \in Keys
  BY ConstantsAssumption
<1>2. \A t \in Tables :
        \/ rows'[t][m.key] = rows[t][m.key]
        \/ rows[t][m.key] = "none" /\ rows'[t][m.key] = "active"
        \/ rows[t][m.key] = "active" /\ rows'[t][m.key] = "revoked"
  <2>1. CASE AddKey(k)
    BY <1>1, <2>1, ConstantsAssumption DEF AddKey, AuthTypeOK
  <2>2. CASE \E t \in Tables : RevokeKey(t, k)
    BY <1>1, <2>2 DEF RevokeKey, AuthTypeOK
  <2> QED  BY <2>1, <2>2
<1>3. \A t \in Tables : rows[t][m.key] \in RowStatus
  BY <1>1 DEF AuthTypeOK
<1>4. RowsGrow(c, m)' /\ RowsGrow(c, m)
  BY <1>2, <1>3 DEF Stage, RowsGrow, RowStatus
<1>5. \A t \in Tables : KeySeen(c, m, t) => KeySeen(c, m, t)'
  BY <1>2, <1>3 DEF KeySeen, RowStatus
<1>6. \A u \in Tables : NotAllAlong(c, m, u) => NotAllAlong(c, m, u)'
  BY <1>2, <1>3, <1>4 DEF NotAllAlong, RowsGrow, RowStatus
<1>7. \A s : Rightful(c, m, s) => Rightful(c, m, s)'
  BY <1>5, <1>6 DEF Rightful, Verify
<1>8. call[c].active \in SUBSET Tables
  BY DEF AuthTypeOK, CallRecords
<1> QED  BY <1>4, <1>5, <1>6, <1>7, <1>8 DEF Stage, Passed

\* A call that arrives.
LEMMA StageArrives ==
  ASSUME AuthTypeOK, NEW c \in Calls, NEW m \in Messages, Arrival(c, m),
         call'[c].pc # "refused"
  PROVE  Stage(c, m)'
<1>1. rows' = rows
  BY DEF Arrival, AuthInterceptor, AuthInterceptorRefuses, AttachAuth, Arrives
<1>2. ASSUME NEW why, Refuse(c, m, why)  PROVE FALSE
  BY <1>2 DEF Refuse, NoCall, AuthTypeOK
<1>3. PICK next, header :
        /\ Enter(c, m, next, header)
        /\ \/ next = "account_keys" /\ m.auth = "signed"
           \/ next = "authorize"
           \/ next = "forward" /\ header = {Anonymous}
  BY <1>2 DEF Arrival, AuthInterceptor, AuthInterceptorRefuses, AttachAuth
<1>4. /\ call'[c].pc = next /\ call'[c].active = {} /\ call'[c].subject = Anonymous
      /\ call'[c].trusted = header
      /\ call'[c].before = [t \in Tables |-> rows[t][m.key]]
  BY <1>3 DEF Enter, NoCall, AuthTypeOK
<1>5. \A t \in Tables : call'[c].before[t] = rows'[t][m.key]
  BY <1>1, <1>4
<1>6. RowsGrow(c, m)'
  BY <1>5 DEF RowsGrow
<1>7. CASE next = "account_keys" /\ m.auth = "signed"
  <2>1. Passed("account_keys") = {}
    BY DEF Passed
  <2> QED  BY <1>4, <1>6, <1>7, <2>1 DEF Stage
<1>8. CASE next = "authorize"
  BY <1>4, <1>6, <1>8 DEF Stage, Rightful, Resolving
<1>9. CASE next = "forward" /\ header = {Anonymous}
  BY <1>4, <1>6, <1>9 DEF Stage, Rightful, Resolving
<1> QED  BY <1>3, <1>7, <1>8, <1>9

\* What a resolving stage asks for.
LEMMA ResolvingStage ==
  ASSUME NEW c \in Calls, NEW m \in Messages, RowsGrow(c, m)', m.auth = "signed",
         call'[c].pc \in Resolving \ {"record"},
         \A t \in call'[c].active : KeySeen(c, m, t)',
         \A u \in Passed(call'[c].pc) \ call'[c].active : NotAllAlong(c, m, u)'
  PROVE  Stage(c, m)'
<1>1. /\ call'[c].pc # "record" /\ call'[c].pc # "forward" /\ call'[c].pc # "authorize"
      /\ call'[c].pc # "handled"
  BY DEF Resolving
<1> QED  BY <1>1 DEF Stage, Passed

\* A call that looks for its key in one table.
LEMMA StageResolves ==
  ASSUME AuthTypeOK, NEW c \in Calls, NEW m \in Messages, call[c].msg = {m}, Stage(c, m),
         NEW t \in Tables, SelectActive(c, t) \/ SelectStatus(c, t)
  PROVE  Stage(c, m)'
<1>1. Msg(c) = m /\ m.key \in Keys
  BY MsgIs, ConstantsAssumption
<1>2. call \in [Calls -> CallRecords] /\ call[c] \in CallRecords /\ call[c].active \in SUBSET Tables
  BY DEF AuthTypeOK, CallRecords
<1>3. rows' = rows
  BY DEF SelectActive, SelectStatus
<1>4. \A u \in Tables : rows[u][m.key] \in RowStatus
  BY <1>1 DEF AuthTypeOK
<1>5. call'[c].before = call[c].before
  BY <1>2 DEF SelectActive, SelectStatus, CallRecords
<1>6. RowsGrow(c, m) /\ RowsGrow(c, m)'
  BY <1>3, <1>5 DEF Stage, RowsGrow
<1>7. /\ \A u \in Tables : KeySeen(c, m, u)' <=> KeySeen(c, m, u)
      /\ \A u \in Tables : NotAllAlong(c, m, u)' <=> NotAllAlong(c, m, u)
  BY <1>3, <1>5 DEF KeySeen, NotAllAlong
<1>8. /\ m.auth = "signed" /\ \A u \in call[c].active : KeySeen(c, m, u)
      /\ \A u \in Passed(call[c].pc) \ call[c].active : NotAllAlong(c, m, u)
  BY ResolverStages DEF Stage, Resolving, SelectActive, SelectStatus, Tables
<1>9. /\ Passed(NextTable[t]) = Passed(t) \union {t}
      /\ Passed(Probes[t]) = Passed(t) \union {t}
  BY ResolverStages DEF Passed, Tables
<1>10. NextTable[t] \in Resolving \ {"record"} /\ Probes[t] \in Resolving \ {"record"}
  BY ResolverStages DEF Resolving, Tables
<1>11. CASE /\ rows[t][m.key] = "active" /\ call[c].pc = t
            /\ call' = [call EXCEPT ![c].pc = NextTable[t], ![c].active = @ \union {t}]
  <2>1. call'[c].pc = NextTable[t] /\ call'[c].active = call[c].active \union {t}
    BY <1>2, <1>11 DEF CallRecords
  <2>2. KeySeen(c, m, t)
    BY <1>6, <1>11 DEF KeySeen, RowsGrow
  <2>3. \A u \in call'[c].active : KeySeen(c, m, u)'
    BY <1>2, <1>7, <1>8, <2>1, <2>2
  <2>4. \A u \in Passed(call'[c].pc) \ call'[c].active : NotAllAlong(c, m, u)'
    BY <1>7, <1>8, <1>9, <1>11, <2>1 DEF Passed
  <2> QED  BY <1>6, <1>8, <1>10, <2>1, <2>3, <2>4, ResolvingStage
<1>12. CASE /\ rows[t][m.key] # "active" /\ call[c].pc = t
            /\ call' = [call EXCEPT ![c].pc = Probes[t]]
  <2>1. call'[c].pc = Probes[t] /\ call'[c].active = call[c].active
    BY <1>2, <1>12 DEF CallRecords
  <2>2. NotAllAlong(c, m, t)
    BY <1>12 DEF NotAllAlong
  <2>3. \A u \in call'[c].active : KeySeen(c, m, u)'
    BY <1>2, <1>7, <1>8, <2>1
  <2>4. \A u \in Passed(call'[c].pc) \ call'[c].active : NotAllAlong(c, m, u)'
    BY <1>7, <1>8, <1>9, <1>12, <2>1, <2>2 DEF Passed
  <2> QED  BY <1>6, <1>8, <1>10, <2>1, <2>3, <2>4, ResolvingStage
<1>13. CASE SelectStatus(c, t)
  <2>1. call'[c].pc = NextTable[t] /\ call'[c].active = call[c].active
    BY <1>2, <1>13 DEF SelectStatus, CallRecords
  <2>2. call[c].pc = Probes[t]
    BY <1>13 DEF SelectStatus
  <2>3. \A u \in call'[c].active : KeySeen(c, m, u)'
    BY <1>2, <1>7, <1>8, <2>1
  <2>4. Passed(call'[c].pc) = Passed(call[c].pc) /\ Passed(call[c].pc) \subseteq Tables
    BY <1>9, <2>1, <2>2 DEF Passed
  <2>5. \A u \in Passed(call'[c].pc) \ call'[c].active : NotAllAlong(c, m, u)'
    BY <1>7, <1>8, <2>1, <2>4
  <2> QED  BY <1>6, <1>8, <1>10, <2>1, <2>3, <2>5, ResolvingStage
<1> QED  BY <1>1, <1>11, <1>12, <1>13 DEF SelectActive

\* A call whose checks pass.
LEMMA StageValidates ==
  ASSUME AuthTypeOK, NEW c \in Calls, NEW m \in Messages, call[c].msg = {m}, Stage(c, m),
         Validated(c)
  PROVE  Stage(c, m)'
<1>1. Msg(c) = m
  BY MsgIs
<1>2. call \in [Calls -> CallRecords] /\ call[c] \in CallRecords /\ call[c].active \in SUBSET Tables
  BY DEF AuthTypeOK, CallRecords
<1>3. /\ rows' = rows /\ call[c].pc = "decide" /\ call'[c].pc = "record"
      /\ call'[c].before = call[c].before /\ call'[c].active = call[c].active
  BY <1>2 DEF Validated, CallRecords
<1>4. DOMAIN Checks(c, m) = 1..8
  BY DEF Checks
<1>5. ~Checks(c, m)[2].bad /\ ~Checks(c, m)[3].bad /\ ~Checks(c, m)[6].bad
  BY <1>1, <1>4 DEF Validated
<1>6. /\ call[c].active # {} /\ ~(Cardinality(call[c].active) > 1)
      /\ \A t \in call[c].active : Verify(t, m)
  BY <1>5 DEF Checks
<1>7. PICK t \in Tables : call[c].active = {t}
  <2>1. IsFiniteSet(Tables)
    <3>1. Tables = (({} \union {"account_keys"}) \union {"user_keys"}) \union {"system_keys"}
      BY DEF Tables
    <3> QED  BY <3>1, FS_EmptySet, FS_AddElement
  <2>2. IsFiniteSet(call[c].active) /\ Cardinality(call[c].active) \in Nat
    BY <1>2, <2>1, FS_Subset, FS_CardinalityType
  <2>3. Cardinality(call[c].active) # 0
    BY <1>6, <2>2, FS_EmptySet
  <2>4. Cardinality(call[c].active) = 1
    BY <1>6, <2>2, <2>3
  <2>5. PICK t : call[c].active = {t}
    BY <2>2, <2>4, FS_Singleton
  <2> QED  BY <1>2, <2>5
<1>8. RowsGrow(c, m)'
  BY <1>3 DEF Stage, RowsGrow
<1>9. /\ m.auth = "signed" /\ \A u \in call[c].active : KeySeen(c, m, u)
      /\ \A u \in Passed("decide") \ call[c].active : NotAllAlong(c, m, u)
  BY <1>3 DEF Stage, Resolving
<1>10. Passed("record") = Passed("decide")
  BY DEF Passed
<1>11. /\ \A u \in call[c].active : KeySeen(c, m, u)'
       /\ \A u \in Passed("record") \ call[c].active : NotAllAlong(c, m, u)'
  BY <1>3, <1>9, <1>10 DEF KeySeen, NotAllAlong
<1>12. call'[c].active = {t} /\ Verify(t, m)'
  BY <1>3, <1>6, <1>7 DEF Verify
<1> QED  BY <1>3, <1>8, <1>9, <1>11, <1>12 DEF Stage

\* A call that the nonce store lets in, one that crosses the hop and one
\* that is authorized.
LEMMA StageGoesOn ==
  ASSUME AuthTypeOK, NEW c \in Calls, NEW m \in Messages, call[c].msg = {m}, Stage(c, m),
         Record(c) \/ TrustedSubject(c) \/ Authorize(c), call'[c].pc # "refused"
  PROVE  Stage(c, m)'
<1>1. Msg(c) = m
  BY MsgIs
<1>2. call \in [Calls -> CallRecords] /\ call[c] \in CallRecords
  BY DEF AuthTypeOK
<1>3. rows' = rows
  BY DEF Record, TrustedSubject, Authorize
<1>4. ASSUME NEW why, Refuse(c, m, why)  PROVE FALSE
  BY <1>2, <1>4 DEF Refuse, NoCall
<1>5. ASSUME call'[c].before = call[c].before
      PROVE  RowsGrow(c, m)' /\ \A s : Rightful(c, m, s) => Rightful(c, m, s)'
  <2>1. RowsGrow(c, m)'
    BY <1>3, <1>5 DEF Stage, RowsGrow
  <2>2. \A t \in Tables : /\ KeySeen(c, m, t) => KeySeen(c, m, t)'
                          /\ NotAllAlong(c, m, t) => NotAllAlong(c, m, t)'
    BY <1>3, <1>5 DEF KeySeen, NotAllAlong
  <2> QED  BY <2>1, <2>2 DEF Rightful, Verify
<1>6. CASE Record(c)
  <2>1. Admit(c, m) /\ call[c].pc = "record"
    BY <1>1, <1>4, <1>6 DEF Record
  <2>2. PICK t \in Tables : call[c].active = {t} /\ Verify(t, m)
    BY <2>1 DEF Stage
  <2>3. Passed("record") = Tables
    BY DEF Passed, Tables
  <2>4. Rightful(c, m, SubjectOf(t, m.key))
    BY <2>1, <2>2, <2>3 DEF Stage, Resolving, Rightful
  <2>5. CASE call' = [call EXCEPT ![c].pc = "authorize", ![c].subject = SubjectOf(t, m.key)]
    <3>1. /\ call'[c].pc = "authorize" /\ call'[c].subject = SubjectOf(t, m.key)
          /\ call'[c].before = call[c].before
      BY <1>2, <2>5 DEF CallRecords
    <3> QED  BY <1>5, <2>4, <3>1 DEF Stage, Resolving
  <2>6. CASE call' = [call EXCEPT ![c].pc = "forward", ![c].trusted = {SubjectOf(t, m.key)}]
    <3>1. /\ call'[c].pc = "forward" /\ call'[c].trusted = {SubjectOf(t, m.key)}
          /\ call'[c].before = call[c].before
      BY <1>2, <2>6 DEF CallRecords
    <3> QED  BY <1>5, <2>4, <3>1 DEF Stage, Resolving
  <2> QED  BY <2>1, <2>2, <2>5, <2>6 DEF Admit
<1>7. CASE TrustedSubject(c)
  <2>1. PICK s \in call[c].trusted :
          call' = [call EXCEPT ![c].pc = "authorize", ![c].subject = s, ![c].trusted = {}]
    BY <1>7 DEF TrustedSubject
  <2>2. Rightful(c, m, s)
    BY <1>7 DEF Stage, TrustedSubject
  <2>3. /\ call'[c].pc = "authorize" /\ call'[c].subject = s
        /\ call'[c].before = call[c].before
    BY <1>2, <2>1 DEF CallRecords
  <2> QED  BY <1>5, <2>2, <2>3 DEF Stage, Resolving
<1>8. CASE Authorize(c)
  <2>1. call' = [call EXCEPT ![c].pc = "handled"] /\ call[c].pc = "authorize"
    BY <1>1, <1>4, <1>8 DEF Authorize
  <2>2. /\ call'[c].pc = "handled" /\ call'[c].subject = call[c].subject
        /\ call'[c].before = call[c].before
    BY <1>2, <2>1 DEF CallRecords
  <2>3. Rightful(c, m, call[c].subject)
    BY <2>1 DEF Stage
  <2> QED  BY <1>5, <2>2, <2>3 DEF Stage, Resolving
<1> QED  BY <1>6, <1>7, <1>8

\* Every step keeps what a call knows of its signer.
LEMMA SignerStep ==
  ASSUME AuthInv, SignerInv, [Next]_vars
  PROVE  SignerInv'
<1>1. SUFFICES ASSUME NEW c \in Calls, NEW m \in Messages, call'[c].msg = {m},
                      call'[c].pc \notin {"idle", "refused"}
               PROVE  Stage(c, m)'
  BY DEF SignerInv
<1>2. AuthTypeOK /\ HasMsg
  BY DEF AuthInv
<1>3. ASSUME call'[c] = call[c], rows' = rows  PROVE Stage(c, m)'
  BY <1>1, <1>3, StageKept DEF SignerInv
<1>4. ASSUME NEW d \in Calls, NEW n \in Messages, Arrival(d, n)  PROVE Stage(c, m)'
  <2>1. rows' = rows
    BY <1>4 DEF Arrival, AuthInterceptor, AuthInterceptorRefuses, AttachAuth, Arrives
  <2>2. CASE d = c
    BY <1>1, <1>2, <1>4, <2>2, ArrivalMoves, StageArrives
  <2>3. CASE d # c
    BY <1>2, <1>3, <1>4, <2>1, <2>3, ArrivalMoves
  <2> QED  BY <2>2, <2>3
<1>5. ASSUME NEW d \in Calls, CallStage(d)  PROVE Stage(c, m)'
  <2>1. Moved(d)
    BY <1>2, <1>5, CallMoves DEF CallStage
  <2>2. rows' = rows
    BY <1>5 DEF CallStage, SelectActive, SelectStatus, ResolverFails, Rejected, Validated,
                Record, TrustedSubject, HopFails, Authorize
  <2>3. CASE d # c
    BY <1>3, <2>1, <2>2, <2>3 DEF Moved
  <2>4. CASE d = c
    <3>1. call[c].msg = {m}
      BY <1>1, <2>1, <2>4 DEF Moved
    <3>2. call[c].pc \notin {"idle", "refused"}
      BY <1>5, <2>4, ResolverStages DEF CallStage, SelectActive, SelectStatus, ResolverFails,
           Rejected, Validated, Record, TrustedSubject, HopFails, Authorize, Tables
    <3>3. Stage(c, m)
      BY <3>1, <3>2 DEF SignerInv
    <3>4. ASSUME NEW n, NEW why, Refuse(c, n, why)  PROVE FALSE
      BY <1>1, <1>2, <3>4 DEF Refuse, NoCall, AuthTypeOK
    <3>5. ~ResolverFails(c) /\ ~HopFails(c) /\ ~Rejected(c)
      BY <3>4 DEF ResolverFails, HopFails, Rejected
    <3> QED  BY <1>1, <1>2, <1>5, <2>4, <3>1, <3>3, <3>5, StageResolves, StageValidates,
               StageGoesOn DEF CallStage
  <2> QED  BY <2>3, <2>4
<1>6. ASSUME NEW k \in Keys, AddKey(k) \/ \E t \in Tables : RevokeKey(t, k)
      PROVE  Stage(c, m)'
  <2>1. call' = call
    BY <1>6 DEF AddKey, RevokeKey
  <2>2. Stage(c, m)
    BY <1>1, <2>1 DEF SignerInv
  <2> QED  BY <1>2, <1>6, <2>1, <2>2, StageOutlivesRows
<1>7. ~Restart
  BY <1>1, NoCallTyped DEF Restart
<1>8. CASE ClockMoves \/ UNCHANGED vars
  BY <1>3, <1>8 DEF ClockMoves, vars
<1> QED  BY <1>4, <1>5, <1>6, <1>7, <1>8 DEF Next, CallStage, Arrival

\* No handler runs for a subject that did not sign the request with a key
\* active during the call, for any messages and any changes of the keys.
THEOREM HandledForSignerCorrect == Spec => []HandledForSigner
<1>1. Init => SignerInv
  BY NoCallTyped DEF Init, SignerInv
<1>2. ASSUME AuthInv, SignerInv  PROVE HandledForSigner
  <2>1. SUFFICES ASSUME NEW c \in Calls, call[c].pc = "handled", call[c].subject # Anonymous
                 PROVE  \E t \in Tables :
                          /\ call[c].subject = SubjectOf(t, Msg(c).key)
                          /\ Msg(c).auth = "signed" /\ Verify(t, Msg(c))
                          /\ call[c].before[t] # "revoked" /\ rows[t][Msg(c).key] # "none"
                          /\ \A u \in Tables \ {t} :
                               ~(call[c].before[u] = "active" /\ rows[u][Msg(c).key] = "active")
    BY DEF HandledForSigner
  <2>2. PICK m \in Messages : call[c].msg = {m}
    BY <1>2, <2>1 DEF AuthInv, HasMsg
  <2>3. Msg(c) = m
    BY <2>2, MsgIs
  <2>4. Rightful(c, m, call[c].subject)
    BY <1>2, <2>1, <2>2 DEF SignerInv, Stage
  <2> QED  BY <2>1, <2>3, <2>4 DEF Rightful, KeySeen, NotAllAlong
<1> QED  BY <1>1, <1>2, AuthInit, AuthStep, SignerStep, PTL DEF Spec
-----------------------------------------------------------------------------
(* What is in the nonce store was signed.  A call reaches the store with a *)
(* verified message (SignerInv), and only the store refuses a replay.      *)

Vouched(e) == \E m \in Messages, t \in Tables :
                m.auth = "signed" /\ Verify(t, m) /\ EntryOf(m) = e

ReplayInv ==
  /\ cache \subseteq admitted
  /\ \A e \in admitted : Vouched(e)
  /\ \A c \in Calls : call[c].verdict = "replay" =>
       \E m \in Messages : call[c].msg = {m} /\ Known(admitted, m)

\* What a step does to the store and to what was admitted.
LEMMA StoreMoves ==
  ASSUME AuthInv, SignerInv, ReplayInv, [Next]_vars
  PROVE  /\ Restart \/ admitted \subseteq admitted'
         /\ cache' \subseteq admitted'
         /\ \A e \in admitted' : Vouched(e)
<1>1. ASSUME NEW c \in Calls, Record(c)
      PROVE  /\ admitted \subseteq admitted' /\ cache' \subseteq admitted'
             /\ \A e \in admitted' : Vouched(e)
  <2>1. PICK m \in Messages : call[c].msg = {m} /\ call[c].pc = "record"
    BY <1>1 DEF AuthInv, HasMsg, Record
  <2>2. Msg(c) = m
    BY <2>1, MsgIs
  <2>3. Vouched(EntryOf(m))
    BY <2>1 DEF SignerInv, Stage, Resolving, Vouched
  <2>4. \/ cache' = Survivors(m.ts) /\ admitted' = admitted
        \/ /\ cache' = Survivors(m.ts) \union {EntryOf(m)}
           /\ admitted' = admitted \union {EntryOf(m)}
    BY <1>1, <2>2 DEF Record
  <2> QED  BY <2>3, <2>4 DEF ReplayInv, Survivors
<1>2. CASE Restart
  BY <1>2 DEF Restart
<1>3. CASE UNCHANGED <<cache, admitted>>
  BY <1>3 DEF ReplayInv
<1> QED
  BY <1>1, <1>2, <1>3 DEF Next, AuthInterceptor, AuthInterceptorRefuses, AttachAuth, Arrives,
     SelectActive,
     SelectStatus, ResolverFails, Rejected, Validated, TrustedSubject, HopFails, Authorize, AddKey,
     RevokeKey,
     ClockMoves, vars

\* The record of a call after a step: the verdict and the message are the old
\* ones, or the verdict is another one than a replay, or the store refused it.
LEMMA VerdictMoves ==
  ASSUME AuthInv, [Next]_vars, ~Restart, NEW c \in Calls
  PROVE  \/ call'[c].verdict = call[c].verdict /\ call'[c].msg = call[c].msg
         \/ call'[c].verdict # "replay"
         \/ \E m \in Messages : /\ call[c].msg = {m} /\ call'[c].msg = {m}
                                /\ Record(c) /\ Known(Survivors(m.ts), m)
<1> DEFINE Kept == call'[c].verdict = call[c].verdict /\ call'[c].msg = call[c].msg
<1>0. call \in [Calls -> CallRecords] /\ call[c] \in CallRecords
  BY DEF AuthInv, AuthTypeOK
<1>1. ASSUME NEW m, NEW why, why # "replay", Refuse(c, m, why) PROVE call'[c].verdict # "replay"
  BY <1>0, <1>1 DEF Refuse, NoCall
<1>2. ASSUME NEW m, NEW next, NEW header, Enter(c, m, next, header) PROVE call'[c].verdict # "replay"
  BY <1>0, <1>2 DEF Enter, NoCall
<1>3. ASSUME NEW d \in Calls, NEW m \in Messages, Arrival(d, m)
               PROVE Kept \/ call'[c].verdict # "replay"
  <2>1. CASE d = c
    BY <1>1, <1>2, <1>3, <2>1 DEF Arrival, AuthInterceptor, AuthInterceptorRefuses, AttachAuth
  <2>2. CASE d # c
    BY <1>3, <2>2, ArrivalMoves DEF AuthInv
  <2> QED  BY <2>1, <2>2
<1>4. ASSUME NEW d \in Calls, d # c, CallStage(d) PROVE Kept
  BY <1>4, CallMoves DEF AuthInv, CallStage, Moved
<1>5. ASSUME \E t \in Tables : SelectActive(c, t) \/ SelectStatus(c, t) PROVE Kept
  BY <1>0, <1>5 DEF SelectActive, SelectStatus, CallRecords
<1>6. ASSUME ResolverFails(c) \/ HopFails(c) PROVE call'[c].verdict # "replay"
  BY <1>1, <1>6 DEF ResolverFails, HopFails
<1>7. ASSUME Rejected(c) PROVE call'[c].verdict # "replay"
  <2>1. PICK i \in DOMAIN Checks(c, Msg(c)) : Refuse(c, Msg(c), Checks(c, Msg(c))[i].why)
    BY <1>7 DEF Rejected
  <2>2. i \in 1..8
    BY <2>1 DEF Checks
  <2>3. Checks(c, Msg(c))[i].why # "replay"
    BY <2>2 DEF Checks
  <2> QED  BY <1>1, <2>1, <2>3
<1>8. ASSUME Validated(c) \/ TrustedSubject(c) PROVE Kept
  <2>1. CASE Validated(c)
    BY <1>0, <2>1 DEF Validated, CallRecords
  <2>2. CASE TrustedSubject(c)
    <3>1. PICK s \in call[c].trusted :
            call' = [call EXCEPT ![c].pc = "authorize", ![c].subject = s, ![c].trusted = {}]
      BY <2>2 DEF TrustedSubject
    <3>2. call'[c] = [call[c] EXCEPT !.pc = "authorize", !.subject = s, !.trusted = {}]
      BY <1>0, <3>1
    <3> QED  BY <1>0, <3>2 DEF CallRecords
  <2> QED  BY <1>8, <2>1, <2>2
<1>9. ASSUME Authorize(c) PROVE Kept \/ call'[c].verdict # "replay"
  <2>1. CASE call' = [call EXCEPT ![c].pc = "handled"]
    BY <1>0, <2>1 DEF CallRecords
  <2> QED  BY <1>1, <1>9, <2>1 DEF Authorize
<1>10. ASSUME Record(c)
       PROVE  \/ Kept \/ call'[c].verdict # "replay"
              \/ \E m \in Messages : /\ call[c].msg = {m} /\ call'[c].msg = {m}
                                     /\ Record(c) /\ Known(Survivors(m.ts), m)
  <2>1. PICK m \in Messages : call[c].msg = {m} /\ call[c].pc = "record"
    BY <1>10 DEF AuthInv, HasMsg, Record
  <2>2. Msg(c) = m
    BY <2>1, MsgIs
  <2>3. CASE Known(Survivors(m.ts), m) /\ Refuse(c, m, "replay")
    <3>1. call'[c].msg = {m}
      BY <1>0, <2>3 DEF Refuse, NoCall
    <3> QED  BY <1>10, <2>1, <2>3, <3>1
  <2>4. CASE Refuse(c, m, "nonce_store_full")
    BY <1>1, <2>4
  <2>5. CASE Admit(c, m)
    BY <1>0, <2>5 DEF Admit, CallRecords
  <2> QED  BY <1>10, <2>2, <2>3, <2>4, <2>5 DEF Record
<1>11. ASSUME NEW k \in Keys, AddKey(k) \/ \E t \in Tables : RevokeKey(t, k)  PROVE Kept
  BY <1>11 DEF AddKey, RevokeKey
<1>12. CASE ClockMoves \/ UNCHANGED vars
  BY <1>12 DEF ClockMoves, vars
<1> QED
  BY <1>3, <1>4, <1>5, <1>6, <1>7, <1>8, <1>9, <1>10, <1>11, <1>12 DEF Next, Arrival, CallStage

\* Every step keeps verdicts of replay justified.
LEMMA ReplayStep ==
  ASSUME AuthInv, SignerInv, ReplayInv, [Next]_vars
  PROVE  ReplayInv'
<1>1. cache' \subseteq admitted' /\ \A e \in admitted' : Vouched(e)
  BY StoreMoves
<1>2. \A e : Vouched(e) => Vouched(e)'
  BY DEF Vouched, Verify
<1>3. ASSUME NEW c \in Calls, call'[c].verdict = "replay"
      PROVE  \E m \in Messages : call'[c].msg = {m} /\ Known(admitted', m)
  <2>1. ~Restart
    BY <1>3 DEF Restart, NoCall
  <2>2. admitted \subseteq admitted'
    BY <2>1, StoreMoves
  <2>3. CASE call'[c].verdict = call[c].verdict /\ call'[c].msg = call[c].msg
    BY <1>3, <2>2, <2>3 DEF ReplayInv, Known
  <2>4. CASE \E m \in Messages : /\ call[c].msg = {m} /\ call'[c].msg = {m}
                                 /\ Known(Survivors(m.ts), m)
    BY <2>2, <2>4 DEF ReplayInv, Known, Survivors
  <2> QED  BY <1>3, <2>1, <2>3, <2>4, VerdictMoves
<1> QED  BY <1>1, <1>2, <1>3 DEF ReplayInv

\* A request is refused as a replay only if a message its key really signed
\* has used the nonce: what fails verification never gets into the store, so
\* nobody can use up a nonce for another.
THEOREM ReplayJustifiedCorrect == Spec => []ReplayJustified
<1>1. Init => SignerInv /\ ReplayInv
  BY NoCallTyped DEF Init, SignerInv, ReplayInv, NoCall
<1>2. ASSUME AuthInv, ReplayInv PROVE ReplayJustified
  <2> SUFFICES ASSUME NEW c \in Calls, call[c].verdict = "replay"
               PROVE  \E m \in Messages, t \in Tables :
                        /\ m.auth = "signed" /\ Verify(t, m)
                        /\ m.key = Msg(c).key /\ m.nonce = Msg(c).nonce
                        /\ EntryOf(m) \in admitted
    BY DEF ReplayJustified
  <2>1. PICK n \in Messages : call[c].msg = {n} /\ Known(admitted, n)
    BY <1>2 DEF ReplayInv
  <2>2. Msg(c) = n
    BY <2>1, MsgIs
  <2>3. PICK e \in admitted : e.key = n.key /\ e.nonce = n.nonce
    BY <2>1 DEF Known
  <2>4. PICK m \in Messages, t \in Tables : m.auth = "signed" /\ Verify(t, m) /\ EntryOf(m) = e
    BY <1>2, <2>3 DEF ReplayInv, Vouched
  <2> QED  BY <2>2, <2>3, <2>4 DEF EntryOf
<1> QED  BY <1>1, <1>2, AuthInit, AuthStep, SignerStep, ReplayStep, PTL DEF Spec

-----------------------------------------------------------------------------
(* Content.  What is stored is read back as it was: by induction on the    *)
(* depth of a node.  The induction is over a set of naturals, the depths   *)
(* below which all is well; that a recursive function of the converters    *)
(* exists is shown the same way, by extending one for the nodes below a    *)
(* depth to those at it.                                                   *)

\* Induction over a set of naturals.
LEMMA SetInduction ==
  ASSUME NEW P, P \subseteq Nat, 0 \in P, \A d \in P : d + 1 \in P
  PROVE  P = Nat
<1>1. SUFFICES ASSUME Nat \ P # {}  PROVE FALSE
  OBVIOUS
<1> DEFINE R == {ss \in Nat \X Nat : ss[1] < ss[2]}
           Q == Nat \ P
<1>2. IsWellFoundedOn(R, Nat)
  BY NatLessThanWellFounded, Zenon DEF OpToRel
<1>3. Q \subseteq Nat /\ Q # {}
  BY <1>1
<1> HIDE DEF Q
<1>4. PICK x \in Q : \A y \in Q : ~(<<y, x>> \in R)
  BY <1>2, <1>3, WFMin, Zenon
<1>5. x \in Nat /\ x # 0
  BY DEF Q
<1>6. x - 1 \in Nat /\ x - 1 < x
  BY <1>5
<1>7. x - 1 \notin Q
  BY <1>4, <1>5, <1>6
<1>8. x - 1 \in P
  BY <1>6, <1>7 DEF Q
<1>9. (x - 1) + 1 \in P
  BY <1>8
<1>10. (x - 1) + 1 = x
  BY <1>5
<1> QED  BY <1>9, <1>10 DEF Q

\* What stored_node makes of a node, given what it makes of the children.
StoredBody(f, n) ==
  IF n.kind = "none" THEN JNull
  ELSE IF n.kind = "text" THEN JObj([text |-> JStr(n.text)])
  ELSE ElementJson(n, [i \in DOMAIN n.children |-> f[n.children[i]]])

\* What json_to_node makes of a value, given what it makes of its parts.
ReadBody(f, v) ==
  IF ~Is("obj", v) THEN NoKind
  ELSE IF Has(v, "text") /\ Is("str", v.obj["text"]) THEN TextNode(v.obj["text"].str)
  ELSE Element(Str(v, "tag"), StringMap(v, "attrs"),
               [i \in DOMAIN ArrayOf(v, "children") |-> f[ArrayOf(v, "children")[i]]])

\* The depth of nodes and values.
LEMMA DepthTyped ==
  /\ \A n \in ContentNodes : Depth[n] \in Nat /\ Depth[n] < MaxDepth + 1
  /\ \A v \in ContentDocs : Depth[v] \in Nat /\ Depth[v] < MaxDepth + 1
  /\ MaxDepth + 1 \in Nat
BY ContentAssumption

\* The parts of a node lie less deep.
LEMMA ChildrenLess ==
  ASSUME NEW n \in ContentNodes, n.kind = "element", NEW i \in DOMAIN n.children
  PROVE  n.children[i] \in ContentNodes /\ Depth[n.children[i]] < Depth[n]
<1>1. n # NoKind
  BY DEF NoKind
<1>2. n.children \in Seq(ContentNodes) /\ Depth[n.children[i]] < Depth[n]
  BY <1>1, ContentAssumption
<1> QED  BY <1>2

\* The shape of a node.
LEMMA NodeShapes ==
  ASSUME NEW n \in ContentNodes
  PROVE  n.kind \in {"none", "text", "element"}
<1>1. n = NoKind \/ n.kind = "text" \/ n.kind = "element"
  BY ContentAssumption
<1>2. NoKind.kind = "none"
  BY DEF NoKind
<1> QED  BY <1>1, <1>2

\* So there is a stored_node.
LEMMA StoredNodeExists ==
  \A n \in ContentNodes : stored_node[n] = StoredBody(stored_node, n)
<1> DEFINE Below(d) == {n \in ContentNodes : Depth[n] < d}
           Good(f, d) == f = [n \in Below(d) |-> StoredBody(f, n)]
           P == {d \in Nat : \E f : Good(f, d)}
<1>1. 0 \in P
  <2>1. Below(0) = {}
    BY DepthTyped
  <2>2. [n \in {} |-> StoredBody(<<>>, n)] = [n \in {} |-> StoredBody([m \in {} |-> <<>>], n)]
    OBVIOUS
  <2>3. Good([m \in {} |-> <<>>], 0)
    BY <2>1
  <2> QED  BY <2>3
<1>2. ASSUME NEW d \in P  PROVE d + 1 \in P
  <2>1. d \in Nat
    OBVIOUS
  <2>2. PICK f : Good(f, d)
    OBVIOUS
  <2> DEFINE g == [n \in Below(d + 1) |-> StoredBody(f, n)]
  <2>3. ASSUME NEW n \in Below(d + 1), n.kind = "element", NEW i \in DOMAIN n.children
        PROVE  g[n.children[i]] = f[n.children[i]]
    <3>1. n.children[i] \in ContentNodes /\ Depth[n.children[i]] < Depth[n]
      BY <2>3, ChildrenLess
    <3>2. n.children[i] \in Below(d) /\ n.children[i] \in Below(d + 1)
      BY <2>1, <3>1, DepthTyped
    <3>3. f[n.children[i]] = StoredBody(f, n.children[i])
      BY <2>2, <3>2
    <3> HIDE DEF Below
    <3> QED  BY <3>2, <3>3
  <2>4. ASSUME NEW n \in Below(d + 1)  PROVE StoredBody(g, n) = StoredBody(f, n)
    <3>1. CASE n.kind = "element"
      <4>1. [i \in DOMAIN n.children |-> g[n.children[i]]] =
              [i \in DOMAIN n.children |-> f[n.children[i]]]
        BY <2>3, <3>1
      <4> HIDE DEF g
      <4> QED  BY <4>1, <3>1 DEF StoredBody
    <3>2. CASE n.kind \in {"none", "text"}
      <4> HIDE DEF g
      <4> QED  BY <3>2 DEF StoredBody
    <3> QED  BY <3>1, <3>2, NodeShapes
  <2>5. Good(g, d + 1)
    <3>1. \A n \in Below(d + 1) : StoredBody(g, n) = StoredBody(f, n)
      BY <2>4
    <3>2. [n \in Below(d + 1) |-> StoredBody(g, n)] = [n \in Below(d + 1) |-> StoredBody(f, n)]
      <4> HIDE DEF g, Below
      <4> QED  BY <3>1
    <3> QED  BY <3>2
  <2> HIDE DEF g, Good
  <2> QED  BY <2>1, <2>5
<1>3. P = Nat
  <2>1. P \subseteq Nat
    OBVIOUS
  <2> HIDE DEF P
  <2> QED  BY <1>1, <1>2, <2>1, SetInduction
<1>4. PICK f : Good(f, MaxDepth + 1)
  <2>1. MaxDepth + 1 \in P
    BY <1>3, DepthTyped
  <2> HIDE DEF Good
  <2> QED  BY <2>1
<1>5. Below(MaxDepth + 1) = ContentNodes
  BY DepthTyped
<1>6. f = [n \in ContentNodes |-> StoredBody(f, n)]
  BY <1>4, <1>5
<1>7. stored_node = [n \in ContentNodes |-> StoredBody(stored_node, n)]
  <2> DEFINE F(g) == [n \in ContentNodes |-> StoredBody(g, n)]
  <2>1. stored_node = CHOOSE g : g = F(g)
    BY DEF stored_node, StoredBody
  <2>2. f = F(f)
    BY <1>6
  <2> HIDE DEF F
  <2>3. (CHOOSE g : g = F(g)) = F(CHOOSE g : g = F(g))
    BY <2>2, Zenon
  <2>4. stored_node = F(stored_node)
    BY <2>1, <2>3, Zenon
  <2> QED  BY <2>4 DEF F
<1> HIDE DEF P
<1> QED  BY <1>7
\* The parts of a JSON value lie less deep.
LEMMA PartsLess ==
  ASSUME NEW v \in ContentDocs, NEW i \in DOMAIN ArrayOf(v, "children")
  PROVE  ArrayOf(v, "children")[i] \in ContentDocs /\ Depth[ArrayOf(v, "children")[i]] < Depth[v]
<1>1. ArrayOf(v, "children") \in Seq(ContentDocs) /\ Depth[ArrayOf(v, "children")[i]] < Depth[v]
  BY ContentAssumption
<1> QED  BY <1>1

\* There is a json_to_node.
LEMMA JsonToNodeExists ==
  \A v \in ContentDocs : json_to_node[v] = ReadBody(json_to_node, v)
<1> DEFINE Below(d) == {v \in ContentDocs : Depth[v] < d}
           Good(f, d) == f = [v \in Below(d) |-> ReadBody(f, v)]
           P == {d \in Nat : \E f : Good(f, d)}
<1>1. 0 \in P
  <2>1. Below(0) = {}
    BY DepthTyped
  <2>3. Good([m \in {} |-> <<>>], 0)
    BY <2>1
  <2> QED  BY <2>3
<1>2. ASSUME NEW d \in P  PROVE d + 1 \in P
  <2>1. d \in Nat
    OBVIOUS
  <2>2. PICK f : Good(f, d)
    OBVIOUS
  <2> DEFINE g == [v \in Below(d + 1) |-> ReadBody(f, v)]
  <2>3. ASSUME NEW v \in Below(d + 1), NEW i \in DOMAIN ArrayOf(v, "children")
        PROVE  g[ArrayOf(v, "children")[i]] = f[ArrayOf(v, "children")[i]]
    <3> DEFINE p == ArrayOf(v, "children")[i]
    <3>1. p \in ContentDocs /\ Depth[p] < Depth[v]
      BY <2>3, PartsLess
    <3>2. p \in Below(d) /\ p \in Below(d + 1)
      BY <2>1, <3>1, DepthTyped
    <3>3. f[p] = ReadBody(f, p)
      BY <2>2, <3>2
    <3> HIDE DEF Below, p
    <3>4. g[p] = f[p]
      BY <3>2, <3>3
    <3> QED  BY <3>4 DEF p
  <2>4. ASSUME NEW v \in Below(d + 1)  PROVE ReadBody(g, v) = ReadBody(f, v)
    <3>1. [i \in DOMAIN ArrayOf(v, "children") |-> g[ArrayOf(v, "children")[i]]]
            = [i \in DOMAIN ArrayOf(v, "children") |-> f[ArrayOf(v, "children")[i]]]
      <4>1. \A i \in DOMAIN ArrayOf(v, "children") :
              g[ArrayOf(v, "children")[i]] = f[ArrayOf(v, "children")[i]]
        BY <2>3
      <4> HIDE DEF g
      <4> QED  BY <4>1
    <3> HIDE DEF g
    <3> QED  BY <3>1 DEF ReadBody
  <2>5. Good(g, d + 1)
    <3>1. \A v \in Below(d + 1) : ReadBody(g, v) = ReadBody(f, v)
      BY <2>4
    <3>2. [v \in Below(d + 1) |-> ReadBody(g, v)] = [v \in Below(d + 1) |-> ReadBody(f, v)]
      <4> HIDE DEF g, Below
      <4> QED  BY <3>1
    <3> QED  BY <3>2
  <2> HIDE DEF g, Good
  <2> QED  BY <2>1, <2>5
<1>3. P = Nat
  <2>1. P \subseteq Nat
    OBVIOUS
  <2> HIDE DEF P
  <2> QED  BY <1>1, <1>2, <2>1, SetInduction
<1>4. PICK f : Good(f, MaxDepth + 1)
  <2>1. MaxDepth + 1 \in P
    BY <1>3, DepthTyped
  <2> HIDE DEF Good
  <2> QED  BY <2>1
<1>5. Below(MaxDepth + 1) = ContentDocs
  BY DepthTyped
<1>6. f = [v \in ContentDocs |-> ReadBody(f, v)]
  BY <1>4, <1>5
<1>7. json_to_node = [v \in ContentDocs |-> ReadBody(json_to_node, v)]
  <2> DEFINE F(g) == [v \in ContentDocs |-> ReadBody(g, v)]
  <2>1. json_to_node = CHOOSE g : g = F(g)
    BY DEF json_to_node, ReadBody
  <2>2. f = F(f)
    BY <1>6
  <2> HIDE DEF F
  <2>3. (CHOOSE g : g = F(g)) = F(CHOOSE g : g = F(g))
    BY <2>2, Zenon
  <2>4. json_to_node = F(json_to_node)
    BY <2>1, <2>3, Zenon
  <2> QED  BY <2>4 DEF F
<1> HIDE DEF P
<1> QED  BY <1>7

\* A node without a kind, and a text, are read back.
LEMMA NoneReadBack ==
  ASSUME NEW f, NEW g
  PROVE  ReadBody(f, StoredBody(g, NoKind)) = NoKind
<1>1. StoredBody(g, NoKind) = JNull
  BY DEF StoredBody, NoKind
<1>2. ~Is("obj", JNull)
  BY DEF Is, JNull
<1> QED  BY <1>1, <1>2 DEF ReadBody

\* A text node is read back.
LEMMA TextReadBack ==
  ASSUME NEW f, NEW g, NEW t
  PROVE  ReadBody(f, StoredBody(g, TextNode(t))) = TextNode(t)
<1> DEFINE v == JObj([text |-> JStr(t)])
<1>1. StoredBody(g, TextNode(t)) = v
  BY DEF StoredBody, TextNode
<1>2. v.obj["text"] = JStr(t) /\ Is("obj", v) /\ Has(v, "text")
  BY DEF Is, Has, JObj
<1>3. Is("str", JStr(t)) /\ JStr(t).str = t
  BY DEF Is, JStr
<1> HIDE DEF v
<1> QED  BY <1>1, <1>2, <1>3 DEF ReadBody

\* The fields of the JSON of an element.
LEMMA ElementFields ==
  ASSUME NEW tag, NEW attrs, NEW children, NEW kids
  PROVE  LET v == ElementJson(Element(tag, attrs, children), kids)
         IN  /\ Is("obj", v) /\ ~Has(v, "text")
             /\ Has(v, "tag") /\ v.obj["tag"] = JStr(tag)
             /\ Has(v, "attrs") <=> DOMAIN attrs # {}
             /\ Has(v, "attrs") => v.obj["attrs"] = JObj([s \in DOMAIN attrs |-> JStr(attrs[s])])
             /\ Has(v, "children") <=> kids # <<>>
             /\ Has(v, "children") => v.obj["children"] = JArr(kids)
<1> DEFINE n == Element(tag, attrs, children)
           all == [tag |-> JStr(n.tag), children |-> JArr(kids),
                   attrs |-> JObj([s \in DOMAIN n.attrs |-> JStr(n.attrs[s])])]
           shown == {"tag"} \union (IF DOMAIN n.attrs = {} THEN {} ELSE {"attrs"})
                            \union (IF kids = <<>> THEN {} ELSE {"children"})
           obj == [k \in shown |-> all[k]]
           v == ElementJson(n, kids)
<1>1. n.tag = tag /\ n.attrs = attrs
  BY DEF Element
<1> HIDE DEF n
<1>2. v = JObj(obj)
  BY DEF ElementJson
<1>3. Is("obj", v) /\ v.obj = obj
  BY <1>2 DEF Is, JObj
<1>4. /\ all["tag"] = JStr(tag) /\ all["children"] = JArr(kids)
      /\ all["attrs"] = JObj([s \in DOMAIN attrs |-> JStr(attrs[s])])
  BY <1>1
<1>5. /\ "tag" \in shown /\ "text" \notin shown
      /\ "attrs" \in shown <=> DOMAIN attrs # {}
      /\ "children" \in shown <=> kids # <<>>
  BY <1>1
<1> HIDE DEF all, shown, v
<1> QED  BY <1>3, <1>4, <1>5 DEF Has, n, v
\* A map of strings is read back.
LEMMA AttrsReadBack ==
  ASSUME NEW v, NEW attrs, attrs = [s \in DOMAIN attrs |-> attrs[s]],
         Has(v, "attrs") <=> DOMAIN attrs # {},
         Has(v, "attrs") => v.obj["attrs"] = JObj([s \in DOMAIN attrs |-> JStr(attrs[s])])
  PROVE  StringMap(v, "attrs") = attrs
<1>1. CASE DOMAIN attrs = {}
  <2>1. StringMap(v, "attrs") = [s \in {} |-> ""]
    BY <1>1 DEF StringMap
  <2>2. attrs = [s \in {} |-> attrs[s]]
    BY <1>1
  <2>3. [s \in {} |-> attrs[s]] = [s \in {} |-> ""]
    OBVIOUS
  <2> QED  BY <2>1, <2>2, <2>3
<1>2. CASE DOMAIN attrs # {}
  <2> DEFINE m == [s \in DOMAIN attrs |-> JStr(attrs[s])]
  <2>1. Has(v, "attrs") /\ Is("obj", v.obj["attrs"]) /\ v.obj["attrs"].obj = m
    BY <1>2 DEF Is, JObj
  <2>2. StringMap(v, "attrs") = [s \in {s \in DOMAIN m : Is("str", m[s])} |-> m[s].str]
    BY <2>1 DEF StringMap
  <2>3. \A s \in DOMAIN attrs : Is("str", m[s]) /\ m[s].str = attrs[s]
    BY DEF Is, JStr
  <2>4. DOMAIN m = DOMAIN attrs
    OBVIOUS
  <2> HIDE DEF m
  <2>5. {s \in DOMAIN m : Is("str", m[s])} = DOMAIN attrs
    BY <2>3, <2>4
  <2>6. StringMap(v, "attrs") = [s \in DOMAIN attrs |-> attrs[s]]
    BY <2>2, <2>3, <2>5
  <2> QED  BY <2>6
<1> QED  BY <1>1, <1>2

\* An element is read back if its children are.
LEMMA ElementReadBack ==
  ASSUME NEW f, NEW g, NEW tag, NEW attrs, attrs = [s \in DOMAIN attrs |-> attrs[s]],
         NEW children \in Seq(ContentNodes),
         \A i \in DOMAIN children : f[g[children[i]]] = children[i]
  PROVE  ReadBody(f, StoredBody(g, Element(tag, attrs, children))) = Element(tag, attrs, children)
<1> DEFINE kids == [i \in DOMAIN children |-> g[children[i]]]
           n == Element(tag, attrs, children)
           v == ElementJson(n, kids)
<1>1. StoredBody(g, n) = v
  <2>1. n.kind = "element" /\ n.children = children
    BY DEF Element
  <2> HIDE DEF n
  <2> QED  BY <2>1 DEF StoredBody
<1>2. /\ Is("obj", v) /\ ~Has(v, "text")
      /\ Has(v, "tag") /\ v.obj["tag"] = JStr(tag)
      /\ Has(v, "attrs") <=> DOMAIN attrs # {}
      /\ Has(v, "attrs") => v.obj["attrs"] = JObj([s \in DOMAIN attrs |-> JStr(attrs[s])])
      /\ Has(v, "children") <=> kids # <<>>
      /\ Has(v, "children") => v.obj["children"] = JArr(kids)
  <2> HIDE DEF kids
  <2> QED  BY ElementFields
<1>3. Str(v, "tag") = tag
  <2>1. Is("str", JStr(tag)) /\ JStr(tag).str = tag
    BY DEF Is, JStr
  <2> HIDE DEF v
  <2> QED  BY <1>2, <2>1 DEF Str
<1>4. StringMap(v, "attrs") = attrs
  <2> HIDE DEF v
  <2> QED  BY <1>2, AttrsReadBack
<1>5. ArrayOf(v, "children") = kids
  <2>1. Is("arr", JArr(kids)) /\ JArr(kids).arr = kids
    BY DEF Is, JArr
  <2> HIDE DEF v, kids
  <2> QED  BY <1>2, <2>1 DEF ArrayOf
<1>6. [i \in DOMAIN kids |-> f[kids[i]]] = children
  <2>1. [i \in DOMAIN kids |-> f[kids[i]]] = [i \in DOMAIN children |-> children[i]]
    OBVIOUS
  <2>2. children = [i \in DOMAIN children |-> children[i]]
    OBVIOUS
  <2> QED  BY <2>1, <2>2
<1>7. ReadBody(f, v) = Element(tag, attrs, children)
  <2> HIDE DEF v, kids, n
  <2> QED  BY <1>2, <1>3, <1>4, <1>5, <1>6 DEF ReadBody
<1> QED  BY <1>1, <1>7

\* What is stored of a node is read back as that node.
LEMMA NodeReadBack ==
  \A n \in ContentNodes : json_to_node[stored_node[n]] = n
<1> DEFINE P == {d \in Nat : \A n \in ContentNodes : Depth[n] < d => json_to_node[stored_node[n]] = n}
<1>1. 0 \in P
  BY DepthTyped
<1>2. ASSUME NEW d \in P  PROVE d + 1 \in P
  <2>1. SUFFICES ASSUME NEW n \in ContentNodes, Depth[n] < d + 1
                 PROVE  json_to_node[stored_node[n]] = n
    OBVIOUS
  <2>2. json_to_node[stored_node[n]] = ReadBody(json_to_node, StoredBody(stored_node, n))
    <3>1. stored_node[n] \in ContentDocs
      BY ContentAssumption
    <3> QED  BY <3>1, StoredNodeExists, JsonToNodeExists
  <2>3. CASE n = NoKind
    BY <2>2, <2>3, NoneReadBack
  <2>4. CASE n.kind = "text" /\ n = TextNode(n.text)
    BY <2>2, <2>4, TextReadBack
  <2>5. CASE /\ n.kind = "element" /\ n = Element(n.tag, n.attrs, n.children)
             /\ n.attrs = [s \in DOMAIN n.attrs |-> n.attrs[s]]
             /\ n.children \in Seq(ContentNodes)
    <3>1. ASSUME NEW i \in DOMAIN n.children
          PROVE  json_to_node[stored_node[n.children[i]]] = n.children[i]
      <4>1. n.children[i] \in ContentNodes /\ Depth[n.children[i]] < Depth[n]
        BY <2>5, <3>1, ChildrenLess
      <4>2. Depth[n.children[i]] < d
        BY <2>1, <4>1, DepthTyped
      <4> QED  BY <4>1, <4>2
    <3>2. ReadBody(json_to_node, StoredBody(stored_node, Element(n.tag, n.attrs, n.children)))
            = Element(n.tag, n.attrs, n.children)
      <4>1. \A i \in DOMAIN n.children : json_to_node[stored_node[n.children[i]]] = n.children[i]
        BY <3>1
      <4> HIDE DEF P
      <4> QED  BY <2>5, <4>1, ElementReadBack
    <3> QED  BY <2>2, <2>5, <3>2
  <2> QED  BY <2>3, <2>4, <2>5, ContentAssumption
<1>3. P = Nat
  <2>1. P \subseteq Nat
    OBVIOUS
  <2> HIDE DEF P
  <2> QED  BY <1>1, <1>2, <2>1, SetInduction
<1>4. MaxDepth + 1 \in P
  BY <1>3, DepthTyped
<1> QED  BY <1>4, DepthTyped

\* What the service stores of some content, it reads back as that content.
THEOREM ContentReadBack ==
  \A nodes \in Seq(ContentNodes) : json_to_nodes(nodes_to_json(nodes)) = nodes
<1> SUFFICES ASSUME NEW nodes \in Seq(ContentNodes)
             PROVE  json_to_nodes(nodes_to_json(nodes)) = nodes
  OBVIOUS
<1> DEFINE items == [i \in DOMAIN nodes |-> stored_node[nodes[i]]]
<1>1. Is("arr", JArr(items)) /\ JArr(items).arr = items
  BY DEF Is, JArr
<1>2. json_to_nodes(nodes_to_json(nodes)) = [i \in DOMAIN items |-> json_to_node[items[i]]]
  <2> HIDE DEF items
  <2> QED  BY <1>1 DEF json_to_nodes, nodes_to_json, items
<1>3. [i \in DOMAIN items |-> json_to_node[items[i]]] = [i \in DOMAIN nodes |-> nodes[i]]
  BY NodeReadBack
<1>4. nodes = [i \in DOMAIN nodes |-> nodes[i]]
  OBVIOUS
<1> QED  BY <1>2, <1>3, <1>4

\* A field laid over others, and one that is not.
LEMMA WithOver ==
  ASSUME NEW text, NEW extra, NEW k, k \in DOMAIN extra
  PROVE  With(text, extra)[k] = extra[k] /\ k \in DOMAIN With(text, extra)
BY DEF With

\* A field that nothing is laid over.
LEMMA WithUnder ==
  ASSUME NEW text, NEW extra, NEW k, k \in DOMAIN text, k \notin DOMAIN extra
  PROVE  With(text, extra)[k] = text[k] /\ k \in DOMAIN With(text, extra)
BY DEF With

\* The only element of a set.
LEMMA TheOne ==
  ASSUME NEW x
  PROVE  The({x}) = x
BY DEF The

-----------------------------------------------------------------------------
(* What a client writes, the handlers read: values, lists and maps.        *)

\* The JSON object v has the field k, with the value j.
Holds(v, k, j) == Has(v, k) /\ v.obj[k] = j

\* A text, a number and a flag are read as they were written.
LEMMA StrRead ==
  ASSUME NEW v, NEW k, NEW x, Holds(v, k, JStr(x))
  PROVE  Str(v, k) = x
<1>1. Is("str", JStr(x)) /\ JStr(x).str = x
  BY DEF Is, JStr
<1> QED  BY <1>1 DEF Holds, Str

\* A number is read back.
LEMMA NumRead ==
  ASSUME NEW v, NEW k, NEW x, Holds(v, k, JNum(x))
  PROVE  I64(v, k) = x
<1>1. Is("num", JNum(x)) /\ JNum(x).num = x
  BY DEF Is, JNum
<1> QED  BY <1>1 DEF Holds, I64

\* A flag is read back.
LEMMA BoolRead ==
  ASSUME NEW v, NEW k, NEW x \in BOOLEAN, Holds(v, k, JBool(x))
  PROVE  Bool(v, k) = x
<1>1. Is("bool", JBool(x)) /\ JBool(x).bool = x
  BY DEF Is, JBool
<1> QED  BY <1>1 DEF Holds, Bool

\* A list is read back.
LEMMA ArrRead ==
  ASSUME NEW v, NEW k, NEW x, Holds(v, k, JArr(x))
  PROVE  ArrayOf(v, k) = x
<1>1. Is("arr", JArr(x)) /\ JArr(x).arr = x
  BY DEF Is, JArr
<1> QED  BY <1>1 DEF Holds, ArrayOf

\* A map of strings is read back.
LEMMA MapRead ==
  ASSUME NEW v, NEW k, NEW x, x = [s \in DOMAIN x |-> x[s]],
         Holds(v, k, JObj([s \in DOMAIN x |-> JStr(x[s])]))
  PROVE  StringMap(v, k) = x
<1> DEFINE m == [s \in DOMAIN x |-> JStr(x[s])]
<1>1. Is("obj", JObj(m)) /\ JObj(m).obj = m
  BY DEF Is, JObj
<1>2. \A s \in DOMAIN x : Is("str", m[s]) /\ m[s].str = x[s]
  BY DEF Is, JStr
<1>3. DOMAIN m = DOMAIN x
  OBVIOUS
<1>4. Has(v, k) /\ v.obj[k] = JObj(m)
  BY DEF Holds
<1> HIDE DEF m
<1>5. StringMap(v, k) = [s \in {s \in DOMAIN m : Is("str", m[s])} |-> m[s].str]
  BY <1>1, <1>4 DEF StringMap
<1>6. {s \in DOMAIN m : Is("str", m[s])} = DOMAIN x
  BY <1>2, <1>3
<1>7. StringMap(v, k) = [s \in DOMAIN x |-> x[s]]
  BY <1>2, <1>5, <1>6
<1> QED  BY <1>7

\* A list of n elements.
IsList(s, n) == n \in Nat /\ s = [i \in 1..n |-> s[i]]

\* Elements picked at an interval of positions are a segment.
LEMMA PickedSegment ==
  ASSUME NEW s, NEW a \in Nat, NEW b \in Nat, NEW m, b + 1 = a + m, NEW t, IsList(t, m),
         \A i \in 1..m : t[i] = s[a + i - 1]
  PROVE  Picked(s, a..b) = t
<1> m \in Nat
  BY DEF IsList
<1>1. Cardinality(a..b) = m
  <2>1. Cardinality(a..b) = IF a > b THEN 0 ELSE b - a + 1
    BY FS_Interval
  <2> QED  BY <2>1
<1>2. ASSUME NEW j \in a..b  PROVE Cardinality({k \in a..b : k <= j}) = j + 1 - a
  <2>1. {k \in a..b : k <= j} = a..j /\ j \in Int /\ a \in Int /\ ~(a > j)
    OBVIOUS
  <2>2. Cardinality(a..j) = IF a > j THEN 0 ELSE j - a + 1
    BY <2>1, FS_Interval
  <2>3. Cardinality(a..j) = j + 1 - a
    BY <2>1, <2>2
  <2>4. Cardinality({k \in a..b : k <= j}) = Cardinality(a..j)
    BY <2>1
  <2> QED  BY <2>3, <2>4
<1> DEFINE rank(j) == Cardinality({k \in a..b : k <= j})
           place(i) == CHOOSE j \in a..b : rank(j) = i
<1>3. \A j \in a..b : rank(j) = j + 1 - a
  BY <1>2
<1>4. Picked(s, a..b) = [i \in 1..Cardinality(a..b) |-> s[place(i)]]
  BY DEF Picked
<1> HIDE DEF rank
<1>5. ASSUME NEW i \in 1..m  PROVE place(i) = a + i - 1
  <2>1. a + i - 1 \in a..b
    OBVIOUS
  <2>2. \A j \in a..b : rank(j) = i <=> j = a + i - 1
    BY <1>3
  <2> QED  BY <2>1, <2>2
<1> HIDE DEF place
<1>6. Picked(s, a..b) = [i \in 1..m |-> t[i]]
  BY <1>1, <1>4, <1>5
<1> QED  BY <1>6 DEF IsList

\* Picking all.
LEMMA PickedAll ==
  ASSUME NEW s, NEW n, IsList(s, n)
  PROVE  Picked(s, 1..n) = s
<1>1. 1 \in Nat /\ n \in Nat /\ n + 1 = 1 + n
  BY DEF IsList
<1>2. \A i \in 1..n : s[i] = s[1 + i - 1]
  OBVIOUS
<1> QED  BY <1>1, <1>2, PickedSegment

\* Texts in a list.
LEMMA StringsRead ==
  ASSUME NEW s, NEW n, IsList(s, n)
  PROVE  Strings([i \in DOMAIN s |-> JStr(s[i])]) = s
<1> DEFINE t == [i \in DOMAIN s |-> JStr(s[i])]
<1>1. DOMAIN s = 1..n /\ IsList(t, n) /\ DOMAIN t = 1..n
  BY DEF IsList
<1>2. \A i \in 1..n : Is("str", t[i]) /\ t[i].str = s[i]
  BY <1>1 DEF Is, JStr
<1> HIDE DEF t
<1>3. {i \in DOMAIN t : Is("str", t[i])} = 1..n
  BY <1>1, <1>2
<1>4. Picked(t, 1..n) = t
  BY <1>1, PickedAll
<1>5. Strings(t) = [i \in 1..n |-> t[i].str]
  BY <1>1, <1>3, <1>4 DEF Strings
<1>6. Strings(t) = [i \in 1..n |-> s[i]]
  BY <1>2, <1>5
<1>7. Strings(t) = s
  BY <1>6 DEF IsList
<1> QED  BY <1>7 DEF t

\* An element of a sequence type is a function on an initial segment.
LEMMA SeqIs ==
  ASSUME NEW T, NEW s \in Seq(T)
  PROVE  IsList(s, Len(s)) /\ DOMAIN s = 1..Len(s) /\ \A i \in 1..Len(s) : s[i] \in T
BY DEF IsList

\* JSON texts of different texts differ.
LEMMA TextsDiffer ==
  ASSUME NEW x, NEW y, JStr(x) = JStr(y)
  PROVE  x = y
<1>1. JStr(x).str = x /\ JStr(y).str = y
  BY DEF JStr
<1> QED  BY <1>1

\* An enum is read by one of its names.
LEMMA NumberedOne ==
  ASSUME NEW names, NEW full, NEW zero, NEW n \in DOMAIN names, NEW x,
         x = names[n] \/ x = full[n], x \notin zero,
         \A i \in DOMAIN names : i # n => x # names[i] /\ x # full[i]
  PROVE  Numbered(names, full, zero, JStr(x)) = {n}
<1>1. \A i \in DOMAIN names : JStr(x) \in {JStr(names[i]), JStr(full[i])} <=> i = n
  BY TextsDiffer
<1>2. {i \in DOMAIN names : JStr(x) \in {JStr(names[i]), JStr(full[i])}} = {n}
  BY <1>1
<1>3. {z \in zero : JStr(x) = JStr(z)} = {}
  BY TextsDiffer
<1>4. {0 : y \in {z \in zero : JStr(x) = JStr(z)}} = {}
  BY <1>3
<1> QED  BY <1>2, <1>4 DEF Numbered

\* The type of an event, by its full name.
LEMMA EventTypeRead ==
  ASSUME NEW n \in DOMAIN EventTypes
  PROVE  parse_event_type_str(JStr(FullEventTypes[n])) = {n}
<1>1. DOMAIN EventTypes = 1..6 /\ n \in 1..6
  BY DEF EventTypes
<1>2. \A i \in 1..6 : i # n => FullEventTypes[n] # EventTypes[i] /\
        FullEventTypes[n] # FullEventTypes[i]
  BY <1>1 DEF EventTypes, FullEventTypes
<1>3. FullEventTypes[n] \notin {"UNSPECIFIED", "EVENT_TYPE_UNSPECIFIED"}
  BY <1>1 DEF FullEventTypes
<1>4. \A i \in DOMAIN EventTypes : i # n => FullEventTypes[n] # EventTypes[i] /\
        FullEventTypes[n] # FullEventTypes[i]
  BY <1>1, <1>2
<1> DEFINE zero == {"UNSPECIFIED", "EVENT_TYPE_UNSPECIFIED"}
<1> HIDE DEF zero
<1>5. Numbered(EventTypes, FullEventTypes, zero, JStr(FullEventTypes[n])) = {n}
  BY <1>3, <1>4, NumberedOne DEF zero
<1> QED  BY <1>5 DEF parse_event_type_str, zero

\* The kind of a notification, by its full name or its short one.
LEMMA NotificationKindRead ==
  ASSUME NEW n \in DOMAIN NotificationKinds
  PROVE  /\ parse_notification_kind_str(JStr(FullNotificationKinds[n])) = {n}
         /\ parse_notification_kind_str(JStr(NotificationKinds[n])) = {n}
<1>1. DOMAIN NotificationKinds = 1..7 /\ n \in 1..7
  BY DEF NotificationKinds
<1>2. \A i \in 1..7 : i # n => /\ FullNotificationKinds[n] # NotificationKinds[i]
                              /\ FullNotificationKinds[n] # FullNotificationKinds[i]
  BY <1>1 DEF NotificationKinds, FullNotificationKinds
<1>3. \A i \in 1..7 : i # n => /\ NotificationKinds[n] # NotificationKinds[i]
                              /\ NotificationKinds[n] # FullNotificationKinds[i]
  BY <1>1 DEF NotificationKinds, FullNotificationKinds
<1>4. /\ FullNotificationKinds[n] \notin {"UNSPECIFIED", "NOTIFICATION_KIND_UNSPECIFIED"}
      /\ NotificationKinds[n] \notin {"UNSPECIFIED", "NOTIFICATION_KIND_UNSPECIFIED"}
  BY <1>1 DEF NotificationKinds, FullNotificationKinds
<1> QED  BY <1>1, <1>2, <1>3, <1>4, NumberedOne DEF parse_notification_kind_str

\* The channel of a notification, by its full name.
LEMMA NotificationChannelRead ==
  ASSUME NEW n \in DOMAIN NotificationChannels
  PROVE  parse_notification_channel_str(JStr(FullNotificationChannels[n])) = {n}
<1>1. DOMAIN NotificationChannels = 1..4 /\ n \in 1..4
  BY DEF NotificationChannels
<1>2. \A i \in 1..4 : i # n => /\ FullNotificationChannels[n] # NotificationChannels[i]
                              /\ FullNotificationChannels[n] # FullNotificationChannels[i]
  BY <1>1 DEF NotificationChannels, FullNotificationChannels
<1>3. FullNotificationChannels[n] \notin {"UNSPECIFIED", "NOTIFICATION_CHANNEL_UNSPECIFIED"}
  BY <1>1 DEF FullNotificationChannels
<1> QED  BY <1>1, <1>2, <1>3, NumberedOne DEF parse_notification_channel_str

\* A list of kinds by their short names.
LEMMA KindsRead ==
  ASSUME NEW s \in Seq(DOMAIN NotificationKinds)
  PROVE  KnownNames([i \in DOMAIN s |-> JStr(NotificationKinds[s[i]])], parse_notification_kind_str) = s
<1> DEFINE t == [i \in DOMAIN s |-> JStr(NotificationKinds[s[i]])]
           n == Len(s)
<1>1. DOMAIN s = 1..n /\ IsList(s, n) /\ \A i \in 1..n : s[i] \in DOMAIN NotificationKinds
  BY SeqIs
<1>2. IsList(t, n) /\ DOMAIN t = 1..n
  BY <1>1 DEF IsList
<1>3. \A i \in 1..n : parse_notification_kind_str(t[i]) = {s[i]}
  BY <1>1, NotificationKindRead
<1> HIDE DEF t, n
<1>4. {i \in DOMAIN t : parse_notification_kind_str(t[i]) # {}} = 1..n
  BY <1>2, <1>3
<1>5. Picked(t, 1..n) = t
  BY <1>2, PickedAll
<1>6. KnownNames(t, parse_notification_kind_str) =
        [i \in 1..n |-> The(parse_notification_kind_str(t[i]))]
  BY <1>2, <1>4, <1>5 DEF KnownNames
<1>7. \A i \in 1..n : The(parse_notification_kind_str(t[i])) = s[i]
  BY <1>3, TheOne
<1>8. KnownNames(t, parse_notification_kind_str) = [i \in 1..n |-> s[i]]
  BY <1>6, <1>7
<1>9. KnownNames(t, parse_notification_kind_str) = s
  BY <1>1, <1>8 DEF IsList
<1> QED  BY <1>9 DEF t

\* A list of channels by their full names.
LEMMA ChannelsRead ==
  ASSUME NEW s \in Seq(DOMAIN NotificationChannels)
  PROVE  KnownNames([i \in DOMAIN s |-> JStr(FullNotificationChannels[s[i]])],
                    parse_notification_channel_str) = s
<1> DEFINE t == [i \in DOMAIN s |-> JStr(FullNotificationChannels[s[i]])]
           n == Len(s)
<1>1. DOMAIN s = 1..n /\ IsList(s, n) /\ \A i \in 1..n : s[i] \in DOMAIN NotificationChannels
  BY SeqIs
<1>2. IsList(t, n) /\ DOMAIN t = 1..n
  BY <1>1 DEF IsList
<1>3. \A i \in 1..n : parse_notification_channel_str(t[i]) = {s[i]}
  BY <1>1, NotificationChannelRead
<1> HIDE DEF t, n
<1>4. {i \in DOMAIN t : parse_notification_channel_str(t[i]) # {}} = 1..n
  BY <1>2, <1>3
<1>5. Picked(t, 1..n) = t
  BY <1>2, PickedAll
<1>6. KnownNames(t, parse_notification_channel_str)
        = [i \in 1..n |-> The(parse_notification_channel_str(t[i]))]
  BY <1>2, <1>4, <1>5 DEF KnownNames
<1>7. \A i \in 1..n : The(parse_notification_channel_str(t[i])) = s[i]
  BY <1>3, TheOne
<1>8. KnownNames(t, parse_notification_channel_str) = [i \in 1..n |-> s[i]]
  BY <1>6, <1>7
<1>9. KnownNames(t, parse_notification_channel_str) = s
  BY <1>1, <1>8 DEF IsList
<1> QED  BY <1>9 DEF t

\* A time is read as it was written.
LEMMA TimeRead ==
  ASSUME NEW t, t = [seconds |-> t.seconds, nanos |-> t.nanos],
         t.nanos \in 0..(2 * NanosPerSecond - 1)
  PROVE  parse_rfc3339_to_proto(timestamp_to_rfc3339(t)) = {t}
<1> DEFINE w == [time |-> <<t.seconds, t.nanos>>]
<1>1. timestamp_to_rfc3339(t) = w
  BY DEF timestamp_to_rfc3339
<1>2. Is("time", w) /\ w.time[1] = t.seconds /\ w.time[2] = t.nanos
  BY DEF Is
<1> HIDE DEF w
<1>3. parse_rfc3339_to_proto(w) = {[seconds |-> t.seconds, nanos |-> t.nanos]}
  BY <1>2 DEF parse_rfc3339_to_proto
<1> QED  BY <1>1, <1>3

\* The gateway's converters of nodes are written like the service's.
LEMMA SameConverters == node_to_json = stored_node /\ parse_node = json_to_node
<1>1. node_to_json = stored_node
  BY DEF node_to_json, stored_node
<1>2. parse_node = json_to_node
  BY DEF parse_node, json_to_node
<1> QED  BY <1>1, <1>2

\* Content is read as it was written.
LEMMA NodesRead ==
  ASSUME NEW nodes \in Seq(ContentNodes)
  PROVE  parse_nodes(nodes_to_json_array(nodes)) = nodes
<1>1. nodes_to_json_array(nodes) = nodes_to_json(nodes)
  BY SameConverters DEF nodes_to_json_array, nodes_to_json
<1>2. \A v : parse_nodes(v) = json_to_nodes(v)
  BY SameConverters DEF parse_nodes, json_to_nodes
<1> QED  BY <1>1, <1>2, ContentReadBack

\* Properties are read by the kind they name.
LEMMA PropertiesRead ==
  ASSUME NEW p, PropertiesAre(p)
  PROVE  parse_record_event_properties(PropertiesJson(p)) = {p}
<1> DEFINE o == CASE p.kind \in {"impression", "open"} ->
                       [feed_kind |-> JStr(p.feed_kind), position |-> JNum(p.position)]
                  [] p.kind = "dwell" -> [dwell_ms |-> JNum(p.dwell_ms)]
                  [] p.kind = "share" -> [target |-> JStr(p.target)]
                  [] OTHER -> [x \in {} |-> JNull]
           v == PropertiesJson(p)
           given == {i \in DOMAIN PropertyKinds : Has(v, PropertyKinds[i])}
           first == CHOOSE i \in given : \A j \in given : i <= j
<1>1. v = JObj([k \in {p.kind} |-> JObj(o)])
  BY DEF PropertiesJson
<1>2. v.obj[p.kind] = JObj(o) /\ \A k : Has(v, k) <=> k = p.kind
  <2> HIDE DEF o
  <2> QED  BY <1>1 DEF Has, Is, JObj
<1> HIDE DEF v
<1>3. PICK n \in 1..6 : PropertyKinds[n] = p.kind
  <2>1. p.kind \in {"impression", "open", "dwell", "like", "unlike", "share"}
    BY DEF PropertiesAre
  <2> QED  BY <2>1 DEF PropertyKinds
<1>4. \A i \in 1..6 : PropertyKinds[i] = p.kind => i = n
  BY <1>3 DEF PropertyKinds
<1>5. DOMAIN PropertyKinds = 1..6
  BY DEF PropertyKinds
<1>6. given = {n}
  BY <1>2, <1>3, <1>4, <1>5
<1> HIDE DEF given
<1>7. first = n
  BY <1>6
<1> HIDE DEF first
<1> DEFINE kind == PropertyKinds[first]
           x == v.obj[kind]
           read == CASE kind \in {"impression", "open"} ->
                          [kind |-> kind, feed_kind |-> Str(x, "feed_kind"),
                           position |-> Int32(I64(x, "position"))]
                     [] kind = "dwell" -> [kind |-> kind, dwell_ms |-> I64(x, "dwell_ms")]
                     [] kind = "share" -> [kind |-> kind, target |-> Str(x, "target")]
                     [] OTHER -> [kind |-> kind]
<1>8. parse_record_event_properties(v) = {read}
  BY <1>6 DEF parse_record_event_properties, given, first
<1>9. kind = p.kind /\ x = JObj(o)
  BY <1>2, <1>3, <1>7
<1>10. \A f \in DOMAIN o : Holds(JObj(o), f, o[f])
  <2> HIDE DEF o
  <2> QED  BY DEF Holds, Has, Is, JObj
<1>11. read = p
  <2> HIDE DEF kind, x
  <2>1. CASE p.kind \in {"impression", "open"}
    <3>1. p = [kind |-> p.kind, feed_kind |-> p.feed_kind, position |-> p.position]
          /\ Int32(p.position) = p.position
      BY <2>1 DEF PropertiesAre
    <3>2. Holds(JObj(o), "feed_kind", JStr(p.feed_kind)) /\ Holds(JObj(o), "position", JNum(p.position))
      <4>1. o = [feed_kind |-> JStr(p.feed_kind), position |-> JNum(p.position)]
        BY <2>1
      <4> HIDE DEF o
      <4>2. /\ o["feed_kind"] = JStr(p.feed_kind) /\ o["position"] = JNum(p.position)
            /\ "feed_kind" \in DOMAIN o /\ "position" \in DOMAIN o
        BY <4>1
      <4> QED  BY <1>10, <4>2
    <3>3. Str(x, "feed_kind") = p.feed_kind /\ I64(x, "position") = p.position
      BY <1>9, <3>2, StrRead, NumRead
    <3> QED  BY <1>9, <2>1, <3>1, <3>3
  <2>2. CASE p.kind = "dwell"
    <3>1. p = [kind |-> p.kind, dwell_ms |-> p.dwell_ms]
      BY <2>2 DEF PropertiesAre
    <3>2. Holds(JObj(o), "dwell_ms", JNum(p.dwell_ms))
      <4>1. o = [dwell_ms |-> JNum(p.dwell_ms)]
        BY <2>2
      <4> HIDE DEF o
      <4>2. o["dwell_ms"] = JNum(p.dwell_ms) /\ "dwell_ms" \in DOMAIN o
        BY <4>1
      <4> QED  BY <1>10, <4>2
    <3>3. I64(x, "dwell_ms") = p.dwell_ms
      BY <1>9, <3>2, NumRead
    <3> QED  BY <1>9, <2>2, <3>1, <3>3
  <2>3. CASE p.kind = "share"
    <3>1. p = [kind |-> p.kind, target |-> p.target]
      BY <2>3 DEF PropertiesAre
    <3>2. Holds(JObj(o), "target", JStr(p.target))
      <4>1. o = [target |-> JStr(p.target)]
        BY <2>3
      <4> HIDE DEF o
      <4>2. o["target"] = JStr(p.target) /\ "target" \in DOMAIN o
        BY <4>1
      <4> QED  BY <1>10, <4>2
    <3>3. Str(x, "target") = p.target
      BY <1>9, <3>2, StrRead
    <3> QED  BY <1>9, <2>3, <3>1, <3>3
  <2>4. CASE p.kind \in {"like", "unlike"}
    <3>1. p = [kind |-> p.kind]
      BY <2>4 DEF PropertiesAre
    <3> QED  BY <1>9, <2>4, <3>1
  <2> QED  BY <2>1, <2>2, <2>3, <2>4 DEF PropertiesAre
<1> QED  BY <1>8, <1>11 DEF v

-----------------------------------------------------------------------------
(* Objects: what the JSON of a message has in each field, and how the      *)
(* handlers read it.                                                       *)

\* The types of messages, of lists of messages, and the optional types.
MessageTypes == {"PublicKey", "FieldMask", "Account", "User", "ArticleEdit", "Draft",
                 "NotificationPayload", "QuietHours", "NotificationPreferences"}
ListTypes == {"Events", "Notifications"}

\* These are the messages there are.
LEMMA MessagesAre ==
  DOMAIN Message = MessageTypes /\ Optional = MessageTypes \union {"Timestamp", "Properties"}
<1>1. DOMAIN Message = MessageTypes
  BY DEF Message, MessageTypes
<1> QED  BY <1>1 DEF Optional

\* The JSON of a field, by its type.
LEMMA FieldJsonIs ==
  ASSUME NEW v
  PROVE  /\ FieldJson(S, v) = JStr(v) /\ FieldJson("int32", v) = JNum(v)
         /\ FieldJson("bool", v) = JBool(v)
         /\ FieldJson("strings", v) = JArr([i \in DOMAIN v |-> JStr(v[i])])
         /\ FieldJson("Timestamp", v) = timestamp_to_rfc3339(The(v))
         /\ FieldJson("map", v) = JObj([k \in DOMAIN v |-> JStr(v[k])])
         /\ FieldJson("Nodes", v) = nodes_to_json_array(v)
         /\ FieldJson("EventType", v) = JStr(FullEventTypes[v])
         /\ FieldJson("NotificationKind", v) = JStr(FullNotificationKinds[v])
         /\ FieldJson("NotificationKinds", v) = JArr([i \in DOMAIN v |-> JStr(NotificationKinds[v[i]])])
         /\ FieldJson("NotificationChannels", v)
              = JArr([i \in DOMAIN v |-> JStr(FullNotificationChannels[v[i]])])
         /\ FieldJson("Properties", v) = PropertiesJson(The(v))
<1>1. FieldJson(S, v) = JStr(v) /\ FieldJson("int32", v) = JNum(v) /\ FieldJson("bool", v) = JBool(v)
  BY DEF FieldJson, S
<1>2. FieldJson("strings", v) = JArr([i \in DOMAIN v |-> JStr(v[i])])
  BY DEF FieldJson, S, Each
<1>3. FieldJson("Timestamp", v) = timestamp_to_rfc3339(The(v))
  BY DEF FieldJson, S
<1>4. FieldJson("map", v) = JObj([k \in DOMAIN v |-> JStr(v[k])])
  BY DEF FieldJson, S
<1>5. FieldJson("Nodes", v) = nodes_to_json_array(v)
  BY DEF FieldJson, S
<1>6. FieldJson("EventType", v) = JStr(FullEventTypes[v])
  BY DEF FieldJson, S
<1>7. FieldJson("NotificationKind", v) = JStr(FullNotificationKinds[v])
  BY DEF FieldJson, S
<1>8. FieldJson("NotificationKinds", v) = JArr([i \in DOMAIN v |-> JStr(NotificationKinds[v[i]])])
  BY DEF FieldJson, S, Each
<1>9. FieldJson("NotificationChannels", v) =
        JArr([i \in DOMAIN v |-> JStr(FullNotificationChannels[v[i]])])
  BY DEF FieldJson, S, Each
<1>10. FieldJson("Properties", v) = PropertiesJson(The(v))
  BY DEF FieldJson, S
<1> QED  BY <1>1, <1>2, <1>3, <1>4, <1>5, <1>6, <1>7, <1>8, <1>9, <1>10

\* The object v has the fields of m that are set, but for those in `bound`,
\* and those that are no messages as FieldJson makes them.
Written(v, fields, m, bound) ==
  /\ Is("obj", v) /\ DOMAIN v.obj = Given(fields, m) \ bound
  /\ \A k \in DOMAIN v.obj :
       fields[k] \notin MessageTypes \union ListTypes => v.obj[k] = FieldJson(fields[k], m[k])

\* So is the object of a message that holds no other.
LEMMA LeavesWritten ==
  ASSUME NEW fields, NEW m, NEW bound
  PROVE  Written(Object(fields, m, bound, FieldJson), fields, m, bound)
<1> DEFINE g == [f \in Given(fields, m) \ bound |-> FieldJson(fields[f], m[f])]
<1>1. Object(fields, m, bound, FieldJson) = JObj(g)
  BY DEF Object
<1>2. Is("obj", JObj(g)) /\ JObj(g).obj = g
  <2> HIDE DEF g
  <2> QED  BY DEF Is, JObj
<1>3. DOMAIN g = Given(fields, m) \ bound /\ \A k \in DOMAIN g : g[k] = FieldJson(fields[k], m[k])
  OBVIOUS
<1> HIDE DEF g
<1> QED  BY <1>1, <1>2, <1>3 DEF Written

\* And that of one that does; the messages in it are written too.
LEMMA InnersWritten ==
  ASSUME NEW fields, NEW m, NEW bound
  PROVE  /\ Written(Object(fields, m, bound, InnerJson), fields, m, bound)
         /\ \A k \in Given(fields, m) \ bound :
              fields[k] \in MessageTypes =>
                Written(Object(fields, m, bound, InnerJson).obj[k], Message[fields[k]], The(m[k]), {})
<1> DEFINE g == [f \in Given(fields, m) \ bound |-> InnerJson(fields[f], m[f])]
           v == Object(fields, m, bound, InnerJson)
<1>1. v = JObj(g)
  BY DEF Object
<1>2. Is("obj", JObj(g)) /\ JObj(g).obj = g
  <2> HIDE DEF g
  <2> QED  BY DEF Is, JObj
<1>3. DOMAIN g = Given(fields, m) \ bound /\ \A k \in DOMAIN g : g[k] = InnerJson(fields[k], m[k])
  OBVIOUS
<1> HIDE DEF g, v
<1>4. ASSUME NEW k \in DOMAIN g, fields[k] \notin MessageTypes  PROVE g[k] = FieldJson(fields[k], m[k])
  BY <1>3, <1>4, MessagesAre DEF InnerJson
<1>5. ASSUME NEW k \in DOMAIN g, fields[k] \in MessageTypes
      PROVE  Written(g[k], Message[fields[k]], The(m[k]), {})
  <2>1. g[k] = Object(Message[fields[k]], The(m[k]), {}, FieldJson)
    BY <1>3, <1>5, MessagesAre DEF InnerJson
  <2> QED  BY <2>1, LeavesWritten
<1>6. Written(v, fields, m, bound)
  BY <1>1, <1>2, <1>3, <1>4 DEF Written
<1>7. \A k \in Given(fields, m) \ bound :
        fields[k] \in MessageTypes => Written(v.obj[k], Message[fields[k]], The(m[k]), {})
  BY <1>1, <1>2, <1>3, <1>5
<1> QED  BY <1>6, <1>7 DEF v

\* A field that is not optional is there; an optional one if it is set.
LEMMA FieldGiven ==
  ASSUME NEW v, NEW fields, NEW m, NEW bound, Written(v, fields, m, bound),
         NEW k \in DOMAIN fields, k \notin bound
  PROVE  Has(v, k) <=> (fields[k] \in Optional => m[k] # {})
BY DEF Written, Given, Has

\* The value of a field that is no message.
LEMMA FieldWritten ==
  ASSUME NEW v, NEW fields, NEW m, NEW bound, Written(v, fields, m, bound),
         NEW k \in DOMAIN fields, k \notin bound, fields[k] \notin MessageTypes \union ListTypes,
         Has(v, k)
  PROVE  Holds(v, k, FieldJson(fields[k], m[k]))
BY DEF Written, Holds, Has

\* A field of a type that is neither a message nor optional.
LEMMA PlainWritten ==
  ASSUME NEW v, NEW fields, NEW m, NEW bound, Written(v, fields, m, bound),
         NEW k \in DOMAIN fields, k \notin bound,
         fields[k] \notin MessageTypes \union ListTypes \union {"Timestamp", "Properties"}
  PROVE  Holds(v, k, FieldJson(fields[k], m[k]))
<1>1. fields[k] \notin Optional
  BY MessagesAre
<1> QED  BY <1>1, FieldGiven, FieldWritten

\* The field k of the object v is that of the message m, of a type.
WrittenAs(v, fields, m, bound, k, type) ==
  Written(v, fields, m, bound) /\ k \in DOMAIN fields \ bound /\ fields[k] = type

\* A text field.
LEMMA StrField ==
  ASSUME NEW v, NEW fields, NEW m, NEW bound, NEW k, WrittenAs(v, fields, m, bound, k, S)
  PROVE  Str(v, k) = m[k]
<1>1. Holds(v, k, FieldJson(S, m[k]))
  BY PlainWritten DEF WrittenAs, MessageTypes, ListTypes, S
<1>2. FieldJson(S, m[k]) = JStr(m[k])
  BY FieldJsonIs
<1>3. Holds(v, k, JStr(m[k]))
  BY <1>1, <1>2
<1> QED  BY <1>3, StrRead

\* A number that fits its field.
LEMMA NumField ==
  ASSUME NEW v, NEW fields, NEW m, NEW bound, NEW k, WrittenAs(v, fields, m, bound, k, "int32"),
         FieldIs("int32", m[k])
  PROVE  Int32(I64(v, k)) = m[k]
<1>1. Holds(v, k, FieldJson("int32", m[k]))
  BY PlainWritten DEF WrittenAs, MessageTypes, ListTypes
<1>2. FieldJson("int32", m[k]) = JNum(m[k])
  BY FieldJsonIs
<1>3. Holds(v, k, JNum(m[k]))
  BY <1>1, <1>2
<1>4. I64(v, k) = m[k]
  BY <1>3, NumRead
<1> QED  BY <1>4 DEF FieldIs

\* A flag.
LEMMA BoolField ==
  ASSUME NEW v, NEW fields, NEW m, NEW bound, NEW k, WrittenAs(v, fields, m, bound, k, "bool"),
         FieldIs("bool", m[k])
  PROVE  Bool(v, k) = m[k]
<1>1. Holds(v, k, FieldJson("bool", m[k]))
  BY PlainWritten DEF WrittenAs, MessageTypes, ListTypes
<1>2. m[k] \in BOOLEAN
  BY DEF FieldIs
<1> QED  BY <1>1, <1>2, FieldJsonIs, BoolRead

\* A list of texts.
LEMMA StringsField ==
  ASSUME NEW v, NEW fields, NEW m, NEW bound, NEW k, WrittenAs(v, fields, m, bound, k, "strings"),
         FieldIs("strings", m[k])
  PROVE  Strings(ArrayOf(v, k)) = m[k]
<1>1. Holds(v, k, FieldJson("strings", m[k]))
  BY PlainWritten DEF WrittenAs, MessageTypes, ListTypes
<1>2. m[k] \in Seq(STRING)
  BY DEF FieldIs
<1>3. ArrayOf(v, k) = [i \in DOMAIN m[k] |-> JStr(m[k][i])]
  <2> DEFINE list == [i \in DOMAIN m[k] |-> JStr(m[k][i])]
  <2>1. FieldJson("strings", m[k]) = JArr(list)
    BY FieldJsonIs
  <2> HIDE DEF list
  <2>2. Holds(v, k, JArr(list))
    BY <1>1, <2>1
  <2>3. ArrayOf(v, k) = list
    BY <2>2, ArrRead
  <2> QED  BY <2>3 DEF list
<1>4. IsList(m[k], Len(m[k]))
  BY <1>2, SeqIs
<1> QED  BY <1>3, <1>4, StringsRead

\* A map.
LEMMA MapField ==
  ASSUME NEW v, NEW fields, NEW m, NEW bound, NEW k, WrittenAs(v, fields, m, bound, k, "map"),
         FieldIs("map", m[k])
  PROVE  StringMap(v, k) = m[k]
<1>1. Holds(v, k, FieldJson("map", m[k]))
  BY PlainWritten DEF WrittenAs, MessageTypes, ListTypes
<1>2. m[k] = [s \in DOMAIN m[k] |-> m[k][s]]
  BY DEF FieldIs
<1>3. Holds(v, k, JObj([s \in DOMAIN m[k] |-> JStr(m[k][s])]))
  BY <1>1, FieldJsonIs
<1> QED  BY <1>2, <1>3, MapRead

\* Content.
LEMMA NodesField ==
  ASSUME NEW v, NEW fields, NEW m, NEW bound, NEW k, WrittenAs(v, fields, m, bound, k, "Nodes"),
         FieldIs("Nodes", m[k])
  PROVE  Nodes(v, k) = m[k]
<1>1. Holds(v, k, FieldJson("Nodes", m[k]))
  BY PlainWritten DEF WrittenAs, MessageTypes, ListTypes
<1>2. m[k] \in Seq(ContentNodes)
  BY DEF FieldIs
<1>3. Has(v, k) /\ v.obj[k] = nodes_to_json_array(m[k])
  BY <1>1, FieldJsonIs DEF Holds
<1> QED  BY <1>2, <1>3, NodesRead DEF Nodes

\* The type of an event, and the kind of a notification.
LEMMA TypeField ==
  ASSUME NEW v, NEW fields, NEW m, NEW bound, NEW k, WrittenAs(v, fields, m, bound, k, "EventType"),
         FieldIs("EventType", m[k])
  PROVE  Has(v, k) /\ parse_event_type_str(v.obj[k]) = {m[k]}
<1>1. Holds(v, k, FieldJson("EventType", m[k]))
  BY PlainWritten DEF WrittenAs, MessageTypes, ListTypes
<1>2. m[k] \in DOMAIN EventTypes
  BY DEF FieldIs
<1> QED  BY <1>1, <1>2, FieldJsonIs, EventTypeRead DEF Holds

\* A kind of notification, read from its field.
LEMMA KindField ==
  ASSUME NEW v, NEW fields, NEW m, NEW bound, NEW k,
         WrittenAs(v, fields, m, bound, k, "NotificationKind"), FieldIs("NotificationKind", m[k])
  PROVE  Has(v, k) /\ parse_notification_kind_str(v.obj[k]) = {m[k]}
<1>1. Holds(v, k, FieldJson("NotificationKind", m[k]))
  BY PlainWritten DEF WrittenAs, MessageTypes, ListTypes
<1>2. m[k] \in DOMAIN NotificationKinds
  BY DEF FieldIs
<1> QED  BY <1>1, <1>2, FieldJsonIs, NotificationKindRead DEF Holds

\* Lists of kinds and of channels.
LEMMA KindsField ==
  ASSUME NEW v, NEW fields, NEW m, NEW bound, NEW k,
         WrittenAs(v, fields, m, bound, k, "NotificationKinds"), FieldIs("NotificationKinds", m[k])
  PROVE  KnownNames(ArrayOf(v, k), parse_notification_kind_str) = m[k]
<1>1. Holds(v, k, FieldJson("NotificationKinds", m[k]))
  BY PlainWritten DEF WrittenAs, MessageTypes, ListTypes
<1>2. m[k] \in Seq(DOMAIN NotificationKinds)
  BY DEF FieldIs
<1>3. ArrayOf(v, k) = [i \in DOMAIN m[k] |-> JStr(NotificationKinds[m[k][i]])]
  <2> DEFINE list == [i \in DOMAIN m[k] |-> JStr(NotificationKinds[m[k][i]])]
  <2>1. FieldJson("NotificationKinds", m[k]) = JArr(list)
    BY FieldJsonIs
  <2> HIDE DEF list
  <2>2. Holds(v, k, JArr(list))
    BY <1>1, <2>1
  <2>3. ArrayOf(v, k) = list
    BY <2>2, ArrRead
  <2> QED  BY <2>3 DEF list
<1>4. KnownNames([i \in DOMAIN m[k] |-> JStr(NotificationKinds[m[k][i]])], parse_notification_kind_str)
        = m[k]
  BY <1>2, KindsRead
<1> QED  BY <1>3, <1>4

\* The channels of a preference, read from their field.
LEMMA ChannelsField ==
  ASSUME NEW v, NEW fields, NEW m, NEW bound, NEW k,
         WrittenAs(v, fields, m, bound, k, "NotificationChannels"),
         FieldIs("NotificationChannels", m[k])
  PROVE  KnownNames(ArrayOf(v, k), parse_notification_channel_str) = m[k]
<1>1. Holds(v, k, FieldJson("NotificationChannels", m[k]))
  BY PlainWritten DEF WrittenAs, MessageTypes, ListTypes
<1>2. m[k] \in Seq(DOMAIN NotificationChannels)
  BY DEF FieldIs
<1>3. ArrayOf(v, k) = [i \in DOMAIN m[k] |-> JStr(FullNotificationChannels[m[k][i]])]
  <2> DEFINE list == [i \in DOMAIN m[k] |-> JStr(FullNotificationChannels[m[k][i]])]
  <2>1. FieldJson("NotificationChannels", m[k]) = JArr(list)
    BY FieldJsonIs
  <2> HIDE DEF list
  <2>2. Holds(v, k, JArr(list))
    BY <1>1, <2>1
  <2>3. ArrayOf(v, k) = list
    BY <2>2, ArrRead
  <2> QED  BY <2>3 DEF list
<1>4. KnownNames([i \in DOMAIN m[k] |-> JStr(FullNotificationChannels[m[k][i]])],
                 parse_notification_channel_str) = m[k]
  BY <1>2, ChannelsRead
<1> QED  BY <1>3, <1>4

\* A set with at most one element is empty or has The element.
LEMMA OptionalIs ==
  ASSUME NEW x, IsOptional(x), x # {}
  PROVE  x = {The(x)} /\ The(x) \in x
<1>1. PICK y \in x : TRUE
  OBVIOUS
<1>2. x = {y}
  BY DEF IsOptional
<1> QED  BY <1>2, TheOne

\* A time, if there is one.
LEMMA TimeField ==
  ASSUME NEW v, NEW fields, NEW m, NEW bound, NEW k, WrittenAs(v, fields, m, bound, k, "Timestamp"),
         FieldIs("Timestamp", m[k])
  PROVE  (IF Has(v, k) THEN parse_rfc3339_to_proto(v.obj[k]) ELSE {}) = m[k]
<1>1. Has(v, k) <=> m[k] # {}
  BY FieldGiven, MessagesAre DEF WrittenAs
<1>2. CASE m[k] = {}
  BY <1>1, <1>2
<1>3. CASE m[k] # {}
  <2> DEFINE t == The(m[k])
  <2>1. IsOptional(m[k])
    BY DEF FieldIs
  <2>2. m[k] = {t} /\ t \in m[k]
    BY <1>3, <2>1, OptionalIs
  <2>3. t = [seconds |-> t.seconds, nanos |-> t.nanos] /\ t.nanos \in 0..(2 * NanosPerSecond - 1)
    BY <2>2 DEF FieldIs
  <2>4. Holds(v, k, FieldJson("Timestamp", m[k]))
    BY <1>1, <1>3, FieldWritten DEF WrittenAs, MessageTypes, ListTypes
  <2>5. v.obj[k] = timestamp_to_rfc3339(t)
    BY <2>4, FieldJsonIs DEF Holds
  <2> HIDE DEF t
  <2>6. parse_rfc3339_to_proto(v.obj[k]) = {t}
    BY <2>3, <2>5, TimeRead
  <2> QED  BY <1>1, <1>3, <2>2, <2>6
<1> QED  BY <1>2, <1>3

\* Properties, if there are any.
LEMMA PropertiesField ==
  ASSUME NEW v, NEW fields, NEW m, NEW bound, NEW k, WrittenAs(v, fields, m, bound, k, "Properties"),
         FieldIs("Properties", m[k])
  PROVE  (IF Has(v, k) THEN parse_record_event_properties(v.obj[k]) ELSE {}) = m[k]
<1>1. Has(v, k) <=> m[k] # {}
  BY FieldGiven, MessagesAre DEF WrittenAs
<1>2. CASE m[k] = {}
  BY <1>1, <1>2
<1>3. CASE m[k] # {}
  <2> DEFINE p == The(m[k])
  <2>1. IsOptional(m[k])
    BY DEF FieldIs
  <2>2. m[k] = {p} /\ p \in m[k]
    BY <1>3, <2>1, OptionalIs
  <2>3. PropertiesAre(p)
    BY <2>2 DEF FieldIs
  <2>4. Holds(v, k, FieldJson("Properties", m[k]))
    BY <1>1, <1>3, FieldWritten DEF WrittenAs, MessageTypes, ListTypes
  <2>5. v.obj[k] = PropertiesJson(p)
    BY <2>4, FieldJsonIs DEF Holds
  <2> HIDE DEF p
  <2>6. parse_record_event_properties(v.obj[k]) = {p}
    BY <2>3, <2>5, PropertiesRead
  <2> QED  BY <1>1, <1>3, <2>2, <2>6
<1> QED  BY <1>2, <1>3

-----------------------------------------------------------------------------
(* Messages: each parser of the gateway rebuilds the message whose JSON it *)
(* is given.                                                               *)

\* The fields of m that are no messages have values of their types.
Leaves(fields, m) ==
  /\ m = [f \in DOMAIN fields |-> m[f]]
  /\ \A f \in DOMAIN fields : fields[f] \notin MessageTypes \union ListTypes => FieldIs(fields[f], m[f])

\* The object v is the message m, and holds the messages that m holds.
Inside(v, fields, m, bound) ==
  /\ Written(v, fields, m, bound) /\ Leaves(fields, m)
  /\ \A k \in DOMAIN fields \ bound :
       fields[k] \in MessageTypes =>
         /\ IsOptional(m[k])
         /\ m[k] # {} => /\ Written(v.obj[k], Message[fields[k]], The(m[k]), {})
                         /\ Leaves(Message[fields[k]], The(m[k]))

\* A message of leaves only, and one with messages in it, have such leaves.
LEMMA LeavesAre ==
  ASSUME NEW fields, NEW m
  PROVE  /\ FieldsAre(fields, m, FieldIs) => Leaves(fields, m)
         /\ FieldsAre(fields, m, InnerIs) => Leaves(fields, m)
<1>1. ASSUME FieldsAre(fields, m, FieldIs)  PROVE Leaves(fields, m)
  BY <1>1 DEF FieldsAre, Leaves
<1>2. ASSUME FieldsAre(fields, m, InnerIs)  PROVE Leaves(fields, m)
  <2>1. m = [f \in DOMAIN fields |-> m[f]] /\ \A f \in DOMAIN fields : InnerIs(fields[f], m[f])
    BY <1>2 DEF FieldsAre
  <2>2. \A f \in DOMAIN fields : fields[f] \notin MessageTypes => FieldIs(fields[f], m[f])
    BY <2>1, MessagesAre DEF InnerIs
  <2> QED  BY <2>1, <2>2 DEF Leaves
<1> QED  BY <1>1, <1>2

\* What a client writes of a message is that message.
LEMMA InsideWritten ==
  ASSUME NEW fields, NEW m, NEW bound, FieldsAre(fields, m, InnerIs)
  PROVE  Inside(Object(fields, m, bound, InnerJson), fields, m, bound)
<1> DEFINE v == Object(fields, m, bound, InnerJson)
<1>1. Leaves(fields, m)
  BY LeavesAre
<1>2. /\ Written(v, fields, m, bound)
      /\ \A k \in Given(fields, m) \ bound :
           fields[k] \in MessageTypes => Written(v.obj[k], Message[fields[k]], The(m[k]), {})
  BY InnersWritten
<1>3. \A f \in DOMAIN fields : InnerIs(fields[f], m[f])
  BY DEF FieldsAre
<1> HIDE DEF v
<1>4. ASSUME NEW k \in DOMAIN fields \ bound, fields[k] \in MessageTypes
      PROVE  /\ IsOptional(m[k])
             /\ m[k] # {} => /\ Written(v.obj[k], Message[fields[k]], The(m[k]), {})
                             /\ Leaves(Message[fields[k]], The(m[k]))
  <2>1. IsOptional(m[k]) /\ \A x \in m[k] : FieldsAre(Message[fields[k]], x, FieldIs)
    BY <1>3, <1>4, MessagesAre DEF InnerIs
  <2>2. ASSUME m[k] # {}  PROVE Leaves(Message[fields[k]], The(m[k]))
    <3>1. The(m[k]) \in m[k]
      BY <2>1, <2>2, OptionalIs
    <3> QED  BY <2>1, <3>1, LeavesAre
  <2>3. m[k] # {} => k \in Given(fields, m) \ bound
    BY DEF Given
  <2> QED  BY <1>2, <1>4, <2>1, <2>2, <2>3
<1> QED  BY <1>1, <1>2, <1>4 DEF Inside, v

\* The same of a message of leaves.
LEMMA LeavesInside ==
  ASSUME NEW fields, NEW m, NEW bound, FieldsAre(fields, m, FieldIs),
         \A k \in DOMAIN fields : fields[k] \notin MessageTypes
  PROVE  Inside(Object(fields, m, bound, FieldJson), fields, m, bound)
BY LeavesAre, LeavesWritten DEF Inside

\* The messages inside requests and their fields.
LEMMA MessageFields ==
  /\ Message["PublicKey"] = [algo |-> S, public_key |-> S]
  /\ Message["FieldMask"] = [paths |-> "strings"]
  /\ Message["User"] = [id |-> S, display_name |-> S]
  /\ Message["ArticleEdit"] = ContentFields
  /\ Message["Draft"] = With(ContentFields, [id |-> S])
  /\ Message["NotificationPayload"] = [title |-> S, body |-> S, image_url |-> S, data |-> "map"]
  /\ Message["QuietHours"] = [enabled |-> "bool", timezone |-> S, start_hour |-> "int32",
                              end_hour |-> "int32"]
  /\ Message["NotificationPreferences"] =
       [user_id |-> S, disabled_channels |-> "NotificationChannels",
        disabled_kinds |-> "NotificationKinds", quiet_hours |-> "QuietHours"]
BY DEF Message

\* A key.
LEMMA PublicKeyRead ==
  ASSUME NEW v, NEW m, NEW bound, bound \intersect {"algo", "public_key"} = {},
         Written(v, Message["PublicKey"], m, bound), Leaves(Message["PublicKey"], m)
  PROVE  parse_public_key(v) = m
<1> DEFINE fields == Message["PublicKey"]
<1>1. /\ DOMAIN fields = {"algo", "public_key"} /\ fields["algo"] = S /\ fields["public_key"] = S
  BY MessageFields
<1> HIDE DEF fields
<1>2. Written(v, fields, m, bound) /\ m = [f \in {"algo", "public_key"} |-> m[f]]
  BY <1>1 DEF Leaves, fields
<1>3. Str(v, "algo") = m["algo"]
  BY <1>1, <1>2, StrField DEF WrittenAs
<1>4. Str(v, "public_key") = m["public_key"]
  BY <1>1, <1>2, StrField DEF WrittenAs
<1> QED  BY <1>2, <1>3, <1>4 DEF parse_public_key

\* A mask.
LEMMA FieldMaskRead ==
  ASSUME NEW v, NEW m, NEW bound, "paths" \notin bound,
         Written(v, Message["FieldMask"], m, bound), Leaves(Message["FieldMask"], m)
  PROVE  parse_field_mask(v) = m
<1> DEFINE fields == Message["FieldMask"]
<1>1. /\ DOMAIN fields = {"paths"} /\ fields["paths"] = "strings"
  BY MessageFields
<1> HIDE DEF fields
<1>2. Written(v, fields, m, bound) /\ m = [f \in {"paths"} |-> m[f]] /\ FieldIs("strings", m["paths"])
  BY <1>1 DEF Leaves, fields, MessageTypes, ListTypes
<1>3. WrittenAs(v, fields, m, bound, "paths", "strings")
  BY <1>1, <1>2 DEF WrittenAs
<1>4. Strings(ArrayOf(v, "paths")) = m["paths"]
  BY <1>2, <1>3, StringsField
<1> QED  BY <1>2, <1>4 DEF parse_field_mask

\* The text of an article or a draft, among other fields.
LEMMA TextFields ==
  ASSUME NEW v, NEW fields, NEW m, NEW bound, Written(v, fields, m, bound), Leaves(fields, m),
         DOMAIN ContentFields \subseteq DOMAIN fields \ bound,
         \A f \in DOMAIN ContentFields : fields[f] = ContentFields[f]
  PROVE  Text(v) = [f \in DOMAIN ContentFields |-> m[f]]
<1>1. /\ DOMAIN ContentFields = {"title", "author_name", "author_url", "content"}
      /\ ContentFields["title"] = S /\ ContentFields["author_name"] = S
      /\ ContentFields["author_url"] = S /\ ContentFields["content"] = "Nodes"
  BY DEF ContentFields
<1>2. /\ WrittenAs(v, fields, m, bound, "title", S) /\ WrittenAs(v, fields, m, bound, "author_name", S)
      /\ WrittenAs(v, fields, m, bound, "author_url", S)
      /\ WrittenAs(v, fields, m, bound, "content", "Nodes")
  BY <1>1 DEF WrittenAs
<1>3. Str(v, "title") = m["title"]
  BY <1>2, StrField
<1>4. Str(v, "author_name") = m["author_name"]
  BY <1>2, StrField
<1>5. Str(v, "author_url") = m["author_url"]
  BY <1>2, StrField
<1>6. FieldIs("Nodes", m["content"])
  BY <1>1 DEF Leaves, MessageTypes, ListTypes
<1>7. Nodes(v, "content") = m["content"]
  BY <1>2, <1>6, NodesField
<1> QED  BY <1>1, <1>3, <1>4, <1>5, <1>7 DEF Text

\* An edit of an article.
LEMMA EditRead ==
  ASSUME NEW v, NEW m, NEW bound, bound \intersect DOMAIN ContentFields = {},
         Written(v, Message["ArticleEdit"], m, bound), Leaves(Message["ArticleEdit"], m)
  PROVE  Text(v) = m
<1> DEFINE fields == Message["ArticleEdit"]
<1>1. fields = ContentFields
  BY MessageFields
<1> HIDE DEF fields
<1>2. Written(v, fields, m, bound) /\ Leaves(fields, m)
  BY DEF fields
<1>3. Text(v) = [f \in DOMAIN ContentFields |-> m[f]]
  BY <1>1, <1>2, TextFields
<1>4. m = [f \in DOMAIN ContentFields |-> m[f]]
  BY <1>1, <1>2 DEF Leaves
<1> QED  BY <1>3, <1>4

\* A draft: its id is in the path.
LEMMA DraftRead ==
  ASSUME NEW v, NEW m, NEW id, m["id"] = id,
         Written(v, Message["Draft"], m, {"id"}), Leaves(Message["Draft"], m)
  PROVE  With(Text(v), [id |-> id]) = m
<1> DEFINE fields == Message["Draft"]
           all == {"title", "author_name", "author_url", "content", "id"}
<1>1. DOMAIN ContentFields = {"title", "author_name", "author_url", "content"}
  BY DEF ContentFields
<1>2. /\ DOMAIN fields = all
      /\ \A f \in DOMAIN ContentFields : fields[f] = ContentFields[f]
  BY <1>1, MessageFields DEF With
<1> HIDE DEF fields
<1>3. Written(v, fields, m, {"id"}) /\ Leaves(fields, m)
  BY DEF fields
<1>4. Text(v) = [f \in DOMAIN ContentFields |-> m[f]]
  BY <1>1, <1>2, <1>3, TextFields
<1>5. m = [f \in all |-> m[f]]
  BY <1>2, <1>3 DEF Leaves
<1>6. With(Text(v), [id |-> id]) = [f \in all |-> m[f]]
  BY <1>1, <1>4 DEF With
<1> QED  BY <1>5, <1>6

\* The payload of a notification.
LEMMA PayloadRead ==
  ASSUME NEW v, NEW m, Written(v, Message["NotificationPayload"], m, {}),
         Leaves(Message["NotificationPayload"], m)
  PROVE  parse_notification_payload(v) = m
<1> DEFINE fields == Message["NotificationPayload"]
           all == {"title", "body", "image_url", "data"}
<1>1. /\ DOMAIN fields = all
      /\ fields["title"] = S /\ fields["body"] = S /\ fields["image_url"] = S /\ fields["data"] = "map"
  BY MessageFields
<1> HIDE DEF fields
<1>2. Written(v, fields, m, {}) /\ m = [f \in all |-> m[f]] /\ FieldIs("map", m["data"])
  BY <1>1 DEF Leaves, fields, MessageTypes, ListTypes
<1>3. /\ WrittenAs(v, fields, m, {}, "title", S) /\ WrittenAs(v, fields, m, {}, "body", S)
      /\ WrittenAs(v, fields, m, {}, "image_url", S) /\ WrittenAs(v, fields, m, {}, "data", "map")
  BY <1>1, <1>2 DEF WrittenAs
<1>4. Str(v, "title") = m["title"]
  BY <1>3, StrField
<1>5. Str(v, "body") = m["body"]
  BY <1>3, StrField
<1>6. Str(v, "image_url") = m["image_url"]
  BY <1>3, StrField
<1>7. StringMap(v, "data") = m["data"]
  BY <1>2, <1>3, MapField
<1> QED  BY <1>2, <1>4, <1>5, <1>6, <1>7 DEF parse_notification_payload

\* Quiet hours.
LEMMA QuietHoursRead ==
  ASSUME NEW v, NEW m, Written(v, Message["QuietHours"], m, {}), Leaves(Message["QuietHours"], m)
  PROVE  parse_quiet_hours(v) = m
<1> DEFINE fields == Message["QuietHours"]
           all == {"enabled", "timezone", "start_hour", "end_hour"}
<1>1. /\ DOMAIN fields = all /\ fields["enabled"] = "bool" /\ fields["timezone"] = S
      /\ fields["start_hour"] = "int32" /\ fields["end_hour"] = "int32"
  BY MessageFields
<1> HIDE DEF fields
<1>2. /\ Written(v, fields, m, {}) /\ m = [f \in all |-> m[f]] /\ FieldIs("bool", m["enabled"])
      /\ FieldIs("int32", m["start_hour"]) /\ FieldIs("int32", m["end_hour"])
  BY <1>1 DEF Leaves, fields, MessageTypes, ListTypes
<1>3. /\ WrittenAs(v, fields, m, {}, "enabled", "bool") /\ WrittenAs(v, fields, m, {}, "timezone", S)
      /\ WrittenAs(v, fields, m, {}, "start_hour", "int32") /\
           WrittenAs(v, fields, m, {}, "end_hour", "int32")
  BY <1>1, <1>2 DEF WrittenAs
<1>4. Bool(v, "enabled") = m["enabled"]
  BY <1>2, <1>3, BoolField
<1>5. Str(v, "timezone") = m["timezone"]
  BY <1>3, StrField
<1>6. Int32(I64(v, "start_hour")) = m["start_hour"]
  BY <1>2, <1>3, NumField
<1>7. Int32(I64(v, "end_hour")) = m["end_hour"]
  BY <1>2, <1>3, NumField
<1> QED  BY <1>2, <1>4, <1>5, <1>6, <1>7 DEF parse_quiet_hours

\* An event.
LEMMA EventRead ==
  ASSUME NEW v, NEW m, Written(v, EventFields, m, {}), Leaves(EventFields, m)
  PROVE  parse_record_event_request(v) = m
<1> DEFINE fields == EventFields
           all == {"user_id", "article_id", "type", "occurred_at", "surface", "properties"}
<1>1. /\ DOMAIN fields = all /\ fields["user_id"] = S /\ fields["article_id"] = S
      /\ fields["type"] = "EventType" /\ fields["occurred_at"] = "Timestamp"
      /\ fields["surface"] = S /\ fields["properties"] = "Properties"
  BY DEF EventFields
<1> HIDE DEF fields
<1>2. /\ Written(v, fields, m, {}) /\ m = [f \in all |-> m[f]] /\ FieldIs("EventType", m["type"])
      /\ FieldIs("Timestamp", m["occurred_at"]) /\ FieldIs("Properties", m["properties"])
  BY <1>1 DEF Leaves, fields, MessageTypes, ListTypes
<1>3. /\ WrittenAs(v, fields, m, {}, "user_id", S) /\ WrittenAs(v, fields, m, {}, "article_id", S)
      /\ WrittenAs(v, fields, m, {}, "type", "EventType") /\ WrittenAs(v, fields, m, {}, "surface", S)
      /\ WrittenAs(v, fields, m, {}, "occurred_at", "Timestamp")
      /\ WrittenAs(v, fields, m, {}, "properties", "Properties")
  BY <1>1, <1>2 DEF WrittenAs
<1>4. Str(v, "user_id") = m["user_id"]
  BY <1>3, StrField
<1>5. Str(v, "article_id") = m["article_id"]
  BY <1>3, StrField
<1>6. Str(v, "surface") = m["surface"]
  BY <1>3, StrField
<1>7. Has(v, "type") /\ parse_event_type_str(v.obj["type"]) = {m["type"]}
  BY <1>2, <1>3, TypeField
<1>8. The({m["type"]}) = m["type"]
  BY TheOne
<1> DEFINE time == IF Has(v, "occurred_at") THEN parse_rfc3339_to_proto(v.obj["occurred_at"]) ELSE {}
           properties == IF Has(v, "properties")
                         THEN parse_record_event_properties(v.obj["properties"]) ELSE {}
<1>9. time = m["occurred_at"]
  BY <1>2, <1>3, TimeField
<1>10. properties = m["properties"]
  BY <1>2, <1>3, PropertiesField
<1> HIDE DEF time, properties
<1>11. parse_record_event_request(v) =
         [user_id |-> m["user_id"], article_id |-> m["article_id"], type |-> m["type"],
          occurred_at |-> time, surface |-> m["surface"], properties |-> properties]
  BY <1>4, <1>5, <1>6, <1>7, <1>8 DEF parse_record_event_request, time, properties
<1> QED  BY <1>2, <1>9, <1>10, <1>11

\* A notification, with its payload if it has one.
LEMMA NotificationRead ==
  ASSUME NEW v, NEW m, Inside(v, Notification, m, {})
  PROVE  parse_send_notification_request(v) = m
<1> DEFINE fields == Notification
           all == {"idempotency_key", "user_id", "article_id", "kind", "channels", "payload"}
<1>1. /\ DOMAIN fields = all /\ fields["idempotency_key"] = S /\ fields["user_id"] = S
      /\ fields["article_id"] = S /\ fields["kind"] = "NotificationKind"
      /\ fields["channels"] = "NotificationChannels" /\ fields["payload"] = "NotificationPayload"
  BY DEF Notification
<1> HIDE DEF fields
<1>2. /\ Written(v, fields, m, {}) /\ m = [f \in all |-> m[f]] /\ FieldIs("NotificationKind", m["kind"])
      /\ FieldIs("NotificationChannels", m["channels"])
  BY <1>1 DEF Leaves, Inside, fields, MessageTypes, ListTypes
<1>3. /\ WrittenAs(v, fields, m, {}, "idempotency_key", S) /\ WrittenAs(v, fields, m, {}, "user_id", S)
      /\ WrittenAs(v, fields, m, {}, "article_id", S)
      /\ WrittenAs(v, fields, m, {}, "kind", "NotificationKind")
      /\ WrittenAs(v, fields, m, {}, "channels", "NotificationChannels")
  BY <1>1, <1>2 DEF WrittenAs
<1>4. Str(v, "idempotency_key") = m["idempotency_key"]
  BY <1>3, StrField
<1>5. Str(v, "user_id") = m["user_id"]
  BY <1>3, StrField
<1>6. Str(v, "article_id") = m["article_id"]
  BY <1>3, StrField
<1>7. Has(v, "kind") /\ parse_notification_kind_str(v.obj["kind"]) = {m["kind"]}
  BY <1>2, <1>3, KindField
<1>8. The({m["kind"]}) = m["kind"]
  BY TheOne
<1> DEFINE channels == KnownNames(ArrayOf(v, "channels"), parse_notification_channel_str)
           payload == Opt(v, "payload", parse_notification_payload)
<1>9. channels = m["channels"]
  BY <1>2, <1>3, ChannelsField
<1>10. payload = m["payload"]
  <2>1. Has(v, "payload") <=> m["payload"] # {}
    BY <1>1, <1>2, FieldGiven, MessagesAre DEF MessageTypes
  <2>2. CASE m["payload"] = {}
    BY <2>1, <2>2 DEF Opt
  <2>3. CASE m["payload"] # {}
    <3>1. IsOptional(m["payload"])
      BY <1>1 DEF Inside, fields, MessageTypes
    <3>2. /\ Written(v.obj["payload"], Message["NotificationPayload"], The(m["payload"]), {})
          /\ Leaves(Message["NotificationPayload"], The(m["payload"]))
      BY <1>1, <2>3 DEF Inside, fields, MessageTypes
    <3>3. parse_notification_payload(v.obj["payload"]) = The(m["payload"])
      BY <3>2, PayloadRead
    <3>4. m["payload"] = {The(m["payload"])}
      BY <2>3, <3>1, OptionalIs
    <3> QED  BY <2>1, <2>3, <3>3, <3>4 DEF Opt
  <2> QED  BY <2>2, <2>3
<1> HIDE DEF channels, payload
<1>11. parse_send_notification_request(v) =
         [idempotency_key |-> m["idempotency_key"], user_id |-> m["user_id"],
          article_id |-> m["article_id"], kind |-> m["kind"], channels |-> channels,
          payload |-> payload]
  BY <1>4, <1>5, <1>6, <1>7, <1>8 DEF parse_send_notification_request, channels, payload
<1> QED  BY <1>2, <1>9, <1>10, <1>11

\* The preferences of a user: whose they are is in the path.
LEMMA PreferencesRead ==
  ASSUME NEW v, NEW m, NEW id, m["user_id"] = id,
         Inside(v, Message["NotificationPreferences"], m, {"user_id"})
  PROVE  With(parse_notification_preferences(v), [user_id |-> id]) = m
<1> DEFINE fields == Message["NotificationPreferences"]
           bound == {"user_id"}
           all == {"user_id", "quiet_hours", "disabled_channels", "disabled_kinds"}
<1>1. /\ DOMAIN fields = all /\ fields["disabled_channels"] = "NotificationChannels"
      /\ fields["disabled_kinds"] = "NotificationKinds" /\ fields["quiet_hours"] = "QuietHours"
  BY MessageFields
<1> HIDE DEF fields
<1>2. /\ Written(v, fields, m, bound) /\ m = [f \in all |-> m[f]]
      /\ FieldIs("NotificationChannels", m["disabled_channels"])
      /\ FieldIs("NotificationKinds", m["disabled_kinds"])
  BY <1>1 DEF Leaves, Inside, fields, MessageTypes, ListTypes
<1>3. /\ WrittenAs(v, fields, m, bound, "disabled_channels", "NotificationChannels")
      /\ WrittenAs(v, fields, m, bound, "disabled_kinds", "NotificationKinds")
  BY <1>1, <1>2 DEF WrittenAs
<1> DEFINE channels == KnownNames(ArrayOf(v, "disabled_channels"), parse_notification_channel_str)
           kinds == KnownNames(ArrayOf(v, "disabled_kinds"), parse_notification_kind_str)
           quiet == Opt(v, "quiet_hours", parse_quiet_hours)
<1>4. channels = m["disabled_channels"]
  BY <1>2, <1>3, ChannelsField
<1>5. kinds = m["disabled_kinds"]
  BY <1>2, <1>3, KindsField
<1>6. quiet = m["quiet_hours"]
  <2>1. Has(v, "quiet_hours") <=> m["quiet_hours"] # {}
    BY <1>1, <1>2, FieldGiven, MessagesAre DEF MessageTypes
  <2>2. CASE m["quiet_hours"] = {}
    BY <2>1, <2>2 DEF Opt
  <2>3. CASE m["quiet_hours"] # {}
    <3>1. IsOptional(m["quiet_hours"])
      BY <1>1 DEF Inside, fields, MessageTypes
    <3>2. /\ Written(v.obj["quiet_hours"], Message["QuietHours"], The(m["quiet_hours"]), {})
          /\ Leaves(Message["QuietHours"], The(m["quiet_hours"]))
      BY <1>1, <2>3 DEF Inside, fields, MessageTypes
    <3>3. parse_quiet_hours(v.obj["quiet_hours"]) = The(m["quiet_hours"])
      BY <3>2, QuietHoursRead
    <3>4. m["quiet_hours"] = {The(m["quiet_hours"])}
      BY <2>3, <3>1, OptionalIs
    <3> QED  BY <2>1, <2>3, <3>3, <3>4 DEF Opt
  <2> QED  BY <2>2, <2>3
<1> HIDE DEF channels, kinds, quiet
<1>7. parse_notification_preferences(v) =
        [user_id |-> "", quiet_hours |-> quiet, disabled_channels |-> channels,
         disabled_kinds |-> kinds]
  BY DEF parse_notification_preferences, channels, kinds, quiet
<1>8. With(parse_notification_preferences(v), [user_id |-> id]) = [f \in all |-> m[f]]
  <2> DEFINE p == parse_notification_preferences(v)
             x == [user_id |-> id]
  <2>1. /\ DOMAIN p = all /\ p["quiet_hours"] = m["quiet_hours"]
        /\ p["disabled_channels"] = m["disabled_channels"] /\ p["disabled_kinds"] = m["disabled_kinds"]
    <3>1. p = [user_id |-> "", quiet_hours |-> quiet, disabled_channels |-> channels,
               disabled_kinds |-> kinds]
      BY <1>7
    <3> HIDE DEF p
    <3>2. DOMAIN p = all
      BY <3>1
    <3>3. p["quiet_hours"] = quiet /\ p["disabled_channels"] = channels /\ p["disabled_kinds"] = kinds
      BY <3>1
    <3> QED  BY <1>4, <1>5, <1>6, <3>2, <3>3
  <2>2. DOMAIN x = {"user_id"} /\ x["user_id"] = m["user_id"]
    OBVIOUS
  <2> HIDE DEF p, x
  <2>3. DOMAIN p \union DOMAIN x = all
    BY <2>1, <2>2
  <2>4. \A k \in all : (IF k \in DOMAIN x THEN x[k] ELSE p[k]) = m[k]
    BY <2>1, <2>2
  <2>5. With(p, x) = [f \in all |-> m[f]]
    BY <2>3, <2>4 DEF With
  <2> QED  BY <2>5 DEF p, x
<1> QED  BY <1>2, <1>8

-----------------------------------------------------------------------------
(* Requests: how the protocol lays a message out over the path, the query  *)
(* and the body.                                                           *)

\* The method of an RPC, the fields its path binds and those of its message.
Ruled(rpc, method, bound, fields) ==
  /\ rpc \in DOMAIN Service
  /\ Service[rpc].method = method /\ Service[rpc].bound = bound /\ Service[rpc].fields = fields

\* The four tables name different RPCs.
LEMMA TablesApart ==
  /\ DOMAIN AccountAndUserRpcs = {"CreateAccount", "GetAccount", "UpdateAccount", "DeleteAccount",
                                  "AddAccountKey", "RevokeAccountKey", "CreateUser", "GetUser",
                                  "UpdateUser", "DeleteUser", "AddUserKey", "RevokeUserKey"}
  /\ DOMAIN ContentRpcs = {"PublishArticle", "GetArticle", "ListAccountArticles", "EditArticle",
                           "TombstoneArticle", "RedactArticleVersion", "CreateDraft", "GetDraft",
                           "UpdateDraft", "DeleteDraft", "ListAccountDrafts", "PublishDraft"}
  /\ DOMAIN FollowAndFeedRpcs = {"Follow", "Unfollow", "GetFollow", "ListUserFollows",
                                 "ListAccountFollowers", "ReplaceRecommendationFeed",
                                 "GetRecommendationFeed", "GetFollowFeed", "StreamAccountArticles"}
  /\ DOMAIN EventAndNotificationRpcs =
       {"RecordEvent", "RecordEventBatch", "ListEvents", "SendNotification",
        "SendNotificationBatch", "ListUserNotifications", "MarkNotificationRead",
        "MarkAllUserNotificationsRead", "GetUserNotificationPreferences",
        "UpdateUserNotificationPreferences"}
<1>1. DOMAIN AccountAndUserRpcs = {"CreateAccount", "GetAccount", "UpdateAccount", "DeleteAccount",
                                   "AddAccountKey", "RevokeAccountKey", "CreateUser", "GetUser",
                                   "UpdateUser", "DeleteUser", "AddUserKey", "RevokeUserKey"}
  BY DEF AccountAndUserRpcs
<1>2. DOMAIN ContentRpcs = {"PublishArticle", "GetArticle", "ListAccountArticles", "EditArticle",
                            "TombstoneArticle", "RedactArticleVersion", "CreateDraft", "GetDraft",
                            "UpdateDraft", "DeleteDraft", "ListAccountDrafts", "PublishDraft"}
  BY DEF ContentRpcs
<1>3. DOMAIN FollowAndFeedRpcs = {"Follow", "Unfollow", "GetFollow", "ListUserFollows",
                                  "ListAccountFollowers", "ReplaceRecommendationFeed",
                                  "GetRecommendationFeed", "GetFollowFeed", "StreamAccountArticles"}
  BY DEF FollowAndFeedRpcs
<1>4. DOMAIN EventAndNotificationRpcs =
        {"RecordEvent", "RecordEventBatch", "ListEvents", "SendNotification",
         "SendNotificationBatch", "ListUserNotifications", "MarkNotificationRead",
         "MarkAllUserNotificationsRead", "GetUserNotificationPreferences",
         "UpdateUserNotificationPreferences"}
  BY DEF EventAndNotificationRpcs
<1> QED  BY <1>1, <1>2, <1>3, <1>4

\* An RPC has the rule of its table.
LEMMA RulesIn ==
  /\ \A rpc \in DOMAIN AccountAndUserRpcs : rpc \in DOMAIN Service /\ Service[rpc] =
       AccountAndUserRpcs[rpc]
  /\ \A rpc \in DOMAIN ContentRpcs : rpc \in DOMAIN Service /\ Service[rpc] = ContentRpcs[rpc]
  /\ \A rpc \in DOMAIN FollowAndFeedRpcs : rpc \in DOMAIN Service /\ Service[rpc] =
       FollowAndFeedRpcs[rpc]
  /\ \A rpc \in DOMAIN EventAndNotificationRpcs :
       rpc \in DOMAIN Service /\ Service[rpc] = EventAndNotificationRpcs[rpc]
<1> DEFINE a == AccountAndUserRpcs
           b == ContentRpcs
           c == FollowAndFeedRpcs
           d == EventAndNotificationRpcs
<1>1. /\ DOMAIN a \intersect DOMAIN b = {} /\ DOMAIN a \intersect DOMAIN c = {}
      /\ DOMAIN a \intersect DOMAIN d = {} /\ DOMAIN b \intersect DOMAIN c = {}
      /\ DOMAIN b \intersect DOMAIN d = {} /\ DOMAIN c \intersect DOMAIN d = {}
  BY TablesApart
<1>2. Service = With(With(a, b), With(c, d))
  BY DEF Service
<1> HIDE DEF a, b, c, d
<1>3. DOMAIN With(c, d) = DOMAIN c \union DOMAIN d
  BY DEF With
<1>4. ASSUME NEW rpc \in DOMAIN a  PROVE rpc \in DOMAIN Service /\ Service[rpc] = a[rpc]
  <2>1. With(a, b)[rpc] = a[rpc] /\ rpc \in DOMAIN With(a, b) /\ rpc \notin DOMAIN With(c, d)
    BY <1>1, <1>3, WithUnder
  <2> QED  BY <1>2, <2>1, WithUnder
<1>5. ASSUME NEW rpc \in DOMAIN b  PROVE rpc \in DOMAIN Service /\ Service[rpc] = b[rpc]
  <2>1. With(a, b)[rpc] = b[rpc] /\ rpc \in DOMAIN With(a, b) /\ rpc \notin DOMAIN With(c, d)
    BY <1>1, <1>3, WithOver
  <2> QED  BY <1>2, <2>1, WithUnder
<1>6. ASSUME NEW rpc \in DOMAIN c  PROVE rpc \in DOMAIN Service /\ Service[rpc] = c[rpc]
  <2>1. With(c, d)[rpc] = c[rpc] /\ rpc \in DOMAIN With(c, d)
    BY <1>1, WithUnder
  <2> QED  BY <1>2, <2>1, WithOver
<1>7. ASSUME NEW rpc \in DOMAIN d  PROVE rpc \in DOMAIN Service /\ Service[rpc] = d[rpc]
  <2>1. With(c, d)[rpc] = d[rpc] /\ rpc \in DOMAIN With(c, d)
    BY WithOver
  <2> QED  BY <1>2, <2>1, WithOver
<1> QED  BY <1>4, <1>5, <1>6, <1>7 DEF a, b, c, d

\* The rules of the RPCs of accounts and users that have routes.
LEMMA AccountRules ==
  /\ Ruled("CreateAccount", "POST", <<>>,
           [short_name |-> S, author_name |-> S, author_url |-> S, initial_key |-> "PublicKey"])
  /\ Ruled("GetAccount", "GET", <<"id">>, Id)
  /\ Ruled("CreateUser", "POST", <<>>, [display_name |-> S, initial_key |-> "PublicKey"])
  /\ Ruled("GetUser", "GET", <<"id">>, Id)
  /\ Ruled("UpdateUser", "PATCH", <<"id">>, [user |-> "User", update_mask |-> "FieldMask"])
  /\ Ruled("DeleteUser", "DELETE", <<"id">>, Id)
  /\ Ruled("AddUserKey", "POST", <<"user_id">>, [user_id |-> S, key |-> "PublicKey"])
  /\ Ruled("RevokeUserKey", "POST", <<"user_id", "key_id">>, [user_id |-> S, key_id |-> S])
<1>1. Ruled("CreateAccount", "POST", <<>>,
            [short_name |-> S, author_name |-> S, author_url |-> S, initial_key |-> "PublicKey"])
  <2> DEFINE path == "/v1/accounts"
  <2> HIDE DEF path
  <2>1. AccountAndUserRpcs["CreateAccount"] =
          Rpc("POST", path, <<>>, [short_name |-> S, author_name |-> S, author_url |-> S,
                                   initial_key |-> "PublicKey"], {"anonymous", "system"},
                                   {<<"accounts", "write">>})
    BY DEF AccountAndUserRpcs, path
  <2>2. "CreateAccount" \in DOMAIN AccountAndUserRpcs
    BY TablesApart
  <2>3. "CreateAccount" \in DOMAIN Service /\ Service["CreateAccount"] =
          AccountAndUserRpcs["CreateAccount"]
    BY <2>2, RulesIn
  <2> QED  BY <2>1, <2>3 DEF Ruled, Rpc
<1>2. Ruled("GetAccount", "GET", <<"id">>, Id)
  <2> DEFINE path == "/v1/accounts/{}"
  <2> HIDE DEF path
  <2>1. AccountAndUserRpcs["GetAccount"] = Rpc("GET", path, <<"id">>, Id, Anyone, {})
    BY DEF AccountAndUserRpcs, path
  <2>2. "GetAccount" \in DOMAIN AccountAndUserRpcs
    BY TablesApart
  <2>3. "GetAccount" \in DOMAIN Service /\ Service["GetAccount"] = AccountAndUserRpcs["GetAccount"]
    BY <2>2, RulesIn
  <2> QED  BY <2>1, <2>3 DEF Ruled, Rpc
<1>3. Ruled("CreateUser", "POST", <<>>, [display_name |-> S, initial_key |-> "PublicKey"])
  <2> DEFINE path == "/v1/users"
  <2> HIDE DEF path
  <2>1. AccountAndUserRpcs["CreateUser"] =
          Rpc("POST", path, <<>>, [display_name |-> S, initial_key |-> "PublicKey"],
              {"anonymous", "system"}, {<<"users", "write">>})
    BY DEF AccountAndUserRpcs, path
  <2>2. "CreateUser" \in DOMAIN AccountAndUserRpcs
    BY TablesApart
  <2>3. "CreateUser" \in DOMAIN Service /\ Service["CreateUser"] = AccountAndUserRpcs["CreateUser"]
    BY <2>2, RulesIn
  <2> QED  BY <2>1, <2>3 DEF Ruled, Rpc
<1>4. Ruled("GetUser", "GET", <<"id">>, Id)
  <2> DEFINE path == "/v1/users/{}"
  <2> HIDE DEF path
  <2>1. AccountAndUserRpcs["GetUser"] =
          Rpc("GET", path, <<"id">>, Id, {"anonymous", "user", "system"}, {<<"users", "read">>})
    BY DEF AccountAndUserRpcs, path
  <2>2. "GetUser" \in DOMAIN AccountAndUserRpcs
    BY TablesApart
  <2>3. "GetUser" \in DOMAIN Service /\ Service["GetUser"] = AccountAndUserRpcs["GetUser"]
    BY <2>2, RulesIn
  <2> QED  BY <2>1, <2>3 DEF Ruled, Rpc
<1>5. Ruled("UpdateUser", "PATCH", <<"id">>, [user |-> "User", update_mask |-> "FieldMask"])
  <2> DEFINE path == "/v1/users/{}"
  <2> HIDE DEF path
  <2>1. AccountAndUserRpcs["UpdateUser"] =
          Rpc("PATCH", path, <<"id">>, [user |-> "User", update_mask |-> "FieldMask"], UserSelf,
              {<<"users", "admin">>})
    BY DEF AccountAndUserRpcs, path
  <2>2. "UpdateUser" \in DOMAIN AccountAndUserRpcs
    BY TablesApart
  <2>3. "UpdateUser" \in DOMAIN Service /\ Service["UpdateUser"] = AccountAndUserRpcs["UpdateUser"]
    BY <2>2, RulesIn
  <2> QED  BY <2>1, <2>3 DEF Ruled, Rpc
<1>6. Ruled("DeleteUser", "DELETE", <<"id">>, Id)
  <2> DEFINE path == "/v1/users/{}"
  <2> HIDE DEF path
  <2>1. AccountAndUserRpcs["DeleteUser"] =
          Rpc("DELETE", path, <<"id">>, Id, UserSelf, {<<"users", "delete">>})
    BY DEF AccountAndUserRpcs, path
  <2>2. "DeleteUser" \in DOMAIN AccountAndUserRpcs
    BY TablesApart
  <2>3. "DeleteUser" \in DOMAIN Service /\ Service["DeleteUser"] = AccountAndUserRpcs["DeleteUser"]
    BY <2>2, RulesIn
  <2> QED  BY <2>1, <2>3 DEF Ruled, Rpc
<1>7. Ruled("AddUserKey", "POST", <<"user_id">>, [user_id |-> S, key |-> "PublicKey"])
  <2> DEFINE path == "/v1/users/{}/keys"
  <2> HIDE DEF path
  <2>1. AccountAndUserRpcs["AddUserKey"] =
          Rpc("POST", path, <<"user_id">>, [user_id |-> S, key |-> "PublicKey"], UserSelf,
              {<<"users", "admin">>})
    BY DEF AccountAndUserRpcs, path
  <2>2. "AddUserKey" \in DOMAIN AccountAndUserRpcs
    BY TablesApart
  <2>3. "AddUserKey" \in DOMAIN Service /\ Service["AddUserKey"] = AccountAndUserRpcs["AddUserKey"]
    BY <2>2, RulesIn
  <2> QED  BY <2>1, <2>3 DEF Ruled, Rpc
<1>8. Ruled("RevokeUserKey", "POST", <<"user_id", "key_id">>, [user_id |-> S, key_id |-> S])
  <2> DEFINE path == "/v1/users/{}/keys/{}/revoke"
  <2> HIDE DEF path
  <2>1. AccountAndUserRpcs["RevokeUserKey"] =
          Rpc("POST", path, <<"user_id", "key_id">>, [user_id |-> S, key_id |-> S], UserSelf,
              {<<"users", "admin">>})
    BY DEF AccountAndUserRpcs, path
  <2>2. "RevokeUserKey" \in DOMAIN AccountAndUserRpcs
    BY TablesApart
  <2>3. "RevokeUserKey" \in DOMAIN Service /\ Service["RevokeUserKey"] =
          AccountAndUserRpcs["RevokeUserKey"]
    BY <2>2, RulesIn
  <2> QED  BY <2>1, <2>3 DEF Ruled, Rpc
<1> QED  BY <1>1, <1>2, <1>3, <1>4, <1>5, <1>6, <1>7, <1>8

\* Those of articles and drafts.
LEMMA ContentRules ==
  /\ Ruled("PublishArticle", "POST", <<"account_id">>, With(ContentFields, OfAccount))
  /\ Ruled("GetArticle", "GET", <<"id">>, Id)
  /\ Ruled("ListAccountArticles", "GET", <<"account_id">>,
           Paged([account_id |-> S, include_tombstoned |-> "bool"]))
  /\ Ruled("EditArticle", "PATCH", <<"id">>,
           [id |-> S, edit |-> "ArticleEdit", update_mask |-> "FieldMask"])
  /\ Ruled("TombstoneArticle", "POST", <<"id">>, [id |-> S, reason |-> S])
  /\ Ruled("RedactArticleVersion", "POST", <<"article_id", "version">>,
           [article_id |-> S, version |-> "int32", redaction_reason |-> S])
  /\ Ruled("CreateDraft", "POST", <<"account_id">>, With(ContentFields, OfAccount))
  /\ Ruled("GetDraft", "GET", <<"id">>, Id)
  /\ Ruled("UpdateDraft", "PATCH", <<"id">>, [draft |-> "Draft", update_mask |-> "FieldMask"])
  /\ Ruled("DeleteDraft", "DELETE", <<"id">>, Id)
  /\ Ruled("ListAccountDrafts", "GET", <<"account_id">>, Paged(OfAccount))
  /\ Ruled("PublishDraft", "POST", <<"id">>, Id)
<1>1. Ruled("PublishArticle", "POST", <<"account_id">>, With(ContentFields, OfAccount))
  <2> DEFINE path == "/v1/accounts/{}/articles"
  <2> HIDE DEF path
  <2>1. ContentRpcs["PublishArticle"] =
          Rpc("POST", path, <<"account_id">>, With(ContentFields, OfAccount), Owner,
              {<<"articles", "write">>})
    BY DEF ContentRpcs, path
  <2>2. "PublishArticle" \in DOMAIN ContentRpcs
    BY TablesApart
  <2>3. "PublishArticle" \in DOMAIN Service /\ Service["PublishArticle"] = ContentRpcs["PublishArticle"]
    BY <2>2, RulesIn
  <2> QED  BY <2>1, <2>3 DEF Ruled, Rpc
<1>2. Ruled("GetArticle", "GET", <<"id">>, Id)
  <2> DEFINE path == "/v1/articles/{}"
  <2> HIDE DEF path
  <2>1. ContentRpcs["GetArticle"] = Rpc("GET", path, <<"id">>, Id, Anyone, {})
    BY DEF ContentRpcs, path
  <2>2. "GetArticle" \in DOMAIN ContentRpcs
    BY TablesApart
  <2>3. "GetArticle" \in DOMAIN Service /\ Service["GetArticle"] = ContentRpcs["GetArticle"]
    BY <2>2, RulesIn
  <2> QED  BY <2>1, <2>3 DEF Ruled, Rpc
<1>3. Ruled("ListAccountArticles", "GET", <<"account_id">>,
            Paged([account_id |-> S, include_tombstoned |-> "bool"]))
  <2> DEFINE path == "/v1/accounts/{}/articles"
  <2> HIDE DEF path
  <2>1. ContentRpcs["ListAccountArticles"] =
          Rpc("GET", path, <<"account_id">>,
              Paged([account_id |-> S, include_tombstoned |-> "bool"]), Anyone, {})
    BY DEF ContentRpcs, path
  <2>2. "ListAccountArticles" \in DOMAIN ContentRpcs
    BY TablesApart
  <2>3. "ListAccountArticles" \in DOMAIN Service /\ Service["ListAccountArticles"] =
          ContentRpcs["ListAccountArticles"]
    BY <2>2, RulesIn
  <2> QED  BY <2>1, <2>3 DEF Ruled, Rpc
<1>4. Ruled("EditArticle", "PATCH", <<"id">>,
            [id |-> S, edit |-> "ArticleEdit", update_mask |-> "FieldMask"])
  <2> DEFINE path == "/v1/articles/{}"
  <2> HIDE DEF path
  <2>1. ContentRpcs["EditArticle"] =
          Rpc("PATCH", path, <<"id">>,
              [id |-> S, edit |-> "ArticleEdit", update_mask |-> "FieldMask"], Owner,
              {<<"articles", "write">>})
    BY DEF ContentRpcs, path
  <2>2. "EditArticle" \in DOMAIN ContentRpcs
    BY TablesApart
  <2>3. "EditArticle" \in DOMAIN Service /\ Service["EditArticle"] = ContentRpcs["EditArticle"]
    BY <2>2, RulesIn
  <2> QED  BY <2>1, <2>3 DEF Ruled, Rpc
<1>5. Ruled("TombstoneArticle", "POST", <<"id">>, [id |-> S, reason |-> S])
  <2> DEFINE path == "/v1/articles/{}/tombstone"
  <2> HIDE DEF path
  <2>1. ContentRpcs["TombstoneArticle"] =
          Rpc("POST", path, <<"id">>, [id |-> S, reason |-> S], Owner, {<<"articles", "tombstone">>})
    BY DEF ContentRpcs, path
  <2>2. "TombstoneArticle" \in DOMAIN ContentRpcs
    BY TablesApart
  <2>3. "TombstoneArticle" \in DOMAIN Service /\ Service["TombstoneArticle"] =
          ContentRpcs["TombstoneArticle"]
    BY <2>2, RulesIn
  <2> QED  BY <2>1, <2>3 DEF Ruled, Rpc
<1>6. Ruled("RedactArticleVersion", "POST", <<"article_id", "version">>,
            [article_id |-> S, version |-> "int32", redaction_reason |-> S])
  <2> DEFINE path == "/v1/articles/{}/versions/{}/redact"
  <2> HIDE DEF path
  <2>1. ContentRpcs["RedactArticleVersion"] =
          Rpc("POST", path, <<"article_id", "version">>,
              [article_id |-> S, version |-> "int32", redaction_reason |-> S], {"system"},
              {<<"articles", "redact">>})
    BY DEF ContentRpcs, path
  <2>2. "RedactArticleVersion" \in DOMAIN ContentRpcs
    BY TablesApart
  <2>3. "RedactArticleVersion" \in DOMAIN Service /\ Service["RedactArticleVersion"] =
          ContentRpcs["RedactArticleVersion"]
    BY <2>2, RulesIn
  <2> QED  BY <2>1, <2>3 DEF Ruled, Rpc
<1>7. Ruled("CreateDraft", "POST", <<"account_id">>, With(ContentFields, OfAccount))
  <2> DEFINE path == "/v1/accounts/{}/drafts"
  <2> HIDE DEF path
  <2>1. ContentRpcs["CreateDraft"] =
          Rpc("POST", path, <<"account_id">>, With(ContentFields, OfAccount), Owner,
              {<<"drafts", "write">>})
    BY DEF ContentRpcs, path
  <2>2. "CreateDraft" \in DOMAIN ContentRpcs
    BY TablesApart
  <2>3. "CreateDraft" \in DOMAIN Service /\ Service["CreateDraft"] = ContentRpcs["CreateDraft"]
    BY <2>2, RulesIn
  <2> QED  BY <2>1, <2>3 DEF Ruled, Rpc
<1>8. Ruled("GetDraft", "GET", <<"id">>, Id)
  <2> DEFINE path == "/v1/drafts/{}"
  <2> HIDE DEF path
  <2>1. ContentRpcs["GetDraft"] = Rpc("GET", path, <<"id">>, Id, Owner, {<<"drafts", "read">>})
    BY DEF ContentRpcs, path
  <2>2. "GetDraft" \in DOMAIN ContentRpcs
    BY TablesApart
  <2>3. "GetDraft" \in DOMAIN Service /\ Service["GetDraft"] = ContentRpcs["GetDraft"]
    BY <2>2, RulesIn
  <2> QED  BY <2>1, <2>3 DEF Ruled, Rpc
<1>9. Ruled("UpdateDraft", "PATCH", <<"id">>, [draft |-> "Draft", update_mask |-> "FieldMask"])
  <2> DEFINE path == "/v1/drafts/{}"
  <2> HIDE DEF path
  <2>1. ContentRpcs["UpdateDraft"] =
          Rpc("PATCH", path, <<"id">>, [draft |-> "Draft", update_mask |-> "FieldMask"], Owner,
              {<<"drafts", "write">>})
    BY DEF ContentRpcs, path
  <2>2. "UpdateDraft" \in DOMAIN ContentRpcs
    BY TablesApart
  <2>3. "UpdateDraft" \in DOMAIN Service /\ Service["UpdateDraft"] = ContentRpcs["UpdateDraft"]
    BY <2>2, RulesIn
  <2> QED  BY <2>1, <2>3 DEF Ruled, Rpc
<1>10. Ruled("DeleteDraft", "DELETE", <<"id">>, Id)
  <2> DEFINE path == "/v1/drafts/{}"
  <2> HIDE DEF path
  <2>1. ContentRpcs["DeleteDraft"] = Rpc("DELETE", path, <<"id">>, Id, Owner, {<<"drafts", "write">>})
    BY DEF ContentRpcs, path
  <2>2. "DeleteDraft" \in DOMAIN ContentRpcs
    BY TablesApart
  <2>3. "DeleteDraft" \in DOMAIN Service /\ Service["DeleteDraft"] = ContentRpcs["DeleteDraft"]
    BY <2>2, RulesIn
  <2> QED  BY <2>1, <2>3 DEF Ruled, Rpc
<1>11. Ruled("ListAccountDrafts", "GET", <<"account_id">>, Paged(OfAccount))
  <2> DEFINE path == "/v1/accounts/{}/drafts"
  <2> HIDE DEF path
  <2>1. ContentRpcs["ListAccountDrafts"] =
          Rpc("GET", path, <<"account_id">>, Paged(OfAccount), Owner, {<<"drafts", "read">>})
    BY DEF ContentRpcs, path
  <2>2. "ListAccountDrafts" \in DOMAIN ContentRpcs
    BY TablesApart
  <2>3. "ListAccountDrafts" \in DOMAIN Service /\ Service["ListAccountDrafts"] =
          ContentRpcs["ListAccountDrafts"]
    BY <2>2, RulesIn
  <2> QED  BY <2>1, <2>3 DEF Ruled, Rpc
<1>12. Ruled("PublishDraft", "POST", <<"id">>, Id)
  <2> DEFINE path == "/v1/drafts/{}/publish"
  <2> HIDE DEF path
  <2>1. ContentRpcs["PublishDraft"] = Rpc("POST", path, <<"id">>, Id, Owner, {<<"articles", "write">>})
    BY DEF ContentRpcs, path
  <2>2. "PublishDraft" \in DOMAIN ContentRpcs
    BY TablesApart
  <2>3. "PublishDraft" \in DOMAIN Service /\ Service["PublishDraft"] = ContentRpcs["PublishDraft"]
    BY <2>2, RulesIn
  <2> QED  BY <2>1, <2>3 DEF Ruled, Rpc
<1> QED  BY <1>1, <1>2, <1>3, <1>4, <1>5, <1>6, <1>7, <1>8, <1>9, <1>10, <1>11, <1>12

\* Those of follows, feeds and the stream.
LEMMA FollowRules ==
  /\ Ruled("Follow", "POST", <<"user_id">>, Followed)
  /\ Ruled("Unfollow", "DELETE", <<"user_id", "account_id">>, Followed)
  /\ Ruled("GetFollow", "GET", <<"user_id", "account_id">>, Followed)
  /\ Ruled("ListUserFollows", "GET", <<"user_id">>,
           Paged([user_id |-> S, include_unfollowed |-> "bool"]))
  /\ Ruled("ListAccountFollowers", "GET", <<"account_id">>,
           Paged([account_id |-> S, include_unfollowed |-> "bool"]))
  /\ Ruled("ReplaceRecommendationFeed", "PUT", <<"user_id">>,
           [user_id |-> S, article_ids |-> "strings"])
  /\ Ruled("GetRecommendationFeed", "GET", <<"user_id">>, Paged(OfUser))
  /\ Ruled("GetFollowFeed", "GET", <<"user_id">>, Paged(OfUser))
  /\ Ruled("StreamAccountArticles", "GET", <<"account_id">>, Paged(OfAccount))
<1>1. Ruled("Follow", "POST", <<"user_id">>, Followed)
  <2> DEFINE path == "/v1/users/{}/follows"
  <2> HIDE DEF path
  <2>1. FollowAndFeedRpcs["Follow"] =
          Rpc("POST", path, <<"user_id">>, Followed, UserSelf, {<<"follows", "write">>})
    BY DEF FollowAndFeedRpcs, path
  <2>2. "Follow" \in DOMAIN FollowAndFeedRpcs
    BY TablesApart
  <2>3. "Follow" \in DOMAIN Service /\ Service["Follow"] = FollowAndFeedRpcs["Follow"]
    BY <2>2, RulesIn
  <2> QED  BY <2>1, <2>3 DEF Ruled, Rpc
<1>2. Ruled("Unfollow", "DELETE", <<"user_id", "account_id">>, Followed)
  <2> DEFINE path == "/v1/users/{}/follows/{}"
  <2> HIDE DEF path
  <2>1. FollowAndFeedRpcs["Unfollow"] =
          Rpc("DELETE", path, <<"user_id", "account_id">>, Followed, UserSelf, {<<"follows", "write">>})
    BY DEF FollowAndFeedRpcs, path
  <2>2. "Unfollow" \in DOMAIN FollowAndFeedRpcs
    BY TablesApart
  <2>3. "Unfollow" \in DOMAIN Service /\ Service["Unfollow"] = FollowAndFeedRpcs["Unfollow"]
    BY <2>2, RulesIn
  <2> QED  BY <2>1, <2>3 DEF Ruled, Rpc
<1>3. Ruled("GetFollow", "GET", <<"user_id", "account_id">>, Followed)
  <2> DEFINE path == "/v1/users/{}/follows/{}"
  <2> HIDE DEF path
  <2>1. FollowAndFeedRpcs["GetFollow"] =
          Rpc("GET", path, <<"user_id", "account_id">>, Followed, UserSelf, {<<"follows", "read">>})
    BY DEF FollowAndFeedRpcs, path
  <2>2. "GetFollow" \in DOMAIN FollowAndFeedRpcs
    BY TablesApart
  <2>3. "GetFollow" \in DOMAIN Service /\ Service["GetFollow"] = FollowAndFeedRpcs["GetFollow"]
    BY <2>2, RulesIn
  <2> QED  BY <2>1, <2>3 DEF Ruled, Rpc
<1>4. Ruled("ListUserFollows", "GET", <<"user_id">>,
            Paged([user_id |-> S, include_unfollowed |-> "bool"]))
  <2> DEFINE path == "/v1/users/{}/follows"
  <2> HIDE DEF path
  <2>1. FollowAndFeedRpcs["ListUserFollows"] =
          Rpc("GET", path, <<"user_id">>, Paged([user_id |-> S, include_unfollowed |-> "bool"]),
              UserSelf, {<<"follows", "read">>})
    BY DEF FollowAndFeedRpcs, path
  <2>2. "ListUserFollows" \in DOMAIN FollowAndFeedRpcs
    BY TablesApart
  <2>3. "ListUserFollows" \in DOMAIN Service /\ Service["ListUserFollows"] =
          FollowAndFeedRpcs["ListUserFollows"]
    BY <2>2, RulesIn
  <2> QED  BY <2>1, <2>3 DEF Ruled, Rpc
<1>5. Ruled("ListAccountFollowers", "GET", <<"account_id">>,
            Paged([account_id |-> S, include_unfollowed |-> "bool"]))
  <2> DEFINE path == "/v1/accounts/{}/followers"
  <2> HIDE DEF path
  <2>1. FollowAndFeedRpcs["ListAccountFollowers"] =
          Rpc("GET", path, <<"account_id">>,
              Paged([account_id |-> S, include_unfollowed |-> "bool"]), {"account", "system"},
              {<<"follows", "read">>})
    BY DEF FollowAndFeedRpcs, path
  <2>2. "ListAccountFollowers" \in DOMAIN FollowAndFeedRpcs
    BY TablesApart
  <2>3. "ListAccountFollowers" \in DOMAIN Service /\ Service["ListAccountFollowers"] =
          FollowAndFeedRpcs["ListAccountFollowers"]
    BY <2>2, RulesIn
  <2> QED  BY <2>1, <2>3 DEF Ruled, Rpc
<1>6. Ruled("ReplaceRecommendationFeed", "PUT", <<"user_id">>,
            [user_id |-> S, article_ids |-> "strings"])
  <2> DEFINE path == "/v1/users/{}/feed/recommendation"
  <2> HIDE DEF path
  <2>1. FollowAndFeedRpcs["ReplaceRecommendationFeed"] =
          Rpc("PUT", path, <<"user_id">>, [user_id |-> S, article_ids |-> "strings"], {"system"},
              {<<"feeds", "recommendation", "write">>})
    BY DEF FollowAndFeedRpcs, path
  <2>2. "ReplaceRecommendationFeed" \in DOMAIN FollowAndFeedRpcs
    BY TablesApart
  <2>3. "ReplaceRecommendationFeed" \in DOMAIN Service /\ Service["ReplaceRecommendationFeed"] =
          FollowAndFeedRpcs["ReplaceRecommendationFeed"]
    BY <2>2, RulesIn
  <2> QED  BY <2>1, <2>3 DEF Ruled, Rpc
<1>7. Ruled("GetRecommendationFeed", "GET", <<"user_id">>, Paged(OfUser))
  <2> DEFINE path == "/v1/users/{}/feed/recommendation"
  <2> HIDE DEF path
  <2>1. FollowAndFeedRpcs["GetRecommendationFeed"] =
          Rpc("GET", path, <<"user_id">>, Paged(OfUser), UserSelf,
              {<<"feeds", "recommendation", "read">>})
    BY DEF FollowAndFeedRpcs, path
  <2>2. "GetRecommendationFeed" \in DOMAIN FollowAndFeedRpcs
    BY TablesApart
  <2>3. "GetRecommendationFeed" \in DOMAIN Service /\ Service["GetRecommendationFeed"] =
          FollowAndFeedRpcs["GetRecommendationFeed"]
    BY <2>2, RulesIn
  <2> QED  BY <2>1, <2>3 DEF Ruled, Rpc
<1>8. Ruled("GetFollowFeed", "GET", <<"user_id">>, Paged(OfUser))
  <2> DEFINE path == "/v1/users/{}/feed/follow"
  <2> HIDE DEF path
  <2>1. FollowAndFeedRpcs["GetFollowFeed"] =
          Rpc("GET", path, <<"user_id">>, Paged(OfUser), UserSelf, {<<"feeds", "follow", "read">>})
    BY DEF FollowAndFeedRpcs, path
  <2>2. "GetFollowFeed" \in DOMAIN FollowAndFeedRpcs
    BY TablesApart
  <2>3. "GetFollowFeed" \in DOMAIN Service /\ Service["GetFollowFeed"] =
          FollowAndFeedRpcs["GetFollowFeed"]
    BY <2>2, RulesIn
  <2> QED  BY <2>1, <2>3 DEF Ruled, Rpc
<1>9. Ruled("StreamAccountArticles", "GET", <<"account_id">>, Paged(OfAccount))
  <2> DEFINE path == "/v1/accounts/{}/article-stream"
  <2> HIDE DEF path
  <2>1. FollowAndFeedRpcs["StreamAccountArticles"] =
          Rpc("GET", path, <<"account_id">>, Paged(OfAccount), {"system"}, {<<"articles", "stream">>})
    BY DEF FollowAndFeedRpcs, path
  <2>2. "StreamAccountArticles" \in DOMAIN FollowAndFeedRpcs
    BY TablesApart
  <2>3. "StreamAccountArticles" \in DOMAIN Service /\ Service["StreamAccountArticles"] =
          FollowAndFeedRpcs["StreamAccountArticles"]
    BY <2>2, RulesIn
  <2> QED  BY <2>1, <2>3 DEF Ruled, Rpc
<1> QED  BY <1>1, <1>2, <1>3, <1>4, <1>5, <1>6, <1>7, <1>8, <1>9

\* Those of events and notifications.
LEMMA EventRules ==
  /\ Ruled("RecordEvent", "POST", <<>>, EventFields)
  /\ Ruled("RecordEventBatch", "POST", <<>>, [events |-> "Events"])
  /\ Ruled("ListEvents", "GET", <<>>,
           Paged([user_id |-> S, article_id |-> S, types |-> "EventTypes",
                  received_after |-> "Timestamp", received_before |-> "Timestamp"]))
  /\ Ruled("SendNotification", "POST", <<>>, Notification)
  /\ Ruled("SendNotificationBatch", "POST", <<>>, [notifications |-> "Notifications"])
  /\ Ruled("ListUserNotifications", "GET", <<"user_id">>,
           Paged([user_id |-> S, unread_only |-> "bool"]))
  /\ Ruled("MarkNotificationRead", "POST", <<"id">>, Id)
  /\ Ruled("MarkAllUserNotificationsRead", "POST", <<"user_id">>, OfUser)
  /\ Ruled("GetUserNotificationPreferences", "GET", <<"user_id">>, OfUser)
  /\ Ruled("UpdateUserNotificationPreferences", "PATCH", <<"user_id">>,
           [preferences |-> "NotificationPreferences", update_mask |-> "FieldMask"])
<1>1. Ruled("RecordEvent", "POST", <<>>, EventFields)
  <2> DEFINE path == "/v1/events"
  <2> HIDE DEF path
  <2>1. EventAndNotificationRpcs["RecordEvent"] =
          Rpc("POST", path, <<>>, EventFields, UserSelf, {<<"events", "write">>})
    BY DEF EventAndNotificationRpcs, path
  <2>2. "RecordEvent" \in DOMAIN EventAndNotificationRpcs
    BY TablesApart
  <2>3. "RecordEvent" \in DOMAIN Service /\ Service["RecordEvent"] =
          EventAndNotificationRpcs["RecordEvent"]
    BY <2>2, RulesIn
  <2> QED  BY <2>1, <2>3 DEF Ruled, Rpc
<1>2. Ruled("RecordEventBatch", "POST", <<>>, [events |-> "Events"])
  <2> DEFINE path == "/v1/events:batch"
  <2> HIDE DEF path
  <2>1. EventAndNotificationRpcs["RecordEventBatch"] =
          Rpc("POST", path, <<>>, [events |-> "Events"], UserSelf, {<<"events", "write">>})
    BY DEF EventAndNotificationRpcs, path
  <2>2. "RecordEventBatch" \in DOMAIN EventAndNotificationRpcs
    BY TablesApart
  <2>3. "RecordEventBatch" \in DOMAIN Service /\ Service["RecordEventBatch"] =
          EventAndNotificationRpcs["RecordEventBatch"]
    BY <2>2, RulesIn
  <2> QED  BY <2>1, <2>3 DEF Ruled, Rpc
<1>3. Ruled("ListEvents", "GET", <<>>,
            Paged([user_id |-> S, article_id |-> S, types |-> "EventTypes",
                   received_after |-> "Timestamp", received_before |-> "Timestamp"]))
  <2> DEFINE path == "/v1/events"
  <2> HIDE DEF path
  <2>1. EventAndNotificationRpcs["ListEvents"] =
          Rpc("GET", path, <<>>, Paged([user_id |-> S, article_id |-> S, types |-> "EventTypes",
                                        received_after |-> "Timestamp",
                                        received_before |-> "Timestamp"]), {"system"},
                                        {<<"events", "read">>})
    BY DEF EventAndNotificationRpcs, path
  <2>2. "ListEvents" \in DOMAIN EventAndNotificationRpcs
    BY TablesApart
  <2>3. "ListEvents" \in DOMAIN Service /\ Service["ListEvents"] =
          EventAndNotificationRpcs["ListEvents"]
    BY <2>2, RulesIn
  <2> QED  BY <2>1, <2>3 DEF Ruled, Rpc
<1>4. Ruled("SendNotification", "POST", <<>>, Notification)
  <2> DEFINE path == "/v1/notifications"
  <2> HIDE DEF path
  <2>1. EventAndNotificationRpcs["SendNotification"] =
          Rpc("POST", path, <<>>, Notification, {"system"}, {<<"notifications", "send">>})
    BY DEF EventAndNotificationRpcs, path
  <2>2. "SendNotification" \in DOMAIN EventAndNotificationRpcs
    BY TablesApart
  <2>3. "SendNotification" \in DOMAIN Service /\ Service["SendNotification"] =
          EventAndNotificationRpcs["SendNotification"]
    BY <2>2, RulesIn
  <2> QED  BY <2>1, <2>3 DEF Ruled, Rpc
<1>5. Ruled("SendNotificationBatch", "POST", <<>>, [notifications |-> "Notifications"])
  <2> DEFINE path == "/v1/notifications:batch"
  <2> HIDE DEF path
  <2>1. EventAndNotificationRpcs["SendNotificationBatch"] =
          Rpc("POST", path, <<>>, [notifications |-> "Notifications"], {"system"},
              {<<"notifications", "send">>})
    BY DEF EventAndNotificationRpcs, path
  <2>2. "SendNotificationBatch" \in DOMAIN EventAndNotificationRpcs
    BY TablesApart
  <2>3. "SendNotificationBatch" \in DOMAIN Service /\ Service["SendNotificationBatch"] =
          EventAndNotificationRpcs["SendNotificationBatch"]
    BY <2>2, RulesIn
  <2> QED  BY <2>1, <2>3 DEF Ruled, Rpc
<1>6. Ruled("ListUserNotifications", "GET", <<"user_id">>,
            Paged([user_id |-> S, unread_only |-> "bool"]))
  <2> DEFINE path == "/v1/users/{}/notifications"
  <2> HIDE DEF path
  <2>1. EventAndNotificationRpcs["ListUserNotifications"] =
          Rpc("GET", path, <<"user_id">>, Paged([user_id |-> S, unread_only |-> "bool"]), UserSelf,
              {<<"notifications", "read">>})
    BY DEF EventAndNotificationRpcs, path
  <2>2. "ListUserNotifications" \in DOMAIN EventAndNotificationRpcs
    BY TablesApart
  <2>3. "ListUserNotifications" \in DOMAIN Service /\ Service["ListUserNotifications"] =
          EventAndNotificationRpcs["ListUserNotifications"]
    BY <2>2, RulesIn
  <2> QED  BY <2>1, <2>3 DEF Ruled, Rpc
<1>7. Ruled("MarkNotificationRead", "POST", <<"id">>, Id)
  <2> DEFINE path == "/v1/notifications/{}/read"
  <2> HIDE DEF path
  <2>1. EventAndNotificationRpcs["MarkNotificationRead"] = Rpc("POST", path, <<"id">>, Id, {"user"}, {})
    BY DEF EventAndNotificationRpcs, path
  <2>2. "MarkNotificationRead" \in DOMAIN EventAndNotificationRpcs
    BY TablesApart
  <2>3. "MarkNotificationRead" \in DOMAIN Service /\ Service["MarkNotificationRead"] =
          EventAndNotificationRpcs["MarkNotificationRead"]
    BY <2>2, RulesIn
  <2> QED  BY <2>1, <2>3 DEF Ruled, Rpc
<1>8. Ruled("MarkAllUserNotificationsRead", "POST", <<"user_id">>, OfUser)
  <2> DEFINE path == "/v1/users/{}/notifications:mark-all-read"
  <2> HIDE DEF path
  <2>1. EventAndNotificationRpcs["MarkAllUserNotificationsRead"] =
          Rpc("POST", path, <<"user_id">>, OfUser, UserSelf, {<<"notifications", "admin">>})
    BY DEF EventAndNotificationRpcs, path
  <2>2. "MarkAllUserNotificationsRead" \in DOMAIN EventAndNotificationRpcs
    BY TablesApart
  <2>3. "MarkAllUserNotificationsRead" \in DOMAIN Service /\
          Service["MarkAllUserNotificationsRead"] =
          EventAndNotificationRpcs["MarkAllUserNotificationsRead"]
    BY <2>2, RulesIn
  <2> QED  BY <2>1, <2>3 DEF Ruled, Rpc
<1>9. Ruled("GetUserNotificationPreferences", "GET", <<"user_id">>, OfUser)
  <2> DEFINE path == "/v1/users/{}/notification-preferences"
  <2> HIDE DEF path
  <2>1. EventAndNotificationRpcs["GetUserNotificationPreferences"] =
          Rpc("GET", path, <<"user_id">>, OfUser, UserSelf, {<<"notifications", "read">>})
    BY DEF EventAndNotificationRpcs, path
  <2>2. "GetUserNotificationPreferences" \in DOMAIN EventAndNotificationRpcs
    BY TablesApart
  <2>3. "GetUserNotificationPreferences" \in DOMAIN Service /\
          Service["GetUserNotificationPreferences"] =
          EventAndNotificationRpcs["GetUserNotificationPreferences"]
    BY <2>2, RulesIn
  <2> QED  BY <2>1, <2>3 DEF Ruled, Rpc
<1>10. Ruled("UpdateUserNotificationPreferences", "PATCH", <<"user_id">>,
             [preferences |-> "NotificationPreferences", update_mask |-> "FieldMask"])
  <2> DEFINE path == "/v1/users/{}/notification-preferences"
  <2> HIDE DEF path
  <2>1. EventAndNotificationRpcs["UpdateUserNotificationPreferences"] =
          Rpc("PATCH", path, <<"user_id">>,
              [preferences |-> "NotificationPreferences", update_mask |-> "FieldMask"], UserSelf,
              {<<"notifications", "admin">>})
    BY DEF EventAndNotificationRpcs, path
  <2>2. "UpdateUserNotificationPreferences" \in DOMAIN EventAndNotificationRpcs
    BY TablesApart
  <2>3. "UpdateUserNotificationPreferences" \in DOMAIN Service /\
          Service["UpdateUserNotificationPreferences"] =
          EventAndNotificationRpcs["UpdateUserNotificationPreferences"]
    BY <2>2, RulesIn
  <2> QED  BY <2>1, <2>3 DEF Ruled, Rpc
<1> QED  BY <1>1, <1>2, <1>3, <1>4, <1>5, <1>6, <1>7, <1>8, <1>9, <1>10

\* The request h is the one the protocol has for the message m of an RPC.
Asks(h, rpc, m) ==
  /\ MessageIs(rpc, m)
  /\ h.params = HttpRequest(rpc, m).params /\ h.query = Query(rpc, m) /\ h.body = Body(rpc, m)

\* It has the fields of its RPC, each with a value of its type.
LEMMA AskedFields ==
  ASSUME NEW h, NEW rpc, NEW m, NEW method, NEW bound, NEW fields,
         Ruled(rpc, method, bound, fields), Asks(h, rpc, m)
  PROVE  /\ m = [f \in DOMAIN fields |-> m[f]]
         /\ \A f \in DOMAIN fields : ValueIs(fields[f], m[f])
         /\ Leaves(fields, m)
<1>1. m = [f \in DOMAIN fields |-> m[f]] /\ \A f \in DOMAIN fields : ValueIs(fields[f], m[f])
  BY DEF Ruled, Asks, MessageIs, FieldsAre
<1>2. \A f \in DOMAIN fields : fields[f] \notin MessageTypes \union ListTypes
        => FieldIs(fields[f], m[f])
  BY <1>1, MessagesAre DEF ValueIs, ListTypes
<1> QED  BY <1>1, <1>2 DEF Leaves

\* The path parameter for a text field of the message.
LEMMA ParamIs ==
  ASSUME NEW h, NEW rpc, NEW m, NEW method, NEW bound, NEW fields,
         Ruled(rpc, method, bound, fields), Asks(h, rpc, m),
         NEW i \in DOMAIN bound, NEW f, bound[i] = f, f \in DOMAIN fields, fields[f] = S
  PROVE  Param(h, i) = m[f]
<1>1. h.params[i] = FieldJson(S, m[f])
  BY DEF Ruled, Asks, HttpRequest
<1>2. FieldJson(S, m[f]) = JStr(m[f])
  BY FieldJsonIs
<1>3. JStr(m[f]).str = m[f]
  BY DEF JStr
<1> QED  BY <1>1, <1>2, <1>3 DEF Param

\* The path parameter for a field of a message inside.
LEMMA ParamInside ==
  ASSUME NEW h, NEW rpc, NEW m, NEW method, NEW bound, NEW fields,
         Ruled(rpc, method, bound, fields), Asks(h, rpc, m),
         NEW i \in DOMAIN bound, NEW f, bound[i] = f, f \notin DOMAIN fields,
         NEW k, Holder(rpc, f) = k
  PROVE  Param(h, i) = The(m[k])[f] /\ m[k] # {}
<1>1. h.params[i] = JStr(The(m[k])[f])
  BY DEF Ruled, Asks, HttpRequest
<1>2. JStr(The(m[k])[f]).str = The(m[k])[f]
  BY DEF JStr
<1>3. f \in Bound(rpc) \ DOMAIN Service[rpc].fields
  BY DEF Ruled, Bound
<1>4. m[k] # {}
  BY <1>3 DEF Asks, MessageIs
<1> QED  BY <1>1, <1>2, <1>4 DEF Param

\* The body v has the fields of m but for those the path binds, and the
\* messages in it.
Whole(v, fields, m, bound) ==
  /\ Written(v, fields, m, bound) /\ Leaves(fields, m)
  /\ \A k \in DOMAIN fields \ bound :
       fields[k] \in MessageTypes =>
         /\ IsOptional(m[k])
         /\ m[k] # {} => Inside(v.obj[k], Message[fields[k]], The(m[k]), bound)

\* The JSON of a field: as FieldJson has it, or an object.
LEMMA JsonIs ==
  ASSUME NEW type, NEW x, NEW bound
  PROVE  /\ type \notin MessageTypes \union ListTypes => Json(type, x, bound) = FieldJson(type, x)
         /\ type \in MessageTypes =>
              Json(type, x, bound) = Object(Message[type], The(x), bound, InnerJson)
<1>1. ASSUME type \notin MessageTypes \union ListTypes  PROVE Json(type, x, bound) = FieldJson(type, x)
  BY <1>1, MessagesAre DEF Json, ListTypes
<1>2. ASSUME type \in MessageTypes
      PROVE  Json(type, x, bound) = Object(Message[type], The(x), bound, InnerJson)
  <2>1. type \in DOMAIN Message /\ type # "Events" /\ type # "Notifications"
    BY <1>2, MessagesAre DEF MessageTypes
  <2> QED  BY <2>1 DEF Json
<1> QED  BY <1>1, <1>2

\* A body made of the fields.
LEMMA WholeWritten ==
  ASSUME NEW h, NEW rpc, NEW m, NEW method, NEW bound, NEW fields,
         Ruled(rpc, method, bound, fields), Asks(h, rpc, m),
         NEW g, g = [f \in Given(fields, m) \ Bound(rpc) |-> Json(fields[f], m[f], Bound(rpc))]
  PROVE  Whole(JObj(g), fields, m, Bound(rpc))
<1> DEFINE b == Bound(rpc)
           v == JObj(g)
<1>1. Is("obj", v) /\ v.obj = g
  BY DEF Is, JObj
<1>2. DOMAIN g = Given(fields, m) \ b /\ \A k \in DOMAIN g : g[k] = Json(fields[k], m[k], b)
  OBVIOUS
<1> HIDE DEF v, b
<1>3. ASSUME NEW k \in DOMAIN g, fields[k] \notin MessageTypes \union ListTypes
      PROVE  g[k] = FieldJson(fields[k], m[k])
  BY <1>2, <1>3, JsonIs
<1>4. Written(v, fields, m, b)
  BY <1>1, <1>2, <1>3 DEF Written
<1>5. Leaves(fields, m) /\ \A f \in DOMAIN fields : ValueIs(fields[f], m[f])
  BY AskedFields
<1>6. ASSUME NEW k \in DOMAIN fields \ b, fields[k] \in MessageTypes
      PROVE  /\ IsOptional(m[k])
             /\ m[k] # {} => Inside(v.obj[k], Message[fields[k]], The(m[k]), b)
  <2>1. IsOptional(m[k]) /\ \A x \in m[k] : FieldsAre(Message[fields[k]], x, InnerIs)
    <3>1. fields[k] \in DOMAIN Message /\ fields[k] # "Events" /\ fields[k] # "Notifications"
      BY <1>6, MessagesAre DEF MessageTypes
    <3> QED  BY <1>5, <1>6, <3>1 DEF ValueIs
  <2>2. ASSUME m[k] # {}  PROVE Inside(v.obj[k], Message[fields[k]], The(m[k]), b)
    <3>1. k \in DOMAIN g
      BY <1>2, <1>6, <2>2 DEF Given
    <3>2. v.obj[k] = Json(fields[k], m[k], b)
      BY <1>1, <1>2, <3>1
    <3>3. Json(fields[k], m[k], b) = Object(Message[fields[k]], The(m[k]), b, InnerJson)
      BY <1>6, JsonIs
    <3>4. FieldsAre(Message[fields[k]], The(m[k]), InnerIs)
      BY <2>1, <2>2, OptionalIs
    <3>5. Inside(Object(Message[fields[k]], The(m[k]), b, InnerJson), Message[fields[k]], The(m[k]), b)
      BY <3>4, InsideWritten
    <3> QED  BY <3>2, <3>3, <3>5
  <2> QED  BY <2>1, <2>2
<1> QED  BY <1>4, <1>5, <1>6 DEF Whole, v, b

\* The body of every RPC that has one but UpdateUser.
LEMMA BodyWhole ==
  ASSUME NEW h, NEW rpc, NEW m, NEW method, NEW bound, NEW fields,
         Ruled(rpc, method, bound, fields), Asks(h, rpc, m),
         method \notin {"GET", "DELETE"}, rpc # "UpdateUser"
  PROVE  Whole(h.body, fields, m, Bound(rpc))
<1> DEFINE g == [f \in Given(fields, m) \ Bound(rpc) |-> Json(fields[f], m[f], Bound(rpc))]
<1>1. Body(rpc, m) = JObj(g)
  BY DEF Ruled, Body
<1> HIDE DEF g
<1>2. Whole(JObj(g), fields, m, Bound(rpc))
  BY WholeWritten DEF g
<1> QED  BY <1>1, <1>2 DEF Asks

\* What the path binds: nothing, one field or two.
LEMMA BoundIs ==
  ASSUME NEW rpc, NEW method, NEW fields, NEW a, NEW b
  PROVE  /\ Ruled(rpc, method, <<>>, fields) => Bound(rpc) = {}
         /\ Ruled(rpc, method, <<a>>, fields) => Bound(rpc) = {a}
         /\ Ruled(rpc, method, <<a, b>>, fields) => Bound(rpc) = {a, b}
BY DEF Ruled, Bound

\* The field k of the body v is a message of m, of a type.
WholeAs(v, fields, m, bound, k, type) ==
  /\ Whole(v, fields, m, bound) /\ k \in DOMAIN fields \ bound
  /\ fields[k] = type /\ type \in MessageTypes

\* It is there if it is set.
LEMMA MessageGiven ==
  ASSUME NEW v, NEW fields, NEW m, NEW bound, NEW k, NEW type, WholeAs(v, fields, m, bound, k, type)
  PROVE  Has(v, k) <=> m[k] # {}
BY FieldGiven, MessagesAre DEF WholeAs, Whole

\* Then it is the message.
LEMMA MessageInside ==
  ASSUME NEW v, NEW fields, NEW m, NEW bound, NEW k, NEW type, WholeAs(v, fields, m, bound, k, type),
         m[k] # {}
  PROVE  m[k] = {The(m[k])} /\ Inside(v.obj[k], Message[type], The(m[k]), bound)
BY OptionalIs DEF WholeAs, Whole

\* A key in the body.
LEMMA KeyOpt ==
  ASSUME NEW v, NEW fields, NEW m, NEW bound, NEW k, WholeAs(v, fields, m, bound, k, "PublicKey"),
         bound \intersect {"algo", "public_key"} = {}
  PROVE  Opt(v, k, parse_public_key) = m[k]
<1>1. Has(v, k) <=> m[k] # {}
  BY MessageGiven
<1>2. CASE m[k] = {}
  BY <1>1, <1>2 DEF Opt
<1>3. CASE m[k] # {}
  <2>1. m[k] = {The(m[k])} /\ Inside(v.obj[k], Message["PublicKey"], The(m[k]), bound)
    BY <1>3, MessageInside
  <2>2. parse_public_key(v.obj[k]) = The(m[k])
    BY <2>1, PublicKeyRead DEF Inside
  <2> QED  BY <1>1, <1>3, <2>1, <2>2 DEF Opt
<1> QED  BY <1>2, <1>3

\* A mask in the body.
LEMMA MaskOpt ==
  ASSUME NEW v, NEW fields, NEW m, NEW bound, NEW k, WholeAs(v, fields, m, bound, k, "FieldMask"),
         "paths" \notin bound
  PROVE  Opt(v, k, parse_field_mask) = m[k]
<1>1. Has(v, k) <=> m[k] # {}
  BY MessageGiven
<1>2. CASE m[k] = {}
  BY <1>1, <1>2 DEF Opt
<1>3. CASE m[k] # {}
  <2>1. m[k] = {The(m[k])} /\ Inside(v.obj[k], Message["FieldMask"], The(m[k]), bound)
    BY <1>3, MessageInside
  <2>2. parse_field_mask(v.obj[k]) = The(m[k])
    BY <2>1, FieldMaskRead DEF Inside
  <2> QED  BY <1>1, <1>3, <2>1, <2>2 DEF Opt
<1> QED  BY <1>2, <1>3

\* An edit in the body.
LEMMA EditOpt ==
  ASSUME NEW v, NEW fields, NEW m, NEW bound, NEW k, WholeAs(v, fields, m, bound, k, "ArticleEdit"),
         bound \intersect DOMAIN ContentFields = {}
  PROVE  Opt(v, k, Text) = m[k]
<1>1. Has(v, k) <=> m[k] # {}
  BY MessageGiven
<1>2. CASE m[k] = {}
  BY <1>1, <1>2 DEF Opt
<1>3. CASE m[k] # {}
  <2>1. m[k] = {The(m[k])} /\ Inside(v.obj[k], Message["ArticleEdit"], The(m[k]), bound)
    BY <1>3, MessageInside
  <2>2. Text(v.obj[k]) = The(m[k])
    BY <2>1, EditRead DEF Inside
  <2> QED  BY <1>1, <1>3, <2>1, <2>2 DEF Opt
<1> QED  BY <1>2, <1>3

-----------------------------------------------------------------------------
(* The handlers, one by one.                                               *)

\* A new account.
LEMMA CreateAccountMade ==
  ASSUME NEW h, NEW m, Asks(h, "CreateAccount", m)
  PROVE  create_account(h) = m
<1> DEFINE fields == [short_name |-> S, author_name |-> S, author_url |-> S,
                      initial_key |-> "PublicKey"]
           all == {"short_name", "author_name", "author_url", "initial_key"}
           v == h.body
<1>1. Ruled("CreateAccount", "POST", <<>>, fields)
  BY AccountRules
<1>2. /\ DOMAIN fields = all /\ fields["short_name"] = S /\ fields["author_name"] = S
      /\ fields["author_url"] = S /\ fields["initial_key"] = "PublicKey"
  OBVIOUS
<1> HIDE DEF fields, v
<1>3. Bound("CreateAccount") = {}
  BY <1>1, BoundIs
<1>4. Whole(v, fields, m, {})
  <2>1. Whole(h.body, fields, m, Bound("CreateAccount"))
    BY <1>1, BodyWhole
  <2> QED  BY <1>3, <2>1 DEF v
<1>5. m = [f \in all |-> m[f]]
  BY <1>2, <1>4 DEF Whole, Leaves
<1>6. /\ WrittenAs(v, fields, m, {}, "short_name", S) /\ WrittenAs(v, fields, m, {}, "author_name", S)
      /\ WrittenAs(v, fields, m, {}, "author_url", S)
      /\ WholeAs(v, fields, m, {}, "initial_key", "PublicKey")
  BY <1>2, <1>4 DEF WrittenAs, WholeAs, Whole, MessageTypes
<1>7. Str(v, "short_name") = m["short_name"]
  BY <1>6, StrField
<1>8. Str(v, "author_name") = m["author_name"]
  BY <1>6, StrField
<1>9. Str(v, "author_url") = m["author_url"]
  BY <1>6, StrField
<1> DEFINE key == Opt(v, "initial_key", parse_public_key)
<1>10. key = m["initial_key"]
  BY <1>6, KeyOpt
<1> HIDE DEF key
<1>11. create_account(h) = [short_name |-> m["short_name"], author_name |-> m["author_name"],
                            author_url |-> m["author_url"], initial_key |-> key]
  BY <1>7, <1>8, <1>9 DEF create_account, v, key
<1> QED  BY <1>5, <1>10, <1>11

\* A new user.
LEMMA CreateUserMade ==
  ASSUME NEW h, NEW m, Asks(h, "CreateUser", m)
  PROVE  create_user(h) = m
<1> DEFINE fields == [display_name |-> S, initial_key |-> "PublicKey"]
           all == {"display_name", "initial_key"}
           v == h.body
<1>1. Ruled("CreateUser", "POST", <<>>, fields)
  BY AccountRules
<1>2. /\ DOMAIN fields = all /\ fields["display_name"] = S /\ fields["initial_key"] = "PublicKey"
  OBVIOUS
<1> HIDE DEF fields, v
<1>3. Bound("CreateUser") = {}
  BY <1>1, BoundIs
<1>4. Whole(v, fields, m, {})
  <2>1. Whole(h.body, fields, m, Bound("CreateUser"))
    BY <1>1, BodyWhole
  <2> QED  BY <1>3, <2>1 DEF v
<1>5. m = [f \in all |-> m[f]]
  BY <1>2, <1>4 DEF Whole, Leaves
<1>6. /\ WrittenAs(v, fields, m, {}, "display_name", S)
      /\ WholeAs(v, fields, m, {}, "initial_key", "PublicKey")
  BY <1>2, <1>4 DEF WrittenAs, WholeAs, Whole, MessageTypes
<1>7. Str(v, "display_name") = m["display_name"]
  BY <1>6, StrField
<1> DEFINE key == Opt(v, "initial_key", parse_public_key)
<1>8. key = m["initial_key"]
  BY <1>6, KeyOpt
<1> HIDE DEF key
<1>9. create_user(h) = [display_name |-> m["display_name"], initial_key |-> key]
  BY <1>7 DEF create_user, v, key
<1> QED  BY <1>5, <1>8, <1>9

\* A key for a user.
LEMMA AddUserKeyMade ==
  ASSUME NEW h, NEW m, Asks(h, "AddUserKey", m)
  PROVE  add_user_key(h) = m
<1> DEFINE fields == [user_id |-> S, key |-> "PublicKey"]
           bound == <<"user_id">>
           v == h.body
<1>1. Ruled("AddUserKey", "POST", bound, fields)
  BY AccountRules
<1>2. /\ DOMAIN fields = {"user_id", "key"} /\ fields["user_id"] = S /\ fields["key"] = "PublicKey"
      /\ 1 \in DOMAIN bound /\ bound[1] = "user_id"
  OBVIOUS
<1>3. Bound("AddUserKey") = {"user_id"}
  BY <1>1, BoundIs
<1> HIDE DEF fields, bound, v
<1>4. Whole(v, fields, m, {"user_id"})
  <2>1. Whole(h.body, fields, m, Bound("AddUserKey"))
    BY <1>1, BodyWhole
  <2> QED  BY <1>3, <2>1 DEF v
<1>5. m = [f \in {"user_id", "key"} |-> m[f]]
  BY <1>2, <1>4 DEF Whole, Leaves
<1>6. WholeAs(v, fields, m, {"user_id"}, "key", "PublicKey")
  BY <1>2, <1>4 DEF WholeAs, MessageTypes
<1>7. Param(h, 1) = m["user_id"]
  BY <1>1, <1>2, ParamIs
<1> DEFINE key == Opt(v, "key", parse_public_key)
<1>8. key = m["key"]
  BY <1>6, KeyOpt
<1> HIDE DEF key
<1>9. add_user_key(h) = [user_id |-> m["user_id"], key |-> key]
  BY <1>7 DEF add_user_key, v, key
<1> QED  BY <1>5, <1>8, <1>9

\* An edit of an article.
LEMMA EditArticleMade ==
  ASSUME NEW h, NEW m, Asks(h, "EditArticle", m)
  PROVE  edit_article(h) = m
<1> DEFINE fields == [id |-> S, edit |-> "ArticleEdit", update_mask |-> "FieldMask"]
           all == {"id", "edit", "update_mask"}
           bound == <<"id">>
           v == h.body
<1>1. Ruled("EditArticle", "PATCH", bound, fields)
  BY ContentRules
<1>2. /\ DOMAIN fields = all
      /\ fields["id"] = S
      /\ fields["edit"] = "ArticleEdit"
      /\ fields["update_mask"] = "FieldMask"
      /\ 1 \in DOMAIN bound /\ bound[1] = "id"
  OBVIOUS
<1>3. Bound("EditArticle") = {"id"}
  BY <1>1, BoundIs
<1> HIDE DEF fields, bound, v
<1>4. Whole(v, fields, m, {"id"})
  <2>1. Whole(h.body, fields, m, Bound("EditArticle"))
    BY <1>1, BodyWhole
  <2> QED  BY <1>3, <2>1 DEF v
<1>5. m = [f \in all |-> m[f]]
  BY <1>2, <1>4 DEF Whole, Leaves
<1>6. /\ WholeAs(v, fields, m, {"id"}, "edit", "ArticleEdit")
      /\ WholeAs(v, fields, m, {"id"}, "update_mask", "FieldMask")
  BY <1>2, <1>4 DEF WrittenAs, WholeAs, Whole, MessageTypes
<1>7. Param(h, 1) = m["id"]
  BY <1>1, <1>2, ParamIs
<1> DEFINE text == Opt(v, "edit", Text)
<1>8. text = m["edit"]
  BY <1>6, EditOpt DEF ContentFields
<1> HIDE DEF text
<1> DEFINE mask == Opt(v, "update_mask", parse_field_mask)
<1>9. mask = m["update_mask"]
  BY <1>6, MaskOpt
<1> HIDE DEF mask
<1>10. edit_article(h) = [id |-> m["id"], edit |-> text, update_mask |-> mask]
  BY <1>7 DEF edit_article, v, text, mask
<1> QED  BY <1>5, <1>8, <1>9, <1>10

\* The end of an article.
LEMMA TombstoneArticleMade ==
  ASSUME NEW h, NEW m, Asks(h, "TombstoneArticle", m)
  PROVE  tombstone_article(h) = m
<1> DEFINE fields == [id |-> S, reason |-> S]
           all == {"id", "reason"}
           bound == <<"id">>
           v == h.body
<1>1. Ruled("TombstoneArticle", "POST", bound, fields)
  BY ContentRules
<1>2. /\ DOMAIN fields = all
      /\ fields["id"] = S
      /\ fields["reason"] = S
      /\ 1 \in DOMAIN bound /\ bound[1] = "id"
  OBVIOUS
<1>3. Bound("TombstoneArticle") = {"id"}
  BY <1>1, BoundIs
<1> HIDE DEF fields, bound, v
<1>4. Whole(v, fields, m, {"id"})
  <2>1. Whole(h.body, fields, m, Bound("TombstoneArticle"))
    BY <1>1, BodyWhole
  <2> QED  BY <1>3, <2>1 DEF v
<1>5. m = [f \in all |-> m[f]]
  BY <1>2, <1>4 DEF Whole, Leaves
<1>6. WrittenAs(v, fields, m, {"id"}, "reason", S)
  BY <1>2, <1>4 DEF WrittenAs, WholeAs, Whole, MessageTypes
<1>7. Param(h, 1) = m["id"]
  BY <1>1, <1>2, ParamIs
<1>8. Str(v, "reason") = m["reason"]
  BY <1>6, StrField
<1>9. tombstone_article(h) = [id |-> m["id"], reason |-> m["reason"]]
  BY <1>7, <1>8 DEF tombstone_article, v
<1> QED  BY <1>5, <1>9

\* A follow.
LEMMA FollowMade ==
  ASSUME NEW h, NEW m, Asks(h, "Follow", m)
  PROVE  follow_user(h) = m
<1> DEFINE fields == [user_id |-> S, account_id |-> S]
           all == {"user_id", "account_id"}
           bound == <<"user_id">>
           v == h.body
<1>1. Ruled("Follow", "POST", bound, fields)
  BY FollowRules DEF Followed
<1>2. /\ DOMAIN fields = all
      /\ fields["user_id"] = S
      /\ fields["account_id"] = S
      /\ 1 \in DOMAIN bound /\ bound[1] = "user_id"
  OBVIOUS
<1>3. Bound("Follow") = {"user_id"}
  BY <1>1, BoundIs
<1> HIDE DEF fields, bound, v
<1>4. Whole(v, fields, m, {"user_id"})
  <2>1. Whole(h.body, fields, m, Bound("Follow"))
    BY <1>1, BodyWhole
  <2> QED  BY <1>3, <2>1 DEF v
<1>5. m = [f \in all |-> m[f]]
  BY <1>2, <1>4 DEF Whole, Leaves
<1>6. WrittenAs(v, fields, m, {"user_id"}, "account_id", S)
  BY <1>2, <1>4 DEF WrittenAs, WholeAs, Whole, MessageTypes
<1>7. Param(h, 1) = m["user_id"]
  BY <1>1, <1>2, ParamIs
<1>8. Str(v, "account_id") = m["account_id"]
  BY <1>6, StrField
<1>9. follow_user(h) = [user_id |-> m["user_id"], account_id |-> m["account_id"]]
  BY <1>7, <1>8 DEF follow_user, v
<1> QED  BY <1>5, <1>9

\* A feed of recommendations.
LEMMA ReplaceFeedMade ==
  ASSUME NEW h, NEW m, Asks(h, "ReplaceRecommendationFeed", m)
  PROVE  replace_recommendation_feed(h) = m
<1> DEFINE fields == [user_id |-> S, article_ids |-> "strings"]
           all == {"user_id", "article_ids"}
           bound == <<"user_id">>
           v == h.body
<1>1. Ruled("ReplaceRecommendationFeed", "PUT", bound, fields)
  BY FollowRules
<1>2. /\ DOMAIN fields = all
      /\ fields["user_id"] = S
      /\ fields["article_ids"] = "strings"
      /\ 1 \in DOMAIN bound /\ bound[1] = "user_id"
  OBVIOUS
<1>3. Bound("ReplaceRecommendationFeed") = {"user_id"}
  BY <1>1, BoundIs
<1> HIDE DEF fields, bound, v
<1>4. Whole(v, fields, m, {"user_id"})
  <2>1. Whole(h.body, fields, m, Bound("ReplaceRecommendationFeed"))
    BY <1>1, BodyWhole
  <2> QED  BY <1>3, <2>1 DEF v
<1>5. m = [f \in all |-> m[f]]
  BY <1>2, <1>4 DEF Whole, Leaves
<1>6. WrittenAs(v, fields, m, {"user_id"}, "article_ids", "strings")
  BY <1>2, <1>4 DEF WrittenAs, WholeAs, Whole, MessageTypes
<1>7. Param(h, 1) = m["user_id"]
  BY <1>1, <1>2, ParamIs
<1>8. FieldIs("strings", m["article_ids"])
  BY <1>2, <1>4 DEF Whole, Leaves, MessageTypes, ListTypes
<1>9. Strings(ArrayOf(v, "article_ids")) = m["article_ids"]
  BY <1>6, <1>8, StringsField
<1>10. replace_recommendation_feed(h) = [user_id |-> m["user_id"], article_ids |-> m["article_ids"]]
  BY <1>7, <1>9 DEF replace_recommendation_feed, v
<1> QED  BY <1>5, <1>10

\* Handlers that read the path only: a field `id`, a field `user_id`, two fields.
LEMMA IdMade ==
  ASSUME NEW h, NEW rpc, NEW m, NEW method, Ruled(rpc, method, <<"id">>, Id), Asks(h, rpc, m)
  PROVE  [id |-> Param(h, 1)] = m
<1> DEFINE bound == <<"id">>
<1>1. DOMAIN Id = {"id"} /\ Id["id"] = S /\ 1 \in DOMAIN bound /\ bound[1] = "id"
  BY DEF Id
<1> HIDE DEF bound
<1>2. Ruled(rpc, method, bound, Id)
  BY DEF bound
<1>3. Param(h, 1) = m["id"]
  BY <1>1, <1>2, ParamIs
<1>4. m = [f \in {"id"} |-> m[f]]
  BY <1>1, <1>2, AskedFields DEF Leaves
<1> QED  BY <1>3, <1>4

\* The second.
LEMMA OfUserMade ==
  ASSUME NEW h, NEW rpc, NEW m, NEW method, Ruled(rpc, method, <<"user_id">>, OfUser), Asks(h, rpc, m)
  PROVE  [user_id |-> Param(h, 1)] = m
<1> DEFINE bound == <<"user_id">>
<1>1. DOMAIN OfUser = {"user_id"} /\ OfUser["user_id"] = S /\ 1 \in DOMAIN bound /\ bound[1] = "user_id"
  BY DEF OfUser
<1> HIDE DEF bound
<1>2. Ruled(rpc, method, bound, OfUser)
  BY DEF bound
<1>3. Param(h, 1) = m["user_id"]
  BY <1>1, <1>2, ParamIs
<1>4. m = [f \in {"user_id"} |-> m[f]]
  BY <1>1, <1>2, AskedFields DEF Leaves
<1> QED  BY <1>3, <1>4

\* A follow, by its user and its account.
LEMMA FollowedMade ==
  ASSUME NEW h, NEW rpc, NEW m, NEW method, Asks(h, rpc, m),
         Ruled(rpc, method, <<"user_id", "account_id">>, Followed)
  PROVE  [user_id |-> Param(h, 1), account_id |-> Param(h, 2)] = m
<1> DEFINE bound == <<"user_id", "account_id">>
           fields == Followed
<1>1. /\ DOMAIN fields = {"user_id", "account_id"} /\ fields["user_id"] = S /\ fields["account_id"] = S
      /\ 1 \in DOMAIN bound /\ bound[1] = "user_id" /\ 2 \in DOMAIN bound /\ bound[2] = "account_id"
  BY DEF Followed
<1> HIDE DEF bound, fields
<1>2. Ruled(rpc, method, bound, fields)
  BY DEF bound, fields
<1>3. Param(h, 1) = m["user_id"]
  BY <1>1, <1>2, ParamIs
<1>4. Param(h, 2) = m["account_id"]
  BY <1>1, <1>2, ParamIs
<1>5. m = [f \in {"user_id", "account_id"} |-> m[f]]
  BY <1>1, <1>2, AskedFields DEF Leaves
<1> QED  BY <1>3, <1>4, <1>5

\* A key of a user.
LEMMA UserKeyMade ==
  ASSUME NEW h, NEW rpc, NEW m, NEW method, Asks(h, rpc, m),
         Ruled(rpc, method, <<"user_id", "key_id">>, [user_id |-> S, key_id |-> S])
  PROVE  [user_id |-> Param(h, 1), key_id |-> Param(h, 2)] = m
<1> DEFINE bound == <<"user_id", "key_id">>
           fields == [user_id |-> S, key_id |-> S]
<1>1. /\ DOMAIN fields = {"user_id", "key_id"} /\ fields["user_id"] = S /\ fields["key_id"] = S
      /\ 1 \in DOMAIN bound /\ bound[1] = "user_id" /\ 2 \in DOMAIN bound /\ bound[2] = "key_id"
  BY DEF Followed
<1> HIDE DEF bound, fields
<1>2. Ruled(rpc, method, bound, fields)
  BY DEF bound, fields
<1>3. Param(h, 1) = m["user_id"]
  BY <1>1, <1>2, ParamIs
<1>4. Param(h, 2) = m["key_id"]
  BY <1>1, <1>2, ParamIs
<1>5. m = [f \in {"user_id", "key_id"} |-> m[f]]
  BY <1>1, <1>2, AskedFields DEF Leaves
<1> QED  BY <1>3, <1>4, <1>5

\* The field that holds a bound field, if only one can.
LEMMA HolderIs ==
  ASSUME NEW rpc, NEW method, NEW bound, NEW fields, Ruled(rpc, method, bound, fields),
         NEW f, NEW k \in DOMAIN fields, fields[k] \in MessageTypes, f \in DOMAIN Message[fields[k]],
         \A g \in DOMAIN fields : fields[g] \in MessageTypes /\ f \in DOMAIN Message[fields[g]] => g = k
  PROVE  Holder(rpc, f) = k
BY MessagesAre DEF Ruled, Holder

\* The text of an article or a draft of an account.
LEMMA AccountTextMade ==
  ASSUME NEW h, NEW rpc, NEW m, Asks(h, rpc, m), rpc # "UpdateUser",
         Ruled(rpc, "POST", <<"account_id">>, With(ContentFields, OfAccount))
  PROVE  With(Text(h.body), [account_id |-> Param(h, 1)]) = m
<1> DEFINE fields == With(ContentFields, OfAccount)
           bound == <<"account_id">>
           text == {"title", "author_name", "author_url", "content"}
           v == h.body
<1>1. Ruled(rpc, "POST", bound, fields)
  OBVIOUS
<1>2. DOMAIN ContentFields = text /\ DOMAIN OfAccount = {"account_id"} /\ OfAccount["account_id"] = S
  BY DEF ContentFields, OfAccount
<1>3. /\ DOMAIN fields = text \union {"account_id"} /\ fields["account_id"] = S
      /\ \A f \in text : fields[f] = ContentFields[f]
  BY <1>2 DEF With
<1>4. 1 \in DOMAIN bound /\ bound[1] = "account_id"
  OBVIOUS
<1>5. Bound(rpc) = {"account_id"}
  BY <1>1, BoundIs
<1> HIDE DEF fields, bound, v
<1>6. Whole(v, fields, m, {"account_id"})
  <2>1. Whole(h.body, fields, m, Bound(rpc))
    BY <1>1, BodyWhole
  <2> QED  BY <1>5, <2>1 DEF v
<1>7. Text(v) = [f \in text |-> m[f]]
  <2>1. Written(v, fields, m, {"account_id"}) /\ Leaves(fields, m)
    BY <1>6 DEF Whole
  <2>2. Text(v) = [f \in DOMAIN ContentFields |-> m[f]]
    BY <1>2, <1>3, <2>1, TextFields
  <2> QED  BY <1>2, <2>2
<1>8. Param(h, 1) = m["account_id"]
  BY <1>1, <1>3, <1>4, ParamIs
<1>9. m = [f \in text \union {"account_id"} |-> m[f]]
  BY <1>3, <1>6 DEF Whole, Leaves
<1> DEFINE x == [account_id |-> Param(h, 1)]
<1>10. DOMAIN x = {"account_id"} /\ x["account_id"] = m["account_id"]
  BY <1>8
<1> HIDE DEF x
<1>11. With(Text(v), x) = [f \in text \union {"account_id"} |-> m[f]]
  BY <1>7, <1>10 DEF With
<1> QED  BY <1>9, <1>11 DEF x, v

\* The redaction of a version.
LEMMA RedactMade ==
  ASSUME NEW h, NEW m, Asks(h, "RedactArticleVersion", m)
  PROVE  redact_article_version(h) = m
<1> DEFINE fields == [article_id |-> S, version |-> "int32", redaction_reason |-> S]
           all == {"article_id", "version", "redaction_reason"}
           bound == <<"article_id", "version">>
           v == h.body
<1>1. Ruled("RedactArticleVersion", "POST", bound, fields)
  BY ContentRules
<1>2. /\ DOMAIN fields = all /\ fields["article_id"] = S /\ fields["redaction_reason"] = S
      /\ fields["version"] = "int32" /\ 1 \in DOMAIN bound /\ bound[1] = "article_id"
      /\ 2 \in DOMAIN bound /\ bound[2] = "version"
  OBVIOUS
<1>3. Bound("RedactArticleVersion") = {"article_id", "version"}
  BY <1>1, BoundIs
<1> HIDE DEF fields, bound, v
<1>4. Whole(v, fields, m, {"article_id", "version"})
  <2>1. Whole(h.body, fields, m, Bound("RedactArticleVersion"))
    BY <1>1, BodyWhole
  <2> QED  BY <1>3, <2>1 DEF v
<1>5. m = [f \in all |-> m[f]] /\ FieldIs("int32", m["version"])
  BY <1>2, <1>4 DEF Whole, Leaves, MessageTypes, ListTypes
<1>6. WrittenAs(v, fields, m, {"article_id", "version"}, "redaction_reason", S)
  BY <1>2, <1>4 DEF WrittenAs, Whole
<1>7. Param(h, 1) = m["article_id"]
  BY <1>1, <1>2, ParamIs
<1>8. Str(v, "redaction_reason") = m["redaction_reason"]
  BY <1>6, StrField
<1>9. The(VersionOf(h)) = m["version"]
  <2>1. h.params[2] = FieldJson("int32", m["version"])
    BY <1>1, <1>2 DEF Ruled, Asks, HttpRequest
  <2>2. h.params[2] = JNum(m["version"])
    BY <2>1, FieldJsonIs
  <2>3. Is("num", JNum(m["version"])) /\ JNum(m["version"]).num = m["version"]
    BY DEF Is, JNum
  <2>4. Int32(m["version"]) = m["version"]
    BY <1>5 DEF FieldIs
  <2>5. {w \in {h.params[2]} : Is("num", w) /\ Int32(w.num) = w.num} = {JNum(m["version"])}
    BY <2>2, <2>3, <2>4
  <2>6. VersionOf(h) = {m["version"]}
    BY <2>3, <2>5 DEF VersionOf
  <2> QED  BY <2>6, TheOne
<1>10. redact_article_version(h) = [article_id |-> m["article_id"], version |-> m["version"],
                                    redaction_reason |-> m["redaction_reason"]]
  BY <1>7, <1>8, <1>9 DEF redact_article_version, v
<1> QED  BY <1>5, <1>10

\* A change of a draft.
LEMMA UpdateDraftMade ==
  ASSUME NEW h, NEW m, Asks(h, "UpdateDraft", m)
  PROVE  update_draft(h) = m
<1> DEFINE fields == [draft |-> "Draft", update_mask |-> "FieldMask"]
           bound == <<"id">>
           v == h.body
<1>1. Ruled("UpdateDraft", "PATCH", bound, fields)
  BY ContentRules
<1>2. /\ DOMAIN fields = {"draft", "update_mask"} /\ fields["draft"] = "Draft"
      /\ fields["update_mask"] = "FieldMask" /\ 1 \in DOMAIN bound /\ bound[1] = "id"
  OBVIOUS
<1>3. Bound("UpdateDraft") = {"id"}
  BY <1>1, BoundIs
<1> HIDE DEF fields, bound, v
<1>4. Whole(v, fields, m, {"id"})
  <2>1. Whole(h.body, fields, m, Bound("UpdateDraft"))
    BY <1>1, BodyWhole
  <2> QED  BY <1>3, <2>1 DEF v
<1>5. m = [f \in {"draft", "update_mask"} |-> m[f]]
  BY <1>2, <1>4 DEF Whole, Leaves
<1>6. /\ WholeAs(v, fields, m, {"id"}, "draft", "Draft")
      /\ WholeAs(v, fields, m, {"id"}, "update_mask", "FieldMask")
  BY <1>2, <1>4 DEF WholeAs, MessageTypes
<1>7. Holder("UpdateDraft", "id") = "draft"
  <2>1. "id" \in DOMAIN Message["Draft"] /\ "id" \notin DOMAIN Message["FieldMask"]
    BY MessageFields DEF With
  <2> QED  BY <1>1, <1>2, <2>1, HolderIs DEF MessageTypes
<1>8. Param(h, 1) = The(m["draft"])["id"] /\ m["draft"] # {}
  BY <1>1, <1>2, <1>7, ParamInside
<1>9. m["draft"] = {The(m["draft"])} /\
        Inside(v.obj["draft"], Message["Draft"], The(m["draft"]), {"id"})
  BY <1>6, <1>8, MessageInside
<1> DEFINE d == With(Text(v.obj["draft"]), [id |-> Param(h, 1)])
           mask == Opt(v, "update_mask", parse_field_mask)
<1>10. d = The(m["draft"])
  BY <1>8, <1>9, DraftRead DEF Inside
<1>11. mask = m["update_mask"]
  BY <1>6, MaskOpt
<1>12. Has(v, "draft")
  BY <1>6, <1>8, MessageGiven
<1> HIDE DEF d, mask
<1>13. update_draft(h) = [draft |-> {d}, update_mask |-> mask]
  BY <1>12 DEF update_draft, Opt, v, d, mask
<1> QED  BY <1>5, <1>9, <1>10, <1>11, <1>13

\* A change of a user's preferences.
LEMMA UpdatePreferencesMade ==
  ASSUME NEW h, NEW m, Asks(h, "UpdateUserNotificationPreferences", m)
  PROVE  update_user_notification_preferences(h) = m
<1> DEFINE fields == [preferences |-> "NotificationPreferences", update_mask |-> "FieldMask"]
           bound == <<"user_id">>
           v == h.body
           rpc == "UpdateUserNotificationPreferences"
<1>1. Ruled(rpc, "PATCH", bound, fields)
  BY EventRules
<1>2. /\ DOMAIN fields = {"preferences", "update_mask"}
      /\ fields["preferences"] = "NotificationPreferences"
      /\ fields["update_mask"] = "FieldMask" /\ 1 \in DOMAIN bound /\ bound[1] = "user_id"
  OBVIOUS
<1>3. Bound(rpc) = {"user_id"}
  BY <1>1, BoundIs
<1> HIDE DEF fields, bound, v
<1>4. Whole(v, fields, m, {"user_id"})
  <2>1. Whole(h.body, fields, m, Bound(rpc))
    BY <1>1, BodyWhole
  <2> QED  BY <1>3, <2>1 DEF v
<1>5. m = [f \in {"preferences", "update_mask"} |-> m[f]]
  BY <1>2, <1>4 DEF Whole, Leaves
<1>6. /\ WholeAs(v, fields, m, {"user_id"}, "preferences", "NotificationPreferences")
      /\ WholeAs(v, fields, m, {"user_id"}, "update_mask", "FieldMask")
  BY <1>2, <1>4 DEF WholeAs, MessageTypes
<1>7. Holder(rpc, "user_id") = "preferences"
  <2>1. /\ "user_id" \in DOMAIN Message["NotificationPreferences"]
        /\ "user_id" \notin DOMAIN Message["FieldMask"]
    BY MessageFields
  <2> QED  BY <1>1, <1>2, <2>1, HolderIs DEF MessageTypes
<1> DEFINE p == The(m["preferences"])
<1>8. Param(h, 1) = p["user_id"] /\ m["preferences"] # {}
  BY <1>1, <1>2, <1>7, ParamInside
<1>9. /\ m["preferences"] = {p}
      /\ Inside(v.obj["preferences"], Message["NotificationPreferences"], p, {"user_id"})
  BY <1>6, <1>8, MessageInside
<1>10. Has(v, "preferences")
  BY <1>6, <1>8, MessageGiven
<1> DEFINE w == v.obj["preferences"]
           new == With(parse_notification_preferences(w), [user_id |-> Param(h, 1)])
           mask == Opt(v, "update_mask", parse_field_mask)
<1> HIDE DEF p
<1>11. new = p
  BY <1>8, <1>9, PreferencesRead
<1>12. mask = m["update_mask"]
  BY <1>6, MaskOpt
<1> HIDE DEF new, mask
<1>13. update_user_notification_preferences(h) = [preferences |-> {new}, update_mask |-> mask]
  BY <1>10 DEF update_user_notification_preferences, v, new, mask
<1> QED  BY <1>5, <1>9, <1>11, <1>12, <1>13

\* A change of a user, which the body has beside the mask.
LEMMA UpdateUserMade ==
  ASSUME NEW h, NEW m, Asks(h, "UpdateUser", m)
  PROVE  update_user(h) = m
<1> DEFINE fields == [user |-> "User", update_mask |-> "FieldMask"]
           bound == <<"id">>
           b == {"id"}
           g == [f \in Given(fields, m) \ Bound("UpdateUser") |->
                   Json(fields[f], m[f], Bound("UpdateUser"))]
           rest == [f \in DOMAIN g \ {"user"} |-> g[f]]
           v == h.body
<1>1. Ruled("UpdateUser", "PATCH", bound, fields)
  BY AccountRules
<1>2. /\ DOMAIN fields = {"user", "update_mask"} /\ fields["user"] = "User"
      /\ fields["update_mask"] = "FieldMask" /\ 1 \in DOMAIN bound /\ bound[1] = "id"
  OBVIOUS
<1>3. Bound("UpdateUser") = b
  BY <1>1, BoundIs
<1> HIDE DEF fields, bound
<1>4. h.body = JObj(With(g["user"].obj, rest))
  BY <1>1 DEF Asks, Ruled, Body
<1> HIDE DEF g
<1>5. Whole(JObj(g), fields, m, b)
  <2>1. Whole(JObj(g), fields, m, Bound("UpdateUser"))
    BY <1>1, WholeWritten DEF g
  <2> QED  BY <1>3, <2>1
<1>6. JObj(g).obj = g
  BY DEF JObj
<1>7. m = [f \in {"user", "update_mask"} |-> m[f]]
  BY <1>2, <1>5 DEF Whole, Leaves
<1>8. /\ WholeAs(JObj(g), fields, m, b, "user", "User")
      /\ WholeAs(JObj(g), fields, m, b, "update_mask", "FieldMask")
  BY <1>2, <1>5 DEF WholeAs, MessageTypes
<1>9. Holder("UpdateUser", "id") = "user"
  <2>1. "id" \in DOMAIN Message["User"] /\ "id" \notin DOMAIN Message["FieldMask"]
    BY MessageFields
  <2> QED  BY <1>1, <1>2, <2>1, HolderIs DEF MessageTypes
<1> DEFINE u == The(m["user"])
<1>10. Param(h, 1) = u["id"] /\ m["user"] # {}
  BY <1>1, <1>2, <1>9, ParamInside
<1>11. m["user"] = {u} /\ Inside(g["user"], Message["User"], u, b)
  BY <1>6, <1>8, <1>10, MessageInside
<1> HIDE DEF u, rest
<1>12. v.obj = With(g["user"].obj, rest) /\ Is("obj", v)
  BY <1>4 DEF JObj, Is
<1>13. /\ DOMAIN Message["User"] = {"id", "display_name"} /\ Message["User"]["display_name"] = S
  BY MessageFields
<1>14. /\ Written(g["user"], Message["User"], u, b) /\ u = [f \in {"id", "display_name"} |-> u[f]]
       /\ DOMAIN g["user"].obj \subseteq {"display_name"}
  BY <1>11, <1>13 DEF Inside, Leaves, Written, Given
<1>15. DOMAIN rest \subseteq {"update_mask"} /\ DOMAIN g \subseteq {"user", "update_mask"}
  <2>1. DOMAIN g \subseteq {"user", "update_mask"}
    BY <1>2, <1>5, <1>6 DEF Whole, Written, Given
  <2> QED  BY <2>1 DEF rest
<1>16. Str(v, "display_name") = u["display_name"]
  <2>1. WrittenAs(g["user"], Message["User"], u, b, "display_name", S)
    BY <1>13, <1>14 DEF WrittenAs
  <2>2. Holds(g["user"], "display_name", FieldJson(S, u["display_name"]))
    BY <2>1, PlainWritten DEF WrittenAs, MessageTypes, ListTypes, S
  <2>3. Holds(g["user"], "display_name", JStr(u["display_name"]))
    BY <2>2, FieldJsonIs
  <2>4. "display_name" \in DOMAIN g["user"].obj /\ "display_name" \notin DOMAIN rest
    BY <1>15, <2>3 DEF Holds, Has
  <2>5. /\ v.obj["display_name"] = g["user"].obj["display_name"] /\ "display_name" \in DOMAIN v.obj
    BY <1>12, <2>4, WithUnder
  <2>6. Holds(v, "display_name", JStr(u["display_name"]))
    BY <1>12, <2>3, <2>5 DEF Holds, Has
  <2> QED  BY <2>6, StrRead
<1> DEFINE mask == Opt(v, "update_mask", parse_field_mask)
<1>17. mask = m["update_mask"]
  <2>1. Opt(JObj(g), "update_mask", parse_field_mask) = m["update_mask"]
    BY <1>8, MaskOpt
  <2>2. "update_mask" \notin DOMAIN g["user"].obj
    BY <1>14
  <2>3. "update_mask" \in DOMAIN v.obj <=> "update_mask" \in DOMAIN g
    BY <1>12, <2>2 DEF With, rest
  <2>4. ASSUME "update_mask" \in DOMAIN g  PROVE v.obj["update_mask"] = g["update_mask"]
    <3>1. "update_mask" \in DOMAIN rest /\ rest["update_mask"] = g["update_mask"]
      BY <2>4 DEF rest
    <3> QED  BY <1>12, <3>1, WithOver
  <2>5. Has(v, "update_mask") <=> Has(JObj(g), "update_mask")
    BY <1>6, <1>12, <2>3 DEF Has, Is, JObj
  <2> HIDE DEF v
  <2>6. CASE Has(v, "update_mask")
    BY <1>6, <2>1, <2>4, <2>5, <2>6 DEF Opt, Has
  <2>7. CASE ~Has(v, "update_mask")
    BY <2>1, <2>5, <2>7 DEF Opt
  <2> QED  BY <2>6, <2>7
<1> HIDE DEF mask
<1> DEFINE w == [id |-> u["id"], display_name |-> u["display_name"]]
<1>18. w = u
  BY <1>14
<1> HIDE DEF w
<1>19. update_user(h) = [user |-> {w}, update_mask |-> mask]
  BY <1>10, <1>16 DEF update_user, mask, w
<1> QED  BY <1>7, <1>11, <1>17, <1>18, <1>19

\* An event.
LEMMA RecordEventMade ==
  ASSUME NEW h, NEW m, Asks(h, "RecordEvent", m)
  PROVE  record_event(h) = m
<1>1. Ruled("RecordEvent", "POST", <<>>, EventFields)
  BY EventRules
<1>2. Bound("RecordEvent") = {}
  BY <1>1, BoundIs
<1>3. Whole(h.body, EventFields, m, Bound("RecordEvent"))
  BY <1>1, BodyWhole
<1>4. Written(h.body, EventFields, m, {}) /\ Leaves(EventFields, m)
  BY <1>2, <1>3 DEF Whole
<1> QED  BY <1>4, EventRead DEF record_event

\* A notification.
LEMMA SendNotificationMade ==
  ASSUME NEW h, NEW m, Asks(h, "SendNotification", m)
  PROVE  send_notification(h) = m
<1>1. Ruled("SendNotification", "POST", <<>>, Notification)
  BY EventRules
<1>2. Bound("SendNotification") = {}
  BY <1>1, BoundIs
<1>3. Whole(h.body, Notification, m, {})
  <2>1. Whole(h.body, Notification, m, Bound("SendNotification"))
    BY <1>1, BodyWhole
  <2> QED  BY <1>2, <2>1
<1>4. Inside(h.body, Notification, m, {})
  <2>1. \A k \in DOMAIN Notification : Notification[k] \in MessageTypes =>
          Notification[k] = "NotificationPayload"
    BY DEF Notification, MessageTypes, S
  <2>2. ASSUME NEW k \in DOMAIN Notification, Notification[k] \in MessageTypes, m[k] # {}
        PROVE  /\ Written(h.body.obj[k], Message[Notification[k]], The(m[k]), {})
               /\ Leaves(Message[Notification[k]], The(m[k]))
    BY <1>3, <2>2 DEF Whole, Inside
  <2> QED  BY <1>3, <2>2 DEF Whole, Inside
<1> QED  BY <1>4, NotificationRead DEF send_notification

\* Events in a batch.
LEMMA RecordEventBatchMade ==
  ASSUME NEW h, NEW m, Asks(h, "RecordEventBatch", m)
  PROVE  record_event_batch(h) = m
<1> DEFINE fields == [events |-> "Events"]
           list == m["events"]
           items == [i \in DOMAIN list |-> Object(EventFields, list[i], {}, FieldJson)]
           g == [f \in Given(fields, m) \ Bound("RecordEventBatch") |->
                   Json(fields[f], m[f], Bound("RecordEventBatch"))]
<1>1. Ruled("RecordEventBatch", "POST", <<>>, fields)
  BY EventRules
<1>2. DOMAIN fields = {"events"} /\ fields["events"] = "Events"
  OBVIOUS
<1>3. Bound("RecordEventBatch") = {}
  BY <1>1, BoundIs
<1> HIDE DEF fields
<1>4. h.body = JObj(g)
  BY <1>1 DEF Asks, Ruled, Body
<1>5. m = [f \in {"events"} |-> m[f]] /\ ValueIs("Events", m["events"])
  BY <1>1, <1>2, AskedFields DEF Leaves
<1> HIDE DEF list
<1>6. /\ list = [i \in 1..Len(list) |-> list[i]]
      /\ \A i \in DOMAIN list : FieldsAre(EventFields, list[i], FieldIs)
  BY <1>5, MessagesAre DEF ValueIs, ListIs, list, MessageTypes
<1>7. Json("Events", list, {}) = JArr(items)
  BY MessagesAre DEF Json, Each, MessageTypes
<1>8. "events" \in DOMAIN g /\ g["events"] = Json("Events", list, {})
  <2>1. "events" \in Given(fields, m)
    BY <1>2, MessagesAre DEF Given, MessageTypes
  <2> QED  BY <1>2, <1>3, <2>1 DEF list
<1> HIDE DEF g, items
<1>9. Holds(h.body, "events", JArr(items))
  BY <1>4, <1>7, <1>8 DEF Holds, Has, Is, JObj
<1>10. ArrayOf(h.body, "events") = items
  BY <1>9, ArrRead
<1>11. ASSUME NEW i \in DOMAIN list  PROVE parse_record_event_request(items[i]) = list[i]
  <2>1. items[i] = Object(EventFields, list[i], {}, FieldJson)
    BY DEF items
  <2>2. Written(Object(EventFields, list[i], {}, FieldJson), EventFields, list[i], {})
    BY LeavesWritten
  <2>3. Leaves(EventFields, list[i])
    BY <1>6, LeavesAre
  <2> QED  BY <2>1, <2>2, <2>3, EventRead
<1>12. DOMAIN items = DOMAIN list
  BY DEF items
<1> DEFINE read == [i \in DOMAIN items |-> parse_record_event_request(items[i])]
<1>13. read = [i \in DOMAIN list |-> list[i]]
  BY <1>11, <1>12
<1>14. read = list
  BY <1>6, <1>13
<1>15. record_event_batch(h) = [events |-> read]
  BY <1>10 DEF record_event_batch
<1> HIDE DEF read
<1> QED  BY <1>5, <1>14, <1>15 DEF list

\* Notifications in a batch.
LEMMA SendNotificationBatchMade ==
  ASSUME NEW h, NEW m, Asks(h, "SendNotificationBatch", m)
  PROVE  send_notification_batch(h) = m
<1> DEFINE fields == [notifications |-> "Notifications"]
           list == m["notifications"]
           items == [i \in DOMAIN list |-> Object(Notification, list[i], {}, InnerJson)]
           g == [f \in Given(fields, m) \ Bound("SendNotificationBatch") |->
                   Json(fields[f], m[f], Bound("SendNotificationBatch"))]
<1>1. Ruled("SendNotificationBatch", "POST", <<>>, fields)
  BY EventRules
<1>2. DOMAIN fields = {"notifications"} /\ fields["notifications"] = "Notifications"
  OBVIOUS
<1>3. Bound("SendNotificationBatch") = {}
  BY <1>1, BoundIs
<1> HIDE DEF fields
<1>4. h.body = JObj(g)
  BY <1>1 DEF Asks, Ruled, Body
<1>5. m = [f \in {"notifications"} |-> m[f]] /\ ValueIs("Notifications", m["notifications"])
  BY <1>1, <1>2, AskedFields DEF Leaves
<1> HIDE DEF list
<1>6. /\ list = [i \in 1..Len(list) |-> list[i]]
      /\ \A i \in DOMAIN list : FieldsAre(Notification, list[i], InnerIs)
  BY <1>5, MessagesAre DEF ValueIs, ListIs, list, MessageTypes
<1>7. Json("Notifications", list, {}) = JArr(items)
  BY MessagesAre DEF Json, Each, MessageTypes
<1>8. "notifications" \in DOMAIN g /\ g["notifications"] = Json("Notifications", list, {})
  <2>1. "notifications" \in Given(fields, m)
    BY <1>2, MessagesAre DEF Given, MessageTypes
  <2> QED  BY <1>2, <1>3, <2>1 DEF list
<1> HIDE DEF g, items
<1>9. Holds(h.body, "notifications", JArr(items))
  BY <1>4, <1>7, <1>8 DEF Holds, Has, Is, JObj
<1>10. ArrayOf(h.body, "notifications") = items
  BY <1>9, ArrRead
<1>11. ASSUME NEW i \in DOMAIN list  PROVE parse_send_notification_request(items[i]) = list[i]
  <2>1. items[i] = Object(Notification, list[i], {}, InnerJson)
    BY DEF items
  <2>2. Inside(Object(Notification, list[i], {}, InnerJson), Notification, list[i], {})
    BY <1>6, InsideWritten
  <2> QED  BY <2>1, <2>2, NotificationRead
<1>12. DOMAIN items = DOMAIN list
  BY DEF items
<1> DEFINE read == [i \in DOMAIN items |-> parse_send_notification_request(items[i])]
<1>13. read = [i \in DOMAIN list |-> list[i]]
  BY <1>11, <1>12
<1>14. read = list
  BY <1>6, <1>13
<1>15. send_notification_batch(h) = [notifications |-> read]
  BY <1>10 DEF send_notification_batch
<1> HIDE DEF read
<1> QED  BY <1>5, <1>14, <1>15 DEF list

-----------------------------------------------------------------------------
(* Queries: the pairs of the fields, in any order, then those of the types *)
(* of events.                                                              *)

\* The elements of a finite set in a list: each at one place.
LEMMA SetListed ==
  ASSUME NEW T, IsFiniteSet(T)
  PROVE  /\ Cardinality(T) \in Nat /\ SetToSeq(T) \in [1..Cardinality(T) -> T]
         /\ \A i, j \in 1..Cardinality(T) : SetToSeq(T)[i] = SetToSeq(T)[j] => i = j
         /\ \A x \in T : \E i \in 1..Cardinality(T) : SetToSeq(T)[i] = x
<1> DEFINE n == Cardinality(T)
           s == SetToSeq(T)
<1>1. n \in Nat /\ ExistsBijection(1..n, T)
  BY FS_CardinalityType
<1>2. PICK f \in [1..n -> T] : IsInjective(f)
  BY <1>1 DEF ExistsBijection, Bijection, Injection
<1>3. s \in [1..n -> T] /\ IsInjective(s)
  BY <1>2 DEF SetToSeq
<1> HIDE DEF s
<1>4. s \in Injection(1..n, T)
  BY <1>3 DEF Injection
<1>5. 1 \in Int /\ n \in Int /\ (IF 1 > n THEN 0 ELSE n - 1 + 1) = n
  BY <1>1
<1>6. Cardinality(1..n) = n
  <2>1. Cardinality(1..n) = IF 1 > n THEN 0 ELSE n - 1 + 1
    BY <1>5, FS_Interval
  <2> QED  BY <1>5, <2>1
<1> HIDE DEF n
<1>7. s \in Surjection(1..n, T)
  <2>1. Cardinality(1..n) = Cardinality(T)
    BY <1>6 DEF n
  <2> QED  BY <1>4, <2>1, FS_Injection
<1>8. /\ \A i, j \in 1..n : s[i] = s[j] => i = j
      /\ \A x \in T : \E i \in 1..n : s[i] = x
  BY <1>3, <1>7 DEF IsInjective, Surjection
<1> QED  BY <1>1, <1>3, <1>8 DEF n, s

\* The query q has one pair for each element of `single`, and then one for
\* each of a list of l types.
Queried(q, single, val, types, n, l) ==
  /\ n \in Nat /\ l \in Nat /\ DOMAIN q = 1..(n + l) /\ "types" \notin single
  /\ \A i \in 1..n : q[i][1] \in single /\ q[i][2] = val[q[i][1]]
  /\ \A i, j \in 1..n : q[i][1] = q[j][1] => i = j
  /\ \A k \in single : \E i \in 1..n : q[i][1] = k
  /\ \A i \in 1..l : q[n + i][1] = "types" /\ q[n + i][2] = JStr(FullEventTypes[types[i]])

\* The list w is s and then t.
Joined(w, s, t) ==
  /\ DOMAIN w = 1..(Len(s) + Len(t)) /\ \A i \in 1..Len(s) : w[i] = s[i]
  /\ \A i \in 1..Len(t) : w[Len(s) + i] = t[i]

\* So is s \o t.
LEMMA ConcatIs ==
  ASSUME NEW E, NEW s \in Seq(E), NEW t \in Seq(E)
  PROVE  Joined(s \o t, s, t)
<1>1. s \o t \in Seq(E) /\ Len(s \o t) = Len(s) + Len(t)
  OBVIOUS
<1>2. DOMAIN (s \o t) = 1..(Len(s) + Len(t))
  BY <1>1
<1>3. \A i \in 1..Len(s) : (s \o t)[i] = s[i]
  OBVIOUS
<1>4. ASSUME NEW i \in 1..Len(t)  PROVE (s \o t)[Len(s) + i] = t[i]
  <2>1. Len(s) + i \in 1..(Len(s) + Len(t)) /\ ~(Len(s) + i <= Len(s)) /\ (Len(s) + i) - Len(s) = i
    OBVIOUS
  <2> QED  BY <2>1
<1> QED  BY <1>2, <1>3, <1>4 DEF Joined

\* So is one that is put together from a set and a list.
LEMMA PairsQueried ==
  ASSUME NEW single, IsFiniteSet(single), "types" \notin single, NEW val, NEW types, NEW l,
         IsList(types, l),
         NEW names, names = SetToSeq(single), NEW q,
         q = [i \in DOMAIN names |-> <<names[i], val[names[i]]>>]
               \o [i \in DOMAIN types |-> <<"types", JStr(FullEventTypes[types[i]])>>]
  PROVE  Queried(q, single, val, types, Cardinality(single), l)
<1> DEFINE n == Cardinality(single)
           s == [i \in 1..n |-> <<names[i], val[names[i]]>>]
           t == [i \in 1..l |-> <<"types", JStr(FullEventTypes[types[i]])>>]
           E == {s[i] : i \in 1..n} \union {t[i] : i \in 1..l}
<1>1. /\ n \in Nat /\ names \in [1..n -> single]
      /\ \A i, j \in 1..n : names[i] = names[j] => i = j
      /\ \A x \in single : \E i \in 1..n : names[i] = x
  BY SetListed
<1>2. l \in Nat /\ DOMAIN types = 1..l
  BY DEF IsList
<1>3. q = s \o t
  BY <1>1, <1>2
<1>4. s \in [1..n -> E] /\ t \in [1..l -> E]
  OBVIOUS
<1>5. /\ \A i \in 1..n : s[i][1] = names[i] /\ s[i][2] = val[names[i]]
      /\ \A i \in 1..l : t[i][1] = "types" /\ t[i][2] = JStr(FullEventTypes[types[i]])
  OBVIOUS
<1> HIDE DEF n, s, t, E
<1>6. s \in Seq(E) /\ Len(s) = n /\ t \in Seq(E) /\ Len(t) = l
  BY <1>1, <1>2, <1>4
<1>7. /\ DOMAIN q = 1..(n + l) /\ \A i \in 1..n : q[i] = s[i]
      /\ \A i \in 1..l : q[n + i] = t[i]
  <2>1. Joined(s \o t, s, t)
    BY <1>6, ConcatIs
  <2>2. Joined(q, s, t)
    BY <1>3, <2>1, Zenon
  <2> QED  BY <1>6, <2>2, Zenon DEF Joined
<1>8. /\ \A i \in 1..n : q[i][1] = names[i] /\ q[i][2] = val[names[i]]
      /\ \A i \in 1..l : q[n + i][1] = "types" /\ q[n + i][2] = JStr(FullEventTypes[types[i]])
  BY <1>5, <1>7
<1>9. \A i \in 1..n : q[i][1] \in single /\ q[i][2] = val[q[i][1]]
  BY <1>1, <1>8
<1>10. \A i, j \in 1..n : q[i][1] = q[j][1] => i = j
  BY <1>1, <1>8
<1>11. \A k \in single : \E i \in 1..n : q[i][1] = k
  BY <1>1, <1>8
<1>12. Queried(q, single, val, types, n, l)
  BY <1>1, <1>2, <1>7, <1>8, <1>9, <1>10, <1>11 DEF Queried
<1> QED  BY <1>12 DEF n

\* A field has the value of its pair.
LEMMA LastIs ==
  ASSUME NEW q, NEW single, NEW val, NEW types, NEW n, NEW l, Queried(q, single, val, types, n, l),
         NEW k \in single
  PROVE  LastOf(q, k) = {val[k]}
<1>1. PICK i \in 1..n : q[i][1] = k
  BY DEF Queried
<1>2. i \in DOMAIN q /\ q[i][2] = val[k]
  BY <1>1 DEF Queried
<1>3. ASSUME NEW j \in DOMAIN q, q[j][1] = k  PROVE j = i
  <2>1. CASE j \in 1..n
    BY <1>1, <1>3, <2>1 DEF Queried
  <2>2. CASE j \notin 1..n
    <3>1. n \in Nat /\ l \in Nat /\ j \in 1..(n + l)
      BY DEF Queried
    <3>2. j - n \in 1..l /\ j = n + (j - n)
      BY <2>2, <3>1
    <3>3. q[j][1] = "types"
      BY <3>2 DEF Queried
    <3> QED  BY <1>3, <3>3 DEF Queried
  <2> QED  BY <2>1, <2>2
<1>4. i <= i
  BY DEF Queried
<1>5. {j \in DOMAIN q : q[j][1] = k /\ \A x \in DOMAIN q : q[x][1] = k => x <= j} = {i}
  BY <1>1, <1>2, <1>3, <1>4
<1> QED  BY <1>2, <1>5 DEF LastOf

\* A field that has no pair has no value.
LEMMA LastNone ==
  ASSUME NEW q, NEW single, NEW val, NEW types, NEW n, NEW l, Queried(q, single, val, types, n, l),
         NEW k, k \notin single, k # "types"
  PROVE  LastOf(q, k) = {}
<1>1. ASSUME NEW j \in DOMAIN q  PROVE q[j][1] # k
  <2>1. CASE j \in 1..n
    BY <2>1 DEF Queried
  <2>2. CASE j \notin 1..n
    <3>1. n \in Nat /\ l \in Nat /\ j \in 1..(n + l)
      BY DEF Queried
    <3>2. j - n \in 1..l /\ j = n + (j - n)
      BY <2>2, <3>1
    <3>3. q[j][1] = "types"
      BY <3>2 DEF Queried
    <3> QED  BY <3>3
  <2> QED  BY <2>1, <2>2
<1>2. {j \in DOMAIN q : q[j][1] = k /\ \A x \in DOMAIN q : q[x][1] = k => x <= j} = {}
  BY <1>1
<1> QED  BY <1>2 DEF LastOf

\* How a text, a number and a flag of a query are read.
LEMMA QueryStr ==
  ASSUME NEW q, NEW k, NEW x, LastOf(q, k) = {JStr(x)}
  PROVE  QStr(q, k) = x
<1>1. Is("str", JStr(x)) /\ JStr(x).str = x
  BY DEF Is, JStr
<1>2. The(LastOf(q, k)) = JStr(x)
  BY TheOne
<1> QED  BY <1>1, <1>2 DEF QStr

\* The number.
LEMMA QueryInt ==
  ASSUME NEW q, NEW k, NEW x, LastOf(q, k) = {JNum(x)}, Int32(x) = x
  PROVE  QInt(q, k) = x
<1>1. Is("num", JNum(x)) /\ JNum(x).num = x
  BY DEF Is, JNum
<1>2. The(LastOf(q, k)) = JNum(x)
  BY TheOne
<1> QED  BY <1>1, <1>2 DEF QInt

\* The flag.
LEMMA QueryFlag ==
  ASSUME NEW q, NEW k, NEW x \in BOOLEAN, LastOf(q, k) = {JStr(IF x THEN "true" ELSE "false")}
  PROVE  QFlag(q, k) = x
<1>1. JStr("true") # JStr("false")
  BY TextsDiffer
<1>2. CASE x
  BY <1>2 DEF QFlag
<1>3. CASE ~x
  BY <1>1, <1>3 DEF QFlag
<1> QED  BY <1>2, <1>3

\* The fields of a message that have one pair in the query, what the pair
\* has, and the types of events.
Single(rpc, fields, m) == {f \in Given(fields, m) \ Bound(rpc) : fields[f] # "EventTypes"}
Pair(fields, m, f) ==
  IF fields[f] = "bool" THEN JStr(IF m[f] THEN "true" ELSE "false") ELSE FieldJson(fields[f], m[f])
TypesIn(fields, m) == IF "types" \in DOMAIN fields THEN m["types"] ELSE <<>>

\* The request h has the query for the message m, of the fields of its RPC.
QueryOf(h, rpc, m, fields) ==
  /\ Leaves(fields, m)
  /\ Queried(h.query, Single(rpc, fields, m), [f \in Single(rpc, fields, m) |-> Pair(fields, m, f)],
             TypesIn(fields, m), Cardinality(Single(rpc, fields, m)), Len(TypesIn(fields, m)))

\* Every request for an RPC that reads has.
LEMMA AllRead ==
  ASSUME NEW h, NEW rpc, NEW m, NEW bound, NEW fields,
         Ruled(rpc, "GET", bound, fields), Asks(h, rpc, m), IsFiniteSet(DOMAIN fields),
         \A f \in DOMAIN fields : fields[f] = "EventTypes" <=> f = "types"
  PROVE  QueryOf(h, rpc, m, fields)
<1> DEFINE single == Single(rpc, fields, m)
           val == [f \in single |-> Pair(fields, m, f)]
           types == TypesIn(fields, m)
           names == SetToSeq(single)
           q == h.query
<1>1. Leaves(fields, m)
  BY AskedFields
<1>2. single \in SUBSET DOMAIN fields /\ "types" \notin single
  BY DEF Single, Given
<1>3. IsFiniteSet(single)
  BY <1>2, FS_Subset
<1>4. types \in Seq(DOMAIN EventTypes)
  <2>1. CASE "types" \in DOMAIN fields
    <3>1. FieldIs("EventTypes", m["types"])
      BY <1>1, <2>1 DEF Leaves, MessageTypes, ListTypes
    <3> QED  BY <2>1, <3>1 DEF TypesIn, FieldIs
  <2>2. CASE "types" \notin DOMAIN fields
    BY <2>2 DEF TypesIn
  <2> QED  BY <2>1, <2>2
<1>5. IsList(types, Len(types))
  BY <1>4, SeqIs
<1>6. q = [i \in DOMAIN names |-> <<names[i], Pair(fields, m, names[i])>>]
            \o [i \in DOMAIN types |-> <<"types", JStr(FullEventTypes[types[i]])>>]
  BY DEF Asks, Ruled, Query, Single, Pair, TypesIn
<1>7. \A i \in DOMAIN names : names[i] \in single
  BY <1>3, SetListed
<1>8. [i \in DOMAIN names |-> <<names[i], Pair(fields, m, names[i])>>]
        = [i \in DOMAIN names |-> <<names[i], val[names[i]]>>]
  BY <1>7
<1>9. q = [i \in DOMAIN names |-> <<names[i], val[names[i]]>>]
            \o [i \in DOMAIN types |-> <<"types", JStr(FullEventTypes[types[i]])>>]
  BY <1>6, <1>8, Zenon
<1>10. names = SetToSeq(single)
  OBVIOUS
<1> HIDE DEF single, val, types, names, q
<1>11. Queried(q, single, val, types, Cardinality(single), Len(types))
  BY <1>2, <1>3, <1>5, <1>9, <1>10, PairsQueried, Zenon
<1> QED  BY <1>1, <1>11 DEF QueryOf, single, val, types, q

\* What the pair of a field has.
LEMMA PairRead ==
  ASSUME NEW h, NEW rpc, NEW m, NEW fields, QueryOf(h, rpc, m, fields),
         NEW k \in Single(rpc, fields, m)
  PROVE  LastOf(h.query, k) = {Pair(fields, m, k)}
<1> DEFINE val == [f \in Single(rpc, fields, m) |-> Pair(fields, m, f)]
<1>1. val[k] = Pair(fields, m, k)
  OBVIOUS
<1> HIDE DEF val
<1>2. Queried(h.query, Single(rpc, fields, m), val, TypesIn(fields, m),
              Cardinality(Single(rpc, fields, m)), Len(TypesIn(fields, m)))
  BY DEF QueryOf, val
<1> QED  BY <1>1, <1>2, LastIs

\* A field in the query, of a type.
QueryAs(h, rpc, m, fields, k, type) ==
  QueryOf(h, rpc, m, fields) /\ k \in DOMAIN fields \ Bound(rpc) /\ fields[k] = type

\* A text in the query.
LEMMA QStrField ==
  ASSUME NEW h, NEW rpc, NEW m, NEW fields, NEW k, QueryAs(h, rpc, m, fields, k, S)
  PROVE  QStr(h.query, k) = m[k]
<1>1. k \in Single(rpc, fields, m)
  BY MessagesAre DEF QueryAs, Single, Given, MessageTypes, S
<1>2. LastOf(h.query, k) = {Pair(fields, m, k)}
  BY <1>1, PairRead DEF QueryAs
<1>3. Pair(fields, m, k) = FieldJson(S, m[k])
  BY DEF QueryAs, Pair, S
<1>4. FieldJson(S, m[k]) = JStr(m[k])
  BY FieldJsonIs
<1>5. LastOf(h.query, k) = {JStr(m[k])}
  BY <1>2, <1>3, <1>4
<1> QED  BY <1>5, QueryStr

\* A number in the query.
LEMMA QIntField ==
  ASSUME NEW h, NEW rpc, NEW m, NEW fields, NEW k, QueryAs(h, rpc, m, fields, k, "int32")
  PROVE  QInt(h.query, k) = m[k]
<1>1. k \in Single(rpc, fields, m)
  BY MessagesAre DEF QueryAs, Single, Given, MessageTypes
<1>2. LastOf(h.query, k) = {Pair(fields, m, k)}
  BY <1>1, PairRead DEF QueryAs
<1>3. Pair(fields, m, k) = FieldJson("int32", m[k])
  BY DEF QueryAs, Pair
<1>4. FieldJson("int32", m[k]) = JNum(m[k])
  BY FieldJsonIs
<1>5. LastOf(h.query, k) = {JNum(m[k])}
  BY <1>2, <1>3, <1>4
<1>6. FieldIs("int32", m[k])
  BY DEF QueryAs, QueryOf, Leaves, MessageTypes, ListTypes
<1>7. Int32(m[k]) = m[k]
  BY <1>6 DEF FieldIs
<1> QED  BY <1>5, <1>7, QueryInt

\* A flag in the query.
LEMMA QFlagField ==
  ASSUME NEW h, NEW rpc, NEW m, NEW fields, NEW k, QueryAs(h, rpc, m, fields, k, "bool")
  PROVE  QFlag(h.query, k) = m[k]
<1>1. k \in Single(rpc, fields, m)
  BY MessagesAre DEF QueryAs, Single, Given, MessageTypes
<1>2. LastOf(h.query, k) = {Pair(fields, m, k)}
  BY <1>1, PairRead DEF QueryAs
<1>3. Pair(fields, m, k) = JStr(IF m[k] THEN "true" ELSE "false")
  BY DEF QueryAs, Pair
<1>4. LastOf(h.query, k) = {JStr(IF m[k] THEN "true" ELSE "false")}
  BY <1>2, <1>3
<1>5. FieldIs("bool", m[k])
  BY DEF QueryAs, QueryOf, Leaves, MessageTypes, ListTypes
<1>6. m[k] \in BOOLEAN
  BY <1>5 DEF FieldIs
<1> QED  BY <1>4, <1>6, QueryFlag

\* The fields that queries have.
QueryNames == {"page_size", "page_token", "user_id", "account_id", "article_id", "types",
               "received_after", "received_before", "include_tombstoned", "include_unfollowed",
               "unread_only"}

\* There are finitely many.
LEMMA QueryNamesFinite == IsFiniteSet(QueryNames)
<1> DEFINE t == <<"page_size", "page_token", "user_id", "account_id", "article_id", "types",
                  "received_after", "received_before", "include_tombstoned", "include_unfollowed",
                  "unread_only">>
           s == [i \in 1..11 |-> t[i]]
<1>1. s \in Surjection(1..11, QueryNames)
  <2>1. s \in [1..11 -> QueryNames]
    BY DEF QueryNames
  <2>2. /\ s[1] = "page_size" /\ s[2] = "page_token" /\ s[3] = "user_id" /\ s[4] = "account_id"
        /\ s[5] = "article_id" /\ s[6] = "types" /\ s[7] = "received_after" /\ s[8] = "received_before"
        /\ s[9] = "include_tombstoned" /\ s[10] = "include_unfollowed" /\ s[11] = "unread_only"
    OBVIOUS
  <2> HIDE DEF s
  <2>3. \A x \in QueryNames : \E i \in 1..11 : s[i] = x
    BY <2>2 DEF QueryNames
  <2> QED  BY <2>1, <2>3 DEF Surjection
<1>2. IsFiniteSet(1..11)
  <2>1. 1 \in Int /\ 11 \in Int
    OBVIOUS
  <2> QED  BY <2>1, FS_Interval
<1> HIDE DEF s
<1> QED  BY <1>1, <1>2, FS_Surjection

\* m has the fields in D and no others.
FieldsIn(m, D) == m = [f \in D |-> m[f]]

\* What a handler of a paged listing makes.
LEMMA PagedMade ==
  ASSUME NEW h, NEW rpc, NEW m, NEW fields, NEW x,
         QueryAs(h, rpc, m, fields, "page_size", "int32"), QueryAs(h, rpc, m, fields, "page_token", S),
         \A k \in DOMAIN x : x[k] = m[k], FieldsIn(m, DOMAIN x \union {"page_size", "page_token"}),
         DOMAIN x \intersect {"page_size", "page_token"} = {}
  PROVE  With(Page(h), x) = m
<1> DEFINE all == DOMAIN x \union {"page_size", "page_token"}
<1>1. QInt(h.query, "page_size") = m["page_size"]
  BY QIntField
<1>2. QStr(h.query, "page_token") = m["page_token"]
  BY QStrField
<1>3. /\ DOMAIN Page(h) = {"page_size", "page_token"} /\ Page(h)["page_size"] = m["page_size"]
      /\ Page(h)["page_token"] = m["page_token"]
  BY <1>1, <1>2 DEF Page
<1>4. DOMAIN Page(h) \union DOMAIN x = all
  BY <1>3
<1>5. \A k \in all : (IF k \in DOMAIN x THEN x[k] ELSE Page(h)[k]) = m[k]
  BY <1>3
<1>6. With(Page(h), x) = [f \in all |-> m[f]]
  BY <1>4, <1>5 DEF With
<1> QED  BY <1>6 DEF FieldsIn

\* The pages of an account.
LEMMA AccountPageMade ==
  ASSUME NEW h, NEW rpc, NEW m, Asks(h, rpc, m), Ruled(rpc, "GET", <<"account_id">>, Paged(OfAccount))
  PROVE  With(Page(h), [account_id |-> Param(h, 1)]) = m
<1> DEFINE fields == Paged(OfAccount)
           bound == <<"account_id">>
           all == {"account_id", "page_size", "page_token"}
<1>1. Ruled(rpc, "GET", bound, fields)
  OBVIOUS
<1>2. /\ DOMAIN fields = all /\ fields["account_id"] = S
      /\ fields["page_size"] = "int32" /\ fields["page_token"] = S
  BY DEF Paged, With, OfAccount
<1>3. 1 \in DOMAIN bound /\ bound[1] = "account_id"
  OBVIOUS
<1>4. Bound(rpc) = {"account_id"}
  BY <1>1, BoundIs
<1> HIDE DEF fields, bound
<1>5. IsFiniteSet(DOMAIN fields)
  BY <1>2, QueryNamesFinite, FS_Subset DEF QueryNames
<1>6. QueryOf(h, rpc, m, fields)
  BY <1>1, <1>2, <1>5, AllRead DEF S
<1>7. QueryAs(h, rpc, m, fields, "page_size", "int32") /\ QueryAs(h, rpc, m, fields, "page_token", S)
  BY <1>2, <1>4, <1>6 DEF QueryAs
<1>8. Param(h, 1) = m["account_id"]
  BY <1>1, <1>2, <1>3, ParamIs
<1> DEFINE x == [account_id |-> Param(h, 1)]
<1>9. DOMAIN x = {"account_id"} /\ \A k \in DOMAIN x : x[k] = m[k]
  BY <1>8
<1>10. FieldsIn(m, all)
  BY <1>2, <1>6 DEF QueryOf, Leaves, FieldsIn
<1> HIDE DEF x
<1>11. DOMAIN x \union {"page_size", "page_token"} = all
  BY <1>9
<1>12. With(Page(h), x) = m
  BY <1>7, <1>9, <1>10, <1>11, PagedMade
<1> QED  BY <1>12 DEF x

\* The pages of a user.
LEMMA UserPageMade ==
  ASSUME NEW h, NEW rpc, NEW m, Asks(h, rpc, m), Ruled(rpc, "GET", <<"user_id">>, Paged(OfUser))
  PROVE  With(Page(h), [user_id |-> Param(h, 1)]) = m
<1> DEFINE fields == Paged(OfUser)
           bound == <<"user_id">>
           all == {"user_id", "page_size", "page_token"}
<1>1. Ruled(rpc, "GET", bound, fields)
  OBVIOUS
<1>2. /\ DOMAIN fields = all /\ fields["user_id"] = S
      /\ fields["page_size"] = "int32" /\ fields["page_token"] = S
  BY DEF Paged, With, OfUser
<1>3. 1 \in DOMAIN bound /\ bound[1] = "user_id"
  OBVIOUS
<1>4. Bound(rpc) = {"user_id"}
  BY <1>1, BoundIs
<1> HIDE DEF fields, bound
<1>5. IsFiniteSet(DOMAIN fields)
  BY <1>2, QueryNamesFinite, FS_Subset DEF QueryNames
<1>6. QueryOf(h, rpc, m, fields)
  BY <1>1, <1>2, <1>5, AllRead DEF S
<1>7. QueryAs(h, rpc, m, fields, "page_size", "int32") /\ QueryAs(h, rpc, m, fields, "page_token", S)
  BY <1>2, <1>4, <1>6 DEF QueryAs
<1>8. Param(h, 1) = m["user_id"]
  BY <1>1, <1>2, <1>3, ParamIs
<1> DEFINE x == [user_id |-> Param(h, 1)]
<1>9. DOMAIN x = {"user_id"} /\ \A k \in DOMAIN x : x[k] = m[k]
  BY <1>8
<1>10. FieldsIn(m, all)
  BY <1>2, <1>6 DEF QueryOf, Leaves, FieldsIn
<1> HIDE DEF x
<1>11. DOMAIN x \union {"page_size", "page_token"} = all
  BY <1>9
<1>12. With(Page(h), x) = m
  BY <1>7, <1>9, <1>10, <1>11, PagedMade
<1> QED  BY <1>12 DEF x

\* The articles of an account.
LEMMA ListAccountArticlesMade ==
  ASSUME NEW h, NEW m, Asks(h, "ListAccountArticles", m)
  PROVE  list_account_articles(h) = m
<1> DEFINE fields == Paged([account_id |-> S, include_tombstoned |-> "bool"])
           bound == <<"account_id">>
           all == {"account_id", "include_tombstoned", "page_size", "page_token"}
           rpc == "ListAccountArticles"
<1>1. Ruled(rpc, "GET", bound, fields)
  BY ContentRules
<1>2. /\ DOMAIN fields = all /\ fields["account_id"] = S /\ fields["include_tombstoned"] = "bool"
      /\ fields["page_size"] = "int32" /\ fields["page_token"] = S
  BY DEF Paged, With
<1>3. 1 \in DOMAIN bound /\ bound[1] = "account_id"
  OBVIOUS
<1>4. Bound(rpc) = {"account_id"}
  BY <1>1, BoundIs
<1> HIDE DEF fields, bound
<1>5. IsFiniteSet(DOMAIN fields)
  BY <1>2, QueryNamesFinite, FS_Subset DEF QueryNames
<1>6. QueryOf(h, rpc, m, fields)
  BY <1>1, <1>2, <1>5, AllRead DEF S
<1>7. /\ QueryAs(h, rpc, m, fields, "page_size", "int32") /\ QueryAs(h, rpc, m, fields, "page_token", S)
      /\ QueryAs(h, rpc, m, fields, "include_tombstoned", "bool")
  BY <1>2, <1>4, <1>6 DEF QueryAs
<1>8. Param(h, 1) = m["account_id"]
  BY <1>1, <1>2, <1>3, ParamIs
<1>9. QFlag(h.query, "include_tombstoned") = m["include_tombstoned"]
  BY <1>7, QFlagField
<1> DEFINE x == [account_id |-> Param(h, 1),
                 include_tombstoned |-> QFlag(h.query, "include_tombstoned")]
<1>10. DOMAIN x = {"account_id", "include_tombstoned"} /\ \A k \in DOMAIN x : x[k] = m[k]
  BY <1>8, <1>9
<1>11. FieldsIn(m, all)
  BY <1>2, <1>6 DEF QueryOf, Leaves, FieldsIn
<1> HIDE DEF x
<1>12. DOMAIN x \union {"page_size", "page_token"} = all
  BY <1>10
<1>13. With(Page(h), x) = m
  BY <1>7, <1>10, <1>11, <1>12, PagedMade
<1> QED  BY <1>13 DEF x, list_account_articles

\* The follows of a user.
LEMMA ListUserFollowsMade ==
  ASSUME NEW h, NEW m, Asks(h, "ListUserFollows", m)
  PROVE  list_user_follows(h) = m
<1> DEFINE fields == Paged([user_id |-> S, include_unfollowed |-> "bool"])
           bound == <<"user_id">>
           all == {"user_id", "include_unfollowed", "page_size", "page_token"}
           rpc == "ListUserFollows"
<1>1. Ruled(rpc, "GET", bound, fields)
  BY FollowRules
<1>2. /\ DOMAIN fields = all /\ fields["user_id"] = S /\ fields["include_unfollowed"] = "bool"
      /\ fields["page_size"] = "int32" /\ fields["page_token"] = S
  BY DEF Paged, With
<1>3. 1 \in DOMAIN bound /\ bound[1] = "user_id"
  OBVIOUS
<1>4. Bound(rpc) = {"user_id"}
  BY <1>1, BoundIs
<1> HIDE DEF fields, bound
<1>5. IsFiniteSet(DOMAIN fields)
  BY <1>2, QueryNamesFinite, FS_Subset DEF QueryNames
<1>6. QueryOf(h, rpc, m, fields)
  BY <1>1, <1>2, <1>5, AllRead DEF S
<1>7. /\ QueryAs(h, rpc, m, fields, "page_size", "int32") /\ QueryAs(h, rpc, m, fields, "page_token", S)
      /\ QueryAs(h, rpc, m, fields, "include_unfollowed", "bool")
  BY <1>2, <1>4, <1>6 DEF QueryAs
<1>8. Param(h, 1) = m["user_id"]
  BY <1>1, <1>2, <1>3, ParamIs
<1>9. QFlag(h.query, "include_unfollowed") = m["include_unfollowed"]
  BY <1>7, QFlagField
<1> DEFINE x == [user_id |-> Param(h, 1), include_unfollowed |-> QFlag(h.query, "include_unfollowed")]
<1>10. DOMAIN x = {"user_id", "include_unfollowed"} /\ \A k \in DOMAIN x : x[k] = m[k]
  BY <1>8, <1>9
<1>11. FieldsIn(m, all)
  BY <1>2, <1>6 DEF QueryOf, Leaves, FieldsIn
<1> HIDE DEF x
<1>12. DOMAIN x \union {"page_size", "page_token"} = all
  BY <1>10
<1>13. With(Page(h), x) = m
  BY <1>7, <1>10, <1>11, <1>12, PagedMade
<1> QED  BY <1>13 DEF x, list_user_follows

\* The followers of an account.
LEMMA ListAccountFollowersMade ==
  ASSUME NEW h, NEW m, Asks(h, "ListAccountFollowers", m)
  PROVE  list_account_followers(h) = m
<1> DEFINE fields == Paged([account_id |-> S, include_unfollowed |-> "bool"])
           bound == <<"account_id">>
           all == {"account_id", "include_unfollowed", "page_size", "page_token"}
           rpc == "ListAccountFollowers"
<1>1. Ruled(rpc, "GET", bound, fields)
  BY FollowRules
<1>2. /\ DOMAIN fields = all /\ fields["account_id"] = S /\ fields["include_unfollowed"] = "bool"
      /\ fields["page_size"] = "int32" /\ fields["page_token"] = S
  BY DEF Paged, With
<1>3. 1 \in DOMAIN bound /\ bound[1] = "account_id"
  OBVIOUS
<1>4. Bound(rpc) = {"account_id"}
  BY <1>1, BoundIs
<1> HIDE DEF fields, bound
<1>5. IsFiniteSet(DOMAIN fields)
  BY <1>2, QueryNamesFinite, FS_Subset DEF QueryNames
<1>6. QueryOf(h, rpc, m, fields)
  BY <1>1, <1>2, <1>5, AllRead DEF S
<1>7. /\ QueryAs(h, rpc, m, fields, "page_size", "int32") /\ QueryAs(h, rpc, m, fields, "page_token", S)
      /\ QueryAs(h, rpc, m, fields, "include_unfollowed", "bool")
  BY <1>2, <1>4, <1>6 DEF QueryAs
<1>8. Param(h, 1) = m["account_id"]
  BY <1>1, <1>2, <1>3, ParamIs
<1>9. QFlag(h.query, "include_unfollowed") = m["include_unfollowed"]
  BY <1>7, QFlagField
<1> DEFINE x == [account_id |-> Param(h, 1),
                 include_unfollowed |-> QFlag(h.query, "include_unfollowed")]
<1>10. DOMAIN x = {"account_id", "include_unfollowed"} /\ \A k \in DOMAIN x : x[k] = m[k]
  BY <1>8, <1>9
<1>11. FieldsIn(m, all)
  BY <1>2, <1>6 DEF QueryOf, Leaves, FieldsIn
<1> HIDE DEF x
<1>12. DOMAIN x \union {"page_size", "page_token"} = all
  BY <1>10
<1>13. With(Page(h), x) = m
  BY <1>7, <1>10, <1>11, <1>12, PagedMade
<1> QED  BY <1>13 DEF x, list_account_followers

\* The notifications of a user.
LEMMA ListUserNotificationsMade ==
  ASSUME NEW h, NEW m, Asks(h, "ListUserNotifications", m)
  PROVE  list_user_notifications(h) = m
<1> DEFINE fields == Paged([user_id |-> S, unread_only |-> "bool"])
           bound == <<"user_id">>
           all == {"user_id", "unread_only", "page_size", "page_token"}
           rpc == "ListUserNotifications"
<1>1. Ruled(rpc, "GET", bound, fields)
  BY EventRules
<1>2. /\ DOMAIN fields = all /\ fields["user_id"] = S /\ fields["unread_only"] = "bool"
      /\ fields["page_size"] = "int32" /\ fields["page_token"] = S
  BY DEF Paged, With
<1>3. 1 \in DOMAIN bound /\ bound[1] = "user_id"
  OBVIOUS
<1>4. Bound(rpc) = {"user_id"}
  BY <1>1, BoundIs
<1> HIDE DEF fields, bound
<1>5. IsFiniteSet(DOMAIN fields)
  BY <1>2, QueryNamesFinite, FS_Subset DEF QueryNames
<1>6. QueryOf(h, rpc, m, fields)
  BY <1>1, <1>2, <1>5, AllRead DEF S
<1>7. /\ QueryAs(h, rpc, m, fields, "page_size", "int32") /\ QueryAs(h, rpc, m, fields, "page_token", S)
      /\ QueryAs(h, rpc, m, fields, "unread_only", "bool")
  BY <1>2, <1>4, <1>6 DEF QueryAs
<1>8. Param(h, 1) = m["user_id"]
  BY <1>1, <1>2, <1>3, ParamIs
<1>9. QFlag(h.query, "unread_only") = m["unread_only"]
  BY <1>7, QFlagField
<1> DEFINE x == [user_id |-> Param(h, 1), unread_only |-> QFlag(h.query, "unread_only")]
<1>10. DOMAIN x = {"user_id", "unread_only"} /\ \A k \in DOMAIN x : x[k] = m[k]
  BY <1>8, <1>9
<1>11. FieldsIn(m, all)
  BY <1>2, <1>6 DEF QueryOf, Leaves, FieldsIn
<1> HIDE DEF x
<1>12. DOMAIN x \union {"page_size", "page_token"} = all
  BY <1>10
<1>13. With(Page(h), x) = m
  BY <1>7, <1>10, <1>11, <1>12, PagedMade
<1> QED  BY <1>13 DEF x, list_user_notifications

\* A time in the query.
LEMMA QTimeField ==
  ASSUME NEW h, NEW rpc, NEW m, NEW fields, NEW k, QueryAs(h, rpc, m, fields, k, "Timestamp"),
         k # "types"
  PROVE  UNION {parse_rfc3339_to_proto(v) : v \in LastOf(h.query, k)} = m[k]
<1>1. FieldIs("Timestamp", m[k])
  BY DEF QueryAs, QueryOf, Leaves, MessageTypes, ListTypes
<1>2. CASE m[k] = {}
  <2>1. k \notin Single(rpc, fields, m)
    BY <1>2, MessagesAre DEF QueryAs, Single, Given
  <2> DEFINE val == [f \in Single(rpc, fields, m) |-> Pair(fields, m, f)]
  <2> HIDE DEF val
  <2>2. Queried(h.query, Single(rpc, fields, m), val, TypesIn(fields, m),
                Cardinality(Single(rpc, fields, m)), Len(TypesIn(fields, m)))
    BY DEF QueryAs, QueryOf, val
  <2>3. LastOf(h.query, k) = {}
    BY <2>1, <2>2, LastNone
  <2> QED  BY <1>2, <2>3
<1>3. CASE m[k] # {}
  <2> DEFINE t == The(m[k])
  <2>1. k \in Single(rpc, fields, m)
    BY <1>3 DEF QueryAs, Single, Given
  <2>2. LastOf(h.query, k) = {Pair(fields, m, k)}
    BY <2>1, PairRead DEF QueryAs
  <2>3. Pair(fields, m, k) = FieldJson("Timestamp", m[k])
    BY DEF QueryAs, Pair
  <2>4. FieldJson("Timestamp", m[k]) = timestamp_to_rfc3339(t)
    BY FieldJsonIs
  <2>5. IsOptional(m[k])
    BY <1>1 DEF FieldIs
  <2>6. m[k] = {t} /\ t \in m[k]
    BY <1>3, <2>5, OptionalIs
  <2>7. t = [seconds |-> t.seconds, nanos |-> t.nanos] /\ t.nanos \in 0..(2 * NanosPerSecond - 1)
    BY <1>1, <2>6 DEF FieldIs
  <2> HIDE DEF t
  <2>8. parse_rfc3339_to_proto(timestamp_to_rfc3339(t)) = {t}
    BY <2>7, TimeRead
  <2>9. LastOf(h.query, k) = {timestamp_to_rfc3339(t)}
    BY <2>2, <2>3, <2>4
  <2>10. {parse_rfc3339_to_proto(v) : v \in LastOf(h.query, k)} = {{t}}
    BY <2>8, <2>9
  <2> QED  BY <2>6, <2>10
<1> QED  BY <1>2, <1>3

\* The positions of a query that name a type of events.
TypedAt(q) == {i \in DOMAIN q : /\ q[i][1] \in {"types", "types[]"}
                                /\ parse_event_type_str(q[i][2]) # {}}

\* The types of events that list_events reads.
TypesRead(q) ==
  LET typed == Picked(q, TypedAt(q))
  IN  [i \in DOMAIN typed |-> The(parse_event_type_str(typed[i][2]))]

\* They are read in their order.
LEMMA TypesAreRead ==
  ASSUME NEW q, NEW single, NEW val, NEW types \in Seq(DOMAIN EventTypes), NEW n,
         Queried(q, single, val, types, n, Len(types)), "types[]" \notin single
  PROVE  TypesRead(q) = types
<1> DEFINE l == Len(types)
           at == TypedAt(q)
           t == [i \in 1..l |-> q[n + i]]
<1>1. n \in Nat /\ l \in Nat /\ DOMAIN q = 1..(n + l)
  BY DEF Queried
<1>2. ASSUME NEW i \in 1..l
      PROVE  /\ q[n + i][1] = "types" /\ parse_event_type_str(q[n + i][2]) = {types[i]}
  <2>1. q[n + i][1] = "types" /\ q[n + i][2] = JStr(FullEventTypes[types[i]])
    BY DEF Queried
  <2>2. types[i] \in DOMAIN EventTypes
    BY SeqIs
  <2> QED  BY <2>1, <2>2, EventTypeRead
<1>3. at = (n + 1)..(n + l)
  <2>1. ASSUME NEW i \in 1..n  PROVE i \notin at
    BY <2>1 DEF Queried, TypedAt
  <2>2. ASSUME NEW i \in (n + 1)..(n + l)  PROVE i \in at
    <3>1. i - n \in 1..l /\ n + (i - n) = i /\ i \in DOMAIN q
      BY <1>1, <2>2
    <3>2. q[n + (i - n)][1] = "types" /\ parse_event_type_str(q[n + (i - n)][2]) = {types[i - n]}
      BY <1>2, <3>1
    <3>3. q[i][1] = "types" /\ parse_event_type_str(q[i][2]) # {}
      BY <3>1, <3>2
    <3> QED  BY <3>1, <3>3 DEF TypedAt
  <2>3. at \subseteq DOMAIN q
    BY DEF TypedAt
  <2> HIDE DEF at
  <2>4. \A i \in 1..(n + l) : i \in 1..n \/ i \in (n + 1)..(n + l)
    BY <1>1
  <2>5. (n + 1)..(n + l) \subseteq at
    BY <2>2
  <2>6. at \subseteq (n + 1)..(n + l)
    BY <1>1, <2>1, <2>3, <2>4
  <2> QED  BY <2>5, <2>6
<1>4. IsList(t, l) /\ \A i \in 1..l : t[i] = q[n + i]
  BY <1>1 DEF IsList
<1> HIDE DEF at, t
<1>5. Picked(q, (n + 1)..(n + l)) = t
  <2> DEFINE a == n + 1
             b == n + l
  <2>1. a \in Nat /\ b \in Nat /\ b + 1 = a + l
    BY <1>1
  <2>2. \A i \in 1..l : t[i] = q[a + i - 1]
    <3>1. ASSUME NEW i \in 1..l  PROVE t[i] = q[a + i - 1]
      <4>1. a + i - 1 = n + i
        BY <1>1
      <4> QED  BY <1>4, <4>1
    <3> QED  BY <3>1
  <2>3. IsList(t, l)
    BY <1>4
  <2> HIDE DEF a, b, l
  <2>4. Picked(q, a..b) = t
    BY <2>1, <2>2, <2>3, PickedSegment, Zenon
  <2> QED  BY <2>4 DEF a, b
<1>6. Picked(q, at) = t
  BY <1>3, <1>5
<1>7. DOMAIN t = 1..l
  BY <1>4 DEF IsList
<1>8. TypesRead(q) = [i \in DOMAIN t |-> The(parse_event_type_str(t[i][2]))]
  BY <1>6 DEF TypesRead, at
<1>9. \A i \in 1..l : The(parse_event_type_str(t[i][2])) = types[i]
  BY <1>2, <1>4, TheOne
<1>10. TypesRead(q) = [i \in 1..l |-> types[i]]
  BY <1>7, <1>8, <1>9
<1>11. IsList(types, l)
  BY SeqIs
<1> QED  BY <1>10, <1>11 DEF IsList

\* The events that match.
LEMMA ListEventsMade ==
  ASSUME NEW h, NEW m, Asks(h, "ListEvents", m)
  PROVE  list_events(h) = m
<1> DEFINE own == [user_id |-> S, article_id |-> S, types |-> "EventTypes",
                   received_after |-> "Timestamp", received_before |-> "Timestamp"]
           fields == Paged(own)
           mine == {"user_id", "article_id", "types", "received_after", "received_before"}
           all == mine \union {"page_size", "page_token"}
           rpc == "ListEvents"
           q == h.query
<1>1. Ruled(rpc, "GET", <<>>, fields)
  BY EventRules
<1>2. /\ DOMAIN own = mine /\ own["user_id"] = S /\ own["article_id"] = S
      /\ own["types"] = "EventTypes" /\ own["received_after"] = "Timestamp"
      /\ own["received_before"] = "Timestamp"
  OBVIOUS
<1> HIDE DEF own
<1>3. /\ DOMAIN fields = all /\ fields["user_id"] = S /\ fields["article_id"] = S
      /\ fields["types"] = "EventTypes" /\ fields["received_after"] = "Timestamp"
      /\ fields["received_before"] = "Timestamp"
      /\ fields["page_size"] = "int32" /\ fields["page_token"] = S
  BY <1>2 DEF Paged, With
<1>4. Bound(rpc) = {}
  BY <1>1, BoundIs
<1> HIDE DEF fields
<1>5. IsFiniteSet(DOMAIN fields)
  BY <1>3, QueryNamesFinite, FS_Subset DEF QueryNames
<1>6. QueryOf(h, rpc, m, fields)
  BY <1>1, <1>3, <1>5, AllRead DEF S
<1>7. /\ QueryAs(h, rpc, m, fields, "page_size", "int32") /\ QueryAs(h, rpc, m, fields, "page_token", S)
      /\ QueryAs(h, rpc, m, fields, "user_id", S) /\ QueryAs(h, rpc, m, fields, "article_id", S)
      /\ QueryAs(h, rpc, m, fields, "received_after", "Timestamp")
      /\ QueryAs(h, rpc, m, fields, "received_before", "Timestamp")
  BY <1>3, <1>4, <1>6 DEF QueryAs
<1>8. QStr(q, "user_id") = m["user_id"]
  BY <1>7, QStrField
<1>9. QStr(q, "article_id") = m["article_id"]
  BY <1>7, QStrField
<1> DEFINE after == UNION {parse_rfc3339_to_proto(v) : v \in LastOf(q, "received_after")}
           before == UNION {parse_rfc3339_to_proto(v) : v \in LastOf(q, "received_before")}
           types == TypesRead(q)
<1>10. after = m["received_after"]
  BY <1>7, QTimeField
<1>11. before = m["received_before"]
  BY <1>7, QTimeField
<1>12. types = m["types"]
  <2> DEFINE single == Single(rpc, fields, m)
             val == [f \in single |-> Pair(fields, m, f)]
             n == Cardinality(single)
             given == TypesIn(fields, m)
  <2> HIDE DEF single, val, n, given
  <2>1. Queried(q, single, val, given, n, Len(given))
    BY <1>6 DEF QueryOf, single, val, n, given
  <2>2. given = m["types"]
    BY <1>3 DEF TypesIn, given
  <2>3. FieldIs("EventTypes", m["types"])
    BY <1>3, <1>6 DEF QueryOf, Leaves, MessageTypes, ListTypes
  <2>4. given \in Seq(DOMAIN EventTypes)
    BY <2>2, <2>3 DEF FieldIs
  <2>5. "types[]" \notin single
    BY <1>3 DEF single, Single, Given
  <2>6. TypesRead(q) = given
    BY <2>1, <2>4, <2>5, TypesAreRead
  <2> QED  BY <2>2, <2>6
<1> HIDE DEF after, before, types
<1> DEFINE x == [user_id |-> QStr(q, "user_id"), article_id |-> QStr(q, "article_id"), types |-> types,
                 received_after |-> after, received_before |-> before]
<1>13. list_events(h) = With(Page(h), x)
  BY DEF list_events, after, before, types, TypesRead, TypedAt
<1>14. DOMAIN x = mine /\ \A k \in DOMAIN x : x[k] = m[k]
  BY <1>8, <1>9, <1>10, <1>11, <1>12
<1> HIDE DEF x
<1>15. FieldsIn(m, all)
  BY <1>3, <1>6 DEF QueryOf, Leaves, FieldsIn
<1>16. DOMAIN x \union {"page_size", "page_token"} = all
  BY <1>14
<1>17. With(Page(h), x) = m
  BY <1>7, <1>14, <1>15, <1>16, PagedMade
<1> QED  BY <1>13, <1>17

\* The handler of every route makes the message that was asked for.
LEMMA HandlersMake ==
  ASSUME NEW h, RpcOf(h) \in DOMAIN RouteTable, NEW m, Asks(h, RpcOf(h), m)
  PROVE  Forwarded(h) = m
<1> DEFINE rpc == RpcOf(h)
<1>1. rpc \in {"CreateAccount", "GetAccount", "CreateUser", "GetUser", "UpdateUser", "DeleteUser",
               "AddUserKey", "RevokeUserKey", "PublishArticle", "GetArticle",
               "ListAccountArticles", "EditArticle", "TombstoneArticle", "RedactArticleVersion",
               "CreateDraft", "GetDraft", "UpdateDraft", "DeleteDraft", "ListAccountDrafts",
               "PublishDraft", "Follow", "Unfollow", "GetFollow", "ListUserFollows",
               "ListAccountFollowers", "ReplaceRecommendationFeed", "GetRecommendationFeed",
               "GetFollowFeed", "StreamAccountArticles", "RecordEvent", "RecordEventBatch",
               "ListEvents", "SendNotification", "SendNotificationBatch", "ListUserNotifications",
               "MarkNotificationRead", "MarkAllUserNotificationsRead",
               "GetUserNotificationPreferences", "UpdateUserNotificationPreferences"}
  BY DEF RouteTable
<1> HIDE DEF rpc
<1>2. Asks(h, rpc, m)
  BY DEF rpc
<1>3. CASE rpc = "CreateAccount"
  <2>1. Forwarded(h) = create_account(h)
    BY <1>3 DEF Forwarded, rpc
  <2>2. Asks(h, "CreateAccount", m)
    BY <1>2, <1>3
  <2> QED  BY <2>1, <2>2, CreateAccountMade
<1>4. CASE rpc = "GetAccount"
  <2>1. Forwarded(h) = get_account(h)
    BY <1>4 DEF Forwarded, rpc
  <2>2. Ruled("GetAccount", "GET", <<"id">>, Id) /\ Asks(h, "GetAccount", m)
    BY <1>2, <1>4, AccountRules
  <2> QED  BY <2>1, <2>2, IdMade DEF get_account
<1>5. CASE rpc = "CreateUser"
  <2>1. Forwarded(h) = create_user(h)
    BY <1>5 DEF Forwarded, rpc
  <2>2. Asks(h, "CreateUser", m)
    BY <1>2, <1>5
  <2> QED  BY <2>1, <2>2, CreateUserMade
<1>6. CASE rpc = "GetUser"
  <2>1. Forwarded(h) = get_user(h)
    BY <1>6 DEF Forwarded, rpc
  <2>2. Ruled("GetUser", "GET", <<"id">>, Id) /\ Asks(h, "GetUser", m)
    BY <1>2, <1>6, AccountRules
  <2> QED  BY <2>1, <2>2, IdMade DEF get_user
<1>7. CASE rpc = "UpdateUser"
  <2>1. Forwarded(h) = update_user(h)
    BY <1>7 DEF Forwarded, rpc
  <2>2. Asks(h, "UpdateUser", m)
    BY <1>2, <1>7
  <2> QED  BY <2>1, <2>2, UpdateUserMade
<1>8. CASE rpc = "DeleteUser"
  <2>1. Forwarded(h) = delete_user(h)
    BY <1>8 DEF Forwarded, rpc
  <2>2. Ruled("DeleteUser", "DELETE", <<"id">>, Id) /\ Asks(h, "DeleteUser", m)
    BY <1>2, <1>8, AccountRules
  <2> QED  BY <2>1, <2>2, IdMade DEF delete_user
<1>9. CASE rpc = "AddUserKey"
  <2>1. Forwarded(h) = add_user_key(h)
    BY <1>9 DEF Forwarded, rpc
  <2>2. Asks(h, "AddUserKey", m)
    BY <1>2, <1>9
  <2> QED  BY <2>1, <2>2, AddUserKeyMade
<1>10. CASE rpc = "RevokeUserKey"
  <2>1. Forwarded(h) = revoke_user_key(h)
    BY <1>10 DEF Forwarded, rpc
  <2>2. Ruled("RevokeUserKey", "POST", <<"user_id", "key_id">>, [user_id |-> S, key_id |-> S]) /\
          Asks(h, "RevokeUserKey", m)
    BY <1>2, <1>10, AccountRules
  <2> QED  BY <2>1, <2>2, UserKeyMade DEF revoke_user_key
<1>11. CASE rpc = "PublishArticle"
  <2>1. Forwarded(h) = publish_article(h)
    BY <1>11 DEF Forwarded, rpc
  <2>2. Ruled("PublishArticle", "POST", <<"account_id">>, With(ContentFields, OfAccount)) /\
          Asks(h, "PublishArticle", m)
    BY <1>2, <1>11, ContentRules
  <2> QED  BY <2>1, <2>2, AccountTextMade DEF publish_article
<1>12. CASE rpc = "GetArticle"
  <2>1. Forwarded(h) = get_article_handler(h)
    BY <1>12 DEF Forwarded, rpc
  <2>2. Ruled("GetArticle", "GET", <<"id">>, Id) /\ Asks(h, "GetArticle", m)
    BY <1>2, <1>12, ContentRules
  <2> QED  BY <2>1, <2>2, IdMade DEF get_article_handler
<1>13. CASE rpc = "ListAccountArticles"
  <2>1. Forwarded(h) = list_account_articles(h)
    BY <1>13 DEF Forwarded, rpc
  <2>2. Asks(h, "ListAccountArticles", m)
    BY <1>2, <1>13
  <2> QED  BY <2>1, <2>2, ListAccountArticlesMade
<1>14. CASE rpc = "EditArticle"
  <2>1. Forwarded(h) = edit_article(h)
    BY <1>14 DEF Forwarded, rpc
  <2>2. Asks(h, "EditArticle", m)
    BY <1>2, <1>14
  <2> QED  BY <2>1, <2>2, EditArticleMade
<1>15. CASE rpc = "TombstoneArticle"
  <2>1. Forwarded(h) = tombstone_article(h)
    BY <1>15 DEF Forwarded, rpc
  <2>2. Asks(h, "TombstoneArticle", m)
    BY <1>2, <1>15
  <2> QED  BY <2>1, <2>2, TombstoneArticleMade
<1>16. CASE rpc = "RedactArticleVersion"
  <2>1. Forwarded(h) = redact_article_version(h)
    BY <1>16 DEF Forwarded, rpc
  <2>2. Asks(h, "RedactArticleVersion", m)
    BY <1>2, <1>16
  <2> QED  BY <2>1, <2>2, RedactMade
<1>17. CASE rpc = "CreateDraft"
  <2>1. Forwarded(h) = create_draft(h)
    BY <1>17 DEF Forwarded, rpc
  <2>2. Ruled("CreateDraft", "POST", <<"account_id">>, With(ContentFields, OfAccount)) /\
          Asks(h, "CreateDraft", m)
    BY <1>2, <1>17, ContentRules
  <2> QED  BY <2>1, <2>2, AccountTextMade DEF create_draft
<1>18. CASE rpc = "GetDraft"
  <2>1. Forwarded(h) = get_draft(h)
    BY <1>18 DEF Forwarded, rpc
  <2>2. Ruled("GetDraft", "GET", <<"id">>, Id) /\ Asks(h, "GetDraft", m)
    BY <1>2, <1>18, ContentRules
  <2> QED  BY <2>1, <2>2, IdMade DEF get_draft
<1>19. CASE rpc = "UpdateDraft"
  <2>1. Forwarded(h) = update_draft(h)
    BY <1>19 DEF Forwarded, rpc
  <2>2. Asks(h, "UpdateDraft", m)
    BY <1>2, <1>19
  <2> QED  BY <2>1, <2>2, UpdateDraftMade
<1>20. CASE rpc = "DeleteDraft"
  <2>1. Forwarded(h) = delete_draft(h)
    BY <1>20 DEF Forwarded, rpc
  <2>2. Ruled("DeleteDraft", "DELETE", <<"id">>, Id) /\ Asks(h, "DeleteDraft", m)
    BY <1>2, <1>20, ContentRules
  <2> QED  BY <2>1, <2>2, IdMade DEF delete_draft
<1>21. CASE rpc = "ListAccountDrafts"
  <2>1. Forwarded(h) = list_account_drafts(h)
    BY <1>21 DEF Forwarded, rpc
  <2>2. Ruled("ListAccountDrafts", "GET", <<"account_id">>, Paged(OfAccount)) /\
          Asks(h, "ListAccountDrafts", m)
    BY <1>2, <1>21, ContentRules
  <2> QED  BY <2>1, <2>2, AccountPageMade DEF list_account_drafts
<1>22. CASE rpc = "PublishDraft"
  <2>1. Forwarded(h) = publish_draft(h)
    BY <1>22 DEF Forwarded, rpc
  <2>2. Ruled("PublishDraft", "POST", <<"id">>, Id) /\ Asks(h, "PublishDraft", m)
    BY <1>2, <1>22, ContentRules
  <2> QED  BY <2>1, <2>2, IdMade DEF publish_draft
<1>23. CASE rpc = "Follow"
  <2>1. Forwarded(h) = follow_user(h)
    BY <1>23 DEF Forwarded, rpc
  <2>2. Asks(h, "Follow", m)
    BY <1>2, <1>23
  <2> QED  BY <2>1, <2>2, FollowMade
<1>24. CASE rpc = "Unfollow"
  <2>1. Forwarded(h) = unfollow_user(h)
    BY <1>24 DEF Forwarded, rpc
  <2>2. Ruled("Unfollow", "DELETE", <<"user_id", "account_id">>, Followed) /\ Asks(h, "Unfollow", m)
    BY <1>2, <1>24, FollowRules
  <2> QED  BY <2>1, <2>2, FollowedMade DEF unfollow_user
<1>25. CASE rpc = "GetFollow"
  <2>1. Forwarded(h) = get_follow(h)
    BY <1>25 DEF Forwarded, rpc
  <2>2. Ruled("GetFollow", "GET", <<"user_id", "account_id">>, Followed) /\ Asks(h, "GetFollow", m)
    BY <1>2, <1>25, FollowRules
  <2> QED  BY <2>1, <2>2, FollowedMade DEF get_follow
<1>26. CASE rpc = "ListUserFollows"
  <2>1. Forwarded(h) = list_user_follows(h)
    BY <1>26 DEF Forwarded, rpc
  <2>2. Asks(h, "ListUserFollows", m)
    BY <1>2, <1>26
  <2> QED  BY <2>1, <2>2, ListUserFollowsMade
<1>27. CASE rpc = "ListAccountFollowers"
  <2>1. Forwarded(h) = list_account_followers(h)
    BY <1>27 DEF Forwarded, rpc
  <2>2. Asks(h, "ListAccountFollowers", m)
    BY <1>2, <1>27
  <2> QED  BY <2>1, <2>2, ListAccountFollowersMade
<1>28. CASE rpc = "ReplaceRecommendationFeed"
  <2>1. Forwarded(h) = replace_recommendation_feed(h)
    BY <1>28 DEF Forwarded, rpc
  <2>2. Asks(h, "ReplaceRecommendationFeed", m)
    BY <1>2, <1>28
  <2> QED  BY <2>1, <2>2, ReplaceFeedMade
<1>29. CASE rpc = "GetRecommendationFeed"
  <2>1. Forwarded(h) = get_recommendation_feed(h)
    BY <1>29 DEF Forwarded, rpc
  <2>2. Ruled("GetRecommendationFeed", "GET", <<"user_id">>, Paged(OfUser)) /\
          Asks(h, "GetRecommendationFeed", m)
    BY <1>2, <1>29, FollowRules
  <2> QED  BY <2>1, <2>2, UserPageMade DEF get_recommendation_feed
<1>30. CASE rpc = "GetFollowFeed"
  <2>1. Forwarded(h) = get_follow_feed(h)
    BY <1>30 DEF Forwarded, rpc
  <2>2. Ruled("GetFollowFeed", "GET", <<"user_id">>, Paged(OfUser)) /\ Asks(h, "GetFollowFeed", m)
    BY <1>2, <1>30, FollowRules
  <2> QED  BY <2>1, <2>2, UserPageMade DEF get_follow_feed
<1>31. CASE rpc = "StreamAccountArticles"
  <2>1. Forwarded(h) = stream_account_articles(h)
    BY <1>31 DEF Forwarded, rpc
  <2>2. Ruled("StreamAccountArticles", "GET", <<"account_id">>, Paged(OfAccount)) /\
          Asks(h, "StreamAccountArticles", m)
    BY <1>2, <1>31, FollowRules
  <2> QED  BY <2>1, <2>2, AccountPageMade DEF stream_account_articles
<1>32. CASE rpc = "RecordEvent"
  <2>1. Forwarded(h) = record_event(h)
    BY <1>32 DEF Forwarded, rpc
  <2>2. Asks(h, "RecordEvent", m)
    BY <1>2, <1>32
  <2> QED  BY <2>1, <2>2, RecordEventMade
<1>33. CASE rpc = "RecordEventBatch"
  <2>1. Forwarded(h) = record_event_batch(h)
    BY <1>33 DEF Forwarded, rpc
  <2>2. Asks(h, "RecordEventBatch", m)
    BY <1>2, <1>33
  <2> QED  BY <2>1, <2>2, RecordEventBatchMade
<1>34. CASE rpc = "ListEvents"
  <2>1. Forwarded(h) = list_events(h)
    BY <1>34 DEF Forwarded, rpc
  <2>2. Asks(h, "ListEvents", m)
    BY <1>2, <1>34
  <2> QED  BY <2>1, <2>2, ListEventsMade
<1>35. CASE rpc = "SendNotification"
  <2>1. Forwarded(h) = send_notification(h)
    BY <1>35 DEF Forwarded, rpc
  <2>2. Asks(h, "SendNotification", m)
    BY <1>2, <1>35
  <2> QED  BY <2>1, <2>2, SendNotificationMade
<1>36. CASE rpc = "SendNotificationBatch"
  <2>1. Forwarded(h) = send_notification_batch(h)
    BY <1>36 DEF Forwarded, rpc
  <2>2. Asks(h, "SendNotificationBatch", m)
    BY <1>2, <1>36
  <2> QED  BY <2>1, <2>2, SendNotificationBatchMade
<1>37. CASE rpc = "ListUserNotifications"
  <2>1. Forwarded(h) = list_user_notifications(h)
    BY <1>37 DEF Forwarded, rpc
  <2>2. Asks(h, "ListUserNotifications", m)
    BY <1>2, <1>37
  <2> QED  BY <2>1, <2>2, ListUserNotificationsMade
<1>38. CASE rpc = "MarkNotificationRead"
  <2>1. Forwarded(h) = mark_notification_read(h)
    BY <1>38 DEF Forwarded, rpc
  <2>2. Ruled("MarkNotificationRead", "POST", <<"id">>, Id) /\ Asks(h, "MarkNotificationRead", m)
    BY <1>2, <1>38, EventRules
  <2> QED  BY <2>1, <2>2, IdMade DEF mark_notification_read
<1>39. CASE rpc = "MarkAllUserNotificationsRead"
  <2>1. Forwarded(h) = mark_all_user_notifications_read(h)
    BY <1>39 DEF Forwarded, rpc
  <2>2. Ruled("MarkAllUserNotificationsRead", "POST", <<"user_id">>, OfUser) /\
          Asks(h, "MarkAllUserNotificationsRead", m)
    BY <1>2, <1>39, EventRules
  <2> QED  BY <2>1, <2>2, OfUserMade DEF mark_all_user_notifications_read
<1>40. CASE rpc = "GetUserNotificationPreferences"
  <2>1. Forwarded(h) = get_user_notification_preferences(h)
    BY <1>40 DEF Forwarded, rpc
  <2>2. Ruled("GetUserNotificationPreferences", "GET", <<"user_id">>, OfUser) /\
          Asks(h, "GetUserNotificationPreferences", m)
    BY <1>2, <1>40, EventRules
  <2> QED  BY <2>1, <2>2, OfUserMade DEF get_user_notification_preferences
<1>41. CASE rpc = "UpdateUserNotificationPreferences"
  <2>1. Forwarded(h) = update_user_notification_preferences(h)
    BY <1>41 DEF Forwarded, rpc
  <2>2. Asks(h, "UpdateUserNotificationPreferences", m)
    BY <1>2, <1>41
  <2> QED  BY <2>1, <2>2, UpdatePreferencesMade
<1> QED  BY <1>1, <1>3, <1>4, <1>5, <1>6, <1>7, <1>8, <1>9, <1>10, <1>11, <1>12, <1>13, <1>14,
            <1>15, <1>16, <1>17, <1>18, <1>19, <1>20, <1>21, <1>22, <1>23, <1>24, <1>25, <1>26,
            <1>27, <1>28, <1>29, <1>30, <1>31, <1>32, <1>33, <1>34, <1>35, <1>36, <1>37, <1>38,
            <1>39, <1>40, <1>41

\* A request that is forwarded has a route.
LEMMA ForwardedHasRoute ==
  ASSUME NEW h, Forwardable(h)
  PROVE  RpcOf(h) \in DOMAIN RouteTable
<1>1. The(RoutesAt(h)) \in RoutesAt(h)
  BY DEF Forwardable, The
<1>2. The(RoutesAt(h)) \in Routes
  BY <1>1 DEF RoutesAt
<1>3. PICK rpc \in DOMAIN RouteTable : The(RoutesAt(h)) = [at |-> RouteTable[rpc], rpc |-> rpc]
  BY <1>2 DEF Routes
<1> QED  BY <1>3 DEF RpcOf

\* The handler of every route rebuilds, from the path, the query and the JSON
\* body that the protocol has for a message, that message: no field is
\* dropped, defaulted, cut to its width or read from the wrong place.
THEOREM HandlersRebuildCorrect == HandlersRebuild
<1> SUFFICES ASSUME NEW h \in Range(Http), Forwardable(h), h = Original(h)
             PROVE  Forwarded(h) = h.meant
  BY DEF HandlersRebuild
<1> DEFINE rpc == RpcOf(h)
           m == h.meant
           x == HttpRequest(rpc, m)
<1>1. MessageIs(rpc, m)
  BY ClientsAssumption
<1>2. h = With(h, x)
  BY DEF Original
<1>3. {"params", "query", "body"} \subseteq DOMAIN x /\ x.query = Query(rpc, m) /\ x.body = Body(rpc, m)
  BY DEF HttpRequest
<1> HIDE DEF x, m, rpc
<1>4. With(h, x)["params"] = x["params"]
  BY <1>3, WithOver
<1>5. With(h, x)["query"] = x["query"]
  BY <1>3, WithOver
<1>6. With(h, x)["body"] = x["body"]
  BY <1>3, WithOver
<1>7. h.params = x.params /\ h.query = x.query /\ h.body = x.body
  <2> DEFINE w == With(h, x)
  <2>1. w["params"] = x["params"] /\ w["query"] = x["query"] /\ w["body"] = x["body"]
    BY <1>4, <1>5, <1>6
  <2>2. h = w
    BY <1>2
  <2> HIDE DEF w
  <2>3. h["params"] = x["params"] /\ h["query"] = x["query"] /\ h["body"] = x["body"]
    BY <2>1, <2>2, Zenon
  <2> QED  BY <2>3
<1>8. Asks(h, rpc, m)
  BY <1>1, <1>3, <1>7 DEF Asks, x
<1>9. rpc \in DOMAIN RouteTable
  BY ForwardedHasRoute DEF rpc
<1>10. Forwarded(h) = m
  BY <1>8, <1>9, HandlersMake DEF rpc
<1> QED  BY <1>10 DEF m

-----------------------------------------------------------------------------
(* The gateway.  It adds its own state to that of Authentication, and      *)
(* every step of it is one of Authentication or leaves that state alone.   *)

\* What a door may let in is among the messages of Authentication.
LEMMA DoorMessages ==
  ASSUME traffic \in Traffics
  PROVE  /\ \A m \in traffic.grpc : m \in Messages
         /\ \A n \in traffic.http : /\ n \in DOMAIN Http /\ Http[n] \in Range(Http)
                                    /\ Forwardable(Http[n]) => \A bytes \in Encodings(Http[n]) :
                                         SignedRequestParts(Http[n], bytes) \in Messages
         /\ \A k \in traffic.keys : k \in Keys
BY TrafficAssumption DEF Range

\* A step of the gateway, seen from Authentication.
LEMMA GatewayStep ==
  ASSUME traffic \in Traffics, [GatewayNext]_gatewayVars
  PROVE  [Next]_vars /\ traffic' = traffic
<1>1. ASSUME NEW c \in Calls, GrpcDoor(c)  PROVE Next /\ traffic' = traffic
  <2>1. PICK m \in traffic.grpc : AuthInterceptor(c, m) \/ AuthInterceptorRefuses(c, m)
    BY <1>1 DEF GrpcDoor
  <2>2. m \in Messages
    BY DoorMessages
  <2> QED  BY <1>1, <2>1, <2>2 DEF Next, GrpcDoor, Serves
<1>2. ASSUME NEW c \in Calls, RestDoor(c)  PROVE Next /\ traffic' = traffic
  <2>1. PICK n \in traffic.http :
          /\ Forwardable(Http[n]) /\ Serves(c, n)
          /\ \E bytes \in Encodings(Http[n]) : AttachAuth(c, SignedRequestParts(Http[n], bytes))
    BY <1>2 DEF RestDoor
  <2>2. PICK bytes \in Encodings(Http[n]) : AttachAuth(c, SignedRequestParts(Http[n], bytes))
    BY <2>1
  <2>3. SignedRequestParts(Http[n], bytes) \in Messages
    BY <2>1, DoorMessages
  <2> QED  BY <2>1, <2>2, <2>3 DEF Next, Serves
<1>3. ASSUME NEW c \in Calls, NoRoute(c) \/ ExtractorRejects(c)
      PROVE  UNCHANGED vars /\ traffic' = traffic
  BY <1>3 DEF NoRoute, ExtractorRejects, AnswersAtOnce
<1>4. ASSUME NEW c \in Calls, RefusalReply(c) \/ ServiceReplies(c) \/ AnswerLost(c)
      PROVE  UNCHANGED vars /\ traffic' = traffic
  BY <1>4 DEF RefusalReply, ServiceReplies, AnswerLost, Answers
<1>5. ASSUME NEW k \in traffic.keys, AddKey(k) \/ \E t \in Tables : RevokeKey(t, k)
      PROVE  Next
  BY <1>5, DoorMessages DEF Next
<1>6. CASE GatewayRestart
  BY <1>6 DEF GatewayRestart, Next
<1>7. CASE UNCHANGED gatewayVars
  BY <1>7 DEF gatewayVars, restVars
<1>8. CASE /\ \/ \E c \in Calls, t \in Tables : SelectActive(c, t) \/ SelectStatus(c, t)
              \/ \E c \in Calls :
                   \/ ResolverFails(c) \/ Rejected(c) \/ Validated(c) \/ Record(c)
                   \/ TrustedSubject(c) \/ HopFails(c) \/ Authorize(c)
              \/ \E k \in traffic.keys : AddKey(k) \/ \E t \in Tables : RevokeKey(t, k)
              \/ ClockMoves /\ clock' <= traffic.clock
           /\ UNCHANGED restVars
  <2>1. traffic' = traffic
    BY <1>8 DEF restVars
  <2> QED  BY <1>5, <1>8, <2>1 DEF Next
<1> QED  BY <1>1, <1>2, <1>3, <1>4, <1>6, <1>7, <1>8 DEF GatewayNext

\* The gateway implements Authentication: behind the REST door a request
\* takes the steps of the specification that the gRPC door follows, and a
\* reply, a rejected body or an unknown path takes none.
THEOREM GatewayImplementsAuthentication == GatewaySpec => Spec
<1>1. GatewayInit => Init /\ traffic \in Traffics
  BY DEF GatewayInit
<1>2. traffic \in Traffics /\ [GatewayNext]_gatewayVars => (traffic \in Traffics)' /\ [Next]_vars
  BY GatewayStep
<1> QED  BY <1>1, <1>2, PTL DEF GatewaySpec, Spec

\* What holds of the authenticated request holds with the gateway in front:
\* no handler runs for a subject that did not sign, whichever door it used.
THEOREM GatewayHandledForSigner == GatewaySpec => []HandledForSigner
BY GatewayImplementsAuthentication, HandledForSignerCorrect, PTL

\* Nor does any mixture of requests at the two doors admit a nonce twice
\* within the horizon: they share the store.
THEOREM GatewayNonceOnce == GatewaySpec => NonceOncePerHorizon
BY GatewayImplementsAuthentication, NonceOnceCorrect, PTL

\* A replay refused at either door was a message its key really signed.
THEOREM GatewayReplayJustified == GatewaySpec => []ReplayJustified
BY GatewayImplementsAuthentication, ReplayJustifiedCorrect, PTL

-----------------------------------------------------------------------------
(* Replies. *)

\* What an answer to the request h can be.
ServiceAnswer(h, a) ==
  /\ a.outcome \in Outcomes(RpcOf(h), Forwarded(h))
  /\ a.reply = ReplyTo(RpcOf(h), a.outcome) /\ a.json = JsonTo(RpcOf(h), a.outcome)
  /\ a.effect \in Effects(RpcOf(h), a.outcome)
AnswerTo(h, a) ==
  \/ a.outcome.kind \in {"unread", "refused"} /\ a.effect = FALSE
  \/ a.outcome.kind = "lost" /\ a.reply.http \in {500, 503}
  \/ ServiceAnswer(h, a)

GatewayTypeOK ==
  /\ traffic \in Traffics
  /\ http \in [Calls -> {<<>>} \union DOMAIN Http]
  /\ DOMAIN answer = Calls

AnswersMade == \A c \in Calls : \A a \in answer[c] : http[c] \in DOMAIN Http /\ AnswerTo(Request(c), a)

\* A call that starts to be served, or whose answer is given.
Begun(c) == answer'[c] = {}
Answered(c) ==
  /\ http'[c] \in DOMAIN Http
  /\ \A a \in answer'[c] :
       /\ AnswerTo(Http[http'[c]], a)
       /\ a.outcome.kind \in {"ok", "error", "denied"} => call[c].pc = "handled" /\ http'[c] = http[c]

\* The status of a lost connection is one of the server's.
LEMMA LostReply ==
  ASSUME NEW code \in {"Unavailable", "Unknown", "Internal", "Cancelled"}
  PROVE  FromStatus(BareStatus(code)).http \in {500, 503}
BY DEF FromStatus, BareStatus, Reply, grpc_code_to_http

\* The fields of an answer.
LEMMA AnswerFields ==
  ASSUME NEW o, NEW reply, NEW json, NEW effect, NEW a \in Answer(o, reply, json, effect)
  PROVE  a.outcome = o /\ a.reply = reply /\ a.json = json /\ a.effect = effect
BY DEF Answer

\* What a step does to the requests and the answers of the gateway.
LEMMA GatewayMoves ==
  ASSUME GatewayTypeOK, [GatewayNext]_gatewayVars
  PROVE  /\ GatewayTypeOK'
         /\ \A c \in Calls :
              \/ answer'[c] = answer[c] /\ http'[c] = http[c]
              \/ Begun(c)
              \/ Answered(c)
<1> DEFINE Others(c) == \A d \in Calls \ {c} : answer'[d] = answer[d] /\ http'[d] = http[d]
<1>1. ASSUME NEW c \in Calls, NEW n \in {<<>>} \union DOMAIN Http, Serves(c, n)
      PROVE  GatewayTypeOK' /\ Begun(c) /\ Others(c)
  BY <1>1 DEF Serves, GatewayTypeOK, Begun
<1>2. ASSUME NEW c \in Calls, GrpcDoor(c) \/ RestDoor(c)
      PROVE  GatewayTypeOK' /\ Begun(c) /\ Others(c)
  BY <1>1, <1>2, DoorMessages DEF GrpcDoor, RestDoor, GatewayTypeOK
<1>3. ASSUME NEW c \in Calls, NoRoute(c) \/ ExtractorRejects(c)
      PROVE  GatewayTypeOK' /\ Answered(c) /\ Others(c)
  <2>1. PICK n \in traffic.http : \E reply : AnswersAtOnce(c, n, reply)
    BY <1>3 DEF NoRoute, ExtractorRejects
  <2>2. PICK reply : AnswersAtOnce(c, n, reply)
    BY <2>1
  <2>3. n \in DOMAIN Http
    BY DoorMessages DEF GatewayTypeOK
  <2> DEFINE o == Outcome("unread", "", {})
             A == Answer(o, reply, {}, FALSE)
  <2>4. ASSUME NEW a \in A PROVE AnswerTo(Http[n], a) /\ a.outcome.kind \notin {"ok", "error", "denied"}
    <3>1. a.outcome = o /\ a.effect = FALSE
      <4> HIDE DEF o
      <4> QED  BY <2>4 DEF Answer
    <3>2. o.kind = "unread"
      BY DEF Outcome
    <3> QED  BY <3>1, <3>2 DEF AnswerTo
  <2> HIDE DEF A, o
  <2>5. /\ http' = [http EXCEPT ![c] = n] /\ answer' = [answer EXCEPT ![c] = A]
        /\ traffic' = traffic
    BY <2>2 DEF AnswersAtOnce, A, o
  <2>6. http'[c] = n /\ answer'[c] = A
    BY <2>5 DEF GatewayTypeOK
  <2> QED  BY <2>3, <2>4, <2>5, <2>6 DEF GatewayTypeOK, Answered
<1>4. ASSUME NEW c \in Calls, NEW as, Answers(c, as),
             \A a \in as : /\ AnswerTo(Request(c), a)
                           /\ a.outcome.kind \in {"ok", "error", "denied"} => call[c].pc = "handled"
      PROVE  GatewayTypeOK' /\ Answered(c) /\ Others(c)
  <2>1. /\ http' = http /\ traffic' = traffic /\ http[c] # <<>>
        /\ answer' = [answer EXCEPT ![c] = as]
    BY <1>4 DEF Answers
  <2>2. http[c] \in DOMAIN Http /\ http'[c] = http[c] /\ answer'[c] = as
    BY <2>1 DEF GatewayTypeOK
  <2>3. ASSUME NEW a \in answer'[c]
        PROVE  /\ AnswerTo(Http[http'[c]], a)
               /\ a.outcome.kind \in {"ok", "error", "denied"} => call[c].pc = "handled" /\
                    http'[c] = http[c]
    <3>1. Http[http'[c]] = Request(c) /\ a \in as
      BY <2>2, <2>3 DEF Request
    <3>2. /\ AnswerTo(Request(c), a)
          /\ (a.outcome.kind \in {"ok", "error", "denied"} => call[c].pc = "handled")
      BY <1>4, <3>1, Zenon
    <3> QED  BY <2>2, <3>1, <3>2, Zenon
  <2>4. Answered(c)
    BY <2>2, <2>3, Zenon DEF Answered
  <2> QED  BY <2>1, <2>4 DEF GatewayTypeOK
<1>5. ASSUME NEW c \in Calls, RefusalReply(c)
      PROVE  GatewayTypeOK' /\ Answered(c) /\ Others(c)
  <2> DEFINE as == Answer(Outcome("refused", call[c].verdict, {}),
                          FromStatus(StatusOfVerdict(call[c].verdict)), {}, FALSE)
  <2>1. \A a \in as : AnswerTo(Request(c), a) /\ a.outcome.kind \notin {"ok", "error", "denied"}
    BY DEF Answer, AnswerTo, Outcome
  <2>2. Answers(c, as)
    BY <1>5 DEF RefusalReply
  <2> QED  BY <1>4, <2>1, <2>2
<1>6. ASSUME NEW c \in Calls, ServiceReplies(c)
      PROVE  GatewayTypeOK' /\ Answered(c) /\ Others(c)
  <2> DEFINE rpc == RpcOf(Request(c))
  <2>0. PICK o \in Outcomes(rpc, Forwarded(Request(c))) : \E effect \in Effects(rpc, o) :
          Answers(c, Answer(o, ReplyTo(rpc, o), JsonTo(rpc, o), effect))
    BY <1>6 DEF ServiceReplies
  <2>1. PICK effect \in Effects(rpc, o) :
          Answers(c, Answer(o, ReplyTo(rpc, o), JsonTo(rpc, o), effect))
    BY <2>0
  <2>2. \A a \in Answer(o, ReplyTo(rpc, o), JsonTo(rpc, o), effect) : AnswerTo(Request(c), a)
    BY <2>1, AnswerFields DEF AnswerTo, ServiceAnswer
  <2>3. call[c].pc = "handled"
    BY <1>6 DEF ServiceReplies
  <2> QED  BY <1>4, <2>1, <2>2, <2>3
<1>7. ASSUME NEW c \in Calls, AnswerLost(c)
      PROVE  GatewayTypeOK' /\ Answered(c) /\ Others(c)
  <2>1. PICK code \in {"Unavailable", "Unknown", "Internal", "Cancelled"}, effect \in BOOLEAN :
          Answers(c, Answer(Outcome("lost", code, {}), FromStatus(BareStatus(code)), {}, effect))
    BY <1>7 DEF AnswerLost
  <2>2. \A a \in Answer(Outcome("lost", code, {}), FromStatus(BareStatus(code)), {}, effect) :
          AnswerTo(Request(c), a)
    BY AnswerFields, LostReply DEF AnswerTo, Outcome
  <2>3. call[c].pc = "handled"
    BY <1>7 DEF AnswerLost
  <2> QED  BY <1>4, <2>1, <2>2, <2>3
<1>8. CASE GatewayRestart
  BY <1>8 DEF GatewayRestart, GatewayTypeOK, Begun
<1>9. CASE UNCHANGED restVars
  BY <1>9 DEF restVars, GatewayTypeOK
<1> QED  BY <1>2, <1>3, <1>5, <1>6, <1>7, <1>8, <1>9 DEF GatewayNext, gatewayVars

\* Every answer is one to the request its call serves.
LEMMA AnswersMadeStep ==
  ASSUME GatewayTypeOK, AnswersMade, [GatewayNext]_gatewayVars
  PROVE  GatewayTypeOK' /\ AnswersMade'
<1>1. ASSUME NEW c \in Calls, NEW a \in answer'[c]
      PROVE  http'[c] \in DOMAIN Http /\ AnswerTo(Http[http'[c]], a)
  BY <1>1, GatewayMoves DEF AnswersMade, Request, Begun, Answered
<1> QED  BY <1>1, GatewayMoves DEF AnswersMade, Request, AnswerTo, ServiceAnswer

\* So it is from the start.
LEMMA GatewayStart ==
  ASSUME GatewayInit
  PROVE  GatewayTypeOK /\ AnswersMade
BY DEF GatewayInit, GatewayTypeOK, AnswersMade

\* The outcomes of a service: an error of the RPC, a refusal, or a row.
LEMMA OutcomeShapes ==
  ASSUME NEW rpc, NEW m, NEW o \in Outcomes(rpc, m)
  PROVE  \/ \E v \in FaultsOf(rpc, m) : o = Outcome("error", v, {})
         \/ rpc \in Denying /\ o = Outcome("denied", "", {})
         \/ \E row \in RowsOf(rpc, m) : o = Outcome("ok", "", {Stored(rpc, m, row)})
BY DEF Outcomes

\* Their kinds.
LEMMA OutcomeKinds ==
  ASSUME NEW rpc, NEW m, NEW o \in Outcomes(rpc, m)
  PROVE  \/ o.kind = "ok" /\ o.fault = ""
         \/ o.kind = "denied" /\ o.fault = "" /\ o.row = {}
         \/ o.kind = "error" /\ o.fault \in FaultsOf(rpc, m) /\ o.row = {}
<1>1. CASE \E v \in FaultsOf(rpc, m) : o = Outcome("error", v, {})
  BY <1>1 DEF Outcome
<1>2. CASE o = Outcome("denied", "", {})
  BY <1>2 DEF Outcome
<1>3. CASE \E row \in RowsOf(rpc, m) : o = Outcome("ok", "", {Stored(rpc, m, row)})
  <2>1. PICK row \in RowsOf(rpc, m) : o = Outcome("ok", "", {Stored(rpc, m, row)})
    BY <1>3
  <2> QED  BY <2>1 DEF Outcome
<1> QED  BY <1>1, <1>2, <1>3, OutcomeShapes

\* What a service answers with a blaming status has changed nothing.
LEMMA BlamingReply ==
  \A rpc, m : \A o \in Outcomes(rpc, m) : \A effect \in Effects(rpc, o) :
    effect = FALSE \/ ReplyTo(rpc, o).http \in {200, 500}
<1> SUFFICES ASSUME NEW rpc, NEW m, NEW o \in Outcomes(rpc, m), NEW effect \in Effects(rpc, o)
             PROVE  effect = FALSE \/ ReplyTo(rpc, o).http \in {200, 500}
  OBVIOUS
<1>1. CASE o.kind = "ok"
  <2>1. ReplyTo(rpc, o).http = 200
    BY <1>1 DEF ReplyTo, Reply
  <2> QED  BY <2>1
<1>2. CASE o.kind # "ok" /\ o.fault = "Internal"
  <2>1. o.kind = "error"
    BY <1>2, OutcomeKinds
  <2>2. HeadlinesError["Internal"].code = "Internal"
    BY DEF HeadlinesError, Variant
  <2>3. Status(DomainError("Internal", HeadlinesError["Internal"].keys)).code = "Internal"
    BY <2>2 DEF Status, DomainError
  <2>4. ReplyTo(rpc, o).http = grpc_code_to_http("Internal")
    BY <1>2, <2>1, <2>3 DEF ReplyTo, FromStatus, Reply
  <2>5. grpc_code_to_http("Internal") = 500
    BY DEF grpc_code_to_http
  <2> QED  BY <2>4, <2>5
<1>3. CASE o.kind # "ok" /\ o.fault # "Internal"
  BY <1>3 DEF Effects, LateFaults
<1> QED  BY <1>1, <1>2, <1>3

\* A reply that blames the request is only given when nothing was changed:
\* what succeeded is answered with 200, and what broke inside, or on the way
\* back, with 500 or 503, whatever the services, rows and requests.
THEOREM ErrorMeansNoEffectCorrect == GatewaySpec => []ErrorMeansNoEffect
<1>1. AnswersMade => \A c \in Calls : \A a \in answer[c] :
                       a.effect = FALSE \/ a.reply.http \in {200, 500, 503}
  <2> SUFFICES ASSUME AnswersMade, NEW c \in Calls, NEW a \in answer[c]
               PROVE  a.effect = FALSE \/ a.reply.http \in {200, 500, 503}
    BY Zenon
  <2>1. AnswerTo(Request(c), a)
    BY DEF AnswersMade
  <2>2. CASE ServiceAnswer(Request(c), a)
    <3>0. /\ a.outcome \in Outcomes(RpcOf(Request(c)), Forwarded(Request(c)))
          /\ a.effect \in Effects(RpcOf(Request(c)), a.outcome)
      BY <2>2 DEF ServiceAnswer
    <3>1. a.effect = FALSE \/ ReplyTo(RpcOf(Request(c)), a.outcome).http \in {200, 500}
      BY <3>0, BlamingReply
    <3> QED  BY <2>2, <3>1 DEF ServiceAnswer
  <2> QED  BY <2>1, <2>2 DEF AnswerTo
<1>2. AnswersMade => ErrorMeansNoEffect
  <2> DEFINE Blames(n) == n \in 400..499 \union {501}
  <2>1. \A n \in {200, 500, 503} : ~Blames(n)
    OBVIOUS
  <2> HIDE DEF Blames
  <2>2. ASSUME AnswersMade, NEW c \in Calls, NEW a \in answer[c], Blames(a.reply.http)
        PROVE  ~a.effect
    <3>1. a.effect = FALSE \/ a.reply.http \in {200, 500, 503}
      BY <1>1, <2>2
    <3>2. a.effect = FALSE
      BY <2>1, <2>2, <3>1
    <3> QED  BY <3>2, Zenon
  <2> QED  BY <2>2, Zenon DEF ErrorMeansNoEffect, Blames
<1> QED  BY <1>2, GatewayStart, AnswersMadeStep, PTL DEF GatewaySpec

-----------------------------------------------------------------------------
(* What a handler is handed.  Two invariants beside SignerInv: a call that *)
(* serves an HTTP request has the message the gateway signed for it, and a *)
(* signed message is never passed on as an anonymous one.                  *)

Served ==
  \A c \in Calls :
    http[c] # <<>> /\ call[c].pc # "idle" =>
      /\ Forwardable(Request(c))
      /\ \E bytes \in Encodings(Request(c)) : call[c].msg = {SignedRequestParts(Request(c), bytes)}

Named(c, m) ==
  /\ m.auth \in {"none", "signed"}
  /\ m.auth = "signed" =>
       /\ call[c].pc = "forward" => Anonymous \notin call[c].trusted
       /\ call[c].pc \in {"authorize", "handled"} => call[c].subject # Anonymous
SubjectInv ==
  \A c \in Calls, m \in Messages :
    call[c].msg = {m} /\ call[c].pc \notin {"idle", "refused"} => Named(c, m)

\* A subject with a key is not the anonymous one.
LEMMA SubjectNamed == \A t, k : SubjectOf(t, k) # Anonymous
BY DEF SubjectOf, Anonymous

\* A stage a call under way takes.
LEMMA StagePc ==
  ASSUME NEW c \in Calls, CallStage(c)
  PROVE  call[c].pc \notin {"idle", "refused"}
BY ResolverStages DEF CallStage, SelectActive, SelectStatus, ResolverFails,
     Rejected, Validated, Record, TrustedSubject, HopFails, Authorize, Tables

\* One stage keeps the subject.
LEMMA NamedGoesOn ==
  ASSUME AuthTypeOK, NEW c \in Calls, NEW m \in Messages, call[c].msg = {m}, Named(c, m),
         CallStage(c), call'[c].pc # "refused"
  PROVE  Named(c, m)'
<1>1. Msg(c) = m
  BY MsgIs
<1>2. call \in [Calls -> CallRecords] /\ call[c] \in CallRecords
  BY DEF AuthTypeOK
<1>3. ASSUME NEW n, NEW why, Refuse(c, n, why)  PROVE FALSE
  BY <1>2, <1>3 DEF Refuse, NoCall
<1>4. CASE \E t \in Tables : SelectActive(c, t) \/ SelectStatus(c, t)
  <2>1. PICK t \in Tables : SelectActive(c, t) \/ SelectStatus(c, t)
    BY <1>4
  <2>2. /\ NextTable[t] \notin {"forward", "authorize", "handled"}
        /\ Probes[t] \notin {"forward", "authorize", "handled"}
    BY ResolverStages DEF Tables
  <2>3. call'[c].pc = NextTable[t] \/ call'[c].pc = Probes[t]
    BY <1>2, <2>1 DEF SelectActive, SelectStatus, CallRecords
  <2> QED  BY <2>2, <2>3 DEF Named
<1>5. CASE Validated(c)
  <2>1. call'[c].pc = "record"
    BY <1>2, <1>5 DEF Validated, CallRecords
  <2> QED  BY <2>1 DEF Named
<1>6. CASE Record(c)
  <2>1. Admit(c, m)
    BY <1>1, <1>3, <1>6 DEF Record
  <2>2. PICK t :
          \/ call' = [call EXCEPT ![c].pc = "authorize", ![c].subject = SubjectOf(t, m.key)]
          \/ call' = [call EXCEPT ![c].pc = "forward", ![c].trusted = {SubjectOf(t, m.key)}]
    BY <2>1 DEF Admit
  <2>3. \/ call'[c].pc = "authorize" /\ call'[c].subject = SubjectOf(t, m.key)
        \/ call'[c].pc = "forward" /\ call'[c].trusted = {SubjectOf(t, m.key)}
    BY <1>2, <2>2 DEF CallRecords
  <2> QED  BY <2>3, SubjectNamed DEF Named
<1>7. CASE TrustedSubject(c)
  <2>1. PICK s \in call[c].trusted :
          call' = [call EXCEPT ![c].pc = "authorize", ![c].subject = s, ![c].trusted = {}]
    BY <1>7 DEF TrustedSubject
  <2>2. call'[c].pc = "authorize" /\ call'[c].subject = s
    BY <1>2, <2>1 DEF CallRecords
  <2>3. call[c].pc = "forward"
    BY <1>7 DEF TrustedSubject
  <2> QED  BY <2>1, <2>2, <2>3 DEF Named
<1>8. CASE Authorize(c)
  <2>1. call' = [call EXCEPT ![c].pc = "handled"] /\ call[c].pc = "authorize"
    BY <1>3, <1>8 DEF Authorize
  <2>2. call'[c].pc = "handled" /\ call'[c].subject = call[c].subject
    BY <1>2, <2>1 DEF CallRecords
  <2> QED  BY <2>1, <2>2 DEF Named
<1>9. ~ResolverFails(c) /\ ~HopFails(c) /\ ~Rejected(c)
  BY <1>3 DEF ResolverFails, HopFails, Rejected
<1> QED  BY <1>4, <1>5, <1>6, <1>7, <1>8, <1>9 DEF CallStage

\* A door lets in an unsigned message as anonymous, a signed one to the resolver.
LEMMA NamedArrives ==
  ASSUME AuthTypeOK, NEW c \in Calls, NEW m \in Messages, Arrival(c, m),
         call'[c].pc # "refused"
  PROVE  Named(c, m)'
<1>1. ASSUME NEW why, Refuse(c, m, why)  PROVE FALSE
  BY <1>1 DEF Refuse, NoCall, AuthTypeOK
<1>2. PICK next, header :
        /\ Enter(c, m, next, header)
        /\ \/ next = "account_keys" /\ m.auth = "signed"
           \/ m.auth = "none"
  BY <1>1 DEF Arrival, AuthInterceptor, AuthInterceptorRefuses, AttachAuth
<1>3. call'[c].pc = next
  BY <1>2 DEF Enter, NoCall, AuthTypeOK
<1> QED  BY <1>2, <1>3 DEF Named

\* Every step keeps the subject of a signed message.
LEMMA SubjectStep ==
  ASSUME AuthInv, SubjectInv, [Next]_vars
  PROVE  SubjectInv'
<1>1. SUFFICES ASSUME NEW c \in Calls, NEW m \in Messages, call'[c].msg = {m},
                      call'[c].pc \notin {"idle", "refused"}
               PROVE  Named(c, m)'
  BY DEF SubjectInv
<1>2. AuthTypeOK /\ HasMsg
  BY DEF AuthInv
<1>3. ASSUME call'[c] = call[c]  PROVE Named(c, m)'
  BY <1>1, <1>3 DEF SubjectInv, Named
<1>4. ASSUME NEW d \in Calls, NEW n \in Messages, Arrival(d, n)  PROVE Named(c, m)'
  <2>1. CASE d = c
    BY <1>1, <1>2, <1>4, <2>1, ArrivalMoves, NamedArrives
  <2>2. CASE d # c
    BY <1>2, <1>3, <1>4, <2>2, ArrivalMoves
  <2> QED  BY <2>1, <2>2
<1>5. ASSUME NEW d \in Calls, CallStage(d)  PROVE Named(c, m)'
  <2>1. Moved(d)
    BY <1>2, <1>5, CallMoves DEF CallStage
  <2>2. CASE d # c
    BY <1>3, <2>1, <2>2 DEF Moved
  <2>3. CASE d = c
    <3>1. call[c].msg = {m} /\ call[c].pc \notin {"idle", "refused"}
      BY <1>1, <1>5, <2>1, <2>3, StagePc DEF Moved
    <3> QED  BY <1>1, <1>2, <1>5, <2>3, <3>1, NamedGoesOn DEF SubjectInv
  <2> QED  BY <2>2, <2>3
<1>6. ~Restart
  BY <1>1, NoCallTyped DEF Restart
<1>7. CASE call' = call
  BY <1>3, <1>7
<1> QED  BY <1>4, <1>5, <1>6, <1>7 DEF Next, CallStage, Arrival, AddKey, RevokeKey, ClockMoves, vars

\* A call of the gateway in one step: it stays with its request, starts to
\* serve one, goes on with it, or does not serve any.
LEMMA GatewayCall ==
  ASSUME AuthTypeOK, HasMsg, GatewayTypeOK, [GatewayNext]_gatewayVars, NEW c \in Calls
  PROVE  \/ call'[c] = call[c] /\ http'[c] = http[c]
         \/ call'[c].pc = "idle"
         \/ http'[c] = <<>>
         \/ CallStage(c) /\ call'[c].msg = call[c].msg /\ http'[c] = http[c]
         \/ /\ http'[c] \in DOMAIN Http /\ Forwardable(Http[http'[c]])
            /\ \E bytes \in Encodings(Http[http'[c]]) :
                 call'[c].msg = {SignedRequestParts(Http[http'[c]], bytes)}
<1> DEFINE Goal == \/ call'[c] = call[c] /\ http'[c] = http[c]
                   \/ call'[c].pc = "idle"
                   \/ http'[c] = <<>>
                   \/ CallStage(c) /\ call'[c].msg = call[c].msg /\ http'[c] = http[c]
                   \/ /\ http'[c] \in DOMAIN Http /\ Forwardable(Http[http'[c]])
                      /\ \E bytes \in Encodings(Http[http'[c]]) :
                           call'[c].msg = {SignedRequestParts(Http[http'[c]], bytes)}
<1> SUFFICES Goal
  OBVIOUS
<1>0. traffic \in Traffics /\ http \in [Calls -> {<<>>} \union DOMAIN Http]
  BY DEF GatewayTypeOK
<1>1. ASSUME NEW d \in Calls, GrpcDoor(d)  PROVE Goal
  <2>1. PICK m \in traffic.grpc : Arrival(d, m)
    BY <1>1 DEF GrpcDoor, Arrival
  <2>2. m \in Messages
    BY <1>0, <2>1, DoorMessages
  <2>3. http' = [http EXCEPT ![d] = <<>>]
    BY <1>1 DEF GrpcDoor, Serves
  <2>4. \A e \in Calls \ {d} : call'[e] = call[e]
    BY <2>1, <2>2, ArrivalMoves
  <2> QED  BY <1>0, <2>3, <2>4
<1>2. ASSUME NEW d \in Calls, RestDoor(d)  PROVE Goal
  <2>1. PICK n \in traffic.http :
          /\ Forwardable(Http[n]) /\ Serves(d, n)
          /\ \E bytes \in Encodings(Http[n]) : AttachAuth(d, SignedRequestParts(Http[n], bytes))
    BY <1>2 DEF RestDoor
  <2>2. PICK bytes \in Encodings(Http[n]) : AttachAuth(d, SignedRequestParts(Http[n], bytes))
    BY <2>1
  <2>3. n \in DOMAIN Http /\ SignedRequestParts(Http[n], bytes) \in Messages
    BY <1>0, <2>1, DoorMessages
  <2>4. /\ call'[d].msg = {SignedRequestParts(Http[n], bytes)}
        /\ \A e \in Calls \ {d} : call'[e] = call[e]
    BY <2>2, <2>3, ArrivalMoves DEF Arrival
  <2>5. http' = [http EXCEPT ![d] = n]
    BY <2>1 DEF Serves
  <2>6. CASE d = c
    <3>1. http'[c] = n
      BY <1>0, <2>5, <2>6
    <3> QED  BY <2>1, <2>2, <2>3, <2>4, <2>6, <3>1
  <2>7. CASE d # c
    BY <1>0, <2>4, <2>5, <2>7
  <2> QED  BY <2>6, <2>7
<1>3. ASSUME NEW d \in Calls, NEW n, NEW reply, AnswersAtOnce(d, n, reply)  PROVE Goal
  <2>1. call' = call /\ http' = [http EXCEPT ![d] = n] /\ call[d].pc = "idle"
    BY <1>3 DEF AnswersAtOnce, vars
  <2> QED  BY <1>0, <2>1
<1>4. ASSUME NEW d \in Calls, NoRoute(d) \/ ExtractorRejects(d)  PROVE Goal
  BY <1>3, <1>4 DEF NoRoute, ExtractorRejects
<1>5. ASSUME NEW d \in Calls, RefusalReply(d) \/ ServiceReplies(d) \/ AnswerLost(d)
      PROVE  Goal
  <2>1. call' = call /\ http' = http
    BY <1>5 DEF RefusalReply, ServiceReplies, AnswerLost, Answers, vars
  <2> QED  BY <2>1
<1>6. ASSUME NEW d \in Calls, CallStage(d), http' = http  PROVE Goal
  <2>1. Moved(d)
    BY <1>6, CallMoves DEF CallStage
  <2> QED  BY <1>6, <2>1 DEF Moved
<1>7. CASE GatewayRestart
  <2>1. call'[c] = NoCall
    BY <1>7 DEF GatewayRestart, Restart
  <2> QED  BY <2>1, NoCallTyped
<1>8. CASE call' = call /\ http' = http
  BY <1>8
<1>9. ASSUME NEW k, AddKey(k) \/ \E t \in Tables : RevokeKey(t, k)  PROVE call' = call
  BY <1>9 DEF AddKey, RevokeKey
<1> HIDE DEF Goal
<1>10. CASE /\ \/ \E d \in Calls, t \in Tables : SelectActive(d, t) \/ SelectStatus(d, t)
               \/ \E d \in Calls :
                    \/ ResolverFails(d) \/ Rejected(d) \/ Validated(d) \/ Record(d)
                    \/ TrustedSubject(d) \/ HopFails(d) \/ Authorize(d)
               \/ \E k \in traffic.keys : AddKey(k) \/ \E t \in Tables : RevokeKey(t, k)
               \/ ClockMoves /\ clock' <= traffic.clock
            /\ UNCHANGED restVars
  <2>1. http' = http
    BY <1>10 DEF restVars
  <2>2. CASE \E d \in Calls : CallStage(d)
    <3>1. PICK d \in Calls : CallStage(d)
      BY <2>2
    <3> QED  BY <1>6, <2>1, <3>1
  <2>3. CASE \E k \in traffic.keys : AddKey(k) \/ \E t \in Tables : RevokeKey(t, k)
    BY <1>8, <1>9, <2>1, <2>3
  <2>4. CASE ClockMoves
    BY <1>8, <2>1, <2>4 DEF ClockMoves
  <2> QED  BY <1>10, <2>2, <2>3, <2>4 DEF CallStage
<1>11. CASE UNCHANGED gatewayVars
  BY <1>8, <1>11 DEF gatewayVars, vars, restVars
<1>12. CASE GatewayNext
  <2>1. CASE \E d \in Calls :
               \/ GrpcDoor(d) \/ NoRoute(d) \/ ExtractorRejects(d) \/ RestDoor(d)
               \/ RefusalReply(d) \/ ServiceReplies(d) \/ AnswerLost(d)
    BY <1>1, <1>2, <1>4, <1>5, <2>1
  <2> QED  BY <1>7, <1>10, <1>12, <2>1 DEF GatewayNext
<1> QED  BY <1>11, <1>12

\* A call that serves a request keeps the message made of it.
LEMMA ServedStep ==
  ASSUME AuthTypeOK, HasMsg, GatewayTypeOK, Served, [GatewayNext]_gatewayVars
  PROVE  Served'
<1> SUFFICES ASSUME NEW c \in Calls, http'[c] # <<>>, call'[c].pc # "idle"
             PROVE  /\ Forwardable(Http[http'[c]])
                    /\ \E bytes \in Encodings(Http[http'[c]]) :
                         call'[c].msg = {SignedRequestParts(Http[http'[c]], bytes)}
  BY DEF Served, Request
<1>1. CASE call'[c] = call[c] /\ http'[c] = http[c]
  BY <1>1 DEF Served, Request
<1>2. CASE CallStage(c) /\ call'[c].msg = call[c].msg /\ http'[c] = http[c]
  BY <1>2, StagePc DEF Served, Request
<1> QED  BY <1>1, <1>2, GatewayCall

GatewayInv == AuthInv /\ SignerInv /\ SubjectInv /\ GatewayTypeOK /\ Served

\* The invariants hold from the start.
LEMMA GatewayInvStart ==
  ASSUME GatewayInit
  PROVE  GatewayInv
<1>1. Init
  BY DEF GatewayInit
<1>2. SignerInv /\ SubjectInv /\ Served
  BY <1>1, NoCallTyped DEF Init, SignerInv, SubjectInv, Served
<1> QED  BY <1>1, <1>2, AuthInit, GatewayStart DEF GatewayInv

\* Every step keeps them.
LEMMA GatewayInvStep ==
  ASSUME GatewayInv, [GatewayNext]_gatewayVars
  PROVE  GatewayInv'
<1>1. [Next]_vars
  BY GatewayStep DEF GatewayInv, GatewayTypeOK
<1>2. AuthInv' /\ SignerInv' /\ SubjectInv'
  BY <1>1, AuthStep, SignerStep, SubjectStep DEF GatewayInv
<1>3. GatewayTypeOK' /\ Served'
  BY GatewayMoves, ServedStep DEF GatewayInv, AuthInv
<1> QED  BY <1>2, <1>3 DEF GatewayInv

\* The message of a call that serves a request.
LEMMA ServedMessage ==
  ASSUME GatewayInv, NEW c \in Calls, http[c] # <<>>, call[c].pc # "idle"
  PROVE  /\ Request(c) \in Range(Http) /\ Forwardable(Request(c))
         /\ \E bytes \in Encodings(Request(c)) :
              /\ SignedRequestParts(Request(c), bytes) \in Messages
              /\ call[c].msg = {SignedRequestParts(Request(c), bytes)}
<1>1. http[c] \in DOMAIN Http
  BY DEF GatewayInv, GatewayTypeOK
<1>2. Request(c) \in Range(Http)
  BY <1>1 DEF Request, Range
<1>3. /\ Forwardable(Request(c))
      /\ \E bytes \in Encodings(Request(c)) : call[c].msg = {SignedRequestParts(Request(c), bytes)}
  BY DEF GatewayInv, Served
<1> QED  BY <1>2, <1>3, TrafficAssumption

\* What the gateway signs for, field by field.
LEMMA SignedParts ==
  ASSUME NEW h, NEW bytes
  PROVE  /\ SignedRequestParts(h, bytes).auth = h.auth
         /\ SignedRequestParts(h, bytes).key = h.key
         /\ SignedRequestParts(h, bytes).sig = h.sig
         /\ Canonical(SignedRequestParts(h, bytes)).body.request = bytes
BY DEF SignedRequestParts, Canonical

\* An encoding holds the message it is one of.
LEMMA EncodedMessage ==
  ASSUME NEW message, NEW maps, NEW bytes \in encode_to_vec(message, maps)
  PROVE  bytes.message = message
BY DEF encode_to_vec

\* A verified request was rebuilt as its client means it: the signature is
\* over the encoding of what the client means, and the gateway verifies it
\* over the encoding of what its handler made.
LEMMA VerifiedAsMeant ==
  ASSUME NEW h \in Range(Http), Forwardable(h), NEW bytes \in Encodings(h), NEW t \in Tables,
         h.auth = "signed", Verify(t, SignedRequestParts(h, bytes))
  PROVE  Forwarded(h) = h.meant
<1>1. h.sig = [by |-> <<t, h.key>>, over |-> Canonical(SignedRequestParts(h, bytes))]
  BY SignedParts DEF Verify
<1>2. h.sig.by = <<t, h.key>>
  BY <1>1
<1>3. SignedAsMeant(h, t)
  BY <1>2, ClientsAssumption
<1>4. PICK sent \in encode_to_vec(h.meant, MapsOf(RpcOf(h), h.meant)) :
        h.sig = [by |-> <<t, h.key>>, over |-> Canonical(SignedRequestParts(Original(h), sent))]
  BY <1>3 DEF SignedAsMeant
<1>5. Canonical(SignedRequestParts(h, bytes)) = Canonical(SignedRequestParts(Original(h), sent))
  BY <1>1, <1>4
<1>6. bytes = sent
  BY <1>5, SignedParts
<1>7. bytes.message = Forwarded(h)
  BY EncodedMessage DEF Encodings
<1>8. sent.message = h.meant
  BY EncodedMessage
<1> QED  BY <1>6, <1>7, <1>8

\* What is handled was read and signed as it is meant.
LEMMA HandledAsMeant ==
  ASSUME GatewayInv
  PROVE  ExecutedAsMeant
<1> SUFFICES ASSUME NEW c \in Calls, http[c] # <<>>, call[c].pc = "handled"
             PROVE  /\ Forwarded(Request(c)) = Request(c).meant
                    /\ Request(c).auth = "signed" => call[c].subject # Anonymous
  BY DEF ExecutedAsMeant
<1>1. /\ Request(c) \in Range(Http) /\ Forwardable(Request(c))
      /\ \E bytes \in Encodings(Request(c)) :
           /\ SignedRequestParts(Request(c), bytes) \in Messages
           /\ call[c].msg = {SignedRequestParts(Request(c), bytes)}
  BY ServedMessage
<1>2. PICK bytes \in Encodings(Request(c)) :
           /\ SignedRequestParts(Request(c), bytes) \in Messages
           /\ call[c].msg = {SignedRequestParts(Request(c), bytes)}
  BY <1>1
<1> DEFINE m == SignedRequestParts(Request(c), bytes)
<1>3. m.auth = Request(c).auth
  BY SignedParts
<1>4. Named(c, m) /\ Rightful(c, m, call[c].subject)
  BY <1>2 DEF GatewayInv, SubjectInv, SignerInv, Stage
<1>5. m.auth \in {"none", "signed"} /\ (m.auth = "signed" => call[c].subject # Anonymous)
  BY <1>4 DEF Named
<1>6. CASE Request(c).auth = "signed"
  <2>1. PICK t \in Tables : Verify(t, m)
    BY <1>3, <1>4, <1>5, <1>6 DEF Rightful
  <2> QED  BY <1>1, <1>2, <1>3, <1>5, <1>6, <2>1, VerifiedAsMeant
<1>7. CASE Request(c).auth = "none"
  <2>1. Request(c) = Original(Request(c))
    BY <1>1, <1>7, ClientsAssumption
  <2> QED  BY <1>1, <1>7, <2>1, HandlersRebuildCorrect DEF HandlersRebuild
<1> QED  BY <1>3, <1>5, <1>6, <1>7

\* The message a service is handed is the one the client had in mind, for the
\* signer of the request if it is signed, for any keys, messages, requests
\* and interleavings: the handlers rebuild the message of a request that
\* nobody changed, and one that somebody changed is not verified.
THEOREM ExecutedAsMeantCorrect == GatewaySpec => []ExecutedAsMeant
BY HandledAsMeant, GatewayInvStart, GatewayInvStep, PTL DEF GatewaySpec

-----------------------------------------------------------------------------
(* Refused for the signature.  A row of a key is one the server started    *)
(* with, or of the table the key is registered in; and what is behind the  *)
(* verdict is a row whose key did not make the signature.                  *)

RowsHome ==
  \A t \in Tables, k \in Keys :
    rows[t][k] # "none" => InitRows[t][k] # "none" \/ KeyTable[k] = t

Disowned(m) == \E t \in Tables : rows[t][m.key] # "none" /\ ~Verify(t, m)
BadSigned ==
  \A c \in Calls :
    call[c].verdict = "bad_signature" =>
      /\ call[c].pc = "refused"
      /\ \A m \in Messages : call[c].msg = {m} => Disowned(m)

\* Rows stay, and appear only where their key belongs.
LEMMA RowsStep ==
  ASSUME AuthTypeOK, [Next]_vars
  PROVE  /\ RowsHome => RowsHome'
         /\ \A t \in Tables, k \in Keys : rows[t][k] # "none" => rows'[t][k] # "none"
<1>1. rows \in [Tables -> [Keys -> RowStatus]] /\ KeyTable \in [Keys -> Tables]
  BY ConstantsAssumption DEF AuthTypeOK
<1>2. CASE \E k \in Keys : AddKey(k)
  <2>1. PICK k \in Keys : AddKey(k)
    BY <1>2
  <2>2. rows' = [rows EXCEPT ![KeyTable[k]][k] = "active"]
    BY <2>1 DEF AddKey
  <2>3. \A t \in Tables, j \in Keys :
          \/ rows'[t][j] = rows[t][j]
          \/ t = KeyTable[j] /\ rows'[t][j] = "active"
    BY <1>1, <2>2
  <2> QED  BY <2>3 DEF RowsHome
<1>3. CASE \E k \in Keys, t \in Tables : RevokeKey(t, k)
  <2>1. PICK k \in Keys, t \in Tables : RevokeKey(t, k)
    BY <1>3
  <2>2. rows[t][k] = "active" /\ rows' = [rows EXCEPT ![t][k] = "revoked"]
    BY <2>1 DEF RevokeKey
  <2>3. \A u \in Tables, j \in Keys : rows'[u][j] # "none" <=> rows[u][j] # "none"
    BY <1>1, <2>2
  <2> QED  BY <2>3 DEF RowsHome
<1>4. CASE rows' = rows
  BY <1>4 DEF RowsHome
<1> QED
  BY <1>2, <1>3, <1>4
  DEF Next, vars, AuthInterceptor, AuthInterceptorRefuses, AttachAuth, Arrives, SelectActive,
      SelectStatus, ResolverFails, Rejected, Validated, Record, TrustedSubject, HopFails, Authorize,
      ClockMoves, Restart

\* The verdict of a call that is refused, or that goes on.
LEMMA RefusedFor ==
  ASSUME AuthTypeOK, NEW c \in Calls, NEW m, NEW why, Refuse(c, m, why)
  PROVE  call'[c].verdict = why /\ call'[c].pc = "refused" /\ call'[c].msg = {m}
BY DEF Refuse, NoCall, AuthTypeOK

\* Only a check of the signature refuses for the signature.
LEMMA OnlyRejectedForSignature ==
  ASSUME AuthTypeOK, HasMsg, NEW c \in Calls, CallStage(c),
         call[c].verdict # "bad_signature", call'[c].verdict = "bad_signature"
  PROVE  /\ Rejected(c) /\ call'[c].pc = "refused"
         /\ \E t \in call[c].active : ~Verify(t, Msg(c))
<1>1. call \in [Calls -> CallRecords] /\ call[c] \in CallRecords
  BY DEF AuthTypeOK
<1>2. ASSUME NEW m, NEW why \in {"resolver", "replay", "nonce_store_full", "unavailable", "no_spec",
                                 "not_permitted"}, Refuse(c, m, why)
      PROVE  FALSE
  BY <1>2, RefusedFor
<1>3. ASSUME call'[c].verdict = call[c].verdict  PROVE FALSE
  BY <1>3
<1>4. ASSUME NEW t \in Tables, SelectActive(c, t) \/ SelectStatus(c, t)  PROVE FALSE
  <2>1. call'[c].verdict = call[c].verdict
    BY <1>1, <1>4 DEF SelectActive, SelectStatus, CallRecords
  <2> QED  BY <1>3, <2>1
<1>5. ~ResolverFails(c) /\ ~HopFails(c)
  BY <1>2 DEF ResolverFails, HopFails
<1>6. ~Validated(c)
  BY <1>1, <1>3 DEF Validated, CallRecords
<1>7. ~Record(c)
  <2>1. SUFFICES ASSUME Record(c), Admit(c, Msg(c))  PROVE FALSE
    BY <1>2 DEF Record
  <2>2. call'[c].verdict = call[c].verdict
    BY <1>1, <2>1 DEF Admit, CallRecords
  <2> QED  BY <1>3, <2>2
<1>8. ~TrustedSubject(c)
  <2>1. SUFFICES ASSUME NEW s, call' = [call EXCEPT ![c].pc = "authorize", ![c].subject =
                                        s, ![c].trusted = {}]
               PROVE  FALSE
    BY DEF TrustedSubject
  <2> QED  BY <1>1, <1>3, <2>1 DEF CallRecords
<1>9. ~Authorize(c)
  <2>1. SUFFICES ASSUME call' = [call EXCEPT ![c].pc = "handled"]  PROVE FALSE
    BY <1>2 DEF Authorize
  <2> QED  BY <1>1, <1>3, <2>1 DEF CallRecords
<1>10. Rejected(c)
  BY <1>4, <1>5, <1>6, <1>7, <1>8, <1>9 DEF CallStage
<1>11. PICK i \in DOMAIN Checks(c, Msg(c)) :
         Checks(c, Msg(c))[i].bad /\ Refuse(c, Msg(c), Checks(c, Msg(c))[i].why)
  BY <1>10 DEF Rejected
<1>12. Checks(c, Msg(c))[i].why = "bad_signature" /\ call'[c].pc = "refused"
  BY <1>11, RefusedFor
<1>13. i = 6
  BY <1>12 DEF Checks
<1>14. \E t \in call[c].active : ~Verify(t, Msg(c))
  BY <1>11, <1>13 DEF Checks
<1> QED  BY <1>10, <1>12, <1>14

\* A step to the verdict has such a row behind it, and the row stays.
LEMMA BadSignedStep ==
  ASSUME AuthInv, SignerInv, BadSigned, [Next]_vars
  PROVE  BadSigned'
<1>1. SUFFICES ASSUME NEW c \in Calls, call'[c].verdict = "bad_signature"
               PROVE  /\ call'[c].pc = "refused"
                      /\ \A m \in Messages : call'[c].msg = {m} => Disowned(m)'
  BY DEF BadSigned
<1>2. AuthTypeOK /\ HasMsg
  BY DEF AuthInv
<1>3. ASSUME NEW m \in Messages, Disowned(m)  PROVE Disowned(m)'
  <2>1. m.key \in Keys
    BY ConstantsAssumption
  <2> QED  BY <1>2, <1>3, <2>1, RowsStep DEF Disowned, Verify
<1>4. CASE call'[c] = call[c]
  BY <1>1, <1>3, <1>4 DEF BadSigned
<1>5. ASSUME NEW m \in Messages, Arrival(c, m)  PROVE FALSE
  <2>1. ASSUME NEW why \in {"malformed_header", "body_read_failed", "compressed_frame"},
               Refuse(c, m, why)  PROVE FALSE
    BY <1>1, <1>2, <2>1, RefusedFor
  <2>2. ASSUME NEW next, NEW header, Enter(c, m, next, header)  PROVE FALSE
    BY <1>1, <1>2, <2>2 DEF Enter, NoCall, AuthTypeOK
  <2> QED  BY <1>5, <2>1, <2>2 DEF Arrival, AuthInterceptor, AuthInterceptorRefuses, AttachAuth
<1>6. CASE CallStage(c)
  <2>1. call[c].verdict # "bad_signature"
    BY <1>6, StagePc DEF BadSigned
  <2>2. /\ Rejected(c) /\ call'[c].pc = "refused"
        /\ \E t \in call[c].active : ~Verify(t, Msg(c))
    BY <1>1, <1>2, <1>6, <2>1, OnlyRejectedForSignature
  <2>3. call[c].pc = "decide"
    BY <2>2 DEF Rejected
  <2>4. ASSUME NEW m \in Messages, call'[c].msg = {m}  PROVE Disowned(m)'
    <3>1. call[c].msg = {m}
      BY <1>2, <1>6, <2>4, CallMoves DEF CallStage, Moved
    <3>2. Msg(c) = m
      BY <3>1, MsgIs
    <3>3. \A t \in call[c].active : KeySeen(c, m, t)
      BY <2>3, <3>1 DEF SignerInv, Stage, Resolving
    <3>4. call[c].active \in SUBSET Tables
      BY <1>2 DEF AuthTypeOK, CallRecords
    <3>5. Disowned(m)
      BY <2>2, <3>2, <3>3, <3>4 DEF Disowned, KeySeen
    <3> QED  BY <1>3, <3>5
  <2> QED  BY <2>2, <2>4
<1>7. ASSUME NEW d \in Calls, NEW m \in Messages, Arrival(d, m)
      PROVE  d = c \/ call'[c] = call[c]
  BY <1>2, <1>7, ArrivalMoves
<1>8. ASSUME NEW d \in Calls, CallStage(d)  PROVE d = c \/ call'[c] = call[c]
  BY <1>2, <1>8, CallMoves DEF CallStage, Moved
<1>9. ~Restart
  BY <1>1 DEF Restart, NoCall
<1>10. CASE call' = call
  BY <1>4, <1>10
<1>11. \/ call' = call
       \/ \E d \in Calls, m \in Messages : Arrival(d, m)
       \/ \E d \in Calls : CallStage(d)
  BY <1>9 DEF Next, CallStage, Arrival, AddKey, RevokeKey, ClockMoves, vars
<1> QED  BY <1>4, <1>5, <1>6, <1>7, <1>8, <1>10, <1>11

\* Maps of at most one entry are listed in one way.
LEMMA OneListing ==
  ASSUME NEW maps, \A i \in DOMAIN maps : IsFiniteSet(DOMAIN maps[i]),
         \A i \in DOMAIN maps : ~(Cardinality(DOMAIN maps[i]) > 1),
         NEW l \in Listings(maps), NEW k \in Listings(maps)
  PROVE  l = k
<1>1. ASSUME NEW i \in DOMAIN maps  PROVE l[i] = k[i]
  <2> DEFINE D == DOMAIN maps[i]
             n == Cardinality(D)
  <2>1. l[i] \in SetToSeqs(D) /\ k[i] \in SetToSeqs(D)
    BY DEF Listings
  <2>2. l[i] \in [1..n -> D] /\ k[i] \in [1..n -> D]
    BY <2>1 DEF SetToSeqs
  <2>3. IsFiniteSet(D) /\ n \in Nat /\ ~(n > 1)
    BY FS_CardinalityType
  <2>4. \A x, y \in D : x = y
    <3>1. CASE n = 0
      BY <2>3, <3>1, FS_EmptySet
    <3>2. CASE n = 1
      BY <2>3, <3>2, FS_Singleton
    <3> QED  BY <2>3, <3>1, <3>2
  <2> HIDE DEF n, D
  <2>5. l[i] = [x \in 1..n |-> l[i][x]] /\ k[i] = [x \in 1..n |-> k[i][x]]
    BY <2>2
  <2>6. \A x \in 1..n : l[i][x] \in D /\ k[i][x] \in D
    BY <2>2
  <2>7. \A x \in 1..n : l[i][x] = k[i][x]
    BY <2>4, <2>6
  <2> QED  BY <2>5, <2>7
<1>2. l = [i \in DOMAIN maps |-> l[i]] /\ k = [i \in DOMAIN maps |-> k[i]]
  BY DEF Listings
<1> QED  BY <1>1, <1>2

-----------------------------------------------------------------------------
\* The encodings of a message whose maps have at most one entry are one.
LEMMA OneEncoding ==
  ASSUME NEW message, NEW maps, \A i \in DOMAIN maps : IsFiniteSet(DOMAIN maps[i]),
         \A i \in DOMAIN maps : ~(Cardinality(DOMAIN maps[i]) > 1),
         NEW a \in encode_to_vec(message, maps), NEW b \in encode_to_vec(message, maps)
  PROVE  a = b
<1>1. PICK l \in Listings(maps) : a = [message |-> message, listings |-> l]
  BY DEF encode_to_vec
<1>2. PICK k \in Listings(maps) : b = [message |-> message, listings |-> k]
  BY DEF encode_to_vec
<1>3. l = k
  BY OneListing
<1> QED  BY <1>1, <1>2, <1>3

\* The only row of a key that has signed a request is in the table of its
\* holder.
LEMMA OneHolder ==
  ASSUME RowsHome, NEW h \in Range(Http), Forwardable(h), h.auth = "signed", h.key \in Keys,
         NEW t \in Tables, h.sig.by = <<t, h.key>>, NEW u \in Tables, rows[u][h.key] # "none"
  PROVE  u = t
<1>1. \A v \in Tables \ {t} : InitRows[v][h.key] = "none" /\ KeyTable[h.key] # v
  BY ClientsAssumption
<1>2. InitRows[u][h.key] # "none" \/ KeyTable[h.key] = u
  BY DEF RowsHome
<1> QED  BY <1>1, <1>2

\* A request refused for its signature, though the client signed the message
\* it means and sends that message, has a map of several entries in it: the
\* order in which a HashMap iterates is all that can differ.
THEOREM GenuineVerifiedCorrect == GatewaySpec => []GenuineVerified
<1> DEFINE I == GatewayInv /\ RowsHome /\ BadSigned
<1>1. GatewayInit => I
  <2> SUFFICES ASSUME GatewayInit  PROVE RowsHome /\ BadSigned
    BY GatewayInvStart
  <2>1. Init
    BY DEF GatewayInit
  <2>2. RowsHome
    BY <2>1 DEF Init, RowsHome
  <2>3. BadSigned
    BY <2>1 DEF Init, BadSigned, NoCall
  <2> QED  BY <2>2, <2>3
<1>2. I /\ [GatewayNext]_gatewayVars => I'
  <2> SUFFICES ASSUME I, [GatewayNext]_gatewayVars  PROVE I'
    OBVIOUS
  <2>1. GatewayInv'
    BY GatewayInvStep
  <2>2. AuthTypeOK /\ AuthInv /\ SignerInv /\ [Next]_vars
    BY GatewayStep DEF GatewayInv, GatewayTypeOK, AuthInv
  <2>3. RowsHome' /\ BadSigned'
    BY <2>2, RowsStep, BadSignedStep
  <2> QED  BY <2>1, <2>3
<1>3. I => GenuineVerified
  <2>1. SUFFICES ASSUME I, NEW c \in Calls, http[c] # <<>>, call[c].verdict = "bad_signature",
                        Genuine(Request(c)),
                        \A i \in DOMAIN MapsOf(RpcOf(Request(c)), Request(c).meant) :
                          ~(Cardinality(DOMAIN MapsOf(RpcOf(Request(c)), Request(c).meant)[i]) > 1)
                 PROVE  FALSE
    BY DEF GenuineVerified
  <2> DEFINE h == Request(c)
             maps == MapsOf(RpcOf(h), h.meant)
  <2>2. call[c].pc = "refused" /\ \A m \in Messages : call[c].msg = {m} => Disowned(m)
    BY <2>1 DEF BadSigned
  <2>3. /\ h \in Range(Http) /\ Forwardable(h)
        /\ \E bytes \in Encodings(h) :
             /\ SignedRequestParts(h, bytes) \in Messages
             /\ call[c].msg = {SignedRequestParts(h, bytes)}
    BY <2>1, <2>2, ServedMessage
  <2>4. PICK bytes \in Encodings(h) :
             /\ SignedRequestParts(h, bytes) \in Messages
             /\ call[c].msg = {SignedRequestParts(h, bytes)}
    BY <2>3
  <2> DEFINE m == SignedRequestParts(h, bytes)
  <2>5. m.key = h.key /\ m.sig = h.sig /\ m.key \in Keys
    BY <2>4, SignedParts, ConstantsAssumption
  <2>6. PICK u \in Tables : rows[u][m.key] # "none" /\ ~Verify(u, m)
    BY <2>2, <2>4 DEF Disowned
  <2>7. h = Original(h) /\ h.auth = "signed" /\ \E t \in Tables : SignedAsMeant(h, t)
    BY <2>1 DEF Genuine
  <2>8. PICK t \in Tables, sent \in encode_to_vec(h.meant, maps) :
          h.sig = [by |-> <<t, h.key>>, over |-> Canonical(SignedRequestParts(Original(h), sent))]
    BY <2>7 DEF SignedAsMeant
  <2>9. u = t
    <3>1. h.sig.by = <<t, h.key>>
      BY <2>8
    <3> QED  BY <2>1, <2>3, <2>5, <2>6, <2>7, <3>1, OneHolder
  <2>10. bytes \in encode_to_vec(h.meant, maps)
    <3>1. Forwarded(h) = h.meant
      BY <2>3, <2>7, HandlersRebuildCorrect DEF HandlersRebuild
    <3> QED  BY <2>4, <3>1 DEF Encodings
  <2>11. bytes = sent
    <3>1. \A i \in DOMAIN maps : IsFiniteSet(DOMAIN maps[i])
      BY <2>3, ClientsAssumption
    <3> HIDE DEF maps
    <3>2. \A i \in DOMAIN maps : ~(Cardinality(DOMAIN maps[i]) > 1)
      BY <2>1 DEF maps
    <3> QED  BY <2>8, <2>10, <3>1, <3>2, OneEncoding
  <2>12. SignedRequestParts(Original(h), sent) = m
    BY <2>7, <2>11
  <2>13. Verify(u, m)
    BY <2>5, <2>8, <2>9, <2>12 DEF Verify
  <2> QED  BY <2>6, <2>13
<1> HIDE DEF I
<1> QED  BY <1>1, <1>2, <1>3, PTL DEF GatewaySpec

-----------------------------------------------------------------------------
(* A service answers the message its client means, and the content of the  *)
(* row it answers with is the content of the message.                      *)

AnsweredAsMeant ==
  \A c \in Calls : \A a \in answer[c] :
    a.outcome.kind \in {"ok", "error", "denied"} =>
      Forwardable(Request(c)) /\ Forwarded(Request(c)) = Request(c).meant

\* A service is only handed what is meant, and the request stays while its
\* answer does.
LEMMA AnsweredAsMeantStep ==
  ASSUME GatewayTypeOK, Served, ExecutedAsMeant, AnsweredAsMeant, [GatewayNext]_gatewayVars
  PROVE  AnsweredAsMeant'
<1> SUFFICES ASSUME NEW c \in Calls, NEW a \in answer'[c], a.outcome.kind \in {"ok", "error", "denied"}
             PROVE  Forwardable(Http[http'[c]]) /\ Forwarded(Http[http'[c]]) = Http[http'[c]].meant
  BY DEF AnsweredAsMeant, Request
<1>1. CASE answer'[c] = answer[c] /\ http'[c] = http[c]
  BY <1>1 DEF AnsweredAsMeant, Request
<1>2. CASE Begun(c)
  BY <1>2 DEF Begun
<1>3. CASE Answered(c)
  <2>1. http'[c] \in DOMAIN Http /\ call[c].pc = "handled" /\ http'[c] = http[c]
    BY <1>3 DEF Answered
  <2>2. http[c] # <<>>
    BY <2>1, TrafficAssumption
  <2> QED  BY <2>1, <2>2 DEF ExecutedAsMeant, Served, Request
<1> QED  BY <1>1, <1>2, <1>3, GatewayMoves

\* The content a draft is answered with.
LEMMA DraftShown ==
  ASSUME NEW row
  PROVE  draft_to_json(draft_to_proto(row)).obj["content"]
           = nodes_to_json_array(json_to_nodes(row.content))
<1> DEFINE extra == [content |-> json_to_nodes(row.content), created_at |-> Time({row.created_at}),
                     updated_at |-> Time({row.updated_at})]
           d == With(row, extra)
           more == [content |-> nodes_to_json_array(d.content), created_at |-> JTime(d.created_at),
                    updated_at |-> JTime(d.updated_at)]
           less == JText(d, {"id", "account_id", "title", "author_name", "author_url"})
<1>1. draft_to_proto(row) = d
  BY DEF draft_to_proto
<1>2. "content" \in DOMAIN extra /\ extra["content"] = json_to_nodes(row.content)
  OBVIOUS
<1> HIDE DEF extra
<1>3. d.content = json_to_nodes(row.content)
  BY <1>2, WithOver, WithUnder
<1> HIDE DEF d
<1>4. draft_to_json(d) = JObj(With(less, more))
  BY DEF draft_to_json
<1>5. "content" \in DOMAIN more /\ more["content"] = nodes_to_json_array(d.content)
  OBVIOUS
<1> HIDE DEF more, less
<1>6. With(less, more)["content"] = nodes_to_json_array(d.content)
  BY <1>5, WithOver, WithUnder
<1>7. JObj(With(less, more)).obj = With(less, more)
  BY DEF JObj
<1> QED  BY <1>1, <1>3, <1>4, <1>6, <1>7

\* The content an article is answered with.
LEMMA ArticleShown ==
  ASSUME NEW row, row.summary.state = "live", NEW json, row.content = {json}
  PROVE  article_to_json(article_to_proto(row)).obj["live"].obj["content"]
           = nodes_to_json_array(json_to_nodes(json))
<1> DEFINE summary == article_summary_to_proto(row.summary)
           nodes == json_to_nodes(json)
           a == article_to_proto(row)
<1>1. PICK l : summary.live = {l}
  BY DEF article_summary_to_proto
<1>2. summary.tombstone = {} /\ "tombstone" \in DOMAIN summary /\ "live" \in DOMAIN summary
  BY DEF article_summary_to_proto
<1> HIDE DEF summary
<1> DEFINE shown == With(l, [content |-> nodes])
           extra == [live |-> {shown}]
<1>3. UNION {{json_to_nodes(j)} : j \in row.content} = {nodes}
  OBVIOUS
<1>4. a = With(summary, extra)
  <2>1. {With(k, [content |-> IF {nodes} = {} THEN <<>> ELSE The({nodes})]) : k \in summary.live} =
          {shown}
    <3>1. The({nodes}) = nodes /\ {nodes} # {}
      BY TheOne
    <3> HIDE DEF nodes
    <3>2. (IF {nodes} = {} THEN <<>> ELSE The({nodes})) = nodes
      BY <3>1
    <3> QED  BY <1>1, <3>2
  <2> QED  BY <1>3, <2>1 DEF article_to_proto, summary
<1>5. a.live = {shown} /\ a.tombstone = {}
  <2>1. "live" \in DOMAIN extra /\ extra["live"] = {shown} /\ "tombstone" \notin DOMAIN extra
    OBVIOUS
  <2> HIDE DEF extra, a
  <2> QED  BY <1>2, <1>4, <2>1, WithOver, WithUnder
<1>6. shown.content = nodes
  <2> DEFINE e == [content |-> nodes]
  <2>1. "content" \in DOMAIN e /\ e["content"] = nodes
    OBVIOUS
  <2> HIDE DEF e
  <2>2. With(l, e)["content"] = nodes
    BY <2>1, WithOver, WithUnder
  <2> QED  BY <2>2 DEF e
<1> HIDE DEF a, shown
<1> DEFINE live == StateData("live", a.live, article_live_to_json)
           tomb == StateData("tombstone", a.tombstone, article_tombstone_to_json)
<1>7. "live" \in DOMAIN live /\ live["live"] = article_live_to_json(shown)
  BY <1>5, TheOne DEF StateData
<1>8. "live" \notin DOMAIN tomb
  BY <1>5 DEF StateData
<1> HIDE DEF live, tomb
<1>9. "live" \in DOMAIN With(live, tomb) /\ With(live, tomb)["live"] = article_live_to_json(shown)
  BY <1>7, <1>8, WithOver, WithUnder
<1>10. article_to_json(a).obj["live"] = article_live_to_json(shown)
  <2>1. article_to_json(a) = JObj(With(ArticleFields(a), With(live, tomb)))
    BY DEF article_to_json, live, tomb
  <2>2. With(ArticleFields(a), With(live, tomb))["live"] = article_live_to_json(shown)
    BY <1>9, WithOver, WithUnder
  <2> QED  BY <2>1, <2>2 DEF JObj
<1>11. article_live_to_json(shown).obj["content"] = nodes_to_json_array(nodes)
  <2> DEFINE e == [content |-> nodes_to_json_array(shown.content)]
  <2>1. "content" \in DOMAIN e /\ e["content"] = nodes_to_json_array(nodes)
    BY <1>6
  <2>2. article_live_to_json(shown) = JObj(With(article_live_summary_to_json(shown).obj, e))
    BY DEF article_live_to_json
  <2> HIDE DEF e
  <2>3. With(article_live_summary_to_json(shown).obj, e)["content"] = nodes_to_json_array(nodes)
    BY <2>1, WithOver, WithUnder
  <2> QED  BY <2>2, <2>3 DEF JObj
<1> QED  BY <1>10, <1>11 DEF a

\* The content that is shown.
ContentIn(rpc, j) ==
  IF rpc \in {"CreateDraft", "UpdateDraft"} THEN j.obj["content"] ELSE j.obj["live"].obj["content"]

\* The row a service that takes content ends with, and what is shown of it.
LEMMA StoredShown ==
  ASSUME NEW rpc, NEW m, NEW nodes \in ContentOf(rpc, m), nodes \in Seq(ContentNodes),
         ContentOf(rpc, m) = {nodes}, rpc \in DOMAIN Rows, NEW row \in Rows[rpc]
  PROVE  ContentIn(rpc, OkJson(rpc, Stored(rpc, m, row))) = nodes_to_json_array(nodes)
<1> DEFINE json == nodes_to_json(nodes)
           new == Stored(rpc, m, row)
<1>1. {nodes_to_json(n) : n \in ContentOf(rpc, m)} = {json}
  OBVIOUS
<1>2. rpc \in {"PublishArticle", "CreateDraft", "EditArticle", "UpdateDraft"}
  BY DEF ContentOf
<1>3. json_to_nodes(json) = nodes
  BY ContentReadBack
<1> HIDE DEF json
<1>4. CASE rpc \in {"CreateDraft", "UpdateDraft"}
  <2>1. new = [row EXCEPT !.content = json]
    BY <1>1, <1>4, TheOne DEF Stored
  <2>2. "content" \in DOMAIN row
    <3>1. IsDraft(row)
      BY <1>4, RowsAssumption DEF RowIs
    <3> QED  BY <3>1 DEF IsDraft, IsRow
  <2>3. new.content = json
    BY <2>1, <2>2
  <2> HIDE DEF new
  <2>4. OkJson(rpc, new) = draft_to_json(draft_to_proto(new))
    BY <1>4 DEF OkJson
  <2>5. OkJson(rpc, new).obj["content"] = nodes_to_json_array(nodes)
    BY <1>3, <2>3, <2>4, DraftShown
  <2> QED  BY <1>4, <2>5 DEF new, ContentIn
<1>5. CASE rpc \in {"PublishArticle", "EditArticle"}
  <2>1. new = [row EXCEPT !.content = {json}]
    BY <1>1, <1>5 DEF Stored
  <2>2. {"summary", "content"} \subseteq DOMAIN row /\ row.summary.state = "live"
    <3>1. IsArticle(row) /\ row.summary.state = "live"
      BY <1>5, RowsAssumption DEF RowIs
    <3> QED  BY <3>1 DEF IsArticle, IsRow
  <2>3. new.content = {json} /\ new.summary = row.summary
    BY <2>1, <2>2
  <2> HIDE DEF new
  <2>4. OkJson(rpc, new) = article_to_json(article_to_proto(new))
    BY <1>5 DEF OkJson
  <2>5. OkJson(rpc, new).obj["live"].obj["content"] = nodes_to_json_array(nodes)
    BY <1>3, <2>2, <2>3, <2>4, ArticleShown
  <2> QED  BY <1>5, <2>5 DEF new, ContentIn
<1> QED  BY <1>2, <1>4, <1>5

\* Rows there are of every RPC that takes content.
LEMMA ContentRows ==
  ASSUME NEW h, Forwardable(h), NEW m, ContentOf(RpcOf(h), m) # {}
  PROVE  RpcOf(h) \in DOMAIN Rows
<1>1. RpcOf(h) \in {"PublishArticle", "CreateDraft", "EditArticle", "UpdateDraft"}
  BY DEF ContentOf
<1>2. RpcOf(h) \in {r.rpc : r \in Routes}
  <2>1. PICK r \in RoutesAt(h) : RpcOf(h) = r.rpc
    BY DEF Forwardable, RpcOf, The
  <2> QED  BY <2>1 DEF RoutesAt
<1>3. RpcOf(h) \notin Unimplemented
  BY <1>1 DEF Unimplemented
<1> QED  BY <1>2, <1>3, RowsAssumption

\* An outcome that is a success has a row of the service.
LEMMA OkOutcome ==
  ASSUME NEW rpc, NEW m, NEW o \in Outcomes(rpc, m), o.kind = "ok"
  PROVE  \E row \in RowsOf(rpc, m) :
           o = Outcome("ok", "", {Stored(rpc, m, row)}) /\ o.row = {Stored(rpc, m, row)}
<1>1. ~\E v \in FaultsOf(rpc, m) : o = Outcome("error", v, {})
  <2>1. SUFFICES ASSUME NEW v \in FaultsOf(rpc, m), o = Outcome("error", v, {})  PROVE FALSE
    OBVIOUS
  <2> QED  BY <2>1 DEF Outcome
<1>2. CASE o = Outcome("denied", "", {})
  BY <1>2 DEF Outcome
<1>3. CASE \E row \in RowsOf(rpc, m) : o = Outcome("ok", "", {Stored(rpc, m, row)})
  <2>1. PICK row \in RowsOf(rpc, m) : o = Outcome("ok", "", {Stored(rpc, m, row)})
    BY <1>3
  <2>2. o.row = {Stored(rpc, m, row)}
    BY <2>1 DEF Outcome
  <2> QED  BY <2>1, <2>2
<1> QED  BY <1>1, <1>2, <1>3, OutcomeShapes

\* An answer of a service.
LEMMA ServiceAnswered ==
  ASSUME AnswersMade, NEW c \in Calls, NEW a \in answer[c],
         a.outcome.kind \in {"ok", "error", "denied"}
  PROVE  ServiceAnswer(Request(c), a) /\ Request(c) \in Range(Http)
<1>1. http[c] \in DOMAIN Http /\ AnswerTo(Request(c), a)
  BY DEF AnswersMade
<1>2. Request(c) \in Range(Http)
  BY <1>1 DEF Request, Range
<1> QED  BY <1>1, <1>2 DEF AnswerTo

\* Content comes back as it was sent, whatever it is made of and however deep
\* it nests: the reply shows the JSON of the content the client means, after
\* it was read from a body, stored and read back.
THEOREM ContentSurvivesCorrect == GatewaySpec => []ContentSurvives
<1> DEFINE I == GatewayInv /\ AnswersMade /\ AnsweredAsMeant
<1>1. GatewayInit => I
  <2> SUFFICES ASSUME GatewayInit  PROVE GatewayInv /\ AnswersMade /\ AnsweredAsMeant
    OBVIOUS
  <2>1. AnsweredAsMeant
    BY DEF GatewayInit, AnsweredAsMeant
  <2> QED  BY <2>1, GatewayInvStart, GatewayStart
<1>2. I /\ [GatewayNext]_gatewayVars => I'
  <2> SUFFICES ASSUME I, [GatewayNext]_gatewayVars  PROVE I'
    OBVIOUS
  <2>1. GatewayTypeOK /\ Served /\ ExecutedAsMeant
    BY HandledAsMeant DEF GatewayInv
  <2>2. GatewayInv' /\ AnswersMade' /\ AnsweredAsMeant'
    BY <2>1, GatewayInvStep, AnswersMadeStep, AnsweredAsMeantStep
  <2> QED  BY <2>2
<1>3. I => ContentSurvives
  <2> SUFFICES ASSUME I, NEW c \in Calls, NEW a \in answer[c], a.outcome.kind = "ok",
                      NEW nodes \in ContentOf(RpcOf(Request(c)), Request(c).meant), NEW j \in a.json
               PROVE  ContentIn(RpcOf(Request(c)), j) = nodes_to_json_array(nodes)
    BY DEF ContentSurvives, ContentIn
  <2> DEFINE h == Request(c)
             rpc == RpcOf(h)
             m == Forwarded(h)
  <2>1. ServiceAnswer(h, a) /\ h \in Range(Http)
    BY ServiceAnswered
  <2>2. Forwardable(h) /\ m = h.meant
    BY DEF AnsweredAsMeant
  <2>3. a.outcome \in Outcomes(rpc, m) /\ a.json = JsonTo(rpc, a.outcome)
    BY <2>1 DEF ServiceAnswer
  <2>4. PICK row \in RowsOf(rpc, m) : a.outcome.row = {Stored(rpc, m, row)}
    BY <2>3, OkOutcome
  <2>5. j = OkJson(rpc, Stored(rpc, m, row))
    BY <2>3, <2>4 DEF JsonTo
  <2>6. row \in Rows[rpc]
    BY <2>4 DEF RowsOf
  <2>7. nodes \in Seq(ContentNodes) /\ ContentOf(rpc, h.meant) = {nodes}
    BY <2>1, <2>2, ClientsAssumption
  <2>8. nodes \in ContentOf(rpc, m) /\ ContentOf(rpc, m) = {nodes}
    BY <2>2, <2>7
  <2>9. rpc \in DOMAIN Rows
    BY <2>2, <2>8, ContentRows
  <2> HIDE DEF rpc, m
  <2>10. ContentIn(rpc, OkJson(rpc, Stored(rpc, m, row))) = nodes_to_json_array(nodes)
    BY <2>6, <2>7, <2>8, <2>9, StoredShown
  <2> QED  BY <2>5, <2>10 DEF rpc
<1> HIDE DEF I
<1> QED  BY <1>1, <1>2, <1>3, PTL DEF GatewaySpec

-----------------------------------------------------------------------------
(* Replies that differ: the errors.  Which variant has a reason. *)
VariantWith ==
  [ACCOUNT_NOT_FOUND |-> "AccountNotFound", USER_NOT_FOUND |-> "UserNotFound",
   ARTICLE_NOT_FOUND |-> "ArticleNotFound", DRAFT_NOT_FOUND |-> "DraftNotFound",
   FOLLOW_NOT_FOUND |-> "FollowNotFound", KEY_NOT_FOUND |-> "KeyNotFound",
   VERSION_NOT_FOUND |-> "VersionNotFound", ACCOUNT_DELETED |-> "AccountDeleted",
   USER_DELETED |-> "UserDeleted", ARTICLE_TOMBSTONED |-> "ArticleTombstoned",
   DRAFT_NOT_PUBLISHABLE |-> "DraftNotPublishable", LAST_ACTIVE_KEY |-> "LastActiveKey",
   KEY_ALREADY_REVOKED |-> "KeyAlreadyRevoked",
   VERSION_ALREADY_REDACTED |-> "VersionAlreadyRedacted",
   INVALID_PUBLIC_KEY |-> "InvalidPublicKey", UNSUPPORTED_ALGORITHM |-> "UnsupportedAlgorithm",
   INVALID_NODE_TAG |-> "InvalidNodeTag", INVALID_NODE_ATTR |-> "InvalidNodeAttr",
   EMPTY_UPDATE_MASK |-> "EmptyUpdateMask", UNALLOWED_MASK_PATH |-> "UnallowedMaskPath",
   DUPLICATE_ARTICLE_ID |-> "DuplicateArticleId", INVALID_CURSOR |-> "InvalidCursor",
   EVENT_TYPE_MISMATCH |-> "EventTypeMismatch",
   EVENT_TIMESTAMP_OUT_OF_RANGE |-> "EventTimestampOutOfRange",
   SELF_FOLLOW_FORBIDDEN |-> "SelfFollowForbidden",
   IDEMPOTENCY_KEY_MISMATCH |-> "IdempotencyKeyMismatch", INVALID_ARGUMENT |-> "InvalidArgument",
   CONTENT_TOO_LARGE |-> "ContentTooLarge", FEED_TOO_LARGE |-> "FeedTooLarge",
   BATCH_TOO_LARGE |-> "BatchTooLarge", REGISTRATION_DISABLED |-> "RegistrationDisabled",
   UNAUTHORIZED_USER_ID |-> "UnauthorizedUserId", UNAUTHENTICATED |-> "Unauthenticated",
   NOT_IMPLEMENTED_IN_V1 |-> "NotImplementedInV1", INTERNAL |-> "Internal"]

\* A reason tells the variant, and no variant's code is a success.
LEMMA ReasonsDistinct ==
  \A v \in DOMAIN HeadlinesError :
    VariantWith[HeadlinesError[v].reason] = v /\ HeadlinesError[v].code # "Ok"
BY DEF HeadlinesError, Variant, VariantWith

\* The RPCs that are routed.
LEMMA Routed ==
  ASSUME NEW h, Forwardable(h)
  PROVE  RpcOf(h) \in {r.rpc : r \in Routes}
<1>1. PICK r \in RoutesAt(h) : RpcOf(h) = r.rpc
  BY DEF Forwardable, RpcOf, The
<1> QED  BY <1>1 DEF RoutesAt

\* The RPCs that are routed and implemented.
Implemented ==
  {"CreateAccount", "GetAccount", "CreateUser", "GetUser", "UpdateUser", "DeleteUser",
   "AddUserKey", "RevokeUserKey", "PublishArticle", "ListAccountArticles", "GetArticle",
   "EditArticle", "TombstoneArticle", "RedactArticleVersion", "CreateDraft", "ListAccountDrafts",
   "GetDraft", "UpdateDraft", "DeleteDraft", "PublishDraft", "Follow", "ListUserFollows",
   "GetFollow", "Unfollow", "ListAccountFollowers", "ReplaceRecommendationFeed",
   "GetRecommendationFeed", "GetFollowFeed", "StreamAccountArticles", "RecordEvent",
   "ListEvents", "RecordEventBatch"}

\* They are those of the routes that NotificationService does not answer.
LEMMA RoutedImplemented ==
  ASSUME NEW rpc \in {r.rpc : r \in Routes}, rpc \notin Unimplemented
  PROVE  rpc \in Implemented
<1>1. {r.rpc : r \in Routes} = DOMAIN RouteTable
  <2>1. \A x : [at |-> RouteTable[x], rpc |-> x].rpc = x
    OBVIOUS
  <2> QED  BY <2>1 DEF Routes
<1>2. DOMAIN RouteTable \subseteq Implemented \union Unimplemented
  BY DEF RouteTable, Implemented, Unimplemented
<1> QED  BY <1>1, <1>2

\* The errors of each are variants.
LEMMA FaultVariants ==
  ASSUME NEW rpc \in Implemented
  PROVE  Faults[rpc] \subseteq DOMAIN HeadlinesError
<1> DEFINE V == DOMAIN HeadlinesError
<1>1. \A f \in DOMAIN AccountAndUserFaults : AccountAndUserFaults[f] \subseteq V
  BY DEF AccountAndUserFaults, KeyErrors, MaskErrors, UserErrors, HeadlinesError
<1>2. \A f \in DOMAIN ArticleFaults : ArticleFaults[f] \subseteq V
  BY DEF ArticleFaults, MaskErrors, PageErrors, HeadlinesError
<1>3. \A f \in DOMAIN DraftFaults : DraftFaults[f] \subseteq V
  BY DEF DraftFaults, MaskErrors, PageErrors, HeadlinesError
<1>4. \A f \in DOMAIN FollowFaults : FollowFaults[f] \subseteq V
  BY DEF FollowFaults, UserErrors, PageErrors, HeadlinesError
<1>5. \A f \in DOMAIN FeedFaults : FeedFaults[f] \subseteq V
  BY DEF FeedFaults, UserErrors, PageErrors, HeadlinesError
<1>6. \A f \in DOMAIN EventFaults : EventFaults[f] \subseteq V
  BY DEF EventFaults, PageErrors, HeadlinesError
<1>7. rpc \in DOMAIN AccountAndUserFaults \union DOMAIN ArticleFaults \union DOMAIN DraftFaults
             \union DOMAIN FollowFaults \union DOMAIN FeedFaults \union DOMAIN EventFaults
  BY DEF Implemented, AccountAndUserFaults, ArticleFaults, DraftFaults, FollowFaults, FeedFaults,
         EventFaults
<1> HIDE DEF V
<1> QED  BY <1>1, <1>2, <1>3, <1>4, <1>5, <1>6, <1>7 DEF Faults, With, V

\* A non-empty set of naturals has a least element.
LEMMA LeastOf ==
  ASSUME NEW Q, Q \subseteq Nat, Q # {}
  PROVE  \E x \in Q : \A y \in Q : x <= y
<1> DEFINE R == {ss \in Nat \X Nat : ss[1] < ss[2]}
<1>1. IsWellFoundedOn(R, Nat)
  BY NatLessThanWellFounded, Zenon DEF OpToRel
<1>2. PICK x \in Q : \A y \in Q : ~(<<y, x>> \in R)
  BY <1>1, WFMin, Zenon
<1>3. ASSUME NEW y \in Q PROVE x <= y
  <2>1. x \in Nat /\ y \in Nat
    OBVIOUS
  <2>2. ~(y < x)
    BY <1>2, <2>1
  <2> QED  BY <2>1, <2>2
<1> QED  BY <1>3

\* The first errors of a list are among the errors of its members.
LEMMA FirstErrorsAmong ==
  ASSUME NEW errors, DOMAIN errors \subseteq Nat, NEW E, \A i \in DOMAIN errors : errors[i] \subseteq E
  PROVE  FirstErrors(errors) \subseteq E
<1> DEFINE bad == {i \in DOMAIN errors : errors[i] # {}}
           first == CHOOSE i \in bad : \A j \in bad : i <= j
<1>1. CASE bad = {}
  BY <1>1 DEF FirstErrors
<1>2. CASE bad # {}
  <2>1. first \in bad
    <3>1. bad \subseteq Nat
      OBVIOUS
    <3> HIDE DEF bad
    <3>2. \E i \in bad : \A j \in bad : i <= j
      BY <1>2, <3>1, LeastOf
    <3> QED  BY <3>2
  <2>2. FirstErrors(errors) = errors[first]
    BY <1>2 DEF FirstErrors
  <2> HIDE DEF first
  <2> QED  BY <2>1, <2>2
<1> QED  BY <1>1, <1>2

\* What validate_node finds in a node, given what it finds in the children.
ValidateBody(f, n) ==
  IF n.kind # "element" THEN {}
  ELSE IF n.tag \notin AllowedTags THEN {"InvalidNodeTag"}
  ELSE IF ~(DOMAIN n.attrs \subseteq allowed_attrs_for(n.tag)) THEN {"InvalidNodeAttr"}
  ELSE FirstErrors([i \in DOMAIN n.children |-> f[n.children[i]]])

\* There is a validate_node.
LEMMA ValidateNodeExists ==
  \A n \in ContentNodes : validate_node[n] = ValidateBody(validate_node, n)
<1> DEFINE Below(d) == {n \in ContentNodes : Depth[n] < d}
           Good(f, d) == f = [n \in Below(d) |-> ValidateBody(f, n)]
           P == {d \in Nat : \E f : Good(f, d)}
<1>1. 0 \in P
  <2>1. Below(0) = {}
    BY DepthTyped
  <2>2. Good([m \in {} |-> <<>>], 0)
    BY <2>1
  <2> QED  BY <2>2
<1>2. ASSUME NEW d \in P  PROVE d + 1 \in P
  <2>1. d \in Nat
    OBVIOUS
  <2>2. PICK f : Good(f, d)
    OBVIOUS
  <2> DEFINE g == [n \in Below(d + 1) |-> ValidateBody(f, n)]
  <2>3. ASSUME NEW n \in Below(d + 1), n.kind = "element", NEW i \in DOMAIN n.children
        PROVE  g[n.children[i]] = f[n.children[i]]
    <3>1. n.children[i] \in ContentNodes /\ Depth[n.children[i]] < Depth[n]
      BY <2>3, ChildrenLess
    <3>2. n.children[i] \in Below(d) /\ n.children[i] \in Below(d + 1)
      BY <2>1, <3>1, DepthTyped
    <3>3. f[n.children[i]] = ValidateBody(f, n.children[i])
      BY <2>2, <3>2
    <3> HIDE DEF Below
    <3> QED  BY <3>2, <3>3
  <2>4. ASSUME NEW n \in Below(d + 1)  PROVE ValidateBody(g, n) = ValidateBody(f, n)
    <3>1. CASE n.kind = "element"
      <4>1. [i \in DOMAIN n.children |-> g[n.children[i]]] =
              [i \in DOMAIN n.children |-> f[n.children[i]]]
        BY <2>3, <3>1
      <4> HIDE DEF g
      <4> QED  BY <4>1, <3>1 DEF ValidateBody
    <3>2. CASE n.kind # "element"
      <4> HIDE DEF g
      <4> QED  BY <3>2 DEF ValidateBody
    <3> QED  BY <3>1, <3>2
  <2>5. Good(g, d + 1)
    <3>1. \A n \in Below(d + 1) : ValidateBody(g, n) = ValidateBody(f, n)
      BY <2>4
    <3>2. [n \in Below(d + 1) |-> ValidateBody(g, n)] = [n \in Below(d + 1) |-> ValidateBody(f, n)]
      <4> HIDE DEF g, Below
      <4> QED  BY <3>1
    <3> QED  BY <3>2
  <2> HIDE DEF g, Good
  <2> QED  BY <2>1, <2>5
<1>3. P = Nat
  <2>1. P \subseteq Nat
    OBVIOUS
  <2> HIDE DEF P
  <2> QED  BY <1>1, <1>2, <2>1, SetInduction
<1>4. PICK f : Good(f, MaxDepth + 1)
  <2>1. MaxDepth + 1 \in P
    BY <1>3, DepthTyped
  <2> HIDE DEF Good
  <2> QED  BY <2>1
<1>5. Below(MaxDepth + 1) = ContentNodes
  BY DepthTyped
<1>6. f = [n \in ContentNodes |-> ValidateBody(f, n)]
  BY <1>4, <1>5
<1>7. validate_node = [n \in ContentNodes |-> ValidateBody(validate_node, n)]
  <2> DEFINE F(g) == [n \in ContentNodes |-> ValidateBody(g, n)]
  <2>1. validate_node = CHOOSE g : g = F(g)
    BY DEF validate_node, ValidateBody
  <2>2. f = F(f)
    BY <1>6
  <2> HIDE DEF F
  <2>3. (CHOOSE g : g = F(g)) = F(CHOOSE g : g = F(g))
    BY <2>2, Zenon
  <2>4. validate_node = F(validate_node)
    BY <2>1, <2>3, Zenon
  <2> QED  BY <2>4 DEF F
<1> HIDE DEF P
<1> QED  BY <1>7

\* What it finds is a bad tag or a bad attribute.
LEMMA ValidateErrors ==
  \A n \in ContentNodes : validate_node[n] \subseteq {"InvalidNodeTag", "InvalidNodeAttr"}
<1> DEFINE E == {"InvalidNodeTag", "InvalidNodeAttr"}
           P == {d \in Nat : \A n \in ContentNodes : Depth[n] < d => validate_node[n] \subseteq E}
<1>1. 0 \in P
  BY DepthTyped
<1>2. ASSUME NEW d \in P  PROVE d + 1 \in P
  <2>1. SUFFICES ASSUME NEW n \in ContentNodes, Depth[n] < d + 1
                 PROVE  validate_node[n] \subseteq E
    OBVIOUS
  <2>2. validate_node[n] = ValidateBody(validate_node, n)
    BY ValidateNodeExists
  <2>3. CASE n.kind # "element"
    BY <2>2, <2>3 DEF ValidateBody
  <2>4. CASE n.kind = "element"
    <3> DEFINE errors == [i \in DOMAIN n.children |-> validate_node[n.children[i]]]
    <3>1. ASSUME NEW i \in DOMAIN errors  PROVE errors[i] \subseteq E
      <4>1. n.children[i] \in ContentNodes /\ Depth[n.children[i]] < Depth[n]
        BY <2>4, <3>1, ChildrenLess
      <4>2. Depth[n.children[i]] < d
        BY <2>1, <4>1, DepthTyped
      <4> QED  BY <3>1, <4>1, <4>2
    <3>2. DOMAIN errors \subseteq Nat
      <4>1. n # NoKind
        BY <2>4 DEF NoKind
      <4>2. n.children \in Seq(ContentNodes)
        BY <2>4, <4>1, ContentAssumption
      <4> QED  BY <4>2
    <3> HIDE DEF errors, E, P
    <3>3. FirstErrors(errors) \subseteq E
      BY <3>1, <3>2, FirstErrorsAmong
    <3> QED  BY <2>2, <2>4, <3>3 DEF ValidateBody, errors, E
  <2> QED  BY <2>3, <2>4
<1>3. P = Nat
  <2>1. P \subseteq Nat
    OBVIOUS
  <2> HIDE DEF P
  <2> QED  BY <1>1, <1>2, <2>1, SetInduction
<1>4. MaxDepth + 1 \in P
  BY <1>3, DepthTyped
<1> QED  BY <1>4, DepthTyped

\* The errors of content are variants.
LEMMA ContentVariants ==
  ASSUME NEW nodes \in Seq(ContentNodes), NEW large
  PROVE  ContentErrors(nodes, large) \subseteq DOMAIN HeadlinesError
<1> DEFINE errors == [i \in DOMAIN nodes |-> validate_node[nodes[i]]]
           E == {"InvalidNodeTag", "InvalidNodeAttr"}
<1>1. \A i \in DOMAIN errors : errors[i] \subseteq E
  BY ValidateErrors
<1>2. DOMAIN errors \subseteq Nat
  OBVIOUS
<1> HIDE DEF errors, E
<1>3. NodeErrors(nodes) \subseteq E
  BY <1>1, <1>2, FirstErrorsAmong DEF NodeErrors, errors
<1>4. {"InvalidArgument", "InvalidNodeTag", "InvalidNodeAttr",
       "ContentTooLarge"} \subseteq DOMAIN HeadlinesError
  BY DEF HeadlinesError
<1> QED  BY <1>3, <1>4 DEF ContentErrors, E

-----------------------------------------------------------------------------
(* Replies that differ: the rows. *)

\* An instant is shown as it is.
LEMMA InstantShown ==
  ASSUME NEW t, IsInstant(t)
  PROVE  JTime(Time({t})) = [time |-> t]
<1>1. Time({t}) = {ts_to_proto(t)}
  BY DEF Time
<1>2. JTime({ts_to_proto(t)}) = timestamp_to_rfc3339(ts_to_proto(t))
  BY TheOne DEF JTime, OrNull
<1>3. ts_to_proto(t).seconds = t[1] /\ ts_to_proto(t).nanos = t[2]
  BY DEF ts_to_proto
<1>4. NanosPerSecond \in Nat
  BY DEF NanosPerSecond
<1>5. ts_to_proto(t).nanos \in 0..(2 * NanosPerSecond - 1) /\ <<t[1], t[2]>> = t
  BY <1>3, <1>4 DEF IsInstant
<1>6. timestamp_to_rfc3339(ts_to_proto(t)) = [time |-> t]
  BY <1>3, <1>5 DEF timestamp_to_rfc3339
<1> QED  BY <1>1, <1>2, <1>6

\* A time that may be missing is the one that is shown, or is not.
LEMMA TimesDistinct ==
  ASSUME NEW x, NEW y, IsTime(x), IsTime(y), JTime(Time(x)) = JTime(Time(y))
  PROVE  x = y
<1>1. \A z : IsTime(z) /\ z # {} => \E t : z = {t} /\ IsInstant(t)
  BY DEF IsTime, IsOptional
<1>2. JTime(Time({})) = JNull
  BY DEF JTime, Time, OrNull
<1>3. \A t : [time |-> t] # JNull
  BY DEF JNull
<1>4. CASE x = {} /\ y # {}
  <2>1. PICK t : y = {t} /\ IsInstant(t)
    BY <1>1, <1>4
  <2> QED  BY <1>2, <1>3, <1>4, <2>1, InstantShown
<1>5. CASE x # {} /\ y = {}
  <2>1. PICK t : x = {t} /\ IsInstant(t)
    BY <1>1, <1>5
  <2> QED  BY <1>2, <1>3, <1>5, <2>1, InstantShown
<1>6. CASE x # {} /\ y # {}
  <2>1. PICK t : x = {t} /\ IsInstant(t)
    BY <1>1, <1>6
  <2>2. PICK u : y = {u} /\ IsInstant(u)
    BY <1>1, <1>6
  <2>3. [time |-> t] = [time |-> u]
    BY <2>1, <2>2, InstantShown
  <2>4. t = u
    <3>1. [time |-> t].time = t /\ [time |-> u].time = u
      OBVIOUS
    <3> QED  BY <2>3, <3>1
  <2> QED  BY <2>1, <2>2, <2>4
<1> QED  BY <1>4, <1>5, <1>6

\* So is an instant that is never missing.
LEMMA InstantsDistinct ==
  ASSUME NEW t, NEW u, IsInstant(t), IsInstant(u), JTime(Time({t})) = JTime(Time({u}))
  PROVE  t = u
<1>1. IsTime({t}) /\ IsTime({u})
  BY DEF IsTime, IsOptional
<1> QED  BY <1>1, TimesDistinct

\* JSON tells what it was made of.
LEMMA JsonContents ==
  ASSUME NEW x
  PROVE  JStr(x).str = x /\ JNum(x).num = x /\ JBool(x).bool = x /\ JArr(x).arr = x /\ JObj(x).obj = x
BY DEF JStr, JNum, JBool, JArr, JObj

\* The number of a state.
NumberOf(status) == IF status = "active" THEN 1 ELSE 2

\* The two names of a state are different.
LEMMA StatusesShown ==
  /\ account_status_str(1) # account_status_str(2)
  /\ user_status_str(1) # user_status_str(2)
  /\ key_status_str(1) # key_status_str(2)
  /\ follow_status_str(1) # follow_status_str(2)
  /\ article_state_str(1) # article_state_str(2)
BY DEF account_status_str, user_status_str, key_status_str, follow_status_str, article_state_str,
       StatusStr

\* The fields of an account that is shown.
LEMMA AccountShown ==
  ASSUME NEW a, IsAccount(a)
  PROVE  LET j == account_to_json(account_to_proto(a)).obj
         IN  /\ \A f \in {"id", "short_name", "author_name", "author_url"} : j[f] = JStr(a[f])
             /\ j["status"] = JStr(account_status_str(NumberOf(a.status)))
             /\ j["deleted_at"] = JTime(Time(a.deleted_at))
             /\ j["created_at"] = JTime(Time({a.created_at}))
             /\ j["updated_at"] = JTime(Time({a.updated_at}))
BY DEF account_to_json, account_to_proto, With, JText, JObj, IsAccount, IsRow, NumberOf

\* Accounts that look alike are the same.
LEMMA AccountsDistinct ==
  ASSUME NEW a, NEW b, IsAccount(a), IsAccount(b),
         account_to_json(account_to_proto(a)) = account_to_json(account_to_proto(b))
  PROVE  a = b
<1>1. \A f \in {"id", "short_name", "author_name", "author_url"} : a[f] = b[f]
  <2>1. \A f \in {"id", "short_name", "author_name", "author_url"} : JStr(a[f]) = JStr(b[f])
    BY AccountShown
  <2> QED  BY <2>1, JsonContents
<1>2. a.status = b.status
  <2>1. JStr(account_status_str(NumberOf(a.status))) = JStr(account_status_str(NumberOf(b.status)))
    BY AccountShown
  <2>2. account_status_str(NumberOf(a.status)) = account_status_str(NumberOf(b.status))
    BY <2>1, JsonContents
  <2> QED  BY <2>2, StatusesShown DEF NumberOf, IsAccount
<1>3. a.deleted_at = b.deleted_at
  BY AccountShown, TimesDistinct DEF IsAccount
<1>4. a.created_at = b.created_at /\ a.updated_at = b.updated_at
  <2>1. JTime(Time({a.created_at})) = JTime(Time({b.created_at}))
    BY AccountShown
  <2>2. JTime(Time({a.updated_at})) = JTime(Time({b.updated_at}))
    BY AccountShown
  <2>3. /\ IsInstant(a.created_at)
        /\ IsInstant(b.created_at)
        /\ IsInstant(a.updated_at)
        /\ IsInstant(b.updated_at)
    BY DEF IsAccount
  <2> QED  BY <2>1, <2>2, <2>3, InstantsDistinct
<1> QED  BY <1>1, <1>2, <1>3, <1>4 DEF IsAccount, IsRow

\* The fields of a user.
LEMMA UserShown ==
  ASSUME NEW u, IsUser(u)
  PROVE  LET j == user_to_json(user_to_proto(u)).obj
         IN  /\ \A f \in {"id", "display_name"} : j[f] = JStr(u[f])
             /\ j["status"] = JStr(user_status_str(NumberOf(u.status)))
             /\ j["deleted_at"] = JTime(Time(u.deleted_at))
             /\ j["created_at"] = JTime(Time({u.created_at}))
BY DEF user_to_json, user_to_proto, With, JText, JObj, IsUser, IsRow, NumberOf

\* Users that look alike are the same.
LEMMA UsersDistinct ==
  ASSUME NEW a, NEW b, IsUser(a), IsUser(b),
         user_to_json(user_to_proto(a)) = user_to_json(user_to_proto(b))
  PROVE  a = b
<1>1. \A f \in {"id", "display_name"} : a[f] = b[f]
  <2>1. \A f \in {"id", "display_name"} : JStr(a[f]) = JStr(b[f])
    BY UserShown
  <2> QED  BY <2>1, JsonContents
<1>2. a.status = b.status
  <2>1. JStr(user_status_str(NumberOf(a.status))) = JStr(user_status_str(NumberOf(b.status)))
    BY UserShown
  <2>2. user_status_str(NumberOf(a.status)) = user_status_str(NumberOf(b.status))
    BY <2>1, JsonContents
  <2> QED  BY <2>2, StatusesShown DEF NumberOf, IsUser
<1>3. a.deleted_at = b.deleted_at
  BY UserShown, TimesDistinct DEF IsUser
<1>4. a.created_at = b.created_at
  BY UserShown, InstantsDistinct DEF IsUser
<1> QED  BY <1>1, <1>2, <1>3, <1>4 DEF IsUser, IsRow

\* The fields of a key.
LEMMA KeyShown ==
  ASSUME NEW k, IsKey(k)
  PROVE  LET j == user_key_to_json(key_to_proto(k)).obj
         IN  /\ \A f \in {"key_id", "algo", "public_key"} : j[f] = JStr(k[f])
             /\ j["user_id"] = JStr(k.parent_id)
             /\ j["status"] = JStr(key_status_str(NumberOf(k.status)))
             /\ j["created_at"] = JTime(Time({k.created_at}))
             /\ j["revoked_at"] = JTime(Time(k.revoked_at))
BY DEF user_key_to_json, key_to_proto, With, JText, JObj, IsKey, IsRow, NumberOf

\* Keys that look alike are the same.
LEMMA KeysDistinct ==
  ASSUME NEW a, NEW b, IsKey(a), IsKey(b),
         user_key_to_json(key_to_proto(a)) = user_key_to_json(key_to_proto(b))
  PROVE  a = b
<1>1. \A f \in {"key_id", "algo", "public_key"} : a[f] = b[f]
  <2>1. \A f \in {"key_id", "algo", "public_key"} : JStr(a[f]) = JStr(b[f])
    BY KeyShown
  <2> QED  BY <2>1, JsonContents
<1>2. a.parent_id = b.parent_id
  <2>1. JStr(a.parent_id) = JStr(b.parent_id)
    BY KeyShown
  <2> QED  BY <2>1, JsonContents
<1>3. a.status = b.status
  <2>1. JStr(key_status_str(NumberOf(a.status))) = JStr(key_status_str(NumberOf(b.status)))
    BY KeyShown
  <2>2. key_status_str(NumberOf(a.status)) = key_status_str(NumberOf(b.status))
    BY <2>1, JsonContents
  <2> QED  BY <2>2, StatusesShown DEF NumberOf, IsKey
<1>4. a.revoked_at = b.revoked_at
  BY KeyShown, TimesDistinct DEF IsKey
<1>5. a.created_at = b.created_at
  BY KeyShown, InstantsDistinct DEF IsKey
<1> QED  BY <1>1, <1>2, <1>3, <1>4, <1>5 DEF IsKey, IsRow

\* The fields of a follow.
LEMMA FollowShown ==
  ASSUME NEW f, IsFollow(f)
  PROVE  LET j == follow_to_json(follow_to_proto(f)).obj
         IN  /\ \A k \in {"user_id", "account_id"} : j[k] = JStr(f[k])
             /\ j["status"] = JStr(follow_status_str(NumberOf(f.status)))
             /\ j["created_at"] = JTime(Time({f.created_at}))
             /\ j["unfollowed_at"] = JTime(Time(f.unfollowed_at))
BY DEF follow_to_json, follow_to_proto, With, JText, JObj, IsFollow, IsRow, NumberOf

\* Follows that look alike are the same.
LEMMA FollowsDistinct ==
  ASSUME NEW a, NEW b, IsFollow(a), IsFollow(b),
         follow_to_json(follow_to_proto(a)) = follow_to_json(follow_to_proto(b))
  PROVE  a = b
<1>1. \A f \in {"user_id", "account_id"} : a[f] = b[f]
  <2>1. \A f \in {"user_id", "account_id"} : JStr(a[f]) = JStr(b[f])
    BY FollowShown
  <2> QED  BY <2>1, JsonContents
<1>2. a.status = b.status
  <2>1. JStr(follow_status_str(NumberOf(a.status))) = JStr(follow_status_str(NumberOf(b.status)))
    BY FollowShown
  <2>2. follow_status_str(NumberOf(a.status)) = follow_status_str(NumberOf(b.status))
    BY <2>1, JsonContents
  <2> QED  BY <2>2, StatusesShown DEF NumberOf, IsFollow
<1>3. a.unfollowed_at = b.unfollowed_at
  BY FollowShown, TimesDistinct DEF IsFollow
<1>4. a.created_at = b.created_at
  BY FollowShown, InstantsDistinct DEF IsFollow
<1> QED  BY <1>1, <1>2, <1>3, <1>4 DEF IsFollow, IsRow

\* The fields of a draft without its content.
LEMMA DraftSummaryShown ==
  ASSUME NEW d, IsDraftSummary(d)
  PROVE  LET j == draft_summary_to_json(draft_summary_to_proto(d)).obj
         IN  /\ \A f \in {"id", "account_id", "title"} : j[f] = JStr(d[f])
             /\ j["created_at"] = JTime(Time({d.created_at}))
             /\ j["updated_at"] = JTime(Time({d.updated_at}))
BY DEF draft_summary_to_json, draft_summary_to_proto, With, JText, JObj, IsDraftSummary, IsRow

\* Summaries of drafts that look alike are the same.
LEMMA DraftSummariesDistinct ==
  ASSUME NEW a, NEW b, IsDraftSummary(a), IsDraftSummary(b),
         draft_summary_to_json(draft_summary_to_proto(a)) =
           draft_summary_to_json(draft_summary_to_proto(b))
  PROVE  a = b
<1>1. \A f \in {"id", "account_id", "title"} : a[f] = b[f]
  <2>1. \A f \in {"id", "account_id", "title"} : JStr(a[f]) = JStr(b[f])
    BY DraftSummaryShown
  <2> QED  BY <2>1, JsonContents
<1>2. a.created_at = b.created_at /\ a.updated_at = b.updated_at
  <2>1. /\ JTime(Time({a.created_at})) = JTime(Time({b.created_at}))
        /\ JTime(Time({a.updated_at})) = JTime(Time({b.updated_at}))
    BY DraftSummaryShown
  <2>2. /\ IsInstant(a.created_at) /\ IsInstant(b.created_at)
        /\ IsInstant(a.updated_at) /\ IsInstant(b.updated_at)
    BY DEF IsDraftSummary
  <2> QED  BY <2>1, <2>2, InstantsDistinct
<1>3. a.id = b.id /\ a.account_id = b.account_id /\ a.title = b.title
  BY <1>1
<1> QED  BY <1>2, <1>3 DEF IsDraftSummary, IsRow

\* The gateway shows content as the service stores it.
LEMMA ContentShown ==
  ASSUME NEW nodes
  PROVE  nodes_to_json_array(nodes) = nodes_to_json(nodes)
BY DEF nodes_to_json_array, nodes_to_json, node_to_json, stored_node

\* The fields of a draft.
LEMMA DraftFields ==
  ASSUME NEW d, IsDraft(d)
  PROVE  LET j == draft_to_json(draft_to_proto(d)).obj
         IN  /\ \A f \in {"id", "account_id", "title", "author_name", "author_url"} : j[f] = JStr(d[f])
             /\ j["created_at"] = JTime(Time({d.created_at}))
             /\ j["updated_at"] = JTime(Time({d.updated_at}))
BY DEF draft_to_json, draft_to_proto, With, JText, JObj, IsDraft, IsRow

\* Drafts that look alike are the same, content included.
LEMMA DraftsDistinct ==
  ASSUME NEW a, NEW b, IsDraft(a), IsDraft(b),
         draft_to_json(draft_to_proto(a)) = draft_to_json(draft_to_proto(b))
  PROVE  a = b
<1>1. \A f \in {"id", "account_id", "title", "author_name", "author_url"} : a[f] = b[f]
  <2>1. \A f \in {"id", "account_id", "title", "author_name", "author_url"} : JStr(a[f]) = JStr(b[f])
    BY DraftFields
  <2> QED  BY <2>1, JsonContents
<1>2. a.created_at = b.created_at /\ a.updated_at = b.updated_at
  <2>1. JTime(Time({a.created_at})) = JTime(Time({b.created_at}))
    BY DraftFields
  <2>2. JTime(Time({a.updated_at})) = JTime(Time({b.updated_at}))
    BY DraftFields
  <2>3. /\ IsInstant(a.created_at)
        /\ IsInstant(b.created_at)
        /\ IsInstant(a.updated_at)
        /\ IsInstant(b.updated_at)
    BY DEF IsDraft
  <2> QED  BY <2>1, <2>2, <2>3, InstantsDistinct
<1>3. a.content = b.content
  <2>1. nodes_to_json_array(json_to_nodes(a.content)) = nodes_to_json_array(json_to_nodes(b.content))
    BY DraftShown
  <2>2. /\ a.content = nodes_to_json(json_to_nodes(a.content))
        /\ b.content = nodes_to_json(json_to_nodes(b.content))
    BY DEF IsDraft, IsStored
  <2> QED  BY <2>1, <2>2, ContentShown
<1> QED  BY <1>1, <1>2, <1>3 DEF IsDraft, IsRow

\* A column that is given, or that may be missing and is never empty, is told
\* by what is shown.
LEMMA ColumnsDistinct ==
  ASSUME NEW x, NEW y
  PROVE  /\ IsGiven(x) /\ IsGiven(y) /\ OrEmpty(x) = OrEmpty(y) => x = y
         /\ IsGiven(x) /\ IsGiven(y) /\ OrZero(x) = OrZero(y) => x = y
         /\ IsText(x) /\ IsText(y) /\ OrEmpty(x) = OrEmpty(y) => x = y
<1>1. \A z : IsGiven(z) => z = {The(z)} /\ OrEmpty(z) = The(z) /\ OrZero(z) = The(z)
  <2> SUFFICES ASSUME NEW z, IsGiven(z)  PROVE z = {The(z)} /\ OrEmpty(z) = The(z) /\ OrZero(z) = The(z)
    OBVIOUS
  <2>1. PICK v : z = {v}
    BY DEF IsGiven, IsOptional
  <2> QED  BY <2>1, TheOne DEF OrEmpty, OrZero
<1>2. \A z : IsText(z) /\ z # {} => IsGiven(z) /\ The(z) # ""
  <2> SUFFICES ASSUME NEW z, IsText(z), z # {}  PROVE IsGiven(z) /\ The(z) # ""
    OBVIOUS
  <2>1. IsOptional(z)
    BY DEF IsText
  <2>2. PICK v : z = {v}
    BY <2>1 DEF IsOptional
  <2> QED  BY <2>1, <2>2, TheOne DEF IsText, IsGiven
<1>3. OrEmpty({}) = ""
  BY DEF OrEmpty
<1>4. ASSUME IsText(x), IsText(y), OrEmpty(x) = OrEmpty(y)  PROVE x = y
  <2>1. CASE x = {} /\ y # {}
    BY <1>1, <1>2, <1>3, <1>4, <2>1
  <2>2. CASE y = {} /\ x # {}
    BY <1>1, <1>2, <1>3, <1>4, <2>2
  <2>3. CASE y # {} /\ x # {}
    BY <1>1, <1>2, <1>4, <2>3
  <2> QED  BY <2>1, <2>2, <2>3
<1>5. ASSUME IsGiven(x), IsGiven(y), OrEmpty(x) = OrEmpty(y)  PROVE x = y
  BY <1>1, <1>5
<1>6. ASSUME IsGiven(x), IsGiven(y), OrZero(x) = OrZero(y)  PROVE x = y
  BY <1>1, <1>6
<1> QED  BY <1>4, <1>5, <1>6

\* What a live version is shown as.
LEMMA LiveShown ==
  ASSUME NEW l
  PROVE  LET j == article_live_summary_to_json(l).obj
         IN  /\ \A f \in {"title", "author_name", "author_url"} : j[f] = JStr(l[f])
             /\ j["current_version"] = JNum(l.current_version) /\ j["redacted"] = JBool(l.redacted)
             /\ j["published_at"] = JTime(l.published_at) /\ j["updated_at"] = JTime(l.updated_at)
             /\ DOMAIN j = {"title", "author_name", "author_url", "current_version", "redacted",
                            "published_at", "updated_at"}
BY DEF article_live_summary_to_json, With, JText, JObj

\* A live version with its content is shown as one without, and the content.
LEMMA LiveContentShown ==
  ASSUME NEW l
  PROVE  LET j == article_live_to_json(l).obj
             k == article_live_summary_to_json(l).obj
         IN  /\ \A f \in DOMAIN k : j[f] = k[f]
             /\ j["content"] = nodes_to_json_array(l.content)
<1> DEFINE k == article_live_summary_to_json(l).obj
           e == [content |-> nodes_to_json_array(l.content)]
<1>1. article_live_to_json(l).obj = With(k, e)
  BY JsonContents DEF article_live_to_json
<1>2. DOMAIN e = {"content"} /\ e["content"] = nodes_to_json_array(l.content)
  OBVIOUS
<1>3. "content" \notin DOMAIN k
  BY LiveShown
<1> HIDE DEF k, e
<1> QED  BY <1>1, <1>2, <1>3 DEF With, k

\* That a JSON object shows a summary: the fields of its state among them.
StateNumber(state) == IF state = "live" THEN 1 ELSE 2
ShowsLive(j, s) ==
  /\ \A f \in {"title", "author_name", "author_url"} : j[f] = JStr(OrEmpty(s[f]))
  /\ j["current_version"] = JNum(OrZero(s.current_version)) /\ j["redacted"] = JBool(s.redacted)
  /\ j["published_at"] = JTime(Time(s.published_at)) /\ j["updated_at"] = JTime(Time(s.updated_at))
ShowsTombstone(j, s) ==
  /\ j["reason"] = JStr(OrEmpty(s.tombstone_reason))
  /\ j["tombstoned_at"] = JTime(Time(s.tombstoned_at))
Shows(j, s) ==
  /\ \A f \in {"id", "account_id"} : j[f] = JStr(s[f])
  /\ j["state"] = JStr(article_state_str(StateNumber(s.state)))
  /\ j["created_at"] = JTime(Time({s.created_at}))
  /\ s.state = "live" => ShowsLive(j["live"].obj, s)
  /\ s.state = "tombstone" => ShowsTombstone(j["tombstone"].obj, s)

\* An object shows one summary only.
LEMMA ShownOnce ==
  ASSUME NEW j, NEW a, NEW b, IsSummary(a), IsSummary(b), Shows(j, a), Shows(j, b)
  PROVE  a = b
<1>1. \A f \in {"id", "account_id"} : a[f] = b[f]
  <2>1. \A f \in {"id", "account_id"} : JStr(a[f]) = JStr(b[f])
    BY DEF Shows
  <2> QED  BY <2>1, JsonContents
<1>2. a.state = b.state /\ a.state \in {"live", "tombstone"}
  <2>1. article_state_str(StateNumber(a.state)) = article_state_str(StateNumber(b.state))
    <3>1. JStr(article_state_str(StateNumber(a.state))) = JStr(article_state_str(StateNumber(b.state)))
      BY DEF Shows
    <3> QED  BY <3>1, JsonContents
  <2>2. a.state \in {"live", "tombstone"} /\ b.state \in {"live", "tombstone"}
    BY DEF IsSummary
  <2> QED  BY <2>1, <2>2, StatusesShown DEF StateNumber
<1>3. a.created_at = b.created_at
  <2>1. JTime(Time({a.created_at})) = JTime(Time({b.created_at}))
    BY DEF Shows
  <2>2. IsInstant(a.created_at) /\ IsInstant(b.created_at)
    BY DEF IsSummary
  <2> QED  BY <2>1, <2>2, InstantsDistinct
<1>4. a = [f \in LiveColumns \union {"id", "account_id", "state", "created_at", "redacted",
                                     "tombstone_reason", "tombstoned_at"} |-> a[f]]
  BY DEF IsSummary, IsRow
<1>5. b = [f \in LiveColumns \union {"id", "account_id", "state", "created_at", "redacted",
                                     "tombstone_reason", "tombstoned_at"} |-> b[f]]
  BY DEF IsSummary, IsRow
<1>6. CASE a.state = "live"
  <2> DEFINE k == j["live"].obj
  <2>1. ShowsLive(k, a) /\ ShowsLive(k, b)
    BY <1>2, <1>6 DEF Shows
  <2> HIDE DEF k
  <2>2. \A f \in LiveColumns : IsGiven(a[f]) /\ IsGiven(b[f])
    BY <1>2, <1>6 DEF IsSummary
  <2>3. a.tombstone_reason = b.tombstone_reason /\ a.tombstoned_at = b.tombstoned_at
    BY <1>2, <1>6 DEF IsSummary
  <2>4. \A f \in {"title", "author_name", "author_url"} : a[f] = b[f]
    <3>1. \A f \in {"title", "author_name", "author_url"} : JStr(OrEmpty(a[f])) = JStr(OrEmpty(b[f]))
      BY <2>1 DEF ShowsLive
    <3>2. \A f \in {"title", "author_name", "author_url"} : OrEmpty(a[f]) = OrEmpty(b[f])
      BY <3>1, JsonContents
    <3>3. \A f \in {"title", "author_name", "author_url"} : IsGiven(a[f]) /\ IsGiven(b[f])
      BY <2>2 DEF LiveColumns
    <3> QED  BY <3>2, <3>3, ColumnsDistinct
  <2>5. a.current_version = b.current_version
    <3>1. JNum(OrZero(a.current_version)) = JNum(OrZero(b.current_version))
      BY <2>1 DEF ShowsLive
    <3>2. OrZero(a.current_version) = OrZero(b.current_version)
      BY <3>1, JsonContents
    <3>3. IsGiven(a.current_version) /\ IsGiven(b.current_version)
      BY <2>2 DEF LiveColumns
    <3> QED  BY <3>2, <3>3, ColumnsDistinct
  <2>6. a.redacted = b.redacted
    <3>1. JBool(a.redacted) = JBool(b.redacted)
      BY <2>1 DEF ShowsLive
    <3> QED  BY <3>1, JsonContents
  <2>7. a.published_at = b.published_at
    <3>1. JTime(Time(a.published_at)) = JTime(Time(b.published_at))
      BY <2>1 DEF ShowsLive
    <3>2. IsTime(a.published_at) /\ IsTime(b.published_at)
      BY DEF IsSummary
    <3> QED  BY <3>1, <3>2, TimesDistinct
  <2>8. a.updated_at = b.updated_at
    <3>1. JTime(Time(a.updated_at)) = JTime(Time(b.updated_at))
      BY <2>1 DEF ShowsLive
    <3>2. IsTime(a.updated_at) /\ IsTime(b.updated_at)
      BY DEF IsSummary
    <3> QED  BY <3>1, <3>2, TimesDistinct
  <2> QED  BY <1>1, <1>2, <1>3, <1>4, <1>5, <2>3, <2>4, <2>5, <2>6, <2>7, <2>8 DEF LiveColumns
<1>7. CASE a.state = "tombstone"
  <2> DEFINE k == j["tombstone"].obj
  <2>1. ShowsTombstone(k, a) /\ ShowsTombstone(k, b)
    BY <1>2, <1>7 DEF Shows
  <2> HIDE DEF k
  <2>2. a.redacted = b.redacted /\ \A f \in LiveColumns : a[f] = b[f]
    BY <1>2, <1>7 DEF IsSummary
  <2>3. a.tombstone_reason = b.tombstone_reason
    <3>1. JStr(OrEmpty(a.tombstone_reason)) = JStr(OrEmpty(b.tombstone_reason))
      BY <2>1 DEF ShowsTombstone
    <3>2. OrEmpty(a.tombstone_reason) = OrEmpty(b.tombstone_reason)
      BY <3>1, JsonContents
    <3>3. IsText(a.tombstone_reason) /\ IsText(b.tombstone_reason)
      BY DEF IsSummary
    <3> QED  BY <3>2, <3>3, ColumnsDistinct
  <2>4. a.tombstoned_at = b.tombstoned_at
    <3>1. JTime(Time(a.tombstoned_at)) = JTime(Time(b.tombstoned_at))
      BY <2>1 DEF ShowsTombstone
    <3>2. IsTime(a.tombstoned_at) /\ IsTime(b.tombstoned_at)
      BY DEF IsSummary
    <3> QED  BY <3>1, <3>2, TimesDistinct
  <2> QED  BY <1>1, <1>2, <1>3, <1>4, <1>5, <2>2, <2>3, <2>4 DEF LiveColumns
<1> QED  BY <1>2, <1>6, <1>7

\* The live version and the tombstone in the message of a summary.
LiveOf(s) ==
  [current_version |-> OrZero(s.current_version), title |-> OrEmpty(s.title),
   author_name |-> OrEmpty(s.author_name), author_url |-> OrEmpty(s.author_url),
   redacted |-> s.redacted, published_at |-> Time(s.published_at), updated_at |-> Time(s.updated_at)]
TombstoneOf(s) ==
  [reason |-> OrEmpty(s.tombstone_reason), tombstoned_at |-> Time(s.tombstoned_at)]

\* The message made of a summary.
LEMMA SummaryMessage ==
  ASSUME NEW s
  PROVE  LET p == article_summary_to_proto(s)
         IN  /\ p.id = s.id /\ p.account_id = s.account_id /\ p.created_at = Time({s.created_at})
             /\ p.state = StateNumber(s.state)
             /\ p.live = IF s.state = "live" THEN {LiveOf(s)} ELSE {}
             /\ p.tombstone = IF s.state = "live" THEN {} ELSE {TombstoneOf(s)}
             /\ DOMAIN p = {"id", "account_id", "created_at", "state", "live", "tombstone"}
BY DEF article_summary_to_proto, LiveOf, TombstoneOf, StateNumber

\* The JSON of a live version shows its columns.
LEMMA LiveShows ==
  ASSUME NEW s, NEW l, \A f \in DOMAIN LiveOf(s) : l[f] = LiveOf(s)[f]
  PROVE  ShowsLive(article_live_summary_to_json(l).obj, s)
<1>1. /\ \A f \in {"title", "author_name", "author_url"} : l[f] = OrEmpty(s[f])
      /\ l.current_version = OrZero(s.current_version) /\ l.redacted = s.redacted
      /\ l.published_at = Time(s.published_at) /\ l.updated_at = Time(s.updated_at)
  BY DEF LiveOf
<1> QED  BY <1>1, LiveShown DEF ShowsLive

\* The JSON of a tombstone shows its columns.
LEMMA TombstoneShows ==
  ASSUME NEW s
  PROVE  ShowsTombstone(article_tombstone_to_json(TombstoneOf(s)).obj, s)
BY DEF ShowsTombstone, article_tombstone_to_json, TombstoneOf, JObj

\* The fields of an article, and the data of its state.
LEMMA ArticleShape ==
  ASSUME NEW p, NEW live, NEW tomb, DOMAIN live \subseteq {"live"}, DOMAIN tomb \subseteq {"tombstone"}
  PROVE  LET j == With(ArticleFields(p), With(live, tomb))
         IN  /\ \A f \in {"id", "account_id"} : j[f] = JStr(p[f])
             /\ j["state"] = JStr(article_state_str(p.state)) /\ j["created_at"] = JTime(p.created_at)
             /\ \A k \in DOMAIN live : j[k] = live[k]
             /\ \A k \in DOMAIN tomb : j[k] = tomb[k]
<1>1. /\ DOMAIN ArticleFields(p) = {"id", "account_id", "state", "created_at"}
      /\ \A f \in {"id", "account_id"} : ArticleFields(p)[f] = JStr(p[f])
      /\ ArticleFields(p)["state"] = JStr(article_state_str(p.state))
      /\ ArticleFields(p)["created_at"] = JTime(p.created_at)
  BY DEF ArticleFields, With, JText
<1> QED  BY <1>1 DEF With

\* A summary is shown.
LEMMA SummaryShown ==
  ASSUME NEW s, IsSummary(s)
  PROVE  Shows(article_summary_to_json(article_summary_to_proto(s)).obj, s)
<1> DEFINE p == article_summary_to_proto(s)
           live == StateData("live", p.live, article_live_summary_to_json)
           tomb == StateData("tombstone", p.tombstone, article_tombstone_to_json)
           j == With(ArticleFields(p), With(live, tomb))
<1>1. article_summary_to_json(p).obj = j
  BY JsonContents DEF article_summary_to_json
<1>2. DOMAIN live \subseteq {"live"} /\ DOMAIN tomb \subseteq {"tombstone"}
  BY DEF StateData
<1>3. ASSUME s.state = "live"
      PROVE  "live" \in DOMAIN live /\ live["live"] = article_live_summary_to_json(LiveOf(s))
  <2>1. p.live = {LiveOf(s)}
    BY <1>3, SummaryMessage
  <2> QED  BY <2>1, TheOne DEF StateData
<1>4. ASSUME s.state = "tombstone"
      PROVE  "tombstone" \in DOMAIN tomb /\ tomb["tombstone"] =
               article_tombstone_to_json(TombstoneOf(s))
  <2>1. p.tombstone = {TombstoneOf(s)}
    BY <1>4, SummaryMessage
  <2> QED  BY <2>1, TheOne DEF StateData
<1>5. p.id = s.id /\ p.account_id = s.account_id /\ p.created_at = Time({s.created_at})
       /\ p.state = StateNumber(s.state)
  BY SummaryMessage
<1> HIDE DEF p, live, tomb
<1>6. /\ \A f \in {"id", "account_id"} : j[f] = JStr(p[f])
      /\ j["state"] = JStr(article_state_str(p.state)) /\ j["created_at"] = JTime(p.created_at)
      /\ \A k \in DOMAIN live : j[k] = live[k]
      /\ \A k \in DOMAIN tomb : j[k] = tomb[k]
  BY <1>2, ArticleShape
<1> HIDE DEF j
<1>7. \A f \in {"id", "account_id"} : j[f] = JStr(s[f])
  BY <1>5, <1>6
<1>8. ASSUME s.state = "live"  PROVE ShowsLive(j["live"].obj, s)
  <2>1. j["live"] = article_live_summary_to_json(LiveOf(s))
    BY <1>3, <1>6, <1>8
  <2> QED  BY <2>1, LiveShows
<1>9. ASSUME s.state = "tombstone"  PROVE ShowsTombstone(j["tombstone"].obj, s)
  <2>1. j["tombstone"] = article_tombstone_to_json(TombstoneOf(s))
    BY <1>4, <1>6, <1>9
  <2> QED  BY <2>1, TombstoneShows
<1>10. Shows(j, s)
  BY <1>5, <1>6, <1>7, <1>8, <1>9 DEF Shows
<1> QED  BY <1>1, <1>10 DEF p

\* So summaries that look alike are the same.
LEMMA SummariesDistinct ==
  ASSUME NEW a, NEW b, IsSummary(a), IsSummary(b),
         article_summary_to_json(article_summary_to_proto(a))
           = article_summary_to_json(article_summary_to_proto(b))
  PROVE  a = b
BY SummaryShown, ShownOnce

\* The nodes of the content of an article, none if it is gone.
NodesOf(content) == LET nodes == UNION {{json_to_nodes(k)} : k \in content}
                    IN  IF nodes = {} THEN <<>> ELSE The(nodes)

\* An article shows its summary, and a live one its content.
LEMMA ArticleShows ==
  ASSUME NEW a, IsArticle(a)
  PROVE  LET j == article_to_json(article_to_proto(a)).obj
         IN  /\ Shows(j, a.summary)
             /\ a.summary.state = "live" => j["live"].obj["content"] =
                  nodes_to_json_array(NodesOf(a.content))
<1> DEFINE s == a.summary
           m == article_summary_to_proto(s)
           nodes == NodesOf(a.content)
           extra == [live |-> {With(l, [content |-> nodes]) : l \in m.live}]
           p == With(m, extra)
           shown == With(LiveOf(s), [content |-> nodes])
           live == StateData("live", p.live, article_live_to_json)
           tomb == StateData("tombstone", p.tombstone, article_tombstone_to_json)
           j == With(ArticleFields(p), With(live, tomb))
<1>1. article_to_proto(a) = p
  BY DEF article_to_proto, NodesOf
<1>2. article_to_json(p).obj = j
  BY JsonContents DEF article_to_json
<1>3. /\ p.id = s.id /\ p.account_id = s.account_id /\ p.created_at = Time({s.created_at})
      /\ p.state = StateNumber(s.state) /\ p.tombstone = m.tombstone
      /\ p.live = {With(l, [content |-> nodes]) : l \in m.live}
  <2>1. DOMAIN extra = {"live"} /\ extra["live"] = {With(l, [content |-> nodes]) : l \in m.live}
    OBVIOUS
  <2>2. /\ m.id = s.id /\ m.account_id = s.account_id /\ m.created_at = Time({s.created_at})
        /\ m.state = StateNumber(s.state)
        /\ DOMAIN m = {"id", "account_id", "created_at", "state", "live", "tombstone"}
    BY SummaryMessage
  <2> HIDE DEF extra, m, nodes
  <2>3. p["live"] = extra["live"]
    BY <2>1, WithOver
  <2>4. \A f \in {"id", "account_id", "created_at", "state", "tombstone"} : p[f] = m[f]
    BY <2>1, <2>2, WithUnder
  <2> QED  BY <2>1, <2>2, <2>3, <2>4
<1>4. DOMAIN live \subseteq {"live"} /\ DOMAIN tomb \subseteq {"tombstone"}
  BY DEF StateData
<1>5. ASSUME s.state = "live"
      PROVE  "live" \in DOMAIN live /\ live["live"] = article_live_to_json(shown)
  <2>1. m.live = {LiveOf(s)}
    BY <1>5, SummaryMessage
  <2> HIDE DEF m, nodes
  <2>2. {With(l, [content |-> nodes]) : l \in {LiveOf(s)}} = {shown}
    OBVIOUS
  <2> HIDE DEF p, shown
  <2>3. p.live = {shown}
    BY <1>3, <2>1, <2>2
  <2> QED  BY <2>3, TheOne DEF StateData
<1>6. ASSUME s.state = "tombstone"
      PROVE  "tombstone" \in DOMAIN tomb /\ tomb["tombstone"] =
               article_tombstone_to_json(TombstoneOf(s))
  <2>1. m.tombstone = {TombstoneOf(s)}
    BY <1>6, SummaryMessage
  <2> HIDE DEF p, m
  <2>2. p.tombstone = {TombstoneOf(s)}
    BY <1>3, <2>1
  <2> QED  BY <2>2, TheOne DEF StateData
<1>7. shown.content = nodes /\ \A f \in DOMAIN LiveOf(s) : shown[f] = LiveOf(s)[f]
  <2>1. "content" \notin DOMAIN LiveOf(s)
    BY DEF LiveOf
  <2> HIDE DEF nodes
  <2> QED  BY <2>1 DEF With
<1> HIDE DEF p, live, tomb, shown, nodes, s
<1>8. /\ \A f \in {"id", "account_id"} : j[f] = JStr(p[f])
      /\ j["state"] = JStr(article_state_str(p.state)) /\ j["created_at"] = JTime(p.created_at)
      /\ \A k \in DOMAIN live : j[k] = live[k]
      /\ \A k \in DOMAIN tomb : j[k] = tomb[k]
  BY <1>4, ArticleShape
<1> HIDE DEF j
<1>9. \A f \in {"id", "account_id"} : j[f] = JStr(s[f])
  BY <1>3, <1>8
<1>10. ASSUME s.state = "live"
       PROVE  ShowsLive(j["live"].obj, s) /\ j["live"].obj["content"] = nodes_to_json_array(nodes)
  <2> DEFINE k == article_live_to_json(shown).obj
             k2 == article_live_summary_to_json(shown).obj
  <2>1. j["live"] = article_live_to_json(shown)
    BY <1>5, <1>8, <1>10
  <2>2. (\A f \in DOMAIN k2 : k[f] = k2[f]) /\ k["content"] = nodes_to_json_array(nodes)
    BY <1>7, LiveContentShown
  <2>3. ShowsLive(k2, s)
    BY <1>7, LiveShows
  <2>4. DOMAIN k2 = {"title", "author_name", "author_url", "current_version", "redacted",
                     "published_at", "updated_at"}
    BY LiveShown
  <2> HIDE DEF k, k2
  <2>5. ShowsLive(k, s)
    BY <2>2, <2>3, <2>4 DEF ShowsLive
  <2> QED  BY <2>1, <2>2, <2>5 DEF k
<1>11. ASSUME s.state = "tombstone"  PROVE ShowsTombstone(j["tombstone"].obj, s)
  <2>1. j["tombstone"] = article_tombstone_to_json(TombstoneOf(s))
    BY <1>6, <1>8, <1>11
  <2> QED  BY <2>1, TombstoneShows
<1>12. Shows(j, s)
  BY <1>3, <1>8, <1>9, <1>10, <1>11 DEF Shows
<1> QED  BY <1>1, <1>2, <1>10, <1>12 DEF s, nodes

\* So articles that look alike are the same: content that is there is not
\* empty.
LEMMA ArticlesDistinct ==
  ASSUME NEW a, NEW b, IsArticle(a), IsArticle(b),
         article_to_json(article_to_proto(a)) = article_to_json(article_to_proto(b))
  PROVE  a = b
<1> DEFINE j == article_to_json(article_to_proto(a)).obj
<1>1. Shows(j, a.summary) /\ Shows(j, b.summary)
  BY ArticleShows
<1>2. (a.summary.state = "live" => j["live"].obj["content"] = nodes_to_json_array(NodesOf(a.content)))
       /\ (b.summary.state = "live" => j["live"].obj["content"] =
           nodes_to_json_array(NodesOf(b.content)))
  BY ArticleShows
<1> HIDE DEF j
<1>3. a.summary = b.summary
  BY <1>1, ShownOnce DEF IsArticle
<1>4. \A x : IsArticle(x) /\ x.content # {} =>
         \E k : x.content = {k} /\ k = nodes_to_json(NodesOf(x.content)) /\ NodesOf(x.content) # <<>>
                /\ NodesOf(x.content) \in Seq(ContentNodes)
  <2> SUFFICES ASSUME NEW x, IsArticle(x), x.content # {}
               PROVE  \E k : x.content = {k} /\ k = nodes_to_json(NodesOf(x.content))
                             /\ NodesOf(x.content) # <<>> /\ NodesOf(x.content) \in Seq(ContentNodes)
    OBVIOUS
  <2>1. IsOptional(x.content) /\ \A k \in x.content : IsStored(k)
    BY DEF IsArticle
  <2>2. PICK k : x.content = {k}
    BY <2>1 DEF IsOptional
  <2>3. NodesOf(x.content) = json_to_nodes(k)
    <3>1. UNION {{json_to_nodes(i)} : i \in {k}} = {json_to_nodes(k)}
      OBVIOUS
    <3>2. {json_to_nodes(k)} # {} /\ The({json_to_nodes(k)}) = json_to_nodes(k)
      BY TheOne
    <3> QED  BY <2>2, <3>1, <3>2 DEF NodesOf
  <2>4. IsStored(k)
    BY <2>1, <2>2
  <2> QED  BY <2>2, <2>3, <2>4 DEF IsStored
<1>5. \A x : IsArticle(x) /\ x.content = {} => NodesOf(x.content) = <<>>
  BY DEF NodesOf
<1>6. CASE a.summary.state # "live"
  <2>1. a.content = {} /\ b.content = {}
    BY <1>3, <1>6 DEF IsArticle, IsSummary
  <2> QED  BY <1>3, <2>1 DEF IsArticle, IsRow
<1>7. CASE a.summary.state = "live"
  <2> DEFINE x == NodesOf(a.content)
             y == NodesOf(b.content)
  <2>1. nodes_to_json_array(x) = nodes_to_json_array(y)
    BY <1>2, <1>3, <1>7
  <2>2. nodes_to_json(x) = nodes_to_json(y)
    BY <2>1, ContentShown
  <2>3. <<>> \in Seq(ContentNodes)
    OBVIOUS
  <2>4. x \in Seq(ContentNodes) /\ y \in Seq(ContentNodes)
    BY <1>4, <1>5, <2>3
  <2> HIDE DEF x, y
  <2>5. x = y
    BY <2>2, <2>4, ContentReadBack
  <2>6. a.content = b.content
    <3>1. CASE a.content = {} /\ b.content = {}
      BY <3>1
    <3>2. CASE a.content = {} /\ b.content # {}
      BY <1>4, <1>5, <2>5, <3>2 DEF x, y
    <3>3. CASE a.content # {} /\ b.content = {}
      BY <1>4, <1>5, <2>5, <3>3 DEF x, y
    <3>4. CASE a.content # {} /\ b.content # {}
      <4>1. PICK k : a.content = {k} /\ k = nodes_to_json(x)
        BY <1>4, <3>4 DEF x
      <4>2. PICK l : b.content = {l} /\ l = nodes_to_json(y)
        BY <1>4, <3>4 DEF y
      <4> QED  BY <2>5, <4>1, <4>2
    <3> QED  BY <3>1, <3>2, <3>3, <3>4
  <2> QED  BY <1>3, <2>6 DEF IsArticle, IsRow
<1> QED  BY <1>6, <1>7

\* Items of a recommendation feed that look alike are the same.
LEMMA FeedItemsDistinct ==
  ASSUME NEW a, NEW b, IsFeedItem(a), IsFeedItem(b),
         feed_item_to_json(feed_item_to_proto(a)) = feed_item_to_json(feed_item_to_proto(b))
  PROVE  a = b
<1>1. \A i : /\ feed_item_to_json(feed_item_to_proto(i)).obj["position"] = JNum(i.position)
             /\ feed_item_to_json(feed_item_to_proto(i)).obj["article"]
                  = article_summary_to_json(article_summary_to_proto(i.article))
  BY DEF feed_item_to_json, feed_item_to_proto, JObj
<1>2. JNum(a.position) = JNum(b.position)
  BY <1>1
<1>3. a.position = b.position
  BY <1>2, JsonContents
<1>4. article_summary_to_json(article_summary_to_proto(a.article))
        = article_summary_to_json(article_summary_to_proto(b.article))
  BY <1>1
<1>5. a.article = b.article
  BY <1>4, SummariesDistinct DEF IsFeedItem
<1> QED  BY <1>3, <1>5 DEF IsFeedItem, IsRow

\* The summaries of the other two feeds.
LEMMA StreamItemsDistinct ==
  ASSUME NEW a, NEW b, IsSummary(a), IsSummary(b),
         \/ follow_feed_item_to_json(follow_feed_item_to_proto(a))
              = follow_feed_item_to_json(follow_feed_item_to_proto(b))
         \/ account_stream_item_to_json(account_stream_item_to_proto(a))
              = account_stream_item_to_json(account_stream_item_to_proto(b))
  PROVE  a = b
<1> DEFINE shown(s) == article_summary_to_json(article_summary_to_proto(s))
<1>1. \A i : /\ follow_feed_item_to_json(follow_feed_item_to_proto(i)).obj["article"] = shown(i)
             /\ account_stream_item_to_json(account_stream_item_to_proto(i)).obj["article"] = shown(i)
  BY DEF follow_feed_item_to_json, follow_feed_item_to_proto, account_stream_item_to_json,
         account_stream_item_to_proto, JObj
<1>2. shown(a) = shown(b)
  <2> HIDE DEF shown
  <2> QED  BY <1>1
<1> QED  BY <1>2, SummariesDistinct

\* The type of an event is stored by its name, sent as a number and shown by
\* its full name.
TypeShown(type) == event_type_str(The(parse_event_type_str(JStr(type))))

\* The six names that are shown.
LEMMA TypesShown ==
  /\ TypeShown("IMPRESSION") = "EVENT_TYPE_IMPRESSION" /\ TypeShown("OPEN") = "EVENT_TYPE_OPEN"
  /\ TypeShown("DWELL") = "EVENT_TYPE_DWELL" /\ TypeShown("LIKE") = "EVENT_TYPE_LIKE"
  /\ TypeShown("UNLIKE") = "EVENT_TYPE_UNLIKE" /\ TypeShown("SHARE") = "EVENT_TYPE_SHARE"
<1>1. \A x, y : JStr(x) = JStr(y) <=> x = y
  <2> SUFFICES ASSUME NEW x, NEW y, JStr(x) = JStr(y)  PROVE x = y
    OBVIOUS
  <2> QED  BY JsonContents
<1>2. ASSUME NEW type, NEW i \in 1..6, EventTypes[i] = type,
             type \notin {"UNSPECIFIED", "EVENT_TYPE_UNSPECIFIED"},
             \A k \in 1..6 : (EventTypes[k] = type \/ FullEventTypes[k] = type) => k = i
      PROVE  TypeShown(type) = FullEventTypes[i]
  <2>1. DOMAIN EventTypes = 1..6 /\ DOMAIN FullEventTypes = 1..6
    BY DEF EventTypes, FullEventTypes
  <2>2. {k \in DOMAIN EventTypes : JStr(type) \in {JStr(EventTypes[k]), JStr(FullEventTypes[k])}} = {i}
    BY <1>1, <1>2, <2>1
  <2>3. {z \in {"UNSPECIFIED", "EVENT_TYPE_UNSPECIFIED"} : JStr(type) = JStr(z)} = {}
    BY <1>1, <1>2
  <2>4. parse_event_type_str(JStr(type)) = {i}
    BY <2>2, <2>3 DEF parse_event_type_str, Numbered
  <2> QED  BY <2>1, <2>4, TheOne DEF event_type_str, TypeShown
<1>3. /\ EventTypes[1] = "IMPRESSION" /\ EventTypes[2] = "OPEN" /\ EventTypes[3] = "DWELL"
      /\ EventTypes[4] = "LIKE" /\ EventTypes[5] = "UNLIKE" /\ EventTypes[6] = "SHARE"
  BY DEF EventTypes
<1>4. /\ FullEventTypes[1] = "EVENT_TYPE_IMPRESSION" /\ FullEventTypes[2] = "EVENT_TYPE_OPEN"
      /\ FullEventTypes[3] = "EVENT_TYPE_DWELL" /\ FullEventTypes[4] = "EVENT_TYPE_LIKE"
      /\ FullEventTypes[5] = "EVENT_TYPE_UNLIKE" /\ FullEventTypes[6] = "EVENT_TYPE_SHARE"
  BY DEF FullEventTypes
<1>5. \A k \in 1..6 : k = 1 \/ k = 2 \/ k = 3 \/ k = 4 \/ k = 5 \/ k = 6
  OBVIOUS
<1>6. ASSUME NEW i \in 1..6  PROVE TypeShown(EventTypes[i]) = FullEventTypes[i]
  <2>1. EventTypes[i] \notin {"UNSPECIFIED", "EVENT_TYPE_UNSPECIFIED"}
    BY <1>3, <1>5
  <2>2. ASSUME NEW k \in 1..6, EventTypes[k] = EventTypes[i] \/ FullEventTypes[k] = EventTypes[i]
        PROVE  k = i
    BY <1>3, <1>4, <1>5, <2>2
  <2> QED  BY <1>2, <2>1, <2>2
<1> QED  BY <1>3, <1>4, <1>6

\* What the properties of an event are shown as.
PropertiesShown(e) == event_properties_to_json(StoredProperties(e))

\* What an impression or an opening is shown with.
LEMMA FeedPropertiesShown ==
  ASSUME NEW e, NEW kind,
         \/ e.type = "IMPRESSION" /\ kind = "impression"
         \/ e.type = "OPEN" /\ kind = "open",
         e.properties = JObj([feed_kind |-> JStr(Str(e.properties, "feed_kind")),
                              position |-> JNum(Int32(I64(e.properties, "position")))])
  PROVE  LET j == PropertiesShown(e).obj[kind].obj
         IN  /\ j["feed_kind"] = JStr(Str(e.properties, "feed_kind"))
             /\ j["position"] = JNum(Int32(I64(e.properties, "position")))
<1> DEFINE p == e.properties
           given == [kind |-> kind, feed_kind |-> Str(p, "feed_kind"),
                     position |-> Int32(I64(p, "position"))]
<1>1. /\ Has(p, "feed_kind")
      /\ Is("str", p.obj["feed_kind"])
      /\ Has(p, "position")
      /\ Is("num", p.obj["position"])
  BY DEF Has, Is, JObj, JStr, JNum
<1>2. StoredProperties(e) = {given}
  BY <1>1 DEF StoredProperties
<1>3. /\ given.kind = kind
      /\ given.feed_kind = Str(p, "feed_kind")
      /\ given.position = Int32(I64(p, "position"))
  OBVIOUS
<1> HIDE DEF given, p
<1>4. PropertiesShown(e) = JObj([x \in {kind} |->
         JObj([feed_kind |-> JStr(given.feed_kind), position |-> JNum(given.position)])])
  <2>1. {given} # {} /\ The({given}) = given
    BY TheOne
  <2>2. kind \in {"impression", "open"}
    OBVIOUS
  <2> QED  BY <1>2, <1>3, <2>1, <2>2 DEF PropertiesShown, event_properties_to_json
<1> QED  BY <1>3, <1>4 DEF JObj, p

\* What a dwell is shown with.
LEMMA DwellShown ==
  ASSUME NEW e, e.type = "DWELL",
         e.properties = JObj([dwell_ms |-> JNum(I64(e.properties, "dwell_ms"))])
  PROVE  PropertiesShown(e).obj["dwell"].obj["dwell_ms"] = JNum(I64(e.properties, "dwell_ms"))
<1> DEFINE p == e.properties
           given == [kind |-> "dwell", dwell_ms |-> I64(p, "dwell_ms")]
<1>1. Has(p, "dwell_ms") /\ Is("num", p.obj["dwell_ms"])
  BY DEF Has, Is, JObj, JNum
<1>2. StoredProperties(e) = {given}
  BY <1>1 DEF StoredProperties
<1>3. given.kind = "dwell" /\ given.dwell_ms = I64(p, "dwell_ms")
  OBVIOUS
<1> HIDE DEF given, p
<1>4. PropertiesShown(e) = JObj([x \in {"dwell"} |-> JObj([dwell_ms |-> JNum(given.dwell_ms)])])
  <2>1. {given} # {} /\ The({given}) = given
    BY TheOne
  <2> QED  BY <1>2, <1>3, <2>1 DEF PropertiesShown, event_properties_to_json
<1> QED  BY <1>3, <1>4 DEF JObj, p

\* What a share is shown with.
LEMMA ShareShown ==
  ASSUME NEW e, e.type = "SHARE",
         e.properties = JObj([target |-> JStr(Str(e.properties, "target"))])
  PROVE  PropertiesShown(e).obj["share"].obj["target"] = JStr(Str(e.properties, "target"))
<1> DEFINE p == e.properties
           given == [kind |-> "share", target |-> Str(p, "target")]
<1>1. Has(p, "target") /\ Is("str", p.obj["target"])
  BY DEF Has, Is, JObj, JStr
<1>2. StoredProperties(e) = {given}
  BY <1>1 DEF StoredProperties
<1>3. given.kind = "share" /\ given.target = Str(p, "target")
  OBVIOUS
<1> HIDE DEF given, p
<1>4. PropertiesShown(e) = JObj([x \in {"share"} |-> JObj([target |-> JStr(given.target)])])
  <2>1. {given} # {} /\ The({given}) = given
    BY TheOne
  <2> QED  BY <1>2, <1>3, <2>1 DEF PropertiesShown, event_properties_to_json
<1> QED  BY <1>3, <1>4 DEF JObj, p

\* The fields of an event.
LEMMA EventShown ==
  ASSUME NEW e, IsEvent(e)
  PROVE  LET j == event_to_json(event_to_proto(e)).obj
         IN  /\ \A f \in {"id", "user_id", "surface"} : j[f] = JStr(e[f])
             /\ j["article_id"] = JStr(OrEmpty(e.article_id))
             /\ j["type"] = JStr(TypeShown(e.type))
             /\ j["occurred_at"] = JTime(Time({e.occurred_at}))
             /\ j["received_at"] = JTime(Time({e.received_at}))
             /\ j["properties"] = PropertiesShown(e)
<1>1. IsRow(e, {"id", "user_id", "article_id", "type", "occurred_at", "received_at", "surface",
                "properties"})
  BY DEF IsEvent
<1> QED  BY <1>1 DEF event_to_json, event_to_proto, With, JText, JObj, IsRow, TypeShown, PropertiesShown

\* Events that look alike are the same.
LEMMA EventsDistinct ==
  ASSUME NEW a, NEW b, IsEvent(a), IsEvent(b),
         event_to_json(event_to_proto(a)) = event_to_json(event_to_proto(b))
  PROVE  a = b
<1>1. \A f \in {"id", "user_id", "surface"} : a[f] = b[f]
  <2>1. \A f \in {"id", "user_id", "surface"} : JStr(a[f]) = JStr(b[f])
    BY EventShown
  <2> QED  BY <2>1, JsonContents
<1>2. a.article_id = b.article_id
  <2>1. JStr(OrEmpty(a.article_id)) = JStr(OrEmpty(b.article_id))
    BY EventShown
  <2>2. OrEmpty(a.article_id) = OrEmpty(b.article_id)
    BY <2>1, JsonContents
  <2>3. IsText(a.article_id) /\ IsText(b.article_id)
    BY DEF IsEvent
  <2> QED  BY <2>2, <2>3, ColumnsDistinct
<1>3. a.occurred_at = b.occurred_at
  <2>1. JTime(Time({a.occurred_at})) = JTime(Time({b.occurred_at}))
    BY EventShown
  <2>2. IsInstant(a.occurred_at) /\ IsInstant(b.occurred_at)
    BY DEF IsEvent
  <2> QED  BY <2>1, <2>2, InstantsDistinct
<1>4. a.received_at = b.received_at
  <2>1. JTime(Time({a.received_at})) = JTime(Time({b.received_at}))
    BY EventShown
  <2>2. IsInstant(a.received_at) /\ IsInstant(b.received_at)
    BY DEF IsEvent
  <2> QED  BY <2>1, <2>2, InstantsDistinct
<1>5. a.type = b.type
  <2>1. JStr(TypeShown(a.type)) = JStr(TypeShown(b.type))
    BY EventShown
  <2>2. TypeShown(a.type) = TypeShown(b.type)
    BY <2>1, JsonContents
  <2>3. \A e : IsEvent(e) => e.type \in {"IMPRESSION", "OPEN", "DWELL", "LIKE", "UNLIKE", "SHARE"}
    BY DEF IsEvent
  <2>4. a.type \in {"IMPRESSION", "OPEN", "DWELL", "LIKE", "UNLIKE", "SHARE"}
         /\ b.type \in {"IMPRESSION", "OPEN", "DWELL", "LIKE", "UNLIKE", "SHARE"}
    BY <2>3
  <2> QED  BY <2>2, <2>4, TypesShown
<1>6. PropertiesShown(a) = PropertiesShown(b)
  BY EventShown
<1>7. a.properties = b.properties
  <2>1. CASE a.type \in {"IMPRESSION", "OPEN"}
    <3>1. \A e : IsEvent(e) /\ e.type \in {"IMPRESSION", "OPEN"} =>
            e.properties = JObj([feed_kind |-> JStr(Str(e.properties, "feed_kind")),
                                 position |-> JNum(Int32(I64(e.properties, "position")))])
      BY DEF IsEvent
    <3> DEFINE kind == IF a.type = "OPEN" THEN "open" ELSE "impression"
               j == PropertiesShown(a).obj[kind].obj
    <3>2. \A e : IsEvent(e) /\ e.type = a.type =>
            LET k == PropertiesShown(e).obj[kind].obj
            IN  /\ k["feed_kind"] = JStr(Str(e.properties, "feed_kind"))
                /\ k["position"] = JNum(Int32(I64(e.properties, "position")))
      <4> SUFFICES ASSUME NEW e, IsEvent(e), e.type = a.type
                   PROVE  LET k == PropertiesShown(e).obj[kind].obj
                          IN  /\ k["feed_kind"] = JStr(Str(e.properties, "feed_kind"))
                              /\ k["position"] = JNum(Int32(I64(e.properties, "position")))
        OBVIOUS
      <4>1. \/ e.type = "IMPRESSION" /\ kind = "impression"
            \/ e.type = "OPEN" /\ kind = "open"
        BY <2>1
      <4>2. e.properties = JObj([feed_kind |-> JStr(Str(e.properties, "feed_kind")),
                                 position |-> JNum(Int32(I64(e.properties, "position")))])
        BY <2>1, <3>1
      <4> HIDE DEF kind
      <4> QED  BY <4>1, <4>2, FeedPropertiesShown
    <3> HIDE DEF kind
    <3>3. JStr(Str(a.properties, "feed_kind")) = JStr(Str(b.properties, "feed_kind"))
      BY <1>5, <1>6, <3>2
    <3>4. JNum(Int32(I64(a.properties, "position"))) = JNum(Int32(I64(b.properties, "position")))
      BY <1>5, <1>6, <3>2
    <3>5. /\ a.properties = JObj([feed_kind |-> JStr(Str(a.properties, "feed_kind")),
                                  position |-> JNum(Int32(I64(a.properties, "position")))])
          /\ b.properties = JObj([feed_kind |-> JStr(Str(b.properties, "feed_kind")),
                                  position |-> JNum(Int32(I64(b.properties, "position")))])
      BY <1>5, <2>1, <3>1
    <3> QED  BY <3>3, <3>4, <3>5
  <2>2. CASE a.type = "DWELL"
    <3>1. \A e : IsEvent(e) /\ e.type = "DWELL" =>
            e.properties = JObj([dwell_ms |-> JNum(I64(e.properties, "dwell_ms"))])
      BY DEF IsEvent
    <3>2. JNum(I64(a.properties, "dwell_ms")) = JNum(I64(b.properties, "dwell_ms"))
      BY <1>5, <1>6, <2>2, <3>1, DwellShown
    <3>3. /\ a.properties = JObj([dwell_ms |-> JNum(I64(a.properties, "dwell_ms"))])
          /\ b.properties = JObj([dwell_ms |-> JNum(I64(b.properties, "dwell_ms"))])
      BY <1>5, <2>2, <3>1
    <3> QED  BY <3>2, <3>3
  <2>3. CASE a.type = "SHARE"
    <3>1. \A e : IsEvent(e) /\ e.type = "SHARE" =>
            e.properties = JObj([target |-> JStr(Str(e.properties, "target"))])
      BY DEF IsEvent
    <3>2. JStr(Str(a.properties, "target")) = JStr(Str(b.properties, "target"))
      BY <1>5, <1>6, <2>3, <3>1, ShareShown
    <3>3. /\ a.properties = JObj([target |-> JStr(Str(a.properties, "target"))])
          /\ b.properties = JObj([target |-> JStr(Str(b.properties, "target"))])
      BY <1>5, <2>3, <3>1
    <3> QED  BY <3>2, <3>3
  <2>4. CASE a.type \in {"LIKE", "UNLIKE"}
    <3>1. \A e : IsEvent(e) /\ e.type \in {"LIKE", "UNLIKE"} => e.properties =
            JObj([x \in {} |-> JNull])
      BY DEF IsEvent
    <3> QED  BY <1>5, <2>4, <3>1
  <2>5. a.type \in {"IMPRESSION", "OPEN", "DWELL", "LIKE", "UNLIKE", "SHARE"}
    BY DEF IsEvent
  <2> QED  BY <2>1, <2>2, <2>3, <2>4, <2>5
<1> QED  BY <1>1, <1>2, <1>3, <1>4, <1>5, <1>7 DEF IsEvent, IsRow

\* Lists that look alike are the same if their items are.
LEMMA ListsDistinct ==
  ASSUME NEW x, NEW y, IsRow(x, DOMAIN x), IsRow(y, DOMAIN y), NEW f, NEW g, f = g,
         DOMAIN f = DOMAIN x, DOMAIN g = DOMAIN y,
         \A i \in DOMAIN x \intersect DOMAIN y : f[i] = g[i] => x[i] = y[i]
  PROVE  x = y
<1>1. DOMAIN x = DOMAIN y /\ \A i \in DOMAIN x : x[i] = y[i]
  OBVIOUS
<1> QED  BY <1>1 DEF IsRow

\* Pages that look alike are the same if their items are.
LEMMA PagesDistinct ==
  ASSUME NEW r, NEW q, IsRow(r, {"items", "next_page_token"}), IsRow(q, {"items", "next_page_token"}),
         IsRow(r.items, DOMAIN r.items), IsRow(q.items, DOMAIN q.items), NEW f, NEW g,
         DOMAIN f = DOMAIN r.items, DOMAIN g = DOMAIN q.items,
         JArr(f) = JArr(g), JStr(r.next_page_token) = JStr(q.next_page_token),
         \A i \in DOMAIN r.items \intersect DOMAIN q.items : f[i] = g[i] => r.items[i] = q.items[i]
  PROVE  r = q
<1>1. f = g /\ r.next_page_token = q.next_page_token
  BY JsonContents
<1>2. r.items = q.items
  BY <1>1, ListsDistinct
<1> QED  BY <1>1, <1>2 DEF IsRow

\* What a service answers tells the row or the page it ended with: a list of
\* items first.
LEMMA ListingsDistinct ==
  ASSUME NEW rpc, rpc \in {"ListAccountArticles", "ListAccountDrafts", "ListUserFollows",
                          "ListAccountFollowers", "GetRecommendationFeed", "GetFollowFeed",
                          "StreamAccountArticles", "ListEvents"},
         NEW a, NEW b, RowIs(rpc, a), RowIs(rpc, b), OkJson(rpc, a) = OkJson(rpc, b)
  PROVE  a = b
<1>1. CASE rpc = "ListAccountArticles"
  <2> DEFINE f == [i \in DOMAIN a.items |-> article_summary_to_json(article_summary_to_proto(a.items[i]))]
             g == [i \in DOMAIN b.items |-> article_summary_to_json(article_summary_to_proto(b.items[i]))]
  <2>1. IsPage(a, IsSummary) /\ IsPage(b, IsSummary)
    BY <1>1 DEF RowIs
  <2>2. /\ OkJson(rpc, a).obj["items"] = JArr(f)
        /\ OkJson(rpc, a).obj["next_page_token"] = JStr(a.next_page_token)
        /\ OkJson(rpc, b).obj["items"] = JArr(g)
        /\ OkJson(rpc, b).obj["next_page_token"] = JStr(b.next_page_token)
    BY <1>1 DEF OkJson, ItemsJson, JObj
  <2>3. ASSUME NEW i \in DOMAIN a.items \intersect DOMAIN b.items, f[i] = g[i]
        PROVE  a.items[i] = b.items[i]
    BY <2>1, <2>3, SummariesDistinct DEF IsPage, AreRows
  <2>4. DOMAIN f = DOMAIN a.items /\ DOMAIN g = DOMAIN b.items
    OBVIOUS
  <2> HIDE DEF f, g
  <2>5. /\ IsRow(a, {"items", "next_page_token"}) /\ IsRow(a.items, DOMAIN a.items)
        /\ IsRow(b, {"items", "next_page_token"}) /\ IsRow(b.items, DOMAIN b.items)
    BY <2>1 DEF IsPage, AreRows
  <2>6. JArr(f) = JArr(g) /\ JStr(a.next_page_token) = JStr(b.next_page_token)
    BY <2>2
  <2> QED  BY <2>3, <2>4, <2>5, <2>6, PagesDistinct
<1>2. CASE rpc = "ListAccountDrafts"
  <2> DEFINE f == [i \in DOMAIN a.items |-> draft_summary_to_json(draft_summary_to_proto(a.items[i]))]
             g == [i \in DOMAIN b.items |-> draft_summary_to_json(draft_summary_to_proto(b.items[i]))]
  <2>1. IsPage(a, IsDraftSummary) /\ IsPage(b, IsDraftSummary)
    BY <1>2 DEF RowIs
  <2>2. /\ OkJson(rpc, a).obj["items"] = JArr(f)
        /\ OkJson(rpc, a).obj["next_page_token"] = JStr(a.next_page_token)
        /\ OkJson(rpc, b).obj["items"] = JArr(g)
        /\ OkJson(rpc, b).obj["next_page_token"] = JStr(b.next_page_token)
    BY <1>2 DEF OkJson, ItemsJson, JObj
  <2>3. ASSUME NEW i \in DOMAIN a.items \intersect DOMAIN b.items, f[i] = g[i]
        PROVE  a.items[i] = b.items[i]
    BY <2>1, <2>3, DraftSummariesDistinct DEF IsPage, AreRows
  <2>4. DOMAIN f = DOMAIN a.items /\ DOMAIN g = DOMAIN b.items
    OBVIOUS
  <2> HIDE DEF f, g
  <2>5. /\ IsRow(a, {"items", "next_page_token"}) /\ IsRow(a.items, DOMAIN a.items)
        /\ IsRow(b, {"items", "next_page_token"}) /\ IsRow(b.items, DOMAIN b.items)
    BY <2>1 DEF IsPage, AreRows
  <2>6. JArr(f) = JArr(g) /\ JStr(a.next_page_token) = JStr(b.next_page_token)
    BY <2>2
  <2> QED  BY <2>3, <2>4, <2>5, <2>6, PagesDistinct
<1>3. CASE rpc \in {"ListUserFollows", "ListAccountFollowers"}
  <2> DEFINE f == [i \in DOMAIN a.items |-> follow_to_json(follow_to_proto(a.items[i]))]
             g == [i \in DOMAIN b.items |-> follow_to_json(follow_to_proto(b.items[i]))]
  <2>1. IsPage(a, IsFollow) /\ IsPage(b, IsFollow)
    BY <1>3 DEF RowIs
  <2>2. /\ OkJson(rpc, a).obj["items"] = JArr(f)
        /\ OkJson(rpc, a).obj["next_page_token"] = JStr(a.next_page_token)
        /\ OkJson(rpc, b).obj["items"] = JArr(g)
        /\ OkJson(rpc, b).obj["next_page_token"] = JStr(b.next_page_token)
    BY <1>3 DEF OkJson, ItemsJson, JObj
  <2>3. ASSUME NEW i \in DOMAIN a.items \intersect DOMAIN b.items, f[i] = g[i]
        PROVE  a.items[i] = b.items[i]
    BY <2>1, <2>3, FollowsDistinct DEF IsPage, AreRows
  <2>4. DOMAIN f = DOMAIN a.items /\ DOMAIN g = DOMAIN b.items
    OBVIOUS
  <2> HIDE DEF f, g
  <2>5. /\ IsRow(a, {"items", "next_page_token"}) /\ IsRow(a.items, DOMAIN a.items)
        /\ IsRow(b, {"items", "next_page_token"}) /\ IsRow(b.items, DOMAIN b.items)
    BY <2>1 DEF IsPage, AreRows
  <2>6. JArr(f) = JArr(g) /\ JStr(a.next_page_token) = JStr(b.next_page_token)
    BY <2>2
  <2> QED  BY <2>3, <2>4, <2>5, <2>6, PagesDistinct
<1>4. CASE rpc = "GetRecommendationFeed"
  <2> DEFINE f == [i \in DOMAIN a.items |-> feed_item_to_json(feed_item_to_proto(a.items[i]))]
             g == [i \in DOMAIN b.items |-> feed_item_to_json(feed_item_to_proto(b.items[i]))]
  <2>1. IsPage(a, IsFeedItem) /\ IsPage(b, IsFeedItem)
    BY <1>4 DEF RowIs
  <2>2. /\ OkJson(rpc, a).obj["items"] = JArr(f)
        /\ OkJson(rpc, a).obj["next_page_token"] = JStr(a.next_page_token)
        /\ OkJson(rpc, b).obj["items"] = JArr(g)
        /\ OkJson(rpc, b).obj["next_page_token"] = JStr(b.next_page_token)
    BY <1>4 DEF OkJson, ItemsJson, JObj
  <2>3. ASSUME NEW i \in DOMAIN a.items \intersect DOMAIN b.items, f[i] = g[i]
        PROVE  a.items[i] = b.items[i]
    BY <2>1, <2>3, FeedItemsDistinct DEF IsPage, AreRows
  <2>4. DOMAIN f = DOMAIN a.items /\ DOMAIN g = DOMAIN b.items
    OBVIOUS
  <2> HIDE DEF f, g
  <2>5. /\ IsRow(a, {"items", "next_page_token"}) /\ IsRow(a.items, DOMAIN a.items)
        /\ IsRow(b, {"items", "next_page_token"}) /\ IsRow(b.items, DOMAIN b.items)
    BY <2>1 DEF IsPage, AreRows
  <2>6. JArr(f) = JArr(g) /\ JStr(a.next_page_token) = JStr(b.next_page_token)
    BY <2>2
  <2> QED  BY <2>3, <2>4, <2>5, <2>6, PagesDistinct
<1>5. CASE rpc = "GetFollowFeed"
  <2> DEFINE f == [i \in DOMAIN a.items |-> follow_feed_item_to_json(follow_feed_item_to_proto(a.items[i]))]
             g == [i \in DOMAIN b.items |-> follow_feed_item_to_json(follow_feed_item_to_proto(b.items[i]))]
  <2>1. IsPage(a, IsSummary) /\ IsPage(b, IsSummary)
    BY <1>5 DEF RowIs
  <2>2. /\ OkJson(rpc, a).obj["items"] = JArr(f)
        /\ OkJson(rpc, a).obj["next_page_token"] = JStr(a.next_page_token)
        /\ OkJson(rpc, b).obj["items"] = JArr(g)
        /\ OkJson(rpc, b).obj["next_page_token"] = JStr(b.next_page_token)
    BY <1>5 DEF OkJson, ItemsJson, JObj
  <2>3. ASSUME NEW i \in DOMAIN a.items \intersect DOMAIN b.items, f[i] = g[i]
        PROVE  a.items[i] = b.items[i]
    BY <2>1, <2>3, StreamItemsDistinct DEF IsPage, AreRows
  <2>4. DOMAIN f = DOMAIN a.items /\ DOMAIN g = DOMAIN b.items
    OBVIOUS
  <2> HIDE DEF f, g
  <2>5. /\ IsRow(a, {"items", "next_page_token"}) /\ IsRow(a.items, DOMAIN a.items)
        /\ IsRow(b, {"items", "next_page_token"}) /\ IsRow(b.items, DOMAIN b.items)
    BY <2>1 DEF IsPage, AreRows
  <2>6. JArr(f) = JArr(g) /\ JStr(a.next_page_token) = JStr(b.next_page_token)
    BY <2>2
  <2> QED  BY <2>3, <2>4, <2>5, <2>6, PagesDistinct
<1>6. CASE rpc = "StreamAccountArticles"
  <2> DEFINE f == [i \in DOMAIN a.items |-> account_stream_item_to_json(account_stream_item_to_proto(a.items[i]))]
             g == [i \in DOMAIN b.items |-> account_stream_item_to_json(account_stream_item_to_proto(b.items[i]))]
  <2>1. IsPage(a, IsSummary) /\ IsPage(b, IsSummary)
    BY <1>6 DEF RowIs
  <2>2. /\ OkJson(rpc, a).obj["items"] = JArr(f)
        /\ OkJson(rpc, a).obj["next_page_token"] = JStr(a.next_page_token)
        /\ OkJson(rpc, b).obj["items"] = JArr(g)
        /\ OkJson(rpc, b).obj["next_page_token"] = JStr(b.next_page_token)
    BY <1>6 DEF OkJson, ItemsJson, JObj
  <2>3. ASSUME NEW i \in DOMAIN a.items \intersect DOMAIN b.items, f[i] = g[i]
        PROVE  a.items[i] = b.items[i]
    BY <2>1, <2>3, StreamItemsDistinct DEF IsPage, AreRows
  <2>4. DOMAIN f = DOMAIN a.items /\ DOMAIN g = DOMAIN b.items
    OBVIOUS
  <2> HIDE DEF f, g
  <2>5. /\ IsRow(a, {"items", "next_page_token"}) /\ IsRow(a.items, DOMAIN a.items)
        /\ IsRow(b, {"items", "next_page_token"}) /\ IsRow(b.items, DOMAIN b.items)
    BY <2>1 DEF IsPage, AreRows
  <2>6. JArr(f) = JArr(g) /\ JStr(a.next_page_token) = JStr(b.next_page_token)
    BY <2>2
  <2> QED  BY <2>3, <2>4, <2>5, <2>6, PagesDistinct
<1>7. CASE rpc = "ListEvents"
  <2> DEFINE f == [i \in DOMAIN a.items |-> event_to_json(event_to_proto(a.items[i]))]
             g == [i \in DOMAIN b.items |-> event_to_json(event_to_proto(b.items[i]))]
  <2>1. IsPage(a, IsEvent) /\ IsPage(b, IsEvent)
    BY <1>7 DEF RowIs
  <2>2. /\ OkJson(rpc, a).obj["items"] = JArr(f)
        /\ OkJson(rpc, a).obj["next_page_token"] = JStr(a.next_page_token)
        /\ OkJson(rpc, b).obj["items"] = JArr(g)
        /\ OkJson(rpc, b).obj["next_page_token"] = JStr(b.next_page_token)
    BY <1>7 DEF OkJson, ItemsJson, JObj
  <2>3. ASSUME NEW i \in DOMAIN a.items \intersect DOMAIN b.items, f[i] = g[i]
        PROVE  a.items[i] = b.items[i]
    BY <2>1, <2>3, EventsDistinct DEF IsPage, AreRows
  <2>4. DOMAIN f = DOMAIN a.items /\ DOMAIN g = DOMAIN b.items
    OBVIOUS
  <2> HIDE DEF f, g
  <2>5. /\ IsRow(a, {"items", "next_page_token"}) /\ IsRow(a.items, DOMAIN a.items)
        /\ IsRow(b, {"items", "next_page_token"}) /\ IsRow(b.items, DOMAIN b.items)
    BY <2>1 DEF IsPage, AreRows
  <2>6. JArr(f) = JArr(g) /\ JStr(a.next_page_token) = JStr(b.next_page_token)
    BY <2>2
  <2> QED  BY <2>3, <2>4, <2>5, <2>6, PagesDistinct
<1> QED  BY <1>1, <1>2, <1>3, <1>4, <1>5, <1>6, <1>7

\* Then all the others.
LEMMA OkDistinct ==
  ASSUME NEW rpc \in Implemented, NEW a, NEW b, RowIs(rpc, a), RowIs(rpc, b),
         OkJson(rpc, a) = OkJson(rpc, b)
  PROVE  a = b
<1>1. CASE rpc = "GetAccount"
  <2>1. IsAccount(a) /\ IsAccount(b)
    BY <1>1 DEF RowIs
  <2>2. /\ OkJson(rpc, a) = account_to_json(account_to_proto(a))
        /\ OkJson(rpc, b) = account_to_json(account_to_proto(b))
    BY <1>1 DEF OkJson
  <2> QED  BY <2>1, <2>2, AccountsDistinct
<1>2. CASE rpc \in {"GetUser", "UpdateUser", "DeleteUser"}
  <2>1. IsUser(a) /\ IsUser(b)
    BY <1>2 DEF RowIs
  <2>2. /\ OkJson(rpc, a) = user_to_json(user_to_proto(a))
        /\ OkJson(rpc, b) = user_to_json(user_to_proto(b))
    BY <1>2 DEF OkJson
  <2> QED  BY <2>1, <2>2, UsersDistinct
<1>3. CASE rpc \in {"AddUserKey", "RevokeUserKey"}
  <2>1. IsKey(a) /\ IsKey(b)
    BY <1>3 DEF RowIs
  <2>2. /\ OkJson(rpc, a) = user_key_to_json(key_to_proto(a))
        /\ OkJson(rpc, b) = user_key_to_json(key_to_proto(b))
    BY <1>3 DEF OkJson
  <2> QED  BY <2>1, <2>2, KeysDistinct
<1>4. CASE rpc \in {"PublishArticle", "GetArticle", "EditArticle", "TombstoneArticle", "PublishDraft"}
  <2>1. IsArticle(a) /\ IsArticle(b)
    BY <1>4 DEF RowIs
  <2>2. /\ OkJson(rpc, a) = article_to_json(article_to_proto(a))
        /\ OkJson(rpc, b) = article_to_json(article_to_proto(b))
    BY <1>4 DEF OkJson
  <2> QED  BY <2>1, <2>2, ArticlesDistinct
<1>5. CASE rpc \in {"CreateDraft", "GetDraft", "UpdateDraft"}
  <2>1. IsDraft(a) /\ IsDraft(b)
    BY <1>5 DEF RowIs
  <2>2. /\ OkJson(rpc, a) = draft_to_json(draft_to_proto(a))
        /\ OkJson(rpc, b) = draft_to_json(draft_to_proto(b))
    BY <1>5 DEF OkJson
  <2> QED  BY <2>1, <2>2, DraftsDistinct
<1>6. CASE rpc \in {"Follow", "Unfollow", "GetFollow"}
  <2>1. IsFollow(a) /\ IsFollow(b)
    BY <1>6 DEF RowIs
  <2>2. /\ OkJson(rpc, a) = follow_to_json(follow_to_proto(a))
        /\ OkJson(rpc, b) = follow_to_json(follow_to_proto(b))
    BY <1>6 DEF OkJson
  <2> QED  BY <2>1, <2>2, FollowsDistinct
<1>7. CASE rpc = "RecordEvent"
  <2>1. IsEvent(a) /\ IsEvent(b)
    BY <1>7 DEF RowIs
  <2>2. /\ OkJson(rpc, a) = event_to_json(event_to_proto(a))
        /\ OkJson(rpc, b) = event_to_json(event_to_proto(b))
    BY <1>7 DEF OkJson
  <2> QED  BY <2>1, <2>2, EventsDistinct
<1>8. CASE rpc = "CreateAccount"
  <2> DEFINE shown(r) == account_to_json(account_to_proto(r.account))
  <2>1. /\ IsRow(a, {"account", "key_id"}) /\ IsAccount(a.account)
        /\ IsRow(b, {"account", "key_id"}) /\ IsAccount(b.account)
    BY <1>8 DEF RowIs
  <2>2. /\ OkJson(rpc, a).obj["account"] = shown(a) /\ OkJson(rpc, a).obj["key_id"] = JStr(a.key_id)
        /\ OkJson(rpc, b).obj["account"] = shown(b) /\ OkJson(rpc, b).obj["key_id"] = JStr(b.key_id)
    BY <1>8 DEF OkJson, JObj
  <2>3. shown(a) = shown(b) /\ JStr(a.key_id) = JStr(b.key_id)
    <3> HIDE DEF shown
    <3> QED  BY <2>2
  <2>4. a.account = b.account
    BY <2>1, <2>3, AccountsDistinct
  <2>5. a.key_id = b.key_id
    BY <2>3, JsonContents
  <2> QED  BY <2>1, <2>4, <2>5 DEF IsRow
<1>9. CASE rpc = "CreateUser"
  <2> DEFINE shown(r) == user_to_json(user_to_proto(r.user))
  <2>1. /\ IsRow(a, {"user", "key_id"}) /\ IsUser(a.user)
        /\ IsRow(b, {"user", "key_id"}) /\ IsUser(b.user)
    BY <1>9 DEF RowIs
  <2>2. /\ OkJson(rpc, a).obj["user"] = shown(a) /\ OkJson(rpc, a).obj["key_id"] = JStr(a.key_id)
        /\ OkJson(rpc, b).obj["user"] = shown(b) /\ OkJson(rpc, b).obj["key_id"] = JStr(b.key_id)
    BY <1>9 DEF OkJson, JObj
  <2>3. shown(a) = shown(b) /\ JStr(a.key_id) = JStr(b.key_id)
    <3> HIDE DEF shown
    <3> QED  BY <2>2
  <2>4. a.user = b.user
    BY <2>1, <2>3, UsersDistinct
  <2>5. a.key_id = b.key_id
    BY <2>3, JsonContents
  <2> QED  BY <2>1, <2>4, <2>5 DEF IsRow
<1>10. CASE rpc = "ReplaceRecommendationFeed"
  <2>1. IsRow(a, {"stored_count"}) /\ IsRow(b, {"stored_count"})
    BY <1>10 DEF RowIs
  <2>2. /\ OkJson(rpc, a).obj["stored_count"] = JNum(a.stored_count)
        /\ OkJson(rpc, b).obj["stored_count"] = JNum(b.stored_count)
    BY <1>10 DEF OkJson, JObj
  <2>3. JNum(a.stored_count) = JNum(b.stored_count)
    BY <2>2
  <2>4. a.stored_count = b.stored_count
    BY <2>3, JsonContents
  <2> QED  BY <2>1, <2>4 DEF IsRow
<1>11. CASE rpc = "RecordEventBatch"
  <2> DEFINE f == [i \in DOMAIN a.recorded |-> event_to_json(event_to_proto(a.recorded[i]))]
             g == [i \in DOMAIN b.recorded |-> event_to_json(event_to_proto(b.recorded[i]))]
  <2>1. /\ IsRow(a, {"recorded", "stored_count"}) /\ AreRows(a.recorded, IsEvent)
        /\ IsRow(b, {"recorded", "stored_count"}) /\ AreRows(b.recorded, IsEvent)
    BY <1>11 DEF RowIs
  <2>2. /\ OkJson(rpc, a).obj["recorded"] = JArr(f)
        /\ OkJson(rpc, a).obj["stored_count"] = JNum(a.stored_count)
        /\ OkJson(rpc, b).obj["recorded"] = JArr(g)
        /\ OkJson(rpc, b).obj["stored_count"] = JNum(b.stored_count)
    BY <1>11 DEF OkJson, JObj
  <2>3. ASSUME NEW i \in DOMAIN a.recorded \intersect DOMAIN b.recorded, f[i] = g[i]
        PROVE  a.recorded[i] = b.recorded[i]
    BY <2>1, <2>3, EventsDistinct DEF AreRows
  <2>4. DOMAIN f = DOMAIN a.recorded /\ DOMAIN g = DOMAIN b.recorded
    OBVIOUS
  <2> HIDE DEF f, g
  <2>5. JArr(f) = JArr(g) /\ JNum(a.stored_count) = JNum(b.stored_count)
    BY <2>2
  <2>6. f = g /\ a.stored_count = b.stored_count
    BY <2>5, JsonContents
  <2>7. a.recorded = b.recorded
    <3>1. IsRow(a.recorded, DOMAIN a.recorded) /\ IsRow(b.recorded, DOMAIN b.recorded)
      BY <2>1 DEF AreRows
    <3> QED  BY <2>3, <2>4, <2>6, <3>1, ListsDistinct
  <2> QED  BY <2>1, <2>6, <2>7 DEF IsRow
<1>12. CASE rpc \in {"ListAccountArticles", "ListAccountDrafts", "ListUserFollows",
                     "ListAccountFollowers", "GetRecommendationFeed", "GetFollowFeed",
                     "StreamAccountArticles", "ListEvents"}
  BY <1>12, ListingsDistinct
<1>13. CASE rpc \in {"RedactArticleVersion", "DeleteDraft"}
  BY <1>13 DEF RowIs
<1> QED  BY <1>1, <1>2, <1>3, <1>4, <1>5, <1>6, <1>7, <1>8, <1>9, <1>10, <1>11, <1>12,
            <1>13 DEF Implemented

\* The row a service ends with, the stored content in it, is a row of its
\* table.
LEMMA StoredRow ==
  ASSUME NEW rpc \in DOMAIN Rows, NEW m, NEW row \in RowsOf(rpc, m),
         \A nodes \in ContentOf(rpc, m) : nodes \in Seq(ContentNodes) /\ ContentOf(rpc, m) = {nodes}
  PROVE  RowIs(rpc, Stored(rpc, m, row))
<1> DEFINE new == Stored(rpc, m, row)
<1>1. row \in Rows[rpc] /\ RowIs(rpc, row)
  <2>1. row \in Rows[rpc]
    BY DEF RowsOf
  <2> QED  BY <2>1, RowsAssumption
<1>2. CASE ContentOf(rpc, m) = {}
  <2>1. {nodes_to_json(n) : n \in ContentOf(rpc, m)} = {}
    BY <1>2
  <2> QED  BY <1>1, <2>1 DEF Stored
<1>3. CASE ContentOf(rpc, m) # {}
  <2>1. PICK nodes \in ContentOf(rpc, m) : nodes \in Seq(ContentNodes) /\ ContentOf(rpc, m) = {nodes}
    BY <1>3
  <2> DEFINE json == nodes_to_json(nodes)
  <2>2. {nodes_to_json(n) : n \in ContentOf(rpc, m)} = {json}
    BY <2>1
  <2>3. rpc \in {"PublishArticle", "CreateDraft", "EditArticle", "UpdateDraft"}
    BY <1>3 DEF ContentOf
  <2>4. IsStored(json)
    <3>1. nodes # <<>>
      <4>1. ContentErrors(nodes, FALSE) = {}
        BY <2>1 DEF RowsOf
      <4> QED  BY <4>1 DEF ContentErrors
    <3>2. json_to_nodes(json) = nodes
      BY <2>1, ContentReadBack
    <3> QED  BY <2>1, <3>1, <3>2 DEF IsStored
  <2> HIDE DEF json
  <2>5. CASE rpc \in {"CreateDraft", "UpdateDraft"}
    <3>1. new = [row EXCEPT !.content = json]
      BY <2>2, <2>5, TheOne DEF Stored
    <3>2. IsDraft(row)
      BY <1>1, <2>5 DEF RowIs
    <3>3. DOMAIN row = {"id", "account_id", "title", "author_name", "author_url", "content",
                        "created_at", "updated_at"}
      BY <3>2 DEF IsDraft, IsRow
    <3>4. new.content = json /\ new.created_at = row.created_at /\ new.updated_at = row.updated_at
      BY <3>1, <3>3
    <3>5. IsRow(new, {"id", "account_id", "title", "author_name", "author_url", "content",
                      "created_at", "updated_at"})
      BY <3>1, <3>3 DEF IsRow
    <3> HIDE DEF new
    <3>6. IsDraft(new)
      BY <2>4, <3>2, <3>4, <3>5 DEF IsDraft
    <3> QED  BY <2>5, <3>6 DEF RowIs, new
  <2>6. CASE rpc \in {"PublishArticle", "EditArticle"}
    <3>1. new = [row EXCEPT !.content = {json}]
      BY <2>2, <2>6 DEF Stored
    <3>2. IsArticle(row) /\ row.summary.state = "live"
      BY <1>1, <2>6, RowsAssumption DEF RowIs
    <3>3. DOMAIN row = {"summary", "content"}
      BY <3>2 DEF IsArticle, IsRow
    <3>4. new.content = {json} /\ new.summary = row.summary
      BY <3>1, <3>3
    <3>5. IsRow(new, {"summary", "content"})
      BY <3>1, <3>3 DEF IsRow
    <3> HIDE DEF new
    <3>6. IsArticle(new)
      BY <2>4, <3>2, <3>4, <3>5 DEF IsArticle, IsOptional
    <3> QED  BY <2>6, <3>6 DEF RowIs, new
  <2> QED  BY <2>3, <2>5, <2>6
<1> QED  BY <1>2, <1>3

\* The errors of a service are variants.
LEMMA FaultsKnown ==
  ASSUME NEW rpc \in {r.rpc : r \in Routes}, NEW m,
         \A nodes \in ContentOf(rpc, m) : nodes \in Seq(ContentNodes)
  PROVE  FaultsOf(rpc, m) \subseteq DOMAIN HeadlinesError
<1>1. {"Internal", "NotImplementedInV1"} \subseteq DOMAIN HeadlinesError
  BY DEF HeadlinesError
<1>2. CASE rpc \in Unimplemented
  BY <1>1, <1>2 DEF FaultsOf
<1>3. CASE rpc \notin Unimplemented
  <2>1. Faults[rpc] \subseteq DOMAIN HeadlinesError
    BY <1>3, RoutedImplemented, FaultVariants
  <2>2. \A nodes \in ContentOf(rpc, m), large \in BOOLEAN :
          ContentErrors(nodes, large) \subseteq DOMAIN HeadlinesError
    BY ContentVariants
  <2>3. UNION {ContentErrors(nodes, large) : nodes \in ContentOf(rpc, m), large \in BOOLEAN}
          \subseteq DOMAIN HeadlinesError
    BY <2>2
  <2> QED  BY <1>1, <1>3, <2>1, <2>3 DEF FaultsOf
<1> QED  BY <1>2, <1>3

\* What the reply to each kind of outcome has in it.
LEMMA OkReply ==
  ASSUME NEW rpc, NEW o, o.kind = "ok"
  PROVE  ReplyTo(rpc, o).code = "Ok"
BY DEF ReplyTo, Reply

\* The reply to a denial has no detail.
LEMMA DeniedReply ==
  ASSUME NEW rpc, NEW o, o.kind = "denied"
  PROVE  ReplyTo(rpc, o).code = "PermissionDenied" /\ DOMAIN ReplyTo(rpc, o).details = {}
<1>1. ReplyTo(rpc, o) = FromStatus(BareStatus("PermissionDenied"))
  BY DEF ReplyTo
<1>2. /\ BareStatus("PermissionDenied").code = "PermissionDenied"
      /\ BareStatus("PermissionDenied").details = <<>>
  BY DEF BareStatus
<1>3. DOMAIN DecodedDetails(BareStatus("PermissionDenied")) = {}
  BY <1>2 DEF DecodedDetails
<1> QED  BY <1>1, <1>2, <1>3 DEF FromStatus, Reply

\* The reply to an error has its code and its reason.
LEMMA ErrorReply ==
  ASSUME NEW rpc, NEW o, o.kind = "error"
  PROVE  /\ ReplyTo(rpc, o).code = HeadlinesError[o.fault].code
         /\ DOMAIN ReplyTo(rpc, o).details = {1}
         /\ ReplyTo(rpc, o).details[1].reason = HeadlinesError[o.fault].reason
<1> DEFINE e == DomainError(o.fault, HeadlinesError[o.fault].keys)
           status == Status(e)
<1>1. ReplyTo(rpc, o) = FromStatus(status)
  BY DEF ReplyTo
<1>2. e.variant = o.fault
  BY DEF DomainError
<1> HIDE DEF e
<1>3. /\ status.code = HeadlinesError[o.fault].code /\ DOMAIN status.details = {1}
      /\ status.details[1].reason = HeadlinesError[o.fault].reason
  BY <1>2 DEF Status
<1> HIDE DEF status
<1>4. /\ DOMAIN DecodedDetails(status) = {1}
      /\ DecodedDetails(status)[1].reason = HeadlinesError[o.fault].reason
  BY <1>3 DEF DecodedDetails
<1> QED  BY <1>1, <1>3, <1>4 DEF FromStatus, Reply

\* An outcome is its kind, its fault and its row.
LEMMA OutcomeParts ==
  ASSUME NEW rpc, NEW m, NEW o \in Outcomes(rpc, m)
  PROVE  o = Outcome(o.kind, o.fault, o.row)
<1>1. CASE \E v \in FaultsOf(rpc, m) : o = Outcome("error", v, {})
  BY <1>1 DEF Outcome
<1>2. CASE o = Outcome("denied", "", {})
  BY <1>2 DEF Outcome
<1>3. CASE \E row \in RowsOf(rpc, m) : o = Outcome("ok", "", {Stored(rpc, m, row)})
  <2>1. PICK row : o = Outcome("ok", "", {row})
    BY <1>3
  <2> QED  BY <2>1 DEF Outcome
<1> QED  BY <1>1, <1>2, <1>3, OutcomeShapes

\* Two outcomes of the same request that are answered alike are the same.
LEMMA OutcomesDistinct ==
  ASSUME NEW rpc \in {r.rpc : r \in Routes}, NEW m,
         \A nodes \in ContentOf(rpc, m) : nodes \in Seq(ContentNodes) /\ ContentOf(rpc, m) = {nodes},
         NEW o \in Outcomes(rpc, m), NEW p \in Outcomes(rpc, m),
         ReplyTo(rpc, o) = ReplyTo(rpc, p), JsonTo(rpc, o) = JsonTo(rpc, p)
  PROVE  o = p
<1>1. FaultsOf(rpc, m) \subseteq DOMAIN HeadlinesError
  BY FaultsKnown
<1>2. /\ o.kind = "error" => o.fault \in DOMAIN HeadlinesError
      /\ p.kind = "error" => p.fault \in DOMAIN HeadlinesError
  BY <1>1, OutcomeKinds
<1>3. o.kind \in {"ok", "denied", "error"} /\ p.kind \in {"ok", "denied", "error"}
  BY OutcomeKinds
<1>4. "PermissionDenied" # "Ok" /\ {1} # {}
  OBVIOUS
<1>5. o.kind = p.kind
  <2>1. /\ o.kind = "error" => HeadlinesError[o.fault].code # "Ok"
        /\ p.kind = "error" => HeadlinesError[p.fault].code # "Ok"
    BY <1>2, ReasonsDistinct
  <2> QED  BY <1>3, <1>4, <2>1, OkReply, DeniedReply, ErrorReply
<1>6. CASE o.kind = "denied"
  <2>1. o.fault = "" /\ o.row = {} /\ p.fault = "" /\ p.row = {}
    BY <1>5, <1>6, OutcomeKinds
  <2> QED  BY <1>5, <2>1, OutcomeParts
<1>7. CASE o.kind = "error"
  <2>1. /\ ReplyTo(rpc, o).details[1].reason = HeadlinesError[o.fault].reason
        /\ ReplyTo(rpc, p).details[1].reason = HeadlinesError[p.fault].reason
    <3>1. p.kind = "error"
      BY <1>5, <1>7
    <3> QED  BY <1>7, <3>1, ErrorReply
  <2>2. HeadlinesError[o.fault].reason = HeadlinesError[p.fault].reason
    BY <2>1
  <2>3. o.fault = p.fault
    BY <1>2, <1>5, <1>7, <2>2, ReasonsDistinct
  <2>4. o.row = {} /\ p.row = {}
    BY <1>5, <1>7, OutcomeKinds
  <2> QED  BY <1>5, <2>3, <2>4, OutcomeParts
<1>8. CASE o.kind = "ok"
  <2>1. PICK x \in RowsOf(rpc, m) :
          o = Outcome("ok", "", {Stored(rpc, m, x)}) /\ o.row = {Stored(rpc, m, x)}
    BY <1>8, OkOutcome
  <2>2. PICK y \in RowsOf(rpc, m) :
          p = Outcome("ok", "", {Stored(rpc, m, y)}) /\ p.row = {Stored(rpc, m, y)}
    <3>1. p.kind = "ok"
      BY <1>5, <1>8
    <3> QED  BY <3>1, OkOutcome
  <2>3. rpc \notin Unimplemented
    BY <2>1 DEF RowsOf
  <2>4. rpc \in DOMAIN Rows /\ rpc \in Implemented
    BY <2>3, RowsAssumption, RoutedImplemented
  <2>5. RowIs(rpc, Stored(rpc, m, x)) /\ RowIs(rpc, Stored(rpc, m, y))
    BY <2>4, StoredRow
  <2>6. OkJson(rpc, Stored(rpc, m, x)) = OkJson(rpc, Stored(rpc, m, y))
    <3>1. /\ JsonTo(rpc, o) = {OkJson(rpc, Stored(rpc, m, x))}
          /\ JsonTo(rpc, p) = {OkJson(rpc, Stored(rpc, m, y))}
      <4>1. \A z, row : z.row = {row} => JsonTo(rpc, z) = {OkJson(rpc, row)}
        BY DEF JsonTo
      <4> QED  BY <2>1, <2>2, <4>1
    <3> QED  BY <3>1
  <2>7. Stored(rpc, m, x) = Stored(rpc, m, y)
    BY <2>4, <2>5, <2>6, OkDistinct
  <2> QED  BY <2>1, <2>2, <2>7
<1> QED  BY <1>3, <1>6, <1>7, <1>8

\* The reply tells the outcome of the request, for every RPC, row, page and
\* error there is: no two states of a row are shown alike, in a page or
\* alone, no two errors have the same code and details, and neither looks
\* like a success or a denial.
THEOREM RepliesDistinguishCorrect == GatewaySpec => []RepliesDistinguish
<1> DEFINE I == GatewayInv /\ AnswersMade /\ AnsweredAsMeant
<1>1. GatewayInit => I
  <2> SUFFICES ASSUME GatewayInit  PROVE GatewayInv /\ AnswersMade /\ AnsweredAsMeant
    OBVIOUS
  <2>1. AnsweredAsMeant
    BY DEF GatewayInit, AnsweredAsMeant
  <2> QED  BY <2>1, GatewayInvStart, GatewayStart
<1>2. I /\ [GatewayNext]_gatewayVars => I'
  <2> SUFFICES ASSUME I, [GatewayNext]_gatewayVars  PROVE I'
    OBVIOUS
  <2>1. GatewayTypeOK /\ Served /\ ExecutedAsMeant
    BY HandledAsMeant DEF GatewayInv
  <2>2. GatewayInv' /\ AnswersMade' /\ AnsweredAsMeant'
    BY <2>1, GatewayInvStep, AnswersMadeStep, AnsweredAsMeantStep
  <2> QED  BY <2>2
<1>3. I => RepliesDistinguish
  <2> SUFFICES ASSUME I, NEW c \in Calls, NEW a \in answer[c],
                      a.outcome.kind \in {"ok", "error", "denied"},
                      NEW o \in Outcomes(RpcOf(Request(c)), Forwarded(Request(c))),
                      ReplyTo(RpcOf(Request(c)), o) = a.reply, JsonTo(RpcOf(Request(c)), o) = a.json
               PROVE  o = a.outcome
    BY DEF RepliesDistinguish
  <2> DEFINE h == Request(c)
             rpc == RpcOf(h)
             m == Forwarded(h)
  <2>1. ServiceAnswer(h, a) /\ h \in Range(Http)
    BY ServiceAnswered
  <2>2. Forwardable(h) /\ m = h.meant
    BY DEF AnsweredAsMeant
  <2>3. /\ a.outcome \in Outcomes(rpc, m) /\ a.json = JsonTo(rpc, a.outcome)
        /\ a.reply = ReplyTo(rpc, a.outcome)
    BY <2>1 DEF ServiceAnswer
  <2>4. rpc \in {r.rpc : r \in Routes}
    BY <2>2, Routed
  <2>5. \A nodes \in ContentOf(rpc, h.meant) : nodes \in Seq(ContentNodes) /\
          ContentOf(rpc, h.meant) = {nodes}
    BY <2>1, <2>2, ClientsAssumption
  <2>6. \A nodes \in ContentOf(rpc, m) : nodes \in Seq(ContentNodes) /\ ContentOf(rpc, m) = {nodes}
    BY <2>2, <2>5
  <2>7. /\ o \in Outcomes(rpc, m)
        /\ ReplyTo(rpc, o) = ReplyTo(rpc, a.outcome)
        /\ JsonTo(rpc, o) = JsonTo(rpc, a.outcome)
    BY <2>3
  <2> HIDE DEF rpc, m, h
  <2> QED  BY <2>3, <2>4, <2>6, <2>7, OutcomesDistinct
<1> HIDE DEF I
<1> QED  BY <1>1, <1>2, <1>3, PTL DEF GatewaySpec
=============================================================================
