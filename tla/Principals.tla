----------------------------- MODULE Principals -----------------------------
(***************************************************************************)
(* An account or a user and its signing keys: AccountService and           *)
(* UserService (api services/account.rs, services/user.rs) over the        *)
(* repositories repo/accounts.rs, repo/users.rs and repo/keys.rs of        *)
(* headlines-store.  The two kinds have the same handlers, except that     *)
(* revoke_account_key refuses a deleted account and revoke_user_key has no *)
(* such check, and that an account has three profile fields and a user one.*)
(*                                                                         *)
(* Nothing here runs in a transaction: every statement commits by itself,  *)
(* so what a handler has checked may be out of date when it writes, and a  *)
(* handler that stops halfway leaves the statements it has run.  One       *)
(* action is one statement (or one repository call of a single statement). *)
(*                                                                         *)
(* Principals do not share rows; one is modelled.  A request is signed by  *)
(* one of the principal's keys ("self"), by a system principal with the    *)
(* scope the call needs ("system"), or by one that holds admin.* as well   *)
(* ("rescue").  The resolver of headlines-auth accepts a key that is       *)
(* active when the request arrives, whatever the principal's status.       *)
(***************************************************************************)
EXTENDS Integers, FiniteSets

CONSTANTS
  Handlers,    \* request handlers running concurrently
  Keys,        \* key UUIDs
  NumFields,   \* profile fields: 3 for an account, 1 for a user
  Values,      \* values of a profile field
  MaxDeletes   \* bound: DeleteAccount / DeleteUser requests that reach the row

ASSUME SizesAssumption == NumFields \in Nat /\ NumFields >= 1 /\ MaxDeletes \in Nat
ASSUME HandlersAssumption == IsFiniteSet(Handlers)

VARIABLES
  kind,       \* "account" or "user", for good
  status,     \* the row's status, "none" before it is inserted
  profile,    \* the row's profile fields
  deletedAt,  \* deleted_at: the instants are numbered by the soft_deletes, 0 is NULL
  keys,       \* the status of each key row, "none" when there is no row
  req         \* each handler's request

vars == <<kind, status, profile, deletedAt, keys, req>>

Fields == 1..NumFields
Active == {k \in Keys : keys[k] = "active"}
Subjects == {"self", "system", "rescue"}

PCs == {"idle", "c_row", "c_key", "u_select", "u_field", "d_update", "a_status",
        "a_insert", "r_status", "r_count", "r_select", "r_update"}

(* A request's fields: whether `rescue` signed it; the key it creates or   *)
(* revokes; the masked fields still to write and their value; `seen`, the  *)
(* active keys counted by the lockout check; `late`, a history field: the  *)
(* principal was deleted when the request arrived.                         *)
NoReq == [pc |-> "idle", rescue |-> FALSE, key |-> {}, todo |-> {}, val |-> {},
          seen |-> {}, late |-> FALSE]

Requests ==
  [pc : PCs, rescue : BOOLEAN, key : {{k} : k \in Keys} \union {{}}, todo : SUBSET Fields,
   val : {{v} : v \in Values} \union {{}}, seen : SUBSET Keys, late : BOOLEAN]

PrincipalTypeOK ==
  /\ kind \in {"account", "user"}
  /\ status \in {"none", "active", "deleted"}
  /\ profile \in [Fields -> Values]
  /\ deletedAt \in 0..MaxDeletes
  /\ keys \in [Keys -> {"none", "active", "revoked"}]
  /\ req \in [Handlers -> Requests]
  /\ status = "deleted" <=> deletedAt # 0

Init ==
  /\ kind \in {"account", "user"}
  /\ status = "none"
  /\ profile \in [Fields -> Values]    \* what CreateAccount will carry
  /\ deletedAt = 0
  /\ keys = [k \in Keys |-> "none"]
  /\ req = [h \in Handlers |-> NoReq]

Rows == <<kind, status, profile, deletedAt, keys>>

Go(h, p) == req' = [req EXCEPT ![h].pc = p]
Finish(h) == req' = [req EXCEPT ![h] = NoReq]

\* A request arrives and is authorized: self needs a key that is active now.
Arrives(h, p, who, key, todo, val) ==
  /\ req[h].pc = "idle"
  /\ who = "self" => Active # {}
  /\ req' = [req EXCEPT ![h] =
       [pc |-> p, rescue |-> who = "rescue", key |-> key, todo |-> todo, val |-> val,
        seen |-> {}, late |-> status = "deleted"]]
  /\ UNCHANGED Rows

\* Uuid::now_v7() mints a key id nobody has seen.
Fresh(k) == keys[k] = "none" /\ \A g \in Handlers : req[g].key # {k}

-----------------------------------------------------------------------------
(* create_account, create_user: the row, then the initial key. *)

\* A caller without the row's key: anonymous (registration open) or system.
CreateArrives(h) == \E k \in Keys :
  /\ status = "none"
  /\ \A g \in Handlers : req[g].pc # "c_row"
  /\ Fresh(k)
  /\ Arrives(h, "c_row", "system", {k}, {}, {})

CreateRow(h) ==
  /\ req[h].pc = "c_row"
  /\ status' = "active"
  /\ Go(h, "c_key")
  /\ UNCHANGED <<kind, profile, deletedAt, keys>>

InsertKey(h, p) ==
  /\ req[h].pc = p
  /\ keys' = [k \in Keys |-> IF k \in req[h].key THEN "active" ELSE keys[k]]
  /\ Finish(h)
  /\ UNCHANGED <<kind, status, profile, deletedAt>>

CreateKey(h) == InsertKey(h, "c_key")

-----------------------------------------------------------------------------
(* update_account, update_user *)

UpdateArrives(h) == \E who \in {"self", "system"}, m \in SUBSET Fields \ {{}}, v \in Values :
  status # "none" /\ Arrives(h, "u_select", who, {}, m, {v})

\* (Mutant: the status is not looked at.)
UpdateSelectAny(h) ==
  /\ req[h].pc = "u_select"
  /\ Go(h, "u_field")
  /\ UNCHANGED Rows

\* AccountDeleted, UserDeleted.
UpdateSelect(h) ==
  /\ req[h].pc = "u_select"
  /\ IF status = "deleted" THEN Finish(h) ELSE Go(h, "u_field")
  /\ UNCHANGED Rows

\* One UPDATE for each masked field, in the order of the row; its predicate is
\* the id alone.
UpdateField(h) == LET r == req[h]
                      f == CHOOSE g \in r.todo : \A i \in r.todo : g <= i IN
  /\ r.pc = "u_field"
  /\ profile' = [profile EXCEPT ![f] = CHOOSE v \in Values : r.val = {v}]
  /\ IF r.todo = {f} THEN Finish(h) ELSE req' = [req EXCEPT ![h].todo = @ \ {f}]
  /\ UNCHANGED <<kind, status, deletedAt, keys>>

-----------------------------------------------------------------------------
(* delete_account, delete_user *)

Deleting == {h \in Handlers : req[h].pc = "d_update"}

DeleteArrives(h) == \E who \in {"self", "system"} :
  /\ status # "none"
  /\ deletedAt + Cardinality(Deleting) < MaxDeletes
  /\ Arrives(h, "d_update", who, {}, {}, {})

\* (Mutant: a second soft_delete toggles the row back.)
SoftDeleteToggles(h) ==
  /\ req[h].pc = "d_update"
  /\ status' = IF status = "deleted" THEN "active" ELSE "deleted"
  /\ deletedAt' = IF status = "deleted" THEN 0 ELSE deletedAt + 1
  /\ Finish(h)
  /\ UNCHANGED <<kind, profile, keys>>

\* No status check: a deleted row is stamped again.
SoftDelete(h) ==
  /\ req[h].pc = "d_update"
  /\ status' = "deleted"
  /\ deletedAt' = deletedAt + 1
  /\ Finish(h)
  /\ UNCHANGED <<kind, profile, keys>>

-----------------------------------------------------------------------------
(* add_account_key, add_user_key *)

AddArrives(h) == \E who \in {"self", "system"}, k \in Keys :
  status # "none" /\ Fresh(k) /\ Arrives(h, "a_status", who, {k}, {}, {})

AddCheckStatus(h) ==
  /\ req[h].pc = "a_status"
  /\ IF status = "deleted" THEN Finish(h) ELSE Go(h, "a_insert")
  /\ UNCHANGED Rows

AddInsert(h) == InsertKey(h, "a_insert")

-----------------------------------------------------------------------------
(* revoke_account_key, revoke_user_key *)

\* The caller names a key the API has returned to it.
RevokeArrives(h) == \E who \in Subjects, k \in Keys :
  /\ keys[k] # "none"
  /\ Arrives(h, IF kind = "account" THEN "r_status" ELSE "r_count", who, {k}, {}, {})

\* Accounts only: AccountDeleted.
RevokeCheckStatus(h) ==
  /\ req[h].pc = "r_status"
  /\ IF status = "deleted" THEN Finish(h) ELSE Go(h, "r_count")
  /\ UNCHANGED Rows

\* (Mutant: the last key is looked for among the remaining ones.)
RevokeCountOff(h) ==
  /\ req[h].pc = "r_count"
  /\ IF req[h].key \subseteq Active /\ Cardinality(Active) = 0 /\ ~req[h].rescue
       THEN Finish(h)
       ELSE req' = [req EXCEPT ![h].pc = "r_select", ![h].seen = Active]
  /\ UNCHANGED Rows

\* The lockout check on list_active: LastActiveKey.
RevokeCount(h) ==
  /\ req[h].pc = "r_count"
  /\ IF req[h].key \subseteq Active /\ Cardinality(Active) = 1 /\ ~req[h].rescue
       THEN Finish(h)
       ELSE req' = [req EXCEPT ![h].pc = "r_select", ![h].seen = Active]
  /\ UNCHANGED Rows

\* KeyAlreadyRevoked.
RevokeSelect(h) ==
  /\ req[h].pc = "r_select"
  /\ IF req[h].key \subseteq Active THEN Go(h, "r_update") ELSE Finish(h)
  /\ UNCHANGED Rows

\* The predicate names the key, not its status.
RevokeUpdate(h) ==
  /\ req[h].pc = "r_update"
  /\ keys' = [k \in Keys |-> IF k \in req[h].key THEN "revoked" ELSE keys[k]]
  /\ Finish(h)
  /\ UNCHANGED <<kind, status, profile, deletedAt>>

-----------------------------------------------------------------------------
\* The server stops, or a statement fails: the statements already run stay.
Abort(h) == req[h].pc # "idle" /\ Finish(h) /\ UNCHANGED Rows

Arrive(h) == \/ CreateArrives(h) \/ UpdateArrives(h) \/ DeleteArrives(h)
             \/ AddArrives(h) \/ RevokeArrives(h)

Statement(h) == \/ CreateRow(h) \/ CreateKey(h)
                \/ UpdateSelect(h) \/ UpdateField(h)
                \/ SoftDelete(h)
                \/ AddCheckStatus(h) \/ AddInsert(h)
                \/ RevokeCheckStatus(h) \/ RevokeCount(h) \/ RevokeSelect(h) \/ RevokeUpdate(h)

Next == \E h \in Handlers : Arrive(h) \/ Statement(h) \/ Abort(h)

Spec == Init /\ [][Next]_vars

-----------------------------------------------------------------------------
(* Correctness. *)

\* A deleted principal stays deleted and a revoked key stays revoked: no handler
\* that checked the status, or read the key, before the deletion or revocation
\* brings it back by finishing later (accounts.md "Row stays", auth.md key states).
NoRevival == [][
  /\ status = "deleted" => status' = "deleted"
  /\ \A k \in Keys : keys[k] = "revoked" => keys'[k] = "revoked"]_vars

\* A request that arrives after the deletion changes neither the profile nor the
\* keys: "Subsequent writes ... on a deleted account" are refused
\* (docs/design/accounts.md:163) and so are writes on a deleted user
\* (docs/design/users.md:139,160) - except that revoke_user_key has no such
\* check and revokes.  Requests under way at the deletion may finish.
FrozenAfterDelete == [][\A h \in Handlers : req[h].late /\ req'[h] # req[h] =>
  /\ profile' = profile
  /\ keys' = keys \/ (kind = "user" /\ RevokeUpdate(h))]_vars

\* A revocation by anyone but an operator takes the last active key only if
\* another revocation overtook it: a key it had counted as remaining was revoked
\* after the lockout check.
NoLoneLockout == [][\A h \in Handlers :
  (RevokeUpdate(h) /\ ~req[h].rescue /\ Active # {} /\ Active' = {})
    => \E k \in req[h].seen \ req[h].key : keys[k] = "revoked"]_vars
=============================================================================
