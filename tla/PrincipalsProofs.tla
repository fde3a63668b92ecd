-------------------------- MODULE PrincipalsProofs --------------------------
(***************************************************************************)
(* Proofs about Principals, for any handlers, keys, fields and values.     *)
(*                                                                         *)
(* No handler runs in a transaction, so what it has checked may be out of  *)
(* date when it writes.  PrincipalInv says what nevertheless stays true:   *)
(* the row and the keys only ever go forward, the key a request inserts is *)
(* its own and not there yet, a request that arrived after the deletion    *)
(* never gets past its status check, and a revocation that passed the      *)
(* lockout check has seen another key.                                     *)
(***************************************************************************)
EXTENDS Principals, FiniteSetTheorems, TLAPS

Inserting == {"c_row", "c_key", "a_status", "a_insert"}
Revoking == {"r_status", "r_count", "r_select", "r_update"}
Counted == {"r_count", "r_select", "r_update"}

\* What a request knows at its program counter.
Knows(r) ==
  /\ r.pc = "c_row" => status = "none"
  /\ r.pc \notin {"idle", "c_row"} => status # "none"
  /\ r.pc \in Inserting => \E k \in Keys : r.key = {k} /\ keys[k] = "none"
  /\ r.pc \in Revoking => \E k \in Keys : r.key = {k} /\ keys[k] # "none"
  /\ r.pc \in {"u_select", "u_field"} => \E v \in Values : r.val = {v}
  /\ r.pc \in {"r_select", "r_update"} =>
       /\ \A k \in r.seen : keys[k] # "none"
       /\ \/ r.rescue
          \/ \E k \in r.seen : k \notin r.key
          \/ r.pc = "r_select" /\ \A k \in r.key : keys[k] = "revoked"
  /\ r.late => /\ status = "deleted"
               /\ r.pc \in {"u_select", "d_update", "a_status"} \union Revoking
               /\ r.pc \in Counted => kind = "user"

\* Two requests neither create the row at once nor share a key one of them inserts.
Apart(r, s) ==
  /\ ~(r.pc = "c_row" /\ s.pc = "c_row")
  /\ r.pc \in Inserting \/ s.pc \in Inserting => r.key # s.key

Others(h) == Handlers \ {h}

\* The deletions done and under way are within the bound on them.
DeletionsBounded == deletedAt + Cardinality(Deleting) <= MaxDeletes

PrincipalInv ==
  /\ PrincipalTypeOK
  /\ \A k \in Keys : keys[k] # "none" => status # "none"
  /\ DeletionsBounded
  /\ \A h \in Handlers : Knows(req[h])
  /\ \A g, h \in Handlers : g # h => Apart(req[g], req[h])

-----------------------------------------------------------------------------
\* An idle handler is well typed and knows nothing.
LEMMA NoReqTyped == NoReq \in Requests /\ Knows(NoReq)
BY DEF NoReq, Requests, PCs, Knows, Inserting, Revoking, Counted

\* The initial states satisfy the invariant.
LEMMA PrincipalInitInv == Init => PrincipalInv
<1> SUFFICES ASSUME Init PROVE PrincipalInv
  OBVIOUS
<1>1. PrincipalTypeOK
  BY NoReqTyped, SizesAssumption DEF Init, PrincipalTypeOK
<1>2. Deleting = {}
  BY DEF Init, Deleting, NoReq
<1>3. DeletionsBounded
  BY <1>2, SizesAssumption, FS_EmptySet DEF Init, DeletionsBounded
<1>4. \A h \in Handlers : Knows(req[h])
  BY NoReqTyped DEF Init
<1>5. \A g, h \in Handlers : Apart(req[g], req[h])
  BY DEF Init, Apart, NoReq, Inserting
<1>6. \A k \in Keys : keys[k] # "none" => status # "none"
  BY DEF Init
<1> QED  BY <1>1, <1>3, <1>4, <1>5, <1>6 DEF PrincipalInv

\* How the number of deletions under way changes with one request.
LEMMA DeletingMove ==
  ASSUME req \in [Handlers -> Requests], NEW h \in Handlers, NEW t \in Requests,
         req' = [req EXCEPT ![h] = t]
  PROVE  /\ Cardinality(Deleting) \in Nat /\ Cardinality(Deleting)' \in Nat
         /\ Cardinality(Deleting)' = Cardinality(Deleting)
              + (IF t.pc = "d_update" THEN 1 ELSE 0) - (IF req[h].pc = "d_update" THEN 1 ELSE 0)
<1>1. IsFiniteSet(Deleting)
  BY HandlersAssumption, FS_Subset DEF Deleting
<1>2. Deleting' = IF t.pc = "d_update" THEN Deleting \union {h} ELSE Deleting \ {h}
  BY DEF Deleting
<1>3. h \in Deleting <=> req[h].pc = "d_update"
  BY DEF Deleting
<1>4. /\ Cardinality(Deleting \union {h}) = IF h \in Deleting THEN Cardinality(Deleting)
                                             ELSE Cardinality(Deleting) + 1
      /\ Cardinality(Deleting \ {h}) = IF h \in Deleting THEN Cardinality(Deleting) - 1
                                        ELSE Cardinality(Deleting)
  BY <1>1, FS_AddElement, FS_RemoveElement
<1>5. IsFiniteSet(Deleting')
  BY <1>1, <1>2, FS_AddElement, FS_RemoveElement
<1>6. Cardinality(Deleting) \in Nat /\ Cardinality(Deleting') \in Nat
  BY <1>1, <1>5, FS_CardinalityType
<1> QED  BY <1>2, <1>3, <1>4, <1>6

\* The arithmetic of the next lemma.
LEMMA Balance ==
  \A m, n, x, y, max \in Nat : \A a, b \in 0..1 :
    n + a <= m + b /\ y = x + a - b /\ m + x <= max => n + y <= max
OBVIOUS

\* The deletions done and under way do not grow in number unless one arrives.
LEMMA DeletingBound ==
  ASSUME req \in [Handlers -> Requests], NEW h \in Handlers, NEW t \in Requests,
         req' = [req EXCEPT ![h] = t], deletedAt \in Nat, deletedAt' \in Nat, DeletionsBounded,
         NEW a \in 0..1, a = (IF t.pc = "d_update" THEN 1 ELSE 0),
         NEW b \in 0..1, b = (IF req[h].pc = "d_update" THEN 1 ELSE 0),
         deletedAt' + a <= deletedAt + b
  PROVE  DeletionsBounded'
<1>1. PICK x \in Nat, y \in Nat : x = Cardinality(Deleting) /\ y = Cardinality(Deleting)'
  BY DeletingMove
<1>2. y = x + a - b
  BY <1>1, DeletingMove
<1>3. deletedAt + x <= MaxDeletes
  BY <1>1 DEF DeletionsBounded
<1>4. PICK m \in Nat, n \in Nat : m = deletedAt /\ n = deletedAt'
  OBVIOUS
<1>5. n + a <= m + b /\ m + x <= MaxDeletes
  BY <1>3, <1>4
<1>6. n + y <= MaxDeletes
  BY <1>2, <1>5, SizesAssumption, Balance
<1> QED  BY <1>1, <1>4, <1>6 DEF DeletionsBounded

\* So deleted_at stays within its bound too.
LEMMA DeletedInBound ==
  ASSUME req \in [Handlers -> Requests], NEW h \in Handlers, NEW t \in Requests,
         req' = [req EXCEPT ![h] = t], deletedAt' \in Nat, DeletionsBounded'
  PROVE  deletedAt' \in 0..MaxDeletes
<1>1. PICK y \in Nat, n \in Nat : y = Cardinality(Deleting)' /\ n = deletedAt'
  BY DeletingMove
<1>2. n + y <= MaxDeletes
  BY <1>1 DEF DeletionsBounded
<1>3. n \in 0..MaxDeletes
  BY <1>2, SizesAssumption
<1> QED  BY <1>1, <1>3

\* The row and the keys go forward: the row is inserted once and stays deleted, a
\* key is inserted once and stays revoked, each by the request that has it.
Forward(h) ==
  /\ kind' = kind
  /\ status = "deleted" => status' = "deleted"
  /\ status # "none" => status' # "none"
  /\ status = "none" /\ status' # "none" => req[h].pc = "c_row"
  /\ \A k \in Keys :
       /\ keys[k] = "revoked" => keys'[k] = "revoked"
       /\ keys[k] # "none" => keys'[k] # "none"
       /\ keys[k] = "none" /\ keys'[k] # "none" => req[h].pc \in Inserting /\ req[h].key = {k}

\* The other requests still know what they knew.
LEMMA OthersKnow ==
  ASSUME PrincipalInv, NEW h \in Handlers, Forward(h), NEW g \in Others(h)
  PROVE  Knows(req[g])'
         \/ req'[g] # req[g]
<1> SUFFICES ASSUME req'[g] = req[g] PROVE Knows(req[g])'
  OBVIOUS
<1>1. Knows(req[g]) /\ Apart(req[g], req[h]) /\ req[g] \in Requests
  BY DEF PrincipalInv, PrincipalTypeOK, Others
<1> DEFINE r == req[g]
<1>2. r.pc = "c_row" => status' = "none"
  BY <1>1 DEF Knows, Apart, Forward
<1>3. r.pc \in Inserting => \E k \in Keys : r.key = {k} /\ keys'[k] = "none"
  BY <1>1 DEF Knows, Apart, Forward
<1>4. /\ r.pc \notin {"idle", "c_row"} => status' # "none"
      /\ r.pc \in Revoking => \E k \in Keys : r.key = {k} /\ keys'[k] # "none"
      /\ r.late => /\ status' = "deleted"
                   /\ r.pc \in {"u_select", "d_update", "a_status"} \union Revoking
                   /\ r.pc \in Counted => kind' = "user"
  BY <1>1 DEF Knows, Forward
<1>5. r.seen \subseteq Keys /\ r.key \subseteq Keys
  BY <1>1 DEF Requests
<1>6. r.pc \in {"r_select", "r_update"} =>
        /\ \A k \in r.seen : keys'[k] # "none"
        /\ \/ r.rescue
           \/ \E k \in r.seen : k \notin r.key
           \/ r.pc = "r_select" /\ \A k \in r.key : keys'[k] = "revoked"
  BY <1>1, <1>5 DEF Knows, Forward
<1> QED  BY <1>1, <1>2, <1>3, <1>4, <1>6 DEF Knows

\* A step of one handler keeps the invariant if it moves the tables forward, and
\* its request knows what it must and is apart from the others.
LEMMA MoveStep ==
  ASSUME PrincipalInv, NEW h \in Handlers, NEW t \in Requests, req' = [req EXCEPT ![h] = t],
         Forward(h), status' \in {"none", "active", "deleted"}, profile' \in [Fields -> Values],
         keys' \in [Keys -> {"none", "active", "revoked"}], deletedAt' \in Nat,
         status' = "deleted" <=> deletedAt' # 0,
         DeletionsBounded',
         \A k \in Keys : keys'[k] # "none" => status' # "none",
         Knows(t)', \A g \in Others(h) : Apart(req[g], t)
  PROVE  PrincipalInv'
<1>1. req'[h] = t /\ (\A g \in Others(h) : req'[g] = req[g]) /\ req' \in [Handlers -> Requests]
  BY DEF PrincipalInv, PrincipalTypeOK, Others
<1>2. deletedAt' \in 0..MaxDeletes
  BY DeletedInBound DEF PrincipalInv, PrincipalTypeOK
<1>4. PrincipalTypeOK'
  BY <1>1, <1>2 DEF PrincipalInv, PrincipalTypeOK, Forward
<1>5. \A g \in Handlers : Knows(req[g])'
  <2>1. Knows(req[h])'
    BY <1>1 DEF Knows
  <2>2. \A g \in Others(h) : Knows(req[g])'
    BY <1>1, OthersKnow
  <2> QED  BY <2>1, <2>2 DEF Others
<1>6. \A f, g \in Handlers : f # g => Apart(req'[f], req'[g])
  <2> SUFFICES ASSUME NEW f \in Handlers, NEW g \in Handlers, f # g PROVE Apart(req'[f], req'[g])
    OBVIOUS
  <2>1. CASE f = h  BY <1>1, <2>1 DEF Others, Apart
  <2>2. CASE g = h  BY <1>1, <2>2 DEF Others
  <2>3. CASE f # h /\ g # h  BY <1>1, <2>3 DEF Others, PrincipalInv
  <2> QED  BY <2>1, <2>2, <2>3
<1> QED  BY <1>4, <1>5, <1>6 DEF PrincipalInv, Apart

\* A step that moves one request and no table, and brings no deletion under way.
LEMMA LocalStep ==
  ASSUME PrincipalInv, NEW h \in Handlers, NEW t \in Requests, req' = [req EXCEPT ![h] = t],
         UNCHANGED Rows, Knows(t), \A g \in Others(h) : Apart(req[g], t),
         t.pc # "d_update" \/ DeletionsBounded'
  PROVE  PrincipalInv'
<1>1. /\ kind' = kind /\ status' = status /\ profile' = profile /\ deletedAt' = deletedAt
      /\ keys' = keys
  BY DEF Rows
<1>2. req \in [Handlers -> Requests] /\ deletedAt \in Nat /\ DeletionsBounded
  BY SizesAssumption DEF PrincipalInv, PrincipalTypeOK
<1>3. DeletionsBounded'
  <2>1. SUFFICES ASSUME t.pc # "d_update" PROVE DeletionsBounded'
    OBVIOUS
  <2>2. PICK a \in 0..1, b \in 0..1 :
          /\ a = (IF t.pc = "d_update" THEN 1 ELSE 0)
          /\ b = (IF req[h].pc = "d_update" THEN 1 ELSE 0)
    OBVIOUS
  <2>3. PICK m \in Nat : m = deletedAt /\ m = deletedAt'
    BY <1>1, <1>2
  <2>4. m + a <= m + b
    BY <2>1, <2>2
  <2>5. deletedAt' + a <= deletedAt + b /\ deletedAt' \in Nat
    BY <2>3, <2>4
  <2> QED  BY <1>2, <2>2, <2>5, DeletingBound
<1>4. Forward(h)
  BY <1>1 DEF Forward
<1>5. Knows(t)'
  BY <1>1 DEF Knows
<1>6. /\ status' \in {"none", "active", "deleted"} /\ profile' \in [Fields -> Values]
      /\ keys' \in [Keys -> {"none", "active", "revoked"}] /\ deletedAt' \in Nat
      /\ status' = "deleted" <=> deletedAt' # 0
      /\ \A k \in Keys : keys'[k] # "none" => status' # "none"
  BY <1>1, <1>2 DEF PrincipalInv, PrincipalTypeOK
<1> QED  BY <1>3, <1>4, <1>5, <1>6, MoveStep

\* An idle handler is apart from every request.
LEMMA IdleApart ==
  ASSUME PrincipalInv, NEW h \in Handlers
  PROVE  \A g \in Others(h) : Apart(req[g], NoReq)
<1> SUFFICES ASSUME NEW g \in Others(h) PROVE Apart(req[g], NoReq)
  OBVIOUS
<1>1. Knows(req[g])
  BY DEF PrincipalInv, Others
<1>2. req[g].pc \in Inserting => req[g].key # {}
  BY <1>1 DEF Knows
<1> QED  BY <1>2 DEF Apart, NoReq, Inserting

\* A request that ends without a write.
LEMMA FinishStep ==
  ASSUME PrincipalInv, NEW h \in Handlers, Finish(h), UNCHANGED Rows
  PROVE  PrincipalInv'
<1>1. NoReq.pc # "d_update"
  BY DEF NoReq
<1> QED  BY <1>1, NoReqTyped, IdleApart, LocalStep DEF Finish

\* A request that goes on to its next statement, and to no insertion it was not
\* on the way to.
LEMMA GoStep ==
  ASSUME PrincipalInv, NEW h \in Handlers, NEW t \in Requests, req' = [req EXCEPT ![h] = t],
         UNCHANGED Rows, Knows(t), t.pc \notin {"d_update", "c_row"}, t.key = req[h].key,
         t.pc \in Inserting => req[h].pc \in Inserting
  PROVE  PrincipalInv'
<1>1. \A g \in Others(h) : Apart(req[g], t)
  BY DEF PrincipalInv, Apart, Others
<1> QED  BY <1>1, LocalStep

-----------------------------------------------------------------------------
\* A request that arrives: a key it inserts is new to the table and to the others.
LEMMA ArriveStep ==
  ASSUME PrincipalInv, NEW h \in Handlers, Arrive(h)
  PROVE  PrincipalInv'
<1> DEFINE T(p, who, key, todo, val) ==
      [pc |-> p, rescue |-> who = "rescue", key |-> key, todo |-> todo, val |-> val,
       seen |-> {}, late |-> status = "deleted"]
<1>1. ASSUME NEW g \in Others(h)
      PROVE  /\ Knows(req[g])
             /\ req[g].pc \in Inserting => \E k \in Keys : req[g].key = {k} /\ keys[k] = "none"
  BY DEF PrincipalInv, Others, Knows
<1>2. CASE CreateArrives(h)
  <2>1. PICK k \in Keys : /\ status = "none" /\ Fresh(k)
                          /\ \A g \in Handlers : req[g].pc # "c_row"
                          /\ Arrives(h, "c_row", "system", {k}, {}, {})
    BY <1>2 DEF CreateArrives
  <2> DEFINE t == T("c_row", "system", {k}, {}, {})
  <2>2. t \in Requests
    BY DEF Requests, PCs
  <2>3. req' = [req EXCEPT ![h] = t] /\ UNCHANGED Rows
    BY <2>1 DEF Arrives
  <2>4. Knows(t)
    BY <2>1 DEF Knows, Fresh, Inserting, Revoking, Counted
  <2>5. \A g \in Others(h) : Apart(req[g], t)
    BY <2>1 DEF Apart, Fresh, Others
  <2>6. t.pc # "d_update"
    OBVIOUS
  <2> HIDE DEF t
  <2> QED  BY <2>2, <2>3, <2>4, <2>5, <2>6, LocalStep
<1>3. CASE UpdateArrives(h)
  <2>1. PICK who \in {"self", "system"}, m \in SUBSET Fields, v \in Values :
          status # "none" /\ Arrives(h, "u_select", who, {}, m, {v})
    BY <1>3 DEF UpdateArrives
  <2> DEFINE t == T("u_select", who, {}, m, {v})
  <2>2. t \in Requests
    BY DEF Requests, PCs
  <2>3. req' = [req EXCEPT ![h] = t] /\ UNCHANGED Rows
    BY <2>1 DEF Arrives
  <2>4. Knows(t)
    BY <2>1 DEF Knows, Inserting, Revoking, Counted
  <2>5. \A g \in Others(h) : Apart(req[g], t)
    BY <1>1 DEF Apart, Inserting
  <2>6. t.pc # "d_update"
    OBVIOUS
  <2> HIDE DEF t
  <2> QED  BY <2>2, <2>3, <2>4, <2>5, <2>6, LocalStep
<1>4. CASE DeleteArrives(h)
  <2>1. PICK who \in {"self", "system"} :
          /\ status # "none" /\ deletedAt + Cardinality(Deleting) < MaxDeletes
          /\ Arrives(h, "d_update", who, {}, {}, {})
    BY <1>4 DEF DeleteArrives
  <2> DEFINE t == T("d_update", who, {}, {}, {})
  <2>2. t \in Requests /\ t.pc = "d_update"
    BY DEF Requests, PCs
  <2>3. req' = [req EXCEPT ![h] = t] /\ UNCHANGED Rows /\ req[h].pc = "idle"
    BY <2>1 DEF Arrives
  <2>4. Knows(t)
    BY <2>1 DEF Knows, Inserting, Revoking, Counted
  <2>5. \A g \in Others(h) : Apart(req[g], t)
    BY <1>1 DEF Apart, Inserting
  <2> HIDE DEF t
  <2>6. DeletionsBounded'
    <3>1. req \in [Handlers -> Requests] /\ deletedAt \in Nat /\ deletedAt' = deletedAt
      BY <2>3, SizesAssumption DEF PrincipalInv, PrincipalTypeOK, Rows
    <3>2. PICK x \in Nat, y \in Nat, m \in Nat :
            x = Cardinality(Deleting) /\ y = Cardinality(Deleting)' /\ m = deletedAt
      BY <2>2, <2>3, <3>1, DeletingMove
    <3>3. y = x + 1
      <4>1. y = x + (IF t.pc = "d_update" THEN 1 ELSE 0) - (IF req[h].pc = "d_update" THEN 1 ELSE 0)
        BY <2>2, <2>3, <3>1, <3>2, DeletingMove
      <4>2. y = x + 1 - 0
        BY <2>2, <2>3, <4>1
      <4> QED  BY <4>2
    <3>4. m + x < MaxDeletes
      BY <2>1, <3>2
    <3>5. m + y <= MaxDeletes
      BY <3>3, <3>4, SizesAssumption
    <3> QED  BY <3>1, <3>2, <3>5 DEF DeletionsBounded
  <2> QED  BY <2>2, <2>3, <2>4, <2>5, <2>6, LocalStep
<1>5. CASE AddArrives(h)
  <2>1. PICK who \in {"self", "system"}, k \in Keys :
          status # "none" /\ Fresh(k) /\ Arrives(h, "a_status", who, {k}, {}, {})
    BY <1>5 DEF AddArrives
  <2> DEFINE t == T("a_status", who, {k}, {}, {})
  <2>2. t \in Requests
    BY DEF Requests, PCs
  <2>3. req' = [req EXCEPT ![h] = t] /\ UNCHANGED Rows
    BY <2>1 DEF Arrives
  <2>4. Knows(t)
    BY <2>1 DEF Knows, Fresh, Inserting, Revoking, Counted
  <2>5. \A g \in Others(h) : Apart(req[g], t)
    BY <2>1 DEF Apart, Fresh, Others
  <2>6. t.pc # "d_update"
    OBVIOUS
  <2> HIDE DEF t
  <2> QED  BY <2>2, <2>3, <2>4, <2>5, <2>6, LocalStep
<1>6. CASE RevokeArrives(h)
  <2>1. PICK who \in Subjects, k \in Keys :
          /\ keys[k] # "none"
          /\ Arrives(h, IF kind = "account" THEN "r_status" ELSE "r_count", who, {k}, {}, {})
    BY <1>6 DEF RevokeArrives
  <2> DEFINE p == IF kind = "account" THEN "r_status" ELSE "r_count"
             t == T(p, who, {k}, {}, {})
  <2>2. p \in {"r_status", "r_count"} /\ (p = "r_count" => kind = "user")
    BY DEF PrincipalInv, PrincipalTypeOK
  <2> HIDE DEF p
  <2>3. t \in Requests
    BY <2>2 DEF Requests, PCs
  <2>4. req' = [req EXCEPT ![h] = t] /\ UNCHANGED Rows
    BY <2>1 DEF Arrives, p
  <2>5. status # "none"
    BY <2>1 DEF PrincipalInv
  <2>6. Knows(t)
    BY <2>1, <2>2, <2>5 DEF Knows, Inserting, Revoking, Counted
  <2>7. \A g \in Others(h) : Apart(req[g], t)
    BY <1>1, <2>1, <2>2 DEF Apart, Inserting
  <2>8. t.pc # "d_update"
    BY <2>2
  <2> HIDE DEF t
  <2> QED  BY <2>3, <2>4, <2>6, <2>7, <2>8, LocalStep
<1> QED  BY <1>2, <1>3, <1>4, <1>5, <1>6 DEF Arrive

-----------------------------------------------------------------------------
\* The statements that only read.
LEMMA ReadingSteps ==
  ASSUME PrincipalInv, NEW h \in Handlers,
         \/ UpdateSelect(h) \/ AddCheckStatus(h) \/ RevokeCheckStatus(h) \/ RevokeCount(h)
         \/ RevokeSelect(h) \/ Abort(h)
  PROVE  PrincipalInv'
<1>0. req[h] \in Requests /\ Knows(req[h])
  BY DEF PrincipalInv, PrincipalTypeOK
<1>1. CASE UNCHANGED Rows /\ Finish(h)
  BY <1>1, FinishStep
<1>2. ASSUME NEW p \in PCs, Go(h, p), UNCHANGED Rows, p \notin {"d_update", "c_row"},
             p \in Inserting => req[h].pc \in Inserting, Knows([req[h] EXCEPT !.pc = p])
      PROVE  PrincipalInv'
  <2> DEFINE t == [req[h] EXCEPT !.pc = p]
  <2>1. t \in Requests /\ t.pc = p /\ t.key = req[h].key
    BY <1>0 DEF Requests
  <2>2. req' = [req EXCEPT ![h] = t]
    BY <1>2 DEF Go
  <2>3. Knows(t)
    BY <1>2
  <2> HIDE DEF t
  <2> QED  BY <1>2, <2>1, <2>2, <2>3, GoStep
<1>3. CASE UpdateSelect(h) /\ status # "deleted"
  <2>1. Knows([req[h] EXCEPT !.pc = "u_field"])
    BY <1>0, <1>3 DEF UpdateSelect, Knows, Requests, Inserting, Revoking, Counted
  <2> QED  BY <1>2, <1>3, <2>1 DEF UpdateSelect, PCs, Inserting
<1>4. CASE AddCheckStatus(h) /\ status # "deleted"
  <2>1. Knows([req[h] EXCEPT !.pc = "a_insert"])
    BY <1>0, <1>4 DEF AddCheckStatus, Knows, Requests, Inserting, Revoking, Counted
  <2> QED  BY <1>2, <1>4, <2>1 DEF AddCheckStatus, PCs, Inserting
<1>5. CASE RevokeCheckStatus(h) /\ status # "deleted"
  <2>1. Knows([req[h] EXCEPT !.pc = "r_count"])
    BY <1>0, <1>5 DEF RevokeCheckStatus, Knows, Requests, Inserting, Revoking, Counted
  <2> QED  BY <1>2, <1>5, <2>1 DEF RevokeCheckStatus, PCs, Inserting
<1>6. CASE RevokeCount(h) /\ ~Finish(h)
  <2> DEFINE t == [req[h] EXCEPT !.pc = "r_select", !.seen = Active]
  <2>1. /\ req[h].pc = "r_count" /\ req' = [req EXCEPT ![h] = t] /\ UNCHANGED Rows
        /\ ~(req[h].key \subseteq Active /\ Cardinality(Active) = 1 /\ ~req[h].rescue)
    BY <1>6 DEF RevokeCount
  <2>2. /\ t \in Requests /\ t.pc = "r_select" /\ t.key = req[h].key /\ t.seen = Active
        /\ t.rescue = req[h].rescue /\ t.late = req[h].late
    BY <1>0 DEF Requests, PCs, Active
  <2>3. PICK k \in Keys : req[h].key = {k} /\ keys[k] # "none"
    BY <1>0, <2>1 DEF Knows, Revoking
  <2>4. \A j \in Active : keys[j] # "none"
    BY DEF Active
  <2>5. t.rescue \/ (\E j \in Active : j \notin {k}) \/ keys[k] = "revoked"
    <3> SUFFICES ASSUME ~req[h].rescue, keys[k] # "revoked" PROVE \E j \in Active : j \notin {k}
      BY <2>2
    <3>1. k \in Active
      BY <2>3 DEF PrincipalInv, PrincipalTypeOK, Active
    <3>2. Active # {k}
      BY <2>1, <2>3, <3>1, FS_Singleton
    <3> QED  BY <3>1, <3>2
  <2> HIDE DEF t
  <2>6. Knows(t)
    BY <1>0, <2>1, <2>2, <2>3, <2>4, <2>5 DEF Knows, Inserting, Revoking, Counted
  <2> QED  BY <2>1, <2>2, <2>6, GoStep DEF Inserting
<1>7. CASE RevokeSelect(h) /\ req[h].key \subseteq Active
  <2>1. PICK k \in Keys : req[h].key = {k} /\ keys[k] = "active"
    BY <1>0, <1>7 DEF RevokeSelect, Knows, Revoking, Active
  <2>2. Knows([req[h] EXCEPT !.pc = "r_update"])
    BY <1>0, <1>7, <2>1 DEF RevokeSelect, Knows, Requests, Inserting, Revoking, Counted
  <2> QED  BY <1>2, <1>7, <2>2 DEF RevokeSelect, PCs, Inserting
<1> QED
  BY <1>1, <1>3, <1>4, <1>5, <1>6, <1>7
  DEF UpdateSelect, AddCheckStatus, RevokeCheckStatus, RevokeCount, RevokeSelect, Abort

\* A write that ends its request, and neither deletes nor inserts the row.
LEMMA FinishingWrite ==
  ASSUME PrincipalInv, NEW h \in Handlers, Finish(h), Forward(h),
         profile' \in [Fields -> Values], keys' \in [Keys -> {"none", "active", "revoked"}],
         status' = status, deletedAt' = deletedAt, status # "none"
  PROVE  PrincipalInv'
<1>1. req \in [Handlers -> Requests] /\ deletedAt \in Nat /\ DeletionsBounded
  BY SizesAssumption DEF PrincipalInv, PrincipalTypeOK
<1>2. PICK a \in 0..1, b \in 0..1 :
        /\ a = (IF NoReq.pc = "d_update" THEN 1 ELSE 0)
        /\ b = (IF req[h].pc = "d_update" THEN 1 ELSE 0)
  OBVIOUS
<1>3. PICK m \in Nat : m = deletedAt /\ m = deletedAt'
  BY <1>1
<1>4. m + a <= m + b
  BY <1>2 DEF NoReq
<1>5. deletedAt' + a <= deletedAt + b /\ deletedAt' \in Nat
  BY <1>3, <1>4
<1>6. DeletionsBounded'
  BY <1>1, <1>2, <1>5, NoReqTyped, DeletingBound DEF Finish
<1>7. Knows(NoReq)'
  BY DEF Knows, NoReq, Inserting, Revoking, Counted
<1>8. /\ status' \in {"none", "active", "deleted"} /\ status' # "none"
      /\ status' = "deleted" <=> deletedAt' # 0
  BY DEF PrincipalInv, PrincipalTypeOK
<1> QED  BY <1>5, <1>6, <1>7, <1>8, NoReqTyped, IdleApart, MoveStep DEF Finish

\* The insert of the row, before which there is none.
LEMMA CreateRowStep ==
  ASSUME PrincipalInv, NEW h \in Handlers, CreateRow(h)
  PROVE  PrincipalInv'
<1>0. /\ req[h] \in Requests /\ Knows(req[h]) /\ req \in [Handlers -> Requests]
      /\ deletedAt \in Nat /\ DeletionsBounded
  BY SizesAssumption DEF PrincipalInv, PrincipalTypeOK
<1>1. /\ req[h].pc = "c_row" /\ status = "none" /\ status' = "active" /\ ~req[h].late
      /\ kind' = kind /\ profile' = profile /\ deletedAt' = deletedAt /\ keys' = keys
  BY <1>0 DEF CreateRow, Knows, Revoking
<1>2. PICK t \in Requests : t = [req[h] EXCEPT !.pc = "c_key"]
  BY <1>0 DEF Requests, PCs
<1>3. /\ req' = [req EXCEPT ![h] = t]
      /\ t.pc = "c_key" /\ t.key = req[h].key /\ t.late = req[h].late
  BY <1>0, <1>2 DEF CreateRow, Go, Requests
<1>4. Forward(h)
  BY <1>1 DEF Forward
<1>5. Knows(t)'
  BY <1>0, <1>1, <1>3 DEF Knows, Inserting, Revoking, Counted
<1>6. \A g \in Others(h) : Apart(req[g], t)
  BY <1>1, <1>3 DEF PrincipalInv, Apart, Others, Inserting
<1>7. PICK a \in 0..1, b \in 0..1 :
        /\ a = (IF t.pc = "d_update" THEN 1 ELSE 0)
        /\ b = (IF req[h].pc = "d_update" THEN 1 ELSE 0)
  OBVIOUS
<1>8. PICK m \in Nat : m = deletedAt /\ m = deletedAt'
  BY <1>0, <1>1
<1>9. m + a <= m + b
  BY <1>3, <1>7
<1>10. deletedAt' + a <= deletedAt + b /\ deletedAt' \in Nat
  BY <1>8, <1>9
<1>11. DeletionsBounded'
  BY <1>0, <1>3, <1>7, <1>10, DeletingBound
<1>12. /\ status' = "deleted" <=> deletedAt' # 0
       /\ status' \in {"none", "active", "deleted"} /\ profile' \in [Fields -> Values]
       /\ keys' \in [Keys -> {"none", "active", "revoked"}]
       /\ \A k \in Keys : keys'[k] # "none" => status' # "none"
  BY <1>1 DEF PrincipalInv, PrincipalTypeOK
<1> QED  BY <1>3, <1>4, <1>5, <1>6, <1>10, <1>11, <1>12, MoveStep

\* The insert of a key, before which there is none.
LEMMA InsertKeyStep ==
  ASSUME PrincipalInv, NEW h \in Handlers, CreateKey(h) \/ AddInsert(h)
  PROVE  PrincipalInv'
<1>1. /\ req[h].pc \in {"c_key", "a_insert"} /\ Finish(h)
      /\ kind' = kind /\ status' = status /\ profile' = profile /\ deletedAt' = deletedAt
      /\ keys' = [k \in Keys |-> IF k \in req[h].key THEN "active" ELSE keys[k]]
  BY DEF CreateKey, AddInsert, InsertKey
<1>2. PICK k \in Keys : req[h].key = {k} /\ keys[k] = "none"
  BY <1>1 DEF PrincipalInv, Knows, Inserting
<1>3. status # "none"
  BY <1>1 DEF PrincipalInv, Knows
<1>4. Forward(h)
  BY <1>1, <1>2 DEF Forward, Inserting
<1>5. profile' \in [Fields -> Values] /\ keys' \in [Keys -> {"none", "active", "revoked"}]
  BY <1>1 DEF PrincipalInv, PrincipalTypeOK
<1> QED  BY <1>1, <1>3, <1>4, <1>5, FinishingWrite

\* The revocation of a key that is there.
LEMMA RevokeUpdateStep ==
  ASSUME PrincipalInv, NEW h \in Handlers, RevokeUpdate(h)
  PROVE  PrincipalInv'
<1>1. /\ req[h].pc = "r_update" /\ Finish(h)
      /\ kind' = kind /\ status' = status /\ profile' = profile /\ deletedAt' = deletedAt
      /\ keys' = [k \in Keys |-> IF k \in req[h].key THEN "revoked" ELSE keys[k]]
  BY DEF RevokeUpdate
<1>2. PICK k \in Keys : req[h].key = {k} /\ keys[k] # "none"
  BY <1>1 DEF PrincipalInv, Knows, Revoking
<1>3. status # "none"
  BY <1>1 DEF PrincipalInv, Knows
<1>4. Forward(h)
  BY <1>1, <1>2 DEF Forward
<1>5. profile' \in [Fields -> Values] /\ keys' \in [Keys -> {"none", "active", "revoked"}]
  BY <1>1 DEF PrincipalInv, PrincipalTypeOK
<1> QED  BY <1>1, <1>3, <1>4, <1>5, FinishingWrite

\* The update of a profile field.
LEMMA UpdateFieldStep ==
  ASSUME PrincipalInv, NEW h \in Handlers, UpdateField(h)
  PROVE  PrincipalInv'
<1> DEFINE f == CHOOSE g \in req[h].todo : \A i \in req[h].todo : g <= i
           v == CHOOSE w \in Values : req[h].val = {w}
<1>1. /\ req[h].pc = "u_field" /\ profile' = [profile EXCEPT ![f] = v]
      /\ kind' = kind /\ status' = status /\ deletedAt' = deletedAt /\ keys' = keys
      /\ Finish(h) \/ req' = [req EXCEPT ![h].todo = @ \ {f}]
  BY DEF UpdateField
<1>2. req[h] \in Requests /\ Knows(req[h]) /\ profile \in [Fields -> Values]
      /\ req \in [Handlers -> Requests] /\ keys \in [Keys -> {"none", "active", "revoked"}]
      /\ deletedAt \in Nat /\ DeletionsBounded
  BY SizesAssumption DEF PrincipalInv, PrincipalTypeOK
<1>3. v \in Values
  BY <1>1, <1>2 DEF Knows
<1>4. profile' \in [Fields -> Values] /\ status # "none"
  BY <1>1, <1>2, <1>3 DEF Knows
<1>5. Forward(h)
  BY <1>1 DEF Forward
<1>6. CASE Finish(h)
  BY <1>1, <1>2, <1>4, <1>5, <1>6, FinishingWrite
<1>7. CASE req' = [req EXCEPT ![h].todo = @ \ {f}]
  <2> HIDE DEF f, v
  <2>1. PICK t \in Requests : t = [req[h] EXCEPT !.todo = req[h].todo \ {f}]
    BY <1>2 DEF Requests
  <2>2. /\ req' = [req EXCEPT ![h] = t]
        /\ t.pc = "u_field" /\ t.key = req[h].key /\ t.val = req[h].val /\ t.late = req[h].late
    BY <1>1, <1>2, <1>7, <2>1 DEF Requests
  <2>3. Knows(t)'
    BY <1>1, <1>2, <2>2 DEF Knows, Inserting, Revoking, Counted
  <2>4. \A g \in Others(h) : Apart(req[g], t)
    BY <1>1, <2>2 DEF PrincipalInv, Apart, Others, Inserting
  <2>5. PICK a \in 0..1, b \in 0..1 :
          /\ a = (IF t.pc = "d_update" THEN 1 ELSE 0)
          /\ b = (IF req[h].pc = "d_update" THEN 1 ELSE 0)
    OBVIOUS
  <2>6. PICK m \in Nat : m = deletedAt /\ m = deletedAt'
    BY <1>1, <1>2
  <2>7. m + a <= m + b
    BY <2>2, <2>5
  <2>8. deletedAt' + a <= deletedAt + b /\ deletedAt' \in Nat
    BY <2>6, <2>7
  <2>9. DeletionsBounded'
    BY <1>2, <2>2, <2>5, <2>8, DeletingBound
  <2>10. /\ status' = "deleted" <=> deletedAt' # 0
         /\ status' \in {"none", "active", "deleted"}
         /\ keys' \in [Keys -> {"none", "active", "revoked"}]
         /\ \A k \in Keys : keys'[k] # "none" => status' # "none"
    BY <1>1 DEF PrincipalInv, PrincipalTypeOK
  <2> QED  BY <1>4, <1>5, <2>2, <2>3, <2>4, <2>8, <2>9, <2>10, MoveStep
<1> QED  BY <1>1, <1>6, <1>7

\* The deletion: one more is done, one less under way.
LEMMA SoftDeleteStep ==
  ASSUME PrincipalInv, NEW h \in Handlers, SoftDelete(h)
  PROVE  PrincipalInv'
<1>1. /\ req[h].pc = "d_update" /\ Finish(h) /\ status' = "deleted" /\ deletedAt' = deletedAt + 1
      /\ kind' = kind /\ profile' = profile /\ keys' = keys
  BY DEF SoftDelete
<1>2. /\ req \in [Handlers -> Requests] /\ deletedAt \in Nat /\ DeletionsBounded
      /\ status # "none"
  BY <1>1, SizesAssumption DEF PrincipalInv, PrincipalTypeOK, Knows
<1>3. PICK a \in 0..1, b \in 0..1 :
        /\ a = (IF NoReq.pc = "d_update" THEN 1 ELSE 0)
        /\ b = (IF req[h].pc = "d_update" THEN 1 ELSE 0)
  OBVIOUS
<1>4. a = 0 /\ b = 1
  BY <1>1, <1>3 DEF NoReq
<1>5. PICK m \in Nat : m = deletedAt /\ deletedAt' = m + 1
  BY <1>1, <1>2
<1>6. (m + 1) + a <= m + b /\ m + 1 \in Nat /\ m + 1 # 0
  BY <1>4
<1>7. deletedAt' + a <= deletedAt + b /\ deletedAt' \in Nat /\ deletedAt' # 0
  BY <1>5, <1>6
<1>8. DeletionsBounded'
  BY <1>1, <1>2, <1>3, <1>7, NoReqTyped, DeletingBound DEF Finish
<1>9. Forward(h)
  BY <1>1, <1>2 DEF Forward
<1>10. Knows(NoReq)'
  BY DEF Knows, NoReq, Inserting, Revoking, Counted
<1>11. /\ profile' \in [Fields -> Values] /\ keys' \in [Keys -> {"none", "active", "revoked"}]
       /\ status' \in {"none", "active", "deleted"} /\ status' # "none"
       /\ status' = "deleted" <=> deletedAt' # 0
  BY <1>1, <1>7 DEF PrincipalInv, PrincipalTypeOK
<1> QED  BY <1>1, <1>7, <1>8, <1>9, <1>10, <1>11, NoReqTyped, IdleApart, MoveStep DEF Finish

\* Every step keeps the invariant.
LEMMA PrincipalNextInv == PrincipalInv /\ [Next]_vars => PrincipalInv'
<1> SUFFICES ASSUME PrincipalInv, [Next]_vars PROVE PrincipalInv'
  OBVIOUS
<1>1. CASE UNCHANGED vars
  BY <1>1 DEF vars, PrincipalInv, PrincipalTypeOK, DeletionsBounded, Deleting, Knows, Apart
<1>2. ASSUME NEW h \in Handlers, Arrive(h) \/ Statement(h) \/ Abort(h)
      PROVE  PrincipalInv'
  BY <1>2, ArriveStep, ReadingSteps, CreateRowStep, InsertKeyStep, UpdateFieldStep,
     SoftDeleteStep, RevokeUpdateStep DEF Statement
<1> QED  BY <1>1, <1>2 DEF Next

\* The invariant holds in every behaviour.
LEMMA PrincipalInvariance == Spec => []PrincipalInv
BY PrincipalInitInv, PrincipalNextInv, PTL DEF Spec

-----------------------------------------------------------------------------
\* The row and the keys are well typed, and deleted_at is set iff the row is deleted.
THEOREM PrincipalTypeCorrect == Spec => []PrincipalTypeOK
<1>1. PrincipalInv => PrincipalTypeOK
  BY DEF PrincipalInv
<1> QED  BY <1>1, PrincipalInvariance, PTL

\* What is deleted or revoked stays so, whatever was checked before.
THEOREM NoRevivalCorrect == Spec => NoRevival
<1> DEFINE Good == /\ status = "deleted" => status' = "deleted"
                   /\ \A k \in Keys : keys[k] = "revoked" => keys'[k] = "revoked"
<1>1. ASSUME PrincipalInv, NEW h \in Handlers, Arrive(h) \/ Statement(h) \/ Abort(h) PROVE Good
  <2>1. CASE UNCHANGED <<status, keys>>
    BY <2>1
  <2>2. CASE CreateRow(h)
    BY <1>1, <2>2 DEF CreateRow, PrincipalInv, Knows
  <2>3. CASE CreateKey(h) \/ AddInsert(h)
    <3>1. PICK k \in Keys : req[h].key = {k} /\ keys[k] = "none"
      BY <1>1, <2>3 DEF CreateKey, AddInsert, InsertKey, PrincipalInv, Knows, Inserting
    <3> QED  BY <2>3, <3>1 DEF CreateKey, AddInsert, InsertKey
  <2>4. CASE SoftDelete(h)
    BY <2>4 DEF SoftDelete
  <2>5. CASE RevokeUpdate(h)
    BY <2>5 DEF RevokeUpdate
  <2> QED
    BY <1>1, <2>1, <2>2, <2>3, <2>4, <2>5
    DEF Arrive, Statement, Abort, CreateArrives, UpdateArrives, DeleteArrives, AddArrives,
        RevokeArrives, Arrives, UpdateSelect, UpdateField, AddCheckStatus, RevokeCheckStatus,
        RevokeCount, RevokeSelect, Rows
<1>2. PrincipalInv /\ [Next]_vars => [Good]_vars
  BY <1>1 DEF Next
<1> QED  BY <1>2, PrincipalInvariance, PTL DEF Spec, NoRevival

\* Only the handler that takes a step has its request changed.
LEMMA OwnStep ==
  ASSUME PrincipalInv, NEW g \in Handlers, Arrive(g) \/ Statement(g) \/ Abort(g),
         NEW h \in Handlers, req'[h] # req[h]
  PROVE  g = h
<1>1. \E t : req' = [req EXCEPT ![g] = t]
  BY DEF Arrive, Statement, Abort, CreateArrives, UpdateArrives, DeleteArrives, AddArrives,
         RevokeArrives, Arrives, CreateRow, CreateKey, AddInsert, InsertKey, UpdateSelect,
         UpdateField, SoftDelete, AddCheckStatus, RevokeCheckStatus, RevokeCount, RevokeSelect,
         RevokeUpdate, Go, Finish
<1> QED  BY <1>1 DEF PrincipalInv, PrincipalTypeOK

\* A request that arrives after the deletion changes nothing, but for the
\* revocation of a user's key.
THEOREM FrozenAfterDeleteCorrect == Spec => FrozenAfterDelete
<1> DEFINE Good == \A h \in Handlers : req[h].late /\ req'[h] # req[h] =>
      /\ profile' = profile
      /\ keys' = keys \/ (kind = "user" /\ RevokeUpdate(h))
<1>1. ASSUME PrincipalInv, NEW g \in Handlers, Arrive(g) \/ Statement(g) \/ Abort(g) PROVE Good
  <2> SUFFICES ASSUME NEW h \in Handlers, req[h].late, req'[h] # req[h]
               PROVE  /\ profile' = profile
                      /\ keys' = keys \/ (kind = "user" /\ RevokeUpdate(h))
    OBVIOUS
  <2>1. g = h
    BY <1>1, OwnStep
  <2>2. /\ req[h].pc \in {"u_select", "d_update", "a_status"} \union Revoking
        /\ req[h].pc \in Counted => kind = "user"
    BY <1>1 DEF PrincipalInv, Knows
  <2>3. CASE RevokeUpdate(h)
    BY <2>2, <2>3 DEF RevokeUpdate, Counted
  <2>4. CASE ~RevokeUpdate(h)
    BY <1>1, <2>1, <2>2, <2>4
    DEF Arrive, Statement, Abort, CreateArrives, UpdateArrives, DeleteArrives, AddArrives,
        RevokeArrives, Arrives, CreateRow, CreateKey, AddInsert, InsertKey, UpdateSelect,
        UpdateField, SoftDelete, AddCheckStatus, RevokeCheckStatus, RevokeCount, RevokeSelect,
        Rows, Revoking
  <2> QED  BY <2>3, <2>4
<1>2. PrincipalInv /\ [Next]_vars => [Good]_vars
  BY <1>1 DEF Next
<1> QED  BY <1>2, PrincipalInvariance, PTL DEF Spec, FrozenAfterDelete

\* The last active key is lost only to a race: the revocation that takes it had
\* counted another key, which another revocation has taken since.
THEOREM NoLoneLockoutCorrect == Spec => NoLoneLockout
<1> DEFINE Good == \A h \in Handlers :
      (RevokeUpdate(h) /\ ~req[h].rescue /\ Active # {} /\ Active' = {})
        => \E k \in req[h].seen \ req[h].key : keys[k] = "revoked"
<1>1. ASSUME PrincipalInv PROVE Good
  <2> SUFFICES ASSUME NEW h \in Handlers, RevokeUpdate(h), ~req[h].rescue, Active' = {}
               PROVE  \E k \in req[h].seen \ req[h].key : keys[k] = "revoked"
    OBVIOUS
  <2>1. req[h].pc = "r_update" /\ Knows(req[h]) /\ req[h] \in Requests
    BY <1>1 DEF RevokeUpdate, PrincipalInv, PrincipalTypeOK
  <2>2. PICK k \in req[h].seen : k \notin req[h].key
    BY <2>1 DEF Knows
  <2>3. k \in Keys /\ keys[k] # "none" /\ keys[k] \in {"none", "active", "revoked"}
    BY <1>1, <2>1 DEF Knows, Requests, PrincipalInv, PrincipalTypeOK
  <2>4. keys'[k] = keys[k] /\ keys'[k] # "active"
    BY <2>2, <2>3 DEF RevokeUpdate, Active
  <2> QED  BY <2>2, <2>3, <2>4
<1>2. PrincipalInv /\ [Next]_vars => [Good]_vars
  BY <1>1
<1> QED  BY <1>2, PrincipalInvariance, PTL DEF Spec, NoLoneLockout
=============================================================================
