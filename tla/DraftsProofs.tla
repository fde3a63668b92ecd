---------------------------- MODULE DraftsProofs ----------------------------
(***************************************************************************)
(* Proofs about Drafts, for any ids, handlers and texts.                   *)
(*                                                                         *)
(* What a request will write was decided by statements that took no lock,  *)
(* so DraftsInv adds what each program counter still knows: a create has   *)
(* an id that is nobody else's and has no row, any other request names an  *)
(* id that was acknowledged, and past the row lock the draft is there, as  *)
(* the request read it, and no one else holds the lock.                    *)
(***************************************************************************)
EXTENDS Drafts, TLAPS

Creating == {"c_account", "c_insert"}
Updating == {"u_get", "u_select", "u_update", "u_commit"}
Locking == {"u_commit", "p_commit"}

\* What a request knows at its program counter.
Knows(t) ==
  /\ t.pc # "idle" => t.id \in Ids
  /\ t.pc \in Creating => acked[t.id] = NoRow /\ t.row \in Rows
  /\ t.pc \notin Creating \union {"idle"} => acked[t.id] # NoRow
  /\ t.pc \in Updating => t.mask \in Masks
  /\ t.pc \in Locking => HasDraft(t.id)
  /\ t.pc = "p_commit" => t.row = drafts[t.id]
  /\ t.late => account = "deleted" /\ t.pc \in {"c_account", "p_get", "p_account"}

\* What two requests may not have at once: an id that one of them is creating,
\* or the lock of one draft.
Apart(s, t) ==
  /\ s.pc \in Creating \/ t.pc \in Creating => s.id # t.id
  /\ s.pc \in Locking /\ t.pc \in Locking => s.id # t.id

\* An id that was never acknowledged has left no trace.
Unused(d) == acked[d] = NoRow => drafts[d] = NoRow /\ articles[d] = NoRow /\ ends[d] = 0

DraftsInv ==
  /\ DraftsTypeOK
  /\ OneEnd /\ NoLostUpdate
  /\ \A d \in Ids : Unused(d)
  /\ \A h \in Handlers : Knows(tx[h])
  /\ \A g, h \in Handlers : g # h => Apart(tx[g], tx[h])

-----------------------------------------------------------------------------
\* No row has the text "none", so a row is never NoRow.
LEMMA NoRowIsNone == NoRow \notin Rows
BY TextsAssumption DEF NoRow, Rows

\* A masked update of a row is a row.
LEMMA ApplyType ==
  ASSUME NEW row \in Rows, NEW mask \in Masks
  PROVE  Apply(row, mask) \in Rows
<1>1. row \in [title : Texts, content : Texts]
  BY DEF Rows
<1>2. mask \in [title : Texts \union {"keep"}, content : Texts \union {"keep"}]
  BY DEF Masks
<1>3. /\ (IF mask["title"] = "keep" THEN row["title"] ELSE mask["title"]) \in Texts
      /\ (IF mask["content"] = "keep" THEN row["content"] ELSE mask["content"]) \in Texts
  BY <1>1, <1>2
<1>4. Apply(row, mask) = [title |-> IF mask["title"] = "keep" THEN row["title"] ELSE mask["title"],
                          content |-> IF mask["content"] = "keep" THEN row["content"] ELSE mask["content"]]
  BY DEF Apply
<1> QED  BY <1>3, <1>4 DEF Rows

\* An idle handler is well typed.
LEMMA IdleTyped == IdleTx \in TxRecords
BY DEF IdleTx, TxRecords, PCs

\* The initial states satisfy the invariant.
LEMMA DraftsInitInv == Init => DraftsInv
<1> SUFFICES ASSUME Init PROVE DraftsInv
  OBVIOUS
<1>1. DraftsTypeOK
  BY IdleTyped DEF Init, DraftsTypeOK
<1>2. OneEnd /\ NoLostUpdate /\ \A d \in Ids : Unused(d)
  BY DEF Init, OneEnd, NoLostUpdate, Unused, HasDraft, HasArticle
<1>3. \A h \in Handlers : Knows(tx[h])
  BY DEF Init, Knows, IdleTx, Creating, Updating, Locking
<1>4. \A g, h \in Handlers : Apart(tx[g], tx[h])
  BY DEF Init, Apart, IdleTx, Creating, Locking
<1> QED  BY <1>1, <1>2, <1>3, <1>4 DEF DraftsInv

\* A step that changes one request and no table keeps the invariant if the
\* request is well typed, knows what it must, and is apart from the others.
LEMMA LocalStep ==
  ASSUME DraftsInv, NEW h \in Handlers, NEW t \in TxRecords, tx' = [tx EXCEPT ![h] = t],
         UNCHANGED <<Tables, History>>, Knows(t),
         \A g \in Others(h) : Apart(tx[g], t)
  PROVE  DraftsInv'
<1> USE DEF DraftsInv
<1>0. /\ drafts' = drafts /\ articles' = articles /\ account' = account
      /\ acked' = acked /\ ends' = ends
  BY DEF Tables, History
<1>1. tx'[h] = t /\ \A g \in Others(h) : tx'[g] = tx[g]
  BY DEF DraftsTypeOK, Others
<1>2. DraftsTypeOK'
  BY <1>0 DEF DraftsTypeOK
<1>3. (OneEnd /\ NoLostUpdate /\ \A d \in Ids : Unused(d))'
  BY <1>0 DEF OneEnd, NoLostUpdate, Unused, HasDraft, HasArticle
<1>4. \A g \in Handlers : Knows(tx[g])'
  BY <1>0, <1>1 DEF Knows, HasDraft, Others
<1>5. \A g \in Others(h) : Apart(t, tx[g])
  BY DEF Apart
<1>6. \A f, g \in Handlers : f # g => Apart(tx[f], tx[g])'
  <2> SUFFICES ASSUME NEW f \in Handlers, NEW g \in Handlers, f # g PROVE Apart(tx'[f], tx'[g])
    BY DEF Apart
  <2>1. CASE f = h  BY <1>1, <1>5, <2>1 DEF Others
  <2>2. CASE g = h  BY <1>1, <2>2 DEF Others
  <2>3. CASE f # h /\ g # h  BY <1>1, <2>3 DEF Others
  <2> QED  BY <2>1, <2>2, <2>3
<1> QED  BY <1>2, <1>3, <1>4, <1>6

\* A request that ends without a write, or moves on to another statement.
LEMMA FinishStep ==
  ASSUME DraftsInv, NEW h \in Handlers, Finish(h), UNCHANGED <<Tables, History>>
  PROVE  DraftsInv'
<1>1. Knows(IdleTx)
  BY DEF Knows, IdleTx, Creating, Updating, Locking
<1>2. \A g \in Others(h) : Apart(tx[g], IdleTx)
  <2> SUFFICES ASSUME NEW g \in Others(h) PROVE Apart(tx[g], IdleTx)
    OBVIOUS
  <2>1. tx[g].pc \in Creating => tx[g].id \in Ids
    BY DEF DraftsInv, Knows, Creating, Others
  <2> QED  BY <2>1, IdsAssumption DEF Apart, IdleTx, Creating, Locking
<1> QED  BY <1>1, <1>2, IdleTyped, LocalStep DEF Finish

\* The request of a handler as its program counter moves.
LEMMA GoStep ==
  ASSUME DraftsInv, NEW h \in Handlers, NEW p \in PCs, Go(h, p), UNCHANGED <<Tables, History>>,
         Knows([tx[h] EXCEPT !.pc = p]),
         p \in Creating => tx[h].pc \in Creating,
         p \in Locking => Unlocked(h)
  PROVE  DraftsInv'
<1> DEFINE t == [tx[h] EXCEPT !.pc = p]
<1>1. tx[h] \in TxRecords
  BY DEF DraftsInv, DraftsTypeOK
<1>2. t \in TxRecords /\ t.pc = p /\ t.id = tx[h].id
  BY <1>1 DEF TxRecords
<1>3. tx' = [tx EXCEPT ![h] = t]
  BY DEF Go
<1>4. \A g \in Others(h) : Apart(tx[g], t)
  BY <1>2 DEF DraftsInv, Apart, Others, Unlocked, LocksDraft, Locking
<1> HIDE DEF t
<1>5. Knows(t)
  BY DEF t
<1> QED  BY <1>2, <1>3, <1>4, <1>5, LocalStep

\* A create takes an id of its own, any other request one that was acknowledged.
LEMMA ArrivalSteps ==
  ASSUME DraftsInv, NEW h \in Handlers, CreateArrives(h) \/ RequestArrives(h)
  PROVE  DraftsInv'
<1> DEFINE T(d, p, row, mask) ==
      [pc |-> p, id |-> d, row |-> row, mask |-> mask,
       late |-> account = "deleted" /\ p \in {"c_account", "p_get"}]
<1>1. ASSUME NEW d \in Ids, NEW p \in PCs, NEW row \in Rows \union {NoRow},
             NEW mask \in Masks \union {NoRow}
      PROVE  T(d, p, row, mask) \in TxRecords
  BY DEF TxRecords
<1>2. CASE CreateArrives(h)
  <2>1. PICK d \in Ids, r \in Rows :
          /\ acked[d] = NoRow
          /\ \A g \in Others(h) : tx[g].id # d
          /\ Arrived(h, d, "c_account", r, NoRow)
    BY <1>2 DEF CreateArrives
  <2> DEFINE t == T(d, "c_account", r, NoRow)
  <2>2. t \in TxRecords
    BY <1>1 DEF PCs
  <2>3. tx' = [tx EXCEPT ![h] = t] /\ UNCHANGED <<Tables, History>>
    BY <2>1 DEF Arrived
  <2>4. Knows(t)
    BY <2>1 DEF Knows, Creating, Updating, Locking
  <2>5. \A g \in Others(h) : Apart(tx[g], t)
    BY <2>1 DEF Apart
  <2> HIDE DEF t
  <2> QED  BY <2>2, <2>3, <2>4, <2>5, LocalStep
<1>3. CASE RequestArrives(h)
  <2>1. PICK d \in Ids, p \in {"g_get", "d_get", "p_get", "u_get"}, m \in Masks \union {NoRow} :
          /\ acked[d] # NoRow
          /\ p = "u_get" => m \in Masks
          /\ Arrived(h, d, p, NoRow, m)
    BY <1>3 DEF RequestArrives
  <2> DEFINE t == T(d, p, NoRow, m)
  <2>2. t \in TxRecords
    BY <1>1 DEF PCs
  <2>3. tx' = [tx EXCEPT ![h] = t] /\ UNCHANGED <<Tables, History>>
    BY <2>1 DEF Arrived
  <2>4. Knows(t)
    BY <2>1 DEF Knows, Creating, Updating, Locking
  <2>5. \A g \in Others(h) : Apart(tx[g], t)
    <3> SUFFICES ASSUME NEW g \in Others(h) PROVE Apart(tx[g], t)
      OBVIOUS
    <3>1. tx[g].pc \in Creating => acked[tx[g].id] = NoRow
      BY DEF DraftsInv, Knows, Others
    <3> QED  BY <2>1, <3>1 DEF Apart, Creating, Locking
  <2> HIDE DEF t
  <2> QED  BY <2>2, <2>3, <2>4, <2>5, LocalStep
<1> QED  BY <1>2, <1>3

\* The statements that only read, and the failures, lead to what they know.
LEMMA ReadingSteps ==
  ASSUME DraftsInv, NEW h \in Handlers,
         \/ CreateCheckAccount(h) \/ ServiceGet(h) \/ UpdateSelect(h) \/ UpdateFields(h)
         \/ PublishCheckAccount(h) \/ PublishLock(h) \/ Abort(h)
  PROVE  DraftsInv'
<1>0. tx[h] \in TxRecords /\ Knows(tx[h])
  BY DEF DraftsInv, DraftsTypeOK
<1>1. CASE UNCHANGED <<Tables, History>> /\ Finish(h)
  BY <1>1, FinishStep
<1>2. CASE CreateCheckAccount(h) /\ account = "active" /\ Go(h, "c_insert")
  <2>1. Knows([tx[h] EXCEPT !.pc = "c_insert"])
    BY <1>0, <1>2 DEF CreateCheckAccount, Knows, Creating, Updating, Locking, TxRecords
  <2> QED  BY <1>2, <2>1, GoStep DEF CreateCheckAccount, PCs, Creating, Locking
<1>3. CASE ServiceGet(h) /\ ~Finish(h)
  <2> DEFINE t == [tx[h] EXCEPT !.pc = AfterGet[tx[h].pc], !.row = drafts[tx[h].id]]
  <2>1. /\ tx[h].pc \in {"u_get", "d_get", "p_get"}
        /\ HasDraft(tx[h].id)
        /\ tx' = [tx EXCEPT ![h] = t] /\ UNCHANGED <<Tables, History>>
    BY <1>3 DEF ServiceGet
  <2>2. tx[h].id \in Ids /\ drafts[tx[h].id] \in Rows \union {NoRow}
    BY <1>0, <2>1 DEF Knows, DraftsInv, DraftsTypeOK
  <2>3. AfterGet[tx[h].pc] \in {"u_select", "d_delete", "p_account"}
    BY <2>1 DEF AfterGet
  <2>4. t \in TxRecords
    BY <1>0, <2>2, <2>3 DEF TxRecords, PCs
  <2>5. Knows(t)
    BY <1>0, <2>1, <2>2 DEF Knows, Creating, Updating, Locking, TxRecords, AfterGet
  <2>6. \A g \in Others(h) : Apart(tx[g], t)
    BY <1>0, <2>3 DEF DraftsInv, Apart, Others, TxRecords, Creating, Locking
  <2> HIDE DEF t
  <2> QED  BY <2>1, <2>4, <2>5, <2>6, LocalStep
<1>4. CASE UpdateSelect(h) /\ Go(h, "u_update")
  <2>1. Knows([tx[h] EXCEPT !.pc = "u_update"])
    BY <1>0, <1>4 DEF UpdateSelect, Knows, Creating, Updating, Locking, TxRecords
  <2> QED  BY <1>4, <2>1, GoStep DEF UpdateSelect, PCs, Creating, Locking
<1>5. CASE UpdateFields(h) /\ HasDraft(tx[h].id) /\ Go(h, "u_commit")
  <2>1. Knows([tx[h] EXCEPT !.pc = "u_commit"])
    BY <1>0, <1>5 DEF UpdateFields, Knows, Creating, Updating, Locking, TxRecords
  <2> QED  BY <1>5, <2>1, GoStep DEF UpdateFields, PCs, Creating, Locking
<1>6. CASE PublishCheckAccount(h) /\ account = "active" /\ Go(h, "p_lock")
  <2>1. Knows([tx[h] EXCEPT !.pc = "p_lock"])
    BY <1>0, <1>6 DEF PublishCheckAccount, Knows, Creating, Updating, Locking, TxRecords
  <2> QED  BY <1>6, <2>1, GoStep DEF PublishCheckAccount, PCs, Creating, Locking
<1>7. CASE PublishLock(h) /\ ~Finish(h)
  <2> DEFINE t == [tx[h] EXCEPT !.pc = "p_commit", !.row = drafts[tx[h].id]]
  <2>1. /\ tx[h].pc = "p_lock" /\ Unlocked(h) /\ HasDraft(tx[h].id)
        /\ tx' = [tx EXCEPT ![h] = t] /\ UNCHANGED <<Tables, History>>
    BY <1>7 DEF PublishLock
  <2>2. tx[h].id \in Ids /\ drafts[tx[h].id] \in Rows \union {NoRow}
    BY <1>0, <2>1 DEF Knows, DraftsInv, DraftsTypeOK
  <2>3. t \in TxRecords
    BY <1>0, <2>2 DEF TxRecords, PCs
  <2>4. Knows(t)
    BY <1>0, <2>1, <2>2 DEF Knows, Creating, Updating, Locking, TxRecords
  <2>5. \A g \in Others(h) : Apart(tx[g], t)
    BY <1>0, <2>1 DEF DraftsInv, Apart, Others, TxRecords, Creating, Locking, Unlocked, LocksDraft
  <2> HIDE DEF t
  <2> QED  BY <2>1, <2>3, <2>4, <2>5, LocalStep
<1> QED
  BY <1>1, <1>2, <1>3, <1>4, <1>5, <1>6, <1>7
  DEF CreateCheckAccount, ServiceGet, UpdateSelect, UpdateFields, PublishCheckAccount,
      PublishLock, Abort

-----------------------------------------------------------------------------
\* The effect of a write on the tables: only one id is touched, and what is left
\* of it is an unended draft, an article, or nothing, as acknowledged.
Written(d) ==
  /\ drafts' \in [Ids -> Rows \union {NoRow}] /\ articles' \in [Ids -> Rows \union {NoRow}]
  /\ acked' \in [Ids -> Rows \union {NoRow}] /\ ends' \in [Ids -> 0..2]
  /\ \A e \in Ids \ {d} : /\ drafts'[e] = drafts[e] /\ articles'[e] = articles[e]
                          /\ acked'[e] = acked[e] /\ ends'[e] = ends[e]
  /\ acked'[d] # NoRow /\ ends'[d] \in 0..1
  /\ drafts'[d] # NoRow => drafts'[d] = acked'[d] /\ articles'[d] = NoRow /\ ends'[d] = 0
  /\ articles'[d] # NoRow => articles'[d] = acked'[d] /\ ends'[d] = 1

\* A write ends the request of one handler and changes what belongs to its id.
\* It keeps the invariant if the id is left in a sound state, and no other
\* request was creating the id or had locked it.
LEMMA WriteStep ==
  ASSUME DraftsInv, NEW h \in Handlers, NEW d \in Ids, d = tx[h].id, Finish(h),
         account' = account, Written(d),
         \A g \in Others(h) : tx[g].id = d => tx[g].pc \notin Creating \union Locking
  PROVE  DraftsInv'
<1> USE DEF DraftsInv
<1>1. /\ tx' \in [Handlers -> TxRecords]
      /\ tx'[h] = IdleTx /\ \A g \in Others(h) : tx'[g] = tx[g]
  BY IdleTyped DEF Finish, DraftsTypeOK, Others
<1> USE DEF Written
<1>3. DraftsTypeOK'
  BY <1>1 DEF DraftsTypeOK
<1>4. OneEnd'
  BY DEF OneEnd, HasDraft, HasArticle
<1>5. NoLostUpdate'
  BY DEF NoLostUpdate, HasDraft, HasArticle
<1>6. \A e \in Ids : Unused(e)'
  BY DEF Unused
<1>7. Knows(IdleTx)'
  BY DEF Knows, IdleTx, Creating, Updating, Locking
<1>8. \A g \in Others(h) : Knows(tx[g])'
  <2> SUFFICES ASSUME NEW g \in Others(h) PROVE Knows(tx[g])'
    OBVIOUS
  <2>1. Knows(tx[g]) /\ tx'[g] = tx[g]
    BY <1>1 DEF Others
  <2>2. CASE tx[g].id = d
    BY <2>1, <2>2 DEF Knows, HasDraft, Creating, Locking, Updating
  <2>3. CASE tx[g].id # d
    BY <2>1, <2>3 DEF Knows, HasDraft, Creating, Locking, Updating
  <2> QED  BY <2>2, <2>3
<1>9. \A g \in Handlers : Knows(tx[g])'
  BY <1>1, <1>7, <1>8 DEF Others
<1>10. \A g \in Others(h) : Apart(tx'[g], IdleTx) /\ Apart(IdleTx, tx'[g])
  <2> SUFFICES ASSUME NEW g \in Others(h)
               PROVE  Apart(tx[g], IdleTx) /\ Apart(IdleTx, tx[g])
    BY <1>1
  <2>1. tx[g].pc \in Creating => tx[g].id \in Ids
    BY DEF Knows, Creating, Others
  <2> QED  BY <2>1, IdsAssumption DEF Apart, IdleTx, Creating, Locking
<1>11. \A f, g \in Handlers : f # g => Apart(tx'[f], tx'[g])
  BY <1>1, <1>10 DEF Others
<1> QED  BY <1>3, <1>4, <1>5, <1>6, <1>9, <1>11 DEF Apart

\* The initial insert of a draft, under an id that is nobody else's.
LEMMA CreateInsertStep ==
  ASSUME DraftsInv, NEW h \in Handlers, CreateInsert(h)
  PROVE  DraftsInv'
<1> DEFINE d == tx[h].id
<1>1. /\ tx[h].pc = "c_insert" /\ d \in Ids /\ tx[h].row \in Rows /\ acked[d] = NoRow
  BY DEF CreateInsert, DraftsInv, Knows, Creating
<1>2. drafts[d] = NoRow /\ articles[d] = NoRow /\ ends[d] = 0
  BY <1>1 DEF DraftsInv, Unused
<1>3. account' = account /\ Finish(h)
  BY DEF CreateInsert
<1>4. \A g \in Others(h) : tx[g].id # d
  BY <1>1 DEF DraftsInv, Apart, Creating, Others
<1>5. Written(d)
  BY <1>1, <1>2, NoRowIsNone DEF Written, CreateInsert, DraftsInv, DraftsTypeOK
<1> QED  BY <1>1, <1>3, <1>4, <1>5, WriteStep

\* What a request past the lock relies on: the draft is there, as acknowledged,
\* and no other request creates the id or holds the lock.
LEMMA LockHeld ==
  ASSUME DraftsInv, NEW h \in Handlers, tx[h].pc \in Locking
  PROVE  /\ tx[h].id \in Ids /\ drafts[tx[h].id] \in Rows /\ acked[tx[h].id] = drafts[tx[h].id]
         /\ articles[tx[h].id] = NoRow /\ ends[tx[h].id] = 0
         /\ \A g \in Others(h) : tx[g].id = tx[h].id => tx[g].pc \notin Creating \union Locking
<1>1. tx[h].id \in Ids /\ HasDraft(tx[h].id)
  BY DEF DraftsInv, Knows, Locking
<1>2. /\ drafts[tx[h].id] \in Rows /\ acked[tx[h].id] = drafts[tx[h].id]
      /\ articles[tx[h].id] = NoRow /\ ends[tx[h].id] = 0
  BY <1>1 DEF DraftsInv, DraftsTypeOK, OneEnd, NoLostUpdate, HasDraft, HasArticle
<1>3. \A g \in Others(h) : tx[g].id = tx[h].id => tx[g].pc \notin Creating \union Locking
  BY DEF DraftsInv, Apart, Others
<1> QED  BY <1>1, <1>2, <1>3

\* The masked fields are written to the row that is locked.
LEMMA UpdateCommitStep ==
  ASSUME DraftsInv, NEW h \in Handlers, UpdateCommit(h)
  PROVE  DraftsInv'
<1> DEFINE d == tx[h].id
           new == Apply(drafts[d], tx[h].mask)
<1>1. /\ tx[h].pc = "u_commit" /\ tx[h].mask \in Masks /\ account' = account /\ Finish(h)
  BY DEF UpdateCommit, DraftsInv, Knows, Updating
<1>2. /\ d \in Ids /\ drafts[d] \in Rows /\ acked[d] = drafts[d] /\ articles[d] = NoRow /\ ends[d] = 0
      /\ \A g \in Others(h) : tx[g].id = d => tx[g].pc \notin Creating \union Locking
  BY <1>1, LockHeld DEF Locking
<1>3. new \in Rows
  BY <1>1, <1>2, ApplyType
<1>4. drafts' = [drafts EXCEPT ![d] = new] /\ acked' = [acked EXCEPT ![d] = new]
  BY <1>2 DEF UpdateCommit, DraftsInv, DraftsTypeOK
<1> HIDE DEF new
<1>5. Written(d)
  BY <1>2, <1>3, <1>4, NoRowIsNone DEF Written, UpdateCommit, DraftsInv, DraftsTypeOK
<1> QED  BY <1>1, <1>2, <1>5, WriteStep

\* The DELETE finds no lock on the row, and the row or none.
LEMMA DeleteStep ==
  ASSUME DraftsInv, NEW h \in Handlers, Delete(h)
  PROVE  DraftsInv'
<1> DEFINE d == tx[h].id
<1>1. /\ tx[h].pc = "d_delete" /\ d \in Ids /\ acked[d] # NoRow
      /\ Unlocked(h) /\ account' = account /\ Finish(h)
  BY DEF Delete, DraftsInv, Knows, Creating
<1>2. \A g \in Others(h) : tx[g].id = d => tx[g].pc \notin Creating \union Locking
  <2> SUFFICES ASSUME NEW g \in Others(h), tx[g].id = d
               PROVE  tx[g].pc \notin Creating /\ tx[g].pc \notin Locking
    OBVIOUS
  <2>1. tx[g].pc \notin Creating
    BY <1>1 DEF DraftsInv, Knows, Others
  <2>2. tx[g].pc \notin Locking
    BY <1>1 DEF Unlocked, LocksDraft, Locking
  <2> QED  BY <2>1, <2>2
<1>3. ends' \in [Ids -> 0..2] /\ (\A e \in Ids \ {d} : ends'[e] = ends[e])
      /\ ends'[d] = IF HasDraft(d) THEN 1 ELSE ends[d]
  BY <1>1 DEF Delete, AckEnd, DraftsInv, DraftsTypeOK, OneEnd
<1>4. /\ drafts' \in [Ids -> Rows \union {NoRow}] /\ drafts'[d] = NoRow
      /\ \A e \in Ids \ {d} : drafts'[e] = drafts[e]
      /\ articles' = articles /\ acked' = acked
  BY <1>1 DEF Delete, DraftsInv, DraftsTypeOK
<1>5. ends[d] \in 0..1 /\ (articles[d] # NoRow => articles[d] = acked[d] /\ ends[d] = 1)
  BY <1>1 DEF DraftsInv, DraftsTypeOK, OneEnd, NoLostUpdate, HasArticle
<1>6. ends'[d] \in 0..1 /\ (articles[d] # NoRow => ends'[d] = 1)
  BY <1>3, <1>5
<1>7. Written(d)
  BY <1>1, <1>3, <1>4, <1>5, <1>6 DEF Written, DraftsInv, DraftsTypeOK
<1> QED  BY <1>1, <1>2, <1>7, WriteStep

\* The locked row becomes the article.
LEMMA PublishCommitStep ==
  ASSUME DraftsInv, NEW h \in Handlers, PublishCommit(h)
  PROVE  DraftsInv'
<1> DEFINE d == tx[h].id
<1>1. tx[h].pc = "p_commit" /\ account' = account /\ Finish(h)
  BY DEF PublishCommit
<1>2. /\ d \in Ids /\ drafts[d] \in Rows /\ acked[d] = drafts[d] /\ articles[d] = NoRow /\ ends[d] = 0
      /\ \A g \in Others(h) : tx[g].id = d => tx[g].pc \notin Creating \union Locking
  BY <1>1, LockHeld DEF Locking
<1>3. tx[h].row = acked[d]
  BY <1>1, <1>2 DEF DraftsInv, Knows
<1>4. Written(d)
  BY <1>2, <1>3, NoRowIsNone DEF Written, PublishCommit, AckEnd, DraftsInv, DraftsTypeOK
<1> QED  BY <1>1, <1>2, <1>4, WriteStep

\* Deleting the account only makes late requests more.
LEMMA DeleteAccountStep ==
  ASSUME DraftsInv, DeleteAccount
  PROVE  DraftsInv'
<1> USE DEF DraftsInv, DeleteAccount, History
<1>1. DraftsTypeOK'
  BY DEF DraftsTypeOK
<1>2. (OneEnd /\ NoLostUpdate /\ \A d \in Ids : Unused(d))'
  BY DEF OneEnd, NoLostUpdate, Unused, HasDraft, HasArticle
<1>3. \A g \in Handlers : Knows(tx[g])'
  BY DEF Knows, HasDraft
<1>4. \A f, g \in Handlers : f # g => Apart(tx[f], tx[g])'
  BY DEF Apart
<1> QED  BY <1>1, <1>2, <1>3, <1>4

\* Every step keeps the invariant.
LEMMA DraftsNextInv == DraftsInv /\ [Next]_vars => DraftsInv'
<1> SUFFICES ASSUME DraftsInv, [Next]_vars PROVE DraftsInv'
  OBVIOUS
<1>1. CASE UNCHANGED vars
  BY <1>1 DEF vars, DraftsInv, DraftsTypeOK, OneEnd, NoLostUpdate, Unused, Knows, Apart, HasDraft,
              HasArticle
<1>2. CASE DeleteAccount
  BY <1>2, DeleteAccountStep
<1>3. ASSUME NEW h \in Handlers,
             CreateArrives(h) \/ RequestArrives(h) \/ Statement(h) \/ Abort(h)
      PROVE  DraftsInv'
  BY <1>3, ArrivalSteps, ReadingSteps, CreateInsertStep, UpdateCommitStep, DeleteStep,
     PublishCommitStep DEF Statement
<1> QED  BY <1>1, <1>2, <1>3 DEF Next

\* The invariant holds in every behaviour.
LEMMA DraftsInvariance == Spec => []DraftsInv
BY DraftsInitInv, DraftsNextInv, PTL DEF Spec

-----------------------------------------------------------------------------
\* The tables and the requests are well typed.
THEOREM DraftsTypeCorrect == Spec => []DraftsTypeOK
<1>1. DraftsInv => DraftsTypeOK
  BY DEF DraftsInv
<1> QED  BY <1>1, DraftsInvariance, PTL

\* A draft ends once, by a delete or by a publish, however many of them race.
THEOREM OneEndCorrect == Spec => []OneEnd
<1>1. DraftsInv => OneEnd
  BY DEF DraftsInv
<1> QED  BY <1>1, DraftsInvariance, PTL

\* The draft, or the article it became, is what the acknowledged writes add up to.
THEOREM NoLostUpdateCorrect == Spec => []NoLostUpdate
<1>1. DraftsInv => NoLostUpdate
  BY DEF DraftsInv
<1> QED  BY <1>1, DraftsInvariance, PTL

\* A published article is final, and an id that has ended is never used again.
THEOREM PublishedForGoodCorrect == Spec => PublishedForGood
<1> DEFINE Good == \A d \in Ids :
      /\ HasArticle(d) => articles'[d] = articles[d]
      /\ ends[d] > 0 => drafts'[d] = NoRow /\ articles'[d] = articles[d]
<1>1. ASSUME DraftsInv, [Next]_vars PROVE Good \/ UNCHANGED vars
  <2>1. CASE UNCHANGED <<drafts, articles>>
    <3> SUFFICES ASSUME NEW d \in Ids, ends[d] > 0 PROVE drafts[d] = NoRow
      BY <2>1
    <3> QED  BY <1>1 DEF DraftsInv, DraftsTypeOK, OneEnd, HasDraft
  <2>2. ASSUME NEW h \in Handlers, CreateInsert(h) PROVE Good
    <3>1. tx[h].id \in Ids /\ articles' = articles /\ ends[tx[h].id] = 0
      BY <1>1, <2>2 DEF CreateInsert, DraftsInv, Knows, Creating, Unused
    <3>2. \A d \in Ids \ {tx[h].id} : drafts'[d] = drafts[d]
      BY <1>1, <2>2 DEF CreateInsert, DraftsInv, DraftsTypeOK
    <3> QED  BY <1>1, <3>1, <3>2 DEF DraftsInv, DraftsTypeOK, OneEnd, HasDraft
  <2>3. ASSUME NEW h \in Handlers, UpdateCommit(h) PROVE Good
    <3>1. tx[h].id \in Ids /\ articles' = articles /\ ends[tx[h].id] = 0
      BY <1>1, <2>3, LockHeld DEF UpdateCommit, Locking
    <3>2. \A d \in Ids \ {tx[h].id} : drafts'[d] = drafts[d]
      BY <1>1, <2>3 DEF UpdateCommit, DraftsInv, DraftsTypeOK
    <3> QED  BY <1>1, <3>1, <3>2 DEF DraftsInv, DraftsTypeOK, OneEnd, HasDraft
  <2>4. ASSUME NEW h \in Handlers, Delete(h) PROVE Good
    <3>1. articles' = articles /\ \A d \in Ids : drafts'[d] = drafts[d] \/ drafts'[d] = NoRow
      BY <1>1, <2>4 DEF Delete, DraftsInv, DraftsTypeOK
    <3> QED  BY <1>1, <3>1 DEF DraftsInv, DraftsTypeOK, OneEnd, HasDraft
  <2>5. ASSUME NEW h \in Handlers, PublishCommit(h) PROVE Good
    <3>1. tx[h].id \in Ids /\ articles[tx[h].id] = NoRow /\ ends[tx[h].id] = 0
      BY <1>1, <2>5, LockHeld DEF PublishCommit, Locking
    <3>2. \A d \in Ids \ {tx[h].id} : drafts'[d] = drafts[d] /\ articles'[d] = articles[d]
      BY <1>1, <2>5 DEF PublishCommit, DraftsInv, DraftsTypeOK
    <3> QED  BY <1>1, <3>1, <3>2 DEF DraftsInv, DraftsTypeOK, OneEnd, HasDraft, HasArticle
  <2> QED
    BY <1>1, <2>1, <2>2, <2>3, <2>4, <2>5
    DEF Next, Statement, vars, Tables, DeleteAccount, CreateArrives, RequestArrives, Arrived,
        CreateCheckAccount, ServiceGet, UpdateSelect, UpdateFields, PublishCheckAccount,
        PublishLock, Abort
<1>2. DraftsInv /\ [Next]_vars => [Good]_vars
  BY <1>1
<1> QED  BY <1>2, DraftsInvariance, PTL DEF Spec, PublishedForGood

\* A request that arrived after the deletion of the account writes nothing.
THEOREM NoLateArticleCorrect == Spec => NoLateArticle
<1> DEFINE Good == \A h \in Handlers : tx[h].late /\ tx'[h] # tx[h] =>
      articles' = articles /\ \A d \in Ids : HasDraft(d)' => HasDraft(d)
<1>1. ASSUME DraftsInv, [Next]_vars PROVE Good
  <2> SUFFICES ASSUME NEW h \in Handlers, tx[h].late, tx'[h] # tx[h]
               PROVE  articles' = articles /\ drafts' = drafts
    BY DEF HasDraft
  <2>1. tx[h].pc \in {"c_account", "p_get", "p_account"} /\ account = "deleted"
    BY <1>1 DEF DraftsInv, Knows
  <2>2. PICK g \in Handlers : CreateArrives(g) \/ RequestArrives(g) \/ Statement(g) \/ Abort(g)
    BY <1>1 DEF Next, vars, DeleteAccount
  <2>3. \E t : tx' = [tx EXCEPT ![g] = t]
    BY <2>2 DEF CreateArrives, RequestArrives, Arrived, Statement, Abort, CreateCheckAccount,
                CreateInsert, ServiceGet, UpdateSelect, UpdateFields, UpdateCommit, Delete,
                PublishCheckAccount, PublishLock, PublishCommit, Go, Finish
  <2>4. g = h
    BY <1>1, <2>3 DEF DraftsInv, DraftsTypeOK
  <2> QED
    BY <2>1, <2>2, <2>4
    DEF CreateArrives, RequestArrives, Arrived, Statement, Abort, CreateCheckAccount,
        CreateInsert, ServiceGet, UpdateSelect, UpdateFields, UpdateCommit, Delete,
        PublishCheckAccount, PublishLock, PublishCommit, Tables
<1>2. DraftsInv /\ [Next]_vars => [Good]_vars
  BY <1>1
<1> QED  BY <1>2, DraftsInvariance, PTL DEF Spec, NoLateArticle
=============================================================================
