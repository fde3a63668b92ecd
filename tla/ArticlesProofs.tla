--------------------------- MODULE ArticlesProofs ---------------------------
(***************************************************************************)
(* Proofs about Articles, for every set of ids, handlers and contents and  *)
(* for every bound; and about AccountStream on top of it, for every page   *)
(* size: the store under the stream keeps the invariant of Articles, and   *)
(* the republisher passes over a change only if its commit is late.        *)
(***************************************************************************)
EXTENDS AccountStream, FiniteSetTheorems, WellFoundedInduction, TLAPS

-----------------------------------------------------------------------------
(* The inductive invariant: the tables' own properties, what each open     *)
(* transaction may rely on between its statements (TxGood), and what two   *)
(* transactions may not hold at once (Compatible).                         *)

\* An id without an articles row has no version rows.
NoOrphans == \A a \in Ids : articles[a] = "none" => \A v \in Versions : versions[a][v] = "none"

InPublish(t) == t.pc = "p_commit" =>
  articles[t.id] = "none" /\ t.ver = 1 /\ t.req \in Bodies

\* edit relies on: the version it read is still there, the version it inserts
\* is still absent, and its UPDATE matched exactly when the row was there.
InEdit(t) ==
  /\ t.pc \in EditPCs => articles[t.id] # "none" /\ t.req # "none"
  /\ t.pc \in {"e_version", "e_insert", "e_update", "e_commit"} =>
       t.ver - 1 \in Versions /\ versions[t.id][t.ver - 1] # "none"
  /\ t.pc \in {"e_insert", "e_update", "e_commit"} => t.body # "none"
  /\ t.pc \in {"e_update", "e_commit"} => versions[t.id][t.ver] = "none"
  /\ t.pc = "e_commit" /\ ~t.hit => ~HasLive(t.id)

\* tombstone relies on: no tombstone row since it locked the article.
InTombstone(t) ==
  /\ t.pc \in TombPCs => articles[t.id] # "none" /\ t.now # 0
  /\ t.pc \in {"t_delete", "t_commit"} => tomb[t.id] = 0
  /\ t.pc = "t_commit" => t.hit

InRedact(t) ==
  /\ t.pc \in RedactPCs => t.ver \in Versions
  /\ t.pc \in {"r_update", "r_live", "r_bump", "r_commit"} => versions[t.id][t.ver] # "none"

InGet(t) ==
  /\ t.pc \in GetPCs => t.low <= Floor(t.id)
  /\ t.pc = "g_version" => t.ver \in Versions /\ versions[t.id][t.ver] # "none" /\ t.ver >= t.low

\* A locked articles_live row does not go away.
HoldsLive(t) == t.hit => t.pc \in {"e_commit", "t_commit", "r_commit"} /\ HasLive(t.id)

TxGood(t) ==
  /\ t.pc # "idle" => t.id \in Ids
  /\ InPublish(t) /\ InEdit(t) /\ InTombstone(t) /\ InRedact(t) /\ InGet(t) /\ HoldsLive(t)

Compatible(t, u) == t.id = u.id =>
  /\ ~(t.hit /\ u.hit)
  /\ ~(t.pc = "p_commit" /\ u.pc = "p_commit")
  /\ ~(t.pc \in {"t_insert", "t_delete", "t_commit"} /\ u.pc \in {"t_insert", "t_delete", "t_commit"})
  /\ ~(t.pc \in {"e_update", "e_commit"} /\ u.pc \in {"e_update", "e_commit"} /\ t.ver = u.ver)

TablesGood == TableFamily /\ CurrentIsNewest /\ NoOrphans

IndInv ==
  /\ TypeOK
  /\ TablesGood
  /\ \A h \in Handlers : TxGood(tx[h])
  /\ \A g, h \in Handlers : g # h => Compatible(tx[g], tx[h])

-----------------------------------------------------------------------------
(* Steps that touch only one handler's record (every statement but COMMIT). *)

\* A step that moves one handler to a record that is good and compatible with
\* the others' preserves the invariant.
LEMMA LocalStep ==
  ASSUME IndInv, NEW h \in Handlers, NEW t \in TxRecords,
         tx' = [tx EXCEPT ![h] = t], UNCHANGED Tables, clock' \in 0..MaxClock,
         TxGood(t), \A g \in Others(h) : Compatible(t, tx[g])
  PROVE  IndInv'
<1>1. TypeOK'
  BY DEF IndInv, TypeOK, Tables
<1>2. TablesGood'
  BY DEF IndInv, TablesGood, TableFamily, CurrentIsNewest, NoOrphans, HasLive, Exists, Tables
<1>3. \A g \in Handlers : tx'[g] = IF g = h THEN t ELSE tx[g]
  BY DEF IndInv, TypeOK
<1>4. ASSUME NEW u, TxGood(u) PROVE TxGood(u)'
  BY <1>4 DEF TxGood, InPublish, InEdit, InTombstone, InRedact, InGet, HoldsLive, HasLive, Floor, Tables
<1>5. \A g \in Handlers : TxGood(tx[g])'
  BY <1>3, <1>4 DEF IndInv
<1>6. \A f, g \in Handlers : f # g => Compatible(tx[f], tx[g])'
  BY <1>3 DEF IndInv, Compatible, Others
<1> QED  BY <1>1, <1>2, <1>5, <1>6 DEF IndInv

\* The idle record is a record, is good, and conflicts with nothing.
LEMMA IdleRecord ==
  IdleTx \in TxRecords /\ TxGood(IdleTx) /\ \A u : Compatible(IdleTx, u)
BY BoundsAssumption DEF IdleTx, NewTx, TxRecords, PCs, TxGood, InPublish, InEdit, InTombstone, InRedact,
   InGet, HoldsLive, Compatible, EditPCs, TombPCs, RedactPCs, GetPCs

\* Ending a request preserves the invariant.
LEMMA FinishStep ==
  ASSUME IndInv, NEW h \in Handlers, Finish(h), UNCHANGED <<Tables, clock>>
  PROVE  IndInv'
<1>1. clock' \in 0..MaxClock /\ UNCHANGED Tables
  BY DEF IndInv, TypeOK
<1> QED  BY <1>1, LocalStep, IdleRecord DEF Finish

\* The arrival of a writing request preserves the invariant.
LEMMA BeginStep ==
  ASSUME IndInv, NEW h \in Handlers, NEW a \in Ids, NEW v \in 0..MaxVersion,
         NEW p \in {"p_commit", "e_article", "t_article", "r_article"},
         NEW r \in Bodies \union {"none", "keep"},
         p = "p_commit" => /\ articles[a] = "none" /\ v = 1 /\ r \in Bodies
                           /\ \A g \in Others(h) : ~(tx[g].pc = "p_commit" /\ tx[g].id = a),
         p = "e_article" => articles[a] # "none" /\ r # "none",
         p = "t_article" => articles[a] # "none",
         p = "r_article" => v \in Versions,
         Begin(h, a, p, v, r)
  PROVE  IndInv'
<1> DEFINE t == NewTx(p, a, clock + 1, v, r, 0)
<1>1. t \in TxRecords
  <2>1. p \in PCs
    BY DEF PCs, EditPCs, TombPCs, RedactPCs
  <2>2. clock + 1 \in 0..MaxClock
    BY BoundsAssumption DEF Begin, IndInv, TypeOK
  <2> QED  BY <2>1, <2>2, BoundsAssumption DEF TxRecords, NewTx
<1>2. /\ t.pc = p /\ t.id = a /\ t.ver = v /\ t.req = r /\ t.hit = FALSE
      /\ t.now # 0
  BY DEF NewTx, IndInv, TypeOK
<1>3. TxGood(t)
  BY <1>2 DEF TxGood, InPublish, InEdit, InTombstone, InRedact, InGet, HoldsLive, EditPCs, TombPCs,
     RedactPCs, GetPCs
<1>4. \A g \in Others(h) : Compatible(t, tx[g])
  BY <1>2 DEF Compatible, Others
<1>5. tx' = [tx EXCEPT ![h] = t] /\ UNCHANGED Tables /\ clock' \in 0..MaxClock
  BY BoundsAssumption DEF Begin, IndInv, TypeOK
<1> QED  BY <1>1, <1>3, <1>4, <1>5, LocalStep

\* Every request's arrival preserves the invariant.
LEMMA ArriveStep ==
  ASSUME IndInv, NEW h \in Handlers, Arrive(h)
  PROVE  IndInv'
<1>1. CASE PublishBegin(h)
  BY <1>1, BeginStep, BoundsAssumption DEF PublishBegin
<1>2. CASE EditBegin(h)
  <2>1. PICK a \in Ids, b \in Bodies \union {"keep"} :
          articles[a] # "none" /\ Begin(h, a, "e_article", 0, b)
    BY <1>2 DEF EditBegin
  <2>2. b # "none"
    BY NamesAssumption DEF Marks
  <2> QED  BY <2>1, <2>2, BeginStep, BoundsAssumption
<1>3. CASE TombstoneBegin(h)
  BY <1>3, BeginStep, BoundsAssumption DEF TombstoneBegin
<1>4. CASE RedactBegin(h)
  BY <1>4, BeginStep, BoundsAssumption DEF RedactBegin, Versions
<1>5. CASE GetBegin(h)
  <2>1. PICK a \in Ids :
          /\ tx' = [tx EXCEPT ![h] = NewTx("g_article", a, 0, 0, "none", Floor(a))]
          /\ UNCHANGED <<Tables, clock>>
    BY <1>5 DEF GetBegin
  <2> DEFINE t == NewTx("g_article", a, 0, 0, "none", Floor(a))
  <2>2. Floor(a) \in 0..(MaxVersion + 1)
    BY BoundsAssumption DEF IndInv, TypeOK, Floor, NoLiveView
  <2>3. t \in TxRecords
    <3>1. "g_article" \in PCs
      BY DEF PCs, GetPCs
    <3> QED  BY <2>2, <3>1, BoundsAssumption DEF TxRecords, NewTx
  <2>4. t.pc = "g_article" /\ t.id = a /\ t.low = Floor(a) /\ t.hit = FALSE
    BY DEF NewTx
  <2>5. TxGood(t)
    BY <2>2, <2>4 DEF TxGood, InPublish, InEdit, InTombstone, InRedact, InGet, HoldsLive, EditPCs,
       TombPCs, RedactPCs, GetPCs
  <2>6. \A g \in Others(h) : Compatible(t, tx[g])
    BY <2>4 DEF Compatible
  <2>7. clock' \in 0..MaxClock /\ UNCHANGED Tables
    BY <2>1 DEF IndInv, TypeOK
  <2> QED  BY <2>1, <2>3, <2>5, <2>6, <2>7, LocalStep
<1> QED  BY <1>1, <1>2, <1>3, <1>4, <1>5 DEF Arrive

-----------------------------------------------------------------------------
(* The statements of an open transaction. *)


\* edit's statements before COMMIT preserve the invariant.
LEMMA EditLocal ==
  ASSUME IndInv, NEW h \in Handlers,
         \/ EditSelectArticle(h) \/ EditSelectLive(h) \/ EditSelectVersion(h)
         \/ EditInsertVersion(h) \/ EditUpdateLive(h)
  PROVE  IndInv'
<1> USE DEF EditPCs, TombPCs, RedactPCs, GetPCs
<1> DEFINE t == tx[h]
<1>0. /\ t \in TxRecords /\ TxGood(t) /\ clock \in 0..MaxClock
      /\ \A g \in Others(h) : Compatible(t, tx[g])
      /\ {"e_live", "e_version", "e_insert", "e_update", "e_commit"} \subseteq PCs
  BY DEF IndInv, TypeOK, Others, PCs
<1>1. CASE EditSelectArticle(h)
  <2>1. CASE Finish(h)
    BY <1>1, <2>1, FinishStep DEF EditSelectArticle
  <2>2. CASE ~Finish(h)
    <3> DEFINE u == [t EXCEPT !.pc = "e_live"]
    <3>1. u \in TxRecords
      BY <1>0 DEF TxRecords
    <3>2. /\ u.pc = "e_live" /\ u.id = t.id /\ u.now = t.now /\ u.ver = t.ver /\ u.req = t.req
          /\ u.body = t.body /\ u.state = t.state /\ u.hit = t.hit /\ u.low = t.low
          /\ t.pc = "e_article"
      BY <1>0, <1>1 DEF TxRecords, EditSelectArticle
    <3>3. TxGood(u)
      BY <1>0, <1>1, <2>2, <3>2 DEF TxGood, InPublish, InEdit, InTombstone,
         InRedact, InGet, HoldsLive
    <3>4. \A g \in Others(h) : Compatible(u, tx[g])
      BY <1>0, <1>1, <3>2 DEF Compatible
    <3>5. tx' = [tx EXCEPT ![h] = u] /\ UNCHANGED Tables /\ clock' \in 0..MaxClock
      BY <1>0, <1>1, <2>2 DEF EditSelectArticle, Go
    <3> QED  BY <3>1, <3>3, <3>4, <3>5, LocalStep
  <2> QED  BY <2>1, <2>2
<1>2. CASE EditSelectLive(h)
  <2>1. CASE Finish(h)
    BY <1>2, <2>1, FinishStep DEF EditSelectLive
  <2>2. CASE ~Finish(h)
    <3> DEFINE u == [t EXCEPT !.pc = "e_version", !.ver = live[t.id].current_version + 1]
    <3>1. /\ live[t.id].current_version \in Versions /\ live[t.id].current_version < MaxVersion
          /\ versions[t.id][live[t.id].current_version] # "none"
          /\ live[t.id].current_version + 1 \in 0..MaxVersion
          /\ (live[t.id].current_version + 1) - 1 = live[t.id].current_version
      BY <1>0, <1>2, <2>2, BoundsAssumption DEF EditSelectLive, HasLive, IndInv, TypeOK, TablesGood,
         TableFamily, CurrentIsNewest, Exists, Versions, TxGood
    <3>2. u \in TxRecords
      BY <1>0, <3>1 DEF TxRecords
    <3>3. /\ u.pc = "e_version" /\ u.id = t.id /\ u.now = t.now
          /\ u.ver = live[t.id].current_version + 1 /\ u.req = t.req /\ u.body = t.body
          /\ u.state = t.state /\ u.hit = t.hit /\ u.low = t.low /\ t.pc = "e_live"
      BY <1>0, <1>2 DEF TxRecords, EditSelectLive
    <3>4. TxGood(u)
      BY <1>0, <3>1, <1>2, <2>2, <3>3 DEF TxGood, InPublish, InEdit, InTombstone,
         InRedact, InGet, HoldsLive
    <3>5. \A g \in Others(h) : Compatible(u, tx[g])
      BY <1>0, <1>2, <3>3 DEF Compatible
    <3>6. tx' = [tx EXCEPT ![h] = u] /\ UNCHANGED Tables /\ clock' \in 0..MaxClock
      BY <1>0, <1>2, <2>2 DEF EditSelectLive
    <3> QED  BY <3>2, <3>4, <3>5, <3>6, LocalStep
  <2> QED  BY <2>1, <2>2
<1>3. CASE EditSelectVersion(h)
  <2>1. CASE Finish(h)
    BY <1>3, <2>1, FinishStep DEF EditSelectVersion
  <2>2. CASE ~Finish(h)
    <3> DEFINE u == [t EXCEPT !.pc = "e_insert", !.body = (IF t.req # "keep" THEN t.req
                                                      ELSE IF versions[t.id][t.ver - 1] = "redacted" THEN "empty"
                                                      ELSE versions[t.id][t.ver - 1])]
    <3>1. /\ t.req # "none" /\ t.ver - 1 \in Versions /\ versions[t.id][t.ver - 1] # "none"
          /\ versions[t.id][t.ver - 1] \in Content
      BY <1>0, <1>3, <2>2 DEF EditSelectVersion, TxGood, InEdit, IndInv, TypeOK
    <3>2. u \in TxRecords
      BY <1>0, <3>1 DEF TxRecords, Content
    <3>3. /\ u.pc = "e_insert" /\ u.id = t.id /\ u.now = t.now /\ u.ver = t.ver /\ u.req = t.req
          /\ u.body = (IF t.req # "keep" THEN t.req
                                                      ELSE IF versions[t.id][t.ver - 1] = "redacted" THEN "empty"
                                                      ELSE versions[t.id][t.ver - 1])
          /\ u.state = t.state /\ u.hit = t.hit /\ u.low = t.low /\ t.pc = "e_version"
      BY <1>0, <1>3 DEF TxRecords, EditSelectVersion
    <3>4. TxGood(u)
      BY <1>0, <3>1, <1>3, <2>2, <3>3 DEF TxGood, InPublish, InEdit, InTombstone,
         InRedact, InGet, HoldsLive
    <3>5. \A g \in Others(h) : Compatible(u, tx[g])
      BY <1>0, <1>3, <3>3 DEF Compatible
    <3>6. tx' = [tx EXCEPT ![h] = u] /\ UNCHANGED Tables /\ clock' \in 0..MaxClock
      BY <1>0, <1>3, <2>2 DEF EditSelectVersion
    <3> QED  BY <3>2, <3>4, <3>5, <3>6, LocalStep
  <2> QED  BY <2>1, <2>2
<1>4. CASE EditInsertVersion(h)
  <2>1. CASE Finish(h)
    BY <1>4, <2>1, FinishStep DEF EditInsertVersion
  <2>2. CASE ~Finish(h)
    <3> DEFINE u == [t EXCEPT !.pc = "e_update"]
    <3>1. u \in TxRecords
      BY <1>0 DEF TxRecords
    <3>2. /\ u.pc = "e_update" /\ u.id = t.id /\ u.now = t.now /\ u.ver = t.ver /\ u.req = t.req
          /\ u.body = t.body /\ u.state = t.state /\ u.hit = t.hit /\ u.low = t.low
          /\ t.pc = "e_insert"
      BY <1>0, <1>4 DEF TxRecords, EditInsertVersion
    <3>3. TxGood(u)
      BY <1>0, <1>4, <2>2, <3>2 DEF TxGood, InPublish, InEdit, InTombstone,
         InRedact, InGet, HoldsLive, Exists, Versions, EditInsertVersion, TxRecords
    <3>4. \A g \in Others(h) : Compatible(u, tx[g])
      BY <1>0, <1>4, <3>2 DEF Compatible, EditInsertVersion, HoldsNewVersion
    <3>5. tx' = [tx EXCEPT ![h] = u] /\ UNCHANGED Tables /\ clock' \in 0..MaxClock
      BY <1>0, <1>4, <2>2 DEF EditInsertVersion, Go
    <3> QED  BY <3>1, <3>3, <3>4, <3>5, LocalStep
  <2> QED  BY <2>1, <2>2
<1>5. CASE EditUpdateLive(h)
  <2> DEFINE u == [t EXCEPT !.pc = "e_commit", !.hit = HasLive(t.id)]
  <2>1. u \in TxRecords
    BY <1>0 DEF TxRecords, HasLive
  <2>2. /\ u.pc = "e_commit" /\ u.id = t.id /\ u.now = t.now /\ u.ver = t.ver /\ u.req = t.req
        /\ u.body = t.body /\ u.state = t.state /\ u.hit = HasLive(t.id) /\ u.low = t.low
        /\ t.pc = "e_update"
    BY <1>0, <1>5 DEF TxRecords, EditUpdateLive
  <2>3. TxGood(u)
    BY <1>0, <1>5, <2>2 DEF TxGood, InPublish, InEdit, InTombstone,
       InRedact, InGet, HoldsLive
  <2>4. \A g \in Others(h) : Compatible(u, tx[g])
    BY <1>0, <1>5, <2>2 DEF Compatible, EditUpdateLive, LocksLive
  <2>5. tx' = [tx EXCEPT ![h] = u] /\ UNCHANGED Tables /\ clock' \in 0..MaxClock
    BY <1>0, <1>5 DEF EditUpdateLive
  <2> QED  BY <2>1, <2>3, <2>4, <2>5, LocalStep
<1> QED  BY <1>1, <1>2, <1>3, <1>4, <1>5

\* tombstone's statements before COMMIT preserve the invariant.
LEMMA TombstoneLocal ==
  ASSUME IndInv, NEW h \in Handlers,
         \/ TombstoneSelectArticle(h) \/ TombstoneUpdateArticle(h)
         \/ TombstoneInsertRow(h) \/ TombstoneDeleteLive(h)
  PROVE  IndInv'
<1> USE DEF EditPCs, TombPCs, RedactPCs, GetPCs
<1> DEFINE t == tx[h]
<1>0. /\ t \in TxRecords /\ TxGood(t) /\ clock \in 0..MaxClock
      /\ \A g \in Others(h) : Compatible(t, tx[g])
      /\ {"t_update", "t_insert", "t_delete", "t_commit"} \subseteq PCs
  BY DEF IndInv, TypeOK, Others, PCs
<1>1. CASE TombstoneSelectArticle(h)
  <2>1. CASE Finish(h)
    BY <1>1, <2>1, FinishStep DEF TombstoneSelectArticle
  <2>2. CASE ~Finish(h)
    <3> DEFINE u == [t EXCEPT !.pc = "t_update"]
    <3>1. u \in TxRecords
      BY <1>0 DEF TxRecords
    <3>2. /\ u.pc = "t_update" /\ u.id = t.id /\ u.now = t.now /\ u.ver = t.ver /\ u.req = t.req
          /\ u.body = t.body /\ u.state = t.state /\ u.hit = t.hit /\ u.low = t.low
          /\ t.pc = "t_article"
      BY <1>0, <1>1 DEF TxRecords, TombstoneSelectArticle
    <3>3. TxGood(u)
      BY <1>0, <1>1, <2>2, <3>2 DEF TxGood, InPublish, InEdit, InTombstone,
         InRedact, InGet, HoldsLive
    <3>4. \A g \in Others(h) : Compatible(u, tx[g])
      BY <1>0, <1>1, <3>2 DEF Compatible
    <3>5. tx' = [tx EXCEPT ![h] = u] /\ UNCHANGED Tables /\ clock' \in 0..MaxClock
      BY <1>0, <1>1, <2>2 DEF TombstoneSelectArticle, Go
    <3> QED  BY <3>1, <3>3, <3>4, <3>5, LocalStep
  <2> QED  BY <2>1, <2>2
<1>2. CASE TombstoneUpdateArticle(h)
  <2> DEFINE u == [t EXCEPT !.pc = "t_insert"]
  <2>1. u \in TxRecords
    BY <1>0 DEF TxRecords
  <2>2. /\ u.pc = "t_insert" /\ u.id = t.id /\ u.now = t.now /\ u.ver = t.ver /\ u.req = t.req
        /\ u.body = t.body /\ u.state = t.state /\ u.hit = t.hit /\ u.low = t.low
        /\ t.pc = "t_update"
    BY <1>0, <1>2 DEF TxRecords, TombstoneUpdateArticle
  <2>3. TxGood(u)
    BY <1>0, <1>2, <2>2 DEF TxGood, InPublish, InEdit, InTombstone,
       InRedact, InGet, HoldsLive
  <2>4. \A g \in Others(h) : Compatible(u, tx[g])
    BY <1>0, <1>2, <2>2 DEF Compatible, TombstoneUpdateArticle, LocksArticle
  <2>5. tx' = [tx EXCEPT ![h] = u] /\ UNCHANGED Tables /\ clock' \in 0..MaxClock
    BY <1>0, <1>2 DEF TombstoneUpdateArticle, Go
  <2> QED  BY <2>1, <2>3, <2>4, <2>5, LocalStep
<1>3. CASE TombstoneInsertRow(h)
  <2>1. CASE Finish(h)
    BY <1>3, <2>1, FinishStep DEF TombstoneInsertRow
  <2>2. CASE ~Finish(h)
    <3> DEFINE u == [t EXCEPT !.pc = "t_delete"]
    <3>1. u \in TxRecords
      BY <1>0 DEF TxRecords
    <3>2. /\ u.pc = "t_delete" /\ u.id = t.id /\ u.now = t.now /\ u.ver = t.ver /\ u.req = t.req
          /\ u.body = t.body /\ u.state = t.state /\ u.hit = t.hit /\ u.low = t.low
          /\ t.pc = "t_insert"
      BY <1>0, <1>3 DEF TxRecords, TombstoneInsertRow
    <3>3. TxGood(u)
      BY <1>0, <1>3, <2>2, <3>2 DEF TxGood, InPublish, InEdit, InTombstone,
         InRedact, InGet, HoldsLive, TombstoneInsertRow
    <3>4. \A g \in Others(h) : Compatible(u, tx[g])
      BY <1>0, <1>3, <3>2 DEF Compatible
    <3>5. tx' = [tx EXCEPT ![h] = u] /\ UNCHANGED Tables /\ clock' \in 0..MaxClock
      BY <1>0, <1>3, <2>2 DEF TombstoneInsertRow, Go
    <3> QED  BY <3>1, <3>3, <3>4, <3>5, LocalStep
  <2> QED  BY <2>1, <2>2
<1>4. CASE TombstoneDeleteLive(h)
  <2> DEFINE u == [t EXCEPT !.pc = "t_commit", !.hit = HasLive(t.id)]
  <2>1. HasLive(t.id) /\ HasLive(t.id) \in BOOLEAN
    BY <1>0, <1>4 DEF TombstoneDeleteLive, TxGood, InTombstone, IndInv, TypeOK, TablesGood,
       TableFamily, HasLive
  <2>2. u \in TxRecords
    BY <1>0, <2>1 DEF TxRecords
  <2>3. /\ u.pc = "t_commit" /\ u.id = t.id /\ u.now = t.now /\ u.ver = t.ver /\ u.req = t.req
        /\ u.body = t.body /\ u.state = t.state /\ u.hit = HasLive(t.id) /\ u.low = t.low
        /\ t.pc = "t_delete"
    BY <1>0, <1>4 DEF TxRecords, TombstoneDeleteLive
  <2>4. TxGood(u)
    BY <1>0, <2>1, <1>4, <2>3 DEF TxGood, InPublish, InEdit, InTombstone,
       InRedact, InGet, HoldsLive
  <2>5. \A g \in Others(h) : Compatible(u, tx[g])
    BY <1>0, <1>4, <2>3 DEF Compatible, TombstoneDeleteLive, LocksLive
  <2>6. tx' = [tx EXCEPT ![h] = u] /\ UNCHANGED Tables /\ clock' \in 0..MaxClock
    BY <1>0, <1>4 DEF TombstoneDeleteLive
  <2> QED  BY <2>2, <2>4, <2>5, <2>6, LocalStep
<1> QED  BY <1>1, <1>2, <1>3, <1>4

\* redact_version's statements before COMMIT preserve the invariant.
LEMMA RedactLocal ==
  ASSUME IndInv, NEW h \in Handlers,
         \/ RedactSelectArticle(h) \/ RedactSelectVersion(h) \/ RedactUpdateVersion(h)
         \/ RedactSelectLive(h) \/ RedactBumpLive(h)
  PROVE  IndInv'
<1> USE DEF EditPCs, TombPCs, RedactPCs, GetPCs
<1> DEFINE t == tx[h]
<1>0. /\ t \in TxRecords /\ TxGood(t) /\ clock \in 0..MaxClock
      /\ \A g \in Others(h) : Compatible(t, tx[g])
      /\ {"r_version", "r_update", "r_live", "r_bump", "r_commit"} \subseteq PCs
  BY DEF IndInv, TypeOK, Others, PCs
<1>1. CASE RedactSelectArticle(h)
  <2>1. CASE Finish(h)
    BY <1>1, <2>1, FinishStep DEF RedactSelectArticle
  <2>2. CASE ~Finish(h)
    <3> DEFINE u == [t EXCEPT !.pc = "r_version", !.state = articles[t.id]]
    <3>1. articles[t.id] \in {"none", "live", "tombstone"}
      BY <1>0, <1>1 DEF RedactSelectArticle, TxGood, IndInv, TypeOK
    <3>2. u \in TxRecords
      BY <1>0, <3>1 DEF TxRecords
    <3>3. /\ u.pc = "r_version" /\ u.id = t.id /\ u.now = t.now /\ u.ver = t.ver /\ u.req = t.req
          /\ u.body = t.body /\ u.state = articles[t.id] /\ u.hit = t.hit /\ u.low = t.low
          /\ t.pc = "r_article"
      BY <1>0, <1>1 DEF TxRecords, RedactSelectArticle
    <3>4. TxGood(u)
      BY <1>0, <3>1, <1>1, <2>2, <3>3 DEF TxGood, InPublish, InEdit, InTombstone,
         InRedact, InGet, HoldsLive
    <3>5. \A g \in Others(h) : Compatible(u, tx[g])
      BY <1>0, <1>1, <3>3 DEF Compatible
    <3>6. tx' = [tx EXCEPT ![h] = u] /\ UNCHANGED Tables /\ clock' \in 0..MaxClock
      BY <1>0, <1>1, <2>2 DEF RedactSelectArticle
    <3> QED  BY <3>2, <3>4, <3>5, <3>6, LocalStep
  <2> QED  BY <2>1, <2>2
<1>2. CASE RedactSelectVersion(h)
  <2>1. CASE Finish(h)
    BY <1>2, <2>1, FinishStep DEF RedactSelectVersion
  <2>2. CASE ~Finish(h)
    <3> DEFINE u == [t EXCEPT !.pc = "r_update"]
    <3>1. u \in TxRecords
      BY <1>0 DEF TxRecords
    <3>2. /\ u.pc = "r_update" /\ u.id = t.id /\ u.now = t.now /\ u.ver = t.ver /\ u.req = t.req
          /\ u.body = t.body /\ u.state = t.state /\ u.hit = t.hit /\ u.low = t.low
          /\ t.pc = "r_version"
      BY <1>0, <1>2 DEF TxRecords, RedactSelectVersion
    <3>3. TxGood(u)
      BY <1>0, <1>2, <2>2, <3>2 DEF TxGood, InPublish, InEdit, InTombstone,
         InRedact, InGet, HoldsLive, RedactSelectVersion
    <3>4. \A g \in Others(h) : Compatible(u, tx[g])
      BY <1>0, <1>2, <3>2 DEF Compatible
    <3>5. tx' = [tx EXCEPT ![h] = u] /\ UNCHANGED Tables /\ clock' \in 0..MaxClock
      BY <1>0, <1>2, <2>2 DEF RedactSelectVersion, Go
    <3> QED  BY <3>1, <3>3, <3>4, <3>5, LocalStep
  <2> QED  BY <2>1, <2>2
<1>3. CASE RedactUpdateVersion(h)
  <2> DEFINE u == [t EXCEPT !.pc = (IF t.state = "live" THEN "r_live" ELSE "r_commit")]
  <2>1. u \in TxRecords
    BY <1>0 DEF TxRecords
  <2>2. /\ u.pc = (IF t.state = "live" THEN "r_live" ELSE "r_commit") /\ u.id = t.id
        /\ u.now = t.now /\ u.ver = t.ver /\ u.req = t.req /\ u.body = t.body /\ u.state = t.state
        /\ u.hit = t.hit /\ u.low = t.low /\ t.pc = "r_update"
    BY <1>0, <1>3 DEF TxRecords, RedactUpdateVersion
  <2>3. TxGood(u)
    BY <1>0, <1>3, <2>2 DEF TxGood, InPublish, InEdit, InTombstone,
       InRedact, InGet, HoldsLive
  <2>4. \A g \in Others(h) : Compatible(u, tx[g])
    BY <1>0, <1>3, <2>2 DEF Compatible
  <2>5. tx' = [tx EXCEPT ![h] = u] /\ UNCHANGED Tables /\ clock' \in 0..MaxClock
    BY <1>0, <1>3 DEF RedactUpdateVersion, Go
  <2> QED  BY <2>1, <2>3, <2>4, <2>5, LocalStep
<1>4. CASE RedactSelectLive(h)
  <2>1. CASE Finish(h)
    BY <1>4, <2>1, FinishStep DEF RedactSelectLive
  <2>2. CASE ~Finish(h)
    <3> DEFINE u == [t EXCEPT !.pc = (IF live[t.id].current_version = t.ver THEN "r_bump" ELSE "r_commit")]
    <3>1. u \in TxRecords
      BY <1>0 DEF TxRecords
    <3>2. /\ u.pc = (IF live[t.id].current_version = t.ver THEN "r_bump" ELSE "r_commit")
          /\ u.id = t.id /\ u.now = t.now /\ u.ver = t.ver /\ u.req = t.req /\ u.body = t.body
          /\ u.state = t.state /\ u.hit = t.hit /\ u.low = t.low /\ t.pc = "r_live"
      BY <1>0, <1>4 DEF TxRecords, RedactSelectLive
    <3>3. TxGood(u)
      BY <1>0, <1>4, <2>2, <3>2 DEF TxGood, InPublish, InEdit, InTombstone,
         InRedact, InGet, HoldsLive
    <3>4. \A g \in Others(h) : Compatible(u, tx[g])
      BY <1>0, <1>4, <3>2 DEF Compatible
    <3>5. tx' = [tx EXCEPT ![h] = u] /\ UNCHANGED Tables /\ clock' \in 0..MaxClock
      BY <1>0, <1>4, <2>2 DEF RedactSelectLive, Go
    <3> QED  BY <3>1, <3>3, <3>4, <3>5, LocalStep
  <2> QED  BY <2>1, <2>2
<1>5. CASE RedactBumpLive(h)
  <2> DEFINE u == [t EXCEPT !.pc = "r_commit", !.hit = HasLive(t.id)]
  <2>1. u \in TxRecords
    BY <1>0 DEF TxRecords, HasLive
  <2>2. /\ u.pc = "r_commit" /\ u.id = t.id /\ u.now = t.now /\ u.ver = t.ver /\ u.req = t.req
        /\ u.body = t.body /\ u.state = t.state /\ u.hit = HasLive(t.id) /\ u.low = t.low
        /\ t.pc = "r_bump"
    BY <1>0, <1>5 DEF TxRecords, RedactBumpLive
  <2>3. TxGood(u)
    BY <1>0, <1>5, <2>2 DEF TxGood, InPublish, InEdit, InTombstone,
       InRedact, InGet, HoldsLive
  <2>4. \A g \in Others(h) : Compatible(u, tx[g])
    BY <1>0, <1>5, <2>2 DEF Compatible, RedactBumpLive, LocksLive
  <2>5. tx' = [tx EXCEPT ![h] = u] /\ UNCHANGED Tables /\ clock' \in 0..MaxClock
    BY <1>0, <1>5 DEF RedactBumpLive
  <2> QED  BY <2>1, <2>3, <2>4, <2>5, LocalStep
<1> QED  BY <1>1, <1>2, <1>3, <1>4, <1>5

\* get's reads preserve the invariant.
LEMMA GetLocal ==
  ASSUME IndInv, NEW h \in Handlers,
         GetArticle(h) \/ GetLive(h) \/ GetVersion(h) \/ GetTombstone(h)
  PROVE  IndInv'
<1> USE DEF EditPCs, TombPCs, RedactPCs, GetPCs
<1> DEFINE t == tx[h]
<1>0. /\ t \in TxRecords /\ TxGood(t) /\ clock \in 0..MaxClock
      /\ \A g \in Others(h) : Compatible(t, tx[g])
      /\ {"g_live", "g_version", "g_tomb"} \subseteq PCs
  BY DEF IndInv, TypeOK, Others, PCs
<1>1. CASE GetArticle(h)
  <2>1. CASE Finish(h)
    BY <1>1, <2>1, FinishStep DEF GetArticle
  <2>2. CASE ~Finish(h)
    <3> DEFINE u == [t EXCEPT !.pc = (IF articles[t.id] = "live" THEN "g_live" ELSE "g_tomb")]
    <3>1. u \in TxRecords
      BY <1>0 DEF TxRecords
    <3>2. /\ u.pc = (IF articles[t.id] = "live" THEN "g_live" ELSE "g_tomb") /\ u.id = t.id
          /\ u.now = t.now /\ u.ver = t.ver /\ u.req = t.req /\ u.body = t.body
          /\ u.state = t.state /\ u.hit = t.hit /\ u.low = t.low /\ t.pc = "g_article"
      BY <1>0, <1>1 DEF TxRecords, GetArticle
    <3>3. TxGood(u)
      BY <1>0, <1>1, <2>2, <3>2 DEF TxGood, InPublish, InEdit, InTombstone,
         InRedact, InGet, HoldsLive
    <3>4. \A g \in Others(h) : Compatible(u, tx[g])
      BY <1>0, <1>1, <3>2 DEF Compatible
    <3>5. tx' = [tx EXCEPT ![h] = u] /\ UNCHANGED Tables /\ clock' \in 0..MaxClock
      BY <1>0, <1>1, <2>2 DEF GetArticle, Go
    <3> QED  BY <3>1, <3>3, <3>4, <3>5, LocalStep
  <2> QED  BY <2>1, <2>2
<1>2. CASE GetLive(h)
  <2>1. CASE Finish(h)
    BY <1>2, <2>1, FinishStep DEF GetLive
  <2>2. CASE ~Finish(h)
    <3> DEFINE u == [t EXCEPT !.pc = "g_version", !.ver = live[t.id].current_version]
    <3>1. /\ live[t.id].current_version \in Versions /\ live[t.id].current_version \in 0..MaxVersion
          /\ versions[t.id][live[t.id].current_version] # "none"
          /\ articles[t.id] = "live"
      BY <1>0, <1>2, <2>2, BoundsAssumption DEF GetLive, HasLive, IndInv, TypeOK, TablesGood,
         TableFamily, CurrentIsNewest, Exists, Versions, TxGood
    <3>2. u \in TxRecords
      BY <1>0, <3>1 DEF TxRecords
    <3>3. /\ u.pc = "g_version" /\ u.id = t.id /\ u.now = t.now
          /\ u.ver = live[t.id].current_version /\ u.req = t.req /\ u.body = t.body
          /\ u.state = t.state /\ u.hit = t.hit /\ u.low = t.low /\ t.pc = "g_live"
      BY <1>0, <1>2 DEF TxRecords, GetLive
    <3>4. TxGood(u)
      BY <1>0, <3>1, <1>2, <2>2, <3>3 DEF TxGood, InPublish, InEdit, InTombstone,
         InRedact, InGet, HoldsLive, Floor
    <3>5. \A g \in Others(h) : Compatible(u, tx[g])
      BY <1>0, <1>2, <3>3 DEF Compatible
    <3>6. tx' = [tx EXCEPT ![h] = u] /\ UNCHANGED Tables /\ clock' \in 0..MaxClock
      BY <1>0, <1>2, <2>2 DEF GetLive
    <3> QED  BY <3>2, <3>4, <3>5, <3>6, LocalStep
  <2> QED  BY <2>1, <2>2
<1>3. CASE GetVersion(h) \/ GetTombstone(h)
  BY <1>3, FinishStep DEF GetVersion, GetTombstone
<1> QED  BY <1>1, <1>2, <1>3

-----------------------------------------------------------------------------
(* The commits: the steps that change the tables. *)

\* After a commit the handler reads back or ends; what remains to show is that
\* the tables and the other handlers' assumptions are preserved.
LEMMA CommitStep ==
  ASSUME IndInv, NEW h \in Handlers, NEW a \in Ids, NEW n \in 0..(MaxVersion + 1),
         NEW u, u \in {IdleTx, NewTx("g_article", a, 0, 0, "none", n)},
         tx' = [tx EXCEPT ![h] = u], UNCHANGED clock,
         articles' \in [Ids -> {"none", "live", "tombstone"}],
         live' \in [Ids -> [current_version : 0..MaxVersion, updated_at : 0..MaxClock]],
         tomb' \in [Ids -> 0..MaxClock],
         versions' \in [Ids -> [Versions -> Content]],
         TablesGood', n <= Floor(a)',
         \A g \in Others(h) : TxGood(tx[g])'
  PROVE  IndInv'
<1> USE DEF EditPCs, TombPCs, RedactPCs, GetPCs
<1>0. u \in TxRecords
  <2>1. {"idle", "g_article"} \subseteq PCs
    BY DEF PCs
  <2>2. CASE u = IdleTx
    BY <2>2, IdleRecord
  <2>3. CASE u = NewTx("g_article", a, 0, 0, "none", n)
    BY <2>1, <2>3, BoundsAssumption DEF NewTx, TxRecords
  <2> QED  BY <2>2, <2>3
<1>1. TypeOK'
  BY <1>0 DEF IndInv, TypeOK
<1>2. \A g \in Handlers : tx'[g] = IF g = h THEN u ELSE tx[g]
  BY DEF IndInv, TypeOK
<1>3. /\ u.hit = FALSE /\ u.pc \in {"idle", "g_article"}
      /\ u.pc = "g_article" => u.id = a /\ u.low = n
  BY DEF IdleTx, NewTx
<1>4. TxGood(u)'
  BY <1>3 DEF TxGood, InPublish, InEdit, InTombstone, InRedact, InGet, HoldsLive
<1>5. \A g \in Handlers : TxGood(tx[g])'
  BY <1>2, <1>4 DEF Others
<1>6. \A f, g \in Handlers : f # g => Compatible(tx[f], tx[g])'
  BY <1>2, <1>3 DEF IndInv, Compatible
<1> QED  BY <1>1, <1>5, <1>6 DEF IndInv

\* publish's commit preserves the invariant: nobody relies on an id without rows.
LEMMA PublishCommitStep ==
  ASSUME IndInv, NEW h \in Handlers, PublishCommit(h)
  PROVE  IndInv'
<1> USE DEF EditPCs, TombPCs, RedactPCs, GetPCs
<1>a. PICK t \in TxRecords : t = tx[h] /\ TxGood(t) /\ t.pc = "p_commit"
  BY DEF IndInv, TypeOK, PublishCommit
<1> DEFINE a == t.id
<1>0. /\ a \in Ids /\ t.pc = "p_commit" /\ t.req \in Bodies /\ t.req # "none"
      /\ articles[a] = "none" /\ t.now \in 0..MaxClock /\ t.hit = FALSE
      /\ 1 \in Versions
  BY <1>a, BoundsAssumption, NamesAssumption DEF TxRecords, TxGood, InPublish, HoldsLive, Versions, Marks
<1>1. /\ articles' = [articles EXCEPT ![a] = "live"]
      /\ live' = [live EXCEPT ![a] = [current_version |-> 1, updated_at |-> t.now]]
      /\ versions' = [versions EXCEPT ![a][1] = t.req]
      /\ tx' = [tx EXCEPT ![h] = NewTx("g_article", a, 0, 0, "none", 1)]
      /\ tomb' = tomb /\ clock' = clock
  BY <1>a DEF PublishCommit, ReadBack
<1>2. /\ articles' \in [Ids -> {"none", "live", "tombstone"}]
      /\ live' \in [Ids -> [current_version : 0..MaxVersion, updated_at : 0..MaxClock]]
      /\ tomb' \in [Ids -> 0..MaxClock]
      /\ versions' \in [Ids -> [Versions -> Content]]
  BY <1>0, <1>1, BoundsAssumption DEF IndInv, TypeOK, Content
<1>3. TablesGood'
  <2>1. TableFamily'
    BY <1>0, <1>1 DEF IndInv, TypeOK, TablesGood, TableFamily, HasLive
  <2>2. CurrentIsNewest'
    <3>1. \A v \in Versions : versions[a][v] = "none"
      BY <1>0 DEF IndInv, TablesGood, NoOrphans
    <3>2. SUFFICES ASSUME NEW b \in Ids, articles'[b] = "live", NEW v \in Versions
                   PROVE  versions'[b][v] # "none" <=> v <= live'[b].current_version
      BY DEF CurrentIsNewest, Exists
    <3>3. CASE b # a
      BY <1>0, <1>1, <3>2, <3>3 DEF IndInv, TypeOK, TablesGood, CurrentIsNewest, Exists
    <3>4. CASE b = a
      <4>1. live'[a].current_version = 1
        BY <1>0, <1>1 DEF IndInv, TypeOK
      <4>2. versions'[a][v] = IF v = 1 THEN t.req ELSE "none"
        BY <1>0, <1>1, <3>1, <3>2 DEF IndInv, TypeOK
      <4> QED  BY <1>0, <3>2, <3>4, <4>1, <4>2 DEF Versions
    <3> QED  BY <3>3, <3>4
  <2>3. NoOrphans'
    BY <1>0, <1>1 DEF IndInv, TypeOK, TablesGood, NoOrphans
  <2> QED  BY <2>1, <2>2, <2>3 DEF TablesGood
<1>4. 1 <= Floor(a)'
  BY <1>0, <1>1, BoundsAssumption DEF Floor, IndInv, TypeOK
<1>5. ASSUME NEW g \in Others(h) PROVE TxGood(tx[g])'
  <2>1. PICK w \in TxRecords : w = tx[g] /\ TxGood(w) /\ tx'[g] = w /\ Compatible(w, t)
    BY <1>a, <1>1, <1>5 DEF IndInv, TypeOK, Others
  <2>2. CASE w.id # a
    BY <1>0, <1>1, <2>1, <2>2 DEF TxGood, InPublish, InEdit, InTombstone, InRedact, InGet, HoldsLive,
       HasLive, Floor, IndInv, TypeOK
  <2>3. CASE w.id = a
    <3>1. /\ \A v \in Versions : versions[a][v] = "none"
          /\ ~HasLive(a) /\ live[a].current_version \in 0..MaxVersion
      BY <1>0 DEF IndInv, TypeOK, TablesGood, NoOrphans, TableFamily
    <3>2. w.pc \in {"idle", "r_article", "r_version", "g_article", "g_live", "g_tomb"} /\ ~w.hit
      BY <1>0, <2>1, <2>3, <3>1 DEF TxGood, InEdit, InTombstone, InRedact, InGet, HoldsLive, Compatible,
         TxRecords, PCs
    <3>3. w.pc \in GetPCs => w.low <= Floor(a)'
      BY <1>0, <1>1, <2>1, <2>3, <3>1, BoundsAssumption DEF TxGood, InGet, Floor, HasLive, IndInv, TypeOK,
         TxRecords
    <3> QED  BY <1>0, <2>1, <2>3, <3>2, <3>3 DEF TxGood, InPublish, InEdit, InTombstone, InRedact, InGet,
                HoldsLive
  <2> QED  BY <2>2, <2>3
<1> HIDE DEF a
<1>6. 1 \in 0..(MaxVersion + 1)
  BY BoundsAssumption
<1> QED  BY <1>0, <1>1, <1>2, <1>3, <1>4, <1>5, <1>6, CommitStep

\* edit's commit preserves the invariant.  It holds the key of the version it
\* inserts, which is therefore still absent, while the one below is present: if
\* the article is live its current version is exactly the one edit read.
LEMMA EditCommitStep ==
  ASSUME IndInv, NEW h \in Handlers, EditCommit(h)
  PROVE  IndInv'
<1> USE DEF EditPCs, TombPCs, RedactPCs, GetPCs
<1>a. PICK t \in TxRecords : t = tx[h] /\ TxGood(t) /\ t.pc = "e_commit"
  BY DEF IndInv, TypeOK, EditCommit
<1> DEFINE a == t.id
           n == IF t.hit THEN t.ver ELSE NoLiveView
<1>0. /\ t.pc = "e_commit" /\ a \in Ids /\ t.now \in 0..MaxClock
      /\ t.ver \in Versions /\ t.ver - 1 \in Versions /\ versions[a][t.ver - 1] # "none"
      /\ t.body \in Bodies \union {"empty"} /\ t.body # "none" /\ versions[a][t.ver] = "none"
      /\ t.hit <=> HasLive(a)
      /\ articles[a] # "none"
  BY <1>a, BoundsAssumption DEF TxRecords, TxGood, InEdit, HoldsLive, Versions
<1>1. /\ versions' = [versions EXCEPT ![a][t.ver] = t.body]
      /\ live' = IF t.hit THEN [live EXCEPT ![a] = [current_version |-> t.ver, updated_at |-> t.now]]
                          ELSE live
      /\ tx' = [tx EXCEPT ![h] = NewTx("g_article", a, 0, 0, "none", n)]
      /\ articles' = articles /\ tomb' = tomb /\ clock' = clock
  BY <1>a DEF EditCommit, ReadBack
<1>2. /\ articles' \in [Ids -> {"none", "live", "tombstone"}]
      /\ live' \in [Ids -> [current_version : 0..MaxVersion, updated_at : 0..MaxClock]]
      /\ tomb' \in [Ids -> 0..MaxClock]
      /\ versions' \in [Ids -> [Versions -> Content]]
  <2>1. live' \in [Ids -> [current_version : 0..MaxVersion, updated_at : 0..MaxClock]]
    BY <1>0, <1>1, BoundsAssumption DEF IndInv, TypeOK, Versions
  <2>2. versions' \in [Ids -> [Versions -> Content]]
    BY <1>0, <1>1 DEF IndInv, TypeOK, Content
  <2> QED  BY <1>1, <2>1, <2>2 DEF IndInv, TypeOK
<1>3. articles[a] = "live" => t.hit /\ live[a].current_version = t.ver - 1
  <2>1. SUFFICES ASSUME articles[a] = "live" PROVE t.hit /\ live[a].current_version = t.ver - 1
    OBVIOUS
  <2>2. t.hit
    BY <1>0, <2>1 DEF IndInv, TablesGood, TableFamily
  <2>3. \A v \in Versions : versions[a][v] # "none" <=> v <= live[a].current_version
    BY <1>0, <2>1 DEF IndInv, TablesGood, CurrentIsNewest, Exists
  <2>4. live[a].current_version \in 0..MaxVersion
    BY <1>0 DEF IndInv, TypeOK
  <2> QED  BY <1>0, <2>2, <2>3, <2>4 DEF Versions
<1>4. TablesGood'
  <2>1. TableFamily'
    BY <1>0, <1>1, BoundsAssumption DEF IndInv, TypeOK, TablesGood, TableFamily, HasLive, Versions
  <2>2. CurrentIsNewest'
    <3>1. SUFFICES ASSUME NEW b \in Ids, articles[b] = "live", NEW v \in Versions
                   PROVE  versions'[b][v] # "none" <=> v <= live'[b].current_version
      BY <1>1 DEF CurrentIsNewest, Exists
    <3>2. versions[b][v] # "none" <=> v <= live[b].current_version
      BY <3>1 DEF IndInv, TablesGood, CurrentIsNewest, Exists
    <3>3. CASE b # a
      BY <1>0, <1>1, <3>2, <3>3 DEF IndInv, TypeOK
    <3>4. CASE b = a
      <4>1. live'[a].current_version = t.ver /\ live[a].current_version = t.ver - 1
        BY <1>0, <1>1, <1>3, <3>1, <3>4 DEF IndInv, TypeOK
      <4>2. versions'[a][v] = IF v = t.ver THEN t.body ELSE versions[a][v]
        BY <1>0, <1>1, <3>1 DEF IndInv, TypeOK
      <4> QED  BY <1>0, <3>1, <3>2, <3>4, <4>1, <4>2 DEF Versions
    <3> QED  BY <3>3, <3>4
  <2>3. NoOrphans'
    BY <1>0, <1>1 DEF IndInv, TypeOK, TablesGood, NoOrphans
  <2> QED  BY <2>1, <2>2, <2>3 DEF TablesGood
<1>5. n \in 0..(MaxVersion + 1) /\ n <= Floor(a)'
  <2>1. CASE t.hit
    BY <1>0, <1>1, <2>1, BoundsAssumption DEF Floor, NoLiveView, Versions, IndInv, TypeOK
  <2>2. CASE ~t.hit
    <3>1. articles[a] = "tombstone"
      BY <1>0, <2>2 DEF IndInv, TypeOK, TablesGood, TableFamily
    <3> QED  BY <1>1, <2>2, <3>1, BoundsAssumption DEF Floor, NoLiveView
  <2> QED  BY <2>1, <2>2
<1>6. ASSUME NEW g \in Others(h) PROVE TxGood(tx[g])'
  <2>1. PICK w \in TxRecords : w = tx[g] /\ TxGood(w) /\ tx'[g] = w /\ Compatible(w, t)
    BY <1>a, <1>1, <1>6 DEF IndInv, TypeOK, Others
  <2>2. CASE w.id # a
    BY <1>0, <1>1, <2>1, <2>2 DEF TxGood, InPublish, InEdit, InTombstone, InRedact, InGet, HoldsLive,
       HasLive, Floor, IndInv, TypeOK
  <2>3. CASE w.id = a
    <3>1. HasLive(a)' <=> HasLive(a)
      BY <1>0, <1>1 DEF HasLive, IndInv, TypeOK, Versions
    <3>2. \A v \in Versions : versions[a][v] # "none" => versions'[a][v] # "none"
      BY <1>0, <1>1 DEF IndInv, TypeOK
    <3>3. \A v \in Versions : v # t.ver => versions'[a][v] = versions[a][v]
      BY <1>0, <1>1 DEF IndInv, TypeOK
    <3>4. InEdit(w)'
      BY <1>0, <1>1, <2>1, <2>3, <3>1, <3>2, <3>3 DEF TxGood, InEdit, Compatible, TxRecords, Versions
    <3>5. InPublish(w)' /\ InTombstone(w)' /\ InRedact(w)' /\ HoldsLive(w)'
      BY <1>0, <1>1, <2>1, <2>3, <3>1, <3>2 DEF TxGood, InPublish, InTombstone, InRedact, HoldsLive
    <3>6. Floor(a) <= Floor(a)'
      BY <1>0, <1>1, <1>3, BoundsAssumption DEF Floor, NoLiveView, IndInv, TypeOK, TablesGood,
         TableFamily, HasLive, Versions
    <3>7. InGet(w)'
      <4>1. /\ w.low \in Int /\ Floor(a) \in Int /\ Floor(a)' \in Int
        BY <1>0, <1>2, <2>1, BoundsAssumption DEF Floor, NoLiveView, IndInv, TypeOK, TxRecords
      <4> QED  BY <1>0, <2>1, <2>3, <3>2, <3>6, <4>1 DEF TxGood, InGet
    <3> QED  BY <2>1, <3>4, <3>5, <3>7 DEF TxGood
  <2> QED  BY <2>2, <2>3
<1> HIDE DEF a, n
<1> QED  BY <1>0, <1>1, <1>2, <1>4, <1>5, <1>6, CommitStep

\* tombstone's commit preserves the invariant: it holds both the articles row
\* and the articles_live row, so nobody else counts on the latter.
LEMMA TombstoneCommitStep ==
  ASSUME IndInv, NEW h \in Handlers, TombstoneCommit(h)
  PROVE  IndInv'
<1> USE DEF EditPCs, TombPCs, RedactPCs, GetPCs
<1>a. PICK t \in TxRecords : t = tx[h] /\ TxGood(t) /\ t.pc = "t_commit"
  BY DEF IndInv, TypeOK, TombstoneCommit
<1> DEFINE a == t.id
<1>0. /\ t.pc = "t_commit" /\ a \in Ids /\ t.now \in 0..MaxClock /\ t.now # 0
      /\ t.hit /\ articles[a] # "none" /\ HasLive(a)
  BY <1>a DEF TxRecords, TxGood, InTombstone, HoldsLive
<1>1. /\ articles' = [articles EXCEPT ![a] = "tombstone"]
      /\ tomb' = [tomb EXCEPT ![a] = t.now]
      /\ live' = [live EXCEPT ![a] = NoLiveRow]
      /\ tx' = [tx EXCEPT ![h] = NewTx("g_article", a, 0, 0, "none", NoLiveView)]
      /\ versions' = versions /\ clock' = clock
  BY <1>a, <1>0 DEF TombstoneCommit, ReadBack
<1>2. /\ articles' \in [Ids -> {"none", "live", "tombstone"}]
      /\ live' \in [Ids -> [current_version : 0..MaxVersion, updated_at : 0..MaxClock]]
      /\ tomb' \in [Ids -> 0..MaxClock]
      /\ versions' \in [Ids -> [Versions -> Content]]
  BY <1>0, <1>1, BoundsAssumption DEF IndInv, TypeOK, NoLiveRow
<1>3. TablesGood'
  BY <1>0, <1>1 DEF IndInv, TypeOK, TablesGood, TableFamily, CurrentIsNewest, NoOrphans, HasLive, Exists,
     NoLiveRow
<1>4. NoLiveView \in 0..(MaxVersion + 1) /\ NoLiveView <= Floor(a)'
  BY <1>0, <1>1, BoundsAssumption DEF Floor, NoLiveView, IndInv, TypeOK
<1>5. ASSUME NEW g \in Others(h) PROVE TxGood(tx[g])'
  <2>1. PICK w \in TxRecords : w = tx[g] /\ TxGood(w) /\ tx'[g] = w /\ Compatible(w, t)
    BY <1>a, <1>1, <1>5 DEF IndInv, TypeOK, Others
  <2>2. CASE w.id # a
    BY <1>0, <1>1, <2>1, <2>2 DEF TxGood, InPublish, InEdit, InTombstone, InRedact, InGet, HoldsLive,
       HasLive, Floor, IndInv, TypeOK
  <2>3. CASE w.id = a
    <3>1. ~w.hit /\ ~HasLive(a)' /\ articles'[a] = "tombstone"
      BY <1>0, <1>1, <2>1, <2>3 DEF Compatible, HasLive, NoLiveRow, IndInv, TypeOK
    <3>2. InPublish(w)' /\ InEdit(w)' /\ InRedact(w)' /\ HoldsLive(w)'
      BY <1>0, <1>1, <2>1, <2>3, <3>1 DEF TxGood, InPublish, InEdit, InRedact, HoldsLive
    <3>3. InTombstone(w)'
      BY <1>0, <2>1, <2>3, <3>1 DEF TxGood, InTombstone, Compatible
    <3>4. InGet(w)'
      BY <1>1, <2>1, <2>3, <3>1, BoundsAssumption DEF TxGood, InGet, Floor, NoLiveView, TxRecords
    <3> QED  BY <2>1, <3>2, <3>3, <3>4 DEF TxGood
  <2> QED  BY <2>2, <2>3
<1> HIDE DEF a
<1> QED  BY <1>0, <1>1, <1>2, <1>3, <1>4, <1>5, CommitStep

\* redact_version's commit preserves the invariant: it changes a row that exists
\* and never the current version.
LEMMA RedactCommitStep ==
  ASSUME IndInv, NEW h \in Handlers, RedactCommit(h)
  PROVE  IndInv'
<1> USE DEF EditPCs, TombPCs, RedactPCs, GetPCs
<1>a. PICK t \in TxRecords : t = tx[h] /\ TxGood(t) /\ t.pc = "r_commit"
  BY DEF IndInv, TypeOK, RedactCommit
<1> DEFINE a == t.id
<1>0. /\ t.pc = "r_commit" /\ a \in Ids /\ t.now \in 0..MaxClock /\ t.ver \in Versions
      /\ versions[a][t.ver] # "none"
  BY <1>a DEF TxRecords, TxGood, InRedact
<1>1. /\ versions' = [versions EXCEPT ![a][t.ver] = "redacted"]
      /\ live' = IF t.hit THEN [live EXCEPT ![a].updated_at = t.now] ELSE live
      /\ tx' = [tx EXCEPT ![h] = IdleTx]
      /\ articles' = articles /\ tomb' = tomb /\ clock' = clock
  BY <1>a DEF RedactCommit, Finish
<1>2. /\ articles' \in [Ids -> {"none", "live", "tombstone"}]
      /\ live' \in [Ids -> [current_version : 0..MaxVersion, updated_at : 0..MaxClock]]
      /\ tomb' \in [Ids -> 0..MaxClock]
      /\ versions' \in [Ids -> [Versions -> Content]]
  BY <1>0, <1>1, BoundsAssumption DEF IndInv, TypeOK, Content
<1>3. \A b \in Ids : live'[b].current_version = live[b].current_version
  BY <1>0, <1>1 DEF IndInv, TypeOK
<1>4. \A b \in Ids, v \in Versions : versions'[b][v] # "none" <=> versions[b][v] # "none"
  BY <1>0, <1>1 DEF IndInv, TypeOK
<1>5. TablesGood'
  BY <1>1, <1>3, <1>4 DEF IndInv, TypeOK, TablesGood, TableFamily, CurrentIsNewest, NoOrphans, HasLive,
     Exists
<1>6. Floor(a)' = Floor(a) /\ 0 <= Floor(a)' /\ 0 \in 0..(MaxVersion + 1)
  BY <1>0, <1>1, <1>3, BoundsAssumption DEF Floor, NoLiveView, IndInv, TypeOK
<1>7. ASSUME NEW g \in Others(h) PROVE TxGood(tx[g])'
  <2>1. PICK w \in TxRecords : w = tx[g] /\ TxGood(w) /\ tx'[g] = w
    BY <1>1, <1>7 DEF IndInv, TypeOK, Others
  <2>2. CASE w.pc = "idle"
    BY <2>1, <2>2 DEF TxGood, InPublish, InEdit, InTombstone, InRedact, InGet, HoldsLive
  <2>3. CASE w.id \in Ids
    BY <1>0, <1>1, <1>3, <1>4, <2>1, <2>3 DEF TxGood, InPublish, InEdit, InTombstone, InRedact, InGet,
       HoldsLive, HasLive, Floor, TxRecords, Versions
  <2> QED  BY <2>1, <2>2, <2>3 DEF TxGood
<1> HIDE DEF a
<1> QED  BY <1>0, <1>1, <1>2, <1>5, <1>6, <1>7, CommitStep

-----------------------------------------------------------------------------
(* The theorems. *)

\* The empty database satisfies the invariant.
LEMMA InitInv == Init => IndInv
<1> SUFFICES ASSUME Init PROVE IndInv
  OBVIOUS
<1>1. TypeOK
  BY IdleRecord, BoundsAssumption DEF Init, TypeOK, NoLiveRow, Content
<1>2. TablesGood
  BY DEF Init, TablesGood, TableFamily, CurrentIsNewest, NoOrphans, HasLive, NoLiveRow
<1>3. \A h \in Handlers : tx[h] = IdleTx
  BY DEF Init
<1> QED  BY <1>1, <1>2, <1>3, IdleRecord DEF IndInv

\* Every step preserves the invariant.
LEMMA NextInv == IndInv /\ [Next]_vars => IndInv'
<1> SUFFICES ASSUME IndInv, [Next]_vars PROVE IndInv'
  OBVIOUS
<1>1. ASSUME NEW h \in Handlers, Arrive(h) \/ Statement(h) \/ Abort(h) PROVE IndInv'
  <2>1. CASE Arrive(h)
    BY <2>1, ArriveStep
  <2>2. CASE PublishCommit(h)
    BY <2>2, PublishCommitStep
  <2>3. CASE Edit(h)
    BY <2>3, EditLocal, EditCommitStep DEF Edit
  <2>4. CASE Tombstone(h)
    BY <2>4, TombstoneLocal, TombstoneCommitStep DEF Tombstone
  <2>5. CASE Redact(h)
    BY <2>5, RedactLocal, RedactCommitStep DEF Redact
  <2>6. CASE Get(h)
    BY <2>6, GetLocal DEF Get
  <2>7. CASE Abort(h)
    BY <2>7, FinishStep DEF Abort
  <2> QED  BY <1>1, <2>1, <2>2, <2>3, <2>4, <2>5, <2>6, <2>7 DEF Statement
<1>2. CASE UNCHANGED vars
  <2>1. TypeOK' /\ TablesGood'
    BY <1>2 DEF vars, IndInv, TypeOK, TablesGood, TableFamily, CurrentIsNewest, NoOrphans, HasLive, Exists
  <2>2. \A h \in Handlers : TxGood(tx[h])'
    BY <1>2 DEF vars, IndInv, TxGood, InPublish, InEdit, InTombstone, InRedact, InGet, HoldsLive, HasLive,
       Floor
  <2>3. \A g, h \in Handlers : g # h => Compatible(tx[g], tx[h])'
    BY <1>2 DEF vars, IndInv, Compatible
  <2> QED  BY <2>1, <2>2, <2>3 DEF IndInv
<1> QED  BY <1>1, <1>2 DEF Next

\* The inductive invariant holds in every reachable state.
THEOREM Invariance == Spec => []IndInv
<1> QED  BY InitInv, NextInv, PTL DEF Spec

\* Every variable keeps its type, the bounds of versions and instants included.
THEOREM TypeCorrect == Spec => []TypeOK
<1>1. IndInv => TypeOK
  BY DEF IndInv
<1> QED  BY <1>1, Invariance, PTL

\* The articles row agrees with its child tables in every committed state, for
\* any number of concurrent publishes, edits, tombstones and redactions.
THEOREM FamilyCorrect == Spec => []TableFamily
<1>1. IndInv => TableFamily
  BY DEF IndInv, TablesGood
<1> QED  BY <1>1, Invariance, PTL

\* current_version of a live article is its newest version and the version rows
\* below it are complete.
THEOREM CurrentCorrect == Spec => []CurrentIsNewest
<1>1. IndInv => CurrentIsNewest
  BY DEF IndInv, TablesGood
<1> QED  BY <1>1, Invariance, PTL

\* get returns a whole and fresh view although it reads in three snapshots.
THEOREM GetCorrect == Spec => []GetConsistent
<1>1. IndInv => GetConsistent
  BY DEF IndInv, GetConsistent, TxGood, InGet, Exists
<1> QED  BY <1>1, Invariance, PTL

-----------------------------------------------------------------------------
(* Step properties and refinement. *)

\* Only a commit changes a table.
LEMMA CommitsOnly ==
  ASSUME [Next]_vars
  PROVE  \/ UNCHANGED Tables
         \/ \E h \in Handlers : \/ PublishCommit(h) \/ EditCommit(h)
                               \/ TombstoneCommit(h) \/ RedactCommit(h)
<1>1. CASE UNCHANGED vars
  BY <1>1 DEF vars, Tables
<1>2. ASSUME NEW h \in Handlers, Arrive(h) \/ Abort(h) PROVE UNCHANGED Tables
  BY <1>2 DEF Arrive, PublishBegin, EditBegin, TombstoneBegin, RedactBegin, GetBegin, Begin, Abort
<1>3. ASSUME NEW h \in Handlers, Edit(h) \/ Tombstone(h) \/ Redact(h) \/ Get(h)
      PROVE  UNCHANGED Tables \/ EditCommit(h) \/ TombstoneCommit(h) \/ RedactCommit(h)
  <2>1. CASE Edit(h)
    BY <2>1 DEF Edit, EditSelectArticle, EditSelectLive, EditSelectVersion, EditInsertVersion, EditUpdateLive
  <2>2. CASE Tombstone(h)
    BY <2>2 DEF Tombstone, TombstoneSelectArticle, TombstoneUpdateArticle, TombstoneInsertRow,
       TombstoneDeleteLive
  <2>3. CASE Redact(h)
    BY <2>3 DEF Redact, RedactSelectArticle, RedactSelectVersion, RedactUpdateVersion, RedactSelectLive,
       RedactBumpLive
  <2>4. CASE Get(h)
    BY <2>4 DEF Get, GetArticle, GetLive, GetVersion, GetTombstone
  <2> QED  BY <1>3, <2>1, <2>2, <2>3, <2>4
<1> QED  BY <1>1, <1>2, <1>3 DEF Next, Statement

\* What each commit relies on, from the invariant.
LEMMA CommitFacts ==
  ASSUME IndInv, NEW h \in Handlers
  PROVE  /\ tx[h] \in TxRecords
         /\ PublishCommit(h) => /\ tx[h].id \in Ids /\ articles[tx[h].id] = "none"
                                /\ tx[h].req \in Bodies /\ 1 \in Versions
                                /\ \A v \in Versions : versions[tx[h].id][v] = "none"
         /\ EditCommit(h) => /\ tx[h].id \in Ids /\ tx[h].ver \in Versions /\ tx[h].ver - 1 \in Versions
                             /\ versions[tx[h].id][tx[h].ver - 1] # "none"
                             /\ versions[tx[h].id][tx[h].ver] = "none"
                             /\ tx[h].body \in Bodies \union {"empty"}
                             /\ tx[h].hit <=> HasLive(tx[h].id)
         /\ TombstoneCommit(h) => tx[h].id \in Ids /\ tx[h].hit /\ HasLive(tx[h].id)
         /\ RedactCommit(h) => /\ tx[h].id \in Ids /\ tx[h].ver \in Versions
                               /\ versions[tx[h].id][tx[h].ver] # "none"
<1> USE DEF EditPCs, TombPCs, RedactPCs, GetPCs
<1>1. tx[h] \in TxRecords /\ TxGood(tx[h])
  BY DEF IndInv, TypeOK
<1>2. ASSUME PublishCommit(h)
      PROVE  /\ tx[h].id \in Ids /\ articles[tx[h].id] = "none" /\ tx[h].req \in Bodies
             /\ 1 \in Versions /\ \A v \in Versions : versions[tx[h].id][v] = "none"
  BY <1>1, <1>2, BoundsAssumption DEF PublishCommit, TxGood, InPublish, Versions, IndInv, TablesGood, NoOrphans
<1>3. ASSUME EditCommit(h)
      PROVE  /\ tx[h].id \in Ids /\ tx[h].ver \in Versions /\ tx[h].ver - 1 \in Versions
             /\ versions[tx[h].id][tx[h].ver - 1] # "none" /\ versions[tx[h].id][tx[h].ver] = "none"
             /\ tx[h].body \in Bodies \union {"empty"}
             /\ tx[h].hit <=> HasLive(tx[h].id)
  BY <1>1, <1>3, BoundsAssumption DEF EditCommit, TxGood, InEdit, HoldsLive, TxRecords, Versions
<1>4. ASSUME TombstoneCommit(h) PROVE tx[h].id \in Ids /\ tx[h].hit /\ HasLive(tx[h].id)
  BY <1>1, <1>4 DEF TombstoneCommit, TxGood, InTombstone, HoldsLive
<1>5. ASSUME RedactCommit(h)
      PROVE  tx[h].id \in Ids /\ tx[h].ver \in Versions /\ versions[tx[h].id][tx[h].ver] # "none"
  BY <1>1, <1>5 DEF RedactCommit, TxGood, InRedact
<1> QED  BY <1>1, <1>2, <1>3, <1>4, <1>5

\* Version rows are only ever appended, each after its predecessor, and only
\* redacted afterwards.
THEOREM AppendOnlyCorrect == Spec => AppendOnly
<1>1. ASSUME IndInv, [Next]_vars PROVE [AppendStep]_vars
  <2>1. CASE UNCHANGED Tables
    BY <2>1 DEF AppendStep, Tables
  <2>2. ASSUME NEW h \in Handlers, PublishCommit(h) PROVE AppendStep
    <3>1. versions' = [versions EXCEPT ![tx[h].id][1] = tx[h].req] /\ tx[h].req # "redacted"
      BY <1>1, <2>2, CommitFacts, NamesAssumption DEF PublishCommit, Marks
    <3> QED  BY <1>1, <2>2, <3>1, CommitFacts DEF AppendStep, IndInv, TypeOK
  <2>3. ASSUME NEW h \in Handlers, EditCommit(h) PROVE AppendStep
    <3>1. versions' = [versions EXCEPT ![tx[h].id][tx[h].ver] = tx[h].body] /\ tx[h].body # "redacted"
      BY <1>1, <2>3, CommitFacts, NamesAssumption DEF EditCommit, Marks
    <3> QED  BY <1>1, <2>3, <3>1, CommitFacts DEF AppendStep, IndInv, TypeOK, Exists
  <2>4. ASSUME NEW h \in Handlers, TombstoneCommit(h) PROVE AppendStep
    BY <2>4 DEF AppendStep, TombstoneCommit
  <2>5. ASSUME NEW h \in Handlers, RedactCommit(h) PROVE AppendStep
    <3>1. versions' = [versions EXCEPT ![tx[h].id][tx[h].ver] = "redacted"]
      BY <2>5 DEF RedactCommit
    <3> QED  BY <1>1, <2>5, <3>1, CommitFacts DEF AppendStep, IndInv, TypeOK, Exists
  <2> QED  BY <1>1, <2>1, <2>2, <2>3, <2>4, <2>5, CommitsOnly
<1> QED  BY <1>1, Invariance, PTL DEF Spec, AppendOnly

\* Every step of the statement-level model is a step of the lifecycle, or leaves
\* what the lifecycle sees alone.
LEMMA LifecycleStep ==
  ASSUME IndInv, [Next]_vars
  PROVE  [Lifecycle!Next]_(Lifecycle!lifecycle)
<1> DEFINE cur == [b \in Ids |-> live[b].current_version]
           held == [b \in Ids |-> {v \in Versions : versions[b][v] = "redacted"}]
<1>0. /\ live \in [Ids -> [current_version : 0..MaxVersion, updated_at : 0..MaxClock]]
      /\ versions \in [Ids -> [Versions -> Content]]
      /\ articles \in [Ids -> {"none", "live", "tombstone"}]
  BY DEF IndInv, TypeOK
<1>1. CASE UNCHANGED Tables
  BY <1>1 DEF Tables, Lifecycle!lifecycle
<1>2. ASSUME NEW h \in Handlers, PublishCommit(h) PROVE Lifecycle!Next
  <2>a. PICK a \in Ids : a = tx[h].id /\ articles[a] = "none"
    BY <1>2, CommitFacts
  <2>1. articles' = [articles EXCEPT ![a] = "live"]
    BY <1>2, <2>a DEF PublishCommit
  <2>2. cur' = [cur EXCEPT ![a] = 1]
    BY <1>0, <1>2, <2>a DEF PublishCommit
  <2>3. held' = held
    <3>1. tx[h].req # "redacted" /\ versions[a][1] # "redacted" /\ 1 \in Versions
      BY <1>2, <2>a, CommitFacts, NamesAssumption DEF Marks
    <3>2. \A b \in Ids, v \in Versions : versions'[b][v] = "redacted" <=> versions[b][v] = "redacted"
      BY <1>0, <1>2, <2>a, <3>1 DEF PublishCommit
    <3> QED  BY <3>2
  <2>4. Lifecycle!Publish(a)
    BY <2>a, <2>1, <2>2, <2>3 DEF Lifecycle!Publish
  <2> QED  BY <2>4 DEF Lifecycle!Next
<1>3. ASSUME NEW h \in Handlers, EditCommit(h) PROVE [Lifecycle!Next]_(Lifecycle!lifecycle)
  <2>a. PICK a \in Ids : a = tx[h].id
    BY <1>3, CommitFacts
  <2>1. articles' = articles
    BY <1>3 DEF EditCommit
  <2>2. held' = held
    <3>1. tx[h].body # "redacted" /\ versions[a][tx[h].ver] # "redacted" /\ tx[h].ver \in Versions
      BY <1>3, <2>a, CommitFacts, NamesAssumption DEF Marks
    <3>2. \A b \in Ids, v \in Versions : versions'[b][v] = "redacted" <=> versions[b][v] = "redacted"
      BY <1>0, <1>3, <2>a, <3>1 DEF EditCommit
    <3> QED  BY <3>2
  <2>3. CASE ~tx[h].hit
    <3>1. cur' = cur
      BY <1>3, <2>3 DEF EditCommit
    <3> QED  BY <2>1, <2>2, <3>1 DEF Lifecycle!lifecycle
  <2>4. CASE tx[h].hit
    <3>1. /\ articles[a] = "live" /\ live[a].current_version = tx[h].ver - 1
          /\ tx[h].ver \in Versions
      <4>1. articles[a] = "live"
        BY <1>3, <2>a, <2>4, CommitFacts DEF IndInv, TablesGood, TableFamily
      <4>2. \A v \in Versions : versions[a][v] # "none" <=> v <= live[a].current_version
        BY <4>1 DEF IndInv, TablesGood, CurrentIsNewest, Exists
      <4>3. /\ tx[h].ver \in Versions /\ tx[h].ver - 1 \in Versions
            /\ versions[a][tx[h].ver - 1] # "none" /\ versions[a][tx[h].ver] = "none"
        BY <1>3, <2>a, CommitFacts
      <4> QED  BY <1>0, <4>1, <4>2, <4>3 DEF Versions
    <3>2. cur' = [cur EXCEPT ![a] = cur[a] + 1]
      <4>1. live' = [live EXCEPT ![a] = [current_version |-> tx[h].ver, updated_at |-> tx[h].now]]
        BY <1>3, <2>a, <2>4 DEF EditCommit
      <4>2. tx[h].ver = cur[a] + 1
        BY <3>1 DEF Versions
      <4> QED  BY <1>0, <4>1, <4>2
    <3>3. cur[a] < MaxVersion
      BY <3>1, BoundsAssumption DEF Versions
    <3>4. Lifecycle!Edit(a)
      BY <2>1, <2>2, <3>1, <3>2, <3>3 DEF Lifecycle!Edit
    <3> QED  BY <3>4 DEF Lifecycle!Next
  <2> QED  BY <2>3, <2>4
<1>4. ASSUME NEW h \in Handlers, TombstoneCommit(h) PROVE Lifecycle!Next
  <2>a. PICK a \in Ids : a = tx[h].id /\ tx[h].hit /\ HasLive(a)
    BY <1>4, CommitFacts
  <2>1. articles' = [articles EXCEPT ![a] = "tombstone"] /\ articles[a] = "live"
    BY <1>4, <2>a DEF TombstoneCommit, IndInv, TablesGood, TableFamily
  <2>2. cur' = [cur EXCEPT ![a] = 0]
    BY <1>0, <1>4, <2>a DEF TombstoneCommit, NoLiveRow
  <2>3. held' = held
    BY <1>4 DEF TombstoneCommit
  <2>4. Lifecycle!Tombstone(a)
    BY <2>1, <2>2, <2>3 DEF Lifecycle!Tombstone
  <2> QED  BY <2>4 DEF Lifecycle!Next
<1>5. ASSUME NEW h \in Handlers, RedactCommit(h) PROVE [Lifecycle!Next]_(Lifecycle!lifecycle)
  <2>a. PICK a \in Ids, n \in Versions : a = tx[h].id /\ n = tx[h].ver /\ versions[a][n] # "none"
    BY <1>5, CommitFacts
  <2>1. articles' = articles
    BY <1>5 DEF RedactCommit
  <2>2. cur' = cur
    BY <1>0, <1>5, <2>a DEF RedactCommit
  <2>3. \A b \in Ids, v \in Versions :
          versions'[b][v] = "redacted" <=> (versions[b][v] = "redacted" \/ (b = a /\ v = n))
    BY <1>0, <1>5, <2>a DEF RedactCommit
  <2>4. held' = [held EXCEPT ![a] = held[a] \union {n}]
    BY <2>3
  <2>5. CASE n \in held[a]
    <3>1. held' = held
      BY <2>4, <2>5
    <3> QED  BY <2>1, <2>2, <3>1 DEF Lifecycle!lifecycle
  <2>6. CASE n \notin held[a]
    <3>1. articles[a] = "tombstone" \/ (articles[a] = "live" /\ n <= cur[a])
      BY <1>0, <2>a DEF IndInv, TablesGood, NoOrphans, CurrentIsNewest, Exists
    <3>2. Lifecycle!Redact(a, n)
      BY <2>1, <2>2, <2>4, <2>6, <3>1 DEF Lifecycle!Redact
    <3> QED  BY <3>2 DEF Lifecycle!Next, Versions
  <2> QED  BY <2>5, <2>6
<1> QED  BY <1>1, <1>2, <1>3, <1>4, <1>5, CommitsOnly

\* Every reachable behaviour of the statement-level model is a behaviour of the
\* lifecycle in which each operation is one indivisible step.
THEOREM LifecycleCorrect == Spec => ImplementsLifecycle
<1>1. Init => Lifecycle!Init
  BY DEF Init, Lifecycle!Init, NoLiveRow
<1>2. IndInv /\ [Next]_vars => [Lifecycle!Next]_(Lifecycle!lifecycle)
  BY LifecycleStep
<1> QED  BY <1>1, <1>2, Invariance, PTL DEF Spec, ImplementsLifecycle, Lifecycle!Spec

-----------------------------------------------------------------------------
(* A redaction of the version served is an event of the stream.            *)
(*                                                                         *)
(* redact_version reads the state, the version and the live row in three   *)
(* statements and locks the live row only if it names its version.  What   *)
(* it has read may be outdated when it commits, but never in the direction *)
(* that matters: a tombstone stays one, and current_version only grows, so *)
(* that a version that is not the one served never becomes it (Overtaken). *)
(* The instant it writes is its own (Stamped).                             *)

\* No handler's instant is in the tables yet, and no two handlers share one.
Stamped ==
  /\ \A h \in Handlers : tx[h].now <= clock
  /\ \A a \in Ids : live[a].updated_at <= clock
  /\ \A h \in Handlers : tx[h].now # 0 => \A a \in Ids : live[a].updated_at # tx[h].now
  /\ \A g, h \in Handlers : g # h /\ tx[h].now # 0 => tx[g].now # tx[h].now

Overtaken(t) == t.pc \in RedactPCs =>
  /\ t.now # 0
  /\ t.pc # "r_article" /\ t.state # "live" => articles[t.id] = "tombstone"
  /\ t.pc = "r_commit" /\ ~t.hit => ~HasLive(t.id) \/ t.ver < live[t.id].current_version

TouchInv == Stamped /\ \A h \in Handlers : Overtaken(tx[h])

\* A tombstone is for good, and the current version of an article that is
\* there only grows until it has none.
LEMMA NeverBack ==
  ASSUME IndInv, [Next]_vars, NEW a \in Ids
  PROVE  /\ articles[a] = "tombstone" => articles'[a] = "tombstone"
         /\ articles[a] # "none" /\ ~HasLive(a) => ~HasLive(a)'
         /\ articles[a] # "none" /\ HasLive(a)' =>
              live[a].current_version <= live'[a].current_version
<1> DEFINE cur == [b \in Ids |-> live[b].current_version]
<1>1. /\ articles \in [Ids -> {"none", "live", "tombstone"}]
      /\ cur \in [Ids -> 0..MaxVersion] /\ TableFamily
      /\ cur[a] = live[a].current_version /\ cur'[a] = live'[a].current_version
  BY DEF IndInv, TypeOK, TablesGood
<1>2. CASE UNCHANGED Lifecycle!lifecycle
  BY <1>1, <1>2, BoundsAssumption DEF Lifecycle!lifecycle, HasLive
<1>3. CASE Lifecycle!Next
  <2>1. PICK b \in Ids : \/ Lifecycle!Publish(b) \/ Lifecycle!Edit(b) \/ Lifecycle!Tombstone(b)
                         \/ \E v \in Versions : Lifecycle!Redact(b, v)
    BY <1>3 DEF Lifecycle!Next, Versions
  <2> HIDE DEF cur
  <2>2. CASE Lifecycle!Publish(b)
    <3>1. articles[b] = "none" /\ articles' = [articles EXCEPT ![b] = "live"]
          /\ cur' = [cur EXCEPT ![b] = 1]
      BY <2>2 DEF Lifecycle!Publish, cur
    <3> QED  BY <1>1, <3>1, BoundsAssumption DEF HasLive
  <2>3. CASE Lifecycle!Edit(b)
    <3>1. articles[b] = "live" /\ articles' = articles /\ cur' = [cur EXCEPT ![b] = cur[b] + 1]
      BY <1>1, <2>3 DEF Lifecycle!Edit, cur
    <3> QED  BY <1>1, <3>1, BoundsAssumption DEF HasLive, TableFamily
  <2>4. CASE Lifecycle!Tombstone(b)
    <3>1. articles' = [articles EXCEPT ![b] = "tombstone"] /\ cur' = [cur EXCEPT ![b] = 0]
      BY <2>4 DEF Lifecycle!Tombstone, cur
    <3> QED  BY <1>1, <3>1, BoundsAssumption DEF HasLive
  <2>5. ASSUME NEW v \in Versions, Lifecycle!Redact(b, v)
        PROVE  articles' = articles /\ cur' = cur
    BY <2>5 DEF Lifecycle!Redact, cur
  <2> QED  BY <1>1, <2>1, <2>2, <2>3, <2>4, <2>5, BoundsAssumption DEF HasLive
<1> QED  BY <1>2, <1>3, LifecycleStep

\* What a redaction knows stays true whatever others commit.
LEMMA OvertakenStays ==
  ASSUME IndInv, [Next]_vars, NEW t \in TxRecords, TxGood(t), Overtaken(t)
  PROVE  Overtaken(t)'
<1> USE DEF RedactPCs
<1>1. CASE t.pc \in RedactPCs
  <2>1. t.id \in Ids
    BY <1>1 DEF TxGood
  <2>2. t.pc = "r_commit" => articles[t.id] # "none"
    BY <2>1 DEF TxGood, InRedact, IndInv, TablesGood, NoOrphans
  <2>3. t.ver \in Nat /\ live[t.id].current_version \in Nat
    BY <2>1, BoundsAssumption DEF IndInv, TypeOK, TxRecords
  <2>4. live'[t.id].current_version \in Nat
    BY <2>1, NextInv, BoundsAssumption DEF IndInv, TypeOK
  <2> QED  BY <1>1, <2>1, <2>2, <2>3, <2>4, NeverBack DEF Overtaken
<1>2. CASE t.pc \notin RedactPCs
  BY <1>2 DEF Overtaken
<1> QED  BY <1>1, <1>2

\* How a step moves the record of its handler: it keeps the instant, drops it
\* or reads a new one; and a redaction that goes on knows what it must.
LEMMA TouchMove ==
  ASSUME IndInv, TouchInv, NEW h \in Handlers, Arrive(h) \/ Statement(h) \/ Abort(h)
  PROVE  /\ \A g \in Handlers \ {h} : tx'[g] = tx[g]
         /\ \/ clock' = clock /\ tx'[h].now \in {0, tx[h].now}
            \/ clock' = clock + 1 /\ tx'[h].now = clock + 1 /\ UNCHANGED Tables
         /\ tx'[h].pc \in RedactPCs => UNCHANGED Tables
         /\ Overtaken(tx'[h])
<1> USE DEF EditPCs, TombPCs, RedactPCs, GetPCs
<1>0. PICK t \in TxRecords : t = tx[h] /\ TxGood(t) /\ Overtaken(t)
  BY DEF IndInv, TypeOK, TouchInv
<1>1. tx \in [Handlers -> TxRecords] /\ clock \in Nat /\ TableFamily
  BY BoundsAssumption DEF IndInv, TypeOK, TablesGood
<1>2. CASE Finish(h) /\ UNCHANGED clock
  BY <1>1, <1>2 DEF Finish, IdleTx, NewTx, Overtaken
<1>3. CASE (\E n : ReadBack(h, n)) /\ UNCHANGED clock
  BY <1>1, <1>3 DEF ReadBack, NewTx, Overtaken
<1>4. CASE Arrive(h)
  BY <1>0, <1>1, <1>4 DEF Arrive, PublishBegin, EditBegin, TombstoneBegin, RedactBegin, GetBegin, Begin,
     NewTx, Overtaken
<1>5. CASE Edit(h)
  BY <1>0, <1>1, <1>2, <1>3, <1>5 DEF Edit, EditSelectArticle, EditSelectLive, EditSelectVersion,
     EditInsertVersion, EditUpdateLive, EditCommit, Go, TxRecords, Overtaken
<1>6. CASE Tombstone(h)
  BY <1>0, <1>1, <1>2, <1>3, <1>6 DEF Tombstone, TombstoneSelectArticle, TombstoneUpdateArticle,
     TombstoneInsertRow, TombstoneDeleteLive, TombstoneCommit, Go, TxRecords, Overtaken
<1>7. CASE Get(h)
  BY <1>0, <1>1, <1>2, <1>7 DEF Get, GetArticle, GetLive, GetVersion, GetTombstone, Go, TxRecords, Overtaken
<1>8. CASE PublishCommit(h) \/ Abort(h)
  BY <1>2, <1>3, <1>8 DEF PublishCommit, Abort
<1>9. CASE Redact(h)
  <2>0. CASE Finish(h)
    BY <1>2, <1>9, <2>0 DEF Redact, RedactSelectArticle, RedactSelectVersion, RedactUpdateVersion,
       RedactSelectLive, RedactBumpLive, RedactCommit
  <2>1. CASE RedactSelectArticle(h) /\ ~Finish(h)
    <3>1. articles[t.id] \in {"live", "tombstone"}
      BY <1>0, <2>1 DEF RedactSelectArticle, TxGood, IndInv, TypeOK
    <3> QED  BY <1>0, <1>1, <2>1, <3>1 DEF RedactSelectArticle, TxRecords, Overtaken
  <2>2. CASE RedactSelectVersion(h) /\ ~Finish(h)
    BY <1>0, <1>1, <2>2 DEF RedactSelectVersion, Go, TxRecords, Overtaken
  <2>3. CASE RedactUpdateVersion(h)
    <3>1. t.state # "live" => ~HasLive(t.id)
      BY <1>0, <1>1, <2>3 DEF RedactUpdateVersion, TxGood, TableFamily, Overtaken
    <3> QED  BY <1>0, <1>1, <2>3, <3>1 DEF RedactUpdateVersion, Go, TxRecords, Overtaken
  <2>4. CASE RedactSelectLive(h) /\ ~Finish(h)
    <3>1. t.id \in Ids /\ articles[t.id] = "live" /\ t.ver \in Versions /\ Exists(t.id, t.ver)
      BY <1>0, <1>1, <2>4 DEF RedactSelectLive, TxGood, InRedact, TableFamily, Exists
    <3>2. t.ver <= live[t.id].current_version
      BY <3>1 DEF IndInv, TablesGood, CurrentIsNewest
    <3>3. t.ver \in Nat /\ live[t.id].current_version \in Nat
      BY <3>1, BoundsAssumption DEF IndInv, TypeOK, Versions
    <3> QED  BY <1>0, <1>1, <2>4, <3>2, <3>3 DEF RedactSelectLive, Go, TxRecords, Overtaken
  <2>5. CASE RedactBumpLive(h)
    BY <1>0, <1>1, <2>5 DEF RedactBumpLive, TxRecords, Overtaken
  <2> QED  BY <1>9, <2>0, <2>1, <2>2, <2>3, <2>4, <2>5 DEF Redact, RedactCommit
<1> QED  BY <1>4, <1>5, <1>6, <1>7, <1>8, <1>9 DEF Statement

\* A commit writes its own instant into updated_at, or none.
LEMMA CommitStamps ==
  ASSUME IndInv, NEW h \in Handlers, NEW a \in Ids,
         UNCHANGED Tables \/ PublishCommit(h) \/ EditCommit(h) \/ TombstoneCommit(h) \/ RedactCommit(h)
  PROVE  /\ live'[a].updated_at \in {0, live[a].updated_at, tx[h].now}
         /\ live'[a].updated_at = tx[h].now /\ live'[a].updated_at # live[a].updated_at
              => tx'[h].now = 0
<1>1. /\ live \in [Ids -> [current_version : 0..MaxVersion, updated_at : 0..MaxClock]]
      /\ tx \in [Handlers -> TxRecords]
  BY DEF IndInv, TypeOK
<1> QED
  BY <1>1 DEF Tables, PublishCommit, EditCommit, TombstoneCommit, RedactCommit, ReadBack, Finish, IdleTx,
     NewTx, NoLiveRow

\* Every step of a request keeps its instant its own and its knowledge true.
LEMMA TouchStep ==
  ASSUME IndInv, TouchInv, [Next]_vars
  PROVE  TouchInv'
<1>1. CASE UNCHANGED vars
  BY <1>1 DEF vars, TouchInv, Stamped, Overtaken, HasLive
<1>2. ASSUME NEW h \in Handlers, Arrive(h) \/ Statement(h) \/ Abort(h) PROVE TouchInv'
  <2>0. /\ \A g \in Handlers : tx[g].now \in Nat /\ tx[g] \in TxRecords /\ TxGood(tx[g])
        /\ clock \in Nat /\ \A a \in Ids : live[a].updated_at \in Nat
    BY BoundsAssumption DEF IndInv, TypeOK, TxRecords
  <2>1. /\ \A g \in Handlers \ {h} : tx'[g] = tx[g]
        /\ \/ clock' = clock /\ tx'[h].now \in {0, tx[h].now}
           \/ clock' = clock + 1 /\ tx'[h].now = clock + 1 /\ UNCHANGED Tables
        /\ tx'[h].pc \in RedactPCs => UNCHANGED Tables
        /\ Overtaken(tx'[h])
    BY <1>2, TouchMove
  <2>2. \A a \in Ids :
          /\ live'[a].updated_at \in {0, live[a].updated_at, tx[h].now}
          /\ live'[a].updated_at = tx[h].now /\ live'[a].updated_at # live[a].updated_at
               => tx'[h].now = 0
    <3>1. \/ UNCHANGED Tables
          \/ PublishCommit(h) \/ EditCommit(h) \/ TombstoneCommit(h) \/ RedactCommit(h)
      BY <1>2 DEF Arrive, PublishBegin, EditBegin, TombstoneBegin, RedactBegin, GetBegin, Begin, Abort,
         Statement, Edit, EditSelectArticle, EditSelectLive, EditSelectVersion, EditInsertVersion,
         EditUpdateLive, Tombstone, TombstoneSelectArticle, TombstoneUpdateArticle, TombstoneInsertRow,
         TombstoneDeleteLive, Redact, RedactSelectArticle, RedactSelectVersion, RedactUpdateVersion,
         RedactSelectLive, RedactBumpLive, Get, GetArticle, GetLive, GetVersion, GetTombstone
    <3> QED  BY <3>1, CommitStamps
  <2>3. Stamped'
    BY <2>0, <2>1, <2>2 DEF TouchInv, Stamped
  <2>4. ASSUME NEW g \in Handlers PROVE Overtaken(tx[g])'
    <3>1. CASE g # h
      <4>1. Overtaken(tx[g]) /\ tx[g] \in TxRecords /\ TxGood(tx[g])
        BY <2>0 DEF TouchInv
      <4>2. ASSUME NEW t \in TxRecords, t = tx[g] PROVE Overtaken(t)'
        BY <4>1, <4>2, OvertakenStays
      <4> QED  BY <2>1, <3>1, <4>1, <4>2 DEF Overtaken
    <3>2. CASE g = h
      BY <2>1, <3>2 DEF Overtaken, HasLive, Tables
    <3> QED  BY <3>1, <3>2
  <2> QED  BY <2>3, <2>4 DEF TouchInv
<1> QED  BY <1>1, <1>2 DEF Next

\* The redaction of the version that is served always moves updated_at in the
\* same commit, so that the account stream hands the article out again.
THEOREM RedactionTouchesCorrect == Spec => RedactionTouches
<1> DEFINE Touches(a) ==
      (HasLive(a) /\ Served(a) # "redacted" /\ HasLive(a)'
         /\ versions'[a][live[a].current_version] = "redacted")
        => live'[a].updated_at # live[a].updated_at
<1>1. Init => TouchInv
  BY DEF Init, TouchInv, Stamped, Overtaken, IdleTx, NewTx, NoLiveRow, RedactPCs
<1>2. IndInv /\ TouchInv /\ [Next]_vars => TouchInv'
  BY TouchStep
<1>3. ASSUME IndInv, TouchInv, [Next]_vars PROVE [\A a \in Ids : Touches(a)]_vars
  <2> SUFFICES ASSUME NEW a \in Ids, HasLive(a), Served(a) # "redacted", HasLive(a)',
                      versions'[a][live[a].current_version] = "redacted"
               PROVE  live'[a].updated_at # live[a].updated_at
    OBVIOUS
  <2>0. /\ versions \in [Ids -> [Versions -> Content]]
        /\ live \in [Ids -> [current_version : 0..MaxVersion, updated_at : 0..MaxClock]]
    BY <1>3 DEF IndInv, TypeOK
  <2>1. live[a].current_version \in Versions /\ Exists(a, live[a].current_version)
    BY <1>3, <2>0, BoundsAssumption DEF IndInv, TablesGood, TableFamily, CurrentIsNewest, HasLive, Versions
  <2>2. versions'[a] # versions[a]
    BY DEF Served
  <2>3. PICK h \in Handlers : PublishCommit(h) \/ EditCommit(h) \/ RedactCommit(h)
    BY <1>3, <2>2, CommitsOnly DEF Tables, TombstoneCommit
  <2>4. ASSUME PublishCommit(h) PROVE FALSE
    <3>1. \A v \in Versions : versions[tx[h].id][v] = "none"
      BY <1>3, <2>4, CommitFacts
    <3>2. versions' = [versions EXCEPT ![tx[h].id][1] = tx[h].req]
      BY <2>4 DEF PublishCommit
    <3> QED  BY <2>0, <2>1, <2>2, <3>1, <3>2 DEF Exists
  <2>5. ASSUME EditCommit(h) PROVE FALSE
    <3>1. versions[tx[h].id][tx[h].ver] = "none"
      BY <1>3, <2>5, CommitFacts
    <3>2. versions' = [versions EXCEPT ![tx[h].id][tx[h].ver] = tx[h].body]
      BY <2>5 DEF EditCommit
    <3> QED  BY <2>0, <2>1, <3>1, <3>2 DEF Exists, Served
  <2>6. RedactCommit(h) /\ tx[h].id = a /\ tx[h].ver = live[a].current_version
    BY <1>3, <2>0, <2>1, <2>3, <2>4, <2>5, CommitFacts DEF RedactCommit, Served
  <2>7. tx[h].hit /\ tx[h].now # 0
    BY <1>3, <2>0, <2>6 DEF RedactCommit, TouchInv, Overtaken, RedactPCs
  <2>8. live'[a].updated_at = tx[h].now
    BY <2>0, <2>6, <2>7 DEF RedactCommit
  <2> QED  BY <1>3, <2>7, <2>8 DEF TouchInv, Stamped
<1> QED  BY <1>1, <1>2, <1>3, Invariance, PTL DEF Spec, RedactionTouches

-----------------------------------------------------------------------------
(* The locks never form a cycle.  A handler holds the live row only when   *)
(* its next statement is COMMIT, so the waits for it end there; a waiting  *)
(* edit waits for an edit past its insert, a waiting tombstone for one     *)
(* past its update, a waiting redaction for one past its update: each of   *)
(* these waits for the live row at most.                                   *)

\* The statement that h has come to must wait for a lock of another handler.
Blocked(h) == \E g \in Others(h) :
  \/ tx[h].pc = "e_insert" /\ HoldsNewVersion(g, tx[h].id, tx[h].ver)
  \/ tx[h].pc \in {"e_update", "t_delete", "r_bump"} /\ LocksLive(g, tx[h].id)
  \/ tx[h].pc = "t_update" /\ LocksArticle(g, tx[h].id)
  \/ tx[h].pc = "r_update" /\ LocksVersion(g, tx[h].id, tx[h].ver)

SomeoneRuns == (\E h \in Handlers : tx[h].pc # "idle") =>
                 \E h \in Handlers : tx[h].pc # "idle" /\ ~Blocked(h)

\* Blocked is the waiting of the code: no statement runs while it waits.
LEMMA BlockedWaits ==
  ASSUME NEW h \in Handlers, Statement(h)
  PROVE  tx[h].pc # "idle" /\ ~Blocked(h)
BY DEF Blocked, Statement, PublishCommit, Get, GetArticle, GetLive, GetVersion, GetTombstone,
   Edit, EditSelectArticle, EditSelectLive, EditSelectVersion, EditInsertVersion, EditUpdateLive, EditCommit,
   Tombstone, TombstoneSelectArticle, TombstoneUpdateArticle, TombstoneInsertRow, TombstoneDeleteLive,
   TombstoneCommit, Redact, RedactSelectArticle, RedactSelectVersion, RedactUpdateVersion, RedactSelectLive,
   RedactBumpLive, RedactCommit

\* However edits, tombstones and redactions overlap, while requests are under
\* way one of them waits for no other: the row and key locks of Articles, which
\* these operations take in different orders, admit no deadlock.
THEOREM NoDeadlockCorrect == Spec => []SomeoneRuns
<1>1. ASSUME IndInv PROVE SomeoneRuns
  <2> SUFFICES ASSUME NEW h \in Handlers, tx[h].pc # "idle"
               PROVE  \E g \in Handlers : tx[g].pc # "idle" /\ ~Blocked(g)
    BY DEF SomeoneRuns
  <2>1. ASSUME NEW g \in Handlers, tx[g].hit PROVE tx[g].pc # "idle" /\ ~Blocked(g)
    BY <1>1, <2>1 DEF IndInv, TxGood, HoldsLive, Blocked
  <2>2. ASSUME NEW g \in Handlers, tx[g].pc \in {"e_update", "t_delete", "r_bump"}
        PROVE  \E f \in Handlers : tx[f].pc # "idle" /\ ~Blocked(f)
    BY <2>1, <2>2 DEF Blocked, LocksLive, Others
  <2>3. ASSUME NEW g \in Handlers,
               tx[g].pc \in {"e_commit", "t_insert", "t_commit", "r_live", "r_commit"}
        PROVE  tx[g].pc # "idle" /\ ~Blocked(g)
    BY <2>3 DEF Blocked
  <2>4. CASE tx[h].pc \in {"e_insert", "t_update", "r_update"} /\ Blocked(h)
    <3>1. PICK g \in Handlers :
            \/ tx[g].pc \in {"e_update", "t_delete", "r_bump"}
            \/ tx[g].pc \in {"e_commit", "t_insert", "t_commit", "r_live", "r_commit"}
      BY <2>4 DEF Blocked, HoldsNewVersion, LocksArticle, LocksVersion, Others
    <3> QED  BY <2>2, <2>3, <3>1
  <2>5. CASE ~Blocked(h)
    BY <2>5
  <2>6. CASE tx[h].pc \notin {"e_insert", "t_update", "r_update"} /\ Blocked(h)
    BY <2>2, <2>6 DEF Blocked
  <2> QED  BY <2>4, <2>5, <2>6
<1> QED  BY <1>1, Invariance, PTL

-----------------------------------------------------------------------------
(* The account stream. *)

\* The rows the stream joins.
Listed(a) == articles[a] # "none"

-----------------------------------------------------------------------------
(* Instants: a non-empty set of them has a least and a greatest one. *)

\* A non-empty set of naturals has a least element.
LEMMA LeastInstant ==
  ASSUME NEW S, S \subseteq Nat, S # {}
  PROVE  \E x \in S : \A y \in S : x <= y
<1> DEFINE R == {ss \in Nat \X Nat : ss[1] < ss[2]}
<1>1. IsWellFoundedOn(R, Nat)
  BY NatLessThanWellFounded, Zenon DEF OpToRel
<1>2. PICK x \in S : \A y \in S : ~(<<y, x>> \in R)
  BY <1>1, WFMin, Zenon
<1>3. ASSUME NEW y \in S PROVE x <= y
  <2>1. x \in Nat /\ y \in Nat
    OBVIOUS
  <2>2. ~(y < x)
    BY <1>2, <2>1
  <2> QED  BY <2>1, <2>2
<1> QED  BY <1>3

\* A non-empty bounded set of naturals has a greatest element.
LEMMA GreatestInstant ==
  ASSUME NEW n \in Nat, NEW S, S \subseteq 0..n, S # {}
  PROVE  \E x \in S : \A y \in S : y <= x
<1>1. \A x \in S : x \in Nat /\ n - x \in Nat
  OBVIOUS
<1>2. PICK T : T = {n - x : x \in S}
  OBVIOUS
<1>3. T \subseteq Nat
  BY <1>1, <1>2
<1>4. T # {}
  BY <1>2
<1>5. PICK t \in T : \A u \in T : t <= u
  BY <1>3, <1>4, LeastInstant
<1>6. PICK x \in S : t = n - x
  BY <1>2
<1>7. ASSUME NEW y \in S PROVE y <= x
  <2>1. n - y \in T
    BY <1>2
  <2>2. n - x <= n - y
    BY <1>5, <1>6, <2>1
  <2> QED  BY <1>1, <2>2
<1> QED  BY <1>7

\* EventAt is an instant, and Summary a row of the mirror.
LEMMA RowsTyped ==
  ASSUME TypeOK, NEW a \in Ids
  PROVE  /\ EventAt(a) \in 0..MaxClock
         /\ Summary(a) \in [state : {"none", "live", "tombstone"},
                            current_version : 0..MaxVersion, redacted : BOOLEAN]
BY BoundsAssumption DEF TypeOK, EventAt, Summary, Served, HasLive

-----------------------------------------------------------------------------
(* A page. *)

\* A page is a prefix of the order: with a row it holds every row before it.
LEMMA PagePrefix ==
  ASSUME TypeOK, NEW c \in Nat, NEW a \in Page(c), NEW b \in After(c),
         EventAt(b) <= EventAt(a)
  PROVE  b \in Page(c)
<1> DEFINE B(x) == {d \in After(c) : EventAt(d) < EventAt(x)}
<1>1. After(c) \subseteq Ids /\ a \in After(c)
  BY DEF After, Page
<1>2. \A d \in After(c) : EventAt(d) \in Int
  BY <1>1, RowsTyped, BoundsAssumption
<1>3. B(b) \subseteq B(a)
  BY <1>1, <1>2
<1>4. IsFiniteSet(B(a))
  BY <1>1, FS_Subset, PageAssumption
<1>5. Cardinality(B(b)) <= Cardinality(B(a)) /\ Cardinality(B(b)) \in Nat /\ Cardinality(B(a)) \in Nat
  BY <1>3, <1>4, FS_Subset, FS_CardinalityType
<1>6. Cardinality(B(a)) < PageSize
  BY DEF Page
<1>7. Cardinality(B(b)) < PageSize
  BY <1>5, <1>6, PageAssumption
<1> QED  BY <1>7 DEF Page

\* A page that is not the last has a row, and its token is the key of a row
\* that no other row of the page follows.
LEMMA PageToken ==
  ASSUME TypeOK, NEW c \in Nat, Page(c) # After(c)
  PROVE  LET e == CHOOSE e \in {EventAt(a) : a \in Page(c)} : \A b \in Page(c) : EventAt(b) <= e
         IN  /\ \E a \in Page(c) : e = EventAt(a)
             /\ \A b \in Page(c) : EventAt(b) <= e
<1> DEFINE S == {EventAt(a) : a \in After(c)}
           P == {EventAt(a) : a \in Page(c)}
<1>1. After(c) \subseteq Ids /\ Page(c) \subseteq After(c) /\ After(c) # {}
  BY DEF After, Page
<1>2. S \subseteq Nat /\ S # {}
  BY <1>1, RowsTyped, BoundsAssumption
<1>3. PICK a \in After(c) : \A b \in After(c) : EventAt(a) <= EventAt(b)
  <2>1. PICK x \in S : \A y \in S : x <= y
    BY <1>2, LeastInstant
  <2> QED  BY <2>1
<1>4. {b \in After(c) : EventAt(b) < EventAt(a)} = {}
  <2>1. \A b \in After(c) : EventAt(b) \in Int
    BY <1>1, RowsTyped, BoundsAssumption
  <2> QED  BY <1>3, <2>1
<1>5. a \in Page(c)
  BY <1>4, FS_EmptySet, PageAssumption DEF Page
<1>6. P \subseteq 0..MaxClock /\ P # {}
  BY <1>1, <1>5, RowsTyped
<1>7. PICK e \in P : \A y \in P : y <= e
  BY <1>6, GreatestInstant, BoundsAssumption
<1>8. \A b \in Page(c) : EventAt(b) <= e
  BY <1>7
<1> QED  BY <1>7, <1>8

-----------------------------------------------------------------------------
(* Types. *)

StreamTyped == IndInv /\ StreamTypeOK

\* Polling keeps the types: the cursor moves, if it moves, to an instant.
LEMMA PollTyped ==
  ASSUME StreamTyped, Poll
  PROVE  StreamTyped'
<1>1. TypeOK /\ cursor \in Nat
  BY BoundsAssumption DEF StreamTyped, StreamTypeOK
<1>2. IndInv' /\ TypeOK'
  BY DEF StreamTyped, Poll, vars, IndInv, TypeOK, TablesGood, TableFamily, CurrentIsNewest, NoOrphans,
         TxGood, InPublish, InEdit, InTombstone, InRedact, InGet, HoldsLive, HasLive, Exists, Floor,
         Compatible
<1>3. cursor' \in 0..MaxClock
  <2>1. CASE Page(cursor) = After(cursor)
    BY <2>1 DEF Poll, StreamTyped, StreamTypeOK
  <2>2. CASE Page(cursor) # After(cursor)
    <3>1. PICK a \in Page(cursor) : cursor' = EventAt(a)
      BY <1>1, <2>2, PageToken DEF Poll
    <3> QED  BY <1>1, <3>1, RowsTyped DEF Page, After
  <2> QED  BY <2>1, <2>2
<1>4. mirror' \in [Ids -> [state : {"none", "live", "tombstone"},
                           current_version : 0..MaxVersion, redacted : BOOLEAN]]
  BY <1>1, RowsTyped DEF Poll, StreamTyped, StreamTypeOK
<1> QED  BY <1>2, <1>3, <1>4 DEF StreamTyped, StreamTypeOK

\* The store keeps its invariant under the stream, and everything its type.
THEOREM StreamInvariance == StreamSpec => []StreamTyped
<1>1. StreamInit => StreamTyped
  BY InitInv, BoundsAssumption DEF StreamInit, StreamTyped, StreamTypeOK, Unseen, IndInv
<1>2. StreamTyped /\ [StreamNext]_streamVars => StreamTyped'
  <2> SUFFICES ASSUME StreamTyped, [StreamNext]_streamVars PROVE StreamTyped'
    OBVIOUS
  <2>1. CASE Poll
    BY <2>1, PollTyped
  <2>2. CASE [Next]_vars /\ UNCHANGED <<cursor, mirror>>
    <3>1. IndInv'
      BY <2>2, NextInv DEF StreamTyped
    <3> QED  BY <2>2, <3>1 DEF StreamTyped, StreamTypeOK, IndInv
  <2> QED  BY <2>1, <2>2 DEF StreamNext, streamVars
<1> QED  BY <1>1, <1>2, PTL DEF StreamSpec

\* The cursor is an instant the clock has handed out within its bound, and
\* the mirror holds summaries of rows.
THEOREM StreamTypeCorrect == StreamSpec => []StreamTypeOK
<1>1. StreamTyped => StreamTypeOK
  BY DEF StreamTyped
<1> QED  BY <1>1, StreamInvariance, PTL

-----------------------------------------------------------------------------
(* What the republisher may lose, however many handlers write.             *)
(*                                                                         *)
(* A poll passes over nothing: the new cursor is the key of a row of the   *)
(* page, and the page holds every row up to it.  A commit gives its one    *)
(* article the instant its request read, so that it is behind the cursor   *)
(* only if that instant is; the commit that gives none, a redaction that   *)
(* left the articles_live row alone, does not concern the version served   *)
(* (Overtaken), whatever was committed since it read that row.             *)

\* While no table changes, what the stream says of an article stays.
LEMMA SameRows ==
  ASSUME UNCHANGED Tables
  PROVE  \A a \in Ids : /\ EventAt(a)' = EventAt(a) /\ Summary(a)' = Summary(a)
                        /\ Listed(a)' = Listed(a)
BY DEF Tables, EventAt, Summary, Listed, HasLive, Served

\* A commit changes one article.  It gives it the request's instant, or leaves
\* what the stream says of it as it was.
LEMMA CommitMoves ==
  ASSUME StreamTyped, TouchInv, NEW h \in Handlers, Commits(h), NEW a \in Ids
  PROVE  \/ tx[h].id = a /\ EventAt(a)' = tx[h].now
         \/ EventAt(a)' = EventAt(a) /\ Summary(a)' = Summary(a) /\ Listed(a)' = Listed(a)
<1> USE DEF EditPCs, TombPCs, RedactPCs, GetPCs
<1>0. PICK t \in TxRecords : t = tx[h]
  BY DEF StreamTyped, IndInv, TypeOK
<1>1. /\ tx \in [Handlers -> TxRecords] /\ TypeOK /\ IndInv /\ TableFamily
      /\ live \in [Ids -> [current_version : 0..MaxVersion, updated_at : 0..MaxClock]]
      /\ versions \in [Ids -> [Versions -> Content]]
  BY DEF StreamTyped, IndInv, TypeOK, TablesGood
<1>2. CASE PublishCommit(h)
  <2>1. t.id \in Ids
    BY <1>0, <1>1, <1>2, CommitFacts
  <2>2. EventAt(t.id)' = t.now
    BY <1>0, <1>1, <1>2, <2>1 DEF PublishCommit, EventAt, HasLive
  <2>3. ASSUME a # t.id
        PROVE  EventAt(a)' = EventAt(a) /\ Summary(a)' = Summary(a) /\ Listed(a)' = Listed(a)
    BY <1>0, <1>1, <1>2, <2>1, <2>3 DEF PublishCommit, TypeOK, EventAt, Summary, Listed, HasLive, Served
  <2> QED  BY <1>0, <2>2, <2>3
<1>3. CASE EditCommit(h)
  <2>1. t.id \in Ids /\ t.ver \in Versions /\ (t.hit <=> HasLive(t.id)) /\ t.ver # 0
    BY <1>0, <1>1, <1>3, CommitFacts, BoundsAssumption DEF Versions
  <2> QED
    BY <1>0, <1>1, <1>3, <2>1 DEF EditCommit, TypeOK, EventAt, Summary, Listed, HasLive, Served
<1>4. CASE TombstoneCommit(h)
  <2>1. t.id \in Ids /\ t.hit
    BY <1>0, <1>1, <1>4, CommitFacts
  <2> QED
    BY <1>0, <1>1, <1>4, <2>1 DEF TombstoneCommit, NoLiveRow, TypeOK, EventAt, Summary, Listed,
       HasLive, Served
<1>5. CASE RedactCommit(h)
  <2>1. t.id \in Ids /\ t.ver \in Versions
    BY <1>0, <1>1, <1>5, CommitFacts
  <2>2. ~t.hit => ~(HasLive(t.id) /\ live[t.id].current_version = t.ver)
    <3>1. Overtaken(t) /\ t.pc = "r_commit"
      BY <1>0, <1>5 DEF RedactCommit, TouchInv
    <3>2. t.ver \in Nat
      BY <2>1, BoundsAssumption DEF Versions
    <3> QED  BY <3>1, <3>2 DEF Overtaken
  <2>3. t.hit => HasLive(t.id)
    BY <1>0, <1>1, <1>5 DEF IndInv, TxGood, HoldsLive, RedactCommit
  <2>4. UNCHANGED <<articles, tomb>>
    BY <1>5 DEF RedactCommit
  <2>5. CASE t.hit
    BY <1>0, <1>1, <1>5, <2>1, <2>3, <2>4, <2>5 DEF RedactCommit, EventAt, Summary, Listed, HasLive, Served
  <2>6. CASE ~t.hit
    BY <1>0, <1>1, <1>5, <2>1, <2>2, <2>4, <2>6 DEF RedactCommit, EventAt, Summary, Listed, HasLive, Served
  <2> QED  BY <2>5, <2>6
<1> QED  BY <1>2, <1>3, <1>4, <1>5 DEF Commits

\* Polling: the new cursor is the key of a row of the page, and the page holds
\* every row up to it.
LEMMA PollPassesNone ==
  ASSUME StreamTyped, Poll, NEW a \in Ids, ~PassedOver(a)
  PROVE  ~PassedOver(a)'
<1>1. /\ TypeOK /\ cursor \in Nat /\ \A b \in Ids : EventAt(b) \in Nat
  BY RowsTyped, BoundsAssumption DEF StreamTyped, StreamTypeOK
<1>2. Listed(a)' = Listed(a) /\ EventAt(a)' = EventAt(a) /\ Summary(a)' = Summary(a)
  BY SameRows DEF Poll, vars, Tables
<1>3. mirror'[a] = IF a \in Page(cursor) THEN Summary(a) ELSE mirror[a]
  BY DEF Poll
<1>4. ASSUME Listed(a), EventAt(a) <= cursor' PROVE EventAt(a) <= cursor \/ a \in Page(cursor)
  <2>1. CASE Page(cursor) = After(cursor)
    BY <1>4, <2>1 DEF Poll
  <2>2. CASE Page(cursor) # After(cursor)
    <3>1. PICK last \in Page(cursor) : cursor' = EventAt(last)
      BY <1>1, <2>2, PageToken DEF Poll
    <3>2. ASSUME ~(EventAt(a) <= cursor) PROVE a \in Page(cursor)
      <4>1. a \in After(cursor)
        BY <1>1, <1>4, <3>2 DEF After, Listed
      <4> QED  BY <1>1, <1>4, <3>1, <4>1, PagePrefix
    <3> QED  BY <3>2
  <2> QED  BY <2>1, <2>2
<1> QED  BY <1>2, <1>3, <1>4 DEF PassedOver, Listed

\* However many requests write at once, the stream passes over an article only
\* at the commit of a request on it that read `now` no later than the cursor
\* the republisher holds.  Page boundaries, aborts, tombstones and redactions
\* that decide by an outdated read lose nothing.
THEOREM LostOnlyLateCorrect == StreamSpec => LostOnlyLate
<1>1. StreamInit => TouchInv
  BY DEF StreamInit, Init, TouchInv, Stamped, Overtaken, IdleTx, NewTx, NoLiveRow, RedactPCs
<1>2. StreamTyped /\ TouchInv /\ [StreamNext]_streamVars => TouchInv'
  <2> SUFFICES ASSUME StreamTyped, TouchInv, [StreamNext]_streamVars PROVE TouchInv'
    OBVIOUS
  <2>1. [Next]_vars
    BY DEF StreamNext, Poll, streamVars, vars
  <2> QED  BY <2>1, TouchStep DEF StreamTyped
<1>3. ASSUME StreamTyped, TouchInv, [StreamNext]_streamVars
      PROVE  [\A a \in Ids : ~PassedOver(a) /\ PassedOver(a)' =>
                \E h \in Handlers : Commits(h) /\ tx[h].id = a /\ tx[h].now <= cursor]_streamVars
  <2> SUFFICES ASSUME NEW a \in Ids, ~PassedOver(a), PassedOver(a)'
               PROVE  \E h \in Handlers : Commits(h) /\ tx[h].id = a /\ tx[h].now <= cursor
    OBVIOUS
  <2>1. ~Poll
    BY <1>3, PollPassesNone
  <2>2. UNCHANGED <<cursor, mirror>> /\ [Next]_vars
    BY <1>3, <2>1 DEF StreamNext, streamVars, vars
  <2>3. ~(EventAt(a)' = EventAt(a) /\ Summary(a)' = Summary(a) /\ Listed(a)' = Listed(a))
    BY <2>2 DEF PassedOver, Listed
  <2>4. PICK h \in Handlers : Commits(h)
    BY <2>2, <2>3, CommitsOnly, SameRows DEF Commits
  <2>5. tx[h].id = a /\ EventAt(a)' = tx[h].now
    BY <1>3, <2>3, <2>4, CommitMoves
  <2>6. tx[h].now <= cursor
    BY <2>2, <2>5 DEF PassedOver
  <2> QED  BY <2>4, <2>5, <2>6
<1> QED  BY <1>1, <1>2, <1>3, StreamInvariance, PTL DEF StreamSpec, LostOnlyLate
=============================================================================
