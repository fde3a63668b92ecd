----------------------------- MODULE SeedProofs -----------------------------
(***************************************************************************)
(* Proofs about Seed, for any demo directories and any number of runs and  *)
(* faults: what the file records is usable, a duplicate is explained by    *)
(* the run that was cut short, and a run that reports success is complete. *)
(* The three share one inductive invariant, SeedInv.  Its heart is         *)
(* Accounted: every row is named by the file, or is of a run that stopped  *)
(* in the step that makes it, or is of the step that is going on.  The     *)
(* actions are grouped by what they do to the run (stop, advance, record,  *)
(* end a step), one lemma for each group.                                  *)
(***************************************************************************)
EXTENDS Seed, TLAPS

-----------------------------------------------------------------------------
(* The inductive invariant. *)

Before == run.at \in {"clear", "unlink", "load"}
Loaded == run.at \in StepNames \union {"save", "done", "halted"}

(* How the fields of the run go together. *)
Shape ==
  /\ run.at \in StepNames => run.at = StepOrder[run.step]
  /\ run.at = "save" => StepOrder[run.step] \in Kinds /\ run.i > Len(plan[StepOrder[run.step]])
  /\ run.at = "done" => run.step = 8
  /\ Before => run.step = 1
  /\ run.at \in {"unlink", "load", "off"} => run.i = 1
  /\ run.p # 0 => Creating /\ run.p <= Len(Parts[Item])
  /\ run.at # "off" => runs # 0
  /\ Before \/ run.at = "off" => state = Nothing

(* The file, and what the run has read of it. *)
FileInv ==
  /\ file.status # "ok" => file.has = Nothing
  /\ Loaded => file.status # "torn"
  /\ Loaded => \A e \in Entities : file.has.of[e] # 0 => state.of[e] # 0
  /\ Loaded /\ run.step > 6 => file = [status |-> "ok", has |-> state]

(* A run that has not come has left nothing. *)
Future ==
  /\ \A n \in Runs : n > runs => ended[n] = "" /\ \A e \in Entities : rows[e][n] = {}
  /\ Before => \A e \in Entities : rows[e][runs] = {}
  /\ ~Resting => ended[runs] = ""

(* The tables that a reset has cleared. *)
ClearedBy(i) == {Deletes[k][1] : k \in {j \in 1..12 : j < i /\ Deletes[j][2] = "row"}}
Cleared ==
  /\ run.at = "clear" =>
       \A kind \in ClearedBy(run.i) \intersect Kinds :
         \A e \in ItemsOf(kind), n \in Runs : rows[e][n] = {}
  /\ run.at = "unlink" => \A e \in Entities, n \in Runs : rows[e][n] = {}

(* The parts that the run has written of the item it is at. *)
Written == run.p # 0 => \A k \in 1..run.p : Parts[Item][k] \in rows[Item][runs]

(* A row that the file does not name is of a run that was cut short in the *)
(* step that makes it, or of this run in its present step.                 *)
InHand(kind, e, m) ==
  /\ run.at \in StepNames \union {"save"} /\ m = runs /\ kind = StepOrder[run.step]
  /\ Recorded(e) \/ (run.p # 0 /\ e = Item)
Accounted ==
  file.status # "torn" =>
    \A kind \in Kinds : \A e \in ItemsOf(kind), m \in Runs :
      "row" \in rows[e][m] =>
        file.has.of[e] # 0 \/ ended[m] = kind \/ InHand(kind, e, m)

(* What is recorded is usable, but for the article that is being made. *)
Usable(kind, e, n) ==
  IF kind = "systems" THEN "row" \in rows[e][n] ELSE AllParts(e) \subseteq rows[e][n]
FileUsable ==
  ~stale => \A kind \in Kinds : \A e \in ItemsOf(kind) :
    file.has.of[e] # 0 => Usable(kind, e, file.has.of[e])
MemoryUsable ==
  ~stale => \A kind \in Kinds : \A e \in ItemsOf(kind) :
    Recorded(e) => Usable(kind, e, state.of[e]) \/ (run.at = "articles" /\ run.p # 0 /\ e = Item)

(* A system that is half made was left so by a run cut short. *)
HalfInv ==
  ~stale => \A e \in ItemsOf("systems"), n \in Runs :
    "row" \in rows[e][n] =>
      \/ AllParts(e) \subseteq rows[e][n]
      \/ ended[n] = "systems"
      \/ run.at = "systems" /\ run.p # 0 /\ e = Item /\ n = runs

(* The run has recorded all that it has passed. *)
Passed(k, j) == k < run.step \/ (k = run.step /\ j < run.i)
Progress ==
  Loaded => \A k \in DOMAIN StepOrder : StepOrder[k] \in Kinds =>
    \A j \in DOMAIN plan[StepOrder[k]] : Passed(k, j) => Recorded(plan[StepOrder[k]][j])
FollowsMade ==
  Loaded => \A j \in DOMAIN FOLLOWS :
    Passed(5, j) /\ FOLLOWS[j][1] \in ItemsIn(plan, "users") /\ Recorded(FOLLOWS[j][2])
      => <<Copy(FOLLOWS[j][1]), Copy(FOLLOWS[j][2])>> \in follows
FeedsMade ==
  Loaded /\ SomeArticle => \A j \in DOMAIN plan["users"] :
    Passed(7, j) => /\ Copy(plan["users"][j]) \in feeds
                    /\ {"row", "key", RankScope} \subseteq rows[Ranker][state.of[Ranker]]

SeedInv ==
  /\ SeedTypeOK /\ Shape /\ FileInv /\ Future /\ Cleared /\ Written
  /\ Accounted /\ DuplicatesExplained /\ FileUsable /\ MemoryUsable /\ HalfInv
  /\ Progress /\ FollowsMade /\ FeedsMade

-----------------------------------------------------------------------------
(* Facts about the constants. *)

(* The eight steps. *)
LEMMA StepFacts ==
  /\ DOMAIN StepOrder = 1..8 /\ Len(StepOrder) = 8
  /\ StepOrder[1] = "systems" /\ StepOrder[2] = "accounts" /\ StepOrder[3] = "users"
  /\ StepOrder[4] = "articles" /\ StepOrder[5] = "follows" /\ StepOrder[6] = "drafts"
  /\ StepOrder[7] = "feeds" /\ StepOrder[8] = "events"
BY DEF StepOrder

\* The steps of run_seed by name.
LEMMA StepNamesAre ==
  StepNames = {"systems", "accounts", "users", "articles", "follows", "drafts", "feeds", "events"}
<1>1. \A k \in 1..8 : k = 1 \/ k = 2 \/ k = 3 \/ k = 4 \/ k = 5 \/ k = 6 \/ k = 7 \/ k = 8
  OBVIOUS
<1> QED
  BY <1>1, StepFacts DEF StepNames

\* Which step comes when, and which of them create entities.
LEMMA StepOf ==
  \A k \in 1..8 :
    /\ StepOrder[k] \in StepNames
    /\ StepOrder[k] \in Kinds <=> k \in {1, 2, 3, 4, 6}
    /\ StepOrder[k] = "follows" <=> k = 5
    /\ StepOrder[k] = "feeds" <=> k = 7
    /\ StepOrder[k] = "events" <=> k = 8
    /\ StepOrder[k] = "users" <=> k = 3
    /\ \A l \in 1..8 : StepOrder[k] = StepOrder[l] => k = l
<1>1. \A k \in 1..8 : k = 1 \/ k = 2 \/ k = 3 \/ k = 4 \/ k = 5 \/ k = 6 \/ k = 7 \/ k = 8
  OBVIOUS
<1> QED
  BY <1>1, StepFacts, StepNamesAre DEF Kinds

(* The parts of an entity: the row comes first. *)
LEMMA PartFacts ==
  \A e \in Entities :
    /\ Len(Parts[e]) \in Nat \ {0} /\ DOMAIN Parts[e] = 1..Len(Parts[e])
    /\ Parts[e][1] = "row"
    /\ \A k \in DOMAIN Parts[e] :
         Parts[e][k] \in PartNames /\ (Parts[e][k] = "row" => k = 1)
<1> SUFFICES ASSUME NEW e \in Entities
             PROVE  /\ Len(Parts[e]) \in Nat \ {0} /\ DOMAIN Parts[e] = 1..Len(Parts[e])
                    /\ Parts[e][1] = "row"
                    /\ \A k \in DOMAIN Parts[e] :
                         Parts[e][k] \in PartNames /\ (Parts[e][k] = "row" => k = 1)
  OBVIOUS
<1>1. CASE e \in ItemsOf("systems")
  <2>1. Parts[e] = <<"row", "key">> \o ScopesOf(e)
    <3>1. e \notin ItemsOf("articles") /\ e \notin ItemsOf("drafts")
      BY <1>1, PlanAssumption DEF Kinds
    <3> QED
      BY <1>1, <3>1 DEF Parts, SystemParts
  <2>2. ScopesOf(e) \in Seq(Scopes) /\ "row" \notin Scopes
    BY <1>1, PlanAssumption
  <2> DEFINE s == ScopesOf(e)
             t == <<"row", "key">> \o s
  <2>3. /\ Len(t) = Len(s) + 2 /\ Len(s) \in Nat /\ DOMAIN t = 1..Len(t)
        /\ t[1] = "row" /\ t[2] = "key"
        /\ \A k \in 1..Len(t) : k > 2 => t[k] = s[k - 2]
    BY <2>2
  <2>4. \A k \in 1..Len(t) : k > 2 => t[k] \in Scopes
    BY <2>2, <2>3
  <2>5. \A k \in 1..Len(t) : k = 1 \/ k = 2 \/ k > 2
    BY <2>3
  <2>6. \A k \in DOMAIN t : t[k] \in PartNames /\ (t[k] = "row" => k = 1)
    BY <2>2, <2>3, <2>4, <2>5 DEF PartNames
  <2>7. Len(t) \in Nat \ {0}
    BY <2>3
  <2> QED
    BY <2>1, <2>3, <2>6, <2>7
<1>2. CASE e \notin ItemsOf("systems")
  <2>1. Parts[e] \in {ArticleParts, DraftParts, PrincipalParts}
    BY <1>2 DEF Parts
  <2>2. \A k \in 1..3 : k = 1 \/ k = 2 \/ k = 3
    OBVIOUS
  <2>3. \A k \in 1..2 : k = 1 \/ k = 2
    OBVIOUS
  <2>4. \A k \in 1..1 : k = 1
    OBVIOUS
  <2>5. CASE Parts[e] = <<"row", "created_at", "state">>
    BY <2>5, <2>2 DEF PartNames
  <2>6. CASE Parts[e] = <<"row", "key">>
    BY <2>6, <2>3 DEF PartNames
  <2>7. CASE Parts[e] = <<"row">>
    BY <2>7, <2>4 DEF PartNames
  <2> QED
    BY <2>1, <2>5, <2>6, <2>7 DEF ArticleParts, DraftParts, PrincipalParts
<1> QED
  BY <1>1, <1>2

\* The tables that a reset clears, in the order of the DELETEs.
LEMMA DeleteFacts ==
  /\ DOMAIN Deletes = 1..12 /\ Len(Deletes) = 12
  /\ Deletes[4] = <<"articles", "row">> /\ Deletes[5] = <<"drafts", "row">>
  /\ Deletes[7] = <<"accounts", "row">> /\ Deletes[9] = <<"users", "row">>
  /\ Deletes[12] = <<"systems", "row">>
BY DEF Deletes

(* An entity is of one kind, and the lists of a plan name entities. *)
LEMMA ItemFacts ==
  /\ \A kind \in Kinds : ItemsOf(kind) \subseteq Entities
  /\ \A e \in Entities : \E kind \in Kinds : e \in ItemsOf(kind)
  /\ \A k, l \in Kinds, e \in Entities : e \in ItemsOf(k) /\ e \in ItemsOf(l) => k = l
BY PlanAssumption DEF Entities

\* The items of a plan are the elements of its lists.
LEMMA ListFacts ==
  ASSUME NEW p \in Plans, NEW kind \in Kinds
  PROVE  /\ Len(p[kind]) \in Nat /\ DOMAIN p[kind] = 1..Len(p[kind])
         /\ \A j \in DOMAIN p[kind] :
              p[kind][j] \in ItemsOf(kind) /\ p[kind][j] \in ItemsIn(p, kind)
         /\ \A e \in ItemsIn(p, kind) : \E j \in DOMAIN p[kind] : e = p[kind][j]
         /\ ItemsIn(p, kind) \subseteq ItemsOf(kind)
<1>1. p[kind] \in Seq(ItemsOf(kind))
  BY PlanAssumption
<1>2. Len(p[kind]) \in Nat /\ DOMAIN p[kind] = 1..Len(p[kind])
  BY <1>1
<1> QED
  BY <1>1, <1>2 DEF ItemsIn, ItemsOf

(* The number of items of each step. *)
LEMMA WidthFacts ==
  ASSUME plan \in Plans
  PROVE  /\ \A kind \in Kinds : Width(kind) = Len(plan[kind])
         /\ Width("follows") = Len(FOLLOWS)
         /\ Width("feeds") = Len(plan["users"]) /\ Width("events") = Len(plan["users"])
         /\ \A k \in 1..8 : Width(StepOrder[k]) \in Nat
<1>1. \A kind \in Kinds : Width(kind) = Len(plan[kind])
  BY DEF Width, Kinds
<1>2. Width("follows") = Len(FOLLOWS)
  BY DEF Width, Kinds
<1>3. Width("feeds") = Len(plan["users"]) /\ Width("events") = Len(plan["users"])
  BY DEF Width, Kinds
<1>4. Len(FOLLOWS) \in Nat /\ Len(plan["users"]) \in Nat
  BY PlanAssumption, ListFacts DEF Kinds
<1>5. \A kind \in Kinds : Len(plan[kind]) \in Nat
  BY ListFacts
<1>6. \A k \in 1..8 : StepOrder[k] \in Kinds \union {"follows", "feeds", "events"}
  BY StepOf, StepNamesAre DEF Kinds
<1> QED
  BY <1>1, <1>2, <1>3, <1>4, <1>5, <1>6

(* The type invariant in parts. *)
RunRecords ==
  [at : {"off", "clear", "unlink", "load", "save", "done", "halted"} \union StepNames,
   step : DOMAIN StepOrder, i : Nat \ {0}, p : Nat, reset : BOOLEAN, skip : BOOLEAN]
RunType ==
  /\ run \in RunRecords
  /\ run.i <= IF run.at = "clear" THEN Len(Deletes) ELSE Width(StepOrder[run.step]) + 1
DbType ==
  /\ rows \in [Entities -> [Runs -> SUBSET PartNames]]
  /\ follows \subseteq UserCopies \X AccountCopies
  /\ feeds \subseteq UserCopies
  /\ events \in [Runs -> SUBSET UserCopies]
FileType == file \in [status : {"absent", "ok", "torn"}, has : SeedState]
CountType == runs \in 0..MaxRuns /\ faults \in 0..MaxFaults
EndedType == ended \in [Runs -> {"", "before"} \union StepNames]

\* The type invariant, variable by variable.
LEMMA TypeParts ==
  SeedTypeOK <=> /\ DbType /\ FileType /\ plan \in Plans /\ state \in SeedState
                 /\ RunType /\ CountType /\ EndedType /\ stale \in BOOLEAN
BY DEF SeedTypeOK, DbType, FileType, RunType, RunRecords, CountType, EndedType

\* The same of the next state.
LEMMA TypePartsNext ==
  SeedTypeOK' <=> /\ DbType' /\ FileType' /\ plan' \in Plans /\ state' \in SeedState
                  /\ RunType' /\ CountType' /\ EndedType' /\ stale' \in BOOLEAN
BY DEF SeedTypeOK, DbType, FileType, RunType, RunRecords, CountType, EndedType

(* What is needed to know that the run is well typed again. *)
LEMMA RunMade ==
  ASSUME NEW r, NEW at, NEW step, NEW i, NEW p, NEW reset \in BOOLEAN, NEW skip \in BOOLEAN,
         r = [at |-> at, step |-> step, i |-> i, p |-> p, reset |-> reset, skip |-> skip],
         at \in {"off", "clear", "unlink", "load", "save", "done", "halted"} \union StepNames,
         step \in 1..8, i \in Nat, i >= 1, p \in Nat
  PROVE  /\ r \in RunRecords
         /\ r.at = at /\ r.step = step /\ r.i = i /\ r.p = p
<1>1. i \in Nat \ {0} /\ step \in DOMAIN StepOrder
  BY StepFacts
<1> QED
  BY <1>1 DEF RunRecords

\* A run is the record of its fields.
LEMMA RunIs ==
  ASSUME run \in RunRecords
  PROVE  run = [at |-> run.at, step |-> run.step, i |-> run.i, p |-> run.p,
                reset |-> run.reset, skip |-> run.skip]
BY DEF RunRecords

\* The ranges of the fields of a run.
LEMMA RunFacts ==
  ASSUME SeedTypeOK
  PROVE  /\ RunType /\ run.step \in 1..8 /\ run.i \in Nat /\ run.i >= 1 /\ run.p \in Nat
         /\ run.at \in {"off", "clear", "unlink", "load", "save", "done", "halted"} \union StepNames
<1>1. RunType
  BY TypeParts
<1> QED
  BY <1>1, StepFacts DEF RunType, RunRecords

\* The stages of a run exclude each other.
LEMMA AtFacts ==
  ASSUME SeedTypeOK
  PROVE  /\ ~Resting => Before \/ run.at \in StepNames \union {"save"}
         /\ Loaded <=> ~Before /\ run.at # "off"
         /\ Before => run.at \notin StepNames \union {"save"}
         /\ Kinds \subseteq StepNames
         /\ \A x \in {"off", "clear", "unlink", "load", "save", "done", "halted"} : x \notin StepNames
BY RunFacts, StepNamesAre DEF Resting, Before, Loaded, Kinds

\* The empty seed state names nothing.
LEMMA NothingTyped == Nothing \in SeedState /\ \A e \in Entities : Nothing.of[e] = 0
BY PlanAssumption DEF Nothing, SeedState

(* A run that is going on is one of the runs. *)
LEMMA RunsTyped ==
  ASSUME SeedTypeOK, Shape
  PROVE  /\ MaxRuns \in Nat /\ runs \in 0..MaxRuns
         /\ run.at # "off" => runs \in Runs
<1>1. MaxRuns \in Nat /\ runs \in 0..MaxRuns
  BY PlanAssumption, TypeParts DEF CountType
<1>2. run.at # "off" => runs # 0
  BY DEF Shape
<1> QED
  BY <1>1, <1>2 DEF Runs

-----------------------------------------------------------------------------
(* A run that stops forgets what it had not saved. *)
StopMove ==
  /\ ~Resting /\ Stops /\ faults' \in 0..MaxFaults
  /\ UNCHANGED <<rows, follows, feeds, events, plan, runs, stale>>
  /\ \/ UNCHANGED file
     \/ /\ run.at = "save"
        /\ file' \in {[status |-> "ok", has |-> state], [status |-> "torn", has |-> Nothing]}

\* A run may be cut short anywhere.
LEMMA StopStep ==
  ASSUME SeedInv, StopMove
  PROVE  SeedInv'
<1> USE DEF SeedInv
<1>0. /\ rows' = rows /\ follows' = follows /\ feeds' = feeds /\ events' = events
      /\ plan' = plan /\ runs' = runs /\ stale' = stale /\ faults' \in 0..MaxFaults
      /\ ~Resting /\ Stops
  BY DEF StopMove
<1>1. /\ run'.at = "off" /\ run'.step = run.step /\ run'.i = 1 /\ run'.p = 0
      /\ run' \in RunRecords
  <2>1. run \in RunRecords
    BY <1>0, RunFacts DEF RunType
  <2>2. run' = [run EXCEPT !.at = "off", !.i = 1, !.p = 0]
    BY <1>0 DEF Stops
  <2>3. run' = [at |-> "off", step |-> run.step, i |-> 1, p |-> 0,
                reset |-> run.reset, skip |-> run.skip]
    BY <2>1, <2>2 DEF RunRecords
  <2>4. run.reset \in BOOLEAN /\ run.skip \in BOOLEAN /\ run.step \in 1..8
    BY <2>1, RunFacts DEF RunRecords
  <2> QED
    BY <2>3, <2>4, RunMade
<1>2. runs \in Runs /\ run.at # "off" /\ (Before \/ run.at \in StepNames \union {"save"})
  BY <1>0, RunsTyped, AtFacts DEF Resting
<1>3. Reached \in {"before"} \union StepNames
  BY <1>0, RunFacts, StepOf DEF Reached
<1>4. state' = Nothing /\ ended' = [ended EXCEPT ![runs] = Reached]
  BY <1>0 DEF Stops
<1>5. /\ ended \in [Runs -> {"", "before"} \union StepNames]
      /\ ended' \in [Runs -> {"", "before"} \union StepNames]
      /\ ended'[runs] = Reached /\ \A n \in Runs : n # runs => ended'[n] = ended[n]
  <2>1. ended \in [Runs -> {"", "before"} \union StepNames]
    BY <1>0, TypeParts DEF EndedType
  <2> QED
    BY <1>0, <1>2, <1>3, <1>4, <2>1
<1>6. /\ file' \in [status : {"absent", "ok", "torn"}, has : SeedState]
      /\ file'.status # "ok" => file'.has = Nothing
      /\ file' = file \/ (run.at = "save" /\ file'.has = state) \/ file'.status = "torn"
  <2>1. file \in [status : {"absent", "ok", "torn"}, has : SeedState] /\ state \in SeedState
    BY <1>0, TypeParts DEF FileType
  <2>2. file.status # "ok" => file.has = Nothing
    BY <1>0 DEF FileInv
  <2>3. \/ file' = file
        \/ run.at = "save" /\ file' = [status |-> "ok", has |-> state]
        \/ file' = [status |-> "torn", has |-> Nothing]
    BY DEF StopMove
  <2> QED
    BY <1>0, <2>1, <2>2, <2>3, NothingTyped
<1>7. ~Before' /\ ~Loaded' /\ Resting'
  BY <1>0, <1>1, StepNamesAre DEF Before, Loaded, Resting
<1>8. SeedTypeOK'
  <2>1. Width(StepOrder[run.step])' = Width(StepOrder[run.step])
    BY <1>0, <1>1 DEF Width
  <2>2. Width(StepOrder[run.step]) \in Nat
    BY <1>0, WidthFacts, RunFacts, TypeParts
  <2>3. RunType'
    BY <1>0, <1>1, <2>1, <2>2 DEF RunType, RunRecords
  <2>4. DbType' /\ plan' \in Plans /\ stale' \in BOOLEAN
    BY <1>0, TypeParts DEF DbType
  <2>5. CountType'
    BY <1>0, TypeParts DEF CountType
  <2> QED
    BY <1>0, <1>4, <1>5, <1>6, <2>3, <2>4, <2>5, NothingTyped, TypePartsNext DEF FileType, EndedType
<1>9. Shape'
  BY <1>0, <1>1, <1>4, <1>7, StepNamesAre DEF Shape
<1>10. FileInv'
  BY <1>0, <1>6, <1>7 DEF FileInv
<1>11. Future'
  <2>1. \A n \in Runs : n > runs => ended'[n] = "" /\ \A e \in Entities : rows[e][n] = {}
    <3>1. \A n \in Runs : n > runs => n # runs
      BY RunsTyped DEF Runs
    <3> QED
      BY <1>2, <1>5, <3>1 DEF Future
  <2> QED
    BY <1>0, <1>7, <2>1 DEF Future
<1>12. Cleared' /\ Written' /\ Progress' /\ FollowsMade' /\ FeedsMade'
  BY <1>0, <1>1, <1>7 DEF Cleared, Written, Progress, FollowsMade, FeedsMade
<1>13. Accounted'
  <2> SUFFICES ASSUME file'.status # "torn", NEW kind \in Kinds, NEW e \in ItemsOf(kind),
                      NEW m \in Runs, "row" \in rows'[e][m]
               PROVE  file'.has.of[e] # 0 \/ ended'[m] = kind
    BY <1>0 DEF Accounted
  <2>1. file.status # "torn" /\ "row" \in rows[e][m] /\ e \in Entities
    BY <1>0, <1>2, <1>6, ItemFacts, AtFacts DEF FileInv, Loaded
  <2>2. file.has.of[e] # 0 \/ ended[m] = kind \/ InHand(kind, e, m)
    BY <1>0, <2>1 DEF Accounted
  <2>3. file.has.of[e] # 0 => file'.has.of[e] # 0
    BY <1>0, <1>6, <2>1 DEF FileInv, Loaded
  <2>4. ended[m] = kind => ended'[m] = kind
    BY <1>0, <1>5, <1>2 DEF Future, Kinds
  <2>5. InHand(kind, e, m) => ended'[m] = kind
    BY <1>0, <1>5, StepNamesAre DEF InHand, Reached
  <2> QED
    BY <1>0, <2>2, <2>3, <2>4, <2>5
<1>14. DuplicatesExplained'
  <2>1. \A kind \in Kinds, m \in Runs : ended[m] = kind => ended'[m] = kind
    BY <1>0, <1>5, <1>2 DEF Future, Kinds
  <2> QED
    BY <1>0, <2>1 DEF DuplicatesExplained
<1>15. MemoryUsable'
  BY <1>0, <1>4, NothingTyped, ItemFacts DEF MemoryUsable, Recorded
<1>16. FileUsable'
  <2> SUFFICES ASSUME ~stale, NEW kind \in Kinds, NEW e \in ItemsOf(kind), file'.has.of[e] # 0
               PROVE  Usable(kind, e, file.has.of[e])'
    BY <1>0 DEF FileUsable
  <2>1. Usable(kind, e, file.has.of[e])' <=> Usable(kind, e, file'.has.of[e])
    BY <1>0 DEF Usable
  <2>2. CASE file' = file
    BY <1>0, <2>1, <2>2 DEF FileUsable
  <2>3. CASE run.at = "save" /\ file'.has = state
    BY <1>0, <2>1, <2>3 DEF MemoryUsable, Recorded
  <2>4. CASE file'.status = "torn"
    BY <1>0, <2>4, <1>6, NothingTyped, ItemFacts
  <2> QED
    BY <1>0, <2>2, <2>3, <2>4, <1>6
<1>17. HalfInv'
  <2> SUFFICES ASSUME ~stale, NEW e \in ItemsOf("systems"), NEW n \in Runs, "row" \in rows[e][n]
               PROVE  AllParts(e) \subseteq rows[e][n] \/ ended'[n] = "systems"
    BY <1>0 DEF HalfInv
  <2>1. \/ AllParts(e) \subseteq rows[e][n] \/ ended[n] = "systems"
        \/ run.at = "systems" /\ n = runs
    BY <1>0 DEF HalfInv
  <2>2. ended[n] = "systems" => ended'[n] = "systems"
    BY <1>0, <1>5, <1>2 DEF Future
  <2>3. run.at = "systems" => Reached = "systems"
    BY <1>0, StepNamesAre DEF Reached, Shape
  <2> QED
    BY <1>0, <2>1, <2>2, <2>3, <1>5
<1> QED
  BY <1>0, <1>8, <1>9, <1>10, <1>11, <1>12, <1>13, <1>14, <1>15, <1>16, <1>17

-----------------------------------------------------------------------------
(* Past the third step every user of the plan is recorded. *)
LEMMA UsersRecorded ==
  ASSUME SeedInv, Loaded, run.step > 3
  PROVE  \A u \in ItemsIn(plan, "users") : Recorded(u)
<1>1. plan \in Plans /\ "users" \in Kinds /\ 3 \in DOMAIN StepOrder /\ StepOrder[3] = "users"
  BY TypeParts, StepFacts DEF SeedInv, Kinds
<1>2. \A j \in DOMAIN plan["users"] : Passed(3, j)
  BY DEF Passed
<1>3. \A j \in DOMAIN plan["users"] : Recorded(plan["users"][j])
  BY <1>1, <1>2 DEF SeedInv, Progress
<1> QED
  BY <1>1, <1>3, ListFacts

(* An item that needs nothing more: the run goes to the next one. *)
AdvanceMove ==
  /\ run.at \in StepNames /\ run.i <= Width(run.at) /\ run.p = 0
  /\ run.at \in Kinds => Recorded(Item)
  /\ Advance(run.at)
  /\ UNCHANGED <<rows, file, plan, state, runs, faults, ended, stale>>
  /\ follows \subseteq follows' /\ feeds \subseteq feeds' /\ DbType'
  /\ run.at = "follows" /\ FOLLOWS[run.i][1] \in ItemsIn(plan, "users")
       /\ Recorded(FOLLOWS[run.i][1]) /\ Recorded(FOLLOWS[run.i][2])
       => <<Copy(FOLLOWS[run.i][1]), Copy(FOLLOWS[run.i][2])>> \in follows'
  /\ run.at = "feeds" /\ SomeArticle
       => Copy(User) \in feeds' /\ {"row", "key", RankScope} \subseteq rows[Ranker][state.of[Ranker]]

\* Passing over an item that is already there or has been served.
LEMMA AdvanceStep ==
  ASSUME SeedInv, AdvanceMove
  PROVE  SeedInv'
<1> USE DEF SeedInv
<1>0. /\ rows' = rows /\ file' = file /\ plan' = plan /\ state' = state /\ runs' = runs
      /\ faults' = faults /\ ended' = ended /\ stale' = stale
      /\ run.at \in StepNames /\ run.i <= Width(run.at) /\ run.p = 0 /\ Advance(run.at)
  BY DEF AdvanceMove
<1>1. /\ run'.at = run.at /\ run'.step = run.step /\ run'.i = run.i + 1 /\ run'.p = 0
      /\ run' \in RunRecords
  <2>1. run \in RunRecords
    BY RunFacts DEF RunType
  <2>2. run' = [run EXCEPT !.at = run.at, !.i = @ + 1, !.p = 0]
    BY <1>0 DEF Advance
  <2>3. run' = [at |-> run.at, step |-> run.step, i |-> run.i + 1, p |-> 0,
                reset |-> run.reset, skip |-> run.skip]
    BY <2>1, <2>2 DEF RunRecords
  <2>4. /\ run.reset \in BOOLEAN /\ run.skip \in BOOLEAN /\ run.step \in 1..8
        /\ run.i + 1 \in Nat /\ run.i + 1 >= 1
    BY <2>1, RunFacts DEF RunRecords
  <2>5. run.at \in {"off", "clear", "unlink", "load", "save", "done", "halted"} \union StepNames
    BY <1>0
  <2> QED
    BY <2>3, <2>4, <2>5, RunMade
<1>2. /\ run.at = StepOrder[run.step] /\ run.step \in 1..8 /\ run.i \in Nat /\ run.i >= 1
      /\ run.at \notin {"off", "clear", "unlink", "load", "save", "done", "halted"}
  BY <1>0, AtFacts, RunFacts DEF Shape
<1>3. /\ ~Before /\ ~Before' /\ Loaded /\ Loaded'
      /\ ~Resting /\ ~Resting'
  BY <1>0, <1>1, <1>2 DEF Before, Loaded, Resting
<1>4. SeedTypeOK'
  <2>1. Width(StepOrder[run.step])' = Width(run.at)
    BY <1>0, <1>1, <1>2 DEF Width
  <2>2. Width(run.at) \in Nat
    BY <1>2, WidthFacts, TypeParts
  <2>3. RunType'
    BY <1>0, <1>1, <1>2, <2>1, <2>2 DEF RunType
  <2>4. DbType'
    BY DEF AdvanceMove
  <2>5. FileType' /\ CountType' /\ EndedType'
    BY <1>0, TypeParts DEF FileType, CountType, EndedType
  <2> QED
    BY <1>0, <2>3, <2>4, <2>5, TypeParts, TypePartsNext
<1>5. Shape'
  BY <1>0, <1>1, <1>2, <1>3 DEF Shape
<1>6. FileInv' /\ Future'
  BY <1>0, <1>1, <1>3 DEF FileInv, Future
<1>7. Cleared' /\ Written'
  BY <1>1, <1>2 DEF Cleared, Written
<1>8. Accounted'
  <2>1. \A kind \in Kinds : \A e \in ItemsOf(kind), m \in Runs :
          InHand(kind, e, m) => InHand(kind, e, m)'
    BY <1>0, <1>1 DEF InHand, Recorded
  <2> QED
    BY <1>0, <2>1 DEF Accounted
<1>9. DuplicatesExplained' /\ FileUsable' /\ MemoryUsable'
  BY <1>0, <1>1 DEF DuplicatesExplained, FileUsable, MemoryUsable, Usable, Recorded
<1>10. HalfInv'
  BY <1>0, <1>1 DEF HalfInv
<1>11. Progress'
  <2> SUFFICES ASSUME NEW k \in DOMAIN StepOrder, StepOrder[k] \in Kinds,
                      NEW j \in DOMAIN plan[StepOrder[k]], Passed(k, j)'
               PROVE  Recorded(plan[StepOrder[k]][j])
    BY <1>0 DEF Progress, Recorded
  <2>1. k \in 1..8 /\ j \in Nat
    BY StepFacts, ListFacts, TypeParts
  <2>2. Passed(k, j) \/ (k = run.step /\ j = run.i)
    BY <1>1, <1>2, <2>1 DEF Passed
  <2>3. k = run.step /\ j = run.i => Recorded(plan[StepOrder[k]][j])
    BY <1>2 DEF AdvanceMove, Item
  <2> QED
    BY <1>3, <2>2, <2>3 DEF Progress
<1>12. FollowsMade'
  <2> SUFFICES ASSUME NEW j \in DOMAIN FOLLOWS, Passed(5, j)',
                      FOLLOWS[j][1] \in ItemsIn(plan, "users"), Recorded(FOLLOWS[j][2])
               PROVE  <<Copy(FOLLOWS[j][1]), Copy(FOLLOWS[j][2])>> \in follows'
    BY <1>0 DEF FollowsMade, Recorded, Copy
  <2>1. j \in Nat
    BY PlanAssumption
  <2>2. Passed(5, j) \/ (run.step = 5 /\ j = run.i)
    BY <1>1, <1>2, <2>1 DEF Passed
  <2>3. CASE Passed(5, j)
    BY <1>3, <2>3 DEF FollowsMade, AdvanceMove
  <2>4. CASE run.step = 5 /\ j = run.i
    <3>1. run.at = "follows" /\ Recorded(FOLLOWS[j][1])
      BY <1>2, <1>3, <2>4, StepFacts, UsersRecorded
    <3> QED
      BY <2>4, <3>1 DEF AdvanceMove
  <2> QED
    BY <2>2, <2>3, <2>4
<1>13. FeedsMade'
  <2> SUFFICES ASSUME SomeArticle, NEW j \in DOMAIN plan["users"], Passed(7, j)'
               PROVE  /\ Copy(plan["users"][j]) \in feeds'
                      /\ {"row", "key", RankScope} \subseteq rows[Ranker][state.of[Ranker]]
    BY <1>0 DEF FeedsMade, SomeArticle, Recorded, Copy
  <2>1. j \in Nat
    BY ListFacts, TypeParts DEF Kinds
  <2>2. Passed(7, j) \/ (run.step = 7 /\ j = run.i)
    BY <1>1, <1>2, <2>1 DEF Passed
  <2>3. CASE Passed(7, j)
    BY <1>3, <2>3 DEF FeedsMade, AdvanceMove
  <2>4. CASE run.step = 7 /\ j = run.i
    BY <1>2, <2>4, StepFacts DEF AdvanceMove, User
  <2> QED
    BY <2>2, <2>3, <2>4
<1> QED
  BY <1>4, <1>5, <1>6, <1>7, <1>8, <1>9, <1>10, <1>11, <1>12, <1>13

-----------------------------------------------------------------------------
(* The item that is being created. *)
LEMMA CreatingFacts ==
  ASSUME SeedTypeOK, Shape, Creating
  PROVE  /\ run.at \in Kinds /\ run.at \in StepNames /\ run.at = StepOrder[run.step]
         /\ run.step \in {1, 2, 3, 4, 6} /\ run.i \in Nat /\ run.i >= 1
         /\ run.i <= Width(run.at) /\ Width(run.at) \in Nat
         /\ Item \in ItemsOf(run.at) /\ Item \in Entities
         /\ run.at \notin {"off", "clear", "unlink", "load", "save", "done", "halted"}
         /\ runs \in Runs
         /\ ~Before /\ Loaded /\ ~Resting
<1>1. run.at \in Kinds /\ run.i \in DOMAIN plan[run.at] /\ plan \in Plans
  BY TypeParts DEF Creating
<1>2. run.at \in StepNames /\ run.at = StepOrder[run.step] /\ run.step \in 1..8
  BY <1>1, AtFacts, RunFacts DEF Shape
<1>3. run.step \in {1, 2, 3, 4, 6}
  BY <1>1, <1>2, StepOf
<1>4. run.i \in Nat /\ run.i >= 1 /\ run.i <= Width(run.at) /\ Width(run.at) \in Nat
  <2>1. Width(run.at) = Len(plan[run.at])
    BY <1>1, WidthFacts
  <2>2. Len(plan[run.at]) \in Nat /\ DOMAIN plan[run.at] = 1..Len(plan[run.at])
    BY <1>1, ListFacts
  <2> QED
    BY <1>1, <2>1, <2>2
<1>5. Item \in ItemsOf(run.at) /\ Item \in Entities
  BY <1>1, ListFacts, ItemFacts DEF Item
<1>6. run.at \notin {"off", "clear", "unlink", "load", "save", "done", "halted"}
  BY <1>2, AtFacts
<1>7. runs \in Runs /\ ~Before /\ Loaded /\ ~Resting
  BY <1>2, <1>6, RunsTyped DEF Before, Loaded, Resting
<1> QED
  BY <1>1, <1>2, <1>3, <1>4, <1>5, <1>6, <1>7

\* Recording an id changes the entry of that entity only.
LEMMA WithFacts ==
  ASSUME state \in SeedState, NEW e \in Entities, NEW n \in Runs, NEW keyed \in BOOLEAN
  PROVE  /\ With(e, n, keyed) \in SeedState
         /\ With(e, n, keyed).of[e] = n
         /\ \A x \in Entities : x # e => With(e, n, keyed).of[x] = state.of[x]
<1>1. state.of \in [Entities -> 0..MaxRuns] /\ state.keyed \in SUBSET Entities
  BY DEF SeedState
<1>2. n \in 0..MaxRuns
  BY PlanAssumption DEF Runs
<1>3. [state.of EXCEPT ![e] = n] \in [Entities -> 0..MaxRuns]
  BY <1>1, <1>2
<1>4. (IF keyed THEN state.keyed \union {e} ELSE state.keyed) \in SUBSET Entities
  BY <1>1
<1>5. With(e, n, keyed) \in SeedState
  BY <1>3, <1>4 DEF With, SeedState
<1>6. With(e, n, keyed).of = [state.of EXCEPT ![e] = n]
  BY DEF With
<1> QED
  BY <1>1, <1>5, <1>6

(* An item is recorded, and the run goes to the next one. *)
RecordMove(n) ==
  /\ Creating /\ n \in Runs
  /\ \E keyed \in BOOLEAN : state' = With(Item, n, keyed)
  /\ Advance(run.at)
  /\ UNCHANGED <<rows, follows, feeds, events, file, plan, runs, faults, ended, stale>>
  /\ Usable(run.at, Item, n)
  /\ run.p # 0 => AllParts(Item) \subseteq rows[Item][runs]

\* Noting the id of an entity that is complete, or was found.
LEMMA RecordStep ==
  ASSUME SeedInv, NEW n \in Runs, RecordMove(n)
  PROVE  SeedInv'
<1> USE DEF SeedInv
<1>0. /\ rows' = rows /\ follows' = follows /\ feeds' = feeds /\ events' = events
      /\ file' = file /\ plan' = plan /\ runs' = runs
      /\ faults' = faults /\ ended' = ended /\ stale' = stale
      /\ Creating /\ Advance(run.at) /\ Usable(run.at, Item, n)
      /\ run.p # 0 => AllParts(Item) \subseteq rows[Item][runs]
  BY DEF RecordMove
<1>a. /\ run.at \in Kinds /\ run.at \in StepNames /\ run.at = StepOrder[run.step]
      /\ run.step \in {1, 2, 3, 4, 6} /\ run.i \in Nat /\ run.i >= 1
      /\ run.i <= Width(run.at) /\ Width(run.at) \in Nat
      /\ Item \in ItemsOf(run.at) /\ Item \in Entities
      /\ run.at \notin {"off", "clear", "unlink", "load", "save", "done", "halted"}
      /\ runs \in Runs /\ ~Before /\ Loaded /\ ~Resting
  BY <1>0, CreatingFacts
<1>1. /\ run'.at = run.at /\ run'.step = run.step /\ run'.i = run.i + 1 /\ run'.p = 0
      /\ run' \in RunRecords
  <2>1. run \in RunRecords
    BY RunFacts DEF RunType
  <2>2. run' = [run EXCEPT !.at = run.at, !.i = @ + 1, !.p = 0]
    BY <1>0 DEF Advance
  <2>3. run' = [at |-> run.at, step |-> run.step, i |-> run.i + 1, p |-> 0,
                reset |-> run.reset, skip |-> run.skip]
    BY <2>1, <2>2 DEF RunRecords
  <2>4. /\ run.reset \in BOOLEAN /\ run.skip \in BOOLEAN /\ run.step \in 1..8
        /\ run.i + 1 \in Nat /\ run.i + 1 >= 1
    BY <2>1, RunFacts DEF RunRecords
  <2>5. run.at \in {"off", "clear", "unlink", "load", "save", "done", "halted"} \union StepNames
    BY <1>a
  <2> QED
    BY <2>3, <2>4, <2>5, RunMade
<1>2. /\ state' \in SeedState /\ state'.of[Item] = n
      /\ \A x \in Entities : x # Item => state'.of[x] = state.of[x]
  <2>1. PICK keyed \in BOOLEAN : state' = With(Item, n, keyed)
    BY DEF RecordMove
  <2>2. state \in SeedState
    BY TypeParts
  <2> QED
    BY <1>a, <2>1, <2>2, WithFacts
<1>3. n # 0 /\ \A x \in Entities : Recorded(x) => Recorded(x)'
  BY <1>2, PlanAssumption DEF Recorded, Runs
<1>b. ~Before' /\ Loaded' /\ ~Resting'
  BY <1>1, <1>a DEF Before, Loaded, Resting
<1>4. SeedTypeOK'
  <2>1. Width(StepOrder[run.step])' = Width(run.at)
    BY <1>0, <1>1, <1>a DEF Width
  <2>2. RunType'
    BY <1>1, <1>a, <2>1 DEF RunType
  <2>3. DbType' /\ FileType' /\ CountType' /\ EndedType'
    BY <1>0, TypeParts DEF DbType, FileType, CountType, EndedType
  <2> QED
    BY <1>0, <1>2, <2>2, <2>3, TypeParts, TypePartsNext
<1>5. Shape'
  <2>1. run.at \notin {"save", "done", "unlink", "load", "off"} /\ runs # 0
    BY <1>a, PlanAssumption DEF Runs
  <2> QED
    BY <1>0, <1>1, <1>a, <1>b, <2>1 DEF Shape
<1>6. FileInv'
  <2>1. ~(run.step > 6)
    BY <1>a
  <2> QED
    BY <1>0, <1>1, <1>3, <1>a, <1>b, <2>1 DEF FileInv, Recorded
<1>7. Future'
  BY <1>0, <1>b, <1>a DEF Future
<1>8. Cleared' /\ Written'
  BY <1>1, <1>a DEF Cleared, Written
<1>9. Accounted'
  <2>1. \A kind \in Kinds : \A e \in ItemsOf(kind), m \in Runs :
          InHand(kind, e, m) => InHand(kind, e, m)'
    BY <1>0, <1>1, <1>2, <1>3, ItemFacts DEF InHand, Recorded
  <2> QED
    BY <1>0, <2>1 DEF Accounted
<1>10. DuplicatesExplained' /\ FileUsable'
  BY <1>0 DEF DuplicatesExplained, FileUsable, Usable
<1>11. MemoryUsable'
  <2> SUFFICES ASSUME ~stale, NEW kind \in Kinds, NEW e \in ItemsOf(kind), Recorded(e)'
               PROVE  Usable(kind, e, state.of[e])'
    BY <1>0 DEF MemoryUsable
  <2>1. Usable(kind, e, state.of[e])' <=> Usable(kind, e, state'.of[e])
    BY <1>0 DEF Usable
  <2>2. CASE e = Item
    BY <1>0, <1>2, <1>a, <2>1, <2>2, ItemFacts
  <2>3. CASE e # Item
    <3>1. e \in Entities /\ state'.of[e] = state.of[e] /\ Recorded(e)
      BY <1>2, <2>3, ItemFacts DEF Recorded
    <3> QED
      BY <2>1, <2>3, <3>1 DEF MemoryUsable
  <2> QED
    BY <2>2, <2>3
<1>12. HalfInv'
  BY <1>0, <1>1 DEF HalfInv
<1>13. Progress'
  <2> SUFFICES ASSUME NEW k \in DOMAIN StepOrder, StepOrder[k] \in Kinds,
                      NEW j \in DOMAIN plan[StepOrder[k]], Passed(k, j)'
               PROVE  Recorded(plan[StepOrder[k]][j])'
    BY <1>0 DEF Progress, Recorded
  <2>1. k \in 1..8 /\ j \in Nat /\ plan[StepOrder[k]][j] \in Entities
    BY StepFacts, ListFacts, ItemFacts, TypeParts
  <2>2. Passed(k, j) \/ (k = run.step /\ j = run.i)
    BY <1>1, <1>a, <2>1 DEF Passed
  <2>3. k = run.step /\ j = run.i => plan[StepOrder[k]][j] = Item
    BY <1>a DEF Item
  <2>4. state'.of[Item] # 0
    BY <1>2, <1>3
  <2>5. Passed(k, j) => Recorded(plan[StepOrder[k]][j])
    BY <1>a DEF Progress
  <2> QED
    BY <1>0, <1>3, <2>1, <2>2, <2>3, <2>4, <2>5 DEF Recorded
<1>14. FollowsMade'
  <2> SUFFICES ASSUME NEW j \in DOMAIN FOLLOWS, Passed(5, j)',
                      FOLLOWS[j][1] \in ItemsIn(plan, "users"), Recorded(FOLLOWS[j][2])'
               PROVE  <<Copy(FOLLOWS[j][1])', Copy(FOLLOWS[j][2])'>> \in follows
    BY <1>0 DEF FollowsMade, Recorded, Copy
  <2>1. run.step = 6 /\ run.at = "drafts"
    BY <1>1, <1>a, StepFacts DEF Passed
  <2>2. FOLLOWS[j][1] \in ItemsOf("users") /\ FOLLOWS[j][2] \in ItemsOf("accounts")
    BY PlanAssumption
  <2>3. /\ FOLLOWS[j][1] \in Entities /\ FOLLOWS[j][2] \in Entities
        /\ FOLLOWS[j][1] # Item /\ FOLLOWS[j][2] # Item
    BY <1>a, <2>1, <2>2, ItemFacts DEF Kinds
  <2>4. Copy(FOLLOWS[j][1])' = Copy(FOLLOWS[j][1]) /\ Copy(FOLLOWS[j][2])' = Copy(FOLLOWS[j][2])
    BY <1>2, <2>3 DEF Copy
  <2>5. Recorded(FOLLOWS[j][2]) /\ Passed(5, j)
    BY <1>2, <2>1, <2>3 DEF Recorded, Passed
  <2> QED
    BY <1>a, <2>4, <2>5 DEF FollowsMade
<1>15. FeedsMade'
  BY <1>1, <1>a DEF FeedsMade, Passed
<1> QED
  BY <1>4, <1>5, <1>6, <1>7, <1>8, <1>9, <1>10, <1>11, <1>12, <1>13, <1>14, <1>15

-----------------------------------------------------------------------------
(* One part of an item is written. *)
LEMMA InsertStep ==
  ASSUME SeedInv, InsertPart
  PROVE  SeedInv'
<1> USE DEF SeedInv
<1>0. /\ follows' = follows /\ feeds' = feeds /\ events' = events
      /\ file' = file /\ plan' = plan /\ runs' = runs
      /\ faults' = faults /\ ended' = ended /\ stale' = stale
      /\ run' = [run EXCEPT !.p = @ + 1]
      /\ Begins \/ (Creating /\ run.p \in 1..(Len(Parts[Item]) - 1))
      /\ run.at = "systems" /\ run.p = 0 => Existing(Item) = {}
  BY DEF InsertPart
<1>c. Creating
  BY <1>0 DEF Begins
<1>a. /\ run.at \in Kinds /\ run.at \in StepNames /\ run.at = StepOrder[run.step]
      /\ run.step \in {1, 2, 3, 4, 6} /\ run.i \in Nat /\ run.i >= 1
      /\ run.i <= Width(run.at) /\ Width(run.at) \in Nat
      /\ Item \in ItemsOf(run.at) /\ Item \in Entities
      /\ run.at \notin {"off", "clear", "unlink", "load", "save", "done", "halted"}
      /\ runs \in Runs /\ ~Before /\ Loaded /\ ~Resting
  BY <1>c, CreatingFacts
<1>p. /\ run.p \in Nat /\ run.p + 1 \in 1..Len(Parts[Item]) /\ Len(Parts[Item]) \in Nat \ {0}
      /\ run.p = 0 => state.of[Item] = 0
  <2>1. Len(Parts[Item]) \in Nat \ {0} /\ run.p \in Nat
    BY <1>a, PartFacts, RunFacts
  <2>2. PICK l : l = Len(Parts[Item])
    OBVIOUS
  <2>3. (run.p = 0 /\ state.of[Item] = 0) \/ run.p \in 1..(l - 1)
    BY <1>0, <2>2 DEF Begins
  <2>4. l \in Nat \ {0}
    BY <2>1, <2>2
  <2>5. run.p \in Nat /\ run.p + 1 \in 1..l
    BY <2>1, <2>3, <2>4
  <2>6. run.p = 0 => state.of[Item] = 0
    BY <2>3, <2>4
  <2> QED
    BY <2>1, <2>2, <2>5, <2>6
<1> DEFINE part == Parts[Item][run.p + 1]
<1>q. part \in PartNames /\ (part = "row" <=> run.p = 0)
  BY <1>a, <1>p, PartFacts
<1>1. /\ run'.at = run.at /\ run'.step = run.step /\ run'.i = run.i /\ run'.p = run.p + 1
      /\ run' \in RunRecords
  <2>1. run \in RunRecords
    BY RunFacts DEF RunType
  <2>3. run' = [at |-> run.at, step |-> run.step, i |-> run.i, p |-> run.p + 1,
                reset |-> run.reset, skip |-> run.skip]
    BY <1>0, <2>1 DEF RunRecords
  <2>4. run.reset \in BOOLEAN /\ run.skip \in BOOLEAN /\ run.step \in 1..8
    BY <2>1, RunFacts DEF RunRecords
  <2>6. run.p + 1 \in Nat
    BY <1>p
  <2>5. run.at \in {"off", "clear", "unlink", "load", "save", "done", "halted"} \union StepNames
    BY <1>a
  <2> QED
    BY <1>a, <2>3, <2>4, <2>5, <2>6, RunMade
<1>r. /\ rows' \in [Entities -> [Runs -> SUBSET PartNames]]
      /\ rows'[Item][runs] = rows[Item][runs] \union {part}
      /\ \A e \in Entities, n \in Runs :
           e # Item \/ n # runs => rows'[e][n] = rows[e][n]
  <2>1. rows \in [Entities -> [Runs -> SUBSET PartNames]]
    BY TypeParts DEF DbType
  <2>2. rows' = [rows EXCEPT ![Item] =
                   [n \in Runs |-> rows[Item][n] \union IF n = runs THEN {part} ELSE {}]]
    BY DEF InsertPart
  <2> HIDE DEF part
  <2>3. [n \in Runs |-> rows[Item][n] \union IF n = runs THEN {part} ELSE {}]
          \in [Runs -> SUBSET PartNames]
    <3>1. \A n \in Runs : rows[Item][n] \in SUBSET PartNames
      BY <1>a, <2>1
    <3> QED
      BY <1>q, <3>1
  <2>4. rows' \in [Entities -> [Runs -> SUBSET PartNames]]
    BY <2>1, <2>2, <2>3
  <2> QED
    BY <1>a, <2>1, <2>2, <2>4
<1> HIDE DEF part
<1>m. \A e \in Entities, n \in Runs : rows[e][n] \subseteq rows'[e][n]
  BY <1>r
<1>2. /\ state' \in SeedState
      /\ \A x \in Entities : x # Item => state'.of[x] = state.of[x]
      /\ (run.at = "articles" /\ run.p = 0) \/ state' = state
      /\ state.of[Item] # 0 => state'.of[Item] # 0
  <2>1. state \in SeedState
    BY TypeParts
  <2>2. state' = IF run.at = "articles" /\ run.p = 0 THEN With(Item, runs, FALSE) ELSE state
    BY DEF InsertPart
  <2>3. CASE run.at = "articles" /\ run.p = 0
    <3>1. state' = With(Item, runs, FALSE) /\ state.of[Item] = 0
      BY <1>p, <2>2, <2>3
    <3>2. PICK keyed \in BOOLEAN : state' = With(Item, runs, keyed)
      BY <3>1
    <3>3. PICK e \in Entities, n \in Runs : e = Item /\ n = runs
      BY <1>a
    <3>4. /\ With(e, n, keyed) \in SeedState
          /\ \A x \in Entities : x # e => With(e, n, keyed).of[x] = state.of[x]
      BY <2>1, WithFacts
    <3> QED
      BY <2>3, <3>1, <3>2, <3>3, <3>4
  <2>4. CASE ~(run.at = "articles" /\ run.p = 0)
    BY <2>1, <2>2, <2>4
  <2> QED
    BY <2>3, <2>4
<1>3. \A x \in Entities : Recorded(x) => Recorded(x)'
  BY <1>2 DEF Recorded
<1>b. ~Before' /\ Loaded' /\ ~Resting' /\ Item' = Item /\ run'.p # 0
  BY <1>0, <1>1, <1>a, <1>p DEF Before, Loaded, Resting, Item
<1>4. SeedTypeOK'
  <2>1. Width(StepOrder[run.step])' = Width(run.at)
    BY <1>0, <1>1, <1>a DEF Width
  <2>2. RunType'
    BY <1>1, <1>a, <2>1 DEF RunType
  <2>3. FileType' /\ CountType' /\ EndedType'
    BY <1>0, TypeParts DEF FileType, CountType, EndedType
  <2>4. DbType'
    BY <1>0, <1>r, TypeParts DEF DbType
  <2> QED
    BY <1>0, <1>2, <2>2, <2>3, <2>4, TypeParts, TypePartsNext
<1>5. Shape'
  <2>1. run.at \notin {"save", "done", "unlink", "load", "off"} /\ runs # 0
    BY <1>a, PlanAssumption DEF Runs
  <2>2. Creating' /\ run'.p <= Len(Parts[Item])
    BY <1>0, <1>1, <1>c, <1>p DEF Creating
  <2> QED
    BY <1>0, <1>1, <1>a, <1>b, <2>1, <2>2 DEF Shape
<1>6. FileInv'
  <2>1. ~(run.step > 6)
    BY <1>a
  <2> QED
    BY <1>0, <1>1, <1>3, <1>a, <1>b, <2>1 DEF FileInv, Recorded
<1>7. Future'
  <2>1. \A n \in Runs : n > runs => n # runs
    BY RunsTyped DEF Runs
  <2>2. \A n \in Runs : n > runs => ended[n] = "" /\ \A e \in Entities : rows'[e][n] = {}
    BY <1>r, <2>1 DEF Future
  <2> QED
    BY <1>0, <1>b, <1>a, <2>2 DEF Future
<1>8. Cleared'
  BY <1>1, <1>a DEF Cleared
<1>9. Written'
  <2> SUFFICES ASSUME NEW k \in 1..(run.p + 1)
               PROVE  Parts[Item][k] \in rows'[Item][runs]
    BY <1>0, <1>1, <1>b DEF Written
  <2>1. CASE k = run.p + 1
    BY <1>r, <2>1 DEF part
  <2>2. CASE k # run.p + 1
    <3>1. k \in 1..run.p /\ run.p # 0
      BY <1>p, <2>2
    <3> QED
      BY <1>a, <1>m, <3>1 DEF Written
  <2> QED
    BY <2>1, <2>2
<1>10. Accounted'
  <2> SUFFICES ASSUME file.status # "torn", NEW kind \in Kinds, NEW e \in ItemsOf(kind),
                      NEW m \in Runs, "row" \in rows'[e][m]
               PROVE  file.has.of[e] # 0 \/ ended[m] = kind \/ InHand(kind, e, m)'
    BY <1>0 DEF Accounted
  <2>1. CASE e = Item /\ m = runs
    <3>1. kind = run.at
      BY <1>a, <2>1, ItemFacts
    <3> QED
      BY <1>0, <1>1, <1>a, <1>b, <2>1, <3>1 DEF InHand
  <2>2. CASE e # Item \/ m # runs
    <3>1. e \in Entities /\ "row" \in rows[e][m]
      BY <1>r, <2>2, ItemFacts
    <3>2. file.has.of[e] # 0 \/ ended[m] = kind \/ InHand(kind, e, m)
      BY <3>1 DEF Accounted
    <3>3. InHand(kind, e, m) => InHand(kind, e, m)'
      BY <1>0, <1>1, <1>3, <1>b, <3>1 DEF InHand
    <3> QED
      BY <3>2, <3>3
  <2> QED
    BY <2>1, <2>2
<1>11. DuplicatesExplained'
  <2> SUFFICES ASSUME NEW kind \in Kinds, NEW e \in ItemsOf(kind), NEW m \in Runs, NEW n \in Runs,
                      m < n, "row" \in rows'[e][m], "row" \in rows'[e][n]
               PROVE  kind # "systems" /\ ended[m] = kind
    BY <1>0 DEF DuplicatesExplained
  <2>0. e \in Entities
    BY ItemFacts
  <2>1. CASE "row" \in rows[e][m] /\ "row" \in rows[e][n]
    BY <2>1 DEF DuplicatesExplained
  <2>2. CASE "row" \notin rows[e][m]
    <3>1. e = Item /\ m = runs
      BY <1>r, <2>0, <2>2
    <3>2. n > runs /\ n # runs
      BY <3>1, RunsTyped DEF Runs
    <3>3. rows'[e][n] = {}
      BY <1>r, <2>0, <3>2 DEF Future
    <3> QED
      BY <3>3
  <2>3. CASE "row" \in rows[e][m] /\ "row" \notin rows[e][n]
    <3>1. e = Item /\ n = runs /\ part = "row"
      BY <1>r, <2>0, <2>3
    <3>2. kind = run.at /\ run.p = 0 /\ state.of[e] = 0 /\ m # runs
      BY <1>a, <1>p, <1>q, <3>1, ItemFacts, RunsTyped DEF Runs
    <3>3. kind # "systems"
      BY <1>0, <2>3, <3>1, <3>2 DEF Existing
    <3>4. file.status # "torn" /\ file.has.of[e] = 0
      BY <1>a, <2>0, <3>2 DEF FileInv
    <3>5. ended[m] = kind
      BY <2>3, <3>2, <3>4 DEF Accounted, InHand
    <3> QED
      BY <3>3, <3>5
  <2> QED
    BY <2>1, <2>2, <2>3
<1>12. \A kind \in Kinds, e \in Entities, n \in 0..MaxRuns :
         n # 0 /\ Usable(kind, e, n) => Usable(kind, e, n)'
  <2>1. \A n \in 0..MaxRuns : n # 0 => n \in Runs
    BY PlanAssumption DEF Runs
  <2> QED
    BY <1>m, <2>1 DEF Usable
<1>13. FileUsable'
  <2> SUFFICES ASSUME ~stale, NEW kind \in Kinds, NEW e \in ItemsOf(kind), file.has.of[e] # 0
               PROVE  Usable(kind, e, file.has.of[e])'
    BY <1>0 DEF FileUsable
  <2>1. Usable(kind, e, file.has.of[e]) /\ e \in Entities
    BY ItemFacts DEF FileUsable
  <2>2. file.has.of[e] \in 0..MaxRuns
    BY <2>1, TypeParts DEF FileType, SeedState
  <2>3. PICK n \in 0..MaxRuns : n = file.has.of[e]
    BY <2>2
  <2>4. Usable(kind, e, n)'
    BY <1>12, <2>1, <2>3
  <2> QED
    BY <1>0, <2>3, <2>4 DEF Usable
<1>14. MemoryUsable'
  <2> SUFFICES ASSUME ~stale, NEW kind \in Kinds, NEW e \in ItemsOf(kind), Recorded(e)',
                      ~(run.at = "articles" /\ e = Item)
               PROVE  Usable(kind, e, state.of[e])'
    BY <1>0, <1>1, <1>b DEF MemoryUsable
  <2>1. e \in Entities /\ state'.of[e] = state.of[e] /\ Recorded(e)
    BY <1>2, ItemFacts DEF Recorded
  <2>2. Usable(kind, e, state.of[e])
    BY <2>1 DEF MemoryUsable
  <2>3. state.of[e] \in 0..MaxRuns /\ state.of[e] # 0
    BY <2>1, TypeParts DEF SeedState, Recorded
  <2>4. PICK n \in 0..MaxRuns : n = state.of[e]
    BY <2>3
  <2>5. Usable(kind, e, n)'
    BY <1>12, <2>1, <2>2, <2>3, <2>4
  <2> QED
    BY <2>1, <2>4, <2>5 DEF Usable
<1>15. HalfInv'
  <2> SUFFICES ASSUME ~stale, NEW e \in ItemsOf("systems"), NEW n \in Runs, "row" \in rows'[e][n],
                      ~(run.at = "systems" /\ e = Item /\ n = runs)
               PROVE  AllParts(e) \subseteq rows'[e][n] \/ ended[n] = "systems"
    BY <1>0, <1>1, <1>b DEF HalfInv
  <2>1. e \in Entities /\ (e # Item \/ n # runs)
    BY <1>a, ItemFacts DEF Kinds
  <2>2. rows'[e][n] = rows[e][n]
    BY <1>r, <2>1
  <2> QED
    BY <2>2 DEF HalfInv
<1>16. Progress'
  <2> SUFFICES ASSUME NEW k \in DOMAIN StepOrder, StepOrder[k] \in Kinds,
                      NEW j \in DOMAIN plan[StepOrder[k]], Passed(k, j)'
               PROVE  Recorded(plan[StepOrder[k]][j])'
    BY <1>0 DEF Progress, Recorded
  <2>1. plan[StepOrder[k]][j] \in Entities
    BY ListFacts, ItemFacts, TypeParts
  <2>2. Passed(k, j)
    BY <1>1 DEF Passed
  <2>3. Recorded(plan[StepOrder[k]][j])
    BY <1>a, <2>2 DEF Progress
  <2> QED
    BY <1>0, <1>3, <2>1, <2>3 DEF Recorded
<1>17. FollowsMade'
  <2>1. \A j : ~Passed(5, j)' \/ (state' = state /\ Passed(5, j))
    BY <1>1, <1>2, <1>a, StepFacts DEF Passed
  <2> QED
    BY <1>0, <1>a, <2>1 DEF FollowsMade, Recorded, Copy
<1>18. FeedsMade'
  BY <1>1, <1>a DEF FeedsMade, Passed
<1> QED
  BY <1>4, <1>5, <1>6, <1>7, <1>8, <1>9, <1>10, <1>11, <1>13, <1>14, <1>15, <1>16, <1>17, <1>18

-----------------------------------------------------------------------------
(* The end of a step: the run saves, or goes on to the next step. *)
EndMove ==
  /\ \/ run.at = "save" /\ file' = [status |-> "ok", has |-> state]
     \/ AtEnd /\ run.at \notin Kinds /\ file' = file
  /\ GoOn
  /\ UNCHANGED <<rows, follows, feeds, events, plan, state, runs, faults, ended, stale>>

\* The state is on disk and the next step begins.
LEMMA EndMoveStep ==
  ASSUME SeedInv, EndMove
  PROVE  SeedInv'
<1> USE DEF SeedInv
<1>0. /\ rows' = rows /\ follows' = follows /\ feeds' = feeds /\ events' = events
      /\ plan' = plan /\ state' = state /\ runs' = runs
      /\ faults' = faults /\ ended' = ended /\ stale' = stale /\ GoOn
      /\ \/ run.at = "save" /\ file' = [status |-> "ok", has |-> state]
         \/ AtEnd /\ run.at \notin Kinds /\ file' = file
  BY DEF EndMove
<1>1. /\ run.step \in 1..8 /\ run.i \in Nat /\ run.i >= 1 /\ run.at \notin Kinds
      /\ Width(StepOrder[run.step]) \in Nat /\ run.i > Width(StepOrder[run.step])
      /\ run.at = "save" \/ (run.at \in StepNames /\ run.at = StepOrder[run.step])
      /\ StepOrder[run.step] \in Kinds => run.at = "save"
  <2>1. run.step \in 1..8 /\ run.i \in Nat /\ run.i >= 1 /\ plan \in Plans
    BY RunFacts, TypeParts
  <2>2. Width(StepOrder[run.step]) \in Nat
    BY <2>1, WidthFacts
  <2>3. CASE run.at = "save"
    BY <2>1, <2>2, <2>3, WidthFacts, AtFacts DEF Shape
  <2>4. CASE AtEnd /\ run.at \notin Kinds
    BY <2>1, <2>2, <2>4 DEF Shape, AtEnd
  <2> QED
    BY <1>0, <2>3, <2>4
<1>2. run.p = 0
  BY <1>1 DEF Shape, Creating
<1>3. /\ run' \in RunRecords /\ run'.p = 0
      /\ \/ run'.at = "done" /\ run.step = 8 /\ run'.step = 8 /\ run'.i = run.i
         \/ run'.at = "halted" /\ run'.step = run.step /\ run.step = 3 /\ run'.i = run.i
         \/ /\ run.step # 8 /\ run'.at = StepOrder[run.step + 1]
            /\ run'.step = run.step + 1 /\ run'.i = 1
  <2>1. run \in RunRecords
    BY RunFacts DEF RunType
  <2>2. run.reset \in BOOLEAN /\ run.skip \in BOOLEAN
    BY <2>1 DEF RunRecords
  <2>3. CASE run.step = 8
    <3>1. run' = [at |-> "done", step |-> 8, i |-> run.i, p |-> 0,
                  reset |-> run.reset, skip |-> run.skip]
      BY <1>0, <1>2, <2>1, <2>3, StepFacts DEF GoOn, RunRecords
    <3> QED
      BY <1>1, <2>2, <2>3, <3>1, RunMade
  <2>4. CASE run.step # 8 /\ run.skip /\ StepOrder[run.step] = "users"
    <3>1. run' = [at |-> "halted", step |-> run.step, i |-> run.i, p |-> 0,
                  reset |-> run.reset, skip |-> run.skip]
      BY <1>0, <1>2, <2>1, <2>4, StepFacts DEF GoOn, RunRecords
    <3>2. run.step = 3
      BY <1>1, <2>4, StepOf
    <3> QED
      BY <1>1, <2>2, <3>1, <3>2, RunMade
  <2>5. CASE run.step # 8 /\ ~(run.skip /\ StepOrder[run.step] = "users")
    <3>1. run' = [at |-> StepOrder[run.step + 1], step |-> run.step + 1, i |-> 1, p |-> 0,
                  reset |-> run.reset, skip |-> run.skip]
      BY <1>0, <1>2, <2>1, <2>5, StepFacts DEF GoOn, RunRecords
    <3>2. run.step + 1 \in 1..8
      BY <1>1, <2>5
    <3>3. StepOrder[run.step + 1] \in StepNames
      BY <3>2, StepOf
    <3> QED
      BY <2>2, <2>5, <3>1, <3>2, <3>3, RunMade
  <2> QED
    BY <2>3, <2>4, <2>5
<1>4. /\ run.step # 8 => run.step + 1 \in 1..8
      /\ run'.at \in StepNames => run'.at = StepOrder[run'.step]
      /\ run'.at \notin {"off", "clear", "unlink", "load", "save"}
      /\ run'.at = "done" => run'.step = 8
  BY <1>1, <1>3, StepOf, StepNamesAre
<1>5. ~Before /\ ~Before' /\ Loaded /\ Loaded' /\ ~Resting /\ runs \in Runs /\ runs # 0
  BY <1>1, <1>3, <1>4, AtFacts, StepOf, RunsTyped DEF Before, Loaded, Resting, Shape
<1>6. file'.has = state \/ file' = file
  BY <1>0
<1>7. SeedTypeOK'
  <2>1. Width(StepOrder[run.step])' = Width(StepOrder[run'.step])
    BY <1>0 DEF Width
  <2>2. run'.step \in 1..8
    BY <1>1, <1>3, <1>4
  <2>3. Width(StepOrder[run'.step]) \in Nat
    BY <2>2, WidthFacts, TypeParts
  <2>4. run.i <= Width(StepOrder[run.step]) + 1
    BY <1>1, RunFacts, StepNamesAre DEF RunType
  <2>5. run'.i <= Width(StepOrder[run'.step]) + 1
    <3>1. CASE run'.i = 1
      BY <2>3, <3>1
    <3>2. CASE run'.i = run.i /\ run'.step = run.step
      BY <2>4, <3>2
    <3> QED
      BY <1>3, <3>1, <3>2
  <2>6. RunType'
    BY <1>3, <1>4, <2>1, <2>5 DEF RunType
  <2>7. DbType' /\ CountType' /\ EndedType'
    BY <1>0, TypeParts DEF DbType, CountType, EndedType
  <2>8. FileType'
    <3>1. FileType /\ state \in SeedState
      BY TypeParts
    <3> QED
      BY <1>0, <3>1 DEF FileType
  <2> QED
    BY <1>0, <2>6, <2>7, <2>8, TypeParts, TypePartsNext
<1>8. Shape'
  BY <1>0, <1>3, <1>4, <1>5 DEF Shape
<1>9. FileInv'
  <2>1. file'.status # "torn" /\ (file'.status # "ok" => file'.has = Nothing)
    BY <1>0, <1>5 DEF FileInv
  <2>2. \A e \in Entities : file'.has.of[e] # 0 => state.of[e] # 0
    BY <1>5, <1>6 DEF FileInv
  <2>3. run'.step > 6 => file' = [status |-> "ok", has |-> state]
    <3>1. CASE run.at = "save"
      BY <1>0, <1>1, <3>1, StepNamesAre DEF AtEnd
    <3>2. CASE run.at # "save"
      <4>1. run.step \in {5, 7, 8} /\ file' = file
        BY <1>0, <1>1, <3>2, StepOf
      <4>2. run'.step > 6 => run.step > 6
        BY <1>3, <4>1
      <4> QED
        BY <1>5, <4>1, <4>2 DEF FileInv
    <3> QED
      BY <3>1, <3>2
  <2> QED
    BY <1>0, <2>1, <2>2, <2>3 DEF FileInv
<1>10. Future'
  BY <1>0, <1>5 DEF Future
<1>11. Cleared' /\ Written'
  BY <1>3, <1>4 DEF Cleared, Written
<1>12. Accounted'
  <2> SUFFICES ASSUME NEW kind \in Kinds, NEW e \in ItemsOf(kind),
                      NEW m \in Runs, "row" \in rows[e][m]
               PROVE  file'.has.of[e] # 0 \/ ended[m] = kind
    BY <1>0 DEF Accounted
  <2>1. e \in Entities /\ file.status # "torn"
    BY <1>5, ItemFacts DEF FileInv
  <2>2. file.has.of[e] # 0 \/ ended[m] = kind \/ InHand(kind, e, m)
    BY <2>1 DEF Accounted
  <2>3. file.has.of[e] # 0 => file'.has.of[e] # 0
    BY <1>5, <1>6, <2>1 DEF FileInv
  <2>4. InHand(kind, e, m) => file'.has.of[e] # 0
    <3>1. InHand(kind, e, m) => run.at = "save" /\ state.of[e] # 0
      BY <1>1, <1>2 DEF InHand, Recorded
    <3>2. run.at = "save" => file'.has = state
      BY <1>0, StepNamesAre DEF AtEnd
    <3> QED
      BY <3>1, <3>2
  <2> QED
    BY <2>2, <2>3, <2>4
<1>13. DuplicatesExplained'
  BY <1>0 DEF DuplicatesExplained
<1>14. ~stale => \A kind \in Kinds : \A e \in ItemsOf(kind) :
                   Recorded(e) => Usable(kind, e, state.of[e])
  BY <1>1 DEF MemoryUsable, Kinds
<1>15. MemoryUsable'
  BY <1>0, <1>14 DEF MemoryUsable, Recorded, Usable
<1>16. FileUsable'
  <2> SUFFICES ASSUME ~stale, NEW kind \in Kinds, NEW e \in ItemsOf(kind), file'.has.of[e] # 0
               PROVE  Usable(kind, e, file.has.of[e])'
    BY <1>0 DEF FileUsable
  <2>1. Usable(kind, e, file.has.of[e])' <=> Usable(kind, e, file'.has.of[e])
    BY <1>0 DEF Usable
  <2>2. CASE file' = file
    BY <2>1, <2>2 DEF FileUsable
  <2>3. CASE file'.has = state
    BY <2>1, <2>3, <1>14 DEF Recorded
  <2> QED
    BY <1>6, <2>2, <2>3
<1>17. HalfInv'
  BY <1>0, <1>1 DEF HalfInv, Kinds
<1>18. \A k \in 1..8 : \A j \in 1..Width(StepOrder[k]) : Passed(k, j)' => Passed(k, j)
  <2> SUFFICES ASSUME NEW k \in 1..8, NEW j \in 1..Width(StepOrder[k]), Passed(k, j)'
               PROVE  Passed(k, j)
    OBVIOUS
  <2>1. Width(StepOrder[k]) \in Nat
    BY WidthFacts, TypeParts
  <2>2. CASE run'.step = run.step /\ run'.i = run.i
    BY <2>2 DEF Passed
  <2>3. CASE run'.step = run.step + 1 /\ run'.i = 1
    <3>1. k < run.step \/ k = run.step
      BY <1>1, <2>1, <2>3 DEF Passed
    <3>2. k = run.step => j < run.i
      BY <1>1, <2>1
    <3> QED
      BY <3>1, <3>2 DEF Passed
  <2> QED
    BY <1>3, <2>2, <2>3
<1>19. Progress'
  <2> SUFFICES ASSUME NEW k \in DOMAIN StepOrder, StepOrder[k] \in Kinds,
                      NEW j \in DOMAIN plan[StepOrder[k]], Passed(k, j)'
               PROVE  Recorded(plan[StepOrder[k]][j])
    BY <1>0 DEF Progress, Recorded
  <2>1. k \in 1..8 /\ j \in 1..Width(StepOrder[k])
    BY StepFacts, ListFacts, WidthFacts, TypeParts
  <2> QED
    BY <1>5, <1>18, <2>1 DEF Progress
<1>20. FollowsMade'
  <2>1. \A j \in DOMAIN FOLLOWS : Passed(5, j)' => Passed(5, j)
    <3>1. DOMAIN FOLLOWS = 1..Width(StepOrder[5])
      BY PlanAssumption, StepFacts, WidthFacts, TypeParts
    <3> QED
      BY <1>18, <3>1
  <2> QED
    BY <1>0, <1>5, <2>1 DEF FollowsMade, Recorded, Copy
<1>21. FeedsMade'
  <2>1. \A j \in DOMAIN plan["users"] : Passed(7, j)' => Passed(7, j)
    <3>1. DOMAIN plan["users"] = 1..Width(StepOrder[7])
      BY ListFacts, StepFacts, WidthFacts, TypeParts DEF Kinds
    <3> QED
      BY <1>18, <3>1
  <2> QED
    BY <1>0, <1>5, <2>1 DEF FeedsMade, SomeArticle, Recorded, Copy
<1> QED
  BY <1>7, <1>8, <1>9, <1>10, <1>11, <1>12, <1>13, <1>15, <1>16, <1>17, <1>19, <1>20, <1>21

(* The items of a recorded kind are done: the file is to be written. *)
ToSaveMove ==
  /\ AtEnd /\ run.at \in Kinds /\ run' = [run EXCEPT !.at = "save"]
  /\ UNCHANGED <<rows, follows, feeds, events, file, plan, state, runs, faults, ended, stale>>

\* The last item of a step is done and the state is to be saved.
LEMMA ToSaveStep ==
  ASSUME SeedInv, ToSaveMove
  PROVE  SeedInv'
<1> USE DEF SeedInv
<1>0. /\ rows' = rows /\ follows' = follows /\ feeds' = feeds /\ events' = events /\ file' = file
      /\ plan' = plan /\ state' = state /\ runs' = runs
      /\ faults' = faults /\ ended' = ended /\ stale' = stale
      /\ AtEnd /\ run.at \in Kinds /\ run' = [run EXCEPT !.at = "save"]
  BY DEF ToSaveMove
<1>1. /\ run.step \in 1..8 /\ run.i \in Nat /\ run.i >= 1 /\ run.at \in StepNames
      /\ run.at = StepOrder[run.step] /\ Width(run.at) = Len(plan[run.at])
      /\ run.i > Len(plan[run.at])
  BY <1>0, RunFacts, TypeParts, WidthFacts DEF AtEnd, Shape
<1>2. run.p = 0
  <2>1. DOMAIN plan[run.at] = 1..Len(plan[run.at]) /\ Len(plan[run.at]) \in Nat
    BY <1>0, ListFacts, TypeParts
  <2> QED
    BY <1>1, <2>1 DEF Shape, Creating
<1>3. /\ run' \in RunRecords /\ run'.at = "save" /\ run'.p = 0
      /\ run'.step = run.step /\ run'.i = run.i
  <2>1. run \in RunRecords
    BY RunFacts DEF RunType
  <2>2. run.reset \in BOOLEAN /\ run.skip \in BOOLEAN
    BY <2>1 DEF RunRecords
  <2>3. run' = [at |-> "save", step |-> run.step, i |-> run.i, p |-> 0,
                reset |-> run.reset, skip |-> run.skip]
    BY <1>0, <1>2, <2>1 DEF RunRecords
  <2> QED
    BY <1>1, <2>2, <2>3, RunMade
<1>4. ~Before /\ ~Before' /\ Loaded /\ Loaded' /\ ~Resting /\ ~Resting' /\ runs # 0
  <2>1. run.at \notin {"off", "clear", "unlink", "load", "done", "halted"}
    BY <1>1, AtFacts
  <2> QED
    BY <1>1, <1>3, <2>1, StepNamesAre DEF Before, Loaded, Resting, Shape
<1>5. SeedTypeOK'
  <2>1. Width(StepOrder[run.step])' = Width(StepOrder[run.step])
    BY <1>0, <1>3 DEF Width
  <2>2. run.i <= Width(StepOrder[run.step]) + 1
    BY <1>1, RunFacts, StepNamesAre DEF RunType
  <2>3. RunType'
    BY <1>3, <2>1, <2>2 DEF RunType
  <2>4. DbType' /\ FileType' /\ CountType' /\ EndedType'
    BY <1>0, TypeParts DEF DbType, FileType, CountType, EndedType
  <2> QED
    BY <1>0, <2>3, <2>4, TypeParts, TypePartsNext
<1>6. Shape'
  BY <1>0, <1>1, <1>3, <1>4, StepNamesAre DEF Shape
<1>7. FileInv' /\ Future'
  BY <1>0, <1>3, <1>4 DEF FileInv, Future
<1>8. Cleared' /\ Written'
  BY <1>3 DEF Cleared, Written
<1>9. Accounted'
  <2>1. \A kind \in Kinds : \A e \in ItemsOf(kind), m \in Runs :
          InHand(kind, e, m) => InHand(kind, e, m)'
    BY <1>0, <1>2, <1>3 DEF InHand, Recorded
  <2> QED
    BY <1>0, <2>1 DEF Accounted
<1>10. DuplicatesExplained' /\ FileUsable' /\ MemoryUsable'
  BY <1>0, <1>2 DEF DuplicatesExplained, FileUsable, MemoryUsable, Usable, Recorded
<1>11. HalfInv'
  BY <1>0, <1>2 DEF HalfInv
<1>12. Progress' /\ FollowsMade' /\ FeedsMade'
  <2>1. \A k, j : Passed(k, j)' <=> Passed(k, j)
    BY <1>3 DEF Passed
  <2> QED
    BY <1>0, <1>4, <2>1 DEF Progress, FollowsMade, FeedsMade, SomeArticle, Recorded, Copy
<1> QED
  BY <1>5, <1>6, <1>7, <1>8, <1>9, <1>10, <1>11, <1>12

-----------------------------------------------------------------------------
(* A run starts with nothing in its memory. *)
LEMMA StartStep ==
  ASSUME SeedInv, NEW reset \in BOOLEAN, NEW skip \in BOOLEAN, Start(reset, skip)
  PROVE  SeedInv'
<1> USE DEF SeedInv
<1>0. /\ rows' = rows /\ follows' = follows /\ feeds' = feeds /\ events' = events /\ file' = file
      /\ plan' \in Plans /\ state' = Nothing /\ runs' = runs + 1 /\ runs < MaxRuns /\ Resting
      /\ faults' = faults /\ ended' = ended /\ stale' = stale
      /\ run' = [at |-> IF reset THEN "clear" ELSE "load", step |-> 1, i |-> 1, p |-> 0,
                 reset |-> reset, skip |-> skip]
  BY DEF Start, db
<1>1. /\ run' \in RunRecords /\ run'.step = 1 /\ run'.i = 1 /\ run'.p = 0
      /\ run'.at = IF reset THEN "clear" ELSE "load"
  <2>1. (IF reset THEN "clear" ELSE "load")
          \in {"off", "clear", "unlink", "load", "save", "done", "halted"} \union StepNames
    OBVIOUS
  <2> QED
    BY <1>0, <2>1, RunMade
<1>2. /\ run'.at \in {"clear", "load"} /\ Before' /\ ~Loaded' /\ run'.at \notin StepNames
      /\ run.at \notin StepNames \union {"save"}
  BY <1>0, <1>1, StepNamesAre DEF Before, Loaded, Resting
<1>3. runs \in Nat /\ MaxRuns \in Nat /\ runs + 1 \in Runs
  BY <1>0, RunsTyped DEF Runs
<1>4. SeedTypeOK'
  <2>1. StepOrder[1] = "systems" /\ Len(plan'["systems"]) \in Nat
    BY <1>0, StepFacts, ListFacts DEF Kinds
  <2>2. Width(StepOrder[run.step])' = Len(plan'["systems"])
    BY <1>1, <2>1 DEF Width, Kinds
  <2>3. RunType'
    BY <1>1, <2>1, <2>2, DeleteFacts DEF RunType
  <2>4. DbType' /\ FileType' /\ EndedType'
    BY <1>0, TypeParts DEF DbType, FileType, EndedType
  <2>5. CountType'
    BY <1>0, <1>3, TypeParts DEF CountType
  <2> QED
    BY <1>0, <2>3, <2>4, <2>5, NothingTyped, TypeParts, TypePartsNext
<1>5. Shape'
  BY <1>0, <1>1, <1>2, <1>3 DEF Shape
<1>6. FileInv'
  BY <1>0, <1>2 DEF FileInv
<1>7. Future'
  <2>1. \A n \in Runs : n > runs + 1 => n > runs
    BY <1>3 DEF Runs
  <2>2. runs + 1 > runs
    BY <1>3
  <2>3. ended[runs + 1] = "" /\ \A e \in Entities : rows[e][runs + 1] = {}
    BY <1>3, <2>2 DEF Future
  <2>4. \A n \in Runs : n > runs + 1 => ended[n] = "" /\ \A e \in Entities : rows[e][n] = {}
    BY <2>1 DEF Future
  <2> QED
    BY <1>0, <2>3, <2>4 DEF Future
<1>8. Cleared'
  <2>1. ClearedBy(1) = {}
    BY DEF ClearedBy
  <2> QED
    BY <1>1, <1>2, <2>1 DEF Cleared
<1>9. Written'
  BY <1>1 DEF Written
<1>10. Accounted'
  BY <1>0, <1>2 DEF Accounted, InHand
<1>11. DuplicatesExplained' /\ FileUsable'
  BY <1>0 DEF DuplicatesExplained, FileUsable, Usable
<1>12. MemoryUsable'
  BY <1>0, NothingTyped, ItemFacts DEF MemoryUsable, Recorded
<1>13. HalfInv'
  BY <1>0, <1>2, StepNamesAre DEF HalfInv
<1>14. Progress' /\ FollowsMade' /\ FeedsMade'
  BY <1>2 DEF Progress, FollowsMade, FeedsMade
<1> QED
  BY <1>4, <1>5, <1>6, <1>7, <1>8, <1>9, <1>10, <1>11, <1>12, <1>13, <1>14

-----------------------------------------------------------------------------
(* What is known before the file is read: nothing is in memory, nothing is *)
(* being made.                                                             *)
LEMMA BeforeFacts ==
  ASSUME SeedInv, Before
  PROVE  /\ state = Nothing /\ run.p = 0 /\ run.step = 1 /\ run.i \in Nat /\ run.i >= 1
         /\ run.at \notin StepNames \union {"save", "off", "done", "halted"}
         /\ ~Loaded /\ ~Resting /\ runs \in Runs /\ runs # 0 /\ ended[runs] = ""
         /\ \A kind \in Kinds, e \in Entities, m \in Runs : ~InHand(kind, e, m)
         /\ run \in RunRecords /\ run.reset \in BOOLEAN /\ run.skip \in BOOLEAN
<1> USE DEF SeedInv
<1>1. run.at \notin StepNames \union {"save", "off", "done", "halted"}
  BY StepNamesAre DEF Before
<1>2. run.p = 0
  BY <1>1, AtFacts DEF Shape, Creating
<1>3. state = Nothing /\ run.step = 1 /\ runs # 0
  BY <1>1 DEF Shape
<1>4. ~Loaded /\ ~Resting /\ runs \in Runs
  BY <1>1, RunsTyped DEF Loaded, Resting
<1>5. ended[runs] = ""
  BY <1>4 DEF Future
<1>6. \A kind \in Kinds, e \in Entities, m \in Runs : ~InHand(kind, e, m)
  BY <1>1 DEF InHand
<1>7. run \in RunRecords /\ run.i \in Nat /\ run.i >= 1
  BY RunFacts DEF RunType
<1>8. run.reset \in BOOLEAN /\ run.skip \in BOOLEAN
  BY <1>7 DEF RunRecords
<1> QED
  BY <1>1, <1>2, <1>3, <1>4, <1>5, <1>6, <1>7, <1>8

(* A deletion takes rows away, all those of an entity with its row. *)
LEMMA DeleteRows ==
  ASSUME SeedTypeOK, Delete
  PROVE  /\ rows' \in [Entities -> [Runs -> SUBSET PartNames]]
         /\ \A e \in Entities, n \in Runs : rows'[e][n] \subseteq rows[e][n]
         /\ Deletes[run.i][1] \in Kinds /\ Deletes[run.i][2] = "row" =>
              \A e \in ItemsOf(Deletes[run.i][1]), n \in Runs : rows'[e][n] = {}
<1>1. rows \in [Entities -> [Runs -> SUBSET PartNames]]
  BY TypeParts DEF DbType
<1>2. rows' = IF Deletes[run.i][1] \in Kinds THEN Without(Deletes[run.i][1], Deletes[run.i][2])
              ELSE rows
  BY DEF Delete
<1>3. \A kind \in Kinds : \A part :
        /\ Without(kind, part) \in [Entities -> [Runs -> SUBSET PartNames]]
        /\ \A e \in Entities, n \in Runs : Without(kind, part)[e][n] \subseteq rows[e][n]
        /\ part = "row" => \A e \in ItemsOf(kind), n \in Runs : Without(kind, part)[e][n] = {}
  <2> TAKE kind \in Kinds
  <2> TAKE part
  <2> DEFINE gone == CASE part = "row" -> PartNames [] part = "scopes" -> Scopes [] OTHER -> {part}
  <2>0. part = "row" => gone = PartNames
    OBVIOUS
  <2>a. Without(kind, part) =
          [e \in Entities |-> [n \in Runs |->
             IF e \notin ItemsOf(kind) THEN rows[e][n] ELSE rows[e][n] \ gone]]
    BY DEF Without
  <2> HIDE DEF gone
  <2>1. \A e \in Entities, n \in Runs :
          /\ rows[e][n] \in SUBSET PartNames
          /\ Without(kind, part)[e][n] = IF e \notin ItemsOf(kind) THEN rows[e][n]
                                         ELSE rows[e][n] \ gone
    BY <1>1, <2>a
  <2>2. \A e \in Entities, n \in Runs : Without(kind, part)[e][n] \subseteq rows[e][n]
    BY <2>1
  <2>3. part = "row" => \A e \in ItemsOf(kind), n \in Runs : Without(kind, part)[e][n] = {}
    <3> SUFFICES ASSUME part = "row", NEW e \in ItemsOf(kind), NEW n \in Runs
                 PROVE  Without(kind, part)[e][n] = {}
      OBVIOUS
    <3>1. e \in Entities
      BY ItemFacts
    <3> QED
      BY <2>0, <2>1, <3>1
  <2>4. \A e \in Entities :
          [n \in Runs |-> IF e \notin ItemsOf(kind) THEN rows[e][n]
                          ELSE rows[e][n] \ gone]
            \in [Runs -> SUBSET PartNames]
    BY <2>1
  <2>5. Without(kind, part) \in [Entities -> [Runs -> SUBSET PartNames]]
    BY <2>4, <2>a
  <2> QED
    BY <2>2, <2>3, <2>5
<1>4. CASE Deletes[run.i][1] \in Kinds
  <2>1. PICK kind \in Kinds, part \in {Deletes[run.i][2]} : kind = Deletes[run.i][1]
    BY <1>4
  <2>2. rows' = Without(kind, part)
    BY <1>2, <2>1
  <2> QED
    BY <1>3, <2>1, <2>2
<1>5. CASE Deletes[run.i][1] \notin Kinds
  BY <1>1, <1>2, <1>5
<1> QED
  BY <1>4, <1>5

(* One table is cleared. *)
LEMMA ClearStep ==
  ASSUME SeedInv, ClearDemoData
  PROVE  SeedInv'
<1> USE DEF SeedInv
<1>0. /\ file' = file /\ plan' = plan /\ state' = state /\ runs' = runs
      /\ faults' = faults /\ ended' = ended /\ stale' = (stale \/ file.status # "absent")
      /\ run.at = "clear" /\ Delete
      /\ run' = IF run.i = Len(Deletes) THEN [run EXCEPT !.at = "unlink", !.i = 1]
                ELSE [run EXCEPT !.i = @ + 1]
  BY DEF ClearDemoData
<1>1. /\ state = Nothing /\ run.p = 0 /\ run.step = 1 /\ run.i \in Nat /\ run.i >= 1
      /\ runs \in Runs /\ runs # 0 /\ ended[runs] = "" /\ Before
      /\ \A kind \in Kinds, e \in Entities, m \in Runs : ~InHand(kind, e, m)
  BY <1>0, BeforeFacts DEF Before
<1>2. run.i <= 12
  BY <1>0, RunFacts, DeleteFacts DEF RunType
<1>3. /\ run' \in RunRecords /\ run'.step = 1 /\ run'.p = 0
      /\ \/ run.i = 12 /\ run'.at = "unlink" /\ run'.i = 1
         \/ run.i < 12 /\ run'.at = "clear" /\ run'.i = run.i + 1
  <2>1. run \in RunRecords /\ run.reset \in BOOLEAN /\ run.skip \in BOOLEAN
    BY <1>1, BeforeFacts
  <2>2. CASE run.i = 12
    <3>1. run' = [at |-> "unlink", step |-> 1, i |-> 1, p |-> 0,
                  reset |-> run.reset, skip |-> run.skip]
      BY <1>0, <1>1, <2>1, <2>2, DeleteFacts DEF RunRecords
    <3> QED
      BY <2>1, <2>2, <3>1, RunMade
  <2>3. CASE run.i # 12
    <3>1. run' = [at |-> "clear", step |-> 1, i |-> run.i + 1, p |-> 0,
                  reset |-> run.reset, skip |-> run.skip]
      BY <1>0, <1>1, <2>1, <2>3, DeleteFacts DEF RunRecords
    <3>2. run.i + 1 \in Nat /\ run.i + 1 >= 1 /\ run.i < 12
      <4>1. run.i \in Nat
        BY <1>1
      <4> QED
        BY <1>2, <2>3, <4>1
    <3> QED
      BY <2>1, <3>1, <3>2, RunMade
  <2> QED
    BY <2>2, <2>3
<1>4. /\ run'.at \in {"clear", "unlink"} /\ run'.at \notin StepNames
      /\ Before' /\ ~Loaded' /\ ~Resting'
  BY <1>3, StepNamesAre DEF Before, Loaded, Resting
<1>5. /\ rows' \in [Entities -> [Runs -> SUBSET PartNames]]
      /\ \A e \in Entities, n \in Runs : rows'[e][n] \subseteq rows[e][n]
      /\ Deletes[run.i][1] \in Kinds /\ Deletes[run.i][2] = "row" =>
           \A e \in ItemsOf(Deletes[run.i][1]), n \in Runs : rows'[e][n] = {}
  BY <1>0, DeleteRows
<1>6. \A kind \in Kinds : \A e \in ItemsOf(kind), n \in Runs :
        "row" \in rows'[e][n] => e \in Entities /\ "row" \in rows[e][n]
  BY <1>5, ItemFacts
<1>7. SeedTypeOK'
  <2>1. Width(StepOrder[run.step])' = Width(StepOrder[run.step])
    BY <1>0, <1>1, <1>3 DEF Width
  <2>2. Width(StepOrder[run.step]) \in Nat
    BY WidthFacts, RunFacts, TypeParts
  <2>3. RunType'
    <3>1. run.i \in Nat
      BY <1>1
    <3>2. run'.i <= IF run'.at = "clear" THEN 12 ELSE Width(StepOrder[run.step]) + 1
      BY <1>3, <2>2, <3>1
    <3> QED
      BY <1>3, <2>1, <3>2, DeleteFacts DEF RunType
  <2>4. DbType'
    <3>1. /\ follows \subseteq UserCopies \X AccountCopies /\ feeds \subseteq UserCopies
          /\ events \in [Runs -> SUBSET UserCopies]
      BY TypeParts DEF DbType
    <3>2. /\ follows' = {} \/ follows' = follows
          /\ feeds' = {} \/ feeds' = feeds
          /\ events' = [n \in Runs |-> {}] \/ events' = events
      BY <1>0 DEF Delete
    <3>3. [n \in Runs |-> {}] \in [Runs -> SUBSET UserCopies]
      OBVIOUS
    <3> QED
      BY <1>5, <3>1, <3>2, <3>3 DEF DbType
  <2>5. FileType' /\ CountType' /\ EndedType'
    BY <1>0, TypeParts DEF FileType, CountType, EndedType
  <2>6. stale' \in BOOLEAN
    BY <1>0
  <2> QED
    BY <1>0, <2>3, <2>4, <2>5, <2>6, TypeParts, TypePartsNext
<1>8. Shape'
  BY <1>0, <1>1, <1>3, <1>4 DEF Shape
<1>9. FileInv'
  BY <1>0, <1>4 DEF FileInv
<1>10. Future'
  <2>1. \A n \in Runs : n > runs => ended[n] = "" /\ \A e \in Entities : rows'[e][n] = {}
    BY <1>5 DEF Future
  <2>2. \A e \in Entities : rows'[e][runs] = {}
    BY <1>1, <1>5 DEF Future
  <2> QED
    BY <1>0, <1>1, <2>1, <2>2 DEF Future
<1>11. \A kind \in ClearedBy(run.i + 1) \intersect Kinds :
         \A e \in ItemsOf(kind), n \in Runs : rows'[e][n] = {}
  <2> SUFFICES ASSUME NEW kind \in ClearedBy(run.i + 1) \intersect Kinds,
                      NEW e \in ItemsOf(kind), NEW n \in Runs
               PROVE  rows'[e][n] = {}
    OBVIOUS
  <2>0. run.i \in Nat
    BY <1>1
  <2>1. PICK j \in 1..12 : j < run.i + 1 /\ Deletes[j][2] = "row" /\ kind = Deletes[j][1]
    BY DEF ClearedBy
  <2>2. CASE j = run.i
    BY <1>5, <2>1, <2>2
  <2>3. CASE j # run.i
    <3>1. j < run.i
      BY <2>0, <2>1, <2>3
    <3>2. kind \in ClearedBy(run.i)
      BY <2>1, <3>1 DEF ClearedBy
    <3>3. rows[e][n] = {}
      BY <1>0, <3>2 DEF Cleared
    <3> QED
      BY <1>5, <3>3, ItemFacts
  <2> QED
    BY <2>2, <2>3
<1>12. Cleared'
  <2>1. CASE run.i = 12
    <3>1. \A kind \in Kinds : kind \in ClearedBy(13)
      <4>1. \A k \in 1..12 : Deletes[k][2] = "row" => Deletes[k][1] \in ClearedBy(13)
        BY DEF ClearedBy
      <4> QED
        BY <4>1, DeleteFacts DEF Kinds
    <3>2. \A e \in Entities, n \in Runs : rows'[e][n] = {}
      BY <1>11, <2>1, <3>1, ItemFacts
    <3> QED
      BY <1>3, <2>1, <3>2 DEF Cleared
  <2>2. CASE run.i < 12
    BY <1>3, <1>11, <2>2 DEF Cleared
  <2> QED
    BY <1>3, <2>1, <2>2
<1>13. Written'
  BY <1>3 DEF Written
<1>14. Accounted'
  BY <1>0, <1>1, <1>6 DEF Accounted
<1>15. DuplicatesExplained'
  BY <1>0, <1>6 DEF DuplicatesExplained
<1>16. stale' \/ file.has = Nothing
  BY <1>0 DEF FileInv
<1>17. FileUsable' /\ MemoryUsable'
  BY <1>0, <1>1, <1>16, NothingTyped, ItemFacts DEF FileUsable, MemoryUsable, Recorded
<1>18. HalfInv'
  <2> SUFFICES ASSUME ~stale', NEW e \in ItemsOf("systems"), NEW n \in Runs, "row" \in rows'[e][n]
               PROVE  ended[n] = "systems"
    BY <1>0 DEF HalfInv
  <2>1. file.status = "absent" /\ file.has = Nothing
    BY <1>0, <1>16
  <2>2. "systems" \in Kinds /\ e \in Entities /\ "row" \in rows[e][n]
    BY <1>6 DEF Kinds
  <2> QED
    BY <1>1, <2>1, <2>2, NothingTyped DEF Accounted
<1>19. Progress' /\ FollowsMade' /\ FeedsMade'
  BY <1>4 DEF Progress, FollowsMade, FeedsMade
<1> QED
  BY <1>7, <1>8, <1>9, <1>10, <1>12, <1>13, <1>14, <1>15, <1>17, <1>18, <1>19

(* The file is removed, or stays. *)
LEMMA RemoveStep ==
  ASSUME SeedInv, RemoveFile
  PROVE  SeedInv'
<1> USE DEF SeedInv
<1>0. /\ rows' = rows /\ follows' = follows /\ feeds' = feeds /\ events' = events
      /\ plan' = plan /\ state' = state /\ runs' = runs /\ ended' = ended
      /\ run.at = "unlink" /\ run' = [run EXCEPT !.at = "load"]
      /\ \/ file' = [status |-> "absent", has |-> Nothing] /\ stale' = FALSE /\ faults' = faults
         \/ file' = file /\ stale' = stale /\ faults < MaxFaults /\ faults' = faults + 1
  BY DEF RemoveFile, db
<1>1. /\ state = Nothing /\ run.p = 0 /\ run.step = 1 /\ run.i = 1
      /\ runs \in Runs /\ runs # 0 /\ ended[runs] = "" /\ Before
      /\ run \in RunRecords /\ run.reset \in BOOLEAN /\ run.skip \in BOOLEAN
  BY <1>0, BeforeFacts DEF Before, Shape
<1>2. /\ run' \in RunRecords /\ run'.step = 1 /\ run'.p = 0 /\ run'.i = 1 /\ run'.at = "load"
  <2>1. run' = [at |-> "load", step |-> 1, i |-> 1, p |-> 0,
                reset |-> run.reset, skip |-> run.skip]
    BY <1>0, <1>1 DEF RunRecords
  <2>2. run.reset \in BOOLEAN /\ run.skip \in BOOLEAN
    BY <1>1
  <2> QED
    BY <2>1, <2>2, RunMade
<1>3. Before' /\ ~Loaded' /\ ~Resting' /\ run'.at \notin StepNames
  BY <1>2, StepNamesAre DEF Before, Loaded, Resting
<1>4. \A e \in Entities, n \in Runs : rows[e][n] = {}
  BY <1>0 DEF Cleared
<1>5. SeedTypeOK'
  <2>1. Width(StepOrder[run.step])' = Width(StepOrder[run.step])
    BY <1>0, <1>1, <1>2 DEF Width
  <2>2. Width(StepOrder[run.step]) \in Nat
    BY WidthFacts, RunFacts, TypeParts
  <2>3. RunType'
    BY <1>2, <2>1, <2>2 DEF RunType
  <2>4. DbType' /\ EndedType'
    BY <1>0, TypeParts DEF DbType, EndedType
  <2>5. FileType' /\ stale' \in BOOLEAN
    <3>1. FileType /\ stale \in BOOLEAN
      BY TypeParts
    <3>2. [status |-> "absent", has |-> Nothing]
            \in [status : {"absent", "ok", "torn"}, has : SeedState]
      BY NothingTyped
    <3> QED
      BY <1>0, <3>1, <3>2 DEF FileType
  <2>6. CountType'
    BY <1>0, TypeParts, PlanAssumption DEF CountType
  <2> QED
    BY <1>0, <2>3, <2>4, <2>5, <2>6, TypeParts, TypePartsNext
<1>6. Shape'
  BY <1>0, <1>1, <1>2, <1>3 DEF Shape
<1>7. FileInv'
  BY <1>0, <1>3 DEF FileInv
<1>8. Future'
  BY <1>0, <1>1, <1>4 DEF Future
<1>9. Cleared' /\ Written'
  BY <1>2 DEF Cleared, Written
<1>10. Accounted' /\ DuplicatesExplained'
  BY <1>0, <1>4, ItemFacts DEF Accounted, DuplicatesExplained
<1>11. FileUsable'
  BY <1>0, NothingTyped, ItemFacts DEF FileUsable, Usable
<1>12. MemoryUsable'
  BY <1>0, <1>1, NothingTyped, ItemFacts DEF MemoryUsable, Recorded
<1>13. HalfInv'
  BY <1>0, <1>4, ItemFacts DEF HalfInv, Kinds
<1>14. Progress' /\ FollowsMade' /\ FeedsMade'
  BY <1>3 DEF Progress, FollowsMade, FeedsMade
<1> QED
  BY <1>5, <1>6, <1>7, <1>8, <1>9, <1>10, <1>11, <1>12, <1>13, <1>14

(* The file is read. *)
LEMMA LoadStep ==
  ASSUME SeedInv, LoadOrDefault
  PROVE  SeedInv'
<1> USE DEF SeedInv
<1>1. CASE Stops
  <2>1. StopMove
    BY <1>1, TypeParts, StepNamesAre DEF LoadOrDefault, db, StopMove, CountType, Resting
  <2> QED
    BY <2>1, StopStep
<1>2. CASE ~Stops
  <2>0. /\ rows' = rows /\ follows' = follows /\ feeds' = feeds /\ events' = events
        /\ file' = file /\ plan' = plan /\ runs' = runs /\ ended' = ended /\ faults' = faults
        /\ stale' = stale /\ state' = file.has
        /\ file.status # "torn" /\ run.at = "load" /\ run' = [run EXCEPT !.at = "systems"]
    BY <1>2 DEF LoadOrDefault, db
  <2>1. /\ state = Nothing /\ run.p = 0 /\ run.step = 1 /\ run.i = 1
        /\ runs \in Runs /\ runs # 0 /\ ended[runs] = "" /\ Before
        /\ run \in RunRecords /\ run.reset \in BOOLEAN /\ run.skip \in BOOLEAN
        /\ \A kind \in Kinds, e \in Entities, m \in Runs : ~InHand(kind, e, m)
    BY <2>0, BeforeFacts DEF Before, Shape
  <2>2. /\ run' \in RunRecords /\ run'.step = 1 /\ run'.p = 0 /\ run'.i = 1 /\ run'.at = "systems"
    <3>1. run' = [at |-> "systems", step |-> 1, i |-> 1, p |-> 0,
                  reset |-> run.reset, skip |-> run.skip]
      BY <2>0, <2>1 DEF RunRecords
    <3>2. run.reset \in BOOLEAN /\ run.skip \in BOOLEAN
      BY <2>1
    <3>3. "systems" \in StepNames
      BY StepNamesAre
    <3> QED
      BY <3>1, <3>2, <3>3, RunMade
  <2>3. ~Before' /\ Loaded' /\ ~Resting'
    BY <2>2, StepNamesAre DEF Before, Loaded, Resting
  <2>5. SeedTypeOK'
    <3>1. Width(StepOrder[run.step])' = Width(StepOrder[run.step])
      BY <2>0, <2>1, <2>2 DEF Width
    <3>2. Width(StepOrder[run.step]) \in Nat
      BY WidthFacts, RunFacts, TypeParts
    <3>3. RunType'
      BY <2>2, <3>1, <3>2 DEF RunType
    <3>4. DbType' /\ EndedType' /\ FileType' /\ CountType'
      BY <2>0, TypeParts DEF DbType, EndedType, FileType, CountType
    <3>5. state' \in SeedState
      BY <2>0, TypeParts DEF FileType
    <3> QED
      BY <2>0, <3>3, <3>4, <3>5, TypeParts, TypePartsNext
  <2>6. Shape'
    BY <2>0, <2>1, <2>2, <2>3, StepFacts DEF Shape
  <2>7. FileInv'
    BY <2>0, <2>2 DEF FileInv
  <2>8. Future'
    BY <2>0, <2>1, <2>3 DEF Future
  <2>9. Cleared' /\ Written'
    BY <2>2 DEF Cleared, Written
  <2>10. Accounted'
    BY <2>0, <2>1, ItemFacts DEF Accounted
  <2>11. DuplicatesExplained' /\ FileUsable' /\ MemoryUsable'
    BY <2>0 DEF DuplicatesExplained, FileUsable, MemoryUsable, Usable, Recorded
  <2>12. HalfInv'
    BY <2>0, <2>1 DEF HalfInv
  <2>13. \A k, j \in Nat : k >= 1 /\ j >= 1 => ~Passed(k, j)'
    BY <2>2 DEF Passed
  <2>14. Progress'
    <3>1. \A k \in DOMAIN StepOrder : StepOrder[k] \in Kinds =>
            \A j \in DOMAIN plan[StepOrder[k]] : k \in Nat /\ k >= 1 /\ j \in Nat /\ j >= 1
      BY StepFacts, ListFacts, TypeParts
    <3> QED
      BY <2>0, <2>13, <3>1 DEF Progress
  <2>15. FollowsMade'
    <3>1. \A j \in DOMAIN FOLLOWS : j \in Nat /\ j >= 1
      BY PlanAssumption
    <3> QED
      BY <2>13, <3>1 DEF FollowsMade
  <2>16. FeedsMade'
    <3>1. \A j \in DOMAIN plan["users"] : j \in Nat /\ j >= 1
      BY ListFacts, TypeParts DEF Kinds
    <3> QED
      BY <2>0, <2>13, <3>1 DEF FeedsMade
  <2> QED
    BY <2>5, <2>6, <2>7, <2>8, <2>9, <2>10, <2>11, <2>12, <2>14, <2>15, <2>16
<1> QED
  BY <1>1, <1>2

-----------------------------------------------------------------------------
(* The copies that are recorded. *)
LEMMA CopyFacts ==
  ASSUME SeedTypeOK, NEW e \in Entities, Recorded(e)
  PROVE  state.of[e] \in Runs /\ Copy(e) = <<e, state.of[e]>>
<1>1. state.of[e] \in 0..MaxRuns /\ MaxRuns \in Nat
  BY TypeParts, PlanAssumption DEF SeedState
<1> QED
  BY <1>1 DEF Recorded, Copy, Runs

\* SkipRecorded passes over an item whose id the file has.
LEMMA SkipStep ==
  ASSUME SeedInv, SkipRecorded
  PROVE  SeedInv'
<1> USE DEF SeedInv
<1>1. Creating /\ run.p = 0 /\ Recorded(Item) /\ Advance(run.at)
  BY DEF SkipRecorded
<1>2. run.at \in Kinds /\ run.at \in StepNames /\ run.i <= Width(run.at)
  BY <1>1, CreatingFacts
<1>3. run.at # "follows" /\ run.at # "feeds"
  BY <1>2 DEF Kinds
<1>4. DbType' /\ follows' = follows /\ feeds' = feeds
  BY TypeParts DEF SkipRecorded, db, DbType
<1>5. AdvanceMove
  BY <1>1, <1>2, <1>3, <1>4 DEF AdvanceMove, SkipRecorded, db
<1> QED
  BY <1>5, AdvanceStep

\* FindSystem adopts a system that an earlier run created.
LEMMA FindStep ==
  ASSUME SeedInv, FindSystem
  PROVE  SeedInv'
<1> USE DEF SeedInv
<1>1. Creating /\ run.p = 0 /\ run.at = "systems" /\ Advance(run.at)
  BY DEF FindSystem, Begins
<1>2. PICK n \in Existing(Item) : state' = With(Item, n, "key" \in rows[Item][n])
  BY DEF FindSystem
<1>3. n \in Runs /\ Usable(run.at, Item, n)
  BY <1>1 DEF Existing, Usable
<1>4. \E keyed \in BOOLEAN : state' = With(Item, n, keyed)
  <2>1. ("key" \in rows[Item][n]) \in BOOLEAN
    OBVIOUS
  <2> QED
    BY <1>2, <2>1
<1>5. RecordMove(n)
  BY <1>1, <1>3, <1>4 DEF RecordMove, FindSystem, db
<1> QED
  BY <1>3, <1>5, RecordStep

\* Record notes the entity that the run has just completed.
LEMMA RecordedStep ==
  ASSUME SeedInv, Record
  PROVE  SeedInv'
<1> USE DEF SeedInv
<1>1. Creating /\ run.p = Len(Parts[Item]) /\ Advance(run.at)
  BY DEF Record
<1>2. run.at \in Kinds /\ runs \in Runs /\ Item \in Entities
  BY <1>1, CreatingFacts
<1>3. /\ Len(Parts[Item]) \in Nat \ {0} /\ DOMAIN Parts[Item] = 1..Len(Parts[Item])
      /\ Parts[Item][1] = "row"
  BY <1>2, PartFacts
<1>4. \A k \in 1..run.p : Parts[Item][k] \in rows[Item][runs]
  BY <1>1, <1>3 DEF Written
<1>5. AllParts(Item) \subseteq rows[Item][runs]
  BY <1>1, <1>3, <1>4 DEF AllParts
<1>6. "row" \in rows[Item][runs]
  BY <1>1, <1>3, <1>4
<1>7. Usable(run.at, Item, runs)
  BY <1>5, <1>6 DEF Usable
<1>8. \E keyed \in BOOLEAN : state' = With(Item, runs, keyed)
  <2>1. (run.at \in {"systems", "accounts", "users"}) \in BOOLEAN
    OBVIOUS
  <2> QED
    BY <2>1 DEF Record
<1>9. RecordMove(runs)
  BY <1>1, <1>2, <1>5, <1>7, <1>8 DEF RecordMove, Record, db
<1>10. PICK n \in Runs : n = runs
  BY <1>2
<1>11. RecordMove(n)
  BY <1>9, <1>10
<1> QED
  BY <1>11, RecordStep

\* A create that the server refuses ends the run.
LEMMA RefusedStep ==
  ASSUME SeedInv, CreateRefused
  PROVE  SeedInv'
<1> USE DEF SeedInv
<1>1. Creating /\ Stops
  BY DEF CreateRefused, Begins
<1>2. ~Resting
  BY <1>1, CreatingFacts
<1>3. StopMove
  BY <1>1, <1>2, TypeParts DEF CreateRefused, StopMove, db, CountType
<1> QED
  BY <1>3, StopStep

\* A key without a plan ends the run.
LEMMA NoPlanStep ==
  ASSUME SeedInv, NoPlan
  PROVE  SeedInv'
<1> USE DEF SeedInv
<1>1. Creating /\ Stops
  BY DEF NoPlan, Begins
<1>2. ~Resting
  BY <1>1, CreatingFacts
<1>3. StopMove
  BY <1>1, <1>2, TypeParts DEF NoPlan, StopMove, db, CountType
<1> QED
  BY <1>3, StopStep

\* SeedFollow makes an edge, passes over it, or ends the run.
LEMMA FollowStep ==
  ASSUME SeedInv, SeedFollow
  PROVE  SeedInv'
<1> USE DEF SeedInv
<1> DEFINE u == FOLLOWS[run.i][1]
           a == FOLLOWS[run.i][2]
           known == u \in ItemsIn(plan, "users") /\ Recorded(u) /\ Recorded(a)
<1>0. /\ run.at = "follows" /\ run.i \in DOMAIN FOLLOWS
      /\ UNCHANGED <<rows, feeds, events, file, plan, runs, faults, stale>>
      /\ \/ ~known /\ Advance("follows") /\ UNCHANGED <<follows, state, ended>>
         \/ /\ known /\ follows' = follows \union {<<Copy(u), Copy(a)>>}
            /\ Advance("follows") /\ UNCHANGED <<state, ended>>
         \/ Stops /\ UNCHANGED follows
  BY DEF SeedFollow
<1>1. u \in ItemsOf("users") /\ a \in ItemsOf("accounts") /\ run.i <= Len(FOLLOWS)
  BY <1>0, PlanAssumption
<1> HIDE DEF u, a
<1>2. run.at \in StepNames /\ run.at \notin Kinds /\ run.i <= Width(run.at) /\ ~Resting
  BY <1>0, <1>1, WidthFacts, TypeParts, StepNamesAre DEF Kinds, Resting
<1>3. run.p = 0
  BY <1>2 DEF Shape, Creating
<1>4. CASE Stops /\ UNCHANGED follows
  <2>1. StopMove
    BY <1>0, <1>2, <1>4, TypeParts DEF StopMove, CountType
  <2> QED
    BY <2>1, StopStep
<1>5. CASE ~known /\ Advance("follows") /\ UNCHANGED <<follows, state, ended>>
  <2>1. DbType'
    BY <1>0, <1>5, TypeParts DEF DbType
  <2>2. AdvanceMove
    BY <1>0, <1>2, <1>3, <1>5, <2>1 DEF AdvanceMove, u, a
  <2> QED
    BY <2>2, AdvanceStep
<1>6. CASE /\ known /\ follows' = follows \union {<<Copy(u), Copy(a)>>}
           /\ Advance("follows") /\ UNCHANGED <<state, ended>>
  <2>1. u \in Entities /\ a \in Entities
    BY <1>1, ItemFacts DEF Kinds
  <2>2. Copy(u) \in UserCopies /\ Copy(a) \in AccountCopies
    BY <1>1, <1>6, <2>1, CopyFacts DEF UserCopies, AccountCopies
  <2>3. DbType'
    <3>1. DbType
      BY TypeParts
    <3> QED
      BY <1>0, <1>6, <2>2, <3>1 DEF DbType
  <2>4. AdvanceMove
    BY <1>0, <1>2, <1>3, <1>6, <2>3 DEF AdvanceMove, u, a
  <2> QED
    BY <2>4, AdvanceStep
<1> QED
  BY <1>0, <1>4, <1>5, <1>6

(* What the two last steps have in common. *)
LEMMA UserFacts ==
  ASSUME SeedInv, run.at \in {"feeds", "events"}, run.i \in DOMAIN plan["users"]
  PROVE  /\ run.at \in StepNames /\ run.at \notin Kinds /\ run.i <= Width(run.at) /\ ~Resting
         /\ run.p = 0 /\ User \in ItemsOf("users") /\ User \in Entities /\ runs \in Runs
         /\ Recorded(User) => Copy(User) \in UserCopies
<1> USE DEF SeedInv
<1>1. plan \in Plans /\ "users" \in Kinds
  BY TypeParts DEF Kinds
<1>2. User \in ItemsOf("users") /\ User \in Entities /\ run.i <= Len(plan["users"])
  BY <1>1, ListFacts, ItemFacts DEF User
<1>3. run.at \in StepNames /\ run.at \notin Kinds /\ run.i <= Width(run.at) /\ ~Resting
  BY <1>1, <1>2, WidthFacts, StepNamesAre DEF Kinds, Resting
<1>4. run.p = 0 /\ runs \in Runs
  BY <1>3, RunsTyped DEF Shape, Creating, Resting
<1>5. Recorded(User) => Copy(User) \in UserCopies
  BY <1>2, CopyFacts DEF UserCopies
<1> QED
  BY <1>2, <1>3, <1>4, <1>5

\* SeedFeed fills the feed of a user, passes over it, or ends the run.
LEMMA FeedStep ==
  ASSUME SeedInv, SeedFeed
  PROVE  SeedInv'
<1> USE DEF SeedInv
<1>0. /\ run.at = "feeds" /\ run.i \in DOMAIN plan["users"]
      /\ UNCHANGED <<rows, follows, events, file, plan, runs, faults, stale>>
      /\ \/ ~SomeArticle /\ Advance("feeds") /\ UNCHANGED <<feeds, state, ended>>
         \/ /\ MayRank /\ feeds' = feeds \union {Copy(User)}
            /\ Advance("feeds") /\ UNCHANGED <<state, ended>>
         \/ Stops /\ UNCHANGED feeds
  BY DEF SeedFeed
<1>1. /\ run.at \in StepNames /\ run.at \notin Kinds /\ run.i <= Width(run.at) /\ ~Resting
      /\ run.p = 0
      /\ Recorded(User) => Copy(User) \in UserCopies
  BY <1>0, UserFacts
<1>2. CASE Stops /\ UNCHANGED feeds
  <2>1. StopMove
    BY <1>0, <1>1, <1>2, TypeParts DEF StopMove, CountType
  <2> QED
    BY <2>1, StopStep
<1>3. CASE ~SomeArticle /\ Advance("feeds") /\ UNCHANGED <<feeds, state, ended>>
  <2>1. DbType'
    BY <1>0, <1>3, TypeParts DEF DbType
  <2>2. AdvanceMove
    BY <1>0, <1>1, <1>3, <2>1 DEF AdvanceMove
  <2> QED
    BY <2>2, AdvanceStep
<1>4. CASE /\ MayRank /\ feeds' = feeds \union {Copy(User)}
           /\ Advance("feeds") /\ UNCHANGED <<state, ended>>
  <2>1. {"row", "key", RankScope} \subseteq rows[Ranker][state.of[Ranker]] /\ Recorded(User)
    BY <1>4 DEF MayRank, CanSign, There
  <2>2. DbType'
    <3>1. DbType
      BY TypeParts
    <3> QED
      BY <1>0, <1>1, <1>4, <2>1, <3>1 DEF DbType
  <2>3. AdvanceMove
    BY <1>0, <1>1, <1>4, <2>1, <2>2 DEF AdvanceMove
  <2> QED
    BY <2>3, AdvanceStep
<1> QED
  BY <1>0, <1>2, <1>3, <1>4

\* SeedEvents writes the events of a user, passes over it, or ends the run.
LEMMA EventsStep ==
  ASSUME SeedInv, SeedEvents
  PROVE  SeedInv'
<1> USE DEF SeedInv
<1>0. /\ run.at = "events" /\ run.i \in DOMAIN plan["users"]
      /\ UNCHANGED <<rows, follows, feeds, file, plan, runs, faults, stale>>
      /\ \/ Advance("events") /\ UNCHANGED <<events, state, ended>>
         \/ /\ CanSign(User) /\ events' = [events EXCEPT ![runs] = @ \union {Copy(User)}]
            /\ Advance("events") /\ UNCHANGED <<state, ended>>
         \/ Stops /\ UNCHANGED events
  BY DEF SeedEvents
<1>1. /\ run.at \in StepNames /\ run.at \notin Kinds /\ run.i <= Width(run.at) /\ ~Resting
      /\ run.p = 0
      /\ Recorded(User) => Copy(User) \in UserCopies
      /\ runs \in Runs
  BY <1>0, UserFacts
<1>2. CASE Stops /\ UNCHANGED events
  <2>1. StopMove
    BY <1>0, <1>1, <1>2, TypeParts DEF StopMove, CountType
  <2> QED
    BY <2>1, StopStep
<1>3. DbType
  BY TypeParts
<1>4. CASE Advance("events") /\ UNCHANGED <<state, ended>> /\ DbType'
  <2>1. AdvanceMove
    BY <1>0, <1>1, <1>4 DEF AdvanceMove
  <2> QED
    BY <2>1, AdvanceStep
<1>5. UNCHANGED events => DbType'
  BY <1>0, <1>3 DEF DbType
<1>6. CanSign(User) /\ events' = [events EXCEPT ![runs] = @ \union {Copy(User)}] => DbType'
  <2>1. CanSign(User) => Copy(User) \in UserCopies
    BY <1>1 DEF CanSign, There
  <2> QED
    BY <1>0, <1>1, <1>3, <2>1 DEF DbType
<1> QED
  BY <1>0, <1>2, <1>4, <1>5, <1>6

\* EndStep leaves a step, by way of a save where it created entities.
LEMMA EndStepStep ==
  ASSUME SeedInv, EndStep
  PROVE  SeedInv'
<1>1. CASE run.at \in Kinds
  <2>1. ToSaveMove
    BY <1>1 DEF EndStep, ToSaveMove, db
  <2> QED
    BY <2>1, ToSaveStep
<1>2. CASE run.at \notin Kinds
  <2>1. EndMove
    BY <1>2 DEF EndStep, EndMove, db
  <2> QED
    BY <2>1, EndMoveStep
<1> QED
  BY <1>1, <1>2

\* Save replaces the file by what the run has in memory.
LEMMA SaveStep ==
  ASSUME SeedInv, Save
  PROVE  SeedInv'
<1>1. EndMove
  BY DEF Save, EndMove, db
<1> QED
  BY <1>1, EndMoveStep

\* Fault ends the run, perhaps in the middle of writing the file.
LEMMA FaultStep ==
  ASSUME SeedInv, Fault
  PROVE  SeedInv'
<1>1. faults' \in 0..MaxFaults
  <2>1. faults \in 0..MaxFaults /\ MaxFaults \in Nat
    BY TypeParts, PlanAssumption DEF SeedInv, CountType
  <2>2. faults < MaxFaults /\ faults' = faults + 1
    BY DEF Fault
  <2> QED
    BY <2>1, <2>2
<1>2. StopMove
  BY <1>1 DEF Fault, StopMove, db
<1> QED
  BY <1>2, StopStep

\* Nothing changes when no variable does.
LEMMA StutterStep ==
  ASSUME SeedInv, UNCHANGED vars
  PROVE  SeedInv'
<1> USE DEF SeedInv
<1>0. /\ rows' = rows /\ follows' = follows /\ feeds' = feeds /\ events' = events /\ file' = file
      /\ plan' = plan /\ state' = state /\ run' = run /\ runs' = runs
      /\ faults' = faults /\ ended' = ended /\ stale' = stale
  BY DEF vars
<1>1. SeedTypeOK'
  BY <1>0 DEF SeedTypeOK, Width
<1>2. Shape'
  BY <1>0 DEF Shape, Before, Creating, Item
<1>3. FileInv' /\ Future' /\ Cleared'
  BY <1>0 DEF FileInv, Future, Cleared, Before, Loaded, Resting
<1>4. Written' /\ Accounted' /\ DuplicatesExplained'
  BY <1>0 DEF Written, Item, Accounted, InHand, Recorded, DuplicatesExplained
<1>5. FileUsable' /\ MemoryUsable' /\ HalfInv'
  BY <1>0 DEF FileUsable, MemoryUsable, HalfInv, Usable, Recorded, Item
<1>6. Progress' /\ FollowsMade' /\ FeedsMade'
  BY <1>0 DEF Progress, FollowsMade, FeedsMade, Loaded, Passed, SomeArticle, Recorded, Copy
<1> QED
  BY <1>1, <1>2, <1>3, <1>4, <1>5, <1>6

\* An empty database and no file satisfy the invariant.
LEMMA SeedInit == Init => SeedInv
<1> SUFFICES ASSUME Init PROVE SeedInv
  OBVIOUS
<1>1. /\ rows = [e \in Entities |-> [n \in Runs |-> {}]] /\ follows = {} /\ feeds = {}
      /\ events = [n \in Runs |-> {}]
      /\ file = [status |-> "absent", has |-> Nothing] /\ plan \in Plans /\ state = Nothing
      /\ run = [at |-> "off", step |-> 1, i |-> 1, p |-> 0, reset |-> FALSE, skip |-> FALSE]
      /\ runs = 0 /\ faults = 0 /\ ended = [n \in Runs |-> ""] /\ stale = FALSE
  BY DEF Init
<1>2. run \in RunRecords /\ run.at = "off" /\ run.step = 1 /\ run.i = 1 /\ run.p = 0
  <2>1. run = [at |-> "off", step |-> 1, i |-> 1, p |-> 0, reset |-> FALSE, skip |-> FALSE]
    BY <1>1
  <2>2. 1 \in DOMAIN StepOrder
    BY StepFacts
  <2> QED
    BY <2>1, <2>2 DEF RunRecords
<1>3. ~Before /\ ~Loaded /\ Resting
  BY <1>2, StepNamesAre DEF Before, Loaded, Resting
<1>4. SeedTypeOK
  <2>1. Width(StepOrder[1]) \in Nat
    <3>1. plan \in Plans
      BY <1>1
    <3>2. 1 \in 1..8
      OBVIOUS
    <3> QED
      BY <3>1, <3>2, WidthFacts
  <2>2. RunType
    BY <1>2, <2>1 DEF RunType
  <2>3. rows \in [Entities -> [Runs -> SUBSET PartNames]]
    BY <1>1
  <2>4. DbType
    BY <1>1, <2>3 DEF DbType
  <2>5. FileType
    BY <1>1, NothingTyped DEF FileType
  <2>6. CountType /\ EndedType
    <3>1. MaxRuns \in Nat /\ MaxFaults \in Nat
      BY PlanAssumption
    <3>2. [n \in Runs |-> ""] \in [Runs -> {"", "before"} \union StepNames]
      OBVIOUS
    <3>3. runs \in 0..MaxRuns /\ faults \in 0..MaxFaults
      <4>1. runs = 0 /\ faults = 0
        BY <1>1
      <4> QED
        BY <3>1, <4>1
    <3> QED
      BY <1>1, <3>2, <3>3 DEF CountType, EndedType
  <2> QED
    BY <1>1, <2>2, <2>4, <2>5, <2>6, NothingTyped, TypeParts
<1>5. Shape
  BY <1>1, <1>2, <1>3, StepNamesAre DEF Shape
<1>6. FileInv
  BY <1>1, <1>3 DEF FileInv
<1>7. \A n \in Runs : ended[n] = "" /\ \A e \in Entities : rows[e][n] = {}
  BY <1>1
<1>8. Future /\ Cleared /\ Written
  BY <1>2, <1>3, <1>7 DEF Future, Cleared, Written
<1>9. Accounted /\ DuplicatesExplained
  BY <1>7, ItemFacts DEF Accounted, DuplicatesExplained
<1>10. FileUsable /\ MemoryUsable
  BY <1>1, NothingTyped, ItemFacts DEF FileUsable, MemoryUsable, Recorded
<1>11. HalfInv
  BY <1>7, ItemFacts DEF HalfInv, Kinds
<1>12. Progress /\ FollowsMade /\ FeedsMade
  BY <1>3 DEF Progress, FollowsMade, FeedsMade
<1> QED
  BY <1>4, <1>5, <1>6, <1>8, <1>9, <1>10, <1>11, <1>12 DEF SeedInv

\* Every action keeps the invariant.
LEMMA SeedNext == SeedInv /\ [Next]_vars => SeedInv'
<1> SUFFICES ASSUME SeedInv, [Next]_vars PROVE SeedInv'
  OBVIOUS
<1>1. CASE DemoSeed
  BY <1>1, StartStep DEF DemoSeed
<1>2. CASE BootSeed
  BY <1>2, StartStep DEF BootSeed
<1>3. CASE Step
  BY <1>3, ClearStep, RemoveStep, LoadStep, SkipStep, FindStep, InsertStep, RefusedStep, NoPlanStep,
     RecordedStep, FollowStep, FeedStep, EventsStep, EndStepStep, SaveStep DEF Step
<1>4. CASE Fault
  BY <1>4, FaultStep
<1>5. CASE UNCHANGED vars
  BY <1>5, StutterStep
<1> QED
  BY <1>1, <1>2, <1>3, <1>4, <1>5 DEF Next

(* The inductive invariant of the seed holds. *)
THEOREM SeedInvariant == Spec => []SeedInv
BY SeedInit, SeedNext, PTL DEF Spec

-----------------------------------------------------------------------------
(* What the file says is done is in the database, complete, unless a reset *)
(* was interrupted: what SeedState::save writes is what seed_* created.    *)
THEOREM RecordedUsableCorrect == Spec => []RecordedUsable
<1>1. SeedInv => RecordedUsable
  BY DEF SeedInv, FileUsable, Usable, RecordedUsable
<1> QED
  BY <1>1, SeedInvariant, PTL

(* A second copy of an entity is made only if the run that made the first  *)
(* one stopped in the step that makes it; there is no second system.       *)
THEOREM DuplicatesExplainedCorrect == Spec => []DuplicatesExplained
<1>1. SeedInv => DuplicatesExplained
  BY DEF SeedInv
<1> QED
  BY <1>1, SeedInvariant, PTL

(* A run that logs "seed completed" has seeded all that the plan names; a  *)
(* system that a run cut inside seed_systems left half made is all that    *)
(* may be short of parts, and the ranker has what it needs to rank.        *)
THEOREM DoneCompleteCorrect == Spec => []DoneComplete
<1>1. ASSUME SeedInv, run.at = "done", ~stale
      PROVE  /\ file = [status |-> "ok", has |-> state]
             /\ \A kind \in Kinds : \A e \in ItemsIn(plan, kind) :
                  /\ Recorded(e)
                  /\ AllParts(e) \subseteq rows[e][state.of[e]] \/ (kind = "systems" /\ HalfMade(e))
             /\ SomeArticle => {"row", "key", RankScope} \subseteq rows[Ranker][state.of[Ranker]]
             /\ \A k \in DOMAIN FOLLOWS :
                  FOLLOWS[k][1] \in ItemsIn(plan, "users") /\ Recorded(FOLLOWS[k][2])
                    => <<Copy(FOLLOWS[k][1]), Copy(FOLLOWS[k][2])>> \in follows
             /\ SomeArticle => \A u \in ItemsIn(plan, "users") : Copy(u) \in feeds
  <2> USE DEF SeedInv
  <2>1. Loaded /\ run.step = 8 /\ plan \in Plans
    BY <1>1, TypeParts DEF Loaded, Shape
  <2>2. file = [status |-> "ok", has |-> state]
    BY <1>1, <2>1 DEF FileInv
  <2>3. \A k \in 1..7 : \A j : Passed(k, j)
    BY <2>1 DEF Passed
  <2>4. ASSUME NEW kind \in Kinds, NEW e \in ItemsIn(plan, kind)
        PROVE  Recorded(e)
    <3>1. PICK k \in 1..7 : StepOrder[k] = kind
      BY StepFacts DEF Kinds
    <3>2. PICK j \in DOMAIN plan[kind] : e = plan[kind][j]
      BY <2>1, ListFacts
    <3>3. k \in DOMAIN StepOrder
      BY <3>1, StepFacts
    <3> QED
      BY <1>1, <2>1, <2>3, <3>1, <3>2, <3>3 DEF Progress
  <2>5. ASSUME SomeArticle
        PROVE  /\ \A u \in ItemsIn(plan, "users") : Copy(u) \in feeds
               /\ {"row", "key", RankScope} \subseteq rows[Ranker][state.of[Ranker]]
    <3>1. \A j \in DOMAIN plan["users"] :
            /\ Copy(plan["users"][j]) \in feeds
            /\ {"row", "key", RankScope} \subseteq rows[Ranker][state.of[Ranker]]
      BY <1>1, <2>1, <2>3, <2>5 DEF FeedsMade
    <3>2. "users" \in Kinds
      BY DEF Kinds
    <3>3. \E j : j \in DOMAIN plan["users"]
      <4>1. plan["users"] \in Seq(ItemsOf("users")) /\ plan["users"] # <<>>
        BY <2>1, <3>2, PlanAssumption, UsersAssumption
      <4>2. Len(plan["users"]) # 0
        BY <4>1
      <4>3. Len(plan["users"]) \in Nat /\ DOMAIN plan["users"] = 1..Len(plan["users"])
        BY <4>1
      <4>4. 1 \in DOMAIN plan["users"]
        BY <4>2, <4>3
      <4> QED
        BY <4>4
    <3> QED
      BY <2>1, <3>1, <3>2, <3>3, ListFacts
  <2>6. ASSUME NEW kind \in Kinds, NEW e \in ItemsIn(plan, kind),
               ~(AllParts(e) \subseteq rows[e][state.of[e]])
        PROVE  kind = "systems" /\ HalfMade(e)
    <3>1. e \in ItemsOf(kind) /\ e \in Entities /\ Recorded(e)
      BY <2>1, <2>4, ListFacts, ItemFacts
    <3>2. Usable(kind, e, state.of[e])
      BY <1>1, <3>1 DEF MemoryUsable
    <3>3. kind = "systems" /\ "row" \in rows[e][state.of[e]] /\ state.of[e] \in Runs
      BY <1>1, <2>6, <3>1, <3>2, CopyFacts DEF Usable
    <3>4. ended[state.of[e]] = "systems"
      BY <1>1, <2>6, <3>1, <3>3 DEF HalfInv
    <3> QED
      BY <2>6, <3>3, <3>4 DEF HalfMade
  <2>7. \A k \in DOMAIN FOLLOWS :
          FOLLOWS[k][1] \in ItemsIn(plan, "users") /\ Recorded(FOLLOWS[k][2])
            => <<Copy(FOLLOWS[k][1]), Copy(FOLLOWS[k][2])>> \in follows
    BY <1>1, <2>1, <2>3 DEF FollowsMade
  <2> QED
    BY <2>2, <2>4, <2>5, <2>6, <2>7
<1>2. SeedInv => DoneComplete
  BY <1>1 DEF DoneComplete
<1> QED
  BY <1>2, SeedInvariant, PTL
=============================================================================
