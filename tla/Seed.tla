-------------------------------- MODULE Seed --------------------------------
(***************************************************************************)
(* The demo seed: a run walks eight steps, creates what the plan and the   *)
(* demo directory name, keeps the ids in memory (SeedState) and saves them *)
(* to seed-state.json at the end of five of the steps, so that the next    *)
(* run can skip what is recorded.  Rows are created by the database and by *)
(* the RPCs of the server one statement at a time; only the file connects  *)
(* two runs.                                                               *)
(*                                                                         *)
(* A run may stop at any point: the process dies, a statement or a call    *)
(* fails, or the answer of a call is lost after it took effect.  The file  *)
(* is written in place, so a write that is cut short leaves it unreadable. *)
(* One run is active at a time.                                            *)
(*                                                                         *)
(* A copy of an entity is named by the run that created it: a run creates  *)
(* an entity at most once.                                                 *)
(***************************************************************************)
EXTENDS Integers, Sequences

CONSTANTS
  Plans,     \* the demo directories: per kind the entities, in the order of the loops
  Owner,     \* the account of an article or a draft
  Ranker,    \* the system that signs for the feeds
  SYSTEMS,   \* the systems that are planned, each with its scopes in order
  ACCOUNTS,  \* the accounts that are planned
  FOLLOWS,   \* pairs of a user and an account, in order
  MaxRuns,   \* bound: runs
  MaxFaults  \* bound: runs that are cut short

Kinds == {"systems", "accounts", "users", "articles", "drafts"}
ItemsIn(p, kind) == {p[kind][k] : k \in DOMAIN p[kind]}
ItemsOf(kind) == UNION {ItemsIn(p, kind) : p \in Plans}
Entities == UNION {ItemsOf(kind) : kind \in Kinds}
ScopesOf(e) == IF e \in DOMAIN SYSTEMS THEN SYSTEMS[e] ELSE <<>>
Scopes == UNION {{ScopesOf(e)[k] : k \in DOMAIN ScopesOf(e)} : e \in ItemsOf("systems")}

ASSUME PlanAssumption ==
  /\ \A p \in Plans : \A k \in Kinds : p[k] \in Seq(ItemsOf(k))
  /\ \A k, l \in Kinds : k # l => ItemsOf(k) \intersect ItemsOf(l) = {}
  /\ \A p \in Plans : Ranker \in ItemsIn(p, "systems")
  /\ \A e \in ItemsOf("systems") : ScopesOf(e) \in Seq(Scopes)
  /\ Scopes \intersect {"row", "key"} = {}
  /\ FOLLOWS \in Seq(ItemsOf("users") \X ItemsOf("accounts"))
  /\ Owner \in [ItemsOf("articles") \union ItemsOf("drafts") -> ItemsOf("accounts")]
  /\ \A p \in Plans : \A e \in ItemsIn(p, "articles") \union ItemsIn(p, "drafts") :
       Owner[e] \in ItemsIn(p, "accounts")
  /\ MaxRuns \in Nat \ {0} /\ MaxFaults \in Nat

(* `demo init-keys` makes the keys of the same users in every directory. *)
ASSUME UsersAssumption ==
  \A p \in Plans : p["users"] # <<>> /\ ItemsIn(p, "users") = ItemsOf("users")

(* What is written for one entity, in order.  A system is inserted with    *)
(* its key and then its scopes, row by row; CreateAccount and CreateUser   *)
(* insert the key after the row; an article is published, dated, and then  *)
(* tombstoned or redacted as its front matter says.                        *)
SystemParts(e) == <<"row", "key">> \o ScopesOf(e)
PrincipalParts == <<"row", "key">>
ArticleParts == <<"row", "created_at", "state">>
DraftParts == <<"row">>
Parts == [e \in Entities |-> CASE e \in ItemsOf("systems") -> SystemParts(e)
                               [] e \in ItemsOf("articles") -> ArticleParts
                               [] e \in ItemsOf("drafts") -> DraftParts
                               [] OTHER -> PrincipalParts]
AllParts(e) == {Parts[e][k] : k \in DOMAIN Parts[e]}
PartNames == {"row", "key", "created_at", "state"} \union Scopes

StepOrder ==
  <<"systems", "accounts", "users", "articles", "follows", "drafts", "feeds", "events">>
StepNames == {StepOrder[k] : k \in DOMAIN StepOrder}
Runs == 1..MaxRuns

(* The ids recorded, 0 for none, and the entities with a key id. *)
SeedState == [of : [Entities -> 0..MaxRuns], keyed : SUBSET Entities]
Nothing == [of |-> [e \in Entities |-> 0], keyed |-> {}]

VARIABLES
  rows,      \* rows[e][n]: what the database has of the copy of e that run n created
  follows,   \* edges, between copies
  feeds,     \* the copies of users that have a recommendation feed
  events,    \* per run the users it recorded events for
  file,      \* seed-state.json: absent, torn, or ok with a SeedState
  plan,      \* the demo directory as the run reads it
  state,     \* the SeedState in the memory of the run
  run,       \* where the run is: step, item i, parts p of it written
  runs,      \* number of runs started
  faults,    \* number of runs cut short
  ended,     \* history: the step in which each run stopped before its end
  stale      \* history: rows were cleared under a file that is still there

vars == <<rows, follows, feeds, events, file, plan, state, run, runs, faults, ended, stale>>
db == <<rows, follows, feeds, events>>

UserCopies == ItemsOf("users") \X Runs
AccountCopies == ItemsOf("accounts") \X Runs
Deletes ==
  << <<"events", "row">>, <<"feeds", "row">>, <<"follows", "row">>, <<"articles", "row">>,
     <<"drafts", "row">>, <<"accounts", "key">>, <<"accounts", "row">>, <<"users", "key">>,
     <<"users", "row">>, <<"systems", "key">>, <<"systems", "scopes">>, <<"systems", "row">> >>

(* The number of items of a step. *)
Width(at) == CASE at \in Kinds -> Len(plan[at])
               [] at = "follows" -> Len(FOLLOWS)
               [] OTHER -> Len(plan["users"])

(* The type invariant: no step's index passes its list by more than one. *)
SeedTypeOK ==
  /\ rows \in [Entities -> [Runs -> SUBSET PartNames]]
  /\ follows \subseteq UserCopies \X AccountCopies
  /\ feeds \subseteq UserCopies
  /\ events \in [Runs -> SUBSET UserCopies]
  /\ file \in [status : {"absent", "ok", "torn"}, has : SeedState]
  /\ plan \in Plans
  /\ state \in SeedState
  /\ run \in [at : {"off", "clear", "unlink", "load", "save", "done", "halted"} \union StepNames,
              step : DOMAIN StepOrder, i : Nat \ {0}, p : Nat,
              reset : BOOLEAN, skip : BOOLEAN]
  /\ run.i <= IF run.at = "clear" THEN Len(Deletes) ELSE Width(StepOrder[run.step]) + 1
  /\ runs \in 0..MaxRuns /\ faults \in 0..MaxFaults
  /\ ended \in [Runs -> {"", "before"} \union StepNames]
  /\ stale \in BOOLEAN

Init ==
  /\ rows = [e \in Entities |-> [n \in Runs |-> {}]]
  /\ follows = {} /\ feeds = {} /\ events = [n \in Runs |-> {}]
  /\ file = [status |-> "absent", has |-> Nothing]
  /\ plan \in Plans
  /\ state = Nothing
  /\ run = [at |-> "off", step |-> 1, i |-> 1, p |-> 0, reset |-> FALSE, skip |-> FALSE]
  /\ runs = 0 /\ faults = 0
  /\ ended = [n \in Runs |-> ""] /\ stale = FALSE

-----------------------------------------------------------------------------
(* Starting a run: from the command line, or at boot if there is no        *)
(* account.  The demo directory may have changed since the last run.       *)
Resting == run.at \in {"off", "done", "halted"}
Start(reset, skip) ==
  /\ Resting /\ runs < MaxRuns
  /\ runs' = runs + 1
  /\ plan' \in Plans
  /\ state' = Nothing
  /\ run' = [at |-> IF reset THEN "clear" ELSE "load", step |-> 1, i |-> 1, p |-> 0,
             reset |-> reset, skip |-> skip]
  /\ UNCHANGED <<db, file, faults, ended, stale>>

DemoSeed == \E reset, skip \in BOOLEAN : Start(reset, skip)

AccountsTableEmpty == \A e \in ItemsOf("accounts"), n \in Runs : "row" \notin rows[e][n]
BootSeed == AccountsTableEmpty /\ Start(FALSE, FALSE)

(* A run that stops before its end, and where it had got to. *)
Reached ==
  IF run.at \in {"clear", "unlink", "load"} THEN "before" ELSE StepOrder[run.step]
Stops ==
  /\ run' = [run EXCEPT !.at = "off", !.i = 1, !.p = 0]
  /\ ended' = [ended EXCEPT ![runs] = Reached]
  /\ state' = Nothing

-----------------------------------------------------------------------------
(* --reset: clear_demo_data deletes table by table (the four tables of an  *)
(* article are one here), then the file is removed, and an error of the    *)
(* removal is ignored.                                                     *)
Without(kind, part) ==
  [e \in Entities |-> [n \in Runs |->
     IF e \notin ItemsOf(kind) THEN rows[e][n]
     ELSE rows[e][n] \ (CASE part = "row" -> PartNames
                          [] part = "scopes" -> Scopes
                          [] OTHER -> {part})]]
Delete ==
  LET table == Deletes[run.i][1]
  IN  /\ rows' = IF table \in Kinds THEN Without(table, Deletes[run.i][2]) ELSE rows
      /\ follows' = IF table = "follows" THEN {} ELSE follows
      /\ feeds' = IF table = "feeds" THEN {} ELSE feeds
      /\ events' = IF table = "events" THEN [n \in Runs |-> {}] ELSE events

ClearDemoData ==
  /\ run.at = "clear" /\ Delete
  /\ run' = IF run.i = Len(Deletes) THEN [run EXCEPT !.at = "unlink", !.i = 1]
            ELSE [run EXCEPT !.i = @ + 1]
  /\ stale' = (stale \/ file.status # "absent")
  /\ UNCHANGED <<file, plan, state, runs, faults, ended>>

RemoveFile ==
  /\ run.at = "unlink"
  /\ run' = [run EXCEPT !.at = "load"]
  /\ \/ /\ file' = [status |-> "absent", has |-> Nothing] /\ stale' = FALSE
        /\ UNCHANGED faults
     \/ /\ faults < MaxFaults /\ runs < MaxRuns /\ faults' = faults + 1
        /\ UNCHANGED <<file, stale>>
  /\ UNCHANGED <<db, plan, state, runs, ended>>

LoadOrDefault ==
  /\ run.at = "load"
  /\ \/ /\ file.status = "torn"
        /\ Stops
     \/ /\ file.status # "torn"
        /\ state' = file.has
        /\ run' = [run EXCEPT !.at = "systems"]
        /\ UNCHANGED ended
  /\ UNCHANGED <<db, file, plan, runs, faults, stale>>

-----------------------------------------------------------------------------
(* Creating the entities of a step. *)
Item == plan[run.at][run.i]
Creating == run.at \in Kinds /\ run.i \in DOMAIN plan[run.at]
Begins == Creating /\ run.p = 0 /\ state.of[Item] = 0

(* The copy that is recorded is there, with the key that is recorded. *)
Recorded(e) == state.of[e] # 0
There(e, part) == Recorded(e) /\ part \in rows[e][state.of[e]]
CanSign(e) == e \in state.keyed /\ There(e, "key") /\ There(e, "row")

Advance(at) == run' = [run EXCEPT !.at = at, !.i = @ + 1, !.p = 0]
With(e, n, keyed) ==
  [of |-> [state.of EXCEPT ![e] = n],
   keyed |-> IF keyed THEN state.keyed \union {e} ELSE state.keyed]

SkipRecorded ==
  /\ Creating /\ run.p = 0 /\ Recorded(Item)
  /\ Advance(run.at)
  /\ UNCHANGED <<db, file, plan, state, runs, faults, ended, stale>>

(* The directory holds a key for a system or an account that the plan does *)
(* not know: the run ends, before it looks at the table.                   *)
Unplanned(e) == \/ e \in ItemsOf("systems") /\ e \notin DOMAIN SYSTEMS
                \/ e \in ItemsOf("accounts") /\ e \notin ACCOUNTS
NoPlan ==
  /\ Begins /\ Unplanned(Item)
  /\ Stops
  /\ UNCHANGED <<db, file, plan, runs, faults, stale>>

(* A system whose name is in the table is recorded as it is found. *)
Existing(e) == {n \in Runs : "row" \in rows[e][n]}

(* Mutant: the table is not looked at. *)
FindSystemNever ==
  FALSE /\ UNCHANGED vars

FindSystem ==
  /\ Begins /\ run.at = "systems" /\ ~Unplanned(Item)
  /\ \E n \in Existing(Item) : state' = With(Item, n, "key" \in rows[Item][n])
  /\ Advance(run.at)
  /\ UNCHANGED <<db, file, plan, runs, faults, ended, stale>>

(* The next statement for the item: the INSERTs of a system whose name is  *)
(* new, one per scope too, those of the handlers behind the RPCs, or the   *)
(* UPDATEs that follow a publication.  An article is recorded in memory    *)
(* once it is published, anything else when all is written.  An article or *)
(* a draft needs its account's signature; the dating is SQL.               *)
Signed == run.at = "drafts" \/ (run.at = "articles" /\ run.p # 1)
InsertPart ==
  /\ Begins \/ (Creating /\ run.p \in 1..(Len(Parts[Item]) - 1))
  /\ ~Unplanned(Item)
  /\ run.at = "systems" /\ run.p = 0 => Existing(Item) = {}
  /\ Signed => CanSign(Owner[Item])
  /\ rows' = [rows EXCEPT ![Item] =
                [n \in Runs |-> rows[Item][n] \union
                                IF n = runs THEN {Parts[Item][run.p + 1]} ELSE {}]]
  /\ state' = IF run.at = "articles" /\ run.p = 0 THEN With(Item, runs, FALSE) ELSE state
  /\ run' = [run EXCEPT !.p = @ + 1]
  /\ UNCHANGED <<follows, feeds, events, file, plan, runs, faults, ended, stale>>

(* The account that must sign is gone, or has lost its key. *)
CreateRefused ==
  /\ Begins \/ (Creating /\ run.p \in 1..(Len(Parts[Item]) - 1))
  /\ Signed /\ ~CanSign(Owner[Item])
  /\ Stops
  /\ UNCHANGED <<db, file, plan, runs, faults, stale>>

(* Mutant: an entity is recorded as soon as it has its row. *)
RecordRowOnly ==
  /\ Creating /\ run.p >= 1
  /\ state' = With(Item, runs, run.at \in {"systems", "accounts", "users"})
  /\ Advance(run.at)
  /\ UNCHANGED <<db, file, plan, runs, faults, ended, stale>>

Record ==
  /\ Creating /\ run.p = Len(Parts[Item])
  /\ state' = With(Item, runs, run.at \in {"systems", "accounts", "users"})
  /\ Advance(run.at)
  /\ UNCHANGED <<db, file, plan, runs, faults, ended, stale>>

-----------------------------------------------------------------------------
(* The steps that record nothing: each item again in every run. *)
Copy(e) == <<e, state.of[e]>>
User == plan["users"][run.i]

(* Mutant: a refused follow is passed over. *)
SeedFollowAny ==
  /\ run.at = "follows" /\ run.i \in DOMAIN FOLLOWS
  /\ Advance("follows")
  /\ UNCHANGED <<db, file, plan, state, runs, faults, ended, stale>>

(* An edge of a user or an account that is not seeded is passed over; a    *)
(* follow that is refused ends the run.                                    *)
SeedFollow ==
  /\ run.at = "follows" /\ run.i \in DOMAIN FOLLOWS
  /\ LET u == FOLLOWS[run.i][1]
         a == FOLLOWS[run.i][2]
         known == u \in ItemsIn(plan, "users") /\ Recorded(u) /\ Recorded(a)
     IN  \/ /\ ~known
            /\ Advance("follows")
            /\ UNCHANGED <<follows, state, ended>>
         \/ /\ known /\ CanSign(u) /\ There(a, "row")
            /\ follows' = follows \union {<<Copy(u), Copy(a)>>}
            /\ Advance("follows")
            /\ UNCHANGED <<state, ended>>
         \/ /\ known /\ ~(CanSign(u) /\ There(a, "row"))
            /\ Stops
            /\ UNCHANGED follows
  /\ UNCHANGED <<rows, feeds, events, file, plan, runs, faults, stale>>

(* The ranker signs, and must hold one scope.  The feed and the events are *)
(* those of the users in the state, which are those of the directory.      *)
SomeArticle == \E e \in ItemsOf("articles") : Recorded(e)
RankScope == "feeds.recommendation.write"
MayRank == CanSign(Ranker) /\ There(Ranker, RankScope) /\ There(User, "row")
SeedFeed ==
  /\ run.at = "feeds" /\ run.i \in DOMAIN plan["users"]
  /\ \/ /\ Ranker \in state.keyed /\ ~SomeArticle
        /\ Advance("feeds")
        /\ UNCHANGED <<feeds, state, ended>>
     \/ /\ SomeArticle /\ MayRank
        /\ feeds' = feeds \union {Copy(User)}
        /\ Advance("feeds")
        /\ UNCHANGED <<state, ended>>
     \/ /\ Ranker \notin state.keyed \/ (SomeArticle /\ ~MayRank)
        /\ Stops
        /\ UNCHANGED feeds
  /\ UNCHANGED <<rows, follows, events, file, plan, runs, faults, stale>>

SeedEvents ==
  /\ run.at = "events" /\ run.i \in DOMAIN plan["users"]
  /\ \/ /\ ~SomeArticle
        /\ Advance("events")
        /\ UNCHANGED <<events, state, ended>>
     \/ /\ SomeArticle /\ CanSign(User)
        /\ events' = [events EXCEPT ![runs] = @ \union {Copy(User)}]
        /\ Advance("events")
        /\ UNCHANGED <<state, ended>>
     \/ /\ SomeArticle /\ ~CanSign(User)
        /\ Stops
        /\ UNCHANGED events
  /\ UNCHANGED <<rows, follows, feeds, file, plan, runs, faults, stale>>

-----------------------------------------------------------------------------
(* The end of a step. *)
AtEnd == run.at \in StepNames /\ run.i > Width(run.at)
GoOn ==
  run' = IF run.step = Len(StepOrder) THEN [run EXCEPT !.at = "done"]
         ELSE IF run.skip /\ StepOrder[run.step] = "users" THEN [run EXCEPT !.at = "halted"]
         ELSE [run EXCEPT !.at = StepOrder[run.step + 1], !.step = @ + 1, !.i = 1]

EndStep ==
  /\ AtEnd
  /\ IF run.at \in Kinds THEN run' = [run EXCEPT !.at = "save"] ELSE GoOn
  /\ UNCHANGED <<db, file, plan, state, runs, faults, ended, stale>>

(* Mutant: the step ends without saving. *)
SaveNot ==
  /\ run.at = "save"
  /\ GoOn
  /\ UNCHANGED <<db, file, plan, state, runs, faults, ended, stale>>

Save ==
  /\ run.at = "save"
  /\ file' = [status |-> "ok", has |-> state]
  /\ GoOn
  /\ UNCHANGED <<db, plan, state, runs, faults, ended, stale>>

(* The run is cut short; while it writes the file, the file is torn, or is *)
(* written or not.                                                         *)
Fault ==
  /\ ~Resting /\ faults < MaxFaults /\ runs < MaxRuns
  /\ faults' = faults + 1
  /\ Stops
  /\ \/ UNCHANGED file
     \/ /\ run.at = "save"
        /\ file' \in {[status |-> "ok", has |-> state], [status |-> "torn", has |-> Nothing]}
  /\ UNCHANGED <<db, plan, runs, stale>>

Step ==
  \/ ClearDemoData \/ RemoveFile \/ LoadOrDefault
  \/ SkipRecorded \/ NoPlan \/ FindSystem \/ InsertPart \/ CreateRefused \/ Record
  \/ SeedFollow \/ SeedFeed \/ SeedEvents
  \/ EndStep \/ Save
Next == DemoSeed \/ BootSeed \/ Step \/ Fault

Spec == Init /\ [][Next]_vars

(* The task of a run that was started is scheduled. *)
SeedFairSpec == Spec /\ WF_vars(Step)

-----------------------------------------------------------------------------
(* Properties. *)

(* What the file says is done is done: outside an interrupted reset, each  *)
(* recorded copy is in the database with its key and all that was to be    *)
(* written for it; no run depends on an account whose creation broke off   *)
(* between the row and the key.  Only a system may be found half made.     *)
(* (And every variable keeps its type.)                                    *)
RecordedUsable ==
  /\ SeedTypeOK
  /\ ~stale /\ file.status = "ok" =>
       \A kind \in Kinds : \A e \in ItemsOf(kind) :
         file.has.of[e] # 0 =>
           IF kind = "systems" THEN "row" \in rows[e][file.has.of[e]]
           ELSE AllParts(e) \subseteq rows[e][file.has.of[e]]

(* A re-run makes a second copy of something only if the run that made the *)
(* first one was cut short in that very step, before it was saved; never   *)
(* of a system.                                                            *)
DuplicatesExplained ==
  \A kind \in Kinds : \A e \in ItemsOf(kind) : \A m, n \in Runs :
    m < n /\ "row" \in rows[e][m] /\ "row" \in rows[e][n] =>
      kind # "systems" /\ ended[m] = kind

(* A run that reports success has seeded everything the plan names: all is *)
(* recorded in the file, complete, with its edges and feeds.  Only a       *)
(* system that an interrupted run left half made may lack parts: it is     *)
(* never completed, and is noticed only if it is the ranker and lacks its  *)
(* key, or, when there is something to rank, the scope that ranks.         *)
HalfMade(e) == \E n \in Runs : ended[n] = "systems" /\ ~(AllParts(e) \subseteq rows[e][n])
DoneComplete ==
  run.at = "done" /\ ~stale =>
    /\ file = [status |-> "ok", has |-> state]
    /\ \A kind \in Kinds : \A e \in ItemsIn(plan, kind) :
         /\ Recorded(e)
         /\ AllParts(e) \subseteq rows[e][state.of[e]] \/ (kind = "systems" /\ HalfMade(e))
    /\ SomeArticle => {"row", "key", RankScope} \subseteq rows[Ranker][state.of[Ranker]]
    /\ \A k \in DOMAIN FOLLOWS :
         FOLLOWS[k][1] \in ItemsIn(plan, "users") /\ Recorded(FOLLOWS[k][2])
           => <<Copy(FOLLOWS[k][1]), Copy(FOLLOWS[k][2])>> \in follows
    /\ SomeArticle => \A u \in ItemsIn(plan, "users") : Copy(u) \in feeds

(* A run without a fault ends with success, or stops because the directory *)
(* names a system or an account that is not planned, or because the seed   *)
(* is stuck in one of three ways that only a reset ends: the file is       *)
(* unreadable, the file names rows that were cleared, or the ranker was    *)
(* left without its key or the scope that ranks.  Faults spare the last    *)
(* run.                                                                    *)
RankerBroken ==
  \E n \in Existing(Ranker) : ~({"key", RankScope} \subseteq rows[Ranker][n])
Stuck == file.status = "torn" \/ stale \/ RankerBroken
SomeUnplanned == \E kind \in Kinds : \E e \in ItemsIn(plan, kind) : Unplanned(e)
SeedConverges ==
  runs = MaxRuns ~> \/ run.at \in {"done", "halted"}
                    \/ run.at = "off" /\ (SomeUnplanned \/ (Stuck /\ ~run.reset))
=============================================================================
