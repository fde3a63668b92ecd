-------------------------------- MODULE Tso --------------------------------
(***************************************************************************)
(* The timestamp oracle of headlines-auth (time/tso.rs): threads issue     *)
(* hybrid timestamps (physical millisecond, logical counter) from one      *)
(* atomic word by compare-and-swap; a background task writes the physical  *)
(* part to the tso_high_water row; after a crash the next process pads the *)
(* stored value and waits for the wall clock to pass it.                   *)
(*                                                                         *)
(* The wall clock advances at any time and, when MaxStepBack > 0, is also  *)
(* set back by up to that much (NTP, an operator, another host's clock).   *)
(***************************************************************************)
EXTENDS Integers

CONSTANTS
  Threads,        \* callers of issue
  FlushInterval,  \* flush_interval_ms; 0 disables the flush task
  MaxLogical,     \* the largest logical counter (2^18 - 1 in the code)
  Horizon,        \* horizon_ms
  MaxStepBack,    \* environment: how far one correction sets the clock back
  MaxMs           \* bound: the last millisecond of the wall clock

ASSUME TsoConstants ==
  /\ FlushInterval \in Nat /\ MaxLogical \in Nat /\ Horizon \in Nat
  /\ MaxStepBack \in Nat /\ MaxMs \in Nat

VARIABLES
  wall,      \* SystemTime in ms
  stored,    \* tso_high_water.last_physical_ms (survives crashes)
  status,    \* the process: "down", "waiting", "seeding", "up", "stopping", "final"
  floor,     \* crash_floor of the process
  last,      \* the packed AtomicU64, as the pair it holds
  pc,        \* each thread: "idle", "load" or "cas"
  seen,      \* each thread's wall_now_ms
  prev,      \* the value of `last` each thread loaded
  flush,     \* the flush task: "idle", or the value it is writing
  latest,    \* history: the newest timestamp issued, by any process
  issued,    \* history: the present process has issued one
  setBack    \* history: the wall clock has been set back at some time

tvars == <<wall, stored, status, floor, last, pc, seen, prev, flush, latest, issued, setBack>>

Stamp(ms, lg) == [ms |-> ms, lg |-> lg]
\* as_u64 compares the milliseconds first, then the logical counter.
Less(s, u) == s.ms < u.ms \/ (s.ms = u.ms /\ s.lg < u.lg)
Later(x, y) == IF x > y THEN x ELSE y

Idle == -1

TsoTypeOK ==
  /\ wall \in 0..MaxMs /\ stored \in Nat /\ floor \in Nat
  /\ status \in {"down", "waiting", "seeding", "up", "stopping", "final"}
  /\ last \in [ms : Nat, lg : 0..MaxLogical]
  /\ pc \in [Threads -> {"idle", "load", "cas"}]
  /\ seen \in [Threads -> Nat]
  /\ prev \in [Threads -> [ms : Nat, lg : 0..MaxLogical]]
  /\ flush \in Nat \union {Idle}
  /\ latest \in [ms : Nat, lg : 0..MaxLogical]
  /\ issued \in BOOLEAN /\ setBack \in BOOLEAN

TsoInit ==
  /\ wall = 0 /\ stored = 0 /\ latest = Stamp(0, 0) /\ setBack = FALSE
  /\ status = "down" /\ floor = 0 /\ last = Stamp(0, 0) /\ issued = FALSE /\ flush = Idle
  /\ pc = [t \in Threads |-> "idle"]
  /\ seen = [t \in Threads |-> 0]
  /\ prev = [t \in Threads |-> Stamp(0, 0)]

\* The process is gone, and what it held in memory.
ProcessEnds ==
  /\ status' = "down" /\ floor' = 0 /\ last' = Stamp(0, 0) /\ issued' = FALSE /\ flush' = Idle
  /\ pc' = [t \in Threads |-> "idle"]
  /\ seen' = [t \in Threads |-> 0]
  /\ prev' = [t \in Threads |-> Stamp(0, 0)]

-----------------------------------------------------------------------------
(* The wall clock. *)

Tick ==
  /\ wall < MaxMs
  /\ wall' = wall + 1
  /\ UNCHANGED <<stored, status, floor, last, pc, seen, prev, flush, latest, issued, setBack>>

StepBack ==
  /\ \E d \in 1..MaxStepBack : wall >= d /\ wall' = wall - d
  /\ setBack' = TRUE
  /\ UNCHANGED <<stored, status, floor, last, pc, seen, prev, flush, latest, issued>>

-----------------------------------------------------------------------------
(* new_with_clock *)

\* Starting a process takes at least one millisecond; it then reads the row.
BootRead ==
  /\ status = "down"
  /\ wall < MaxMs
  /\ wall' = wall + 1
  /\ status' = "waiting"
  /\ floor' = stored + FlushInterval
  /\ UNCHANGED <<stored, last, pc, seen, prev, flush, latest, issued, setBack>>

\* Wait until the clock is past the floor, unless the floor is 0.
BootCaughtUp ==
  /\ status = "waiting"
  /\ floor = 0 \/ wall > floor
  /\ status' = "seeding"
  /\ UNCHANGED <<wall, stored, floor, last, pc, seen, prev, flush, latest, issued, setBack>>

\* (Mutant: the seed forgets the floor.)
BootSeedFromWall ==
  /\ status = "seeding"
  /\ last' = Stamp(wall, 0)
  /\ status' = "up"
  /\ issued' = FALSE
  /\ UNCHANGED <<wall, stored, floor, pc, seen, prev, flush, latest, setBack>>

\* The clock is read a second time for the seed.
BootSeed ==
  /\ status = "seeding"
  /\ last' = Stamp(Later(floor, wall), 0)
  /\ status' = "up"
  /\ issued' = FALSE
  /\ UNCHANGED <<wall, stored, floor, pc, seen, prev, flush, latest, setBack>>

\* The process dies; a flush whose write has not reached Postgres is lost.
Crash == status # "down" /\ ProcessEnds /\ UNCHANGED <<wall, stored, latest, setBack>>

-----------------------------------------------------------------------------
(* issue *)

\* The wall clock is read once, before the retry loop.
IssueBegin(t) ==
  /\ status = "up" /\ pc[t] = "idle"
  /\ seen' = [seen EXCEPT ![t] = wall]
  /\ pc' = [pc EXCEPT ![t] = "load"]
  /\ UNCHANGED <<wall, stored, status, floor, last, prev, flush, latest, issued, setBack>>

\* The call ends and its local variables with it.
IssueEnd(t) ==
  /\ pc' = [pc EXCEPT ![t] = "idle"]
  /\ seen' = [seen EXCEPT ![t] = 0]
  /\ prev' = [prev EXCEPT ![t] = Stamp(0, 0)]

\* (Mutant: a full logical counter is not noticed.)
IssueLoadUnchecked(t) ==
  /\ pc[t] = "load"
  /\ prev' = [prev EXCEPT ![t] = last]
  /\ pc' = [pc EXCEPT ![t] = "cas"]
  /\ UNCHANGED <<wall, stored, status, floor, last, seen, flush, latest, issued, setBack>>

\* A clock not ahead of `last` and a full logical counter is an error.
IssueLoad(t) ==
  /\ pc[t] = "load"
  /\ IF seen[t] <= last.ms /\ last.lg = MaxLogical
       THEN IssueEnd(t)
       ELSE /\ prev' = [prev EXCEPT ![t] = last]
            /\ pc' = [pc EXCEPT ![t] = "cas"]
            /\ UNCHANGED seen
  /\ UNCHANGED <<wall, stored, status, floor, last, flush, latest, issued, setBack>>

NextStamp(t) == IF seen[t] > prev[t].ms THEN Stamp(seen[t], 0)
                ELSE Stamp(prev[t].ms, prev[t].lg + 1)

\* (Mutant: a plain store in place of the compare_exchange.)
IssueStore(t) ==
  /\ pc[t] = "cas"
  /\ last' = NextStamp(t) /\ latest' = NextStamp(t) /\ issued' = TRUE
  /\ IssueEnd(t)
  /\ UNCHANGED <<wall, stored, status, floor, flush, setBack>>

\* compare_exchange; a lost race retries from the load.
IssueCas(t) ==
  /\ pc[t] = "cas"
  /\ IF last = prev[t]
       THEN /\ last' = NextStamp(t) /\ latest' = NextStamp(t) /\ issued' = TRUE
            /\ IssueEnd(t)
       ELSE /\ pc' = [pc EXCEPT ![t] = "load"]
            /\ UNCHANGED <<seen, prev, last, latest, issued>>
  /\ UNCHANGED <<wall, stored, status, floor, flush, setBack>>

-----------------------------------------------------------------------------
(* spawn_flush and stop *)

\* The task loads `last`, then awaits the write.
FlushRead ==
  /\ status \in {"up", "stopping"} /\ FlushInterval > 0 /\ flush = Idle
  /\ flush' = last.ms
  /\ status' = IF status = "stopping" THEN "final" ELSE status
  /\ UNCHANGED <<wall, stored, floor, last, pc, seen, prev, latest, issued, setBack>>

\* The upsert overwrites whatever the row holds; a failed write is only logged.
\* The final write, on shutdown, ends the task and with it the process.
FlushWrite ==
  /\ flush # Idle
  /\ stored' \in {stored, flush}
  /\ IF status = "final"
       THEN ProcessEnds
       ELSE flush' = Idle /\ UNCHANGED <<status, floor, last, pc, seen, prev, issued>>
  /\ UNCHANGED <<wall, latest, setBack>>

\* stop consumes the oracle, so no issue is running.
Stop ==
  /\ status = "up" /\ \A t \in Threads : pc[t] = "idle"
  /\ status' = "stopping"
  /\ UNCHANGED <<wall, stored, floor, last, pc, seen, prev, flush, latest, issued, setBack>>

TsoNext ==
  \/ Tick \/ StepBack
  \/ BootRead \/ BootCaughtUp \/ BootSeed \/ Crash
  \/ \E t \in Threads : IssueBegin(t) \/ IssueLoad(t) \/ IssueCas(t)
  \/ FlushRead \/ FlushWrite \/ Stop

TsoSpec == TsoInit /\ [][TsoNext]_tvars

-----------------------------------------------------------------------------
\* (Mutant: the high-water mark is left out of now_ms.)
NowWallOnly == wall

\* validate_sync: the verdict on a timestamp.
Now == Later(wall, last.ms)
Validate(s) == IF s.ms > Now THEN "NonMonotonic"
               ELSE IF Now - s.ms > Horizon THEN "OutsideHorizon" ELSE "Ok"

\* Every timestamp is greater than the one before, however the threads' load and
\* compare-and-swap interleave: within a process whatever the wall clock does,
\* and across crashes and lost flushes if the clock was never set back, or if all
\* that was issued lay below the row's value padded by one flush interval
\* (tso.rs:120-127, the purpose of the padding).
StrictStamps == [][
  latest' # latest /\ (issued \/ ~setBack \/ latest.ms < floor) => Less(latest, latest')]_tvars

\* "We never go backwards" (postgres_store.rs:123): the persisted high water
\* never decreases, although the upsert compares nothing and writes a value the
\* flush task read before the await, and whatever crash or clock correction
\* comes between the processes that write it.
StoredNeverRetreats == [][stored' >= stored]_tvars

\* validate never calls a timestamp of its own process "future", wherever the
\* wall clock is by then (tso.rs:216-218): clients sign with what GetTime gave.
OwnStampsAccepted ==
  status = "up" /\ issued => Validate(latest) # "NonMonotonic"
=============================================================================
