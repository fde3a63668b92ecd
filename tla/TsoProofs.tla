----------------------------- MODULE TsoProofs -----------------------------
(***************************************************************************)
(* Proofs about Tso, for any number of threads, any flush interval, any    *)
(* counter width and any clock.                                            *)
(***************************************************************************)
EXTENDS Tso, TLAPS

Running == {"up", "stopping", "final"}

\* What relates the parts of one process: a thread about to compare-and-swap has
\* room in the counter it loaded; the row trails the value being flushed, which
\* trails `last`; the last timestamp issued by this process is `last` itself.
ProcessInv ==
  /\ \A t \in Threads : pc[t] # "idle" => status = "up"
  /\ \A t \in Threads : pc[t] = "cas" => seen[t] > prev[t].ms \/ prev[t].lg < MaxLogical
  /\ status \in Running => stored <= last.ms /\ floor <= last.ms
  /\ status \in {"waiting", "seeding"} => stored <= floor
  /\ status \notin Running => flush = Idle /\ ~issued
  /\ flush # Idle => stored <= flush /\ flush <= last.ms
  /\ issued => latest = last

TsoInv == TsoTypeOK /\ ProcessInv

\* The oracle before its first boot satisfies the invariant.
LEMMA TsoInitInv == TsoInit => TsoInv
<1> SUFFICES ASSUME TsoInit PROVE TsoInv
  OBVIOUS
<1>1. Stamp(0, 0) \in [ms : Nat, lg : 0..MaxLogical]
  BY TsoConstants DEF Stamp
<1>2. TsoTypeOK
  <2>1. issued \in BOOLEAN /\ setBack \in BOOLEAN
    BY Zenon DEF TsoInit
  <2>2. wall \in 0..MaxMs /\ stored \in Nat /\ floor \in Nat /\ flush \in Nat \union {Idle}
    BY TsoConstants DEF TsoInit, Idle
  <2>3. /\ last \in [ms : Nat, lg : 0..MaxLogical]
        /\ latest \in [ms : Nat, lg : 0..MaxLogical]
        /\ prev \in [Threads -> [ms : Nat, lg : 0..MaxLogical]]
    BY <1>1 DEF TsoInit
  <2>4. /\ status \in {"down", "waiting", "seeding", "up", "stopping", "final"}
        /\ pc \in [Threads -> {"idle", "load", "cas"}]
        /\ seen \in [Threads -> Nat]
    BY DEF TsoInit
  <2> QED  BY <2>1, <2>2, <2>3, <2>4 DEF TsoTypeOK
<1>3. ~issued
  BY Zenon DEF TsoInit
<1>4. ProcessInv
  BY <1>3 DEF TsoInit, ProcessInv, Running, Idle
<1> QED  BY <1>2, <1>4 DEF TsoInv

\* A process that ends leaves nothing of its memory behind: only the row, the
\* wall clock and the history survive.
LEMMA ProcessEndsInv ==
  ASSUME TsoInv, ProcessEnds, UNCHANGED <<wall, latest, setBack>>, stored' \in Nat
  PROVE  TsoInv'
<1>1. Stamp(0, 0) \in [ms : Nat, lg : 0..MaxLogical]
  BY TsoConstants DEF Stamp
<1>2. ~issued' /\ issued' \in BOOLEAN
  BY Zenon DEF ProcessEnds
<1>3. setBack' \in BOOLEAN
  BY Zenon DEF TsoInv, TsoTypeOK
<1>4. TsoTypeOK'
  BY <1>1, <1>2, <1>3, TsoConstants DEF TsoInv, TsoTypeOK, ProcessEnds, Idle
<1>5. ProcessInv'
  BY <1>2 DEF ProcessEnds, ProcessInv, Running, Idle
<1> QED  BY <1>4, <1>5 DEF TsoInv

\* A thread's successful compare-and-swap moves `last` strictly forward.
LEMMA NextStampGreater ==
  ASSUME TsoInv, NEW t \in Threads, pc[t] = "cas"
  PROVE  NextStamp(t) \in [ms : Nat, lg : 0..MaxLogical] /\ Less(prev[t], NextStamp(t))
         /\ prev[t].ms <= NextStamp(t).ms
BY TsoConstants DEF TsoInv, TsoTypeOK, ProcessInv, NextStamp, Stamp, Less

\* Every step preserves the invariant.
LEMMA TsoNextInv == TsoInv /\ [TsoNext]_tvars => TsoInv'
<1> SUFFICES ASSUME TsoInv, [TsoNext]_tvars PROVE TsoInv'
  OBVIOUS
<1> USE TsoConstants DEF TsoInv, TsoTypeOK, ProcessInv, Running, Idle
<1>1. CASE Tick
  BY <1>1 DEF Tick
<1>2. CASE StepBack
  BY <1>2 DEF StepBack
<1>3. CASE BootRead
  BY <1>3 DEF BootRead
<1>4. CASE BootCaughtUp
  BY <1>4 DEF BootCaughtUp
<1>5. CASE BootSeed
  <2>1. Later(floor, wall) \in Nat /\ stored <= Later(floor, wall) /\ floor <= Later(floor, wall)
    BY <1>5 DEF BootSeed, Later
  <2>2. last' = Stamp(Later(floor, wall), 0)
    BY <1>5 DEF BootSeed
  <2>3. last' \in [ms : Nat, lg : 0..MaxLogical] /\ stored <= last'.ms /\ floor <= last'.ms
    BY <2>1, <2>2 DEF Stamp
  <2>4. ~issued' /\ issued' \in BOOLEAN
    BY <1>5, Zenon DEF BootSeed
  <2>5. flush = Idle /\ \A t \in Threads : pc[t] = "idle"
    BY <1>5 DEF BootSeed
  <2>6. TsoTypeOK'
    BY <1>5, <2>3, <2>4 DEF BootSeed
  <2>7. ProcessInv'
    BY <1>5, <2>3, <2>4, <2>5 DEF BootSeed
  <2> QED  BY <2>6, <2>7
<1>6. CASE Crash
  BY <1>6, ProcessEndsInv DEF Crash
<1>7. ASSUME NEW t \in Threads, IssueBegin(t) PROVE TsoInv'
  BY <1>7 DEF IssueBegin
<1>8. ASSUME NEW t \in Threads, IssueLoad(t) PROVE TsoInv'
  <2>1. CASE seen[t] <= last.ms /\ last.lg = MaxLogical
    BY <1>8, <2>1 DEF IssueLoad, IssueEnd, Stamp
  <2>2. CASE ~(seen[t] <= last.ms /\ last.lg = MaxLogical)
    <3>1. TsoTypeOK'
      BY <1>8, <2>2 DEF IssueLoad
    <3>2. /\ prev' = [prev EXCEPT ![t] = last] /\ pc' = [pc EXCEPT ![t] = "cas"]
          /\ UNCHANGED <<seen, stored, status, floor, last, flush, latest>>
          /\ pc[t] = "load"
      BY <1>8, <2>2 DEF IssueLoad
    <3>3. issued' = issued
      BY <1>8, Zenon DEF IssueLoad
    <3>4. /\ \A u \in Threads : pc'[u] # "idle" => status' = "up"
          /\ \A u \in Threads :
               pc'[u] = "cas" => seen'[u] > prev'[u].ms \/ prev'[u].lg < MaxLogical
      BY <2>2, <3>2
    <3>5. ProcessInv'
      BY <3>2, <3>3, <3>4
    <3> QED  BY <3>1, <3>5
  <2> QED  BY <2>1, <2>2
<1>9. ASSUME NEW t \in Threads, IssueCas(t) PROVE TsoInv'
  <2>1. CASE last = prev[t]
    <3>1. NextStamp(t) \in [ms : Nat, lg : 0..MaxLogical] /\ last.ms <= NextStamp(t).ms
      BY <1>9, <2>1, NextStampGreater DEF IssueCas
    <3> QED  BY <1>9, <2>1, <3>1 DEF IssueCas, IssueEnd, Stamp
  <2>2. CASE last # prev[t]
    BY <1>9, <2>2 DEF IssueCas
  <2> QED  BY <2>1, <2>2
<1>10. CASE FlushRead
  BY <1>10 DEF FlushRead
<1>11. CASE FlushWrite
  <2>1. CASE status = "final"
    BY <1>11, <2>1, ProcessEndsInv DEF FlushWrite
  <2>2. CASE status # "final"
    BY <1>11, <2>2 DEF FlushWrite
  <2> QED  BY <2>1, <2>2
<1>12. CASE Stop
  BY <1>12 DEF Stop
<1>13. CASE UNCHANGED tvars
  BY <1>13 DEF tvars
<1> QED  BY <1>1, <1>2, <1>3, <1>4, <1>5, <1>6, <1>7, <1>8, <1>9, <1>10, <1>11, <1>12, <1>13 DEF TsoNext

\* The invariant holds in every reachable state.
THEOREM TsoInvariance == TsoSpec => []TsoInv
<1> QED  BY TsoInitInv, TsoNextInv, PTL DEF TsoSpec

\* Every variable keeps its type; the logical counter never leaves its width.
THEOREM TsoTypeCorrect == TsoSpec => []TsoTypeOK
<1>1. TsoInv => TsoTypeOK
  BY DEF TsoInv
<1> QED  BY <1>1, TsoInvariance, PTL

\* validate never calls a timestamp this process issued "future".
THEOREM OwnStampsCorrect == TsoSpec => []OwnStampsAccepted
<1>1. TsoInv => OwnStampsAccepted
  BY DEF TsoInv, TsoTypeOK, ProcessInv, OwnStampsAccepted, Validate, Now, Later
<1> QED  BY <1>1, TsoInvariance, PTL

-----------------------------------------------------------------------------
\* Who changes the history and the row: `latest` only a won compare-and-swap,
\* `stored` only a flush.
LEMMA LatestChanges ==
  ASSUME TsoInv, [TsoNext]_tvars, latest' # latest
  PROVE  \E t \in Threads : IssueCas(t) /\ last = prev[t]
BY DEF TsoNext, tvars, Tick, StepBack, BootRead, BootCaughtUp, BootSeed, Crash, IssueBegin,
       IssueLoad, IssueCas, FlushRead, FlushWrite, Stop

\* The persisted high water never decreases, although the upsert is
\* unconditional and the clock may be set back at any time.
THEOREM StoredNeverRetreatsCorrect == TsoSpec => StoredNeverRetreats
<1>1. TsoInv /\ [TsoNext]_tvars => [stored' >= stored]_tvars
  <2> SUFFICES ASSUME TsoInv, TsoNext PROVE stored' >= stored
    BY DEF tvars
  <2>1. CASE FlushWrite
    BY <2>1 DEF FlushWrite, TsoInv, TsoTypeOK, ProcessInv, Idle
  <2>2. CASE ~FlushWrite
    <3>1. stored' = stored
      BY <2>2 DEF TsoNext, Tick, StepBack, BootRead, BootCaughtUp, BootSeed, Crash, IssueBegin,
                  IssueLoad, IssueCas, FlushRead, Stop
    <3> QED  BY <3>1 DEF TsoInv, TsoTypeOK
  <2> QED  BY <2>1, <2>2
<1> QED  BY <1>1, TsoInvariance, PTL DEF TsoSpec, StoredNeverRetreats

-----------------------------------------------------------------------------
(* Restarts. *)

\* As long as the clock has not been set back nothing is ahead of it: what has
\* been issued, what a thread read and what `last` holds; and a process that has
\* issued nothing yet starts strictly above everything its predecessors issued.
ClockGood ==
  /\ latest.ms <= wall
  /\ \A t \in Threads : seen[t] <= wall
  /\ status \in Running => last.ms <= wall
  /\ status \in {"waiting", "seeding"} => latest.ms < wall
  /\ status = "seeding" => floor <= wall
  /\ status \in Running /\ ~issued => latest.ms < last.ms

ClockInv == setBack \/ ClockGood

\* Every step but StepBack preserves it.
LEMMA ClockGoodStep ==
  ASSUME TsoInv, ClockGood, [TsoNext]_tvars, ~StepBack
  PROVE  ClockGood'
<1> USE TsoConstants DEF TsoInv, TsoTypeOK, ProcessInv, ClockGood, Running, Idle
<1>1. CASE Tick
  BY <1>1 DEF Tick
<1>3. CASE BootRead
  BY <1>3 DEF BootRead
<1>4. CASE BootCaughtUp
  BY <1>4 DEF BootCaughtUp
<1>5. CASE BootSeed
  <2>1. last'.ms = wall
    BY <1>5 DEF BootSeed, Later, Stamp
  <2> QED  BY <1>5, <2>1 DEF BootSeed
<1>6. CASE Crash
  BY <1>6 DEF Crash, ProcessEnds
<1>7. ASSUME NEW t \in Threads, IssueBegin(t) PROVE ClockGood'
  BY <1>7 DEF IssueBegin
<1>8. ASSUME NEW t \in Threads, IssueLoad(t) PROVE ClockGood'
  BY <1>8 DEF IssueLoad, IssueEnd
<1>9. ASSUME NEW t \in Threads, IssueCas(t) PROVE ClockGood'
  <2>1. CASE last = prev[t]
    <3>1. NextStamp(t).ms \in Nat /\ NextStamp(t).ms <= wall
      BY <1>9, <2>1 DEF IssueCas, NextStamp, Stamp
    <3>2. issued'
      BY <1>9, <2>1, Zenon DEF IssueCas
    <3> QED  BY <1>9, <2>1, <3>1, <3>2 DEF IssueCas, IssueEnd
  <2>2. CASE last # prev[t]
    BY <1>9, <2>2 DEF IssueCas
  <2> QED  BY <2>1, <2>2
<1>10. CASE FlushRead
  BY <1>10 DEF FlushRead
<1>11. CASE FlushWrite
  BY <1>11 DEF FlushWrite, ProcessEnds
<1>12. CASE Stop
  BY <1>12 DEF Stop
<1>13. CASE UNCHANGED tvars
  BY <1>13 DEF tvars
<1> QED  BY <1>1, <1>3, <1>4, <1>5, <1>6, <1>7, <1>8, <1>9, <1>10, <1>11, <1>12, <1>13 DEF TsoNext

\* Once set back, the clock is remembered as such.
LEMMA SetBackStays ==
  ASSUME [TsoNext]_tvars, setBack
  PROVE  setBack'
BY Zenon DEF TsoNext, tvars, Tick, StepBack, BootRead, BootCaughtUp, BootSeed, Crash, IssueBegin,
             IssueLoad, IssueCas, FlushRead, FlushWrite, Stop

\* Every step keeps what the clock bounds.
LEMMA ClockNextInv ==
  ASSUME TsoInv, ClockInv, [TsoNext]_tvars
  PROVE  ClockInv'
<1>1. CASE setBack
  BY <1>1, SetBackStays DEF ClockInv
<1>2. CASE StepBack
  BY <1>2, Zenon DEF StepBack, ClockInv
<1>3. CASE ~setBack /\ ~StepBack
  BY <1>3, ClockGoodStep DEF ClockInv
<1> QED  BY <1>1, <1>2, <1>3

\* A first process satisfies it.
LEMMA ClockInitInv == TsoInit => ClockInv
<1> SUFFICES ASSUME TsoInit PROVE ClockGood
  BY DEF ClockInv
<1>1. latest.ms = 0 /\ wall = 0 /\ status = "down" /\ \A t \in Threads : seen[t] = 0
  BY DEF TsoInit, Stamp
<1> QED  BY <1>1 DEF ClockGood, Running

\* A timestamp is greater than the one before whenever the process has issued one
\* already, or the clock is in order, or the floor covers what was issued.
LEMMA StampStep ==
  ASSUME TsoInv, ClockInv, [TsoNext]_tvars, latest' # latest,
         issued \/ ~setBack \/ latest.ms < floor
  PROVE  Less(latest, latest')
<1>1. PICK t \in Threads : IssueCas(t) /\ last = prev[t]
  BY LatestChanges
<1>2. pc[t] = "cas" /\ latest' = NextStamp(t) /\ status = "up"
  BY <1>1 DEF IssueCas, TsoInv, ProcessInv
<1>3. Less(last, latest') /\ last.ms <= latest'.ms /\ latest'.ms \in Nat
  BY <1>1, <1>2, NextStampGreater
<1>4. CASE issued
  BY <1>3, <1>4 DEF TsoInv, ProcessInv
<1>5. CASE ~issued
  <2>1. latest.ms < last.ms
    <3>1. CASE latest.ms < floor
      BY <1>2, <3>1 DEF TsoInv, TsoTypeOK, ProcessInv, Running
    <3>2. CASE ~setBack
      BY <1>2, <1>5, <3>2 DEF ClockInv, ClockGood, Running
    <3> QED  BY <1>5, <3>1, <3>2
  <2> QED  BY <1>3, <2>1 DEF Less, TsoInv, TsoTypeOK
<1> QED  BY <1>4, <1>5

\* Timestamps increase strictly, for any number of threads, crashes and lost
\* flushes: within a process on any clock, across restarts on a clock never set
\* back or above a floor that covers them.
THEOREM StrictStampsCorrect == TsoSpec => StrictStamps
<1>1. TsoInv /\ ClockInv /\ [TsoNext]_tvars => ClockInv'
  BY ClockNextInv
<1>2. TsoInv /\ ClockInv /\ [TsoNext]_tvars
        => [latest' # latest /\ (issued \/ ~setBack \/ latest.ms < floor)
              => Less(latest, latest')]_tvars
  BY StampStep
<1> QED  BY <1>1, <1>2, ClockInitInv, TsoInvariance, PTL DEF TsoSpec, StrictStamps
=============================================================================
