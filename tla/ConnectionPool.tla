--------------------------- MODULE ConnectionPool ---------------------------
(***************************************************************************)
(* The Postgres connection pool of headlines-store (Db, a deadpool without *)
(* wait timeout) and how the repositories use it.  Every repository method *)
(* takes one connection and keeps it until it returns.  Three of them -    *)
(* publish, edit and tombstone of PgArticleRepo - call self.get before     *)
(* they return, which takes a second connection while the first is still   *)
(* held.                                                                   *)
(***************************************************************************)
EXTENDS Integers, Sequences, FiniteSets

CONSTANTS
  Writers,   \* tasks that run publish, edit or tombstone (and anything else)
  Readers,   \* tasks that run the methods that need one connection
  PoolSize   \* database.max_connections

ASSUME PoolAssumption ==
  /\ PoolSize \in Nat \ {0}
  /\ IsFiniteSet(Writers) /\ IsFiniteSet(Readers) /\ Writers \cap Readers = {}

Tasks == Writers \union Readers

VARIABLES
  stage,   \* each task: "idle", "first" (awaiting a connection), "work",
           \* "second" (awaiting another one for the re-read), "reread"
  queue,   \* the tasks awaiting a connection; deadpool serves them in order
  free     \* connections in the pool

pvars == <<stage, queue, free>>

Stages == {"idle", "first", "work", "second", "reread"}

Holding == {h \in Tasks : stage[h] \in {"work", "second", "reread"}}
HoldingTwo == {h \in Tasks : stage[h] = "reread"}

PoolTypeOK ==
  /\ stage \in [Tasks -> Stages]
  /\ queue \in Seq(Tasks)
  /\ free \in 0..PoolSize

PoolInit ==
  /\ stage = [h \in Tasks |-> "idle"]
  /\ queue = <<>>
  /\ free = PoolSize

Enter(h, s) == stage' = [stage EXCEPT ![h] = s]

\* self.db.get().await at the top of a repository method.
Call(h) ==
  /\ stage[h] = "idle"
  /\ Enter(h, "first")
  /\ queue' = Append(queue, h)
  /\ UNCHANGED free

\* (Mutant: the most recent caller is served first.)
AcquireLast(h) ==
  /\ queue # <<>> /\ h = queue[Len(queue)] /\ free > 0
  /\ Enter(h, IF stage[h] = "first" THEN "work" ELSE "reread")
  /\ queue' = SubSeq(queue, 1, Len(queue) - 1)
  /\ free' = free - 1

Acquire(h) ==
  /\ queue # <<>> /\ h = Head(queue) /\ free > 0
  /\ Enter(h, IF stage[h] = "first" THEN "work" ELSE "reread")
  /\ queue' = Tail(queue)
  /\ free' = free - 1

\* The method returns, with its answer or with the error of its transaction.
Return(h) ==
  /\ stage[h] = "work"
  /\ Enter(h, "idle")
  /\ free' = free + 1
  /\ UNCHANGED queue

\* (Mutant: every method ends in a re-read.)
RereadAlways(h) ==
  /\ stage[h] = "work"
  /\ Enter(h, "second")
  /\ queue' = Append(queue, h)
  /\ UNCHANGED free

\* `self.get(id).await` after the commit; `conn` is still in scope.
Reread(h) ==
  /\ h \in Writers
  /\ stage[h] = "work"
  /\ Enter(h, "second")
  /\ queue' = Append(queue, h)
  /\ UNCHANGED free

\* get and its caller return.
ReturnReread(h) ==
  /\ stage[h] = "reread"
  /\ Enter(h, "idle")
  /\ free' = free + 2
  /\ UNCHANGED queue

LeaveQueue(h) ==
  IF stage[h] \in {"first", "second"}
    THEN \E i \in 1..Len(queue) :
           /\ queue[i] = h
           /\ queue' = SubSeq(queue, 1, i - 1) \o SubSeq(queue, i + 1, Len(queue))
    ELSE UNCHANGED queue

\* (Mutant: the connection a cancelled writer held is not returned.)
CancelLeaks(h) ==
  /\ stage[h] # "idle"
  /\ Enter(h, "idle")
  /\ LeaveQueue(h)
  /\ free' = free + (IF stage[h] \in {"work", "reread"} THEN 1 ELSE 0)

\* The client goes away: the handler's future is dropped wherever it awaits,
\* and with it its place in the queue and its connections.
Cancel(h) ==
  /\ stage[h] # "idle"
  /\ Enter(h, "idle")
  /\ LeaveQueue(h)
  /\ free' = free + (CASE stage[h] = "reread" -> 2
                       [] stage[h] \in {"work", "second"} -> 1
                       [] OTHER -> 0)

Step(h) == Acquire(h) \/ Return(h) \/ Reread(h) \/ ReturnReread(h)

PoolNext == \E h \in Tasks : Call(h) \/ Step(h) \/ Cancel(h)

\* A task that can run is run: tokio polls it, Postgres answers.
PoolSpec == PoolInit /\ [][PoolNext]_pvars /\ \A h \in Tasks : WF_pvars(Step(h))

-----------------------------------------------------------------------------
Counted == free + Cardinality(Holding) + Cardinality(HoldingTwo) = PoolSize
QueueIsWaiting ==
  /\ \A i \in 1..Len(queue) : stage[queue[i]] \in {"first", "second"}
  /\ \A h \in Tasks : stage[h] \in {"first", "second"} => \E i \in 1..Len(queue) : queue[i] = h
QueuedOnce == \A i, j \in 1..Len(queue) : queue[i] = queue[j] => i = j

\* No connection is lost or handed out twice, whichever await a request is
\* cancelled at, and exactly the waiting tasks are in the queue, once.
Conserved == Counted /\ QueueIsWaiting /\ QueuedOnce

\* Somebody waits and nobody can go on: no connection is free, and every
\* task that holds one waits for another.
AwaitingSecond == {h \in Tasks : stage[h] = "second"}
Stuck ==
  /\ queue # <<>> /\ free = 0
  /\ \A h \in Tasks : stage[h] \notin {"work", "reread"}

\* The pool can stop: nothing bounds the writers, and get has no timeout
\* (lib.rs:46-68).  It stops in one way only: each connection is held by a
\* publish, edit or tombstone that waits for a second one, so it takes as many
\* of these at once as there are connections, whatever the readers do.
StuckOnlyByWriters ==
  Stuck => /\ AwaitingSecond \subseteq Writers
           /\ Cardinality(AwaitingSecond) = PoolSize

\* Every call ends, unless the pool is stuck and stays so: writers between
\* their two connections do not starve the tasks queued before or behind them,
\* and a stuck pool that a cancelled request frees serves those who waited.
CallsEnd == \A h \in Tasks : stage[h] # "idle" ~> (stage[h] = "idle" \/ []Stuck)
=============================================================================
