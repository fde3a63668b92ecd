------------------------------- MODULE Events -------------------------------
(***************************************************************************)
(* The event log.  record_event and record_event_batch validate against a  *)
(* timestamp of the oracle, then insert with one statement; received_at is *)
(* read from the wall clock after the connection was obtained.             *)
(***************************************************************************)
EXTENDS Directory, Sequences

CONSTANTS
  Recorders,      \* requests that run concurrently
  EventRequests,  \* what they send: the caller, one event or a batch
  PastWindow,     \* 24 hours
  FutureWindow,   \* 60 seconds
  BatchMaxItems,  \* events.batch_max_items
  InitLog         \* the log at the start

(* What a caller may send, and a log whose rows were recorded by requests: *)
(* user_id and article_id are soft references, so any id may be named; an  *)
(* event may also name no article.                                         *)
EventInputs ==
  [user : Users, article : {{}} \union {{a} : a \in Articles}, wellformed : BOOLEAN, type : STRING, occurred : Int, surface : STRING,
   properties : [selector : STRING, valid : BOOLEAN]]

ASSUME EventsAssumption ==
  /\ \A r \in EventRequests : r.events \in Seq(EventInputs)
  /\ IsFiniteSet(InitLog)
  /\ \A e, f \in InitLog : e.id = f.id => e = f
  /\ \A e \in InitLog :
       /\ e.id \in 1..Cardinality(InitLog) /\ e.received \in Instants /\ e.user \in Users
       /\ e.by.class = "user" => e.user = e.by.user

VARIABLES
  log,    \* the rows of events
  ereq    \* each request's progress

eventVars == <<log, ereq>>

(* by: history, who recorded the event. *)
EventRow(r, id, i, received) ==
  [id |-> id, user |-> r.events[i].user, article |-> r.events[i].article,
   type |-> r.events[i].type, received |-> received, by |-> r.subject]

NoRecording == [pc |-> "idle", request |-> {}, received |-> 0]

EventsTypeOK ==
  /\ \A e, f \in log : e.id = f.id => e = f
  /\ \A e \in log : e.received \in Instants /\ e.user \in Users
  /\ \A h \in Recorders :
       /\ ereq[h].pc \in {"idle", "validate", "insert"}
       /\ ereq[h].received \in Instants \union {0}
       /\ (ereq[h].pc = "idle") <=> (ereq[h].request = {})

EventsInit ==
  /\ log = InitLog
  /\ ereq = [h \in Recorders |-> NoRecording]

Recording(h) == CHOOSE r \in EventRequests : ereq[h].request = {r}

(* is_authorized_writer, then for a batch its size. *)
IsAuthorizedWriter(subject) ==
  \/ subject.class = "user"
  \/ subject.class = "system" /\ subject.writes

RecordBegin(h, r) ==
  /\ ereq[h].pc = "idle"
  /\ IsAuthorizedWriter(r.subject)
  /\ r.batch => Len(r.events) \in 1..BatchMaxItems
  /\ Serve
  /\ ereq' = [ereq EXCEPT ![h].pc = "validate", ![h].request = {r}]
  /\ UNCHANGED <<gone, state, drafts, log>>

(* occurred_at may lag 24 hours and lead 60 seconds, bounds included. *)
InWindow(occurred, now) == occurred \in (now - PastWindow)..(now + FutureWindow)

(* The properties are the variant of the type, with valid fields. *)
PropertiesFit(e) == e.properties = [selector |-> e.type, valid |-> TRUE]

(* prepare_event; wellformed says that the ids and occurred_at parse. *)
Prepared(e, subject, now) ==
  /\ e.wellformed /\ e.type # "UNSPECIFIED" /\ InWindow(e.occurred, now)
  /\ e.surface = "valid" /\ PropertiesFit(e)
  /\ subject.class = "user" => e.user = subject.user

RecordAnswered(h) == ereq' = [ereq EXCEPT ![h] = NoRecording]

(* Mutant: a batch is accepted when one of its events is valid. *)
RecordValidateSome(h) ==
  LET r == Recording(h)
  IN  /\ ereq[h].pc = "validate"
      /\ \E now, received \in Instants :
           /\ \E i \in DOMAIN r.events : Prepared(r.events[i], r.subject, now)
           /\ ereq' = [ereq EXCEPT ![h].pc = "insert", ![h].received = received]
      /\ UNCHANGED <<directoryVars, log>>

(* One failing event refuses the whole batch. *)
RecordValidate(h) ==
  LET r == Recording(h)
      valid(now) == \A i \in DOMAIN r.events : Prepared(r.events[i], r.subject, now)
  IN  /\ ereq[h].pc = "validate"
      /\ \E now \in Instants :
           \/ /\ valid(now)
              /\ \E received \in Instants :
                   ereq' = [ereq EXCEPT ![h].pc = "insert", ![h].received = received]
           \/ ~valid(now) /\ RecordAnswered(h)
      /\ UNCHANGED <<directoryVars, log>>

(* One INSERT, all or nothing: the events of a batch share received_at, so *)
(* only their ids order them.                                              *)
RecordInsert(h) ==
  LET r == Recording(h)
      base == Cardinality(log)
  IN  /\ ereq[h].pc = "insert"
      /\ log' = log \union
           {EventRow(r, base + i, i, ereq[h].received) : i \in DOMAIN r.events}
      /\ RecordAnswered(h)
      /\ UNCHANGED directoryVars

RecordAbort(h) ==
  /\ ereq[h].pc # "idle"
  /\ RecordAnswered(h)
  /\ UNCHANGED <<directoryVars, log>>

EventsNext ==
  \E h \in Recorders :
    \/ \E r \in EventRequests : RecordBegin(h, r)
    \/ RecordValidate(h) \/ RecordInsert(h) \/ RecordAbort(h)

(* A user never gets an event of another user into the log, not even in a  *)
(* batch with events of its own; only a system principal records for       *)
(* others.                                                                 *)
EventsAttributed ==
  \A e \in log : e.by.class = "user" => e.user = e.by.user
=============================================================================
