--------------------------- MODULE AccountStream ---------------------------
(***************************************************************************)
(* StreamAccountArticles (headlines-store repo/account_stream.rs) read by  *)
(* a republisher while the handlers of Articles write.  The stream is one  *)
(* SELECT over the committed tables, ordered by event_at, that returns up  *)
(* to a page of articles after the caller's cursor; the republisher keeps  *)
(* a mirror and the last cursor it was given.                              *)
(*                                                                         *)
(* Since no two writers read the same instant, no two articles share an    *)
(* event_at and the article_id half of the keyset never decides.           *)
(***************************************************************************)
EXTENDS Articles, FiniteSets

CONSTANT PageSize   \* the clamped page_size

ASSUME PageAssumption == PageSize \in Nat \ {0} /\ IsFiniteSet(Ids)

VARIABLES
  cursor,   \* the event_at of the last non-empty page token, 0 before the first
  mirror    \* what the republisher last saw of each article

streamVars == <<vars, cursor, mirror>>

\* The instant the stream orders an article by.
EventAt(a) == IF HasLive(a) THEN live[a].updated_at ELSE tomb[a]

\* row_to_item: an ArticleSummary of the joined row.
Unseen == [state |-> "none", current_version |-> 0, redacted |-> FALSE]
Summary(a) ==
  IF HasLive(a)
    THEN [state |-> articles[a], current_version |-> live[a].current_version,
          redacted |-> Served(a) = "redacted"]
    ELSE [state |-> articles[a], current_version |-> 0, redacted |-> FALSE]

StreamInit == Init /\ cursor = 0 /\ mirror = [a \in Ids |-> Unseen]

\* WHERE (event_at, id) > cursor ORDER BY event_at: the rows of the next page.
After(c) == {a \in Ids : articles[a] # "none" /\ EventAt(a) > c}
Page(c) == {a \in After(c) : Cardinality({b \in After(c) : EventAt(b) < EventAt(a)}) < PageSize}

\* (Mutant: the token is the key of the peeked row, one past the page.)
PollPeeked == LET page == Page(cursor)
                  rest == After(cursor) \ page IN
  /\ mirror' = [a \in Ids |-> IF a \in page THEN Summary(a) ELSE mirror[a]]
  /\ cursor' = IF rest # {}
                 THEN CHOOSE e \in {EventAt(a) : a \in rest} : \A b \in rest : EventAt(b) >= e
                 ELSE cursor
  /\ UNCHANGED vars

\* One call of stream.  The token of a page that has more after it is the key
\* of its last row; the last page's token is empty, and the republisher keeps
\* the cursor it called with (account-stream.md: "resume later with the last
\* cursor").
Poll == LET page == Page(cursor) IN
  /\ mirror' = [a \in Ids |-> IF a \in page THEN Summary(a) ELSE mirror[a]]
  /\ cursor' = IF page # After(cursor)
                 THEN CHOOSE e \in {EventAt(a) : a \in page} : \A b \in page : EventAt(b) <= e
                 ELSE cursor
  /\ UNCHANGED vars

StreamNext == (Next /\ UNCHANGED <<cursor, mirror>>) \/ Poll

\* The republisher keeps polling and running statements finish.
StreamSpec ==
  /\ StreamInit
  /\ [][StreamNext]_streamVars
  /\ \A h \in Handlers : WF_streamVars(Statement(h) /\ UNCHANGED <<cursor, mirror>>)
  /\ WF_streamVars(Poll)

-----------------------------------------------------------------------------
StreamTypeOK ==
  /\ TypeOK
  /\ cursor \in 0..MaxClock
  /\ mirror \in [Ids -> [state : {"none", "live", "tombstone"},
                         current_version : 0..MaxVersion, redacted : BOOLEAN]]

\* An article at or behind the cursor is never returned again, so the mirror
\* must already hold its present state ("for each article_id, the latest
\* emitted state is authoritative", docs/design/account-stream.md:82).
PassedOver(a) == articles[a] # "none" /\ EventAt(a) <= cursor /\ mirror[a] # Summary(a)
NothingBehindCursor == \A a \in Ids : ~PassedOver(a)

\* With concurrent writers it may be lost (run account_stream_lost), but in one
\* way only: its commit is late, the request having read `now` before another
\* one that has committed and been handed out already.  No page boundary, no
\* other order of statements and no redaction that decides by an outdated read
\* makes the republisher pass over a change.
Commits(h) == PublishCommit(h) \/ EditCommit(h) \/ TombstoneCommit(h) \/ RedactCommit(h)
LostOnlyLate == [][\A a \in Ids :
  ~PassedOver(a) /\ PassedOver(a)' =>
    \E h \in Handlers : Commits(h) /\ tx[h].id = a /\ tx[h].now <= cursor]_streamVars

\* The republisher catches up: again and again the mirror equals the account's
\* articles, every publish, edit, tombstone and redaction included.
MirrorConverges == []<>(\A a \in Ids : mirror[a] = Summary(a))
=============================================================================
