-------------------------- MODULE ArticleLifecycle --------------------------
(***************************************************************************)
(* What the article repository promises to a caller, with every operation  *)
(* one indivisible step (docs/design/articles.md, "Behaviour"): an article *)
(* is published once, its current version then grows by one per edit, it   *)
(* is tombstoned at most once and for good, and a version once withheld by *)
(* redaction stays withheld.                                               *)
(***************************************************************************)
EXTENDS Integers

CONSTANTS Ids, MaxVersion

VARIABLES
  phase,     \* "none", "live" or "tombstone"
  current,   \* the current version of a live article, 0 otherwise
  withheld   \* the versions of each article whose content has been redacted

lifecycle == <<phase, current, withheld>>

Init ==
  /\ phase = [a \in Ids |-> "none"]
  /\ current = [a \in Ids |-> 0]
  /\ withheld = [a \in Ids |-> {}]

Publish(a) ==
  /\ phase[a] = "none"
  /\ phase' = [phase EXCEPT ![a] = "live"]
  /\ current' = [current EXCEPT ![a] = 1]
  /\ UNCHANGED withheld

Edit(a) ==
  /\ phase[a] = "live"
  /\ current[a] < MaxVersion
  /\ current' = [current EXCEPT ![a] = current[a] + 1]
  /\ UNCHANGED <<phase, withheld>>

Tombstone(a) ==
  /\ phase[a] = "live"
  /\ phase' = [phase EXCEPT ![a] = "tombstone"]
  /\ current' = [current EXCEPT ![a] = 0]
  /\ UNCHANGED withheld

\* Versions stay redactable after the tombstone.
Redact(a, v) ==
  /\ phase[a] = "tombstone" \/ (phase[a] = "live" /\ v <= current[a])
  /\ v \notin withheld[a]
  /\ withheld' = [withheld EXCEPT ![a] = withheld[a] \union {v}]
  /\ UNCHANGED <<phase, current>>

Next == \E a \in Ids :
  \/ Publish(a) \/ Edit(a) \/ Tombstone(a)
  \/ \E v \in 1..MaxVersion : Redact(a, v)

Spec == Init /\ [][Next]_lifecycle
=============================================================================
