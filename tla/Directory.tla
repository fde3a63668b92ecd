----------------------------- MODULE Directory -----------------------------
(***************************************************************************)
(* What the services for readers (follows, feeds, events, listings) look   *)
(* up in tables that other services write: which users and accounts are    *)
(* deleted, the state of each article and the drafts.  The handlers that   *)
(* write these are those of Principals, Articles and Drafts; here each of  *)
(* their commits is one step.  Ids are integers: the listings compare      *)
(* UUIDs.                                                                  *)
(***************************************************************************)
EXTENDS Integers, FiniteSets

CONSTANTS
  Users, Accounts, Articles, DraftIds,   \* ids
  AccountOf,                   \* articles.account_id
  CreatedAt,                   \* articles.created_at
  InitLive,                    \* articles live at the start
  DraftOwner,                  \* drafts.account_id
  InitDrafts,                  \* drafts at the start
  Instants,                    \* readings of the wall clock, which may be set
  MaxRequests                  \* bound: writing requests

ASSUME DirectoryAssumption ==
  /\ Users \subseteq Int /\ Accounts \subseteq Int /\ Articles \subseteq Int
  /\ Users \intersect Accounts = {}
  /\ AccountOf \in [Articles -> Accounts] /\ CreatedAt \in [Articles -> Int]
  /\ DraftIds \subseteq Int /\ DraftOwner \in [DraftIds -> Accounts]
  /\ InitDrafts \in [DraftIds -> {{}} \union {{t} : t \in Instants}]
  /\ InitLive \subseteq Articles /\ Instants \subseteq Int /\ MaxRequests \in Nat
  /\ IsFiniteSet(Users) /\ IsFiniteSet(Accounts) /\ IsFiniteSet(Articles)
  /\ IsFiniteSet(DraftIds)

VARIABLES
  gone,     \* deleted users and accounts
  state,    \* articles.state, "none" before the article is published
  drafts,   \* drafts.updated_at of the drafts there are, empty for the others
  served    \* writing requests so far

directoryVars == <<gone, state, drafts, served>>

DirectoryTypeOK ==
  /\ gone \subseteq Users \union Accounts
  /\ state \in [Articles -> {"none", "live", "tombstone"}]
  /\ drafts \in [DraftIds -> {{}} \union {{t} : t \in Instants}]
  /\ served \in 0..MaxRequests

DirectoryInit ==
  /\ gone = {}
  /\ state = [x \in Articles |-> IF x \in InitLive THEN "live" ELSE "none"]
  /\ drafts = InitDrafts
  /\ served = 0

(* A request that may write arrives.  One that is refused at once changes   *)
(* nothing and does not count.                                             *)
Serve == served < MaxRequests /\ served' = served + 1

SoftDelete(s) ==
  /\ Serve
  /\ gone' = gone \union {s}
  /\ UNCHANGED <<state, drafts>>

Publish(x) ==
  /\ Serve
  /\ state[x] = "none"
  /\ state' = [state EXCEPT ![x] = "live"]
  /\ UNCHANGED <<gone, drafts>>

Tombstone(x) ==
  /\ Serve
  /\ state[x] = "live"
  /\ state' = [state EXCEPT ![x] = "tombstone"]
  /\ UNCHANGED <<gone, drafts>>

(* Created, or updated: updated_at moves. *)
SaveDraft(d, now) ==
  /\ Serve
  /\ drafts' = [drafts EXCEPT ![d] = {now}]
  /\ UNCHANGED <<gone, state>>

DeleteDraft(d) ==
  /\ Serve
  /\ drafts[d] # {}
  /\ drafts' = [drafts EXCEPT ![d] = {}]
  /\ UNCHANGED <<gone, state>>

PublishDraft(d, x) ==
  /\ Serve
  /\ drafts[d] # {} /\ state[x] = "none" /\ AccountOf[x] = DraftOwner[d]
  /\ drafts' = [drafts EXCEPT ![d] = {}]
  /\ state' = [state EXCEPT ![x] = "live"]
  /\ UNCHANGED gone

DirectoryNext ==
  \/ \E s \in (Users \union Accounts) \ gone : SoftDelete(s)
  \/ \E x \in Articles : Publish(x) \/ Tombstone(x)
  \/ \E d \in DraftIds :
       \/ DeleteDraft(d)
       \/ \E x \in Articles : PublishDraft(d, x)
       \/ \E now \in Instants : SaveDraft(d, now)
=============================================================================
