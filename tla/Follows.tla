------------------------------ MODULE Follows ------------------------------
(***************************************************************************)
(* Follow edges.  follow and unfollow run without a transaction: every     *)
(* SELECT, upsert and UPDATE is an action and commits at once, and `now`   *)
(* is read between the SELECT and the write.                               *)
(***************************************************************************)
EXTENDS Directory

CONSTANTS
  FollowHandlers,   \* requests that run concurrently
  InitFollows       \* the edges at the start

VARIABLES
  follows,   \* the table, "none" where there is no row
  freq       \* each request's progress

followVars == <<follows, freq>>

Edges == Users \X Accounts
NoEdge == [status |-> "none", created |-> 0, unfollowed |-> {}]
EdgeRows ==
  [status : {"active"}, created : Instants, unfollowed : {{}}]
    \union [status : {"unfollowed"}, created : Instants, unfollowed : {{t} : t \in Instants}]

ASSUME InitFollowsAssumption == InitFollows \in [Edges -> {NoEdge} \union EdgeRows]

(* before: history, whether the user or the account was deleted when the   *)
(* request arrived.                                                        *)
NoFollowRequest ==
  [pc |-> "idle", edge |-> <<0, 0>>, now |-> 0, before |-> FALSE]

FollowsTypeOK ==
  /\ follows \in [Edges -> {NoEdge} \union EdgeRows]
  /\ \A h \in FollowHandlers :
       \/ freq[h] = NoFollowRequest
       \/ /\ freq[h].pc \in {"user", "account", "select", "upsert", "unfollow", "update"}
          /\ freq[h].edge \in Edges

FollowsInit ==
  /\ follows = InitFollows
  /\ freq = [h \in FollowHandlers |-> NoFollowRequest]

FollowStep(h, from, to) ==
  /\ freq[h].pc = from
  /\ freq' = [freq EXCEPT ![h].pc = to]

Answered(h) == freq' = [freq EXCEPT ![h] = NoFollowRequest]

(* The caller is the user or a system principal with the scope, any other  *)
(* is refused at once; so is a self-follow, but no user is an account.     *)
FollowBegin(h, e, first) ==
  /\ freq[h].pc = "idle"
  /\ Serve
  /\ freq' = [freq EXCEPT ![h] = [pc |-> first, edge |-> e, now |-> 0,
                                  before |-> {e[1], e[2]} \intersect gone # {}]]
  /\ UNCHANGED <<gone, state, drafts, follows>>

(* Mutant: the status of the account is not looked at. *)
FollowCheckAccountSkipped(h) ==
  /\ FollowStep(h, "account", "select")
  /\ UNCHANGED <<directoryVars, follows>>

FollowCheckUser(h) ==
  /\ freq[h].pc = "user"
  /\ \/ freq[h].edge[1] \in gone /\ Answered(h)
     \/ freq[h].edge[1] \notin gone /\ FollowStep(h, "user", "account")
  /\ UNCHANGED <<directoryVars, follows>>

FollowCheckAccount(h) ==
  /\ freq[h].pc = "account"
  /\ \/ freq[h].edge[2] \in gone /\ Answered(h)
     \/ freq[h].edge[2] \notin gone /\ FollowStep(h, "account", "select")
  /\ UNCHANGED <<directoryVars, follows>>

FollowSelect(h) ==
  /\ freq[h].pc = "select"
  /\ \/ follows[freq[h].edge].status = "active" /\ Answered(h)
     \/ /\ follows[freq[h].edge].status # "active"
        /\ \E now \in Instants : freq' = [freq EXCEPT ![h].pc = "upsert", ![h].now = now]
  /\ UNCHANGED <<directoryVars, follows>>

FollowUpsert(h) ==
  /\ freq[h].pc = "upsert"
  /\ follows' = [follows EXCEPT ![freq[h].edge] =
                   [status |-> "active", created |-> freq[h].now, unfollowed |-> {}]]
  /\ Answered(h)
  /\ UNCHANGED directoryVars

UnfollowSelect(h) ==
  /\ freq[h].pc = "unfollow"
  /\ \/ follows[freq[h].edge].status # "active" /\ Answered(h)
     \/ /\ follows[freq[h].edge].status = "active"
        /\ \E now \in Instants : freq' = [freq EXCEPT ![h].pc = "update", ![h].now = now]
  /\ UNCHANGED <<directoryVars, follows>>

UnfollowUpdate(h) ==
  /\ freq[h].pc = "update"
  /\ follows' = [follows EXCEPT ![freq[h].edge].status = "unfollowed",
                                ![freq[h].edge].unfollowed = {freq[h].now}]
  /\ Answered(h)
  /\ UNCHANGED directoryVars

(* The connection is lost or the request is cancelled. *)
FollowAbort(h) ==
  /\ freq[h].pc # "idle"
  /\ Answered(h)
  /\ UNCHANGED <<directoryVars, follows>>

FollowsNext ==
  \E h \in FollowHandlers :
    \/ \E e \in Edges : FollowBegin(h, e, "user") \/ FollowBegin(h, e, "unfollow")
    \/ FollowCheckUser(h) \/ FollowCheckAccount(h) \/ FollowSelect(h) \/ FollowUpsert(h)
    \/ UnfollowSelect(h) \/ UnfollowUpdate(h) \/ FollowAbort(h)
=============================================================================
