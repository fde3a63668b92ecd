\* Scans of any listing, one at a time, while two writing requests run.
CONSTANTS
  Users <- MCUsers
  Accounts <- MCAccounts
  Articles <- MCArticles
  AccountOf <- MCAccountOf
  CreatedAt <- MCCreatedAt
  DraftIds <- MCDraftIds
  DraftOwner <- MCDraftOwner
  InitDrafts <- MCInitDrafts
  InitLive = {5, 6}
  Instants = {0, 1}
  MaxRequests = 2
  f1 = f1
  f2 = f2
  r1 = r1
  r2 = r2
  FollowHandlers = {f1, f2}
  InitFollows <- MCInitFollows
  Rankers = {r1, r2}
  Lists <- MCLists
  MaxItems = 2
  InitFeed <- MCInitFeed
  Recorders = {1}
  EventRequests <- MCEventRequests
  PastWindow = 1
  FutureWindow = 0
  BatchMaxItems = 2
  InitLog <- MCInitLog
  Scans <- MCScans
  Limit = 1
SPECIFICATION Spec
INVARIANTS RowsSound LatestReplaceServed ScanExact
PROPERTIES ImplementsPagedRead NoLateWrite
