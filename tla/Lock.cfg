SPECIFICATION FairSpec
CONSTANTS
  Keys = {l1}
  Empty = e
  Clients = {c1, c2}
  Values <- Ids
  Unreliable = TRUE
  EndsDisabled = TRUE
  LockName <- OneName
  MaxCalls = 2
INVARIANTS
  TypeOK
  MutualExclusion
  OwnerOnServer
  NoGhostOwner
PROPERTIES
  LockNotStuck
  ReleaseReturns
CHECK_DEADLOCK FALSE
