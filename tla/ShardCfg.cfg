SPECIFICATION FairSpec
CONSTANTS
  NShards = 5
  Gids <- ThreeGroups
  MaxOps = 5
INVARIANTS
  TypeOK
  CheckConfig
  AssignedBeforeMoving
  MovesAreMinimal
PROPERTY
  RebalanceReturns
CHECK_DEADLOCK FALSE
