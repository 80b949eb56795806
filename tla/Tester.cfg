SPECIFICATION FairSpec
CONSTANTS
  N = 3
  Clients = {c1}
  Calls = {r1}
  Unreliable = TRUE
  MaxOps = 2
INVARIANTS
  TypeOK
  AckedIsDurable
  LinksAsTold
  CutClientIsCut
PROPERTY DeletedServerReleases
