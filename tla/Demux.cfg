SPECIFICATION FairSpec
CONSTANTS
  Calls = {r1, r2}
  TagSpace = 2
  BufLen = 1
INVARIANTS
  TypeOK
  NoFatal
PROPERTIES
  CallsReturn
  KeepsPromise
