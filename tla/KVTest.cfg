SPECIFICATION TestSpec
CONSTANTS
  Keys = {k}
  Clients = {c1, c2}
  Values <- JsonValues
  Empty = e
  Unreliable = TRUE
  EndsDisabled = TRUE
  MaxPuts = 1
  MaxAppends = 2
INVARIANTS
  NeverFails
  AppendsAreExact
PROPERTY LinearizableAsKvModel
CHECK_DEADLOCK FALSE
