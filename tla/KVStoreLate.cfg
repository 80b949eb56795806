SPECIFICATION Spec
CONSTANTS
  Keys = {k1}
  Values = {e, v1}
  Empty = e
  Clients = {c1, c2, c3}
  Unreliable = TRUE
  EndsDisabled = TRUE
  MaxVersion = 2
  PutVersions <- Versions
SYMMETRY ClientSymmetry
INVARIANTS
  TypeOK
  OneWinnerPerVersion
  DefiniteAnswers
  MaybeMeansDoneOrBeaten
PROPERTY EffectAfterReturn
CHECK_DEADLOCK FALSE
