SPECIFICATION Spec
CONSTANTS
  m1 = m1  m2 = m2  p1 = p1  p2 = p2
  w1 = w1  w2 = w2  w3 = w3
  MapTasks = {m1, m2}
  MapOrder <- FileOrder
  Partitions = {p1, p2}
  Parts <- KeysHash
  Text <- NewlineInP2
  Workers = {w1, w2, w3}
  NoWorker = NoWorker
  NoTask = NoTask
  RetryLimit = 1
  MayCrash = {w1, w2}
  Copying = {w1, w3}
  SlowWorkers = FALSE
  MaxErrors = 2
INVARIANTS
  TypeOK
  OutputIsComplete
  ReduceAfterMaps
CHECK_DEADLOCK FALSE
