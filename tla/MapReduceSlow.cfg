SPECIFICATION FairSpec
CONSTANTS
  m1 = m1  m2 = m2  p1 = p1  p2 = p2
  w1 = w1  w2 = w2  w3 = w3
  MapTasks = {m1, m2}
  MapOrder <- FileOrder
  Partitions = {p1}
  Parts <- OnePartition
  Text <- SpaceInP1
  Workers = {w1, w2}
  NoWorker = NoWorker
  NoTask = NoTask
  RetryLimit = 1
  MayCrash = {w1}
  Copying = {w1}
  SlowWorkers = TRUE
  MaxErrors = 1
INVARIANT EveryMapCountedOnce
PROPERTIES
  CompletedIsFinal
  
CHECK_DEADLOCK FALSE
