CONSTANTS
  h1 = h1
  h2 = h2
  h3 = h3
  w1 = w1
  w2 = w2
  NONE = NONE
  Actors = {h1, h2, h3}
  Workers = {w1, w2}
  MaxTasks = 3
SPECIFICATION FairSpec
INVARIANT InOnePlace
PROPERTY ImplementsSerialExecutor
PROPERTY EveryTaskRuns
CHECK_DEADLOCK FALSE
