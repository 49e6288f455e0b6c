SPECIFICATION PartsSpec
CONSTANTS
  MaxQueued = 3
  Batch = 2
  MaxEmits = 6
  MaxFails = 1
INVARIANTS
  PartsTyped
  LossesCounted
  StatusCatchesUp
PROPERTIES
  NewsArrives
  JobsAnswer
  WorkEnds
CHECK_DEADLOCK FALSE
