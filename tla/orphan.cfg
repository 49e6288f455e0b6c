SPECIFICATION FairSpec
CONSTANTS
  Workers = {w1, w2}
  NoWorker = NoWorker
  Readers = {r1}
  MaxTries = 1
  Batch = 2
  MaxFrames = 2
  MaxStops = 1
  Troubles = {}
  MaxTroubles = 0
PROPERTIES
  OrphanEnds
CHECK_DEADLOCK FALSE
