\* Three runs over a queue of two messages; a text of two bytes in a pipe.
SPECIFICATION FairSpec
CONSTANTS
  MaxRuns = 3
  AtOnce = 2
  QueueMax = 2
  TextLen = 2
INVARIANTS
  WholeAfterCleanRun
  FifosHang
PROPERTIES
  EveryoneEnds
CHECK_DEADLOCK FALSE
