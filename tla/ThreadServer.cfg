\* Three threads and a fourth client; weak fairness of threads and clients.
SPECIFICATION FairSpec
CONSTANTS
  Clients = {c1, c2, c3, c4}
  NumThreads = 3
  Backlog = 2
INVARIANTS
  DiesOnlyWhenShared
  SkippedOnlyWhenOvertaken
PROPERTIES
  ServerEnds
CHECK_DEADLOCK FALSE
