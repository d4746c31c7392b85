\* Three starts, two workers, and three clients with descriptors for two.
SPECIFICATION FairSpec
CONSTANTS
  Clients = {c1, c2, c3}
  Workers = {w1, w2}
  MaxFds = 2
  Backlog = 2
  QueueMax = 1
  MaxStarts = 3
PROPERTIES
  ImplementsReception
  OnlyLeftoversKill
  FullServerDies
CHECK_DEADLOCK FALSE
