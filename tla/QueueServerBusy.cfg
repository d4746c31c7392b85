\* One start, and as many clients and descriptors as two busy workers, a full
\* queue of one and a main blocked in msgsnd hold.
SPECIFICATION FairSpec
CONSTANTS
  Clients = {c1, c2, c3, c4}
  Workers = {w1, w2}
  MaxFds = 4
  Backlog = 1
  QueueMax = 1
  MaxStarts = 1
PROPERTIES
  EveryoneHeard
CHECK_DEADLOCK FALSE
