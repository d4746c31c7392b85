\* Two stream and two datagram clients, one worker of each kind.
SPECIFICATION MuxFairSpec
CONSTANTS
  Clients = {c1, c2}
  Dgrams = {d1, d2}
  Nobody = Nobody
  Backlog = 2
  NumWorkers = 1
  QueueMax = 1
INVARIANTS
  AloneIsGreetedOnce
PROPERTIES
  EveryoneIsHeard
CHECK_DEADLOCK FALSE
