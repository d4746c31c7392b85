\* Two resets of *count, two clients with two messages between them.
SPECIFICATION FairSpec
CONSTANTS
  Clients = {c1, c2}
  Quotas <- MCQuotas
  Rows = 2
  MaxMsgs = 2
  MaxResets = 2
INVARIANTS
  OnceAndInOrder
  AheadOnlyAfterRestart
PROPERTIES
  ImplementsLog
  SlotIsServed
  ReaderCatchesUp
CHECK_DEADLOCK FALSE
