\* Two starts, and more messages than both queues, the server and an array
\* they overrun hold.
SPECIFICATION FairSpec
CONSTANTS
  Clients = {c1, c2}
  Rows = 2
  NewlineCode = 1
  MsgMax = 1
  GrpMax = 1
  MaxLines = 2
  MaxStarts = 2
INVARIANTS
  SomeoneShowsAll
  OneVictimPerOverrun
PROPERTIES
  ImplementsHistory
  EveryMessageIsShown
CHECK_DEADLOCK FALSE
