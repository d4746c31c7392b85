\* Two clients, two starts of the server, one packet of another program.
SPECIFICATION DgramFairSpec
CONSTANTS
  Clients = {c1, c2}
  MaxStarts = 2
  MaxForeign = 1
INVARIANTS
  EchoIsGreeting
  LoneClientIsHeard
PROPERTIES
  GreetingEndsAll
CHECK_DEADLOCK FALSE
