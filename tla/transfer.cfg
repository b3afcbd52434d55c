SPECIFICATION Spec
CONSTANTS
  TidCount = 5
  TidTimeout = 1
  i1 = i1
  i2 = i2
  Ifaces = {i1, i2}
  Nodes <- Boards
  Lengths = {1, 2}
  FirstTids = {3}
  Burst = 2
  MaxLag = 1
  Lifetime = 3
  MaxTransfers = 4
SYMMETRY Symmetry
INVARIANTS
  TypeOK
  IntactIsDelivered
PROPERTIES
  DeliversAsSent
CHECK_DEADLOCK FALSE
