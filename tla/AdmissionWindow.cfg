SPECIFICATION Spec
CONSTANTS
  a = a
  b = b
  d = d
  one = one
  two = two
  Conns <- TwoConns
  Dialed <- NoConns
  ServerOf <- TwoServers
  Capacity = 3
  MaxFailures = 1
  Kinds <- PairOrPlay
  Settings <- Allowed
  Gating <- Both
  MaxActivations = 1
  MaxGestures = 2
  MaxChanges = 0
  MaxShutdowns = 1
INVARIANTS GestureSpent
PROPERTIES ShutdownCloses
CHECK_DEADLOCK FALSE
