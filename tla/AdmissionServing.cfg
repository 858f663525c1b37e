SPECIFICATION FairSpec
CONSTANTS
  a = a
  b = b
  d = d
  one = one
  two = two
  Conns <- ThreeConns
  Dialed <- OneDialed
  ServerOf <- TwoServers
  Capacity = 3
  MaxFailures = 1
  Kinds <- SingleKinds
  Settings <- Allowed
  Gating <- Ungated
  MaxActivations = 1
  MaxGestures = 0
  MaxChanges = 1
  MaxShutdowns = 0
INVARIANTS TypeOK  SlotsKept
PROPERTIES PlaybackKept 
CHECK_DEADLOCK FALSE
