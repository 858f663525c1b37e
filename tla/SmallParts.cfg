SPECIFICATION Spec
CONSTANTS
  MaxActivations = 2
  MaxRequests = 2
  MaxChanges = 2
  MaxStreams = 2
  MaxChunks = 1
  MaxDrops = 1

  NoServer = 0
  Servers = {1, 2}
  Conns = {c1, c2}
  Capacity = 2
  MaxKeys = 3
  MaxUnpairs = 1
  MaxCrashes = 1

  CapacityBytes = 2
  MaxDuration = 3
  Recheck = 1
  ResetDelay = 1
  Sizes = {1, 2}
  Lengths = {1, 2}
  Delays = {0, 2}
  MaxClock = 3
  MaxQueued = 1
  MaxSent = 3
  MaxEvents = 2

  Clients = {1, 2, 3}
  Players = {1, 2}
  Controllers = {1, 3}
  GroupIds = {1, 2, 3, 4}
  Volumes = {0}
  Full = 3
  MaxTurns = 3

  Rates = {1, 2}
  None = None
  Lead = 1
  MaxTime = 3
  MaxCalls = 5

  TargetUs = 3
  MaxUs = 6
  GapUs = 1
  WatermarkUs = 1
  WindowUs = 2
  EpsilonUs = 0
  ConvergenceWindows = 2
  SkewShare = 2
  MaxHeld = 1
  Pieces = {1, 2}
  Pulls = {1, 2}
  LateBy = {1, 3, 7}
  EarlyBy = {1, 7}
  MaxFeeds = 4
SYMMETRY SameConns
CONSTRAINT Canonical
INVARIANTS TypeOK Sound AgreeAtRest
PROPERTIES StepsRight
CHECK_DEADLOCK FALSE
