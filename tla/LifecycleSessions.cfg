SPECIFICATION Spec
CONSTANTS
  a = a
  b = b
  d = d
  RoleIds <- PlayerAndMetadata
  NeedsState <- OnePlayer
  Conns <- TwoConns
  Dialed <- NoConns
  Lenient = TRUE
  MaxRequests = 0
  MaxExternal = 0
SYMMETRY Alike
INVARIANTS  NoEndlessWait
PROPERTIES DetachedByItsOwn
CHECK_DEADLOCK FALSE
