SPECIFICATION FairSpec
CONSTANTS
  a = a
  b = b
  d = d
  RoleIds <- OnePlayer
  NeedsState <- NoRoles
  Conns <- TwoDialed
  Dialed <- TwoDialed
  Lenient = TRUE
  MaxRequests = 1
  MaxExternal = 1
PROPERTIES LostIsDetached
CHECK_DEADLOCK FALSE
