SPECIFICATION Spec
CONSTANTS
  a = a
  b = b
  d = d
  RoleIds <- OnePlayer
  NeedsState <- NoRoles
  Conns <- TwoDialed
  Dialed <- TwoDialed
  Lenient = TRUE
  MaxRequests = 1
  MaxExternal = 1
INVARIANTS TypeOK RegistryFollows
CHECK_DEADLOCK FALSE
