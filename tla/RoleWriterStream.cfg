SPECIFICATION FairSpec
CONSTANTS
  Timed <- Player
  Untimed <- NoRoles
  Stateful <- NoRoles
  MaxQueue = 2
  MaxTime = 2
  Rooms <- EarlyLateNever
  MaxSeq = 5
  MaxEpoch = 4
  MaxControls = 1
  MaxActivations = 1
  MayMoveOffRecord = FALSE
INVARIANTS TypeOK QueuesAccounted StreamFramed RolesScheduled
 
CHECK_DEADLOCK FALSE
