SPECIFICATION Spec
CONSTANTS
  Timed <- NoRoles
  Untimed <- Artwork
  Stateful <- Metadata
  MaxQueue = 3
  MaxTime = 0
  Rooms <- NoRooms
  MaxSeq = 6
  MaxEpoch = 4
  MaxControls = 0
  MaxActivations = 3
  MayMoveOffRecord = FALSE
INVARIANTS OnlyActivatedRoles  NoStrandedTransfer StreamsAgreeAtRest
PROPERTIES EndsAnOpenStream
CHECK_DEADLOCK FALSE
