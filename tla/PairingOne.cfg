SPECIFICATION PartsSpec
CONSTANTS
  Methods = {"psk", "static", "dynamic"}
  RoundLimit = 2
  MaxAttempts = 2
  Overlapping = FALSE
  MaxDrops = 1
  MaxCrashes = 1

  FrameSize = 6
  MaxMessage = 12
  MsgLengths = {7}
  MaxSends = 2
  MaxTalks = 1
  MaxRekeys = 1

  Records = {1}
  Pairings = {3, 4}
  MaxChanges = 1
  MaxDials = 2
  MaxTimeouts = 1
INVARIANTS TypeOK NeverAtOdds GuessesBounded SessionsSound
PROPERTIES Agrees AttemptsEnd
