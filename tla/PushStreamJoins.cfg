SPECIFICATION Spec
CONSTANTS
  Roles = {"p", "q"}
  Keys = {"pcm", "flac"}
  Buffering = {"flac"}
  Lead = 1
  Commits = 2
  MaxTime = 1
  MaxTail = 4
  MaxChanges = 2
INVARIANT Contiguous
CHECK_DEADLOCK FALSE
