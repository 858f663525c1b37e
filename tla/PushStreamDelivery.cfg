SPECIFICATION Spec
CONSTANTS
  Roles = {"p", "q"}
  Keys = {"pcm", "flac"}
  Buffering = {"flac"}
  Lead = 1
  Commits = 2
  MaxTime = 1
  MaxTail = 4
  MaxChanges = 4
INVARIANTS TypeOK SentOnce  NeverStuck
CHECK_DEADLOCK FALSE
