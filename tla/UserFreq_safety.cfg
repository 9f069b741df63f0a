SPECIFICATION Spec
CONSTANTS
  Words = 2
  SaveEvery = 3
  ColdAge = 3
  OldCounts = {0, 2}
  MaxCommit = 8
  MaxCrash = 2
  MaxDenied = 1
INVARIANTS TypeOK NoWordFromTheFuture OnlyUnsavedLost
CHECK_DEADLOCK FALSE
