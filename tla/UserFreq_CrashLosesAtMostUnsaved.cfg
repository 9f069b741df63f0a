SPECIFICATION Spec
CONSTANTS
  Words = 2
  SaveEvery = 3
  ColdAge = 3
  OldCounts = {0}
  MaxCommit = 8
  MaxCrash = 2
  MaxDenied = 0
INVARIANT CrashLosesAtMostUnsaved
CHECK_DEADLOCK FALSE
