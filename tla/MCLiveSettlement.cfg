\* One job at a time, with a crash and a failed read.
SPECIFICATION Spec
CONSTANTS
  Jobs = {j1}
  AuthoritySeconds = 2
  MarginSeconds = 0
  AttemptSeconds = 1
  MaxTime = 3
  MaxRuns = 2
  MaxCrashes = 1
  MaxUnreadable = 1
INVARIANTS ReleasedNeverExecutes
PROPERTY HeldIsResolved
CHECK_DEADLOCK FALSE
