\* Two jobs that both passed the check for a running one.
SPECIFICATION Spec
CONSTANTS
  Jobs = {j1, j2}
  AuthoritySeconds = 1
  MarginSeconds = 0
  AttemptSeconds = 0
  MaxTime = 2
  MaxRuns = 2
  MaxCrashes = 1
  MaxUnreadable = 0
SYMMETRY Symmetric
INVARIANTS BroadcastOnce ConsumedWasSettled JournalFollowsLedger WriteAhead
CHECK_DEADLOCK FALSE
