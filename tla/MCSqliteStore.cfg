CONSTANTS
    Procs = {"p", "q"}
    Calls = {"c1", "c2", "c3"}
    ProcOf <- MCProcOf
    NoCall = NoCall
    MaxAttempts = 2
    Limit = 2
    MaxCrashes = 2
SPECIFICATION Spec
INVARIANT CacheIsCommitted OutcomeIsExact
PROPERTY NoStaleCommit ImplementsLog EveryCallReturns
CHECK_DEADLOCK FALSE
