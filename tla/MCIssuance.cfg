CONSTANTS
    Records = {"r"}
    ValidUntil <- MCValidUntil
    Procs = {"p", "q"}
    Calls = {"c1", "c2"}
    Closers = {"k"}
    ProcOf <- MCProcOf
    RecordOf <- MCRecordOf
    DeadlineSeconds = 1
    MaxAttempts = 2
    NoAttempt = NoAttempt
    MaxTime = 2
    MaxCrashes = 1
SPECIFICATION Spec
INVARIANT NeverIssuedMeansNever SentAtMostOnce BroadcastIsJournaled
PROPERTY ExecutedInLifetime
CHECK_DEADLOCK FALSE
