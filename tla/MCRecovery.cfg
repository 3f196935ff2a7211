CONSTANTS
    Records = {"r", "s"}
    ValidUntil <- MCValidUntil
    Procs = {"p"}
    Calls = {"c1", "c3"}
    Closers = {}
    ProcOf <- OneProcOf
    RecordOf <- MCRecordOf
    DeadlineSeconds = 1
    MaxAttempts = 2
    NoAttempt = NoAttempt
    MaxTime = 0
    MaxCrashes = 1
SPECIFICATION Spec
INVARIANT SlotsDistinct
PROPERTY SendIsRecorded RecoveryAccounts
CHECK_DEADLOCK FALSE
