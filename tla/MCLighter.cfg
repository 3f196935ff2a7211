CONSTANTS
    Records = {"rest", "ioc"}
    ValidUntil <- MCValidUntil
    OrderExpiry <- MCOrderExpiry
    Procs = {"p1", "p2"}
    Calls = {"c1", "c2"}
    ProcOf <- MCProcOf
    RecordOf <- MCRecordOf
    Ms = 2
    TxTtl = 1
    MinOrderLife = 2
    MaxAttempts = 2
    NoAttempt = NoAttempt
    FirstNonce = 1
    MaxTime = 3
    MaxCrashes = 1
    MaxForeign = 1
SPECIFICATION Spec
INVARIANTS
    OneOutstanding
    OneHashPerSlot
    ArtifactDiesWithAttempt
