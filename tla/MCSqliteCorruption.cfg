CONSTANTS
    Procs = {"p", "q"}
    Calls = {"c1", "c2", "c3"}
    ProcOf <- MCProcOf
    NoCall = NoCall
    MaxAttempts = 2
    Limit = 2
    MaxCrashes = 0
SPECIFICATION Spec
INVARIANT NoSpuriousCorruption
CHECK_DEADLOCK FALSE
