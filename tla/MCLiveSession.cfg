SPECIFICATION Spec
CONSTANTS
    a = a
    b = b
    cash = cash
    Roles <- MCRoles
    Resources <- MCResources
    Uses <- MCUses
    Limit <- MCLimit
    Own <- MCOwn
    Minimum <- MCMinimum
    Resizable = {a, b}
    MaxGenerations = 2
    Sizes = {0, 2, 3}
    Coordinated = {1}
    Methods = {"KEY", "WALLET", "PLAN"}
    MaxMandates = 2
    MaxEpochs = 2
    MaxRuns = 1
    MaxPlans = 1
    MaxCrashes = 1
INVARIANTS RoomCanClose NoNeedlessReduction MarkedExecutionsPinVersion LedgerRestores RestoredFromLedger
PROPERTIES ReservedUnderActive
CHECK_DEADLOCK FALSE
