CONSTANTS
    Principal = "principal"
    Parties = {"principal", "a"}
    Modules = {"m"}
    Dims <- PolicyDims
    Dim <- PolicyDim
    Grants <- PolicyGrants
    Grant <- PolicyGrant
    Root = Root
    Policies <- PolicyPolicies
    Policy <- PolicyPolicy
    NoPolicy = NoPolicy
    Global = Global
    act1 = act1
    act2 = act2
    Actions = {act1, act2}
    ContributionLists <- PolicyContributions
    art1 = art1
    art2 = art2
    Artifacts = {}
    Slots = {}
    NoSlot = NoSlot
    Times = {0}
    Amounts = {0, 1, 2}
    MAX_LINEAGE_LENGTH = 2
    UINT256_MAX = 8
    MaxReservations = 3
SPECIFICATION Spec
INVARIANT Conservation ReleaseNeverRefused PolicyHistoryComplete
CHECK_DEADLOCK FALSE
