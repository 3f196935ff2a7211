CONSTANTS
    Principal = "principal"
    Parties = {"principal", "a", "b"}
    Modules = {"m", "n"}
    Dims <- MCDims
    Dim <- MCDim
    Grants <- MCGrants
    Grant <- MCGrant
    Root = Root
    Policies <- MCPolicies
    Policy <- MCPolicy
    NoPolicy = NoPolicy
    Global = Global
    act1 = act1
    act2 = act2
    Actions = {act1, act2}
    ContributionLists <- MCContributions
    art1 = art1
    art2 = art2
    Artifacts = {art1, art2}
    Slots = {"slot"}
    NoSlot = NoSlot
    Times = {0, 1, 2}
    Amounts = {0, 1}
    MAX_LINEAGE_LENGTH = 3
    UINT256_MAX = 100
    MaxReservations = 2
SPECIFICATION Spec
SYMMETRY MCSymmetry
INVARIANT TypeOK WithinAuthority OneOpenGeneration BoundOnce LineageNarrows
PROPERTY NoAuthorityAfterRevocation
CHECK_DEADLOCK FALSE
