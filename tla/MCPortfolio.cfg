CONSTANTS
    N = 2
    Resources = {"cash", "risk"}
    Limit <- MCLimit
    HardMax <- MCHardMax
    Preferred <- MCPreferred
    Mode = "HYBRID"
    ProposalCount = 5
    Proposal <- MCProposal
    MayCharge <- MCMayCharge
    Releases = {1}
    Release <- MCRelease
    Says <- MCSays
    MaxRounds = 2
    Runs = {n1, n2}
    MaxAttempts = 2

SYMMETRY RunSymmetry

SPECIFICATION Spec

INVARIANTS
    BookConserved
    RoomVerifies
    ReductionTargetIsMost

 

\* Every call returns.
CHECK_DEADLOCK FALSE
