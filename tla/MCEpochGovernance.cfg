SPECIFICATION Spec
CONSTANTS
    v1 = v1
    v2 = v2
    genesis = genesis
    next1 = next1
    next2 = next2
    None = None
    BasisPoints = 20
    StakeQuantum = 1
    Identities <- MCIdentities
    Cids <- MCCids
    Genesis = genesis
    Snapshots <- MCSnapshots
    Contents <- MCContents
    Reverts <- MCReverts
    AiClaims <- MCAiClaims
    BuildClaims <- MCBuildClaims
    AvailabilityClaims <- MCAvailabilityClaims
    Reviewers <- MCReviewers
    VoteChoices <- MCVoteChoices
    Bonds = {3}
    Parameters <- MCParameters
    MaxIdleBlock = 5
    MaxBlock = 10
    EpochStarts = {0, 5}
    LaterReviews = {}
INVARIANT EpochSound
PROPERTY ExecutionAfterGrace
PROPERTY ImplementsReference
CHECK_DEADLOCK FALSE
