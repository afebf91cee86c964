SPECIFICATION Spec
CONSTANTS
    v1 = v1
    v2 = v2
    genesis = genesis
    next1 = next1
    next2 = next2
    None = None
    WaiverCid = 0
    BasisPoints = 20
    StakeQuantum = 1
    Identities <- MCIdentities
    Genesis = genesis
    GenesisMetrics <- MCGenesisMetrics
    Leaf <- MCLeaf
    MetricsClaims <- MCMetricsClaims
    Changes <- MCChanges
    Submissions <- MCSubmissions
    ChangeMetrics <- MCChangeMetrics
    Bonds = {2}
    Deposits <- MCDeposits
    Withdrawals <- MCWithdrawals
    VoteChoices <- MCVoteChoices
    EpochOf <- MCEpochOf
    Parameters <- MCParameters
    MaxBlock = 8
    MaxStake = 4
    QuietRounds = 1
INVARIANT AccountsSound
PROPERTY EvidenceStands
PROPERTY ImplementsReference
CHECK_DEADLOCK FALSE
