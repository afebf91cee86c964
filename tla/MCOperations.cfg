SPECIFICATION MCSpec
CONSTANTS
    None = None
    Torn = Torn
    q1 = q1
    q2 = q2
    h1 = h1
    Ecosystems <- MCEcosystems
    EcosystemPatches <- MCEcosystemPatches
    SourcePatches <- MCSourcePatches
    ScopeCid <- MCScopeCid
    Receipts <- MCReceipts
    Builds <- MCBuilds
    Audits <- MCAudits
    Rehearsals <- MCRehearsals
    Providers <- MCProviders
    Releases <- MCReleases
    RequiredThrough = 5
CONSTRAINTS Ordered Apart
CHECK_DEADLOCK FALSE
INVARIANTS
    ReadyHolds
    
    PinnedHaveBytes
    
    AnswersSound
