CONSTANTS
    Miners = {"m1", "m2"}
    Shares <- TreeShares
    Templates = {"t1", "t2", "t3"}
    Parent <- TreeParent
    MinerOf <- TreeMinerOf
    WorkOf <- TreeWorkOf
    TemplateOf <- TreeTemplateOf
    Delta <- TreeDelta
    MaxScore = 4
    MaxSeq = 2
    Blocks = {1, 7, 8}
    MinInterval = 6
    AnchorPolicy = TRUE
    RegBlock <- TreeRegBlock
    AnchorOf <- TreeAnchorOf
    Bootstrap = {"t1", "t2"}
    None = None
    a1 = a1  a2 = a2  a3 = a3
    m1 = m1  m2 = m2  m3 = m3
    t1 = t1  t2 = t2
SPECIFICATION MCSpec
SYMMETRY MCSymmetry
CHECK_DEADLOCK FALSE
INVARIANTS
    AccountingSound
    OrderIndependent
    CheckpointsSound
    RegistrationSound
    FinalitySound
PROPERTY FinalizedBranchKept
