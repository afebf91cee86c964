SPECIFICATION MCSpec
CONSTANTS
    a1 = a1  a2 = a2  a3 = a3  a4 = a4  b2 = b2  b3 = b3  b4 = b4
    x = x  y = y  z = z  w = w
    t1 = t1  t2 = t2  t3 = t3  t4 = t4
    Blocks = {a1, a2, a3, a4, b2, b3, b4, x, y, z, w}
    Txs = {t1, t2, t3, t4}
    Header <- MCHeader
    Tx <- MCTx
    Inherited = Inherited
    None = None  Cut = Cut  Junk = Junk
    FirstHeight = 1  LaunchTime = 1
    ActivationHeight = 4  Maturity = 2  MaxBlockTxs = 3
    Subsidy = 4  HalvingInterval = 3
    MedianWindow = 3  MaxFuture = 8
    PowLimit = 28  WorkRange = 64  Mantissa = 8  Base = 2
    Spacing = 4  Interval = 2  HandoffWork = 4
    MaxMempool = 2
    Clocks = {5, 20}
    MaxCrashes = 1  MaxFailedWrites = 1
    n1 = n1  n2 = n2  NotSyncing = NotSyncing
INVARIANTS
    ChainSound
    LedgerSound
    TemplateIsValid
    RestartSound
    
PROPERTY TipsImprove
