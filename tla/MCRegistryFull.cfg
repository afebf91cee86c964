SPECIFICATION MCSpec
CONSTANTS
    None = None
    Identities = {"a1", "a2", "a3"}
    MinerIds = {"m1", "m2", "m3"}
    Commitments = {"c1"}
    Tips = {"t1"}
    Metas = {"x1"}
    Amounts = {1}
    MaxAmount = 2
    MinBurn = 1
    MaxMiners = 3
    RecordRoom = 4
    MinInterval = 2
    MaxBlock = 2
    MaxRound = 1
    MaxSequence = 1
    MaxCalls = 1
    Cut = Cut  NL = NL  Junk = Junk
CHECK_DEADLOCK FALSE
PROPERTIES
    RoundFinalizes
