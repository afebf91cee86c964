SPECIFICATION Spec
CONSTANTS
    c1 = c1
    c2 = c2
    i1 = i1
    i2 = i2
    p1 = p1
    p2 = p2
    None = None
SYMMETRY MCSymmetry
CONSTRAINT Few
ACTION_CONSTRAINTS Handshakes Calm
CHECK_DEADLOCK FALSE
INVARIANTS
    
    
    ViewSound
    CoreSound
    ServerSound
    SyncSound
