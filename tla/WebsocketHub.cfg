SPECIFICATION Spec
CONSTANTS
    c1 = c1
    c2 = c2
    Nobody = Nobody
    Clients <- MCClients
    MaxBlocks = 1
    MaxPings = 1
    MaxGoroutines = 2
INVARIANTS TypeOK RegisteredOpen NoBlockMissed SafeWhileKeepingUp
SYMMETRY MCSymmetry
CHECK_DEADLOCK FALSE
