SPECIFICATION FairSpec
CONSTANTS
    c1 = c1
    c2 = c2
    Nobody = Nobody
    Clients <- MCOneClient
    MaxBlocks = 2
    MaxPings = 2
    MaxGoroutines = 4
PROPERTY StoreReturns
CHECK_DEADLOCK FALSE
