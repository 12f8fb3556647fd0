SPECIFICATION Spec
CONSTANTS
    Cap = 2
    TicketLimit = 2
    MaxTickets = 2
    MaxBlocks = 2
INVARIANTS TypeOK SkippedWereCollected PageOfOneCollection PageShowsCache
CHECK_DEADLOCK FALSE
