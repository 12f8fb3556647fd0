SPECIFICATION FairSpec
CONSTANTS
    Cap = 1
    TicketLimit = 1
    MaxTickets = 1
    MaxBlocks = 1
PROPERTY SaversReturn
CHECK_DEADLOCK FALSE
