SPECIFICATION FairSpec
CONSTANTS
    Blocks <- MCFork
    StartBlocks <- MCStart
    MaxMoves = 2
    MaxReorgs = 1
    MaxStops = 2
    UsePG = TRUE
    MayMoveInGap = FALSE
INVARIANTS TypeOK NoTableHasHoles SyncedTogether NeverStuck
PROPERTY Recovers
CHECK_DEADLOCK FALSE
