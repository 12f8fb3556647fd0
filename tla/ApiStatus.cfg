SPECIFICATION FairSpec
CONSTANTS
    StartHeight = 1
    MaxHeight = 3
    MaxReorgs = 1
    MaxFailures = 1
    Cap = 3
INVARIANTS
    TypeOK
    NothingBeforeItsRow
    UpToDate
PROPERTIES
    ReadyOnLastNews
    HeightsShown
CHECK_DEADLOCK FALSE
