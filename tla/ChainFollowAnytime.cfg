SPECIFICATION Spec
CONSTANTS
    Blocks <- MCTwoBranches
    StartBlocks <- MCGenesisOnly
    MaxTips = 4
    ReorgBuffer = 1
    RpcMayFail = TRUE
    Quiet = {}
INVARIANTS TypeOK SideChainOnlyInReorg
PROPERTIES ReorgDataStable
CHECK_DEADLOCK FALSE
