SPECIFICATION FairSpec
CONSTANTS
    Blocks <- MCBlocks
    StartBlocks <- MCStartBlocks
    MaxTips = 6
    ReorgBuffer = 2
    RpcMayFail = FALSE
    Quiet = {"drained", "picked", "steady"}
INVARIANTS
    NoPanic
    NeverHung
    StakeFollowsNode
    PoolInfoReady
    RowsMatchNode
PROPERTIES
    StakeFollowsTips
    WebFollowsTips
    WebCatchesUp
CHECK_DEADLOCK FALSE
