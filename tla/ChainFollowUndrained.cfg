SPECIFICATION Spec
CONSTANTS
    Blocks <- MCBlocks
    StartBlocks <- MCStartBlocks
    MaxTips = 5
    ReorgBuffer = 2
    RpcMayFail = FALSE
    Quiet = {"picked", "steady"}
INVARIANT NoPanic
CHECK_DEADLOCK FALSE
