CONSTANTS
    Validators = {1, 2}
    InitBonded = {1, 2}
    GenesisIndices <- Colliding
    IndexSpan = 4
    Movers = {1}
    InitPower <- EqualPower
    Powers = {1, 2}
    ByteWidth = 1
    ParamChoices <- OnlyEveryBlock
    InitParams <- EveryBlock
    MaxHeight = 3
    Env = {"staking", "genesis"}
SPECIFICATION Spec
INVARIANTS IndexMapSound HaltsOnlyIfAttestedAhead
\* The last block is reached and no message is left to send.
CHECK_DEADLOCK FALSE
