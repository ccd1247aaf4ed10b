CONSTANTS
    Validators = {1, 2, 3}
    InitBonded = {1, 2, 3}
    GenesisIndices <- Dense
    IndexSpan = 4
    Movers = {3}
    InitPower <- MCPower
    Powers = {1, 2}
    ByteWidth = 2
    ParamChoices <- AllParams
    InitParams <- Majority
    MaxHeight = 3
    Env = {}
SPECIFICATION Spec
INVARIANTS OneBitPerSigner SoftConfirmedBySigners
PROPERTY SoftConfirmationStable
\* The last block is reached and no message is left to send.
CHECK_DEADLOCK FALSE
