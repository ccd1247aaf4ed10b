CONSTANTS
    MaxHeight = 4
    maxMissedBlock = 2
    Vals = {v1, v2}
    None = None
    KeyChoices = {TRUE, FALSE}
    Faults = {}
SPECIFICATION Spec
INVARIANT MigratedTipHasCommit
CHECK_DEADLOCK FALSE
