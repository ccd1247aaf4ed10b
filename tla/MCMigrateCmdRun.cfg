CONSTANTS
    MaxHeight = 4
    maxMissedBlock = 2
    Vals = {v1, v2}
    None = None
    KeyChoices = {TRUE, FALSE}
    Faults = {"crash"}
SPECIFICATION Spec
INVARIANTS MigratedNodeHasState HeightOnlyWhenComplete SyncStoresAtTip
\* The node has started.
CHECK_DEADLOCK FALSE
