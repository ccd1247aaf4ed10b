CONSTANTS
    MaxHeight = 4
    Vals = {v1, v2}
    Genesis = v1
    ValUpdates <- MCValUpdates
    Filter = "network"
    Faults = {}
SPECIFICATION Spec
INVARIANT PublishedEventsStored
CHECK_DEADLOCK FALSE
