CONSTANTS
    MaxHeight = 5
    Vals = {v1, v2}
    Genesis = v1
    ValUpdates <- MCValUpdates
    Filter = "network"
    Faults = {"crash", "storeError", "commitError", "busError"}
SPECIFICATION FairSpec
PROPERTIES ImplementsPublication FinalConfirmedPublished
