CONSTANTS
    MaxHeight = 3
    Vals = {v1}
    Genesis = v1
    ValUpdates <- MCValUpdates
    Filter = "always"
    Faults = {"crash"}
    StartFaults = {"rpc", "gossip", "grpc"}
    Nil = Nil
    PerPages <- MCPerPages
    defaultPerPage = 2
    maxPerPage = 3
    limit = 2
SPECIFICATION QSpec
INVARIANTS ServicesOutliveNode
    ServedIfStored InfoIsNewest PagesPartition
PROPERTY QuitEndsProcess
