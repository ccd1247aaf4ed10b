CONSTANTS
    Clients = {c1, c2}
    Txs = {good, bad}
    Bad = {bad}
    Sizes = {1, 2}
    maxSubs = 1
    Kinds = {"async", "sync", "commit", "check"}
    Faults = {"gossip", "cancel", "clients", "bus"}
SPECIFICATION FairSpec
INVARIANTS NoMissedEvent SubscriptionsOwned UngossipedAccounted
    RejectedStaysHome
PROPERTY EveryCallReturns
