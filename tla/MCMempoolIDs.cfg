CONSTANTS
    Peers = {p1, p2, p3, p4}
    IDSpace = 5
SPECIFICATION Spec
SYMMETRY PeerSymmetry
INVARIANTS UniqueIDs LoopTerminates
\* A full table makes nextPeerID panic, after which nothing runs.
CHECK_DEADLOCK FALSE
