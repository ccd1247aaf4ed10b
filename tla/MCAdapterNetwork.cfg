CONSTANTS
    MaxHeight = 4
    Vals = {v1, v2}
    Genesis = v1
    ValUpdates <- MCValUpdates
    Filter = "network"
    Faults = {"crash", "reject", "storeError", "commitError", "busError",
              "cancel", "overlap", "earlyAttest"}
SPECIFICATION Spec
INVARIANTS StoredBlocksComplete StateNeverBehindApp ValidatorsFollowApp
    PublishedAfterSave PublishedAfterConsensus
PROPERTY RecoverabilityLostOnlyByCommit
