SPECIFICATION Spec
CONSTANTS
    v1 = v1
    v2 = v2
    Tombstone = Tombstone
    Absent = Absent
    Broken = Broken
    Keys <- MCTwoKeys
    Values = {v1}
    Batches <- MCBatches
    SegMax = 1
    MemLimit = 2
    L0Threshold = 2
    Calls = {"flush", "gc"}
    Faults = {"truncate"}
    PowerLoss = TRUE
    MaxCalls = 3
    MaxCrashes = 2
INVARIANTS AlwaysOpens
PROPERTIES KeepsPromise CommitDurable
