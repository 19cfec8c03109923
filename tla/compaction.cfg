SPECIFICATION BSpec
CONSTANTS
    v1 = v1
    v2 = v2
    Tombstone = Tombstone
    Absent = Absent
    Broken = Broken
    Keys <- MCThreeKeys
    Values = {v1}
    Batches <- MCWideBatches
    SegMax = 2
    MemLimit = 2
    L0Threshold = 2
    Calls = {"flush", "full", "gc"}
    Faults = {}
    PowerLoss = FALSE
    MaxCalls = 5
    MaxCrashes = 1
    CopyMayFail = TRUE
    CallsBefore = 3
    Missing = Missing
INVARIANTS LiveTablesReadable OrphansOnlyFromFailures BackupsReadBack
PROPERTIES FlushDurable MaintenanceKeepsView TablesImmutable BackupDurable
