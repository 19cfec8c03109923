SPECIFICATION Spec
CONSTANTS
    a = a
    b = b
    v1 = v1
    v2 = v2
    None = None
    Listed = Listed
    Ids = {e1}
    Names = {a, b}
    Values = {v1, v2}
    Indexes <- JustA
    Inputs <- Clean
    Updates <- SomeUpdates
    InitialReady <- JustA
    MemLimit = 3
    Calls = {"put", "cas", "delete", "transaction"}
    Faults = {}
    CrashAt = {"idle", "tx", "block", "sync", "recover"}
    MaxCalls = 3
    MaxCrashes = 2
INVARIANTS TypeOK ReadsBack ReadyIndexSurvives StoredIdsKnown
PROPERTIES CommitAtomic
CHECK_DEADLOCK FALSE
