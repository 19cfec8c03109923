SPECIFICATION Spec
CONSTANTS
    a = a
    b = b
    v1 = v1
    v2 = v2
    None = None
    Listed = Listed
    Ids = {e1}
    Names = {a, b}
    Values = {v1, v2}
    Indexes <- JustA
    Inputs <- Clean
    Updates <- NoUpdates
    InitialReady <- NoIndexes
    MemLimit = 3
    Calls = {"put", "delete", "transaction", "create", "drop", "narrow_recreate", "narrow_drop", "close"}
    Faults = {"put", "delete", "commit"}
    CrashAt = {"create"}
    MaxCalls = 4
    MaxCrashes = 2
INVARIANTS FindsAll
CHECK_DEADLOCK FALSE
