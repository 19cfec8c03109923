SPECIFICATION Spec
CONSTANTS
    a = a
    b = b
    v1 = v1
    v2 = v2
    None = None
    Listed = Listed
    Ids = {e1}
    Names = {a, b}
    Values = {v1, v2}
    Indexes <- NoIndexes
    Inputs <- Clean
    Updates <- NoUpdates
    InitialReady <- NoIndexes
    MemLimit = 6
    Calls = {"put"}
    Faults = {"put"}
    CrashAt = {}
    MaxCalls = 3
    MaxCrashes = 0
INVARIANT ReadsBack
CHECK_DEADLOCK FALSE
