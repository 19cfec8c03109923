SPECIFICATION Spec
CONSTANTS
    a = a
    b = b
    v1 = v1
    v2 = v2
    None = None
    Listed = Listed
    Ids = {e1}
    Names = {a, b}
    Values = {v1, v2}
    Indexes <- JustA
    Inputs <- Clean
    Updates <- NoUpdates
    InitialReady <- NoIndexes
    MemLimit = 6
    Calls = {"put", "flush", "create"}
    Faults = {}
    CrashAt = {"idle"}
    MaxCalls = 3
    MaxCrashes = 1
INVARIANT ReadyIndexSurvives
CHECK_DEADLOCK FALSE
