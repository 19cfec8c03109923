SPECIFICATION Spec
CONSTANTS
    a = a
    b = b
    v1 = v1
    v2 = v2
    None = None
    Listed = Listed
    Ids = {e1}
    Names = {a, b}
    Values = {v1, v2}
    Indexes <- Both
    Inputs <- Clean
    Updates <- SomeUpdates
    InitialReady <- Both
    MemLimit = 6
    Calls = {"put", "cas", "delete", "transaction", "flush"}
    Faults = {}
    CrashAt = {}
    MaxCalls = 4
    MaxCrashes = 0
INVARIANTS ReadsBack FindsAll
CHECK_DEADLOCK FALSE
