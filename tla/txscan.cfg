SPECIFICATION FairSpec
CONSTANTS
    Tombstone = Tombstone
    Absent = Absent
    Unbounded = Unbounded
    Keys <- MCKeys
    Values = {v1}
    SegMax = 1
PROPERTIES ReadsOwnWrites Drains
CHECK_DEADLOCK FALSE
