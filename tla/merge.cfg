SPECIFICATION FairSpec
CONSTANTS
    Tombstone = Tombstone
    Absent = Absent
    Keys <- MCKeys
    Values = {v1}
    SegMax = 1
    Sources = 3
INVARIANTS HeapIsCursors
PROPERTIES YieldsNewest Drains
CHECK_DEADLOCK FALSE
