SPECIFICATION FairSpec
CONSTANTS
    Tombstone = Tombstone
    Absent = Absent
    Unbounded = Unbounded
    Keys <- MCKeys
    Values = {v1}
    SegMax = 1
    Spacing = 2
    Bits <- MCBits
INVARIANTS IndexExact
PROPERTIES FindsRecords ReadsEnd
CHECK_DEADLOCK FALSE
