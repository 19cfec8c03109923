SPECIFICATION Spec
CONSTANTS
    Fields = {"a", "b"}
    Values <- MCValues
    Queries <- MCQueries
INVARIANTS RangeCovers RangeExact UnionCovers
CHECK_DEADLOCK FALSE
