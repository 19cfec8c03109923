SPECIFICATION Spec
CONSTANTS
    Top = 7
    Collections = {1, 63}
    FieldIds = {1, 56}
    EntityIds <- MCEntityIds
    Contents <- MCContents
    Indexes <- MCIndexes
    NarrowIndexes <- MCNarrowIndexes
    Bounds <- MCBounds
    MaxPuts = 2
INVARIANTS ScansWhatIsAsked ValuesInOrder ReadsOwnRecords
CHECK_DEADLOCK FALSE
