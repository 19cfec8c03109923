SPECIFICATION Spec
CONSTANTS
    MaxInt = 8
    MaxExact = 9
    SchemaFields = {1, 2}
    KnownSource = 100
    Level = 1
    TextIndexes <- OneIndex
    Damage <- NoDamage
    Databases <- StaleDatabases
    Schemas <- MCSchemas
    Texts <- PlainTexts
    Filters <- NoTexts
    Sorts <- NoTexts
    Limits = {}
    Projections = {}
    Totals = {}
    MaxCalls = 0
INVARIANTS AnswersAlways
CHECK_DEADLOCK FALSE
