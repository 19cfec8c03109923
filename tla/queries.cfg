SPECIFICATION Spec
CONSTANTS
    MaxInt = 8
    MaxExact = 9
    SchemaFields = {1, 2}
    KnownSource = 100
    Level = 3
    TextIndexes <- AllIndexes
    Damage <- SomeDamage
    Databases <- AllDatabases
    Schemas <- MCSchemas
    Texts <- MCTexts
    Filters <- MCFilters
    Sorts <- MCSorts
    Limits = {1, 3}
    Projections = {{}, {1}}
    Totals <- MCTotals
    MaxCalls = 3
INVARIANTS AnswersAsked TotalsAsked RefusesTheRest ClausesKeepMeaning
CHECK_DEADLOCK FALSE
