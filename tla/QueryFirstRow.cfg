SPECIFICATION Spec
CONSTANTS
    Width = 3
    MaxCalls = 4
    Tables <- MCTables
    Queries <- MCQueries
INVARIANTS
    SelectsEveryMatch
CHECK_DEADLOCK FALSE
