SPECIFICATION Spec
CONSTANTS
    Width = 3
    MaxCalls = 4
    Tables <- MCTables
    Queries <- MCQueries
INVARIANTS
    GroupsExact
    OrderExact
    ShownIsCurrent
    DeathHasACause
CHECK_DEADLOCK FALSE
