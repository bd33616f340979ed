SPECIFICATION Spec
CONSTANTS
    upper = upper
    Refs = {upper}
    MaxCache = 3
    MaxPages = 6
    MaxWrites = 3
INVARIANTS
    LargeTransactionsCommit
CHECK_DEADLOCK FALSE
