SPECIFICATION Spec
CONSTANTS
    Keys = {1, 2, 3, 4, 5, 6, 7, 8}
    Sizes = {104, 167}
    PageSize = 1024
    Setup <- TwoLeaves
    MaxOps = 4
INVARIANTS
    Accounting
    NoOverlap
    VacuumAlwaysFits
PROPERTIES
    ImplementsRecordList
CHECK_DEADLOCK FALSE
