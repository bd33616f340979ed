SPECIFICATION Spec
CONSTANTS
    Keys = {1, 2, 3, 4, 5, 6, 7, 8, 9, 10, 11, 12, 13, 14, 15, 16, 17, 18, 19, 20, 21, 22, 23}
    Sizes = {8, 72, 96}
    PageSize = 512
    Setup <- SmallAndLarge
    MaxOps = 1
PROPERTIES
    BalanceKeepsRecords
CHECK_DEADLOCK FALSE
