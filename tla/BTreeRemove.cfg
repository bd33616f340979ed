SPECIFICATION Spec
CONSTANTS
    Keys = {1, 2, 3, 4, 5, 6, 7, 8, 9, 10, 11, 12, 13, 14, 15, 16, 17, 18, 19, 20, 21, 22, 23, 24}
    Sizes = {16376}
    PageSize = 65536
    KeyCapacity = 8
    MaxPages = 36
    Leftovers <- Zeros
    Plans <- LowAndTall
    Repeats = FALSE
    Removals = TRUE
INVARIANTS
    Findable
    NoSharing
    KeysOrdered
    ScanComplete
    SearchNeverAborts
