SPECIFICATION Spec
CONSTANTS
    Keys = {1, 2, 3, 4, 5, 6}
    Sizes = {16376}
    PageSize = 65536
    KeyCapacity = 8
    MaxPages = 12
    Leftovers <- ZeroOrOld
    Plans <- Six
    Repeats = FALSE
    Removals = FALSE
INVARIANTS
    DurableFindable
    BackwardDescends
PROPERTIES
    ImplementsKeyStore
