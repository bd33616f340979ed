SPECIFICATION Spec
CONSTANTS
    upper = upper
    front = front
    Refs = {upper, front}
    MaxCache = 3
    MaxPages = 4
    MaxWrites = 3
SYMMETRY Symmetry
INVARIANTS
    MapIsExact
    WritableIsExact
    Coherent
    ReferenceKeepsItsPage
PROPERTIES
    ImplementsPageStore
CHECK_DEADLOCK FALSE
