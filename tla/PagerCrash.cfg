SPECIFICATION FairPowerSpec
CONSTANTS
    MaxPages = 3
    MaxTxn = 2
    MaxCache = 2
INVARIANTS
    ServesCommitted
    HeaderRestored
    TornIsMarked
    IInv
PROPERTIES
    CommitIsExact
    CommitEnds
