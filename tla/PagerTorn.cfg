SPECIFICATION Spec
CONSTANTS
    MaxPages = 3
    MaxTxn = 2
    MaxCache = 2
INVARIANTS
    RecoveryIsExact
