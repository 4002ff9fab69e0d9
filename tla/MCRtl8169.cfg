CONSTANTS
    NUM_DESCS = 2
    MaxTx = 3
    MaxRx = 3
SPECIFICATION Spec
CHECK_DEADLOCK FALSE
INVARIANTS
    RxInOrder
    TxDamageOnlyWhenFull
PROPERTIES
    RxDrains
    TxDrains
