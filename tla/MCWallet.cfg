CONSTANTS
    k1 = k1  k2 = k2  t1 = t1  t2 = t2  g1 = g1
    UnlockConds <- MCUnlockConds
    OwnerConds <- MCOwnerConds
    TxnIds <- MCTxnIds
    Genesis <- MCGenesis
    MaxOutputs = 2
SPECIFICATION Spec
SYMMETRY MCSymmetry
INVARIANTS TypeOK UnlockHashAgrees LimboOutputsMatchReference
CHECK_DEADLOCK FALSE
