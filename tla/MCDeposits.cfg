SPECIFICATION Spec
CONSTANTS
    d1 = d1
    d2 = d2
    k1 = k1
    k2 = k2
    k3 = k3
    Deposits = {d1, d2}
    Callbacks = {k1, k2, k3}
    Amounts = {10049, 10050, 10099}
SYMMETRY RequestSymmetry
INVARIANTS TypeOK RowTellsOutcome WithinHalfShilling
PROPERTY RefinesPayments
CHECK_DEADLOCK FALSE
