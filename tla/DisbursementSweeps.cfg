SPECIFICATION Spec
CONSTANTS
    Loans = {l1, l2}
    Registered = {l1, l2}
    Workers = {w1, w2}
    MaxAttempts = 2
    RowMaxAttempts = 2
    EmitCap = 1
    Faults = {}
    Nobody = Nobody
    NoLoan = NoLoan
SYMMETRY WorkerSymmetry
INVARIANTS
    SomeJobCanMove
CHECK_DEADLOCK FALSE
