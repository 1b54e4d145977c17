SPECIFICATION Spec
CONSTANTS
    Loans = {l1, l2}
    Registered = {l1, l2}
    Workers = {w1}
    MaxAttempts = 3
    RowMaxAttempts = 3
    EmitCap = 1
    Faults = {"emit_failure"}
    Nobody = Nobody
    NoLoan = NoLoan
INVARIANTS
    RowAgreesWithProvider
    NoDoublePayout
PROPERTIES
    RowsKeepToLifecycle
    ImplementsPayout
CHECK_DEADLOCK FALSE
