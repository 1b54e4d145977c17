SPECIFICATION Spec
CONSTANTS
    Loans = {l1}
    Registered = {l1}
    Workers = {w1}
    MaxAttempts = 3
    RowMaxAttempts = 3
    EmitCap = 1
    Faults = {"ambiguous_call"}
    Nobody = Nobody
    NoLoan = NoLoan
INVARIANTS
    NoDoublePayout
CHECK_DEADLOCK FALSE
