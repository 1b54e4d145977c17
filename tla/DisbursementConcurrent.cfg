SPECIFICATION Spec
CONSTANTS
    Loans = {l1}
    Registered = {l1}
    Workers = {w1, w2}
    MaxAttempts = 3
    RowMaxAttempts = 3
    EmitCap = 1
    Faults = {"crash", "redelivery", "ambiguous_call",
              "uncommitted_sweep"}
    Nobody = Nobody
    NoLoan = NoLoan
SYMMETRY WorkerSymmetry
INVARIANTS
    DisbursedOnlyIfPaid
    ProviderCallsExclusive
    AttemptLimit
    InitiateIsIdempotent
    AckedHasRow
    CompletedIsAnnounced
CHECK_DEADLOCK FALSE
