SPECIFICATION FairSpec
CONSTANTS
    Loans = {l1}
    Registered = {l1}
    Workers = {w1, w2}
    MaxAttempts = 2
    RowMaxAttempts = 2
    EmitCap = 1
    Faults = {"emit_failure", "ambiguous_call"}
    Nobody = Nobody
    NoLoan = NoLoan
PROPERTIES
    JobsEnd
    WebhooksAnswered
CHECK_DEADLOCK FALSE
