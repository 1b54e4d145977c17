SPECIFICATION Spec
CONSTANTS
    p1 = p1
    p2 = p2
    Peers = {p1, p2}
    BatchSize = 2
    MaxMessages = 3
    MaxScores = 3
    NoSignal = NoSignal
    KycSignals <- MCKycSignals
    IncomeSignals <- MCIncomeSignals
    RepaymentSignals <- MCRepaymentSignals
    Amounts <- MCAmounts
INVARIANT OneCurrentScore
INVARIANT AckedIsScored
INVARIANT WorseIsNotBetter
PROPERTY KeepsAScore
PROPERTY ImplementsMailbox
CHECK_DEADLOCK FALSE
