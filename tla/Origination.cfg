SPECIFICATION Spec
CONSTANTS
    TierParams <- MCTiers
    MinAmount = 2
    Loans = {l1}
    Requests <- MCRequests
    Answers = {"excellent", "good", "fair", "poor", "unheard_of"}
    Methods = {"bank_transfer", "wallet"}
    DefaultMethod = "bank_transfer"
    ValidFor = 1
    MaxNow = 2
    Workers = {w1, w2}
    NoLoan = NoLoan
SYMMETRY WorkerSymmetry
INVARIANTS
    OfferIsSound
    AcceptedIsBacked
PROPERTIES
    DecisionsAreFinal
CHECK_DEADLOCK FALSE
