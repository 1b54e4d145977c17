SPECIFICATION SpecSerial
CONSTANTS
    p1 = p1
    p2 = p2
    p3 = p3
    Payments = {p1, p2, p3}
    AmountOf <- MCAmounts
    Principal = 8
    Tenure = 3
    DueDay <- MCDueDays
    TotalDue <- MCTotals
    Grace = 1
    DefaultAfter = 3
    MaxDay = 7
    MaxPenalty = 2
    Workers = {w1, w2}
    NoPayment = NoPayment
    Principals <- MCPrincipals
    Rates <- MCRates
    Months <- MCMonths
    FirstDates <- MCDates
SYMMETRY WorkerSymmetry
INVARIANTS
    TypeOK
    NeverOverCredited
    BookedOnce
    PaidInOrder
    ProgressIsBacked
    NoPenaltyInGrace
    SerialBooksAgree
    ScheduleSound
CHECK_DEADLOCK FALSE
