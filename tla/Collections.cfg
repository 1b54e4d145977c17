SPECIFICATION Spec
CONSTANTS
    Loans = {l1, l2, l3}
    Loaded = {l1, l2}
    Messages = {l3}
    Agents = {a1}
    ByHand = {a2}
    MaxCases = 1
    Dpds = {30, 31, 61, 90}
    PromiseDays = {1}
    MaxDay = 2
    Workers = {w1, w2}
    Nobody = Nobody
SYMMETRY CaseSymmetry
VIEW CaseView
INVARIANTS
    StateIsLogged
    LoadsBounded
PROPERTIES
    TransitionsStand
CHECK_DEADLOCK FALSE
