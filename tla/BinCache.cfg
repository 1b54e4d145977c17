SPECIFICATION Spec
CONSTANTS
    Sessions = {s1, s2}
    Cards <- MCCards
    Policies <- MCPolicies
    Nothing = Nothing
    Ttl = 2
INVARIANTS
    AnswerIsRecent
CHECK_DEADLOCK FALSE
