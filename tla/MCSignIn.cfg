SPECIFICATION Spec
CONSTANTS
    s1 = s1  s2 = s2  k1 = k1  k2 = k2  v1 = v1  v2 = v2
    Nobody = Nobody  Missing = Missing
    Session <- MCSession
    Token <- MCToken
    Value <- MCValue
    MaxRequests = 4
SYMMETRY Symmetry
INVARIANTS
    SignInsDoNotCollide
    LogMatchesRows
CHECK_DEADLOCK FALSE
