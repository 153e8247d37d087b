SPECIFICATION Spec
CONSTANTS
    Nil = Nil
    NoPass = NoPass
    right = right
    Passwords <- MCPasswords
    Pairs <- MCPairs
    Sessions <- MCSessions
    WardenRuns <- MCWardenRuns
    p1 = p1
    p2 = p2
    s1 = s1
    s2 = s2
    w1 = w1
    w2 = w2
    Attempts = 1
SYMMETRY Symmetry
\* Every run may have ended.
CHECK_DEADLOCK FALSE
INVARIANTS
    TypeOK
    BothFactors
    WrongPasswordShowsNoChallenge
    ResponseIsForOneSession
    AnsweredMeansOpenable
    SharesStayMasked
PROPERTIES
    ImplementsUnlock
