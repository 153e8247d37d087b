SPECIFICATION CarefulSpec
CONSTANTS
    Nil = Nil
    NoPass = NoPass
    right = right
    Passwords <- MCPasswords
    Pairs <- MCPairs
    Sessions <- MCSessions
    WardenRuns <- MCSessions
    p1 = p1
    s1 = s1
    s2 = s2
    Attempts = 3
\* Every session may have served and stopped.
CHECK_DEADLOCK FALSE
PROPERTIES
    EventuallyServed
