SPECIFICATION Spec
CONSTANTS
    Nil = Nil
    NoPass = NoPass
    right = right
    Passwords <- MCPasswords
    Pairs <- MCOnePair
    Sessions <- MCOneSession
    WardenRuns <- MCWardenRuns
    p1 = p1
    p2 = p2
    s1 = s1
    s2 = s2
    w1 = w1
    w2 = w2
    Attempts = 3
CHECK_DEADLOCK FALSE
INVARIANTS
    KeysWipedOnStop
