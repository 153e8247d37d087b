SPECIFICATION Spec
CONSTANTS
    Nil = Nil
    Junk = Junk
    p1 = p1
    p2 = p2
    a = a
    b = b
    Processes <- TwoProcesses
    Builds <- TwoBuilds
    Calls <- SharingCalls
    Damage = TRUE
    NBlocks = 2
SYMMETRY Symmetry
\* Every call may have ended.
CHECK_DEADLOCK FALSE
INVARIANTS
    TypeOK
    OnlyListedBytes
    CacheIsNoObstacle
    LastWriterLeavesWhole
PROPERTIES
    ImplementsResolve
