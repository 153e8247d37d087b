SPECIFICATION Spec
CONSTANTS
    Nil = Nil
    Junk = Junk
    p1 = p1
    p2 = p2
    a = a
    b = b
    Processes <- OneProcess
    Builds <- OneBuild
    Calls <- FetchCalls
    Damage = FALSE
    NBlocks = 2
\* Every call may have ended.
CHECK_DEADLOCK FALSE
PROPERTIES
    StubDirInsteadOfCache
