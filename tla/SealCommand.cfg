SPECIFICATION Spec
CONSTANTS
    Nil = Nil
    r1 = r1
    r2 = r2
    r3 = r3
    linux = linux
    windows = windows
    x = x
    y = y
    Targets <- MCTargets
    Host = linux
    Entries <- MCEntries
    Runs <- MCRuns
    Calls <- MCCalls
SYMMETRY Symmetry
\* Every run may have ended.
CHECK_DEADLOCK FALSE
INVARIANTS
    TypeOK
    OutputsFit
    NothingWrittenUnresolved
    ResealReplacesPair
