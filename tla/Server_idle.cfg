SPECIFICATION FairSpec
CONSTANTS
    r1 = r1
    r2 = r2
    Requests <- MCRequests
    Idle = 2
    Grace = 2
\* The process ends when Run has returned.
CHECK_DEADLOCK FALSE
PROPERTIES
    IdleMeansInactive
