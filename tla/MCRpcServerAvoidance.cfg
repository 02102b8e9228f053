SPECIFICATION Spec
CONSTANTS
    Requests <- AvoidanceRequests
    Files = {1}
    Sizes = {0, 1, 2, 4}
    Range32 = 3
    QueueMax = 1
    MaxRequests = 1
INVARIANT
    AvoidanceAsDocumented
\* The bound on requests ends every behaviour.
CHECK_DEADLOCK FALSE
