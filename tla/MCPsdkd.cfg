SPECIFICATION FairSpec
CONSTANTS
    CommandLines <- MCCommandLines
    Topics = {"pos", "battery"}
    QueueMax = 2
INVARIANTS
    TypeOK
    SessionWhileServing
    DependentsFirst
    WaypointFlagHonest
    OrderlyExit
    StopLatency
PROPERTIES
    ImplementsDaemon
    ImplementsSupervised
    StopHonoured
\* The process really ends.
CHECK_DEADLOCK FALSE
