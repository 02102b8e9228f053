SPECIFICATION FairSpec
CONSTANTS
    Requests <- MCRequests
    Files = {1}
    Sizes = {0, 1, 2, 4}
    Range32 = 3
    QueueMax = 2
    MaxRequests = 2
INVARIANTS
    TypeOK
    ResourcesReturned
    ReadyBeforeUpload
    NeverSentShort
PROPERTIES
    ImplementsService
    EveryRequestServed
\* The bound on requests ends every behaviour.
CHECK_DEADLOCK FALSE
