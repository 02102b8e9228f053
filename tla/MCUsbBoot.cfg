SPECIFICATION FairSpec
CONSTANTS
    Pids = {p1, p2, p3}
    EndpointPolls = 2
INVARIANTS
    TypeOK
    NoStrayInitialiser
    OneInitialiser
PROPERTIES
    SetupFinished
