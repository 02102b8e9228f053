SPECIFICATION FairSpec
CONSTANTS
    Ports = {p1, p2}
    Commands <- SomeCommands
    QueueMax = 1
    NoPort = NoPort
    Operator = Operator
INVARIANTS
    TypeOK
    OwnAnswers
PROPERTY
    FetchEnds
