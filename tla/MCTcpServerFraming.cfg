SPECIFICATION FairSpec
CONSTANTS
    Conns = {c1}
    Streams <- AllStreams
    MaxClients = 1
    BufLen = 4
INVARIANTS
    TypeOK
    Framing
PROPERTY
    BytesRead
\* A server that was destroyed stops.
CHECK_DEADLOCK FALSE
