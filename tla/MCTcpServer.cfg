SPECIFICATION Spec
CONSTANTS
    Conns = {c1, c2, c3}
    Streams <- OneRequest
    MaxClients = 2
    BufLen = 4
SYMMETRY ConnSymmetry
INVARIANTS
    TablesAgree
    NoLostEdge
\* A server that was destroyed stops.
CHECK_DEADLOCK FALSE
