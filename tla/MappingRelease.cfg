CONSTANTS
    m1 = m1
    m2 = m2
    p1 = p1
    p2 = p2
    c1 = c1
    Mappings = {m1, m2}
    Ports = {p1, p2}
    PortOf <- SamePort
    TcpMappings = {m1}
    Conns = {c1}
    None = None
    MaxQueue = 2
    Debug = FALSE
SPECIFICATION FairSpec
INVARIANTS TypeOK StateMatchesHandle ItemMatchesMapping
PROPERTIES StopEndsListening
CHECK_DEADLOCK FALSE
