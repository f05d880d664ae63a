CONSTANTS
    m1 = m1
    m2 = m2
    p1 = p1
    c1 = c1
    c2 = c2
    k1 = k1
    k2 = k2
    Mappings = {m1}
    Ports = {p1}
    PortOf <- OneMapping
    TcpMappings = {m1}
    Conns = {c1}
    Clients = {k1}
    None = None
    MaxQueue = 2
    Debug = TRUE
SPECIFICATION TcpFairSpec
PROPERTIES ClosingEnds
CHECK_DEADLOCK FALSE
