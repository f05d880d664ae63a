CONSTANTS
    m1 = m1
    m2 = m2
    p1 = p1
    p2 = p2
    c1 = c1
    Mappings = {m1}
    Ports = {p1, p2}
    PortOf <- OnePort
    TcpMappings = {m1}
    Conns = {}
    None = None
    MaxQueue = 2
    Debug = FALSE
SPECIFICATION Spec
INVARIANT ClosedBeforeRelease
CHECK_DEADLOCK FALSE
