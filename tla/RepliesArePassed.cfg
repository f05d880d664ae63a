CONSTANTS
    m1 = m1
    m2 = m2
    p1 = p1
    c1 = c1
    c2 = c2
    k1 = k1
    k2 = k2
    Mappings = {m1}
    Ports = {p1}
    PortOf <- OnePort
    TcpMappings = {}
    Conns = {c1}
    Clients = {k1}
    None = None
    MaxQueue = 2
    Debug = FALSE
SPECIFICATION UdpSpec
INVARIANT RepliesArePassed
CHECK_DEADLOCK FALSE
