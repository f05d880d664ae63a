CONSTANTS
    p1 = p1
    p2 = p2
    a1 = a1
    a2 = a2
    AnyAddress = any
    Ports = {p1, p2}
    Addresses = {a1, a2, any}
    LocalIPs = {a1, a2}
    Wrong = Wrong
    None = None
SPECIFICATION InputSpec
INVARIANTS InputTypeOK AddOnlyValid TipIsTrue
