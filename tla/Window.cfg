CONSTANTS
    c1 = c1
    c2 = c2
    Mappings = {m1, m2}
    Conns = {c1, c2}
    Key <- InOrder
    Items = {i1, i2, i3, i4}
    None = None
    MaxAsked = 2
SPECIFICATION WindowSpec
INVARIANTS WindowTypeOK ListedAreConnected ConnectedAreListed
PROPERTIES LeavesForAReason
SYMMETRY WindowSymmetry
CHECK_DEADLOCK FALSE
