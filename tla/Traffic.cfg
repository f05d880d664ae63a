CONSTANTS
    c1 = c1
    c2 = c2
    Conns = {c1, c2}
    Total = Total
    None = None
    Kilo = 2
    MaxRead = 2
    MaxBytes = 8
    MaxOpened = 3
SPECIFICATION Spec
SYMMETRY TrafficSymmetry
INVARIANTS TrafficTypeOK CountersExact TotalFallsShort RefreshIsNear
CHECK_DEADLOCK FALSE
