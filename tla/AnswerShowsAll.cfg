CONSTANTS
    c1 = c1
    c2 = c2
    Mappings = {m1, m2}
    Conns = {c1, c2}
    Key <- InOrder
    Items = {i1, i2, i3}
    None = None
    MaxAsked = 1
SPECIFICATION WindowSpec
PROPERTIES AnswerShowsAll
SYMMETRY WindowSymmetry
CHECK_DEADLOCK FALSE
