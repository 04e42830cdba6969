SPECIFICATION Spec
CONSTANTS
    s1 = s1
    s2 = s2
    p1 = p1
    p2 = p2
    Surfaces = {s1, s2}
    Pools = {p1, p2}
    PoolOf <- MCPoolOf
    FormatOf <- MCFormatOf
    CodingOf <- MCCodingOf
    Dims <- MCDims
    Damages <- MCDamages
    U16Max = 3
    MaxDraws = 3
    MaxExtras = 1
    MaxEvents = 4
INVARIANTS ResetClears
CHECK_DEADLOCK FALSE
