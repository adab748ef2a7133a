CONSTANTS
    Addr = {a1, a2, a3, a4}
    Items = {p1, p2}
    NULL = NULL
    SizeMod = 8
SPECIFICATION Spec
INVARIANT WellLinked
PROPERTY IsDeque
