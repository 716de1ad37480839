CONSTANTS
    x = x
    y = y
    b = b
    Paths <- PathsDef
    Shapes <- ShapesDef
    MaxWrites = 3
    MaxOthers = 1
    MaxLosses = 1
SPECIFICATION WTSpec
INVARIANT ShownIsLayered
PROPERTIES
    AcksAreSilent
    Converges
CHECK_DEADLOCK FALSE
