CONSTANTS
    x = x
    y = y
    b = b
    Paths <- PathsDef
    Shapes <- DeepShapesDef
    MaxWrites = 2
    MaxOthers = 0
    MaxLosses = 0
SPECIFICATION WTSpec
INVARIANT ShownIsLayered
CHECK_DEADLOCK FALSE
