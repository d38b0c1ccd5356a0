CONSTANTS
    Key = {a, b, c}
    Value = {x, y}
    Missing = Missing
    Capacity = 4
    Hashes = {0, 1, 3}
    MaxSets = 7
    Empty = Empty
    Invalidated = Invalidated
SPECIFICATION Spec
INVARIANTS
    TypeOK
    LengthCountsPairs
    ProbingEnds
PROPERTIES
    ImplementsMap
CHECK_DEADLOCK FALSE
