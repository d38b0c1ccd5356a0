CONSTANTS
    Key = {a, b}
    Value = {x}
    Missing = Missing
    Capacity = 16
    Hashes = {0, 1, 3}
    MaxSets = 14
    Empty = Empty
    Invalidated = Invalidated
SPECIFICATION Spec
INVARIANTS
    LengthCountsPairs
CHECK_DEADLOCK FALSE
