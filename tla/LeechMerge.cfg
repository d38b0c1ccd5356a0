\* Two keys, two values and every history of five states of the table.
CONSTANTS
    Key = {k1, k2}
    Value = {v1, v2}
    Null = Null
    Missing = Missing
    Length = 4
SPECIFICATION Spec
INVARIANTS
    TypeOK
    MergeNeverConflicts
    MergedTakesServerToHead
    MergedIsNetChange
CHECK_DEADLOCK FALSE
