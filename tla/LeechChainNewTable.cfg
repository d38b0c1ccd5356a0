\* A table is added to leech.json between two commits.
CONSTANTS
    Key = {k}
    Value = {v1}
    Null = Null
    Missing = Missing
    Table = {merged, kept}
    InitialTables = {merged}
    Addable = {kept}
    Removable = {}
    MergeTable = {merged}
    Process = {host}
    Committers = {host}
    Purgers = {host}
    Readers = {host}
    Rebasers = {host}
    Times = {}
    AutoPurge = FALSE
    ChainLength = 2
    MaxBlocks = 3
    FaultKinds = {}
    MaxFaults = 0
    Torn = Torn
    Spoiled = Spoiled
    Cut = Cut
    None = None
SPECIFICATION Spec
INVARIANTS
    DiffNeverCrashes
CHECK_DEADLOCK FALSE
