\* The source of one table cannot be read during a commit.
CONSTANTS
    Key = {k}
    Value = {v1}
    Null = Null
    Missing = Missing
    Table = {merged, kept}
    InitialTables = {merged, kept}
    Addable = {}
    Removable = {}
    MergeTable = {merged}
    Process = {host}
    Committers = {host}
    Purgers = {host}
    Readers = {host}
    Rebasers = {host}
    Times = {}
    AutoPurge = FALSE
    ChainLength = 2
    MaxBlocks = 3
    FaultKinds = {"load"}
    MaxFaults = 1
    Torn = Torn
    Spoiled = Spoiled
    Cut = Cut
    None = None
SPECIFICATION Spec
INVARIANTS
    DiffPatchSound
CHECK_DEADLOCK FALSE
