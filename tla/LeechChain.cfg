\* A host that commits, purges as it commits, and rebases, and a reader that
\* diffs and tells histories at the same time.  A table may be removed.
CONSTANTS
    Key = {k}
    Value = {v1, v2}
    Null = Null
    Missing = Missing
    Table = {merged, kept}
    InitialTables = {merged, kept}
    Addable = {}
    Removable = {kept}
    MergeTable = {merged}
    Process = {host, reader}
    Committers = {host}
    Purgers = {}
    Readers = {reader}
    Rebasers = {host}
    Times = {0, 2, 3}
    AutoPurge = TRUE
    ChainLength = 2
    MaxBlocks = 3
    FaultKinds = {}
    MaxFaults = 0
    Torn = Torn
    Spoiled = Spoiled
    Cut = Cut
    None = None
SPECIFICATION Spec
SYMMETRY Symmetry
INVARIANTS
    HeadOnDisk
    DiffPatchSound
    HistoryTold
    RebasePatchSound
    DiffNeverCrashes
PROPERTIES
    PurgeKeepsNewest
    RetainedBlocksServed
CHECK_DEADLOCK FALSE
