\* Two processes that commit and purge; they are killed, cannot read their
\* source or find the disk full or a write short.  One diffs and rebases, too.
\* The table comes to leech.json only now.
CONSTANTS
    Key = {k}
    Value = {v1}
    Null = Null
    Missing = Missing
    Table = {kept}
    InitialTables = {}
    Addable = {kept}
    Removable = {}
    MergeTable = {}
    Process = {host, other}
    Committers = {host, other}
    Purgers = {host, other}
    Readers = {other}
    Rebasers = {other}
    Times = {}
    AutoPurge = FALSE
    ChainLength = 1
    MaxBlocks = 2
    FaultKinds = {"config", "load", "full", "short", "interrupt"}
    MaxFaults = 1
    Torn = Torn
    Spoiled = Spoiled
    Cut = Cut
    None = None
SPECIFICATION FairSpec
INVARIANTS
    TypeOK
    HeadBlockWritten
    ChainPointsBack
PROPERTIES
    CommandsEnd
CHECK_DEADLOCK FALSE
