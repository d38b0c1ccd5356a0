\* A host that commits and purges as it commits; a diff may run meanwhile.  The
\* server has a CSV file and a PostgreSQL table.
CONSTANTS
    Key = {k}
    Value = {v1}
    Null = Null
    Missing = Missing
    Table = {merged, kept}
    InitialTables = {merged, kept}
    Addable = {}
    Removable = {}
    MergeTable = {merged}
    Process = {host, reader}
    Committers = {host}
    Purgers = {}
    Readers = {reader}
    Rebasers = {host}
    Times = {}
    AutoPurge = TRUE
    ChainLength = 1
    MaxBlocks = 2
    FaultKinds = {}
    MaxFaults = 0
    Torn = Torn
    Spoiled = Spoiled
    Cut = Cut
    None = None
    Host = h
    CsvTable = {merged}
    ServerFaults = {"crash", "insert", "short", "stale"}
    MaxServerFaults = 1
    MaxScraps = 2
    Lost = Lost
SPECIFICATION SystemSpec
INVARIANTS
    SystemTypeOK
    LastKnownHeld
PROPERTIES
    RebaseRestores
    CatchesUp
CHECK_DEADLOCK FALSE
