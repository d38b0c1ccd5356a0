\* Two hosts whose patches of one CSV file overlap, and a table of theirs in PostgreSQL.
CONSTANTS
    Key = {k}
    Value = {v1}
    Null = Null
    Missing = Missing
    Host = {h1, h2}
    Table = {kept, merged}
    MergeTable = {merged}
    CsvTable = {kept}
    Known = {kept, merged}
    MaxVersion = 2
    MaxCommits = 2
    FaultKinds = {"callback", "crash", "short", "corrupt"}
    MaxFaults = 1
    MaxScraps = 1
    Lost = Lost
    Cut = Cut
    None = None
SPECIFICATION FairSpec
INVARIANTS
    TypeOK
    LastKnownIsHeld
PROPERTIES
    ImplementsReplica
    CatchesUp
CHECK_DEADLOCK FALSE
