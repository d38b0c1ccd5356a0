\* Tables of up to two columns and two records, committed twice, in a file with up
\* to two records of another host.
CONSTANTS
    Field = {Empty, A}
    Empty = Empty
    MaxColumns = 2
    MaxRecords = 2
    MaxCommits = 2
    Host = Host
    Other = Other
    Null = Null
    Missing = Missing
SPECIFICATION Spec
INVARIANTS
    TypeOK
    MirrorsSource
PROPERTIES
    PatchesFindTheirRecords
    OthersUntouched
CHECK_DEADLOCK FALSE
