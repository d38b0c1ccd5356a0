\* Every text of six characters, and every table of two fields of two.
CONSTANTS
    Letter = Letter
    Byte = Byte
    Space = Space
    Quote = Quote
    Comma = Comma
    CR = CR
    LF = LF
    MaxText = 6
    MaxField = 2
    MaxCells = 2
    None = None
SPECIFICATION Spec
INVARIANTS
    TypeOK
    RoundTrip
    RecordsEndAtSeparator
    FieldsMatchSeparators
CHECK_DEADLOCK FALSE
