\* Containers of two items with strings of one symbol; pretty and plain; one
\* write that writes too little.
CONSTANTS
    Quote = Quote
    Backslash = Backslash
    LBrace = LBrace
    RBrace = RBrace
    LBracket = LBracket
    RBracket = RBracket
    Comma = Comma
    Colon = Colon
    Space = Space
    Literal = Literal
    Zero = Zero
    One = One
    Dot = Dot
    StringSymbol = {Quote, Backslash, LBrace}
    MaxString = 1
    MaxItems = 2
    MaxText = 3
    MaxShort = 1
    Places = 2
    None = None
SPECIFICATION Spec
INVARIANTS
    TypeOK
    RoundTrip
    FileNeverMisread
    ContainersMatchBrackets
CHECK_DEADLOCK FALSE
