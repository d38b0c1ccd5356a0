------------------------------ MODULE LeechJson -----------------------------
(***************************************************************************)
(* JSON (lib/json.c) and the files that hold it (lib/buffer.c): a value is *)
(* composed, the text is written to a file, and the file is read back and  *)
(* parsed, as snapshots, blocks and patches are.  Others write files, too: *)
(* leech.json is edited by hand, and a patch may be damaged on its way.    *)
(*                                                                         *)
(* A text is a sequence of symbols.  Literal stands for null, true and     *)
(* false, Zero and One for the digits, and Space for any run of white      *)
(* space.  Signs and exponents of numbers are left out.  The depth of the  *)
(* C stack is the stack of the containers that are still open.             *)
(***************************************************************************)
EXTENDS Naturals, Sequences, FiniteSets, SequencesExt

CONSTANTS
    Quote, Backslash, LBrace, RBrace, LBracket, RBracket, Comma, Colon,
    Space, Literal, Zero, One, Dot,
    StringSymbol,  \* the symbols that strings of leech are made of
    MaxString,     \* bound: length of a string of leech
    MaxItems,      \* bound: number of items of a container of leech
    MaxText,       \* bound: length of a text that somebody else wrote
    MaxShort,      \* bound: number of writes that write too little
    Places,        \* decimal places that a number is printed with
    None           \* no value; the text was not composed

Symbol == {Quote, Backslash, LBrace, RBrace, LBracket, RBracket, Comma, Colon,
           Space, Literal, Zero, One, Dot}

ASSUME JsonAssumption ==
    /\ Cardinality(Symbol) = 13
    /\ None \notin Symbol
    /\ StringSymbol \subseteq Symbol
    /\ {MaxString, MaxItems, MaxText, MaxShort, Places} \subseteq Nat

VARIABLES
    source,    \* the value that is written to the file, or None
    composed,  \* its text
    written,   \* tot_written of LCH_BufferWriteFile
    shorts,    \* number of writes that wrote too little
    text,      \* what the file holds
    pc,        \* where the writer or the parser is
    cursor,    \* position of the next symbol
    stack,     \* the containers that are open, the innermost last
    string,    \* the string that is being parsed
    unquoted,  \* a key was parsed that has no quote in front
    json       \* the value that was parsed, or None

file   == <<source, composed, written, shorts, text>>
parser == <<pc, cursor, stack, string, unquoted, json>>
vars   == <<file, parser>>

-----------------------------------------------------------------------------
(* Values.  An object is a function on its keys. *)

LiteralValue     == [type |-> "literal"]
NumberValue(w, f) == [type |-> "number", whole |-> w, fraction |-> f]
StringValue(s)   == [type |-> "string", string |-> s]
ArrayValue(seq)  == [type |-> "array", items |-> seq]
ObjectValue(map) == [type |-> "object", members |-> map]

\* No zeros in front of the whole part, none at the end of the fraction.
WithoutLeadingZeros(digits) ==
    LET first == SelectInSeq(digits, LAMBDA d : d # Zero)
    IN  IF first = 0 THEN <<Zero>> ELSE SubSeq(digits, first, Len(digits))

WithoutTrailing(symbol, digits) ==
    SubSeq(digits, 1, SelectLastInSeq(digits, LAMBDA d : d # symbol))

-----------------------------------------------------------------------------
(* Composing.  The keys of an object come in the order of its hash table,  *)
(* which may be any: a value has a set of texts.                           *)

\* Fault variant: backslashes are not escaped.
StringComposeStringQuotesOnly(s) ==
    LET control(ch) == IF ch = Quote THEN <<Backslash, ch>> ELSE <<ch>>
    IN  <<Quote>> \o FlattenSeq([i \in DOMAIN s |-> control(s[i])]) \o <<Quote>>

StringComposeString(s) ==
    LET control(ch) == IF ch \in {Quote, Backslash} THEN <<Backslash, ch>> ELSE <<ch>>
    IN  <<Quote>> \o FlattenSeq([i \in DOMAIN s |-> control(s[i])]) \o <<Quote>>

\* Printed with all places; then the zeros at the end go, and then the dot.
ComposeNumber(number) ==
    LET zeros   == [i \in 1..(Places - Len(number.fraction)) |-> Zero]
        printed == number.whole \o <<Dot>> \o number.fraction \o zeros
    IN  WithoutTrailing(Dot, WithoutTrailing(Zero, printed))

\* Pretty, each part is on a line of its own, and so is the closing bracket.
ComposeContainer(open, parts, close, pretty) ==
    LET space   == IF pretty THEN <<Space>> ELSE <<>>
        part(i) == (IF i = 1 THEN <<>> ELSE <<Comma>>) \o space \o parts[i]
    IN  <<open>> \o FlattenSeq([i \in DOMAIN parts |-> part(i)]) \o space \o <<close>>

RECURSIVE Compose(_, _)
Compose(value, pretty) ==
    LET colon == IF pretty THEN <<Colon, Space>> ELSE <<Colon>>
        choices(texts) ==
            {f \in [DOMAIN texts -> UNION {texts[i] : i \in DOMAIN texts}] :
                \A i \in DOMAIN texts : f[i] \in texts[i]}
        members(keys) ==
            [i \in DOMAIN keys |->
                {StringComposeString(keys[i]) \o colon \o t :
                    t \in Compose(value.members[keys[i]], pretty)}]
        items == [i \in DOMAIN value.items |-> Compose(value.items[i], pretty)]
    IN  CASE value.type = "literal" -> {<<Literal>>}
          [] value.type = "number"  -> {ComposeNumber(value)}
          [] value.type = "string"  -> {StringComposeString(value.string)}
          [] value.type = "array"   ->
                {ComposeContainer(LBracket, parts, RBracket, pretty) :
                    parts \in choices(items)}
          [] value.type = "object"  ->
                {ComposeContainer(LBrace, parts, RBrace, pretty) :
                    parts \in UNION {choices(members(keys)) :
                                     keys \in SetToSeqs(DOMAIN value.members)}}

LCH_JsonCompose(value, pretty) ==
    {IF pretty THEN Append(t, Space) ELSE t : t \in Compose(value, pretty)}

-----------------------------------------------------------------------------
(* Values and texts to start from *)

Strings == BoundedSeq(StringSymbol, MaxString)

Scalars ==
    {LiteralValue} \cup {StringValue(s) : s \in Strings}
    \cup {NumberValue(<<One, Zero>>, <<>>), NumberValue(<<Zero>>, <<Zero, One>>)}

Containers(values) ==
    {ArrayValue(seq) : seq \in BoundedSeq(values, MaxItems)}
    \cup UNION {{ObjectValue(map) : map \in [keys -> values]} :
                keys \in {k \in SUBSET Strings : Cardinality(k) <= MaxItems}}

\* Files hold containers: snapshots, blocks and patches are objects.  Deeper
\* ones have a container of simple things inside another.
Simple == Containers({LiteralValue, StringValue(<<>>)})

Documents ==
    Containers(Scalars)
    \cup {ArrayValue(<<v>>) : v \in Simple}
    \cup {ObjectValue([k \in {s} |-> v]) : s \in Strings, v \in Simple}

\* A text of leech in which a symbol was changed or deleted, or any short one.
ForeignTexts ==
    BoundedSeq(Symbol, MaxText) \cup
    UNION {{RemoveAt(t, i) : i \in DOMAIN t}
           \cup {ReplaceAt(t, i, ch) : i \in DOMAIN t, ch \in Symbol} :
           t \in UNION {LCH_JsonCompose(v, FALSE) :
                        v \in Containers({LiteralValue, NumberValue(<<One, Zero>>, <<>>)})
                              \cup {ArrayValue(<<w>>) : w \in Simple}}}

Init ==
    /\ \/ /\ source \in Documents
          /\ \E pretty \in BOOLEAN : composed \in LCH_JsonCompose(source, pretty)
          /\ text = <<>>
          /\ pc = "write"
       \/ /\ source = None
          /\ composed = <<>>
          /\ text \in ForeignTexts
          /\ pc = "value"
    /\ written = 0
    /\ shorts = 0
    /\ cursor = 1
    /\ stack = <<>>
    /\ string = <<>>
    /\ unquoted = FALSE
    /\ json = None

-----------------------------------------------------------------------------
(* The file (LCH_BufferWriteFile).  Every call of write starts from the    *)
(* first byte of the text; the file grows by what the call wrote.          *)

WriteAll ==
    /\ pc = "write"
    /\ written < Len(composed)
    /\ text' = text \o composed
    /\ written' = written + Len(composed)
    /\ UNCHANGED <<source, composed, shorts, parser>>

WriteShort ==
    /\ pc = "write"
    /\ written < Len(composed)
    /\ shorts < MaxShort
    /\ shorts' = shorts + 1
    /\ \E n \in 1..(Len(composed) - 1) :
        /\ text' = text \o SubSeq(composed, 1, n)
        /\ written' = written + n
    /\ UNCHANGED <<source, composed, parser>>

\* The text is written, or a write fails, or the process is killed: a later
\* command reads what there is.
WriteEnd ==
    /\ pc = "write"
    /\ pc' = "value"
    /\ UNCHANGED <<file, cursor, stack, string, unquoted, json>>

-----------------------------------------------------------------------------
(* Parsing *)

\* The symbol at a position; None at the end of the text.
At(i) == IF i <= Len(text) THEN text[i] ELSE None

\* TrimLeadingWhitespace
PastSpace(i) ==
    CHOOSE j \in i..(Len(text) + 1) :
        At(j) # Space /\ \A h \in i..(j - 1) : At(h) = Space

\* The parser has a value and goes on behind it, in the container it is in.
Return(value, rest, i) ==
    IF rest = <<>>
    THEN /\ pc' = "end"
         /\ json' = value
         /\ cursor' = i
         /\ stack' = rest
    ELSE LET top == Last(rest)
         IN  /\ pc' = top.type
             /\ cursor' = PastSpace(i)
             /\ stack' = Append(Front(rest),
                    IF top.type = "array"
                    THEN [top EXCEPT !.items = Append(@, value)]
                    ELSE [type |-> "object", key |-> None,
                          members |-> [k \in DOMAIN top.members \cup {top.key} |->
                                        IF k = top.key THEN value ELSE top.members[k]]])
             /\ UNCHANGED json

Open(frame, i) ==
    /\ stack' = Append(stack, frame)
    /\ pc' = frame.type
    /\ cursor' = PastSpace(i)
    /\ UNCHANGED json

EmptyArray  == [type |-> "array", items |-> <<>>]
EmptyObject == [type |-> "object", members |-> [k \in {} |-> None], key |-> None]

Fail == /\ pc' = "failed"
        /\ UNCHANGED <<cursor, stack, json>>

\* The longest number that starts at i, as sscanf reads it, ends before j.
NumberEnds(i, j) ==
    LET part == SubSeq(text, i, j - 1)
        dots == {h \in DOMAIN part : part[h] = Dot}
    IN  ToSet(part) \subseteq {Zero, One, Dot} /\ Cardinality(dots) <= 1

ParseNumber(i) ==
    LET j     == CHOOSE e \in (i + 1)..(Len(text) + 1) :
                    NumberEnds(i, e) /\ (e = Len(text) + 1 \/ ~NumberEnds(i, e + 1))
        part  == SubSeq(text, i, j - 1)
        dot   == SelectInSeq(part, LAMBDA d : d = Dot)
        whole == IF dot = 0 THEN part ELSE SubSeq(part, 1, dot - 1)
        fraction == IF dot = 0 THEN <<>> ELSE SubSeq(part, dot + 1, Len(part))
    IN  Return(NumberValue(WithoutLeadingZeros(whole), WithoutTrailing(Zero, fraction)),
               stack, j)

Parse ==
    /\ pc = "value"
    /\ LET i == PastSpace(cursor)
       IN  \/ At(i) = Literal /\ Return(LiteralValue, stack, i + 1)
           \/ At(i) \in {Zero, One} /\ ParseNumber(i)
           \/ At(i) = LBracket /\ Open(EmptyArray, i + 1)
           \/ At(i) = LBrace /\ Open(EmptyObject, i + 1)
           \/ At(i) = Quote /\ pc' = "string" /\ cursor' = i + 1 /\ UNCHANGED <<stack, json>>
           \/ At(i) \in {Backslash, RBracket, RBrace, Comma, Colon, Dot, None} /\ Fail
    /\ UNCHANGED <<file, string, unquoted>>

\* Fault variant: the end of the text closes an array.
ParseArrayOpenEnd ==
    /\ pc = "array"
    /\ LET top == Last(stack)
       IN  \/ /\ At(cursor) \in {RBracket, None}
              /\ Return(ArrayValue(top.items), Front(stack),
                        IF At(cursor) = None THEN cursor ELSE cursor + 1)
           \/ /\ At(cursor) \notin {RBracket, None}
              /\ \/ top.items = <<>> /\ cursor' = cursor
                 \/ top.items # <<>> /\ At(cursor) = Comma /\ cursor' = cursor + 1
              /\ pc' = "value"
              /\ UNCHANGED <<stack, json>>
           \/ At(cursor) \notin {RBracket, Comma, None} /\ top.items # <<>> /\ Fail
    /\ UNCHANGED <<file, string, unquoted>>

\* Fault variant: a brace closes an array.
ParseArrayAnyClose ==
    /\ pc = "array"
    /\ LET top == Last(stack)
       IN  \/ /\ At(cursor) \in {RBracket, RBrace}
              /\ Return(ArrayValue(top.items), Front(stack), cursor + 1)
           \/ /\ At(cursor) \notin {RBracket, RBrace, None}
              /\ \/ top.items = <<>> /\ cursor' = cursor
                 \/ top.items # <<>> /\ At(cursor) = Comma /\ cursor' = cursor + 1
              /\ pc' = "value"
              /\ UNCHANGED <<stack, json>>
           \/ At(cursor) \notin {RBracket, RBrace, Comma} /\ top.items # <<>> /\ Fail
           \/ At(cursor) = None /\ top.items = <<>> /\ Fail
    /\ UNCHANGED <<file, string, unquoted>>

\* One turn of the loop: the array ends, or an item follows, after a comma
\* unless it is the first.
ParseArray ==
    /\ pc = "array"
    /\ LET top == Last(stack)
       IN  \/ /\ At(cursor) = RBracket
              /\ Return(ArrayValue(top.items), Front(stack), cursor + 1)
           \/ /\ At(cursor) \notin {RBracket, None}
              /\ \/ top.items = <<>> /\ cursor' = cursor
                 \/ top.items # <<>> /\ At(cursor) = Comma /\ cursor' = cursor + 1
              /\ pc' = "value"
              /\ UNCHANGED <<stack, json>>
           \/ At(cursor) \notin {RBracket, Comma} /\ top.items # <<>> /\ Fail
           \/ At(cursor) = None /\ top.items = <<>> /\ Fail
    /\ UNCHANGED <<file, string, unquoted>>

ParseObject ==
    /\ pc = "object"
    /\ LET top   == Last(stack)
           first == DOMAIN top.members = {}
       IN  \/ /\ At(cursor) = RBrace
              /\ Return(ObjectValue(top.members), Front(stack), cursor + 1)
           \/ /\ At(cursor) \notin {RBrace, None}
              /\ \/ first /\ cursor' = cursor
                 \/ ~first /\ At(cursor) = Comma /\ cursor' = PastSpace(cursor + 1)
              /\ pc' = "key"
              /\ UNCHANGED <<stack, json>>
           \/ At(cursor) \notin {RBrace, Comma} /\ ~first /\ Fail
           \/ At(cursor) = None /\ first /\ Fail
    /\ UNCHANGED <<file, string, unquoted>>

\* A key that does not start with a quote: the assertion that it does stops a
\* debug build; a release build goes on as if the quote had been there.
ParseKey ==
    /\ pc = "key"
    /\ \/ At(cursor) = Quote /\ pc' = "name" /\ cursor' = cursor + 1 /\ UNCHANGED unquoted
       \/ At(cursor) # Quote /\ pc' = "aborted" /\ UNCHANGED <<cursor, unquoted>>
       \/ At(cursor) # Quote /\ pc' = "name" /\ unquoted' = TRUE /\ UNCHANGED cursor
    /\ UNCHANGED <<file, stack, string, json>>

\* Fault variant: a backslash may be the last symbol of the text.
BufferParseStringUnchecked ==
    /\ pc \in {"string", "name"}
    /\ At(cursor) \notin {Quote, None}
    /\ IF At(cursor) = Backslash
       THEN string' = Append(string, At(cursor + 1)) /\ cursor' = cursor + 2
       ELSE string' = Append(string, At(cursor)) /\ cursor' = cursor + 1
    /\ UNCHANGED <<file, pc, stack, unquoted, json>>

\* One turn of the loop of BufferParseString: a backslash makes a symbol of any
\* symbol after it.
BufferParseString ==
    /\ pc \in {"string", "name"}
    /\ \/ /\ At(cursor) = Backslash
          /\ At(cursor + 1) # None
          /\ string' = Append(string, At(cursor + 1))
          /\ cursor' = cursor + 2
          /\ UNCHANGED pc
       \/ /\ At(cursor) = Backslash
          /\ At(cursor + 1) = None
          /\ pc' = "failed"
          /\ UNCHANGED <<string, cursor>>
       \/ /\ At(cursor) \notin {Quote, Backslash, None}
          /\ string' = Append(string, At(cursor))
          /\ cursor' = cursor + 1
          /\ UNCHANGED pc
    /\ UNCHANGED <<file, stack, unquoted, json>>

ParseString ==
    /\ pc = "string"
    /\ \/ At(cursor) = Quote /\ Return(StringValue(string), stack, cursor + 1)
       \/ At(cursor) = None /\ Fail
    /\ string' = <<>>
    /\ UNCHANGED <<file, unquoted>>

\* The key's end, and the colon.
ParseName ==
    /\ pc = "name"
    /\ LET colon == PastSpace(cursor + 1)
       IN  \/ /\ At(cursor) = Quote
              /\ At(colon) = Colon
              /\ stack' = [stack EXCEPT ![Len(stack)].key = string]
              /\ pc' = "value"
              /\ cursor' = colon + 1
              /\ UNCHANGED json
           \/ At(cursor) = Quote /\ At(colon) # Colon /\ Fail
           \/ At(cursor) = None /\ Fail
    /\ string' = <<>>
    /\ UNCHANGED <<file, unquoted>>

\* LCH_JsonParse: nothing may follow the value.
EndOfFile ==
    /\ pc = "end"
    /\ pc' = IF At(PastSpace(cursor)) = None THEN "done" ELSE "failed"
    /\ UNCHANGED <<file, cursor, stack, string, unquoted, json>>

\* What somebody else wrote is composed again and written by leech.
Rewrite ==
    /\ pc = "done"
    /\ source = None
    /\ json.type \in {"array", "object"}
    /\ source' = json
    /\ \E pretty \in BOOLEAN : composed' \in LCH_JsonCompose(json, pretty)
    /\ text' = <<>>
    /\ pc' = "write"
    /\ cursor' = 1
    /\ unquoted' = FALSE
    /\ json' = None
    /\ UNCHANGED <<written, shorts, stack, string>>

Next ==
    \/ WriteAll \/ WriteShort \/ WriteEnd
    \/ Parse \/ ParseArray \/ ParseObject \/ ParseKey
    \/ BufferParseString \/ ParseString \/ ParseName
    \/ EndOfFile \/ Rewrite

Spec == Init /\ [][Next]_vars

-----------------------------------------------------------------------------
(* Properties *)

\* The cursor stays within the text, or just behind it.
TypeOK ==
    /\ {text, composed, string} \subseteq Seq(Symbol)
    /\ written \in Nat
    /\ shorts \in 0..MaxShort
    /\ pc \in {"write", "value", "array", "object", "key", "string", "name",
               "end", "done", "failed", "aborted"}
    /\ cursor \in 1..(Len(text) + 1)
    /\ \A i \in DOMAIN stack : stack[i].type \in {"array", "object"}
    /\ unquoted \in BOOLEAN

\* A value that was written whole comes back as it was, from its plain and its
\* pretty text, in whatever order the keys of its objects are.
RoundTrip ==
    source # None /\ text = composed =>
        /\ pc \notin {"failed", "aborted"}
        /\ pc = "done" => json = source

\* A file that was cut by a kill or a full disk, or that holds the start of its
\* text twice because of a short write, is never taken for another value: it
\* does not parse, unless the value is the one that was to be written.  (A
\* release build may take such a file for another value, in ParseKey.)
FileNeverMisread == source # None /\ pc = "done" /\ ~unquoted => json = source

\* The brackets open at a position outside of strings, by the rules of JSON.
Opened(i) ==
    LET scan(s, ch) ==
            IF s.inside
            THEN [s EXCEPT !.inside = s.escaped \/ ch # Quote,
                           !.escaped = ~s.escaped /\ ch = Backslash]
            ELSE IF ch = Quote THEN [s EXCEPT !.inside = TRUE]
            ELSE IF ch \in {LBrace, LBracket} THEN [s EXCEPT !.open = Append(@, ch)]
            ELSE IF /\ s.open # <<>>
                    /\ <<Last(s.open), ch>> \in {<<LBrace, RBrace>>, <<LBracket, RBracket>>}
            THEN [s EXCEPT !.open = Front(@)]
            ELSE s
    IN  FoldLeft(scan, [open |-> <<>>, inside |-> FALSE, escaped |-> FALSE],
                 SubSeq(text, 1, i)).open

\* The containers the parser is in are those whose brackets are open where it
\* is, whoever wrote the text: none is closed by a bracket inside of a string or
\* by one of the other kind.
ContainersMatchBrackets ==
    pc \notin {"write", "failed", "aborted"} /\ ~unquoted =>
        [i \in DOMAIN stack |-> IF stack[i].type = "array" THEN LBracket ELSE LBrace]
            = Opened(cursor - 1)

=============================================================================
