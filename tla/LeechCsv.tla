------------------------------ MODULE LeechCsv ------------------------------
(***************************************************************************)
(* Comma separated values (lib/csv.c): the parser that walks a text with a *)
(* cursor, and the composer.  Keys and subsidiary values of leech are      *)
(* composed records; sources and CSV destinations are files of tables, and *)
(* a destination is parsed, changed and composed again by every patch.     *)
(*                                                                         *)
(* A text is a sequence of characters.  Byte stands for what is neither    *)
(* text data nor a separator, as a byte of a name that is not ASCII.       *)
(***************************************************************************)
EXTENDS Naturals, Sequences, FiniteSets, SequencesExt

CONSTANTS
    Letter, Byte, Space, Quote, Comma, CR, LF,
    MaxText,    \* bound: length of a text that somebody else wrote
    MaxField,   \* bound: length of a field of a table
    MaxCells,   \* bound: number of fields of a table
    None        \* the text was not composed

ASSUME CsvAssumption ==
    /\ Letter \notin {Byte, Space, Quote, Comma, CR, LF, None}
    /\ Byte \notin {Space, Quote, Comma, CR, LF, None}
    /\ Space \notin {Quote, Comma, CR, LF, None}
    /\ Quote \notin {Comma, CR, LF, None}
    /\ Comma \notin {CR, LF, None}
    /\ CR \notin {LF, None}
    /\ LF # None
    /\ MaxText \in Nat
    /\ MaxField \in Nat
    /\ MaxCells \in Nat

VARIABLES
    text,     \* what is parsed
    source,   \* the table that text was composed from, or None
    pc,       \* where the parser is
    cursor,   \* position of the next character
    field,    \* the field that is being parsed
    record,   \* the fields of the record before it
    table     \* the records before that

vars == <<text, source, pc, cursor, field, record, table>>

Char == {Letter, Byte, Space, Quote, Comma, CR, LF}

TEXTDATA == {Letter, Space}

-----------------------------------------------------------------------------
(* Composing *)

\* Fault variant: a space at an end of the field is left as it is.
EscapedForText(raw) == \E i \in DOMAIN raw : raw[i] \notin TEXTDATA

Escaped(raw) ==
    \/ EscapedForText(raw)
    \/ raw # <<>> /\ Space \in {Head(raw), Last(raw)}

ComposeField(raw) ==
    LET double(ch) == IF ch = Quote THEN <<Quote, Quote>> ELSE <<ch>>
        doubled    == FlattenSeq([i \in DOMAIN raw |-> double(raw[i])])
    IN  IF Escaped(raw) THEN <<Quote>> \o doubled \o <<Quote>> ELSE raw

\* The parts, with a separator between each two.
Joined(parts, separator) ==
    FlattenSeq([i \in DOMAIN parts |-> IF i = 1 THEN parts[i] ELSE separator \o parts[i]])

ComposeRecord(fields) ==
    Joined([i \in DOMAIN fields |-> ComposeField(fields[i])], <<Comma>>)

ComposeTable(records) ==
    Joined([i \in DOMAIN records |-> ComposeRecord(records[i])], <<CR, LF>>)

-----------------------------------------------------------------------------
(* Parsing *)

\* The character at a position; None at the end of the text.
At(i) == IF i <= Len(text) THEN text[i] ELSE None

AtCrLf(i) == At(i) = CR /\ At(i + 1) = LF

\* The first position from i on that does not hold a space.
PastSpaces(i) ==
    CHOOSE j \in i..(Len(text) + 1) :
        At(j) # Space /\ \A h \in i..(j - 1) : At(h) = Space

\* Without the spaces at its ends.
Trim(raw) ==
    LET kept == {i \in DOMAIN raw : raw[i] # Space}
        ends(i, j) == \A h \in kept : i <= h /\ h <= j
    IN  IF kept = {} THEN <<>>
        ELSE SubSeq(raw, CHOOSE i \in kept : ends(i, Len(raw)),
                         CHOOSE j \in kept : ends(1, j))

Tables ==
    LET Fields == BoundedSeq(Char, MaxField)
        Shapes == {s \in (1..MaxCells) \X (1..MaxCells) : s[1] * s[2] <= MaxCells}
    IN  UNION {[1..s[1] -> [1..s[2] -> Fields]] : s \in Shapes}

Init ==
    /\ \/ source \in Tables /\ text = ComposeTable(source)
       \/ source = None /\ text \in BoundedSeq(Char, MaxText)
    /\ pc = "field"
    /\ cursor = 1
    /\ field = <<>>
    /\ record = <<>>
    /\ table = <<>>

\* Leading spaces are skipped; at the end of the text the field is empty.
ParseField ==
    /\ pc = "field"
    /\ LET i == PastSpaces(cursor)
       IN  IF At(i) = Quote
           THEN pc' = "escaped" /\ cursor' = i + 1
           ELSE pc' = "non-escaped" /\ cursor' = i
    /\ UNCHANGED <<text, source, field, record, table>>

\* Fault variant: two quotes are a quote, but the cursor moves past one.
ParseEscapedOnce ==
    /\ pc = "escaped"
    /\ cursor <= Len(text)
    /\ field' = Append(field, At(cursor))
    /\ At(cursor) # Quote \/ At(cursor + 1) = Quote
    /\ cursor' = cursor + 1
    /\ UNCHANGED <<text, source, pc, record, table>>

ParseEscaped ==
    /\ pc = "escaped"
    /\ cursor <= Len(text)
    /\ \/ /\ At(cursor) = Quote
          /\ At(cursor + 1) = Quote
          /\ cursor' = cursor + 2
       \/ /\ At(cursor) # Quote
          /\ cursor' = cursor + 1
    /\ field' = Append(field, At(cursor))
    /\ UNCHANGED <<text, source, pc, record, table>>

\* Fault variant: anything may follow the closing quote.
ParseEscapedEndAnywhere ==
    /\ pc = "escaped"
    /\ At(cursor) = Quote
    /\ At(cursor + 1) # Quote
    /\ cursor' = PastSpaces(cursor + 1)
    /\ pc' = "end of field"
    /\ UNCHANGED <<text, source, field, record, table>>

ParseEscapedEnd ==
    /\ pc = "escaped"
    /\ \/ /\ At(cursor) = Quote
          /\ At(cursor + 1) # Quote
          /\ LET i == PastSpaces(cursor + 1)
             IN  /\ cursor' = i
                 /\ pc' = IF At(i) \in {None, Comma} \/ AtCrLf(i)
                          THEN "end of field" ELSE "failed"
       \/ /\ cursor > Len(text)
          /\ pc' = "failed"
          /\ UNCHANGED cursor
    /\ UNCHANGED <<text, source, field, record, table>>

ParseNonEscaped ==
    /\ pc = "non-escaped"
    /\ At(cursor) \in TEXTDATA
    /\ field' = Append(field, At(cursor))
    /\ cursor' = cursor + 1
    /\ UNCHANGED <<text, source, pc, record, table>>

\* Fault variant: a carriage return of its own ends the record.
ParseNonEscapedEndAtCr ==
    /\ pc = "non-escaped"
    /\ At(cursor) \notin TEXTDATA
    /\ pc' = IF At(cursor) \in {None, Comma, CR} THEN "end of field" ELSE "failed"
    /\ field' = Trim(field)
    /\ UNCHANGED <<text, source, cursor, record, table>>

ParseNonEscapedEnd ==
    /\ pc = "non-escaped"
    /\ At(cursor) \notin TEXTDATA
    /\ pc' = IF At(cursor) \in {None, Comma} \/ AtCrLf(cursor)
             THEN "end of field" ELSE "failed"
    /\ field' = Trim(field)
    /\ UNCHANGED <<text, source, cursor, record, table>>

ParseRecord ==
    /\ pc = "end of field"
    /\ record' = Append(record, field)
    /\ field' = <<>>
    /\ IF At(cursor) = Comma
       THEN pc' = "field" /\ cursor' = cursor + 1
       ELSE pc' = "end of record" /\ UNCHANGED cursor
    /\ UNCHANGED <<text, source, table>>

\* Two characters are skipped, whatever they are; the text may end with them.
ParseTable ==
    /\ pc = "end of record"
    /\ table' = Append(table, record)
    /\ record' = <<>>
    /\ IF cursor > Len(text)
       THEN pc' = "done" /\ UNCHANGED cursor
       ELSE /\ cursor' = cursor + 2
            /\ pc' = IF cursor + 2 > Len(text) THEN "done" ELSE "field"
    /\ UNCHANGED <<text, source, field>>

\* The table that somebody wrote is composed, and parsed by the next patch.
ComposeFile ==
    /\ pc = "done"
    /\ source = None
    /\ source' = table
    /\ text' = ComposeTable(table)
    /\ pc' = "field"
    /\ cursor' = 1
    /\ table' = <<>>
    /\ UNCHANGED <<field, record>>

Next ==
    \/ ParseField \/ ParseEscaped \/ ParseEscapedEnd
    \/ ParseNonEscaped \/ ParseNonEscapedEnd
    \/ ParseRecord \/ ParseTable \/ ComposeFile

Spec == Init /\ [][Next]_vars

-----------------------------------------------------------------------------
(* Properties *)

\* The cursor stays within the text, or just behind it.
TypeOK ==
    /\ text \in Seq(Char)
    /\ pc \in {"field", "escaped", "non-escaped", "end of field",
               "end of record", "done", "failed"}
    /\ cursor \in 1..(Len(text) + 1)
    /\ field \in Seq(Char)
    /\ record \in Seq(Seq(Char))
    /\ table \in Seq(Seq(Seq(Char)))

\* The text of a table parses to that table, except that a last record of one
\* empty field, which leaves nothing behind the last separator, is lost.
RoundTrip ==
    source # None =>
        /\ pc # "failed"
        /\ pc = "done" =>
              table = IF Len(source) > 1 /\ Last(source) = << <<>> >>
                      THEN Front(source) ELSE source

\* Where a record ends there is a separator or nothing, as ParseTable asserts
\* before it skips two characters.
RecordsEndAtSeparator ==
    pc = "end of record" => cursor > Len(text) \/ AtCrLf(cursor)

\* The fields of an accepted text are those that its separators outside of
\* quotes make, whoever wrote it.
FieldsMatchSeparators ==
    pc = "done" =>
        LET plain(i)  == Cardinality({h \in 1..i : text[h] = Quote}) % 2 = 0
            commas    == {i \in DOMAIN text : plain(i) /\ At(i) = Comma}
            breaks    == {i \in DOMAIN text : plain(i) /\ AtCrLf(i)} \ {Len(text) - 1}
        IN  /\ Len(table) = 1 + Cardinality(breaks)
            /\ Len(FlattenSeq(table)) = 1 + Cardinality(commas \cup breaks)

=============================================================================
