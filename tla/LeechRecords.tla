---------------------------- MODULE LeechRecords ----------------------------
(***************************************************************************)
(* From the records of a source to the records of a destination: a commit  *)
(* makes an object of the source's table, whose keys and values are        *)
(* composed records (lib/utils.c), and a patch takes them apart again for  *)
(* the callbacks of a CSV file (lib/table.c, lib/leech_csv.c).             *)
(*                                                                         *)
(* LeechCsv shows that a composed record parses to its fields.  One thing  *)
(* is lost: a record without fields and a record of one empty field have   *)
(* the same text.  A text is therefore the sequence of its fields, and     *)
(* that of one empty field is <<>>.  The walk of a commit or a patch from  *)
(* file to file is in LeechChain and LeechServer; here they are one step.  *)
(* So is the writing of the destination file, but it may write less, or    *)
(* more, than it should; patches of several hosts that overlap are in      *)
(* LeechServer.                                                            *)
(***************************************************************************)
EXTENDS Naturals, Sequences, FiniteSets, SequencesExt

CONSTANTS
    Field,        \* values of fields
    Empty,        \* the empty one of them
    MaxColumns,   \* bound: number of columns of the table
    MaxRecords,   \* bound: number of records of the source, and of another host
    MaxCommits,   \* bound: number of commits
    Host, Other,  \* values of the host identifier field
    Null, Missing \* as in LeechDelta

\* What a record with up to so many fields may be composed to.
Text == BoundedSeq(Field, MaxColumns) \ {<<Empty>>}

ASSUME RecordsAssumption ==
    /\ Empty \in Field
    /\ {MaxColumns, MaxRecords, MaxCommits} \subseteq Nat
    /\ Host # Other
    /\ Text \cap {Null, Missing} = {}
    /\ Null # Missing

VARIABLES
    shape,     \* number of primary and of subsidiary fields in leech.json
    source,    \* the table of the last commit: its header and its records
    snapshot,  \* the object made of it
    rows,      \* the records of the destination file, behind its header; one that
               \* is cut in two is no host's and is left out
    headed,    \* the destination file can be read and has a header
    command,   \* the patch command
    trusted,   \* the last patch command reported success
    commits,   \* number of commits so far
    misled     \* history: an insert may have left a record without its key, or a
               \* short write records twice, and no rebase has come since

vars == <<shape, source, snapshot, rows, headed, command, trusted, commits, misled>>

-----------------------------------------------------------------------------

\* Columns are numbered as leech.json lists them, primary fields first.
Shapes == {s \in [primary: 1..MaxColumns, subsidiary: 0..MaxColumns] :
              s.primary + s.subsidiary <= MaxColumns}

Columns == 1..(shape.primary + shape.subsidiary)

\* LCH_CSVComposeRecord and LCH_CSVParseRecord
Composed(fields) == IF fields = <<Empty>> THEN <<>> ELSE fields

Parsed(txt) == IF txt = <<>> THEN <<Empty>> ELSE txt

Objects == INSTANCE LeechDelta WITH Key <- Text, Value <- Text

HasKey(obj, k) == obj[k] # Missing

\* A source has the columns of leech.json in an order of its own.  A file that
\* ends with a record of one empty field is read without it.
Header == {h \in [Columns -> Columns] : \A c \in Columns : \E i \in Columns : h[i] = c}

Sources ==
    [header: Header,
     records: {r \in BoundedSeq([Columns -> Field], MaxRecords) :
                  r = <<>> \/ Last(r) # <<Empty>>}]

\* Fault variant: the columns are taken to be in the order of leech.json.
FieldAsListed(table, record, column) == record[column]

\* IndicesOfFieldsInHeader, FieldsInRecordAtIndices
FieldOf(table, record, column) ==
    record[CHOOSE i \in Columns : table.header[i] = column]

\* Of records with the same key the last one counts.
TableToJsonObject(table) ==
    LET key(r)   == Composed([c \in 1..shape.primary |-> FieldOf(table, r, c)])
        value(r) == Composed([c \in 1..shape.subsidiary |->
                                  FieldOf(table, r, shape.primary + c)])
        object[n \in 0..Len(table.records)] ==
            IF n = 0 THEN Objects!EmptyObject
            ELSE [object[n - 1] EXCEPT ![key(table.records[n])] = value(table.records[n])]
    IN  object[Len(table.records)]

Idle == [pc |-> "idle"]

PatchWith(delta, content) == command' = [pc |-> "patch", delta |-> delta, content |-> content]

\* There is a record to insert whose key will be lost.
Hollow(obj) ==
    shape.primary = 1 /\ shape.subsidiary > 0 /\ HasKey(obj, Composed(<<Empty>>))

Init ==
    /\ shape \in Shapes
    /\ source = [header |-> [c \in Columns |-> c], records |-> <<>>]
    /\ snapshot = Objects!EmptyObject
    /\ \E fields \in BoundedSeq(Field, MaxRecords) :
        rows = [i \in DOMAIN fields |-> <<Other>> \o [c \in Columns |-> fields[i]]]
    /\ headed = TRUE
    /\ command = Idle
    /\ trusted = TRUE
    /\ commits = 0
    /\ misled = FALSE

\* The source has become anything.  Unless a patch has failed, the server asks
\* for the difference.
Commit ==
    /\ command = Idle
    /\ commits < MaxCommits
    /\ commits' = commits + 1
    /\ \E new \in Sources :
        LET obj == TableToJsonObject(new)
        IN  /\ source' = new
            /\ snapshot' = obj
            /\ misled' = (misled \/ Hollow(obj))
            /\ IF trusted
               THEN PatchWith(Objects!DeltaCreate("delta", obj, snapshot), rows)
               ELSE UNCHANGED command
    /\ UNCHANGED <<shape, rows, headed, trusted>>

\* Fault variant: the rows of every host go.
TruncatedForAll(content) == <<>>

\* The records whose host identifier is one of these, in order.
OfHosts(content, hosts) ==
    FlattenSeq([i \in DOMAIN content |->
                    IF content[i][1] \in hosts THEN <<content[i]>> ELSE <<>>])

\* LCH_CallbackTruncateTable: every record goes but those of another host.
Truncated(content) == OfHosts(content, {Other})

\* It fails, and the patch with it, where there is no header to tell by.
Rebase ==
    /\ command = Idle
    /\ ~trusted
    /\ headed
    /\ PatchWith(Objects!DeltaCreate("rebase", snapshot, Objects!EmptyObject),
                 Truncated(rows))
    /\ UNCHANGED <<shape, source, snapshot, rows, headed, trusted, commits, misled>>

-----------------------------------------------------------------------------
(* LCH_TablePatch: deletes, then updates, then inserts, each in the order  *)
(* of a hash table, on the table that was read when the transaction began. *)

\* The first record that starts with the fields; 0 if there is none.
FirstMatch(content, fields) ==
    SelectInSeq(content, LAMBDA r : SubSeq(r, 1, Len(fields)) = fields)

KeyFields(k) == <<Host>> \o Parsed(k)

Keys(obj) == {k \in Text : HasKey(obj, k)}

\* The transaction goes on with another table, and one operation less.
Done(operation, k, content) ==
    command' = [command EXCEPT !.delta[operation][k] = Missing, !.content = content]

\* The transaction is rolled back, and the patch fails.
Fail ==
    /\ command' = Idle
    /\ trusted' = FALSE
    /\ UNCHANGED <<shape, source, snapshot, rows, headed, commits, misled>>

Patching == command.pc = "patch"

TablePatchDeletes ==
    /\ Patching
    /\ \E k \in Keys(command.delta.deletes) :
        LET i == FirstMatch(command.content, KeyFields(k))
        IN  \/ i = 0 /\ Fail
            \/ /\ i # 0
               /\ Done("deletes", k, RemoveAt(command.content, i))
               /\ UNCHANGED <<shape, source, snapshot, rows, headed, trusted, commits, misled>>

\* LCH_CallbackUpdateRecord sets the fields behind the primary ones.
Updated(row, first, values) ==
    [j \in DOMAIN row |-> IF j - first + 1 \in DOMAIN values
                          THEN values[j - first + 1] ELSE row[j]]

\* A record that lost its key is too short: the assertion of LCH_ListSet, or the
\* write past the end of the list, ends the process.
TablePatchUpdates ==
    /\ Patching
    /\ Keys(command.delta.deletes) = {}
    /\ \E k \in Keys(command.delta.updates) :
        LET i      == FirstMatch(command.content, KeyFields(k))
            values == Parsed(command.delta.updates[k])
            first  == Len(KeyFields(k)) + 1
            short  == i # 0 /\ Len(command.content[i]) < first + Len(values) - 1
        IN  \/ (i = 0 \/ short) /\ Fail
            \/ /\ i # 0 /\ ~short
               /\ Done("updates", k, [command.content EXCEPT ![i] = Updated(@, first, values)])
               /\ UNCHANGED <<shape, source, snapshot, rows, headed, trusted, commits, misled>>

\* Fault variant: the value is parsed though the table has no subsidiary fields.
InsertedAlways(k, value) == (IF k = <<>> THEN <<>> ELSE Parsed(k)) \o Parsed(value)

\* Fault variant: the subsidiary fields come first.
InsertedValueFirst(k, value) == Parsed(value) \o (IF k = <<>> THEN <<>> ELSE Parsed(k))

\* ParseConcatenateFields takes the empty key for a key without fields.
Inserted(k, value) ==
    IF shape.subsidiary = 0 THEN Parsed(k)
    ELSE (IF k = <<>> THEN <<>> ELSE Parsed(k)) \o Parsed(value)

TablePatchInserts ==
    /\ Patching
    /\ Keys(command.delta.deletes) \cup Keys(command.delta.updates) = {}
    /\ \E k \in Keys(command.delta.inserts) :
        Done("inserts", k, Append(command.content,
                                  <<Host>> \o Inserted(k, command.delta.inserts[k])))
    /\ UNCHANGED <<shape, source, snapshot, rows, headed, trusted, commits, misled>>

Committing ==
    /\ Patching
    /\ \A operation \in {"deletes", "updates", "inserts"} :
        Keys(command.delta[operation]) = {}

CommitTransaction ==
    /\ Committing
    /\ rows' = command.content
    /\ command' = Idle
    /\ trusted' = TRUE
    /\ misled' = IF command.delta.type = "rebase" THEN Hollow(snapshot) ELSE misled
    /\ UNCHANGED <<shape, source, snapshot, headed, commits>>

\* The command is killed, or gets an error, after the file was opened, which
\* empties it: nothing, or only the start, is written.
CommitTorn ==
    /\ Committing
    /\ rows' \in Prefixes(command.content)
    /\ headed' \in {headed, FALSE}
    /\ command' = Idle
    /\ trusted' = FALSE
    /\ UNCHANGED <<shape, source, snapshot, commits, misled>>

\* Only the start is written, and then everything: the header or the record in
\* which the two meet is damaged, and the patch succeeds.
ShortWrite ==
    /\ Committing
    /\ \E start \in Prefixes(command.content) : rows' = start \o command.content
    /\ headed' \in {headed, FALSE}
    /\ command' = Idle
    /\ trusted' = TRUE
    /\ misled' = TRUE
    /\ UNCHANGED <<shape, source, snapshot, commits>>

\* A callback fails, or the command is killed, before the file is opened.
PatchFails == Patching /\ Fail

Next ==
    \/ Commit \/ Rebase
    \/ TablePatchDeletes \/ TablePatchUpdates \/ TablePatchInserts
    \/ CommitTransaction \/ CommitTorn \/ ShortWrite \/ PatchFails

Spec == Init /\ [][Next]_vars

-----------------------------------------------------------------------------
(* Properties *)

\* Every record of the destination has the columns of its header, except one
\* that lost its key.
TypeOK ==
    /\ shape \in Shapes
    /\ source \in Sources
    /\ snapshot \in [Text -> Text \cup {Missing}]
    /\ \A i \in DOMAIN rows :
        /\ rows[i][1] \in {Host, Other}
        /\ ~misled => Len(rows[i]) = 1 + Cardinality(Columns)
    /\ headed \in BOOLEAN
    /\ command.pc \in {"idle", "patch"}
    /\ trusted \in BOOLEAN
    /\ commits \in 0..MaxCommits
    /\ misled \in BOOLEAN

\* After a patch that succeeded, the destination's records of the host are the
\* records of the source, field by field in the order of leech.json, in whatever
\* order the source has its columns; of records with the same key, the last.
MirrorsSource ==
    command = Idle /\ trusted /\ ~misled =>
        LET mine      == OfHosts(rows, {Host})
            value(i, c) == source.records[i][CHOOSE j \in Columns : source.header[j] = c]
            effective == {i \in DOMAIN source.records :
                            \A j \in DOMAIN source.records : j > i =>
                                \E c \in 1..shape.primary : value(i, c) # value(j, c)}
        IN  /\ Len(mine) = Cardinality(effective)
            /\ ToSet(mine) = {<<Host>> \o [c \in Columns |-> value(i, c)] : i \in effective}

\* A record that one patch inserted or updated is found again by the patch that
\* updates or deletes it: no patch fails for want of a record.
PatchesFindTheirRecords ==
    [][command # Idle /\ ~misled /\ command' = Idle /\ ~trusted' =>
         \A operation \in {"deletes", "updates"} :
            \A k \in Keys(command.delta[operation]) :
                FirstMatch(command.content, KeyFields(k)) # 0]_vars

\* Whatever is done to the rows of one host, those of another stay, in order,
\* also where a record lost its key or has the same fields; but a patch that fails
\* while it writes may leave only the first of them, and a short write some of the
\* first twice.  None is changed, made up or put elsewhere.
OthersUntouched ==
    [][LET old == OfHosts(rows, {Other})
           new == OfHosts(rows', {Other})
       IN  \/ new = old
           \/ ~trusted' /\ new \in Prefixes(old)
           \/ misled' /\ \E start \in Prefixes(old) : new = start \o old]_rows

=============================================================================
