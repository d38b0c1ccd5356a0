---------------------------- MODULE LeechRows -------------------------------
(***************************************************************************)
(* The rows one host has in a destination table, and what a delta makes of *)
(* them through the callbacks of a CSV file (lib/leech_csv.c) or of a      *)
(* PostgreSQL table (lib/leech_psql.c), driven by LCH_TablePatch           *)
(* (lib/table.c).  LeechDelta says what should become of a state.          *)
(***************************************************************************)
EXTENDS LeechDelta, Naturals, Sequences

\* A CSV file may have any number of rows with the same key, and callbacks take
\* the first; a PostgreSQL table has a primary key.
HostRows == [Key -> Seq(Value)]

RowsOf(state) ==
    [k \in Key |-> IF HasKey(state, k) THEN <<state[k]>> ELSE <<>>]

\* Fault variant: a rebase starts from the rows there are.
Untruncated(d, base) == base

Truncated(d, base) == IF d.type = "rebase" THEN RowsOf(EmptyObject) ELSE base

Insert(base, inserts) ==
    [k \in Key |-> IF HasKey(inserts, k) THEN Append(base[k], inserts[k]) ELSE base[k]]

-----------------------------------------------------------------------------
(* A CSV file *)

\* The first record of a key in the file.
CsvDelete(base, deletes) ==
    [k \in Key |-> IF HasKey(deletes, k) /\ base[k] # <<>>
                   THEN Tail(base[k]) ELSE base[k]]

CsvUpdate(base, updates) ==
    [k \in Key |-> IF HasKey(updates, k) /\ base[k] # <<>>
                   THEN <<updates[k]>> \o Tail(base[k]) ELSE base[k]]

CsvApplied(d, base) ==
    Insert(CsvUpdate(CsvDelete(Truncated(d, base), d.deletes), d.updates), d.inserts)

\* There is no row to delete or to update: the callback returns false.
Misses(d, base) ==
    LET kept == CsvDelete(Truncated(d, base), d.deletes)
    IN  \E k \in Key : \/ HasKey(d.deletes, k) /\ Truncated(d, base)[k] = <<>>
                       \/ HasKey(d.updates, k) /\ kept[k] = <<>>

-----------------------------------------------------------------------------
(* A PostgreSQL table *)

\* Every row that has the key, if any: a command that affects none succeeds.
SqlDelete(base, deletes) ==
    [k \in Key |-> IF HasKey(deletes, k) THEN <<>> ELSE base[k]]

SqlUpdate(base, updates) ==
    [k \in Key |-> IF HasKey(updates, k)
                   THEN [i \in DOMAIN base[k] |-> updates[k]] ELSE base[k]]

SqlApplied(d, base) ==
    Insert(SqlUpdate(SqlDelete(Truncated(d, base), d.deletes), d.updates), d.inserts)

\* The table was created with a primary key.
PrimaryKeyViolated(content) == \E k \in Key : Len(content[k]) > 1

=============================================================================
