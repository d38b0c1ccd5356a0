---------------------------- MODULE LeechServer -----------------------------
(***************************************************************************)
(* The server: LCH_Patch (lib/leech.c) brings the copies of a host's       *)
(* tables from the version it last knew to the version of the patch, one   *)
(* transaction per delta (lib/table.c), through the callbacks of a CSV     *)
(* file (lib/leech_csv.c) or a PostgreSQL table (lib/leech_psql.c).        *)
(*                                                                         *)
(* The hosts are seen from outside: each has committed versions, and makes *)
(* the patches that LeechChain shows a diff and a rebase to make.  In      *)
(* LeechSystem the patches are those that LeechChain makes.                *)
(***************************************************************************)
EXTENDS LeechRows, FiniteSets

CONSTANTS
    Host,         \* values of the host identifier field
    Table,        \* table identifiers
    MergeTable,   \* tables with merge_blocks enabled
    CsvTable,     \* tables whose destination is a CSV file
    Known,        \* tables in the server's leech.json
    MaxVersion,   \* bound: number of versions a host commits
    MaxCommits,   \* bound: number of versions all hosts commit
    FaultKinds,   \* kinds of faults: "callback", "insert", "crash", "short", "corrupt"
    MaxFaults,    \* bound: number of faults
    MaxScraps,    \* bound: records of a key in what is left of a torn file
    Lost,         \* rows that nothing is said of
    Cut,          \* a last known file that was emptied and not filled
    None          \* no delta for that table

ASSUME ServerAssumption ==
    /\ MergeTable \subseteq Table
    /\ CsvTable \subseteq Table
    /\ Known \subseteq Table
    /\ {MaxVersion, MaxCommits} \subseteq Nat
    /\ FaultKinds \subseteq {"callback", "insert", "crash", "short", "corrupt"}
    /\ MaxFaults \in Nat
    /\ MaxScraps \in Nat
    /\ Lost \notin State
    /\ Cut \notin Nat
    /\ None \notin [delta: Delta, to: Nat]

VARIABLES
    versions,    \* the tables' states at each commit of a host
    lastknown,   \* the server's file named after the host
    rows,        \* the destination tables: the values a key of a host has
    file,        \* CSV files: "whole", "headless", "broken", or "empty", that is
                 \* truncated by a commit and not written since
    command,     \* the patch command that runs for a host
    trusted,     \* the last patch command for the host reported success
    faults,      \* number of faults so far
    reached,     \* history: the version the rows were last brought to
    lost         \* history: the hosts whose rows a commit of the table's file may
                 \* have lost, and no rebase has brought back since

tables == <<rows, file, reached, lost>>

vars == <<versions, lastknown, command, trusted, faults, tables>>

-----------------------------------------------------------------------------
(* Rows *)

\* LCH_TablePatch, between the start of the transaction and its commit.
Applied(t, d, base) ==
    IF t \in CsvTable THEN CsvApplied(d, base) ELSE SqlApplied(d, base)

\* There is a row with the key to insert: the command fails, but the callback
\* returns true, and so does the commit of the aborted transaction.
Clashes(t, d, base) == PrimaryKeyViolated(Applied(t, d, base))

-----------------------------------------------------------------------------
(* Patches, as a host makes them: a sequence of blocks, each with a delta  *)
(* for some of the tables and the version that the delta leads to.         *)

Version(h, n) == IF n = 0 THEN [t \in Table |-> EmptyObject] ELSE versions[h][n]

Step(type, h, t, from, to) ==
    [delta |-> DeltaCreate(type, Version(h, to)[t], Version(h, from)[t]), to |-> to]

\* Fault variant: the blocks are in the order of the walk, newest first.
DiffBlocksNewestFirst(h, from, to) ==
    [i \in 1..(to - from) |->
        [t \in Table |-> IF t \notin MergeTable THEN Step("delta", h, t, to - i, to - i + 1)
                         ELSE IF i = 1 THEN Step("delta", h, t, from, to) ELSE None]]

\* A merged table has one delta, in the first block; others have one per block.
DiffBlocks(h, from, to) ==
    [i \in 1..(to - from) |->
        [t \in Table |-> IF t \notin MergeTable THEN Step("delta", h, t, from + i - 1, from + i)
                         ELSE IF i = 1 THEN Step("delta", h, t, from, to) ELSE None]]

RebaseBlock(h, to) == [t \in Table |-> Step("rebase", h, t, 0, to)]

Tables(block) == {t \in Known : block[t] # None}

Idle == [pc |-> "idle"]

Become(h, me) == command' = [command EXCEPT ![h] = me]

NoRows == [h \in Host |-> RowsOf(EmptyObject)]

\* The commands that have truncated the file and will write it.
Writers(t) == {h \in Host : command[h].pc = "write" /\ command[h].table = t}

Init ==
    /\ versions = [h \in Host |-> <<>>]
    /\ lastknown = [h \in Host |-> 0]
    /\ rows = [t \in Table |-> NoRows]
    /\ file = [t \in Table |-> "whole"]
    /\ command = [h \in Host |-> Idle]
    /\ trusted = [h \in Host |-> TRUE]
    /\ faults = 0
    /\ reached = [t \in Table |-> [h \in Host |-> 0]]
    /\ lost = [t \in Table |-> {}]

-----------------------------------------------------------------------------

HostCommits(h) ==
    /\ Len(versions[h]) < MaxVersion
    /\ Cardinality({c \in Host \X (1..MaxVersion) : c[2] <= Len(versions[c[1]])}) < MaxCommits
    /\ \E new \in [Table -> State] : versions' = [versions EXCEPT ![h] = Append(@, new)]
    /\ UNCHANGED <<lastknown, command, trusted, faults, tables>>

\* LCH_Patch is called with a patch that says it leads to tip.  Nothing keeps
\* the patches of several hosts from being applied at the same time.
Begin(h, tip, blocks) ==
    /\ command[h] = Idle
    /\ Become(h, [pc |-> "start", tip |-> tip, blocks |-> blocks])
    /\ UNCHANGED <<versions, lastknown, trusted, tables>>

\* The caller gets a diff from what the server last knew, or a rebase after a
\* patch that failed, and runs LCH_Patch with it; the host may commit meanwhile.
PatchStart(h) ==
    /\ LET tip == Len(versions[h])
       IN  Begin(h, tip, IF trusted[h] THEN DiffBlocks(h, lastknown[h], tip)
                         ELSE <<RebaseBlock(h, tip)>>)
    /\ UNCHANGED faults

\* Fault variant: one version too far.
UpdateLastKnownBeyond(h) ==
    /\ command[h].pc = "start"
    /\ lastknown' = [lastknown EXCEPT ![h] = command[h].tip + 1]
    /\ Become(h, [pc |-> "patch", blocks |-> command[h].blocks])
    /\ UNCHANGED <<versions, trusted, faults, tables>>

UpdateLastKnown(h) ==
    /\ command[h].pc = "start"
    /\ lastknown' = [lastknown EXCEPT ![h] = command[h].tip]
    /\ Become(h, [pc |-> "patch", blocks |-> command[h].blocks])
    /\ UNCHANGED <<versions, trusted, faults, tables>>

NextBlock(h) ==
    /\ command[h].pc = "patch"
    /\ command[h].blocks # <<>>
    /\ Tables(Head(command[h].blocks)) = {}
    /\ Become(h, [pc |-> "patch", blocks |-> Tail(command[h].blocks)])
    /\ UNCHANGED <<versions, lastknown, trusted, faults, tables>>

\* The patch command rolls back and reports failure.
Fail(h) ==
    /\ Become(h, Idle)
    /\ trusted' = [trusted EXCEPT ![h] = FALSE]

\* The transaction starts from the rows that are there now, of every host.  A
\* file without content has one record without fields, and that is its header.
BeginTransaction(h) ==
    /\ command[h].pc = "patch"
    /\ command[h].blocks # <<>>
    /\ \E t \in Tables(Head(command[h].blocks)) :
        \/ /\ file[t] # "broken"
           /\ Become(h, [pc |-> "transaction", table |-> t, content |-> rows[t],
                         header |-> file[t] = "whole", blocks |-> command[h].blocks])
           /\ UNCHANGED trusted
        \/ /\ file[t] = "broken"
           /\ Fail(h)
    /\ UNCHANGED <<versions, lastknown, faults, tables>>

\* The delta that the transaction is about, and the rows that it makes.
Entry(h) == Head(command[h].blocks)[command[h].table]

New(h) == Applied(command[h].table, Entry(h).delta, command[h].content[h])

\* The delta is done with, whether it had an effect or not.
Proceed(h) ==
    LET me    == command[h]
        block == Head(me.blocks)
    IN  Become(h, [pc |-> "patch",
                   blocks |-> <<[block EXCEPT ![me.table] = None]>> \o Tail(me.blocks)])

Mark(h) == reached' = [reached EXCEPT ![command[h].table][h] = Entry(h).to]

\* A PostgreSQL transaction touches the rows of its host.
CommitSql(h) ==
    /\ command[h].pc = "transaction"
    /\ LET t == command[h].table
       IN  /\ t \notin CsvTable
           /\ \/ /\ ~Clashes(t, Entry(h).delta, command[h].content[h])
                 /\ rows' = [rows EXCEPT ![t][h] = New(h)]
                 /\ Mark(h)
              \/ /\ Clashes(t, Entry(h).delta, command[h].content[h])
                 /\ UNCHANGED <<rows, reached>>
    /\ Proceed(h)
    /\ UNCHANGED <<versions, lastknown, trusted, faults, file, lost>>

\* A row is not there, or there is no column to tell the rows of a host by.
Unappliable(h) ==
    \/ Misses(Entry(h).delta, command[h].content[h])
    \/ Entry(h).delta.type = "rebase" /\ ~command[h].header

RejectDelta(h) ==
    /\ command[h].pc = "transaction"
    /\ command[h].table \in CsvTable
    /\ Unappliable(h)
    /\ Fail(h)
    /\ UNCHANGED <<versions, lastknown, faults, tables>>

\* The commit of a CSV file opens it, and the rows of every host are gone until
\* it writes what it has in memory, which is older than what others wrote
\* since.  A file that is open already will be written twice.
OpenFile(h) ==
    /\ command[h].pc = "transaction"
    /\ LET me == command[h]
           t  == me.table
       IN  /\ t \in CsvTable
           /\ ~Unappliable(h)
           /\ rows' = [rows EXCEPT ![t] = NoRows]
           /\ file' = [file EXCEPT ![t] = "empty"]
           /\ lost' = [lost EXCEPT ![t] =
                  IF Writers(t) # {} THEN Host
                  ELSE @ \cup {g \in Host : me.content[g] # rows[t][g]}]
           /\ Become(h, [me EXCEPT !.pc = "write"])
    /\ UNCHANGED <<versions, lastknown, trusted, faults, reached>>

\* What is left of a file that was cut short, written from its start again, or
\* written over another content: any records, and a header or not.
Scraps(t) ==
    /\ \/ /\ \E left \in [Host -> [Key -> UNION {[1..n -> Value] : n \in 0..MaxScraps}]] :
             rows' = [rows EXCEPT ![t] = left]
          /\ \E kind \in {"whole", "headless"} : file' = [file EXCEPT ![t] = kind]
       \/ /\ rows' = [rows EXCEPT ![t] = NoRows]
          /\ file' = [file EXCEPT ![t] = "broken"]
    /\ lost' = [lost EXCEPT ![t] = Host]

\* Fault variant: the rows of the other hosts are left out.
WrittenAlone(h) == [NoRows EXCEPT ![h] = New(h)]

\* LCH_CSVComposeFile
Written(h) == [command[h].content EXCEPT ![h] = New(h)]

WriteFile(h) ==
    /\ command[h].pc = "write"
    /\ LET me == command[h]
           t  == me.table
       IN  \/ /\ file[t] = "empty"
              /\ rows' = [rows EXCEPT ![t] = Written(h)]
              /\ file' = [file EXCEPT ![t] = IF me.header THEN "whole" ELSE "headless"]
              /\ lost' = [lost EXCEPT ![t] =
                     IF Entry(h).delta.type = "rebase" /\ Writers(t) = {h}
                     THEN @ \ {h} ELSE @]
           \/ /\ file[t] # "empty"
              /\ Scraps(t)
    /\ Mark(h)
    /\ Proceed(h)
    /\ UNCHANGED <<versions, lastknown, trusted, faults>>

PatchEnd(h) ==
    /\ command[h].pc = "patch"
    /\ command[h].blocks = <<>>
    /\ Become(h, Idle)
    /\ trusted' = [trusted EXCEPT ![h] = TRUE]
    /\ UNCHANGED <<versions, lastknown, faults, tables>>

-----------------------------------------------------------------------------
(* Faults *)

Fault(kind) ==
    /\ kind \in FaultKinds
    /\ faults < MaxFaults
    /\ faults' = faults + 1

\* The connection cannot be made, or a callback returns false.
CallbackFails(h) ==
    /\ command[h].pc \in {"patch", "transaction"}
    /\ command[h].blocks # <<>>
    /\ Fault("callback")
    /\ Fail(h)
    /\ UNCHANGED <<versions, lastknown, tables>>

\* An insert fails in the database: its callback returns true, and the commit
\* that follows undoes the transaction and returns true.  (A step of LeechSystem:
\* after it the server does not have what its last known file names.)
InsertFails(h) ==
    /\ command[h].pc = "transaction"
    /\ command[h].table \notin CsvTable
    /\ Entry(h).delta.inserts # EmptyObject
    /\ Fault("insert")
    /\ Proceed(h)
    /\ UNCHANGED <<versions, lastknown, trusted, tables>>

\* Less is written than there is, and the rest of the write starts over.
ShortWrite(h) ==
    /\ command[h].pc = "write"
    /\ Fault("short")
    /\ Scraps(command[h].table)
    /\ Mark(h)
    /\ Proceed(h)
    /\ UNCHANGED <<versions, lastknown, trusted>>

\* The patch was damaged on its way: its checksum is wrong, or it does not parse.
PatchRejected(h) ==
    /\ command[h].pc = "start"
    /\ Fault("corrupt")
    /\ Fail(h)
    /\ UNCHANGED <<versions, lastknown, tables>>

\* The patch command is killed, which its caller sees as a failure.
Crash(h) ==
    /\ command[h] # Idle
    /\ command[h].pc # "write"
    /\ Fault("crash")
    /\ Fail(h)
    /\ \/ UNCHANGED lastknown
       \/ command[h].pc = "start" /\ lastknown' = [lastknown EXCEPT ![h] = Cut]
    /\ UNCHANGED <<versions, tables>>

\* It is killed, or an error is returned, while it writes a file: nothing, or
\* only the start, is written.
CommitTorn(h) ==
    /\ command[h].pc = "write"
    /\ Fault("crash")
    /\ Fail(h)
    /\ \/ /\ lost' = [lost EXCEPT ![command[h].table] = Host]
          /\ UNCHANGED <<rows, file>>
       \/ Scraps(command[h].table)
    /\ UNCHANGED <<versions, lastknown, reached>>

Patch(h) ==
    \/ UpdateLastKnown(h) \/ NextBlock(h) \/ BeginTransaction(h)
    \/ CommitSql(h) \/ RejectDelta(h) \/ OpenFile(h) \/ WriteFile(h) \/ PatchEnd(h)

Next ==
    \E h \in Host :
        \/ HostCommits(h) \/ PatchStart(h) \/ Patch(h)
        \/ CallbackFails(h) \/ ShortWrite(h) \/ PatchRejected(h) \/ Crash(h)
        \/ CommitTorn(h)

Spec == Init /\ [][Next]_vars

\* A patch command that runs is scheduled until it ends; the caller keeps
\* calling, for each host.
Fairness ==
    \A h \in Host : /\ WF_vars(Patch(h))
                    /\ SF_vars(PatchStart(h))

FairSpec == Spec /\ Fairness

-----------------------------------------------------------------------------
(* Properties *)

TypeOK ==
    /\ versions \in [Host -> Seq([Table -> State])]
    /\ lastknown \in [Host -> 0..MaxVersion \cup {Cut}]
    /\ rows \in [Table -> [Host -> HostRows]]
    /\ file \in [Table -> {"whole", "headless", "broken", "empty"}]
    /\ \A h \in Host : command[h].pc \in {"idle", "start", "patch", "transaction", "write"}
    /\ trusted \in [Host -> BOOLEAN]
    /\ faults \in 0..MaxFaults
    /\ reached \in [Table -> [Host -> 0..MaxVersion]]
    /\ lost \in [Table -> SUBSET Host]

\* What a table has for a host; while a commit writes the file, what it had.
Held(t, h) ==
    IF file[t] = "empty" /\ Writers(t) # {}
    THEN command[CHOOSE w \in Writers(t) : TRUE].content[h] ELSE rows[t][h]

\* Between two patch commands of a host, when the last one reported success,
\* the server has exactly the version that its last known file names, except in
\* a file that was torn or overtaken by another commit.
LastKnownIsHeld ==
    \A h \in Host : command[h] = Idle /\ trusted[h] =>
        \A t \in Known :
            h \in lost[t] \/ Held(t, h) = RowsOf(Version(h, lastknown[h])[t])

\* Each table of each host is at a version the host committed, never at a
\* mixture of two, and never goes back, whatever fails and whichever patches
\* overlap on the way, until a file is torn or overtaken, and then for the hosts
\* whose rows that lost, from their next rebase on.
StateOf(seq) == [k \in Key |-> IF seq[k] = <<>> THEN Missing ELSE Head(seq[k])]

Replica == INSTANCE LeechReplica WITH
    Fragile <- CsvTable,
    Blank   <- EmptyObject,
    view    <- [t \in Table |-> [h \in Host |->
                   IF h \in lost[t] THEN Lost ELSE StateOf(Held(t, h))]]

ImplementsReplica == Replica!Spec

\* Once a host commits no more and nothing fails any more, the server has its
\* last version and keeps it, except in a file whose header is gone, which
\* refuses every rebase, and in one that lost the host's rows unnoticed.
CatchesUp ==
    \A h \in Host :
        <>[](\/ \E t \in CsvTable : file[t] # "whole"
             \/ \A t \in Known :
                   \/ h \in lost[t]
                   \/ rows[t][h] = RowsOf(Version(h, Len(versions[h]))[t]))

=============================================================================
