# A verification project for leech

leech keeps copies of tables on a server. A host commits the changes of its
tables to a chain of blocks; a server asks for what changed since the block it
last knew, and applies it. This project models that code in TLA+, checks the
models with TLC on small instances, and proves what matters most with TLAPS.

## 1. The system

All of leech is a C library without threads (`src/lib`) and a command that calls
it once and exits (`src/bin`). Processes meet in files, and nothing locks them.

| Part | State | Operations | Talks to |
|---|---|---|---|
| Delta (`delta.c`, set operations of `json.c`) | inserts, deletes, updates of one table | create, count, merge | used by commit, diff, rebase |
| Chain (`block.c`, `head.c`) | `blocks/<id>`, `HEAD` | create, store, load, resolve an argument | files |
| Commands (`leech.c`) | none but what they hold in memory | commit, diff, rebase, history, purge, patch | all the others |
| Tables (`table.c`) | `snapshot/<table>` | load the source, load and store a snapshot, patch a destination | connectors |
| Patch (`patch.c`) | the server's `<host>` last known file | create, append, reverse, update last known | files |
| CSV connector (`leech_csv.c`) | a file; during a transaction, its table in memory | truncate, insert, delete, update, begin, commit, roll back | `csv.c` |
| PostgreSQL connector (`leech_psql.c`) | a table of a database | the same | libpq |
| CSV codec (`csv.c`) | cursor and partial table | parse, compose | keys and values of every delta, files |
| Dictionary (`dict.c`) | buffer, length, slots in use | set, remove, has, get | every JSON object |
| JSON codec (`json.c`), buffers, files (`buffer.c`, `files.c`) | | parse, compose, read, write, delete | all |
| Configuration (`instance.c`, `table.c`) | `leech.json` | load | every command |
| `list.c`, `string_lib.c`, `logger.c`, `sha1.c`, `module.c` | | containers, text, messages, digests, `dlopen` | |

What is hard in it:

* **Interleaving.** The README of leech has purge run at a regular interval, so a
  commit, a diff and a purge do run side by side, and their order of file
  operations is all that protects them.
* **Failure half way.** A commit writes snapshots, then a block, then HEAD. A
  patch writes the last known file first and one table after the other then. A
  kill, an unreadable source or a failing callback may come after any of them. A
  file is emptied before it is filled, the CSV file that holds the rows of many
  hosts too, and a write that is short is repeated from the first byte and counts
  as a success.
* **Order.** Unmerged tables are carried through the walk of a diff in the
  opposite order of the one they are applied in.
* **Unreliable callers.** Patches are carried by somebody else, and come late,
  twice or damaged. A diff is refused once the block it starts from is purged.
* **Merge rules.** Fourteen rules decide what two operations on one key become,
  and some are errors that no chain should meet.
* **Small print of data structures.** A hash table whose removals leave markers,
  a codec whose line break at the end is optional, a key of one empty field whose
  text is no text at all.

What makes each part correct: a merged delta is the net change of the blocks it
stands for; a diff leads a server exactly from the block it knows to the head, or
is not handed over; a history has no holes; a purge leaves the newest blocks;
HEAD names a block that was written; between successful patches the server has
what the last known file says; a rebase makes good whatever happened, if the
destination can still be read; a patch leaves the rows of other hosts alone, but
for what a torn or overtaken file loses; the dictionary is a map; what a codec
writes it reads back, and what it did not write it does not misread; a
destination has the records of its source, field by field.

## 2. The modules

| Module | Models | Remarks |
|---|---|---|
| `LeechDelta` | objects, deltas, merging, applying | pure operators; no state |
| `LeechMerge` | the fold of `MergeBlocks` for one table | EXTENDS `LeechDelta` |
| `LeechRows` | the rows a host has in a destination, through either connector | EXTENDS `LeechDelta`; no state |
| `LeechInduction` | | induction over numbers, functions defined by recursion, flattened sequences |
| `LeechDeltaProofs` | | lemmas about `LeechDelta` and `LeechRows` |
| `LeechMergeProofs` | | theorems about `LeechMerge` |
| `LeechChain` | a host's work directory under all its commands | EXTENDS `LeechDelta` |
| `LeechReplica` | abstract: replicas that only move forward; a file may lose the rows of some | implemented by `LeechServer` |
| `LeechServer` | `LCH_Patch`, its destinations, its hosts and faults | EXTENDS `LeechRows` |
| `LeechServerProofs` | | theorems about `LeechServer` |
| `LeechSystem` | host, caller and server together | EXTENDS `LeechChain` and `LeechRows`, INSTANCE `LeechServer` |
| `LeechSystemProofs` | | theorems about `LeechChain`, and from them about `LeechSystem` |
| `LeechRecords` | source records to objects, deltas to destination records | INSTANCE `LeechDelta` |
| `LeechRecordsProofs` | | theorems about `LeechRecords` |
| `LeechMap` | abstract: a map | implemented by `LeechDict` |
| `LeechDict` | the hash table | |
| `LeechDictProofs` | | theorems about `LeechDict` |
| `LeechCsv` | the CSV codec | |
| `LeechCsvProofs` | | theorems about `LeechCsv` |
| `LeechJson` | the JSON codec, and the files it is written to | RECURSIVE composer |

Definitions carry the names of the C functions where they can. Operators named
"Fault variant" in a comment are plausible bugs: each is put in place of the
definition after it to see that the property it belongs to fails. No
specification uses them.

**Objects.** A JSON object from primary keys to values is a total function on
`Key` in which `Missing` stands for a key that is not there; `Null` is the JSON
null that a merge leaves for a value it does not know. In `InsertConflict`,
`MergeDeletes` and so on, keys are treated all at once: the loops of `delta.c`
look at one key at a time, and no step for one key reads another.

**LeechChain.** The state is the work directory and, in `local`, what each
running command holds in memory. An action is what a command does from one file
operation to the next: a file is written by truncating it (`SnapshotOpen`,
`BlockOpen`, `HeadOpen`: the file is `Torn`) and filling it (`SnapshotWrite`,
`BlockWrite`, `HeadWrite`), or by failing to (`WriteFails`: the write returns an
error, as on a full disk; a snapshot or block stays `Torn`, and HEAD may hold the
first part of a name, `Cut`). A write that writes too little is no error
(`WriteShort`): the loop of `buffer.c` starts again from the first byte, so the
file has its start and then all of it, and the commit goes on. A snapshot or a
block of that kind does not parse (`Torn`, `Spoiled`), a HEAD of that kind names
nothing (`Cut`), and HEAD moves to a block that is `Spoiled`. The two names for
an unreadable block differ in who knows: while one is `Torn`, its commit has not
moved HEAD and never will. An emptied HEAD reads as the empty identifier, which
names the directory `blocks`: it exists, and does not load, so a walk along the
chain fails there, where it ends at a name that no file has (`EndOfChain`). A
purge lists the directory, which is not there before the first block. Block
identifiers are digests of the content that include the parent, so a new block
has a new one: they are numbers in the order of creation, and serve as timestamps
as well (the clock goes on between two blocks and is not set back). `stateAt`
remembers what each commit read from its sources; the program does not have it,
the properties need it. A history is asked for a table that is configured.

**LeechServer.** Hosts are seen from outside, as sequences of versions and the
patches `LeechChain` shows them to make. `command[h]` is the patch command for
host `h`: `start` until the last known file is written, `patch` between deltas,
`transaction` from the moment the destination was read, and for a CSV file
`write` from the moment it was opened for writing. Patches of several hosts may
run at the same time: nothing in `LCH_Patch` prevents it. A CSV destination may
have several records with a key, of which callbacks take the first, and misses
are failures; in PostgreSQL a miss affects no row and succeeds, and a violated
primary key fails a command whose callback says it succeeded. The caller is not
part of leech: it is taken to ask for a diff from the last known block, and for a
rebase after a patch that failed, as the documentation tells it to.

A transaction of PostgreSQL commits at once (`CommitSql`). That of a CSV file
does not. The file holds the rows of all hosts, `OpenFile` truncates it, and
`WriteFile` fills it with the table that was read when the transaction began.
`file[t]` tells what there is: `whole`; `empty`, between the two; `headless`, when
the header is gone and the truncate of every rebase fails; `broken`, when the
file does not parse. A kill or an error in between leaves an empty file or the
start of one (`CommitTorn`), a short write or two commands that write the same
file anything (`Scraps`): any rows, with a header or without. The history `lost`
names the hosts whose rows may have gone in that, or were overtaken, because the
file was read before another host's patch wrote it; a host leaves `lost` when a
rebase has written its rows. `Held` is what a table has for a host: while the
file is empty and one command is about to fill it, what that command holds.
A kill while the last known file is written may leave it empty (`Cut`).

**LeechSystem.** The hosts seen from outside are replaced by `LeechChain`: the
versions of `LeechServer` are `stateAt`, and its patches are what a `diff` or a
`rebase` handed over, translated by `BlocksOf`. The caller has a state of its own:
it asks (`AskForDiff`, `AskForRebase`), takes the answer (`GetAnswer`; a diff may
be refused, because `auto_purge` removed the block it starts from, and then it
asks for a rebase), and delivers it (`Deliver`), when the host may have
committed and purged again. A copy may stay behind and be delivered later
(`DeliverAgain`). An insert that fails in PostgreSQL, or a CSV file that is
written short, is reported as a success (`LosesRows`). After these two nobody
knows that the server is not where its last known file says; the history variable
`misled` marks that time, and a rebase ends it. A kill or an error, while a file
is written or before, is a failure the caller sees (`PatchFails`).

**LeechRecords.** The level of fields. A source has the columns of `leech.json`
in an order of its own, and records that may share a key (`TableToJsonObject`);
keys and values are composed records. The destination is a CSV file whose
records start with the host's field, in front of which may be records of another
host; deletes, updates and inserts are one action per operation, in any order of
a hash table. `CommitTransaction` writes the whole file; `CommitTorn` leaves the
first records of it, and `ShortWrite` the first records and then all, with the
header or, as `headed` says, without one. A record without fields and a record
of one empty field compose to the same empty text, so a text is the sequence of
its fields, and that of one empty field is `<<>>`: an insert with this key loses
it, as `ParseConcatenateFields` takes it for a key without fields. `misled` marks
that such a record may be there, or that of a short write, until the next rebase.

**LeechDict.** Hash values are arbitrary, so every collision of the keys is in
the model. The rule for expanding is the code's, in integers:
`capacity * (in_use - length) < 50`.

**LeechCsv.** Each action is one turn of a loop of the parser. `Byte` is any
character that is neither text data nor a separator.

**LeechJson.** A value of leech is composed, in any order of the keys of its
objects, and written to a file in one or more writes. A write that writes too
little is followed by one that starts from the first byte again, as the code
advances the count but not the buffer; an error or a kill may come after any of
them, and leaves the file cut. Then the file is parsed: each action is one value,
one bracket, comma or colon, or one symbol of a string, and the recursion of the
C functions is the stack of open containers. Texts that leech did not write are
parsed too: any of up to `MaxText` symbols, and texts of leech with a symbol
changed or missing. Where a debug build stops at an assertion (a key without a
quote in front), the parser either stops or goes on as a release build does;
`unquoted` marks the latter.

## 3. The runs

| Run | Instance | Shows |
|---|---|---|
| `merge` | 2 keys, 2 values, 4 blocks | merging meets no conflict, and gives the net change, in every history |
| `csv` | texts of 6 characters of 7 kinds; tables of 2 fields of 2 | round trip; record ends; fields are what separators outside quotes say |
| `json` | containers of 2 items, one inside another, plain and pretty; one short write; foreign texts of 3 symbols | round trip; a file that was cut is an error or what was written; open containers are open brackets |
| `chain` | a host that commits, purges as it commits and rebases, beside a reader that diffs and tells histories; 3 blocks, keeps 2; a merged and an unmerged table that may be removed | diffs, rebases and histories are exact while files come and go under them; none crashes while no table is added; purge keeps its promise; a block on disk is served |
| `chain_faults` | two processes that commit and purge, one that diffs and rebases; one fault of 5 kinds, short writes among them; 2 blocks; a table added late | HEAD names no block that is being written or was cut off, links point back, every command ends |
| `server` | 2 hosts, 2 versions of either or one of each; a CSV file and a merged PostgreSQL table; patches that overlap; one fault of 4 kinds | last known is held; refinement of `LeechReplica`; catching up; each but for the rows that a torn or overtaken file loses |
| `system` | a host beside a reader, 2 blocks, keeps 1; a CSV and a PostgreSQL table; one late delivery, kill, torn file, short write or lost insert | last known is held across purges and overtaken patches; a rebase restores, where a header is left; catching up through a refused diff |
| `records` | 1 or 2 columns in any order, up to 2 records, and up to 2 of another host; 2 commits; any patch may fail, or write its file short or in part | the destination is the source; records are found again; those of others stay, or the first of them |
| `dict` | 3 keys, 7 sets, any removals, 4 slots at first | refinement of `LeechMap`; probing ends |
| `chain_new_table` | a table added between commits | **violation**: a diff appends to a block as if it were an array |
| `chain_lost_change` | a source that fails to load | **violation**: a change is lost to every diff |
| `dict_compaction` | 16 slots, 14 sets | **violation**: compaction drops the pairs |

The three violations are findings about the code; `PROJECT.json` quotes the lines
they disagree with. `chain_lost_change` is also why `chain_faults` does not check
`DiffPatchSound`: in its faults the property fails. Nor does it check
`HeadOnDisk`, since of two processes that commit and purge at the same time one
may delete the block that the other is about to name. `HeadBlockWritten` and
`HeadOnDisk` except a block that a short write spoiled: HEAD does move to it. A
commit that is killed
between `SnapshotOpen` and `SnapshotWrite` leaves a snapshot that no later commit
or rebase can read until it is removed by hand; this is in the model, and no
property says otherwise.

**Bounds and why they are enough.** Keys are independent in every operation on
deltas, so two of them (one in `LeechChain`, `LeechServer` and `LeechSystem`)
meet every case; two values are needed to tell an update from none, and one will
do where updates are not the question. Three blocks with a chain length of two
let a purge delete, a diff cross merges, and a reader be overtaken; four blocks
were run for longer while the model was made, with the same result. Two commands
at a time suffice for each race the code has: a writer against a reader, a purge
against a commit, and two commits. In `system` a chain length of one has every
second commit remove the block the server knows; two faults in a row were run for
longer. The dictionary's 4 slots expand twice within 7 sets. For `csv`, six
characters hold an escaped field with a doubled quote, a separator and a field
after it. For `json`, three foreign symbols hold every pair of a bracket with
what may follow it, and the written texts, which may be cut anywhere, are longer.
In `records`, two columns are one primary and one subsidiary field, or only
primary ones, and two records share a key or not; wider tables are left to the
theorems, which hold of any. In `server`, two hosts and one file suffice for
every way in which two commits of it can overlap. `MaxCommits` bounds the
versions of both hosts together: either one has rows that come and go while the
other only rebases, or each has some of its own. An insert that fails unnoticed
(`InsertFails`) is in run `system`, whose `misled` allows for it. One record per
key of what is left of a torn file (`MaxScraps`) tells a row that is there from
none; two, in `system`, allow for a key that is there twice. `SYMMETRY` in
`chain` permutes values, which are only compared; that run has no liveness
property.

`dict` never reaches a compaction (it takes 50 or more for capacity times
invalidated slots, and 7 sets are too few), which is what `dict_compaction` is
for; `LengthCountsPairs` in `dict` is about expansion.

Some properties make exceptions, each for a weakness of the code that is listed
as a hazard, and no wider than that:

* `MirrorsSource` and `PatchesFindTheirRecords`: the time in which a record may
  have lost its key, or a short write been taken for a success (`misled`).
* `FileNeverMisread`: a key without a quote, in a release build.
* `LastKnownIsHeld` and `ImplementsReplica`: the hosts in `lost`, in that file.
  So what they say of a torn file is that nobody else loses rows, that the hosts
  that did have none or any until they get a rebase, and from then on again
  versions of theirs and nothing else.
* `LastKnownHeld`: the time in which the server is misled. With one host, a torn
  file leaves a failed patch behind, after which it says nothing.
* `CatchesUp`, in both modules: a CSV file without a header or unreadable, and in
  `LeechServer` a host whose rows were lost while its own patches succeeded. The
  first is for good: `LCH_CallbackTruncateTable` looks for the host's column in
  the header, and `LCH_CallbackCreateTable` leaves a file alone that is there, so
  leech gets past it only when somebody repairs or removes the file.
* `RebaseRestores`: a file without a header, again, and faults of the
  transaction's own.

Deadlock is not checked: commands end, and the bounds stop new ones.

**Fairness.** `LeechChain!Fairness` is weak fairness of each command's steps
while it runs: the operating system schedules a process that is not blocked, and
no step waits for another process. Nobody has to start a command. In
`LeechServer` a running patch has weak fairness for the same reason; strong
fairness of `PatchStart` says that the caller keeps coming back to each host,
however often a patch for it fails.
`LeechSystem!SystemFairness` has weak fairness of the commands that run, of the
patch, and of the caller's asking, taking answers and delivering, as of a script
that runs at an interval; not of commits, faults or second deliveries.
`CatchesUp` says nothing about a caller that gives up.

## 4. The proofs

**LeechMergeProofs** proves the four properties of run `merge` for every set of
keys and values, every length of chain and every history. The assumptions are
the constants' own: `Null` and `Missing` differ from each other and from
values, and `Length` is a natural number.

The invariant is `TypeOK`, that no conflict has arisen, that the child is no
rebase, and `MergedIsNetChange`: key by key, the child is the net change from
the block reached to the head. `MergeNeverConflicts` alone is not inductive,
since whether the next merge conflicts depends on what the child holds; nor is
`MergedTakesServerToHead`, which allows a child that deletes and inserts the
same key. `NetEffect` is what the merge rules keep: one lemma shows that a
delta of two states has it, one that merging the delta of the parent block with
a child that has it raises no conflict and leaves a delta that has it again,
one that it implies `Takes`. The invariant's step is then one block of the walk.

**LeechServerProofs** is about any number of hosts, tables, keys, versions and
faults of every kind, and patches that overlap in every way. `TypeCorrect`,
`LastKnown` and `Refinement` (every step of the server is a step of
`LeechReplica` or a stutter, under the mapping in `LeechServer`) assume nothing
but the constants' own assumptions.

The invariant `IInv` says, by parts: the version that a table of a host was last
brought to is one the host committed (`HasReached`); unless they are lost, the
host's rows are those of that version, in the file or, while it is empty, in the
memory of the only command that is about to write it (`Intact`); a PostgreSQL
table loses nothing, and what its transaction has read is what there is
(`Durable`); the blocks that a patch has left lead from the version each table is
at to the goal (`OnPath`); a host without a patch under way and without a failure
is at its last known version (`AtLastKnown`). `LastKnownIsHeld` follows from the
last and `Intact`, and is not inductive: it says nothing of a patch half way, so
that nothing would follow when the patch ends. `OnPath` carries it through the
tables and blocks of a patch. Through the commit of a file it is carried by
`Intact`: `OpenFile` puts into `lost` every host whose rows are not what the
command has read, so the others' rows go from the file into its memory and, with
`WriteFile`, back.

The lemmas below it are about data and steps: a delta of two states, applied to
the rows of the first, misses none and gives the rows of the second
(`DeltaApplied`); a rebase gives them from any rows (`RebaseApplied`); the diff
and the rebase a caller may be handed are paths (`DiffPath`, `RebasePath`); a
transaction's delta leads on from where its table is (`EntryLeads`); opening,
writing and tearing a file keep the invariant (`OpenFileKeeps`, `WriteFileKeeps`,
`AllLost`). For the refinement, `View`, the rows as they are, is `Seen`, the rows
of the versions reached, in every state of the invariant (`ViewShown`).

**LeechSystemProofs** is about the host first, and about the host with its server
in the last part. The theorems about `LeechChain` cite that module's own
assumption on the constants, and nothing of `LeechSystem`.

*The work directory.* It proves `HeadBlockWritten`, `ChainPointsBack` and
`TypeOK` of the work directory, for any number of commands of any kind at once,
blocks, tables and faults of every kind. None is inductive. The first two say
nothing of what a commit has in memory, and commits run beside each other. The
invariant `IInv` adds that identifiers are taken in order (a block that exists,
HEAD, and the identifier and parent a commit holds have numbers up to `created`,
and a commit's parent is older than its block), and that a commit which is about
to move HEAD has a block that is not empty. It stays so because the only step
that empties a block file, `BlockOpen`, takes a new number. `TypeOK` bounds
`created` by `MaxBlocks`, which `CommitStart` looks at and `BlockOpen`, several
steps later, does not: `TypeInv` adds that the blocks created and the commits
that have still to create theirs are at most `MaxBlocks` together. A block that a
short write spoiled is written, as far as the commit knows, and HEAD may name it:
`HeadSafe` is about blocks whose writing was cut off, and `HeadStays` says that
HEAD's block is there and can be loaded or is such a one. Three lemmas keep the
number of cases down: a command that is not committing has nothing in memory that
matters (`OtherLocalOK`), a step that changes no more than memory and snapshots
keeps the invariant (`MemoryStep`), and so does one that leaves the files alone
and is no commit's (`OtherStep`). From the constants it uses that `Torn`, `Cut`
and `None` are told apart from each other, from numbers and from blocks.

*Purges, diffs, rebases and histories.* The other invariants and action
properties of run `chain` are proved for any number of readers, blocks, keys, values
and tables, any chain length, and purges of any kind. Each theorem names
what it needs of the processes beside the constants' own assumptions, and so do
those about `LeechSystem`:

| Theorem | Property | Assumes |
|---|---|---|
| `HeadStays`, `NewestStay` | `HeadOnDisk`, `PurgeKeepsNewest` | `OneWriter` |
| `DiffSound`, `HistorySound` | `DiffPatchSound`, `HistoryTold` | `OneCommitter`, `CommitsEnd` |
| `RebaseSound` | `RebasePatchSound` | `OneCommitter`, `CommitterRebases`, `CommitsEnd` |
| `NeverCrashes` | `DiffNeverCrashes` | `OneCommitter`, `NoNewTables` |
| `RetainedServed` | `RetainedBlocksServed` | `OneWriter`, `CommitsEnd`, `NoNewTables` |
| `SystemTypes`, `LastKnownTrue`, `RebasesRestore` | `SystemTypeOK`, `LastKnownHeld`, `RebaseRestores` | `OneCommitter`, `CommitterRebases`, `CommitsEnd`, `EveryTable` |

* `OneWriter`: one process commits and purges, one command after the other, as a
  host's script does. With a second one a purge can delete the block that a
  commit is about to name. `OneCommitter` leaves purges to anybody: a diff, a
  history or a rebase is right whatever is deleted under it.
* `CommitterRebases`: that process is the one that rebases. A rebase beside a
  commit finds the snapshots ahead of HEAD.
* `CommitsEnd`: of the faults there is only the one that ends a command before it
  has done anything: no commit is killed half way, and no write fails or is
  short. Run `chain_lost_change` shows what a commit that ends half
  way does to the next diff.
* `NoNewTables`: none is added to `leech.json`; tables may be removed. Run
  `chain_new_table` shows the crash otherwise.

* `EveryTable`: the tables in `leech.json` are always the same. A rebase says
  nothing of a table that is not listed, and leaves the server with what it has
  of it.

Run `chain` is an instance of all but the last of them, run `system` of the four
that the system needs, and the two violations that two of them exclude are
findings about the code, not about the model.

None of these properties is inductive; each group has an invariant of its own,
part by part for each stage of a command:

* `WriterInv`: the purge's side. The whitelist is the newest blocks as far as the
  walk has come (`WalkOK`), so what is deleted is none of the newest
  `ChainLength`, and stays so while nobody else commits; HEAD's block can be
  loaded or is spoiled, as a commit knows of the one it stores and a purge of the
  newest.
* `CommitInv`: the commit's side. A block tells the difference of the two states it
  lies between (`BlocksTell`); between commits the snapshots are the state of the
  newest block (`Between`); half way, each table's snapshot is at one of two
  states, by whether its delta is in the commit's memory already (`CommitOK`).
  `DiffPatchSound` rests on it, and not on any cooperation: a diff sees only
  blocks, and blocks do not change once written (`Settled`, `Keeps`), they only
  go away.
* `DiffInv`: the merged delta of the diff's walk, and the deltas of unmerged tables
  it has left in blocks on the way, lead together from the block it has reached to
  the tip (`Carries`, `RowsAfter`). Its step for merged tables is the same
  lemma as that of `LeechMergeProofs` (`MergeOfContinuation`).
* `RebaseInv`, `HistoryInv`: the same for what a rebase has collected and what a
  history has told, which are the changes of the record from the block reached up.
* `TablesInv`: every block has the tables of each newer one, the diff's child no
  more than those of any block below it. It holds under any faults.
* `ServedInv`: but for those that a purge is about to delete, the blocks on disk
  are the newest ones (`OldestFirst`), and an empty block file is about to be
  written (`EmptyIsWritten`); a diff has not passed the block it is to reach
  (`Ahead`). A walk that fails has then met a block that is gone, and all older
  ones, its goal among them, are gone too.

One proof failed for a reason: `BlockWrite` was first modelled as giving the file
its content whatever had become of it, and no invariant could be closed against
a purge that unlinks a block between its creation and its writing. A written
file that has no name is not there, and the action says so now.

*Host and server.* The theorems about `LeechSystem` are for any number of tables,
keys, values, blocks, readers and purges, and any number of kills, torn files,
short writes, lost inserts and late deliveries at the server. `LastKnownHeld`
says nothing of a patch half way, nor of what is still on its way to the server,
so it is not inductive. `SystemInv` has the host's invariants as they are, since
the host's steps are those of `LeechChain` and the server touches none of its
files, and three parts of its own:

* `PatchesInv`: what a diff hands over has only deltas that miss no row when
  rows are changed one by one (`CleanOK`; a delta that deletes and inserts a key
  would be sound as a whole, and not for the callbacks), and a rebase leaves no
  table out (`FullOK`).
* `ErrandInv`: a patch that the caller holds, new or kept aside, is still what the
  host handed over, and what `DiffSound` and `RebaseSound` say of it is still
  true, however many commits and purges came in between: `stateAt` of a block
  does not change.
* `ServerInv`: a patch that runs has for each table deltas whose goal is the block
  its last known file will name, and unless a patch was misplaced they lead from
  the rows there are to that block's state (`RunOK`, `Leads`); while a file is
  open and empty, those are the rows its command holds (`Present`). A rebase leads
  there from any rows, also those of a torn file, which is what makes it a
  remedy. It needs the header that `RebaseRestores` asks for.

One lemma joins the two views of rows: while a table is in a state, changing its
rows through either connector gives the rows of the state that `PatchedRows`
gives (`LeechRows` against `LeechDelta`), so a step of the server is a step along
`RowsAfter`, where `DiffSound` ends. `LeechRows` and its lemmas are shared with
`LeechServerProofs`; the refinement theorem there is not used, because it assumes
that callers deliver no stale patch.

**LeechRecordsProofs** is about one table, for any set of field values, any
columns and records, and any number of commits, of patches that fail and of
writes that are torn or short, without further assumptions: types,
`MirrorsSource`, `PatchesFindTheirRecords` and `OthersUntouched`. None is
inductive. A mirror needs three links, each a part of the invariant `IInv`:

* `StateInv`: the snapshot is what the source gives, key by key the value of the
  last record with that key (`MadeOf`). It is shown record by record along the
  recursion of `TableToJsonObject`; that columns may be in any order is in
  `FieldAt`, that no two keys compose to the same text in `ComposedInjective`.
* `RowsInv`: between successful patches, and as long as no record can have lost
  its key, the host's rows stand for the snapshot: each key has its row, each row
  its key, and none is there twice (`Represents`).
* `PatchInv`: half way through a patch the content stands for *some* object, and
  what is left of the delta leads from it to the snapshot (`Leads`): which keys
  are done is not written anywhere, since they come in the order of a hash table.
  It holds as long as no key is lost (`Solid`), and the rows of others are the
  file's at all times.

`PatchesFindTheirRecords` follows from the third; `MirrorsSource` from the first
two, by a bijection between the host's rows and the records that count
(`Mirrored`). `misled` is no way out of the proof: with it the program does lose a
record's key, or has records twice. `OthersUntouched` needs that picking the rows
of some hosts from the start of a table gives the start of their rows
(`OfHostsPrefix`), and `PatchInv` for what a patch has in memory of the others
(`CommittingFacts`).

**LeechCsvProofs** is about texts, fields, records and tables of any length, also
without further assumptions: types, `RecordsEndAtSeparator`, `RoundTrip` and
`FieldsMatchSeparators`, each with an invariant on top of the one before.

* `TypeInv`: where a field ends there is a separator or nothing (`EndsField`), so
  the two characters that are skipped behind a record are CR LF, or the text is
  over.
* `RoundInv`: while a composed text is parsed, the cursor is at a position that
  the records and fields read so far determine. The layout lemmas give the
  positions: `FieldStart` and `FieldEnd` of each field, `Starts` of each character
  in a field whose quotes are doubled. The records are then read back, but for a
  last one of one empty field behind others, which leaves nothing to read.
* `SeparatorsInv`: for texts that leech did not write. The quotes up to the cursor
  are even in number outside of an escaped field and odd inside, and the
  separators outside of quotes up to the cursor are the fields made so far.

**LeechDictProofs** is about any keys, values, hash values, number of calls, and
an initial capacity of four or more (`LCH_DICT_CAPACITY` is 256; with fewer one
call may take the last slot, and probing would not end). `TypeCorrect` and
`ProbingStops` hold whatever happens to the buffer. `ProbingEnds` is not
inductive; `Inv` has the number of taken slots up to `in_use`, and `in_use` not
further above three quarters of the slots than by one; and since the probing
has to find keys for `in_use` to count right, that every item's way from its own
slot has no empty slot (`Placed`), and that no key has two slots (`Unique`).
`CountsPairs` and `Refinement` (each step is one of `LeechMap` or none) assume
`[]~Compacts`: run `dict_compaction` shows what a compaction does.
`SmallDictionaries` says when a dictionary need not fear one: 256 slots, set no
more than 192 times, or any number of slots, set up to seven times, which is run
`dict`. The lemma behind them is that a rehash, item by item (`MoveOne`), gives a
buffer of the same pairs without invalidated slots (`Rehash`).

**LeechInduction** has what the data need. Induction is stated of sets of numbers
and follows from the library's least elements; `Recursion` says that a function
defined by recursion has the values its definition gives, for every argument.
The walk of a purge along the chain, the rows after a patch of any number of
blocks, a rehash and the object made of a table, all recursive functions in their
modules, rest on it, and so do the lemmas about `FlattenSeq`, by which texts are
composed and the rows of some hosts are picked.

**Only model-checked.** `CommandsEnd` of `LeechChain` and the two `CatchesUp`, as
liveness under fairness, are out of the prover's reach with anything about
ENABLED. Of `LeechJson` all four properties: its composer is a RECURSIVE operator,
of which the prover knows nothing, and its values are nested, so that it would
take an induction over their structure. The three violations are counterexamples
that TLC finds.

## 5. What is not modelled

* Signs and exponents of JSON numbers, and the stack that a number takes in
  proportion to the text behind it (`json.c:1590`); typed accessors.
* Failing allocations.
* Abbreviated block identifiers, digests, and clocks that go back.
* Validation of `leech.json` field by field; it loads or it does not.
* A source that has columns `leech.json` does not list.
* Query texts and escaping in the PostgreSQL connector, and its use as a source;
  libpq is seen through the effect of its commands.
* A rebase that overlaps a commit on the same host. It reads the snapshots before
  HEAD, so its patch can name a block newer than its rows: `RebasePatchSound`
  fails if `Rebasers` is given a process of its own.
* Two patches for the same host at the same time: the caller of a host's patch is
  taken to wait for it. Patches of different hosts do overlap.
* What a CSV file is cut into, byte by byte. A record that is cut within its fields,
  or two that a short write has joined, is none of any host's in `LeechRecords`;
  `Scraps` of `LeechServer` may be any rows. A short write that ends inside a quoted
  field is taken to make the file unreadable or to leave scraps, and so may two
  commands that write it at once. What a callback does with a record that has too
  few fields for its index is not followed.
* A short write of the server's last known file; a kill while it is written is.
* A CSV destination that does not exist yet: `LCH_CallbackCreateTable` writes one
  with a header and nothing else in front of the first transaction. A kill in
  between leaves what `CommitTorn` leaves of an empty table, and with a whole file
  the callback does nothing.
* Lists, strings, logging, SHA-1, loading of modules, command line options.

## 6. Plan

Done: all modules of section 2, and the proofs of every safety invariant and
action property of their runs but those of `LeechJson`. To come:

1. Proofs about `LeechJson`, with the composer as a relation between values and
   texts instead of an operator.
2. `LeechChain`: a rebase beside a commit as a run that expects a violation, when
   a line of the repository is found that promises more; timestamps of their own,
   with a clock that is set back.
3. `LeechRecords`: a source with more columns than `leech.json` lists.
4. Abbreviated block identifiers in `DiffResolve`.
