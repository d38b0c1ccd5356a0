----------------------------- MODULE LeechChain -----------------------------
(***************************************************************************)
(* The work directory of a host: the snapshot of each table, the block     *)
(* files, and the HEAD file that names the newest block, under the         *)
(* commands that read and write them: commit, purge, diff, rebase, history *)
(* (lib/leech.c).  A command is a process of its own; nothing in the code  *)
(* stops two of them from running at the same time on one work directory,  *)
(* so a step is what a command does between two of its file operations.    *)
(*                                                                         *)
(* A file is written by truncating it and then filling it                  *)
(* (LCH_BufferWriteFile): until the second step it is Torn, and what a     *)
(* full disk leaves of a snapshot or a block is no better (LeechJson): it  *)
(* does not parse.  Of HEAD it may leave a name that no block has.  When a *)
(* write is short, the next one starts from the first byte again, and the  *)
(* command goes on as if the file were whole.                              *)
(***************************************************************************)
EXTENDS LeechDelta, Naturals, FiniteSets, Sequences, SequencesExt

CONSTANTS
    Table,         \* table identifiers
    InitialTables, \* the tables of leech.json at first
    Addable,       \* tables the administrator may add to leech.json
    Removable,     \* tables the administrator may remove from it
    MergeTable,    \* tables with merge_blocks enabled
    Process,       \* command slots: how many commands may run at once
    Committers,    \* the processes that commit
    Purgers,       \* the processes that purge
    Readers,       \* the processes that diff and tell histories
    Rebasers,      \* the processes that rebase
    Times,         \* the times between which histories are asked for
    AutoPurge,     \* auto_purge: a commit ends with a purge
    ChainLength,   \* chain_length: number of blocks a purge keeps
    MaxBlocks,     \* bound: number of blocks ever created
    FaultKinds,    \* kinds of faults that happen: "config", "load", "full",
                   \* "short", "interrupt"
    MaxFaults,     \* bound: number of faults
    Torn,          \* an empty or partly written file; a snapshot written twice
    Spoiled,       \* a block written twice: it does not parse either
    Cut,           \* a part of an identifier, or one and a part: names no block
    None           \* no such file; no delta for that table

ASSUME ChainAssumption ==
    /\ InitialTables \subseteq Table
    /\ Addable \subseteq Table
    /\ Removable \subseteq Table
    /\ MergeTable \subseteq Table
    /\ Committers \subseteq Process
    /\ Purgers \subseteq Process
    /\ Readers \subseteq Process
    /\ Rebasers \subseteq Process
    /\ Times \subseteq Nat
    /\ AutoPurge \in BOOLEAN
    /\ ChainLength \in Nat \ {0}
    /\ MaxBlocks \in Nat
    /\ FaultKinds \subseteq {"config", "load", "full", "short", "interrupt"}
    /\ MaxFaults \in Nat
    /\ Torn # None
    /\ {Torn, Cut} \cap Nat = {}
    /\ Torn # Cut
    /\ None \notin Delta
    /\ Torn \notin State
    /\ Spoiled \notin {Torn, None}
    /\ {Torn, Spoiled, None} \cap [parent: Nat \cup {Torn, Cut},
                         payload: [Table -> Delta \cup {None}]] = {}

VARIABLES
    config,    \* tables of leech.json
    snapshot,  \* snapshot/<table>; a missing file reads as no rows
    blocks,    \* blocks/<id>
    head,      \* HEAD; a missing file reads as the genesis identifier
    created,   \* number of block identifiers used so far
    local,     \* what each running command holds in memory
    faults,    \* number of faults so far
    stateAt    \* history: the tables' states that each block's commit read

files == <<snapshot, blocks, head>>
vars  == <<config, snapshot, blocks, head, created, local, faults, stateAt>>

-----------------------------------------------------------------------------

\* A block's identifier is the digest of its content, which names its parent:
\* a new block has a new identifier.  Genesis is LCH_GENISIS_BLOCK_ID.
BlockId == 1..MaxBlocks
Genesis == 0

\* What a HEAD file or a block's parent field may hold: an emptied HEAD file
\* reads as the empty string, and is used as an identifier like any other.
Link == BlockId \cup {Genesis, Torn, Cut}

Payload == [Table -> Delta \cup {None}]
Block   == [parent: Link, payload: Payload]

NoDeltas == [t \in Table |-> None]

Tables(payload) == {t \in Table : payload[t] # None}

\* LCH_BlockLoad succeeds: the file is there and holds a whole block.
Loadable(id) == id \in BlockId /\ blocks[id] \notin {None, Torn, Spoiled}

\* No file has that name: where a walk along the chain ends.  The empty
\* identifier names the directory blocks itself, which exists.
EndOfChain(id) == id \in {Genesis, Cut} \/ (id \in BlockId /\ blocks[id] = None)

Idle          == [pc |-> "idle"]
Failed(op)    == [pc |-> "failed", op |-> op]
Crashed(op)   == [pc |-> "crashed", op |-> op]
Resting       == {"idle", "patched", "told", "failed", "crashed"}
Become(p, me) == local' = [local EXCEPT ![p] = me]

Init ==
    /\ config = InitialTables
    /\ snapshot = [t \in Table |-> EmptyObject]
    /\ blocks = [b \in BlockId |-> None]
    /\ head = Genesis
    /\ created = 0
    /\ local = [p \in Process |-> Idle]
    /\ faults = 0
    /\ stateAt = [b \in BlockId \cup {Genesis} |-> [t \in Table |-> EmptyObject]]

-----------------------------------------------------------------------------
(* Commit *)

\* Commits under way that have yet to create their block.
Committing ==
    {p \in Process : local[p].pc \in {"load", "open snapshot",
                                      "write snapshot", "open block"}}

CommitStart(p) ==
    /\ p \in Committers
    /\ local[p] = Idle
    /\ created + Cardinality(Committing) < MaxBlocks
    /\ Become(p, [pc |-> "load", todo |-> config, payload |-> NoDeltas,
                  seen |-> [t \in Table |-> EmptyObject]])
    /\ UNCHANGED <<config, files, created, faults, stateAt>>

\* Fault variant: a table that has not changed is left out of the block.
CommitLoadChanged(p) ==
    /\ local[p].pc = "load"
    /\ \E t \in local[p].todo, new \in State :
        LET me    == local[p]
            delta == DeltaCreate("delta", new, snapshot[t])
            seen  == [me.seen EXCEPT ![t] = new]
            load  == [me.payload EXCEPT ![t] = delta]
            todo  == me.todo \ {t}
        IN  Become(p, IF HasOperations(delta)
                      THEN [pc |-> "open snapshot", table |-> t,
                            todo |-> todo, payload |-> load, seen |-> seen]
                      ELSE [pc |-> "load", todo |-> todo,
                            payload |-> me.payload, seen |-> seen])
    /\ UNCHANGED <<config, files, created, faults, stateAt>>

\* The table is read from its source, where it may have become anything, and
\* compared with its snapshot.  Without a difference the snapshot is left alone.
CommitLoad(p) ==
    /\ local[p].pc = "load"
    /\ \E t \in local[p].todo, new \in State :
        IF snapshot[t] = Torn
        THEN Become(p, Failed("commit"))
        ELSE LET me    == local[p]
                 delta == DeltaCreate("delta", new, snapshot[t])
                 seen  == [me.seen EXCEPT ![t] = new]
                 load  == [me.payload EXCEPT ![t] = delta]
                 todo  == me.todo \ {t}
             IN  IF HasOperations(delta)
                 THEN Become(p, [pc |-> "open snapshot", table |-> t,
                                 todo |-> todo, payload |-> load, seen |-> seen])
                 ELSE Become(p, [pc |-> "load", todo |-> todo,
                                 payload |-> load, seen |-> seen])
    /\ UNCHANGED <<config, files, created, faults, stateAt>>

\* The source is missing or unreadable, or lacks one of the table's fields.
CommitLoadFails(p) ==
    /\ local[p].pc = "load"
    /\ local[p].todo # {}
    /\ "load" \in FaultKinds
    /\ faults < MaxFaults
    /\ faults' = faults + 1
    /\ Become(p, Failed("commit"))
    /\ UNCHANGED <<config, files, created, stateAt>>

SnapshotOpen(p) ==
    /\ local[p].pc = "open snapshot"
    /\ LET me == local[p]
       IN  /\ snapshot' = [snapshot EXCEPT ![me.table] = Torn]
           /\ Become(p, [pc |-> "write snapshot", table |-> me.table,
                         todo |-> me.todo, payload |-> me.payload, seen |-> me.seen])
    /\ UNCHANGED <<config, blocks, head, created, faults, stateAt>>

SnapshotWrite(p) ==
    /\ local[p].pc = "write snapshot"
    /\ LET me == local[p]
       IN  /\ snapshot' = [snapshot EXCEPT ![me.table] = me.seen[me.table]]
           /\ Become(p, [pc |-> "load", todo |-> me.todo,
                         payload |-> me.payload, seen |-> me.seen])
    /\ UNCHANGED <<config, blocks, head, created, faults, stateAt>>

CommitHead(p) ==
    /\ local[p].pc = "load"
    /\ local[p].todo = {}
    /\ Become(p, [pc |-> "open block", parent |-> head,
                  payload |-> local[p].payload, seen |-> local[p].seen])
    /\ UNCHANGED <<config, files, created, faults, stateAt>>

\* Fault variant: HEAD moves before the block is written.
BlockOpenMovesHead(p) ==
    /\ local[p].pc = "open block"
    /\ LET me == local[p]
           id == created + 1
       IN  /\ created' = id
           /\ blocks' = [blocks EXCEPT ![id] = Torn]
           /\ head' = id
           /\ Become(p, [pc |-> "write block", id |-> id, parent |-> me.parent,
                         payload |-> me.payload, seen |-> me.seen])
    /\ UNCHANGED <<config, snapshot, faults, stateAt>>

BlockOpen(p) ==
    /\ local[p].pc = "open block"
    /\ LET me == local[p]
           id == created + 1
       IN  /\ created' = id
           /\ blocks' = [blocks EXCEPT ![id] = Torn]
           /\ Become(p, [pc |-> "write block", id |-> id, parent |-> me.parent,
                         payload |-> me.payload, seen |-> me.seen])
    /\ UNCHANGED <<config, snapshot, head, faults, stateAt>>

\* The tables' states at a block: one that the commit did not read stays as the
\* parent block has it.
StateAfter(parent, me) ==
    LET before == stateAt[IF parent \in BlockId THEN parent ELSE Genesis]
    IN  [t \in Table |-> IF t \in Tables(me.payload) THEN me.seen[t] ELSE before[t]]

\* Fault variant: the parent is what HEAD names by now.
BlockWriteOnHead(p) ==
    /\ local[p].pc = "write block"
    /\ LET me == local[p]
       IN  /\ blocks' = [blocks EXCEPT ![me.id] = IF @ = None THEN None
                             ELSE [parent |-> head, payload |-> me.payload]]
           /\ stateAt' = [stateAt EXCEPT ![me.id] = StateAfter(head, me)]
           /\ Become(p, [pc |-> "open head", id |-> me.id])
    /\ UNCHANGED <<config, snapshot, head, created, faults>>

\* A purge may have deleted the file since it was opened: its content is lost.
BlockWrite(p) ==
    /\ local[p].pc = "write block"
    /\ LET me == local[p]
       IN  /\ blocks' = [blocks EXCEPT ![me.id] = IF @ = None THEN None
                             ELSE [parent |-> me.parent, payload |-> me.payload]]
           /\ stateAt' = [stateAt EXCEPT ![me.id] = StateAfter(me.parent, me)]
           /\ Become(p, [pc |-> "open head", id |-> me.id])
    /\ UNCHANGED <<config, snapshot, head, created, faults>>

HeadOpen(p) ==
    /\ local[p].pc = "open head"
    /\ head' = Torn
    /\ Become(p, [pc |-> "write head", id |-> local[p].id])
    /\ UNCHANGED <<config, snapshot, blocks, created, faults, stateAt>>

HeadWrite(p) ==
    /\ local[p].pc = "write head"
    /\ head' = local[p].id
    /\ Become(p, IF AutoPurge THEN [pc |-> "purge"] ELSE Idle)
    /\ UNCHANGED <<config, snapshot, blocks, created, faults, stateAt>>

\* A write returns an error, the disk being full: the file has less than it
\* should, and the commit fails.
WriteFails(p) ==
    /\ local[p].pc \in {"write snapshot", "write block", "write head"}
    /\ "full" \in FaultKinds
    /\ faults < MaxFaults
    /\ faults' = faults + 1
    /\ Become(p, Failed("commit"))
    /\ \/ UNCHANGED head
       \/ local[p].pc = "write head" /\ head' = Cut
    /\ UNCHANGED <<config, snapshot, blocks, created, stateAt>>

\* A write is short: the file has the start of its content and then all of it,
\* and the commit goes on.
WriteShort(p) ==
    /\ "short" \in FaultKinds
    /\ faults < MaxFaults
    /\ faults' = faults + 1
    /\ LET me == local[p]
       IN  \/ /\ me.pc = "write snapshot"
              /\ Become(p, [pc |-> "load", todo |-> me.todo,
                            payload |-> me.payload, seen |-> me.seen])
              /\ UNCHANGED <<blocks, head, stateAt>>
           \/ /\ me.pc = "write block"
              /\ blocks' = [blocks EXCEPT ![me.id] = IF @ = None THEN None ELSE Spoiled]
              /\ stateAt' = [stateAt EXCEPT ![me.id] = StateAfter(me.parent, me)]
              /\ Become(p, [pc |-> "open head", id |-> me.id])
              /\ UNCHANGED head
           \/ /\ me.pc = "write head"
              /\ head' = Cut
              /\ Become(p, IF AutoPurge THEN [pc |-> "purge"] ELSE Idle)
              /\ UNCHANGED <<blocks, stateAt>>
    /\ UNCHANGED <<config, snapshot, created>>

-----------------------------------------------------------------------------
(* Purge *)

PurgeStart(p) ==
    /\ p \in Purgers
    /\ local[p] = Idle
    /\ Become(p, [pc |-> "purge"])
    /\ UNCHANGED <<config, files, created, faults, stateAt>>

\* Fault variant: HEAD is whitelisted before it is known to name a block.
PurgeHeadKept(p) ==
    /\ local[p].pc = "purge"
    /\ Become(p, [pc |-> "walk", at |-> head, keep |-> {head}])
    /\ UNCHANGED <<config, files, created, faults, stateAt>>

PurgeHead(p) ==
    /\ local[p].pc = "purge"
    /\ Become(p, [pc |-> "walk", at |-> head, keep |-> {}])
    /\ UNCHANGED <<config, files, created, faults, stateAt>>

\* Fault variant: the walk ends one block early.
PurgeWalkShort(p) ==
    /\ local[p].pc = "walk"
    /\ LET me  == local[p]
           end == Cardinality(me.keep) + 1 >= ChainLength \/ EndOfChain(me.at)
       IN  Become(p, IF end THEN [pc |-> "list", keep |-> me.keep]
                     ELSE [pc |-> "read", at |-> me.at, keep |-> me.keep])
    /\ UNCHANGED <<config, files, created, faults, stateAt>>

\* The whitelist is full, or the block's file does not exist, or the block is
\* whitelisted.
PurgeWalk(p) ==
    /\ local[p].pc = "walk"
    /\ LET me  == local[p]
           end == Cardinality(me.keep) = ChainLength \/ EndOfChain(me.at)
       IN  Become(p, IF end THEN [pc |-> "list", keep |-> me.keep]
                     ELSE [pc |-> "read", at |-> me.at, keep |-> me.keep])
    /\ UNCHANGED <<config, files, created, faults, stateAt>>

\* Fault variant: a block that does not load is tried again.
PurgeReadAgain(p) ==
    /\ local[p].pc = "read"
    /\ LET me == local[p]
       IN  Become(p, IF Loadable(me.at)
                     THEN [pc |-> "walk", at |-> blocks[me.at].parent,
                           keep |-> me.keep \cup {me.at}]
                     ELSE [pc |-> "walk", at |-> me.at, keep |-> me.keep])
    /\ UNCHANGED <<config, files, created, faults, stateAt>>

PurgeRead(p) ==
    /\ local[p].pc = "read"
    /\ LET me == local[p]
       IN  Become(p, IF Loadable(me.at)
                     THEN [pc |-> "walk", at |-> blocks[me.at].parent,
                           keep |-> me.keep \cup {me.at}]
                     ELSE Failed("purge"))
    /\ UNCHANGED <<config, files, created, faults, stateAt>>

\* Fault variant: the whitelisted blocks are the ones to delete.
PurgeListKept(p) ==
    /\ local[p].pc = "list"
    /\ Become(p, [pc |-> "delete", doomed |-> local[p].keep])
    /\ UNCHANGED <<config, files, created, faults, stateAt>>

\* There is no directory to list before the first block is created.
PurgeList(p) ==
    /\ local[p].pc = "list"
    /\ \/ /\ created > 0
          /\ Become(p, [pc |-> "delete",
                        doomed |-> {b \in BlockId : blocks[b] # None} \ local[p].keep])
       \/ created = 0 /\ Become(p, Failed("purge"))
    /\ UNCHANGED <<config, files, created, faults, stateAt>>

\* A file that another purge has deleted since is skipped, or fails this purge
\* if it went away between the check that it is a file and its deletion.
PurgeDelete(p) ==
    /\ local[p].pc = "delete"
    /\ \E b \in local[p].doomed :
        /\ blocks' = [blocks EXCEPT ![b] = None]
        /\ \/ Become(p, [pc |-> "delete", doomed |-> local[p].doomed \ {b}])
           \/ blocks[b] = None /\ Become(p, Failed("purge"))
    /\ UNCHANGED <<config, snapshot, head, created, faults, stateAt>>

PurgeEnd(p) ==
    /\ local[p].pc = "delete"
    /\ local[p].doomed = {}
    /\ Become(p, Idle)
    /\ UNCHANGED <<config, files, created, faults, stateAt>>

-----------------------------------------------------------------------------
(* Diff *)

\* The argument must single out a block file or the genesis block.
DiffFrom(p, goal) ==
    /\ p \in Readers
    /\ local[p] = Idle
    /\ Become(p, IF goal = Genesis \/ (goal \in BlockId /\ blocks[goal] # None)
                 THEN [pc |-> "diff", goal |-> goal] ELSE Failed("diff"))
    /\ UNCHANGED <<config, files, created, faults, stateAt>>

\* Asked from any block that there is, or was.
DiffResolve(p) == \E goal \in 0..created : DiffFrom(p, goal)

DiffHead(p) ==
    /\ local[p].pc = "diff"
    /\ Become(p, [pc |-> "merge", goal |-> local[p].goal, tables |-> config,
                  tip |-> head, at |-> head, child |-> NoDeltas, kept |-> <<>>])
    /\ UNCHANGED <<config, files, created, faults, stateAt>>

\* A delta meets the parent's delta of its table: the merge may fail, for want
\* of the table's definition or for a conflict.
Unmergeable(parent, child, tables) ==
    \E t \in Tables(parent) \cap Tables(child) :
        t \notin tables \/ (t \in MergeTable /\ MergeConflict(parent[t], child[t]))

Merged(parent, child) ==
    [t \in Table |-> IF t \in Tables(child) \cap MergeTable
                     THEN DeltaMerge(parent[t], child[t]) ELSE parent[t]]

Unmerged(child) == [t \in Table |-> IF t \in MergeTable THEN None ELSE child[t]]

\* One level of MergeBlocks.  What is not merged stays in the child, and the
\* child becomes a block of the patch of its own.
DiffMerge(p) ==
    /\ local[p].pc = "merge"
    /\ local[p].at # local[p].goal
    /\ LET me == local[p]
       IN  IF ~Loadable(me.at)
           THEN Become(p, Failed("diff"))
           ELSE LET parent == blocks[me.at].payload
                    rest   == Unmerged(me.child)
                    orphan == Tables(me.child) \ Tables(parent)
                IN  \/ /\ Unmergeable(parent, me.child, me.tables)
                       /\ Become(p, Failed("diff"))
                    \* The delta is appended to the block, not to its payload:
                    \* an array operation on an object, which has no array.
                    \/ /\ orphan # {}
                       /\ Become(p, Crashed("diff"))
                    \/ /\ ~Unmergeable(parent, me.child, me.tables)
                       /\ orphan = {}
                       /\ Become(p, [pc |-> "merge", goal |-> me.goal,
                                     tables |-> me.tables, tip |-> me.tip,
                                     at |-> blocks[me.at].parent,
                                     child |-> Merged(parent, me.child),
                                     kept |-> IF rest = NoDeltas THEN me.kept
                                              ELSE Append(me.kept, rest)])
    /\ UNCHANGED <<config, files, created, faults, stateAt>>

\* Fault variant: the blocks are left in the order of the walk.
DiffEndUnreversed(p) ==
    /\ local[p].pc = "merge"
    /\ local[p].at = local[p].goal
    /\ LET me == local[p]
       IN  Become(p, [pc |-> "patched", op |-> "diff", goal |-> me.goal,
                      tip |-> me.tip, patch |-> Append(me.kept, me.child)])
    /\ UNCHANGED <<config, files, created, faults, stateAt>>

\* The patch has its blocks oldest first.
DiffEnd(p) ==
    /\ local[p].pc = "merge"
    /\ local[p].at = local[p].goal
    /\ LET me == local[p]
       IN  Become(p, [pc |-> "patched", op |-> "diff", goal |-> me.goal,
                      tip |-> me.tip, patch |-> Reverse(Append(me.kept, me.child))])
    /\ UNCHANGED <<config, files, created, faults, stateAt>>

-----------------------------------------------------------------------------
(* Rebase *)

RebaseStart(p) ==
    /\ p \in Rebasers
    /\ local[p] = Idle
    /\ Become(p, [pc |-> "rebase", todo |-> config, payload |-> NoDeltas])
    /\ UNCHANGED <<config, files, created, faults, stateAt>>

\* Fault variant: the server is not told to truncate.
RebaseLoadAsDelta(p) ==
    /\ local[p].pc = "rebase"
    /\ \E t \in local[p].todo :
        IF snapshot[t] = Torn
        THEN Become(p, Failed("rebase"))
        ELSE Become(p, [pc |-> "rebase", todo |-> local[p].todo \ {t},
                        payload |-> [local[p].payload EXCEPT ![t] =
                            DeltaCreate("delta", snapshot[t], EmptyObject)]])
    /\ UNCHANGED <<config, files, created, faults, stateAt>>

RebaseLoad(p) ==
    /\ local[p].pc = "rebase"
    /\ \E t \in local[p].todo :
        IF snapshot[t] = Torn
        THEN Become(p, Failed("rebase"))
        ELSE Become(p, [pc |-> "rebase", todo |-> local[p].todo \ {t},
                        payload |-> [local[p].payload EXCEPT ![t] =
                            DeltaCreate("rebase", snapshot[t], EmptyObject)]])
    /\ UNCHANGED <<config, files, created, faults, stateAt>>

RebaseHead(p) ==
    /\ local[p].pc = "rebase"
    /\ local[p].todo = {}
    /\ Become(p, [pc |-> "patched", op |-> "rebase", goal |-> Genesis,
                  tip |-> head, patch |-> <<local[p].payload>>])
    /\ UNCHANGED <<config, files, created, faults, stateAt>>

-----------------------------------------------------------------------------
(* History.  Every block is as old as its identifier: the clock goes on    *)
(* between two blocks, and is never set back.                              *)

HistoryStart(p) ==
    /\ p \in Readers
    /\ local[p] = Idle
    /\ \E t \in config, k \in Key, from, to \in Times :
        /\ from < to
        /\ Become(p, [pc |-> "history",
                      ask |-> [table |-> t, key |-> k, from |-> from, to |-> to]])
    /\ UNCHANGED <<config, files, created, faults, stateAt>>

HistoryHead(p) ==
    /\ local[p].pc = "history"
    /\ Become(p, [pc |-> "trace", ask |-> local[p].ask, tip |-> head,
                  at |-> head, found |-> <<>>])
    /\ UNCHANGED <<config, files, created, faults, stateAt>>

\* The chain ends where a block's file does not exist.
HistoryWalk(p) ==
    /\ local[p].pc = "trace"
    /\ LET me == local[p]
       IN  Become(p, [pc |-> IF EndOfChain(me.at) THEN "told" ELSE "recall", ask |-> me.ask,
                      tip |-> me.tip, at |-> me.at, found |-> me.found])
    /\ UNCHANGED <<config, files, created, faults, stateAt>>

HistoryRecord(id, operation, value) ==
    [id |-> id, operation |-> operation, value |-> value]

\* The block's entry for the record, if it has one.
Entries(id, ask) ==
    LET delta == blocks[id].payload[ask.table]
        entry(operation, obj) == <<HistoryRecord(id, operation, obj[ask.key])>>
    IN  IF delta = None THEN <<>>
        ELSE IF HasKey(delta.inserts, ask.key) THEN entry("insert", delta.inserts)
        ELSE IF HasKey(delta.deletes, ask.key) THEN entry("delete", delta.deletes)
        ELSE IF HasKey(delta.updates, ask.key) THEN entry("update", delta.updates)
        ELSE <<>>

\* Fault variant: the walk ends at the first block that is too new, too.
HistoryReadEndsEarly(p) ==
    /\ local[p].pc = "recall"
    /\ LET me   == local[p]
           ask  == me.ask
           step(pc, at, found) == [pc |-> pc, ask |-> ask, tip |-> me.tip,
                                   at |-> at, found |-> found]
       IN  Become(p, IF ~Loadable(me.at) THEN Failed("history")
                     ELSE IF me.at < ask.from \/ me.at >= ask.to
                     THEN step("told", me.at, me.found)
                     ELSE step("trace", blocks[me.at].parent,
                               me.found \o Entries(me.at, ask)))
    /\ UNCHANGED <<config, files, created, faults, stateAt>>

\* A block older than the window ends the walk, one newer is passed over.
HistoryRead(p) ==
    /\ local[p].pc = "recall"
    /\ LET me   == local[p]
           ask  == me.ask
           step(pc, at, found) == [pc |-> pc, ask |-> ask, tip |-> me.tip,
                                   at |-> at, found |-> found]
       IN  Become(p, IF ~Loadable(me.at) THEN Failed("history")
                     ELSE IF me.at < ask.from THEN step("told", me.at, me.found)
                     ELSE step("trace", blocks[me.at].parent,
                               IF me.at >= ask.to THEN me.found
                               ELSE me.found \o Entries(me.at, ask)))
    /\ UNCHANGED <<config, files, created, faults, stateAt>>

-----------------------------------------------------------------------------
(* The command hands over its result or its exit status, the administrator *)
(* edits leech.json, a command is killed.                                  *)

Finish(p) ==
    /\ local[p].pc \in Resting \ {"idle"}
    /\ Become(p, Idle)
    /\ UNCHANGED <<config, files, created, faults, stateAt>>

\* leech.json is missing, or is being edited, or defines some table badly: the
\* command ends before it looks at another file.
InstanceLoadFails(p) ==
    /\ "config" \in FaultKinds
    /\ faults < MaxFaults
    /\ local[p] = Idle
    /\ faults' = faults + 1
    /\ \/ p \in Committers /\ Become(p, Failed("commit"))
       \/ p \in Purgers /\ Become(p, Failed("purge"))
       \/ p \in Readers /\ \E op \in {"diff", "history"} : Become(p, Failed(op))
       \/ p \in Rebasers /\ Become(p, Failed("rebase"))
    /\ UNCHANGED <<config, files, created, stateAt>>

Interrupt(p) ==
    /\ "interrupt" \in FaultKinds
    /\ faults < MaxFaults
    /\ local[p].pc \notin Resting
    /\ faults' = faults + 1
    /\ Become(p, Idle)
    /\ UNCHANGED <<config, files, created, stateAt>>

AddTable ==
    /\ \E t \in Addable \ config : config' = config \cup {t}
    /\ UNCHANGED <<files, created, local, faults, stateAt>>

RemoveTable ==
    /\ \E t \in Removable \cap config : config' = config \ {t}
    /\ UNCHANGED <<files, created, local, faults, stateAt>>

Commit(p) ==
    \/ CommitStart(p) \/ CommitLoad(p) \/ CommitLoadFails(p)
    \/ SnapshotOpen(p) \/ SnapshotWrite(p) \/ CommitHead(p)
    \/ BlockOpen(p) \/ BlockWrite(p) \/ HeadOpen(p) \/ HeadWrite(p)
    \/ WriteFails(p) \/ WriteShort(p)

Purge(p) ==
    \/ PurgeStart(p) \/ PurgeHead(p) \/ PurgeWalk(p) \/ PurgeRead(p)
    \/ PurgeList(p) \/ PurgeDelete(p) \/ PurgeEnd(p)

Diff(p) == DiffResolve(p) \/ DiffHead(p) \/ DiffMerge(p) \/ DiffEnd(p)

Rebase(p) == RebaseStart(p) \/ RebaseLoad(p) \/ RebaseHead(p)

History(p) == HistoryStart(p) \/ HistoryHead(p) \/ HistoryWalk(p) \/ HistoryRead(p)

\* A step of the command that occupies slot p.
Run(p) == \/ Commit(p) \/ Purge(p) \/ Diff(p) \/ Rebase(p) \/ History(p)
          \/ Finish(p)

Next ==
    \/ \E p \in Process : Run(p) \/ InstanceLoadFails(p) \/ Interrupt(p)
    \/ AddTable
    \/ RemoveTable

Spec == Init /\ [][Next]_vars

\* A command that runs is scheduled until it ends; nobody has to start one.
Fairness == \A p \in Process : WF_vars(Run(p) /\ local[p] # Idle)

FairSpec == Spec /\ Fairness

\* Values are only compared with each other.
Symmetry == Permutations(Value)

-----------------------------------------------------------------------------
(* Properties *)

Tip == BlockId \cup {Genesis}

Ask   == [table: Table, key: Key, from: Times, to: Times]
Entry == [id: BlockId, operation: {"insert", "delete", "update"}, value: Value]

\* What a command holds in memory, by how far it is.
RestLocal ==
    {Idle}
    \cup [pc: {"failed"}, op: {"commit", "purge", "diff", "rebase", "history"}]
    \cup [pc: {"crashed"}, op: {"diff"}]

CommitLocal ==
    [pc: {"load"}, todo: SUBSET Table, payload: Payload, seen: [Table -> State]]
    \cup [pc: {"open snapshot", "write snapshot"}, table: Table,
          todo: SUBSET Table, payload: Payload, seen: [Table -> State]]
    \cup [pc: {"open block"}, parent: Link, payload: Payload, seen: [Table -> State]]
    \cup [pc: {"write block"}, id: BlockId, parent: Link, payload: Payload,
          seen: [Table -> State]]
    \cup [pc: {"open head", "write head"}, id: BlockId]

PurgeLocal ==
    [pc: {"purge"}]
    \cup [pc: {"walk", "read"}, at: Link, keep: SUBSET BlockId]
    \cup [pc: {"list"}, keep: SUBSET BlockId]
    \cup [pc: {"delete"}, doomed: SUBSET BlockId]

PatchLocal ==
    [pc: {"diff"}, goal: Tip]
    \cup [pc: {"merge"}, goal: Tip, tables: SUBSET Table, tip: Link, at: Link,
          child: Payload, kept: Seq(Payload)]
    \cup [pc: {"rebase"}, todo: SUBSET Table, payload: Payload]
    \cup [pc: {"patched"}, op: {"diff", "rebase"}, goal: Tip, tip: Link,
          patch: Seq(Payload)]

HistoryLocal ==
    [pc: {"history"}, ask: Ask]
    \cup [pc: {"trace", "recall", "told"}, ask: Ask, tip: Link, at: Link,
          found: Seq(Entry)]

Local == RestLocal \cup CommitLocal \cup PurgeLocal \cup PatchLocal \cup HistoryLocal

TypeOK ==
    /\ config \subseteq Table
    /\ snapshot \in [Table -> State \cup {Torn}]
    /\ blocks \in [BlockId -> Block \cup {None, Torn, Spoiled}]
    /\ head \in Link
    /\ created \in 0..MaxBlocks
    /\ local \in [Process -> Local]
    /\ faults \in 0..MaxFaults
    /\ stateAt \in [Tip -> [Table -> State]]

\* HEAD never names a block that is still being written, or whose writing was
\* cut off by a kill or an error, however commits are interrupted or interleaved:
\* LCH_BlockStore moves HEAD last, and only when the block's file was written or
\* the code takes it for written.  (After a short write it names a Spoiled one.)
HeadBlockWritten == head \in BlockId => blocks[head] # Torn

\* The block HEAD names is there and can be loaded: the chain never loses its
\* newest block.  What cannot be loaded is a block that a short write spoiled.
HeadOnDisk == head \in BlockId => Loadable(head) \/ blocks[head] = Spoiled

\* A table's rows at a server after a delta, if there is one for the table:
\* Torn, if a row was missing or in the way.
RowsAfterDelta(delta, rows) ==
    IF delta = None THEN rows
    ELSE IF rows # Torn /\ AppliesTo(delta, rows) THEN PatchedRows(delta, rows)
    ELSE Torn

\* The same after all the blocks of a patch, in order.
RowsAfter(patch, t, rows) ==
    LET after[i \in 0..Len(patch)] ==
            IF i = 0 THEN rows ELSE RowsAfterDelta(patch[i][t], after[i - 1])
    IN  after[Len(patch)]

\* A patch that LCH_Diff hands over takes every table, merged or not, from its
\* state at the block the server knows to its state at the block the patch
\* says the server will know.
DiffPatchSound ==
    \A p \in Process :
        local[p].pc = "patched" /\ local[p].op = "diff" =>
            LET me == local[p]
            IN  \A t \in Table : RowsAfter(me.patch, t, stateAt[me.goal][t])
                                   = stateAt[me.tip][t]

\* A patch that LCH_Rebase hands over makes whatever rows the server has the
\* tables' states at the block the patch says the server will know.
RebasePatchSound ==
    \A p \in Process :
        local[p].pc = "patched" /\ local[p].op = "rebase" =>
            LET me == local[p]
            IN  \A t \in Tables(me.patch[1]), rows \in State :
                    RowsAfter(me.patch, t, rows) = stateAt[me.tip][t]

\* A history of a record tells, newest first and each with its value, of the
\* blocks that changed the record within the window, and of no other, from the
\* block HEAD named down to the first one older than the window or not on disk
\* when the walk came to it.
HistoryTold ==
    \A p \in Process : local[p].pc = "told" =>
        LET me       == local[p]
            ask      == me.ask
            row(b)   == stateAt[b][ask.table][ask.key]
            changes  == {b \in BlockId : /\ me.at < b /\ b <= me.tip
                                         /\ ask.from <= b /\ b < ask.to
                                         /\ row(b) # row(b - 1)}
        IN  /\ ~Loadable(me.at) \/ me.at < ask.from
            /\ {me.found[i].id : i \in DOMAIN me.found} = changes
            /\ \A i, j \in DOMAIN me.found : i < j => me.found[i].id > me.found[j].id
            /\ \A i \in DOMAIN me.found :
                LET b == me.found[i].id
                IN  me.found[i].value = IF row(b) = Missing THEN row(b - 1) ELSE row(b)

\* The block HEAD names, its parent, and so on.
Parent(id) == IF Loadable(id) THEN blocks[id].parent ELSE Genesis

Newest(n) ==
    LET nth[i \in 0..(n - 1)] == IF i = 0 THEN head ELSE Parent(nth[i - 1])
    IN  {nth[i] : i \in 0..(n - 1)}

\* Whatever the commands do, the newest chain_length blocks of the chain stay.
PurgeKeepsNewest ==
    [][\A b \in BlockId : blocks'[b] = None /\ b \in Newest(ChainLength)
                            => blocks[b] = None]_vars

\* Some purge under way has the block among those it deletes.
Doomed(id) == \E p \in Process : local[p].pc = "delete" /\ id \in local[p].doomed

\* A server whose last known block is on disk, and not about to be deleted,
\* gets its diff, however the chain grows and is cut meanwhile; so does a new
\* server as long as the chain goes back to its start.  A diff may fail that
\* found HEAD emptied by a commit, or a table gone from leech.json, or was
\* asked for from a block that HEAD does not name yet.
RetainedBlocksServed ==
    [][\A p \in Process :
         LET me == local[p]
         IN  /\ me.pc = "merge"
             /\ local'[p].pc \in {"failed", "crashed"}
             /\ me.tip # Torn /\ me.goal <= me.tip
             /\ me.tables = InitialTables
             => \/ me.goal \in BlockId /\ (blocks[me.goal] = None \/ Doomed(me.goal))
                \/ me.goal = Genesis /\ ~Loadable(me.at)]_vars

\* No diff brings the process down.
DiffNeverCrashes == \A p \in Process : local[p].pc # "crashed"

\* Blocks are linked backwards only, so every walk along the chain ends.
ChainPointsBack ==
    \A b \in BlockId : Loadable(b) => blocks[b].parent \in 0..(b - 1) \cup {Torn, Cut}

\* Every command ends, whatever the others do to its files meanwhile.
CommandsEnd == \A p \in Process : local[p] # Idle ~> local[p] = Idle

=============================================================================
