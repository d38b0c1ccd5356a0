----------------------------- MODULE LeechSystem ----------------------------
(***************************************************************************)
(* A host and the server together: LeechChain makes the patches and        *)
(* LeechServer applies them.  Between the two is the caller, which is not  *)
(* part of leech: it asks the host for what changed since the block that   *)
(* the server last knew, asks for a rebase after anything that failed, and *)
(* carries the patch over, sometimes late, twice or out of turn.           *)
(***************************************************************************)
EXTENDS LeechChain, LeechRows

CONSTANTS
    Host,            \* the value of the host identifier field, one of a set
    CsvTable,        \* tables whose destination is a CSV file
    ServerFaults,    \* kinds of faults: "crash", "insert", "short", "stale"
    MaxServerFaults, \* bound: number of faults on the way and at the server
    MaxScraps,       \* bound: records of a key in what is left of a torn file
    Lost             \* rows that nothing is said of

ASSUME SystemAssumption ==
    /\ ServerFaults \subseteq {"crash", "insert", "short", "stale"}
    /\ MaxServerFaults \in Nat
    /\ MaxScraps \in Nat
    /\ None \notin [delta: Delta, to: Link]
    /\ None \notin [pc: {"patched"}, op: {"diff", "rebase"}, goal: Tip, tip: Link,
                    patch: Seq(Payload)]

VARIABLES
    lastknown, rows, file, command, trusted, mishaps,  \* as in LeechServer
    reached, lost,                                     \* as in LeechServer
    caller,   \* "idle", "asked"; "refused" a diff; "got" a patch to deliver
    newest,   \* the patch that was handed over last
    aside,    \* an earlier patch that will be delivered again
    misled    \* history: a patch was applied where it does not belong, or
              \* rows were lost unnoticed, and no rebase has come since

server == <<lastknown, rows, file, command, trusted, mishaps, reached, lost>>
errand == <<caller, newest, aside, misled>>

system == <<vars, server, errand>>

Server == INSTANCE LeechServer WITH
    Known       <- Table,
    MaxVersion  <- MaxBlocks,
    MaxCommits  <- MaxBlocks,
    FaultKinds  <- ServerFaults \ {"stale"},
    MaxFaults   <- MaxServerFaults,
    versions    <- [h \in {Host} |-> [n \in BlockId |-> stateAt[n]]],
    faults      <- mishaps,
    Host        <- {Host}

AtRest == command[Host] = Server!Idle

SystemInit ==
    /\ Init
    /\ lastknown = [h \in {Host} |-> Genesis]
    /\ rows = [t \in Table |-> [h \in {Host} |-> RowsOf(EmptyObject)]]
    /\ file = [t \in Table |-> "whole"]
    /\ command = [h \in {Host} |-> Server!Idle]
    /\ trusted = [h \in {Host} |-> TRUE]
    /\ mishaps = 0
    /\ reached = [t \in Table |-> [h \in {Host} |-> Genesis]]
    /\ lost = [t \in Table |-> {}]
    /\ caller = "idle"
    /\ newest = None
    /\ aside = None
    /\ misled = FALSE

-----------------------------------------------------------------------------
(* The host *)

HostSteps(p) ==
    /\ \/ Commit(p) \/ Purge(p)
       \/ DiffHead(p) \/ DiffMerge(p) \/ DiffEnd(p)
       \/ RebaseLoad(p) \/ RebaseHead(p)
    /\ UNCHANGED <<server, errand>>

-----------------------------------------------------------------------------
(* The caller *)

AskForDiff(p) ==
    /\ caller = "idle" /\ AtRest /\ trusted[Host]
    /\ DiffFrom(p, lastknown[Host])
    /\ caller' = "asked"
    /\ UNCHANGED <<server, newest, aside, misled>>

AskForRebase(p) ==
    /\ AtRest
    /\ caller = "refused" \/ (caller = "idle" /\ ~trusted[Host])
    /\ RebaseStart(p)
    /\ caller' = "asked"
    /\ UNCHANGED <<server, newest, aside, misled>>

\* The command ends, with a patch or without.
GetAnswer(p) ==
    /\ caller = "asked"
    /\ \/ local[p].pc = "patched" /\ newest' = local[p] /\ caller' = "got"
       \/ local[p].pc = "failed" /\ caller' = "refused" /\ UNCHANGED newest
    /\ Finish(p)
    /\ UNCHANGED <<server, aside, misled>>

\* A diff belongs where the server has what its last known file names, and that
\* is the block the diff starts from.  A rebase belongs everywhere.
Belongs(patch) ==
    \/ patch.op = "rebase"
    \/ ~misled /\ trusted[Host] /\ patch.goal = lastknown[Host]

\* The patch as LeechServer has it: the last delta of each table leads to tip.
BlocksOf(patch) ==
    [i \in DOMAIN patch.patch |-> [t \in Table |->
        IF patch.patch[i][t] = None THEN None
        ELSE [delta |-> patch.patch[i][t], to |-> patch.tip]]]

Hand(patch) ==
    /\ UNCHANGED vars
    /\ Server!Begin(Host, patch.tip, BlocksOf(patch))
    /\ misled' = ~Belongs(patch)

\* A copy of the patch may stay behind.
Deliver ==
    /\ caller = "got"
    /\ Hand(newest)
    /\ caller' = "idle"
    /\ newest' = None
    /\ \/ UNCHANGED aside
       \/ "stale" \in ServerFaults /\ aside = None /\ aside' = newest
    /\ UNCHANGED mishaps

DeliverAgain ==
    /\ aside # None
    /\ Hand(aside)
    /\ "stale" \in ServerFaults
    /\ mishaps < MaxServerFaults
    /\ mishaps' = mishaps + 1
    /\ UNCHANGED <<caller, newest, aside>>

-----------------------------------------------------------------------------
(* The server *)

ApplyPatch ==
    /\ UNCHANGED vars
    /\ Server!Patch(Host)
    /\ UNCHANGED errand

\* Wherever it is: a kill, a damaged patch and a failing callback look the same,
\* and so do a kill and an error while a file is written.
PatchFails ==
    /\ UNCHANGED vars
    /\ Server!Crash(Host) \/ Server!CommitTorn(Host)
    /\ UNCHANGED errand

LosesRows ==
    /\ UNCHANGED vars
    /\ Server!InsertFails(Host) \/ Server!ShortWrite(Host)
    /\ misled' = TRUE
    /\ UNCHANGED <<caller, newest, aside>>

Caller(p) == AskForDiff(p) \/ AskForRebase(p) \/ GetAnswer(p)

SystemNext ==
    \/ \E p \in Process : HostSteps(p) \/ Caller(p)
    \/ Deliver \/ DeliverAgain
    \/ ApplyPatch \/ PatchFails \/ LosesRows

\* Commands that run are scheduled until they end.  The caller keeps calling.
SystemFairness ==
    /\ \A p \in Process : /\ WF_system(HostSteps(p) /\ local[p] # Idle)
                          /\ WF_system(AskForDiff(p)) /\ WF_system(AskForRebase(p))
                          /\ WF_system(GetAnswer(p))
    /\ WF_system(Deliver)
    /\ WF_system(ApplyPatch)

SystemSpec == SystemInit /\ [][SystemNext]_system /\ SystemFairness

-----------------------------------------------------------------------------
(* Properties *)

SystemTypeOK ==
    /\ TypeOK
    /\ lastknown[Host] \in Tip \cup {Cut}
    /\ rows \in [Table -> [{Host} -> HostRows]]
    /\ file \in [Table -> {"whole", "headless", "broken", "empty"}]
    /\ command[Host].pc \in {"idle", "start", "patch", "transaction", "write"}
    /\ trusted[Host] \in BOOLEAN
    /\ mishaps \in 0..MaxServerFaults
    /\ caller \in {"idle", "asked", "refused", "got"}
    /\ caller = "got" <=> newest # None
    /\ misled \in BOOLEAN

\* Between two patch commands, when the last one reported success, the server
\* has exactly the state the host's tables had when it committed the block that
\* the server's last known file names: through purges that refuse a diff, patches
\* that failed and commits that overtook the patch on its way, and as long as
\* nobody delivers a diff to a server that is not at the block it starts from.
LastKnownHeld ==
    AtRest /\ trusted[Host] /\ ~misled =>
        \A t \in Table :
            rows[t][Host] = RowsOf(stateAt[lastknown[Host]][t])

\* Whatever was applied where it does not belong, got lost, or is left of a file
\* that was torn: if a header is left, a transaction with a rebase delta succeeds,
\* and what it commits is exactly what the host's table was at the block the patch
\* names, unless it meets a fault of its own.
RebaseRestores ==
    [][LET me    == command[Host]
           entry == Head(me.blocks)[me.table]
       IN  /\ me.pc \in {"transaction", "write"}
           /\ command'[Host] # me
           /\ mishaps' = mishaps
           /\ entry.delta.type = "rebase"
           /\ me.header
           => \/ me.pc = "transaction" /\ command'[Host].pc = "write"
              \/ /\ command'[Host].pc = "patch"
                 /\ rows'[me.table][Host] = RowsOf(stateAt[entry.to][me.table])]_system

\* Once the host commits no more and nothing fails any more, the server has the
\* state at the host's newest block and keeps it, even when a purge had removed
\* the block it last knew: unless nobody found out that it was misled, or the
\* header of a CSV file is gone, which refuses every rebase.
CatchesUp ==
    <>[](\/ misled
         \/ \E t \in CsvTable : file[t] # "whole"
         \/ /\ head \in Tip
            /\ \A t \in Table : rows[t][Host] = RowsOf(stateAt[head][t]))

=============================================================================
