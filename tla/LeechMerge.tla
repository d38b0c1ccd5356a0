----------------------------- MODULE LeechMerge -----------------------------
(***************************************************************************)
(* One table's way through MergeBlocks (lib/leech.c): the walk starts with *)
(* an empty child at the head of the chain and folds each older block's    *)
(* delta with the child until the block the server knows is the parent.    *)
(* The block deltas are those that commits of an arbitrary history of the  *)
(* table leave behind.                                                     *)
(***************************************************************************)
EXTENDS LeechDelta, Naturals

CONSTANT Length   \* number of blocks between the last known block and the head

ASSUME LengthAssumption == Length \in Nat

VARIABLES
    history,   \* the table's state at each commit, 0 the last known one
    at,        \* the block that is the child's parent
    child,     \* the accumulated delta of the child
    conflict   \* a merge failed and the diff with it

vars == <<history, at, child, conflict>>

\* The delta that the commit of history[n] stored (lib/leech.c Commit).
BlockDelta(n) == DeltaCreate("delta", history[n], history[n - 1])

EmptyDelta == DeltaCreate("delta", EmptyObject, EmptyObject)

Init ==
    /\ history \in [0..Length -> State]
    /\ at = Length
    /\ child = EmptyDelta
    /\ conflict = FALSE

MergeParent ==
    /\ at > 0
    /\ ~conflict
    /\ IF MergeConflict(BlockDelta(at), child)
       THEN /\ conflict' = TRUE
            /\ UNCHANGED <<at, child>>
       ELSE /\ child' = DeltaMerge(BlockDelta(at), child)
            /\ at' = at - 1
            /\ UNCHANGED conflict
    /\ UNCHANGED history

Next == MergeParent

Spec == Init /\ [][Next]_vars

-----------------------------------------------------------------------------

TypeOK ==
    /\ history \in [0..Length -> State]
    /\ at \in 0..Length
    /\ child \in Delta
    /\ conflict \in BOOLEAN

\* Blocks of one unbroken chain never meet a merge rule that is an error
\* (README.md rules 5, 6c, 10, 11, 13, 14c): the errors MergeInsertOperations,
\* MergeDeleteOperations and MergeUpdateOperations return are for chains that
\* no sequence of commits makes.
MergeNeverConflicts == ~conflict

\* Whatever the walk has merged so far takes a server from the state at the
\* block it has reached to the state at the head of the chain: the patch may
\* end at any last known block.
MergedTakesServerToHead == Takes(child, history[at], history[Length])

\* The merged delta is the net change and no more: a row that comes and goes
\* between the two ends leaves no trace, no key is in two of its objects, and a
\* delete forgets its value (rule 14) but never holds a wrong one.
MergedIsNetChange == NetEffect(child, history[at], history[Length])

=============================================================================
