----------------------------- MODULE LeechDelta -----------------------------
(***************************************************************************)
(* Deltas: the net difference between two states of one table, and how the *)
(* delta of a parent block absorbs the delta of its child (lib/delta.c).   *)
(*                                                                         *)
(* A JSON object that maps primary keys to subsidiary values is a total    *)
(* function on Key; a key the object lacks has the value Missing.  Null is *)
(* the JSON null that a merge leaves as place holder for an unknown value. *)
(***************************************************************************)

CONSTANTS
    Key,      \* primary keys of a table, each a composed CSV record
    Value,    \* subsidiary values, each a composed CSV record
    Null,     \* the JSON null
    Missing   \* "the object has no such key"

ASSUME DeltaAssumption ==
    /\ Null \notin Value
    /\ Missing \notin Value
    /\ Null # Missing

-----------------------------------------------------------------------------
(* JSON objects (lib/json.c) *)

State  == [Key -> Value \cup {Missing}]        \* rows of a table
Object == [Key -> Value \cup {Null, Missing}]  \* rows, or deletes after a merge

HasKey(obj, k) == obj[k] # Missing

EmptyObject == [k \in Key |-> Missing]

\* Entries of left whose key right lacks.
KeysSetMinus(left, right) ==
    [k \in Key |-> IF HasKey(right, k) THEN Missing ELSE left[k]]

\* Entries of left whose key right has too, with another value.
KeysSetIntersectAndValuesSetMinus(left, right) ==
    [k \in Key |-> IF HasKey(right, k) /\ left[k] # right[k]
                   THEN left[k] ELSE Missing]

-----------------------------------------------------------------------------
(* Creating a delta *)

DeltaType == {"delta", "rebase"}

Delta == [type: DeltaType, inserts: State, deletes: Object, updates: State]

DeltaCreate(type, new, old) ==
    [type    |-> type,
     inserts |-> KeysSetMinus(new, old),
     deletes |-> KeysSetMinus(old, new),
     updates |-> KeysSetIntersectAndValuesSetMinus(new, old)]

\* Fault variant: only the inserts are counted.
HasInserts(d) == \E k \in Key : HasKey(d.inserts, k)

\* Some insert, delete or update is in the delta.
HasOperations(d) ==
    \E k \in Key : \/ HasKey(d.inserts, k)
                   \/ HasKey(d.deletes, k)
                   \/ HasKey(d.updates, k)

-----------------------------------------------------------------------------
(* Merging a child delta into its parent delta.  Each phase is a conflict  *)
(* predicate (the phase returns false) and the parent it leaves otherwise. *)
(* Keys are independent of each other within a phase.                      *)

InsertConflict(p, inserts) ==
    \E k \in Key :
        /\ HasKey(inserts, k)
        /\ HasKey(p.inserts, k) \/ (~HasKey(p.deletes, k) /\ HasKey(p.updates, k))

MergeInserts(p, inserts) ==
    LET revived(k) == HasKey(inserts, k) /\ HasKey(p.deletes, k)
    IN  [type    |-> p.type,
         inserts |-> [k \in Key |-> IF HasKey(inserts, k) /\ ~revived(k)
                                    THEN inserts[k] ELSE p.inserts[k]],
         deletes |-> [k \in Key |-> IF revived(k) THEN Missing ELSE p.deletes[k]],
         updates |-> [k \in Key |-> IF revived(k) /\ p.deletes[k] # inserts[k]
                                    THEN inserts[k] ELSE p.updates[k]]]

\* Fault variant: an unknown value is compared like any other.
SameValue(parentValue, childValue) == childValue = parentValue

\* A value the child deletes agrees with the parent's, or is not known.
SameOrUnknown(parentValue, childValue) ==
    childValue = parentValue \/ childValue = Null

DeleteConflict(p, deletes) ==
    \E k \in Key :
        /\ HasKey(deletes, k)
        /\ \/ HasKey(p.inserts, k) /\ ~SameOrUnknown(p.inserts[k], deletes[k])
           \/ ~HasKey(p.inserts, k) /\ HasKey(p.deletes, k)
           \/ /\ ~HasKey(p.inserts, k) /\ ~HasKey(p.deletes, k)
              /\ HasKey(p.updates, k) /\ ~SameOrUnknown(p.updates[k], deletes[k])

\* Fault variant: the place holder goes to the updates.
MergeDeletesNullUpdate(p, deletes) ==
    LET undone(k)  == HasKey(deletes, k) /\ HasKey(p.inserts, k)
        unknown(k) == HasKey(deletes, k) /\ ~undone(k) /\ HasKey(p.updates, k)
    IN  [type    |-> p.type,
         inserts |-> [k \in Key |-> IF undone(k) THEN Missing ELSE p.inserts[k]],
         deletes |-> [k \in Key |-> IF HasKey(deletes, k) /\ ~undone(k)
                                    THEN deletes[k] ELSE p.deletes[k]],
         updates |-> [k \in Key |-> IF unknown(k) THEN Null ELSE p.updates[k]]]

\* Fault variant: the delete stays after it undid an insert.
MergeDeletesStays(p, deletes) ==
    LET undone(k)  == HasKey(deletes, k) /\ HasKey(p.inserts, k)
    IN  [type    |-> p.type,
         inserts |-> [k \in Key |-> IF undone(k) THEN Missing ELSE p.inserts[k]],
         deletes |-> [k \in Key |-> IF HasKey(deletes, k)
                                    THEN deletes[k] ELSE p.deletes[k]],
         updates |-> [k \in Key |-> IF HasKey(deletes, k) THEN Missing
                                    ELSE p.updates[k]]]

MergeDeletes(p, deletes) ==
    LET undone(k)  == HasKey(deletes, k) /\ HasKey(p.inserts, k)
        unknown(k) == HasKey(deletes, k) /\ ~undone(k) /\ HasKey(p.updates, k)
    IN  [type    |-> p.type,
         inserts |-> [k \in Key |-> IF undone(k) THEN Missing ELSE p.inserts[k]],
         deletes |-> [k \in Key |-> IF unknown(k) THEN Null
                                    ELSE IF HasKey(deletes, k) /\ ~undone(k)
                                         THEN deletes[k] ELSE p.deletes[k]],
         updates |-> [k \in Key |-> IF unknown(k) THEN Missing ELSE p.updates[k]]]

UpdateConflict(p, updates) ==
    \E k \in Key : /\ HasKey(updates, k)
                   /\ ~HasKey(p.inserts, k)
                   /\ HasKey(p.deletes, k)

\* Fault variant: the row the parent inserted keeps its value.
MergeUpdatesAside(p, updates) ==
    [type    |-> p.type,
     inserts |-> p.inserts,
     deletes |-> p.deletes,
     updates |-> [k \in Key |-> IF HasKey(updates, k)
                                THEN updates[k] ELSE p.updates[k]]]

MergeUpdates(p, updates) ==
    [type    |-> p.type,
     inserts |-> [k \in Key |-> IF HasKey(updates, k) /\ HasKey(p.inserts, k)
                                THEN updates[k] ELSE p.inserts[k]],
     deletes |-> p.deletes,
     updates |-> [k \in Key |-> IF HasKey(updates, k) /\ ~HasKey(p.inserts, k)
                                THEN updates[k] ELSE p.updates[k]]]

\* LCH_DeltaMerge: inserts, then deletes, then updates; any phase may fail.
MergeConflict(p, c) ==
    LET p1 == MergeInserts(p, c.inserts)
        p2 == MergeDeletes(p1, c.deletes)
    IN  \/ InsertConflict(p, c.inserts)
        \/ DeleteConflict(p1, c.deletes)
        \/ UpdateConflict(p2, c.updates)

DeltaMerge(p, c) ==
    MergeUpdates(MergeDeletes(MergeInserts(p, c.inserts), c.deletes), c.updates)

-----------------------------------------------------------------------------
(* Applying a delta to the rows one host has at the server (lib/table.c):  *)
(* a rebase first truncates them; then deletes, updates and inserts.       *)

PatchBase(d, rows) == IF d.type = "rebase" THEN EmptyObject ELSE rows

\* Every delete and update finds its row, and no insert meets one.
AppliesTo(d, rows) ==
    LET base == PatchBase(d, rows)
    IN  \A k \in Key :
            /\ HasKey(d.deletes, k) \/ HasKey(d.updates, k) => HasKey(base, k)
            /\ HasKey(d.inserts, k) /\ HasKey(base, k) => HasKey(d.deletes, k)

PatchedRows(d, rows) ==
    LET base    == PatchBase(d, rows)
        deleted == KeysSetMinus(base, d.deletes)
        updated == [k \in Key |-> IF HasKey(d.updates, k)
                                  THEN d.updates[k] ELSE deleted[k]]
    IN  [k \in Key |-> IF HasKey(d.inserts, k) THEN d.inserts[k] ELSE updated[k]]

-----------------------------------------------------------------------------
(* What a delta from state s to state t promises.                          *)

\* It applies to the rows s without a miss and leaves the rows t.
Takes(d, s, t) == AppliesTo(d, s) /\ PatchedRows(d, s) = t

\* It has the inserts and the deletes of the net change, where the deleted
\* value may be forgotten, and all its updates; an update that restores the
\* value the row had in s may stand.
NetEffect(d, s, t) ==
    \A k \in Key :
        /\ d.inserts[k] = (IF HasKey(s, k) THEN Missing ELSE t[k])
        /\ HasKey(d.deletes, k) <=> HasKey(s, k) /\ ~HasKey(t, k)
        /\ HasKey(d.deletes, k) => SameOrUnknown(s[k], d.deletes[k])
        /\ HasKey(d.updates, k) => HasKey(s, k) /\ HasKey(t, k) /\ d.updates[k] = t[k]
        /\ HasKey(s, k) /\ HasKey(t, k) /\ s[k] # t[k] => HasKey(d.updates, k)

=============================================================================
