-------------------------- MODULE LeechDeltaProofs --------------------------
(***************************************************************************)
(* Lemmas about LeechDelta and LeechRows: what deltas between two states   *)
(* promise, what the merge rules keep of it, what applying a delta does to *)
(* a state, and what the callbacks make of it in a destination table.      *)
(***************************************************************************)
EXTENDS LeechRows, SequenceTheorems, TLAPS

\* A delta computed between two states is a delta and has their net effect.
LEMMA DeltaCreateNetEffect ==
    ASSUME NEW s \in State, NEW t \in State, NEW type \in DeltaType
    PROVE  /\ DeltaCreate(type, t, s) \in Delta
           /\ NetEffect(DeltaCreate(type, t, s), s, t)
BY DEF DeltaCreate, KeysSetMinus, KeysSetIntersectAndValuesSetMinus, Delta,
       NetEffect, SameOrUnknown, HasKey, State, Object

\* A "delta" with the net effect from s to t takes the rows s to the rows t.
LEMMA NetEffectTakes ==
    ASSUME NEW s \in State, NEW t \in State, NEW d \in Delta,
           d.type = "delta", NetEffect(d, s, t)
    PROVE  Takes(d, s, t)
<1>1. PatchBase(d, s) = s
  BY DEF PatchBase
<1>2. AppliesTo(d, s)
  BY <1>1, DeltaAssumption DEF AppliesTo, NetEffect, HasKey, State, Delta, Object
<1>3. PatchedRows(d, s) = t
  BY <1>1, DeltaAssumption
     DEF PatchedRows, KeysSetMinus, NetEffect, HasKey, State, Delta, Object
<1> QED BY <1>2, <1>3 DEF Takes

-----------------------------------------------------------------------------
(* The merge rules.  Every rule speaks of one key, so each lemma fixes the *)
(* phases' conflict or the value of one object at one key.                 *)

\* Merging the delta of a commit from r to s with a child from s to t gives a
\* delta again.
LEMMA DeltaMergeType ==
    ASSUME NEW p \in Delta, NEW c \in Delta
    PROVE  /\ DeltaMerge(p, c) \in Delta
           /\ DeltaMerge(p, c).type = p.type
<1> DEFINE p1 == MergeInserts(p, c.inserts)
           p2 == MergeDeletes(p1, c.deletes)
<1>1. p1 \in Delta /\ p1.type = p.type
  BY DEF MergeInserts, Delta, State, Object, HasKey
<1>2. p2 \in Delta /\ p2.type = p.type
  <2> HIDE DEF p1
  <2> QED BY <1>1 DEF MergeDeletes, Delta, State, Object, HasKey
<1>3. MergeUpdates(p2, c.updates) \in Delta /\ MergeUpdates(p2, c.updates).type = p.type
  <2> HIDE DEF p2
  <2> QED BY <1>2 DEF MergeUpdates, Delta, State, Object, HasKey
<1> QED BY <1>3 DEF DeltaMerge

\* A commit's delta merges with a child that continues where it ends.
LEMMA MergeOfContinuation ==
    ASSUME NEW r \in State, NEW s \in State, NEW t \in State,
           NEW c \in Delta, NetEffect(c, s, t)
    PROVE  /\ ~MergeConflict(DeltaCreate("delta", s, r), c)
           /\ NetEffect(DeltaMerge(DeltaCreate("delta", s, r), c), r, t)
<1> DEFINE p  == DeltaCreate("delta", s, r)
           p1 == MergeInserts(p, c.inserts)
           p2 == MergeDeletes(p1, c.deletes)
           m  == MergeUpdates(p2, c.updates)
<1> USE DeltaAssumption
<1>1. /\ p \in Delta
      /\ \A k \in Key :
           /\ p.inserts[k] = (IF HasKey(r, k) THEN Missing ELSE s[k])
           /\ p.deletes[k] = (IF HasKey(s, k) THEN Missing ELSE r[k])
           /\ p.updates[k] = (IF HasKey(r, k) /\ s[k] # r[k] THEN s[k] ELSE Missing)
  BY DeltaCreateNetEffect
     DEF DeltaCreate, KeysSetMinus, KeysSetIntersectAndValuesSetMinus, HasKey, DeltaType
<1> HIDE DEF p
<1>2. ~InsertConflict(p, c.inserts)
  BY <1>1 DEF InsertConflict, NetEffect, HasKey, State, Delta, Object
<1>3. /\ p1 \in Delta
      /\ \A k \in Key :
           /\ p1.inserts[k] = (IF HasKey(r, k) THEN Missing
                               ELSE IF HasKey(s, k) THEN s[k] ELSE t[k])
           /\ p1.deletes[k] = (IF HasKey(s, k) \/ HasKey(t, k) THEN Missing ELSE r[k])
           /\ p1.updates[k] =
                (IF ~HasKey(r, k) THEN Missing
                 ELSE IF HasKey(s, k)
                      THEN IF s[k] # r[k] THEN s[k] ELSE Missing
                      ELSE IF HasKey(t, k) /\ t[k] # r[k] THEN t[k] ELSE Missing)
  BY <1>1 DEF MergeInserts, NetEffect, HasKey, State, Delta, Object
<1> HIDE DEF p1
<1>4. ~DeleteConflict(p1, c.deletes)
  BY <1>3 DEF DeleteConflict, SameOrUnknown, NetEffect, HasKey, State, Delta, Object
<1>5. /\ p2 \in Delta
      /\ \A k \in Key :
           /\ p2.inserts[k] = (IF HasKey(r, k) THEN Missing
                               ELSE IF HasKey(s, k) /\ HasKey(t, k) THEN s[k] ELSE t[k])
           /\ HasKey(p2.deletes, k) <=> HasKey(r, k) /\ ~HasKey(t, k)
           /\ HasKey(p2.deletes, k) => SameOrUnknown(r[k], p2.deletes[k])
           /\ p2.updates[k] =
                (IF ~HasKey(r, k) \/ ~HasKey(t, k) THEN Missing
                 ELSE IF HasKey(s, k)
                      THEN IF s[k] # r[k] THEN s[k] ELSE Missing
                      ELSE IF t[k] # r[k] THEN t[k] ELSE Missing)
  BY <1>3 DEF MergeDeletes, SameOrUnknown, NetEffect, HasKey, State, Delta, Object
<1> HIDE DEF p2
<1>6. ~UpdateConflict(p2, c.updates)
  BY <1>5 DEF UpdateConflict, NetEffect, HasKey, State, Delta, Object
<1>7. NetEffect(m, r, t)
  BY <1>5 DEF MergeUpdates, SameOrUnknown, NetEffect, HasKey, State, Delta, Object
<1> QED
  BY <1>2, <1>4, <1>6, <1>7 DEF MergeConflict, DeltaMerge, p, p1, p2

\* Rows stay rows, whatever is applied to them.
LEMMA PatchedRowsType ==
    ASSUME NEW d \in Delta, NEW rows \in State
    PROVE  PatchedRows(d, rows) \in State
<1>1. PatchBase(d, rows) \in State
  BY DEF PatchBase, EmptyObject, State
<1> QED BY <1>1 DEF PatchedRows, KeysSetMinus, Delta, State, HasKey

\* A delta without operations is one between equal states.
LEMMA NoOperations ==
    ASSUME NEW s \in State, NEW t \in State, NEW type,
           ~HasOperations(DeltaCreate(type, t, s))
    PROVE  s = t
BY DEF HasOperations, DeltaCreate, KeysSetMinus, KeysSetIntersectAndValuesSetMinus,
       HasKey, State

\* A rebase makes any rows those of the state it was made of.
LEMMA RebaseTakes ==
    ASSUME NEW t \in State, NEW rows \in State
    PROVE  Takes(DeltaCreate("rebase", t, EmptyObject), rows, t)
BY DEF Takes, AppliesTo, PatchedRows, PatchBase, DeltaCreate, EmptyObject, KeysSetMinus,
       KeysSetIntersectAndValuesSetMinus, HasKey, State

-----------------------------------------------------------------------------
(* Rows in a destination table *)

\* The rows of a key that is there.
One(v) == <<v>>

LEMMA OneRow ==
    ASSUME NEW v
    PROVE  /\ One(v) # <<>> /\ One(v) = One(v) \o <<>>
           /\ Tail(One(v)) = <<>>
           /\ Head(One(v)) = v
           /\ Len(One(v)) = 1
           /\ Append(<<>>, v) = One(v)
           /\ \A w : /\ <<w>> \o Tail(One(v)) = One(w)
                    /\ [i \in DOMAIN One(v) |-> w] = One(w)
<1>1. <<v>> \in Seq({v})
  OBVIOUS
<1>2. \A w : <<w>> \in Seq({w}) /\ <<w>> \o <<>> = <<w>>
  OBVIOUS
<1>3. Tail(<<v>>) = <<>> /\ Head(<<v>>) = v /\ Len(<<v>>) = 1 /\ <<v>> # <<>> /\ Append(<<>>, v) = <<v>>
  OBVIOUS
<1>4. \A w : [i \in DOMAIN <<v>> |-> w] = <<w>>
  OBVIOUS
<1> QED BY <1>1, <1>2, <1>3, <1>4 DEF One

\* No two of the delta's objects have a key in common.
Separate(d) ==
    \A k \in Key : /\ HasKey(d.inserts, k) => ~HasKey(d.deletes, k) /\ ~HasKey(d.updates, k)
                   /\ HasKey(d.deletes, k) => ~HasKey(d.updates, k)

LEMMA NetEffectSeparate ==
    ASSUME NEW s \in State, NEW t \in State, NEW d \in Delta, NetEffect(d, s, t)
    PROVE  Separate(d)
BY DEF Separate, NetEffect, HasKey, State, Delta, Object

\* The callbacks do what LeechDelta says, when every row that the delta deletes
\* or updates is there and none that it inserts.  Rows are kept by key, so a
\* delta's effect on one key is all there is to it.
LEMMA SeparateApplied ==
    ASSUME NEW s \in State, NEW d \in Delta, d.type = "delta", Separate(d), AppliesTo(d, s)
    PROVE  /\ ~Misses(d, RowsOf(s))
           /\ CsvApplied(d, RowsOf(s)) = RowsOf(PatchedRows(d, s))
           /\ SqlApplied(d, RowsOf(s)) = RowsOf(PatchedRows(d, s))
<1> DEFINE base    == RowsOf(s)
           deleted == CsvDelete(base, d.deletes)
           removed == SqlDelete(base, d.deletes)
           csv     == CsvUpdate(deleted, d.updates)
           sql     == SqlUpdate(removed, d.updates)
           new     == PatchedRows(d, s)
<1>1. \A k \in Key :
        /\ new[k] = IF HasKey(d.inserts, k) THEN d.inserts[k]
                    ELSE IF HasKey(d.updates, k) THEN d.updates[k]
                    ELSE IF HasKey(d.deletes, k) THEN Missing ELSE s[k]
        /\ HasKey(d.deletes, k) \/ HasKey(d.updates, k) => HasKey(s, k)
        /\ HasKey(d.inserts, k) => /\ ~HasKey(s, k)
                                   /\ ~HasKey(d.deletes, k) /\ ~HasKey(d.updates, k)
        /\ HasKey(d.deletes, k) => ~HasKey(d.updates, k)
  <2>1. PatchBase(d, s) = s
    BY DEF PatchBase
  <2> QED BY <2>1 DEF PatchedRows, KeysSetMinus, AppliesTo, Separate
<1>2. Truncated(d, base) = base
  BY DEF Truncated
<1>3. \A k \in Key : base[k] = IF HasKey(s, k) THEN One(s[k]) ELSE <<>>
  BY DEF RowsOf, One
<1>4. \A k \in Key : RowsOf(new)[k] = IF HasKey(new, k) THEN One(new[k]) ELSE <<>>
  BY DEF RowsOf, One
<1> HIDE DEF base, new
<1>5. \A k \in Key : /\ deleted[k] = IF HasKey(s, k) /\ ~HasKey(d.deletes, k) THEN One(s[k]) ELSE <<>>
                     /\ removed[k] = deleted[k]
  <2> TAKE k \in Key
  <2>1. deleted[k] = IF HasKey(d.deletes, k) /\ base[k] # <<>> THEN Tail(base[k]) ELSE base[k]
    BY DEF CsvDelete
  <2>2. removed[k] = IF HasKey(d.deletes, k) THEN <<>> ELSE base[k]
    BY DEF SqlDelete
  <2> HIDE DEF deleted, removed
  <2>3. CASE HasKey(d.deletes, k)
    BY <1>1, <1>3, <2>1, <2>2, <2>3, OneRow
  <2>4. CASE ~HasKey(d.deletes, k)
    BY <1>3, <2>1, <2>2, <2>4
  <2> QED BY <2>3, <2>4
<1>6. ~Misses(d, base)
  <2> SUFFICES ASSUME NEW k \in Key
               PROVE  /\ HasKey(d.deletes, k) => base[k] # <<>>
                      /\ HasKey(d.updates, k) => deleted[k] # <<>>
    BY <1>2 DEF Misses
  <2> HIDE DEF deleted
  <2>1. HasKey(d.deletes, k) => base[k] # <<>>
    BY <1>1, <1>3, OneRow
  <2>2. HasKey(d.updates, k) => deleted[k] # <<>>
    BY <1>1, <1>5, OneRow
  <2> QED BY <2>1, <2>2
<1>7. \A k \in Key :
        /\ csv[k] = IF HasKey(d.updates, k) THEN One(d.updates[k]) ELSE deleted[k]
        /\ sql[k] = csv[k]
  <2> TAKE k \in Key
  <2>1. csv[k] = IF HasKey(d.updates, k) /\ deleted[k] # <<>>
                 THEN <<d.updates[k]>> \o Tail(deleted[k]) ELSE deleted[k]
    BY DEF CsvUpdate
  <2>2. sql[k] = IF HasKey(d.updates, k)
                 THEN [i \in DOMAIN removed[k] |-> d.updates[k]] ELSE removed[k]
    BY DEF SqlUpdate
  <2>3. removed[k] = deleted[k]
    BY <1>5
  <2> HIDE DEF csv, sql, deleted, removed
  <2>4. CASE HasKey(d.updates, k)
    <3>1. deleted[k] = One(s[k])
      BY <1>1, <1>5, <2>4
    <3>2. /\ <<d.updates[k]>> \o Tail(One(s[k])) = One(d.updates[k])
          /\ [i \in DOMAIN One(s[k]) |-> d.updates[k]] = One(d.updates[k])
          /\ One(s[k]) # <<>>
      BY OneRow
    <3>3. csv[k] = One(d.updates[k])
      BY <2>1, <2>4, <3>1, <3>2
    <3>4. sql[k] = One(d.updates[k])
      BY <2>2, <2>3, <2>4, <3>1, <3>2
    <3> QED BY <2>4, <3>3, <3>4
  <2>5. CASE ~HasKey(d.updates, k)
    BY <2>1, <2>2, <2>3, <2>5
  <2> QED BY <2>4, <2>5
<1> HIDE DEF csv, sql, deleted
<1>8. ASSUME NEW changed, changed = csv \/ changed = sql
      PROVE  Insert(changed, d.inserts) = RowsOf(new)
  <2> SUFFICES ASSUME NEW k \in Key
               PROVE  Insert(changed, d.inserts)[k] = RowsOf(new)[k]
    BY DEF Insert, RowsOf
  <2>1. changed[k] = IF HasKey(d.updates, k) THEN One(d.updates[k])
                     ELSE IF HasKey(s, k) /\ ~HasKey(d.deletes, k) THEN One(s[k]) ELSE <<>>
    BY <1>5, <1>7, <1>8
  <2>2. Insert(changed, d.inserts)[k] = IF HasKey(d.inserts, k)
                                        THEN Append(changed[k], d.inserts[k]) ELSE changed[k]
    BY DEF Insert
  <2>3. CASE HasKey(d.inserts, k)
    <3>1. changed[k] = <<>> /\ new[k] = d.inserts[k] /\ HasKey(new, k)
      BY <1>1, <2>1, <2>3 DEF HasKey
    <3> QED BY <1>4, <2>2, <2>3, <3>1, OneRow
  <2>4. CASE ~HasKey(d.inserts, k) /\ HasKey(d.updates, k)
    BY <1>1, <1>4, <2>1, <2>2, <2>4 DEF HasKey
  <2>5. CASE ~HasKey(d.inserts, k) /\ ~HasKey(d.updates, k)
    BY <1>1, <1>4, <2>1, <2>2, <2>5 DEF HasKey
  <2> QED BY <2>3, <2>4, <2>5
<1>9. CsvApplied(d, base) = Insert(csv, d.inserts) /\ SqlApplied(d, base) = Insert(sql, d.inserts)
  BY <1>2 DEF CsvApplied, SqlApplied, csv, sql, deleted
<1>10. CsvApplied(d, base) = RowsOf(new) /\ SqlApplied(d, base) = RowsOf(new)
  BY <1>8, <1>9
<1> QED BY <1>6, <1>10 DEF base, new

\* So does a delta between two states.
LEMMA DeltaApplied ==
    ASSUME NEW old \in State, NEW new \in State
    PROVE  LET d == DeltaCreate("delta", new, old)
           IN  /\ ~Misses(d, RowsOf(old))
               /\ CsvApplied(d, RowsOf(old)) = RowsOf(new)
               /\ SqlApplied(d, RowsOf(old)) = RowsOf(new)
<1> DEFINE d == DeltaCreate("delta", new, old)
<1>1. d \in Delta /\ NetEffect(d, old, new) /\ d.type = "delta"
  BY DeltaCreateNetEffect DEF DeltaType, DeltaCreate
<1> HIDE DEF d
<1>2. Separate(d) /\ AppliesTo(d, old) /\ PatchedRows(d, old) = new
  BY <1>1, NetEffectTakes, NetEffectSeparate DEF Takes
<1>3. /\ ~Misses(d, RowsOf(old))
      /\ CsvApplied(d, RowsOf(old)) = RowsOf(new)
      /\ SqlApplied(d, RowsOf(old)) = RowsOf(new)
  BY <1>1, <1>2, SeparateApplied
<1> QED BY <1>3 DEF d

\* A rebase makes the rows the state it carries, whatever rows there were.
LEMMA RebaseApplied ==
    ASSUME NEW new \in State, NEW rowsThere
    PROVE  LET d == DeltaCreate("rebase", new, EmptyObject)
           IN  /\ ~Misses(d, rowsThere)
               /\ CsvApplied(d, rowsThere) = RowsOf(new)
               /\ SqlApplied(d, rowsThere) = RowsOf(new)
<1> DEFINE d    == DeltaCreate("rebase", new, EmptyObject)
           none == RowsOf(EmptyObject)
<1>1. \A k \in Key : /\ d.inserts[k] = new[k]
                     /\ ~HasKey(d.deletes, k)
                     /\ ~HasKey(d.updates, k)
  BY DEF DeltaCreate, KeysSetMinus, KeysSetIntersectAndValuesSetMinus, HasKey, EmptyObject
<1>2. Truncated(d, rowsThere) = none
  <2>1. d.type = "rebase"
    BY DEF DeltaCreate
  <2> QED BY <2>1 DEF Truncated
<1>3. \A k \in Key : none[k] = <<>>
  BY DEF RowsOf, HasKey, EmptyObject
<1>4. none = [k \in Key |-> none[k]]
  BY DEF RowsOf
<1> HIDE DEF d, none
<1>5. ~Misses(d, rowsThere)
  BY <1>1 DEF Misses
<1>6. /\ CsvDelete(none, d.deletes) = none
      /\ SqlDelete(none, d.deletes) = none
  BY <1>1, <1>4 DEF CsvDelete, SqlDelete
<1>7. /\ CsvUpdate(none, d.updates) = none
      /\ SqlUpdate(none, d.updates) = none
  BY <1>1, <1>4 DEF CsvUpdate, SqlUpdate
<1>8. /\ CsvApplied(d, rowsThere) = Insert(none, d.inserts)
      /\ SqlApplied(d, rowsThere) = Insert(none, d.inserts)
  BY <1>2, <1>6, <1>7 DEF CsvApplied, SqlApplied
<1>9. Insert(none, d.inserts) = RowsOf(new)
  <2> SUFFICES ASSUME NEW k \in Key
               PROVE  Insert(none, d.inserts)[k] = RowsOf(new)[k]
    BY DEF Insert, RowsOf
  <2>1. Insert(none, d.inserts)[k] = IF HasKey(new, k) THEN Append(<<>>, new[k]) ELSE <<>>
    BY <1>1, <1>3 DEF Insert, HasKey
  <2>2. RowsOf(new)[k] = IF HasKey(new, k) THEN One(new[k]) ELSE <<>>
    BY DEF RowsOf, One
  <2> QED BY <2>1, <2>2, OneRow
<1> QED BY <1>5, <1>8, <1>9 DEF d

\* The rows of a state do not violate the primary key.
LEMMA RowsOfKeyed ==
    ASSUME NEW s \in State
    PROVE  ~PrimaryKeyViolated(RowsOf(s))
<1>1. \A k \in Key : RowsOf(s)[k] = IF HasKey(s, k) THEN One(s[k]) ELSE <<>>
  BY DEF RowsOf, One
<1> QED BY <1>1, OneRow DEF PrimaryKeyViolated

LEMMA RowsOfType ==
    ASSUME NEW s \in State
    PROVE  RowsOf(s) \in HostRows
<1> SUFFICES ASSUME NEW k \in Key
             PROVE  RowsOf(s)[k] \in Seq(Value)
  BY DEF RowsOf, HostRows
<1>1. CASE HasKey(s, k)
  <2>1. s[k] \in Value
    BY <1>1 DEF State, HasKey
  <2> QED BY <1>1, <2>1 DEF RowsOf
<1>2. CASE ~HasKey(s, k)
  BY <1>2 DEF RowsOf
<1> QED BY <1>1, <1>2

\* What a transaction makes of rows are rows.
LEMMA AppliedType ==
    ASSUME NEW d \in Delta, NEW base \in HostRows
    PROVE  CsvApplied(d, base) \in HostRows /\ SqlApplied(d, base) \in HostRows
<1> DEFINE start == Truncated(d, base)
<1>1. start \in HostRows
  <2>1. EmptyObject \in State
    BY DEF EmptyObject, State
  <2> QED BY <2>1, RowsOfType DEF Truncated
<1> HIDE DEF start
<1>2. CsvDelete(start, d.deletes) \in HostRows
  BY <1>1, HeadTailProperties DEF CsvDelete, HostRows
<1>3. SqlDelete(start, d.deletes) \in HostRows
  BY <1>1 DEF SqlDelete, HostRows
<1>4. ASSUME NEW some \in HostRows
      PROVE  CsvUpdate(some, d.updates) \in HostRows
  <2> SUFFICES ASSUME NEW k \in Key, HasKey(d.updates, k), some[k] # <<>>
               PROVE  <<d.updates[k]>> \o Tail(some[k]) \in Seq(Value)
    BY DEF CsvUpdate, HostRows
  <2>1. d.updates[k] \in Value
    BY DEF Delta, State, HasKey
  <2>2. <<d.updates[k]>> \in Seq(Value)
    BY <2>1
  <2>3. Tail(some[k]) \in Seq(Value)
    BY HeadTailProperties DEF HostRows
  <2> QED BY <2>2, <2>3
<1>5. ASSUME NEW some \in HostRows
      PROVE  SqlUpdate(some, d.updates) \in HostRows
  <2> SUFFICES ASSUME NEW k \in Key, HasKey(d.updates, k)
               PROVE  [i \in DOMAIN some[k] |-> d.updates[k]] \in Seq(Value)
    BY DEF SqlUpdate, HostRows
  <2>1. d.updates[k] \in Value
    BY DEF Delta, State, HasKey
  <2>2. some[k] \in Seq(Value)
    BY DEF HostRows
  <2>3. DOMAIN some[k] = 1..Len(some[k]) /\ Len(some[k]) \in Nat
    BY <2>2
  <2> QED BY <2>1, <2>3
<1>6. ASSUME NEW some \in HostRows
      PROVE  Insert(some, d.inserts) \in HostRows
  <2> SUFFICES ASSUME NEW k \in Key, HasKey(d.inserts, k)
               PROVE  Append(some[k], d.inserts[k]) \in Seq(Value)
    BY DEF Insert, HostRows
  <2>1. d.inserts[k] \in Value
    BY DEF Delta, State, HasKey
  <2> QED BY <2>1 DEF HostRows
<1> QED BY <1>2, <1>3, <1>4, <1>5, <1>6 DEF CsvApplied, SqlApplied, start

=============================================================================
