-------------------------- MODULE LeechMergeProofs --------------------------
(***************************************************************************)
(* Proofs about LeechMerge's walk, for every set of keys and values and    *)
(* every number of blocks.                                                 *)
(***************************************************************************)
EXTENDS LeechMerge, LeechDeltaProofs

-----------------------------------------------------------------------------
(* The walk over the blocks. *)

IInv ==
    /\ TypeOK
    /\ child.type = "delta"
    /\ ~conflict
    /\ MergedIsNetChange

\* The empty child says that nothing happened after the head.
LEMMA EmptyChild ==
    ASSUME NEW s \in State
    PROVE  EmptyDelta \in Delta /\ EmptyDelta.type = "delta" /\ NetEffect(EmptyDelta, s, s)
BY DeltaAssumption
   DEF EmptyDelta, EmptyObject, DeltaCreate, KeysSetMinus, KeysSetIntersectAndValuesSetMinus,
       Delta, DeltaType, NetEffect, HasKey, State, Object

LEMMA InitIInv == Init => IInv
<1> SUFFICES ASSUME Init PROVE IInv
  OBVIOUS
<1>1. history[Length] \in State /\ Length \in 0..Length
  BY LengthAssumption DEF Init
<1> QED
  BY <1>1, EmptyChild DEF Init, IInv, TypeOK, MergedIsNetChange

LEMMA NextIInv == IInv /\ [Next]_vars => IInv'
<1> SUFFICES ASSUME IInv, [Next]_vars PROVE IInv'
  OBVIOUS
<1>1. CASE MergeParent
  <2> DEFINE r == history[at - 1]
             s == history[at]
             t == history[Length]
  <2>1. /\ at - 1 \in 0..Length /\ at \in 0..Length /\ Length \in 0..Length
        /\ r \in State /\ s \in State /\ t \in State
    BY <1>1, LengthAssumption DEF MergeParent, IInv, TypeOK
  <2>2. child \in Delta /\ NetEffect(child, s, t)
    BY DEF IInv, TypeOK, MergedIsNetChange
  <2>3. /\ BlockDelta(at) \in Delta
        /\ BlockDelta(at).type = "delta"
        /\ BlockDelta(at) = DeltaCreate("delta", s, r)
    BY <2>1, DeltaCreateNetEffect DEF BlockDelta, DeltaType, DeltaCreate
  <2>4. /\ ~MergeConflict(BlockDelta(at), child)
        /\ NetEffect(DeltaMerge(BlockDelta(at), child), r, t)
    <3> HIDE DEF r, s, t
    <3> QED BY <2>1, <2>2, <2>3, MergeOfContinuation
  <2>5. /\ child' = DeltaMerge(BlockDelta(at), child)
        /\ at' = at - 1 /\ conflict' = conflict /\ history' = history
    BY <1>1, <2>4 DEF MergeParent, IInv
  <2>6. child' \in Delta /\ child'.type = "delta"
    BY <2>2, <2>3, <2>5, DeltaMergeType
  <2>7. TypeOK'
    BY <2>1, <2>5, <2>6 DEF IInv, TypeOK
  <2>8. MergedIsNetChange'
    BY <2>4, <2>5 DEF MergedIsNetChange
  <2> QED
    BY <2>5, <2>6, <2>7, <2>8 DEF IInv
<1>2. CASE UNCHANGED vars
  BY <1>2 DEF vars, IInv, TypeOK, MergedIsNetChange
<1> QED
  BY <1>1, <1>2 DEF Next

LEMMA SpecIInv == Spec => []IInv
BY InitIInv, NextIInv, PTL DEF Spec

\* The walk's variables keep their types.
THEOREM TypeCorrect == Spec => []TypeOK
<1>1. IInv => TypeOK
  BY DEF IInv
<1> QED BY <1>1, SpecIInv, PTL

\* A diff over any number of blocks of any history never fails on a merge rule.
THEOREM NoConflict == Spec => []MergeNeverConflicts
<1>1. IInv => MergeNeverConflicts
  BY DEF IInv, MergeNeverConflicts
<1> QED BY <1>1, SpecIInv, PTL

\* The merged delta is the net change between any two blocks of a history.
THEOREM NetChange == Spec => []MergedIsNetChange
<1>1. IInv => MergedIsNetChange
  BY DEF IInv
<1> QED BY <1>1, SpecIInv, PTL

\* The merged delta takes a server from any block of a history to its head.
THEOREM TakesServerToHead == Spec => []MergedTakesServerToHead
<1>1. ASSUME IInv PROVE MergedTakesServerToHead
  <2>1. /\ history[at] \in State /\ history[Length] \in State
        /\ child \in Delta /\ child.type = "delta"
        /\ NetEffect(child, history[at], history[Length])
    BY <1>1, LengthAssumption DEF IInv, TypeOK, MergedIsNetChange
  <2> QED BY <2>1, NetEffectTakes DEF MergedTakesServerToHead
<1> QED BY <1>1, SpecIInv, PTL

=============================================================================
