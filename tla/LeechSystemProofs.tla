-------------------------- MODULE LeechSystemProofs -------------------------
(***************************************************************************)
(* Proofs about LeechChain, for any number of processes, tables, keys,     *)
(* blocks and faults, and any chain_length, whatever commands run at the   *)
(* same time and are interrupted: the types; that HEAD never names a block *)
(* that is being written, or whose writing was cut off; that blocks are    *)
(* linked backwards only.  When one process at a time commits and purges,  *)
(* moreover, whatever faults it meets: HEAD keeps its block, which loads   *)
(* unless a short write spoiled it, and a purge keeps the newest           *)
(* chain_length blocks of the chain.  When commits are not cut short or    *)
(* spoiled either, whatever reads and purges meanwhile: what a patch does  *)
(* to a server, and what a history tells.                                  *)
(*                                                                         *)
(* From these follow, in the last part, the proofs about LeechSystem, a    *)
(* host and the server together, whose CSV files may be torn: the types;   *)
(* that the server has what its last known file names; what a rebase       *)
(* restores.                                                               *)
(***************************************************************************)
EXTENDS LeechSystem, LeechDeltaProofs, LeechInduction, FiniteSetTheorems, TLAPS

-----------------------------------------------------------------------------
(* Types.  What takes an argument: a commit that has started finds a free  *)
(* identifier when it creates its block, and a history only tells values,  *)
(* for no delta of a commit has forgotten a value it deletes.              *)

CommitDelta   == [type: {"delta"}, inserts: State, deletes: State, updates: State]
CommitPayload == [Table -> CommitDelta \cup {None}]
CommitBlock   == [parent: Link, payload: CommitPayload]

CommittingPc == {"load", "open snapshot", "write snapshot", "open block"}

PayloadOK(me) ==
    me.pc \in CommittingPc \cup {"write block"} => me.payload \in CommitPayload

TypeInv ==
    /\ TypeOK
    /\ IsFiniteSet(Committing)
    /\ created + Cardinality(Committing) <= MaxBlocks
    /\ \A b \in BlockId : blocks[b] \in CommitBlock \cup {None, Torn, Spoiled}
    /\ \A p \in Process : PayloadOK(local[p])

LEMMA TypeInvInit == Init => TypeInv
<1> SUFFICES ASSUME Init PROVE TypeInv
  OBVIOUS
<1>1. EmptyObject \in State
  BY DEF EmptyObject, State
<1>2. \A p \in Process : local[p] = Idle /\ Idle \in Local /\ Idle.pc = "idle"
  BY DEF Init, Local, RestLocal, Idle
<1>3. TypeOK
  BY <1>1, <1>2, ChainAssumption DEF Init, TypeOK, Link, Tip, Genesis
<1>4. Committing = {}
  BY <1>2 DEF Committing
<1>5. IsFiniteSet(Committing) /\ Cardinality(Committing) = 0
  BY <1>4, FS_EmptySet
<1>6. \A p \in Process : PayloadOK(local[p])
  BY <1>2 DEF PayloadOK, CommittingPc
<1> QED BY <1>3, <1>5, <1>6, ChainAssumption DEF Init, TypeInv

\* What a command has in memory, by how far it is.
LEMMA LocalKinds ==
    ASSUME NEW me \in Local
    PROVE  /\ me.pc \in CommittingPc \cup {"write block", "open head", "write head"} =>
                me \in CommitLocal
           /\ me.pc \in {"purge", "walk", "read", "list", "delete"} => me \in PurgeLocal
           /\ me.pc \in {"diff", "merge", "rebase", "patched"} => me \in PatchLocal
           /\ me.pc \in {"history", "trace", "recall", "told"} => me \in HistoryLocal
<1> USE DEF CommittingPc
<1>1. me \in RestLocal => me.pc \in {"idle", "failed", "crashed"}
  BY DEF RestLocal, Idle
<1>2. me \in CommitLocal =>
        me.pc \in CommittingPc \cup {"write block", "open head", "write head"}
  BY DEF CommitLocal
<1>3. me \in PurgeLocal => me.pc \in {"purge", "walk", "read", "list", "delete"}
  BY DEF PurgeLocal
<1>4. me \in PatchLocal => me.pc \in {"diff", "merge", "rebase", "patched"}
  BY DEF PatchLocal
<1>5. me \in HistoryLocal => me.pc \in {"history", "trace", "recall", "told"}
  BY DEF HistoryLocal
<1>6. \/ me \in RestLocal \/ me \in CommitLocal \/ me \in PurgeLocal
      \/ me \in PatchLocal \/ me \in HistoryLocal
  BY DEF Local
<1> QED BY <1>1, <1>2, <1>3, <1>4, <1>5, <1>6

LEMMA LocalFields ==
    ASSUME NEW me \in Local
    PROVE  /\ me.pc = "load" =>
                me.todo \subseteq Table /\ me.payload \in Payload /\ me.seen \in [Table -> State]
           /\ me.pc \in {"open snapshot", "write snapshot"} =>
                /\ me.table \in Table /\ me.todo \subseteq Table
                /\ me.payload \in Payload /\ me.seen \in [Table -> State]
           /\ me.pc = "open block" =>
                me.parent \in Link /\ me.payload \in Payload /\ me.seen \in [Table -> State]
           /\ me.pc = "write block" =>
                /\ me.id \in BlockId /\ me.parent \in Link
                /\ me.payload \in Payload /\ me.seen \in [Table -> State]
           /\ me.pc \in {"open head", "write head"} => me.id \in BlockId
           /\ me.pc \in {"walk", "read"} => me.at \in Link /\ me.keep \subseteq BlockId
           /\ me.pc = "list" => me.keep \subseteq BlockId
           /\ me.pc = "delete" => me.doomed \subseteq BlockId
           /\ me.pc = "diff" => me.goal \in Tip
           /\ me.pc = "merge" =>
                /\ me.goal \in Tip /\ me.tables \subseteq Table /\ me.tip \in Link
                /\ me.at \in Link /\ me.child \in Payload /\ me.kept \in Seq(Payload)
           /\ me.pc = "rebase" => me.todo \subseteq Table /\ me.payload \in Payload
           /\ me.pc = "patched" => me.goal \in Tip /\ me.tip \in Link /\ me.patch \in Seq(Payload)
           /\ me.pc = "history" => me.ask \in Ask
           /\ me.pc \in {"trace", "recall", "told"} =>
                /\ me.ask \in Ask /\ me.tip \in Link /\ me.at \in Link
                /\ me.found \in Seq(Entry)
<1>1. me \in CommitLocal =>
        /\ me.pc = "load" =>
             me.todo \subseteq Table /\ me.payload \in Payload /\ me.seen \in [Table -> State]
        /\ me.pc \in {"open snapshot", "write snapshot"} =>
             /\ me.table \in Table /\ me.todo \subseteq Table
             /\ me.payload \in Payload /\ me.seen \in [Table -> State]
        /\ me.pc = "open block" =>
             me.parent \in Link /\ me.payload \in Payload /\ me.seen \in [Table -> State]
        /\ me.pc = "write block" =>
             /\ me.id \in BlockId /\ me.parent \in Link
             /\ me.payload \in Payload /\ me.seen \in [Table -> State]
        /\ me.pc \in {"open head", "write head"} => me.id \in BlockId
  BY DEF CommitLocal
<1>2. me \in PurgeLocal =>
        /\ me.pc \in {"walk", "read"} => me.at \in Link /\ me.keep \subseteq BlockId
        /\ me.pc = "list" => me.keep \subseteq BlockId
        /\ me.pc = "delete" => me.doomed \subseteq BlockId
  BY DEF PurgeLocal
<1>3. me \in PatchLocal =>
        /\ me.pc = "diff" => me.goal \in Tip
        /\ me.pc = "merge" =>
             /\ me.goal \in Tip /\ me.tables \subseteq Table /\ me.tip \in Link
             /\ me.at \in Link /\ me.child \in Payload /\ me.kept \in Seq(Payload)
        /\ me.pc = "rebase" => me.todo \subseteq Table /\ me.payload \in Payload
        /\ me.pc = "patched" => me.goal \in Tip /\ me.tip \in Link /\ me.patch \in Seq(Payload)
  BY DEF PatchLocal
<1>4. me \in HistoryLocal =>
        /\ me.pc = "history" => me.ask \in Ask
        /\ me.pc \in {"trace", "recall", "told"} =>
             /\ me.ask \in Ask /\ me.tip \in Link /\ me.at \in Link
             /\ me.found \in Seq(Entry)
  BY DEF HistoryLocal
<1>5. /\ me.pc \in CommittingPc \cup {"write block", "open head", "write head"} =>
             me \in CommitLocal
      /\ me.pc \in {"purge", "walk", "read", "list", "delete"} => me \in PurgeLocal
      /\ me.pc \in {"diff", "merge", "rebase", "patched"} => me \in PatchLocal
      /\ me.pc \in {"history", "trace", "recall", "told"} => me \in HistoryLocal
  BY LocalKinds
<1> QED BY <1>1, <1>2, <1>3, <1>4, <1>5 DEF CommittingPc

\* A command's step that creates no block and starts no commit.
LEMMA TypeStep ==
    ASSUME TypeInv, NEW p \in Process, NEW next \in Local, Become(p, next), PayloadOK(next),
           next.pc \in CommittingPc => local[p].pc \in CommittingPc,
           config' \subseteq Table, created' = created, faults' \in 0..MaxFaults,
           snapshot' \in [Table -> State \cup {Torn}],
           blocks' \in [BlockId -> CommitBlock \cup {None, Torn, Spoiled}],
           head' \in Link, stateAt' \in [Tip -> [Table -> State]]
    PROVE  TypeInv'
<1>1. local' = [local EXCEPT ![p] = next] /\ local \in [Process -> Local]
  BY DEF Become, TypeInv, TypeOK
<1>2. local' \in [Process -> Local]
  BY <1>1
<1>3. CommitPayload \subseteq Payload
  BY DEF CommitPayload, CommitDelta, Payload, Delta, DeltaType, Object, State
<1>4. CommitBlock \subseteq Block
  BY <1>3 DEF CommitBlock, Block
<1>5. TypeOK'
  BY <1>2, <1>4 DEF TypeInv, TypeOK
<1>6. Committing' \subseteq Committing
  BY <1>1 DEF Committing, CommittingPc
<1>7. IsFiniteSet(Committing') /\ Cardinality(Committing') <= Cardinality(Committing)
  BY <1>6, FS_Subset DEF TypeInv
<1>8. Cardinality(Committing) \in Nat /\ Cardinality(Committing') \in Nat
  BY <1>7, FS_CardinalityType DEF TypeInv
<1>9. created' + Cardinality(Committing') <= MaxBlocks
  BY <1>7, <1>8, ChainAssumption DEF TypeInv, TypeOK
<1>10. \A q \in Process : PayloadOK(local'[q])
  BY <1>1 DEF TypeInv
<1> QED BY <1>5, <1>7, <1>9, <1>10 DEF TypeInv

\* The same of a step that writes no file.
LEMMA TypeMemoryStep ==
    ASSUME TypeInv, NEW p \in Process, NEW next \in Local, Become(p, next), PayloadOK(next),
           next.pc \in CommittingPc => local[p].pc \in CommittingPc,
           UNCHANGED <<config, files, created, stateAt>>, faults' \in 0..MaxFaults
    PROVE  TypeInv'
<1>1. UNCHANGED <<config, snapshot, blocks, head, created, stateAt>>
  BY DEF files
<1>2. blocks' \in [BlockId -> CommitBlock \cup {None, Torn, Spoiled}]
  BY <1>1 DEF TypeInv, TypeOK
<1> QED BY <1>1, <1>2, TypeStep DEF TypeInv, TypeOK

LEMMA DeltaCreateCommits ==
    ASSUME NEW new \in State, NEW old \in State
    PROVE  DeltaCreate("delta", new, old) \in CommitDelta
BY DEF DeltaCreate, KeysSetMinus, KeysSetIntersectAndValuesSetMinus, CommitDelta, HasKey, State

LEMMA CommitPayloadType == CommitPayload \subseteq Payload
BY DEF CommitPayload, CommitDelta, Payload, Delta, DeltaType, Object, State

LEMMA StateAfterType ==
    ASSUME stateAt \in [Tip -> [Table -> State]], NEW parent, NEW me,
           me.seen \in [Table -> State]
    PROVE  StateAfter(parent, me) \in [Table -> State]
<1> DEFINE before == stateAt[IF parent \in BlockId THEN parent ELSE Genesis]
<1>1. before \in [Table -> State]
  BY DEF Tip
<1>2. StateAfter(parent, me) =
        [t \in Table |-> IF t \in Tables(me.payload) THEN me.seen[t] ELSE before[t]]
  BY DEF StateAfter
<1> HIDE DEF before
<1> QED BY <1>1, <1>2

LEMMA CommitTypes ==
    ASSUME TypeInv, NEW p \in Process, Commit(p)
    PROVE  TypeInv'
<1> DEFINE me == local[p]
<1> USE CommitPayloadType
<1>a. /\ me \in Local /\ PayloadOK(me) /\ faults \in 0..MaxFaults /\ head \in Link
      /\ config \subseteq Table /\ snapshot \in [Table -> State \cup {Torn}]
      /\ blocks \in [BlockId -> CommitBlock \cup {None, Torn, Spoiled}]
      /\ stateAt \in [Tip -> [Table -> State]]
  BY DEF TypeInv, TypeOK
<1>b. \A op \in {"commit", "purge", "diff", "rebase", "history"} :
        Failed(op) \in Local /\ Failed(op).pc = "failed"
  BY DEF Failed, Local, RestLocal
<1>1. CASE CommitStart(p)
  <2> DEFINE next == [pc |-> "load", todo |-> config, payload |-> NoDeltas,
                      seen |-> [t \in Table |-> EmptyObject]]
  <2>1. /\ created + Cardinality(Committing) < MaxBlocks
        /\ local' = [local EXCEPT ![p] = next] /\ me = Idle
        /\ UNCHANGED <<config, snapshot, blocks, head, created, faults, stateAt>>
    BY <1>1 DEF CommitStart, Become, files
  <2>2. NoDeltas \in CommitPayload /\ EmptyObject \in State
    BY DEF NoDeltas, CommitPayload, EmptyObject, State
  <2>3. next \in Local
    BY <1>a, <2>2 DEF Local, CommitLocal
  <2>4. PayloadOK(next)
    BY <2>2 DEF PayloadOK
  <2>5. next.pc = "load"
    OBVIOUS
  <2> HIDE DEF next
  <2>6. Committing' = Committing \cup {p} /\ p \notin Committing
    <3>1. Idle.pc = "idle"
      BY DEF Idle
    <3>2. \A q \in Process : local'[q].pc = IF q = p THEN "load" ELSE local[q].pc
      BY <2>1, <2>5 DEF TypeInv, TypeOK
    <3> QED BY <2>1, <3>1, <3>2 DEF Committing
  <2>7. IsFiniteSet(Committing') /\ Cardinality(Committing') = Cardinality(Committing) + 1
    BY <2>6, FS_AddElement DEF TypeInv
  <2>8. Cardinality(Committing) \in Nat
    BY FS_CardinalityType DEF TypeInv
  <2>9. created' + Cardinality(Committing') <= MaxBlocks
    BY <2>1, <2>7, <2>8, ChainAssumption DEF TypeInv, TypeOK
  <2>10. TypeOK'
    BY <2>1, <2>3 DEF TypeInv, TypeOK
  <2>11. \A q \in Process : PayloadOK(local'[q])
    BY <2>1, <2>4 DEF TypeInv, TypeOK
  <2> QED BY <2>1, <2>7, <2>9, <2>10, <2>11 DEF TypeInv
<1>2. CASE CommitLoad(p)
  <2>1. PICK t \in me.todo, new \in State :
            IF snapshot[t] = Torn
            THEN Become(p, Failed("commit"))
            ELSE LET delta == DeltaCreate("delta", new, snapshot[t])
                     seen  == [me.seen EXCEPT ![t] = new]
                     load  == [me.payload EXCEPT ![t] = delta]
                     todo  == me.todo \ {t}
                 IN  IF HasOperations(delta)
                     THEN Become(p, [pc |-> "open snapshot", table |-> t,
                                     todo |-> todo, payload |-> load, seen |-> seen])
                     ELSE Become(p, [pc |-> "load", todo |-> todo,
                                     payload |-> load, seen |-> seen])
    BY <1>2 DEF CommitLoad
  <2>2. UNCHANGED <<config, files, created, faults, stateAt>> /\ me.pc = "load"
    BY <1>2 DEF CommitLoad
  <2>3. /\ me.payload \in CommitPayload /\ me.seen \in [Table -> State]
        /\ me.todo \subseteq Table
    BY <1>a, <2>2, LocalFields DEF PayloadOK, CommittingPc
  <2>4. CASE snapshot[t] = Torn
    <3>1. PayloadOK(Failed("commit")) /\ Failed("commit").pc \notin CommittingPc
      BY DEF Failed, PayloadOK, CommittingPc
    <3> QED BY <1>a, <1>b, <2>1, <2>2, <2>4, <3>1, TypeMemoryStep
  <2>5. CASE snapshot[t] # Torn
    <3> DEFINE delta == DeltaCreate("delta", new, snapshot[t])
               seen  == [me.seen EXCEPT ![t] = new]
               load  == [me.payload EXCEPT ![t] = delta]
               todo  == me.todo \ {t}
               open  == [pc |-> "open snapshot", table |-> t,
                         todo |-> todo, payload |-> load, seen |-> seen]
               next  == [pc |-> "load", todo |-> todo, payload |-> load, seen |-> seen]
    <3>1. snapshot[t] \in State /\ t \in Table
      BY <1>a, <2>3, <2>5
    <3>2. delta \in CommitDelta
      BY <3>1, DeltaCreateCommits
    <3>3. Become(p, open) \/ Become(p, next)
      BY <2>1, <2>5
    <3> HIDE DEF delta
    <3>4. load \in CommitPayload /\ seen \in [Table -> State] /\ todo \subseteq Table
      BY <2>3, <3>2 DEF CommitPayload
    <3> HIDE DEF load, seen, todo
    <3>5. open \in Local /\ next \in Local
      BY <3>1, <3>4 DEF Local, CommitLocal
    <3>6. PayloadOK(open) /\ PayloadOK(next)
      BY <3>4 DEF PayloadOK
    <3> HIDE DEF open, next
    <3> QED BY <1>a, <2>2, <3>3, <3>5, <3>6, TypeMemoryStep DEF CommittingPc
  <2> QED BY <2>4, <2>5
<1>3. CASE CommitLoadFails(p)
  <2>1. /\ Become(p, Failed("commit")) /\ UNCHANGED <<config, files, created, stateAt>>
        /\ faults < MaxFaults /\ faults' = faults + 1
    BY <1>3 DEF CommitLoadFails
  <2>2. faults' \in 0..MaxFaults
    BY <1>a, <2>1, ChainAssumption
  <2>3. PayloadOK(Failed("commit")) /\ Failed("commit").pc \notin CommittingPc
    BY DEF Failed, PayloadOK, CommittingPc
  <2> QED BY <1>b, <2>1, <2>2, <2>3, TypeMemoryStep
<1>4. CASE SnapshotOpen(p)
  <2> DEFINE next == [pc |-> "write snapshot", table |-> me.table,
                      todo |-> me.todo, payload |-> me.payload, seen |-> me.seen]
  <2>1. /\ me.pc = "open snapshot"
        /\ snapshot' = [snapshot EXCEPT ![me.table] = Torn]
        /\ Become(p, next)
        /\ UNCHANGED <<config, blocks, head, created, faults, stateAt>>
    BY <1>4 DEF SnapshotOpen
  <2>2. /\ me.table \in Table /\ me.todo \subseteq Table
        /\ me.payload \in CommitPayload /\ me.seen \in [Table -> State]
    BY <1>a, <2>1, LocalFields DEF PayloadOK, CommittingPc
  <2>3. next \in Local /\ PayloadOK(next)
    BY <2>2 DEF Local, CommitLocal, PayloadOK
  <2> HIDE DEF next
  <2>4. snapshot' \in [Table -> State \cup {Torn}]
    BY <1>a, <2>1
  <2> QED BY <1>a, <2>1, <2>3, <2>4, TypeStep DEF CommittingPc
<1>5. CASE SnapshotWrite(p)
  <2> DEFINE next == [pc |-> "load", todo |-> me.todo,
                      payload |-> me.payload, seen |-> me.seen]
  <2>1. /\ me.pc = "write snapshot"
        /\ snapshot' = [snapshot EXCEPT ![me.table] = me.seen[me.table]]
        /\ Become(p, next)
        /\ UNCHANGED <<config, blocks, head, created, faults, stateAt>>
    BY <1>5 DEF SnapshotWrite
  <2>2. /\ me.table \in Table /\ me.todo \subseteq Table
        /\ me.payload \in CommitPayload /\ me.seen \in [Table -> State]
    BY <1>a, <2>1, LocalFields DEF PayloadOK, CommittingPc
  <2>3. next \in Local /\ PayloadOK(next)
    BY <2>2 DEF Local, CommitLocal, PayloadOK
  <2> HIDE DEF next
  <2>4. snapshot' \in [Table -> State \cup {Torn}]
    BY <1>a, <2>1, <2>2
  <2> QED BY <1>a, <2>1, <2>3, <2>4, TypeStep DEF CommittingPc
<1>6. CASE CommitHead(p)
  <2> DEFINE next == [pc |-> "open block", parent |-> head,
                      payload |-> me.payload, seen |-> me.seen]
  <2>1. /\ me.pc = "load" /\ Become(p, next)
        /\ UNCHANGED <<config, files, created, faults, stateAt>>
    BY <1>6 DEF CommitHead
  <2>2. me.payload \in CommitPayload /\ me.seen \in [Table -> State]
    BY <1>a, <2>1, LocalFields DEF PayloadOK, CommittingPc
  <2>3. next \in Local /\ PayloadOK(next)
    BY <1>a, <2>2 DEF Local, CommitLocal, PayloadOK
  <2> HIDE DEF next
  <2> QED BY <1>a, <2>1, <2>3, TypeMemoryStep DEF CommittingPc
<1>7. CASE BlockOpen(p)
  <2> DEFINE id   == created + 1
             next == [pc |-> "write block", id |-> id, parent |-> me.parent,
                      payload |-> me.payload, seen |-> me.seen]
  <2>1. /\ me.pc = "open block"
        /\ created' = id
        /\ blocks' = [blocks EXCEPT ![id] = Torn]
        /\ local' = [local EXCEPT ![p] = next]
        /\ UNCHANGED <<config, snapshot, head, faults, stateAt>>
    BY <1>7 DEF BlockOpen, Become
  <2>2. /\ me.parent \in Link /\ me.payload \in CommitPayload
        /\ me.seen \in [Table -> State]
    BY <1>a, <2>1, LocalFields DEF PayloadOK, CommittingPc
  <2>3. next.pc = "write block"
    OBVIOUS
  <2> HIDE DEF next
  <2>4. Committing' = Committing \ {p} /\ p \in Committing
    BY <2>1, <2>3 DEF Committing, TypeInv, TypeOK
  <2>5. IsFiniteSet(Committing') /\ Cardinality(Committing') = Cardinality(Committing) - 1
    BY <2>4, FS_RemoveElement DEF TypeInv
  <2>6. Cardinality(Committing) \in Nat /\ Cardinality(Committing') \in Nat
    BY <2>5, FS_CardinalityType DEF TypeInv
  <2>7. created \in Nat /\ created + Cardinality(Committing) <= MaxBlocks
    BY ChainAssumption DEF TypeInv, TypeOK
  <2>8. created' = created + 1
    BY <2>1
  <2>9. /\ created' + Cardinality(Committing') <= MaxBlocks /\ created' \in 0..MaxBlocks
        /\ id \in BlockId
    BY <2>5, <2>6, <2>7, <2>8, ChainAssumption DEF BlockId
  <2>10. next \in Local /\ PayloadOK(next)
    BY <2>2, <2>9 DEF Local, CommitLocal, PayloadOK, next
  <2> HIDE DEF id
  <2>11. blocks' \in [BlockId -> CommitBlock \cup {None, Torn, Spoiled}]
    BY <1>a, <2>1
  <2>12. CommitBlock \subseteq Block
    BY DEF CommitBlock, Block
  <2>13. local' \in [Process -> Local]
    BY <2>1, <2>10 DEF TypeInv, TypeOK
  <2>14. TypeOK'
    BY <2>1, <2>9, <2>11, <2>12, <2>13 DEF TypeInv, TypeOK
  <2>15. \A q \in Process : PayloadOK(local'[q])
    BY <2>1, <2>10 DEF TypeInv, TypeOK
  <2> QED BY <2>5, <2>9, <2>11, <2>14, <2>15 DEF TypeInv
<1>8. CASE BlockWrite(p)
  <2> DEFINE stored == [parent |-> me.parent, payload |-> me.payload]
             now    == StateAfter(me.parent, me)
             next   == [pc |-> "open head", id |-> me.id]
  <2>1. /\ me.pc = "write block"
        /\ blocks' = [blocks EXCEPT ![me.id] = IF @ = None THEN None ELSE stored]
        /\ stateAt' = [stateAt EXCEPT ![me.id] = now]
        /\ Become(p, next)
        /\ UNCHANGED <<config, snapshot, head, created, faults>>
    BY <1>8 DEF BlockWrite
  <2>2. /\ me.id \in BlockId /\ me.parent \in Link /\ me.payload \in CommitPayload
        /\ me.seen \in [Table -> State]
    BY <1>a, <2>1, LocalFields DEF PayloadOK, CommittingPc
  <2>3. stored \in CommitBlock
    BY <2>2 DEF CommitBlock
  <2>5. now \in [Table -> State]
    BY <1>a, <2>2, StateAfterType
  <2>6. next \in Local /\ PayloadOK(next) /\ next.pc \notin CommittingPc
    BY <2>2 DEF Local, CommitLocal, PayloadOK, CommittingPc
  <2> HIDE DEF stored, now, next
  <2>7. /\ blocks' \in [BlockId -> CommitBlock \cup {None, Torn, Spoiled}]
        /\ stateAt' \in [Tip -> [Table -> State]]
    BY <1>a, <2>1, <2>3, <2>5
  <2> QED BY <1>a, <2>1, <2>6, <2>7, TypeStep
<1>9. CASE HeadOpen(p)
  <2> DEFINE next == [pc |-> "write head", id |-> me.id]
  <2>1. /\ me.pc = "open head" /\ head' = Torn /\ Become(p, next)
        /\ UNCHANGED <<config, snapshot, blocks, created, faults, stateAt>>
    BY <1>9 DEF HeadOpen
  <2>2. me.id \in BlockId
    BY <1>a, <2>1, LocalFields
  <2>3. next \in Local /\ PayloadOK(next) /\ next.pc \notin CommittingPc
    BY <2>2 DEF Local, CommitLocal, PayloadOK, CommittingPc
  <2> HIDE DEF next
  <2>4. head' \in Link
    BY <2>1 DEF Link
  <2> QED BY <1>a, <2>1, <2>3, <2>4, TypeStep
<1>10. CASE HeadWrite(p)
  <2> DEFINE next == IF AutoPurge THEN [pc |-> "purge"] ELSE Idle
  <2>1. /\ me.pc = "write head" /\ head' = me.id /\ Become(p, next)
        /\ UNCHANGED <<config, snapshot, blocks, created, faults, stateAt>>
    BY <1>10 DEF HeadWrite
  <2>2. me.id \in BlockId
    BY <1>a, <2>1, LocalFields
  <2>3. next \in Local /\ PayloadOK(next) /\ next.pc \notin CommittingPc
    BY DEF Local, RestLocal, PurgeLocal, PayloadOK, CommittingPc, Idle
  <2> HIDE DEF next
  <2>4. head' \in Link
    BY <2>1, <2>2 DEF Link
  <2> QED BY <1>a, <2>1, <2>3, <2>4, TypeStep
<1>11. CASE WriteFails(p)
  <2>1. /\ Become(p, Failed("commit")) /\ faults < MaxFaults /\ faults' = faults + 1
        /\ head' \in {head, Cut}
        /\ UNCHANGED <<config, snapshot, blocks, created, stateAt>>
    BY <1>11 DEF WriteFails
  <2>2. faults' \in 0..MaxFaults
    BY <1>a, <2>1, ChainAssumption
  <2>3. head' \in Link
    BY <1>a, <2>1 DEF Link
  <2>4. PayloadOK(Failed("commit")) /\ Failed("commit").pc \notin CommittingPc
    BY DEF Failed, PayloadOK, CommittingPc
  <2> QED BY <1>a, <1>b, <2>1, <2>2, <2>3, <2>4, TypeStep
<1>12. CASE WriteShort(p)
  <2>1. /\ faults' \in 0..MaxFaults /\ UNCHANGED <<config, snapshot, created>>
    <3>1. /\ faults < MaxFaults /\ faults' = faults + 1
          /\ UNCHANGED <<config, snapshot, created>>
      BY <1>12 DEF WriteShort
    <3> QED BY <1>a, <3>1, ChainAssumption
  <2>2. CASE me.pc = "write snapshot"
    <3> DEFINE next == [pc |-> "load", todo |-> me.todo,
                        payload |-> me.payload, seen |-> me.seen]
    <3>1. Become(p, next) /\ UNCHANGED <<blocks, head, stateAt>>
      BY <1>12, <2>2 DEF WriteShort
    <3>2. /\ me.todo \subseteq Table
          /\ me.payload \in CommitPayload /\ me.seen \in [Table -> State]
      BY <1>a, <2>2, LocalFields DEF PayloadOK, CommittingPc
    <3>3. next \in Local /\ PayloadOK(next)
      BY <3>2 DEF Local, CommitLocal, PayloadOK
    <3> HIDE DEF next
    <3> QED BY <1>a, <2>1, <2>2, <3>1, <3>3, TypeStep DEF CommittingPc
  <2>3. CASE me.pc = "write block"
    <3> DEFINE now  == StateAfter(me.parent, me)
               next == [pc |-> "open head", id |-> me.id]
    <3>1. /\ blocks' = [blocks EXCEPT ![me.id] = IF @ = None THEN None ELSE Spoiled]
          /\ stateAt' = [stateAt EXCEPT ![me.id] = now]
          /\ Become(p, next) /\ UNCHANGED head
      BY <1>12, <2>3 DEF WriteShort
    <3>2. me.id \in BlockId /\ me.seen \in [Table -> State]
      BY <1>a, <2>3, LocalFields
    <3>3. now \in [Table -> State]
      BY <1>a, <3>2, StateAfterType
    <3>4. next \in Local /\ PayloadOK(next) /\ next.pc \notin CommittingPc
      BY <3>2 DEF Local, CommitLocal, PayloadOK, CommittingPc
    <3> HIDE DEF now, next
    <3>5. /\ blocks' \in [BlockId -> CommitBlock \cup {None, Torn, Spoiled}]
          /\ stateAt' \in [Tip -> [Table -> State]]
      BY <1>a, <3>1, <3>3
    <3> QED BY <1>a, <2>1, <3>1, <3>4, <3>5, TypeStep
  <2>4. CASE me.pc = "write head"
    <3> DEFINE next == IF AutoPurge THEN [pc |-> "purge"] ELSE Idle
    <3>1. head' = Cut /\ Become(p, next) /\ UNCHANGED <<blocks, stateAt>>
      BY <1>12, <2>4 DEF WriteShort
    <3>2. next \in Local /\ PayloadOK(next) /\ next.pc \notin CommittingPc
      BY DEF Local, RestLocal, PurgeLocal, PayloadOK, CommittingPc, Idle
    <3> HIDE DEF next
    <3>3. head' \in Link
      BY <3>1 DEF Link
    <3> QED BY <1>a, <2>1, <3>1, <3>2, <3>3, TypeStep
  <2> QED BY <1>12, <2>2, <2>3, <2>4 DEF WriteShort
<1> QED BY <1>1, <1>2, <1>3, <1>4, <1>5, <1>6, <1>7, <1>8, <1>9, <1>10, <1>11, <1>12
    DEF Commit

\* A step of a command that writes no file and is no commit's.
Outcome(p) ==
    \E next \in Local : Become(p, next) /\ next.pc \notin CommittingPc \cup {"write block"}

LEMMA OutcomeIntro ==
    \A p : \A next \in Local :
        Become(p, next) /\ next.pc \notin CommittingPc \cup {"write block"} => Outcome(p)
BY DEF Outcome

LEMMA TypeOutcome ==
    ASSUME TypeInv, NEW p \in Process, Outcome(p),
           UNCHANGED <<config, files, created, stateAt>>, faults' \in 0..MaxFaults
    PROVE  TypeInv'
<1>1. PICK next \in Local :
        Become(p, next) /\ next.pc \notin CommittingPc \cup {"write block"}
  BY DEF Outcome
<1>2. PayloadOK(next)
  BY <1>1 DEF PayloadOK
<1> QED BY <1>1, <1>2, TypeMemoryStep

LEMMA PurgeTypes ==
    ASSUME TypeInv, NEW p \in Process, Purge(p)
    PROVE  TypeInv'
<1> DEFINE me == local[p]
<1>a. /\ me \in Local /\ faults \in 0..MaxFaults /\ head \in Link
      /\ blocks \in [BlockId -> CommitBlock \cup {None, Torn, Spoiled}]
  BY DEF TypeInv, TypeOK
<1>b. \A keep \in SUBSET BlockId, at \in Link :
        /\ [pc |-> "walk", at |-> at, keep |-> keep] \in Local
        /\ [pc |-> "read", at |-> at, keep |-> keep] \in Local
        /\ [pc |-> "list", keep |-> keep] \in Local
        /\ [pc |-> "delete", doomed |-> keep] \in Local
  BY DEF Local, RestLocal, PurgeLocal
<1>c. [pc |-> "purge"] \in Local /\ Idle \in Local /\ Failed("purge") \in Local
  BY DEF Local, RestLocal, PurgeLocal, Failed
<1>d. /\ [pc |-> "purge"].pc = "purge" /\ Idle.pc = "idle"
      /\ Failed("purge").pc = "failed"
  BY DEF Idle, Failed
<1>1. CASE PurgeDelete(p)
  <2>1. PICK b \in me.doomed :
            /\ blocks' = [blocks EXCEPT ![b] = None]
            /\ \/ Become(p, [pc |-> "delete", doomed |-> me.doomed \ {b}])
               \/ blocks[b] = None /\ Become(p, Failed("purge"))
    BY <1>1 DEF PurgeDelete
  <2>2. /\ UNCHANGED <<config, snapshot, head, created, faults, stateAt>>
        /\ me.pc = "delete"
    BY <1>1 DEF PurgeDelete
  <2>3. me.doomed \subseteq BlockId
    BY <1>a, <2>2, LocalFields
  <2>4. Outcome(p)
    BY <1>b, <1>c, <1>d, <2>1, <2>3, OutcomeIntro DEF CommittingPc, Link
  <2>5. PICK next \in Local :
          Become(p, next) /\ next.pc \notin CommittingPc \cup {"write block"}
    BY <2>4 DEF Outcome
  <2>6. PayloadOK(next)
    BY <2>5 DEF PayloadOK
  <2>7. blocks' \in [BlockId -> CommitBlock \cup {None, Torn, Spoiled}]
    BY <1>a, <2>1
  <2> QED BY <2>2, <2>5, <2>6, <2>7, TypeStep DEF TypeInv, TypeOK
<1>2. CASE PurgeStart(p) \/ PurgeHead(p) \/ PurgeEnd(p)
  <2>1. Outcome(p)
    BY <1>a, <1>b, <1>c, <1>d, <1>2, OutcomeIntro
       DEF PurgeStart, PurgeHead, PurgeEnd, CommittingPc
  <2>2. UNCHANGED <<config, files, created, faults, stateAt>>
    BY <1>2 DEF PurgeStart, PurgeHead, PurgeEnd
  <2> QED BY <1>a, <2>1, <2>2, TypeOutcome
<1>3. CASE PurgeWalk(p)
  <2>1. me.at \in Link /\ me.keep \subseteq BlockId
    BY <1>a, <1>3, LocalFields DEF PurgeWalk
  <2>2. Outcome(p)
    BY <1>b, <1>3, <2>1, OutcomeIntro DEF PurgeWalk, CommittingPc
  <2> QED BY <1>a, <1>3, <2>2, TypeOutcome DEF PurgeWalk
<1>4. CASE PurgeRead(p)
  <2>1. me.at \in Link /\ me.keep \subseteq BlockId
    BY <1>a, <1>4, LocalFields DEF PurgeRead
  <2>2. Loadable(me.at) => blocks[me.at].parent \in Link /\ me.at \in BlockId
    BY <1>a DEF Loadable, CommitBlock
  <2>3. Outcome(p)
    BY <1>b, <1>c, <1>d, <1>4, <2>1, <2>2, OutcomeIntro DEF PurgeRead, CommittingPc
  <2> QED BY <1>a, <1>4, <2>3, TypeOutcome DEF PurgeRead
<1>5. CASE PurgeList(p)
  <2>1. Outcome(p)
    BY <1>b, <1>c, <1>d, <1>5, OutcomeIntro DEF PurgeList, CommittingPc, Link
  <2> QED BY <1>a, <1>5, <2>1, TypeOutcome DEF PurgeList
<1> QED BY <1>1, <1>2, <1>3, <1>4, <1>5 DEF Purge

\* The entry of a block for a record tells a value.
LEMMA EntriesType ==
    ASSUME NEW id \in BlockId, NEW ask \in Ask, blocks[id] \in CommitBlock
    PROVE  Entries(id, ask) \in Seq(Entry)
<1> DEFINE delta == blocks[id].payload[ask.table]
           entry(operation, obj) == <<HistoryRecord(id, operation, obj[ask.key])>>
<1>1. ask.table \in Table /\ ask.key \in Key
  BY DEF Ask
<1>2. delta \in CommitDelta \cup {None}
  BY <1>1 DEF CommitBlock, CommitPayload
<1>3. ASSUME NEW operation \in {"insert", "delete", "update"}, NEW obj \in State,
             HasKey(obj, ask.key)
      PROVE  entry(operation, obj) \in Seq(Entry)
  <2>1. obj[ask.key] \in Value
    BY <1>1, <1>3 DEF State, HasKey
  <2>2. HistoryRecord(id, operation, obj[ask.key]) \in Entry
    BY <2>1 DEF HistoryRecord, Entry
  <2> QED BY <2>2
<1>4. <<>> \in Seq(Entry)
  OBVIOUS
<1> HIDE DEF delta, entry
<1>5. Entries(id, ask) =
        IF delta = None THEN <<>>
        ELSE IF HasKey(delta.inserts, ask.key) THEN entry("insert", delta.inserts)
        ELSE IF HasKey(delta.deletes, ask.key) THEN entry("delete", delta.deletes)
        ELSE IF HasKey(delta.updates, ask.key) THEN entry("update", delta.updates)
        ELSE <<>>
  BY DEF Entries, delta, entry
<1>6. CASE delta # None
  <2>1. delta.inserts \in State /\ delta.deletes \in State /\ delta.updates \in State
    BY <1>2, <1>6 DEF CommitDelta
  <2> QED BY <1>3, <1>4, <1>5, <2>1
<1> QED BY <1>4, <1>5, <1>6

\* What MergeBlocks makes of two payloads is a payload.
LEMMA MergedType ==
    ASSUME NEW parent \in Payload, NEW child \in Payload,
           Tables(child) \subseteq Tables(parent)
    PROVE  Merged(parent, child) \in Payload /\ Unmerged(child) \in Payload
<1>1. ASSUME NEW t \in Table
      PROVE  Merged(parent, child)[t] \in Delta \cup {None}
  <2>1. CASE t \in Tables(child) \cap MergeTable
    <3>1. parent[t] \in Delta /\ child[t] \in Delta
      BY <2>1 DEF Payload, Tables
    <3> QED BY <2>1, <3>1, DeltaMergeType DEF Merged
  <2>2. CASE t \notin Tables(child) \cap MergeTable
    BY <2>2 DEF Merged, Payload
  <2> QED BY <2>1, <2>2
<1>2. Merged(parent, child) \in Payload
  BY <1>1 DEF Merged, Payload
<1> QED BY <1>2 DEF Unmerged, Payload

LEMMA ReadTypes ==
    ASSUME TypeInv, NEW p \in Process, Diff(p) \/ Rebase(p) \/ History(p)
    PROVE  TypeInv'
<1> DEFINE me == local[p]
<1>a. /\ me \in Local /\ faults \in 0..MaxFaults /\ head \in Link /\ config \subseteq Table
      /\ blocks \in [BlockId -> CommitBlock \cup {None, Torn, Spoiled}] /\ created \in 0..MaxBlocks
      /\ snapshot \in [Table -> State \cup {Torn}]
  BY DEF TypeInv, TypeOK
<1>b. \A op \in {"diff", "rebase", "history"} :
        Failed(op) \in Local /\ Failed(op).pc = "failed"
  BY DEF Failed, Local, RestLocal
<1>c. Crashed("diff") \in Local /\ Crashed("diff").pc = "crashed"
  BY DEF Crashed, Local, RestLocal
<1>1. CASE DiffResolve(p)
  <2>1. PICK goal \in 0..created : DiffFrom(p, goal)
    BY <1>1 DEF DiffResolve
  <2>2. goal \in Tip
    BY <1>a, <2>1, ChainAssumption DEF Tip, BlockId, Genesis
  <2>3. [pc |-> "diff", goal |-> goal] \in Local
    BY <2>2 DEF Local, PatchLocal
  <2>4. Outcome(p)
    BY <1>b, <2>1, <2>3, OutcomeIntro DEF DiffFrom, CommittingPc
  <2> QED BY <1>a, <2>1, <2>4, TypeOutcome DEF DiffFrom
<1>2. CASE DiffHead(p)
  <2> DEFINE next == [pc |-> "merge", goal |-> me.goal, tables |-> config,
                      tip |-> head, at |-> head, child |-> NoDeltas, kept |-> <<>>]
  <2>1. me.goal \in Tip
    BY <1>a, <1>2, LocalFields DEF DiffHead
  <2>2. NoDeltas \in Payload /\ <<>> \in Seq(Payload)
    BY DEF NoDeltas, Payload
  <2>3. next \in Local
    BY <1>a, <2>1, <2>2 DEF Local, PatchLocal
  <2>4. Outcome(p)
    BY <1>2, <2>3, OutcomeIntro DEF DiffHead, CommittingPc
  <2> QED BY <1>a, <1>2, <2>4, TypeOutcome DEF DiffHead
<1>3. CASE DiffMerge(p)
  <2> DEFINE parent == blocks[me.at].payload
             rest   == Unmerged(me.child)
             next   == [pc |-> "merge", goal |-> me.goal, tables |-> me.tables,
                        tip |-> me.tip, at |-> blocks[me.at].parent,
                        child |-> Merged(parent, me.child),
                        kept |-> IF rest = NoDeltas THEN me.kept
                                 ELSE Append(me.kept, rest)]
  <2>1. /\ me.goal \in Tip /\ me.tables \subseteq Table /\ me.tip \in Link
        /\ me.child \in Payload /\ me.kept \in Seq(Payload)
    BY <1>a, <1>3, LocalFields DEF DiffMerge
  <2>2. \/ Become(p, Failed("diff"))
        \/ Become(p, Crashed("diff"))
        \/ /\ Loadable(me.at) /\ Tables(me.child) \ Tables(parent) = {}
           /\ Become(p, next)
    BY <1>3 DEF DiffMerge
  <2>3. ASSUME Loadable(me.at), Tables(me.child) \ Tables(parent) = {}, Become(p, next)
        PROVE  Outcome(p)
    <3>1. blocks[me.at].parent \in Link /\ parent \in Payload
      BY <1>a, <2>3, CommitPayloadType DEF Loadable, CommitBlock
    <3>2. Merged(parent, me.child) \in Payload /\ rest \in Payload
      BY <2>1, <2>3, <3>1, MergedType
    <3> HIDE DEF parent, rest
    <3>3. (IF rest = NoDeltas THEN me.kept ELSE Append(me.kept, rest)) \in Seq(Payload)
      BY <2>1, <3>2
    <3>4. next \in Local
      BY <2>1, <3>1, <3>2, <3>3 DEF Local, PatchLocal
    <3> QED BY <2>3, <3>4, OutcomeIntro DEF CommittingPc
  <2>4. Outcome(p)
    BY <1>b, <1>c, <2>2, <2>3, OutcomeIntro DEF CommittingPc
  <2> QED BY <1>a, <1>3, <2>4, TypeOutcome DEF DiffMerge
<1>4. CASE DiffEnd(p)
  <2> DEFINE next == [pc |-> "patched", op |-> "diff", goal |-> me.goal,
                      tip |-> me.tip, patch |-> Reverse(Append(me.kept, me.child))]
  <2>1. /\ me.goal \in Tip /\ me.tip \in Link
        /\ me.child \in Payload /\ me.kept \in Seq(Payload)
    BY <1>a, <1>4, LocalFields DEF DiffEnd
  <2>2. Reverse(Append(me.kept, me.child)) \in Seq(Payload)
    <3>1. Append(me.kept, me.child) \in Seq(Payload)
      BY <2>1
    <3> QED BY <3>1 DEF Reverse
  <2>3. next \in Local
    BY <2>1, <2>2 DEF Local, PatchLocal
  <2>4. Outcome(p)
    BY <1>4, <2>3, OutcomeIntro DEF DiffEnd, CommittingPc
  <2> QED BY <1>a, <1>4, <2>4, TypeOutcome DEF DiffEnd
<1>5. CASE RebaseStart(p)
  <2>1. [pc |-> "rebase", todo |-> config, payload |-> NoDeltas] \in Local
    BY <1>a DEF Local, PatchLocal, NoDeltas, Payload
  <2>2. Outcome(p)
    BY <1>5, <2>1, OutcomeIntro DEF RebaseStart, CommittingPc
  <2> QED BY <1>a, <1>5, <2>2, TypeOutcome DEF RebaseStart
<1>6. CASE RebaseLoad(p)
  <2>1. me.todo \subseteq Table /\ me.payload \in Payload
    BY <1>a, <1>6, LocalFields DEF RebaseLoad
  <2>2. PICK t \in me.todo :
            IF snapshot[t] = Torn
            THEN Become(p, Failed("rebase"))
            ELSE Become(p, [pc |-> "rebase", todo |-> me.todo \ {t},
                            payload |-> [me.payload EXCEPT ![t] =
                                DeltaCreate("rebase", snapshot[t], EmptyObject)]])
    BY <1>6 DEF RebaseLoad
  <2>3. ASSUME snapshot[t] # Torn
        PROVE  Outcome(p)
    <3> DEFINE delta == DeltaCreate("rebase", snapshot[t], EmptyObject)
               load  == [me.payload EXCEPT ![t] = delta]
               next  == [pc |-> "rebase", todo |-> me.todo \ {t}, payload |-> load]
    <3>1. snapshot[t] \in State /\ EmptyObject \in State
      BY <1>a, <2>1, <2>3 DEF EmptyObject, State
    <3>2. delta \in Delta
      BY <3>1, DeltaCreateNetEffect DEF DeltaType
    <3> HIDE DEF delta
    <3>3. load \in Payload
      BY <2>1, <3>2 DEF Payload
    <3> HIDE DEF load
    <3>4. next \in Local
      BY <2>1, <3>3 DEF Local, PatchLocal
    <3> QED BY <2>2, <2>3, <3>4, OutcomeIntro DEF CommittingPc, load, delta
  <2>4. Outcome(p)
    BY <1>b, <2>2, <2>3, OutcomeIntro DEF CommittingPc
  <2> QED BY <1>a, <1>6, <2>4, TypeOutcome DEF RebaseLoad
<1>7. CASE RebaseHead(p)
  <2> DEFINE next == [pc |-> "patched", op |-> "rebase", goal |-> Genesis,
                      tip |-> head, patch |-> <<me.payload>>]
  <2>1. me.payload \in Payload /\ Genesis \in Tip
    BY <1>a, <1>7, LocalFields DEF RebaseHead, Tip
  <2>2. <<me.payload>> \in Seq(Payload)
    BY <2>1
  <2>3. next \in Local
    BY <1>a, <2>1, <2>2 DEF Local, PatchLocal
  <2>4. Outcome(p)
    BY <1>7, <2>3, OutcomeIntro DEF RebaseHead, CommittingPc
  <2> QED BY <1>a, <1>7, <2>4, TypeOutcome DEF RebaseHead
<1>8. CASE HistoryStart(p)
  <2>1. PICK t \in config, k \in Key, from, to \in Times :
          Become(p, [pc |-> "history",
                     ask |-> [table |-> t, key |-> k, from |-> from, to |-> to]])
    BY <1>8 DEF HistoryStart
  <2>2. [table |-> t, key |-> k, from |-> from, to |-> to] \in Ask
    BY <1>a DEF Ask
  <2>3. [pc |-> "history",
         ask |-> [table |-> t, key |-> k, from |-> from, to |-> to]] \in Local
    BY <2>2 DEF Local, HistoryLocal
  <2>4. Outcome(p)
    BY <2>1, <2>3, OutcomeIntro DEF CommittingPc
  <2> QED BY <1>a, <1>8, <2>4, TypeOutcome DEF HistoryStart
<1>9. CASE HistoryHead(p)
  <2> DEFINE next == [pc |-> "trace", ask |-> me.ask, tip |-> head, at |-> head,
                      found |-> <<>>]
  <2>1. me.ask \in Ask
    BY <1>a, <1>9, LocalFields DEF HistoryHead
  <2>2. <<>> \in Seq(Entry)
    OBVIOUS
  <2>3. next \in Local
    BY <1>a, <2>1, <2>2 DEF Local, HistoryLocal
  <2>4. Outcome(p)
    BY <1>9, <2>3, OutcomeIntro DEF HistoryHead, CommittingPc
  <2> QED BY <1>a, <1>9, <2>4, TypeOutcome DEF HistoryHead
<1>10. CASE HistoryWalk(p)
  <2> DEFINE next(pc) == [pc |-> pc, ask |-> me.ask, tip |-> me.tip, at |-> me.at,
                          found |-> me.found]
  <2>1. /\ me.ask \in Ask /\ me.tip \in Link /\ me.at \in Link
        /\ me.found \in Seq(Entry)
    BY <1>a, <1>10, LocalFields DEF HistoryWalk
  <2>2. next("told") \in Local /\ next("recall") \in Local
    BY <2>1 DEF Local, HistoryLocal
  <2>3. Outcome(p)
    BY <1>10, <2>2, OutcomeIntro DEF HistoryWalk, CommittingPc
  <2> QED BY <1>a, <1>10, <2>3, TypeOutcome DEF HistoryWalk
<1>11. CASE HistoryRead(p)
  <2> DEFINE next(pc, at, found) == [pc |-> pc, ask |-> me.ask, tip |-> me.tip,
                                     at |-> at, found |-> found]
  <2>1. /\ me.ask \in Ask /\ me.tip \in Link /\ me.at \in Link
        /\ me.found \in Seq(Entry)
    BY <1>a, <1>11, LocalFields DEF HistoryRead
  <2>2. \/ Become(p, Failed("history"))
        \/ Become(p, next("told", me.at, me.found))
        \/ /\ Loadable(me.at)
           /\ \/ Become(p, next("trace", blocks[me.at].parent, me.found))
              \/ Become(p, next("trace", blocks[me.at].parent,
                                me.found \o Entries(me.at, me.ask)))
    BY <1>11 DEF HistoryRead
  <2>3. next("told", me.at, me.found) \in Local
    BY <2>1 DEF Local, HistoryLocal
  <2>4. ASSUME Loadable(me.at)
        PROVE  /\ next("trace", blocks[me.at].parent, me.found) \in Local
               /\ next("trace", blocks[me.at].parent,
                       me.found \o Entries(me.at, me.ask)) \in Local
    <3>1. blocks[me.at] \in CommitBlock /\ me.at \in BlockId
      BY <1>a, <2>4 DEF Loadable
    <3>2. blocks[me.at].parent \in Link
      BY <3>1 DEF CommitBlock
    <3>3. Entries(me.at, me.ask) \in Seq(Entry)
      BY <2>1, <3>1, EntriesType
    <3>4. me.found \o Entries(me.at, me.ask) \in Seq(Entry)
      BY <2>1, <3>3
    <3> QED BY <2>1, <3>2, <3>4 DEF Local, HistoryLocal
  <2>5. Outcome(p)
    BY <1>b, <2>2, <2>3, <2>4, OutcomeIntro DEF CommittingPc
  <2> QED BY <1>a, <1>11, <2>5, TypeOutcome DEF HistoryRead
<1> QED BY <1>1, <1>2, <1>3, <1>4, <1>5, <1>6, <1>7, <1>8, <1>9, <1>10, <1>11
       DEF Diff, Rebase, History

LEMMA TypeInvStep == TypeInv /\ [Next]_vars => TypeInv'
<1> SUFFICES ASSUME TypeInv, [Next]_vars PROVE TypeInv'
  OBVIOUS
<1>1. ASSUME NEW p \in Process, Run(p) \/ InstanceLoadFails(p) \/ Interrupt(p)
      PROVE  TypeInv'
  <2>1. CASE Finish(p) \/ Interrupt(p) \/ InstanceLoadFails(p)
    <3>1. /\ Idle \in Local /\ Idle.pc = "idle"
          /\ \A op \in {"commit", "purge", "diff", "rebase", "history"} :
                Failed(op) \in Local /\ Failed(op).pc = "failed"
      BY DEF Idle, Failed, Local, RestLocal
    <3>2. Outcome(p)
      BY <2>1, <3>1, OutcomeIntro DEF Finish, Interrupt, InstanceLoadFails, CommittingPc
    <3>3. faults' \in 0..MaxFaults
      BY <2>1, ChainAssumption DEF Finish, Interrupt, InstanceLoadFails, TypeInv, TypeOK
    <3> QED BY <2>1, <3>2, <3>3, TypeOutcome DEF Finish, Interrupt, InstanceLoadFails
  <2> QED BY <1>1, <2>1, CommitTypes, PurgeTypes, ReadTypes DEF Run
<1>2. CASE config' \subseteq Table /\ UNCHANGED <<files, created, local, faults, stateAt>>
  <2>1. UNCHANGED <<snapshot, blocks, head, created, local, faults, stateAt>>
    BY <1>2 DEF files
  <2>2. Committing' = Committing
    BY <2>1 DEF Committing
  <2> QED BY <1>2, <2>1, <2>2 DEF TypeInv, TypeOK
<1>3. CASE AddTable
  BY <1>2, <1>3, ChainAssumption DEF AddTable, TypeInv, TypeOK
<1>4. CASE RemoveTable
  BY <1>2, <1>4 DEF RemoveTable, TypeInv, TypeOK
<1>5. CASE UNCHANGED vars
  BY <1>2, <1>5 DEF vars, files, TypeInv, TypeOK
<1> QED BY <1>1, <1>3, <1>4, <1>5 DEF Next

LEMMA TypeInvHolds == Spec => []TypeInv
BY TypeInvInit, TypeInvStep, PTL DEF Spec

\* Whatever runs at once, fails and is killed, the files and the commands keep
\* their types: no commit runs out of identifiers that it was promised, and no
\* history tells a value that is none.
THEOREM TypeCorrect == Spec => []TypeOK
<1>1. TypeInv => TypeOK
  BY DEF TypeInv
<1> QED BY <1>1, TypeInvHolds, PTL

-----------------------------------------------------------------------------
(* Safety of HEAD.  A block's identifier is taken when its file is created, *)
(* so what HEAD, a block or a commit names has a smaller number than the   *)
(* next block; that no file of a smaller number is emptied again is why    *)
(* HEAD is safe.                                                           *)

\* What names a block that was created before block n + 1.
LinkUpTo(n) == 0..n \cup {Torn, Cut}

StoredBlock == [parent: Nat \cup {Torn, Cut}, payload: Payload]

\* What a commit has in memory, by how far it is.
Loading(me) ==
    /\ me.payload \in Payload
    /\ me.seen \in [Table -> State]
    /\ me.todo \subseteq Table

LocalOK(me, stored, last) ==
    /\ me.pc \in {"load", "open snapshot", "write snapshot"} => Loading(me)
    /\ me.pc \in {"open snapshot", "write snapshot"} => me.table \in Table
    /\ me.pc = "open block" => me.payload \in Payload /\ me.parent \in LinkUpTo(last)
    /\ me.pc = "write block" => /\ me.payload \in Payload
                                /\ me.id \in 1..last
                                /\ me.parent \in LinkUpTo(me.id - 1)
    /\ me.pc \in {"open head", "write head"} =>
           me.id \in 1..last /\ (me.id \in BlockId => stored[me.id] # Torn)

\* Steps of a commit that carry something over to the next.
CommitPc == {"load", "open snapshot", "write snapshot", "open block", "write block",
             "open head", "write head"}

Typed ==
    /\ config \subseteq Table
    /\ snapshot \in [Table -> State \cup {Torn}]
    /\ blocks \in [BlockId -> StoredBlock \cup {None, Torn, Spoiled}]
    /\ created \in Nat
    /\ local = [p \in Process |-> local[p]]

Linked ==
    /\ head \in LinkUpTo(created)
    /\ \A b \in BlockId : blocks[b] # None => b <= created
    /\ \A p \in Process : LocalOK(local[p], blocks, created)

IInv == Typed /\ Linked /\ HeadBlockWritten /\ ChainPointsBack

-----------------------------------------------------------------------------
(* Its steps *)

\* Nothing is asked of what a command that is not committing has in memory.
LEMMA OtherLocalOK ==
    ASSUME NEW me, NEW stored, NEW last, me.pc \notin CommitPc
    PROVE  LocalOK(me, stored, last)
BY DEF LocalOK, CommitPc

LEMMA InvInit == Init => IInv
<1> SUFFICES ASSUME Init PROVE IInv
  OBVIOUS
<1>1. Typed
  BY ChainAssumption DEF Init, Typed, EmptyObject, State
<1>2. \A p \in Process : local[p] = Idle
  BY DEF Init
<1>3. Linked
  <2>1. \A p \in Process : LocalOK(local[p], blocks, created)
    <3>1. Idle.pc \notin CommitPc
      BY DEF Idle, CommitPc
    <3> QED BY <1>2, <3>1, OtherLocalOK
  <2>2. head \in LinkUpTo(created)
    BY DEF Init, LinkUpTo, Genesis
  <2> QED BY <2>1, <2>2 DEF Init, Linked
<1>4. HeadBlockWritten /\ ChainPointsBack
  BY DEF Init, HeadBlockWritten, ChainPointsBack, Loadable, BlockId, Genesis
<1> QED BY <1>1, <1>3, <1>4 DEF IInv

\* A step that changes no more than what one command has in memory, and perhaps
\* a snapshot.
LEMMA MemoryStep ==
    ASSUME IInv, NEW p \in Process, NEW me, Become(p, me), LocalOK(me, blocks, created),
           UNCHANGED <<config, blocks, head, created>>,
           snapshot' \in [Table -> State \cup {Torn}]
    PROVE  IInv'
<1>1. local' = [q \in Process |-> IF q = p THEN me ELSE local[q]]
  BY DEF Become, IInv, Typed
<1>2. Typed'
  BY <1>1 DEF IInv, Typed
<1>3. \A q \in Process : LocalOK(local'[q], blocks', created')
  BY <1>1 DEF IInv, Linked
<1>4. Linked'
  BY <1>3 DEF IInv, Linked
<1>5. HeadBlockWritten' /\ ChainPointsBack'
  BY DEF IInv, HeadBlockWritten, ChainPointsBack, Loadable
<1> QED BY <1>2, <1>4, <1>5 DEF IInv

\* The command in slot p is not committing any more, or never was.
BecomesOther(p) == \E me : Become(p, me) /\ me.pc \notin CommitPc

LEMMA BecomesOtherIntro ==
    \A p, me : Become(p, me) /\ me.pc \notin CommitPc => BecomesOther(p)
BY DEF BecomesOther

\* A step of a command that is not committing, or of a commit that ends.
LEMMA OtherStep ==
    ASSUME IInv, NEW p \in Process, UNCHANGED <<config, files, created>>,
           BecomesOther(p)
    PROVE  IInv'
<1>1. PICK me : Become(p, me) /\ me.pc \notin CommitPc
  BY DEF BecomesOther
<1>2. UNCHANGED <<config, snapshot, blocks, head, created>>
  BY DEF files
<1>3. snapshot' \in [Table -> State \cup {Torn}]
  BY <1>2 DEF IInv, Typed
<1> QED BY <1>1, <1>2, <1>3, MemoryStep, OtherLocalOK

LEMMA CommitStep ==
    ASSUME IInv, NEW p \in Process, Commit(p)
    PROVE  IInv'
<1> DEFINE me == local[p]
<1>1. CASE CommitStart(p)
  <2> DEFINE next == [pc |-> "load", todo |-> config, payload |-> NoDeltas,
                      seen |-> [t \in Table |-> EmptyObject]]
  <2>1. Become(p, next) /\ UNCHANGED <<config, snapshot, blocks, head, created>>
    BY <1>1 DEF CommitStart, files
  <2>2. NoDeltas \in Payload /\ [t \in Table |-> EmptyObject] \in [Table -> State]
        /\ config \subseteq Table
    BY DEF NoDeltas, Payload, EmptyObject, State, IInv, Typed
  <2>3. LocalOK(next, blocks, created)
    BY <2>2 DEF LocalOK, Loading
  <2> HIDE DEF next
  <2> QED BY <2>1, <2>3, MemoryStep DEF IInv, Typed
<1>2. CASE CommitLoad(p)
  <2>1. PICK t \in me.todo, new \in State :
            IF snapshot[t] = Torn
            THEN Become(p, Failed("commit"))
            ELSE LET delta == DeltaCreate("delta", new, snapshot[t])
                     seen  == [me.seen EXCEPT ![t] = new]
                     load  == [me.payload EXCEPT ![t] = delta]
                     todo  == me.todo \ {t}
                 IN  IF HasOperations(delta)
                     THEN Become(p, [pc |-> "open snapshot", table |-> t,
                                     todo |-> todo, payload |-> load, seen |-> seen])
                     ELSE Become(p, [pc |-> "load", todo |-> todo,
                                     payload |-> load, seen |-> seen])
    BY <1>2 DEF CommitLoad
  <2>2. UNCHANGED <<config, files, created>> /\ me.pc = "load"
    BY <1>2 DEF CommitLoad
  <2>3. me.payload \in Payload /\ me.seen \in [Table -> State] /\ me.todo \subseteq Table
    BY <2>2 DEF IInv, Linked, LocalOK, Loading
  <2>4. CASE snapshot[t] = Torn
    <3>1. Failed("commit").pc \notin CommitPc
      BY DEF Failed, CommitPc
    <3> QED BY <2>1, <2>2, <2>4, <3>1, OtherStep, BecomesOtherIntro
  <2>5. CASE snapshot[t] # Torn
    <3> DEFINE delta == DeltaCreate("delta", new, snapshot[t])
               seen  == [me.seen EXCEPT ![t] = new]
               load  == [me.payload EXCEPT ![t] = delta]
               todo  == me.todo \ {t}
               open  == [pc |-> "open snapshot", table |-> t,
                         todo |-> todo, payload |-> load, seen |-> seen]
               next  == [pc |-> "load", todo |-> todo, payload |-> load, seen |-> seen]
    <3>1. snapshot[t] \in State /\ t \in Table
      BY <2>3, <2>5 DEF IInv, Typed
    <3>2. delta \in Delta
      BY <3>1 DEF DeltaCreate, KeysSetMinus, KeysSetIntersectAndValuesSetMinus, Delta,
                  DeltaType, HasKey, State, Object
    <3>3. Become(p, open) \/ Become(p, next)
      BY <2>1, <2>5
    <3> HIDE DEF delta
    <3>4. load \in Payload /\ seen \in [Table -> State] /\ todo \subseteq Table
      BY <2>3, <3>2 DEF Payload
    <3> HIDE DEF load, seen, todo
    <3>5. LocalOK(open, blocks, created) /\ LocalOK(next, blocks, created)
      BY <3>1, <3>4 DEF LocalOK, Loading
    <3> HIDE DEF open, next
    <3>6. UNCHANGED <<config, snapshot, blocks, head, created>>
      BY <2>2 DEF files
    <3>7. snapshot' \in [Table -> State \cup {Torn}]
      BY <3>6 DEF IInv, Typed
    <3> QED BY <3>3, <3>5, <3>6, <3>7, MemoryStep
  <2> QED BY <2>4, <2>5
<1>3. CASE CommitLoadFails(p) \/ (WriteFails(p) /\ UNCHANGED head)
  <2>1. Become(p, Failed("commit")) /\ UNCHANGED <<config, files, created>>
    BY <1>3 DEF CommitLoadFails, WriteFails, files
  <2>2. Failed("commit").pc \notin CommitPc
    BY DEF Failed, CommitPc
  <2> QED BY <2>1, <2>2, OtherStep, BecomesOtherIntro
<1>4. CASE SnapshotOpen(p)
  <2> DEFINE next == [pc |-> "write snapshot", table |-> me.table,
                      todo |-> me.todo, payload |-> me.payload, seen |-> me.seen]
  <2>1. /\ me.pc = "open snapshot"
        /\ snapshot' = [snapshot EXCEPT ![me.table] = Torn]
        /\ Become(p, next)
        /\ UNCHANGED <<config, blocks, head, created>>
    BY <1>4 DEF SnapshotOpen
  <2>2. Loading(me) /\ me.table \in Table
    BY <2>1 DEF IInv, Linked, LocalOK
  <2>3. LocalOK(next, blocks, created)
    BY <2>2 DEF LocalOK, Loading
  <2> HIDE DEF next
  <2>4. snapshot' \in [Table -> State \cup {Torn}]
    BY <2>1 DEF IInv, Typed
  <2> QED BY <2>1, <2>3, <2>4, MemoryStep
<1>5. CASE SnapshotWrite(p)
  <2> DEFINE next == [pc |-> "load", todo |-> me.todo,
                      payload |-> me.payload, seen |-> me.seen]
  <2>1. /\ me.pc = "write snapshot"
        /\ snapshot' = [snapshot EXCEPT ![me.table] = me.seen[me.table]]
        /\ Become(p, next)
        /\ UNCHANGED <<config, blocks, head, created>>
    BY <1>5 DEF SnapshotWrite
  <2>2. Loading(me) /\ me.table \in Table
    BY <2>1 DEF IInv, Linked, LocalOK
  <2>3. LocalOK(next, blocks, created)
    BY <2>2 DEF LocalOK, Loading
  <2> HIDE DEF next
  <2>4. snapshot' \in [Table -> State \cup {Torn}]
    BY <2>1, <2>2 DEF IInv, Typed, Loading
  <2> QED BY <2>1, <2>3, <2>4, MemoryStep
<1>6. CASE CommitHead(p)
  <2> DEFINE next == [pc |-> "open block", parent |-> head,
                      payload |-> me.payload, seen |-> me.seen]
  <2>1. me.pc = "load" /\ Become(p, next) /\ UNCHANGED <<config, files, created>>
    BY <1>6 DEF CommitHead
  <2>2. me.payload \in Payload /\ head \in LinkUpTo(created)
    BY <2>1 DEF IInv, Linked, LocalOK, Loading
  <2>3. LocalOK(next, blocks, created)
    BY <2>2 DEF LocalOK
  <2> HIDE DEF next
  <2>4. UNCHANGED <<config, snapshot, blocks, head, created>>
    BY <2>1 DEF files
  <2>5. snapshot' \in [Table -> State \cup {Torn}]
    BY <2>4 DEF IInv, Typed
  <2> QED BY <2>1, <2>3, <2>4, <2>5, MemoryStep
<1>7. CASE BlockOpen(p)
  <2> DEFINE id   == created + 1
             next == [pc |-> "write block", id |-> id, parent |-> me.parent,
                      payload |-> me.payload, seen |-> me.seen]
  <2>1. /\ me.pc = "open block"
        /\ created' = id
        /\ blocks' = [blocks EXCEPT ![id] = Torn]
        /\ local' = [local EXCEPT ![p] = next]
        /\ UNCHANGED <<config, snapshot, head>>
    BY <1>7 DEF BlockOpen, Become
  <2>2. me.payload \in Payload /\ me.parent \in LinkUpTo(created) /\ created \in Nat
    BY <2>1 DEF IInv, Typed, Linked, LocalOK
  <2>3. /\ id \in Nat /\ id - 1 = created /\ id \in 1..id
        /\ created \in Nat /\ created' = created + 1 /\ id = created + 1
    <3>1. created' = id
      BY <2>1
    <3>2. created \in Nat
      BY <2>2
    <3> HIDE DEF next
    <3> QED BY <3>1, <3>2
  <2>4. \A b \in BlockId : blocks'[b] = IF b = id THEN Torn ELSE blocks[b]
    BY <2>1 DEF IInv, Typed
  <2> HIDE DEF id
  <2>5. LocalOK(next, blocks', created')
    BY <2>1, <2>2, <2>3 DEF LocalOK
  <2>6. ASSUME NEW q \in Process, q # p
        PROVE  LocalOK(local[q], blocks', created')
    <3>1. LocalOK(local[q], blocks, created)
      BY DEF IInv, Linked
    <3>2. \A n \in 1..created : n \in 1..created' /\ n # id
      BY <2>3
    <3>3. LinkUpTo(created) \subseteq LinkUpTo(created')
      BY <2>3 DEF LinkUpTo
    <3> QED BY <2>4, <3>1, <3>2, <3>3 DEF LocalOK
  <2>7. local' = [q \in Process |-> IF q = p THEN next ELSE local[q]]
    BY <2>1 DEF IInv, Typed
  <2> HIDE DEF next
  <2>8. Typed'
    <3>1. blocks' \in [BlockId -> StoredBlock \cup {None, Torn, Spoiled}]
      BY <2>1 DEF IInv, Typed
    <3> QED BY <2>1, <2>3, <2>7, <3>1 DEF IInv, Typed
  <2>9. Linked'
    <3>1. head' \in LinkUpTo(created')
      <4>1. head \in LinkUpTo(created) /\ head' = head
        BY <2>1 DEF IInv, Linked
      <4> QED BY <2>3, <4>1 DEF LinkUpTo
    <3>2. \A b \in BlockId : blocks'[b] # None => b <= created'
      <4> TAKE b \in BlockId
      <4>1. b \in Nat
        BY ChainAssumption DEF BlockId
      <4>2. CASE b = id
        BY <2>3, <4>2
      <4>3. CASE b # id
        <5>1. blocks'[b] = blocks[b] /\ (blocks[b] # None => b <= created)
          BY <2>4, <4>3 DEF IInv, Linked
        <5> QED BY <2>3, <4>1, <5>1
      <4> QED BY <4>2, <4>3
    <3>3. \A q \in Process : LocalOK(local'[q], blocks', created')
      BY <2>5, <2>6, <2>7
    <3> QED BY <3>1, <3>2, <3>3 DEF Linked
  <2>10. HeadBlockWritten'
    <3>1. head # id
      <4>1. id \notin {Torn, Cut} /\ id \notin 0..created
        BY <2>3, ChainAssumption
      <4> QED BY <4>1 DEF IInv, Linked, LinkUpTo
    <3> QED BY <2>1, <2>4, <3>1 DEF IInv, HeadBlockWritten
  <2>11. ChainPointsBack'
    BY <2>4 DEF IInv, ChainPointsBack, Loadable
  <2> QED BY <2>8, <2>9, <2>10, <2>11 DEF IInv
<1>8. CASE BlockWrite(p)
  <2> DEFINE stored == [parent |-> me.parent, payload |-> me.payload]
             next   == [pc |-> "open head", id |-> me.id]
  <2>1. /\ me.pc = "write block"
        /\ blocks' = [blocks EXCEPT ![me.id] = IF @ = None THEN None ELSE stored]
        /\ local' = [local EXCEPT ![p] = next]
        /\ UNCHANGED <<config, snapshot, head, created>>
    BY <1>8 DEF BlockWrite, Become
  <2>2. /\ me.payload \in Payload /\ me.id \in 1..created
        /\ me.parent \in LinkUpTo(me.id - 1) /\ created \in Nat
    BY <2>1 DEF IInv, Typed, Linked, LocalOK
  <2>3. stored \in StoredBlock /\ stored.parent = me.parent
    BY <2>2 DEF StoredBlock, LinkUpTo
  <2>4. stored # Torn /\ None # Torn
    BY <2>3, ChainAssumption DEF StoredBlock, Payload
  <2> HIDE DEF stored
  <2>5. \A b \in BlockId : blocks'[b] =
            IF b = me.id THEN IF blocks[b] = None THEN None ELSE stored ELSE blocks[b]
    BY <2>1 DEF IInv, Typed
  <2>6. LocalOK(next, blocks', created')
    BY <2>1, <2>2, <2>4, <2>5 DEF LocalOK
  <2>7. ASSUME NEW q \in Process
        PROVE  LocalOK(local[q], blocks', created')
    <3>1. LocalOK(local[q], blocks, created)
      BY DEF IInv, Linked
    <3> QED BY <2>1, <2>4, <2>5, <3>1 DEF LocalOK
  <2>8. local' = [q \in Process |-> IF q = p THEN next ELSE local[q]]
    BY <2>1 DEF IInv, Typed
  <2> HIDE DEF next
  <2>9. Typed'
    <3>1. blocks' \in [BlockId -> StoredBlock \cup {None, Torn, Spoiled}]
      BY <2>1, <2>3 DEF IInv, Typed
    <3> QED BY <2>1, <2>8, <3>1 DEF IInv, Typed
  <2>10. Linked'
    <3>1. \A b \in BlockId : blocks'[b] # None => b <= created'
      <4>1. created' = created
        BY <2>1
      <4>2. me.id \in 1..created /\ created \in Nat
        BY <2>2
      <4> HIDE DEF me
      <4>3. me.id <= created
        BY <4>2
      <4> QED BY <2>5, <4>1, <4>3 DEF IInv, Linked
    <3>2. \A q \in Process : LocalOK(local'[q], blocks', created')
      BY <2>6, <2>7, <2>8
    <3> QED BY <2>1, <3>1, <3>2 DEF IInv, Linked
  <2>11. HeadBlockWritten'
    BY <2>1, <2>4, <2>5 DEF IInv, HeadBlockWritten
  <2>12. ChainPointsBack'
    <3> SUFFICES ASSUME NEW b \in BlockId, Loadable(b)'
                 PROVE  blocks'[b].parent \in 0..(b - 1) \cup {Torn, Cut}
      BY DEF ChainPointsBack
    <3>1. CASE b = me.id
      <4>1. blocks'[b] = stored
        BY <2>5, <3>1 DEF Loadable
      <4> QED BY <2>2, <2>3, <3>1, <4>1 DEF LinkUpTo
    <3>2. CASE b # me.id
      BY <2>5, <3>2 DEF IInv, ChainPointsBack, Loadable
    <3> QED BY <3>1, <3>2
  <2> QED BY <2>9, <2>10, <2>11, <2>12 DEF IInv
<1>9. CASE HeadOpen(p)
  <2> DEFINE next == [pc |-> "write head", id |-> me.id]
  <2>1. /\ me.pc = "open head"
        /\ head' = Torn
        /\ local' = [local EXCEPT ![p] = next]
        /\ UNCHANGED <<config, snapshot, blocks, created>>
    BY <1>9 DEF HeadOpen, Become
  <2>2. LocalOK(next, blocks, created)
    BY <2>1 DEF IInv, Linked, LocalOK
  <2>3. local' = [q \in Process |-> IF q = p THEN next ELSE local[q]]
    BY <2>1 DEF IInv, Typed
  <2> HIDE DEF next
  <2>4. Typed'
    BY <2>1, <2>3 DEF IInv, Typed
  <2>5. head' \in LinkUpTo(created')
    BY <2>1 DEF LinkUpTo
  <2>6. \A q \in Process : LocalOK(local'[q], blocks', created')
    BY <2>1, <2>2, <2>3 DEF IInv, Linked
  <2>7. Linked'
    BY <2>1, <2>5, <2>6 DEF IInv, Linked
  <2>8. head' \notin BlockId
    <3>1. Torn \notin Nat /\ BlockId \subseteq Nat
      BY ChainAssumption DEF BlockId
    <3> QED BY <2>1, <3>1
  <2>9. HeadBlockWritten' /\ ChainPointsBack'
    BY <2>1, <2>8 DEF IInv, HeadBlockWritten, ChainPointsBack, Loadable
  <2> QED BY <2>4, <2>7, <2>9 DEF IInv
<1>10. CASE HeadWrite(p)
  <2> DEFINE next == IF AutoPurge THEN [pc |-> "purge"] ELSE Idle
  <2>1. /\ me.pc = "write head"
        /\ head' = me.id
        /\ local' = [local EXCEPT ![p] = next]
        /\ UNCHANGED <<config, snapshot, blocks, created>>
    BY <1>10 DEF HeadWrite, Become
  <2>2. LocalOK(next, blocks, created)
    <3>1. next.pc \notin CommitPc
      BY DEF CommitPc, Idle
    <3> QED BY <3>1, OtherLocalOK
  <2>3. local' = [q \in Process |-> IF q = p THEN next ELSE local[q]]
    BY <2>1 DEF IInv, Typed
  <2> HIDE DEF next
  <2>4. Typed'
    BY <2>1, <2>3 DEF IInv, Typed
  <2>5. me.id \in 1..created /\ (me.id \in BlockId => blocks[me.id] # Torn)
    BY <2>1 DEF IInv, Linked, LocalOK
  <2>6. head' \in LinkUpTo(created')
    <3>1. head' = me.id /\ created' = created /\ me.id \in 1..created /\ created \in Nat
      BY <2>1, <2>5 DEF IInv, Typed
    <3> HIDE DEF me
    <3> QED BY <3>1 DEF LinkUpTo
  <2>7. \A q \in Process : LocalOK(local'[q], blocks', created')
    BY <2>1, <2>2, <2>3 DEF IInv, Linked
  <2>8. Linked'
    BY <2>1, <2>6, <2>7 DEF IInv, Linked
  <2>9. HeadBlockWritten'
    BY <2>1, <2>5 DEF HeadBlockWritten
  <2>10. ChainPointsBack'
    BY <2>1 DEF IInv, ChainPointsBack, Loadable
  <2> QED BY <2>4, <2>8, <2>9, <2>10 DEF IInv
<1>11. CASE WriteFails(p) /\ head' = Cut
  <2> DEFINE next == Failed("commit")
  <2>1. /\ local' = [local EXCEPT ![p] = next]
        /\ UNCHANGED <<config, snapshot, blocks, created>>
    BY <1>11 DEF WriteFails, Become
  <2>2. LocalOK(next, blocks, created)
    <3>1. next.pc \notin CommitPc
      BY DEF CommitPc, Failed
    <3> QED BY <3>1, OtherLocalOK
  <2>3. local' = [q \in Process |-> IF q = p THEN next ELSE local[q]]
    BY <2>1 DEF IInv, Typed
  <2> HIDE DEF next
  <2>4. Typed'
    BY <2>1, <2>3 DEF IInv, Typed
  <2>5. head' \in LinkUpTo(created')
    BY <1>11 DEF LinkUpTo
  <2>6. \A q \in Process : LocalOK(local'[q], blocks', created')
    BY <2>1, <2>2, <2>3 DEF IInv, Linked
  <2>7. Linked'
    BY <2>1, <2>5, <2>6 DEF IInv, Linked
  <2>8. head' \notin BlockId
    BY <1>11, ChainAssumption DEF BlockId
  <2>9. HeadBlockWritten' /\ ChainPointsBack'
    BY <2>1, <2>8 DEF IInv, HeadBlockWritten, ChainPointsBack, Loadable
  <2> QED BY <2>4, <2>7, <2>9 DEF IInv
<1>12. WriteFails(p) => UNCHANGED head \/ head' = Cut
  BY DEF WriteFails
<1>13. CASE WriteShort(p) /\ me.pc = "write snapshot"
  <2> DEFINE next == [pc |-> "load", todo |-> me.todo,
                      payload |-> me.payload, seen |-> me.seen]
  <2>1. Become(p, next) /\ UNCHANGED <<config, snapshot, blocks, head, created>>
    BY <1>13 DEF WriteShort
  <2>2. Loading(me)
    BY <1>13 DEF IInv, Linked, LocalOK
  <2>3. LocalOK(next, blocks, created)
    BY <2>2 DEF LocalOK, Loading
  <2> HIDE DEF next
  <2>4. snapshot' \in [Table -> State \cup {Torn}]
    BY <2>1 DEF IInv, Typed
  <2> QED BY <2>1, <2>3, <2>4, MemoryStep
<1>14. CASE WriteShort(p) /\ me.pc = "write block"
  <2> DEFINE next == [pc |-> "open head", id |-> me.id]
  <2>1. /\ blocks' = [blocks EXCEPT ![me.id] = IF @ = None THEN None ELSE Spoiled]
        /\ local' = [local EXCEPT ![p] = next]
        /\ UNCHANGED <<config, snapshot, head, created>>
    BY <1>14 DEF WriteShort, Become
  <2>2. me.id \in 1..created /\ created \in Nat
    BY <1>14 DEF IInv, Typed, Linked, LocalOK
  <2>4. Spoiled # Torn /\ None # Torn
    BY ChainAssumption
  <2>5. \A b \in BlockId : blocks'[b] =
            IF b = me.id THEN IF blocks[b] = None THEN None ELSE Spoiled ELSE blocks[b]
    BY <2>1 DEF IInv, Typed
  <2>6. LocalOK(next, blocks', created')
    BY <2>1, <2>2, <2>4, <2>5 DEF LocalOK
  <2>7. ASSUME NEW q \in Process
        PROVE  LocalOK(local[q], blocks', created')
    <3>1. LocalOK(local[q], blocks, created)
      BY DEF IInv, Linked
    <3> QED BY <2>1, <2>4, <2>5, <3>1 DEF LocalOK
  <2>8. local' = [q \in Process |-> IF q = p THEN next ELSE local[q]]
    BY <2>1 DEF IInv, Typed
  <2> HIDE DEF next
  <2>9. Typed'
    <3>1. blocks' \in [BlockId -> StoredBlock \cup {None, Torn, Spoiled}]
      BY <2>1 DEF IInv, Typed
    <3> QED BY <2>1, <2>8, <3>1 DEF IInv, Typed
  <2>10. Linked'
    <3>1. \A b \in BlockId : blocks'[b] # None => b <= created'
      <4>1. created' = created
        BY <2>1
      <4>2. me.id \in 1..created /\ created \in Nat
        BY <2>2
      <4> HIDE DEF me
      <4>3. me.id <= created
        BY <4>2
      <4> QED BY <2>5, <4>1, <4>3 DEF IInv, Linked
    <3>2. \A q \in Process : LocalOK(local'[q], blocks', created')
      BY <2>6, <2>7, <2>8
    <3> QED BY <2>1, <3>1, <3>2 DEF IInv, Linked
  <2>11. HeadBlockWritten'
    BY <2>1, <2>4, <2>5 DEF IInv, HeadBlockWritten
  <2>12. ChainPointsBack'
    BY <2>1, <2>5 DEF IInv, ChainPointsBack, Loadable
  <2> QED BY <2>9, <2>10, <2>11, <2>12 DEF IInv
<1>15. CASE WriteShort(p) /\ me.pc = "write head"
  <2> DEFINE next == IF AutoPurge THEN [pc |-> "purge"] ELSE Idle
  <2>1. /\ head' = Cut
        /\ local' = [local EXCEPT ![p] = next]
        /\ UNCHANGED <<config, snapshot, blocks, created>>
    BY <1>15 DEF WriteShort, Become
  <2>2. LocalOK(next, blocks, created)
    <3>1. next.pc \notin CommitPc
      BY DEF CommitPc, Idle
    <3> QED BY <3>1, OtherLocalOK
  <2>3. local' = [q \in Process |-> IF q = p THEN next ELSE local[q]]
    BY <2>1 DEF IInv, Typed
  <2> HIDE DEF next
  <2>4. Typed'
    BY <2>1, <2>3 DEF IInv, Typed
  <2>5. head' \in LinkUpTo(created')
    BY <2>1 DEF LinkUpTo
  <2>6. \A q \in Process : LocalOK(local'[q], blocks', created')
    BY <2>1, <2>2, <2>3 DEF IInv, Linked
  <2>7. Linked'
    BY <2>1, <2>5, <2>6 DEF IInv, Linked
  <2>8. head' \notin BlockId
    BY <2>1, ChainAssumption DEF BlockId
  <2>9. HeadBlockWritten' /\ ChainPointsBack'
    BY <2>1, <2>8 DEF IInv, HeadBlockWritten, ChainPointsBack, Loadable
  <2> QED BY <2>4, <2>7, <2>9 DEF IInv
<1>16. WriteShort(p) => me.pc \in {"write snapshot", "write block", "write head"}
  BY DEF WriteShort
<1> QED BY <1>1, <1>2, <1>3, <1>4, <1>5, <1>6, <1>7, <1>8, <1>9, <1>10, <1>11, <1>12,
           <1>13, <1>14, <1>15, <1>16 DEF Commit

\* A purge, a diff, a rebase or a history never becomes a commit.
LEMMA OthersStayOther ==
    ASSUME NEW p \in Process,
           Purge(p) \/ Diff(p) \/ Rebase(p) \/ History(p) \/ Finish(p)
           \/ InstanceLoadFails(p) \/ Interrupt(p)
    PROVE  BecomesOther(p)
<1>1. CASE Purge(p)
  BY <1>1, BecomesOtherIntro
     DEF Purge, PurgeStart, PurgeHead, PurgeWalk, PurgeRead, PurgeList, PurgeDelete, PurgeEnd,
         Failed, Idle, CommitPc
<1>2. CASE Diff(p)
  <2>1. CASE DiffMerge(p)
    BY <2>1, BecomesOtherIntro DEF DiffMerge, Failed, Crashed, CommitPc
  <2>2. CASE DiffResolve(p)
    BY <2>2, BecomesOtherIntro DEF DiffResolve, DiffFrom, Failed, CommitPc
  <2>3. CASE DiffHead(p)
    BY <2>3, BecomesOtherIntro DEF DiffHead, Failed, CommitPc
  <2>4. CASE DiffEnd(p)
    BY <2>4, BecomesOtherIntro DEF DiffEnd, CommitPc
  <2> QED BY <1>2, <2>1, <2>2, <2>3, <2>4 DEF Diff
<1>3. CASE Rebase(p)
  BY <1>3, BecomesOtherIntro
     DEF Rebase, RebaseStart, RebaseLoad, RebaseHead, Failed, CommitPc
<1>4. CASE History(p)
  <2>1. CASE HistoryStart(p)
    BY <2>1, BecomesOtherIntro DEF HistoryStart, CommitPc
  <2>2. CASE HistoryHead(p)
    BY <2>2, BecomesOtherIntro DEF HistoryHead, CommitPc
  <2>3. CASE HistoryWalk(p)
    BY <2>3, BecomesOtherIntro DEF HistoryWalk, CommitPc
  <2>4. CASE HistoryRead(p)
    BY <2>4, BecomesOtherIntro DEF HistoryRead, Failed, CommitPc
  <2> QED BY <1>4, <2>1, <2>2, <2>3, <2>4 DEF History
<1>5. CASE Finish(p) \/ InstanceLoadFails(p) \/ Interrupt(p)
  BY <1>5, BecomesOtherIntro
     DEF Finish, InstanceLoadFails, Interrupt, Failed, Idle, CommitPc
<1> QED BY <1>1, <1>2, <1>3, <1>4, <1>5

\* Diffs, rebases and histories write no file, nor does a command that ends.
LEMMA ReadKeepsFiles ==
    ASSUME NEW p \in Process,
           Diff(p) \/ Rebase(p) \/ History(p) \/ Finish(p) \/ InstanceLoadFails(p)
           \/ Interrupt(p)
    PROVE  UNCHANGED files /\ UNCHANGED <<config, created, stateAt>>
BY DEF Diff, DiffResolve, DiffFrom, DiffHead, DiffMerge, DiffEnd, Rebase, RebaseStart,
       RebaseLoad, RebaseHead, History, HistoryStart, HistoryHead, HistoryWalk, HistoryRead,
       Finish, InstanceLoadFails, Interrupt

LEMMA PurgeStep ==
    ASSUME IInv, NEW p \in Process, Purge(p)
    PROVE  IInv'
<1>1. CASE PurgeDelete(p)
  <2>1. PICK b \in local[p].doomed :
            /\ blocks' = [blocks EXCEPT ![b] = None]
            /\ \/ Become(p, [pc |-> "delete", doomed |-> local[p].doomed \ {b}])
               \/ blocks[b] = None /\ Become(p, Failed("purge"))
    BY <1>1 DEF PurgeDelete
  <2>2. UNCHANGED <<config, snapshot, head, created>>
    BY <1>1 DEF PurgeDelete
  <2>3. PICK next : Become(p, next) /\ next.pc \notin CommitPc
    BY OthersStayOther DEF BecomesOther
  <2>4. local' = [q \in Process |-> IF q = p THEN next ELSE local[q]]
    BY <2>3 DEF Become, IInv, Typed
  <2>5. \A id \in BlockId : blocks'[id] \in {blocks[id], None}
    BY <2>1 DEF IInv, Typed
  <2>6. blocks' \in [BlockId -> StoredBlock \cup {None, Torn, Spoiled}]
    BY <2>1 DEF IInv, Typed
  <2>7. Typed'
    BY <2>2, <2>4, <2>6 DEF IInv, Typed
  <2>8. ASSUME NEW q \in Process
        PROVE  LocalOK(local'[q], blocks', created')
    <3>1. CASE q = p
      BY <2>3, <2>4, <3>1, OtherLocalOK
    <3>2. CASE q # p
      <4>1. LocalOK(local[q], blocks, created) /\ local'[q] = local[q]
        BY <2>4, <3>2 DEF IInv, Linked
      <4> QED BY <2>2, <2>5, <4>1, ChainAssumption DEF LocalOK
    <3> QED BY <3>1, <3>2
  <2>9. Linked'
    BY <2>2, <2>5, <2>8 DEF IInv, Linked
  <2>10. HeadBlockWritten' /\ ChainPointsBack'
    BY <2>2, <2>5, ChainAssumption DEF IInv, HeadBlockWritten, ChainPointsBack, Loadable
  <2> QED BY <2>7, <2>9, <2>10 DEF IInv
<1>2. CASE \/ PurgeStart(p) \/ PurgeHead(p) \/ PurgeWalk(p) \/ PurgeRead(p)
           \/ PurgeList(p) \/ PurgeEnd(p)
  <2>1. BecomesOther(p)
    BY OthersStayOther
  <2>2. UNCHANGED <<config, files, created>>
    BY <1>2 DEF PurgeStart, PurgeHead, PurgeWalk, PurgeRead, PurgeList, PurgeEnd
  <2> QED BY <2>1, <2>2, OtherStep
<1> QED BY <1>1, <1>2 DEF Purge

LEMMA ReadStep ==
    ASSUME IInv, NEW p \in Process,
           Diff(p) \/ Rebase(p) \/ History(p) \/ Finish(p) \/ InstanceLoadFails(p)
           \/ Interrupt(p)
    PROVE  IInv'
BY OthersStayOther, ReadKeepsFiles, OtherStep

LEMMA ConfigStep ==
    ASSUME IInv, config' \subseteq Table, UNCHANGED <<files, created, local>>
    PROVE  IInv'
<1>1. UNCHANGED <<snapshot, blocks, head, created, local>>
  BY DEF files
<1>2. Typed'
  BY <1>1 DEF IInv, Typed
<1>3. Linked'
  BY <1>1 DEF IInv, Linked
<1>4. HeadBlockWritten' /\ ChainPointsBack'
  BY <1>1 DEF IInv, HeadBlockWritten, ChainPointsBack, Loadable
<1> QED BY <1>2, <1>3, <1>4 DEF IInv

LEMMA InvStep == IInv /\ [Next]_vars => IInv'
<1> SUFFICES ASSUME IInv, [Next]_vars PROVE IInv'
  OBVIOUS
<1>1. ASSUME NEW p \in Process, Run(p) \/ InstanceLoadFails(p) \/ Interrupt(p)
      PROVE  IInv'
  BY <1>1, CommitStep, PurgeStep, ReadStep DEF Run
<1>2. CASE AddTable
  <2>1. config' \subseteq Table
    BY <1>2, ChainAssumption DEF AddTable, IInv, Typed
  <2> QED BY <1>2, <2>1, ConfigStep DEF AddTable
<1>3. CASE RemoveTable
  <2>1. config' \subseteq Table
    BY <1>3 DEF RemoveTable, IInv, Typed
  <2> QED BY <1>3, <2>1, ConfigStep DEF RemoveTable
<1>4. CASE UNCHANGED vars
  <2>1. UNCHANGED <<files, created, local>> /\ config' \subseteq Table
    BY <1>4 DEF vars, files, IInv, Typed
  <2> QED BY <2>1, ConfigStep
<1> QED BY <1>1, <1>2, <1>3, <1>4 DEF Next

-----------------------------------------------------------------------------
(* Theorems *)

\* Whatever commands run at once, fail and are killed, HEAD never names a block
\* whose file is still empty or was cut off by a kill or a write error:
\* LCH_BlockStore moves HEAD when LCH_BufferWriteFile has returned true, and no
\* later step empties a block that was written.  A short write returns true, too:
\* a block that it spoiled may become HEAD, and HeadStays says no more than that.
THEOREM HeadSafe == Spec => []HeadBlockWritten
<1>1. IInv => HeadBlockWritten
  BY DEF IInv
<1> QED BY <1>1, InvInit, InvStep, PTL DEF Spec

\* The parent a block names was created before it, or is the genesis block, or
\* is no block at all: the walks of purge, diff and history never meet a block
\* twice.
THEOREM PointsBack == Spec => []ChainPointsBack
<1>1. IInv => ChainPointsBack
  BY DEF IInv
<1> QED BY <1>1, InvInit, InvStep, PTL DEF Spec

-----------------------------------------------------------------------------
(* The newest blocks, as a sequence *)

\* f[i] is the block that i steps along the chain lead to from HEAD.
IsChain(f, n) == f = [i \in 0..n |-> IF i = 0 THEN head ELSE Parent(f[i - 1])]

LEMMA ParentType ==
    ASSUME TypeOK, NEW id \in Link
    PROVE  Parent(id) \in Link
<1>1. CASE Loadable(id)
  BY <1>1 DEF Loadable, Parent, TypeOK, Block
<1>2. CASE ~Loadable(id)
  BY <1>2 DEF Parent, Link
<1> QED BY <1>1, <1>2

LEMMA ChainExists ==
    ASSUME TypeOK, NEW n \in Nat
    PROVE  \E f \in [0..n -> Link] : IsChain(f, n)
<1> DEFINE step == [i \in 1..n |-> [id \in Link |-> Parent(id)]]
<1>1. head \in Link
  BY DEF TypeOK
<1>2. step \in Steps(n, Link)
  BY ParentType DEF Steps
<1>3. \A i \in 1..n, id \in Link : step[i][id] = Parent(id)
  OBVIOUS
<1> HIDE DEF step
<1>4. \E f \in [0..n -> Link] :
        f = [i \in 0..n |-> IF i = 0 THEN head ELSE step[i][f[i - 1]]]
  BY <1>1, <1>2, Recursion DEF Recursive
<1> PICK f \in [0..n -> Link] :
        f = [i \in 0..n |-> IF i = 0 THEN head ELSE step[i][f[i - 1]]]
  BY <1>4
<1>5. ASSUME NEW i \in 0..n, i # 0 PROVE i \in 1..n /\ f[i - 1] \in Link
  <2>1. i \in 1..n /\ i - 1 \in 0..n
    BY <1>5
  <2> QED BY <2>1
<1>6. f = [i \in 0..n |-> IF i = 0 THEN head ELSE Parent(f[i - 1])]
  BY <1>3, <1>5
<1> QED BY <1>6 DEF IsChain

LEMMA ChainUnique ==
    ASSUME NEW m \in Nat, NEW n \in Nat, n <= m, NEW f, IsChain(f, m), NEW g, IsChain(g, n)
    PROVE  \A i \in 0..n : f[i] = g[i]
<1> DEFINE S == {i \in 0..n : f[i] = g[i]}
<1>1. /\ \A i \in 0..n : g[i] = IF i = 0 THEN head ELSE Parent(g[i - 1])
      /\ \A i \in 0..n : f[i] = IF i = 0 THEN head ELSE Parent(f[i - 1])
  <2>1. \A i \in 0..m : f[i] = IF i = 0 THEN head ELSE Parent(f[i - 1])
    BY DEF IsChain
  <2>2. \A i \in 0..n : g[i] = IF i = 0 THEN head ELSE Parent(g[i - 1])
    BY DEF IsChain
  <2> QED BY <2>1, <2>2
<1>2. 0 \in S
  BY <1>1
<1>3. ASSUME NEW i \in 0..(n - 1), i \in S PROVE i + 1 \in S
  <2>1. i + 1 \in 0..n /\ i + 1 # 0 /\ (i + 1) - 1 = i
    OBVIOUS
  <2>2. f[i + 1] = Parent(f[i]) /\ g[i + 1] = Parent(g[i])
    BY <1>1, <2>1
  <2> QED BY <1>3, <2>1, <2>2
<1> HIDE DEF S
<1>4. \A i \in 0..n : i \in S
  BY <1>2, <1>3, BoundedInduction
<1> QED BY <1>4 DEF S

LEMMA NewestChain ==
    TypeOK => \A n \in Nat \ {0}, m \in Nat : \A f :
                 n <= m + 1 /\ IsChain(f, m) => Newest(n) = {f[i] : i \in 0..(n - 1)}
<1> SUFFICES ASSUME TypeOK, NEW n \in Nat \ {0}, NEW m \in Nat, NEW f,
                    n <= m + 1, IsChain(f, m)
             PROVE  Newest(n) = {f[i] : i \in 0..(n - 1)}
  OBVIOUS
<1> DEFINE Is(g) == g = [i \in 0..(n - 1) |-> IF i = 0 THEN head ELSE Parent(g[i - 1])]
           nth == CHOOSE g : Is(g)
<1>1. n - 1 \in Nat /\ n - 1 <= m
  OBVIOUS
<1>2. \E g : Is(g)
  BY <1>1, ChainExists DEF IsChain
<1>3. Is(nth)
  BY <1>2
<1> HIDE DEF nth
<1>4. IsChain(nth, n - 1)
  BY <1>3 DEF IsChain
<1>5. \A i \in 0..(n - 1) : f[i] = nth[i]
  BY <1>1, <1>4, ChainUnique
<1>6. Newest(n) = {nth[i] : i \in 0..(n - 1)}
  BY DEF Newest, nth
<1> QED BY <1>5, <1>6

\* The same after a step.
LEMMA NewestChainNext ==
    TypeOK' => \A n \in Nat \ {0}, m \in Nat : \A f :
                 n <= m + 1 /\ IsChain(f, m)' => Newest(n)' = {f[i] : i \in 0..(n - 1)}
<1>1. (TypeOK => \A n \in Nat \ {0}, m \in Nat : \A f :
                    n <= m + 1 /\ IsChain(f, m) => Newest(n) = {f[i] : i \in 0..(n - 1)})'
  BY NewestChain, PTL
<1> QED BY <1>1

\* The newest blocks are the same as long as HEAD is and each of them is there,
\* or is not.
LEMMA NewestSame ==
    ASSUME TypeOK, TypeOK', NEW n \in Nat \ {0}, head' = head,
           \A b \in Newest(n) \cap BlockId : blocks'[b] = blocks[b]
    PROVE  Newest(n)' = Newest(n)
<1>1. n - 1 \in Nat /\ n <= (n - 1) + 1
  OBVIOUS
<1>2. PICK f \in [0..(n - 1) -> Link] : IsChain(f, n - 1)
  BY <1>1, ChainExists
<1>3. Newest(n) = {f[i] : i \in 0..(n - 1)}
  BY <1>1, <1>2, NewestChain
<1>4. \A i \in 0..(n - 1) : Parent(f[i])' = Parent(f[i])
  <2> TAKE i \in 0..(n - 1)
  <2>1. CASE f[i] \in BlockId
    BY <1>3, <2>1 DEF Parent, Loadable
  <2>2. CASE f[i] \notin BlockId
    BY <2>2 DEF Parent, Loadable
  <2> QED BY <2>1, <2>2
<1>5. IsChain(f, n - 1)'
  <2>1. \A i \in 0..(n - 1) : i # 0 => i - 1 \in 0..(n - 1)
    OBVIOUS
  <2>2. f = [i \in 0..(n - 1) |-> IF i = 0 THEN head ELSE Parent(f[i - 1])]
    BY <1>2 DEF IsChain
  <2>3. f = [i \in 0..(n - 1) |-> IF i = 0 THEN head' ELSE Parent(f[i - 1])']
    BY <1>4, <2>1, <2>2
  <2> QED BY <2>3 DEF IsChain
<1> QED BY <1>1, <1>3, <1>5, NewestChainNext

-----------------------------------------------------------------------------
(* The invariant.  While the only process that writes purges, neither HEAD *)
(* nor a block changes but by this purge: the whitelist is the newest      *)
(* blocks as far as the walk has come, and what is deleted is none of the  *)
(* newest chain_length.  HEAD names a block that is there because a commit *)
(* knows the block it stores to be there, and a purge knows the same of    *)
(* HEAD's.                                                                 *)

Writers == Committers \cup Purgers

OneWriter == \A p, q \in Writers : p = q

PurgePc == {"purge", "walk", "read", "list", "delete"}

WalkOK(at, keep) ==
    /\ IsFiniteSet(keep) /\ Cardinality(keep) <= ChainLength
    /\ \E f \in [0..ChainLength -> Link] :
          /\ IsChain(f, ChainLength)
          /\ at = f[Cardinality(keep)]
          /\ keep = {f[i] : i \in 0..(Cardinality(keep) - 1)}
    /\ \A b \in keep : Loadable(b) /\ (at \in BlockId => at < b)

WriterOK(me) ==
    /\ me.pc = "write block" => blocks[me.id] = Torn
    /\ me.pc \in {"open head", "write head"} => Loadable(me.id) \/ blocks[me.id] = Spoiled
    /\ me.pc \in {"walk", "read"} => WalkOK(me.at, me.keep)
    /\ me.pc = "read" => Cardinality(me.keep) # ChainLength
    /\ me.pc = "list" => \A b \in Newest(ChainLength) \cap BlockId :
                            b \in me.keep \/ blocks[b] = None
    /\ me.pc = "delete" => Newest(ChainLength) \cap me.doomed = {}

WriterInv ==
    /\ \A p \in Process : local[p].pc \in CommitPc \cup PurgePc => p \in Writers
    /\ \A p \in Process : WriterOK(local[p])
    /\ HeadOnDisk

-----------------------------------------------------------------------------
(* The invariant's steps *)

\* Nothing is asked of what a command has in memory elsewhere.
LEMMA PlainOK ==
    ASSUME NEW me, me.pc \notin {"write block", "open head", "write head", "walk", "read",
                                 "list", "delete"}
    PROVE  WriterOK(me) /\ WriterOK(me)'
BY DEF WriterOK

\* A step of the writer.
LEMMA WriterStep ==
    ASSUME OneWriter, TypeInv, WriterInv, NEW p \in Process, p \in Writers,
           NEW me, Become(p, me), WriterOK(me)', HeadOnDisk'
    PROVE  WriterInv'
<1>1. local' = [q \in Process |-> IF q = p THEN me ELSE local[q]]
  BY DEF Become, TypeInv, TypeOK
<1>2. ASSUME NEW q \in Process
      PROVE  /\ local'[q].pc \in CommitPc \cup PurgePc => q \in Writers
             /\ WriterOK(local[q])'
  <2>1. CASE q = p
    <3>1. local'[q] = me
      BY <1>1, <2>1
    <3> QED BY <2>1, <3>1 DEF WriterOK
  <2>2. CASE q # p
    <3>1. q \notin Writers
      BY <2>2 DEF OneWriter
    <3>2. local'[q] = local[q] /\ local[q].pc \notin CommitPc \cup PurgePc
      BY <1>1, <2>2, <3>1 DEF WriterInv
    <3> QED BY <3>2 DEF WriterOK, CommitPc, PurgePc
  <2> QED BY <2>1, <2>2
<1> QED BY <1>2 DEF WriterInv

\* A step that changes neither HEAD nor a block.
LEMMA QuietStep ==
    ASSUME TypeInv, TypeInv', WriterInv, NEW p \in Process, NEW me, Become(p, me),
           me.pc \in CommitPc \cup PurgePc => p \in Writers, WriterOK(me),
           UNCHANGED <<blocks, head>>
    PROVE  WriterInv'
<1>1. local' = [q \in Process |-> IF q = p THEN me ELSE local[q]]
  BY DEF Become, TypeInv, TypeOK
<1>2. \A any : WriterOK(any) => WriterOK(any)'
  <2>1. Newest(ChainLength)' = Newest(ChainLength)
    BY NewestSame, ChainAssumption DEF TypeInv
  <2>2. ASSUME NEW f PROVE IsChain(f, ChainLength) => IsChain(f, ChainLength)'
    BY DEF IsChain, Parent, Loadable
  <2>3. \A at, keep : WalkOK(at, keep) => WalkOK(at, keep)'
    BY <2>2 DEF WalkOK, Loadable
  <2> QED BY <2>1, <2>3 DEF WriterOK, Loadable
<1>3. ASSUME NEW q \in Process
      PROVE  /\ local'[q].pc \in CommitPc \cup PurgePc => q \in Writers
             /\ WriterOK(local[q])'
  <2>1. CASE q = p
    <3>1. local'[q] = me /\ WriterOK(me)'
      BY <1>1, <1>2, <2>1
    <3> QED BY <2>1, <3>1 DEF WriterOK
  <2>2. CASE q # p
    <3>1. local'[q] = local[q] /\ WriterOK(local[q])
      BY <1>1, <2>2 DEF WriterInv
    <3> QED BY <1>2, <3>1 DEF WriterInv, WriterOK
  <2> QED BY <2>1, <2>2
<1>4. HeadOnDisk'
  BY DEF WriterInv, HeadOnDisk, Loadable
<1> QED BY <1>3, <1>4 DEF WriterInv

\* A step of a command that only reads, or of one that has nothing to remember.
Plain(p) ==
    \E me : /\ Become(p, me)
            /\ me.pc \notin {"write block", "open head", "write head", "walk", "read",
                             "list", "delete"}
            /\ me.pc \in CommitPc \cup PurgePc => p \in Writers

LEMMA PlainIntro ==
    \A p, me : /\ Become(p, me)
               /\ me.pc \notin {"write block", "open head", "write head", "walk", "read",
                                "list", "delete"}
               /\ me.pc \in CommitPc \cup PurgePc => p \in Writers
               => Plain(p)
BY DEF Plain

LEMMA PlainStep ==
    ASSUME TypeInv, TypeInv', WriterInv, NEW p \in Process, Plain(p),
           UNCHANGED <<blocks, head>>
    PROVE  WriterInv'
<1>1. PICK me : /\ Become(p, me)
                /\ me.pc \notin {"write block", "open head", "write head", "walk", "read",
                                 "list", "delete"}
                /\ me.pc \in CommitPc \cup PurgePc => p \in Writers
  BY DEF Plain
<1>2. WriterOK(me)
  BY <1>1, PlainOK
<1> QED BY <1>1, <1>2, QuietStep

LEMMA WriterCommits ==
    ASSUME OneWriter, TypeInv, TypeInv', IInv, WriterInv, NEW p \in Process, Commit(p)
    PROVE  WriterInv'
<1> DEFINE me == local[p]
<1> USE DEF CommitPc, PurgePc
<1>a. p \in Writers
  BY DEF Commit, CommitStart, CommitLoad, CommitLoadFails, SnapshotOpen, SnapshotWrite,
         CommitHead, BlockOpen, BlockWrite, HeadOpen, HeadWrite, WriteFails, WriteShort, Writers,
         WriterInv
<1>b. /\ me \in Local /\ WriterOK(me) /\ HeadOnDisk
      /\ blocks \in [BlockId -> CommitBlock \cup {None, Torn, Spoiled}]
      /\ local \in [Process -> Local] /\ local' \in [Process -> Local]
  BY DEF TypeInv, TypeOK, WriterInv
<1>1. CASE \/ CommitStart(p) \/ CommitLoad(p) \/ CommitLoadFails(p) \/ SnapshotOpen(p)
           \/ SnapshotWrite(p) \/ CommitHead(p)
  <2>1. UNCHANGED <<blocks, head>>
    BY <1>1 DEF CommitStart, CommitLoad, CommitLoadFails, SnapshotOpen, SnapshotWrite,
                CommitHead, files
  <2>2. Plain(p)
    <3>1. CASE CommitStart(p) \/ CommitLoadFails(p)
      BY <1>a, <3>1, PlainIntro DEF CommitStart, CommitLoadFails, Failed
    <3>2. CASE CommitLoad(p)
      BY <1>a, <3>2, PlainIntro DEF CommitLoad, Failed
    <3>3. CASE SnapshotOpen(p) \/ SnapshotWrite(p) \/ CommitHead(p)
      BY <1>a, <3>3, PlainIntro DEF SnapshotOpen, SnapshotWrite, CommitHead
    <3> QED BY <1>1, <3>1, <3>2, <3>3
  <2> QED BY <2>1, <2>2, PlainStep
<1>2. CASE BlockOpen(p)
  <2>1. PICK next : /\ Become(p, next) /\ next.pc = "write block" /\ next.id = created + 1
                    /\ blocks' = [blocks EXCEPT ![next.id] = Torn] /\ head' = head
    BY <1>2 DEF BlockOpen
  <2>2. next.id \in BlockId
    <3>1. next \in Local
      BY <1>b, <2>1 DEF Become
    <3> QED BY <2>1, <3>1, LocalFields
  <2>3. blocks'[next.id] = Torn /\ \A b \in BlockId \ {next.id} : blocks'[b] = blocks[b]
    BY <1>b, <2>1, <2>2
  <2>4. WriterOK(next)'
    BY <2>1, <2>3 DEF WriterOK
  <2>5. head # next.id
    <3>1. created \in Nat /\ head \in LinkUpTo(created)
      BY DEF IInv, Typed, Linked
    <3>2. created + 1 \notin 0..created /\ created + 1 \in Nat
      BY <3>1
    <3>3. created + 1 \notin {Torn, Cut}
      BY <3>2, ChainAssumption
    <3> QED BY <2>1, <3>1, <3>2, <3>3 DEF LinkUpTo
  <2>6. HeadOnDisk'
    BY <1>b, <2>1, <2>3, <2>5 DEF HeadOnDisk, Loadable
  <2> QED BY <1>a, <2>1, <2>4, <2>6, WriterStep
<1>3. CASE BlockWrite(p)
  <2> DEFINE stored == [parent |-> me.parent, payload |-> me.payload]
  <2>a. /\ Become(p, [pc |-> "open head", id |-> me.id])
        /\ me.pc = "write block" /\ head' = head
        /\ blocks' = [blocks EXCEPT ![me.id] = IF @ = None THEN None ELSE stored]
    BY <1>3 DEF BlockWrite
  <2>1. PICK next :
          /\ Become(p, next) /\ next.pc = "open head" /\ next.id = me.id
          /\ me.pc = "write block" /\ head' = head
          /\ blocks' = [blocks EXCEPT ![me.id] = IF @ = None THEN None ELSE stored]
    <3> HIDE DEF stored
    <3> QED BY <2>a
  <2>2. blocks[next.id] = Torn /\ next.id \in BlockId
    BY <1>b, <2>1, LocalFields DEF WriterOK
  <2>3. stored \notin {Torn, Spoiled, None}
    <3>1. me.payload \in Payload /\ me.parent \in Link
      BY <1>b, <2>1, LocalFields
    <3>2. stored \in [parent: Nat \cup {Torn, Cut}, payload: [Table -> Delta \cup {None}]]
      BY <3>1 DEF Link, BlockId, Genesis, Payload
    <3> QED BY <3>2, ChainAssumption
  <2> HIDE DEF stored
  <2>4. /\ blocks'[next.id] \notin {Torn, Spoiled, None}
        /\ \A b \in BlockId \ {next.id} : blocks'[b] = blocks[b]
    BY <1>b, <2>1, <2>2, <2>3, ChainAssumption
  <2>5. WriterOK(next)'
    BY <2>1, <2>2, <2>4 DEF WriterOK, Loadable
  <2>6. HeadOnDisk'
    BY <1>b, <2>1, <2>4 DEF HeadOnDisk, Loadable
  <2> QED BY <1>a, <2>1, <2>5, <2>6, WriterStep
<1>4. CASE HeadOpen(p)
  <2>1. PICK next : /\ Become(p, next) /\ next.pc = "write head" /\ next.id = me.id
                    /\ me.pc = "open head" /\ head' = Torn /\ blocks' = blocks
    BY <1>4 DEF HeadOpen
  <2>2. WriterOK(next)'
    BY <1>b, <2>1 DEF WriterOK, Loadable
  <2>3. HeadOnDisk'
    <3>1. Torn \notin Nat /\ BlockId \subseteq Nat
      BY ChainAssumption DEF BlockId
    <3> QED BY <2>1, <3>1 DEF HeadOnDisk
  <2> QED BY <1>a, <2>1, <2>2, <2>3, WriterStep
<1>5. CASE HeadWrite(p)
  <2>1. PICK next : /\ Become(p, next) /\ next.pc \in {"purge", "idle"}
                    /\ me.pc = "write head" /\ head' = me.id /\ blocks' = blocks
    BY <1>5 DEF HeadWrite, Idle
  <2>2. WriterOK(next)'
    BY <2>1, PlainOK
  <2>3. HeadOnDisk'
    BY <1>b, <2>1 DEF HeadOnDisk, Loadable, WriterOK
  <2> QED BY <1>a, <2>1, <2>2, <2>3, WriterStep
<1>6. CASE WriteFails(p)
  <2>1. Become(p, Failed("commit")) /\ head' \in {head, Cut} /\ blocks' = blocks
    BY <1>6 DEF WriteFails
  <2>2. WriterOK(Failed("commit"))'
    <3>1. Failed("commit").pc = "failed"
      BY DEF Failed
    <3> QED BY <3>1, PlainOK
  <2>3. HeadOnDisk'
    BY <1>b, <2>1, ChainAssumption DEF HeadOnDisk, Loadable, BlockId
  <2> QED BY <1>a, <2>1, <2>2, <2>3, WriterStep
<1>7. CASE WriteShort(p) /\ me.pc = "write snapshot"
  <2>1. UNCHANGED <<blocks, head>>
    BY <1>7 DEF WriteShort
  <2>2. Plain(p)
    BY <1>a, <1>7, PlainIntro DEF WriteShort
  <2> QED BY <2>1, <2>2, PlainStep
<1>8. CASE WriteShort(p) /\ me.pc = "write block"
  <2>a. /\ Become(p, [pc |-> "open head", id |-> me.id]) /\ head' = head
        /\ blocks' = [blocks EXCEPT ![me.id] = IF @ = None THEN None ELSE Spoiled]
    BY <1>8 DEF WriteShort
  <2>1. PICK next :
          /\ Become(p, next) /\ next.pc = "open head" /\ next.id = me.id /\ head' = head
          /\ blocks' = [blocks EXCEPT ![me.id] = IF @ = None THEN None ELSE Spoiled]
    BY <2>a
  <2>2. blocks[next.id] = Torn /\ next.id \in BlockId
    BY <1>b, <1>8, <2>1, LocalFields DEF WriterOK
  <2>3. /\ blocks'[next.id] = Spoiled
        /\ \A b \in BlockId \ {next.id} : blocks'[b] = blocks[b]
    BY <1>b, <2>1, <2>2, ChainAssumption
  <2>4. WriterOK(next)'
    BY <2>1, <2>3 DEF WriterOK
  <2>5. HeadOnDisk'
    BY <1>b, <2>1, <2>2, <2>3 DEF HeadOnDisk, Loadable
  <2> QED BY <1>a, <2>1, <2>4, <2>5, WriterStep
<1>9. CASE WriteShort(p) /\ me.pc = "write head"
  <2>1. PICK next : /\ Become(p, next) /\ next.pc \in {"purge", "idle"}
                    /\ head' = Cut /\ blocks' = blocks
    BY <1>9 DEF WriteShort, Idle
  <2>2. WriterOK(next)'
    BY <2>1, PlainOK
  <2>3. HeadOnDisk'
    BY <2>1, ChainAssumption DEF HeadOnDisk, BlockId
  <2> QED BY <1>a, <2>1, <2>2, <2>3, WriterStep
<1>10. WriteShort(p) => me.pc \in {"write snapshot", "write block", "write head"}
  BY DEF WriteShort
<1> QED BY <1>1, <1>2, <1>3, <1>4, <1>5, <1>6, <1>7, <1>8, <1>9, <1>10 DEF Commit

LEMMA WriterPurges ==
    ASSUME OneWriter, TypeInv, TypeInv', IInv, WriterInv, NEW p \in Process, Purge(p)
    PROVE  WriterInv'
<1> DEFINE me == local[p]
<1> USE DEF CommitPc, PurgePc
<1>a. p \in Writers
  BY DEF Purge, PurgeStart, PurgeHead, PurgeWalk, PurgeRead, PurgeList, PurgeDelete, PurgeEnd,
         Writers, WriterInv
<1>b. /\ me \in Local /\ WriterOK(me) /\ HeadOnDisk /\ ChainPointsBack
      /\ blocks \in [BlockId -> CommitBlock \cup {None, Torn, Spoiled}]
      /\ local \in [Process -> Local] /\ local' \in [Process -> Local]
      /\ TypeOK /\ TypeOK'
  BY DEF TypeInv, TypeOK, WriterInv, IInv
<1>c. ChainLength \in Nat \ {0} /\ BlockId \subseteq Nat /\ ChainLength <= ChainLength + 1
  BY ChainAssumption DEF BlockId
<1>1. CASE PurgeStart(p) \/ PurgeEnd(p)
  <2>1. UNCHANGED <<blocks, head>>
    BY <1>1 DEF PurgeStart, PurgeEnd, files
  <2>2. Plain(p)
    BY <1>a, <1>1, PlainIntro DEF PurgeStart, PurgeEnd, Idle
  <2> QED BY <2>1, <2>2, PlainStep
<1>2. CASE PurgeHead(p)
  <2>1. /\ Become(p, [pc |-> "walk", at |-> head, keep |-> {}])
        /\ UNCHANGED <<blocks, head>>
    BY <1>2 DEF PurgeHead, files
  <2>2. PICK f \in [0..ChainLength -> Link] : IsChain(f, ChainLength)
    BY <1>b, <1>c, ChainExists
  <2>3. IsFiniteSet({}) /\ Cardinality({}) = 0
    BY FS_EmptySet
  <2>4. f[0] = head
    BY <1>c, <2>2 DEF IsChain
  <2>5. {f[i] : i \in 0..(0 - 1)} = {}
    OBVIOUS
  <2>6. WalkOK(head, {})
    BY <1>c, <2>2, <2>3, <2>4, <2>5 DEF WalkOK
  <2>7. Cardinality({}) # ChainLength
    BY <1>c, <2>3
  <2>8. WriterOK([pc |-> "walk", at |-> head, keep |-> {}])
    BY <2>6 DEF WriterOK
  <2> QED BY <1>a, <2>1, <2>8, QuietStep
<1>3. CASE PurgeWalk(p)
  <2>1. /\ me.pc = "walk" /\ UNCHANGED <<blocks, head>>
        /\ \/ /\ Cardinality(me.keep) = ChainLength \/ EndOfChain(me.at)
              /\ Become(p, [pc |-> "list", keep |-> me.keep])
           \/ /\ Cardinality(me.keep) # ChainLength
              /\ Become(p, [pc |-> "read", at |-> me.at, keep |-> me.keep])
    BY <1>3 DEF PurgeWalk, files
  <2>2. WalkOK(me.at, me.keep)
    BY <1>b, <2>1 DEF WriterOK
  <2>3. CASE /\ Cardinality(me.keep) # ChainLength
             /\ Become(p, [pc |-> "read", at |-> me.at, keep |-> me.keep])
    <3>1. WriterOK([pc |-> "read", at |-> me.at, keep |-> me.keep])
      BY <2>2, <2>3 DEF WriterOK
    <3> QED BY <1>a, <2>1, <2>3, <3>1, QuietStep
  <2>4. CASE /\ Cardinality(me.keep) = ChainLength \/ EndOfChain(me.at)
             /\ Become(p, [pc |-> "list", keep |-> me.keep])
    <3> DEFINE n == Cardinality(me.keep)
    <3>1. PICK f \in [0..ChainLength -> Link] :
            IsChain(f, ChainLength) /\ me.at = f[n] /\ me.keep = {f[i] : i \in 0..(n - 1)}
      BY <2>2 DEF WalkOK
    <3>2. n \in Nat /\ n <= ChainLength
      BY <2>2, FS_CardinalityType DEF WalkOK
    <3> HIDE DEF n
    <3>3. Newest(ChainLength) = {f[i] : i \in 0..(ChainLength - 1)}
      BY <1>b, <1>c, <3>1, NewestChain
    <3>4. ASSUME NEW b \in Newest(ChainLength) \cap BlockId, b \notin me.keep
          PROVE  blocks[b] = None
      <4>1. PICK i \in 0..(ChainLength - 1) : b = f[i]
        BY <3>3
      <4>2. i >= n
        BY <1>c, <3>1, <3>2, <3>4, <4>1
      <4>3. EndOfChain(f[n]) /\ n <= ChainLength - 1
        BY <1>c, <2>4, <3>1, <3>2, <4>1, <4>2 DEF n
      <4> DEFINE S == {j \in 0..(ChainLength - 1 - n) : EndOfChain(f[n + j])}
      <4>4. 0 \in S
        BY <1>c, <3>2, <4>3
      <4>5. ASSUME NEW j \in 0..(ChainLength - 1 - n - 1), j \in S PROVE j + 1 \in S
        <5>1. /\ n + j + 1 \in 0..ChainLength /\ n + j + 1 # 0 /\ (n + j + 1) - 1 = n + j
              /\ j + 1 \in 0..(ChainLength - 1 - n) /\ n + (j + 1) = n + j + 1
          BY <1>c, <3>2, <4>3
        <5>2. f[n + j + 1] = Parent(f[n + j])
          BY <3>1, <5>1 DEF IsChain
        <5>3. ~Loadable(f[n + j])
          BY <4>5, ChainAssumption DEF EndOfChain, Loadable, BlockId, Genesis
        <5>4. EndOfChain(f[n + j + 1])
          BY <5>2, <5>3 DEF Parent, EndOfChain
        <5> QED BY <5>1, <5>4
      <4> HIDE DEF S
      <4>6. ChainLength - 1 - n \in Nat
        BY <1>c, <3>2, <4>3
      <4>7. \A j \in 0..(ChainLength - 1 - n) : j \in S
        BY <4>4, <4>5, <4>6, BoundedInduction
      <4>8. i - n \in 0..(ChainLength - 1 - n) /\ n + (i - n) = i
        BY <1>c, <3>2, <4>2
      <4>9. EndOfChain(b)
        BY <4>1, <4>7, <4>8 DEF S
      <4> QED BY <4>9, ChainAssumption DEF EndOfChain, BlockId, Genesis
    <3>5. WriterOK([pc |-> "list", keep |-> me.keep])
      BY <3>4 DEF WriterOK
    <3> QED BY <1>a, <2>1, <2>4, <3>5, QuietStep
  <2> QED BY <2>1, <2>3, <2>4
<1>4. CASE PurgeRead(p)
  <2>1. me.pc = "read" /\ UNCHANGED <<blocks, head>>
    BY <1>4 DEF PurgeRead, files
  <2>2. CASE ~Loadable(me.at)
    <3>1. Plain(p)
      BY <1>4, <2>2, PlainIntro DEF PurgeRead, Failed
    <3> QED BY <2>1, <3>1, PlainStep
  <2>3. CASE Loadable(me.at)
    <3> DEFINE n    == Cardinality(me.keep)
               up   == blocks[me.at].parent
               keep == me.keep \cup {me.at}
    <3>1. Become(p, [pc |-> "walk", at |-> up, keep |-> keep])
      BY <1>4, <2>3 DEF PurgeRead
    <3>2. WalkOK(me.at, me.keep) /\ n # ChainLength
      BY <1>b, <2>1 DEF WriterOK
    <3>3. PICK f \in [0..ChainLength -> Link] :
            IsChain(f, ChainLength) /\ me.at = f[n] /\ me.keep = {f[i] : i \in 0..(n - 1)}
      BY <3>2 DEF WalkOK
    <3>4. n \in Nat /\ n + 1 <= ChainLength
      BY <1>c, <3>2, FS_CardinalityType DEF WalkOK
    <3>5. /\ me.at \in BlockId /\ up \in 0..(me.at - 1) \cup {Torn, Cut}
          /\ \A b \in me.keep : Loadable(b) /\ b \in BlockId /\ me.at < b
      BY <1>b, <2>3, <3>2 DEF ChainPointsBack, Loadable, WalkOK
    <3>a. me.at \in Nat /\ ~(me.at < me.at) /\ me.at <= me.at
      <4>1. me.at \in Nat
        BY <1>c, <3>5
      <4>2. \A i \in Nat : ~(i < i) /\ i <= i
        OBVIOUS
      <4> QED BY <4>1, <4>2
    <3>6. me.at \notin me.keep
      BY <3>5, <3>a
    <3>7. IsFiniteSet(keep) /\ Cardinality(keep) = n + 1
      BY <3>2, <3>6, FS_AddElement DEF WalkOK
    <3>8. f[n + 1] = up
      <4>1. n + 1 \in 0..ChainLength /\ n + 1 # 0 /\ (n + 1) - 1 = n
        BY <1>c, <3>4
      <4>2. f[n + 1] = Parent(f[n])
        BY <3>3, <4>1 DEF IsChain
      <4> QED BY <2>3, <3>3, <4>2 DEF Parent
    <3>9. keep = {f[i] : i \in 0..((n + 1) - 1)}
      <4>1. \A i : i \in 0..((n + 1) - 1) <=> i \in 0..(n - 1) \/ i = n
        BY <3>4
      <4> HIDE DEF n
      <4> QED BY <3>3, <4>1
    <3>10. \A b \in keep : Loadable(b) /\ (up \in BlockId => up < b)
      <4>1. \A b \in keep : Loadable(b) /\ b \in BlockId /\ me.at <= b
        <5>1. \A b \in me.keep : Loadable(b) /\ b \in BlockId /\ me.at <= b
          <6>1. \A i, j \in Nat : i < j => i <= j
            OBVIOUS
          <6> QED BY <1>c, <3>5, <3>a, <6>1
        <5> QED BY <2>3, <3>5, <3>a, <5>1
      <4> HIDE DEF up, keep
      <4>2. up \in BlockId => up \in 0..(me.at - 1)
        <5>1. Torn \notin BlockId /\ Cut \notin BlockId
          BY <1>c, ChainAssumption
        <5> QED BY <3>5, <5>1
      <4>3. \A b \in keep : b \in Nat /\ me.at <= b
        BY <1>c, <4>1
      <4>4. up \in BlockId => \A b \in keep : up < b
        BY <3>a, <4>2, <4>3
      <4> QED BY <4>1, <4>4
    <3> HIDE DEF n, up, keep
    <3>11. WalkOK(up, keep)
      BY <3>3, <3>4, <3>7, <3>8, <3>9, <3>10 DEF WalkOK
    <3>12. WriterOK([pc |-> "walk", at |-> up, keep |-> keep])
      BY <3>11 DEF WriterOK
    <3> QED BY <1>a, <2>1, <3>1, <3>12, QuietStep
  <2> QED BY <2>2, <2>3
<1>5. CASE PurgeList(p)
  <2> DEFINE doomed == {b \in BlockId : blocks[b] # None} \ me.keep
  <2>1. /\ me.pc = "list" /\ UNCHANGED <<blocks, head>>
        /\ \/ Become(p, [pc |-> "delete", doomed |-> doomed])
           \/ Become(p, Failed("purge"))
    BY <1>5 DEF PurgeList, files
  <2>2. CASE Become(p, Failed("purge"))
    <3>1. Plain(p)
      BY <2>2, PlainIntro DEF Failed
    <3> QED BY <2>1, <3>1, PlainStep
  <2>3. CASE Become(p, [pc |-> "delete", doomed |-> doomed])
    <3>1. Newest(ChainLength) \cap doomed = {}
      BY <1>b, <2>1 DEF WriterOK
    <3> HIDE DEF doomed
    <3>2. WriterOK([pc |-> "delete", doomed |-> doomed])
      BY <3>1 DEF WriterOK
    <3> QED BY <1>a, <2>1, <2>3, <3>2, QuietStep
  <2> QED BY <2>1, <2>2, <2>3
<1>6. CASE PurgeDelete(p)
  <2>1. PICK b \in me.doomed :
            /\ blocks' = [blocks EXCEPT ![b] = None]
            /\ \/ Become(p, [pc |-> "delete", doomed |-> me.doomed \ {b}])
               \/ Become(p, Failed("purge"))
    BY <1>6 DEF PurgeDelete
  <2>2. me.pc = "delete" /\ head' = head
    BY <1>6 DEF PurgeDelete
  <2>3. Newest(ChainLength) \cap me.doomed = {} /\ b \in BlockId
    BY <1>b, <2>2, LocalFields DEF WriterOK
  <2>4. \A id \in BlockId \ {b} : blocks'[id] = blocks[id]
    BY <1>b, <2>1, <2>3
  <2>5. Newest(ChainLength)' = Newest(ChainLength)
    BY <1>b, <1>c, <2>2, <2>3, <2>4, NewestSame
  <2>6. head # b
    <3>1. PICK f \in [0..ChainLength -> Link] : IsChain(f, ChainLength)
      BY <1>b, <1>c, ChainExists
    <3>2. f[0] = head /\ 0 \in 0..(ChainLength - 1)
      BY <1>c, <3>1 DEF IsChain
    <3>3. head \in Newest(ChainLength)
      BY <1>b, <1>c, <3>1, <3>2, NewestChain
    <3> QED BY <2>3, <3>3
  <2>7. HeadOnDisk'
    BY <1>b, <2>2, <2>4, <2>6 DEF HeadOnDisk, Loadable
  <2>8. PICK next : /\ Become(p, next)
                    /\ \/ next.pc = "delete" /\ next.doomed \subseteq me.doomed
                       \/ next.pc = "failed"
    BY <2>1 DEF Failed
  <2>9. WriterOK(next)'
    BY <2>3, <2>5, <2>8 DEF WriterOK
  <2> QED BY <1>a, <2>7, <2>8, <2>9, WriterStep
<1> QED BY <1>1, <1>2, <1>3, <1>4, <1>5, <1>6 DEF Purge

LEMMA WriterInvInit == Init => WriterInv
<1> SUFFICES ASSUME Init PROVE WriterInv
  OBVIOUS
<1>1. \A p \in Process : local[p] = Idle
  BY DEF Init
<1>2. Idle.pc \notin CommitPc \cup PurgePc /\ Idle.pc = "idle"
  BY DEF Idle, CommitPc, PurgePc
<1>3. \A p \in Process : WriterOK(local[p])
  BY <1>1, <1>2, PlainOK
<1>4. HeadOnDisk
  BY DEF Init, HeadOnDisk, BlockId, Genesis
<1> QED BY <1>1, <1>2, <1>3, <1>4 DEF WriterInv

\* A command that reads goes on reading.
LEMMA ReadPlain ==
    ASSUME NEW p \in Process,
           Diff(p) \/ Rebase(p) \/ History(p) \/ Finish(p) \/ InstanceLoadFails(p)
           \/ Interrupt(p)
    PROVE  Plain(p)
<1> USE DEF CommitPc, PurgePc
<1>1. CASE Diff(p)
  <2>1. CASE DiffMerge(p)
    BY <2>1, PlainIntro DEF DiffMerge, Failed, Crashed
  <2>2. CASE DiffResolve(p)
    BY <2>2, PlainIntro DEF DiffResolve, DiffFrom, Failed
  <2>3. CASE DiffHead(p)
    BY <2>3, PlainIntro DEF DiffHead
  <2>4. CASE DiffEnd(p)
    BY <2>4, PlainIntro DEF DiffEnd
  <2> QED BY <1>1, <2>1, <2>2, <2>3, <2>4 DEF Diff
<1>2. CASE Rebase(p)
  BY <1>2, PlainIntro DEF Rebase, RebaseStart, RebaseLoad, RebaseHead, Failed
<1>3. CASE History(p)
  <2>1. CASE HistoryStart(p)
    BY <2>1, PlainIntro DEF HistoryStart
  <2>2. CASE HistoryHead(p)
    BY <2>2, PlainIntro DEF HistoryHead
  <2>3. CASE HistoryWalk(p)
    BY <2>3, PlainIntro DEF HistoryWalk
  <2>4. CASE HistoryRead(p)
    BY <2>4, PlainIntro DEF HistoryRead, Failed
  <2> QED BY <1>3, <2>1, <2>2, <2>3, <2>4 DEF History
<1>4. CASE Finish(p) \/ InstanceLoadFails(p) \/ Interrupt(p)
  BY <1>4, PlainIntro DEF Finish, InstanceLoadFails, Interrupt, Failed, Idle
<1> QED BY <1>1, <1>2, <1>3, <1>4

\* A step that leaves HEAD, the blocks and the commands alone.
LEMMA IdleStep ==
    ASSUME TypeInv, TypeInv', WriterInv, UNCHANGED <<blocks, head, local>>
    PROVE  WriterInv'
<1>1. \A p \in Process : local[p] \in Local
  BY DEF TypeInv, TypeOK
<1>2. CASE Process = {}
  BY <1>2 DEF WriterInv, HeadOnDisk, Loadable
<1>3. ASSUME NEW p \in Process PROVE WriterInv'
  <2>1. Become(p, local[p])
    BY DEF Become, TypeInv, TypeOK
  <2> QED BY <2>1, QuietStep DEF WriterInv
<1> QED BY <1>2, <1>3

LEMMA WriterInvStep ==
    ASSUME OneWriter, TypeInv, TypeInv', IInv, WriterInv, [Next]_vars
    PROVE  WriterInv'
<1>1. ASSUME NEW p \in Process, Run(p) \/ InstanceLoadFails(p) \/ Interrupt(p)
      PROVE  WriterInv'
  <2>1. CASE Commit(p) \/ Purge(p)
    BY <2>1, WriterCommits, WriterPurges
  <2>2. CASE ~(Commit(p) \/ Purge(p))
    <3>1. \/ Diff(p) \/ Rebase(p) \/ History(p) \/ Finish(p) \/ InstanceLoadFails(p)
          \/ Interrupt(p)
      BY <1>1, <2>2 DEF Run
    <3>2. UNCHANGED <<blocks, head>>
      BY <3>1, ReadKeepsFiles DEF files
    <3> QED BY <3>1, <3>2, ReadPlain, PlainStep
  <2> QED BY <2>1, <2>2
<1>2. CASE AddTable \/ RemoveTable \/ UNCHANGED vars
  <2>1. UNCHANGED <<blocks, head, local>>
    BY <1>2 DEF AddTable, RemoveTable, vars, files
  <2> QED BY <2>1, IdleStep
<1> QED BY <1>1, <1>2 DEF Next

\* Blocks go away in a purge only, and only such as it found past the newest.
LEMMA PurgeStepKeeps ==
    ASSUME TypeInv, IInv, WriterInv, [Next]_vars
    PROVE  [\A b \in BlockId : blocks'[b] = None /\ b \in Newest(ChainLength)
                                  => blocks[b] = None]_vars
<1> SUFFICES ASSUME Next, NEW b \in BlockId, blocks'[b] = None, b \in Newest(ChainLength)
             PROVE  blocks[b] = None
  OBVIOUS
<1>0. blocks \in [BlockId -> CommitBlock \cup {None, Torn, Spoiled}]
  BY DEF TypeInv, TypeOK
<1>1. CASE blocks' = blocks
  BY <1>1
<1>2. ASSUME NEW p \in Process, BlockOpen(p) PROVE blocks[b] = None
  BY <1>0, <1>2, ChainAssumption DEF BlockOpen
<1>3. ASSUME NEW p \in Process, BlockWrite(p) PROVE blocks[b] = None
  <2> DEFINE stored == [parent |-> local[p].parent, payload |-> local[p].payload]
  <2>1. blocks' = [blocks EXCEPT ![local[p].id] = IF @ = None THEN None ELSE stored]
    BY <1>3 DEF BlockWrite
  <2>2. stored # None
    <3>1. local[p].payload \in Payload /\ local[p].parent \in Link
      BY <1>3, LocalFields DEF BlockWrite, TypeInv, TypeOK
    <3>2. stored \in [parent: Nat \cup {Torn, Cut}, payload: [Table -> Delta \cup {None}]]
      BY <3>1 DEF Link, BlockId, Genesis, Payload
    <3> QED BY <3>2, ChainAssumption
  <2> HIDE DEF stored
  <2> QED BY <1>0, <2>1, <2>2
<1>3a. ASSUME NEW p \in Process, WriteShort(p) PROVE blocks[b] = None
  <2>1. CASE local[p].pc = "write block"
    BY <1>0, <1>3a, <2>1, ChainAssumption DEF WriteShort
  <2>2. CASE local[p].pc # "write block"
    BY <1>1, <1>3a, <2>2 DEF WriteShort
  <2> QED BY <2>1, <2>2
<1>4. ASSUME NEW p \in Process, PurgeDelete(p) PROVE blocks[b] = None
  <2>1. local[p].pc = "delete"
    BY <1>4 DEF PurgeDelete
  <2>2. Newest(ChainLength) \cap local[p].doomed = {}
    BY <2>1 DEF WriterInv, WriterOK
  <2>3. PICK d \in local[p].doomed : blocks' = [blocks EXCEPT ![d] = None]
    BY <1>4 DEF PurgeDelete
  <2> QED BY <1>0, <2>2, <2>3
<1>5. ASSUME NEW p \in Process, Run(p) \/ InstanceLoadFails(p) \/ Interrupt(p)
      PROVE  \/ blocks' = blocks
             \/ BlockOpen(p) \/ BlockWrite(p) \/ WriteShort(p) \/ PurgeDelete(p)
  <2>1. CASE Commit(p)
    BY <2>1 DEF Commit, CommitStart, CommitLoad, CommitLoadFails, SnapshotOpen,
                SnapshotWrite, CommitHead, HeadOpen, HeadWrite, WriteFails, files
  <2>2. CASE Purge(p)
    BY <2>2 DEF Purge, PurgeStart, PurgeHead, PurgeWalk, PurgeRead, PurgeList, PurgeEnd,
                files
  <2> QED BY <1>5, <2>1, <2>2, ReadKeepsFiles DEF Run, files
<1>6. CASE AddTable \/ RemoveTable
  BY <1>1, <1>6 DEF AddTable, RemoveTable, files
<1> QED BY <1>1, <1>2, <1>3, <1>3a, <1>4, <1>5, <1>6 DEF Next

-----------------------------------------------------------------------------
(* Theorems *)

LEMMA WriterInvHolds == ASSUME OneWriter PROVE Spec => [](TypeInv /\ IInv /\ WriterInv)
<1>1. Init => WriterInv
  BY WriterInvInit
<1>2. TypeInv /\ TypeInv' /\ IInv /\ WriterInv /\ [Next]_vars => WriterInv'
  BY WriterInvStep
<1> QED BY <1>1, <1>2, TypeInvHolds, InvInit, InvStep, PTL DEF Spec

\* With one process that commits and purges at a time, the block HEAD names can
\* be loaded unless a short write spoiled it, and is never deleted, whatever else
\* the disk and the source do and whenever a command is killed: LCH_BlockStore
\* moves HEAD to a block it has written, LCH_Purge whitelists HEAD's block before
\* any other.
THEOREM HeadStays == ASSUME OneWriter PROVE Spec => []HeadOnDisk
<1>1. WriterInv => HeadOnDisk
  BY DEF WriterInv
<1> QED BY <1>1, WriterInvHolds, PTL

\* With one process that commits and purges at a time, none of the newest
\* chain_length blocks of the chain is ever deleted, not even by a purge that is
\* killed half way, or that follows a commit that was.
THEOREM NewestStay == ASSUME OneWriter PROVE Spec => PurgeKeepsNewest
<1>1. TypeInv /\ IInv /\ WriterInv /\ [Next]_vars =>
        [\A b \in BlockId : blocks'[b] = None /\ b \in Newest(ChainLength)
                              => blocks[b] = None]_vars
  BY PurgeStepKeeps
<1> QED BY <1>1, WriterInvHolds, PTL DEF Spec, PurgeKeepsNewest

-----------------------------------------------------------------------------
(* From here on one process at a time commits and no commit is cut short,  *)
(* whatever reads and purges meanwhile: what a patch does to a server,     *)
(* what a history tells.                                                   *)

\* No two commits at once.
OneCommitter == \A p, q \in Committers : p = q

\* A commit whose source can be read is not killed, and no write of it fails or is
\* short.  (One that fails half way leaves snapshots behind that no block tells of.)
CommitsEnd == FaultKinds \subseteq {"config"}

-----------------------------------------------------------------------------
(* The commit's invariant.  Between commits the snapshots are the tables   *)
(* as the newest block left them; a commit under way has for each table    *)
(* read so far the delta between the two.                                  *)

\* What a delta of a commit, if there is one, says of the table.
Change(delta, old, new) ==
    IF delta = None THEN new = old ELSE delta = DeltaCreate("delta", new, old)

BlocksTell ==
    \A b \in BlockId : Loadable(b) =>
        /\ blocks[b].parent = b - 1
        /\ \A t \in Table : Change(blocks[b].payload[t], stateAt[b - 1][t], stateAt[b][t])

\* The table as a commit on top of the block leaves it in its snapshot.
Stored(me, base, t) ==
    snapshot[t] = IF me.payload[t] = None THEN stateAt[base][t] ELSE me.seen[t]

Told(me, base, t) ==
    me.payload[t] # None => me.payload[t] = DeltaCreate("delta", me.seen[t], stateAt[base][t])

CommitOK(me) ==
    /\ me.pc \in {"load", "open snapshot", "write snapshot"} =>
         /\ head = created
         /\ \A t \in me.todo : me.payload[t] = None
         /\ \A t \in Table : Told(me, created, t)
    /\ me.pc = "load" => \A t \in Table : Stored(me, created, t)
    /\ me.pc \in {"open snapshot", "write snapshot"} =>
         me.payload[me.table] # None /\ \A t \in Table \ {me.table} : Stored(me, created, t)
    /\ me.pc = "open block" =>
         /\ head = created /\ me.parent = created
         /\ \A t \in Table : Told(me, created, t) /\ Stored(me, created, t)
    /\ me.pc = "write block" =>
         /\ head = created - 1 /\ me.parent = created - 1 /\ me.id = created
         /\ ~Loadable(created)
         /\ \A t \in Table : Told(me, created - 1, t) /\ Stored(me, created - 1, t)
    /\ me.pc \in {"open head", "write head"} =>
         /\ me.id = created
         /\ \A t \in Table : snapshot[t] = stateAt[created][t]
    /\ me.pc = "open head" => head = created - 1
    /\ me.pc = "write head" => head = Torn

\* No commit is under way.
Between ==
    (\A p \in Process : local[p].pc \notin CommitPc) =>
        head = created /\ \A t \in Table : snapshot[t] = stateAt[created][t]

CommitInv ==
    /\ BlocksTell
    /\ Between
    /\ \A p \in Process : local[p].pc \in CommitPc => p \in Committers
    /\ \A p \in Process : CommitOK(local[p])

-----------------------------------------------------------------------------
(* The readers' invariants *)

\* The block is written, or was: its state does not change any more.
Settled(b) == b \in 0..created /\ \A p \in Process : local[p].pc = "write block" => b < created

Carries(delta, old, new) ==
    IF delta = None THEN new = old ELSE delta.type = "delta" /\ NetEffect(delta, old, new)

\* What has been merged so far leads from the block it has come to, to a state
\* from which what is kept apart leads to the tip.
DiffOK(me) ==
    /\ me.pc = "merge" =>
         \/ me.tip = Torn /\ me.at = Torn
         \/ /\ Settled(me.tip) /\ me.at \in 0..me.tip
            /\ \A t \in Table : \E mid \in State :
                  /\ Carries(me.child[t], stateAt[me.at][t], mid)
                  /\ RowsAfter(Reverse(me.kept), t, mid) = stateAt[me.tip][t]
    /\ me.pc = "patched" /\ me.op = "diff" =>
         /\ Settled(me.tip) /\ me.goal \in 0..me.tip
         /\ \A t \in Table : RowsAfter(me.patch, t, stateAt[me.goal][t]) = stateAt[me.tip][t]

RebaseOK(me) ==
    /\ me.pc = "rebase" =>
         \A t \in Table : me.payload[t] # None =>
             me.payload[t] = DeltaCreate("rebase", stateAt[created][t], EmptyObject)
    /\ me.pc = "patched" /\ me.op = "rebase" =>
         /\ Settled(me.tip) /\ me.patch \in Seq(Payload) /\ Len(me.patch) = 1
         /\ \A t \in Table : me.patch[1][t] # None =>
               me.patch[1][t] = DeltaCreate("rebase", stateAt[me.tip][t], EmptyObject)

Row(b, ask) == stateAt[b][ask.table][ask.key]

\* The blocks between two that changed the record within the window.
Changes(ask, at, tip) ==
    {b \in BlockId : /\ at < b /\ b <= tip
                     /\ ask.from <= b /\ b < ask.to
                     /\ Row(b, ask) # Row(b - 1, ask)}

\* What has been found is what happened to the record between the two blocks.
Tells(found, ask, at, tip) ==
    /\ {found[i].id : i \in DOMAIN found} = Changes(ask, at, tip)
    /\ \A i, j \in DOMAIN found : i < j => found[i].id > found[j].id
    /\ \A i \in DOMAIN found :
          LET b == found[i].id
          IN  found[i].value = IF Row(b, ask) = Missing THEN Row(b - 1, ask) ELSE Row(b, ask)

HistoryOK(me) ==
    me.pc \in {"trace", "recall", "told"} =>
        \/ me.tip = Torn /\ me.at = Torn /\ me.pc # "told"
        \/ /\ Settled(me.tip) /\ me.at \in 0..me.tip
           /\ me.pc = "told" => ~Loadable(me.at) \/ me.at < me.ask.from
           /\ Tells(me.found, me.ask, me.at, me.tip)
-----------------------------------------------------------------------------
(* Rows after a patch *)

Rows == State \cup {Torn}

LEMMA RowsAfterDeltaType ==
    ASSUME NEW delta \in Delta \cup {None}, NEW had \in Rows
    PROVE  RowsAfterDelta(delta, had) \in Rows
<1>1. CASE delta # None /\ had # Torn
  <2>1. delta \in Delta /\ had \in State
    BY <1>1 DEF Rows
  <2>2. PatchedRows(delta, had) \in State
    BY <2>1, PatchedRowsType
  <2> QED BY <2>2 DEF RowsAfterDelta, Rows
<1> QED BY <1>1 DEF RowsAfterDelta, Rows

\* f[i] are the rows after the first i blocks of the patch.
IsAfter(f, patch, t, had) ==
    f = [i \in 0..Len(patch) |-> IF i = 0 THEN had
                                 ELSE RowsAfterDelta(patch[i][t], f[i - 1])]

LEMMA RowsAfterIs ==
    ASSUME NEW patch \in Seq(Payload), NEW t \in Table, NEW had \in Rows
    PROVE  \E f \in [0..Len(patch) -> Rows] :
              IsAfter(f, patch, t, had) /\ RowsAfter(patch, t, had) = f[Len(patch)]
<1> DEFINE n     == Len(patch)
           step  == [i \in 1..n |-> [r \in Rows |-> RowsAfterDelta(patch[i][t], r)]]
           after == CHOOSE f : IsAfter(f, patch, t, had)
<1>1. n \in Nat
  OBVIOUS
<1>2. \A i \in 1..n : patch[i][t] \in Delta \cup {None}
  BY DEF Payload
<1>3. step \in Steps(n, Rows)
  BY <1>2, RowsAfterDeltaType DEF Steps
<1>4. \A i \in 1..n, r \in Rows : step[i][r] = RowsAfterDelta(patch[i][t], r)
  OBVIOUS
<1> HIDE DEF step
<1>5. PICK f \in [0..n -> Rows] :
        f = [i \in 0..n |-> IF i = 0 THEN had ELSE step[i][f[i - 1]]]
  <2> HIDE DEF n
  <2>1. Recursive(n, Rows, had, step)
    BY <1>1, <1>3, Recursion
  <2> QED BY <2>1 DEF Recursive
<1>6. \A i \in 0..n : i # 0 => i \in 1..n /\ f[i - 1] \in Rows
  <2> TAKE i \in 0..n
  <2> HAVE i # 0
  <2>1. i \in 1..n /\ i - 1 \in 0..n
    OBVIOUS
  <2> QED BY <2>1
<1>7. f = [i \in 0..n |-> IF i = 0 THEN had ELSE RowsAfterDelta(patch[i][t], f[i - 1])]
  BY <1>4, <1>5, <1>6
<1>8. IsAfter(f, patch, t, had)
  BY <1>7 DEF IsAfter
<1>9. IsAfter(after, patch, t, had)
  BY <1>8
<1> HIDE DEF after
<1>10. RowsAfter(patch, t, had) = after[n]
  BY DEF RowsAfter, IsAfter, after
<1>11. \A i \in 0..n : f[i] = after[i]
  <2> DEFINE S == {i \in 0..n : f[i] = after[i]}
  <2>1. /\ \A i \in 0..n : f[i] = IF i = 0 THEN had
                                  ELSE RowsAfterDelta(patch[i][t], f[i - 1])
        /\ \A i \in 0..n : after[i] = IF i = 0 THEN had
                                      ELSE RowsAfterDelta(patch[i][t], after[i - 1])
    BY <1>8, <1>9 DEF IsAfter
  <2>2. 0 \in S
    BY <2>1
  <2>3. ASSUME NEW i \in 0..(n - 1), i \in S PROVE i + 1 \in S
    <3>1. i + 1 \in 0..n /\ i + 1 # 0 /\ (i + 1) - 1 = i
      BY <1>1
    <3>2. /\ f[i + 1] = RowsAfterDelta(patch[i + 1][t], f[i])
          /\ after[i + 1] = RowsAfterDelta(patch[i + 1][t], after[i])
      BY <2>1, <3>1
    <3> QED BY <2>3, <3>1, <3>2
  <2> HIDE DEF S, n
  <2>4. \A i \in 0..n : i \in S
    BY <1>1, <2>2, <2>3, BoundedInduction
  <2> QED BY <2>4 DEF S
<1>12. n \in 0..n
  BY <1>1
<1> QED BY <1>8, <1>10, <1>11, <1>12

\* What is put at the end of the blocks kept apart is applied first.
LEMMA RowsAfterReverse ==
    ASSUME NEW s \in Seq(Payload), NEW x \in Payload, NEW t \in Table, NEW had \in Rows
    PROVE  RowsAfter(Reverse(Append(s, x)), t, had) =
             RowsAfter(Reverse(s), t, RowsAfterDelta(x[t], had))
<1> DEFINE n    == Len(s)
           long == Reverse(Append(s, x))
           rest == Reverse(s)
           mid  == RowsAfterDelta(x[t], had)
<1>1. n \in Nat
  OBVIOUS
<1>2. /\ long \in Seq(Payload) /\ Len(long) = n + 1 /\ long[1] = x
      /\ rest \in Seq(Payload) /\ Len(rest) = n
      /\ \A i \in 1..n : long[i + 1] = rest[i]
  <2>1. /\ Append(s, x) \in Seq(Payload) /\ Len(Append(s, x)) = n + 1
        /\ \A i \in 1..n : Append(s, x)[i] = s[i]
        /\ Append(s, x)[n + 1] = x
    OBVIOUS
  <2>2. long = [i \in 1..(n + 1) |-> Append(s, x)[((n + 1) - i) + 1]]
    BY <2>1 DEF Reverse
  <2>3. rest = [i \in 1..n |-> s[(n - i) + 1]]
    BY DEF Reverse
  <2>a. \A i \in 1..n : s[i] \in Payload
    OBVIOUS
  <2> HIDE DEF long, rest, n
  <2>4. \A i \in 1..(n + 1) : ((n + 1) - i) + 1 \in 1..(n + 1)
    BY <1>1
  <2>5. \A i \in 1..(n + 1) : Append(s, x)[i] \in Payload
    BY <1>1, <2>1, <2>a
  <2>6. long \in Seq(Payload) /\ Len(long) = n + 1
    <3>1. n + 1 \in Nat
      BY <1>1
    <3>2. \A i \in 1..(n + 1) : Append(s, x)[((n + 1) - i) + 1] \in Payload
      BY <2>4, <2>5
    <3>3. long \in [1..(n + 1) -> Payload]
      BY <2>2, <3>2
    <3> QED BY <3>1, <3>3
  <2>7. long[1] = x
    BY <1>1, <2>1, <2>2
  <2>8. \A i \in 1..n : (n - i) + 1 \in 1..n
    BY <1>1
  <2>9. rest \in Seq(Payload) /\ Len(rest) = n
    BY <1>1, <2>3, <2>8, <2>a
  <2>10. ASSUME NEW i \in 1..n PROVE long[i + 1] = rest[i]
    <3>1. i + 1 \in 1..(n + 1) /\ ((n + 1) - (i + 1)) + 1 = (n - i) + 1
      BY <1>1
    <3>2. long[i + 1] = Append(s, x)[(n - i) + 1]
      BY <2>2, <3>1
    <3> QED BY <2>1, <2>3, <2>8, <3>2
  <2> QED BY <2>6, <2>7, <2>9, <2>10
<1>3. mid \in Rows
  BY RowsAfterDeltaType DEF Payload
<1> HIDE DEF long, rest, mid, n
<1>4. PICK f \in [0..Len(long) -> Rows] :
        IsAfter(f, long, t, had) /\ RowsAfter(long, t, had) = f[Len(long)]
  BY <1>2, RowsAfterIs
<1>5. PICK g \in [0..Len(rest) -> Rows] :
        IsAfter(g, rest, t, mid) /\ RowsAfter(rest, t, mid) = g[Len(rest)]
  BY <1>2, <1>3, RowsAfterIs
<1>6. /\ \A i \in 0..(n + 1) : f[i] = IF i = 0 THEN had
                                      ELSE RowsAfterDelta(long[i][t], f[i - 1])
      /\ \A i \in 0..n : g[i] = IF i = 0 THEN mid ELSE RowsAfterDelta(rest[i][t], g[i - 1])
  BY <1>2, <1>4, <1>5 DEF IsAfter
<1> DEFINE S == {i \in 0..n : g[i] = f[i + 1]}
<1>7. 0 \in S
  <2>1. 0 \in 0..n /\ 0 \in 0..(n + 1) /\ 1 \in 0..(n + 1) /\ 1 # 0 /\ 1 - 1 = 0 /\ 0 + 1 = 1
    BY <1>1
  <2>2. f[0] = had /\ f[1] = RowsAfterDelta(long[1][t], f[0]) /\ g[0] = mid
    BY <1>6, <2>1
  <2> QED BY <1>2, <2>1, <2>2 DEF mid
<1>8. ASSUME NEW i \in 0..(n - 1), i \in S PROVE i + 1 \in S
  <2>1. /\ i + 1 \in 0..n /\ i + 1 \in 1..n /\ i + 1 # 0 /\ (i + 1) - 1 = i
        /\ i + 1 + 1 \in 0..(n + 1) /\ i + 1 + 1 # 0 /\ (i + 1 + 1) - 1 = i + 1
    BY <1>1
  <2>2. g[i + 1] = RowsAfterDelta(rest[i + 1][t], g[i])
    BY <1>6, <2>1
  <2>3. f[i + 1 + 1] = RowsAfterDelta(long[i + 1 + 1][t], f[i + 1])
    BY <1>6, <2>1
  <2>4. long[i + 1 + 1] = rest[i + 1] /\ g[i] = f[i + 1]
    BY <1>2, <1>8, <2>1
  <2> QED BY <2>1, <2>2, <2>3, <2>4
<1> HIDE DEF S
<1>9. \A i \in 0..n : i \in S
  BY <1>1, <1>7, <1>8, BoundedInduction
<1>10. g[n] = f[n + 1]
  BY <1>1, <1>9 DEF S
<1> QED BY <1>2, <1>4, <1>5, <1>10 DEF long, rest, mid

LEMMA RowsAfterOne ==
    ASSUME NEW patch \in Seq(Payload), Len(patch) = 1, NEW t \in Table, NEW had \in Rows
    PROVE  RowsAfter(patch, t, had) = RowsAfterDelta(patch[1][t], had)
<1>1. PICK f \in [0..1 -> Rows] :
        IsAfter(f, patch, t, had) /\ RowsAfter(patch, t, had) = f[1]
  BY RowsAfterIs
<1>2. 1 \in 0..1 /\ 0 \in 0..1 /\ 1 - 1 = 0
  OBVIOUS
<1>3. \A i \in 0..1 : f[i] = IF i = 0 THEN had ELSE RowsAfterDelta(patch[i][t], f[i - 1])
  BY <1>1 DEF IsAfter
<1>4. f[0] = had /\ f[1] = RowsAfterDelta(patch[1][t], f[0])
  BY <1>2, <1>3
<1> QED BY <1>1, <1>4

LEMMA RowsAfterNothing ==
    ASSUME NEW t \in Table, NEW had \in Rows
    PROVE  RowsAfter(Reverse(<<>>), t, had) = had
<1>1. Reverse(<<>>) \in Seq(Payload) /\ Len(Reverse(<<>>)) = 0
  BY DEF Reverse
<1>2. PICK f \in [0..0 -> Rows] :
        IsAfter(f, Reverse(<<>>), t, had) /\ RowsAfter(Reverse(<<>>), t, had) = f[0]
  BY <1>1, RowsAfterIs
<1> QED BY <1>1, <1>2 DEF IsAfter

\* A delta of the right effect applies.
LEMMA CarriesRows ==
    ASSUME NEW delta \in Delta \cup {None}, NEW old \in State, NEW new \in State,
           Carries(delta, old, new)
    PROVE  RowsAfterDelta(delta, old) = new
<1>1. CASE delta = None
  BY <1>1 DEF Carries, RowsAfterDelta
<1>2. CASE delta # None
  <2>1. Takes(delta, old, new)
    BY <1>2, NetEffectTakes DEF Carries
  <2>2. old # Torn
    BY ChainAssumption
  <2> QED BY <1>2, <2>1, <2>2 DEF Takes, RowsAfterDelta
<1> QED BY <1>1, <1>2

-----------------------------------------------------------------------------
(* The commit's invariant is one *)

LEMMA NotCommitting ==
    ASSUME NEW me, me.pc \notin CommitPc
    PROVE  CommitOK(me) /\ CommitOK(me)'
BY DEF CommitOK, CommitPc

LEMMA CommitInvInit == Init => CommitInv
<1> SUFFICES ASSUME Init PROVE CommitInv
  OBVIOUS
<1>1. \A p \in Process : local[p] = Idle
  BY DEF Init
<1>2. Idle.pc \notin CommitPc
  BY DEF Idle, CommitPc
<1>3. \A p \in Process : CommitOK(local[p])
  BY <1>1, <1>2, NotCommitting
<1>4. BlocksTell
  BY DEF Init, BlocksTell, Loadable
<1>5. Between
  BY DEF Init, Between, Genesis
<1> QED BY <1>1, <1>2, <1>3, <1>4, <1>5 DEF CommitInv

\* A step of a command that is not a commit: a block may go away.
LEMMA OutsideStep ==
    ASSUME TypeInv, CommitInv, NEW p \in Process, local[p].pc \notin CommitPc,
           BecomesOther(p), UNCHANGED <<snapshot, head, created, stateAt>>,
           \A b \in BlockId : blocks'[b] \in {blocks[b], None}
    PROVE  CommitInv'
<1>1. PICK me : Become(p, me) /\ me.pc \notin CommitPc
  BY DEF BecomesOther
<1>2. local' = [q \in Process |-> IF q = p THEN me ELSE local[q]]
  BY <1>1 DEF Become, TypeInv, TypeOK
<1>3. \A b : Loadable(b)' => Loadable(b) /\ blocks'[b] = blocks[b]
  BY DEF Loadable
<1>4. BlocksTell'
  BY <1>3 DEF CommitInv, BlocksTell
<1>5. Between'
  <2>1. (\A q \in Process : local'[q].pc \notin CommitPc)
          => \A q \in Process : local[q].pc \notin CommitPc
    BY <1>2
  <2> QED BY <2>1 DEF CommitInv, Between
<1>6. ASSUME NEW q \in Process
      PROVE  CommitOK(local[q])' /\ (local'[q].pc \in CommitPc => q \in Committers)
  <2>1. CASE q = p
    <3>1. local'[q] = me /\ CommitOK(me)'
      BY <1>1, <1>2, <2>1, NotCommitting
    <3> QED BY <1>1, <3>1 DEF CommitOK
  <2>2. CASE q # p
    <3>1. local'[q] = local[q] /\ CommitOK(local[q])
      BY <1>2, <2>2 DEF CommitInv
    <3>2. ~Loadable(created) => ~Loadable(created)'
      BY DEF Loadable
    <3>3. CommitOK(local[q])'
      <4>1. CASE local[q].pc = "load"
        BY <3>1, <4>1 DEF CommitOK, Told, Stored
      <4>2. CASE local[q].pc \in {"open snapshot", "write snapshot"}
        BY <3>1, <4>2 DEF CommitOK, Told, Stored
      <4>3. CASE local[q].pc = "open block"
        BY <3>1, <4>3 DEF CommitOK, Told, Stored
      <4>4. CASE local[q].pc \in {"write block", "open head", "write head"}
        BY <3>1, <3>2, <4>4 DEF CommitOK, Told, Stored
      <4> QED BY <3>1, <4>1, <4>2, <4>3, <4>4 DEF CommitOK
    <3> QED BY <3>1, <3>3 DEF CommitInv
  <2> QED BY <2>1, <2>2
<1> QED BY <1>4, <1>5, <1>6 DEF CommitInv

\* A step of the only commit.
LEMMA CommitterStep ==
    ASSUME OneCommitter, TypeInv, CommitInv, NEW p \in Process, p \in Committers,
           NEW me, Become(p, me), me.pc \in CommitPc, CommitOK(me)', BlocksTell'
    PROVE  CommitInv'
<1>1. local' = [q \in Process |-> IF q = p THEN me ELSE local[q]]
  BY DEF Become, TypeInv, TypeOK
<1>2. Between'
  BY <1>1 DEF Between
<1>3. ASSUME NEW q \in Process
      PROVE  CommitOK(local[q])' /\ (local'[q].pc \in CommitPc => q \in Committers)
  <2>1. CASE q = p
    <3>1. local'[q] = me
      BY <1>1, <2>1
    <3> QED BY <2>1, <3>1 DEF CommitOK, Told, Stored
  <2>2. CASE q # p
    <3>1. local'[q] = local[q] /\ local[q].pc \notin CommitPc
      BY <1>1, <2>2 DEF CommitInv, OneCommitter
    <3> QED BY <3>1 DEF CommitOK, CommitPc
  <2> QED BY <2>1, <2>2
<1> QED BY <1>2, <1>3 DEF CommitInv

LEMMA CommitsInv ==
    ASSUME OneCommitter, CommitsEnd, TypeInv, TypeInv', IInv, CommitInv,
           NEW p \in Process, Commit(p)
    PROVE  CommitInv'
<1> DEFINE me == local[p]
<1> USE DEF CommitPc
<1>a. p \in Committers
  BY DEF Commit, CommitStart, CommitLoad, CommitLoadFails, SnapshotOpen, SnapshotWrite,
         CommitHead, BlockOpen, BlockWrite, HeadOpen, HeadWrite, WriteFails, WriteShort, CommitInv
<1>b. /\ me \in Local /\ CommitOK(me) /\ BlocksTell /\ Between
      /\ blocks \in [BlockId -> CommitBlock \cup {None, Torn, Spoiled}]
      /\ snapshot \in [Table -> State \cup {Torn}]
      /\ stateAt \in [Tip -> [Table -> State]]
      /\ created \in 0..MaxBlocks /\ created \in Tip /\ created \in Nat
      /\ local \in [Process -> Local] /\ local' \in [Process -> Local]
  <2>1. created \in 0..MaxBlocks /\ MaxBlocks \in Nat
    BY ChainAssumption DEF TypeInv, TypeOK
  <2>2. created \in Tip /\ created \in Nat
    BY <2>1 DEF Tip, BlockId, Genesis
  <2>3. blocks \in [BlockId -> CommitBlock \cup {None, Torn, Spoiled}]
    BY DEF TypeInv, TypeOK
  <2> QED BY <2>1, <2>2, <2>3 DEF TypeInv, TypeOK, CommitInv
<1>c. /\ \A q \in Process : q # p => local[q].pc \notin CommitPc
      /\ \A b \in BlockId : blocks[b] # None => b <= created
  BY <1>a DEF CommitInv, OneCommitter, IInv, Linked
<1>d. UNCHANGED <<blocks, stateAt>> => BlocksTell'
  BY <1>b DEF BlocksTell, Loadable
<1>1. CASE CommitStart(p)
  <2>a. PICK next : next = [pc |-> "load", todo |-> config, payload |-> NoDeltas,
                   seen |-> [t \in Table |-> EmptyObject]]
    OBVIOUS
  <2>1. /\ Become(p, next) /\ next.pc = "load" /\ next.payload = NoDeltas
                    /\ next.todo \subseteq Table
    BY <2>a, <1>1 DEF CommitStart, TypeInv, TypeOK
  <2>2. me = Idle /\ UNCHANGED <<snapshot, blocks, head, created, stateAt>>
    BY <1>1 DEF CommitStart, files
  <2>3. head = created /\ \A t \in Table : snapshot[t] = stateAt[created][t]
    <3>1. me.pc \notin CommitPc
      BY <2>2 DEF Idle
    <3> QED BY <1>b, <1>c, <3>1 DEF Between
  <2>4. CommitOK(next)'
    BY <2>1, <2>2, <2>3 DEF CommitOK, NoDeltas, Told, Stored
  <2> QED BY <1>a, <1>d, <2>1, <2>2, <2>4, CommitterStep
<1>2. CASE CommitLoad(p)
  <2>1. PICK t \in me.todo, new \in State :
            IF snapshot[t] = Torn
            THEN Become(p, Failed("commit"))
            ELSE LET delta == DeltaCreate("delta", new, snapshot[t])
                     seen  == [me.seen EXCEPT ![t] = new]
                     load  == [me.payload EXCEPT ![t] = delta]
                     todo  == me.todo \ {t}
                 IN  IF HasOperations(delta)
                     THEN Become(p, [pc |-> "open snapshot", table |-> t,
                                     todo |-> todo, payload |-> load, seen |-> seen])
                     ELSE Become(p, [pc |-> "load", todo |-> todo,
                                     payload |-> load, seen |-> seen])
    BY <1>2 DEF CommitLoad
  <2>2. me.pc = "load" /\ UNCHANGED <<snapshot, blocks, head, created, stateAt>>
    BY <1>2 DEF CommitLoad, files
  <2>3. /\ me.payload \in Payload /\ me.seen \in [Table -> State] /\ me.todo \subseteq Table
        /\ t \in Table
    BY <1>b, <2>2, LocalFields
  <2>4. /\ head = created
        /\ \A u \in me.todo : me.payload[u] = None
        /\ \A u \in Table : Told(me, created, u) /\ Stored(me, created, u)
    BY <1>b, <2>2 DEF CommitOK
  <2>5. snapshot[t] = stateAt[created][t] /\ snapshot[t] \in State /\ snapshot[t] # Torn
    BY <1>b, <2>3, <2>4, ChainAssumption DEF Stored
  <2> DEFINE delta == DeltaCreate("delta", new, snapshot[t])
             seen  == [me.seen EXCEPT ![t] = new]
             load  == [me.payload EXCEPT ![t] = delta]
             todo  == me.todo \ {t}
  <2>6. delta # None /\ delta = DeltaCreate("delta", new, stateAt[created][t])
    <3>1. delta \in Delta
      BY <2>5, DeltaCreateNetEffect DEF DeltaType
    <3> QED BY <2>5, <3>1, ChainAssumption
  <2>7. HasOperations(delta) \/ new = snapshot[t]
    BY <2>5, NoOperations
  <2>a. PICK next : next = IF HasOperations(delta)
                           THEN [pc |-> "open snapshot", table |-> t, todo |-> todo,
                                 payload |-> load, seen |-> seen]
                           ELSE [pc |-> "load", todo |-> todo, payload |-> load, seen |-> seen]
    OBVIOUS
  <2>b. Become(p, next)
    BY <2>1, <2>5, <2>a
  <2> HIDE DEF delta, load, seen, todo
  <2>8. /\ next.todo = todo /\ next.payload = load /\ next.seen = seen
        /\ \/ next.pc = "open snapshot" /\ next.table = t
           \/ next.pc = "load" /\ new = snapshot[t]
    BY <2>7, <2>a
  <2>9. \A u \in Table : /\ next.payload[u] = IF u = t THEN delta ELSE me.payload[u]
                         /\ next.seen[u] = IF u = t THEN new ELSE me.seen[u]
    BY <2>3, <2>8 DEF load, seen, Payload
  <2>10. \A u \in Table : Told(next, created, u)
    BY <2>4, <2>6, <2>9 DEF Told
  <2>11. \A u \in Table \ {t} : Stored(next, created, u)
    BY <2>4, <2>9 DEF Stored
  <2>12. next.pc = "load" => Stored(next, created, t)
    BY <2>3, <2>6, <2>8, <2>9 DEF Stored
  <2>13. next.payload[t] # None /\ \A u \in next.todo : next.payload[u] = None
    BY <2>3, <2>4, <2>6, <2>8, <2>9 DEF todo
  <2>14. CommitOK(next)'
    BY <2>2, <2>4, <2>8, <2>10, <2>11, <2>12, <2>13 DEF CommitOK, Told, Stored
  <2> QED BY <1>a, <1>d, <2>2, <2>b, <2>8, <2>14, CommitterStep
<1>3. CASE CommitLoadFails(p) \/ WriteFails(p) \/ WriteShort(p)
  BY <1>3 DEF CommitLoadFails, WriteFails, WriteShort, CommitsEnd
<1>4. CASE SnapshotOpen(p)
  <2>a. PICK next : next = [pc |-> "write snapshot", table |-> me.table, todo |-> me.todo,
                   payload |-> me.payload, seen |-> me.seen]
    OBVIOUS
  <2>1. /\ Become(p, next) /\ next.pc = "write snapshot" /\ next.table = me.table
                    /\ next.todo = me.todo /\ next.payload = me.payload /\ next.seen = me.seen
    BY <2>a, <1>4 DEF SnapshotOpen
  <2>2. /\ me.pc = "open snapshot" /\ snapshot' = [snapshot EXCEPT ![me.table] = Torn]
        /\ UNCHANGED <<blocks, head, created, stateAt>>
    BY <1>4 DEF SnapshotOpen
  <2>3. \A t \in Table \ {next.table} : snapshot'[t] = snapshot[t]
    BY <1>b, <2>1, <2>2
  <2>4. CommitOK(next)'
    <3>1. /\ head = created
          /\ \A t \in me.todo : me.payload[t] = None
          /\ \A t \in Table : Told(me, created, t)
          /\ me.payload[me.table] # None
          /\ \A t \in Table \ {me.table} : Stored(me, created, t)
      BY <1>b, <2>2 DEF CommitOK
    <3>2. \A t \in Table : Told(next, created, t)'
      BY <2>1, <2>2, <3>1 DEF Told
    <3>3. ASSUME NEW t \in Table \ {next.table} PROVE Stored(next, created, t)'
      <4>1. Stored(me, created, t) /\ snapshot'[t] = snapshot[t]
        BY <2>1, <2>3, <3>1
      <4> QED BY <2>1, <2>2, <4>1 DEF Stored
    <3> QED BY <2>1, <2>2, <3>1, <3>2, <3>3 DEF CommitOK
  <2> QED BY <1>a, <1>d, <2>1, <2>2, <2>4, CommitterStep
<1>5. CASE SnapshotWrite(p)
  <2>a. PICK next : next = [pc |-> "load", todo |-> me.todo, payload |-> me.payload, seen |-> me.seen]
    OBVIOUS
  <2>1. /\ Become(p, next) /\ next.pc = "load"
                    /\ next.todo = me.todo /\ next.payload = me.payload /\ next.seen = me.seen
    BY <2>a, <1>5 DEF SnapshotWrite
  <2>2. /\ me.pc = "write snapshot"
        /\ snapshot' = [snapshot EXCEPT ![me.table] = me.seen[me.table]]
        /\ UNCHANGED <<blocks, head, created, stateAt>>
    BY <1>5 DEF SnapshotWrite
  <2>3. me.table \in Table
    BY <1>b, <2>2, LocalFields
  <2>4. \A t \in Table : snapshot'[t] = IF t = me.table THEN me.seen[t] ELSE snapshot[t]
    BY <1>b, <2>2
  <2>5. \A t \in Table : Stored(next, created, t)'
    BY <1>b, <2>1, <2>2, <2>4 DEF CommitOK, Stored
  <2>6. CommitOK(next)'
    BY <1>b, <2>1, <2>2, <2>5 DEF CommitOK, Told, Stored
  <2> QED BY <1>a, <1>d, <2>1, <2>2, <2>6, CommitterStep
<1>6. CASE CommitHead(p)
  <2>a. PICK next : next = [pc |-> "open block", parent |-> head, payload |-> me.payload,
                   seen |-> me.seen]
    OBVIOUS
  <2>1. /\ Become(p, next) /\ next.pc = "open block" /\ next.parent = head
                    /\ next.payload = me.payload /\ next.seen = me.seen
    BY <2>a, <1>6 DEF CommitHead
  <2>2. me.pc = "load" /\ UNCHANGED <<snapshot, blocks, head, created, stateAt>>
    BY <1>6 DEF CommitHead, files
  <2>3. CommitOK(next)'
    BY <1>b, <2>1, <2>2 DEF CommitOK, Told, Stored
  <2> QED BY <1>a, <1>d, <2>1, <2>2, <2>3, CommitterStep
<1>7. CASE BlockOpen(p)
  <2>a. PICK next : next = [pc |-> "write block", id |-> created + 1, parent |-> me.parent,
                   payload |-> me.payload, seen |-> me.seen]
    OBVIOUS
  <2>1. /\ Become(p, next) /\ next.pc = "write block" /\ next.id = created + 1
                    /\ next.parent = me.parent
                    /\ next.payload = me.payload /\ next.seen = me.seen
    BY <2>a, <1>7 DEF BlockOpen
  <2>2. /\ me.pc = "open block" /\ created' = created + 1
        /\ blocks' = [blocks EXCEPT ![created + 1] = Torn]
        /\ UNCHANGED <<snapshot, head, stateAt>>
    BY <1>7 DEF BlockOpen
  <2>3. created' - 1 = created
    <3>1. \A n \in Nat : (n + 1) - 1 = n
      OBVIOUS
    <3> QED BY <1>b, <2>2, <3>1
  <2>4. \A b \in BlockId : blocks'[b] = IF b = created' THEN Torn ELSE blocks[b]
    BY <1>b, <2>2
  <2>5. ~Loadable(created)'
    BY <2>4 DEF Loadable
  <2>6. /\ head = created /\ me.parent = created
        /\ \A t \in Table : Told(me, created, t) /\ Stored(me, created, t)
    BY <1>b, <2>2 DEF CommitOK
  <2>7. CommitOK(next)'
    <3>1. \A t \in Table : Told(next, created - 1, t)' /\ Stored(next, created - 1, t)'
      BY <2>1, <2>2, <2>3, <2>6 DEF Told, Stored
    <3>2. /\ head' = created' - 1 /\ next.parent = created' - 1 /\ next.id = created'
      BY <2>1, <2>2, <2>3, <2>6
    <3> QED BY <2>1, <2>5, <3>1, <3>2 DEF CommitOK
  <2>8. BlocksTell'
    BY <1>b, <2>2, <2>4 DEF BlocksTell, Loadable
  <2> QED BY <1>a, <2>1, <2>7, <2>8, CommitterStep
<1>8. CASE BlockWrite(p)
  <2> DEFINE stored == [parent |-> me.parent, payload |-> me.payload]
             before == stateAt[IF me.parent \in BlockId THEN me.parent ELSE Genesis]
  <2>1. /\ me.pc = "write block" /\ Become(p, [pc |-> "open head", id |-> me.id])
        /\ blocks' = [blocks EXCEPT ![me.id] = IF @ = None THEN None ELSE stored]
        /\ stateAt' = [stateAt EXCEPT ![me.id] =
                          [t \in Table |-> IF t \in Tables(me.payload)
                                           THEN me.seen[t] ELSE before[t]]]
        /\ UNCHANGED <<snapshot, head, created>>
    BY <1>8 DEF BlockWrite, StateAfter
  <2>2. /\ me.id = created /\ me.parent = created - 1 /\ head = created - 1
        /\ \A t \in Table : Told(me, created - 1, t) /\ Stored(me, created - 1, t)
    BY <1>b, <2>1 DEF CommitOK
  <2>3. me.id \in BlockId /\ me.payload \in CommitPayload
    BY <1>b, <2>1, LocalFields DEF TypeInv, PayloadOK
  <2>4. created \in BlockId /\ created - 1 \in Tip /\ created - 1 # created
    <3>1. created \in 1..MaxBlocks /\ MaxBlocks \in Nat
      BY <2>2, <2>3, ChainAssumption DEF BlockId
    <3> QED BY <3>1 DEF BlockId, Tip, Genesis
  <2>5. before = stateAt[created - 1]
    BY <1>b, <2>2, <2>4 DEF Tip, BlockId, Genesis
  <2> HIDE DEF before, stored
  <2>6. /\ \A t \in Table : stateAt'[created][t] = IF me.payload[t] = None
                                                   THEN stateAt[created - 1][t]
                                                   ELSE me.seen[t]
        /\ \A b \in Tip : b # created => stateAt'[b] = stateAt[b]
    BY <1>b, <2>1, <2>2, <2>5 DEF Tables
  <2>a. PICK next : next = [pc |-> "open head", id |-> me.id]
    OBVIOUS
  <2>7. Become(p, next) /\ next.pc = "open head" /\ next.id = me.id
    BY <2>1, <2>a
  <2>8. \A t \in Table : snapshot'[t] = stateAt'[created'][t]
    BY <2>1, <2>2, <2>6 DEF Stored
  <2>9. CommitOK(next)'
    BY <2>1, <2>2, <2>7, <2>8 DEF CommitOK
  <2>10. BlocksTell'
    <3> SUFFICES ASSUME NEW b \in BlockId, Loadable(b)'
                 PROVE  /\ blocks'[b].parent = b - 1
                        /\ \A t \in Table : Change(blocks'[b].payload[t], stateAt'[b - 1][t],
                                                   stateAt'[b][t])
      BY DEF BlocksTell
    <3>1. CASE b = created
      <4>1. blocks'[b] = stored
        BY <1>b, <2>1, <2>2, <3>1 DEF Loadable
      <4>2. blocks'[b].parent = b - 1 /\ blocks'[b].payload = me.payload
        BY <2>2, <3>1, <4>1 DEF stored
      <4>3. ASSUME NEW t \in Table
            PROVE  Change(me.payload[t], stateAt'[b - 1][t], stateAt'[b][t])
        <5>1. stateAt'[b - 1] = stateAt[created - 1]
          BY <2>4, <2>6, <3>1
        <5>2. Told(me, created - 1, t)
          BY <2>2
        <5> QED BY <2>6, <3>1, <5>1, <5>2 DEF Told, Change
      <4> QED BY <4>2, <4>3
    <3>2. CASE b # created
      <4>1. blocks'[b] = blocks[b] /\ Loadable(b)
        BY <1>b, <2>1, <2>2, <3>2 DEF Loadable
      <4>2. b <= created /\ b \in Nat
        <5>1. b \in 1..MaxBlocks /\ MaxBlocks \in Nat
          BY ChainAssumption DEF BlockId
        <5>2. blocks[b] # None
          BY <4>1 DEF Loadable
        <5>3. b <= created
          BY <1>c, <5>2
        <5> QED BY <5>1, <5>3
      <4>3. b \in Tip /\ b - 1 \in Tip /\ b # created /\ b - 1 # created
        BY <1>b, <3>2, <4>2, ChainAssumption DEF Tip, BlockId, Genesis
      <4>4. stateAt'[b] = stateAt[b] /\ stateAt'[b - 1] = stateAt[b - 1]
        BY <2>6, <4>3
      <4> QED BY <1>b, <4>1, <4>4 DEF BlocksTell
    <3> QED BY <3>1, <3>2
  <2> QED BY <1>a, <2>7, <2>9, <2>10, CommitterStep
<1>9. CASE HeadOpen(p)
  <2>a. PICK next : next = [pc |-> "write head", id |-> me.id]
    OBVIOUS
  <2>1. Become(p, next) /\ next.pc = "write head" /\ next.id = me.id
    BY <2>a, <1>9 DEF HeadOpen
  <2>2. /\ me.pc = "open head" /\ head' = Torn
        /\ UNCHANGED <<snapshot, blocks, created, stateAt>>
    BY <1>9 DEF HeadOpen
  <2>3. CommitOK(next)'
    BY <1>b, <2>1, <2>2 DEF CommitOK
  <2> QED BY <1>a, <1>d, <2>1, <2>2, <2>3, CommitterStep
<1>10. CASE HeadWrite(p)
  <2>a. Become(p, [pc |-> "purge"]) \/ Become(p, Idle)
    BY <1>10 DEF HeadWrite
  <2>1. PICK next : Become(p, next) /\ next.pc \in {"purge", "idle"}
    BY <2>a DEF Idle
  <2>2. /\ me.pc = "write head" /\ head' = me.id
        /\ UNCHANGED <<snapshot, blocks, created, stateAt>>
    BY <1>10 DEF HeadWrite
  <2>3. head' = created' /\ \A t \in Table : snapshot'[t] = stateAt'[created'][t]
    BY <1>b, <2>2 DEF CommitOK
  <2>4. local' = [q \in Process |-> IF q = p THEN next ELSE local[q]]
    BY <1>b, <2>1 DEF Become
  <2>5. ASSUME NEW q \in Process PROVE local'[q].pc \notin CommitPc
    BY <1>c, <2>1, <2>4
  <2>6. \A q \in Process : CommitOK(local[q])'
    BY <2>5 DEF CommitOK
  <2> QED BY <1>d, <2>2, <2>3, <2>5, <2>6 DEF CommitInv, Between
<1> QED BY <1>1, <1>2, <1>3, <1>4, <1>5, <1>6, <1>7, <1>8, <1>9, <1>10 DEF Commit


\* Whatever is not a commit starts from a command that is not committing.
LEMMA OthersWereOther ==
    ASSUME NEW p \in Process,
           \/ Purge(p) \/ Diff(p) \/ Rebase(p) \/ History(p) \/ Finish(p)
           \/ InstanceLoadFails(p)
    PROVE  local[p].pc \notin CommitPc
<1> DEFINE me == local[p]
<1>0. me = Idle => me.pc = "idle"
  BY DEF Idle
<1>1. CASE Purge(p)
  <2>1. me = Idle \/ me.pc \in {"purge", "walk", "read", "list", "delete"}
    BY <1>1 DEF Purge, PurgeStart, PurgeHead, PurgeWalk, PurgeRead, PurgeList, PurgeDelete,
                PurgeEnd
  <2> QED BY <2>1, <1>0 DEF CommitPc
<1>2. CASE Diff(p)
  <2>1. me = Idle \/ me.pc \in {"diff", "merge"}
    BY <1>2 DEF Diff, DiffResolve, DiffFrom, DiffHead, DiffMerge, DiffEnd
  <2> QED BY <2>1, <1>0 DEF CommitPc
<1>3. CASE Rebase(p) \/ History(p)
  <2>1. me = Idle \/ me.pc \in {"rebase", "history", "trace", "recall"}
    BY <1>3 DEF Rebase, RebaseStart, RebaseLoad, RebaseHead, History, HistoryStart,
                HistoryHead, HistoryWalk, HistoryRead
  <2> QED BY <2>1, <1>0 DEF CommitPc
<1>4. CASE Finish(p) \/ InstanceLoadFails(p)
  <2>1. me = Idle \/ me.pc \in Resting
    BY <1>4 DEF Finish, InstanceLoadFails
  <2> QED BY <2>1, <1>0 DEF Resting, CommitPc
<1> QED BY <1>1, <1>2, <1>3, <1>4

LEMMA PurgeKeepsRest ==
    ASSUME TypeInv, NEW p \in Process, Purge(p)
    PROVE  /\ UNCHANGED <<snapshot, head, created, stateAt>>
           /\ \A b \in BlockId : blocks'[b] \in {blocks[b], None}
<1>1. CASE PurgeDelete(p)
  <2>1. PICK b : blocks' = [blocks EXCEPT ![b] = None]
    BY <1>1 DEF PurgeDelete
  <2> QED BY <1>1, <2>1 DEF PurgeDelete, TypeInv, TypeOK
<1>2. CASE ~PurgeDelete(p)
  BY <1>2 DEF Purge, PurgeStart, PurgeHead, PurgeWalk, PurgeRead, PurgeList, PurgeEnd, files
<1> QED BY <1>1, <1>2

LEMMA CommitInvStep ==
    ASSUME OneCommitter, CommitsEnd, TypeInv, TypeInv', IInv, CommitInv, [Next]_vars
    PROVE  CommitInv'
<1>1. ASSUME NEW p \in Process, Run(p) \/ InstanceLoadFails(p) \/ Interrupt(p)
      PROVE  CommitInv'
  <2>1. CASE Commit(p)
    BY <2>1, CommitsInv
  <2>2. CASE Purge(p)
    BY <2>2, OthersStayOther, OthersWereOther, PurgeKeepsRest, OutsideStep
  <2>3. CASE ~(Commit(p) \/ Purge(p))
    <3>1. ~Interrupt(p)
      BY DEF Interrupt, CommitsEnd
    <3>2. \/ Diff(p) \/ Rebase(p) \/ History(p) \/ Finish(p) \/ InstanceLoadFails(p)
      BY <1>1, <2>3, <3>1 DEF Run
    <3>3. UNCHANGED <<blocks, snapshot, head, created, stateAt>>
      BY <3>2, ReadKeepsFiles DEF files
    <3>4. BecomesOther(p) /\ local[p].pc \notin CommitPc
      BY <3>2, OthersStayOther, OthersWereOther
    <3>5. \A b \in BlockId : blocks'[b] \in {blocks[b], None}
      BY <3>3
    <3> QED BY <3>3, <3>4, <3>5, OutsideStep
  <2> QED BY <2>1, <2>2, <2>3
<1>2. CASE AddTable \/ RemoveTable \/ UNCHANGED vars
  <2>1. UNCHANGED <<blocks, snapshot, head, created, stateAt, local>>
    BY <1>2 DEF AddTable, RemoveTable, vars, files
  <2>2. BlocksTell' /\ Between'
    BY <2>1 DEF CommitInv, BlocksTell, Between, Loadable
  <2>3. ASSUME NEW p \in Process PROVE CommitOK(local[p])'
    <3>1. CommitOK(local[p])
      BY DEF CommitInv
    <3> QED BY <2>1, <3>1 DEF CommitOK, Told, Stored, Loadable
  <2> QED BY <2>1, <2>2, <2>3 DEF CommitInv
<1> QED BY <1>1, <1>2 DEF Next

LEMMA CommitInvHolds ==
    ASSUME OneCommitter, CommitsEnd
    PROVE  Spec => [](TypeInv /\ IInv /\ CommitInv)
<1>1. Init => TypeInv /\ IInv /\ CommitInv
  BY TypeInvInit, InvInit, CommitInvInit
<1>2. TypeInv /\ IInv /\ CommitInv /\ [Next]_vars => (TypeInv /\ IInv /\ CommitInv)'
  BY TypeInvStep, InvStep, CommitInvStep
<1> QED BY <1>1, <1>2, PTL DEF Spec

-----------------------------------------------------------------------------
(* A block that is written keeps its state *)

LEMMA HeadSettled ==
    ASSUME OneCommitter, TypeInv, CommitInv
    PROVE  head = Torn \/ Settled(head)
<1>1. created \in Nat
  BY ChainAssumption DEF TypeInv, TypeOK
<1>a. (\A p \in Process : local[p].pc # "write block") => Settled(created)
  <2>1. created \in 0..created
    BY <1>1
  <2> QED BY <2>1 DEF Settled
<1>2. CASE \A p \in Process : local[p].pc \notin CommitPc
  <2>1. head = created
    BY <1>2 DEF CommitInv, Between
  <2> QED BY <1>a, <1>2, <2>1 DEF CommitPc
<1>3. ASSUME NEW p \in Process, local[p].pc \in CommitPc
      PROVE  head = Torn \/ Settled(head)
  <2>1. \A q \in Process : q # p => local[q].pc \notin CommitPc
    BY <1>3 DEF CommitInv, OneCommitter
  <2>2. CommitOK(local[p])
    BY DEF CommitInv
  <2>3. CASE local[p].pc \in {"load", "open snapshot", "write snapshot", "open block"}
    <3>1. head = created
      BY <2>2, <2>3 DEF CommitOK
    <3>2. \A q \in Process : local[q].pc # "write block"
      BY <2>1, <2>3 DEF CommitPc
    <3> QED BY <1>a, <3>1, <3>2
  <2>4. CASE local[p].pc \in {"write block", "open head"}
    <3>1. local[p] \in Local
      BY DEF TypeInv, TypeOK
    <3>2. local[p].id = created /\ local[p].id \in BlockId /\ head = created - 1
      BY <2>2, <2>4, <3>1, LocalFields DEF CommitOK
    <3>3. head \in 0..created /\ head < created
      BY <1>1, <3>2 DEF BlockId
    <3> QED BY <3>3 DEF Settled
  <2>5. CASE local[p].pc = "write head"
    BY <2>2, <2>5 DEF CommitOK
  <2> QED BY <1>3, <2>3, <2>4, <2>5 DEF CommitPc
<1> QED BY <1>2, <1>3

\* What a commit writes is the newest block.
WritesNewest == \A p \in Process : local[p].pc = "write block" => local[p].id = created

LEMMA CommitWritesNewest == CommitInv => WritesNewest
BY DEF CommitInv, CommitOK, WritesNewest

\* A block that is written keeps its state and its content, and only goes away.
Keeps ==
    /\ \A b : Settled(b) => Settled(b)' /\ \A c \in 0..b : stateAt'[c] = stateAt[c]
    /\ \A b : Settled(b) /\ Loadable(b)' => Loadable(b) /\ blocks'[b] = blocks[b]

\* The command in slot p is not about to write a block.
MovesOn(p) == \E me : Become(p, me) /\ me.pc # "write block"

LEMMA MovesOnIntro ==
    \A p, me : Become(p, me) /\ me.pc # "write block" => MovesOn(p)
BY DEF MovesOn

LEMMA SettledStaysSettled ==
    ASSUME TypeInv, WritesNewest, [Next]_vars
    PROVE  \A b : Settled(b) => Settled(b)' /\ \A c \in 0..b : stateAt'[c] = stateAt[c]
<1> SUFFICES ASSUME NEW b, Settled(b)
             PROVE  Settled(b)' /\ \A c \in 0..b : stateAt'[c] = stateAt[c]
  OBVIOUS
<1>1. created \in Nat /\ b \in 0..created
  <2>1. created \in Nat
    BY ChainAssumption DEF TypeInv, TypeOK
  <2> QED BY <2>1 DEF Settled
<1>2. local \in [Process -> Local] /\ stateAt \in [Tip -> [Table -> State]]
  BY DEF TypeInv, TypeOK
<1>3. ASSUME NEW p \in Process, NEW me, Become(p, me), me.pc # "write block",
             UNCHANGED <<created, stateAt>>
      PROVE  Settled(b)' /\ \A c \in 0..b : stateAt'[c] = stateAt[c]
  <2>1. \A q \in Process : local'[q] = IF q = p THEN me ELSE local[q]
    BY <1>2, <1>3 DEF Become
  <2> QED BY <1>3, <2>1 DEF Settled
<1>4. ASSUME NEW p \in Process, Commit(p)
      PROVE  Settled(b)' /\ \A c \in 0..b : stateAt'[c] = stateAt[c]
  <2> DEFINE me == local[p]
  <2>1. CASE BlockOpen(p)
    <3>1. created' = created + 1 /\ stateAt' = stateAt
      BY <2>1 DEF BlockOpen
    <3>2. b \in 0..created' /\ b < created'
      BY <1>1, <3>1
    <3> QED BY <3>1, <3>2 DEF Settled
  <2>2. CASE BlockWrite(p) \/ (WriteShort(p) /\ me.pc = "write block")
    <3>1. me.pc = "write block" /\ created' = created
      BY <2>2 DEF BlockWrite, WriteShort
    <3>2. PICK next, state : /\ Become(p, next) /\ next.pc = "open head"
                             /\ stateAt' = [stateAt EXCEPT ![me.id] = state]
      <4>1. CASE BlockWrite(p)
        BY <4>1 DEF BlockWrite
      <4>2. CASE WriteShort(p) /\ me.pc = "write block"
        BY <4>2 DEF WriteShort
      <4> QED BY <2>2, <4>1, <4>2
    <3>3. me.id = created /\ b < created
      BY <3>1 DEF WritesNewest, Settled
    <3>4. \A c \in 0..b : c # me.id
      BY <1>1, <3>3
    <3>5. \A c \in 0..b : stateAt'[c] = stateAt[c]
      <4>1. \A c \in 0..b : c \in Tip
        <5>1. created \in 0..MaxBlocks /\ MaxBlocks \in Nat
          BY ChainAssumption DEF TypeInv, TypeOK
        <5> QED BY <1>1, <5>1 DEF Tip, BlockId, Genesis
      <4> QED BY <1>2, <3>2, <3>4, <4>1
    <3>6. \A q \in Process : local'[q] = IF q = p THEN next ELSE local[q]
      BY <1>2, <3>2 DEF Become
    <3>7. Settled(b)'
      BY <3>1, <3>2, <3>6 DEF Settled
    <3> QED BY <3>5, <3>7
  <2>3. CASE CommitStart(p) \/ CommitLoad(p) \/ CommitLoadFails(p)
    <3>1. UNCHANGED <<created, stateAt>>
      BY <2>3 DEF CommitStart, CommitLoad, CommitLoadFails
    <3>2. MovesOn(p)
      <4>1. CASE CommitStart(p)
        BY <4>1, MovesOnIntro DEF CommitStart
      <4>2. CASE CommitLoad(p)
        BY <4>2, MovesOnIntro DEF CommitLoad, Failed
      <4>3. CASE CommitLoadFails(p)
        BY <4>3, MovesOnIntro DEF CommitLoadFails, Failed
      <4> QED BY <2>3, <4>1, <4>2, <4>3
    <3> QED BY <1>3, <3>1, <3>2 DEF MovesOn
  <2>4. CASE SnapshotOpen(p) \/ SnapshotWrite(p) \/ CommitHead(p)
    <3>1. UNCHANGED <<created, stateAt>>
      BY <2>4 DEF SnapshotOpen, SnapshotWrite, CommitHead
    <3>2. MovesOn(p)
      BY <2>4, MovesOnIntro DEF SnapshotOpen, SnapshotWrite, CommitHead
    <3> QED BY <1>3, <3>1, <3>2 DEF MovesOn
  <2>5. CASE HeadOpen(p) \/ HeadWrite(p) \/ WriteFails(p)
             \/ (WriteShort(p) /\ me.pc # "write block")
    <3>1. UNCHANGED <<created, stateAt>>
      BY <2>5 DEF HeadOpen, HeadWrite, WriteFails, WriteShort
    <3>2. MovesOn(p)
      <4>1. CASE HeadOpen(p) \/ HeadWrite(p) \/ WriteFails(p)
        BY <4>1, MovesOnIntro DEF HeadOpen, HeadWrite, WriteFails, Idle, Failed
      <4>2. CASE WriteShort(p) /\ me.pc # "write block"
        BY <4>2, MovesOnIntro DEF WriteShort, Idle
      <4> QED BY <2>5, <4>1, <4>2
    <3> QED BY <1>3, <3>1, <3>2 DEF MovesOn
  <2> QED BY <1>4, <2>1, <2>2, <2>3, <2>4, <2>5 DEF Commit
<1>5. ASSUME NEW p \in Process, ~Commit(p), Run(p) \/ InstanceLoadFails(p) \/ Interrupt(p)
      PROVE  Settled(b)' /\ \A c \in 0..b : stateAt'[c] = stateAt[c]
  <2>1. BecomesOther(p)
    BY <1>5, OthersStayOther DEF Run
  <2>2. UNCHANGED <<created, stateAt>>
    BY <1>5, PurgeKeepsRest, ReadKeepsFiles DEF Run
  <2> QED BY <1>3, <2>1, <2>2 DEF BecomesOther, CommitPc
<1>6. CASE AddTable \/ RemoveTable \/ UNCHANGED vars
  <2>1. UNCHANGED <<created, stateAt, local>>
    BY <1>6 DEF AddTable, RemoveTable, vars
  <2> QED BY <2>1 DEF Settled
<1> QED BY <1>4, <1>5, <1>6 DEF Next, Run

LEMMA SettledStays ==
    ASSUME TypeInv, WritesNewest, [Next]_vars
    PROVE  Keeps
<1>1. ASSUME NEW b, Settled(b), Loadable(b)' PROVE Loadable(b) /\ blocks'[b] = blocks[b]
  <2>0. created \in Nat /\ b \in 0..created
    <3>1. created \in Nat
      BY ChainAssumption DEF TypeInv, TypeOK
    <3> QED BY <1>1, <3>1 DEF Settled
  <2>1. blocks \in [BlockId -> CommitBlock \cup {None, Torn, Spoiled}]
    BY DEF TypeInv, TypeOK
  <2>2. ASSUME NEW p \in Process, Commit(p) PROVE Loadable(b) /\ blocks'[b] = blocks[b]
    <3>1. CASE BlockOpen(p)
      <4>1. blocks' = [blocks EXCEPT ![created + 1] = Torn]
        BY <3>1 DEF BlockOpen
      <4> QED BY <1>1, <2>1, <4>1 DEF Loadable
    <3>2. CASE BlockWrite(p) \/ (WriteShort(p) /\ local[p].pc = "write block")
      <4>1. PICK content : blocks' = [blocks EXCEPT ![local[p].id] = content]
        BY <3>2 DEF BlockWrite, WriteShort
      <4>2. local[p].pc = "write block"
        BY <3>2 DEF BlockWrite
      <4>3. local[p].id = created /\ b < created
        BY <1>1, <4>2 DEF WritesNewest, Settled
      <4>4. b # local[p].id
        BY <2>0, <4>3
      <4> QED BY <1>1, <2>1, <4>1, <4>4 DEF Loadable
    <3>3. CASE ~BlockOpen(p) /\ ~BlockWrite(p) /\ ~(WriteShort(p) /\ local[p].pc = "write block")
      <4>1. blocks' = blocks
        BY <2>2, <3>3 DEF Commit, CommitStart, CommitLoad, CommitLoadFails, SnapshotOpen,
                          SnapshotWrite, CommitHead, HeadOpen, HeadWrite, WriteFails,
                          WriteShort, files
      <4> QED BY <1>1, <4>1 DEF Loadable
    <3> QED BY <3>1, <3>2, <3>3
  <2>3. CASE \A p \in Process : ~Commit(p)
    <3>1. \A id \in BlockId : blocks'[id] \in {blocks[id], None}
      <4>1. CASE \E p \in Process : Purge(p)
        BY <4>1, PurgeKeepsRest
      <4>2. CASE ~\E p \in Process : Purge(p)
        <5>1. blocks' = blocks
          BY <2>3, <4>2, ReadKeepsFiles DEF Next, Run, AddTable, RemoveTable, vars, files
        <5> QED BY <5>1
      <4> QED BY <4>1, <4>2
    <3> QED BY <1>1, <3>1 DEF Loadable
  <2> QED BY <2>2, <2>3
<1> QED BY <1>1, SettledStaysSettled DEF Keeps

-----------------------------------------------------------------------------
(* Diffs *)

LEMMA ChangeCarries ==
    ASSUME NEW delta, NEW old \in State, NEW new \in State, Change(delta, old, new)
    PROVE  Carries(delta, old, new)
<1>1. CASE delta = None
  BY <1>1 DEF Change, Carries
<1>2. CASE delta # None
  <2>1. delta = DeltaCreate("delta", new, old)
    BY <1>2 DEF Change
  <2>2. NetEffect(delta, old, new)
    BY <2>1, DeltaCreateNetEffect DEF DeltaType
  <2>3. delta.type = "delta"
    BY <2>1 DEF DeltaCreate
  <2> QED BY <1>2, <2>2, <2>3 DEF Carries
<1> QED BY <1>1, <1>2

\* One level of MergeBlocks, for one table: the block's delta leads from old to
\* mid, the child from there to new, what is kept apart from new to last.
LEMMA MergeLevel ==
    ASSUME NEW parent \in Payload, NEW child \in Payload, NEW kept \in Seq(Payload),
           NEW t \in Table, NEW old \in State, NEW mid \in State, NEW new \in State, NEW last,
           Change(parent[t], old, mid), Carries(child[t], mid, new),
           RowsAfter(Reverse(kept), t, new) = last,
           Tables(child) \subseteq Tables(parent)
    PROVE  \E at \in State :
              /\ Carries(Merged(parent, child)[t], old, at)
              /\ RowsAfter(Reverse(IF Unmerged(child) = NoDeltas THEN kept
                                   ELSE Append(kept, Unmerged(child))), t, at) = last
<1> DEFINE rest == Unmerged(child)
           all  == Merged(parent, child)
           more == IF rest = NoDeltas THEN kept ELSE Append(kept, rest)
<1>1. rest \in Payload
  BY DEF Unmerged, Payload
<1>2. Carries(parent[t], old, mid)
  BY ChangeCarries
<1>3. \A had \in State : RowsAfter(Reverse(more), t, had) =
                           RowsAfter(Reverse(kept), t, RowsAfterDelta(rest[t], had))
  <2>1. CASE rest = NoDeltas
    BY <2>1 DEF NoDeltas, RowsAfterDelta
  <2>2. CASE rest # NoDeltas
    BY <1>1, <2>2, RowsAfterReverse DEF Rows
  <2> QED BY <2>1, <2>2
<1>4. /\ rest[t] = IF t \in MergeTable THEN None ELSE child[t]
      /\ all[t] = IF t \in Tables(child) \cap MergeTable
                  THEN DeltaMerge(parent[t], child[t]) ELSE parent[t]
  BY DEF Unmerged, Merged
<1> HIDE DEF rest, all, more
<1>5. CASE t \notin MergeTable
  <2>1. RowsAfterDelta(child[t], mid) = new
    BY CarriesRows DEF Payload
  <2>2. RowsAfter(Reverse(more), t, mid) = last
    BY <1>3, <1>4, <1>5, <2>1
  <2> QED BY <1>2, <1>4, <1>5, <2>2 DEF all, more, rest
<1>6. CASE t \in MergeTable /\ child[t] = None
  <2>1. mid = new
    BY <1>6 DEF Carries
  <2>2. RowsAfter(Reverse(more), t, mid) = last
    BY <1>3, <1>4, <1>6, <2>1 DEF RowsAfterDelta
  <2>3. all[t] = parent[t]
    BY <1>4, <1>6 DEF Tables
  <2> QED BY <1>2, <2>2, <2>3 DEF all, more, rest
<1>7. CASE t \in MergeTable /\ child[t] # None
  <2>1. t \in Tables(child) /\ t \in Tables(parent)
    BY <1>7 DEF Tables
  <2>2. parent[t] = DeltaCreate("delta", mid, old)
    BY <2>1 DEF Tables, Change
  <2>3. child[t] \in Delta /\ NetEffect(child[t], mid, new)
    BY <1>7 DEF Payload, Carries
  <2>4. NetEffect(all[t], old, new)
    BY <1>4, <1>7, <2>1, <2>2, <2>3, MergeOfContinuation
  <2>5. parent[t] \in Delta /\ parent[t].type = "delta"
    <3>1. parent[t] \in Delta
      BY <2>2, DeltaCreateNetEffect DEF DeltaType
    <3> QED BY <2>2, <3>1 DEF DeltaCreate
  <2>6. all[t] \in Delta /\ all[t].type = "delta"
    BY <1>4, <1>7, <2>1, <2>3, <2>5, DeltaMergeType
  <2>7. Carries(all[t], old, new)
    BY <2>4, <2>6, ChainAssumption DEF Carries
  <2>8. RowsAfter(Reverse(more), t, new) = last
    BY <1>3, <1>4, <1>7 DEF RowsAfterDelta
  <2> QED BY <2>7, <2>8 DEF all, more, rest
<1> QED BY <1>5, <1>6, <1>7

DiffInv == \A p \in Process : DiffOK(local[p])

LEMMA SettledState ==
    ASSUME TypeInv, NEW b, Settled(b)
    PROVE  /\ b \in Nat /\ b \in 0..b /\ 0..b \subseteq Tip
           /\ \A c \in 0..b, t \in Table : stateAt[c][t] \in State
<1>1. created \in 0..MaxBlocks /\ MaxBlocks \in Nat /\ b \in 0..created
  BY ChainAssumption DEF TypeInv, TypeOK, Settled
<1>2. b \in Nat /\ b \in 0..b /\ 0..b \subseteq 0..MaxBlocks
  BY <1>1
<1>3. 0..MaxBlocks \subseteq Tip
  BY <1>1 DEF Tip, BlockId, Genesis
<1>4. 0..b \subseteq Tip
  BY <1>2, <1>3
<1> QED BY <1>2, <1>4 DEF TypeInv, TypeOK

LEMMA DiffStays ==
    ASSUME TypeInv, Keeps, NEW me, DiffOK(me)
    PROVE  DiffOK(me)'
<1>1. ASSUME Settled(me.tip)
      PROVE  /\ Settled(me.tip)'
             /\ \A c \in 0..me.tip : stateAt'[c] = stateAt[c]
             /\ stateAt'[me.tip] = stateAt[me.tip]
  BY <1>1, SettledState DEF Keeps
<1>2. CASE me.pc = "merge"
  BY <1>1, <1>2 DEF DiffOK
<1>3. CASE me.pc = "patched"
  BY <1>1, <1>3 DEF DiffOK
<1> QED BY <1>2, <1>3 DEF DiffOK

\* A step of a command that leaves no diff, or one as it should be.
LEMMA DiffBecomes ==
    ASSUME TypeInv, Keeps, DiffInv, NEW p \in Process, NEW me, Become(p, me), DiffOK(me)
    PROVE  DiffInv'
<1>1. \A q \in Process : local'[q] = IF q = p THEN me ELSE local[q]
  BY DEF Become, TypeInv, TypeOK
<1>2. ASSUME NEW q \in Process PROVE DiffOK(local[q])'
  <2>1. CASE q = p
    <3>1. DiffOK(me)'
      BY DiffStays
    <3> QED BY <1>1, <2>1, <3>1 DEF DiffOK
  <2>2. CASE q # p
    <3>1. DiffOK(local[q])
      BY DEF DiffInv
    <3>2. local'[q] = local[q]
      BY <1>1, <2>2
    <3> DEFINE you == local[q]
    <3>3. PICK any : any = local[q]
      OBVIOUS
    <3>4. DiffOK(any)'
      BY <3>1, <3>3, DiffStays
    <3>5. local'[q] = any
      BY <3>2, <3>3
    <3> QED BY <3>4, <3>5 DEF DiffOK
  <2> QED BY <2>1, <2>2
<1> QED BY <1>2 DEF DiffInv

\* A step that ends or starts something else than a merge.
Elsewhere(p) == \E me : Become(p, me) /\ me.pc # "merge" /\ (me.pc = "patched" => me.op # "diff")

LEMMA ElsewhereIntro ==
    \A p, me : Become(p, me) /\ me.pc # "merge" /\ (me.pc = "patched" => me.op # "diff")
               => Elsewhere(p)
BY DEF Elsewhere

LEMMA DiffSteps ==
    ASSUME OneCommitter, TypeInv, IInv, CommitInv, Keeps, DiffInv, NEW p \in Process, Diff(p)
    PROVE  DiffInv'
<1> DEFINE me == local[p]
<1>a. me \in Local /\ DiffOK(me)
  BY DEF TypeInv, TypeOK, DiffInv
<1>1. CASE DiffResolve(p)
  <2>1. Elsewhere(p)
    BY <1>1, ElsewhereIntro DEF DiffResolve, DiffFrom, Failed
  <2> QED BY <2>1, DiffBecomes DEF Elsewhere, DiffOK
<1>2. CASE DiffHead(p)
  <2>1. PICK next : next = [pc |-> "merge", goal |-> me.goal, tables |-> config, tip |-> head,
                            at |-> head, child |-> NoDeltas, kept |-> <<>>]
    OBVIOUS
  <2>2. Become(p, next)
    BY <1>2, <2>1 DEF DiffHead
  <2>3. /\ next.pc = "merge" /\ next.tip = head /\ next.at = head
        /\ next.child = NoDeltas /\ next.kept = <<>>
    BY <2>1
  <2>4. DiffOK(next)
    <3>1. CASE head = Torn
      BY <2>3, <3>1 DEF DiffOK
    <3>2. CASE Settled(head)
      <4>1. ASSUME NEW t \in Table
            PROVE  \E mid \in State : /\ Carries(next.child[t], stateAt[next.at][t], mid)
                                      /\ RowsAfter(Reverse(next.kept), t, mid)
                                           = stateAt[next.tip][t]
        <5>1. stateAt[head][t] \in State
          BY <3>2, SettledState
        <5>2. RowsAfter(Reverse(<<>>), t, stateAt[head][t]) = stateAt[head][t]
          BY <5>1, RowsAfterNothing DEF Rows
        <5> QED BY <2>3, <5>1, <5>2 DEF Carries, NoDeltas
      <4>2. next.at \in 0..next.tip
        BY <2>3, <3>2, SettledState
      <4> QED BY <2>3, <3>2, <4>1, <4>2 DEF DiffOK
    <3> QED BY <3>1, <3>2, HeadSettled
  <2> QED BY <2>2, <2>4, DiffBecomes
<1>3. CASE DiffMerge(p)
  <2>1. CASE Become(p, Failed("diff")) \/ Become(p, Crashed("diff"))
    <3>1. Elsewhere(p)
      BY <2>1, ElsewhereIntro DEF Failed, Crashed
    <3> QED BY <3>1, DiffBecomes DEF Elsewhere, DiffOK
  <2>2. CASE ~(Become(p, Failed("diff")) \/ Become(p, Crashed("diff")))
    <3> DEFINE parent == blocks[me.at].payload
               rest   == Unmerged(me.child)
    <3>1. PICK next : next = [pc |-> "merge", goal |-> me.goal, tables |-> me.tables,
                              tip |-> me.tip, at |-> blocks[me.at].parent,
                              child |-> Merged(parent, me.child),
                              kept |-> IF rest = NoDeltas THEN me.kept
                                       ELSE Append(me.kept, rest)]
      OBVIOUS
    <3>2. /\ me.pc = "merge" /\ Loadable(me.at) /\ Tables(me.child) \ Tables(parent) = {}
          /\ Become(p, next)
      BY <1>3, <2>2, <3>1 DEF DiffMerge
    <3>3. /\ next.pc = "merge" /\ next.tip = me.tip /\ next.at = blocks[me.at].parent
          /\ next.child = Merged(parent, me.child)
          /\ next.kept = IF rest = NoDeltas THEN me.kept ELSE Append(me.kept, rest)
      BY <3>1
    <3>4. me.child \in Payload /\ me.kept \in Seq(Payload) /\ me.at \in BlockId
      BY <1>a, <3>2, LocalFields DEF Loadable
    <3>5. parent \in Payload
      BY <3>2, <3>4 DEF Loadable, TypeInv, TypeOK, Block
    <3>6. me.at # Torn
      BY <3>4, ChainAssumption DEF BlockId
    <3>7. /\ Settled(me.tip) /\ me.at \in 0..me.tip
          /\ \A t \in Table : \E mid \in State :
                /\ Carries(me.child[t], stateAt[me.at][t], mid)
                /\ RowsAfter(Reverse(me.kept), t, mid) = stateAt[me.tip][t]
      BY <1>a, <3>2, <3>6 DEF DiffOK
    <3>8. /\ blocks[me.at].parent = me.at - 1
          /\ \A t \in Table : Change(parent[t], stateAt[me.at - 1][t], stateAt[me.at][t])
      BY <3>2, <3>4 DEF CommitInv, BlocksTell
    <3>9. next.at = me.at - 1 /\ next.at \in 0..next.tip
      <4>1. me.at \in Nat /\ me.at >= 1 /\ me.tip \in Nat
        BY <3>4, <3>7, SettledState, ChainAssumption DEF BlockId
      <4> QED BY <3>3, <3>7, <3>8, <4>1
    <3>10. ASSUME NEW t \in Table
           PROVE  \E mid \in State : /\ Carries(next.child[t], stateAt[next.at][t], mid)
                                     /\ RowsAfter(Reverse(next.kept), t, mid)
                                          = stateAt[next.tip][t]
      <4>1. PICK new \in State : /\ Carries(me.child[t], stateAt[me.at][t], new)
                                 /\ RowsAfter(Reverse(me.kept), t, new) = stateAt[me.tip][t]
        BY <3>7
      <4>2. stateAt[me.at][t] \in State /\ stateAt[next.at][t] \in State
        BY <3>3, <3>7, <3>9, SettledState
      <4>3. Tables(me.child) \subseteq Tables(parent)
        BY <3>2
      <4>4. Change(parent[t], stateAt[next.at][t], stateAt[me.at][t])
        BY <3>8, <3>9
      <4> HIDE DEF parent
      <4> QED BY <3>3, <3>4, <3>5, <4>1, <4>2, <4>3, <4>4, MergeLevel
    <3>11. DiffOK(next)
      BY <3>3, <3>7, <3>9, <3>10 DEF DiffOK
    <3> QED BY <3>2, <3>11, DiffBecomes
  <2> QED BY <2>1, <2>2
<1>4. CASE DiffEnd(p)
  <2>1. PICK next : next = [pc |-> "patched", op |-> "diff", goal |-> me.goal, tip |-> me.tip,
                            patch |-> Reverse(Append(me.kept, me.child))]
    OBVIOUS
  <2>2. me.pc = "merge" /\ me.at = me.goal /\ Become(p, next)
    BY <1>4, <2>1 DEF DiffEnd
  <2>3. /\ next.pc = "patched" /\ next.op = "diff" /\ next.goal = me.goal /\ next.tip = me.tip
        /\ next.patch = Reverse(Append(me.kept, me.child))
    BY <2>1
  <2>4. me.child \in Payload /\ me.kept \in Seq(Payload) /\ me.goal \in Tip
    BY <1>a, <2>2, LocalFields
  <2>5. me.at # Torn
    <3>1. Tip \subseteq Nat
      BY DEF Tip, BlockId, Genesis
    <3> QED BY <2>2, <2>4, <3>1, ChainAssumption
  <2>6. /\ Settled(me.tip) /\ me.at \in 0..me.tip
        /\ \A t \in Table : \E mid \in State :
              /\ Carries(me.child[t], stateAt[me.at][t], mid)
              /\ RowsAfter(Reverse(me.kept), t, mid) = stateAt[me.tip][t]
    BY <1>a, <2>2, <2>5 DEF DiffOK
  <2>7. ASSUME NEW t \in Table
        PROVE  RowsAfter(next.patch, t, stateAt[next.goal][t]) = stateAt[next.tip][t]
    <3>1. PICK mid \in State : /\ Carries(me.child[t], stateAt[me.at][t], mid)
                               /\ RowsAfter(Reverse(me.kept), t, mid) = stateAt[me.tip][t]
      BY <2>6
    <3>2. stateAt[me.at][t] \in State
      BY <2>6, SettledState
    <3>3. RowsAfterDelta(me.child[t], stateAt[me.at][t]) = mid
      BY <2>4, <3>1, <3>2, CarriesRows DEF Payload
    <3>4. RowsAfter(next.patch, t, stateAt[me.at][t]) = stateAt[me.tip][t]
      BY <2>3, <2>4, <3>1, <3>2, <3>3, RowsAfterReverse DEF Rows
    <3> QED BY <2>2, <2>3, <3>4
  <2>8. DiffOK(next)
    BY <2>2, <2>3, <2>6, <2>7 DEF DiffOK
  <2> QED BY <2>2, <2>8, DiffBecomes
<1> QED BY <1>1, <1>2, <1>3, <1>4 DEF Diff

\* A step of a command that hands nothing over, and is not about to.
Quiet(p) == \E me : /\ Become(p, me)
                    /\ me.pc \notin {"merge", "rebase", "patched", "trace", "recall", "told"}

LEMMA QuietIntro ==
    \A p, me : /\ Become(p, me)
               /\ me.pc \notin {"merge", "rebase", "patched", "trace", "recall", "told"}
               => Quiet(p)
BY DEF Quiet

LEMMA OthersQuiet ==
    ASSUME NEW p \in Process,
           Commit(p) \/ Purge(p) \/ Finish(p) \/ InstanceLoadFails(p) \/ Interrupt(p)
    PROVE  Quiet(p)
<1>1. CASE Commit(p)
  <2>1. CASE CommitStart(p) \/ CommitLoadFails(p)
    BY <2>1, QuietIntro DEF CommitStart, CommitLoadFails, Failed
  <2>2. CASE CommitLoad(p)
    BY <2>2, QuietIntro DEF CommitLoad, Failed
  <2>3. CASE SnapshotOpen(p) \/ SnapshotWrite(p) \/ CommitHead(p)
    BY <2>3, QuietIntro DEF SnapshotOpen, SnapshotWrite, CommitHead
  <2>4. CASE BlockOpen(p) \/ BlockWrite(p)
    BY <2>4, QuietIntro DEF BlockOpen, BlockWrite
  <2>5. CASE HeadOpen(p) \/ HeadWrite(p) \/ WriteFails(p)
    BY <2>5, QuietIntro DEF HeadOpen, HeadWrite, WriteFails, Idle, Failed
  <2>6. CASE WriteShort(p)
    BY <2>6, QuietIntro DEF WriteShort, Idle
  <2> QED BY <1>1, <2>1, <2>2, <2>3, <2>4, <2>5, <2>6 DEF Commit
<1>2. CASE Purge(p)
  BY <1>2, QuietIntro
     DEF Purge, PurgeStart, PurgeHead, PurgeWalk, PurgeRead, PurgeList, PurgeDelete, PurgeEnd,
         Failed, Idle
<1>3. CASE Finish(p) \/ InstanceLoadFails(p) \/ Interrupt(p)
  BY <1>3, QuietIntro DEF Finish, InstanceLoadFails, Interrupt, Idle, Failed
<1> QED BY <1>1, <1>2, <1>3

LEMMA DiffInvStep ==
    ASSUME OneCommitter, TypeInv, IInv, CommitInv, DiffInv, [Next]_vars
    PROVE  DiffInv'
<1>1. Keeps
  BY CommitWritesNewest, SettledStays
<1>2. ASSUME NEW p \in Process, Elsewhere(p) PROVE DiffInv'
  BY <1>1, <1>2, DiffBecomes DEF Elsewhere, DiffOK
<1>3. ASSUME NEW p \in Process, Run(p) \/ InstanceLoadFails(p) \/ Interrupt(p)
      PROVE  DiffInv'
  <2>1. CASE Diff(p)
    BY <1>1, <2>1, DiffSteps
  <2>2. CASE Rebase(p)
    <3>1. Elsewhere(p)
      BY <2>2, ElsewhereIntro DEF Rebase, RebaseStart, RebaseLoad, RebaseHead, Failed
    <3> QED BY <1>2, <3>1
  <2>3. CASE History(p)
    <3>1. Elsewhere(p)
      <4>1. CASE HistoryStart(p) \/ HistoryHead(p)
        BY <4>1, ElsewhereIntro DEF HistoryStart, HistoryHead
      <4>2. CASE HistoryWalk(p)
        BY <4>2, ElsewhereIntro DEF HistoryWalk
      <4>3. CASE HistoryRead(p)
        BY <4>3, ElsewhereIntro DEF HistoryRead, Failed
      <4> QED BY <2>3, <4>1, <4>2, <4>3 DEF History
    <3> QED BY <1>2, <3>1
  <2>4. CASE Commit(p) \/ Purge(p) \/ Finish(p) \/ InstanceLoadFails(p) \/ Interrupt(p)
    <3>1. Elsewhere(p)
      BY <2>4, OthersQuiet, ElsewhereIntro DEF Quiet
    <3> QED BY <1>2, <3>1
  <2> QED BY <1>3, <2>1, <2>2, <2>3, <2>4 DEF Run
<1>4. CASE UNCHANGED local
  <2>1. ASSUME NEW p \in Process PROVE DiffOK(local[p])'
    <3>1. PICK me : me = local[p]
      OBVIOUS
    <3>2. DiffOK(me)'
      BY <1>1, <3>1, DiffStays DEF DiffInv
    <3>3. local'[p] = me
      BY <1>4, <3>1
    <3> QED BY <3>2, <3>3 DEF DiffOK
  <2> QED BY <2>1 DEF DiffInv
<1>5. UNCHANGED local \/ \E p \in Process : Run(p) \/ InstanceLoadFails(p) \/ Interrupt(p)
  BY DEF Next, AddTable, RemoveTable, vars
<1> QED BY <1>3, <1>4, <1>5

\* While one process at a time commits and no commit is cut short, a patch that
\* LCH_Diff hands over takes every table of a server from the block the server
\* knows to the block that HEAD named, through merges, blocks kept apart, tables
\* that come and go, and purges.
THEOREM DiffSound ==
    ASSUME OneCommitter, CommitsEnd
    PROVE  Spec => []DiffPatchSound
<1>1. Init => DiffInv
  BY DEF Init, DiffInv, DiffOK, Idle
<1>2. TypeInv /\ IInv /\ CommitInv /\ DiffInv /\ [Next]_vars => DiffInv'
  BY DiffInvStep
<1>3. DiffInv => DiffPatchSound
  BY DEF DiffInv, DiffOK, DiffPatchSound
<1> QED BY <1>1, <1>2, <1>3, CommitInvHolds, PTL DEF Spec

-----------------------------------------------------------------------------
(* Rebases.  The process that commits is the one that rebases: none finds  *)
(* the snapshots ahead of HEAD.                                            *)

CommitterRebases == Rebasers \subseteq Committers

RebaseInv ==
    /\ \A p \in Process : local[p].pc = "rebase" => p \in Rebasers
    /\ \A p \in Process : RebaseOK(local[p])

\* What a rebase has so far stays right until the table's next block.
LEMMA RebaseStays ==
    ASSUME TypeInv, Keeps, NEW me, RebaseOK(me),
           me.pc = "rebase" => created' = created /\ stateAt'[created] = stateAt[created]
    PROVE  RebaseOK(me)'
<1>1. ASSUME Settled(me.tip)
      PROVE  Settled(me.tip)' /\ stateAt'[me.tip] = stateAt[me.tip]
  BY <1>1, SettledState DEF Keeps
<1>2. CASE me.pc = "rebase"
  BY <1>2 DEF RebaseOK
<1>3. CASE me.pc = "patched"
  BY <1>1, <1>3 DEF RebaseOK
<1> QED BY <1>2, <1>3 DEF RebaseOK

LEMMA RebaseBecomes ==
    ASSUME TypeInv, Keeps, RebaseInv, NEW p \in Process, NEW me, Become(p, me), RebaseOK(me),
           me.pc = "rebase" => p \in Rebasers,
           \/ UNCHANGED <<created, stateAt>>
           \/ me.pc # "rebase" /\ \A q \in Process : local[q].pc # "rebase"
    PROVE  RebaseInv'
<1>1. \A q \in Process : local'[q] = IF q = p THEN me ELSE local[q]
  BY DEF Become, TypeInv, TypeOK
<1>2. ASSUME NEW q \in Process
      PROVE  RebaseOK(local[q])' /\ (local'[q].pc = "rebase" => q \in Rebasers)
  <2>1. PICK any : any = local'[q]
    OBVIOUS
  <2>2. RebaseOK(any) /\ (any.pc = "rebase" => q \in Rebasers)
    BY <1>1, <2>1 DEF RebaseInv
  <2>3. any.pc = "rebase" => created' = created /\ stateAt'[created] = stateAt[created]
    BY <1>1, <2>1
  <2>4. RebaseOK(any)'
    BY <2>2, <2>3, RebaseStays
  <2> QED BY <2>1, <2>2, <2>4 DEF RebaseOK
<1> QED BY <1>2 DEF RebaseInv

LEMMA CommitFrom ==
    ASSUME CommitInv, NEW p \in Process, Commit(p)
    PROVE  p \in Committers /\ local[p].pc # "rebase"
<1>1. (local[p] = Idle /\ p \in Committers) \/ local[p].pc \in CommitPc
  <2> USE DEF CommitPc
  <2> QED BY DEF Commit, CommitStart, CommitLoad, CommitLoadFails, SnapshotOpen,
                 SnapshotWrite, CommitHead, BlockOpen, BlockWrite, HeadOpen, HeadWrite,
                 WriteFails, WriteShort
<1>2. Idle.pc # "rebase"
  BY DEF Idle
<1> QED BY <1>1, <1>2 DEF CommitInv, CommitPc

LEMMA RebaseSteps ==
    ASSUME OneCommitter, CommitterRebases, TypeInv, CommitInv, Keeps, RebaseInv,
           NEW p \in Process, Rebase(p)
    PROVE  RebaseInv'
<1> DEFINE me == local[p]
<1>a. me \in Local /\ RebaseOK(me) /\ UNCHANGED <<created, stateAt>>
  BY ReadKeepsFiles DEF TypeInv, TypeOK, RebaseInv
<1>1. CASE RebaseStart(p)
  <2>1. PICK next : next = [pc |-> "rebase", todo |-> config, payload |-> NoDeltas]
    OBVIOUS
  <2>2. Become(p, next) /\ p \in Rebasers
    BY <1>1, <2>1 DEF RebaseStart
  <2>3. RebaseOK(next)
    BY <2>1 DEF RebaseOK, NoDeltas
  <2> QED BY <1>a, <2>2, <2>3, RebaseBecomes
<1>2. ASSUME me.pc = "rebase"
      PROVE  /\ p \in Rebasers /\ head = created /\ Settled(created)
             /\ \A t \in Table : snapshot[t] = stateAt[created][t]
  <2>1. p \in Rebasers /\ p \in Committers
    BY <1>2 DEF RebaseInv, CommitterRebases
  <2>2. \A q \in Process : local[q].pc \notin CommitPc
    BY <1>2, <2>1 DEF CommitInv, OneCommitter, CommitPc
  <2>3. created \in 0..created
    BY ChainAssumption DEF TypeInv, TypeOK
  <2> QED BY <2>1, <2>2, <2>3 DEF CommitInv, Between, Settled, CommitPc
<1>3. CASE RebaseLoad(p)
  <2>1. PICK t \in me.todo :
            IF snapshot[t] = Torn
            THEN Become(p, Failed("rebase"))
            ELSE Become(p, [pc |-> "rebase", todo |-> me.todo \ {t},
                            payload |-> [me.payload EXCEPT ![t] =
                                DeltaCreate("rebase", snapshot[t], EmptyObject)]])
    BY <1>3 DEF RebaseLoad
  <2>2. me.pc = "rebase"
    BY <1>3 DEF RebaseLoad
  <2>3. CASE snapshot[t] = Torn
    <3>1. RebaseOK(Failed("rebase")) /\ Failed("rebase").pc # "rebase"
      BY DEF RebaseOK, Failed
    <3> QED BY <1>a, <2>1, <2>3, <3>1, RebaseBecomes
  <2>4. CASE snapshot[t] # Torn
    <3> DEFINE delta == DeltaCreate("rebase", snapshot[t], EmptyObject)
    <3>1. PICK next : next = [pc |-> "rebase", todo |-> me.todo \ {t},
                              payload |-> [me.payload EXCEPT ![t] = delta]]
      OBVIOUS
    <3>2. Become(p, next)
      BY <2>1, <2>4, <3>1
    <3> HIDE DEF delta
    <3>3. next.pc = "rebase" /\ next.payload = [me.payload EXCEPT ![t] = delta]
      BY <3>1
    <3>4. me.payload \in Payload /\ t \in Table
      BY <1>a, <2>2, LocalFields
    <3>5. \A u \in Table : next.payload[u] = IF u = t THEN delta ELSE me.payload[u]
      BY <3>3, <3>4 DEF Payload
    <3>6. delta = DeltaCreate("rebase", stateAt[created][t], EmptyObject)
      BY <1>2, <2>2, <3>4 DEF delta
    <3>7. RebaseOK(next)
      BY <1>a, <2>2, <3>3, <3>5, <3>6 DEF RebaseOK
    <3> QED BY <1>a, <1>2, <2>2, <3>2, <3>7, RebaseBecomes
  <2> QED BY <2>3, <2>4
<1>4. CASE RebaseHead(p)
  <2>1. PICK next : next = [pc |-> "patched", op |-> "rebase", goal |-> Genesis,
                            tip |-> head, patch |-> <<me.payload>>]
    OBVIOUS
  <2>2. Become(p, next) /\ me.pc = "rebase"
    BY <1>4, <2>1 DEF RebaseHead
  <2>3. /\ next.pc = "patched" /\ next.op = "rebase" /\ next.tip = head
        /\ next.patch = <<me.payload>>
    BY <2>1
  <2>4. me.payload \in Payload
    BY <1>a, <2>2, LocalFields
  <2>5. next.patch \in Seq(Payload) /\ Len(next.patch) = 1 /\ next.patch[1] = me.payload
    BY <2>3, <2>4
  <2>6. RebaseOK(next)
    BY <1>a, <1>2, <2>2, <2>3, <2>5 DEF RebaseOK
  <2> QED BY <1>a, <2>2, <2>3, <2>6, RebaseBecomes
<1> QED BY <1>1, <1>3, <1>4 DEF Rebase

\* A step of a command that does not rebase.
NoRebase(p) == \E me : Become(p, me) /\ me.pc # "rebase" /\ (me.pc = "patched" => me.op = "diff")

LEMMA NoRebaseIntro ==
    \A p, me : Become(p, me) /\ me.pc # "rebase" /\ (me.pc = "patched" => me.op = "diff")
               => NoRebase(p)
BY DEF NoRebase

LEMMA RebaseInvStep ==
    ASSUME OneCommitter, CommitterRebases, TypeInv, CommitInv, RebaseInv, [Next]_vars
    PROVE  RebaseInv'
<1>1. Keeps
  BY CommitWritesNewest, SettledStays
<1>2. \A me : me.pc \notin {"rebase", "patched"} \/ (me.pc = "patched" /\ me.op = "diff")
              => RebaseOK(me)
  BY DEF RebaseOK
<1>3. ASSUME NEW p \in Process, Run(p) \/ InstanceLoadFails(p) \/ Interrupt(p)
      PROVE  RebaseInv'
  <2>1. CASE Rebase(p)
    BY <1>1, <2>1, RebaseSteps
  <2>2. CASE Commit(p)
    <3>1. PICK me : /\ Become(p, me)
                    /\ me.pc \notin {"merge", "rebase", "patched", "trace", "recall", "told"}
      BY <2>2, OthersQuiet DEF Quiet
    <3>2. \A q \in Process : local[q].pc # "rebase"
      BY <2>2, CommitFrom DEF RebaseInv, CommitterRebases, OneCommitter
    <3> QED BY <1>1, <1>2, <3>1, <3>2, RebaseBecomes
  <2>3. CASE Purge(p) \/ Finish(p) \/ InstanceLoadFails(p) \/ Interrupt(p)
    <3>1. PICK me : /\ Become(p, me)
                    /\ me.pc \notin {"merge", "rebase", "patched", "trace", "recall", "told"}
      BY <2>3, OthersQuiet DEF Quiet
    <3>2. UNCHANGED <<created, stateAt>>
      BY <2>3, PurgeKeepsRest, ReadKeepsFiles
    <3> QED BY <1>1, <1>2, <3>1, <3>2, RebaseBecomes
  <2>4. CASE Diff(p) \/ History(p)
    <3>a. NoRebase(p)
      <4>1. CASE DiffResolve(p) \/ DiffHead(p) \/ DiffEnd(p)
        BY <4>1, NoRebaseIntro DEF DiffResolve, DiffFrom, DiffHead, DiffEnd, Failed
      <4>2. CASE DiffMerge(p)
        BY <4>2, NoRebaseIntro DEF DiffMerge, Failed, Crashed
      <4>3. CASE HistoryStart(p) \/ HistoryHead(p)
        BY <4>3, NoRebaseIntro DEF HistoryStart, HistoryHead
      <4>4. CASE HistoryWalk(p)
        BY <4>4, NoRebaseIntro DEF HistoryWalk
      <4>5. CASE HistoryRead(p)
        BY <4>5, NoRebaseIntro DEF HistoryRead, Failed
      <4> QED BY <2>4, <4>1, <4>2, <4>3, <4>4, <4>5 DEF Diff, History
    <3>1. PICK me : /\ Become(p, me)
                    /\ me.pc # "rebase" /\ (me.pc = "patched" => me.op = "diff")
      BY <3>a DEF NoRebase
    <3>2. UNCHANGED <<created, stateAt>>
      BY <2>4, ReadKeepsFiles
    <3>3. RebaseOK(me)
      BY <1>2, <3>1
    <3> QED BY <1>1, <3>1, <3>2, <3>3, RebaseBecomes
  <2> QED BY <1>3, <2>1, <2>2, <2>3, <2>4 DEF Run
<1>4. CASE AddTable \/ RemoveTable \/ UNCHANGED vars
  <2>1. UNCHANGED <<created, stateAt, local>>
    BY <1>4 DEF AddTable, RemoveTable, vars
  <2>2. ASSUME NEW q \in Process
        PROVE  RebaseOK(local[q])' /\ (local'[q].pc = "rebase" => q \in Rebasers)
    <3>1. PICK any : any = local[q]
      OBVIOUS
    <3>2. RebaseOK(any)'
      BY <1>1, <2>1, <3>1, RebaseStays DEF RebaseInv
    <3> QED BY <2>1, <3>1, <3>2 DEF RebaseInv, RebaseOK
  <2> QED BY <2>2 DEF RebaseInv
<1> QED BY <1>3, <1>4 DEF Next

\* While the process that commits is also the one that rebases, and no commit is
\* cut short, a patch that LCH_Rebase hands over makes whatever rows a server has
\* the tables' states at the block that the patch names.
THEOREM RebaseSound ==
    ASSUME OneCommitter, CommitterRebases, CommitsEnd
    PROVE  Spec => []RebasePatchSound
<1>1. Init => RebaseInv
  BY DEF Init, RebaseInv, RebaseOK, Idle
<1>2. TypeInv /\ CommitInv /\ RebaseInv /\ [Next]_vars => RebaseInv'
  BY RebaseInvStep
<1>3. TypeInv /\ RebaseInv => RebasePatchSound
  <2> SUFFICES ASSUME TypeInv, RebaseInv, NEW p \in Process, local[p].pc = "patched",
                      local[p].op = "rebase", NEW t \in Tables(local[p].patch[1]),
                      NEW had \in State
               PROVE  RowsAfter(local[p].patch, t, had) = stateAt[local[p].tip][t]
    BY DEF RebasePatchSound
  <2> DEFINE me == local[p]
  <2>1. /\ Settled(me.tip) /\ me.patch \in Seq(Payload) /\ Len(me.patch) = 1
        /\ t \in Table
        /\ me.patch[1][t] = DeltaCreate("rebase", stateAt[me.tip][t], EmptyObject)
    BY DEF RebaseInv, RebaseOK, Tables
  <2>2. stateAt[me.tip][t] \in State
    BY <2>1, SettledState
  <2>3. Takes(me.patch[1][t], had, stateAt[me.tip][t])
    BY <2>1, <2>2, RebaseTakes
  <2>4. me.patch[1][t] # None /\ had # Torn
    BY ChainAssumption DEF Tables
  <2>5. RowsAfterDelta(me.patch[1][t], had) = stateAt[me.tip][t]
    BY <2>3, <2>4 DEF Takes, RowsAfterDelta
  <2> QED BY <2>1, <2>5, RowsAfterOne DEF Rows
<1> QED BY <1>1, <1>2, <1>3, CommitInvHolds, PTL DEF Spec

-----------------------------------------------------------------------------
(* Histories *)

HistoryInv == \A p \in Process : HistoryOK(local[p])

\* A block has an entry for the record if it changed it, and tells its value: the
\* one it has since, or had until then.
LEMMA EntriesTell ==
    ASSUME NEW id, NEW ask \in Ask, NEW old \in State, NEW new \in State,
           Change(blocks[id].payload[ask.table], old, new)
    PROVE  IF new[ask.key] = old[ask.key] THEN Entries(id, ask) = <<>>
           ELSE \E operation : Entries(id, ask) =
                    <<HistoryRecord(id, operation, IF new[ask.key] = Missing THEN old[ask.key]
                                                   ELSE new[ask.key])>>
<1> DEFINE delta == blocks[id].payload[ask.table]
           k     == ask.key
<1>1. k \in Key
  BY DEF Ask
<1>2. CASE delta = None
  BY <1>2 DEF Change, Entries
<1>3. CASE delta # None
  <2>1. delta = DeltaCreate("delta", new, old)
    BY <1>3 DEF Change
  <2>2. /\ delta.inserts = KeysSetMinus(new, old)
        /\ delta.deletes = KeysSetMinus(old, new)
        /\ delta.updates = KeysSetIntersectAndValuesSetMinus(new, old)
    BY <2>1 DEF DeltaCreate
  <2>3. /\ delta.inserts[k] = IF HasKey(old, k) THEN Missing ELSE new[k]
        /\ delta.deletes[k] = IF HasKey(new, k) THEN Missing ELSE old[k]
        /\ delta.updates[k] = IF HasKey(old, k) /\ new[k] # old[k] THEN new[k] ELSE Missing
    BY <1>1, <2>2 DEF KeysSetMinus, KeysSetIntersectAndValuesSetMinus
  <2>4. Entries(id, ask) =
          IF HasKey(delta.inserts, k) THEN <<HistoryRecord(id, "insert", delta.inserts[k])>>
          ELSE IF HasKey(delta.deletes, k) THEN <<HistoryRecord(id, "delete", delta.deletes[k])>>
          ELSE IF HasKey(delta.updates, k) THEN <<HistoryRecord(id, "update", delta.updates[k])>>
          ELSE <<>>
    BY <1>3 DEF Entries
  <2> HIDE DEF delta, k
  <2>5. CASE new[k] = old[k]
    BY <2>3, <2>4, <2>5 DEF HasKey, k
  <2>6. CASE new[k] # old[k]
    <3>1. CASE old[k] = Missing
      <4>1. Entries(id, ask) = <<HistoryRecord(id, "insert", new[k])>>
        BY <2>3, <2>4, <2>6, <3>1 DEF HasKey
      <4> QED BY <2>6, <3>1, <4>1 DEF k
    <3>2. CASE new[k] = Missing
      <4>1. Entries(id, ask) = <<HistoryRecord(id, "delete", old[k])>>
        BY <2>3, <2>4, <2>6, <3>2 DEF HasKey
      <4> QED BY <2>6, <3>2, <4>1 DEF k
    <3>3. CASE old[k] # Missing /\ new[k] # Missing
      <4>1. Entries(id, ask) = <<HistoryRecord(id, "update", new[k])>>
        BY <2>3, <2>4, <2>6, <3>3 DEF HasKey
      <4> QED BY <2>6, <3>3, <4>1 DEF k
    <3> QED BY <3>1, <3>2, <3>3
  <2> QED BY <2>5, <2>6
<1> QED BY <1>2, <1>3

LEMMA TellsStays ==
    ASSUME TypeInv, Keeps, NEW ask, NEW found, NEW tip, Settled(tip), NEW at \in 0..tip,
           Tells(found, ask, at, tip)
    PROVE  Tells(found, ask, at, tip)'
<1>0. tip \in Nat /\ MaxBlocks \in Nat
  BY SettledState, ChainAssumption
<1>1. \A b \in 0..tip : Row(b, ask)' = Row(b, ask)
  BY DEF Keeps, Row
<1>2. \A b \in BlockId : at < b /\ b <= tip => b \in 0..tip /\ b - 1 \in 0..tip
  BY <1>0 DEF BlockId
<1>3. Changes(ask, at, tip)' = Changes(ask, at, tip)
  BY <1>1, <1>2 DEF Changes
<1>4. ASSUME NEW i \in DOMAIN found
      PROVE  /\ Row(found[i].id, ask)' = Row(found[i].id, ask)
             /\ Row(found[i].id - 1, ask)' = Row(found[i].id - 1, ask)
  <2>1. found[i].id \in Changes(ask, at, tip)
    BY DEF Tells
  <2> QED BY <1>1, <1>2, <2>1 DEF Changes
<1> QED BY <1>3, <1>4 DEF Tells

LEMMA SettledBelow ==
    ASSUME TypeInv, NEW b, Settled(b), NEW c \in 0..b
    PROVE  Settled(c)
<1>1. created \in Nat /\ b \in Nat /\ b \in 0..created
  <2>1. created \in Nat
    BY ChainAssumption DEF TypeInv, TypeOK
  <2> QED BY <2>1, SettledState DEF Settled
<1>2. c \in 0..created /\ (b < created => c < created)
  BY <1>1
<1> QED BY <1>2 DEF Settled

LEMMA HistoryStays ==
    ASSUME TypeInv, Keeps, NEW me, HistoryOK(me)
    PROVE  HistoryOK(me)'
<1>1. CASE me.pc \notin {"trace", "recall", "told"} \/ (me.tip = Torn /\ me.at = Torn /\ me.pc # "told")
  BY <1>1 DEF HistoryOK
<1>2. ASSUME /\ Settled(me.tip) /\ me.at \in 0..me.tip
             /\ me.pc = "told" => ~Loadable(me.at) \/ me.at < me.ask.from
             /\ Tells(me.found, me.ask, me.at, me.tip)
      PROVE  HistoryOK(me)'
  <2>1. Settled(me.tip)' /\ Tells(me.found, me.ask, me.at, me.tip)'
    BY <1>2, TellsStays DEF Keeps
  <2>2. Settled(me.at)
    BY <1>2, SettledState, SettledBelow
  <2>3. ~Loadable(me.at) => ~Loadable(me.at)'
    BY <2>2 DEF Keeps
  <2> QED BY <1>2, <2>1, <2>3 DEF HistoryOK
<1> QED BY <1>1, <1>2 DEF HistoryOK

\* The walk has passed one more block: it is told of if it changed the record
\* within the window.
LEMMA TellsMore ==
    ASSUME TypeInv, NEW ask, NEW found \in Seq(Entry), NEW tip, Settled(tip),
           NEW at \in 0..tip, at \in BlockId, Tells(found, ask, at, tip), NEW more,
           IF ask.from <= at /\ at < ask.to /\ Row(at, ask) # Row(at - 1, ask)
           THEN \E operation : more = found \o <<HistoryRecord(at, operation,
                    IF Row(at, ask) = Missing THEN Row(at - 1, ask) ELSE Row(at, ask))>>
           ELSE more = found
    PROVE  Tells(more, ask, at - 1, tip)
<1> DEFINE changed == ask.from <= at /\ at < ask.to /\ Row(at, ask) # Row(at - 1, ask)
<1>1. tip \in Nat /\ at \in Nat /\ at <= tip /\ BlockId \subseteq Nat
  BY SettledState, ChainAssumption DEF BlockId
<1>2. \A b \in BlockId : at - 1 < b <=> at < b \/ b = at
  BY <1>1
<1>3. Changes(ask, at - 1, tip) = Changes(ask, at, tip) \cup IF changed THEN {at} ELSE {}
  BY <1>1, <1>2 DEF Changes
<1>4. CASE ~changed
  BY <1>3, <1>4 DEF Tells
<1>5. CASE changed
  <2> DEFINE value == IF Row(at, ask) = Missing THEN Row(at - 1, ask) ELSE Row(at, ask)
  <2>a. PICK operation : more = found \o <<HistoryRecord(at, operation, value)>>
    BY <1>5
  <2>b. PICK e : e = HistoryRecord(at, operation, value)
    OBVIOUS
  <2>1. more = found \o <<e>> /\ e.id = at /\ e.value = value
    BY <2>a, <2>b DEF HistoryRecord
  <2> DEFINE n == Len(found)
  <2>2. /\ n \in Nat /\ DOMAIN found = 1..n /\ DOMAIN more = 1..(n + 1)
        /\ \A i \in 1..n : more[i] = found[i]
        /\ more[n + 1] = e
    BY <2>1
  <2>3. \A i \in 1..n : found[i].id \in Changes(ask, at, tip)
    BY <2>2 DEF Tells
  <2>4. \A i \in 1..n : found[i].id > at
    BY <1>1, <2>3 DEF Changes
  <2>5. \A i \in 1..(n + 1) : i \in 1..n \/ i = n + 1
    BY <2>2
  <2> HIDE DEF n, changed
  <2>6. {more[i].id : i \in DOMAIN more} = Changes(ask, at - 1, tip)
    <3>1. {more[i].id : i \in 1..(n + 1)} = {found[i].id : i \in 1..n} \cup {at}
      <4>1. \A i \in 1..n : i \in 1..(n + 1)
        BY <2>2
      <4>2. n + 1 \in 1..(n + 1)
        BY <2>2
      <4> QED BY <2>1, <2>2, <2>5, <4>1, <4>2
    <3> QED BY <1>3, <1>5, <2>2, <3>1 DEF Tells
  <2>7. \A i, j \in DOMAIN more : i < j => more[i].id > more[j].id
    <3> SUFFICES ASSUME NEW i \in 1..(n + 1), NEW j \in 1..(n + 1), i < j
                 PROVE  more[i].id > more[j].id
      BY <2>2
    <3>1. i \in 1..n
      BY <2>2
    <3>2. CASE j \in 1..n
      BY <2>2, <3>1, <3>2 DEF Tells
    <3>3. CASE j = n + 1
      BY <2>1, <2>2, <2>4, <3>1, <3>3
    <3> QED BY <2>5, <3>2, <3>3
  <2>8. ASSUME NEW i \in DOMAIN more
        PROVE  LET b == more[i].id
               IN  more[i].value = IF Row(b, ask) = Missing THEN Row(b - 1, ask)
                                   ELSE Row(b, ask)
    <3>1. CASE i \in 1..n
      BY <2>2, <3>1 DEF Tells
    <3>2. CASE i = n + 1
      BY <2>1, <2>2, <3>2
    <3> QED BY <2>2, <2>5, <3>1, <3>2
  <2> QED BY <2>6, <2>7, <2>8 DEF Tells
<1> QED BY <1>4, <1>5

LEMMA HistoryBecomes ==
    ASSUME TypeInv, Keeps, HistoryInv, NEW p \in Process, NEW me, Become(p, me), HistoryOK(me)
    PROVE  HistoryInv'
<1>1. ASSUME NEW q \in Process PROVE HistoryOK(local[q])'
  <2>1. PICK any : any = local'[q]
    OBVIOUS
  <2>2. HistoryOK(any)
    BY <2>1 DEF Become, HistoryInv, TypeInv, TypeOK
  <2>3. HistoryOK(any)'
    BY <2>2, HistoryStays
  <2> QED BY <2>1, <2>3 DEF HistoryOK
<1> QED BY <1>1 DEF HistoryInv

LEMMA HistorySteps ==
    ASSUME OneCommitter, TypeInv, IInv, CommitInv, Keeps, HistoryInv,
           NEW p \in Process, History(p)
    PROVE  HistoryInv'
<1> DEFINE me == local[p]
<1>a. me \in Local /\ HistoryOK(me)
  BY DEF TypeInv, TypeOK, HistoryInv
<1>1. CASE HistoryStart(p)
  <2>1. PICK next : Become(p, next) /\ next.pc = "history"
    BY <1>1 DEF HistoryStart
  <2> QED BY <2>1, HistoryBecomes DEF HistoryOK
<1>2. CASE HistoryHead(p)
  <2>1. PICK next : next = [pc |-> "trace", ask |-> me.ask, tip |-> head, at |-> head,
                            found |-> <<>>]
    OBVIOUS
  <2>2. Become(p, next) /\ me.pc = "history"
    BY <1>2, <2>1 DEF HistoryHead
  <2>3. /\ next.pc = "trace" /\ next.ask = me.ask /\ next.tip = head /\ next.at = head
        /\ next.found = <<>>
    BY <2>1
  <2>4. ASSUME Settled(head) PROVE HistoryOK(next)
    <3>1. head \in Nat /\ head \in 0..head /\ BlockId \subseteq Nat
      BY <2>4, SettledState, ChainAssumption DEF BlockId
    <3>2. \A b \in BlockId : ~(head < b /\ b <= head)
      BY <3>1
    <3>3. Changes(me.ask, head, head) = {}
      BY <3>2 DEF Changes
    <3>4. Tells(<<>>, me.ask, head, head)
      BY <3>3 DEF Tells
    <3> QED BY <2>3, <2>4, <3>1, <3>4 DEF HistoryOK
  <2>5. ASSUME head = Torn PROVE HistoryOK(next)
    BY <2>3, <2>5 DEF HistoryOK
  <2> QED BY <2>2, <2>4, <2>5, HeadSettled, HistoryBecomes
<1>3. CASE HistoryWalk(p)
  <2>1. PICK next : next = [pc |-> IF EndOfChain(me.at) THEN "told" ELSE "recall",
                            ask |-> me.ask, tip |-> me.tip, at |-> me.at, found |-> me.found]
    OBVIOUS
  <2>2. Become(p, next) /\ me.pc = "trace"
    BY <1>3, <2>1 DEF HistoryWalk
  <2>3. /\ next.pc = IF EndOfChain(me.at) THEN "told" ELSE "recall"
        /\ next.ask = me.ask /\ next.tip = me.tip /\ next.at = me.at /\ next.found = me.found
    BY <2>1
  <2>4. CASE me.tip = Torn /\ me.at = Torn
    <3>1. Torn \notin Nat /\ Torn # Cut /\ BlockId \subseteq Nat
      BY ChainAssumption DEF BlockId
    <3>2. ~EndOfChain(me.at)
      <4>0. 0 \in Nat
        OBVIOUS
      <4>1. Torn # 0 /\ Torn \notin BlockId
        BY <3>1, <4>0, Zenon
      <4> QED BY <2>4, <3>1, <4>1 DEF EndOfChain, Genesis
    <3>3. next.pc = "recall"
      BY <2>3, <3>2
    <3>4. HistoryOK(next)
      BY <2>3, <2>4, <3>3 DEF HistoryOK
    <3> QED BY <2>2, <3>4, HistoryBecomes
  <2>5. CASE /\ Settled(me.tip) /\ me.at \in 0..me.tip
             /\ Tells(me.found, me.ask, me.at, me.tip)
    <3>1. EndOfChain(me.at) => ~Loadable(me.at)
      <4>1. Genesis \notin BlockId
        BY DEF Genesis, BlockId
      <4>2. Cut \notin BlockId
        BY ChainAssumption DEF BlockId
      <4> QED BY <4>1, <4>2 DEF EndOfChain, Loadable
    <3>2. next.pc = "told" => ~Loadable(next.at)
      BY <2>3, <3>1
    <3>3. HistoryOK(next)
      BY <2>3, <2>5, <3>2 DEF HistoryOK
    <3> QED BY <2>2, <3>3, HistoryBecomes
  <2> QED BY <1>a, <2>2, <2>4, <2>5 DEF HistoryOK
<1>4. CASE HistoryRead(p)
  <2>1. me.pc = "recall"
    BY <1>4 DEF HistoryRead
  <2>2. me.ask \in Ask /\ me.found \in Seq(Entry) /\ me.at \in Link
    BY <1>a, <2>1, LocalFields
  <2>3. CASE ~Loadable(me.at)
    <3>1. PICK next : Become(p, next) /\ next.pc = "failed"
      BY <1>4, <2>3 DEF HistoryRead, Failed
    <3> QED BY <3>1, HistoryBecomes DEF HistoryOK
  <2>4. CASE Loadable(me.at)
    <3>1. me.at \in BlockId /\ me.at \in Nat /\ me.at >= 1 /\ me.at # Torn
      <4>1. me.at \in BlockId
        BY <2>4 DEF Loadable
      <4>2. me.at \in Nat /\ me.at >= 1
        BY <4>1, ChainAssumption DEF BlockId
      <4> QED BY <4>1, <4>2, ChainAssumption
    <3>2. /\ Settled(me.tip) /\ me.at \in 0..me.tip
          /\ Tells(me.found, me.ask, me.at, me.tip)
      BY <1>a, <2>1, <3>1 DEF HistoryOK
    <3>3. CASE me.at < me.ask.from
      <4>1. PICK next : next = [pc |-> "told", ask |-> me.ask, tip |-> me.tip, at |-> me.at,
                                found |-> me.found]
        OBVIOUS
      <4>2. Become(p, next)
        BY <1>4, <2>4, <3>3, <4>1 DEF HistoryRead
      <4>3. HistoryOK(next)
        BY <3>2, <3>3, <4>1 DEF HistoryOK
      <4> QED BY <4>2, <4>3, HistoryBecomes
    <3>4. CASE ~(me.at < me.ask.from)
      <4> DEFINE more == IF me.at >= me.ask.to THEN me.found
                         ELSE me.found \o Entries(me.at, me.ask)
      <4>1. PICK next : next = [pc |-> "trace", ask |-> me.ask, tip |-> me.tip,
                                at |-> blocks[me.at].parent, found |-> more]
        OBVIOUS
      <4>2. Become(p, next)
        BY <1>4, <2>4, <3>4, <4>1 DEF HistoryRead
      <4>3. /\ next.pc = "trace" /\ next.ask = me.ask /\ next.tip = me.tip
            /\ next.at = blocks[me.at].parent /\ next.found = more
        BY <4>1
      <4>4. /\ blocks[me.at].parent = me.at - 1
            /\ \A t \in Table : Change(blocks[me.at].payload[t], stateAt[me.at - 1][t],
                                       stateAt[me.at][t])
        BY <2>4, <3>1 DEF CommitInv, BlocksTell
      <4>5. next.at = me.at - 1 /\ next.at \in 0..me.tip
        <5>1. me.tip \in Nat
          BY <3>2, SettledState
        <5> QED BY <3>1, <3>2, <4>3, <4>4, <5>1
      <4>6. me.ask.from \in Nat /\ me.ask.to \in Nat /\ me.ask.table \in Table
        BY <2>2, ChainAssumption DEF Ask
      <4>7. /\ stateAt[me.at - 1][me.ask.table] \in State
            /\ stateAt[me.at][me.ask.table] \in State
        BY <3>2, <4>3, <4>4, <4>5, <4>6, SettledState
      <4>8. Change(blocks[me.at].payload[me.ask.table], stateAt[me.at - 1][me.ask.table],
                   stateAt[me.at][me.ask.table])
        BY <4>4, <4>6
      <4>9. IF Row(me.at, me.ask) = Row(me.at - 1, me.ask) THEN Entries(me.at, me.ask) = <<>>
            ELSE \E operation : Entries(me.at, me.ask) =
                     <<HistoryRecord(me.at, operation,
                                     IF Row(me.at, me.ask) = Missing THEN Row(me.at - 1, me.ask)
                                     ELSE Row(me.at, me.ask))>>
        BY <2>2, <4>7, <4>8, EntriesTell DEF Row
      <4>10. IF /\ me.ask.from <= me.at /\ me.at < me.ask.to
                /\ Row(me.at, me.ask) # Row(me.at - 1, me.ask)
             THEN \E operation : more = me.found \o
                     <<HistoryRecord(me.at, operation,
                                     IF Row(me.at, me.ask) = Missing THEN Row(me.at - 1, me.ask)
                                     ELSE Row(me.at, me.ask))>>
             ELSE more = me.found
        <5>1. me.ask.from <= me.at /\ (me.at >= me.ask.to <=> ~(me.at < me.ask.to))
          BY <3>1, <3>4, <4>6
        <5>2. me.found \o <<>> = me.found
          BY <2>2
        <5>3. CASE me.at >= me.ask.to
          BY <5>1, <5>3
        <5>4. CASE ~(me.at >= me.ask.to) /\ Row(me.at, me.ask) = Row(me.at - 1, me.ask)
          BY <4>9, <5>2, <5>4
        <5>5. CASE ~(me.at >= me.ask.to) /\ Row(me.at, me.ask) # Row(me.at - 1, me.ask)
          BY <4>9, <5>1, <5>5
        <5> QED BY <5>3, <5>4, <5>5
      <4> HIDE DEF more
      <4>11. Tells(more, me.ask, me.at - 1, me.tip)
        BY <2>2, <3>1, <3>2, <4>10, TellsMore
      <4>12. HistoryOK(next)
        BY <3>2, <4>3, <4>5, <4>11 DEF HistoryOK
      <4> QED BY <4>2, <4>12, HistoryBecomes
    <3> QED BY <3>3, <3>4
  <2> QED BY <2>3, <2>4
<1> QED BY <1>1, <1>2, <1>3, <1>4 DEF History

\* A step of a command that tells no history.
NoHistory(p) == \E me : Become(p, me) /\ me.pc \notin {"trace", "recall", "told"}

LEMMA NoHistoryIntro ==
    \A p, me : Become(p, me) /\ me.pc \notin {"trace", "recall", "told"} => NoHistory(p)
BY DEF NoHistory

LEMMA HistoryInvStep ==
    ASSUME OneCommitter, TypeInv, IInv, CommitInv, HistoryInv, [Next]_vars
    PROVE  HistoryInv'
<1>1. Keeps
  BY CommitWritesNewest, SettledStays
<1>2. ASSUME NEW p \in Process, NEW me, Become(p, me),
             me.pc \notin {"trace", "recall", "told"}
      PROVE  HistoryInv'
  BY <1>1, <1>2, HistoryBecomes DEF HistoryOK
<1>3. ASSUME NEW p \in Process, Run(p) \/ InstanceLoadFails(p) \/ Interrupt(p)
      PROVE  HistoryInv'
  <2>1. CASE History(p)
    BY <1>1, <2>1, HistorySteps
  <2>2. CASE Commit(p) \/ Purge(p) \/ Finish(p) \/ InstanceLoadFails(p) \/ Interrupt(p)
    BY <1>2, <2>2, OthersQuiet DEF Quiet
  <2>3. CASE Diff(p) \/ Rebase(p)
    <3>1. NoHistory(p)
      <4>1. CASE DiffResolve(p) \/ DiffHead(p) \/ DiffEnd(p)
        BY <4>1, NoHistoryIntro DEF DiffResolve, DiffFrom, DiffHead, DiffEnd, Failed
      <4>2. CASE DiffMerge(p)
        BY <4>2, NoHistoryIntro DEF DiffMerge, Failed, Crashed
      <4>3. CASE Rebase(p)
        BY <4>3, NoHistoryIntro DEF Rebase, RebaseStart, RebaseLoad, RebaseHead, Failed
      <4> QED BY <2>3, <4>1, <4>2, <4>3 DEF Diff
    <3> QED BY <1>2, <3>1 DEF NoHistory
  <2> QED BY <1>3, <2>1, <2>2, <2>3 DEF Run
<1>4. CASE UNCHANGED local
  <2>1. ASSUME NEW p \in Process PROVE HistoryOK(local[p])'
    <3>1. PICK me : me = local[p]
      OBVIOUS
    <3>2. HistoryOK(me)'
      BY <1>1, <3>1, HistoryStays DEF HistoryInv
    <3>3. local'[p] = me
      BY <1>4, <3>1
    <3> QED BY <3>2, <3>3 DEF HistoryOK
  <2> QED BY <2>1 DEF HistoryInv
<1>5. UNCHANGED local \/ \E p \in Process : Run(p) \/ InstanceLoadFails(p) \/ Interrupt(p)
  BY DEF Next, AddTable, RemoveTable, vars
<1> QED BY <1>3, <1>4, <1>5

\* While one process at a time commits and no commit is cut short, a history tells
\* of the blocks that changed the record within the window and of no other, newest
\* first, each with its value, as far down as blocks are on disk.
THEOREM HistorySound ==
    ASSUME OneCommitter, CommitsEnd
    PROVE  Spec => []HistoryTold
<1>1. Init => HistoryInv
  BY DEF Init, HistoryInv, HistoryOK, Idle
<1>2. TypeInv /\ IInv /\ CommitInv /\ HistoryInv /\ [Next]_vars => HistoryInv'
  BY HistoryInvStep
<1>3. HistoryInv => HistoryTold
  <2> SUFFICES ASSUME HistoryInv, NEW p \in Process, local[p].pc = "told"
               PROVE  /\ ~Loadable(local[p].at) \/ local[p].at < local[p].ask.from
                      /\ Tells(local[p].found, local[p].ask, local[p].at, local[p].tip)
    BY DEF HistoryTold, Tells, Changes, Row
  <2> QED BY DEF HistoryInv, HistoryOK
<1> QED BY <1>1, <1>2, <1>3, CommitInvHolds, PTL DEF Spec

-----------------------------------------------------------------------------
(* A diff that comes to its end.  While no table is added to leech.json,   *)
(* and one process at a time commits, a block has no table that an older   *)
(* block lacks: whatever faults the commits meet, a merge finds the        *)
(* parent's delta for each delta of the child.                             *)

NoNewTables == Addable = {}

Holds(b) == Tables(blocks[b].payload)

\* The tables that a commit's block will hold, or does.
Lists(me) ==
    Tables(me.payload)
    \cup IF me.pc \in {"load", "open snapshot", "write snapshot"} THEN me.todo ELSE {}

\* A commit's block will have the tables that are configured, and no other than
\* all older blocks have.
ListsOK(me) ==
    /\ config \subseteq Lists(me) /\ Lists(me) \subseteq InitialTables
    /\ \A c \in BlockId : Loadable(c) => Lists(me) \subseteq Holds(c)

TablesOK(me) ==
    /\ me.pc \in CommittingPc \cup {"write block"} => ListsOK(me)
    /\ me.pc = "write block" => me.id = created /\ ~Loadable(created) /\ head # created
    /\ me.pc = "merge" =>
         \/ me.at \in {Torn, Cut}
         \/ /\ Settled(me.at)
            /\ \A c \in BlockId : Loadable(c) /\ c <= me.at => Tables(me.child) \subseteq Holds(c)
    /\ me.pc # "crashed"

BlocksHold ==
    /\ config \subseteq InitialTables
    /\ \A b \in BlockId : Loadable(b) => config \subseteq Holds(b) /\ Holds(b) \subseteq InitialTables
    /\ \A b, c \in BlockId : Loadable(b) /\ Loadable(c) /\ c < b => Holds(b) \subseteq Holds(c)

TablesInv ==
    /\ BlocksHold
    /\ \A p \in Process : local[p].pc \in CommitPc => p \in Committers
    /\ \A p \in Process : TablesOK(local[p])

LEMMA TablesWriteNewest == TablesInv => WritesNewest
BY DEF TablesInv, TablesOK, WritesNewest

LEMMA TablesInvInit == Init => TablesInv
<1> SUFFICES ASSUME Init PROVE TablesInv
  OBVIOUS
<1>1. \A p \in Process : local[p] = Idle
  BY DEF Init
<1>2. Idle.pc = "idle"
  BY DEF Idle
<1>3. \A p \in Process : TablesOK(local[p])
  BY <1>1, <1>2 DEF TablesOK, CommittingPc
<1>4. BlocksHold
  BY DEF Init, BlocksHold, Loadable
<1> QED BY <1>1, <1>2, <1>3, <1>4 DEF TablesInv, CommitPc

\* Blocks at most go away.
Fewer == \A b \in BlockId : Loadable(b)' => Loadable(b) /\ blocks'[b] = blocks[b]

LEMMA BlocksHoldStays ==
    ASSUME BlocksHold, Fewer, config' \subseteq config
    PROVE  BlocksHold'
<1>1. \A b \in BlockId : Loadable(b)' => Loadable(b) /\ Holds(b)' = Holds(b)
  BY DEF Fewer, Holds, Tables
<1> QED BY <1>1 DEF BlocksHold

\* A step that leaves HEAD alone and makes no block leaves each command as it was.
LEMMA TablesStay ==
    ASSUME TypeInv, Keeps, NEW me, TablesOK(me), Fewer, config' \subseteq config,
           UNCHANGED <<head, created>>
    PROVE  TablesOK(me)'
<1>1. \A b \in BlockId : Loadable(b)' => Loadable(b) /\ Holds(b)' = Holds(b)
  BY DEF Fewer, Holds, Tables
<1>2. ListsOK(me) => ListsOK(me)'
  BY <1>1 DEF ListsOK, Lists, Tables
<1>3. ~Loadable(created) => ~Loadable(created)'
  BY DEF Fewer, Loadable
<1>4. ASSUME me.pc = "merge", Settled(me.at)
      PROVE  /\ Settled(me.at)'
             /\ \A c \in BlockId : Loadable(c)' /\ c <= me.at => Tables(me.child) \subseteq Holds(c)'
  <2>1. me.at \notin {Torn, Cut}
    <3>1. me.at \in Nat
      BY <1>4, SettledState
    <3> QED BY <3>1, ChainAssumption
  <2> QED BY <1>1, <1>4, <2>1 DEF TablesOK, Keeps
<1> QED BY <1>2, <1>3, <1>4 DEF TablesOK

\* Whatever happens elsewhere, a command that is not committing is left as it was.
LEMMA TablesOther ==
    ASSUME TypeInv, Keeps, NEW me, TablesOK(me), me.pc \notin CommitPc
    PROVE  TablesOK(me)'
<1>1. me.pc \notin CommittingPc \cup {"write block"}
  BY DEF CommitPc, CommittingPc
<1>2. ASSUME me.pc = "merge", Settled(me.at)
      PROVE  /\ Settled(me.at)'
             /\ \A c \in BlockId : Loadable(c)' /\ c <= me.at => Tables(me.child) \subseteq Holds(c)'
  <2>1. me.at \notin {Torn, Cut} /\ me.at \in Nat
    <3>1. me.at \in Nat
      BY <1>2, SettledState
    <3> QED BY <3>1, ChainAssumption
  <2>2. ASSUME NEW c \in BlockId, Loadable(c)', c <= me.at
        PROVE  Tables(me.child) \subseteq Holds(c)'
    <3>1. c \in 0..me.at
      BY <2>1, <2>2, ChainAssumption DEF BlockId
    <3>2. Loadable(c) /\ blocks'[c] = blocks[c]
      BY <1>2, <2>2, <3>1, SettledBelow DEF Keeps
    <3> QED BY <1>2, <2>1, <2>2, <3>2 DEF TablesOK, Holds, Tables
  <2> QED BY <1>2, <2>2 DEF Keeps
<1> QED BY <1>1, <1>2 DEF TablesOK

LEMMA HeadNumbered ==
    ASSUME TypeInv, IInv, TablesInv
    PROVE  head \in {Torn, Cut} \/ Settled(head)
<1>1. head \in LinkUpTo(created) /\ created \in Nat
  BY ChainAssumption DEF IInv, Linked, TypeInv, TypeOK
<1>2. \A p \in Process : local[p].pc = "write block" => head # created
  BY DEF TablesInv, TablesOK
<1>3. CASE head \in 0..created
  <2>1. head # created => head < created
    BY <1>1, <1>3
  <2> QED BY <1>2, <1>3, <2>1 DEF Settled
<1> QED BY <1>1, <1>3 DEF LinkUpTo

\* A step of the command in slot p: the others are left as they were.
LEMMA TablesBecome ==
    ASSUME TypeInv, TablesInv, Keeps, BlocksHold', NEW p \in Process,
           NEW me, Become(p, me), TablesOK(me)', me.pc \in CommitPc => p \in Committers,
           \/ \A q \in Process : q # p => local[q].pc \notin CommitPc
           \/ Fewer /\ config' \subseteq config /\ UNCHANGED <<head, created>>
    PROVE  TablesInv'
<1>1. local' = [q \in Process |-> IF q = p THEN me ELSE local[q]]
  BY DEF Become, TypeInv, TypeOK
<1>2. ASSUME NEW q \in Process
      PROVE  TablesOK(local[q])' /\ (local'[q].pc \in CommitPc => q \in Committers)
  <2>1. PICK any : any = local'[q]
    OBVIOUS
  <2>2. TablesOK(any)' /\ (any.pc \in CommitPc => q \in Committers)
    <3>1. CASE q = p
      BY <1>1, <2>1, <3>1
    <3>2. CASE q # p
      <4>1. any = local[q]
        BY <1>1, <2>1, <3>2
      <4>2. TablesOK(any) /\ (any.pc \in CommitPc => q \in Committers)
        BY <4>1 DEF TablesInv
      <4> QED BY <3>2, <4>1, <4>2, TablesStay, TablesOther
    <3> QED BY <3>1, <3>2
  <2> QED BY <2>1, <2>2 DEF TablesOK, ListsOK
<1> QED BY <1>2 DEF TablesInv

LEMMA TablesCommits ==
    ASSUME OneCommitter, TypeInv, IInv, TablesInv, Keeps, NEW p \in Process, Commit(p)
    PROVE  TablesInv'
<1>0. PICK me : me = local[p]
  OBVIOUS
<1> USE <1>0
<1>a. p \in Committers
  <2> USE DEF CommitPc
  <2> QED BY DEF Commit, CommitStart, CommitLoad, CommitLoadFails, SnapshotOpen, SnapshotWrite,
                 CommitHead, BlockOpen, BlockWrite, HeadOpen, HeadWrite, WriteFails, WriteShort, TablesInv
<1>b. \A q \in Process : q # p => local[q].pc \notin CommitPc
  BY <1>a DEF TablesInv, OneCommitter
<1>c. /\ me \in Local /\ TablesOK(me) /\ BlocksHold
      /\ blocks \in [BlockId -> CommitBlock \cup {None, Torn, Spoiled}]
      /\ snapshot \in [Table -> State \cup {Torn}]
      /\ created \in Nat
      /\ \A b \in BlockId : b \in Nat /\ (blocks[b] # None => b <= created)
  <2>1. created \in Nat /\ \A b \in BlockId : b \in Nat
    BY ChainAssumption DEF TypeInv, TypeOK, BlockId
  <2>2. \A b \in BlockId : blocks[b] # None => b <= created
    BY DEF IInv, Linked
  <2> QED BY <2>1, <2>2 DEF TypeInv, TypeOK, TablesInv
<1>d. UNCHANGED <<config, blocks>> => Fewer /\ BlocksHold'
  BY <1>c, BlocksHoldStays DEF Fewer, Loadable
\* A step within the commit that leaves files and lists alone.
<1>e. ASSUME UNCHANGED <<config, blocks, head, created>>,
             me.pc \in CommittingPc, NEW next, Become(p, next),
             \/ next.pc \in CommittingPc /\ Lists(next) = Lists(me)
             \/ next.pc \in {"failed", "open head", "write head"}
      PROVE  TablesInv'
  <2>1. ListsOK(me)'
    BY <1>c, <1>e DEF TablesOK, ListsOK, Lists, Holds, Loadable
  <2>2. TablesOK(next)'
    BY <1>e, <2>1 DEF TablesOK, ListsOK, CommittingPc
  <2>3. next.pc \in CommitPc => p \in Committers
    BY <1>a
  <2> QED BY <1>b, <1>d, <1>e, <2>2, <2>3, TablesBecome
<1>1. CASE CommitStart(p)
  <2>a. PICK next : next = [pc |-> "load", todo |-> config, payload |-> NoDeltas,
                            seen |-> [t \in Table |-> EmptyObject]]
    OBVIOUS
  <2>1. /\ Become(p, next) /\ next.pc = "load" /\ next.payload = NoDeltas
        /\ next.todo = config /\ UNCHANGED <<config, blocks, head, created>>
    BY <2>a, <1>1 DEF CommitStart, files
  <2>2. Lists(next) = config
    BY <2>1 DEF Lists, NoDeltas, Tables
  <2>3. ListsOK(next)
    BY <1>c, <2>2 DEF BlocksHold, ListsOK
  <2>4. TablesOK(next)'
    BY <2>1, <2>3 DEF TablesOK, ListsOK, Lists, Holds, Loadable
  <2> QED BY <1>a, <1>b, <1>d, <2>1, <2>4, TablesBecome
<1>2. CASE CommitLoad(p)
  <2>1. PICK t \in me.todo, new \in State :
            IF snapshot[t] = Torn
            THEN Become(p, Failed("commit"))
            ELSE LET delta == DeltaCreate("delta", new, snapshot[t])
                     seen  == [me.seen EXCEPT ![t] = new]
                     load  == [me.payload EXCEPT ![t] = delta]
                     todo  == me.todo \ {t}
                 IN  IF HasOperations(delta)
                     THEN Become(p, [pc |-> "open snapshot", table |-> t,
                                     todo |-> todo, payload |-> load, seen |-> seen])
                     ELSE Become(p, [pc |-> "load", todo |-> todo,
                                     payload |-> load, seen |-> seen])
    BY <1>2 DEF CommitLoad
  <2>2. me.pc = "load" /\ UNCHANGED <<config, blocks, head, created>>
    BY <1>2 DEF CommitLoad, files
  <2>3. me.pc \in CommittingPc
    BY <2>2 DEF CommittingPc
  <2>4. CASE snapshot[t] = Torn
    <3>1. Become(p, Failed("commit")) /\ Failed("commit").pc = "failed"
      BY <2>1, <2>4 DEF Failed
    <3> QED BY <1>e, <2>2, <2>3, <3>1
  <2>5. CASE snapshot[t] # Torn
    <3> DEFINE delta == DeltaCreate("delta", new, snapshot[t])
               seen  == [me.seen EXCEPT ![t] = new]
               load  == [me.payload EXCEPT ![t] = delta]
               todo  == me.todo \ {t}
    <3>1. me.payload \in Payload /\ me.todo \subseteq Table /\ t \in Table
      BY <1>c, <2>2, LocalFields
    <3>2. delta # None
      <4>1. snapshot[t] \in State
        BY <1>c, <2>5, <3>1
      <4>2. delta \in Delta
        BY <4>1, DeltaCreateNetEffect DEF DeltaType
      <4> QED BY <4>2, ChainAssumption
    <3>a. PICK next : next = IF HasOperations(delta)
                             THEN [pc |-> "open snapshot", table |-> t, todo |-> todo,
                                   payload |-> load, seen |-> seen]
                             ELSE [pc |-> "load", todo |-> todo, payload |-> load, seen |-> seen]
      OBVIOUS
    <3>3. Become(p, next)
      BY <2>1, <2>5, <3>a
    <3> HIDE DEF delta, load, seen, todo
    <3>4. next.pc \in {"load", "open snapshot"} /\ next.todo = todo /\ next.payload = load
      BY <3>a
    <3>5. Tables(load) = Tables(me.payload) \cup {t}
      BY <3>1, <3>2 DEF load, Tables, Payload
    <3>6. Lists(next) = Lists(me)
      BY <2>2, <3>4, <3>5 DEF Lists, todo
    <3>7. next.pc \in CommittingPc
      BY <3>4 DEF CommittingPc
    <3> QED BY <1>e, <2>2, <2>3, <3>3, <3>6, <3>7
  <2> QED BY <2>4, <2>5
<1>3. CASE CommitLoadFails(p)
  <2>1. /\ me.pc = "load" /\ Become(p, Failed("commit")) /\ Failed("commit").pc = "failed"
        /\ UNCHANGED <<config, blocks, head, created>>
    BY <1>3 DEF CommitLoadFails, Failed, files
  <2> QED BY <1>e, <2>1 DEF CommittingPc
<1>4. CASE SnapshotOpen(p) \/ SnapshotWrite(p)
  <2>a. PICK wrote : wrote = [pc |-> "write snapshot", table |-> me.table, todo |-> me.todo,
                              payload |-> me.payload, seen |-> me.seen]
    OBVIOUS
  <2>b. PICK loads : loads = [pc |-> "load", todo |-> me.todo, payload |-> me.payload,
                              seen |-> me.seen]
    OBVIOUS
  <2>1. Become(p, wrote) \/ Become(p, loads)
    BY <1>4, <2>a, <2>b DEF SnapshotOpen, SnapshotWrite
  <2>2. /\ me.pc \in {"open snapshot", "write snapshot"}
        /\ UNCHANGED <<config, blocks, head, created>>
    BY <1>4 DEF SnapshotOpen, SnapshotWrite
  <2>3. ASSUME NEW next \in {wrote, loads}
        PROVE  next.pc \in {"load", "write snapshot"} /\ Lists(next) = Lists(me)
    <3>1. wrote.pc = "write snapshot" /\ wrote.todo = me.todo /\ wrote.payload = me.payload
      BY <2>a
    <3>2. loads.pc = "load" /\ loads.todo = me.todo /\ loads.payload = me.payload
      BY <2>b
    <3> QED BY <2>2, <2>3, <3>1, <3>2 DEF Lists
  <2> QED BY <1>e, <2>1, <2>2, <2>3 DEF CommittingPc
<1>5. CASE CommitHead(p)
  <2>a. PICK next : next = [pc |-> "open block", parent |-> head, payload |-> me.payload,
                            seen |-> me.seen]
    OBVIOUS
  <2>1. /\ Become(p, next) /\ next.pc = "open block" /\ next.payload = me.payload
    BY <2>a, <1>5 DEF CommitHead
  <2>2. me.pc = "load" /\ me.todo = {} /\ UNCHANGED <<config, blocks, head, created>>
    BY <1>5 DEF CommitHead, files
  <2>3. Lists(next) = Lists(me)
    BY <2>1, <2>2 DEF Lists
  <2> QED BY <1>e, <2>1, <2>2, <2>3 DEF CommittingPc
<1>6. CASE BlockOpen(p)
  <2>a. PICK next : next = [pc |-> "write block", id |-> created + 1, parent |-> me.parent,
                            payload |-> me.payload, seen |-> me.seen]
    OBVIOUS
  <2>1. /\ Become(p, next) /\ next.pc = "write block" /\ next.id = created + 1
        /\ next.payload = me.payload
    BY <2>a, <1>6 DEF BlockOpen
  <2>2. /\ me.pc = "open block" /\ created' = created + 1
        /\ blocks' = [blocks EXCEPT ![created + 1] = Torn]
        /\ UNCHANGED <<config, head>>
    BY <1>6 DEF BlockOpen
  <2>3. Fewer /\ ~Loadable(created)'
    BY <1>c, <2>2 DEF Fewer, Loadable
  <2>4. head' # created'
    <3>1. head \in LinkUpTo(created) /\ created + 1 \in Nat /\ created + 1 \notin 0..created
      BY <1>c DEF IInv, Linked
    <3> QED BY <2>2, <3>1, ChainAssumption DEF LinkUpTo
  <2>5. ListsOK(me)'
    <3>1. ListsOK(me)
      BY <1>c, <2>2 DEF TablesOK, CommittingPc
    <3> QED BY <2>2, <2>3, <3>1 DEF ListsOK, Lists, Fewer, Holds
  <2>6. Lists(next) = Lists(me)
    BY <2>1, <2>2 DEF Lists
  <2>7. TablesOK(next)'
    BY <2>1, <2>2, <2>3, <2>4, <2>5, <2>6 DEF TablesOK, ListsOK
  <2>8. BlocksHold'
    BY <1>c, <2>2, <2>3, BlocksHoldStays
  <2> QED BY <1>a, <1>b, <2>1, <2>7, <2>8, TablesBecome
<1>7. CASE BlockWrite(p)
  <2> DEFINE stored == [parent |-> me.parent, payload |-> me.payload]
  <2>1. /\ me.pc = "write block" /\ Become(p, [pc |-> "open head", id |-> me.id])
        /\ blocks' = [blocks EXCEPT ![me.id] = IF @ = None THEN None ELSE stored]
        /\ UNCHANGED <<config, head, created>>
    BY <1>7 DEF BlockWrite
  <2>a. PICK next : next = [pc |-> "open head", id |-> me.id]
    OBVIOUS
  <2>2. Become(p, next) /\ next.pc = "open head"
    BY <2>1, <2>a
  <2>3. /\ me.id = created /\ ~Loadable(created) /\ ListsOK(me)
        /\ me.id \in BlockId /\ stored.payload = me.payload
    BY <1>c, <2>1, LocalFields DEF TablesOK
  <2>4. Lists(me) = Tables(me.payload)
    BY <2>1 DEF Lists
  <2> HIDE DEF stored
  <2>5. \A b \in BlockId : Loadable(b)' =>
            IF b = created THEN Holds(b)' = Lists(me) ELSE Loadable(b) /\ Holds(b)' = Holds(b)
    BY <1>c, <2>1, <2>3, <2>4 DEF Loadable, Holds, Tables
  <2>6. BlocksHold'
    <3>1. ASSUME NEW b \in BlockId, Loadable(b)'
          PROVE  config' \subseteq Holds(b)' /\ Holds(b)' \subseteq InitialTables
      <4>1. CASE b = created
        BY <2>1, <2>3, <2>5, <3>1, <4>1 DEF ListsOK
      <4>2. CASE b # created
        BY <1>c, <2>1, <2>5, <3>1, <4>2 DEF BlocksHold
      <4> QED BY <4>1, <4>2
    <3>2. ASSUME NEW b \in BlockId, NEW c \in BlockId, Loadable(b)', Loadable(c)', c < b
          PROVE  Holds(b)' \subseteq Holds(c)'
      <4>1. CASE b = created
        <5>1. c # created
          BY <1>c, <3>2, <4>1
        <5> QED BY <2>3, <2>5, <3>2, <4>1, <5>1 DEF ListsOK
      <4>2. CASE b # created
        <5>1. b <= created
          BY <1>c, <2>5, <3>2, <4>2 DEF Loadable
        <5>2. c # created
          BY <1>c, <3>2, <4>2, <5>1
        <5> QED BY <1>c, <2>5, <3>2, <4>2, <5>2 DEF BlocksHold
      <4> QED BY <4>1, <4>2
    <3> QED BY <1>c, <2>1, <3>1, <3>2 DEF BlocksHold
  <2>7. TablesOK(next)'
    BY <2>2 DEF TablesOK, CommittingPc
  <2> QED BY <1>a, <1>b, <2>2, <2>6, <2>7, TablesBecome
<1>8. CASE HeadOpen(p) \/ HeadWrite(p) \/ WriteFails(p)
  <2>a. PICK heads : heads = [pc |-> "write head", id |-> me.id]
    OBVIOUS
  <2>b. PICK purges : purges = [pc |-> "purge"]
    OBVIOUS
  <2>1. \/ Become(p, heads) \/ Become(p, purges)
        \/ Become(p, Idle) \/ Become(p, Failed("commit"))
    BY <1>8, <2>a, <2>b DEF HeadOpen, HeadWrite, WriteFails
  <2>2. UNCHANGED <<config, blocks>>
    BY <1>8 DEF HeadOpen, HeadWrite, WriteFails
  <2>3. ASSUME NEW next \in {heads, purges, Idle, Failed("commit")}
        PROVE  TablesOK(next)'
    <3>1. heads.pc = "write head" /\ purges.pc = "purge"
      BY <2>a, <2>b
    <3>2. Idle.pc = "idle" /\ Failed("commit").pc = "failed"
      BY DEF Idle, Failed
    <3>3. next.pc \in {"write head", "purge", "idle", "failed"}
      BY <2>3, <3>1, <3>2
    <3> QED BY <3>3 DEF TablesOK, CommittingPc
  <2> QED BY <1>a, <1>b, <1>d, <2>1, <2>2, <2>3, TablesBecome
<1>9. CASE WriteShort(p)
  <2>0. me.pc \in {"write snapshot", "write block", "write head"}
        /\ UNCHANGED <<config, created>>
    BY <1>9 DEF WriteShort
  <2>1. CASE me.pc = "write snapshot"
    <3>a. PICK next : next = [pc |-> "load", todo |-> me.todo,
                              payload |-> me.payload, seen |-> me.seen]
      OBVIOUS
    <3>1. /\ Become(p, next) /\ next.pc = "load" /\ UNCHANGED <<blocks, head>>
          /\ next.payload = me.payload /\ next.todo = me.todo
      BY <1>9, <2>1, <3>a DEF WriteShort
    <3>2. Lists(next) = Lists(me)
      BY <2>1, <3>1 DEF Lists
    <3> QED BY <1>e, <2>0, <2>1, <3>1, <3>2 DEF CommittingPc
  <2>2. CASE me.pc = "write block"
    <3>a. PICK next : next = [pc |-> "open head", id |-> me.id]
      OBVIOUS
    <3>1. /\ Become(p, next) /\ next.pc = "open head"
          /\ blocks' = [blocks EXCEPT ![me.id] = IF @ = None THEN None ELSE Spoiled]
      BY <1>9, <2>2, <3>a DEF WriteShort
    <3>2. me.id = created /\ ~Loadable(created) /\ me.id \in BlockId
      BY <1>c, <2>2, LocalFields DEF TablesOK
    <3>3. Fewer
      BY <1>c, <3>1, <3>2 DEF Fewer, Loadable
    <3>4. BlocksHold'
      BY <1>c, <2>0, <3>3, BlocksHoldStays
    <3>5. TablesOK(next)'
      BY <3>1 DEF TablesOK, CommittingPc
    <3> QED BY <1>a, <1>b, <3>1, <3>4, <3>5, TablesBecome
  <2>3. CASE me.pc = "write head"
    <3>b. PICK purges : purges = [pc |-> "purge"]
      OBVIOUS
    <3>1. /\ Become(p, purges) \/ Become(p, Idle)
          /\ UNCHANGED blocks
      BY <1>9, <2>3, <3>b DEF WriteShort
    <3>2. purges.pc = "purge" /\ Idle.pc = "idle"
      BY <3>b DEF Idle
    <3>3. TablesOK(purges)' /\ TablesOK(Idle)'
      BY <3>2 DEF TablesOK, CommittingPc
    <3> QED BY <1>a, <1>b, <1>d, <2>0, <3>1, <3>3, TablesBecome
  <2> QED BY <2>0, <2>1, <2>2, <2>3
<1> QED BY <1>1, <1>2, <1>3, <1>4, <1>5, <1>6, <1>7, <1>8, <1>9 DEF Commit

LEMMA TablesDiffs ==
    ASSUME OneCommitter, TypeInv, IInv, TablesInv, Keeps, NEW p \in Process, Diff(p)
    PROVE  TablesInv'
<1>0. PICK me : me = local[p]
  OBVIOUS
<1> USE <1>0
<1>a. UNCHANGED <<config, blocks, head, created>>
  BY ReadKeepsFiles DEF files
<1>b. Fewer /\ BlocksHold'
  BY <1>a, BlocksHoldStays DEF Fewer, Loadable, TablesInv
<1>c. ASSUME NEW next, Become(p, next), TablesOK(next), next.pc \notin CommitPc
      PROVE  TablesInv'
  <2>1. TablesOK(next)'
    BY <1>a, <1>b, <1>c, TablesStay
  <2> QED BY <1>a, <1>b, <1>c, <2>1, TablesBecome
<1>d. ASSUME NEW next, Become(p, next),
             next.pc \notin CommitPc \cup CommittingPc \cup {"merge", "crashed"}
      PROVE  TablesInv'
  BY <1>c, <1>d DEF TablesOK, CommitPc
<1>1. CASE DiffResolve(p)
  <2>1. PICK goal : Become(p, IF goal = Genesis \/ (goal \in BlockId /\ blocks[goal] # None)
                              THEN [pc |-> "diff", goal |-> goal] ELSE Failed("diff"))
    BY <1>1 DEF DiffResolve, DiffFrom
  <2>a. PICK next : next = IF goal = Genesis \/ (goal \in BlockId /\ blocks[goal] # None)
                           THEN [pc |-> "diff", goal |-> goal] ELSE Failed("diff")
    OBVIOUS
  <2>2. Become(p, next) /\ next.pc \in {"diff", "failed"}
    BY <2>1, <2>a DEF Failed
  <2> QED BY <1>d, <2>2 DEF CommitPc, CommittingPc
<1>2. CASE DiffHead(p)
  <2>a. PICK next : next = [pc |-> "merge", goal |-> me.goal, tables |-> config,
                            tip |-> head, at |-> head, child |-> NoDeltas, kept |-> <<>>]
    OBVIOUS
  <2>1. Become(p, next)
    BY <1>2, <2>a DEF DiffHead
  <2>2. next.pc = "merge" /\ next.at = head /\ next.child = NoDeltas
    BY <2>a
  <2>3. Tables(next.child) = {}
    BY <2>2 DEF Tables, NoDeltas
  <2>4. TablesOK(next)
    BY <2>2, <2>3, HeadNumbered DEF TablesOK, CommittingPc
  <2> QED BY <1>c, <2>1, <2>2, <2>4 DEF CommitPc
<1>3. CASE DiffMerge(p)
  <2> DEFINE parent == blocks[me.at].payload
             rest   == Unmerged(me.child)
             orphan == Tables(me.child) \ Tables(parent)
  <2>1. me.pc = "merge" /\ TablesOK(me)
    BY <1>3 DEF DiffMerge, TablesInv
  <2>2. CASE Become(p, Failed("diff"))
    <3>1. Failed("diff").pc = "failed"
      BY DEF Failed
    <3> QED BY <1>d, <2>2, <3>1 DEF CommitPc, CommittingPc
  <2>3. CASE Loadable(me.at)
    <3>1. me.at \in BlockId /\ me.at \in Nat /\ Settled(me.at)
          /\ \A c \in BlockId : Loadable(c) /\ c <= me.at => Tables(me.child) \subseteq Holds(c)
      <4>1. me.at \in BlockId /\ me.at \in Nat
        BY <2>3, ChainAssumption DEF Loadable, BlockId
      <4>2. me.at \notin {Torn, Cut}
        BY <4>1, ChainAssumption
      <4> QED BY <2>1, <4>1, <4>2 DEF TablesOK
    <3>2. Tables(me.child) \subseteq Tables(parent)
      <4>1. me.at <= me.at
        BY <3>1
      <4> QED BY <2>3, <3>1, <4>1 DEF Holds
    <3>a. PICK next : next = [pc |-> "merge", goal |-> me.goal, tables |-> me.tables,
                              tip |-> me.tip, at |-> blocks[me.at].parent,
                              child |-> Merged(parent, me.child),
                              kept |-> IF rest = NoDeltas THEN me.kept
                                       ELSE Append(me.kept, rest)]
      OBVIOUS
    <3>3. Become(p, Failed("diff")) \/ Become(p, next)
      BY <1>3, <2>3, <3>2, <3>a DEF DiffMerge
    <3>4. /\ next.pc = "merge" /\ next.at = blocks[me.at].parent
          /\ next.child = Merged(parent, me.child)
      BY <3>a
    <3>5. Tables(next.child) \subseteq Tables(parent)
      BY <3>2, <3>4 DEF Merged, Tables
    <3>6. next.at \in {Torn, Cut} \/ next.at \in 0..(me.at - 1)
      BY <2>3, <3>1, <3>4 DEF IInv, ChainPointsBack
    <3>7. ASSUME next.at \in 0..(me.at - 1)
          PROVE  /\ Settled(next.at)
                 /\ \A c \in BlockId : Loadable(c) /\ c <= next.at
                                         => Tables(next.child) \subseteq Holds(c)
      <4>1. next.at \in 0..me.at /\ \A c \in BlockId : c <= next.at => c < me.at
        <5>1. \A c \in BlockId : c \in Nat
          BY ChainAssumption DEF BlockId
        <5> QED BY <3>1, <3>7, <5>1
      <4>2. Settled(next.at)
        BY <3>1, <4>1, SettledBelow
      <4> QED BY <2>3, <3>1, <3>5, <4>1, <4>2 DEF TablesInv, BlocksHold, Holds
    <3>8. TablesOK(next)
      BY <3>4, <3>6, <3>7 DEF TablesOK, CommittingPc
    <3> QED BY <1>c, <2>2, <3>3, <3>4, <3>8 DEF CommitPc
  <2>4. ~Loadable(me.at) => Become(p, Failed("diff"))
    BY <1>3 DEF DiffMerge
  <2> QED BY <2>2, <2>3, <2>4
<1>4. CASE DiffEnd(p)
  <2>a. PICK next : next = [pc |-> "patched", op |-> "diff", goal |-> me.goal, tip |-> me.tip,
                            patch |-> Reverse(Append(me.kept, me.child))]
    OBVIOUS
  <2>1. Become(p, next) /\ next.pc = "patched"
    BY <1>4, <2>a DEF DiffEnd
  <2> QED BY <1>d, <2>1 DEF CommitPc, CommittingPc
<1> QED BY <1>1, <1>2, <1>3, <1>4 DEF Diff

\* A command goes on that neither commits nor diffs.
Aside(p) == \E me : Become(p, me) /\ me.pc \notin CommitPc \cup {"merge", "crashed"}

LEMMA AsideIntro ==
    \A p, me : Become(p, me) /\ me.pc \notin CommitPc \cup {"merge", "crashed"} => Aside(p)
BY DEF Aside

LEMMA OthersAside ==
    ASSUME NEW p \in Process,
           Purge(p) \/ Rebase(p) \/ History(p) \/ Finish(p) \/ InstanceLoadFails(p) \/ Interrupt(p)
    PROVE  Aside(p)
<1> USE DEF CommitPc
<1>1. CASE Purge(p)
  BY <1>1, AsideIntro
     DEF Purge, PurgeStart, PurgeHead, PurgeWalk, PurgeRead, PurgeList, PurgeDelete, PurgeEnd,
         Failed, Idle
<1>2. CASE Rebase(p)
  BY <1>2, AsideIntro DEF Rebase, RebaseStart, RebaseLoad, RebaseHead, Failed
<1>3. CASE History(p)
  <2>1. CASE HistoryStart(p) \/ HistoryHead(p)
    BY <2>1, AsideIntro DEF HistoryStart, HistoryHead
  <2>2. CASE HistoryWalk(p)
    BY <2>2, AsideIntro DEF HistoryWalk
  <2>3. CASE HistoryRead(p)
    BY <2>3, AsideIntro DEF HistoryRead, Failed
  <2> QED BY <1>3, <2>1, <2>2, <2>3 DEF History
<1>4. CASE Finish(p) \/ InstanceLoadFails(p) \/ Interrupt(p)
  BY <1>4, AsideIntro DEF Finish, InstanceLoadFails, Interrupt, Idle, Failed
<1> QED BY <1>1, <1>2, <1>3, <1>4

LEMMA TablesInvStep ==
    ASSUME OneCommitter, NoNewTables, TypeInv, IInv, TablesInv, [Next]_vars
    PROVE  TablesInv'
<1>1. Keeps
  BY TablesWriteNewest, SettledStays
<1>2. ASSUME NEW p \in Process,
             Purge(p) \/ Rebase(p) \/ History(p) \/ Finish(p) \/ InstanceLoadFails(p) \/ Interrupt(p)
      PROVE  TablesInv'
  <2>1. /\ UNCHANGED <<config, head, created>>
        /\ \A b \in BlockId : blocks'[b] \in {blocks[b], None}
    <3>1. CASE Purge(p)
      <4>1. UNCHANGED config
        BY <3>1 DEF Purge, PurgeStart, PurgeHead, PurgeWalk, PurgeRead, PurgeList, PurgeDelete,
                    PurgeEnd
      <4> QED BY <3>1, <4>1, PurgeKeepsRest
    <3>2. CASE ~Purge(p)
      BY <1>2, <3>2, ReadKeepsFiles DEF files
    <3> QED BY <3>1, <3>2
  <2>2. Fewer
    BY <2>1 DEF Fewer, Loadable
  <2>3. BlocksHold'
    BY <2>1, <2>2, BlocksHoldStays DEF TablesInv
  <2>4. PICK me : Become(p, me) /\ me.pc \notin CommitPc \cup {"merge", "crashed"}
    BY <1>2, OthersAside DEF Aside
  <2>5. TablesOK(me)'
    BY <2>4 DEF TablesOK, CommitPc, CommittingPc
  <2> QED BY <1>1, <2>1, <2>2, <2>3, <2>4, <2>5, TablesBecome
<1>3. CASE AddTable \/ RemoveTable \/ UNCHANGED vars
  <2>1. config' \subseteq config /\ UNCHANGED <<blocks, head, created, local>>
    BY <1>3 DEF NoNewTables, AddTable, RemoveTable, vars, files
  <2>2. Fewer /\ BlocksHold'
    BY <2>1, BlocksHoldStays DEF Fewer, Loadable, TablesInv
  <2>3. ASSUME NEW p \in Process PROVE TablesOK(local[p])'
    <3>1. PICK me : me = local[p]
      OBVIOUS
    <3>2. TablesOK(me)'
      BY <1>1, <2>1, <2>2, <3>1, TablesStay DEF TablesInv
    <3> QED BY <2>1, <3>1, <3>2 DEF TablesOK, ListsOK
  <2> QED BY <2>1, <2>2, <2>3 DEF TablesInv
<1>4. ASSUME NEW p \in Process, Commit(p) \/ Diff(p) PROVE TablesInv'
  BY <1>1, <1>4, TablesCommits, TablesDiffs
<1> QED BY <1>2, <1>3, <1>4 DEF Next, Run

LEMMA TablesInvHolds ==
    ASSUME OneCommitter, NoNewTables
    PROVE  Spec => [](TypeInv /\ IInv /\ TablesInv)
<1>1. Init => TypeInv /\ IInv /\ TablesInv
  BY TypeInvInit, InvInit, TablesInvInit
<1>2. TypeInv /\ IInv /\ TablesInv /\ [Next]_vars => (TypeInv /\ IInv /\ TablesInv)'
  BY TypeInvStep, InvStep, TablesInvStep
<1> QED BY <1>1, <1>2, PTL DEF Spec

\* While one process at a time commits and no table is added to leech.json, no
\* diff brings the process down, whatever faults there are: MergeBlocks finds in
\* the parent's payload each table that the child's has.
THEOREM NeverCrashes ==
    ASSUME OneCommitter, NoNewTables PROVE Spec => []DiffNeverCrashes
<1>1. TablesInv => DiffNeverCrashes
  BY DEF TablesInv, TablesOK, DiffNeverCrashes
<1> QED BY <1>1, TablesInvHolds, PTL

-----------------------------------------------------------------------------
(* A diff from a block that is there.  Blocks go away oldest first, as far *)
(* as a reader can tell that looks at the newer ones first, and a diff     *)
(* does not pass the block it was asked for.                               *)

Gone(b) == blocks[b] = None \/ Doomed(b)

OldestFirst == \A b, c \in BlockId : b < c /\ c <= created /\ Gone(c) => Gone(b)

\* A file that is empty is about to be written.
EmptyIsWritten ==
    \A b \in BlockId : blocks[b] = Torn =>
        \E p \in Process : local[p].pc = "write block" /\ local[p].id = b

\* The whitelist is the blocks newer than the one the walk has come to.
PurgeOK(me) ==
    /\ me.pc \in {"walk", "read"} =>
         me.at \in 0..created /\ \A b \in BlockId : b <= created => (b \in me.keep <=> b > me.at)
    /\ me.pc = "list" =>
         \A b, c \in BlockId : b < c /\ c <= created /\ b \in me.keep => c \in me.keep
    /\ me.pc = "delete" => \A b \in me.doomed : blocks[b] # None

\* A diff from a block that HEAD's block comes after has not passed it yet.
Ahead(me) == me.pc = "merge" /\ me.tip # Torn /\ me.goal <= me.tip => me.goal <= me.at

ServedInv ==
    /\ OldestFirst
    /\ EmptyIsWritten
    /\ \A p \in Process : PurgeOK(local[p]) /\ Ahead(local[p])

LEMMA ServedInvInit == Init => ServedInv
<1> SUFFICES ASSUME Init PROVE ServedInv
  OBVIOUS
<1>1. \A p \in Process : local[p] = Idle
  BY DEF Init
<1>2. Idle.pc = "idle"
  BY DEF Idle
<1>3. OldestFirst
  BY DEF Init, OldestFirst, Gone
<1>4. EmptyIsWritten
  BY ChainAssumption DEF Init, EmptyIsWritten
<1> QED BY <1>1, <1>2, <1>3, <1>4 DEF ServedInv, PurgeOK, Ahead

\* Only the writer purges.
LEMMA OthersPurgeNot ==
    ASSUME OneWriter, WriterInv, NEW p \in Writers
    PROVE  \A q \in Process : q # p => local[q].pc \notin CommitPc \cup PurgePc
BY DEF OneWriter, WriterInv

LEMMA ServedBecome ==
    ASSUME TypeInv, ServedInv, OldestFirst', EmptyIsWritten', NEW p \in Process,
           NEW me, Become(p, me), PurgeOK(me)', Ahead(me),
           \/ \A q \in Process : q # p => local[q].pc \notin PurgePc
           \/ UNCHANGED <<blocks, created>>
    PROVE  ServedInv'
<1>1. local' = [q \in Process |-> IF q = p THEN me ELSE local[q]]
  BY DEF Become, TypeInv, TypeOK
<1>2. ASSUME NEW q \in Process PROVE PurgeOK(local[q])' /\ Ahead(local[q])'
  <2>1. PICK any : any = local'[q]
    OBVIOUS
  <2>2. PurgeOK(any)' /\ Ahead(any)
    <3>1. CASE q = p
      BY <1>1, <2>1, <3>1
    <3>2. CASE q # p
      <4>1. any = local[q] /\ PurgeOK(any) /\ Ahead(any)
        BY <1>1, <2>1, <3>2 DEF ServedInv
      <4> QED BY <3>2, <4>1 DEF PurgeOK, PurgePc
    <3> QED BY <3>1, <3>2
  <2> QED BY <2>1, <2>2 DEF PurgeOK, Ahead
<1> QED BY <1>2 DEF ServedInv

\* A step that leaves the blocks alone, and no command about to write or delete one.
LEMMA AsideServed ==
    ASSUME TypeInv, ServedInv, NEW p \in Process, NEW me, Become(p, me),
           me.pc # "delete", PurgeOK(me), Ahead(me),
           local[p].pc \notin {"write block", "delete"}, UNCHANGED <<blocks, created>>
    PROVE  ServedInv'
<1>1. local' = [q \in Process |-> IF q = p THEN me ELSE local[q]]
  BY DEF Become, TypeInv, TypeOK
<1>2. \A b : Doomed(b)' <=> Doomed(b)
  BY <1>1 DEF Doomed
<1>3. OldestFirst'
  BY <1>2 DEF ServedInv, OldestFirst, Gone
<1>4. EmptyIsWritten'
  BY <1>1 DEF ServedInv, EmptyIsWritten
<1>5. PurgeOK(me)'
  BY DEF PurgeOK
<1> QED BY <1>3, <1>4, <1>5, ServedBecome

\* A step of a command that has nothing to do with blocks, before or after.
Still(p) ==
    /\ local[p].pc \notin {"write block", "delete"}
    /\ \E me : Become(p, me) /\ me.pc \notin {"walk", "read", "list", "delete", "merge"}

LEMMA StillIntro ==
    \A p, me : /\ local[p].pc \notin {"write block", "delete"}
               /\ Become(p, me) /\ me.pc \notin {"walk", "read", "list", "delete", "merge"}
               => Still(p)
BY DEF Still

LEMMA StillServed ==
    ASSUME TypeInv, ServedInv, NEW p \in Process, Still(p), UNCHANGED <<blocks, created>>
    PROVE  ServedInv'
<1>1. PICK me : Become(p, me) /\ me.pc \notin {"walk", "read", "list", "delete", "merge"}
  BY DEF Still
<1>2. PurgeOK(me) /\ Ahead(me)
  BY <1>1 DEF PurgeOK, Ahead
<1> QED BY <1>1, <1>2, AsideServed DEF Still

LEMMA OthersStill ==
    ASSUME CommitsEnd, NEW p \in Process,
           \/ Commit(p) /\ ~BlockOpen(p) /\ ~BlockWrite(p)
           \/ PurgeStart(p) \/ DiffResolve(p) \/ DiffEnd(p)
           \/ Rebase(p) \/ History(p) \/ Finish(p) \/ InstanceLoadFails(p)
    PROVE  Still(p)
<1>0. Idle.pc = "idle"
  BY DEF Idle
<1>1. CASE Commit(p) /\ ~BlockOpen(p) /\ ~BlockWrite(p)
  <2>1. CASE CommitStart(p)
    BY <1>0, <2>1, StillIntro DEF CommitStart
  <2>2. CASE CommitLoad(p)
    BY <2>2, StillIntro DEF CommitLoad, Failed
  <2>3. CASE SnapshotOpen(p) \/ SnapshotWrite(p) \/ CommitHead(p)
    BY <2>3, StillIntro DEF SnapshotOpen, SnapshotWrite, CommitHead
  <2>4. CASE HeadOpen(p)
    BY <2>4, StillIntro DEF HeadOpen
  <2>5. CASE HeadWrite(p)
    BY <1>0, <2>5, StillIntro DEF HeadWrite
  <2>6. ~CommitLoadFails(p) /\ ~WriteFails(p) /\ ~WriteShort(p)
    BY DEF CommitLoadFails, WriteFails, WriteShort, CommitsEnd
  <2> QED BY <1>1, <2>1, <2>2, <2>3, <2>4, <2>5, <2>6 DEF Commit
<1>2. CASE PurgeStart(p) \/ DiffResolve(p)
  BY <1>0, <1>2, StillIntro DEF PurgeStart, DiffResolve, DiffFrom, Failed
<1>3. CASE DiffEnd(p)
  BY <1>3, StillIntro DEF DiffEnd
<1>4. CASE Rebase(p)
  BY <1>0, <1>4, StillIntro DEF Rebase, RebaseStart, RebaseLoad, RebaseHead, Failed
<1>5. CASE History(p)
  <2>1. CASE HistoryStart(p) \/ HistoryHead(p)
    BY <1>0, <2>1, StillIntro DEF HistoryStart, HistoryHead
  <2>2. CASE HistoryWalk(p)
    BY <2>2, StillIntro DEF HistoryWalk
  <2>3. CASE HistoryRead(p)
    BY <2>3, StillIntro DEF HistoryRead, Failed
  <2> QED BY <1>5, <2>1, <2>2, <2>3 DEF History
<1>6. CASE Finish(p) \/ InstanceLoadFails(p)
  BY <1>0, <1>6, StillIntro DEF Finish, InstanceLoadFails, Failed, Resting
<1> QED BY <1>1, <1>2, <1>3, <1>4, <1>5, <1>6

LEMMA ServedCommits ==
    ASSUME OneWriter, CommitsEnd, TypeInv, IInv, WriterInv, CommitInv, ServedInv,
           NEW p \in Process, Commit(p)
    PROVE  ServedInv'
<1>0. PICK me : me = local[p]
  OBVIOUS
<1> USE <1>0
<1>a. /\ blocks \in [BlockId -> CommitBlock \cup {None, Torn, Spoiled}]
      /\ created \in Nat /\ \A b \in BlockId : b \in Nat
      /\ \A b \in BlockId : blocks[b] # None => b <= created
      /\ me \in Local
  <2>1. created \in Nat /\ \A b \in BlockId : b \in Nat
    BY ChainAssumption DEF TypeInv, TypeOK, BlockId
  <2>2. \A b \in BlockId : blocks[b] # None => b <= created
    BY DEF IInv, Linked
  <2> QED BY <2>1, <2>2 DEF TypeInv, TypeOK
\* Nobody is deleting while the writer commits.
<1>b. ASSUME me.pc \in CommitPc, NEW next, Become(p, next), next.pc \in CommitPc
      PROVE  /\ \A b : ~Doomed(b) /\ ~Doomed(b)'
             /\ \A q \in Process : q # p => local[q].pc \notin PurgePc
             /\ PurgeOK(next)' /\ Ahead(next)
             /\ \A q \in Process : local'[q] = IF q = p THEN next ELSE local[q]
  <2>1. p \in Writers
    BY <1>b DEF WriterInv
  <2>2. \A q \in Process : local'[q] = IF q = p THEN next ELSE local[q]
    BY <1>b DEF Become, TypeInv, TypeOK
  <2>3. \A q \in Process : q # p => local[q].pc \notin PurgePc
    BY <2>1, OthersPurgeNot
  <2>4. \A b : ~Doomed(b) /\ ~Doomed(b)'
    BY <1>b, <2>2, <2>3 DEF Doomed, CommitPc, PurgePc
  <2>5. PurgeOK(next)' /\ Ahead(next)
    BY <1>b DEF PurgeOK, Ahead, CommitPc
  <2> QED BY <2>2, <2>3, <2>4, <2>5
<1>1. CASE BlockOpen(p)
  <2>a. PICK next : next = [pc |-> "write block", id |-> created + 1, parent |-> me.parent,
                            payload |-> me.payload, seen |-> me.seen]
    OBVIOUS
  <2>1. Become(p, next) /\ next.pc = "write block" /\ next.id = created + 1
    BY <2>a, <1>1 DEF BlockOpen
  <2>2. /\ me.pc = "open block" /\ created' = created + 1
        /\ blocks' = [blocks EXCEPT ![created + 1] = Torn]
    BY <1>1 DEF BlockOpen
  <2>3. me.pc \in CommitPc /\ next.pc \in CommitPc
    BY <2>1, <2>2 DEF CommitPc
  <2>4. \A b \in BlockId : blocks'[b] = IF b = created + 1 THEN Torn ELSE blocks[b]
    BY <1>a, <2>2
  <2>5. OldestFirst'
    <3> SUFFICES ASSUME NEW b \in BlockId, NEW c \in BlockId, b < c, c <= created', Gone(c)'
                 PROVE  Gone(b)'
      BY DEF OldestFirst
    <3>1. blocks'[c] = None
      BY <1>b, <2>1, <2>3 DEF Gone
    <3>2. c # created + 1 /\ blocks[c] = None
      BY <2>4, <3>1, ChainAssumption
    <3>3. c <= created /\ b # created + 1
      <4>1. b \in Nat /\ c \in Nat /\ c <= created + 1
        BY <1>a, <2>2
      <4> QED BY <1>a, <3>2, <4>1
    <3>4. blocks[b] = None
      BY <1>b, <2>1, <2>3, <3>2, <3>3 DEF ServedInv, OldestFirst, Gone
    <3> QED BY <2>4, <3>3, <3>4 DEF Gone
  <2>6. EmptyIsWritten'
    <3> SUFFICES ASSUME NEW b \in BlockId, blocks'[b] = Torn
                 PROVE  \E q \in Process : local'[q].pc = "write block" /\ local'[q].id = b
      BY DEF EmptyIsWritten
    <3>1. CASE b = created + 1
      <4>1. local'[p] = next
        BY <1>b, <2>1, <2>3
      <4> QED BY <2>1, <3>1, <4>1
    <3>2. CASE b # created + 1
      <4>1. PICK q \in Process : local[q].pc = "write block" /\ local[q].id = b
        BY <2>4, <3>2 DEF ServedInv, EmptyIsWritten
      <4>2. q # p
        BY <2>2, <4>1
      <4> QED BY <1>b, <2>1, <2>3, <4>1, <4>2
    <3> QED BY <3>1, <3>2
  <2> QED BY <1>b, <2>1, <2>3, <2>5, <2>6, ServedBecome
<1>2. CASE BlockWrite(p)
  <2> DEFINE stored == [parent |-> me.parent, payload |-> me.payload]
  <2>1. /\ me.pc = "write block" /\ created' = created
        /\ blocks' = [blocks EXCEPT ![me.id] = IF @ = None THEN None ELSE stored]
    BY <1>2 DEF BlockWrite
  <2>a. PICK next : next = [pc |-> "open head", id |-> me.id]
    OBVIOUS
  <2>2. Become(p, next) /\ next.pc = "open head"
    BY <1>2, <2>a DEF BlockWrite
  <2>3. me.pc \in CommitPc /\ next.pc \in CommitPc
    BY <2>1, <2>2 DEF CommitPc
  <2>4. stored # None /\ stored # Torn /\ me.id \in BlockId
    <3>1. me.payload \in Payload /\ me.parent \in Link /\ me.id \in BlockId
      BY <1>a, <2>1, LocalFields
    <3>2. stored \in [parent: Nat \cup {Torn, Cut}, payload: [Table -> Delta \cup {None}]]
      BY <3>1 DEF Link, BlockId, Genesis, Payload
    <3> QED BY <3>1, <3>2, ChainAssumption
  <2> HIDE DEF stored
  <2>5. \A b \in BlockId : /\ blocks'[b] = None <=> blocks[b] = None
                           /\ blocks'[b] = Torn => blocks[b] = Torn /\ b # me.id
    BY <1>a, <2>1, <2>4, ChainAssumption
  <2>6. OldestFirst'
    BY <1>b, <2>1, <2>2, <2>3, <2>5 DEF ServedInv, OldestFirst, Gone
  <2>7. EmptyIsWritten'
    <3> SUFFICES ASSUME NEW b \in BlockId, blocks'[b] = Torn
                 PROVE  \E q \in Process : local'[q].pc = "write block" /\ local'[q].id = b
      BY DEF EmptyIsWritten
    <3>1. PICK q \in Process : local[q].pc = "write block" /\ local[q].id = b
      BY <2>5 DEF ServedInv, EmptyIsWritten
    <3>2. q # p
      BY <2>5, <3>1
    <3> QED BY <1>b, <2>2, <2>3, <3>1, <3>2
  <2> QED BY <1>b, <2>2, <2>3, <2>6, <2>7, ServedBecome
<1>3. CASE ~BlockOpen(p) /\ ~BlockWrite(p)
  <2>1. Still(p)
    BY <1>3, OthersStill
  <2>2. UNCHANGED <<blocks, created>>
    BY <1>3 DEF Commit, CommitStart, CommitLoad, CommitLoadFails, SnapshotOpen, SnapshotWrite,
                CommitHead, HeadOpen, HeadWrite, WriteFails, WriteShort, CommitsEnd, files
  <2> QED BY <2>1, <2>2, StillServed
<1> QED BY <1>1, <1>2, <1>3

LEMMA ServedPurges ==
    ASSUME OneWriter, CommitsEnd, TypeInv, IInv, WriterInv, CommitInv, ServedInv,
           NEW p \in Process, Purge(p)
    PROVE  ServedInv'
<1>0. PICK me : me = local[p]
  OBVIOUS
<1> USE <1>0
<1>a. /\ blocks \in [BlockId -> CommitBlock \cup {None, Torn, Spoiled}]
      /\ created \in Nat /\ \A b \in BlockId : b \in Nat
      /\ me \in Local /\ PurgeOK(me)
  <2>1. created \in Nat /\ \A b \in BlockId : b \in Nat
    BY ChainAssumption DEF TypeInv, TypeOK, BlockId
  <2> QED BY <2>1 DEF TypeInv, TypeOK, ServedInv
<1>b. ASSUME me.pc \in PurgePc
      PROVE  /\ \A q \in Process : q # p => local[q].pc \notin CommitPc \cup PurgePc
             /\ \A b : Doomed(b) <=> me.pc = "delete" /\ b \in me.doomed
  <2>1. p \in Writers
    BY <1>b DEF WriterInv
  <2>2. \A q \in Process : q # p => local[q].pc \notin CommitPc \cup PurgePc
    BY <2>1, OthersPurgeNot
  <2> QED BY <2>2 DEF Doomed, PurgePc
<1>c. ASSUME UNCHANGED <<blocks, created>>, NEW next, Become(p, next), PurgeOK(next),
             next.pc \notin {"delete", "merge"}, me.pc \notin {"write block", "delete"}
      PROVE  ServedInv'
  <2>1. Ahead(next)
    BY <1>c DEF Ahead
  <2> QED BY <1>c, <2>1, AsideServed
<1>1. CASE PurgeStart(p)
  <2>1. Still(p) /\ UNCHANGED <<blocks, created>>
    BY <1>1, OthersStill DEF PurgeStart, files
  <2> QED BY <2>1, StillServed
<1>2. CASE PurgeHead(p)
  <2>a. PICK next : next = [pc |-> "walk", at |-> head, keep |-> {}]
    OBVIOUS
  <2>1. /\ Become(p, next) /\ next.pc = "walk" /\ next.at = head /\ next.keep = {}
        /\ me.pc = "purge" /\ UNCHANGED <<blocks, created>>
    BY <1>2, <2>a DEF PurgeHead, files
  <2>2. head = created
    <3>1. \A q \in Process : local[q].pc \notin CommitPc
      BY <1>b, <2>1 DEF PurgePc, CommitPc
    <3> QED BY <3>1 DEF CommitInv, Between
  <2>3. PurgeOK(next)
    <3>1. created \in 0..created /\ \A b \in BlockId : b <= created => ~(b > created)
      BY <1>a
    <3> QED BY <2>1, <2>2, <3>1 DEF PurgeOK
  <2> QED BY <1>c, <2>1, <2>3
<1>3. CASE PurgeWalk(p)
  <2>a. PICK lists : lists = [pc |-> "list", keep |-> me.keep]
    OBVIOUS
  <2>b. PICK reads : reads = [pc |-> "read", at |-> me.at, keep |-> me.keep]
    OBVIOUS
  <2>1. /\ Become(p, lists) \/ Become(p, reads)
        /\ me.pc = "walk" /\ UNCHANGED <<blocks, created>>
    BY <1>3, <2>a, <2>b DEF PurgeWalk, files
  <2>2. /\ lists.pc = "list" /\ lists.keep = me.keep
        /\ reads.pc = "read" /\ reads.keep = me.keep /\ reads.at = me.at
    BY <2>a, <2>b
  <2>3. me.at \in 0..created /\ \A b \in BlockId : b <= created => (b \in me.keep <=> b > me.at)
    BY <1>a, <2>1 DEF PurgeOK
  <2>4. PurgeOK(reads)
    BY <2>2, <2>3 DEF PurgeOK
  <2>5. PurgeOK(lists)
    <3>1. \A b, c \in BlockId : b < c /\ c <= created => b <= created /\ (b > me.at => c > me.at)
      BY <1>a, <2>3
    <3> QED BY <2>2, <2>3, <3>1 DEF PurgeOK
  <2> QED BY <1>c, <2>1, <2>2, <2>4, <2>5
<1>4. CASE PurgeRead(p)
  <2>1. me.pc = "read" /\ UNCHANGED <<blocks, created>>
    BY <1>4 DEF PurgeRead, files
  <2>2. CASE ~Loadable(me.at)
    <3>1. Become(p, Failed("purge")) /\ Failed("purge").pc = "failed"
      BY <1>4, <2>2 DEF PurgeRead, Failed
    <3>2. PurgeOK(Failed("purge"))
      BY <3>1 DEF PurgeOK
    <3> QED BY <1>c, <2>1, <3>1, <3>2
  <2>3. CASE Loadable(me.at)
    <3>a. PICK next : next = [pc |-> "walk", at |-> blocks[me.at].parent,
                              keep |-> me.keep \cup {me.at}]
      OBVIOUS
    <3>1. /\ Become(p, next) /\ next.pc = "walk" /\ next.at = blocks[me.at].parent
          /\ next.keep = me.keep \cup {me.at}
      BY <1>4, <2>3, <3>a DEF PurgeRead
    <3>2. /\ me.at \in 0..created /\ me.at \in BlockId /\ next.at = me.at - 1
          /\ \A b \in BlockId : b <= created => (b \in me.keep <=> b > me.at)
      BY <1>a, <2>1, <2>3, <3>1 DEF PurgeOK, CommitInv, BlocksTell, Loadable
    <3>3. me.at \in Nat /\ me.at >= 1
      BY <3>2, ChainAssumption DEF BlockId
    <3>4. /\ next.at \in 0..created
          /\ \A b \in BlockId : b > me.at \/ b = me.at <=> b > me.at - 1
      BY <1>a, <3>2, <3>3
    <3>5. PurgeOK(next)
      BY <3>1, <3>2, <3>4 DEF PurgeOK
    <3> QED BY <1>c, <2>1, <3>1, <3>5
  <2> QED BY <2>2, <2>3
<1>5. CASE PurgeList(p)
  <2>1. me.pc = "list" /\ UNCHANGED <<blocks, created>>
    BY <1>5 DEF PurgeList, files
  <2>2. CASE Become(p, Failed("purge"))
    <3>1. Failed("purge").pc = "failed"
      BY DEF Failed
    <3>2. PurgeOK(Failed("purge"))
      BY <3>1 DEF PurgeOK
    <3> QED BY <1>c, <2>1, <2>2, <3>1, <3>2
  <2>3. CASE ~Become(p, Failed("purge"))
    <3>a. PICK next : next = [pc |-> "delete",
                              doomed |-> {b \in BlockId : blocks[b] # None} \ me.keep]
      OBVIOUS
    <3>1. /\ Become(p, next) /\ next.pc = "delete"
          /\ next.doomed = {b \in BlockId : blocks[b] # None} \ me.keep
      BY <1>5, <2>3, <3>a DEF PurgeList
    <3>2. \A q \in Process : local'[q] = IF q = p THEN next ELSE local[q]
      BY <3>1 DEF Become, TypeInv, TypeOK
    <3>3. \A b : ~Doomed(b) /\ (Doomed(b)' <=> b \in next.doomed)
      BY <1>b, <2>1, <3>1, <3>2 DEF Doomed, PurgePc
    <3>4. OldestFirst'
      <4> SUFFICES ASSUME NEW b \in BlockId, NEW c \in BlockId, b < c, c <= created, Gone(c)'
                   PROVE  Gone(b)'
        BY <2>1 DEF OldestFirst
      <4>1. CASE blocks[c] = None
        <5>1. blocks[b] = None
          BY <3>3, <4>1 DEF ServedInv, OldestFirst, Gone
        <5> QED BY <2>1, <5>1 DEF Gone
      <4>2. CASE blocks[c] # None
        <5>1. c \notin me.keep
          BY <2>1, <3>1, <3>3, <4>2 DEF Gone
        <5>2. b \notin me.keep
          BY <1>a, <2>1, <5>1 DEF PurgeOK
        <5> QED BY <2>1, <3>1, <3>3, <5>2 DEF Gone
      <4> QED BY <4>1, <4>2
    <3>5. EmptyIsWritten'
      BY <2>1, <3>2 DEF ServedInv, EmptyIsWritten
    <3>6. PurgeOK(next)' /\ Ahead(next)
      BY <2>1, <3>1 DEF PurgeOK, Ahead
    <3> QED BY <2>1, <3>1, <3>4, <3>5, <3>6, ServedBecome
  <2> QED BY <2>2, <2>3
<1>6. CASE PurgeDelete(p)
  <2>1. me.pc = "delete" /\ created' = created /\ me.doomed \subseteq BlockId
    BY <1>6, <1>a, LocalFields DEF PurgeDelete
  <2>2. \A d \in me.doomed : blocks[d] # None
    BY <1>a, <2>1 DEF PurgeOK
  <2>3. PICK d \in me.doomed : /\ blocks' = [blocks EXCEPT ![d] = None]
                               /\ Become(p, [pc |-> "delete", doomed |-> me.doomed \ {d}])
    BY <1>6, <2>2 DEF PurgeDelete
  <2>a. PICK next : next = [pc |-> "delete", doomed |-> me.doomed \ {d}]
    OBVIOUS
  <2>4. Become(p, next) /\ next.pc = "delete" /\ next.doomed = me.doomed \ {d}
    BY <2>3, <2>a
  <2>5. \A q \in Process : local'[q] = IF q = p THEN next ELSE local[q]
    BY <2>4 DEF Become, TypeInv, TypeOK
  <2>6. \A b : (Doomed(b) <=> b \in me.doomed) /\ (Doomed(b)' <=> b \in me.doomed \ {d})
    BY <1>b, <2>1, <2>4, <2>5 DEF Doomed, PurgePc
  <2>7. \A b \in BlockId : blocks'[b] = IF b = d THEN None ELSE blocks[b]
    BY <1>a, <2>1, <2>3
  <2>8. \A b \in BlockId : Gone(b)' <=> Gone(b)
    BY <2>6, <2>7 DEF Gone
  <2>9. OldestFirst'
    BY <2>1, <2>8 DEF ServedInv, OldestFirst
  <2>10. EmptyIsWritten'
    <3> SUFFICES ASSUME NEW b \in BlockId, blocks'[b] = Torn
                 PROVE  \E q \in Process : local'[q].pc = "write block" /\ local'[q].id = b
      BY DEF EmptyIsWritten
    <3>1. blocks[b] = Torn
      BY <2>7, ChainAssumption
    <3>2. PICK q \in Process : local[q].pc = "write block" /\ local[q].id = b
      BY <3>1 DEF ServedInv, EmptyIsWritten
    <3>3. q # p
      BY <2>1, <3>2
    <3> QED BY <2>5, <3>2, <3>3
  <2>11. PurgeOK(next)' /\ Ahead(next)
    BY <2>1, <2>2, <2>4, <2>7 DEF PurgeOK, Ahead
  <2>12. \A q \in Process : q # p => local[q].pc \notin PurgePc
    BY <1>b, <2>1 DEF PurgePc
  <2> QED BY <2>4, <2>9, <2>10, <2>11, <2>12, ServedBecome
<1>7. CASE PurgeEnd(p)
  <2>1. me.pc = "delete" /\ me.doomed = {} /\ Become(p, Idle) /\ UNCHANGED <<blocks, created>>
    BY <1>7 DEF PurgeEnd, files
  <2>2. Idle.pc = "idle"
    BY DEF Idle
  <2>3. \A q \in Process : local'[q] = IF q = p THEN Idle ELSE local[q]
    BY <2>1 DEF Become, TypeInv, TypeOK
  <2>4. \A b : ~Doomed(b) /\ ~Doomed(b)'
    BY <1>b, <2>1, <2>2, <2>3 DEF Doomed, PurgePc
  <2>5. OldestFirst'
    BY <2>1, <2>4 DEF ServedInv, OldestFirst, Gone
  <2>6. EmptyIsWritten'
    <3> SUFFICES ASSUME NEW b \in BlockId, blocks'[b] = Torn
                 PROVE  \E q \in Process : local'[q].pc = "write block" /\ local'[q].id = b
      BY DEF EmptyIsWritten
    <3>1. blocks[b] = Torn
      BY <2>1
    <3>2. PICK q \in Process : local[q].pc = "write block" /\ local[q].id = b
      BY <3>1 DEF ServedInv, EmptyIsWritten
    <3>3. q # p
      BY <2>1, <3>2
    <3> QED BY <2>3, <3>2, <3>3
  <2>7. PurgeOK(Idle)' /\ Ahead(Idle)
    BY <2>2 DEF PurgeOK, Ahead
  <2> QED BY <2>1, <2>5, <2>6, <2>7, ServedBecome
<1> QED BY <1>1, <1>2, <1>3, <1>4, <1>5, <1>6, <1>7 DEF Purge

LEMMA ServedDiffs ==
    ASSUME CommitsEnd, TypeInv, CommitInv, DiffInv, ServedInv, NEW p \in Process, Diff(p)
    PROVE  ServedInv'
<1>0. PICK me : me = local[p]
  OBVIOUS
<1> USE <1>0
<1>1. UNCHANGED <<blocks, created>>
  BY ReadKeepsFiles DEF files
<1>2. CASE DiffResolve(p) \/ DiffEnd(p)
  BY <1>1, <1>2, OthersStill, StillServed
<1>3. CASE DiffHead(p)
  <2>a. PICK next : next = [pc |-> "merge", goal |-> me.goal, tables |-> config,
                            tip |-> head, at |-> head, child |-> NoDeltas, kept |-> <<>>]
    OBVIOUS
  <2>1. Become(p, next) /\ me.pc = "diff"
    BY <1>3, <2>a DEF DiffHead
  <2>2. next.pc = "merge" /\ next.at = next.tip
    BY <2>a
  <2>3. PurgeOK(next) /\ Ahead(next)
    BY <2>2 DEF PurgeOK, Ahead
  <2> QED BY <1>1, <2>1, <2>2, <2>3, AsideServed
<1>4. CASE DiffMerge(p)
  <2>1. me.pc = "merge" /\ me.at # me.goal
    BY <1>4 DEF DiffMerge
  <2>2. CASE Become(p, Failed("diff")) \/ Become(p, Crashed("diff"))
    <3>1. Failed("diff").pc = "failed" /\ Crashed("diff").pc = "crashed"
      BY DEF Failed, Crashed
    <3>2. Still(p)
      BY <2>1, <2>2, <3>1, StillIntro
    <3> QED BY <1>1, <3>2, StillServed
  <2>3. CASE ~(Become(p, Failed("diff")) \/ Become(p, Crashed("diff")))
    <3> DEFINE parent == blocks[me.at].payload
               rest   == Unmerged(me.child)
    <3>a. PICK next : next = [pc |-> "merge", goal |-> me.goal, tables |-> me.tables,
                              tip |-> me.tip, at |-> blocks[me.at].parent,
                              child |-> Merged(parent, me.child),
                              kept |-> IF rest = NoDeltas THEN me.kept
                                       ELSE Append(me.kept, rest)]
      OBVIOUS
    <3>1. Loadable(me.at) /\ Become(p, next)
      BY <1>4, <2>3, <3>a DEF DiffMerge
    <3>2. /\ next.pc = "merge" /\ next.at = blocks[me.at].parent
          /\ next.goal = me.goal /\ next.tip = me.tip
      BY <3>a
    <3>3. next.at = me.at - 1 /\ me.at \in BlockId
      BY <3>1, <3>2 DEF CommitInv, BlocksTell, Loadable
    <3>4. me.goal \in Nat /\ me.at \in Nat
      <4>1. me.goal \in Tip
        BY <2>1, LocalFields DEF TypeInv, TypeOK
      <4> QED BY <3>3, <4>1, ChainAssumption DEF Tip, BlockId, Genesis
    <3>5. me.goal <= me.at => me.goal <= next.at
      BY <2>1, <3>3, <3>4
    <3>6. Ahead(me)
      BY DEF ServedInv
    <3>7. PurgeOK(next) /\ Ahead(next)
      BY <2>1, <3>2, <3>5, <3>6 DEF PurgeOK, Ahead
    <3> QED BY <1>1, <2>1, <3>1, <3>2, <3>7, AsideServed
  <2> QED BY <2>2, <2>3
<1> QED BY <1>2, <1>3, <1>4 DEF Diff

LEMMA ServedInvStep ==
    ASSUME OneWriter, CommitsEnd, TypeInv, IInv, WriterInv, CommitInv, DiffInv, ServedInv,
           [Next]_vars
    PROVE  ServedInv'
<1>1. ASSUME NEW p \in Process, Run(p) \/ InstanceLoadFails(p) \/ Interrupt(p)
      PROVE  ServedInv'
  <2>1. CASE Commit(p) \/ Purge(p) \/ Diff(p)
    BY <2>1, ServedCommits, ServedPurges, ServedDiffs
  <2>2. CASE Rebase(p) \/ History(p) \/ Finish(p) \/ InstanceLoadFails(p)
    <3>1. Still(p)
      BY <2>2, OthersStill
    <3>2. UNCHANGED <<blocks, created>>
      BY <2>2, ReadKeepsFiles DEF files
    <3> QED BY <3>1, <3>2, StillServed
  <2>3. ~Interrupt(p)
    BY DEF Interrupt, CommitsEnd
  <2> QED BY <1>1, <2>1, <2>2, <2>3 DEF Run
<1>2. CASE AddTable \/ RemoveTable \/ UNCHANGED vars
  <2>1. UNCHANGED <<blocks, created, local>>
    BY <1>2 DEF AddTable, RemoveTable, vars, files
  <2>2. OldestFirst' /\ EmptyIsWritten'
    BY <2>1 DEF ServedInv, OldestFirst, EmptyIsWritten, Gone, Doomed
  <2>3. ASSUME NEW p \in Process PROVE PurgeOK(local[p])' /\ Ahead(local[p])'
    <3>1. PurgeOK(local[p]) /\ Ahead(local[p])
      BY DEF ServedInv
    <3> QED BY <2>1, <3>1 DEF PurgeOK, Ahead
  <2> QED BY <2>2, <2>3 DEF ServedInv
<1> QED BY <1>1, <1>2 DEF Next

\* A diff that fails although it should not: how it may have come to that.
LEMMA FailsInMerge ==
    ASSUME CommitsEnd, TypeInv, [Next]_vars, NEW p \in Process, local[p].pc = "merge",
           local'[p].pc \in {"failed", "crashed"}
    PROVE  DiffMerge(p)
<1>1. ASSUME NEW q \in Process, Run(q) \/ InstanceLoadFails(q)
      PROVE  \E me : Become(q, me)
  <2>1. CASE Commit(q)
    BY <2>1, OthersQuiet DEF Quiet
  <2>2. CASE ~Commit(q)
    <3>1. BecomesOther(q)
      BY <1>1, <2>2, OthersStayOther DEF Run
    <3> QED BY <3>1 DEF BecomesOther
  <2> QED BY <2>1, <2>2
<1>2. PICK q \in Process : Run(q) \/ InstanceLoadFails(q)
  <2>1. \A q \in Process : ~Interrupt(q)
    BY DEF Interrupt, CommitsEnd
  <2> QED BY <2>1 DEF Next, AddTable, RemoveTable, vars
<1>3. PICK me : Become(q, me)
  BY <1>1, <1>2
<1>4. q = p
  BY <1>3 DEF Become, TypeInv, TypeOK
<1>5. Idle.pc = "idle"
  BY DEF Idle
<1>6. ~InstanceLoadFails(p) /\ ~Finish(p) /\ ~Commit(p)
  <2>1. local[p].pc \notin CommitPc
    BY DEF CommitPc
  <2>2. ~InstanceLoadFails(p) /\ ~Finish(p)
    BY <1>5 DEF InstanceLoadFails, Finish, Resting
  <2>3. ~Commit(p)
    BY <1>5 DEF Commit, CommitStart, CommitLoad, CommitLoadFails, SnapshotOpen, SnapshotWrite,
                CommitHead, BlockOpen, BlockWrite, HeadOpen, HeadWrite, WriteFails, WriteShort
  <2> QED BY <2>2, <2>3
<1>7. ~Purge(p) /\ ~Rebase(p) /\ ~History(p)
  BY <1>5 DEF Purge, PurgeStart, PurgeHead, PurgeWalk, PurgeRead, PurgeList, PurgeDelete,
              PurgeEnd, Rebase, RebaseStart, RebaseLoad, RebaseHead, History, HistoryStart,
              HistoryHead, HistoryWalk, HistoryRead
<1>8. Diff(p)
  BY <1>2, <1>4, <1>6, <1>7 DEF Run
<1>9. ~DiffResolve(p) /\ ~DiffHead(p)
  BY <1>5 DEF DiffResolve, DiffFrom, DiffHead
<1>10. ~DiffEnd(p)
  <2>1. ASSUME DiffEnd(p) PROVE FALSE
    <3>1. PICK next : next = [pc |-> "patched", op |-> "diff", goal |-> local[p].goal,
                              tip |-> local[p].tip,
                              patch |-> Reverse(Append(local[p].kept, local[p].child))]
      OBVIOUS
    <3>2. Become(p, next) /\ next.pc = "patched"
      BY <2>1, <3>1 DEF DiffEnd
    <3> QED BY <3>2 DEF Become, TypeInv, TypeOK
  <2> QED BY <2>1
<1> QED BY <1>8, <1>9, <1>10 DEF Diff

LEMMA MergeableBlock ==
    ASSUME TypeInv, CommitInv, DiffInv, TablesInv, NEW p \in Process, local[p].pc = "merge",
           local[p].tip # Torn, local[p].tables = InitialTables, Loadable(local[p].at)
    PROVE  ~Unmergeable(blocks[local[p].at].payload, local[p].child, local[p].tables)
<1>0. PICK me : me = local[p]
  OBVIOUS
<1> USE <1>0
<1> DEFINE parent == blocks[me.at].payload
<1>1. me \in Local /\ DiffOK(me)
  BY DEF TypeInv, TypeOK, DiffInv
<1>2. /\ Settled(me.tip) /\ me.at \in 0..me.tip /\ me.at \in BlockId
      /\ \A t \in Table : \E mid \in State : Carries(me.child[t], stateAt[me.at][t], mid)
  BY <1>1 DEF DiffOK, Loadable
<1>3. \A t \in Table : Change(parent[t], stateAt[me.at - 1][t], stateAt[me.at][t])
  BY <1>2 DEF CommitInv, BlocksTell
<1>4. me.child \in Payload /\ Tables(parent) \subseteq InitialTables
  BY <1>1, <1>2, LocalFields DEF TablesInv, BlocksHold, Holds
<1> HIDE DEF parent
<1>5. ASSUME NEW t \in Tables(parent) \cap Tables(me.child)
      PROVE  t \in me.tables /\ ~MergeConflict(parent[t], me.child[t])
  <2>1. t \in Table /\ parent[t] # None /\ me.child[t] # None
    BY DEF Tables
  <2>2. PICK mid \in State : Carries(me.child[t], stateAt[me.at][t], mid)
    BY <1>2, <2>1
  <2>3. me.child[t] \in Delta /\ NetEffect(me.child[t], stateAt[me.at][t], mid)
    BY <1>4, <2>1, <2>2 DEF Payload, Carries
  <2>4. parent[t] = DeltaCreate("delta", stateAt[me.at][t], stateAt[me.at - 1][t])
    BY <1>3, <2>1 DEF Change
  <2>5. stateAt[me.at][t] \in State /\ stateAt[me.at - 1][t] \in State
    <3>1. me.at \in Nat /\ me.at >= 1 /\ me.tip \in Nat
      BY <1>2, SettledState, ChainAssumption DEF BlockId
    <3>2. me.at - 1 \in 0..me.tip
      BY <1>2, <3>1
    <3> QED BY <1>2, <2>1, <3>2, SettledState
  <2>6. ~MergeConflict(parent[t], me.child[t])
    BY <2>3, <2>4, <2>5, MergeOfContinuation
  <2> QED BY <1>4, <2>6
<1> QED BY <1>5 DEF Unmergeable, parent

\* No write is short.
Unspoiled == \A b \in BlockId : blocks[b] # Spoiled

LEMMA UnspoiledStep ==
    ASSUME CommitsEnd, TypeInv, Unspoiled, [Next]_vars
    PROVE  Unspoiled'
<1>1. blocks \in [BlockId -> CommitBlock \cup {None, Torn, Spoiled}]
  BY DEF TypeInv, TypeOK
<1>2. ASSUME NEW p \in Process, Commit(p) PROVE Unspoiled'
  <2>1. CASE BlockOpen(p)
    <3>1. blocks' = [blocks EXCEPT ![created + 1] = Torn]
      BY <2>1 DEF BlockOpen
    <3> QED BY <1>1, <3>1, ChainAssumption DEF Unspoiled
  <2>2. CASE BlockWrite(p)
    <3> DEFINE stored == [parent |-> local[p].parent, payload |-> local[p].payload]
    <3>1. blocks' = [blocks EXCEPT ![local[p].id] = IF @ = None THEN None ELSE stored]
      BY <2>2 DEF BlockWrite
    <3>2. local[p].payload \in Payload /\ local[p].parent \in Link
      BY <2>2, LocalFields DEF BlockWrite, TypeInv, TypeOK
    <3>3. stored \in [parent: Nat \cup {Torn, Cut}, payload: [Table -> Delta \cup {None}]]
      BY <3>2 DEF Link, BlockId, Genesis, Payload
    <3>4. stored # Spoiled
      BY <3>3, ChainAssumption
    <3> HIDE DEF stored
    <3> QED BY <1>1, <3>1, <3>4, ChainAssumption DEF Unspoiled
  <2>3. CASE ~BlockOpen(p) /\ ~BlockWrite(p)
    <3>1. blocks' = blocks
      BY <1>2, <2>3
         DEF Commit, CommitStart, CommitLoad, CommitLoadFails, SnapshotOpen, SnapshotWrite,
             CommitHead, HeadOpen, HeadWrite, WriteFails, WriteShort, CommitsEnd, files
    <3> QED BY <3>1 DEF Unspoiled
  <2> QED BY <2>1, <2>2, <2>3
<1>3. CASE \A p \in Process : ~Commit(p)
  <2>1. \A id \in BlockId : blocks'[id] \in {blocks[id], None}
    <3>1. CASE \E p \in Process : Purge(p)
      BY <3>1, PurgeKeepsRest
    <3>2. CASE ~\E p \in Process : Purge(p)
      <4>1. blocks' = blocks
        BY <1>3, <3>2, ReadKeepsFiles DEF Next, Run, AddTable, RemoveTable, vars, files
      <4> QED BY <4>1
    <3> QED BY <3>1, <3>2
  <2> QED BY <2>1, ChainAssumption DEF Unspoiled
<1> QED BY <1>2, <1>3

LEMMA UnspoiledHolds == ASSUME CommitsEnd PROVE Spec => []Unspoiled
<1>1. Init => Unspoiled
  BY ChainAssumption DEF Init, Unspoiled
<1>2. TypeInv /\ Unspoiled /\ [Next]_vars => Unspoiled'
  BY UnspoiledStep
<1> QED BY <1>1, <1>2, TypeInvHolds, PTL DEF Spec

LEMMA ServedStep ==
    ASSUME OneWriter, CommitsEnd, TypeInv, CommitInv, DiffInv, TablesInv, ServedInv, Unspoiled,
           [Next]_vars, NEW p \in Process, local[p].pc = "merge",
           local'[p].pc \in {"failed", "crashed"}, local[p].tip # Torn,
           local[p].goal <= local[p].tip, local[p].tables = InitialTables
    PROVE  \/ local[p].goal \in BlockId /\ Gone(local[p].goal)
           \/ local[p].goal = Genesis /\ ~Loadable(local[p].at)
<1>0. PICK me : me = local[p]
  OBVIOUS
<1> USE <1>0
<1>1. DiffMerge(p) /\ me.at # me.goal
  <2>1. DiffMerge(p)
    BY FailsInMerge
  <2> QED BY <2>1 DEF DiffMerge
<1>2. /\ me \in Local /\ DiffOK(me) /\ TablesOK(me) /\ Ahead(me)
      /\ created \in Nat
  <2>1. created \in Nat
    BY ChainAssumption DEF TypeInv, TypeOK
  <2> QED BY <2>1 DEF TypeInv, TypeOK, DiffInv, TablesInv, ServedInv
<1>3. Settled(me.tip) /\ me.at \in 0..me.tip /\ me.tip \in 0..created
  BY <1>2 DEF DiffOK, Settled
<1>4. me.goal \in Tip /\ me.goal \in Nat /\ me.goal <= me.at
  <2>1. me.goal \in Tip /\ me.goal <= me.at
    BY <1>2, LocalFields DEF Ahead
  <2> QED BY <2>1, ChainAssumption DEF Tip, BlockId, Genesis
<1>5. me.goal < me.at /\ me.at <= created /\ me.at \in Nat
  BY <1>1, <1>2, <1>3, <1>4
\* A block that loads is merged.
<1>6. ~Loadable(me.at)
  <2> SUFFICES ASSUME Loadable(me.at) PROVE FALSE
    OBVIOUS
  <2> DEFINE parent == blocks[me.at].payload
             rest   == Unmerged(me.child)
  <2>1. ~Unmergeable(parent, me.child, me.tables)
    BY MergeableBlock
  <2>2. Tables(me.child) \ Tables(parent) = {}
    <3>1. me.at \in BlockId /\ me.at <= me.at /\ me.at \notin {Torn, Cut}
      BY <1>5, ChainAssumption DEF Loadable
    <3> QED BY <1>2, <3>1 DEF TablesOK, Holds
  <2>a. PICK next : next = [pc |-> "merge", goal |-> me.goal, tables |-> me.tables,
                            tip |-> me.tip, at |-> blocks[me.at].parent,
                            child |-> Merged(parent, me.child),
                            kept |-> IF rest = NoDeltas THEN me.kept
                                     ELSE Append(me.kept, rest)]
    OBVIOUS
  <2>3. Become(p, next) /\ next.pc = "merge"
    BY <1>1, <2>1, <2>2, <2>a DEF DiffMerge
  <2> QED BY <2>3 DEF Become, TypeInv, TypeOK
<1>7. CASE me.goal = Genesis
  BY <1>6, <1>7
<1>8. CASE me.goal # Genesis
  <2>1. me.goal \in BlockId
    BY <1>4, <1>8 DEF Tip
  <2>2. me.at \in BlockId
    <3>1. created \in 0..MaxBlocks /\ MaxBlocks \in Nat
      BY ChainAssumption DEF TypeInv, TypeOK
    <3>2. me.at \in 1..MaxBlocks
      BY <1>4, <1>5, <3>1
    <3> QED BY <3>2 DEF BlockId
  <2>3. blocks[me.at] # Torn
    <3> SUFFICES ASSUME blocks[me.at] = Torn PROVE FALSE
      OBVIOUS
    <3>1. PICK q \in Process : local[q].pc = "write block" /\ local[q].id = me.at
      BY <2>2 DEF ServedInv, EmptyIsWritten
    <3>2. me.at = created
      BY <3>1 DEF CommitInv, CommitOK
    <3>3. me.tip < created
      BY <1>3, <3>1 DEF Settled
    <3> QED BY <1>2, <1>3, <3>2, <3>3
  <2>4. Gone(me.at)
    BY <1>6, <2>2, <2>3 DEF Loadable, Gone, Unspoiled
  <2>5. Gone(me.goal)
    BY <1>5, <2>1, <2>2, <2>4 DEF ServedInv, OldestFirst
  <2> QED BY <2>1, <2>5
<1> QED BY <1>7, <1>8

LEMMA ServedAction ==
    ASSUME OneWriter, CommitsEnd, TypeInv, CommitInv, DiffInv, TablesInv, ServedInv, Unspoiled,
           [Next]_vars
    PROVE  [\A p \in Process :
              LET me == local[p]
              IN  /\ me.pc = "merge"
                  /\ local'[p].pc \in {"failed", "crashed"}
                  /\ me.tip # Torn /\ me.goal <= me.tip
                  /\ me.tables = InitialTables
                  => \/ me.goal \in BlockId /\ (blocks[me.goal] = None \/ Doomed(me.goal))
                     \/ me.goal = Genesis /\ ~Loadable(me.at)]_vars
BY ServedStep DEF Gone

\* While one process commits and purges, no commit is cut short and no table is
\* added to leech.json, a server whose last known block is on disk, and not about
\* to be deleted, gets its diff: MergeBlocks meets no conflict and no table that
\* it lacks, and LCH_Purge deletes no block behind it.
THEOREM RetainedServed ==
    ASSUME OneWriter, CommitsEnd, NoNewTables
    PROVE  Spec => RetainedBlocksServed
<1>1. OneCommitter
  BY DEF OneWriter, OneCommitter, Writers
<1>2. Init => WriterInv /\ DiffInv /\ ServedInv
  <2>1. Init => DiffInv
    BY DEF Init, DiffInv, DiffOK, Idle
  <2> QED BY <2>1, WriterInvInit, ServedInvInit
<1>3. TypeInv /\ TypeInv' /\ IInv /\ CommitInv /\ WriterInv /\ DiffInv /\ ServedInv /\ [Next]_vars
        => WriterInv' /\ DiffInv' /\ ServedInv'
  BY <1>1, WriterInvStep, DiffInvStep, ServedInvStep
<1>4. TypeInv /\ CommitInv /\ DiffInv /\ TablesInv /\ ServedInv /\ Unspoiled /\ [Next]_vars =>
        [\A p \in Process :
              LET me == local[p]
              IN  /\ me.pc = "merge"
                  /\ local'[p].pc \in {"failed", "crashed"}
                  /\ me.tip # Torn /\ me.goal <= me.tip
                  /\ me.tables = InitialTables
                  => \/ me.goal \in BlockId /\ (blocks[me.goal] = None \/ Doomed(me.goal))
                     \/ me.goal = Genesis /\ ~Loadable(me.at)]_vars
  BY ServedAction
<1>5. Spec => [](TypeInv /\ IInv /\ CommitInv)
  BY <1>1, CommitInvHolds
<1>6. Spec => [](TypeInv /\ IInv /\ TablesInv)
  BY <1>1, TablesInvHolds
<1>7. Spec => []Unspoiled
  BY UnspoiledHolds
<1> QED BY <1>2, <1>3, <1>4, <1>5, <1>6, <1>7, PTL DEF Spec, RetainedBlocksServed

-----------------------------------------------------------------------------
(* The host and the server *)

\* Every table is in leech.json, for good.  (A rebase says nothing of a table that
\* is not, and leaves the server with what it has of it.)
EveryTable == InitialTables = Table /\ Removable = {}

-----------------------------------------------------------------------------
(* What the patches contain *)

CleanDelta   == {d \in Delta : d.type = "delta" /\ Separate(d)}
CleanPayload == [Table -> CleanDelta \cup {None}]

\* Each delta of a diff takes the rows one by one, as the callbacks do.
CleanOK(me) ==
    /\ me.pc = "merge" => me.kept \in Seq(CleanPayload)
    /\ me.pc = "patched" /\ me.op = "diff" => me.patch \in Seq(CleanPayload)

\* A rebase leaves no table out.
FullOK(me) ==
    /\ me.pc = "rebase" => \A t \in Table : t \in me.todo \/ me.payload[t] # None
    /\ me.pc = "patched" /\ me.op = "rebase" => \A t \in Table : me.patch[1][t] # None

PatchesInv ==
    /\ config = Table
    /\ \A p \in Process : CleanOK(local[p]) /\ FullOK(local[p])

\* The caller has what the host handed over.
Handed(me) ==
    /\ me \in [pc: {"patched"}, op: {"diff", "rebase"}, goal: Tip, tip: Link,
               patch: Seq(Payload)]
    /\ DiffOK(me) /\ RebaseOK(me) /\ CleanOK(me) /\ FullOK(me)

ErrandInv ==
    /\ caller \in {"idle", "asked", "refused", "got"}
    /\ caller = "got" <=> newest # None
    /\ newest # None => Handed(newest)
    /\ aside # None => Handed(aside)

-----------------------------------------------------------------------------
(* What the server is doing *)

\* The block that the last known file names, or is about to.
Goal == IF command[Host].pc = "start" THEN command[Host].tip ELSE lastknown[Host]

HandedEntry == [delta: Delta, to: Link]
HandedBlock == [Table -> HandedEntry \cup {None}]

EntryOK(entry, goal, last) ==
    entry # None =>
        /\ entry.to = goal
        /\ \/ entry.delta \in CleanDelta
           \/ entry.delta = DeltaCreate("rebase", last, EmptyObject)

DeltasOf(handed) ==
    [i \in DOMAIN handed |->
        [t \in Table |-> IF handed[i][t] = None THEN None ELSE handed[i][t].delta]]

Rebases(handed, t) ==
    Len(handed) = 1 /\ handed[1][t] # None /\ handed[1][t].delta.type = "rebase"

\* The blocks lead a table from the rows that are there to its last state.
Leads(handed, t, there, last) ==
    \/ Rebases(handed, t)
    \/ \E s \in State : there = RowsOf(s) /\ RowsAfter(DeltasOf(handed), t, s) = last

\* The host's rows of a table, which only the command has while it writes the file.
Present(me, there, t) ==
    IF me.pc = "write" /\ me.table = t THEN me.content[Host] ELSE there[t][Host]

\* A patch that runs has only deltas for where it leads, whatever rows it meets.
\* One that belongs where it is applied leads every table there.
RunOK(me, goal, last, there, belongs) ==
    /\ \A i \in DOMAIN me.blocks, t \in Table : EntryOK(me.blocks[i][t], goal, last[t])
    /\ me.pc \in {"transaction", "write"} => /\ me.blocks # <<>>
                                            /\ Head(me.blocks)[me.table] # None
    /\ me.pc = "transaction" => me.content = there[me.table]
    /\ belongs => \A t \in Table : Leads(me.blocks, t, Present(me, there, t), last[t])

\* A file that is about to be written has been truncated.
Opened(me, kinds) ==
    me.pc = "write" => me.table \in CsvTable /\ kinds[me.table] = "empty"

FileKinds == {"whole", "headless", "broken", "empty"}

Commands ==
    {Idle}
    \cup [pc: {"start"}, tip: Link, blocks: Seq(HandedBlock)]
    \cup [pc: {"patch"}, blocks: Seq(HandedBlock)]
    \cup [pc: {"transaction", "write"}, table: Table, content: [{Host} -> HostRows],
          header: BOOLEAN, blocks: Seq(HandedBlock)]

ServerType ==
    /\ lastknown \in [{Host} -> Link]
    /\ rows \in [Table -> [{Host} -> HostRows]]
    /\ file \in [Table -> FileKinds]
    /\ command \in [{Host} -> Commands]
    /\ trusted \in [{Host} -> BOOLEAN]
    /\ mishaps \in 0..MaxServerFaults
    /\ misled \in BOOLEAN

\* A last known file that was emptied is written again before a patch goes on.
KnownOK(known, trust, me) ==
    Settled(known) \/ (known = Cut /\ ~trust /\ me.pc \in {"idle", "start"})

ServerInv ==
    /\ ServerType
    /\ KnownOK(lastknown[Host], trusted[Host], command[Host])
    /\ command[Host] # Idle => /\ Settled(Goal)
                              /\ RunOK(command[Host], Goal, stateAt[Goal], rows, ~misled)
    /\ Opened(command[Host], file)
    /\ LastKnownHeld

-----------------------------------------------------------------------------
(* Rows after a part of a patch *)

\* The rows after k + m blocks of one patch are those after k blocks of another.
Meet(s, from, q, there, t, k, m) ==
    \A f, g : IsAfter(f, s, t, from) /\ IsAfter(g, q, t, there) => f[k + m] = g[k]

\* Two patches that agree from some block on, and on the rows before it, agree on
\* the rows after them.
LEMMA RowsAfterAgree ==
    ASSUME NEW s \in Seq(Payload), NEW q \in Seq(Payload), NEW t \in Table,
           NEW from \in Rows, NEW there \in Rows, NEW m \in Nat, NEW k \in 0..Len(q),
           Len(s) = Len(q) + m,
           \A i \in (k + 1)..Len(q) : q[i][t] = s[i + m][t],
           Meet(s, from, q, there, t, k, m)
    PROVE  RowsAfter(s, t, from) = RowsAfter(q, t, there)
<1> DEFINE n == Len(q)
<1>1. n \in Nat /\ k \in Nat /\ k <= n /\ n - k \in Nat
  OBVIOUS
<1>2. PICK f \in [0..Len(s) -> Rows] : IsAfter(f, s, t, from) /\ RowsAfter(s, t, from) = f[Len(s)]
  BY RowsAfterIs
<1>3. PICK g \in [0..n -> Rows] : IsAfter(g, q, t, there) /\ RowsAfter(q, t, there) = g[n]
  BY RowsAfterIs
<1>4. /\ \A i \in 0..(n + m) : f[i] = IF i = 0 THEN from ELSE RowsAfterDelta(s[i][t], f[i - 1])
      /\ \A i \in 0..n : g[i] = IF i = 0 THEN there ELSE RowsAfterDelta(q[i][t], g[i - 1])
  BY <1>2, <1>3 DEF IsAfter
<1> DEFINE S == {i \in 0..(n - k) : f[k + i + m] = g[k + i]}
<1>5. 0 \in S
  <2>1. f[k + m] = g[k]
    BY <1>2, <1>3 DEF Meet
  <2>2. k + 0 + m = k + m /\ k + 0 = k
    BY <1>1
  <2> QED BY <1>1, <2>1, <2>2
<1> HIDE DEF n
<1>6. ASSUME NEW i \in 0..((n - k) - 1), i \in S PROVE i + 1 \in S
  <2>1. /\ k + (i + 1) + m \in 0..(n + m) /\ k + (i + 1) + m # 0
        /\ (k + (i + 1) + m) - 1 = k + i + m
        /\ k + (i + 1) \in 0..n /\ k + (i + 1) # 0 /\ (k + (i + 1)) - 1 = k + i
        /\ k + (i + 1) \in (k + 1)..n /\ i + 1 \in 0..(n - k)
    <3>1. i \in Nat /\ i < n - k /\ k \in Nat /\ n \in Nat /\ m \in Nat
      BY <1>1
    <3>2. k + (i + 1) \in 0..n /\ k + (i + 1) # 0 /\ k + (i + 1) \in (k + 1)..n
          /\ i + 1 \in 0..(n - k)
      BY <3>1
    <3>3. k + (i + 1) + m \in 0..(n + m) /\ k + (i + 1) + m # 0
      BY <3>1
    <3>4. (k + (i + 1) + m) - 1 = k + i + m /\ (k + (i + 1)) - 1 = k + i
      BY <3>1
    <3> QED BY <3>2, <3>3, <3>4
  <2>2. f[k + (i + 1) + m] = RowsAfterDelta(s[k + (i + 1) + m][t], f[k + i + m])
    BY <1>4, <2>1
  <2>3. g[k + (i + 1)] = RowsAfterDelta(q[k + (i + 1)][t], g[k + i])
    BY <1>4, <2>1
  <2>4. q[k + (i + 1)][t] = s[k + (i + 1) + m][t]
    BY <2>1 DEF n
  <2>5. f[k + i + m] = g[k + i]
    BY <1>6
  <2> QED BY <2>1, <2>2, <2>3, <2>4, <2>5
<1> HIDE DEF S
<1>7. \A i \in 0..(n - k) : i \in S
  BY <1>1, <1>5, <1>6, BoundedInduction
<1>8. n - k \in 0..(n - k) /\ k + (n - k) + m = n + m /\ k + (n - k) = n
  BY <1>1
<1>9. n - k \in S
  BY <1>7, <1>8
<1>10. f[n + m] = g[n]
  BY <1>8, <1>9 DEF S
<1>11. Len(s) = n + m
  BY DEF n
<1> QED BY <1>2, <1>3, <1>10, <1>11

LEMMA RowsAfterSame ==
    ASSUME NEW s \in Seq(Payload), NEW q \in Seq(Payload), NEW t \in Table,
           NEW from \in Rows, Len(s) = Len(q), \A i \in 1..Len(q) : q[i][t] = s[i][t]
    PROVE  RowsAfter(s, t, from) = RowsAfter(q, t, from)
<1>1. 0 \in Nat /\ 0 \in 0..Len(q) /\ Len(s) = Len(q) + 0 /\ 0 + 1 = 1 /\ 0 + 0 = 0
  OBVIOUS
<1>2. \A i \in (0 + 1)..Len(q) : q[i][t] = s[i + 0][t]
  OBVIOUS
<1>3. Meet(s, from, q, from, t, 0, 0)
  BY <1>1 DEF IsAfter, Meet
<1> QED BY <1>1, <1>2, <1>3, RowsAfterAgree

\* The first block of a patch is applied first.
LEMMA RowsAfterFirst ==
    ASSUME NEW s \in Seq(Payload), NEW q \in Seq(Payload), NEW t \in Table,
           NEW from \in Rows, Len(s) = Len(q), s # <<>>, q[1][t] = None,
           \A i \in 2..Len(q) : q[i][t] = s[i][t]
    PROVE  RowsAfter(s, t, from) = RowsAfter(q, t, RowsAfterDelta(s[1][t], from))
<1> DEFINE mid == RowsAfterDelta(s[1][t], from)
<1>1. Len(q) \in Nat /\ Len(q) >= 1
  BY EmptySeq
<1>2. mid \in Rows
  BY <1>1, RowsAfterDeltaType DEF Payload
<1> HIDE DEF mid
<1>3. 0 \in Nat /\ 1 \in 0..Len(q) /\ Len(s) = Len(q) + 0 /\ 1 + 0 = 1
  BY <1>1
<1>4. \A i \in (1 + 1)..Len(q) : q[i][t] = s[i + 0][t]
  BY <1>1
<1>5. ASSUME NEW f, NEW g, IsAfter(f, s, t, from), IsAfter(g, q, t, mid)
      PROVE  f[1 + 0] = g[1]
  <2>1. 0 \in 0..Len(q) /\ 1 - 1 = 0 /\ 1 # 0
    BY <1>1
  <2>2. f[0] = from /\ f[1] = RowsAfterDelta(s[1][t], f[0])
    BY <1>3, <1>5, <2>1 DEF IsAfter
  <2>3. g[0] = mid /\ g[1] = RowsAfterDelta(q[1][t], g[0])
    BY <1>3, <1>5, <2>1 DEF IsAfter
  <2> QED BY <1>3, <2>2, <2>3 DEF mid, RowsAfterDelta
<1>6. Meet(s, from, q, mid, t, 1, 0)
  BY <1>5 DEF Meet
<1> QED BY <1>2, <1>3, <1>4, <1>6, RowsAfterAgree DEF mid

\* A first block without a delta for the table does nothing to it.
LEMMA RowsAfterTail ==
    ASSUME NEW s \in Seq(Payload), NEW t \in Table, NEW from \in Rows, s # <<>>, s[1][t] = None
    PROVE  RowsAfter(s, t, from) = RowsAfter(Tail(s), t, from)
<1> DEFINE q == Tail(s)
<1>1. /\ q \in Seq(Payload) /\ Len(q) \in Nat /\ Len(s) = Len(q) + 1
      /\ \A i \in 1..Len(q) : q[i] = s[i + 1]
  <2>1. /\ q \in Seq(Payload) /\ Len(q) = Len(s) - 1 /\ Len(s) \in Nat
        /\ \A i \in 1..Len(q) : q[i] = s[i + 1]
    BY HeadTailProperties
  <2> HIDE DEF q
  <2> QED BY <2>1, EmptySeq
<1> HIDE DEF q
<1>2. 1 \in Nat /\ 0 \in 0..Len(q) /\ 0 + 1 = 1
  BY <1>1
<1>3. \A i \in (0 + 1)..Len(q) : q[i][t] = s[i + 1][t]
  BY <1>1
<1>4. ASSUME NEW f, NEW g, IsAfter(f, s, t, from), IsAfter(g, q, t, from)
      PROVE  f[0 + 1] = g[0]
  <2>1. 0 \in 0..Len(s) /\ 1 \in 0..Len(s) /\ 1 - 1 = 0 /\ 1 # 0
    BY <1>1
  <2>2. f[0] = from /\ f[1] = RowsAfterDelta(s[1][t], f[0])
    BY <1>4, <2>1 DEF IsAfter
  <2>3. g[0] = from
    BY <1>2, <1>4 DEF IsAfter
  <2> QED BY <1>2, <2>2, <2>3 DEF RowsAfterDelta
<1>5. Meet(s, from, q, from, t, 0, 1)
  BY <1>4 DEF Meet
<1>6. RowsAfter(s, t, from) = RowsAfter(q, t, from)
  BY <1>1, <1>2, <1>3, <1>5, RowsAfterAgree
<1> QED BY <1>6 DEF q

\* What does not apply is not made good by the blocks that follow.
LEMMA RowsAfterTorn ==
    ASSUME NEW s \in Seq(Payload), NEW t \in Table
    PROVE  RowsAfter(s, t, Torn) = Torn
<1> DEFINE n == Len(s)
<1>1. n \in Nat /\ Torn \in Rows
  BY DEF Rows
<1>2. PICK f \in [0..n -> Rows] : IsAfter(f, s, t, Torn) /\ RowsAfter(s, t, Torn) = f[n]
  BY <1>1, RowsAfterIs
<1>3. \A i \in 0..n : f[i] = IF i = 0 THEN Torn ELSE RowsAfterDelta(s[i][t], f[i - 1])
  BY <1>2 DEF IsAfter
<1> HIDE DEF n
<1> DEFINE S == {i \in 0..n : f[i] = Torn}
<1>4. 0 \in S
  BY <1>1, <1>3
<1>5. ASSUME NEW i \in 0..(n - 1), i \in S PROVE i + 1 \in S
  <2>1. i + 1 \in 0..n /\ i + 1 # 0 /\ (i + 1) - 1 = i
    BY <1>1
  <2>2. f[i + 1] = RowsAfterDelta(s[i + 1][t], f[i]) /\ f[i] = Torn
    BY <1>3, <1>5, <2>1
  <2>3. f[i + 1] = Torn
    BY <2>2 DEF RowsAfterDelta
  <2> QED BY <2>1, <2>3
<1> HIDE DEF S
<1>6. \A i \in 0..n : i \in S
  BY <1>1, <1>4, <1>5, BoundedInduction
<1>7. f[n] = Torn
  BY <1>1, <1>6 DEF S
<1> QED BY <1>2, <1>7

LEMMA RowsAfterEmpty ==
    ASSUME NEW t \in Table, NEW from \in Rows
    PROVE  RowsAfter(<<>>, t, from) = from
<1>1. <<>> \in Seq(Payload) /\ Len(<<>>) = 0
  OBVIOUS
<1>2. PICK f \in [0..0 -> Rows] :
        IsAfter(f, <<>>, t, from) /\ RowsAfter(<<>>, t, from) = f[0]
  BY <1>1, RowsAfterIs
<1> QED BY <1>1, <1>2 DEF IsAfter

-----------------------------------------------------------------------------
(* What the server has been handed *)

LEMMA DeltasType ==
    ASSUME NEW handed \in Seq(HandedBlock)
    PROVE  /\ DeltasOf(handed) \in Seq(Payload)
           /\ Len(DeltasOf(handed)) = Len(handed)
           /\ Len(handed) \in Nat
           /\ \A i \in 1..Len(handed), t \in Table :
                /\ handed[i] \in HandedBlock
                /\ handed[i][t] \in HandedEntry \cup {None}
                /\ DeltasOf(handed)[i][t] =
                      IF handed[i][t] = None THEN None ELSE handed[i][t].delta
<1>1. Len(handed) \in Nat /\ DOMAIN handed = 1..Len(handed)
  OBVIOUS
<1>2. ASSUME NEW i \in 1..Len(handed)
      PROVE  /\ handed[i] \in HandedBlock
             /\ \A t \in Table : handed[i][t] \in HandedEntry \cup {None}
             /\ [t \in Table |-> IF handed[i][t] = None THEN None ELSE handed[i][t].delta]
                   \in Payload
  <2>1. handed[i] \in HandedBlock
    OBVIOUS
  <2>2. \A t \in Table : handed[i][t] \in HandedEntry \cup {None}
    BY <2>1 DEF HandedBlock
  <2> QED BY <2>1, <2>2 DEF HandedEntry, Payload
<1>3. DeltasOf(handed) \in [1..Len(handed) -> Payload]
  BY <1>1, <1>2 DEF DeltasOf
<1>4. DeltasOf(handed) \in Seq(Payload) /\ Len(DeltasOf(handed)) = Len(handed)
  BY <1>1, <1>3
<1> QED BY <1>1, <1>2, <1>4 DEF DeltasOf

\* A table is led where it was as long as its deltas are the same.
LEMMA LeadsSame ==
    ASSUME NEW handed \in Seq(HandedBlock), NEW rest \in Seq(HandedBlock),
           Len(rest) = Len(handed), NEW t \in Table,
           \A i \in 1..Len(handed) : rest[i][t] = handed[i][t],
           NEW there, NEW last, Leads(handed, t, there, last)
    PROVE  Leads(rest, t, there, last)
<1>1. CASE Rebases(handed, t)
  <2>1. 1 \in 1..Len(handed)
    BY <1>1, DeltasType DEF Rebases
  <2>2. rest[1][t] = handed[1][t]
    BY <2>1
  <2>3. Rebases(rest, t)
    BY <1>1, <2>2 DEF Rebases
  <2> QED BY <2>3 DEF Leads
<1>2. CASE ~Rebases(handed, t)
  <2>1. PICK s \in State : /\ there = RowsOf(s)
                           /\ RowsAfter(DeltasOf(handed), t, s) = last
    BY <1>2 DEF Leads
  <2>2. s \in Rows
    BY DEF Rows
  <2>3. /\ DeltasOf(handed) \in Seq(Payload) /\ DeltasOf(rest) \in Seq(Payload)
        /\ Len(DeltasOf(handed)) = Len(DeltasOf(rest))
        /\ \A i \in 1..Len(DeltasOf(rest)) : DeltasOf(rest)[i][t] = DeltasOf(handed)[i][t]
    BY DeltasType
  <2>4. RowsAfter(DeltasOf(handed), t, s) = RowsAfter(DeltasOf(rest), t, s)
    BY <2>2, <2>3, RowsAfterSame
  <2> QED BY <2>1, <2>4 DEF Leads
<1> QED BY <1>1, <1>2

\* A block that is done with leads nowhere.
LEMMA LeadsTail ==
    ASSUME NEW handed \in Seq(HandedBlock), handed # <<>>, NEW t \in Table,
           handed[1][t] = None, NEW there, NEW last, Leads(handed, t, there, last)
    PROVE  Leads(Tail(handed), t, there, last)
<1>1. PICK s \in State : /\ there = RowsOf(s)
                         /\ RowsAfter(DeltasOf(handed), t, s) = last
  BY DEF Leads, Rebases
<1>2. s \in Rows
  BY DEF Rows
<1> DEFINE rest == Tail(handed)
           D == DeltasOf(handed)
           Q == DeltasOf(rest)
<1>3. /\ rest \in Seq(HandedBlock) /\ Len(rest) = Len(handed) - 1
      /\ \A i \in 1..Len(rest) : rest[i] = handed[i + 1]
  BY HeadTailProperties
<1> HIDE DEF rest
<1>4. /\ D \in Seq(Payload) /\ Len(D) = Len(handed) /\ Len(handed) \in Nat
      /\ \A i \in 1..Len(handed) : D[i][t] = IF handed[i][t] = None THEN None ELSE handed[i][t].delta
  BY DeltasType
<1>5. /\ Q \in Seq(Payload) /\ Len(Q) = Len(rest) /\ Len(rest) \in Nat
      /\ \A i \in 1..Len(rest) : Q[i][t] = IF rest[i][t] = None THEN None ELSE rest[i][t].delta
  BY <1>3, DeltasType
<1>6. Len(handed) >= 1
  BY <1>4, EmptySeq
<1> HIDE DEF D, Q
<1>7. D # <<>> /\ D[1][t] = None
  BY <1>4, <1>6
<1>8. /\ Tail(D) \in Seq(Payload) /\ Len(Tail(D)) = Len(D) - 1
      /\ \A i \in 1..Len(Tail(D)) : Tail(D)[i] = D[i + 1]
  BY <1>4, <1>7, HeadTailProperties
<1>9. Len(Tail(D)) = Len(Q)
  BY <1>3, <1>4, <1>5, <1>8
<1>10. ASSUME NEW i \in 1..Len(Q) PROVE Q[i][t] = Tail(D)[i][t]
  <2>1. i \in 1..Len(rest) /\ i + 1 \in 1..Len(handed) /\ i \in 1..Len(Tail(D))
    BY <1>3, <1>4, <1>5, <1>9
  <2> QED BY <1>3, <1>4, <1>5, <1>8, <2>1
<1>11. RowsAfter(D, t, s) = RowsAfter(Tail(D), t, s)
  BY <1>2, <1>4, <1>7, RowsAfterTail
<1>12. RowsAfter(Tail(D), t, s) = RowsAfter(Q, t, s)
  BY <1>2, <1>5, <1>8, <1>9, <1>10, RowsAfterSame
<1> QED BY <1>1, <1>11, <1>12 DEF D, Q, rest, Leads

LEMMA LeadsDone ==
    ASSUME NEW t \in Table, NEW there, NEW last, Leads(<<>>, t, there, last)
    PROVE  there = RowsOf(last)
<1>1. <<>> \in Seq(HandedBlock) /\ Len(<<>>) = 0
  OBVIOUS
<1>2. ~Rebases(<<>>, t)
  BY <1>1 DEF Rebases
<1>3. PICK s \in State : /\ there = RowsOf(s)
                         /\ RowsAfter(DeltasOf(<<>>), t, s) = last
  BY <1>2 DEF Leads
<1>4. DeltasOf(<<>>) \in Seq(Payload) /\ Len(DeltasOf(<<>>)) = 0
  BY <1>1, DeltasType
<1>5. DeltasOf(<<>>) = <<>>
  BY <1>4, EmptySeq
<1>6. s \in Rows
  BY DEF Rows
<1>7. RowsAfter(<<>>, t, s) = s
  BY <1>6, RowsAfterEmpty
<1> QED BY <1>3, <1>5, <1>7

\* The blocks without the delta that was applied last.
Rest(handed, t) == <<[handed[1] EXCEPT ![t] = None]>> \o Tail(handed)

LEMMA RestType ==
    ASSUME NEW handed \in Seq(HandedBlock), handed # <<>>, NEW t \in Table
    PROVE  /\ Rest(handed, t) \in Seq(HandedBlock) /\ Len(Rest(handed, t)) = Len(handed)
           /\ Rest(handed, t)[1][t] = None
           /\ \A u \in Table \ {t} : Rest(handed, t)[1][u] = handed[1][u]
           /\ \A i \in 2..Len(handed) : Rest(handed, t)[i] = handed[i]
<1> DEFINE first == [handed[1] EXCEPT ![t] = None]
           tail  == Tail(handed)
<1>1. Len(handed) \in Nat /\ Len(handed) >= 1
  BY EmptySeq
<1>2. handed[1] \in HandedBlock
  BY <1>1
<1>3. first \in HandedBlock /\ first[t] = None /\ \A u \in Table \ {t} : first[u] = handed[1][u]
  BY <1>2 DEF HandedBlock
<1>4. /\ tail \in Seq(HandedBlock) /\ Len(tail) = Len(handed) - 1
      /\ \A i \in 1..Len(tail) : tail[i] = handed[i + 1]
  BY HeadTailProperties
<1> HIDE DEF first, tail
<1> DEFINE rest == <<first>> \o tail
<1>5. /\ <<first>> \in Seq(HandedBlock) /\ Len(<<first>>) = 1 /\ <<first>>[1] = first
  BY <1>3
<1> DEFINE one == <<first>>
<1> HIDE DEF one
<1>6. /\ one \o tail \in Seq(HandedBlock) /\ Len(one \o tail) = Len(one) + Len(tail)
      /\ \A i \in 1..(Len(one) + Len(tail)) :
            (one \o tail)[i] = IF i <= Len(one) THEN one[i] ELSE tail[i - Len(one)]
  BY <1>4, <1>5, ConcatProperties DEF one
<1>7. rest = one \o tail /\ Len(one) = 1 /\ one[1] = first
  BY <1>5 DEF one
<1> HIDE DEF rest
<1>8. rest \in Seq(HandedBlock) /\ Len(rest) = Len(handed)
  BY <1>1, <1>4, <1>6, <1>7
<1>9. rest[1] = first
  BY <1>1, <1>4, <1>6, <1>7
<1>10. ASSUME NEW i \in 2..Len(handed) PROVE rest[i] = handed[i]
  <2>1. /\ i \in 1..(Len(one) + Len(tail)) /\ ~(i <= Len(one)) /\ i - Len(one) = i - 1
        /\ i - 1 \in 1..Len(tail) /\ (i - 1) + 1 = i
    BY <1>1, <1>4, <1>7
  <2>2. rest[i] = tail[i - 1]
    BY <1>6, <1>7, <2>1
  <2> QED BY <1>4, <2>1, <2>2
<1>11. Rest(handed, t) = rest
  BY DEF Rest, rest, first, tail
<1> QED BY <1>3, <1>8, <1>9, <1>10, <1>11

\* The other tables are led where they were.
LEMMA LeadsOthers ==
    ASSUME NEW handed \in Seq(HandedBlock), handed # <<>>, NEW t \in Table,
           NEW u \in Table, u # t, NEW there, NEW last, Leads(handed, u, there, last)
    PROVE  Leads(Rest(handed, t), u, there, last)
<1> DEFINE rest == Rest(handed, t)
<1>1. /\ rest \in Seq(HandedBlock) /\ Len(rest) = Len(handed) /\ Len(handed) \in Nat
      /\ rest[1][u] = handed[1][u]
      /\ \A i \in 2..Len(handed) : rest[i] = handed[i]
  BY RestType
<1> HIDE DEF rest
<1>2. \A i \in 1..Len(handed) : rest[i][u] = handed[i][u]
  <2>1. \A i \in 1..Len(handed) : i = 1 \/ i \in 2..Len(handed)
    BY <1>1
  <2> QED BY <1>1, <2>1
<1>3. Leads(rest, u, there, last)
  BY <1>1, <1>2, LeadsSame
<1> QED BY <1>3 DEF rest

\* A delta that is applied is not missed by any row, violates no key, and leaves
\* the table on its way.
Succeeds(d, there, t, handed, last) ==
    \E new \in State :
        /\ ~Misses(d, there)
        /\ CsvApplied(d, there) = RowsOf(new)
        /\ SqlApplied(d, there) = RowsOf(new)
        /\ Leads(Rest(handed, t), t, RowsOf(new), last)

LEMMA RebaseSucceeds ==
    ASSUME NEW new \in State, NEW there, NEW d, d = DeltaCreate("rebase", new, EmptyObject)
    PROVE  ~Misses(d, there) /\ CsvApplied(d, there) = RowsOf(new) /\ SqlApplied(d, there) = RowsOf(new)
BY RebaseApplied

LEMMA LeadsHead ==
    ASSUME NEW handed \in Seq(HandedBlock), handed # <<>>, NEW t \in Table,
           handed[1][t] # None, NEW there, NEW goal, NEW last \in State,
           EntryOK(handed[1][t], goal, last), Leads(handed, t, there, last)
    PROVE  Succeeds(handed[1][t].delta, there, t, handed, last)
<1> DEFINE entry == handed[1][t]
           d     == entry.delta
           rest  == Rest(handed, t)
           D     == DeltasOf(handed)
           Q     == DeltasOf(rest)
           rebase == DeltaCreate("rebase", last, EmptyObject)
<1>1. Len(handed) \in Nat /\ Len(handed) >= 1
  BY EmptySeq
<1>2. /\ rest \in Seq(HandedBlock) /\ Len(rest) = Len(handed) /\ rest[1][t] = None
      /\ \A i \in 2..Len(handed) : rest[i] = handed[i]
  BY RestType
<1> HIDE DEF rest
<1>3. /\ D \in Seq(Payload) /\ Len(D) = Len(handed) /\ entry \in HandedEntry \cup {None}
      /\ \A i \in 1..Len(handed) : D[i][t] = IF handed[i][t] = None THEN None ELSE handed[i][t].delta
  BY <1>1, DeltasType
<1>4. /\ Q \in Seq(Payload) /\ Len(Q) = Len(rest)
      /\ \A i \in 1..Len(rest) : Q[i][t] = IF rest[i][t] = None THEN None ELSE rest[i][t].delta
  BY <1>2, DeltasType
<1>5. D[1][t] = d /\ Q[1][t] = None /\ d \in Delta
  BY <1>1, <1>2, <1>3, <1>4 DEF HandedEntry
<1>6. d \in CleanDelta \/ d = rebase
  BY DEF EntryOK
<1> HIDE DEF entry, d, D, Q, rebase
<1>7. last \in State /\ last \in Rows
  BY DEF Rows
<1>8. d.type = "rebase" => d = rebase
  BY <1>6 DEF CleanDelta
<1>9. d = rebase => /\ ~Misses(d, there) /\ CsvApplied(d, there) = RowsOf(last)
                    /\ SqlApplied(d, there) = RowsOf(last)
  BY <1>7, RebaseSucceeds DEF rebase
<1>10. CASE Rebases(handed, t)
  <2>1. d = rebase /\ Len(handed) = 1
    BY <1>8, <1>10 DEF Rebases, d, entry
  <2>2. RowsAfter(Q, t, last) = RowsAfterDelta(Q[1][t], last)
    BY <1>2, <1>4, <1>7, <2>1, RowsAfterOne
  <2>3. RowsAfter(Q, t, last) = last
    BY <1>5, <2>2 DEF RowsAfterDelta
  <2>4. Leads(rest, t, RowsOf(last), last)
    BY <1>7, <2>3 DEF Leads, Q
  <2> QED BY <1>7, <1>9, <2>1, <2>4 DEF Succeeds, d, entry, rest
<1>11. CASE ~Rebases(handed, t)
  <2>1. PICK s \in State : there = RowsOf(s) /\ RowsAfter(D, t, s) = last
    BY <1>11 DEF Leads, D
  <2>2. s \in Rows
    BY DEF Rows
  <2>3. D # <<>> /\ Len(D) = Len(Q)
    BY <1>1, <1>2, <1>3, <1>4
  <2>4. ASSUME NEW i \in 2..Len(Q) PROVE Q[i][t] = D[i][t]
    <3>1. i \in 1..Len(handed) /\ i \in 2..Len(handed)
      BY <1>1, <1>2, <1>4
    <3> QED BY <1>2, <1>3, <1>4, <3>1
  <2>5. RowsAfter(D, t, s) = RowsAfter(Q, t, RowsAfterDelta(d, s))
    BY <1>3, <1>4, <1>5, <2>2, <2>3, <2>4, RowsAfterFirst
  <2>6. Torn \notin State
    BY ChainAssumption
  <2>7. RowsAfterDelta(d, s) # Torn
    BY <1>4, <1>7, <2>1, <2>5, <2>6, RowsAfterTorn
  <2>8. d # None
    BY <1>5, ChainAssumption
  <2>9. AppliesTo(d, s) /\ RowsAfterDelta(d, s) = PatchedRows(d, s)
    BY <2>6, <2>7, <2>8 DEF RowsAfterDelta
  <2> DEFINE new == PatchedRows(d, s)
  <2>10. new \in State
    BY <1>5, PatchedRowsType
  <2>11. Leads(rest, t, RowsOf(new), last)
    BY <2>1, <2>5, <2>9, <2>10 DEF Leads, Q
  <2>12. ~Misses(d, there) /\ CsvApplied(d, there) = RowsOf(new) /\ SqlApplied(d, there) = RowsOf(new)
    <3>1. CASE d \in CleanDelta
      <4>1. d \in Delta /\ d.type = "delta" /\ Separate(d)
        BY <3>1 DEF CleanDelta
      <4> QED BY <2>1, <2>9, <4>1, SeparateApplied
    <3>2. CASE d = rebase
      <4>1. new = last
        BY <1>7, <3>2, RebaseTakes DEF Takes, rebase
      <4> QED BY <1>9, <3>2, <4>1
    <3> QED BY <1>6, <3>1, <3>2
  <2> QED BY <2>10, <2>11, <2>12 DEF Succeeds, d, entry, rest
<1> QED BY <1>10, <1>11

-----------------------------------------------------------------------------
(* What the patches contain is as it should be *)

LEMMA PatchesBecome ==
    ASSUME TypeInv, PatchesInv, NEW p \in Process, NEW me, Become(p, me), config' = config,
           CleanOK(me), FullOK(me)
    PROVE  PatchesInv'
<1>1. \A q \in Process : local'[q] = IF q = p THEN me ELSE local[q]
  BY DEF Become, TypeInv, TypeOK
<1>2. config' = Table /\ \A q \in Process : CleanOK(local[q]) /\ FullOK(local[q])
  BY DEF PatchesInv
<1>3. ASSUME NEW q \in Process PROVE CleanOK(local'[q]) /\ FullOK(local'[q])
  <2>1. CASE q = p
    BY <1>1, <2>1
  <2>2. CASE q # p
    BY <1>1, <1>2, <2>2
  <2> QED BY <2>1, <2>2
<1>4. \A q \in Process : (CleanOK(local[q]))' /\ (FullOK(local[q]))'
  BY <1>3 DEF CleanOK, FullOK
<1> QED BY <1>2, <1>4 DEF PatchesInv

\* The command makes no patch, and is not about to.
NoPatch(p) == \E me : Become(p, me) /\ me.pc \notin {"merge", "rebase", "patched"}

LEMMA NoPatchIntro ==
    \A p, me : Become(p, me) /\ me.pc \notin {"merge", "rebase", "patched"} => NoPatch(p)
BY DEF NoPatch

LEMMA NoPatchStep ==
    ASSUME TypeInv, PatchesInv, NEW p \in Process, NoPatch(p), config' = config
    PROVE  PatchesInv'
<1>1. PICK me : Become(p, me) /\ me.pc \notin {"merge", "rebase", "patched"}
  BY DEF NoPatch
<1>2. CleanOK(me) /\ FullOK(me)
  BY <1>1 DEF CleanOK, FullOK
<1> QED BY <1>1, <1>2, PatchesBecome

\* What has been merged so far has the effect of one delta.
LEMMA ChildClean ==
    ASSUME TypeInv, NEW me \in Local, DiffOK(me), me.pc = "merge", me.at # Torn
    PROVE  me.child \in CleanPayload /\ Unmerged(me.child) \in CleanPayload
<1>1. /\ Settled(me.tip) /\ me.at \in 0..me.tip
      /\ \A t \in Table : \E mid \in State : Carries(me.child[t], stateAt[me.at][t], mid)
  BY DEF DiffOK
<1>2. me.child \in [Table -> Delta \cup {None}]
  BY LocalFields DEF Payload
<1>3. ASSUME NEW t \in Table PROVE me.child[t] \in CleanDelta \cup {None}
  <2>1. PICK mid \in State : Carries(me.child[t], stateAt[me.at][t], mid)
    BY <1>1
  <2>2. stateAt[me.at][t] \in State
    BY <1>1, SettledState
  <2> DEFINE d   == me.child[t]
             old == stateAt[me.at][t]
  <2>3. d \in Delta \cup {None}
    BY <1>2
  <2>4. CASE d # None
    <3>1. d \in Delta /\ d.type = "delta" /\ NetEffect(d, old, mid)
      BY <2>1, <2>3, <2>4 DEF Carries
    <3> HIDE DEF d, old
    <3>2. Separate(d)
      BY <2>2, <3>1, NetEffectSeparate DEF old
    <3> QED BY <3>1, <3>2 DEF CleanDelta, d
  <2> QED BY <2>4
<1>4. me.child \in CleanPayload
  BY <1>2, <1>3 DEF CleanPayload
<1> QED BY <1>4 DEF CleanPayload, Unmerged

LEMMA ReverseType ==
    ASSUME NEW S, NEW s \in Seq(S), NEW x \in S
    PROVE  Reverse(Append(s, x)) \in Seq(S)
<1> DEFINE long == Append(s, x)
<1>1. long \in Seq(S) /\ Len(long) \in Nat
  OBVIOUS
<1> HIDE DEF long
<1>2. ASSUME NEW i \in 1..Len(long) PROVE long[(Len(long) - i) + 1] \in S
  <2>1. (Len(long) - i) + 1 \in 1..Len(long)
    BY <1>1
  <2> QED BY <1>1, <2>1
<1>3. Reverse(long) = [i \in 1..Len(long) |-> long[(Len(long) - i) + 1]]
  BY DEF Reverse
<1>4. Reverse(long) \in [1..Len(long) -> S]
  BY <1>2, <1>3
<1> QED BY <1>1, <1>4 DEF long

LEMMA DiffPatches ==
    ASSUME TypeInv, DiffInv, PatchesInv, NEW p \in Process, Diff(p)
    PROVE  PatchesInv'
<1> DEFINE me == local[p]
<1>1. me \in Local /\ DiffOK(me) /\ CleanOK(me) /\ config' = config
  BY ReadKeepsFiles DEF TypeInv, TypeOK, DiffInv, PatchesInv
<1>2. CASE DiffResolve(p)
  <2>1. NoPatch(p)
    BY <1>2, NoPatchIntro DEF DiffResolve, DiffFrom, Failed
  <2> QED BY <1>1, <2>1, NoPatchStep
<1>3. CASE DiffHead(p)
  <2>1. PICK next : next = [pc |-> "merge", goal |-> me.goal, tables |-> config, tip |-> head,
                            at |-> head, child |-> NoDeltas, kept |-> <<>>]
    OBVIOUS
  <2>2. Become(p, next)
    BY <1>3, <2>1 DEF DiffHead
  <2>3. next.pc = "merge" /\ next.kept = <<>> /\ <<>> \in Seq(CleanPayload)
    BY <2>1
  <2>4. CleanOK(next) /\ FullOK(next)
    BY <2>3 DEF CleanOK, FullOK
  <2> QED BY <1>1, <2>2, <2>4, PatchesBecome
<1>4. CASE DiffMerge(p)
  <2>1. CASE Become(p, Failed("diff")) \/ Become(p, Crashed("diff"))
    <3>1. NoPatch(p)
      BY <2>1, NoPatchIntro DEF Failed, Crashed
    <3> QED BY <1>1, <3>1, NoPatchStep
  <2>2. CASE ~(Become(p, Failed("diff")) \/ Become(p, Crashed("diff")))
    <3> DEFINE rest == Unmerged(me.child)
    <3>1. PICK next : next = [pc |-> "merge", goal |-> me.goal, tables |-> me.tables,
                              tip |-> me.tip, at |-> blocks[me.at].parent,
                              child |-> Merged(blocks[me.at].payload, me.child),
                              kept |-> IF rest = NoDeltas THEN me.kept
                                       ELSE Append(me.kept, rest)]
      OBVIOUS
    <3>2. me.pc = "merge" /\ Loadable(me.at) /\ Become(p, next)
      BY <1>4, <2>2, <3>1 DEF DiffMerge
    <3>3. next.pc = "merge" /\ next.kept = IF rest = NoDeltas THEN me.kept ELSE Append(me.kept, rest)
      BY <3>1
    <3>4. me.at # Torn
      BY <3>2, ChainAssumption DEF Loadable, BlockId
    <3>5. rest \in CleanPayload /\ me.kept \in Seq(CleanPayload)
      BY <1>1, <3>2, <3>4, ChildClean DEF CleanOK
    <3> HIDE DEF rest
    <3>6. next.kept \in Seq(CleanPayload)
      <4>1. Append(me.kept, rest) \in Seq(CleanPayload)
        BY <3>5
      <4> QED BY <3>3, <3>5, <4>1
    <3>7. CleanOK(next) /\ FullOK(next)
      BY <3>3, <3>6 DEF CleanOK, FullOK
    <3> QED BY <1>1, <3>2, <3>7, PatchesBecome
  <2> QED BY <2>1, <2>2
<1>5. CASE DiffEnd(p)
  <2>1. PICK next : next = [pc |-> "patched", op |-> "diff", goal |-> me.goal, tip |-> me.tip,
                            patch |-> Reverse(Append(me.kept, me.child))]
    OBVIOUS
  <2>2. me.pc = "merge" /\ me.at = me.goal /\ Become(p, next)
    BY <1>5, <2>1 DEF DiffEnd
  <2>3. me.at # Torn
    <3>1. me.goal \in Tip
      BY <1>1, <2>2, LocalFields
    <3> QED BY <2>2, <3>1, ChainAssumption DEF Tip, BlockId, Genesis
  <2>4. me.child \in CleanPayload /\ me.kept \in Seq(CleanPayload)
    BY <1>1, <2>2, <2>3, ChildClean DEF CleanOK
  <2>5. Reverse(Append(me.kept, me.child)) \in Seq(CleanPayload)
    BY <2>4, ReverseType
  <2>6. next.pc = "patched" /\ next.op = "diff" /\ next.patch \in Seq(CleanPayload)
    BY <2>1, <2>5
  <2>7. CleanOK(next) /\ FullOK(next)
    BY <2>6 DEF CleanOK, FullOK
  <2> QED BY <1>1, <2>2, <2>7, PatchesBecome
<1> QED BY <1>2, <1>3, <1>4, <1>5 DEF Diff

LEMMA RebasePatches ==
    ASSUME TypeInv, PatchesInv, NEW p \in Process, Rebase(p)
    PROVE  PatchesInv'
<1> DEFINE me == local[p]
<1>1. me \in Local /\ FullOK(me) /\ config' = config /\ config = Table
  BY ReadKeepsFiles DEF TypeInv, TypeOK, PatchesInv
<1>2. CASE RebaseStart(p)
  <2>1. PICK next : next = [pc |-> "rebase", todo |-> config, payload |-> NoDeltas]
    OBVIOUS
  <2>2. Become(p, next)
    BY <1>2, <2>1 DEF RebaseStart
  <2>3. next.pc = "rebase" /\ next.todo = Table
    BY <1>1, <2>1
  <2>4. CleanOK(next) /\ FullOK(next)
    BY <2>3 DEF CleanOK, FullOK
  <2> QED BY <1>1, <2>2, <2>4, PatchesBecome
<1>3. CASE RebaseLoad(p)
  <2>1. PICK t \in me.todo :
            IF snapshot[t] = Torn
            THEN Become(p, Failed("rebase"))
            ELSE Become(p, [pc |-> "rebase", todo |-> me.todo \ {t},
                            payload |-> [me.payload EXCEPT ![t] =
                                DeltaCreate("rebase", snapshot[t], EmptyObject)]])
    BY <1>3 DEF RebaseLoad
  <2>2. CASE snapshot[t] = Torn
    <3>1. NoPatch(p)
      BY <2>1, <2>2, NoPatchIntro DEF Failed
    <3> QED BY <1>1, <3>1, NoPatchStep
  <2>3. CASE snapshot[t] # Torn
    <3> DEFINE delta == DeltaCreate("rebase", snapshot[t], EmptyObject)
    <3>1. PICK next : next = [pc |-> "rebase", todo |-> me.todo \ {t},
                              payload |-> [me.payload EXCEPT ![t] = delta]]
      OBVIOUS
    <3>2. Become(p, next) /\ me.pc = "rebase"
      BY <1>3, <2>1, <2>3, <3>1 DEF RebaseLoad
    <3>3. me.payload \in Payload /\ t \in Table
      BY <1>1, <3>2, LocalFields
    <3>4. delta # None
      <4>1. snapshot[t] \in State /\ EmptyObject \in State /\ "rebase" \in DeltaType
        BY <2>3, <3>3 DEF TypeInv, TypeOK, EmptyObject, State, DeltaType
      <4>2. delta \in Delta
        BY <4>1, DeltaCreateNetEffect
      <4> QED BY <4>2, ChainAssumption
    <3> HIDE DEF delta
    <3>5. /\ next.pc = "rebase" /\ next.todo = me.todo \ {t}
          /\ next.payload = [me.payload EXCEPT ![t] = delta]
      BY <3>1
    <3>6. \A u \in Table : u \in next.todo \/ next.payload[u] # None
      <4>1. \A u \in Table : next.payload[u] = IF u = t THEN delta ELSE me.payload[u]
        BY <3>3, <3>5 DEF Payload
      <4>2. \A u \in Table : u \in me.todo \/ me.payload[u] # None
        BY <1>1, <3>2 DEF FullOK
      <4> QED BY <3>4, <3>5, <4>1, <4>2
    <3>7. CleanOK(next) /\ FullOK(next)
      BY <3>5, <3>6 DEF CleanOK, FullOK
    <3> QED BY <1>1, <3>2, <3>7, PatchesBecome
  <2> QED BY <2>2, <2>3
<1>4. CASE RebaseHead(p)
  <2>1. PICK next : next = [pc |-> "patched", op |-> "rebase", goal |-> Genesis,
                            tip |-> head, patch |-> <<me.payload>>]
    OBVIOUS
  <2>2. Become(p, next) /\ me.pc = "rebase" /\ me.todo = {}
    BY <1>4, <2>1 DEF RebaseHead
  <2>3. next.pc = "patched" /\ next.op = "rebase" /\ next.patch[1] = me.payload
    BY <2>1
  <2>4. \A t \in Table : me.payload[t] # None
    BY <1>1, <2>2 DEF FullOK
  <2>5. CleanOK(next) /\ FullOK(next)
    BY <2>3, <2>4 DEF CleanOK, FullOK
  <2> QED BY <1>1, <2>2, <2>5, PatchesBecome
<1> QED BY <1>2, <1>3, <1>4 DEF Rebase

LEMMA PatchesInvStep ==
    ASSUME EveryTable, TypeInv, DiffInv, PatchesInv, [Next]_vars
    PROVE  PatchesInv'
<1>1. ASSUME NEW p \in Process, Run(p) \/ InstanceLoadFails(p) \/ Interrupt(p)
      PROVE  PatchesInv'
  <2>1. CASE Diff(p)
    BY <2>1, DiffPatches
  <2>2. CASE Rebase(p)
    BY <2>2, RebasePatches
  <2>3. CASE History(p)
    <3>1. NoPatch(p)
      <4>1. CASE HistoryStart(p) \/ HistoryHead(p)
        BY <4>1, NoPatchIntro DEF HistoryStart, HistoryHead
      <4>2. CASE HistoryWalk(p)
        BY <4>2, NoPatchIntro DEF HistoryWalk
      <4>3. CASE HistoryRead(p)
        BY <4>3, NoPatchIntro DEF HistoryRead, Failed
      <4> QED BY <2>3, <4>1, <4>2, <4>3 DEF History
    <3>2. config' = config
      BY <2>3, ReadKeepsFiles
    <3> QED BY <3>1, <3>2, NoPatchStep
  <2>4. CASE Commit(p) \/ Purge(p) \/ Finish(p) \/ InstanceLoadFails(p) \/ Interrupt(p)
    <3>1. NoPatch(p)
      BY <2>4, OthersQuiet, NoPatchIntro DEF Quiet
    <3>2. config' = config
      <4>1. CASE Commit(p)
        BY <4>1 DEF Commit, CommitStart, CommitLoad, CommitLoadFails, SnapshotOpen, SnapshotWrite,
           CommitHead, BlockOpen, BlockWrite, HeadOpen, HeadWrite, WriteFails, WriteShort
      <4>2. CASE Purge(p)
        BY <4>2 DEF Purge, PurgeStart, PurgeHead, PurgeWalk, PurgeRead, PurgeList, PurgeDelete,
           PurgeEnd
      <4> QED BY <2>4, <4>1, <4>2, ReadKeepsFiles
    <3> QED BY <3>1, <3>2, NoPatchStep
  <2> QED BY <1>1, <2>1, <2>2, <2>3, <2>4 DEF Run
<1>2. CASE UNCHANGED <<config, local>>
  BY <1>2 DEF PatchesInv, CleanOK, FullOK
<1>3. CASE AddTable \/ RemoveTable
  <2>1. Addable \ config = {} /\ Removable \cap config = {}
    BY ChainAssumption DEF EveryTable, PatchesInv
  <2> QED BY <1>3, <2>1 DEF AddTable, RemoveTable
<1> QED BY <1>1, <1>2, <1>3 DEF Next, vars

-----------------------------------------------------------------------------
(* What LeechServer does, said of one host *)

LEMMA ServerIdle == Server!Idle = Idle
BY DEF Server!Idle, Idle

LEMMA ServerRows ==
    \A d, base :
        /\ Server!Misses(d, base) <=> Misses(d, base)
        /\ Server!CsvApplied(d, base) = CsvApplied(d, base)
        /\ Server!SqlApplied(d, base) = SqlApplied(d, base)
        /\ Server!PrimaryKeyViolated(base) <=> PrimaryKeyViolated(base)
BY DEF Server!Misses, Misses, Server!CsvApplied, CsvApplied, Server!SqlApplied, SqlApplied,
       Server!PrimaryKeyViolated, PrimaryKeyViolated, Server!Insert, Insert,
       Server!CsvDelete, CsvDelete, Server!CsvUpdate, CsvUpdate, Server!SqlDelete, SqlDelete,
       Server!SqlUpdate, SqlUpdate, Server!Truncated, Truncated, Server!RowsOf, RowsOf,
       Server!HasKey, HasKey, Server!EmptyObject, EmptyObject

LEMMA CommandKinds ==
    ASSUME NEW me \in Commands
    PROVE  /\ me.pc = "idle" => me = Idle
           /\ me = Idle => me.pc = "idle"
           /\ me # Idle => me.blocks \in Seq(HandedBlock)
           /\ me.pc = "start" => me.tip \in Link
           /\ me.pc \in {"transaction", "write"} => /\ me.table \in Table
                                                   /\ me.content \in [{Host} -> HostRows]
                                                   /\ me.header \in BOOLEAN
           /\ me.pc \in {"idle", "start", "patch", "transaction", "write"}
BY DEF Commands, Idle

\* What the command for the host becomes.
Goes(next) == command' = [command EXCEPT ![Host] = next]

LEMMA GoesTo ==
    ASSUME ServerType, NEW next, Goes(next)
    PROVE  command' = [h \in {Host} |-> next] /\ command'[Host] = next
BY DEF ServerType, Goes

After(me) == [pc |-> "patch", blocks |-> Rest(me.blocks, me.table)]

\* The table has the rows new of the host.
Stores(t, new) == rows' = [rows EXCEPT ![t] = [h \in {Host} |-> new]]

\* Whatever is left of the files, the patch is known to have failed.
GivesUp ==
    /\ Goes(Idle)
    /\ trusted' = [trusted EXCEPT ![Host] = FALSE]
    /\ lastknown' = lastknown \/ lastknown' = [lastknown EXCEPT ![Host] = Cut]
    /\ rows' \in [Table -> [{Host} -> HostRows]] /\ file' \in [Table -> FileKinds]

\* A transaction that ends, with the rows new, or with none of its own.
Ends(me, ok, new) ==
    /\ Goes(After(me)) /\ UNCHANGED trusted
    /\ \/ ok /\ Stores(me.table, new)
       \/ ~ok /\ UNCHANGED rows

LEMMA AfterIs ==
    ASSUME NEW me \in Commands, me.pc \in {"transaction", "write"}, me.blocks # <<>>
    PROVE  [pc |-> "patch",
            blocks |-> <<[Head(me.blocks) EXCEPT ![me.table] = None]>> \o Tail(me.blocks)]
             = After(me)
<1>1. me.blocks \in Seq(HandedBlock)
  BY CommandKinds DEF Idle
<1>2. Head(me.blocks) = me.blocks[1]
  BY <1>1
<1> QED BY <1>2 DEF After, Rest

LEMMA ServerGoesOn ==
    ASSUME ServerType, NEW me, me = command[Host], me.pc \in {"transaction", "write"},
           me.blocks # <<>>, Server!Proceed(Host)
    PROVE  Goes(After(me))
<1>1. me \in Commands
  BY DEF ServerType
<1> QED BY <1>1, AfterIs DEF Server!Proceed, Server!Become, Goes

LEMMA CommitsSql ==
    ASSUME ServerType, NEW me, me = command[Host], me.blocks # <<>>, Server!CommitSql(Host)
    PROVE  LET d   == Head(me.blocks)[me.table].delta
               new == SqlApplied(d, me.content[Host])
           IN  /\ me.pc = "transaction" /\ me.table \notin CsvTable
               /\ UNCHANGED <<lastknown, mishaps, file>>
               /\ Ends(me, ~PrimaryKeyViolated(new), new)
<1> DEFINE d    == Head(me.blocks)[me.table].delta
           base == me.content[Host]
<1>1. me \in Commands /\ me.pc = "transaction" /\ me.table \notin CsvTable
  BY DEF ServerType, Server!CommitSql
<1>2. me.table \in Table /\ rows \in [Table -> [{Host} -> HostRows]]
  BY <1>1, CommandKinds DEF ServerType
<1>3. Goes(After(me)) /\ UNCHANGED trusted
  BY <1>1, ServerGoesOn DEF Server!CommitSql
<1>4. \A new : [rows[me.table] EXCEPT ![Host] = new] = [h \in {Host} |-> new]
  BY <1>2
<1>5. Server!New(Host) = SqlApplied(d, base)
  BY <1>1, ServerRows DEF Server!New, Server!Entry, Server!Applied
<1>6. Server!Clashes(me.table, d, base) <=> PrimaryKeyViolated(SqlApplied(d, base))
  BY <1>1, ServerRows DEF Server!Clashes, Server!Applied
<1>7. /\ UNCHANGED <<lastknown, mishaps, file>>
      /\ \/ /\ ~Server!Clashes(me.table, d, base)
            /\ rows' = [rows EXCEPT ![me.table] =
                           [rows[me.table] EXCEPT ![Host] = Server!New(Host)]]
         \/ Server!Clashes(me.table, d, base) /\ UNCHANGED rows
  BY DEF Server!CommitSql, Server!Entry
<1> HIDE DEF d, base
<1>8. Ends(me, ~PrimaryKeyViolated(SqlApplied(d, base)), SqlApplied(d, base))
  BY <1>3, <1>4, <1>5, <1>6, <1>7 DEF Ends, Stores
<1> QED BY <1>1, <1>7, <1>8 DEF d, base

LEMMA WritesFile ==
    ASSUME ServerType, NEW me, me = command[Host], me.blocks # <<>>, Opened(me, file),
           Server!WriteFile(Host)
    PROVE  /\ me.pc = "write"
           /\ UNCHANGED <<lastknown, mishaps>> /\ file' \in [Table -> FileKinds]
           /\ Ends(me, TRUE, CsvApplied(Head(me.blocks)[me.table].delta, me.content[Host]))
<1> DEFINE d    == Head(me.blocks)[me.table].delta
           base == me.content[Host]
           kind == IF me.header THEN "whole" ELSE "headless"
<1>1. me \in Commands /\ me.pc = "write" /\ me.table \in CsvTable /\ file[me.table] = "empty"
  BY DEF ServerType, Server!WriteFile, Opened
<1>2. me.table \in Table /\ me.content \in [{Host} -> HostRows]
  BY <1>1, CommandKinds
<1>3. Goes(After(me)) /\ UNCHANGED trusted
  BY <1>1, ServerGoesOn DEF Server!WriteFile
<1>4. \A new : [me.content EXCEPT ![Host] = new] = [h \in {Host} |-> new]
  BY <1>2
<1>5. Server!New(Host) = CsvApplied(d, base)
  BY <1>1, ServerRows DEF Server!New, Server!Entry, Server!Applied
<1>6. /\ UNCHANGED <<lastknown, mishaps>>
      /\ rows' = [rows EXCEPT ![me.table] = [me.content EXCEPT ![Host] = Server!New(Host)]]
      /\ file' = [file EXCEPT ![me.table] = kind]
  BY <1>1 DEF Server!WriteFile, Server!Written
<1>7. kind \in FileKinds /\ file \in [Table -> FileKinds]
  BY DEF FileKinds, ServerType
<1> HIDE DEF d, base, kind
<1>8. Ends(me, TRUE, CsvApplied(d, base))
  BY <1>3, <1>4, <1>5, <1>6 DEF Ends, Stores
<1>9. file' \in [Table -> FileKinds]
  BY <1>6, <1>7
<1> QED BY <1>1, <1>6, <1>8, <1>9 DEF d, base

\* A file that was cut short or written over: any rows may be left.
LEMMA ScrapsLeft ==
    ASSUME ServerType, NEW t \in Table, Server!Scraps(t)
    PROVE  /\ \E new \in HostRows : Stores(t, new)
           /\ rows' \in [Table -> [{Host} -> HostRows]] /\ file' \in [Table -> FileKinds]
<1> DEFINE Some == [Key -> UNION {[1..n -> Value] : n \in 0..MaxScraps}]
<1>1. RowsOf(EmptyObject) \in HostRows
  BY RowsOfType DEF EmptyObject, State
<1>2. Server!RowsOf(Server!EmptyObject) = RowsOf(EmptyObject)
  BY DEF Server!RowsOf, RowsOf, Server!HasKey, HasKey, Server!EmptyObject, EmptyObject
<1>3. Some \subseteq HostRows
  <2> SUFFICES ASSUME NEW left \in Some, NEW k \in Key PROVE left[k] \in Seq(Value)
    BY DEF HostRows
  <2>1. PICK n \in 0..MaxScraps : left[k] \in [1..n -> Value]
    OBVIOUS
  <2>2. n \in Nat
    BY SystemAssumption
  <2> QED BY <2>1, <2>2
<1> HIDE DEF Some
<1>4. PICK left \in [{Host} -> HostRows] : rows' = [rows EXCEPT ![t] = left]
  <2>1. CASE \E left \in [{Host} -> Some] : rows' = [rows EXCEPT ![t] = left]
    BY <1>3, <2>1
  <2>2. CASE rows' = [rows EXCEPT ![t] = Server!NoRows]
    <3>1. Server!NoRows \in [{Host} -> HostRows]
      BY <1>1, <1>2 DEF Server!NoRows
    <3> QED BY <2>2, <3>1
  <2> QED BY <2>1, <2>2 DEF Server!Scraps, Some
<1>5. left = [h \in {Host} |-> left[Host]] /\ left[Host] \in HostRows
  OBVIOUS
<1>6. rows' \in [Table -> [{Host} -> HostRows]]
  BY <1>4 DEF ServerType
<1>7. file' \in [Table -> FileKinds]
  BY DEF Server!Scraps, ServerType, FileKinds
<1> QED BY <1>4, <1>5, <1>6, <1>7 DEF Stores

-----------------------------------------------------------------------------
(* The steps of the host leave the server's invariant alone *)

LEMMA ChainKeepsServer ==
    ASSUME TypeInv, Keeps, ServerInv, UNCHANGED <<server, misled>>
    PROVE  ServerInv'
<1>1. PICK g : g = Goal
  OBVIOUS
<1>2. PICK l, me : l = lastknown[Host] /\ me = command[Host]
  OBVIOUS
<1>3. /\ Settled(l) \/ (l = Cut /\ ~trusted[Host] /\ me.pc \in {"idle", "start"})
      /\ me # Idle => Settled(g)
  BY <1>1, <1>2 DEF ServerInv, KnownOK
<1>4. \A b : Settled(b) => Settled(b)' /\ stateAt'[b] = stateAt[b]
  BY SettledState DEF Keeps
<1>5. /\ lastknown' = lastknown /\ rows' = rows /\ command' = command /\ trusted' = trusted
      /\ file' = file /\ mishaps' = mishaps /\ misled' = misled
  BY DEF server
<1>6. Goal' = g /\ lastknown'[Host] = l /\ command'[Host] = me /\ trusted'[Host] = trusted[Host]
  BY <1>1, <1>2, <1>5 DEF Goal
<1>7. ServerType'
  BY <1>5 DEF ServerInv, ServerType
<1>8. (KnownOK(lastknown[Host], trusted[Host], command[Host]))'
  BY <1>3, <1>4, <1>6 DEF KnownOK, Settled
<1>9. ASSUME me # Idle
      PROVE  (Settled(Goal))' /\ (RunOK(command[Host], Goal, stateAt[Goal], rows, ~misled))'
  <2>1. (Settled(Goal))'
    BY <1>3, <1>4, <1>6, <1>9 DEF Settled
  <2>2. stateAt'[g] = stateAt[g]
    BY <1>3, <1>4, <1>9
  <2>3. (RunOK(command[Host], Goal, stateAt[Goal], rows, ~misled))'
    BY <1>1, <1>2, <1>5, <1>6, <1>9, <2>2 DEF ServerInv, RunOK, Present
  <2> QED BY <2>1, <2>3
<1>10. LastKnownHeld'
  BY <1>2, <1>3, <1>4, <1>5, <1>6 DEF ServerInv, LastKnownHeld, AtRest, Server!Idle
<1>11. (Opened(command[Host], file))'
  BY <1>5 DEF ServerInv, Opened
<1> QED BY <1>6, <1>7, <1>8, <1>9, <1>10, <1>11 DEF ServerInv

-----------------------------------------------------------------------------
(* The steps of the server *)

\* A patch command goes on.
LEMMA ServerRuns ==
    ASSUME ServerInv, UNCHANGED vars, NEW next \in Commands, next # Idle, Goes(next),
           lastknown' \in [{Host} -> Link], rows' \in [Table -> [{Host} -> HostRows]],
           file' \in [Table -> FileKinds], Opened(next, file'),
           trusted' \in [{Host} -> BOOLEAN], mishaps' \in 0..MaxServerFaults, misled' \in BOOLEAN,
           NEW goal, goal = IF next.pc = "start" THEN next.tip ELSE lastknown'[Host],
           NEW l, l = lastknown'[Host], Settled(goal),
           Settled(l) \/ (l = Cut /\ ~trusted'[Host] /\ next.pc = "start"),
           NEW last, last = stateAt[goal], RunOK(next, goal, last, rows', ~misled')
    PROVE  ServerInv'
<1>1. command' \in [{Host} -> Commands] /\ command'[Host] = next
  BY GoesTo DEF ServerInv
<1>2. ServerType'
  BY <1>1 DEF ServerType
<1>3. Goal' = goal
  BY <1>1 DEF Goal
<1>4. created' = created /\ local' = local /\ stateAt' = stateAt
  BY DEF vars
<1>5. (KnownOK(lastknown[Host], trusted[Host], command[Host]))' /\ (Settled(Goal))'
  BY <1>1, <1>3, <1>4 DEF KnownOK, Settled
<1>6. (RunOK(command[Host], Goal, stateAt[Goal], rows, ~misled))'
  BY <1>1, <1>3, <1>4 DEF RunOK, Present
<1>7. LastKnownHeld'
  BY <1>1, ServerIdle DEF LastKnownHeld, AtRest, Server!Idle, Idle
<1>8. (Opened(command[Host], file))'
  BY <1>1 DEF Opened
<1> QED BY <1>2, <1>5, <1>6, <1>7, <1>8 DEF ServerInv

\* A patch command ends, badly or with every table where it was led.
LEMMA ServerRests ==
    ASSUME ServerInv, UNCHANGED vars, Goes(Idle), lastknown' \in [{Host} -> Link],
           rows' \in [Table -> [{Host} -> HostRows]], file' \in [Table -> FileKinds],
           trusted' \in [{Host} -> BOOLEAN], mishaps' \in 0..MaxServerFaults, misled' = misled,
           NEW l, l = lastknown'[Host], Settled(l) \/ (l = Cut /\ ~trusted'[Host]),
           \/ ~trusted'[Host] \/ misled
           \/ \A t \in Table : rows'[t][Host] = RowsOf(stateAt[l][t])
    PROVE  ServerInv'
<1>1. command' \in [{Host} -> Commands] /\ command'[Host] = Idle /\ Idle.pc = "idle"
  BY GoesTo DEF ServerInv, Commands, Idle
<1>2. ServerType'
  BY <1>1 DEF ServerInv, ServerType
<1>3. created' = created /\ local' = local /\ stateAt' = stateAt
  BY DEF vars
<1>4. (KnownOK(lastknown[Host], trusted[Host], command[Host]))'
  BY <1>1, <1>3 DEF KnownOK, Settled
<1>5. LastKnownHeld'
  BY <1>3 DEF LastKnownHeld
<1>6. (Opened(command[Host], file))'
  BY <1>1 DEF Opened
<1> QED BY <1>1, <1>2, <1>4, <1>5, <1>6 DEF ServerInv

LEMMA UpdatesLastKnown ==
    ASSUME ServerInv, UNCHANGED <<vars, misled>>, Server!UpdateLastKnown(Host)
    PROVE  ServerInv'
<1>1. PICK me : me = command[Host]
  OBVIOUS
<1>2. PICK next : next = [pc |-> "patch", blocks |-> me.blocks]
  OBVIOUS
<1>3. /\ me.pc = "start" /\ lastknown' = [lastknown EXCEPT ![Host] = me.tip]
      /\ Goes(next) /\ UNCHANGED <<rows, file, trusted, mishaps>>
  BY <1>1, <1>2 DEF Server!UpdateLastKnown, Server!Become, Server!tables, Goes
<1>4. me \in Commands
  BY <1>1 DEF ServerInv, ServerType
<1>5. me # Idle /\ me.blocks \in Seq(HandedBlock) /\ me.tip \in Link
  BY <1>3, <1>4, CommandKinds DEF Idle
<1>6. next \in Commands /\ next # Idle /\ next.pc = "patch" /\ next.blocks = me.blocks
  BY <1>2, <1>5 DEF Commands, Idle
<1>7. lastknown' \in [{Host} -> Link] /\ lastknown'[Host] = me.tip
  BY <1>3, <1>5 DEF ServerInv, ServerType
<1>8. Goal = me.tip /\ Settled(me.tip)
  BY <1>1, <1>3, <1>5 DEF Goal, ServerInv
<1>9. PICK goal : goal = me.tip
  OBVIOUS
<1>10. PICK last : last = stateAt[goal]
  OBVIOUS
<1>11. RunOK(me, goal, last, rows, ~misled)
  BY <1>1, <1>5, <1>8, <1>9, <1>10 DEF ServerInv
<1>12. RunOK(next, goal, last, rows', ~misled')
  BY <1>3, <1>6, <1>11 DEF RunOK, Present
<1>13. /\ rows' \in [Table -> [{Host} -> HostRows]] /\ trusted' \in [{Host} -> BOOLEAN]
       /\ mishaps' \in 0..MaxServerFaults /\ misled' \in BOOLEAN
       /\ file' \in [Table -> FileKinds]
  BY <1>3 DEF ServerInv, ServerType
<1>14. Settled(goal) /\ lastknown'[Host] = goal /\ Opened(next, file')
  BY <1>6, <1>7, <1>8, <1>9 DEF Opened
<1> QED BY <1>3, <1>6, <1>7, <1>10, <1>12, <1>13, <1>14, ServerRuns

\* A step within the patch that changes no table.
LEMMA RunsOn ==
    ASSUME ServerInv, UNCHANGED <<vars, lastknown, rows, file, trusted, mishaps, misled>>,
           command[Host].pc = "patch",
           NEW next \in Commands, next.pc \in {"patch", "transaction"}, Goes(next),
           RunOK(next, Goal, stateAt[Goal], rows, ~misled)
    PROVE  ServerInv'
<1>1. PICK g : g = Goal
  OBVIOUS
<1>2. PICK last : last = stateAt[g]
  OBVIOUS
<1>3. g = lastknown[Host] /\ lastknown'[Host] = g /\ Settled(g)
  BY <1>1 DEF Goal, ServerInv, Idle
<1>4. next # Idle /\ next.pc # "start" /\ Opened(next, file')
  BY DEF Idle, Opened
<1>5. RunOK(next, g, last, rows', ~misled')
  BY <1>1, <1>2 DEF RunOK
<1>6. /\ lastknown' \in [{Host} -> Link] /\ rows' \in [Table -> [{Host} -> HostRows]]
      /\ file' \in [Table -> FileKinds] /\ trusted' \in [{Host} -> BOOLEAN]
      /\ mishaps' \in 0..MaxServerFaults /\ misled' \in BOOLEAN
  BY DEF ServerInv, ServerType
<1> QED BY <1>2, <1>3, <1>4, <1>5, <1>6, ServerRuns

LEMMA TakesNextBlock ==
    ASSUME ServerInv, UNCHANGED <<vars, misled>>, Server!NextBlock(Host)
    PROVE  ServerInv'
<1>1. PICK me : me = command[Host]
  OBVIOUS
<1>2. PICK next : next = [pc |-> "patch", blocks |-> Tail(me.blocks)]
  OBVIOUS
<1>3. /\ me.pc = "patch" /\ me.blocks # <<>> /\ Server!Tables(Head(me.blocks)) = {}
      /\ Goes(next) /\ UNCHANGED <<lastknown, rows, file, trusted, mishaps>>
  BY <1>1, <1>2 DEF Server!NextBlock, Server!Become, Server!tables, Goes
<1>4. me \in Commands /\ me # Idle
  BY <1>1, <1>3 DEF ServerInv, ServerType, Idle
<1>5. me.blocks \in Seq(HandedBlock)
  BY <1>4, CommandKinds
<1>6. Head(me.blocks) = me.blocks[1]
  BY <1>3, <1>5
<1>7. \A t \in Table : me.blocks[1][t] = None
  BY <1>3, <1>6 DEF Server!Tables
<1>8. /\ Tail(me.blocks) \in Seq(HandedBlock) /\ Len(Tail(me.blocks)) = Len(me.blocks) - 1
      /\ Len(me.blocks) \in Nat
      /\ \A i \in 1..Len(Tail(me.blocks)) : Tail(me.blocks)[i] = me.blocks[i + 1]
  BY <1>3, <1>5, HeadTailProperties
<1>9. next \in Commands /\ next.pc = "patch" /\ next.blocks = Tail(me.blocks)
  BY <1>2, <1>8 DEF Commands
<1>10. RunOK(me, Goal, stateAt[Goal], rows, ~misled)
  BY <1>1, <1>4 DEF ServerInv
<1>11. RunOK(next, Goal, stateAt[Goal], rows, ~misled)
  <2>1. ASSUME NEW i \in DOMAIN next.blocks, NEW t \in Table
        PROVE  EntryOK(next.blocks[i][t], Goal, stateAt[Goal][t])
    <3>1. i \in 1..Len(Tail(me.blocks)) /\ i + 1 \in DOMAIN me.blocks
      BY <1>5, <1>8, <1>9
    <3>2. next.blocks[i] = me.blocks[i + 1]
      BY <1>8, <1>9, <3>1
    <3>3. EntryOK(me.blocks[i + 1][t], Goal, stateAt[Goal][t])
      BY <1>10, <3>1 DEF RunOK
    <3> QED BY <3>2, <3>3
  <2>2. ASSUME ~misled, NEW t \in Table
        PROVE  Leads(next.blocks, t, rows[t][Host], stateAt[Goal][t])
    <3>1. Leads(me.blocks, t, rows[t][Host], stateAt[Goal][t])
      BY <1>3, <1>10, <2>2 DEF RunOK, Present
    <3>2. Leads(Tail(me.blocks), t, rows[t][Host], stateAt[Goal][t])
      BY <1>3, <1>5, <1>7, <3>1, LeadsTail
    <3> QED BY <1>9, <3>2
  <2> QED BY <1>9, <2>1, <2>2 DEF RunOK, Present
<1> QED BY <1>1, <1>3, <1>9, <1>11, RunsOn

LEMMA EndsPatch ==
    ASSUME ServerInv, UNCHANGED <<vars, misled>>, Server!PatchEnd(Host)
    PROVE  ServerInv'
<1>1. PICK me, l : me = command[Host] /\ l = lastknown[Host]
  OBVIOUS
<1>2. /\ me.pc = "patch" /\ me.blocks = <<>> /\ Goes(Idle)
      /\ trusted' = [trusted EXCEPT ![Host] = TRUE]
      /\ UNCHANGED <<lastknown, rows, file, mishaps>>
  BY <1>1, ServerIdle DEF Server!PatchEnd, Server!Become, Server!tables, Goes
<1>3. me # Idle
  BY <1>2 DEF Idle
<1>4. Goal = l /\ Settled(l) /\ lastknown'[Host] = l
  BY <1>1, <1>2, <1>3 DEF Goal, ServerInv
<1>5. ASSUME ~misled, NEW t \in Table
      PROVE  rows'[t][Host] = RowsOf(stateAt[l][t])
  <2>1. Leads(me.blocks, t, rows[t][Host], stateAt[Goal][t])
    BY <1>1, <1>2, <1>3, <1>5 DEF ServerInv, RunOK, Present
  <2> QED BY <1>2, <1>4, <2>1, LeadsDone
<1>6. /\ trusted' \in [{Host} -> BOOLEAN] /\ mishaps' \in 0..MaxServerFaults
      /\ lastknown' \in [{Host} -> Link] /\ rows' \in [Table -> [{Host} -> HostRows]]
      /\ file' \in [Table -> FileKinds]
  BY <1>2 DEF ServerInv, ServerType
<1>7. misled' = misled /\ misled \in BOOLEAN
  BY DEF ServerInv, ServerType
<1> QED BY <1>2, <1>4, <1>5, <1>6, <1>7, ServerRests

LEMMA Fails ==
    ASSUME ServerInv, UNCHANGED <<vars, misled>>, GivesUp, mishaps' \in 0..MaxServerFaults
    PROVE  ServerInv'
<1>1. PICK l : l = lastknown'[Host]
  OBVIOUS
<1>2. trusted' \in [{Host} -> BOOLEAN] /\ ~trusted'[Host] /\ lastknown' \in [{Host} -> Link]
  BY DEF GivesUp, ServerInv, ServerType, Link
<1>3. l = lastknown[Host] \/ l = Cut
  BY <1>1 DEF GivesUp, ServerInv, ServerType
<1>4. Settled(l) \/ l = Cut
  BY <1>3 DEF ServerInv, KnownOK
<1> QED BY <1>1, <1>2, <1>4, ServerRests DEF GivesUp

LEMMA BeginsTransaction ==
    ASSUME ServerInv, UNCHANGED <<vars, misled>>, Server!BeginTransaction(Host)
    PROVE  ServerInv'
<1>1. PICK me : me = command[Host]
  OBVIOUS
<1>2. PICK t \in Server!Tables(Head(me.blocks)) :
        \/ /\ Goes([pc |-> "transaction", table |-> t, content |-> rows[t],
                    header |-> file[t] = "whole", blocks |-> me.blocks])
           /\ UNCHANGED trusted
        \/ Server!Fail(Host)
  BY <1>1 DEF Server!BeginTransaction, Server!Become, Goes
<1>3. PICK next : next = [pc |-> "transaction", table |-> t, content |-> rows[t],
                          header |-> file[t] = "whole", blocks |-> me.blocks]
  OBVIOUS
<1>4. /\ me.pc = "patch" /\ me.blocks # <<>>
      /\ UNCHANGED <<lastknown, rows, file, mishaps>>
  BY <1>1 DEF Server!BeginTransaction, Server!tables
<1>5. me \in Commands /\ me # Idle
  BY <1>1, <1>4 DEF ServerInv, ServerType, Idle
<1>6. me.blocks \in Seq(HandedBlock)
  BY <1>5, CommandKinds
<1>7. t \in Table /\ Head(me.blocks)[t] # None
  BY <1>2 DEF Server!Tables
<1>8. rows[t] \in [{Host} -> HostRows]
  BY <1>7 DEF ServerInv, ServerType
<1>9. /\ next \in Commands /\ next.pc = "transaction" /\ next.blocks = me.blocks
      /\ next.table = t /\ next.content = rows[t]
  BY <1>3, <1>6, <1>7, <1>8 DEF Commands
<1>10. RunOK(me, Goal, stateAt[Goal], rows, ~misled)
  BY <1>1, <1>5 DEF ServerInv
<1>11. RunOK(next, Goal, stateAt[Goal], rows, ~misled)
  BY <1>4, <1>7, <1>9, <1>10 DEF RunOK, Present
<1>12. CASE Goes(next) /\ UNCHANGED trusted
  BY <1>1, <1>4, <1>9, <1>11, <1>12, RunsOn
<1>13. CASE Server!Fail(Host)
  <2>1. GivesUp /\ mishaps' \in 0..MaxServerFaults
    BY <1>4, <1>13, ServerIdle
       DEF GivesUp, Goes, Server!Fail, Server!Become, ServerInv, ServerType
  <2> QED BY <2>1, Fails
<1> QED BY <1>2, <1>3, <1>12, <1>13

-----------------------------------------------------------------------------
(* Transactions *)

\* A patch that has done with one delta, and leads the rows that it leaves on.
LEMMA ServerProceeds ==
    ASSUME ServerInv, UNCHANGED <<vars, lastknown, trusted>>, mishaps' \in 0..MaxServerFaults,
           misled' \in BOOLEAN, file' \in [Table -> FileKinds],
           NEW me, me = command[Host], me.pc \in {"transaction", "write"}, Goes(After(me)),
           NEW new \in HostRows, Stores(me.table, new),
           ~misled' => /\ ~misled
                       /\ Leads(Rest(me.blocks, me.table), me.table, new, stateAt[Goal][me.table])
    PROVE  ServerInv'
<1>1. PICK g : g = Goal
  OBVIOUS
<1>2. PICK last : last = stateAt[g]
  OBVIOUS
<1>3. PICK t : t = me.table
  OBVIOUS
<1>a. PICK there : there = [rows EXCEPT ![t] = [h \in {Host} |-> new]]
  OBVIOUS
<1>b. rows' = there
  BY <1>3, <1>a DEF Stores
<1>4. me \in Commands /\ me # Idle
  BY DEF ServerInv, ServerType, Idle
<1>5. me.blocks \in Seq(HandedBlock) /\ t \in Table
  BY <1>3, <1>4, CommandKinds
<1>6. RunOK(me, g, last, rows, ~misled)
  BY <1>1, <1>2, <1>4 DEF ServerInv
<1>7. me.blocks # <<>>
  BY <1>6 DEF RunOK
<1> DEFINE rest == Rest(me.blocks, t)
           next == After(me)
<1>8. /\ rest \in Seq(HandedBlock) /\ Len(rest) = Len(me.blocks) /\ Len(me.blocks) \in Nat
      /\ rest[1][t] = None
      /\ \A u \in Table \ {t} : rest[1][u] = me.blocks[1][u]
      /\ \A i \in 2..Len(me.blocks) : rest[i] = me.blocks[i]
  BY <1>5, <1>7, RestType
<1> HIDE DEF rest
<1>9. next \in Commands /\ next # Idle /\ next.pc = "patch" /\ next.blocks = rest
  BY <1>3, <1>8 DEF After, Commands, Idle, rest
<1> HIDE DEF next
<1>10. /\ there \in [Table -> [{Host} -> HostRows]]
       /\ \A u \in Table : there[u][Host] = IF u = t THEN new ELSE rows[u][Host]
  BY <1>a DEF ServerInv, ServerType
<1>11. RunOK(next, g, last, there, ~misled')
  <2>1. ASSUME NEW i \in DOMAIN next.blocks, NEW u \in Table
        PROVE  EntryOK(next.blocks[i][u], g, last[u])
    <3>1. i \in 1..Len(me.blocks) /\ i \in DOMAIN me.blocks
      BY <1>5, <1>8, <1>9
    <3>2. EntryOK(me.blocks[i][u], g, last[u])
      BY <1>6, <3>1 DEF RunOK
    <3>3. rest[i][u] = None \/ rest[i][u] = me.blocks[i][u]
      <4>1. i = 1 \/ i \in 2..Len(me.blocks)
        BY <1>8, <3>1
      <4>2. CASE i = 1
        BY <1>8, <4>2
      <4> QED BY <1>8, <4>1, <4>2
    <3> QED BY <1>9, <3>2, <3>3 DEF EntryOK
  <2>2. ASSUME ~misled', NEW u \in Table
        PROVE  Leads(next.blocks, u, there[u][Host], last[u])
    <3>1. CASE u = t
      BY <1>1, <1>2, <1>3, <1>9, <1>10, <2>2, <3>1 DEF rest
    <3>2. CASE u # t
      <4>1. Leads(me.blocks, u, rows[u][Host], last[u])
        BY <1>3, <1>6, <2>2, <3>2 DEF RunOK, Present
      <4>2. Leads(Rest(me.blocks, t), u, rows[u][Host], last[u])
        BY <1>5, <1>7, <3>2, <4>1, LeadsOthers
      <4> QED BY <1>9, <1>10, <3>2, <4>2 DEF rest
    <3> QED BY <3>1, <3>2
  <2> QED BY <1>9, <2>1, <2>2 DEF RunOK, Present
<1>12. lastknown'[Host] = g /\ Settled(g) /\ Opened(next, file')
  BY <1>1, <1>4, <1>9 DEF Goal, ServerInv, Opened
<1>13. lastknown' \in [{Host} -> Link] /\ trusted' \in [{Host} -> BOOLEAN]
  BY DEF ServerInv, ServerType
<1>14. RunOK(next, g, last, rows', ~misled')
  BY <1>b, <1>11
<1>15. g = IF next.pc = "start" THEN next.tip ELSE lastknown'[Host]
  BY <1>9, <1>12
<1>16. Goes(next)
  BY DEF next
<1>17. rows' \in [Table -> [{Host} -> HostRows]]
  BY <1>b, <1>10
<1> QED BY <1>2, <1>9, <1>12, <1>13, <1>14, <1>15, <1>16, <1>17, ServerRuns

\* What the transaction is about.
LEMMA TransactionOK ==
    ASSUME ServerInv, TypeInv, NEW me, me = command[Host], me.pc \in {"transaction", "write"}
    PROVE  LET entry == me.blocks[1][me.table]
               there == me.content[Host]
               last  == stateAt[Goal][me.table]
           IN  /\ me \in Commands /\ me.blocks # <<>> /\ me.blocks \in Seq(HandedBlock)
               /\ me.table \in Table /\ Head(me.blocks)[me.table] = entry
               /\ entry \in HandedEntry /\ there \in HostRows
               /\ last \in State /\ EntryOK(entry, Goal, last)
               /\ ~misled => Succeeds(entry.delta, there, me.table, me.blocks, last)
<1> DEFINE entry == me.blocks[1][me.table]
           there == me.content[Host]
           last  == stateAt[Goal][me.table]
<1>1. me \in Commands /\ me # Idle
  BY DEF ServerInv, ServerType, Idle
<1>2. me.table \in Table /\ me.blocks \in Seq(HandedBlock)
  BY <1>1, CommandKinds
<1>3. RunOK(me, Goal, stateAt[Goal], rows, ~misled)
  BY <1>1 DEF ServerInv
<1>4. me.blocks # <<>> /\ Head(me.blocks)[me.table] # None
  BY <1>3 DEF RunOK
<1>5. Head(me.blocks) = me.blocks[1] /\ 1 \in DOMAIN me.blocks
  BY <1>2, <1>4
<1>6. there \in HostRows
  BY <1>1, CommandKinds
<1>7. last \in State
  BY <1>1, <1>2, SettledState DEF ServerInv
<1>8. EntryOK(entry, Goal, last)
  BY <1>2, <1>3, <1>5 DEF RunOK
<1>9. entry \in HandedEntry
  <2>1. me.blocks[1] \in HandedBlock
    BY <1>2, <1>5
  <2> QED BY <1>2, <1>4, <1>5, <2>1 DEF HandedBlock
<1>10. ASSUME ~misled PROVE Succeeds(entry.delta, there, me.table, me.blocks, last)
  <2>1. Leads(me.blocks, me.table, there, last)
    BY <1>2, <1>3, <1>10 DEF RunOK, Present
  <2>2. entry # None
    BY <1>4, <1>5
  <2> HIDE DEF there, last
  <2> QED BY <1>2, <1>4, <1>7, <1>8, <2>1, <2>2, LeadsHead
<1> QED BY <1>1, <1>2, <1>4, <1>5, <1>6, <1>7, <1>8, <1>9, <1>10

LEMMA StoresSame ==
    ASSUME ServerInv, NEW t \in Table, NEW old, old = rows[t][Host], UNCHANGED rows
    PROVE  Stores(t, old)
BY DEF Stores, ServerInv, ServerType

\* A transaction that ends as it should, or was misled.
LEMMA EndsInv ==
    ASSUME ServerInv, UNCHANGED <<vars, lastknown, mishaps, misled>>,
           file' \in [Table -> FileKinds],
           NEW me, me = command[Host], me.pc \in {"transaction", "write"},
           NEW ok, NEW new \in HostRows, Ends(me, ok, new), me.table \in Table,
           ~misled => /\ ok
                      /\ Leads(Rest(me.blocks, me.table), me.table, new, stateAt[Goal][me.table])
    PROVE  ServerInv'
<1>1. mishaps' \in 0..MaxServerFaults /\ misled' \in BOOLEAN /\ misled' = misled
  BY DEF ServerInv, ServerType
<1>2. Goes(After(me)) /\ UNCHANGED trusted
  BY DEF Ends
<1>3. CASE ok /\ Stores(me.table, new)
  BY <1>1, <1>2, <1>3, ServerProceeds
<1>4. CASE ~ok /\ UNCHANGED rows
  <2>1. PICK old : old = rows[me.table][Host]
    OBVIOUS
  <2>2. old \in HostRows
    BY <2>1 DEF ServerInv, ServerType
  <2>3. Stores(me.table, old)
    BY <1>4, <2>1, StoresSame
  <2>4. misled'
    BY <1>1, <1>4 DEF ServerInv, ServerType
  <2> QED BY <1>1, <1>2, <1>4, <2>2, <2>3, <2>4, ServerProceeds
<1> QED BY <1>3, <1>4 DEF Ends

\* The transaction of a table, or the writing of its file.
LEMMA Commits ==
    ASSUME TypeInv, ServerInv, UNCHANGED <<vars, misled>>,
           Server!CommitSql(Host) \/ Server!WriteFile(Host)
    PROVE  ServerInv'
<1>1. PICK me : me = command[Host]
  OBVIOUS
<1>2. me.pc \in {"transaction", "write"}
  BY <1>1 DEF Server!CommitSql, Server!WriteFile
<1> DEFINE entry == me.blocks[1][me.table]
           there == me.content[Host]
           last  == stateAt[Goal][me.table]
           d     == entry.delta
           csv   == CsvApplied(d, there)
           sql   == SqlApplied(d, there)
<1>3. /\ me \in Commands /\ me.blocks # <<>> /\ me.blocks \in Seq(HandedBlock)
      /\ me.table \in Table /\ Head(me.blocks)[me.table] = entry
      /\ entry \in HandedEntry /\ there \in HostRows
      /\ ~misled => Succeeds(d, there, me.table, me.blocks, last)
  BY <1>1, <1>2, TransactionOK
<1>4. d \in Delta
  BY <1>3 DEF HandedEntry
<1>5. /\ UNCHANGED <<lastknown, mishaps>> /\ file' \in [Table -> FileKinds]
      /\ \/ Ends(me, TRUE, csv)
         \/ Ends(me, ~PrimaryKeyViolated(sql), sql)
  <2>1. ServerType /\ Opened(me, file)
    BY <1>1 DEF ServerInv
  <2>2. CASE Server!CommitSql(Host)
    BY <1>1, <1>3, <2>1, <2>2, CommitsSql DEF ServerType
  <2>3. CASE Server!WriteFile(Host)
    BY <1>1, <1>3, <2>1, <2>3, WritesFile
  <2> QED BY <2>2, <2>3
<1> HIDE DEF entry, there, last, d
<1>6. csv \in HostRows /\ sql \in HostRows
  BY <1>3, <1>4, AppliedType
<1>7. ASSUME ~misled
      PROVE  /\ ~PrimaryKeyViolated(sql)
             /\ Leads(Rest(me.blocks, me.table), me.table, csv, last)
             /\ Leads(Rest(me.blocks, me.table), me.table, sql, last)
  <2>1. PICK new \in State :
          /\ csv = RowsOf(new) /\ sql = RowsOf(new)
          /\ Leads(Rest(me.blocks, me.table), me.table, RowsOf(new), last)
    BY <1>3, <1>7 DEF Succeeds
  <2>2. ~PrimaryKeyViolated(RowsOf(new))
    BY RowsOfKeyed
  <2> HIDE DEF csv, sql
  <2>3. ~PrimaryKeyViolated(sql)
    BY <2>1, <2>2
  <2> QED BY <2>1, <2>3
<1> HIDE DEF csv, sql
<1>8. CASE Ends(me, TRUE, csv)
  BY <1>1, <1>2, <1>3, <1>5, <1>6, <1>7, <1>8, EndsInv DEF last
<1>9. CASE Ends(me, ~PrimaryKeyViolated(sql), sql)
  BY <1>1, <1>2, <1>3, <1>5, <1>6, <1>7, <1>9, EndsInv DEF last
<1> QED BY <1>5, <1>8, <1>9

\* The file is truncated: the rows are where they were, in memory.
LEMMA OpensFile ==
    ASSUME TypeInv, ServerInv, UNCHANGED <<vars, misled>>, Server!OpenFile(Host)
    PROVE  ServerInv'
<1>1. PICK me, t : me = command[Host] /\ t = me.table
  OBVIOUS
<1>2. PICK next, g, last : /\ next = [me EXCEPT !.pc = "write"]
                           /\ g = Goal /\ last = stateAt[g]
  OBVIOUS
<1>3. /\ me.pc = "transaction" /\ t \in CsvTable /\ Goes(next)
      /\ rows' = [rows EXCEPT ![t] = Server!NoRows]
      /\ file' = [file EXCEPT ![t] = "empty"]
      /\ UNCHANGED <<lastknown, trusted, mishaps>>
  BY <1>1, <1>2 DEF Server!OpenFile, Server!Become, Goes
<1>4. me \in Commands /\ me # Idle
  BY <1>1, <1>3 DEF ServerInv, ServerType, Idle
<1>5. /\ t \in Table /\ me.content \in [{Host} -> HostRows] /\ me.header \in BOOLEAN
      /\ me.blocks \in Seq(HandedBlock)
  BY <1>1, <1>3, <1>4, CommandKinds
<1>6. /\ next \in Commands /\ next # Idle /\ next.pc = "write" /\ next.blocks = me.blocks
      /\ next.table = t /\ next.content = me.content
  BY <1>1, <1>2, <1>3, <1>4 DEF Commands, Idle
<1>7. RunOK(me, g, last, rows, ~misled) /\ Settled(g)
  BY <1>1, <1>2, <1>4 DEF ServerInv
<1>8. g = lastknown[Host] /\ lastknown'[Host] = g
  BY <1>1, <1>2, <1>3 DEF Goal
<1>9. Server!NoRows \in [{Host} -> HostRows]
  <2>1. RowsOf(EmptyObject) \in HostRows
    BY RowsOfType DEF EmptyObject, State
  <2>2. Server!RowsOf(Server!EmptyObject) = RowsOf(EmptyObject)
    BY DEF Server!RowsOf, RowsOf, Server!HasKey, HasKey, Server!EmptyObject, EmptyObject
  <2> QED BY <2>1, <2>2 DEF Server!NoRows
<1>10. /\ rows' \in [Table -> [{Host} -> HostRows]] /\ file' \in [Table -> FileKinds]
       /\ \A u \in Table : u # t => rows'[u] = rows[u]
       /\ file'[t] = "empty"
  BY <1>3, <1>5, <1>9 DEF ServerInv, ServerType, FileKinds
<1>11. ASSUME NEW u \in Table
       PROVE  Present(next, rows', u) = Present(me, rows, u)
  <2>1. CASE u = t
    BY <1>1, <1>3, <1>6, <1>7, <2>1 DEF Present, RunOK
  <2>2. CASE u # t
    BY <1>3, <1>6, <1>10, <2>2 DEF Present
  <2> QED BY <2>1, <2>2
<1>12. RunOK(next, g, last, rows', ~misled')
  BY <1>1, <1>3, <1>6, <1>7, <1>11 DEF RunOK
<1>13. Opened(next, file')
  BY <1>3, <1>6, <1>10 DEF Opened
<1>14. /\ lastknown' \in [{Host} -> Link] /\ trusted' \in [{Host} -> BOOLEAN]
       /\ mishaps' \in 0..MaxServerFaults /\ misled' \in BOOLEAN
  BY <1>3 DEF ServerInv, ServerType
<1> QED BY <1>2, <1>3, <1>6, <1>7, <1>8, <1>10, <1>12, <1>13, <1>14, ServerRuns

\* A delta that is refused.
LEMMA Rejects ==
    ASSUME ServerInv, UNCHANGED <<vars, misled>>, Server!RejectDelta(Host)
    PROVE  ServerInv'
<1>1. GivesUp /\ mishaps' \in 0..MaxServerFaults
  BY ServerIdle DEF Server!RejectDelta, Server!Fail, Server!Become, Server!tables,
                    GivesUp, Goes, ServerInv, ServerType
<1> QED BY <1>1, Fails

\* Rows that are lost unnoticed mislead what comes after.
LEMMA LosesRowsInv ==
    ASSUME TypeInv, ServerInv, LosesRows
    PROVE  ServerInv'
<1>1. PICK me : me = command[Host]
  OBVIOUS
<1>2. /\ me.pc \in {"transaction", "write"} /\ Server!Proceed(Host)
      /\ UNCHANGED <<vars, lastknown, trusted>>
      /\ mishaps < MaxServerFaults /\ mishaps' = mishaps + 1 /\ misled' = TRUE
  BY <1>1 DEF LosesRows, Server!InsertFails, Server!ShortWrite, Server!Fault
<1>3. me \in Commands /\ me.blocks # <<>> /\ me.table \in Table
  BY <1>1, <1>2, TransactionOK
<1>4. Goes(After(me))
  BY <1>1, <1>2, <1>3, ServerGoesOn DEF ServerInv
<1>5. mishaps' \in 0..MaxServerFaults
  BY <1>2, SystemAssumption DEF ServerInv, ServerType
<1>6. PICK new \in HostRows : Stores(me.table, new) /\ file' \in [Table -> FileKinds]
  <2>1. CASE Server!InsertFails(Host)
    <3>1. PICK old : old = rows[me.table][Host]
      OBVIOUS
    <3>2. UNCHANGED <<rows, file>>
      BY <2>1 DEF Server!InsertFails, Server!tables
    <3>3. old \in HostRows /\ file' \in [Table -> FileKinds]
      BY <1>3, <3>1, <3>2 DEF ServerInv, ServerType
    <3>4. Stores(me.table, old)
      BY <1>3, <3>1, <3>2, StoresSame
    <3> QED BY <3>3, <3>4
  <2>2. CASE Server!ShortWrite(Host)
    BY <1>1, <1>3, <2>2, ScrapsLeft DEF Server!ShortWrite, ServerInv
  <2> QED BY <2>1, <2>2 DEF LosesRows
<1> QED BY <1>1, <1>2, <1>4, <1>5, <1>6, ServerProceeds

-----------------------------------------------------------------------------
(* A patch is handed over *)

LEMMA BlocksHanded ==
    ASSUME NEW patch, Handed(patch)
    PROVE  /\ BlocksOf(patch) \in Seq(HandedBlock)
           /\ DeltasOf(BlocksOf(patch)) = patch.patch
           /\ Len(BlocksOf(patch)) = Len(patch.patch)
           /\ \A i \in DOMAIN BlocksOf(patch), t \in Table :
                 /\ i \in 1..Len(patch.patch)
                 /\ patch.patch[i][t] \in Delta \cup {None}
                 /\ patch.patch[i][t] = None => BlocksOf(patch)[i][t] = None
                 /\ patch.patch[i][t] # None =>
                       /\ BlocksOf(patch)[i][t] # None
                       /\ BlocksOf(patch)[i][t].delta = patch.patch[i][t]
                       /\ BlocksOf(patch)[i][t].to = patch.tip
<1> DEFINE entry(delta) == [delta |-> delta, to |-> patch.tip]
           handed == BlocksOf(patch)
           n      == Len(patch.patch)
<1>1. patch.patch \in Seq(Payload) /\ patch.tip \in Link
  BY DEF Handed
<1>2. n \in Nat /\ DOMAIN patch.patch = 1..n
  BY <1>1
<1>3. \A i \in 1..n, t \in Table : patch.patch[i][t] \in Delta \cup {None}
  BY <1>1 DEF Payload
<1>4. \A delta \in Delta : /\ entry(delta) \in HandedEntry /\ entry(delta) # None
                           /\ entry(delta).delta = delta /\ entry(delta).to = patch.tip
  BY <1>1, SystemAssumption DEF HandedEntry
<1>5. handed = [i \in 1..n |-> [t \in Table |->
                   IF patch.patch[i][t] = None THEN None ELSE entry(patch.patch[i][t])]]
  BY <1>2 DEF BlocksOf
<1> HIDE DEF entry, handed, n
<1>6. ASSUME NEW i \in 1..n, NEW t \in Table
      PROVE  /\ handed[i][t] = IF patch.patch[i][t] = None THEN None ELSE entry(patch.patch[i][t])
             /\ handed[i][t] \in HandedEntry \cup {None}
  <2>1. handed[i][t] = IF patch.patch[i][t] = None THEN None ELSE entry(patch.patch[i][t])
    BY <1>5
  <2> QED BY <1>3, <1>4, <2>1
<1>7. \A i \in 1..n : handed[i] \in HandedBlock
  BY <1>5, <1>6 DEF HandedBlock
<1>8. handed \in Seq(HandedBlock) /\ Len(handed) = n /\ DOMAIN handed = 1..n
  BY <1>2, <1>5, <1>7
<1>9. ASSUME NEW i \in 1..n PROVE DeltasOf(handed)[i] = patch.patch[i]
  <2>1. patch.patch[i] \in [Table -> Delta \cup {None}]
    BY <1>1, <1>2 DEF Payload
  <2>2. DeltasOf(handed)[i] =
          [t \in Table |-> IF handed[i][t] = None THEN None ELSE handed[i][t].delta]
    BY <1>8 DEF DeltasOf
  <2>3. \A t \in Table : (IF handed[i][t] = None THEN None ELSE handed[i][t].delta)
                           = patch.patch[i][t]
    BY <1>3, <1>4, <1>6
  <2> QED BY <2>1, <2>2, <2>3
<1>10. DeltasOf(handed) = patch.patch
  <2>1. DeltasOf(handed) = [i \in 1..n |-> DeltasOf(handed)[i]]
    BY <1>8 DEF DeltasOf
  <2>2. patch.patch = [i \in 1..n |-> patch.patch[i]]
    BY <1>1, <1>2
  <2> QED BY <1>9, <2>1, <2>2
<1>11. ASSUME NEW i \in 1..n, NEW t \in Table, patch.patch[i][t] # None
       PROVE  /\ handed[i][t] # None /\ handed[i][t].delta = patch.patch[i][t]
              /\ handed[i][t].to = patch.tip
  BY <1>3, <1>4, <1>6, <1>11
<1> QED BY <1>3, <1>6, <1>8, <1>10, <1>11 DEF handed, n

LEMMA HandInv ==
    ASSUME TypeInv, ServerInv, NEW patch, Handed(patch), Hand(patch),
           mishaps' \in 0..MaxServerFaults
    PROVE  ServerInv'
<1>1. PICK next : next = [pc |-> "start", tip |-> patch.tip, blocks |-> BlocksOf(patch)]
  OBVIOUS
<1>2. /\ command[Host] = Idle /\ Goes(next) /\ misled' = ~Belongs(patch)
      /\ UNCHANGED vars /\ UNCHANGED <<lastknown, rows, file, trusted>>
  BY <1>1, ServerIdle DEF Hand, Server!Begin, Server!Become, Server!tables, Goes
<1>3. PICK handed : handed = BlocksOf(patch)
  OBVIOUS
<1>4. /\ handed \in Seq(HandedBlock) /\ DeltasOf(handed) = patch.patch
      /\ Len(handed) = Len(patch.patch)
      /\ \A i \in DOMAIN handed, t \in Table :
            /\ i \in 1..Len(patch.patch)
            /\ patch.patch[i][t] \in Delta \cup {None}
            /\ patch.patch[i][t] = None => handed[i][t] = None
            /\ patch.patch[i][t] # None => /\ handed[i][t] # None
                                           /\ handed[i][t].delta = patch.patch[i][t]
                                           /\ handed[i][t].to = patch.tip
  BY <1>3, BlocksHanded
<1>5. /\ patch.pc = "patched" /\ patch.op \in {"diff", "rebase"} /\ patch.goal \in Tip
      /\ patch.tip \in Link /\ patch.patch \in Seq(Payload)
      /\ DiffOK(patch) /\ RebaseOK(patch) /\ CleanOK(patch) /\ FullOK(patch)
  BY DEF Handed
<1>6. /\ next \in Commands /\ next # Idle /\ next.pc = "start" /\ next.tip = patch.tip
      /\ next.blocks = handed
  BY <1>1, <1>3, <1>4, <1>5 DEF Commands, Idle
<1>7. Settled(patch.tip)
  BY <1>5 DEF DiffOK, RebaseOK
<1>8. PICK goal : goal = patch.tip
  OBVIOUS
<1>9. PICK last : last = stateAt[goal]
  OBVIOUS
<1>10. patch.op = "diff" =>
         /\ patch.patch \in Seq(CleanPayload)
         /\ \A t \in Table : RowsAfter(patch.patch, t, stateAt[patch.goal][t]) = last[t]
  BY <1>5, <1>8, <1>9 DEF DiffOK, CleanOK
<1>11. patch.op = "rebase" =>
         /\ Len(patch.patch) = 1
         /\ \A t \in Table : /\ patch.patch[1][t] # None
                             /\ patch.patch[1][t] = DeltaCreate("rebase", last[t], EmptyObject)
  BY <1>5, <1>8, <1>9 DEF RebaseOK, FullOK
<1>12. ASSUME NEW i \in DOMAIN handed, NEW t \in Table
       PROVE  EntryOK(handed[i][t], goal, last[t])
  <2>1. CASE patch.patch[i][t] = None
    BY <1>4, <2>1 DEF EntryOK
  <2>2. CASE patch.patch[i][t] # None
    <3>1. handed[i][t].delta = patch.patch[i][t] /\ handed[i][t].to = goal /\ i \in 1..Len(patch.patch)
      BY <1>4, <1>8, <2>2
    <3>2. CASE patch.op = "diff"
      <4>1. patch.patch[i] \in CleanPayload
        BY <1>10, <3>1, <3>2
      <4>2. patch.patch[i][t] \in CleanDelta
        BY <2>2, <4>1 DEF CleanPayload
      <4> QED BY <3>1, <4>2 DEF EntryOK
    <3>3. CASE patch.op = "rebase"
      <4>1. i = 1
        BY <1>11, <3>1, <3>3
      <4>2. patch.patch[i][t] = DeltaCreate("rebase", last[t], EmptyObject)
        BY <1>11, <3>3, <4>1
      <4> QED BY <3>1, <4>2 DEF EntryOK
    <3> QED BY <1>5, <3>2, <3>3
  <2> QED BY <2>1, <2>2
<1>13. ASSUME Belongs(patch), NEW t \in Table
       PROVE  Leads(handed, t, rows[t][Host], last[t])
  <2>1. CASE patch.op = "rebase"
    <3>1. Len(handed) = 1 /\ 1 \in DOMAIN handed
      BY <1>4, <1>11, <2>1
    <3>2. handed[1][t] # None /\ handed[1][t].delta = DeltaCreate("rebase", last[t], EmptyObject)
      BY <1>4, <1>11, <2>1, <3>1
    <3>3. Rebases(handed, t)
      BY <3>1, <3>2 DEF Rebases, DeltaCreate
    <3> QED BY <3>3 DEF Leads
  <2>2. CASE patch.op = "diff"
    <3>1. ~misled /\ trusted[Host] /\ patch.goal = lastknown[Host]
      BY <1>13, <2>2 DEF Belongs
    <3>2. rows[t][Host] = RowsOf(stateAt[patch.goal][t])
      BY <1>2, <3>1, ServerIdle DEF ServerInv, LastKnownHeld, AtRest
    <3>3. stateAt[patch.goal][t] \in State
      BY <1>5 DEF TypeInv, TypeOK
    <3>4. RowsAfter(DeltasOf(handed), t, stateAt[patch.goal][t]) = last[t]
      BY <1>4, <1>10, <2>2
    <3> QED BY <3>2, <3>3, <3>4 DEF Leads
  <2> QED BY <1>5, <2>1, <2>2
<1>14. RunOK(next, goal, last, rows', ~misled')
  BY <1>2, <1>6, <1>12, <1>13 DEF RunOK, Present
<1>15. /\ lastknown' \in [{Host} -> Link] /\ rows' \in [Table -> [{Host} -> HostRows]]
       /\ trusted' \in [{Host} -> BOOLEAN] /\ file' \in [Table -> FileKinds]
  BY <1>2 DEF ServerInv, ServerType
<1>16. misled' \in BOOLEAN
  BY <1>2
<1>17. PICK l : l = lastknown'[Host]
  OBVIOUS
<1>18. Settled(l) \/ (l = Cut /\ ~trusted'[Host] /\ next.pc = "start")
  BY <1>2, <1>6, <1>17 DEF ServerInv, KnownOK
<1>20. Opened(next, file')
  BY <1>6 DEF Opened
<1>19. goal = IF next.pc = "start" THEN next.tip ELSE lastknown'[Host]
  BY <1>6, <1>8
<1> QED BY <1>2, <1>6, <1>7, <1>8, <1>9, <1>14, <1>15, <1>16, <1>17, <1>18, <1>19, <1>20,
        ServerRuns

-----------------------------------------------------------------------------
(* The steps of the system *)

LEMMA AppliesPatch ==
    ASSUME TypeInv, ServerInv, ApplyPatch
    PROVE  ServerInv'
<1>1. UNCHANGED <<vars, misled>>
  BY DEF ApplyPatch, errand
<1> QED BY <1>1, UpdatesLastKnown, TakesNextBlock, BeginsTransaction, Commits, OpensFile, Rejects,
           EndsPatch
        DEF ApplyPatch, Server!Patch

LEMMA PatchFailsInv ==
    ASSUME ServerInv, PatchFails
    PROVE  ServerInv'
<1>1. UNCHANGED <<vars, misled>> /\ mishaps < MaxServerFaults /\ mishaps' = mishaps + 1
  BY DEF PatchFails, errand, Server!Crash, Server!CommitTorn, Server!Fault
<1>2. ASSUME Server!Crash(Host) PROVE GivesUp
  <2>1. /\ Server!Fail(Host) /\ UNCHANGED <<rows, file>>
        /\ lastknown' = lastknown \/ lastknown' = [lastknown EXCEPT ![Host] = Cut]
    BY <1>2 DEF Server!Crash, Server!tables
  <2>2. rows' \in [Table -> [{Host} -> HostRows]] /\ file' \in [Table -> FileKinds]
    BY <2>1 DEF ServerInv, ServerType
  <2> QED BY <2>1, <2>2, ServerIdle DEF Server!Fail, Server!Become, GivesUp, Goes
<1>3. ASSUME Server!CommitTorn(Host) PROVE GivesUp
  <2>1. PICK me : me = command[Host]
    OBVIOUS
  <2>2. /\ me.pc = "write" /\ Server!Fail(Host) /\ UNCHANGED lastknown
        /\ UNCHANGED <<rows, file>> \/ Server!Scraps(me.table)
    BY <1>3, <2>1 DEF Server!CommitTorn
  <2>3. me.table \in Table
    BY <2>1, <2>2, CommandKinds DEF ServerInv, ServerType
  <2>4. rows' \in [Table -> [{Host} -> HostRows]] /\ file' \in [Table -> FileKinds]
    BY <2>2, <2>3, ScrapsLeft DEF ServerInv, ServerType
  <2> QED BY <2>2, <2>4, ServerIdle DEF Server!Fail, Server!Become, GivesUp, Goes
<1>4. mishaps' \in 0..MaxServerFaults
  BY <1>1, SystemAssumption DEF ServerInv, ServerType
<1>5. GivesUp
  BY <1>2, <1>3 DEF PatchFails
<1> QED BY <1>1, <1>4, <1>5, Fails

\* What was handed over stays as it should be.
LEMMA HandedStays ==
    ASSUME TypeInv, Keeps, NEW me, Handed(me)
    PROVE  Handed(me)'
<1>1. DiffOK(me)'
  BY DiffStays DEF Handed
<1>2. RebaseOK(me)'
  BY RebaseStays DEF Handed
<1>3. (/\ me \in [pc: {"patched"}, op: {"diff", "rebase"}, goal: Tip, tip: Link,
                  patch: Seq(Payload)]
       /\ CleanOK(me) /\ FullOK(me))'
  BY DEF Handed, CleanOK, FullOK
<1> QED BY <1>1, <1>2, <1>3 DEF Handed

\* The caller has what it had.
LEMMA ErrandStays ==
    ASSUME TypeInv, Keeps, ErrandInv, newest' \in {newest, None}, aside' \in {aside, newest, None},
           caller' \in {"idle", "asked", "refused", "got"}, caller' = "got" <=> newest' # None
    PROVE  ErrandInv'
<1>1. PICK n, a : n = newest /\ a = aside
  OBVIOUS
<1>2. (n # None => Handed(n)') /\ (a # None => Handed(a)')
  BY <1>1, HandedStays DEF ErrandInv
<1>3. \A x \in {n, a, None} : x # None => Handed(x)'
  BY <1>2
<1>4. (newest # None => Handed(newest))' /\ (aside # None => Handed(aside))'
  BY <1>1, <1>3
<1> QED BY <1>4 DEF ErrandInv

LEMMA GetsAnswer ==
    ASSUME TypeInv, DiffInv, RebaseInv, PatchesInv, Keeps, ErrandInv,
           NEW p \in Process, GetAnswer(p)
    PROVE  ErrandInv'
<1>1. CASE caller' = "refused" /\ UNCHANGED newest
  <2>1. newest = None
    BY DEF GetAnswer, ErrandInv
  <2> QED BY <1>1, <2>1, ErrandStays DEF GetAnswer
<1>2. CASE local[p].pc = "patched" /\ newest' = local[p] /\ caller' = "got"
  <2>1. PICK me : me = local[p]
    OBVIOUS
  <2>2. me \in Local /\ me.pc = "patched"
    BY <1>2, <2>1 DEF TypeInv, TypeOK
  <2>3. me \in [pc: {"patched"}, op: {"diff", "rebase"}, goal: Tip, tip: Link, patch: Seq(Payload)]
    BY <2>2, LocalKinds DEF PatchLocal
  <2>4. Handed(me) /\ me # None
    BY <2>1, <2>3, SystemAssumption DEF Handed, DiffInv, RebaseInv, PatchesInv
  <2>5. Handed(me)'
    BY <2>4, HandedStays
  <2>6. PICK a : a = aside
    OBVIOUS
  <2>7. a # None => Handed(a)'
    BY <2>6, HandedStays DEF ErrandInv
  <2>8. aside' = a
    BY <2>6 DEF GetAnswer
  <2>9. newest' = me
    BY <1>2, <2>1
  <2>10. (newest # None => Handed(newest))' /\ (aside # None => Handed(aside))'
    BY <2>5, <2>7, <2>8, <2>9
  <2> QED BY <1>2, <2>4, <2>9, <2>10 DEF ErrandInv
<1> QED BY <1>1, <1>2 DEF GetAnswer

-----------------------------------------------------------------------------
(* The invariant of the system *)

\* What the theorems ask of the host: one process commits, rebases too, and comes to
\* its end; the tables are always the same.
SteadyHost == OneCommitter /\ CommitsEnd /\ CommitterRebases /\ EveryTable

SystemInv ==
    /\ TypeInv /\ IInv /\ CommitInv /\ DiffInv /\ RebaseInv
    /\ PatchesInv /\ ErrandInv /\ ServerInv

LEMMA SystemInvInit ==
    ASSUME SteadyHost, SystemInit PROVE SystemInv
<1>1. Init /\ TypeInv /\ IInv /\ CommitInv
  BY TypeInvInit, InvInit, CommitInvInit DEF SystemInit
<1>2. \A p \in Process : local[p] = Idle
  BY <1>1 DEF Init
<1>3. DiffInv /\ RebaseInv
  BY <1>2 DEF DiffInv, DiffOK, RebaseInv, RebaseOK, Idle
<1>4. PatchesInv
  BY <1>1, <1>2 DEF PatchesInv, CleanOK, FullOK, Idle, SteadyHost, EveryTable, Init
<1>5. ErrandInv
  BY DEF ErrandInv, SystemInit
<1>6. Settled(Genesis)
  <2>a. Idle.pc = "idle"
    BY DEF Idle
  <2>1. ASSUME NEW p \in Process PROVE local[p].pc # "write block"
    <3>1. local[p] = Idle
      BY <1>2
    <3> QED BY <2>a, <3>1
  <2>2. created = 0 /\ 0 \in 0..0
    BY <1>1 DEF Init
  <2>3. 0 \in 0..created
    BY <2>2, Zenon
  <2> QED BY <2>1, <2>3 DEF Settled, Genesis
<1>7. EmptyObject \in State /\ RowsOf(EmptyObject) \in HostRows
  BY RowsOfType DEF EmptyObject, State
<1>8. ServerType
  <2>1. lastknown \in [{Host} -> Link] /\ trusted \in [{Host} -> BOOLEAN] /\ misled \in BOOLEAN
    BY DEF SystemInit, Link
  <2>2. rows \in [Table -> [{Host} -> HostRows]]
    BY <1>7 DEF SystemInit
  <2>a. file \in [Table -> FileKinds]
    BY DEF SystemInit, FileKinds
  <2>3. command \in [{Host} -> Commands]
    BY ServerIdle DEF SystemInit, Commands
  <2>4. mishaps \in 0..MaxServerFaults
    BY SystemAssumption DEF SystemInit
  <2> QED BY <2>1, <2>2, <2>a, <2>3, <2>4 DEF ServerType
<1>9. command[Host] = Idle /\ lastknown[Host] = Genesis
  BY ServerIdle DEF SystemInit
<1>11. LastKnownHeld
  BY <1>1, <1>9 DEF LastKnownHeld, SystemInit, Init
<1>12. ServerInv
  BY <1>6, <1>8, <1>9, <1>11 DEF ServerInv, KnownOK, Opened, Idle
<1> QED BY <1>1, <1>3, <1>4, <1>5, <1>12 DEF SystemInv

\* What the system does to the host's files and commands, the host does.
LEMMA SystemIsChain ==
    ASSUME TypeInv, ServerInv, [SystemNext]_system PROVE [Next]_vars
<1>1. ASSUME NEW p \in Process, HostSteps(p) \/ Caller(p) PROVE Run(p)
  <2>1. CASE HostSteps(p)
    BY <2>1 DEF HostSteps, Run, Diff, Rebase
  <2>2. CASE AskForDiff(p)
    <3>1. lastknown[Host] \in 0..created
      BY <2>2 DEF ServerInv, KnownOK, Settled, AskForDiff
    <3> QED BY <2>2, <3>1 DEF AskForDiff, DiffResolve, Diff, Run
  <2>3. CASE AskForRebase(p)
    BY <2>3 DEF AskForRebase, Rebase, Run
  <2>4. CASE GetAnswer(p)
    BY <2>4 DEF GetAnswer, Run
  <2> QED BY <1>1, <2>1, <2>2, <2>3, <2>4 DEF Caller
<1>2. CASE Deliver \/ DeliverAgain \/ ApplyPatch \/ PatchFails \/ LosesRows
  BY <1>2 DEF Deliver, DeliverAgain, Hand, ApplyPatch, PatchFails, LosesRows
<1>3. CASE UNCHANGED system
  BY <1>3 DEF system
<1> QED BY <1>1, <1>2, <1>3 DEF SystemNext, Next

LEMMA SystemInvStep ==
    ASSUME SteadyHost, SystemInv, [SystemNext]_system PROVE SystemInv'
<1>a. OneCommitter /\ CommitsEnd /\ CommitterRebases /\ EveryTable
  BY DEF SteadyHost
<1>b. /\ TypeInv /\ IInv /\ CommitInv /\ DiffInv /\ RebaseInv
      /\ PatchesInv /\ ErrandInv /\ ServerInv
  BY DEF SystemInv
<1>1. [Next]_vars
  BY <1>b, SystemIsChain
<1>2. TypeInv' /\ IInv'
  BY <1>b, <1>1, TypeInvStep, InvStep
<1>3. CommitInv'
  BY <1>a, <1>b, <1>1, <1>2, CommitInvStep
<1>4. DiffInv' /\ RebaseInv' /\ PatchesInv'
  BY <1>a, <1>b, <1>1, DiffInvStep, RebaseInvStep, PatchesInvStep
<1>5. Keeps
  BY <1>b, <1>1, CommitWritesNewest, SettledStays
<1>6. ErrandInv' /\ ServerInv'
  <2>1. ASSUME NEW p \in Process, HostSteps(p)
        PROVE  ErrandInv' /\ ServerInv'
    <3>1. UNCHANGED <<server, errand>>
      BY <2>1 DEF HostSteps
    <3> QED BY <1>b, <1>5, <3>1, ErrandStays, ChainKeepsServer DEF errand, ErrandInv
  <2>2. ASSUME NEW p \in Process, AskForDiff(p) \/ AskForRebase(p)
        PROVE  ErrandInv' /\ ServerInv'
    <3>1. UNCHANGED <<server, newest, aside, misled>> /\ caller' = "asked" /\ caller # "got"
      BY <2>2 DEF AskForDiff, AskForRebase
    <3>2. ServerInv'
      BY <1>b, <1>5, <3>1, ChainKeepsServer
    <3>3. newest = None
      BY <1>b, <3>1 DEF ErrandInv
    <3>4. ErrandInv'
      BY <1>b, <1>5, <3>1, <3>3, ErrandStays
    <3> QED BY <3>2, <3>4
  <2>3. ASSUME NEW p \in Process, GetAnswer(p)
        PROVE  ErrandInv' /\ ServerInv'
    <3>1. UNCHANGED <<server, misled>>
      BY <2>3 DEF GetAnswer
    <3> QED BY <1>b, <1>5, <2>3, <3>1, GetsAnswer, ChainKeepsServer
  <2>4. CASE Deliver
    <3>1. PICK patch : patch = newest
      OBVIOUS
    <3>2. Handed(patch) /\ Hand(patch)
      BY <1>b, <2>4, <3>1 DEF Deliver, ErrandInv
    <3>3. mishaps' \in 0..MaxServerFaults
      BY <1>b, <2>4 DEF Deliver, ServerInv, ServerType
    <3>4. ServerInv'
      BY <1>b, <3>2, <3>3, HandInv
    <3>5. ErrandInv'
      BY <1>b, <1>5, <2>4, ErrandStays DEF Deliver
    <3> QED BY <3>4, <3>5
  <2>5. CASE DeliverAgain
    <3>1. PICK patch : patch = aside
      OBVIOUS
    <3>2. Handed(patch) /\ Hand(patch)
      BY <1>b, <2>5, <3>1 DEF DeliverAgain, ErrandInv
    <3>3. mishaps < MaxServerFaults /\ mishaps' = mishaps + 1
      BY <2>5 DEF DeliverAgain
    <3>4. mishaps' \in 0..MaxServerFaults
      BY <1>b, <3>3, SystemAssumption DEF ServerInv, ServerType
    <3>5. ServerInv'
      BY <1>b, <3>2, <3>4, HandInv
    <3>6. ErrandInv'
      BY <1>b, <1>5, <2>5, ErrandStays DEF DeliverAgain, ErrandInv
    <3> QED BY <3>5, <3>6
  <2>6. CASE ApplyPatch \/ PatchFails \/ LosesRows
    <3>1. UNCHANGED <<caller, newest, aside>>
      BY <2>6 DEF ApplyPatch, PatchFails, LosesRows, errand
    <3>2. ErrandInv'
      BY <1>b, <1>5, <3>1, ErrandStays DEF ErrandInv
    <3>3. ServerInv'
      BY <1>b, <2>6, AppliesPatch, PatchFailsInv, LosesRowsInv
    <3> QED BY <3>2, <3>3
  <2>7. CASE UNCHANGED system
    BY <1>b, <1>5, <2>7, ErrandStays, ChainKeepsServer DEF system, errand, ErrandInv
  <2> QED BY <2>1, <2>2, <2>3, <2>4, <2>5, <2>6, <2>7 DEF SystemNext, Caller
<1> QED BY <1>2, <1>3, <1>4, <1>6 DEF SystemInv

LEMMA SystemInvHolds ==
    ASSUME SteadyHost PROVE SystemSpec => []SystemInv
<1>1. SystemInit => SystemInv
  BY SystemInvInit
<1>2. SystemInv /\ [SystemNext]_system => SystemInv'
  BY SystemInvStep
<1> QED BY <1>1, <1>2, PTL DEF SystemSpec

-----------------------------------------------------------------------------
(* Theorems *)

\* The last known file names a block that the host has had, or none; the caller has
\* a patch to deliver exactly when it got one; whatever rows a patch meets, what
\* the callbacks leave are rows.
THEOREM SystemTypes ==
    ASSUME SteadyHost PROVE SystemSpec => []SystemTypeOK
<1>1. ASSUME SystemInv PROVE SystemTypeOK
  <2>1. TypeInv /\ ErrandInv /\ ServerInv
    BY <1>1 DEF SystemInv
  <2>2. lastknown[Host] \in Tip \cup {Cut}
    BY <2>1, SettledState DEF ServerInv, KnownOK
  <2>3. command[Host] \in Commands /\ trusted[Host] \in BOOLEAN
    BY <2>1 DEF ServerInv, ServerType
  <2> QED BY <2>1, <2>2, <2>3, CommandKinds
          DEF SystemTypeOK, TypeInv, ErrandInv, ServerInv, ServerType, FileKinds
<1>2. SystemInv => SystemTypeOK
  BY <1>1
<1> QED BY <1>2, SystemInvHolds, PTL

\* Between two patch commands, when the last one reported success, the server has
\* exactly what the host's tables were at the block that its last known file names,
\* through purges, patches that failed and commits that overtook the patch on its
\* way, as long as no diff is delivered where it does not belong.
THEOREM LastKnownTrue ==
    ASSUME SteadyHost PROVE SystemSpec => []LastKnownHeld
<1>1. SystemInv => LastKnownHeld
  BY DEF SystemInv, ServerInv
<1> QED BY <1>1, SystemInvHolds, PTL

\* What a rebase transaction, that read a file with a header, may become.
Restores(me) ==
    LET entry == Head(me.blocks)[me.table]
    IN  \/ me.pc = "transaction" /\ command'[Host].pc = "write"
        \/ /\ command'[Host].pc = "patch"
           /\ rows'[me.table][Host] = RowsOf(stateAt[entry.to][me.table])

\* A transaction with the delta of a rebase.
LEMMA RestoresStep ==
    ASSUME SystemInv, [SystemNext]_system, NEW me, me = command[Host],
           me.pc \in {"transaction", "write"},
           command'[Host] # me, mishaps' = mishaps,
           Head(me.blocks)[me.table].delta.type = "rebase", me.header
    PROVE  Restores(me)
<1>1. TypeInv /\ ServerInv
  BY DEF SystemInv
<1> DEFINE entry == me.blocks[1][me.table]
           there == me.content[Host]
           last  == stateAt[Goal][me.table]
           d     == entry.delta
<1>2. /\ me \in Commands /\ me.blocks # <<>> /\ me.table \in Table
      /\ Head(me.blocks)[me.table] = entry
      /\ entry \in HandedEntry /\ last \in State /\ EntryOK(entry, Goal, last)
  BY <1>1, TransactionOK
<1>3. entry # None
  BY <1>2, SystemAssumption DEF HandedEntry
<1>4. entry.to = Goal /\ d = DeltaCreate("rebase", last, EmptyObject)
  BY <1>2, <1>3 DEF EntryOK, CleanDelta
<1>5. mishaps \in Nat
  BY <1>1, SystemAssumption DEF ServerInv, ServerType
<1> DEFINE csv == CsvApplied(d, there)
           sql == SqlApplied(d, there)
<1>6. ~Misses(d, there) /\ csv = RowsOf(last) /\ sql = RowsOf(last)
  BY <1>2, <1>4, RebaseSucceeds
<1>7. ~Server!Unappliable(Host)
  <2>1. Server!Entry(Host) = entry
    BY <1>2 DEF Server!Entry
  <2> QED BY <1>6, <2>1, ServerRows DEF Server!Unappliable
<1>8. Server!CommitSql(Host) \/ Server!WriteFile(Host) \/ Server!OpenFile(Host)
  <2>1. ASSUME NEW p \in Process, HostSteps(p) \/ Caller(p) PROVE command' = command
    BY <2>1 DEF HostSteps, Caller, AskForDiff, AskForRebase, GetAnswer, server
  <2>2. CASE Deliver \/ DeliverAgain
    <3>1. command[Host] = Server!Idle
      BY <2>2 DEF Deliver, DeliverAgain, Hand, Server!Begin
    <3> QED BY <3>1, ServerIdle DEF Idle
  <2>3. CASE PatchFails \/ LosesRows
    <3>1. mishaps' = mishaps + 1
      BY <2>3 DEF PatchFails, LosesRows, Server!Crash, Server!CommitTorn, Server!InsertFails,
                  Server!ShortWrite, Server!Fault
    <3> QED BY <1>5, <3>1
  <2>4. CASE ApplyPatch
    <3>1. Server!Patch(Host)
      BY <2>4 DEF ApplyPatch
    <3>2. ~Server!UpdateLastKnown(Host) /\ ~Server!NextBlock(Host)
          /\ ~Server!BeginTransaction(Host) /\ ~Server!PatchEnd(Host)
      BY DEF Server!UpdateLastKnown, Server!NextBlock, Server!BeginTransaction, Server!PatchEnd
    <3>3. ~Server!RejectDelta(Host)
      BY <1>7 DEF Server!RejectDelta
    <3> QED BY <3>1, <3>2, <3>3 DEF Server!Patch
  <2>5. CASE UNCHANGED system
    BY <2>5 DEF system, server
  <2> QED BY <2>1, <2>2, <2>3, <2>4, <2>5 DEF SystemNext
<1>9. ~PrimaryKeyViolated(RowsOf(last))
  BY <1>2, RowsOfKeyed
<1>10. CASE Server!OpenFile(Host)
  <2>1. me.pc = "transaction" /\ Goes([me EXCEPT !.pc = "write"])
    BY <1>10 DEF Server!OpenFile, Server!Become, Goes
  <2>2. command'[Host].pc = "write"
    <3>1. command'[Host] = [me EXCEPT !.pc = "write"]
      BY <1>1, <2>1, GoesTo DEF ServerInv
    <3>2. me \in [pc: {"transaction", "write"}, table: Table, content: [{Host} -> HostRows],
                  header: BOOLEAN, blocks: Seq(HandedBlock)]
      BY <1>2, <2>1 DEF Commands, Idle
    <3> QED BY <3>1, <3>2
  <2> QED BY <2>1, <2>2 DEF Restores
<1>11. CASE Server!CommitSql(Host) \/ Server!WriteFile(Host)
  <2>1. ServerType /\ Opened(me, file)
    BY <1>1 DEF ServerInv
  <2>2. Ends(me, TRUE, csv) \/ Ends(me, ~PrimaryKeyViolated(sql), sql)
    <3>1. CASE Server!CommitSql(Host)
      BY <1>2, <2>1, <3>1, CommitsSql
    <3>2. CASE Server!WriteFile(Host)
      BY <1>2, <2>1, <3>2, WritesFile
    <3> QED BY <1>11, <3>1, <3>2
  <2> HIDE DEF entry, there, last, d, csv, sql
  <2>3. Stores(me.table, RowsOf(last)) /\ Goes(After(me))
    BY <1>6, <1>9, <2>2 DEF Ends
  <2>4. command'[Host] = After(me) /\ After(me).pc = "patch"
    BY <2>1, <2>3, GoesTo DEF After
  <2>5. rows'[me.table][Host] = RowsOf(last)
    BY <1>2, <2>1, <2>3 DEF Stores, ServerType
  <2> QED BY <1>2, <1>4, <2>4, <2>5 DEF last, Restores
<1> QED BY <1>8, <1>10, <1>11

LEMMA RestoresAction ==
    ASSUME SystemInv, [SystemNext]_system
    PROVE  [LET me    == command[Host]
                entry == Head(me.blocks)[me.table]
            IN  /\ me.pc \in {"transaction", "write"}
                /\ command'[Host] # me
                /\ mishaps' = mishaps
                /\ entry.delta.type = "rebase"
                /\ me.header
                => \/ me.pc = "transaction" /\ command'[Host].pc = "write"
                   \/ /\ command'[Host].pc = "patch"
                      /\ rows'[me.table][Host] = RowsOf(stateAt[entry.to][me.table])]_system
<1>1. PICK me : me = command[Host]
  OBVIOUS
<1> QED BY <1>1, RestoresStep DEF Restores

\* Whatever was applied where it does not belong, got lost, or is left of a file that
\* was torn: if a header is left, a transaction with a rebase delta that meets no fault
\* of its own succeeds, and leaves exactly what the host's table was at the block that
\* the patch names.
THEOREM RebasesRestore ==
    ASSUME SteadyHost PROVE SystemSpec => RebaseRestores
<1>1. SystemInv /\ [SystemNext]_system =>
        [LET me    == command[Host]
             entry == Head(me.blocks)[me.table]
         IN  /\ me.pc \in {"transaction", "write"}
             /\ command'[Host] # me
             /\ mishaps' = mishaps
             /\ entry.delta.type = "rebase"
             /\ me.header
             => \/ me.pc = "transaction" /\ command'[Host].pc = "write"
                \/ /\ command'[Host].pc = "patch"
                   /\ rows'[me.table][Host] = RowsOf(stateAt[entry.to][me.table])]_system
  BY RestoresAction
<1> QED BY <1>1, SystemInvHolds, PTL DEF SystemSpec, RebaseRestores
=============================================================================
