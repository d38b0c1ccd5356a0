-------------------------- MODULE LeechServerProofs -------------------------
(***************************************************************************)
(* Proofs about LeechServer, for any number of hosts, tables, keys,        *)
(* versions and faults, and however many patches are applied at once.      *)
(***************************************************************************)
EXTENDS LeechServer, LeechDeltaProofs, TLAPS

-----------------------------------------------------------------------------
(* Types *)

\* The rows of a state are the state's.
LEMMA RowsOfState ==
    ASSUME NEW s \in State
    PROVE  ~PrimaryKeyViolated(RowsOf(s)) /\ StateOf(RowsOf(s)) = s
<1>1. \A k \in Key : RowsOf(s)[k] = IF HasKey(s, k) THEN One(s[k]) ELSE <<>>
  BY DEF RowsOf, One
<1>2. \A k \in Key : StateOf(RowsOf(s))[k] = s[k]
  <2> TAKE k \in Key
  <2>1. StateOf(RowsOf(s))[k] = IF RowsOf(s)[k] = <<>> THEN Missing ELSE Head(RowsOf(s)[k])
    BY DEF StateOf
  <2> QED BY <1>1, <2>1, OneRow DEF HasKey
<1> QED BY <1>2, RowsOfKeyed DEF StateOf, State

\* What a delta of a patch, a block, and a running command are.
PatchEntry == [delta: Delta, to: 0..MaxVersion]
PatchBlock == [Table -> PatchEntry \cup {None}]

Commands ==
    {Idle}
    \cup [pc: {"start"}, tip: Nat, blocks: Seq(PatchBlock)]
    \cup [pc: {"patch"}, blocks: Seq(PatchBlock)]
    \cup [pc: {"transaction", "write"}, table: Table, content: [Host -> HostRows],
          header: BOOLEAN, blocks: Seq(PatchBlock)]

\* A patch never claims a version that its host has not committed, and a
\* transaction is about a delta of the first block.  An emptied last known file
\* is one of a patch that failed.
TypeInv ==
    /\ versions \in [Host -> Seq([Table -> State])]
    /\ \A h \in Host : Len(versions[h]) <= MaxVersion
    /\ lastknown \in [Host -> Nat \cup {Cut}]
    /\ \A h \in Host : IF lastknown[h] = Cut
                       THEN ~trusted[h] /\ command[h].pc \in {"idle", "start"}
                       ELSE lastknown[h] <= Len(versions[h])
    /\ rows \in [Table -> [Host -> HostRows]]
    /\ file \in [Table -> {"whole", "headless", "broken", "empty"}]
    /\ command \in [Host -> Commands]
    /\ \A h \in Host : command[h].pc = "start" => command[h].tip <= Len(versions[h])
    /\ \A h \in Host : command[h].pc \in {"transaction", "write"} =>
           /\ command[h].blocks # <<>>
           /\ command[h].table \in Tables(Head(command[h].blocks))
    /\ trusted \in [Host -> BOOLEAN]
    /\ faults \in 0..MaxFaults
    /\ reached \in [Table -> [Host -> 0..MaxVersion]]
    /\ lost \in [Table -> SUBSET Host]

LEMMA VersionType ==
    ASSUME TypeInv, NEW h \in Host, NEW n \in 0..Len(versions[h])
    PROVE  Version(h, n) \in [Table -> State]
BY DEF TypeInv, Version, EmptyObject, State

\* What a command has in memory, by where it is.
LEMMA CommandCases ==
    ASSUME NEW me \in Commands
    PROVE  /\ me.pc = "idle" <=> me = Idle
           /\ me.pc = "start" => /\ me \in [pc: {"start"}, tip: Nat, blocks: Seq(PatchBlock)]
                                 /\ me.tip \in Nat /\ me.blocks \in Seq(PatchBlock)
           /\ me.pc = "patch" => /\ me \in [pc: {"patch"}, blocks: Seq(PatchBlock)]
                                 /\ me.blocks \in Seq(PatchBlock)
           /\ me.pc \in {"transaction", "write"} =>
                 /\ me \in [pc: {"transaction", "write"}, table: Table,
                            content: [Host -> HostRows], header: BOOLEAN,
                            blocks: Seq(PatchBlock)]
                 /\ me.table \in Table
                 /\ me.content \in [Host -> HostRows]
                 /\ me.blocks \in Seq(PatchBlock)
           /\ me.pc \in {"idle", "start", "patch", "transaction", "write"}
BY DEF Commands, Idle

LEMMA StepType ==
    ASSUME TypeInv, NEW h \in Host, NEW t \in Table, NEW type \in DeltaType,
           NEW from \in 0..Len(versions[h]), NEW to \in 0..Len(versions[h])
    PROVE  Step(type, h, t, from, to) \in PatchEntry
<1>1. Version(h, to)[t] \in State /\ Version(h, from)[t] \in State
  BY VersionType
<1>2. to \in 0..MaxVersion
  BY ServerAssumption DEF TypeInv
<1> QED BY <1>1, <1>2, DeltaCreateNetEffect DEF Step, PatchEntry

LEMMA DiffBlocksType ==
    ASSUME TypeInv, NEW h \in Host,
           NEW from \in Nat, NEW to \in 0..Len(versions[h]), from <= to
    PROVE  /\ DiffBlocks(h, from, to) \in Seq(PatchBlock)
           /\ Len(DiffBlocks(h, from, to)) = to - from
<1>1. Len(versions[h]) \in Nat
  BY DEF TypeInv
<1>2. to - from \in Nat
  BY <1>1
<1>3. ASSUME NEW i \in 1..(to - from)
      PROVE  DiffBlocks(h, from, to)[i] \in PatchBlock
  <2>1. /\ from + i - 1 \in 0..Len(versions[h])
        /\ from + i \in 0..Len(versions[h])
        /\ from \in 0..Len(versions[h])
        /\ to \in 0..Len(versions[h])
    BY <1>1, <1>2
  <2>2. "delta" \in DeltaType
    BY DEF DeltaType
  <2>3. \A t \in Table : /\ Step("delta", h, t, from + i - 1, from + i) \in PatchEntry
                         /\ Step("delta", h, t, from, to) \in PatchEntry
    BY <2>1, <2>2, StepType
  <2> QED BY <2>3 DEF DiffBlocks, PatchBlock
<1>4. DiffBlocks(h, from, to) \in [1..(to - from) -> PatchBlock]
  BY <1>3 DEF DiffBlocks
<1> QED BY <1>2, <1>4

LEMMA RebaseBlockType ==
    ASSUME TypeInv, NEW h \in Host, NEW to \in 0..Len(versions[h])
    PROVE  RebaseBlock(h, to) \in PatchBlock
<1>1. "rebase" \in DeltaType /\ 0 \in 0..Len(versions[h])
  BY DEF DeltaType, TypeInv
<1>2. \A t \in Table : Step("rebase", h, t, 0, to) \in PatchEntry
  BY <1>1, StepType
<1> QED BY <1>2 DEF RebaseBlock, PatchBlock

\* Of a block with a delta that has been dealt with, the rest is left.
LEMMA RestOfBlocks ==
    ASSUME NEW blocks \in Seq(PatchBlock), blocks # <<>>, NEW t \in Tables(Head(blocks))
    PROVE  LET rest == <<[Head(blocks) EXCEPT ![t] = None]>> \o Tail(blocks)
           IN  /\ Head(blocks) = blocks[1]
               /\ t \in Table /\ t \in Known /\ Head(blocks)[t] \in PatchEntry
               /\ rest \in Seq(PatchBlock) /\ rest # <<>>
               /\ Len(rest) = Len(blocks)
               /\ rest[1] = [Head(blocks) EXCEPT ![t] = None]
               /\ \A i \in 2..Len(blocks) : rest[i] = blocks[i]
<1> DEFINE block == [Head(blocks) EXCEPT ![t] = None]
<1>1. Head(blocks) \in PatchBlock /\ Head(blocks) = blocks[1]
  BY HeadTailProperties
<1>2. t \in Table /\ t \in Known /\ Head(blocks)[t] \in PatchEntry
  BY <1>1, ServerAssumption DEF Tables, PatchBlock
<1>3. block \in PatchBlock
  BY <1>1 DEF PatchBlock
<1> HIDE DEF block
<1>4. Tail(blocks) \in Seq(PatchBlock) /\ Len(Tail(blocks)) = Len(blocks) - 1
  BY HeadTailProperties
<1>5. \A i \in 1..Len(Tail(blocks)) : Tail(blocks)[i] = blocks[i + 1]
  BY HeadTailProperties
<1>6. <<block>> \in Seq(PatchBlock) /\ Len(<<block>>) = 1 /\ <<block>>[1] = block
  BY <1>3
<1>7. Len(blocks) \in Nat \ {0}
  BY EmptySeq
<1> DEFINE rest == <<block>> \o Tail(blocks)
<1>8. /\ rest \in Seq(PatchBlock)
      /\ Len(rest) = Len(blocks)
      /\ \A i \in 1..Len(rest) : rest[i] = IF i <= 1 THEN <<block>>[i] ELSE Tail(blocks)[i - 1]
  BY <1>4, <1>6, <1>7, ConcatProperties
<1>9. rest[1] = block /\ \A i \in 2..Len(blocks) : rest[i] = blocks[i]
  BY <1>4, <1>5, <1>6, <1>7, <1>8
<1>10. rest # <<>>
  BY <1>7, <1>8
<1> QED BY <1>1, <1>2, <1>8, <1>9, <1>10 DEF block

LEMMA NoRowsType == NoRows \in [Host -> HostRows]
<1>1. EmptyObject \in State /\ RowsOf(EmptyObject) \in HostRows
  BY RowsOfType DEF EmptyObject, State
<1> QED BY <1>1 DEF NoRows

\* What is left of a file are rows.
LEMMA ScrapsType ==
    ASSUME TypeInv, NEW t \in Table, Scraps(t)
    PROVE  /\ rows' \in [Table -> [Host -> HostRows]]
           /\ file' \in [Table -> {"whole", "headless", "broken", "empty"}]
           /\ lost' \in [Table -> SUBSET Host]
<1>1. ASSUME NEW left \in [Host -> [Key -> UNION {[1..n -> Value] : n \in 0..MaxScraps}]]
      PROVE  left \in [Host -> HostRows]
  <2> SUFFICES ASSUME NEW h \in Host, NEW k \in Key
               PROVE  left[h][k] \in Seq(Value)
    BY DEF HostRows
  <2> DEFINE seqs == {[1..n -> Value] : n \in 0..MaxScraps}
  <2>0. left[h][k] \in UNION seqs
    OBVIOUS
  <2>1. PICK n \in 0..MaxScraps : left[h][k] \in [1..n -> Value]
    BY <2>0
  <2>2. n \in Nat
    BY ServerAssumption
  <2> QED BY <2>1, <2>2
<1>2. PICK content \in [Host -> HostRows] : rows' = [rows EXCEPT ![t] = content]
  BY <1>1, NoRowsType DEF Scraps
<1>3. rows' \in [Table -> [Host -> HostRows]]
  BY <1>2 DEF TypeInv
<1>4. PICK kind \in {"whole", "headless", "broken"} : file' = [file EXCEPT ![t] = kind]
  BY DEF Scraps
<1> QED BY <1>3, <1>4 DEF Scraps, TypeInv

LEMMA TypeInit == Init => TypeInv
<1>1. 0 # Cut
  BY ServerAssumption
<1> QED BY <1>1, NoRowsType, ServerAssumption DEF Init, TypeInv, Commands, Idle

\* A transaction is about a delta, and what it proceeds to is a command.
LEMMA EntryType ==
    ASSUME TypeInv, NEW h \in Host, command[h].pc \in {"transaction", "write"}
    PROVE  /\ command[h].table \in Table
           /\ command[h].blocks \in Seq(PatchBlock) /\ command[h].blocks # <<>>
           /\ command[h].table \in Tables(Head(command[h].blocks))
           /\ Entry(h) \in PatchEntry
           /\ New(h) \in HostRows
           /\ Proceed(h) => \E rest \in Seq(PatchBlock) :
                               Become(h, [pc |-> "patch", blocks |-> rest])
<1> DEFINE me   == command[h]
           rest == <<[Head(me.blocks) EXCEPT ![me.table] = None]>> \o Tail(me.blocks)
<1>1. /\ me.blocks \in Seq(PatchBlock) /\ me.blocks # <<>>
      /\ me.table \in Tables(Head(me.blocks)) /\ me.table \in Table
      /\ me.content \in [Host -> HostRows]
  BY CommandCases DEF TypeInv
<1>2. Entry(h) \in PatchEntry /\ rest \in Seq(PatchBlock)
  BY <1>1, RestOfBlocks DEF Entry
<1>3. New(h) \in HostRows
  BY <1>1, <1>2, AppliedType DEF New, Applied, PatchEntry
<1> QED BY <1>1, <1>2, <1>3 DEF Proceed

LEMMA TypeStep == TypeInv /\ [Next]_vars => TypeInv'
<1> SUFFICES ASSUME TypeInv, [Next]_vars PROVE TypeInv'
  OBVIOUS
<1> USE ServerAssumption
<1> DEFINE TablesTyped == /\ rows' \in [Table -> [Host -> HostRows]]
                          /\ file' \in [Table -> {"whole", "headless", "broken", "empty"}]
                          /\ reached' \in [Table -> [Host -> 0..MaxVersion]]
                          /\ lost' \in [Table -> SUBSET Host]
\* A step that changes a command, the tables, and whether it is trusted, at most.
<1>1. ASSUME NEW h \in Host, NEW me \in Commands, Become(h, me), TablesTyped,
             UNCHANGED <<versions, lastknown>>,
             lastknown[h] = Cut => me.pc \in {"idle", "start"},
             lastknown[h] = Cut => ~trusted'[h],
             \A g \in Host : g # h => trusted'[g] = trusted[g],
             trusted' \in [Host -> BOOLEAN], faults' \in 0..MaxFaults,
             me.pc = "start" => me.tip <= Len(versions[h]),
             me.pc \in {"transaction", "write"} => /\ me.blocks # <<>>
                                                   /\ me.table \in Tables(Head(me.blocks))
      PROVE  TypeInv'
  <2>1. command'[h] = me /\ \A g \in Host : g # h => command'[g] = command[g]
    BY <1>1 DEF TypeInv, Become
  <2>2. command' \in [Host -> Commands]
    BY <1>1 DEF TypeInv, Become
  <2>3. ASSUME NEW g \in Host
        PROVE  /\ IF lastknown[g] = Cut
                  THEN ~trusted'[g] /\ command'[g].pc \in {"idle", "start"}
                  ELSE lastknown[g] <= Len(versions[g])
               /\ command'[g].pc = "start" => command'[g].tip <= Len(versions[g])
               /\ command'[g].pc \in {"transaction", "write"} =>
                     /\ command'[g].blocks # <<>>
                     /\ command'[g].table \in Tables(Head(command'[g].blocks))
    <3>1. CASE g = h
      BY <1>1, <2>1, <3>1 DEF TypeInv
    <3>2. CASE g # h
      BY <1>1, <2>1, <3>2 DEF TypeInv
    <3> QED BY <3>1, <3>2
  <2>4. UNCHANGED <<versions, lastknown>>
    BY <1>1
  <2>5. TablesTyped /\ trusted' \in [Host -> BOOLEAN] /\ faults' \in 0..MaxFaults
    BY <1>1
  <2> QED BY <2>2, <2>3, <2>4, <2>5 DEF TypeInv, Tables
<1>2. ASSUME UNCHANGED tables
      PROVE  TablesTyped
  BY <1>2 DEF tables, TypeInv
<1>3. ASSUME NEW h \in Host, Fail(h), UNCHANGED <<versions, lastknown>>, TablesTyped,
             faults' \in 0..MaxFaults
      PROVE  TypeInv'
  <2>1. Idle \in Commands /\ Idle.pc = "idle" /\ Become(h, Idle)
    BY <1>3 DEF Commands, Idle, Fail
  <2>2. /\ trusted' \in [Host -> BOOLEAN] /\ ~trusted'[h]
        /\ \A g \in Host : g # h => trusted'[g] = trusted[g]
    BY <1>3 DEF Fail, TypeInv
  <2> HIDE DEF TablesTyped
  <2> QED BY <1>1, <1>3, <2>1, <2>2
<1> HIDE DEF TablesTyped
<1>4. ASSUME NEW h \in Host, HostCommits(h)
      PROVE  TypeInv'
  <2>1. PICK new \in [Table -> State] :
            versions' = [versions EXCEPT ![h] = Append(versions[h], new)]
    BY <1>4 DEF HostCommits
  <2>2. /\ Append(versions[h], new) \in Seq([Table -> State])
        /\ Len(Append(versions[h], new)) = Len(versions[h]) + 1
        /\ Len(versions[h]) \in Nat
    BY AppendProperties DEF TypeInv
  <2>3. Len(versions[h]) + 1 <= MaxVersion
    BY <1>4, <2>2 DEF HostCommits
  <2>5. versions' \in [Host -> Seq([Table -> State])]
    BY <2>1, <2>2 DEF TypeInv
  <2>4. ASSUME NEW g \in Host
        PROVE  /\ Len(versions'[g]) <= MaxVersion /\ Len(versions[g]) <= Len(versions'[g])
               /\ versions'[g] \in Seq([Table -> State])
    <3>1. versions[g] \in Seq([Table -> State]) /\ Len(versions[g]) <= MaxVersion
      BY DEF TypeInv
    <3>2. Len(versions[g]) \in Nat
      BY <3>1
    <3>3. versions'[g] = IF g = h THEN Append(versions[h], new) ELSE versions[g]
      BY <2>1 DEF TypeInv
    <3>4. CASE g = h
      BY <2>2, <2>3, <3>3, <3>4
    <3>5. CASE g # h
      BY <3>1, <3>2, <3>3, <3>5
    <3> QED BY <3>4, <3>5
  <2>6. \A g \in Host : /\ lastknown[g] # Cut => lastknown[g] <= Len(versions'[g])
                        /\ command[g].pc = "start" => command[g].tip <= Len(versions'[g])
    <3> TAKE g \in Host
    <3>1. Len(versions[g]) \in Nat /\ Len(versions'[g]) \in Nat /\ lastknown[g] \in Nat \cup {Cut}
      BY <2>4 DEF TypeInv
    <3>2. command[g].pc = "start" => command[g].tip \in Nat
      BY CommandCases DEF TypeInv
    <3> QED BY <2>4, <3>1, <3>2 DEF TypeInv
  <2>7. UNCHANGED <<lastknown, command, trusted, faults, tables>>
    BY <1>4 DEF HostCommits
  <2> QED BY <2>4, <2>5, <2>6, <2>7 DEF TypeInv, Tables, tables
<1>5. ASSUME NEW h \in Host, PatchStart(h)
      PROVE  TypeInv'
  <2> DEFINE tip    == Len(versions[h])
             blocks == IF trusted[h] THEN DiffBlocks(h, lastknown[h], tip)
                       ELSE <<RebaseBlock(h, tip)>>
             me     == [pc |-> "start", tip |-> tip, blocks |-> blocks]
  <2>1. /\ tip \in Nat /\ tip \in 0..tip
        /\ trusted[h] => lastknown[h] \in Nat /\ lastknown[h] <= tip
    BY DEF TypeInv
  <2>2. trusted[h] => DiffBlocks(h, lastknown[h], tip) \in Seq(PatchBlock)
    BY <2>1, DiffBlocksType
  <2>3. RebaseBlock(h, tip) \in PatchBlock
    BY <2>1, RebaseBlockType
  <2>4. blocks \in Seq(PatchBlock)
    BY <2>2, <2>3
  <2>5. Become(h, me)
    BY <1>5 DEF PatchStart, Begin
  <2> HIDE DEF tip, blocks
  <2>6. me \in Commands
    BY <2>1, <2>4 DEF Commands
  <2>7. me.pc = "start" /\ me.tip <= Len(versions[h])
    BY <2>1 DEF tip
  <2>8. UNCHANGED <<versions, lastknown, trusted, faults, tables>>
    BY <1>5 DEF PatchStart, Begin
  <2>9. trusted' \in [Host -> BOOLEAN] /\ faults' \in 0..MaxFaults
    BY <2>8 DEF TypeInv
  <2>10. lastknown[h] = Cut => ~trusted[h]
    BY DEF TypeInv
  <2> HIDE DEF me
  <2>11. me.pc \notin {"transaction", "write"}
    BY <2>7
  <2> QED BY <1>1, <1>2, <2>5, <2>6, <2>7, <2>8, <2>9, <2>10, <2>11
<1>6. ASSUME NEW h \in Host, UpdateLastKnown(h)
      PROVE  TypeInv'
  <2> DEFINE me == [pc |-> "patch", blocks |-> command[h].blocks]
  <2>1. /\ command[h].blocks \in Seq(PatchBlock)
        /\ command[h].tip \in Nat /\ command[h].tip <= Len(versions[h])
    BY <1>6, CommandCases DEF UpdateLastKnown, TypeInv
  <2>2. me \in Commands /\ me.pc = "patch"
    BY <2>1 DEF Commands
  <2>3. command' = [command EXCEPT ![h] = me]
    BY <1>6 DEF UpdateLastKnown, Become
  <2> HIDE DEF me
  <2>4. /\ command'[h] = me /\ \A g \in Host : g # h => command'[g] = command[g]
        /\ command' \in [Host -> Commands]
    BY <2>2, <2>3 DEF TypeInv
  <2>5. /\ lastknown' \in [Host -> Nat \cup {Cut}]
        /\ lastknown'[h] = command[h].tip
        /\ \A g \in Host : g # h => lastknown'[g] = lastknown[g]
    BY <1>6, <2>1 DEF UpdateLastKnown, TypeInv
  <2>6. UNCHANGED <<versions, trusted, faults, tables>>
    BY <1>6 DEF UpdateLastKnown
  <2>7. lastknown'[h] # Cut
    BY <2>1, <2>5
  <2> QED BY <2>1, <2>2, <2>4, <2>5, <2>6, <2>7 DEF TypeInv, Tables, tables
\* A step of a patch past its start leaves the last known file alone, which names a version.
<1>7. ASSUME NEW h \in Host, command[h].pc \in {"patch", "transaction", "write"},
             NEW me \in Commands, me.pc \in {"patch", "transaction", "write"},
             Become(h, me), TablesTyped, UNCHANGED <<versions, lastknown, trusted, faults>>,
             me.pc \in {"transaction", "write"} => /\ me.blocks # <<>>
                                                   /\ me.table \in Tables(Head(me.blocks))
      PROVE  TypeInv'
  <2>1. lastknown[h] # Cut
    BY <1>7 DEF TypeInv
  <2>2. trusted' \in [Host -> BOOLEAN] /\ faults' \in 0..MaxFaults
    BY <1>7 DEF TypeInv
  <2>3. me.pc # "start" /\ me.pc # "idle"
    BY <1>7
  <2> QED BY <1>1, <1>7, <2>1, <2>2, <2>3
<1>8. ASSUME NEW h \in Host, NextBlock(h)
      PROVE  TypeInv'
  <2> DEFINE me == [pc |-> "patch", blocks |-> Tail(command[h].blocks)]
  <2>1. Tail(command[h].blocks) \in Seq(PatchBlock)
    BY <1>8, CommandCases, HeadTailProperties DEF NextBlock, TypeInv
  <2>2. me \in Commands /\ me.pc = "patch"
    BY <2>1 DEF Commands
  <2>3. /\ Become(h, me) /\ command[h].pc = "patch"
        /\ UNCHANGED <<versions, lastknown, trusted, faults, tables>>
    BY <1>8 DEF NextBlock
  <2> HIDE DEF me
  <2> QED BY <1>2, <1>7, <2>2, <2>3
<1>9. ASSUME NEW h \in Host, BeginTransaction(h)
      PROVE  TypeInv'
  <2>1. /\ command[h].pc = "patch" /\ command[h].blocks # <<>>
        /\ UNCHANGED <<versions, lastknown, faults, tables>>
        /\ TablesTyped /\ faults' \in 0..MaxFaults
    BY <1>2, <1>9 DEF BeginTransaction, TypeInv
  <2>2. CASE Fail(h)
    BY <1>3, <2>1, <2>2
  <2>3. ASSUME NEW t \in Tables(Head(command[h].blocks)),
               Become(h, [pc |-> "transaction", table |-> t, content |-> rows[t],
                          header |-> file[t] = "whole", blocks |-> command[h].blocks]),
               UNCHANGED trusted
        PROVE  TypeInv'
    <3> DEFINE me == [pc |-> "transaction", table |-> t, content |-> rows[t],
                      header |-> file[t] = "whole", blocks |-> command[h].blocks]
    <3>1. command[h].blocks \in Seq(PatchBlock)
      BY <2>1, CommandCases DEF TypeInv
    <3>2. t \in Table
      BY <2>3 DEF Tables
    <3>3. rows[t] \in [Host -> HostRows] /\ (file[t] = "whole") \in BOOLEAN
      BY <3>2 DEF TypeInv
    <3>4. me \in Commands /\ me.pc = "transaction" /\ me.blocks = command[h].blocks /\ me.table = t
      BY <3>1, <3>2, <3>3 DEF Commands
    <3>5. Become(h, me)
      BY <2>3
    <3> HIDE DEF me
    <3> QED BY <1>7, <2>1, <2>3, <3>4, <3>5
  <2> QED BY <1>9, <2>2, <2>3 DEF BeginTransaction
\* The delta of a transaction has been dealt with.
<1>10. ASSUME NEW h \in Host, command[h].pc \in {"transaction", "write"}, Proceed(h),
              TablesTyped, UNCHANGED <<versions, lastknown, trusted>>, faults' \in 0..MaxFaults
       PROVE  TypeInv'
  <2>1. PICK rest \in Seq(PatchBlock) : Become(h, [pc |-> "patch", blocks |-> rest])
    BY <1>10, EntryType
  <2> DEFINE me == [pc |-> "patch", blocks |-> rest]
  <2>2. me \in Commands /\ me.pc = "patch" /\ Become(h, me)
    BY <2>1 DEF Commands
  <2>3. lastknown[h] # Cut /\ trusted' \in [Host -> BOOLEAN]
    BY <1>10 DEF TypeInv
  <2> HIDE DEF me
  <2> QED BY <1>1, <1>10, <2>2, <2>3
<1>11. ASSUME NEW h \in Host, command[h].pc \in {"transaction", "write"}, Mark(h)
       PROVE  reached' \in [Table -> [Host -> 0..MaxVersion]]
  <2>1. command[h].table \in Table /\ Entry(h).to \in 0..MaxVersion
    BY <1>11, EntryType DEF PatchEntry
  <2> QED BY <1>11, <2>1 DEF Mark, TypeInv
<1>12. ASSUME NEW h \in Host, CommitSql(h)
       PROVE  TypeInv'
  <2> DEFINE t == command[h].table
  <2>1. t \in Table /\ New(h) \in HostRows /\ command[h].pc = "transaction"
    BY <1>12, EntryType DEF CommitSql
  <2>2. \/ rows' = rows /\ reached' = reached
        \/ rows' = [rows EXCEPT ![t][h] = New(h)] /\ Mark(h)
    BY <1>12 DEF CommitSql
  <2>3. rows' \in [Table -> [Host -> HostRows]]
    <3>1. rows[t] \in [Host -> HostRows] /\ rows \in [Table -> [Host -> HostRows]]
      BY <2>1 DEF TypeInv
    <3> HIDE DEF t
    <3>2. CASE rows' = rows
      BY <3>1, <3>2
    <3>3. CASE rows' = [rows EXCEPT ![t][h] = New(h)]
      BY <2>1, <3>1, <3>3
    <3> QED BY <2>2, <3>2, <3>3
  <2>4. reached' \in [Table -> [Host -> 0..MaxVersion]]
    BY <1>11, <2>1, <2>2 DEF TypeInv
  <2>5. /\ UNCHANGED <<versions, lastknown, trusted, file, lost>> /\ Proceed(h)
        /\ faults' \in 0..MaxFaults
    BY <1>12 DEF CommitSql, TypeInv
  <2>6. TablesTyped
    BY <2>3, <2>4, <2>5 DEF TablesTyped, TypeInv
  <2> QED BY <1>10, <2>1, <2>5, <2>6
<1>13. ASSUME NEW h \in Host, RejectDelta(h)
       PROVE  TypeInv'
  <2>1. /\ Fail(h) /\ UNCHANGED <<versions, lastknown, tables>>
        /\ faults' \in 0..MaxFaults
    BY <1>13 DEF RejectDelta, TypeInv
  <2> QED BY <1>2, <1>3, <2>1
<1>14. ASSUME NEW h \in Host, OpenFile(h)
       PROVE  TypeInv'
  <2> DEFINE t  == command[h].table
             me == [command[h] EXCEPT !.pc = "write"]
  <2>1. /\ t \in Table /\ command[h].pc = "transaction"
        /\ command[h].blocks # <<>> /\ t \in Tables(Head(command[h].blocks))
    BY <1>14, EntryType DEF OpenFile
  <2>2. command[h] \in [pc: {"transaction", "write"}, table: Table,
                        content: [Host -> HostRows], header: BOOLEAN,
                        blocks: Seq(PatchBlock)]
    BY <2>1, CommandCases DEF TypeInv
  <2>3. /\ me \in Commands /\ me.pc = "write" /\ me.table = t
        /\ me.blocks = command[h].blocks
    BY <2>2 DEF Commands
  <2>4. PICK hosts \in SUBSET Host : lost' = [lost EXCEPT ![t] = hosts]
    BY <1>14, <2>1 DEF OpenFile, TypeInv
  <2>5. /\ rows' = [rows EXCEPT ![t] = NoRows] /\ file' = [file EXCEPT ![t] = "empty"]
        /\ UNCHANGED <<versions, lastknown, trusted, faults, reached>>
        /\ Become(h, me)
    BY <1>14 DEF OpenFile
  <2>6. rows' \in [Table -> [Host -> HostRows]]
    BY <2>5, NoRowsType DEF TypeInv
  <2>7. TablesTyped
    BY <2>4, <2>5, <2>6 DEF TablesTyped, TypeInv
  <2> HIDE DEF me, t
  <2> QED BY <1>7, <2>1, <2>3, <2>5, <2>7
<1>15. ASSUME NEW h \in Host, WriteFile(h)
       PROVE  TypeInv'
  <2> DEFINE t == command[h].table
  <2>1. /\ t \in Table /\ New(h) \in HostRows /\ command[h].pc = "write"
        /\ Mark(h) /\ Proceed(h) /\ UNCHANGED <<versions, lastknown, trusted>>
        /\ faults' \in 0..MaxFaults
    BY <1>15, EntryType DEF WriteFile, TypeInv
  <2>2. reached' \in [Table -> [Host -> 0..MaxVersion]]
    BY <1>11, <2>1
  <2>3. CASE Scraps(t)
    <3>1. TablesTyped
      BY <2>1, <2>2, <2>3, ScrapsType DEF TablesTyped
    <3> QED BY <1>10, <2>1, <3>1
  <2>4. CASE file[t] = "empty"
    <3>1. command[h].content \in [Host -> HostRows]
      BY <2>1, CommandCases DEF TypeInv
    <3>2. [command[h].content EXCEPT ![h] = New(h)] \in [Host -> HostRows]
      BY <2>1, <3>1
    <3>3. /\ rows' = [rows EXCEPT ![t] = [command[h].content EXCEPT ![h] = New(h)]]
          /\ file' = [file EXCEPT ![t] = IF command[h].header THEN "whole" ELSE "headless"]
          /\ lost' = [lost EXCEPT ![t] =
                         IF Entry(h).delta.type = "rebase" /\ Writers(t) = {h}
                         THEN lost[t] \ {h} ELSE lost[t]]
      BY <1>15, <2>4 DEF WriteFile, Written
    <3>4. rows' \in [Table -> [Host -> HostRows]]
      BY <3>2, <3>3 DEF TypeInv
    <3>5. TablesTyped
      BY <2>2, <3>3, <3>4 DEF TablesTyped, TypeInv
    <3> QED BY <1>10, <2>1, <3>5
  <2> QED BY <1>15, <2>3, <2>4 DEF WriteFile
<1>16. ASSUME NEW h \in Host, PatchEnd(h)
       PROVE  TypeInv'
  <2>1. Idle \in Commands /\ Idle.pc = "idle" /\ Become(h, Idle)
    BY <1>16 DEF Commands, Idle, PatchEnd
  <2>2. /\ command[h].pc = "patch" /\ UNCHANGED <<versions, lastknown, faults, tables>>
        /\ trusted' = [trusted EXCEPT ![h] = TRUE]
    BY <1>16 DEF PatchEnd
  <2>3. /\ lastknown[h] # Cut /\ trusted' \in [Host -> BOOLEAN] /\ faults' \in 0..MaxFaults
        /\ \A g \in Host : g # h => trusted'[g] = trusted[g]
    BY <2>2 DEF TypeInv
  <2> QED BY <1>1, <1>2, <2>1, <2>2, <2>3
<1>17. ASSUME NEW kind, Fault(kind)
       PROVE  faults' \in 0..MaxFaults
  BY <1>17 DEF Fault, TypeInv
<1>18. ASSUME NEW h \in Host, CallbackFails(h) \/ PatchRejected(h)
       PROVE  TypeInv'
  <2>1. /\ Fail(h) /\ UNCHANGED <<versions, lastknown, tables>>
        /\ Fault("callback") \/ Fault("corrupt")
    BY <1>18 DEF CallbackFails, PatchRejected
  <2> QED BY <1>2, <1>3, <1>17, <2>1
<1>19. ASSUME NEW h \in Host, ShortWrite(h)
       PROVE  TypeInv'
  <2> DEFINE t == command[h].table
  <2>1. /\ t \in Table /\ command[h].pc = "write" /\ Scraps(t)
        /\ Mark(h) /\ Proceed(h) /\ UNCHANGED <<versions, lastknown, trusted>>
        /\ faults' \in 0..MaxFaults
    BY <1>17, <1>19, EntryType DEF ShortWrite
  <2>2. TablesTyped
    BY <1>11, <2>1, ScrapsType DEF TablesTyped
  <2> QED BY <1>10, <2>1, <2>2
<1>20. ASSUME NEW h \in Host, Crash(h)
       PROVE  TypeInv'
  <2>1. Fail(h) /\ UNCHANGED <<versions, tables>> /\ faults' \in 0..MaxFaults
    BY <1>17, <1>20 DEF Crash
  <2>2. CASE UNCHANGED lastknown
    BY <1>2, <1>3, <2>1, <2>2
  <2>3. CASE lastknown' = [lastknown EXCEPT ![h] = Cut]
    <3>1. /\ command' \in [Host -> Commands] /\ command'[h] = Idle
          /\ \A g \in Host : g # h => command'[g] = command[g]
      BY <2>1 DEF Fail, Become, TypeInv, Commands
    <3>2. /\ trusted' \in [Host -> BOOLEAN] /\ ~trusted'[h]
          /\ \A g \in Host : g # h => trusted'[g] = trusted[g]
      BY <2>1 DEF Fail, TypeInv
    <3>3. /\ lastknown' \in [Host -> Nat \cup {Cut}] /\ lastknown'[h] = Cut
          /\ \A g \in Host : g # h => lastknown'[g] = lastknown[g]
      BY <2>3 DEF TypeInv
    <3>4. Idle.pc = "idle"
      BY DEF Idle
    <3>5. ASSUME NEW g \in Host
          PROVE  /\ IF lastknown'[g] = Cut
                    THEN ~trusted'[g] /\ command'[g].pc \in {"idle", "start"}
                    ELSE lastknown'[g] <= Len(versions[g])
                 /\ command'[g].pc = "start" => command'[g].tip <= Len(versions[g])
                 /\ command'[g].pc \in {"transaction", "write"} =>
                       /\ command'[g].blocks # <<>>
                       /\ command'[g].table \in Tables(Head(command'[g].blocks))
      <4>1. CASE g = h
        BY <3>1, <3>2, <3>3, <3>4, <4>1
      <4>2. CASE g # h
        BY <3>1, <3>2, <3>3, <4>2 DEF TypeInv
      <4> QED BY <4>1, <4>2
    <3>6. UNCHANGED versions /\ faults' \in 0..MaxFaults /\ UNCHANGED <<rows, file, reached, lost>>
      BY <2>1 DEF tables
    <3>7. /\ command' \in [Host -> Commands] /\ lastknown' \in [Host -> Nat \cup {Cut}]
          /\ trusted' \in [Host -> BOOLEAN]
      BY <3>1, <3>2, <3>3
    <3> QED BY <3>5, <3>6, <3>7 DEF TypeInv, Tables
  <2> QED BY <1>20, <2>2, <2>3 DEF Crash
<1>21. ASSUME NEW h \in Host, CommitTorn(h)
       PROVE  TypeInv'
  <2> DEFINE t == command[h].table
  <2>1. /\ t \in Table /\ Fail(h) /\ UNCHANGED <<versions, lastknown, reached>>
        /\ faults' \in 0..MaxFaults
        /\ \/ lost' = [lost EXCEPT ![t] = Host] /\ UNCHANGED <<rows, file>>
           \/ Scraps(t)
    BY <1>17, <1>21, EntryType DEF CommitTorn
  <2>2. reached' \in [Table -> [Host -> 0..MaxVersion]]
    BY <2>1 DEF TypeInv
  <2>3. CASE lost' = [lost EXCEPT ![t] = Host] /\ UNCHANGED <<rows, file>>
    <3>1. lost' \in [Table -> SUBSET Host]
      BY <2>3 DEF TypeInv
    <3>2. /\ rows' \in [Table -> [Host -> HostRows]]
          /\ file' \in [Table -> {"whole", "headless", "broken", "empty"}]
      BY <2>3 DEF TypeInv
    <3>3. TablesTyped
      BY <2>2, <3>1, <3>2 DEF TablesTyped
    <3> QED BY <1>3, <2>1, <3>3
  <2>4. CASE Scraps(t)
    <3> HIDE DEF t
    <3>1. /\ rows' \in [Table -> [Host -> HostRows]]
          /\ file' \in [Table -> {"whole", "headless", "broken", "empty"}]
          /\ lost' \in [Table -> SUBSET Host]
      BY <2>1, <2>4, ScrapsType
    <3>2. TablesTyped
      BY <2>2, <3>1 DEF TablesTyped
    <3> QED BY <1>3, <2>1, <3>2
  <2> QED BY <2>1, <2>3, <2>4
<1>22. CASE UNCHANGED vars
  BY <1>22 DEF vars, tables, TypeInv, Tables
<1> QED
  BY <1>4, <1>5, <1>6, <1>8, <1>9, <1>12, <1>13, <1>14, <1>15, <1>16, <1>18, <1>19, <1>20,
     <1>21, <1>22 DEF Next, Patch

\* The server keeps its types whatever fails and however many patches overlap:
\* the rows of a host stay rows, and no version is claimed that cannot be.
THEOREM TypeCorrect == Spec => []TypeOK
<1>1. TypeInv => TypeOK
  <2> SUFFICES ASSUME TypeInv PROVE TypeOK
    OBVIOUS
  <2>1. lastknown \in [Host -> 0..MaxVersion \cup {Cut}]
    <3> SUFFICES ASSUME NEW h \in Host, lastknown[h] # Cut PROVE lastknown[h] \in 0..MaxVersion
      BY DEF TypeInv
    <3>1. lastknown[h] \in Nat /\ Len(versions[h]) \in Nat
      BY DEF TypeInv
    <3> QED BY <3>1, ServerAssumption DEF TypeInv
  <2> QED BY <2>1, CommandCases DEF TypeInv, TypeOK
<1> QED BY <1>1, TypeInit, TypeStep, PTL DEF Spec

-----------------------------------------------------------------------------
(* Patches.  A patch that is applied is a path from the version a table is *)
(* at to the one the patch leads to: each delta that is left starts from   *)
(* where the one before it ends, or is a rebase, and there is no way back. *)

\* Version(h, n), of the versions that h has.
VersionOf(seq, n) == IF n = 0 THEN [t \in Table |-> EmptyObject] ELSE seq[n]

\* The entry takes a host's table from version m to version n.
Leads(seq, t, entry, m, n) ==
    \/ entry = None /\ n = m
    \/ /\ entry # None
       /\ m <= n
       /\ entry.to = n
       /\ \/ entry.delta = DeltaCreate("delta", VersionOf(seq, n)[t], VersionOf(seq, m)[t])
          \/ entry.delta = DeltaCreate("rebase", VersionOf(seq, n)[t], EmptyObject)

\* at[i] is the version from which the i-th block starts.
Along(seq, t, blocks, at) ==
    /\ at \in [1..(Len(blocks) + 1) -> 0..Len(seq)]
    /\ \A i \in 1..Len(blocks) : Leads(seq, t, blocks[i][t], at[i], at[i + 1])

Path(seq, t, blocks, from, tip) ==
    \E at : Along(seq, t, blocks, at) /\ at[1] = from /\ at[Len(blocks) + 1] = tip

\* The end of the path: what the last known file says or is about to say.
Goal(h) == IF command[h].pc = "start" THEN command[h].tip ELSE lastknown[h]

\* A diff is a path, for tables that are merged and tables that are not.
LEMMA DiffPath ==
    ASSUME TypeInv, NEW h \in Host, NEW t \in Known,
           NEW from \in Nat, NEW to \in 0..Len(versions[h]), from <= to
    PROVE  Path(versions[h], t, DiffBlocks(h, from, to), from, to)
<1> DEFINE blocks == DiffBlocks(h, from, to)
           at     == [i \in 1..(to - from + 1) |->
                        IF t \notin MergeTable THEN from + i - 1
                        ELSE IF i = 1 THEN from ELSE to]
<1>1. /\ Len(blocks) = to - from /\ to - from \in Nat
      /\ Len(versions[h]) \in Nat
      /\ t \in Table
  <2>1. Len(versions[h]) \in Nat
    BY DEF TypeInv
  <2>2. Len(blocks) = to - from
    BY DiffBlocksType
  <2> HIDE DEF blocks
  <2> QED BY <2>1, <2>2, ServerAssumption
<1>2. \A i \in 1..(to - from) :
         blocks[i][t] = IF t \notin MergeTable THEN Step("delta", h, t, from + i - 1, from + i)
                        ELSE IF i = 1 THEN Step("delta", h, t, from, to) ELSE None
  BY <1>1 DEF DiffBlocks
<1> HIDE DEF blocks
<1>3. \A m, n \in 0..Len(versions[h]) : m <= n => Leads(versions[h], t, Step("delta", h, t, m, n), m, n)
  <2> TAKE m, n \in 0..Len(versions[h])
  <2>1. "delta" \in DeltaType
    BY DEF DeltaType
  <2>2. Step("delta", h, t, m, n) \in PatchEntry
    BY <1>1, <2>1, StepType
  <2>3. Step("delta", h, t, m, n) # None
    BY <2>2, ServerAssumption DEF PatchEntry
  <2> QED BY <2>3 DEF Leads, Step, Version, VersionOf
<1>4. at \in [1..(Len(blocks) + 1) -> 0..Len(versions[h])]
  BY <1>1
<1>5. ASSUME NEW i \in 1..Len(blocks)
      PROVE  Leads(versions[h], t, blocks[i][t], at[i], at[i + 1])
  <2>1. CASE t \notin MergeTable
    <3>1. at[i] = from + i - 1 /\ at[i + 1] = from + i
      BY <1>1, <2>1
    <3>2. /\ from + i - 1 \in 0..Len(versions[h]) /\ from + i \in 0..Len(versions[h])
          /\ from + i - 1 <= from + i
      BY <1>1
    <3>3. blocks[i][t] = Step("delta", h, t, from + i - 1, from + i)
      BY <1>1, <1>2, <2>1
    <3> QED BY <1>3, <3>1, <3>2, <3>3
  <2>2. CASE t \in MergeTable /\ i = 1
    <3>1. at[i] = from /\ at[i + 1] = to
      BY <1>1, <2>2
    <3>2. blocks[i][t] = Step("delta", h, t, from, to)
      BY <1>1, <1>2, <2>2
    <3>3. from \in 0..Len(versions[h])
      BY <1>1
    <3> QED BY <1>3, <3>1, <3>2, <3>3
  <2>3. CASE t \in MergeTable /\ i # 1
    <3>1. at[i] = to /\ at[i + 1] = to
      BY <1>1, <2>3
    <3>2. blocks[i][t] = None
      BY <1>1, <1>2, <2>3
    <3> QED BY <3>1, <3>2 DEF Leads
  <2> QED BY <2>1, <2>2, <2>3
<1>6. at[1] = from /\ at[Len(blocks) + 1] = to
  BY <1>1
<1> HIDE DEF at
<1>7. Along(versions[h], t, blocks, at)
  BY <1>4, <1>5 DEF Along
<1> QED BY <1>6, <1>7 DEF Path, blocks

\* A rebase is a path from wherever the table is.
LEMMA RebasePath ==
    ASSUME TypeInv, NEW h \in Host, NEW t \in Known,
           NEW from \in 0..Len(versions[h])
    PROVE  Path(versions[h], t, <<RebaseBlock(h, Len(versions[h]))>>, from, Len(versions[h]))
<1> DEFINE tip    == Len(versions[h])
           blocks == <<RebaseBlock(h, tip)>>
           at     == [i \in 1..2 |-> IF i = 1 THEN from ELSE tip]
<1>1. tip \in Nat /\ tip \in 0..tip /\ 0 \in 0..tip /\ t \in Table
  BY ServerAssumption DEF TypeInv
<1>2. Len(blocks) = 1 /\ blocks[1] = RebaseBlock(h, tip)
  OBVIOUS
<1>3. blocks[1][t] = Step("rebase", h, t, 0, tip)
  BY <1>1, <1>2 DEF RebaseBlock
<1>4. Step("rebase", h, t, 0, tip) # None
  <2>1. "rebase" \in DeltaType
    BY DEF DeltaType
  <2>2. Step("rebase", h, t, 0, tip) \in PatchEntry
    BY <1>1, <2>1, StepType
  <2> QED BY <2>2, ServerAssumption DEF PatchEntry
<1>5. Version(h, 0)[t] = EmptyObject
  BY <1>1 DEF Version
<1>6. from <= tip
  BY <1>1
<1> HIDE DEF tip
<1>7. Leads(versions[h], t, blocks[1][t], from, tip)
  BY <1>3, <1>4, <1>5, <1>6 DEF Leads, Step, Version, VersionOf
<1>8. at \in [1..2 -> 0..tip] /\ at[1] = from /\ at[2] = tip
  BY <1>1 DEF tip
<1> HIDE DEF at, blocks
<1>9. Along(versions[h], t, blocks, at)
  BY <1>2, <1>7, <1>8 DEF Along, tip
<1> QED BY <1>2, <1>8, <1>9 DEF Path, blocks, tip

\* Without blocks the path is at its end.
LEMMA PathDone ==
    ASSUME NEW seq, NEW t, NEW from, NEW tip, Path(seq, t, <<>>, from, tip)
    PROVE  from = tip
BY DEF Path, Along

\* A block without a delta for the table may be left out.
LEMMA PathTail ==
    ASSUME NEW seq, NEW t, NEW from, NEW tip, NEW blocks \in Seq(PatchBlock), blocks # <<>>,
           Head(blocks)[t] = None, Path(seq, t, blocks, from, tip)
    PROVE  Path(seq, t, Tail(blocks), from, tip)
<1>1. PICK at : Along(seq, t, blocks, at) /\ at[1] = from /\ at[Len(blocks) + 1] = tip
  BY DEF Path
<1>2. /\ Len(blocks) \in Nat \ {0} /\ Len(Tail(blocks)) = Len(blocks) - 1
      /\ \A i \in 1..Len(Tail(blocks)) : Tail(blocks)[i] = blocks[i + 1]
      /\ Head(blocks) = blocks[1]
  BY HeadTailProperties, EmptySeq
<1> DEFINE next == [i \in 1..Len(blocks) |-> at[i + 1]]
<1>3. at[2] = from
  <2>1. 1 \in 1..Len(blocks)
    BY <1>2
  <2>2. Leads(seq, t, blocks[1][t], at[1], at[2])
    BY <1>1, <2>1 DEF Along
  <2> QED BY <1>1, <1>2, <2>2 DEF Leads
<1>4. next \in [1..(Len(Tail(blocks)) + 1) -> 0..Len(seq)]
  BY <1>1, <1>2 DEF Along
<1>5. ASSUME NEW i \in 1..Len(Tail(blocks))
      PROVE  Leads(seq, t, Tail(blocks)[i][t], next[i], next[i + 1])
  <2>1. i + 1 \in 1..Len(blocks) /\ i \in 1..Len(blocks)
    BY <1>2
  <2>2. Leads(seq, t, blocks[i + 1][t], at[i + 1], at[(i + 1) + 1])
    BY <1>1, <2>1 DEF Along
  <2>3. next[i] = at[i + 1] /\ next[i + 1] = at[(i + 1) + 1]
    BY <2>1
  <2> QED BY <1>2, <2>2, <2>3
<1>6. next[1] = from /\ next[Len(Tail(blocks)) + 1] = tip
  BY <1>1, <1>2, <1>3
<1> HIDE DEF next
<1>7. Along(seq, t, Tail(blocks), next)
  BY <1>4, <1>5 DEF Along
<1> QED BY <1>6, <1>7 DEF Path

\* The first delta of the path leads on from where the table is.
LEMMA PathHead ==
    ASSUME NEW seq, NEW t, NEW from, NEW tip, NEW blocks \in Seq(PatchBlock), blocks # <<>>,
           Path(seq, t, blocks, from, tip)
    PROVE  \E n \in 0..Len(seq) :
              /\ from \in 0..Len(seq)
              /\ Leads(seq, t, Head(blocks)[t], from, n)
              /\ \A rest : /\ Len(rest) = Len(blocks)
                           /\ rest[1][t] = None
                           /\ \A i \in 2..Len(blocks) : rest[i] = blocks[i]
                           => Path(seq, t, rest, n, tip)
<1>1. PICK at : Along(seq, t, blocks, at) /\ at[1] = from /\ at[Len(blocks) + 1] = tip
  BY DEF Path
<1>2. Len(blocks) \in Nat \ {0} /\ Head(blocks) = blocks[1]
  BY HeadTailProperties, EmptySeq
<1>3. 1 \in 1..Len(blocks) /\ 2 \in 1..(Len(blocks) + 1) /\ 1 \in 1..(Len(blocks) + 1)
  BY <1>2
<1>4. Leads(seq, t, blocks[1][t], at[1], at[1 + 1])
  BY <1>1, <1>3 DEF Along
<1>5. at[1] \in 0..Len(seq) /\ at[2] \in 0..Len(seq)
  BY <1>1, <1>3 DEF Along
<1>6. ASSUME NEW rest, Len(rest) = Len(blocks), rest[1][t] = None,
             \A i \in 2..Len(blocks) : rest[i] = blocks[i]
      PROVE  Path(seq, t, rest, at[2], tip)
  <2> DEFINE next == [i \in 1..(Len(blocks) + 1) |-> IF i = 1 THEN at[2] ELSE at[i]]
  <2>1. next \in [1..(Len(rest) + 1) -> 0..Len(seq)]
    BY <1>1, <1>5, <1>6 DEF Along
  <2>2. next[1] = at[2] /\ next[Len(rest) + 1] = tip
    BY <1>1, <1>2, <1>3, <1>6
  <2>3. ASSUME NEW i \in 1..Len(rest)
        PROVE  Leads(seq, t, rest[i][t], next[i], next[i + 1])
    <3>1. CASE i = 1
      <4>1. next[1] = at[2] /\ next[1 + 1] = at[2]
        BY <1>3
      <4> QED BY <1>6, <3>1, <4>1 DEF Leads
    <3>2. CASE i # 1
      <4>1. i \in 2..Len(blocks) /\ i \in 1..Len(blocks)
        BY <1>2, <1>6, <3>2
      <4>2. next[i] = at[i] /\ next[i + 1] = at[i + 1]
        BY <1>2, <4>1
      <4>3. Leads(seq, t, blocks[i][t], at[i], at[i + 1])
        BY <1>1, <4>1 DEF Along
      <4> QED BY <1>6, <4>1, <4>2, <4>3
    <3> QED BY <3>1, <3>2
  <2> HIDE DEF next
  <2>4. Along(seq, t, rest, next)
    BY <2>1, <2>3 DEF Along
  <2> QED BY <2>2, <2>4 DEF Path
<1> QED BY <1>1, <1>2, <1>4, <1>5, <1>6

\* A block without changes for the table, as others are dealt with, is the same.
LEMMA PathSame ==
    ASSUME NEW seq, NEW t, NEW from, NEW tip, NEW blocks, NEW rest,
           Path(seq, t, blocks, from, tip), Len(rest) = Len(blocks),
           \A i \in 1..Len(blocks) : rest[i][t] = blocks[i][t]
    PROVE  Path(seq, t, rest, from, tip)
BY DEF Path, Along

-----------------------------------------------------------------------------
(* The invariant *)

\* The rows of the version that a table of a host is at.
Due(t, h) == RowsOf(VersionOf(versions[h], reached[t][h])[t])

HasReached == \A t \in Table, h \in Host : reached[t][h] \in 0..Len(versions[h])

\* Unless they are lost, a host's rows are in the file, or in the memory of the
\* only command that is about to write it.
Intact ==
    \A t \in Table : \A h \in Host \ lost[t] :
        /\ file[t] # "empty" => rows[t][h] = Due(t, h)
        /\ file[t] = "empty" => Writers(t) # {}
        /\ \A w \in Writers(t) : command[w].content[h] = Due(t, h)
        /\ \A v, w \in Writers(t) : v = w

\* No commit of a PostgreSQL table loses rows, and what a transaction has read
\* of its host's is still what there is.
Durable ==
    /\ \A t \in Table \ CsvTable : lost[t] = {} /\ file[t] # "empty"
    /\ \A h \in Host : /\ command[h].pc = "write" => command[h].table \in CsvTable
                       /\ /\ command[h].pc = "transaction"
                          /\ command[h].table \notin CsvTable
                          => command[h].content[h] = rows[command[h].table][h]

\* A patch that runs leads every table to where its last known file will be.
OnPath ==
    \A h \in Host : command[h] # Idle =>
        \A t \in Known : Path(versions[h], t, command[h].blocks, reached[t][h], Goal(h))

\* Between patches, after a success, every table is where the file says.
AtLastKnown ==
    \A h \in Host : command[h] = Idle /\ trusted[h] =>
        \A t \in Known : reached[t][h] = lastknown[h]

IInv == HasReached /\ Intact /\ Durable /\ OnPath /\ AtLastKnown

\* Where the delta of a transaction leads: on from where the table is, and, if
\* it is applied to the rows of that version, or is a rebase, to the rows of the
\* version it names.
LEMMA EntryLeads ==
    ASSUME TypeInv, HasReached, OnPath, NEW h \in Host,
           command[h].pc \in {"transaction", "write"}
    PROVE  LET t == command[h].table
               n == Entry(h).to
           IN  /\ t \in Known /\ t \in Table
               /\ n \in 0..Len(versions[h]) /\ reached[t][h] <= n
               /\ \A rest : /\ Len(rest) = Len(command[h].blocks)
                            /\ rest[1][t] = None
                            /\ \A i \in 2..Len(command[h].blocks) :
                                  rest[i] = command[h].blocks[i]
                            => Path(versions[h], t, rest, n, Goal(h))
               /\ Entry(h).delta.type = "rebase" \/ command[h].content[h] = Due(t, h)
                  => /\ ~Clashes(t, Entry(h).delta, command[h].content[h])
                     /\ New(h) = RowsOf(VersionOf(versions[h], n)[t])
<1> DEFINE me    == command[h]
           t     == me.table
           entry == Head(me.blocks)[t]
           base  == me.content[h]
           m     == reached[t][h]
           n     == entry.to
<1>1. /\ me.blocks \in Seq(PatchBlock) /\ me.blocks # <<>> /\ t \in Tables(Head(me.blocks))
      /\ me # Idle
  BY CommandCases DEF TypeInv, Idle
<1>2. t \in Known /\ t \in Table /\ entry # None /\ Entry(h) = entry
  BY <1>1, ServerAssumption DEF Tables, Entry
<1>3. m \in 0..Len(versions[h]) /\ Due(t, h) = RowsOf(VersionOf(versions[h], m)[t])
  BY <1>2 DEF HasReached, Due
<1>4. Path(versions[h], t, me.blocks, m, Goal(h))
  BY <1>1, <1>2 DEF OnPath
<1>5. New(h) = Applied(t, entry.delta, base)
  BY <1>2 DEF New
<1> HIDE DEF me, t, m
<1>6. PICK to \in 0..Len(versions[h]) :
            /\ Leads(versions[h], t, entry, m, to)
            /\ \A rest : /\ Len(rest) = Len(me.blocks)
                         /\ rest[1][t] = None
                         /\ \A i \in 2..Len(me.blocks) : rest[i] = me.blocks[i]
                         => Path(versions[h], t, rest, to, Goal(h))
  BY <1>1, <1>4, PathHead
<1>7. to = n /\ m <= n /\ n \in 0..Len(versions[h])
  BY <1>2, <1>6 DEF Leads
<1>8. VersionOf(versions[h], n)[t] \in State /\ VersionOf(versions[h], m)[t] \in State
  BY <1>2, <1>3, <1>7, VersionType DEF Version, VersionOf
<1> HIDE DEF base
<1>9. ASSUME entry.delta.type = "rebase" \/ base = Due(t, h)
      PROVE  /\ ~Clashes(t, entry.delta, base)
             /\ Applied(t, entry.delta, base) = RowsOf(VersionOf(versions[h], n)[t])
  <2>1. CASE entry.delta = DeltaCreate("delta", VersionOf(versions[h], n)[t], VersionOf(versions[h], m)[t])
    <3>1. entry.delta.type = "delta"
      BY <2>1 DEF DeltaCreate
    <3>2. base = RowsOf(VersionOf(versions[h], m)[t])
      BY <1>3, <1>9, <3>1
    <3>3. Applied(t, entry.delta, base) = RowsOf(VersionOf(versions[h], n)[t])
      BY <1>8, <2>1, <3>2, DeltaApplied DEF Applied
    <3> QED BY <1>8, <3>3, RowsOfState DEF Clashes
  <2>2. CASE entry.delta = DeltaCreate("rebase", VersionOf(versions[h], n)[t], EmptyObject)
    <3>1. Applied(t, entry.delta, base) = RowsOf(VersionOf(versions[h], n)[t])
      BY <1>8, <2>2, RebaseApplied DEF Applied
    <3> QED BY <1>8, <3>1, RowsOfState DEF Clashes
  <2> QED BY <1>2, <1>6, <1>7, <2>1, <2>2 DEF Leads
<1> HIDE DEF entry
<1> QED BY <1>2, <1>5, <1>6, <1>7, <1>9 DEF me, t, m, base

\* A step brings table t of host h to version n, and leaves the blocks rest.
Brings(h, t, n, rest) ==
    /\ t = command[h].table /\ t \in Table
    /\ n = Entry(h).to /\ reached[t][h] <= n
    /\ reached' = [reached EXCEPT ![t][h] = n]
    /\ command' = [command EXCEPT ![h] = [pc |-> "patch", blocks |-> rest]]
    /\ Path(versions[h], t, rest, n, Goal(h))
    /\ \A u \in Known \ {t} : Path(versions[h], u, rest, reached[u][h], Goal(h))

\* So does the step that writes a file or commits a transaction.
LEMMA TransactionEffect ==
    ASSUME TypeInv, IInv, NEW h \in Host, command[h].pc \in {"transaction", "write"},
           Proceed(h), Mark(h)
    PROVE  \E t \in Known, n \in 0..Len(versions[h]), rest \in Seq(PatchBlock) :
              Brings(h, t, n, rest)
<1> DEFINE me   == command[h]
           t    == me.table
           rest == <<[Head(me.blocks) EXCEPT ![t] = None]>> \o Tail(me.blocks)
           next == [pc |-> "patch", blocks |-> rest]
<1>1. /\ t \in Known /\ t \in Table
      /\ Entry(h).to \in 0..Len(versions[h]) /\ reached[t][h] <= Entry(h).to
  BY EntryLeads DEF IInv
<1>2. \A other : /\ Len(other) = Len(me.blocks)
                 /\ other[1][t] = None
                 /\ \A i \in 2..Len(me.blocks) : other[i] = me.blocks[i]
                 => Path(versions[h], t, other, Entry(h).to, Goal(h))
  BY EntryLeads DEF IInv
<1>3. /\ me.blocks \in Seq(PatchBlock) /\ me.blocks # <<>>
      /\ t \in Tables(Head(me.blocks)) /\ me # Idle
  BY CommandCases DEF TypeInv, Idle
<1>4. /\ Head(me.blocks) = me.blocks[1] /\ Head(me.blocks) \in PatchBlock
      /\ rest \in Seq(PatchBlock) /\ Len(rest) = Len(me.blocks)
      /\ rest[1] = [Head(me.blocks) EXCEPT ![t] = None]
      /\ \A i \in 2..Len(me.blocks) : rest[i] = me.blocks[i]
  BY <1>3, RestOfBlocks, HeadTailProperties
<1>5. command' = [command EXCEPT ![h] = next]
  BY DEF Proceed, Become
<1>6. reached' = [reached EXCEPT ![t][h] = Entry(h).to]
  BY DEF Mark
<1> HIDE DEF me, t, rest
<1>7. rest[1][t] = None /\ \A u \in Known \ {t} : rest[1][u] = me.blocks[1][u]
  BY <1>1, <1>4, ServerAssumption DEF PatchBlock
<1>8. Path(versions[h], t, rest, Entry(h).to, Goal(h))
  BY <1>2, <1>4, <1>7
<1>9. ASSUME NEW u \in Known \ {t}
      PROVE  Path(versions[h], u, rest, reached[u][h], Goal(h))
  <2>1. Path(versions[h], u, me.blocks, reached[u][h], Goal(h))
    BY <1>3 DEF IInv, OnPath, me
  <2>2. \A i \in 1..Len(me.blocks) : rest[i][u] = me.blocks[i][u]
    <3> TAKE i \in 1..Len(me.blocks)
    <3>1. Len(me.blocks) \in Nat
      BY <1>3
    <3>2. CASE i = 1
      BY <1>7, <3>2
    <3>3. CASE i # 1
      BY <1>4, <3>1, <3>3
    <3> QED BY <3>2, <3>3
  <2> QED BY <1>4, <2>1, <2>2, PathSame
<1>10. t = command[h].table
  BY DEF t, me
<1>11. Brings(h, t, Entry(h).to, rest)
  BY <1>1, <1>5, <1>6, <1>8, <1>9, <1>10 DEF Brings
<1> QED BY <1>1, <1>4, <1>11

LEMMA InvInit == Init => IInv
<1> SUFFICES ASSUME Init PROVE IInv
  OBVIOUS
<1>1. \A h \in Host : command[h] = Idle /\ command[h].pc = "idle"
  BY DEF Init, Idle
<1>2. \A h \in Host : Len(versions[h]) = 0
  BY DEF Init
<1>3. HasReached
  BY <1>2 DEF Init, HasReached
<1>4. \A t \in Table : Writers(t) = {}
  BY <1>1 DEF Writers
<1>5. \A t \in Table, h \in Host : rows[t][h] = Due(t, h) /\ file[t] = "whole" /\ lost[t] = {}
  BY DEF Init, NoRows, Due, VersionOf
<1>6. Intact
  BY <1>4, <1>5 DEF Intact
<1>7. Durable
  BY <1>1 DEF Durable, Init
<1>8. OnPath
  BY <1>1 DEF OnPath
<1>9. AtLastKnown
  BY ServerAssumption DEF Init, AtLastKnown
<1> QED BY <1>3, <1>6, <1>7, <1>8, <1>9 DEF IInv

\* What a commit of the host does to its past.
LEMMA VersionKept ==
    ASSUME NEW seq \in Seq([Table -> State]), NEW new \in [Table -> State]
    PROVE  /\ 0..Len(seq) \subseteq 0..Len(Append(seq, new))
           /\ \A n \in 0..Len(seq) : VersionOf(Append(seq, new), n) = VersionOf(seq, n)
           /\ \A t, blocks, from, tip :
                 Path(seq, t, blocks, from, tip) => Path(Append(seq, new), t, blocks, from, tip)
<1>1. /\ Len(seq) \in Nat /\ Len(Append(seq, new)) = Len(seq) + 1
      /\ \A n \in 1..Len(seq) : Append(seq, new)[n] = seq[n]
  BY AppendProperties
<1>2. 0..Len(seq) \subseteq 0..Len(Append(seq, new))
  BY <1>1
<1>3. \A n \in 0..Len(seq) : VersionOf(Append(seq, new), n) = VersionOf(seq, n)
  BY <1>1 DEF VersionOf
<1> DEFINE longer == Append(seq, new)
<1> HIDE DEF longer
<1>4. ASSUME NEW t, NEW blocks, NEW from, NEW tip, Path(seq, t, blocks, from, tip)
      PROVE  Path(longer, t, blocks, from, tip)
  <2>1. PICK at : Along(seq, t, blocks, at) /\ at[1] = from /\ at[Len(blocks) + 1] = tip
    BY <1>4 DEF Path
  <2>2. at \in [1..(Len(blocks) + 1) -> 0..Len(longer)]
    BY <1>2, <2>1 DEF Along, longer
  <2>3. ASSUME NEW i \in 1..Len(blocks)
        PROVE  Leads(longer, t, blocks[i][t], at[i], at[i + 1])
    <3>1. at[i] \in 0..Len(seq) /\ at[i + 1] \in 0..Len(seq)
      <4>1. i \in 1..(Len(blocks) + 1) /\ i + 1 \in 1..(Len(blocks) + 1)
        BY SMT
      <4> QED BY <2>1, <4>1 DEF Along
    <3>2. Leads(seq, t, blocks[i][t], at[i], at[i + 1])
      BY <2>1 DEF Along
    <3>3. /\ VersionOf(longer, at[i]) = VersionOf(seq, at[i])
          /\ VersionOf(longer, at[i + 1]) = VersionOf(seq, at[i + 1])
      BY <1>3, <3>1 DEF longer
    <3> QED BY <3>2, <3>3 DEF Leads
  <2> QED BY <2>1, <2>2, <2>3 DEF Path, Along
<1> QED BY <1>2, <1>3, <1>4 DEF longer

\* A step of host h that leaves the tables alone, and does not enter or leave
\* the writing of a file.
LEMMA TablesKept ==
    ASSUME TypeInv, IInv, NEW h \in Host, NEW me, Become(h, me), UNCHANGED <<versions, tables>>,
           command[h].pc # "write", me.pc # "write",
           me.pc = "transaction" => /\ me.table \in Table
                                    /\ me.content[h] = rows[me.table][h]
    PROVE  HasReached' /\ Intact' /\ Durable'
<1>1. /\ command'[h] = me /\ \A g \in Host : g # h => command'[g] = command[g]
      /\ UNCHANGED <<versions, rows, file, reached, lost>>
  BY DEF Become, TypeInv, tables
<1>2. \A t : Writers(t)' = Writers(t)
  BY <1>1 DEF Writers
<1>3. \A t : h \notin Writers(t)
  BY DEF Writers
<1>4. \A t : \A w \in Writers(t) : command'[w] = command[w]
  BY <1>1, <1>3 DEF Writers
<1>5. \A t, g : Due(t, g)' = Due(t, g)
  BY <1>1 DEF Due
<1>6. HasReached'
  BY <1>1 DEF IInv, HasReached
<1>7. Intact'
  BY <1>1, <1>2, <1>4, <1>5 DEF IInv, Intact
<1>8. Durable'
  <2>1. \A t \in Table \ CsvTable : lost'[t] = {} /\ file'[t] # "empty"
    BY <1>1 DEF IInv, Durable
  <2>2. ASSUME NEW g \in Host
        PROVE  /\ command'[g].pc = "write" => command'[g].table \in CsvTable
               /\ /\ command'[g].pc = "transaction"
                  /\ command'[g].table \notin CsvTable
                  => command'[g].content[g] = rows'[command'[g].table][g]
    <3>1. CASE g = h
      BY <1>1, <3>1
    <3>2. CASE g # h
      BY <1>1, <3>2 DEF IInv, Durable
    <3> QED BY <3>1, <3>2
  <2> QED BY <2>1, <2>2 DEF Durable
<1> QED BY <1>6, <1>7, <1>8

\* A step of a host that touches one CSV table, which has lost everything.
LEMMA AllLost ==
    ASSUME TypeInv, IInv, NEW h \in Host, NEW t \in Table, t \in CsvTable, NEW me,
           Become(h, me), UNCHANGED versions, command[h].pc = "write", command[h].table = t,
           me.pc \notin {"transaction", "write"},
           HasReached',
           \A g \in Host, u \in Table : u # t => reached'[u][g] = reached[u][g],
           lost' = [lost EXCEPT ![t] = Host],
           \A u \in Table : u # t => rows'[u] = rows[u] /\ file'[u] = file[u]
    PROVE  Intact' /\ Durable'
<1>1. command'[h] = me /\ \A g \in Host : g # h => command'[g] = command[g]
  BY DEF Become, TypeInv
<1>2. lost'[t] = Host /\ \A u \in Table : u # t => lost'[u] = lost[u]
  BY DEF TypeInv
<1>3. ASSUME NEW u \in Table, u # t
      PROVE  Writers(u)' = Writers(u) /\ \A w \in Writers(u) : command'[w] = command[w]
  <2>1. h \notin Writers(u) /\ h \notin Writers(u)'
    BY <1>1, <1>3 DEF Writers
  <2> QED BY <1>1, <2>1 DEF Writers
<1>4. ASSUME NEW u \in Table, u # t, NEW g \in Host
      PROVE  Due(u, g)' = Due(u, g)
  BY <1>4 DEF Due
<1>5. Intact'
  BY <1>2, <1>3, <1>4 DEF IInv, Intact
<1>6. \A u \in Table \ CsvTable : u # t
  OBVIOUS
<1>7. ASSUME NEW g \in Host
      PROVE  /\ command'[g].pc = "write" => command'[g].table \in CsvTable
             /\ /\ command'[g].pc = "transaction"
                /\ command'[g].table \notin CsvTable
                => command'[g].content[g] = rows'[command'[g].table][g]
  <2>1. CASE g = h
    BY <1>1, <2>1
  <2>2. CASE g # h
    <3>1. command[g].pc = "transaction" => command[g].table \in Table
      BY CommandCases DEF TypeInv
    <3> QED BY <1>1, <1>6, <2>2, <3>1 DEF IInv, Durable
  <2> QED BY <2>1, <2>2
<1>8. Durable'
  BY <1>2, <1>6, <1>7 DEF IInv, Durable
<1> QED BY <1>5, <1>8

\* The path of the patch and the versions, after a delta has been dealt with.
LEMMA BringsOn ==
    ASSUME TypeInv, IInv, NEW h \in Host, command[h].pc \in {"transaction", "write"},
           NEW t \in Known, NEW n \in 0..Len(versions[h]), NEW rest \in Seq(PatchBlock),
           Brings(h, t, n, rest), UNCHANGED <<versions, lastknown, trusted>>
    PROVE  /\ HasReached' /\ OnPath' /\ AtLastKnown'
           /\ \A u \in Table, g \in Host :
                 reached'[u][g] = IF u = t /\ g = h THEN n ELSE reached[u][g]
<1> DEFINE me == [pc |-> "patch", blocks |-> rest]
<1>1. me.pc = "patch" /\ me.blocks = rest
  OBVIOUS
<1>2. command' = [command EXCEPT ![h] = me]
  BY DEF Brings
<1> HIDE DEF me
<1>3. command[h] # Idle /\ me # Idle
  BY <1>1 DEF Idle
<1>4. command'[h] = me /\ \A g \in Host : g # h => command'[g] = command[g]
  BY <1>2 DEF TypeInv
<1>5. \A u \in Table, g \in Host :
         reached'[u][g] = IF u = t /\ g = h THEN n ELSE reached[u][g]
  BY DEF Brings, TypeInv
<1>6. HasReached'
  BY <1>5 DEF IInv, HasReached
<1>7. OnPath'
  <2> SUFFICES ASSUME NEW g \in Host, command'[g] # Idle, NEW u \in Known
               PROVE  Path(versions'[g], u, command'[g].blocks, reached'[u][g], Goal(g)')
    BY DEF OnPath
  <2>1. u \in Table
    BY ServerAssumption
  <2>2. CASE g # h
    BY <1>4, <1>5, <2>1, <2>2 DEF IInv, OnPath, Goal
  <2>3. CASE g = h
    <3>1. Goal(h)' = Goal(h)
      BY <1>1, <1>4 DEF Goal
    <3>2. CASE u = t
      BY <1>1, <1>4, <1>5, <2>1, <2>3, <3>1, <3>2 DEF Brings
    <3>3. CASE u # t
      BY <1>1, <1>4, <1>5, <2>1, <2>3, <3>1, <3>3 DEF Brings
    <3> QED BY <3>2, <3>3
  <2> QED BY <2>2, <2>3
<1>8. AtLastKnown'
  <2> SUFFICES ASSUME NEW g \in Host, command'[g] = Idle, trusted'[g], NEW u \in Known
               PROVE  reached'[u][g] = lastknown'[g]
    BY DEF AtLastKnown
  <2>1. g # h /\ command[g] = Idle /\ trusted[g] /\ u \in Table
    BY <1>3, <1>4, ServerAssumption
  <2> QED BY <1>5, <2>1 DEF IInv, AtLastKnown
<1> QED BY <1>5, <1>6, <1>7, <1>8

\* A command that ends: its path is over, or it is not trusted.
LEMMA Ends ==
    ASSUME TypeInv, IInv, NEW h \in Host, Become(h, Idle), UNCHANGED <<versions, reached>>,
           \A g \in Host : g # h => lastknown'[g] = lastknown[g] /\ trusted'[g] = trusted[g],
           trusted'[h] => \A t \in Known : reached[t][h] = lastknown'[h]
    PROVE  HasReached' /\ OnPath' /\ AtLastKnown'
<1>1. command'[h] = Idle /\ \A g \in Host : g # h => command'[g] = command[g]
  BY DEF TypeInv, Become
<1>2. HasReached'
  BY DEF IInv, HasReached
<1>3. OnPath'
  BY <1>1 DEF IInv, OnPath, Goal
<1>4. AtLastKnown'
  BY <1>1 DEF IInv, AtLastKnown
<1> QED BY <1>2, <1>3, <1>4

\* The commit of a CSV file: before, its host's rows and every other host's are
\* what the file has; after, they are in the memory of the command alone.
LEMMA OpenFileKeeps ==
    ASSUME TypeInv, IInv, NEW h \in Host, OpenFile(h)
    PROVE  HasReached' /\ Intact' /\ Durable'
<1>a. PICK t \in Table : t = command[h].table
  BY EntryType DEF OpenFile
<1>b. PICK me : me = [command[h] EXCEPT !.pc = "write"]
  OBVIOUS
<1>0. t = command[h].table /\ me = [command[h] EXCEPT !.pc = "write"]
  BY <1>a, <1>b
<1>1. /\ t \in CsvTable /\ command[h].pc = "transaction"
      /\ UNCHANGED <<versions, reached>>
      /\ rows' = [rows EXCEPT ![t] = NoRows]
      /\ file' = [file EXCEPT ![t] = "empty"]
      /\ lost' = [lost EXCEPT ![t] =
             IF Writers(t) # {} THEN Host
             ELSE lost[t] \cup {g \in Host : command[h].content[g] # rows[t][g]}]
      /\ command' = [command EXCEPT ![h] = me]
  BY <1>0 DEF OpenFile, Become
<1>2. /\ command[h] \in [pc: {"transaction", "write"}, table: Table,
                         content: [Host -> HostRows], header: BOOLEAN,
                         blocks: Seq(PatchBlock)]
  BY <1>1, CommandCases DEF TypeInv
<1>3. me.pc = "write" /\ me.table = t /\ me.content = command[h].content /\ command[h].table = t
  BY <1>0, <1>2
<1>4. command'[h] = me /\ \A g \in Host : g # h => command'[g] = command[g]
  BY <1>1 DEF TypeInv
<1>5. HasReached'
  BY <1>1 DEF IInv, HasReached
<1>6. \A u, g : Due(u, g)' = Due(u, g)
  BY <1>1 DEF Due
<1>7. h \notin Writers(t) /\ Writers(t)' = Writers(t) \cup {h}
  <2>1. ASSUME NEW g \in Host
        PROVE  g \in Writers(t)' <=> g = h \/ g \in Writers(t)
    <3>1. g \in Writers(t)' <=> command'[g].pc = "write" /\ command'[g].table = t
      BY DEF Writers
    <3>2. CASE g = h
      BY <1>3, <1>4, <3>1, <3>2
    <3>3. CASE g # h
      BY <1>4, <3>1, <3>3 DEF Writers
    <3> QED BY <3>2, <3>3
  <2>2. h \notin Writers(t)
    BY <1>1 DEF Writers
  <2>3. Writers(t) \subseteq Host /\ Writers(t)' \subseteq Host
    BY DEF Writers
  <2> QED BY <2>1, <2>2, <2>3
<1>8. ASSUME NEW u \in Table, u # t
      PROVE  /\ Writers(u)' = Writers(u) /\ \A w \in Writers(u) : command'[w] = command[w]
             /\ rows'[u] = rows[u] /\ file'[u] = file[u] /\ lost'[u] = lost[u]
  <2>1. h \notin Writers(u) /\ h \notin Writers(u)'
    BY <1>1, <1>3, <1>4, <1>8 DEF Writers
  <2>2. rows'[u] = rows[u] /\ file'[u] = file[u] /\ lost'[u] = lost[u]
    BY <1>1, <1>8 DEF TypeInv
  <2> QED BY <1>4, <2>1, <2>2 DEF Writers
<1>9. /\ rows'[t] = NoRows /\ file'[t] = "empty"
      /\ lost'[t] = IF Writers(t) # {} THEN Host
                    ELSE lost[t] \cup {g \in Host : command[h].content[g] # rows[t][g]}
  BY <1>1 DEF TypeInv
<1>10. ASSUME NEW g \in Host \ lost'[t]
       PROVE  Writers(t)' = {h} /\ command'[h].content[g] = Due(t, g)
  <2>1. Writers(t) = {} /\ g \notin lost[t] /\ command[h].content[g] = rows[t][g]
    BY <1>9
  <2>2. file[t] # "empty"
    BY <1>1, <2>1 DEF IInv, Intact
  <2>3. rows[t][g] = Due(t, g)
    BY <1>1, <2>1, <2>2 DEF IInv, Intact
  <2> QED BY <1>3, <1>4, <1>7, <2>1, <2>3
<1>11. Intact'
  <2> SUFFICES ASSUME NEW u \in Table, NEW g \in Host \ lost'[u]
               PROVE  /\ file'[u] # "empty" => rows'[u][g] = Due(u, g)'
                      /\ file'[u] = "empty" => Writers(u)' # {}
                      /\ \A w \in Writers(u)' : command'[w].content[g] = Due(u, g)'
                      /\ \A v, w \in Writers(u)' : v = w
    BY DEF Intact
  <2>1. CASE u = t
    <3>1. g \in Host \ lost'[t]
      BY <2>1
    <3>2. Writers(t)' = {h} /\ command'[h].content[g] = Due(t, g)
      BY <1>10, <3>1
    <3>3. Writers(u)' = {h} /\ file'[u] = "empty" /\ Due(u, g)' = Due(u, g)
      BY <1>6, <1>9, <2>1, <3>2
    <3>4. command'[h].content[g] = Due(u, g)
      BY <2>1, <3>2
    <3> QED BY <3>3, <3>4
  <2>2. CASE u # t
    BY <1>6, <1>8, <2>2 DEF IInv, Intact
  <2> QED BY <2>1, <2>2
<1>12. ASSUME NEW g \in Host
       PROVE  /\ command'[g].pc = "write" => command'[g].table \in CsvTable
              /\ /\ command'[g].pc = "transaction"
                 /\ command'[g].table \notin CsvTable
                 => command'[g].content[g] = rows'[command'[g].table][g]
  <2>1. CASE g = h
    BY <1>1, <1>3, <1>4, <2>1
  <2>2. CASE g # h
    <3>1. command[g].pc = "transaction" => command[g].table \in Table
      BY CommandCases DEF TypeInv
    <3>2. command[g].pc = "transaction" /\ command[g].table \notin CsvTable
             => rows'[command[g].table] = rows[command[g].table]
      BY <1>1, <1>8, <3>1
    <3> QED BY <1>4, <2>2, <3>2 DEF IInv, Durable
  <2> QED BY <2>1, <2>2
<1>13. Durable'
  BY <1>1, <1>8, <1>12 DEF IInv, Durable
<1> QED BY <1>5, <1>11, <1>13

\* The writing of a file that nobody else has open.
LEMMA WriteFileKeeps ==
    ASSUME TypeInv, IInv, NEW h \in Host, WriteFile(h), file[command[h].table] = "empty"
    PROVE  Intact' /\ Durable'
<1>1. command[h].pc = "write" /\ Proceed(h) /\ Mark(h) /\ UNCHANGED versions
  BY DEF WriteFile
<1>2. PICK t \in Known, n \in 0..Len(versions[h]), rest \in Seq(PatchBlock) :
          Brings(h, t, n, rest)
  BY <1>1, TransactionEffect
<1> DEFINE me     == [pc |-> "patch", blocks |-> rest]
           rebase == Entry(h).delta.type = "rebase"
           kind   == IF command[h].header THEN "whole" ELSE "headless"
<1>3. /\ t = command[h].table /\ t \in Table /\ n = Entry(h).to
      /\ reached' = [reached EXCEPT ![t][h] = n]
      /\ command' = [command EXCEPT ![h] = me]
  BY <1>2 DEF Brings
<1>4. /\ rows' = [rows EXCEPT ![t] = [command[h].content EXCEPT ![h] = New(h)]]
      /\ file' = [file EXCEPT ![t] = kind] /\ kind # "empty"
      /\ lost' = [lost EXCEPT ![t] = IF rebase /\ Writers(t) = {h}
                                     THEN lost[t] \ {h} ELSE lost[t]]
  BY <1>3 DEF WriteFile, Written
<1>5. command[h].content \in [Host -> HostRows] /\ t \in CsvTable
  BY <1>1, <1>3, CommandCases DEF TypeInv, IInv, Durable
<1>6. rebase \/ command[h].content[h] = Due(t, h) => New(h) = RowsOf(VersionOf(versions[h], n)[t])
  BY <1>1, <1>3, EntryLeads DEF IInv
<1>7. me.pc = "patch"
  OBVIOUS
<1> HIDE DEF me, rebase, kind
<1>8. command'[h] = me /\ \A g \in Host : g # h => command'[g] = command[g]
  BY <1>3 DEF TypeInv
<1>9. \A u \in Table, g \in Host : u # t \/ g # h => Due(u, g)' = Due(u, g)
  BY <1>1, <1>3 DEF Due, TypeInv
<1>10. Due(t, h)' = RowsOf(VersionOf(versions[h], n)[t])
  BY <1>1, <1>3 DEF Due, TypeInv
<1>11. h \in Writers(t) /\ Writers(t)' = Writers(t) \ {h}
  BY <1>1, <1>3, <1>7, <1>8 DEF Writers
<1>12. ASSUME NEW u \in Table, u # t
      PROVE  /\ Writers(u)' = Writers(u) /\ \A w \in Writers(u) : command'[w] = command[w]
             /\ rows'[u] = rows[u] /\ file'[u] = file[u] /\ lost'[u] = lost[u]
  <2>1. h \notin Writers(u) /\ h \notin Writers(u)'
    BY <1>3, <1>7, <1>8, <1>12 DEF Writers
  <2>2. rows'[u] = rows[u] /\ file'[u] = file[u] /\ lost'[u] = lost[u]
    BY <1>4, <1>12 DEF TypeInv
  <2> QED BY <1>8, <2>1, <2>2 DEF Writers
<1>13. /\ file'[t] = kind /\ rows'[t] = [command[h].content EXCEPT ![h] = New(h)]
       /\ lost'[t] = IF rebase /\ Writers(t) = {h} THEN lost[t] \ {h} ELSE lost[t]
  BY <1>3, <1>4 DEF TypeInv
<1>14. ASSUME NEW g \in Host \ lost'[t]
       PROVE  rows'[t][g] = Due(t, g)' /\ Writers(t)' = {}
  <2>1. CASE g \in lost[t]
    <3>1. g = h /\ rebase /\ Writers(t) = {h}
      BY <1>13, <2>1
    <3>2. rows'[t][h] = New(h)
      BY <1>5, <1>13
    <3> QED BY <1>6, <1>10, <1>11, <3>1, <3>2
  <2>2. CASE g \notin lost[t]
    <3>1. \A w \in Writers(t) : command[w].content[g] = Due(t, g)
      BY <1>3, <2>2 DEF IInv, Intact
    <3>2. \A w \in Writers(t) : w = h
      BY <1>3, <1>11, <2>2 DEF IInv, Intact
    <3>3. Writers(t)' = {}
      BY <1>11, <3>2
    <3>4. CASE g = h
      BY <1>5, <1>6, <1>10, <1>11, <1>13, <3>1, <3>3, <3>4
    <3>5. CASE g # h
      BY <1>3, <1>5, <1>9, <1>11, <1>13, <3>1, <3>3, <3>5
    <3> QED BY <3>4, <3>5
  <2> QED BY <2>1, <2>2
<1>15. Intact'
  <2> SUFFICES ASSUME NEW u \in Table, NEW g \in Host \ lost'[u]
               PROVE  /\ file'[u] # "empty" => rows'[u][g] = Due(u, g)'
                      /\ file'[u] = "empty" => Writers(u)' # {}
                      /\ \A w \in Writers(u)' : command'[w].content[g] = Due(u, g)'
                      /\ \A v, w \in Writers(u)' : v = w
    BY DEF Intact
  <2>1. CASE u = t
    BY <1>4, <1>13, <1>14, <2>1
  <2>2. CASE u # t
    BY <1>9, <1>12, <2>2 DEF IInv, Intact
  <2> QED BY <2>1, <2>2
<1>16. ASSUME NEW g \in Host
       PROVE  /\ command'[g].pc = "write" => command'[g].table \in CsvTable
              /\ /\ command'[g].pc = "transaction"
                 /\ command'[g].table \notin CsvTable
                 => command'[g].content[g] = rows'[command'[g].table][g]
  <2>1. CASE g = h
    BY <1>7, <1>8, <2>1
  <2>2. CASE g # h
    <3>1. command[g].pc = "transaction" => command[g].table \in Table
      BY CommandCases DEF TypeInv
    <3>2. command[g].pc = "transaction" /\ command[g].table \notin CsvTable
             => rows'[command[g].table] = rows[command[g].table]
      BY <1>5, <1>12, <3>1
    <3> QED BY <1>8, <2>2, <3>2 DEF IInv, Durable
  <2> QED BY <2>1, <2>2
<1>17. Durable'
  BY <1>5, <1>12, <1>16 DEF IInv, Durable
<1> QED BY <1>15, <1>17

\* The commit of a PostgreSQL table never meets a row with the key to insert.
LEMMA CommitSqlKeeps ==
    ASSUME TypeInv, IInv, NEW h \in Host, CommitSql(h)
    PROVE  Mark(h) /\ Intact' /\ Durable'
<1>1. /\ command[h].pc = "transaction" /\ command[h].table \notin CsvTable
      /\ Proceed(h) /\ UNCHANGED <<versions, file, lost>>
  BY DEF CommitSql
<1> DEFINE t == command[h].table
<1>2. t \in Table /\ lost[t] = {} /\ file[t] # "empty"
  BY <1>1, EntryType DEF IInv, Durable
<1>3. command[h].content[h] = rows[t][h] /\ rows[t][h] = Due(t, h)
  BY <1>1, <1>2 DEF IInv, Durable, Intact
<1>4. /\ ~Clashes(t, Entry(h).delta, command[h].content[h])
      /\ New(h) = RowsOf(VersionOf(versions[h], Entry(h).to)[t])
  BY <1>1, <1>3, EntryLeads DEF IInv
<1>5. rows' = [rows EXCEPT ![t][h] = New(h)] /\ Mark(h)
  BY <1>4 DEF CommitSql
<1>6. PICK rest \in Seq(PatchBlock) : Become(h, [pc |-> "patch", blocks |-> rest])
  BY <1>1, EntryType
<1> DEFINE me == [pc |-> "patch", blocks |-> rest]
<1>7. me.pc = "patch" /\ command' = [command EXCEPT ![h] = me]
  BY <1>6 DEF Become
<1>8. reached' = [reached EXCEPT ![t][h] = Entry(h).to]
  BY <1>5 DEF Mark
<1> HIDE DEF t, me
<1>9. command'[h] = me /\ \A g \in Host : g # h => command'[g] = command[g]
  BY <1>7 DEF TypeInv
<1>10. \A u \in Table, g \in Host :
          /\ rows'[u][g] = IF u = t /\ g = h THEN New(h) ELSE rows[u][g]
          /\ reached'[u][g] = IF u = t /\ g = h THEN Entry(h).to ELSE reached[u][g]
  BY <1>2, <1>5, <1>8 DEF TypeInv
<1>11. \A u \in Table : /\ Writers(u)' = Writers(u)
                        /\ \A w \in Writers(u) : command'[w] = command[w]
                        /\ u \notin CsvTable => Writers(u) = {}
  BY <1>1, <1>7, <1>9 DEF Writers, IInv, Durable
<1>12. \A u \in Table, g \in Host :
          Due(u, g)' = IF u = t /\ g = h THEN New(h) ELSE Due(u, g)
  BY <1>1, <1>4, <1>10 DEF Due, t
<1>13. Intact'
  <2> SUFFICES ASSUME NEW u \in Table, NEW g \in Host \ lost'[u]
               PROVE  /\ file'[u] # "empty" => rows'[u][g] = Due(u, g)'
                      /\ file'[u] = "empty" => Writers(u)' # {}
                      /\ \A w \in Writers(u)' : command'[w].content[g] = Due(u, g)'
                      /\ \A v, w \in Writers(u)' : v = w
    BY DEF Intact
  <2>1. /\ file[u] # "empty" => rows[u][g] = Due(u, g)
        /\ file[u] = "empty" => Writers(u) # {}
        /\ \A w \in Writers(u) : command[w].content[g] = Due(u, g)
        /\ \A v, w \in Writers(u) : v = w
    BY <1>1 DEF IInv, Intact
  <2>2. t \notin CsvTable
    BY <1>1 DEF t
  <2> QED BY <1>1, <1>10, <1>11, <1>12, <2>1, <2>2
<1>14. ASSUME NEW g \in Host
       PROVE  /\ command'[g].pc = "write" => command'[g].table \in CsvTable
              /\ /\ command'[g].pc = "transaction"
                 /\ command'[g].table \notin CsvTable
                 => command'[g].content[g] = rows'[command'[g].table][g]
  <2>1. CASE g = h
    BY <1>7, <1>9, <2>1
  <2>2. CASE g # h
    <3>1. command[g].pc = "transaction" => command[g].table \in Table
      BY CommandCases DEF TypeInv
    <3>2. command[g].pc = "transaction"
             => rows'[command[g].table][g] = rows[command[g].table][g]
      BY <1>10, <2>2, <3>1
    <3> QED BY <1>9, <2>2, <3>2 DEF IInv, Durable
  <2> QED BY <2>1, <2>2
<1>15. Durable'
  BY <1>1, <1>14 DEF IInv, Durable
<1> QED BY <1>5, <1>13, <1>15

LEMMA InvStep ==
    ASSUME TypeInv, IInv, [Next]_vars
    PROVE  IInv'
<1>1. ASSUME NEW h \in Host, HostCommits(h)
      PROVE  IInv'
  <2>1. PICK new \in [Table -> State] :
            versions' = [versions EXCEPT ![h] = Append(versions[h], new)]
    BY <1>1 DEF HostCommits
  <2>2. UNCHANGED <<lastknown, rows, file, command, trusted, reached, lost>>
    BY <1>1 DEF HostCommits, tables
  <2>3. ASSUME NEW g \in Host
        PROVE  /\ 0..Len(versions[g]) \subseteq 0..Len(versions'[g])
               /\ \A n \in 0..Len(versions[g]) :
                     VersionOf(versions'[g], n) = VersionOf(versions[g], n)
               /\ \A t, blocks, from, tip : Path(versions[g], t, blocks, from, tip)
                     => Path(versions'[g], t, blocks, from, tip)
    <3>1. versions[g] \in Seq([Table -> State])
      BY DEF TypeInv
    <3>2. versions'[g] = IF g = h THEN Append(versions[g], new) ELSE versions[g]
      BY <2>1 DEF TypeInv
    <3>3. CASE g = h
      <4>1. versions'[g] = Append(versions[g], new)
        BY <3>2, <3>3
      <4> QED BY <3>1, <4>1, VersionKept
    <3>4. CASE g # h
      <4>1. versions'[g] = versions[g]
        BY <3>2, <3>4
      <4> QED BY <4>1
    <3> QED BY <3>3, <3>4
  <2>4. HasReached'
    BY <2>2, <2>3 DEF IInv, HasReached
  <2>5. \A t \in Table, g \in Host : Due(t, g)' = Due(t, g)
    BY <2>2, <2>3 DEF Due, IInv, HasReached
  <2>6. \A t : Writers(t)' = Writers(t)
    BY <2>2 DEF Writers
  <2>7. Intact'
    BY <2>2, <2>5, <2>6 DEF IInv, Intact
  <2>8. OnPath'
    BY <2>2, <2>3 DEF IInv, OnPath, Goal
  <2>9. Durable' /\ AtLastKnown'
    BY <2>2 DEF IInv, Durable, AtLastKnown
  <2> QED BY <2>4, <2>7, <2>8, <2>9 DEF IInv
<1>2. ASSUME NEW h \in Host, PatchStart(h)
      PROVE  IInv'
  <2> DEFINE tip    == Len(versions[h])
             blocks == IF trusted[h] THEN DiffBlocks(h, lastknown[h], tip)
                       ELSE <<RebaseBlock(h, tip)>>
             me     == [pc |-> "start", tip |-> tip, blocks |-> blocks]
  <2>1. /\ Become(h, me)
        /\ UNCHANGED <<versions, lastknown, trusted, tables>>
        /\ command[h] = Idle
    BY <1>2 DEF PatchStart, Begin
  <2>2. /\ tip \in Nat /\ tip \in 0..tip
        /\ trusted[h] => lastknown[h] \in Nat /\ lastknown[h] <= tip
    BY DEF TypeInv
  <2>3. ASSUME NEW t \in Known
        PROVE  Path(versions[h], t, blocks, reached[t][h], tip)
    <3>1. t \in Table /\ reached[t][h] \in 0..tip
      BY ServerAssumption DEF IInv, HasReached
    <3>2. CASE trusted[h]
      <4>1. reached[t][h] = lastknown[h]
        BY <2>1, <3>2 DEF IInv, AtLastKnown
      <4> QED BY <2>2, <3>2, <4>1, DiffPath
    <3>3. CASE ~trusted[h]
      BY <3>1, <3>3, RebasePath
    <3> QED BY <3>2, <3>3
  <2> HIDE DEF tip, blocks
  <2>4. me.pc = "start" /\ me.tip = tip /\ me.blocks = blocks
    OBVIOUS
  <2> HIDE DEF me
  <2>5. command[h].pc = "idle"
    BY <2>1 DEF Idle
  <2>6. HasReached' /\ Intact' /\ Durable'
    BY <2>1, <2>4, <2>5, TablesKept
  <2>7. command'[h] = me /\ \A g \in Host : g # h => command'[g] = command[g]
    BY <2>1 DEF TypeInv, Become
  <2>8. OnPath'
    BY <2>1, <2>3, <2>4, <2>7 DEF IInv, OnPath, Goal, tables
  <2>9. AtLastKnown'
    <3>1. me # Idle
      BY <2>4 DEF Idle
    <3> QED BY <2>1, <2>7, <3>1 DEF IInv, AtLastKnown, tables
  <2> QED BY <2>6, <2>8, <2>9 DEF IInv
<1>3. ASSUME NEW h \in Host, UpdateLastKnown(h)
      PROVE  IInv'
  <2> DEFINE me == [pc |-> "patch", blocks |-> command[h].blocks]
  <2>1. /\ Become(h, me)
        /\ lastknown' = [lastknown EXCEPT ![h] = command[h].tip]
        /\ UNCHANGED <<versions, trusted, tables>>
        /\ command[h].pc = "start"
    BY <1>3 DEF UpdateLastKnown
  <2>2. me.pc = "patch" /\ me.blocks = command[h].blocks
    OBVIOUS
  <2> HIDE DEF me
  <2>3. command[h] # Idle /\ me # Idle
    BY <2>1, <2>2 DEF Idle
  <2>4. /\ command'[h] = me /\ lastknown'[h] = command[h].tip
        /\ \A g \in Host : g # h => command'[g] = command[g] /\ lastknown'[g] = lastknown[g]
    BY <2>1 DEF TypeInv, Become
  <2>5. HasReached' /\ Intact' /\ Durable'
    BY <2>1, <2>2, TablesKept
  <2>6. OnPath'
    BY <2>1, <2>2, <2>3, <2>4 DEF IInv, OnPath, Goal, tables
  <2>7. AtLastKnown'
    BY <2>1, <2>3, <2>4 DEF IInv, AtLastKnown, tables
  <2> QED BY <2>5, <2>6, <2>7 DEF IInv
<1>4. ASSUME NEW h \in Host, NextBlock(h)
      PROVE  IInv'
  <2> DEFINE me == [pc |-> "patch", blocks |-> Tail(command[h].blocks)]
  <2>1. /\ Become(h, me)
        /\ UNCHANGED <<versions, lastknown, trusted, tables>>
        /\ command[h].pc = "patch" /\ command[h].blocks # <<>>
        /\ Tables(Head(command[h].blocks)) = {}
    BY <1>4 DEF NextBlock
  <2>2. me.pc = "patch" /\ me.blocks = Tail(command[h].blocks)
    OBVIOUS
  <2> HIDE DEF me
  <2>3. command[h] # Idle /\ me # Idle
    BY <2>1, <2>2 DEF Idle
  <2>4. command'[h] = me /\ \A g \in Host : g # h => command'[g] = command[g]
    BY <2>1 DEF TypeInv, Become
  <2>5. \A t \in Known : Path(versions[h], t, me.blocks, reached[t][h], lastknown[h])
    <3> TAKE t \in Known
    <3>1. command[h].blocks \in Seq(PatchBlock)
      BY <2>1, CommandCases DEF TypeInv
    <3>2. Path(versions[h], t, command[h].blocks, reached[t][h], lastknown[h])
      BY <2>1, <2>3 DEF IInv, OnPath, Goal
    <3>3. Head(command[h].blocks)[t] = None
      BY <2>1 DEF Tables
    <3> QED BY <2>1, <2>2, <3>1, <3>2, <3>3, PathTail
  <2>6. HasReached' /\ Intact' /\ Durable'
    BY <2>1, <2>2, TablesKept
  <2>7. OnPath'
    BY <2>1, <2>2, <2>4, <2>5 DEF IInv, OnPath, Goal, tables
  <2>8. AtLastKnown'
    BY <2>1, <2>3, <2>4 DEF IInv, AtLastKnown, tables
  <2> QED BY <2>6, <2>7, <2>8 DEF IInv
\* A patch that fails without having touched a table.
<1>5. ASSUME NEW h \in Host, Fail(h), UNCHANGED <<versions, tables>>, command[h].pc # "write",
             \A g \in Host : g # h => lastknown'[g] = lastknown[g]
      PROVE  IInv'
  <2>1. Become(h, Idle) /\ Idle.pc = "idle"
    BY <1>5 DEF Fail, Idle
  <2>2. ~trusted'[h] /\ \A g \in Host : g # h => trusted'[g] = trusted[g]
    BY <1>5 DEF Fail, TypeInv
  <2>3. HasReached' /\ Intact' /\ Durable'
    BY <1>5, <2>1, TablesKept
  <2>4. UNCHANGED <<versions, reached>>
    BY <1>5 DEF tables
  <2>5. OnPath' /\ AtLastKnown'
    BY <1>5, <2>1, <2>2, <2>4, Ends
  <2> QED BY <2>3, <2>5 DEF IInv
<1>6. ASSUME NEW h \in Host, BeginTransaction(h)
      PROVE  IInv'
  <2>1. /\ command[h].pc = "patch" /\ UNCHANGED <<versions, lastknown, tables>>
    BY <1>6 DEF BeginTransaction
  <2>2. CASE Fail(h)
    BY <1>5, <2>1, <2>2
  <2>3. ASSUME NEW t \in Tables(Head(command[h].blocks)), UNCHANGED trusted,
               Become(h, [pc |-> "transaction", table |-> t, content |-> rows[t],
                          header |-> file[t] = "whole", blocks |-> command[h].blocks])
        PROVE  IInv'
    <3> DEFINE me == [pc |-> "transaction", table |-> t, content |-> rows[t],
                      header |-> file[t] = "whole", blocks |-> command[h].blocks]
    <3>1. /\ me.pc = "transaction" /\ me.blocks = command[h].blocks
          /\ me.table = t /\ me.content = rows[t] /\ Become(h, me)
      BY <2>3
    <3> HIDE DEF me
    <3>2. command[h] # Idle /\ me # Idle
      BY <2>1, <3>1 DEF Idle
    <3>3. command'[h] = me /\ \A g \in Host : g # h => command'[g] = command[g]
      BY <3>1 DEF TypeInv, Become
    <3>4. t \in Table
      BY <2>3, ServerAssumption DEF Tables
    <3>5. HasReached' /\ Intact' /\ Durable'
      BY <2>1, <3>1, <3>4, TablesKept
    <3>6. OnPath'
      BY <2>1, <3>1, <3>2, <3>3 DEF IInv, OnPath, Goal, tables
    <3>7. AtLastKnown'
      BY <2>1, <2>3, <3>2, <3>3 DEF IInv, AtLastKnown, tables
    <3> QED BY <3>5, <3>6, <3>7 DEF IInv
  <2> QED BY <1>6, <2>2, <2>3 DEF BeginTransaction
\* The delta of a transaction has been dealt with.
<1>7. ASSUME NEW h \in Host, command[h].pc \in {"transaction", "write"}, Proceed(h), Mark(h),
             UNCHANGED <<versions, lastknown, trusted>>
      PROVE  /\ HasReached' /\ OnPath' /\ AtLastKnown'
             /\ \A g \in Host, u \in Table : u # command[h].table => reached'[u][g] = reached[u][g]
  <2>1. PICK t \in Known, n \in 0..Len(versions[h]), rest \in Seq(PatchBlock) :
              Brings(h, t, n, rest)
    BY <1>7, TransactionEffect
  <2>2. t = command[h].table
    BY <2>1 DEF Brings
  <2> QED BY <1>7, <2>1, <2>2, BringsOn
<1>8. ASSUME NEW h \in Host, CommitSql(h)
      PROVE  IInv'
  <2>1. /\ command[h].pc = "transaction" /\ Proceed(h)
        /\ UNCHANGED <<versions, lastknown, trusted>>
    BY <1>8 DEF CommitSql
  <2>2. Mark(h) /\ Intact' /\ Durable'
    BY <1>8, CommitSqlKeeps
  <2> QED BY <1>7, <2>1, <2>2 DEF IInv
<1>9. ASSUME NEW h \in Host, RejectDelta(h)
      PROVE  IInv'
  BY <1>5, <1>9 DEF RejectDelta
<1>10. ASSUME NEW h \in Host, OpenFile(h)
       PROVE  IInv'
  <2>1. HasReached' /\ Intact' /\ Durable'
    BY <1>10, OpenFileKeeps
  <2>2. /\ command[h].pc = "transaction"
        /\ UNCHANGED <<versions, lastknown, trusted, reached>>
        /\ command' = [command EXCEPT ![h] = [command[h] EXCEPT !.pc = "write"]]
    BY <1>10 DEF OpenFile, Become
  <2>3. command[h] \in [pc: {"transaction", "write"}, table: Table,
                        content: [Host -> HostRows], header: BOOLEAN,
                        blocks: Seq(PatchBlock)]
    BY <2>2, CommandCases DEF TypeInv
  <2> DEFINE me == [command[h] EXCEPT !.pc = "write"]
  <2>4. me.pc = "write" /\ me.blocks = command[h].blocks
    BY <2>3
  <2> HIDE DEF me
  <2>5. command'[h] = me /\ \A g \in Host : g # h => command'[g] = command[g]
    BY <2>2 DEF TypeInv, me
  <2>6. command[h] # Idle /\ me # Idle
    BY <2>2, <2>4 DEF Idle
  <2>7. OnPath'
    BY <2>2, <2>4, <2>5, <2>6 DEF IInv, OnPath, Goal
  <2>8. AtLastKnown'
    BY <2>2, <2>5, <2>6 DEF IInv, AtLastKnown
  <2> QED BY <2>1, <2>7, <2>8 DEF IInv
\* What is left of a table's file when it has lost everything.
<1>11. ASSUME NEW t \in Table, Scraps(t)
       PROVE  /\ lost' = [lost EXCEPT ![t] = Host]
              /\ \A u \in Table : u # t => rows'[u] = rows[u] /\ file'[u] = file[u]
  BY <1>11 DEF Scraps, TypeInv
<1>12. ASSUME NEW h \in Host, command[h].pc = "write", Proceed(h), Mark(h),
              UNCHANGED <<versions, lastknown, trusted>>, Scraps(command[h].table)
       PROVE  IInv'
  <2>1. command[h].table \in Table /\ command[h].table \in CsvTable
    BY <1>12, EntryType DEF IInv, Durable
  <2>2. PICK rest \in Seq(PatchBlock) : Become(h, [pc |-> "patch", blocks |-> rest])
    BY <1>12, EntryType
  <2> DEFINE me == [pc |-> "patch", blocks |-> rest]
  <2>3. me.pc \notin {"transaction", "write"} /\ Become(h, me)
    BY <2>2
  <2> HIDE DEF me
  <2>4. /\ HasReached' /\ OnPath' /\ AtLastKnown'
        /\ \A g \in Host, u \in Table : u # command[h].table => reached'[u][g] = reached[u][g]
    BY <1>7, <1>12
  <2>5. Intact' /\ Durable'
    BY <1>11, <1>12, <2>1, <2>3, <2>4, AllLost
  <2> QED BY <2>4, <2>5 DEF IInv
<1>13. ASSUME NEW h \in Host, WriteFile(h)
       PROVE  IInv'
  <2>1. /\ command[h].pc = "write" /\ Proceed(h) /\ Mark(h)
        /\ UNCHANGED <<versions, lastknown, trusted>>
    BY <1>13 DEF WriteFile
  <2>2. CASE Scraps(command[h].table)
    BY <1>12, <2>1, <2>2
  <2>3. CASE file[command[h].table] = "empty"
    <3>1. Intact' /\ Durable'
      BY <1>13, <2>3, WriteFileKeeps
    <3> QED BY <1>7, <2>1, <3>1 DEF IInv
  <2> QED BY <1>13, <2>2, <2>3 DEF WriteFile
<1>14. ASSUME NEW h \in Host, ShortWrite(h)
       PROVE  IInv'
  BY <1>12, <1>14 DEF ShortWrite
<1>15. ASSUME NEW h \in Host, PatchEnd(h)
       PROVE  IInv'
  <2>1. /\ command[h].pc = "patch" /\ command[h].blocks = <<>>
        /\ Become(h, Idle) /\ trusted' = [trusted EXCEPT ![h] = TRUE]
        /\ UNCHANGED <<versions, lastknown, tables>>
    BY <1>15 DEF PatchEnd
  <2>2. command[h] # Idle /\ Idle.pc = "idle"
    BY <2>1 DEF Idle
  <2>3. \A t \in Known : Path(versions[h], t, <<>>, reached[t][h], lastknown[h])
    BY <2>1, <2>2 DEF IInv, OnPath, Goal
  <2>4. \A t \in Known : reached[t][h] = lastknown[h]
    BY <2>3, PathDone
  <2>5. HasReached' /\ Intact' /\ Durable'
    BY <2>1, <2>2, TablesKept
  <2>6. \A g \in Host : g # h => lastknown'[g] = lastknown[g] /\ trusted'[g] = trusted[g]
    BY <2>1 DEF TypeInv
  <2>7. UNCHANGED <<versions, reached>>
    BY <2>1 DEF tables
  <2>8. OnPath' /\ AtLastKnown'
    BY <2>1, <2>4, <2>6, <2>7, Ends
  <2> QED BY <2>5, <2>8 DEF IInv
<1>16. ASSUME NEW h \in Host, CallbackFails(h) \/ PatchRejected(h) \/ Crash(h)
       PROVE  IInv'
  <2>1. /\ Fail(h) /\ UNCHANGED <<versions, tables>> /\ command[h].pc # "write"
        /\ \A g \in Host : g # h => lastknown'[g] = lastknown[g]
    BY <1>16 DEF CallbackFails, PatchRejected, Crash, TypeInv
  <2> QED BY <1>5, <2>1
<1>17. ASSUME NEW h \in Host, CommitTorn(h)
       PROVE  IInv'
  <2>1. /\ command[h].pc = "write" /\ Fail(h) /\ UNCHANGED <<versions, lastknown, reached>>
        /\ \/ lost' = [lost EXCEPT ![command[h].table] = Host] /\ UNCHANGED <<rows, file>>
           \/ Scraps(command[h].table)
    BY <1>17 DEF CommitTorn
  <2>2. command[h].table \in Table /\ command[h].table \in CsvTable
    BY <2>1, EntryType DEF IInv, Durable
  <2>3. /\ lost' = [lost EXCEPT ![command[h].table] = Host]
        /\ \A u \in Table : u # command[h].table => rows'[u] = rows[u] /\ file'[u] = file[u]
    BY <1>11, <2>1, <2>2
  <2>4. Become(h, Idle) /\ Idle.pc \notin {"transaction", "write"}
    BY <2>1 DEF Fail, Idle
  <2>5. ~trusted'[h] /\ \A g \in Host : g # h => trusted'[g] = trusted[g]
    BY <2>1 DEF Fail, TypeInv
  <2>6. HasReached' /\ OnPath' /\ AtLastKnown'
    BY <2>1, <2>4, <2>5, Ends
  <2>7. Intact' /\ Durable'
    BY <2>1, <2>2, <2>3, <2>4, <2>6, AllLost
  <2> QED BY <2>6, <2>7 DEF IInv
<1>18. CASE UNCHANGED vars
  BY <1>18 DEF vars, tables, IInv, HasReached, Intact, Durable, OnPath, AtLastKnown, Goal,
               Due, Writers
<1> QED
  BY <1>1, <1>2, <1>3, <1>4, <1>6, <1>8, <1>9, <1>10, <1>13, <1>14, <1>15, <1>16, <1>17, <1>18
  DEF Next, Patch

-----------------------------------------------------------------------------
(* Theorems *)

LEMMA InvariantHolds == Spec => [](TypeInv /\ IInv)
<1>1. Init => TypeInv /\ IInv
  BY TypeInit, InvInit
<1>2. TypeInv /\ IInv /\ [Next]_vars => (TypeInv /\ IInv)'
  BY TypeStep, InvStep
<1> QED BY <1>1, <1>2, PTL DEF Spec

\* The rows that are not lost are those of the version reached, if only in the
\* memory of the command that writes them.
LEMMA HeldIsDue ==
    ASSUME TypeInv, IInv, NEW t \in Table, NEW h \in Host \ lost[t]
    PROVE  Held(t, h) = Due(t, h)
<1>1. CASE file[t] = "empty"
  <2>1. (CHOOSE w \in Writers(t) : TRUE) \in Writers(t)
    BY <1>1 DEF IInv, Intact
  <2> QED BY <1>1, <2>1 DEF IInv, Intact, Held
<1>2. CASE file[t] # "empty"
  BY <1>2 DEF IInv, Intact, Held
<1> QED BY <1>1, <1>2

\* However many patches are applied at once, whatever fails, and wherever a
\* command is killed: after each patch that reported success the server holds
\* the version that the host's last known file names, in every PostgreSQL table,
\* and in every CSV file that was not torn or overtaken since its last rebase.
THEOREM LastKnown == Spec => []LastKnownIsHeld
<1>1. ASSUME TypeInv, IInv
      PROVE  LastKnownIsHeld
  <2> SUFFICES ASSUME NEW h \in Host, command[h] = Idle, trusted[h], NEW t \in Known,
                      h \notin lost[t]
               PROVE  Held(t, h) = RowsOf(Version(h, lastknown[h])[t])
    BY DEF LastKnownIsHeld
  <2>1. t \in Table
    BY ServerAssumption
  <2>2. reached[t][h] = lastknown[h]
    BY <1>1 DEF IInv, AtLastKnown
  <2> QED BY <1>1, <2>1, <2>2, HeldIsDue DEF Due, Version, VersionOf
<1> QED BY <1>1, InvariantHolds, PTL

\* Which rows a step may lose, and which version it brings a table to.
LEMMA Moves ==
    ASSUME TypeInv, IInv, [Next]_vars
    PROVE  \/ UNCHANGED <<reached, lost>>
           \/ /\ UNCHANGED <<versions, reached>>
              /\ \E t \in Table \cap CsvTable, hosts \in SUBSET Host :
                    lost' = [lost EXCEPT ![t] = lost[t] \cup hosts]
           \/ /\ UNCHANGED versions
              /\ \E h \in Host, t \in Table : \E n \in reached[t][h]..Len(versions[h]) :
                    \E hosts \in SUBSET Host :
                       /\ reached' = [reached EXCEPT ![t][h] = n]
                       /\ lost' = [lost EXCEPT ![t] = hosts]
                       /\ lost[t] \subseteq hosts \cup {h}
                       /\ t \in CsvTable \/ hosts = {}
<1>1. ASSUME NEW h \in Host, command[h].pc \in {"transaction", "write"}, Proceed(h), Mark(h)
      PROVE  /\ command[h].table \in Table
             /\ \E n \in reached[command[h].table][h]..Len(versions[h]) :
                   reached' = [reached EXCEPT ![command[h].table][h] = n]
  <2>1. PICK t \in Known, n \in 0..Len(versions[h]), rest \in Seq(PatchBlock) :
              Brings(h, t, n, rest)
    BY <1>1, TransactionEffect
  <2>2. /\ t = command[h].table /\ t \in Table /\ reached[t][h] <= n
        /\ reached' = [reached EXCEPT ![t][h] = n]
    BY <2>1 DEF Brings
  <2>3. Len(versions[h]) \in Nat /\ reached[t][h] \in Nat
    BY <2>2 DEF TypeInv
  <2>4. n \in reached[t][h]..Len(versions[h])
    BY <2>2, <2>3
  <2> QED BY <2>2, <2>4
<1>2. ASSUME NEW h \in Host, CommitSql(h)
      PROVE  \E t \in Table : \E n \in reached[t][h]..Len(versions[h]) :
                /\ reached' = [reached EXCEPT ![t][h] = n]
                /\ lost' = [lost EXCEPT ![t] = {}] /\ lost[t] = {}
                /\ UNCHANGED versions
  <2> DEFINE t == command[h].table
  <2>1. /\ command[h].pc = "transaction" /\ t \notin CsvTable /\ Proceed(h)
        /\ UNCHANGED <<versions, lost>> /\ Mark(h)
    BY <1>2, CommitSqlKeeps DEF CommitSql
  <2>2. PICK n \in reached[t][h]..Len(versions[h]) : reached' = [reached EXCEPT ![t][h] = n]
    BY <1>1, <2>1
  <2>3. t \in Table /\ lost[t] = {}
    BY <1>1, <2>1 DEF IInv, Durable
  <2>4. lost' = [lost EXCEPT ![t] = {}]
    BY <2>1, <2>3 DEF TypeInv
  <2> QED BY <2>1, <2>2, <2>3, <2>4
<1>3. ASSUME NEW h \in Host, WriteFile(h) \/ ShortWrite(h)
      PROVE  \E t \in Table \cap CsvTable : \E n \in reached[t][h]..Len(versions[h]) :
                \E hosts \in SUBSET Host :
                   /\ reached' = [reached EXCEPT ![t][h] = n]
                   /\ lost' = [lost EXCEPT ![t] = hosts]
                   /\ lost[t] \subseteq hosts \cup {h}
                   /\ UNCHANGED versions
  <2> DEFINE t == command[h].table
  <2>1. command[h].pc = "write" /\ Proceed(h) /\ Mark(h) /\ UNCHANGED versions
    BY <1>3 DEF WriteFile, ShortWrite
  <2>2. PICK n \in reached[t][h]..Len(versions[h]) : reached' = [reached EXCEPT ![t][h] = n]
    BY <1>1, <2>1
  <2>3. t \in Table /\ t \in CsvTable /\ lost[t] \in SUBSET Host
    BY <1>1, <2>1 DEF IInv, Durable, TypeInv
  <2>4. PICK hosts : /\ lost' = [lost EXCEPT ![t] = hosts]
                     /\ hosts = Host \/ hosts = lost[t] \/ hosts = lost[t] \ {h}
    BY <1>3 DEF WriteFile, ShortWrite, Scraps
  <2>5. hosts \in SUBSET Host /\ lost[t] \subseteq hosts \cup {h}
    BY <2>3, <2>4
  <2> QED BY <2>1, <2>2, <2>3, <2>4, <2>5
<1>4. ASSUME NEW h \in Host, OpenFile(h)
      PROVE  /\ UNCHANGED <<versions, reached>>
             /\ \E t \in Table \cap CsvTable, hosts \in SUBSET Host :
                   lost' = [lost EXCEPT ![t] = lost[t] \cup hosts]
  <2> DEFINE t     == command[h].table
             hosts == IF Writers(t) # {} THEN Host
                      ELSE {g \in Host : command[h].content[g] # rows[t][g]}
  <2>1. command[h].pc = "transaction" /\ t \in CsvTable /\ UNCHANGED <<versions, reached>>
    BY <1>4 DEF OpenFile
  <2>2. t \in Table /\ lost[t] \in SUBSET Host
    BY <2>1, EntryType DEF TypeInv
  <2>3. lost' = [lost EXCEPT ![t] = lost[t] \cup hosts]
    BY <1>4, <2>2 DEF OpenFile
  <2>4. hosts \in SUBSET Host
    OBVIOUS
  <2> HIDE DEF hosts
  <2> QED BY <2>1, <2>2, <2>3, <2>4
<1>5. ASSUME NEW h \in Host, CommitTorn(h)
      PROVE  /\ UNCHANGED <<versions, reached>>
             /\ \E t \in Table \cap CsvTable, hosts \in SUBSET Host :
                   lost' = [lost EXCEPT ![t] = lost[t] \cup hosts]
  <2> DEFINE t == command[h].table
  <2>1. /\ command[h].pc = "write" /\ UNCHANGED <<versions, reached>>
        /\ lost' = [lost EXCEPT ![t] = Host]
    BY <1>5 DEF CommitTorn, Scraps
  <2>2. t \in Table /\ t \in CsvTable /\ lost[t] \in SUBSET Host
    BY <2>1, EntryType DEF IInv, Durable, TypeInv
  <2>3. lost' = [lost EXCEPT ![t] = lost[t] \cup Host]
    <3>1. lost[t] \cup Host = Host
      BY <2>2
    <3> QED BY <2>1, <3>1
  <2> QED BY <2>1, <2>2, <2>3
<1>6. ASSUME NEW h \in Host, \/ HostCommits(h) \/ PatchStart(h) \/ UpdateLastKnown(h)
                            \/ NextBlock(h) \/ BeginTransaction(h) \/ RejectDelta(h)
                            \/ PatchEnd(h) \/ CallbackFails(h) \/ PatchRejected(h) \/ Crash(h)
      PROVE  UNCHANGED <<reached, lost>>
  BY <1>6 DEF HostCommits, PatchStart, Begin, UpdateLastKnown, NextBlock, BeginTransaction,
              RejectDelta, PatchEnd, CallbackFails, PatchRejected, Crash, tables
<1>7. CASE UNCHANGED vars
  BY <1>7 DEF vars, tables
<1>8. ASSUME NEW h \in Host, CommitSql(h) \/ WriteFile(h) \/ ShortWrite(h)
      PROVE  /\ UNCHANGED versions
             /\ \E t \in Table : \E n \in reached[t][h]..Len(versions[h]) :
                   \E hosts \in SUBSET Host :
                       /\ reached' = [reached EXCEPT ![t][h] = n]
                       /\ lost' = [lost EXCEPT ![t] = hosts]
                       /\ lost[t] \subseteq hosts \cup {h}
                       /\ t \in CsvTable \/ hosts = {}
  <2>1. CASE CommitSql(h)
    <3>1. {} \in SUBSET Host
      OBVIOUS
    <3> QED BY <1>2, <2>1, <3>1
  <2>2. CASE WriteFile(h) \/ ShortWrite(h)
    BY <1>3, <2>2
  <2> QED BY <1>8, <2>1, <2>2
<1> QED BY <1>4, <1>5, <1>6, <1>7, <1>8 DEF Next, Patch

\* What LeechReplica sees, and what it is, in terms of the versions.
View ==
    [t \in Table |-> [h \in Host |->
        IF h \in lost[t] THEN Lost ELSE StateOf(Held(t, h))]]

Seen ==
    [t \in Table |-> [h \in Host |->
        IF h \in lost[t] THEN Lost ELSE VersionOf(versions[h], reached[t][h])[t]]]

ViewIsSeen == View = Seen

LEMMA ViewShown == TypeInv /\ IInv => ViewIsSeen
<1> SUFFICES ASSUME TypeInv, IInv, NEW t \in Table, NEW h \in Host \ lost[t]
             PROVE  StateOf(Held(t, h)) = VersionOf(versions[h], reached[t][h])[t]
  BY DEF ViewIsSeen, View, Seen
<1>1. VersionOf(versions[h], reached[t][h])[t] \in State
  BY VersionType DEF IInv, HasReached, Version, VersionOf
<1> QED BY <1>1, HeldIsDue, RowsOfState DEF Due

\* However many patches are applied at once and whatever fails or is killed, the
\* server is a set of replicas that only move forward, each to a version that
\* its host committed; the commit of a CSV file may lose the rows of some hosts,
\* which have a version again when they next get theirs.
THEOREM Refinement == Spec => ImplementsReplica
<1>1. Init => Replica!Init
  <2> SUFFICES ASSUME Init PROVE Replica!Init
    OBVIOUS
  <2>1. View = Seen
    BY ViewShown, TypeInit, InvInit DEF ViewIsSeen
  <2>2. Seen = [t \in Table |-> [h \in Host |-> EmptyObject]]
    BY DEF Seen, Init, VersionOf
  <2>3. View = [t \in Table |-> [h \in Host |-> EmptyObject]]
    BY <2>1, <2>2
  <2> QED BY <2>3 DEF Init, Replica!Init, View
<1>3. ASSUME TypeInv, IInv, ViewIsSeen, ViewIsSeen', [Next]_vars
      PROVE  [Replica!Next]_(Replica!vars)
  <2>1. View = Seen
    BY <1>3 DEF ViewIsSeen
  <2>2. View' = Seen'
    BY <1>3 DEF ViewIsSeen
  <2>3. ASSUME NEW h \in Host, HostCommits(h)
        PROVE  Replica!Publish
    <3>1. PICK new \in [Table -> State] :
              versions' = [versions EXCEPT ![h] = Append(versions[h], new)]
      BY <2>3 DEF HostCommits
    <3>2. UNCHANGED <<reached, lost>>
      BY <2>3 DEF HostCommits, tables
    <3>3. ASSUME NEW t \in Table, NEW g \in Host
          PROVE  VersionOf(versions'[g], reached[t][g]) = VersionOf(versions[g], reached[t][g])
      <4>1. versions[g] \in Seq([Table -> State]) /\ reached[t][g] \in 0..Len(versions[g])
        BY <1>3 DEF TypeInv, IInv, HasReached
      <4>2. versions'[g] = IF g = h THEN Append(versions[g], new) ELSE versions[g]
        BY <1>3, <3>1 DEF TypeInv
      <4>3. CASE g = h
        <5>1. versions'[g] = Append(versions[g], new)
          BY <4>2, <4>3
        <5> QED BY <4>1, <5>1, VersionKept
      <4>4. CASE g # h
        BY <4>2, <4>4
      <4> QED BY <4>3, <4>4
    <3>4. Seen' = Seen
      BY <3>2, <3>3 DEF Seen
    <3>5. View' = View
      BY <2>1, <2>2, <3>4
    <3> QED BY <3>1, <3>2, <3>5 DEF Replica!Publish, View
  <2>4. CASE UNCHANGED <<versions, reached, lost>>
    <3>1. Seen' = Seen
      BY <2>4 DEF Seen
    <3>2. View' = View
      BY <2>1, <2>2, <3>1
    <3> QED BY <2>4, <3>2 DEF Replica!vars, View
  <2>5. ASSUME UNCHANGED <<versions, reached>>, NEW t \in Table \cap CsvTable,
               NEW hosts \in SUBSET Host, lost' = [lost EXCEPT ![t] = lost[t] \cup hosts]
        PROVE  Replica!Lose
    <3>1. lost'[t] = lost[t] \cup hosts /\ \A u \in Table : u # t => lost'[u] = lost[u]
      BY <1>3, <2>5 DEF TypeInv
    <3>2. Seen' = [Seen EXCEPT ![t] = [g \in Host |-> IF g \in hosts THEN Lost ELSE Seen[t][g]]]
      BY <2>5, <3>1 DEF Seen
    <3>3. View' = [View EXCEPT ![t] = Replica!Without(View[t], hosts)]
      BY <2>1, <2>2, <3>2 DEF Replica!Without
    <3> QED BY <2>5, <3>3 DEF Replica!Lose, View
  <2>6. ASSUME UNCHANGED versions, NEW h \in Host, NEW t \in Table,
               NEW n \in reached[t][h]..Len(versions[h]), NEW hosts \in SUBSET Host,
               reached' = [reached EXCEPT ![t][h] = n],
               lost' = [lost EXCEPT ![t] = hosts],
               lost[t] \subseteq hosts \cup {h}, t \in CsvTable \/ hosts = {}
        PROVE  Replica!CatchUp
    <3>1. /\ lost'[t] = hosts /\ \A u \in Table : u # t => lost'[u] = lost[u]
          /\ \A u \in Table, g \in Host :
                reached'[u][g] = IF u = t /\ g = h THEN n ELSE reached[u][g]
      BY <1>3, <2>6 DEF TypeInv
    <3>2. Replica!Version(h, n) = VersionOf(versions[h], n)
      BY DEF Replica!Version, VersionOf
    <3> DEFINE value == VersionOf(versions[h], n)[t]
               moved == [Seen[t] EXCEPT ![h] = value]
    <3>3. ASSUME NEW u \in Table, u # t
          PROVE  Seen'[u] = Seen[u]
      BY <2>6, <3>1, <3>3 DEF Seen
    <3>4. Seen'[t] = [g \in Host |-> IF g \in hosts THEN Lost ELSE moved[g]]
      BY <2>6, <3>1 DEF Seen
    <3>5. Seen' = [Seen EXCEPT ![t] = [g \in Host |-> IF g \in hosts THEN Lost ELSE moved[g]]]
      <4>1. /\ Seen' = [u \in Table |-> Seen'[u]] /\ Seen = [u \in Table |-> Seen[u]]
        BY DEF Seen
      <4> HIDE DEF moved
      <4> QED BY <3>3, <3>4, <4>1
    <3>6. View' = [View EXCEPT ![t] =
                      Replica!Without([View[t] EXCEPT ![h] = Replica!Version(h, n)[t]], hosts)]
      BY <2>1, <2>2, <3>2, <3>5 DEF Replica!Without
    <3>7. hosts \in {{}} \cup (IF t \in CsvTable THEN SUBSET Host ELSE {})
      BY <2>6
    <3>8. \E some \in {{}} \cup (IF t \in CsvTable THEN SUBSET Host ELSE {}) :
             View' = [View EXCEPT ![t] =
                        Replica!Without([View[t] EXCEPT ![h] = Replica!Version(h, n)[t]], some)]
      <4> HIDE DEF moved
      <4> QED BY <3>6, <3>7
    <3> HIDE DEF moved
    <3> QED BY <2>6, <3>8, Zenon DEF Replica!CatchUp, View
  <2>7. CASE UNCHANGED vars
    BY <2>4, <2>7 DEF vars, tables
  <2>8. CASE \E h \in Host : HostCommits(h)
    BY <2>3, <2>8 DEF Replica!Next
  <2>9. CASE Next /\ ~\E h \in Host : HostCommits(h)
    <3>1. UNCHANGED versions
      BY <2>9 DEF Next, Patch, PatchStart, Begin, UpdateLastKnown, NextBlock, BeginTransaction,
                  CommitSql, RejectDelta, OpenFile, WriteFile, PatchEnd, CallbackFails,
                  ShortWrite, PatchRejected, Crash, CommitTorn
    <3> QED BY <1>3, <2>4, <2>5, <2>6, <3>1, Moves DEF Replica!Next
  <2> QED BY <1>3, <2>7, <2>8, <2>9
<1>4. TypeInv /\ IInv /\ ViewIsSeen /\ ViewIsSeen' /\ [Next]_vars
         => [Replica!Next]_(Replica!vars)
  BY <1>3
<1>5. TypeInv /\ IInv => ViewIsSeen
  BY ViewShown
<1> QED BY <1>1, <1>4, <1>5, InvariantHolds, PTL DEF Spec, ImplementsReplica, Replica!Spec
=============================================================================
