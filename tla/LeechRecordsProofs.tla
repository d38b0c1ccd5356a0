-------------------------- MODULE LeechRecordsProofs --------------------------
(***************************************************************************)
(* Proofs about LeechRecords, for any values of fields, tables of any      *)
(* shape and length, and any number of commits and of patches that fail:   *)
(* the types; that the destination has the records of the source after a   *)
(* patch that succeeded; that no patch misses a record it deletes or       *)
(* updates; that the records of other hosts stay, but for what a write     *)
(* that was cut short, or started over, makes of the file.                 *)
(*                                                                         *)
(* In between stand the objects.  A table is loaded to an object, record   *)
(* by record (MadeOf); rows stand for an object when each of its keys has  *)
(* exactly one row of the host and no other row is there (Represents); and *)
(* what is left of a delta leads from one object to another (Leads).  A    *)
(* patch on its way has a content that stands for some object, from which  *)
(* the rest of the patch leads to the snapshot (PatchInv).                 *)
(***************************************************************************)
EXTENDS LeechRecords, LeechInduction, FiniteSetTheorems, TLAPS

\* Rows are sequences of these.
Cell == Field \cup {Host, Other}

Texts(n) == {Composed(f) : f \in [1..n -> Field]}

-----------------------------------------------------------------------------
(* Records and their texts *)

LEMMA TextIs ==
    /\ \A n \in 0..MaxColumns : \A f \in [1..n -> Field] : f # <<Empty>> => f \in Text
    /\ \A k \in Text : k \in Seq(Field) /\ k # <<Empty>>
<1>1. Text = (UNION {[1..m -> Field] : m \in 0..MaxColumns}) \ {<<Empty>>}
  BY DEF Text, BoundedSeq, SeqOf
<1>2. ASSUME NEW n \in 0..MaxColumns, NEW f \in [1..n -> Field], f # <<Empty>>
      PROVE  f \in Text
  BY <1>1, <1>2
<1>3. ASSUME NEW k \in Text
      PROVE  k \in Seq(Field) /\ k # <<Empty>>
  <2>1. PICK m \in 0..MaxColumns : k \in [1..m -> Field]
    BY <1>1
  <2>2. MaxColumns \in Nat
    BY RecordsAssumption
  <2>3. m \in Nat
    BY <2>2
  <2>4. k \in Seq(Field)
    BY <2>1, <2>3
  <2> QED BY <1>1, <2>4
<1> QED BY <1>2, <1>3

LEMMA OneField ==
    /\ <<Empty>> \in Seq(Field) /\ Len(<<Empty>>) = 1 /\ <<Empty>>[1] = Empty
    /\ <<Empty>> \in [1..1 -> Field] /\ <<Empty>> # <<>>
BY RecordsAssumption

\* A record of some fields is parsed to the fields it was composed of.
LEMMA ComposedText ==
    ASSUME NEW n \in 0..MaxColumns, NEW f \in [1..n -> Field]
    PROVE  /\ Composed(f) \in Text
           /\ f \in Seq(Field) /\ Len(f) = n
           /\ n # 0 => Parsed(Composed(f)) = f
           /\ n = 0 => Composed(f) = <<>> /\ Parsed(Composed(f)) = <<Empty>>
<1>1. n \in Nat
  BY RecordsAssumption
<1>2. f \in Seq(Field) /\ Len(f) = n
  BY <1>1
<1>3. <<>> \in Text
  <2>1. 0 \in 0..MaxColumns /\ <<>> \in [1..0 -> Field] /\ <<>> # <<Empty>>
    BY RecordsAssumption
  <2> QED BY <2>1, TextIs
<1>4. CASE f = <<Empty>>
  <2>1. n = 1
    BY <1>2, <1>4, OneField
  <2> QED BY <1>2, <1>3, <1>4, <2>1 DEF Composed, Parsed
<1>5. CASE f # <<Empty>>
  <2>1. Composed(f) = f
    BY <1>5 DEF Composed
  <2>2. f \in Text
    BY <1>5, TextIs
  <2>3. n = 0 => f = <<>>
    BY <1>2
  <2>4. n # 0 => f # <<>>
    BY <1>2
  <2> QED BY <1>2, <2>1, <2>2, <2>3, <2>4 DEF Parsed
<1> QED BY <1>4, <1>5

LEMMA TextsParsed ==
    ASSUME NEW n \in 0..MaxColumns, NEW t \in Texts(n)
    PROVE  /\ t \in Text
           /\ Parsed(t) \in Seq(Field)
           /\ n # 0 => Len(Parsed(t)) = n
           /\ n = 0 => t = <<>> /\ Parsed(t) = <<Empty>>
<1>1. PICK f \in [1..n -> Field] : t = Composed(f)
  BY DEF Texts
<1> QED BY <1>1, ComposedText, OneField

LEMMA ParsedInjective ==
    ASSUME NEW k \in Text, NEW l \in Text, Parsed(k) = Parsed(l)
    PROVE  k = l
BY TextIs DEF Parsed

LEMMA ComposedInjective ==
    ASSUME NEW n \in 1..MaxColumns, NEW f \in [1..n -> Field], NEW g \in [1..n -> Field],
           Composed(f) = Composed(g)
    PROVE  f = g
<1>1. n \in 0..MaxColumns /\ n # 0
  BY RecordsAssumption
<1> QED BY <1>1, ComposedText

-----------------------------------------------------------------------------
(* Rows of the host *)

\* The row of a key and a value, where it did not lose its key.
RowFor(k, v, s) == <<Host>> \o (IF s = 0 THEN Parsed(k) ELSE Parsed(k) \o Parsed(v))

\* A row starts with a key.
Starts(r, k, p) == r[1] = Host /\ \A j \in 1..p : r[1 + j] = Parsed(k)[j]

LEMMA HostFirst ==
    ASSUME NEW f \in Seq(Field)
    PROVE  /\ <<Host>> \o f \in Seq(Cell)
           /\ Len(<<Host>> \o f) = 1 + Len(f)
           /\ (<<Host>> \o f)[1] = Host
           /\ \A j \in 1..Len(f) : (<<Host>> \o f)[1 + j] = f[j]
<1>1. <<Host>> \in Seq(Cell) /\ f \in Seq(Cell) /\ Len(<<Host>>) = 1 /\ <<Host>>[1] = Host
      /\ Len(f) \in Nat
  BY DEF Cell
<1>2. /\ <<Host>> \o f \in Seq(Cell)
      /\ Len(<<Host>> \o f) = Len(<<Host>>) + Len(f)
      /\ \A i \in 1..(Len(<<Host>>) + Len(f)) :
            (<<Host>> \o f)[i] = IF i <= Len(<<Host>>) THEN <<Host>>[i] ELSE f[i - Len(<<Host>>)]
  BY <1>1, ConcatProperties
<1>3. 1 \in 1..(Len(<<Host>>) + Len(f)) /\ 1 <= Len(<<Host>>)
  BY <1>1
<1>4. (<<Host>> \o f)[1] = Host
  BY <1>1, <1>2, <1>3
<1>5. ASSUME NEW j \in 1..Len(f) PROVE (<<Host>> \o f)[1 + j] = f[j]
  <2>1. 1 + j \in 1..(Len(<<Host>>) + Len(f)) /\ ~(1 + j <= Len(<<Host>>))
        /\ (1 + j) - Len(<<Host>>) = j
    BY <1>1
  <2>2. (<<Host>> \o f)[1 + j] = f[(1 + j) - Len(<<Host>>)]
    BY <1>2, <2>1
  <2> QED BY <2>1, <2>2
<1> QED BY <1>1, <1>2, <1>4, <1>5

LEMMA KeyFieldsIs ==
    ASSUME NEW p \in 1..MaxColumns, NEW k \in Texts(p)
    PROVE  /\ KeyFields(k) \in Seq(Cell)
           /\ Len(KeyFields(k)) = 1 + p
           /\ KeyFields(k)[1] = Host
           /\ \A j \in 1..p : KeyFields(k)[1 + j] = Parsed(k)[j]
<1>1. p \in 0..MaxColumns /\ p # 0
  BY RecordsAssumption
<1>2. Parsed(k) \in Seq(Field) /\ Len(Parsed(k)) = p
  BY <1>1, TextsParsed
<1> QED BY <1>2, HostFirst DEF KeyFields

LEMMA RowForIs ==
    ASSUME NEW p \in 1..MaxColumns, NEW s \in 0..MaxColumns, NEW k \in Texts(p), NEW v \in Texts(s)
    PROVE  /\ RowFor(k, v, s) \in Seq(Cell)
           /\ Len(RowFor(k, v, s)) = 1 + p + s
           /\ RowFor(k, v, s)[1] = Host
           /\ \A j \in 1..p : RowFor(k, v, s)[1 + j] = Parsed(k)[j]
           /\ \A j \in 1..s : RowFor(k, v, s)[1 + p + j] = Parsed(v)[j]
<1>1. p \in 0..MaxColumns /\ p # 0 /\ p \in Nat /\ s \in Nat
  BY RecordsAssumption
<1>2. Parsed(k) \in Seq(Field) /\ Len(Parsed(k)) = p
  BY <1>1, TextsParsed
<1>3. CASE s = 0
  <2>1. RowFor(k, v, s) = <<Host>> \o Parsed(k)
    BY <1>3 DEF RowFor
  <2>2. \A j \in 1..s : FALSE
    BY <1>3
  <2>3. 1 + p + s = 1 + p
    BY <1>1, <1>3
  <2> QED BY <1>2, <2>1, <2>2, <2>3, HostFirst
<1>4. CASE s # 0
  <2>1. Parsed(v) \in Seq(Field) /\ Len(Parsed(v)) = s
    BY <1>4, TextsParsed
  <2>2. RowFor(k, v, s) = <<Host>> \o (Parsed(k) \o Parsed(v))
    BY <1>4 DEF RowFor
  <2>3. /\ Parsed(k) \o Parsed(v) \in Seq(Field)
        /\ Len(Parsed(k) \o Parsed(v)) = p + s
        /\ \A i \in 1..(p + s) : (Parsed(k) \o Parsed(v))[i] =
                                    IF i <= p THEN Parsed(k)[i] ELSE Parsed(v)[i - p]
    BY <1>2, <2>1, ConcatProperties
  <2>4. /\ RowFor(k, v, s) \in Seq(Cell)
        /\ Len(RowFor(k, v, s)) = 1 + (p + s)
        /\ RowFor(k, v, s)[1] = Host
        /\ \A j \in 1..(p + s) : RowFor(k, v, s)[1 + j] = (Parsed(k) \o Parsed(v))[j]
    BY <2>2, <2>3, HostFirst
  <2>5. ASSUME NEW j \in 1..p PROVE RowFor(k, v, s)[1 + j] = Parsed(k)[j]
    <3>1. j \in 1..(p + s) /\ j <= p
      BY <1>1
    <3> QED BY <2>3, <2>4, <3>1
  <2>6. ASSUME NEW j \in 1..s PROVE RowFor(k, v, s)[1 + p + j] = Parsed(v)[j]
    <3>1. p + j \in 1..(p + s) /\ ~(p + j <= p) /\ (p + j) - p = j /\ 1 + p + j = 1 + (p + j)
      BY <1>1
    <3>2. RowFor(k, v, s)[1 + (p + j)] = (Parsed(k) \o Parsed(v))[p + j]
      BY <2>4, <3>1
    <3>3. (Parsed(k) \o Parsed(v))[p + j] = Parsed(v)[(p + j) - p]
      BY <2>3, <3>1
    <3> QED BY <3>1, <3>2, <3>3
  <2>7. 1 + (p + s) = 1 + p + s
    BY <1>1
  <2> QED BY <2>4, <2>5, <2>6, <2>7
<1> QED BY <1>3, <1>4

\* A row has one key.
LEMMA StartsOnce ==
    ASSUME NEW p \in 1..MaxColumns, NEW k \in Texts(p), NEW l \in Texts(p), NEW r,
           Starts(r, k, p), Starts(r, l, p)
    PROVE  k = l
<1>1. p \in 0..MaxColumns /\ p # 0
  BY RecordsAssumption
<1>2. /\ Parsed(k) \in Seq(Field) /\ Len(Parsed(k)) = p /\ k \in Text
      /\ Parsed(l) \in Seq(Field) /\ Len(Parsed(l)) = p /\ l \in Text
  BY <1>1, TextsParsed
<1>3. \A j \in 1..p : Parsed(k)[j] = Parsed(l)[j]
  BY DEF Starts
<1>4. Parsed(k) = Parsed(l)
  BY <1>2, <1>3, SeqEqual
<1> QED BY <1>2, <1>4, ParsedInjective

LEMMA RowForStarts ==
    ASSUME NEW p \in 1..MaxColumns, NEW s \in 0..MaxColumns, NEW k \in Texts(p), NEW v \in Texts(s)
    PROVE  Starts(RowFor(k, v, s), k, p)
BY RowForIs DEF Starts

\* What the callback compares of a row.
LEMMA PrefixIs ==
    ASSUME NEW p \in 1..MaxColumns, NEW k \in Texts(p), NEW r \in Seq(Cell), Len(r) >= 1 + p
    PROVE  SubSeq(r, 1, Len(KeyFields(k))) = KeyFields(k) <=> Starts(r, k, p)
<1>1. p \in Nat
  BY RecordsAssumption
<1>2. Len(r) \in Nat /\ r \in [1..Len(r) -> Cell]
  OBVIOUS
<1>3. \A i \in 1..(1 + p) : r[i] \in Cell
  BY <1>1, <1>2
<1>4. /\ SubSeq(r, 1, 1 + p) \in Seq(Cell)
      /\ Len(SubSeq(r, 1, 1 + p)) = 1 + p
      /\ \A i \in 1..(1 + p) : SubSeq(r, 1, 1 + p)[i] = r[i]
  <2>1. 1 \in Int /\ 1 + p \in Int /\ 1 <= 1 + p /\ (1 + p) - 1 + 1 = 1 + p
    BY <1>1
  <2>2. /\ SubSeq(r, 1, 1 + p) \in Seq(Cell)
        /\ Len(SubSeq(r, 1, 1 + p)) = IF 1 <= 1 + p THEN (1 + p) - 1 + 1 ELSE 0
        /\ \A i \in 1..((1 + p) - 1 + 1) : SubSeq(r, 1, 1 + p)[i] = r[1 + i - 1]
    BY <1>3, <2>1, SubSeqProperties
  <2>3. \A i \in 1..(1 + p) : 1 + i - 1 = i
    BY <1>1
  <2> QED BY <2>1, <2>2, <2>3
<1>5. /\ KeyFields(k) \in Seq(Cell) /\ Len(KeyFields(k)) = 1 + p
      /\ KeyFields(k)[1] = Host
      /\ \A j \in 1..p : KeyFields(k)[1 + j] = Parsed(k)[j]
  BY KeyFieldsIs
<1>6. ASSUME SubSeq(r, 1, 1 + p) = KeyFields(k) PROVE Starts(r, k, p)
  <2>1. 1 \in 1..(1 + p) /\ \A j \in 1..p : 1 + j \in 1..(1 + p)
    BY <1>1
  <2> QED BY <1>4, <1>5, <1>6, <2>1 DEF Starts
<1>7. ASSUME Starts(r, k, p) PROVE SubSeq(r, 1, 1 + p) = KeyFields(k)
  <2>1. ASSUME NEW i \in 1..(1 + p) PROVE SubSeq(r, 1, 1 + p)[i] = KeyFields(k)[i]
    <3>1. CASE i = 1
      BY <1>4, <1>5, <1>7, <3>1 DEF Starts
    <3>2. CASE i # 1
      <4>1. i - 1 \in 1..p /\ 1 + (i - 1) = i
        BY <1>1, <3>2
      <4>2. r[1 + (i - 1)] = Parsed(k)[i - 1]
        BY <1>7, <4>1 DEF Starts
      <4>3. KeyFields(k)[1 + (i - 1)] = Parsed(k)[i - 1]
        BY <1>5, <4>1
      <4> QED BY <1>4, <4>1, <4>2, <4>3
    <3> QED BY <3>1, <3>2
  <2> QED BY <1>4, <1>5, <2>1, SeqEqual
<1> QED BY <1>5, <1>6, <1>7

\* The record that a delete or an update finds.
LEMMA FirstMatchIs ==
    ASSUME NEW p \in 1..MaxColumns, NEW k \in Texts(p), NEW content \in Seq(Seq(Cell)),
           \A i \in 1..Len(content) : Len(content[i]) >= 1 + p
    PROVE  LET i == FirstMatch(content, KeyFields(k))
           IN  \/ i = 0 /\ \A j \in 1..Len(content) : ~Starts(content[j], k, p)
               \/ i \in 1..Len(content) /\ Starts(content[i], k, p)
<1> DEFINE I == {i \in 1..Len(content) : SubSeq(content[i], 1, Len(KeyFields(k))) = KeyFields(k)}
<1>1. FirstMatch(content, KeyFields(k)) = IF I # {} THEN Min(I) ELSE 0
  BY DEF FirstMatch, SelectInSeq
<1>2. \A i \in 1..Len(content) : content[i] \in Seq(Cell)
  OBVIOUS
<1>3. \A i \in 1..Len(content) : i \in I <=> Starts(content[i], k, p)
  BY <1>2, PrefixIs
<1>4. I \in SUBSET Nat /\ I \subseteq 1..Len(content)
  OBVIOUS
<1> HIDE DEF I
<1>5. CASE I # {}
  <2>1. \E n \in I : \A m \in I : n <= m
    BY <1>4, <1>5, LeastNumber
  <2>2. Min(I) \in I
    BY <2>1 DEF Min
  <2> QED BY <1>1, <1>3, <1>4, <1>5, <2>2
<1>6. CASE I = {}
  BY <1>1, <1>3, <1>6
<1> QED BY <1>5, <1>6

-----------------------------------------------------------------------------
(* The rows of some hosts *)

Rows == Seq(Seq(Cell))

Part(r, hosts) == IF r[1] \in hosts THEN <<r>> ELSE <<>>

Parts(content, hosts) == [i \in DOMAIN content |-> Part(content[i], hosts)]

LEMMA PartType ==
    ASSUME NEW r \in Seq(Cell), NEW hosts
    PROVE  Part(r, hosts) \in Rows
BY DEF Part, Rows

LEMMA PartsType ==
    ASSUME NEW content \in Rows, NEW hosts
    PROVE  /\ Parts(content, hosts) \in Seq(Rows)
           /\ Len(Parts(content, hosts)) = Len(content)
           /\ \A i \in 1..Len(content) : Parts(content, hosts)[i] = Part(content[i], hosts)
           /\ OfHosts(content, hosts) = FlattenSeq(Parts(content, hosts))
<1>1. /\ DOMAIN content = 1..Len(content) /\ Len(content) \in Nat
      /\ \A i \in 1..Len(content) : content[i] \in Seq(Cell)
  BY DEF Rows
<1>2. \A i \in 1..Len(content) : Part(content[i], hosts) \in Rows
  BY <1>1, PartType
<1>3. Parts(content, hosts) = [i \in 1..Len(content) |-> Part(content[i], hosts)]
  BY <1>1 DEF Parts
<1>4. Parts(content, hosts) \in [1..Len(content) -> Rows]
  BY <1>2, <1>3
<1>5. /\ Parts(content, hosts) \in Seq(Rows)
      /\ Len(Parts(content, hosts)) = Len(content)
  BY <1>1, <1>4
<1>6. OfHosts(content, hosts) = FlattenSeq(Parts(content, hosts))
  BY DEF OfHosts, Parts, Part
<1> QED BY <1>3, <1>5, <1>6

\* The parts one after the other.
LEMMA OfHostsIs ==
    ASSUME NEW content \in Rows, NEW hosts
    PROVE  \E f \in [0..Len(content) -> Rows] :
              /\ OfHosts(content, hosts) = f[Len(content)]
              /\ f[0] = <<>>
              /\ \A i \in 1..Len(content) : /\ i - 1 \in 0..Len(content) /\ i \in 0..Len(content)
                                            /\ f[i - 1] \in Rows /\ f[i] \in Rows
                                            /\ f[i] = f[i - 1] \o Part(content[i], hosts)
<1> DEFINE parts == Parts(content, hosts)
<1>1. /\ parts \in Seq(Seq(Seq(Cell))) /\ Len(parts) = Len(content)
      /\ \A i \in 1..Len(content) : parts[i] = Part(content[i], hosts)
      /\ OfHosts(content, hosts) = FlattenSeq(parts)
  BY PartsType DEF Rows
<1>2. Len(content) \in Nat
  BY DEF Rows
<1> HIDE DEF parts
<1>3. PICK f \in [0..Len(parts) -> Seq(Seq(Cell))] :
        IsFlattening(f, parts) /\ FlattenSeq(parts) = f[Len(parts)]
  BY <1>1, FlattenIs
<1>4. /\ f[0] = <<>>
      /\ \A i \in 1..Len(parts) : /\ i - 1 \in 0..Len(parts) /\ parts[i] \in Seq(Seq(Cell))
                                  /\ f[i - 1] \in Seq(Seq(Cell)) /\ f[i] \in Seq(Seq(Cell))
                                  /\ f[i] = f[i - 1] \o parts[i]
  BY <1>1, <1>3, FlatteningAt
<1>5. f \in [0..Len(content) -> Rows]
  BY <1>1, <1>3 DEF Rows
<1>6. ASSUME NEW i \in 1..Len(content)
      PROVE  /\ i - 1 \in 0..Len(content) /\ i \in 0..Len(content)
             /\ f[i - 1] \in Rows /\ f[i] \in Rows
             /\ f[i] = f[i - 1] \o Part(content[i], hosts)
  <2>1. i - 1 \in 0..Len(content) /\ i \in 0..Len(content) /\ i \in 1..Len(parts)
    BY <1>1, <1>2
  <2>2. f[i] = f[i - 1] \o parts[i]
    BY <1>4, <2>1
  <2> QED BY <1>1, <1>5, <2>1, <2>2
<1> QED BY <1>1, <1>3, <1>4, <1>5, <1>6

LEMMA OfHostsType ==
    ASSUME NEW content \in Rows, NEW hosts
    PROVE  OfHosts(content, hosts) \in Rows
<1>1. PICK f \in [0..Len(content) -> Rows] : OfHosts(content, hosts) = f[Len(content)]
  BY OfHostsIs
<1>2. Len(content) \in 0..Len(content)
  BY DEF Rows
<1> QED BY <1>1, <1>2

LEMMA OfHostsEmpty ==
    ASSUME NEW hosts
    PROVE  OfHosts(<<>>, hosts) = <<>>
<1> DEFINE none == <<>>
<1>1. none \in Rows /\ Len(none) = 0
  BY DEF Rows
<1> HIDE DEF none
<1>2. PICK f \in [0..Len(none) -> Rows] : OfHosts(none, hosts) = f[Len(none)] /\ f[0] = <<>>
  BY <1>1, OfHostsIs
<1> QED BY <1>1, <1>2 DEF none

\* A row more.
LEMMA OfHostsAppend ==
    ASSUME NEW content \in Rows, NEW r \in Seq(Cell), NEW hosts
    PROVE  /\ r[1] \in hosts => OfHosts(Append(content, r), hosts)
                                    = Append(OfHosts(content, hosts), r)
           /\ r[1] \notin hosts => OfHosts(Append(content, r), hosts) = OfHosts(content, hosts)
<1> DEFINE n    == Len(content)
           more == Append(content, r)
<1>1. /\ n \in Nat /\ more \in Rows /\ Len(more) = n + 1
      /\ more[n + 1] = r /\ \A i \in 1..n : more[i] = content[i] /\ i \in 1..Len(more)
  BY DEF Rows
<1>2. /\ Parts(content, hosts) \in Seq(Rows) /\ Len(Parts(content, hosts)) = n
      /\ \A i \in 1..n : Parts(content, hosts)[i] = Part(content[i], hosts)
      /\ OfHosts(content, hosts) = FlattenSeq(Parts(content, hosts))
  BY PartsType
<1>3. Part(r, hosts) \in Rows
  BY PartType
<1> HIDE DEF more
<1>4. /\ Parts(more, hosts) \in Seq(Rows) /\ Len(Parts(more, hosts)) = Len(more)
      /\ \A i \in 1..Len(more) : Parts(more, hosts)[i] = Part(more[i], hosts)
      /\ OfHosts(more, hosts) = FlattenSeq(Parts(more, hosts))
  BY <1>1, PartsType
<1>5. /\ Append(Parts(content, hosts), Part(r, hosts)) \in Seq(Rows)
      /\ Len(Append(Parts(content, hosts), Part(r, hosts))) = n + 1
      /\ \A i \in 1..n : Append(Parts(content, hosts), Part(r, hosts))[i] = Parts(content, hosts)[i]
      /\ Append(Parts(content, hosts), Part(r, hosts))[n + 1] = Part(r, hosts)
  BY <1>2, <1>3, AppendProperties
<1>6. ASSUME NEW i \in 1..(n + 1)
      PROVE  Parts(more, hosts)[i] = Append(Parts(content, hosts), Part(r, hosts))[i]
  <2>1. i \in 1..Len(more)
    BY <1>1
  <2>2. Parts(more, hosts)[i] = Part(more[i], hosts)
    BY <1>4, <2>1
  <2> HIDE DEF n
  <2>3. i \in 1..n \/ i = n + 1
    BY <1>1
  <2> QED BY <1>1, <1>2, <1>5, <2>2, <2>3
<1>7. Parts(more, hosts) = Append(Parts(content, hosts), Part(r, hosts))
  BY <1>1, <1>4, <1>5, <1>6, SeqEqual
<1>8. OfHosts(more, hosts) = OfHosts(content, hosts) \o Part(r, hosts)
  <2>1. Parts(content, hosts) \in Seq(Seq(Seq(Cell))) /\ Part(r, hosts) \in Seq(Seq(Cell))
    BY <1>2, <1>3 DEF Rows
  <2>2. FlattenSeq(Append(Parts(content, hosts), Part(r, hosts)))
           = FlattenSeq(Parts(content, hosts)) \o Part(r, hosts)
    BY <2>1, FlattenAppend
  <2> QED BY <1>2, <1>4, <1>7, <2>2
<1>9. OfHosts(content, hosts) \in Seq(Seq(Cell))
  BY OfHostsType DEF Rows
<1>10. CASE r[1] \in hosts
  <2>1. Part(r, hosts) = <<r>>
    BY <1>10 DEF Part
  <2>2. Append(OfHosts(content, hosts), r) = OfHosts(content, hosts) \o <<r>>
    BY <1>9, AppendIsConcat
  <2> QED BY <1>8, <1>10, <2>1, <2>2 DEF more
<1>11. CASE r[1] \notin hosts
  <2>1. Part(r, hosts) = <<>>
    BY <1>11 DEF Part
  <2>2. OfHosts(content, hosts) \o <<>> = OfHosts(content, hosts)
    BY <1>9, ConcatEmptySeq
  <2> QED BY <1>8, <1>11, <2>1, <2>2 DEF more
<1> QED BY <1>10, <1>11

LEMMA ConcatAppend ==
    ASSUME NEW u \in Rows, NEW v \in Rows, NEW r \in Seq(Cell)
    PROVE  u \o Append(v, r) = Append(u \o v, r)
<1> USE DEF Rows
<1>1. u \o v \in Rows /\ <<r>> \in Rows
  OBVIOUS
<1>2. Append(v, r) = v \o <<r>> /\ Append(u \o v, r) = (u \o v) \o <<r>>
  <2>1. Append(v, r) = v \o <<r>>
    BY AppendIsConcat
  <2> DEFINE both == u \o v
  <2>2. both \in Seq(Seq(Cell))
    BY <1>1
  <2> HIDE DEF both
  <2>3. Append(both, r) = both \o <<r>>
    BY <2>2, AppendIsConcat
  <2> QED BY <2>1, <2>3 DEF both
<1>3. (u \o v) \o <<r>> = u \o (v \o <<r>>)
  BY <1>1, ConcatAssociative, SMTT(60)
<1> QED BY <1>2, <1>3

\* Some rows, and then others.
LEMMA OfHostsConcat ==
    ASSUME NEW first \in Rows, NEW second \in Rows, NEW hosts
    PROVE  /\ first \o second \in Rows
           /\ OfHosts(first \o second, hosts)
                = OfHosts(first, hosts) \o OfHosts(second, hosts)
<1> DEFINE n == Len(second)
           part(i) == SubSeq(second, 1, i)
           S == {i \in 0..n : /\ first \o part(i) \in Rows
                             /\ OfHosts(first \o part(i), hosts)
                                  = OfHosts(first, hosts) \o OfHosts(part(i), hosts)}
<1>1. n \in Nat /\ second \in Seq(Seq(Cell)) /\ first \in Seq(Seq(Cell))
  BY DEF Rows
<1>2. 0 \in S
  <2>1. part(0) = <<>> /\ 0 \in 0..n
    BY <1>1
  <2>2. first \o <<>> = first /\ OfHosts(first, hosts) \o <<>> = OfHosts(first, hosts)
    BY <1>1, OfHostsType, ConcatEmptySeq DEF Rows
  <2>3. OfHosts(<<>>, hosts) = <<>>
    BY OfHostsEmpty
  <2> QED BY <2>1, <2>2, <2>3
<1>3. ASSUME NEW i \in 0..(n - 1), i \in S PROVE i + 1 \in S
  <2>1. i + 1 \in 1..n /\ i + 1 \in 0..n /\ i \in 0..n /\ second[i + 1] \in Seq(Cell)
    BY <1>1
  <2>2. PICK a, r : a = part(i) /\ r = second[i + 1]
    OBVIOUS
  <2>3. a \in Seq(Seq(Cell)) /\ a \in Rows /\ r \in Seq(Cell)
    BY <1>1, <2>1, <2>2 DEF Rows
  <2>4. part(i + 1) = Append(a, r)
    BY <1>1, <2>1, <2>2
  <2>5. first \o Append(a, r) = Append(first \o a, r)
    BY <2>3, ConcatAppend, Zenon
  <2>6. /\ first \o a \in Rows
        /\ OfHosts(first \o a, hosts) = OfHosts(first, hosts) \o OfHosts(a, hosts)
    BY <1>3, <2>2
  <2>7. OfHosts(first, hosts) \in Rows /\ OfHosts(a, hosts) \in Rows
    BY <2>3, OfHostsType
  <2>8. Append(first \o a, r) \in Rows
    BY <2>3, <2>6 DEF Rows
  <2>9. OfHosts(Append(first \o a, r), hosts)
           = OfHosts(first, hosts) \o OfHosts(Append(a, r), hosts)
    <3>1. CASE r[1] \in hosts
      <4>1. OfHosts(Append(first \o a, r), hosts) = Append(OfHosts(first \o a, hosts), r)
        BY <2>3, <2>6, <3>1, OfHostsAppend
      <4>2. OfHosts(Append(a, r), hosts) = Append(OfHosts(a, hosts), r)
        BY <2>3, <3>1, OfHostsAppend
      <4>3. OfHosts(first, hosts) \o Append(OfHosts(a, hosts), r)
               = Append(OfHosts(first, hosts) \o OfHosts(a, hosts), r)
        BY <2>3, <2>7, ConcatAppend, Zenon
      <4> QED BY <2>6, <4>1, <4>2, <4>3
    <3>2. CASE r[1] \notin hosts
      <4>1. OfHosts(Append(first \o a, r), hosts) = OfHosts(first \o a, hosts)
        BY <2>3, <2>6, <3>2, OfHostsAppend
      <4>2. OfHosts(Append(a, r), hosts) = OfHosts(a, hosts)
        BY <2>3, <3>2, OfHostsAppend
      <4> QED BY <2>6, <4>1, <4>2
    <3> QED BY <3>1, <3>2
  <2> HIDE DEF part
  <2> QED BY <2>1, <2>4, <2>5, <2>8, <2>9
<1> HIDE DEF S
<1>4. n \in S
  <2>1. \A i \in 0..n : i \in S
    BY <1>1, <1>2, <1>3, BoundedInduction
  <2> QED BY <1>1, <2>1
<1>5. part(n) = second
  BY <1>1
<1> QED BY <1>4, <1>5 DEF S

\* The first rows of a file have the first rows of the hosts.
LEMMA OfHostsPrefix ==
    ASSUME NEW content \in Rows, NEW start \in Prefixes(content), NEW hosts
    PROVE  start \in Rows /\ OfHosts(start, hosts) \in Prefixes(OfHosts(content, hosts))
<1>1. PICK n \in 0..Len(content) : start = SubSeq(content, 1, n)
  BY DEF Prefixes
<1>2. PICK rest : rest = SubSeq(content, n + 1, Len(content))
  OBVIOUS
<1>3. start \in Rows /\ rest \in Rows /\ start \o rest = content
  <2>1. content \in Seq(Seq(Cell)) /\ Len(content) \in Nat
    BY DEF Rows
  <2>2. start \in Seq(Seq(Cell)) /\ Len(start) = n /\ \A i \in 1..n : start[i] = content[i]
    BY <1>1, <2>1
  <2>3. /\ rest \in Seq(Seq(Cell)) /\ Len(rest) = Len(content) - n
        /\ \A i \in 1..(Len(content) - n) : rest[i] = content[n + i]
    BY <1>1, <1>2, <2>1
  <2>4. start \o rest = content
    <3>1. start \o rest \in Seq(Seq(Cell)) /\ Len(start \o rest) = Len(content)
      BY <1>1, <2>1, <2>2, <2>3, ConcatProperties
    <3>2. ASSUME NEW i \in 1..Len(content) PROVE (start \o rest)[i] = content[i]
      <4>1. i <= n => (start \o rest)[i] = start[i]
        BY <1>1, <2>1, <2>2, <2>3, ConcatProperties
      <4>2. i > n => (start \o rest)[i] = rest[i - n]
        BY <1>1, <2>1, <2>2, <2>3, ConcatProperties
      <4>3. i > n => i - n \in 1..(Len(content) - n) /\ n + (i - n) = i
        BY <1>1, <2>1
      <4> QED BY <1>1, <2>1, <2>2, <2>3, <4>1, <4>2, <4>3
    <3> QED BY <2>1, <3>1, <3>2, SeqEqual
  <2> QED BY <2>2, <2>3, <2>4 DEF Rows
<1>4. PICK u, v : u = OfHosts(start, hosts) /\ v = OfHosts(rest, hosts)
  OBVIOUS
<1>5. OfHosts(content, hosts) = u \o v /\ u \in Seq(Seq(Cell)) /\ v \in Seq(Seq(Cell))
  <2>1. OfHosts(start \o rest, hosts) = OfHosts(start, hosts) \o OfHosts(rest, hosts)
    <3>1. start \in Rows /\ rest \in Rows
      BY <1>3
    <3> QED BY <3>1, OfHostsConcat
  <2>2. OfHosts(start, hosts) \in Rows /\ OfHosts(rest, hosts) \in Rows
    BY <1>3, OfHostsType
  <2> QED BY <1>3, <1>4, <2>1, <2>2 DEF Rows
<1>6. /\ Len(u) \in 0..Len(u \o v)
      /\ u = SubSeq(u \o v, 1, Len(u))
  BY <1>5
<1> QED BY <1>3, <1>4, <1>5, <1>6 DEF Prefixes

\* Another row of none of the hosts in the place of one.
LEMMA OfHostsExcept ==
    ASSUME NEW content \in Rows, NEW i \in 1..Len(content), NEW r \in Seq(Cell), NEW hosts,
           content[i][1] \notin hosts, r[1] \notin hosts
    PROVE  OfHosts([content EXCEPT ![i] = r], hosts) = OfHosts(content, hosts)
<1> DEFINE other == [content EXCEPT ![i] = r]
<1>1. /\ other \in Rows /\ Len(other) = Len(content)
      /\ other[i] = r /\ \A j \in 1..Len(content) : j # i => other[j] = content[j]
  BY DEF Rows
<1>2. DOMAIN other = DOMAIN content
  OBVIOUS
<1> HIDE DEF other
<1>3. \A j \in 1..Len(content) : Part(other[j], hosts) = Part(content[j], hosts)
  BY <1>1 DEF Part
<1>4. DOMAIN content = 1..Len(content)
  BY DEF Rows
<1>5. Parts(other, hosts) = Parts(content, hosts)
  BY <1>2, <1>3, <1>4 DEF Parts
<1>6. OfHosts(other, hosts) = OfHosts(content, hosts)
  BY <1>1, <1>5, PartsType
<1> QED BY <1>6 DEF other

\* What is left when a row is removed.
LEMMA RemoveAtIs ==
    ASSUME NEW content \in Rows, NEW i \in 1..Len(content)
    PROVE  /\ RemoveAt(content, i) \in Rows
           /\ Len(RemoveAt(content, i)) = Len(content) - 1
           /\ \A j \in 1..(Len(content) - 1) :
                 RemoveAt(content, i)[j] = IF j < i THEN content[j] ELSE content[j + 1]
<1> DEFINE n      == Len(content)
           before == SubSeq(content, 1, i - 1)
           behind == SubSeq(content, i + 1, n)
<1>1. n \in Nat /\ i \in Nat /\ 1 <= i /\ i <= n /\ \A j \in 1..n : content[j] \in Seq(Cell)
  BY DEF Rows
<1>2. RemoveAt(content, i) = before \o behind
  BY DEF RemoveAt
<1> HIDE DEF n
<1>3. /\ before \in Seq(Seq(Cell)) /\ Len(before) = i - 1
      /\ \A j \in 1..(i - 1) : before[j] = content[j]
  <2>1. 1 \in Int /\ i - 1 \in Int /\ \A j \in 1..(i - 1) : content[j] \in Seq(Cell)
    BY <1>1
  <2>2. /\ before \in Seq(Seq(Cell))
        /\ Len(before) = IF 1 <= i - 1 THEN (i - 1) - 1 + 1 ELSE 0
        /\ \A j \in 1..((i - 1) - 1 + 1) : before[j] = content[1 + j - 1]
    BY <2>1, SubSeqProperties
  <2> HIDE DEF before
  <2>3. (i - 1) - 1 + 1 = i - 1 /\ (1 <= i - 1 \/ i - 1 = 0)
    BY <1>1
  <2>4. \A j \in 1..(i - 1) : 1 + j - 1 = j
    BY <1>1
  <2> QED BY <2>2, <2>3, <2>4
<1>4. /\ behind \in Seq(Seq(Cell)) /\ Len(behind) = n - i
      /\ \A j \in 1..(n - i) : behind[j] = content[i + j]
  <2>1. i + 1 \in Int /\ n \in Int /\ \A j \in (i + 1)..n : content[j] \in Seq(Cell)
    BY <1>1
  <2>2. /\ behind \in Seq(Seq(Cell))
        /\ Len(behind) = IF i + 1 <= n THEN n - (i + 1) + 1 ELSE 0
        /\ \A j \in 1..(n - (i + 1) + 1) : behind[j] = content[(i + 1) + j - 1]
    BY <2>1, SubSeqProperties
  <2> HIDE DEF behind
  <2>3. n - (i + 1) + 1 = n - i /\ (i + 1 <= n \/ n - i = 0)
    BY <1>1
  <2>4. \A j \in 1..(n - i) : (i + 1) + j - 1 = i + j
    BY <1>1
  <2> QED BY <2>2, <2>3, <2>4
<1> HIDE DEF before, behind
<1>5. /\ before \o behind \in Seq(Seq(Cell))
      /\ Len(before \o behind) = (i - 1) + (n - i)
      /\ \A j \in 1..((i - 1) + (n - i)) : (before \o behind)[j] =
            IF j <= i - 1 THEN before[j] ELSE behind[j - (i - 1)]
  BY <1>3, <1>4, ConcatProperties
<1>6. (i - 1) + (n - i) = n - 1
  BY <1>1
<1>7. ASSUME NEW j \in 1..(n - 1)
      PROVE  (before \o behind)[j] = IF j < i THEN content[j] ELSE content[j + 1]
  <2>1. (before \o behind)[j] = IF j <= i - 1 THEN before[j] ELSE behind[j - (i - 1)]
    BY <1>5, <1>6
  <2>2. CASE j < i
    <3>1. j <= i - 1 /\ j \in 1..(i - 1)
      BY <1>1, <2>2
    <3> QED BY <1>3, <2>1, <2>2, <3>1
  <2>3. CASE ~(j < i)
    <3>1. ~(j <= i - 1) /\ j - (i - 1) \in 1..(n - i) /\ i + (j - (i - 1)) = j + 1
      BY <1>1, <2>3
    <3> QED BY <1>4, <2>1, <2>3, <3>1
  <2> QED BY <2>2, <2>3
<1> QED BY <1>2, <1>5, <1>6, <1>7 DEF Rows, n

LEMMA OfHostsRemoveAt ==
    ASSUME NEW content \in Rows, NEW i \in 1..Len(content), NEW hosts, content[i][1] \notin hosts
    PROVE  OfHosts(RemoveAt(content, i), hosts) = OfHosts(content, hosts)
<1> DEFINE n    == Len(content)
           left == RemoveAt(content, i)
<1>1. n \in Nat /\ i \in Nat /\ 1 <= i /\ i <= n
  BY DEF Rows
<1>2. /\ left \in Rows /\ Len(left) = n - 1
      /\ \A j \in 1..(n - 1) : left[j] = IF j < i THEN content[j] ELSE content[j + 1]
  BY RemoveAtIs
<1>3. PICK f \in [0..Len(content) -> Rows] :
        /\ OfHosts(content, hosts) = f[Len(content)]
        /\ f[0] = <<>>
        /\ \A j \in 1..Len(content) : /\ j - 1 \in 0..Len(content) /\ j \in 0..Len(content)
                                      /\ f[j - 1] \in Rows /\ f[j] \in Rows
                                      /\ f[j] = f[j - 1] \o Part(content[j], hosts)
  BY OfHostsIs
<1> HIDE DEF left
<1>4. PICK g \in [0..Len(left) -> Rows] :
        /\ OfHosts(left, hosts) = g[Len(left)]
        /\ g[0] = <<>>
        /\ \A j \in 1..Len(left) : /\ j - 1 \in 0..Len(left) /\ j \in 0..Len(left)
                                   /\ g[j - 1] \in Rows /\ g[j] \in Rows
                                   /\ g[j] = g[j - 1] \o Part(left[j], hosts)
  BY <1>2, OfHostsIs
<1> DEFINE S == {j \in 0..n : IF j < i THEN f[j] = g[j] ELSE f[j] = g[j - 1]}
<1>5. 0 \in S
  BY <1>1, <1>3, <1>4
<1>6. ASSUME NEW j \in 0..(n - 1), j \in S PROVE j + 1 \in S
  <2>0. j \in Nat /\ j + 1 \in 0..n /\ j + 1 \in 1..Len(content) /\ (j + 1) - 1 = j
    BY <1>1
  <2>1. f[j + 1] = f[j] \o Part(content[j + 1], hosts) /\ f[j] \in Rows
    BY <1>3, <2>0
  <2>2. CASE j + 1 < i
    <3>1. j + 1 \in 1..(n - 1) /\ j + 1 \in 1..Len(left) /\ j < i
      BY <1>1, <1>2, <2>0, <2>2
    <3>2. g[j + 1] = g[j] \o Part(left[j + 1], hosts)
      BY <1>4, <2>0, <3>1
    <3>3. left[j + 1] = content[j + 1]
      BY <1>2, <2>2, <3>1
    <3>4. f[j] = g[j]
      BY <1>6, <3>1
    <3> QED BY <2>0, <2>1, <2>2, <3>2, <3>3, <3>4
  <2>3. CASE j + 1 = i
    <3>1. Part(content[j + 1], hosts) = <<>>
      BY <2>3 DEF Part
    <3>2. f[j + 1] = f[j]
      BY <2>1, <3>1, ConcatEmptySeq DEF Rows
    <3>3. j < i /\ ~(j + 1 < i)
      BY <1>1, <2>0, <2>3
    <3>4. f[j] = g[j]
      BY <1>6, <3>3
    <3> QED BY <2>0, <3>2, <3>3, <3>4
  <2>4. CASE i < j + 1
    <3>1. j \in 1..(n - 1) /\ j \in 1..Len(left) /\ ~(j < i) /\ ~(j + 1 < i)
      BY <1>1, <1>2, <2>0, <2>4
    <3>2. g[j] = g[j - 1] \o Part(left[j], hosts)
      BY <1>4, <3>1
    <3>3. left[j] = content[j + 1]
      BY <1>2, <3>1
    <3>4. f[j] = g[j - 1]
      BY <1>6, <3>1
    <3> QED BY <2>0, <2>1, <3>1, <3>2, <3>3, <3>4
  <2> QED BY <1>1, <2>0, <2>2, <2>3, <2>4
<1>7. n \in S
  <2> HIDE DEF S, n
  <2>1. \A j \in 0..n : j \in S
    BY <1>1, <1>5, <1>6, BoundedInduction
  <2> QED BY <1>1, <2>1
<1>8. f[n] = g[n - 1]
  BY <1>1, <1>7
<1> QED BY <1>2, <1>3, <1>4, <1>8 DEF left

\* What the rows of some hosts are: as many as there are, each of them one, and
\* none of them lost the second time.
OfIndices(content, hosts) == {i \in 1..Len(content) : content[i][1] \in hosts}

AreOfHosts(content, hosts) ==
    /\ Len(OfHosts(content, hosts)) = Cardinality(OfIndices(content, hosts))
    /\ \A r : r \in ToSet(OfHosts(content, hosts))
                 <=> \E i \in OfIndices(content, hosts) : r = content[i]
    /\ OfHosts(OfHosts(content, hosts), hosts) = OfHosts(content, hosts)

LEMMA OfIndicesFinite ==
    ASSUME NEW content \in Rows, NEW hosts
    PROVE  IsFiniteSet(OfIndices(content, hosts))
<1>1. IsFiniteSet(1..Len(content))
  <2>1. 1 \in Int /\ Len(content) \in Int
    BY DEF Rows
  <2> QED BY <2>1, FS_Interval
<1>2. OfIndices(content, hosts) \in SUBSET (1..Len(content))
  BY DEF OfIndices
<1> QED BY <1>1, <1>2, FS_Subset

LEMMA AreOfHostsAppend ==
    ASSUME NEW content \in Rows, NEW r \in Seq(Cell), NEW hosts, AreOfHosts(content, hosts)
    PROVE  AreOfHosts(Append(content, r), hosts)
<1> DEFINE n    == Len(content)
           more == Append(content, r)
           mine == OfHosts(content, hosts)
<1>1. /\ n \in Nat /\ more \in Rows /\ Len(more) = n + 1
      /\ more[n + 1] = r /\ \A i \in 1..n : more[i] = content[i]
  BY DEF Rows
<1>2. mine \in Rows /\ mine \in Seq(Seq(Cell)) /\ Len(mine) \in Nat
  BY OfHostsType DEF Rows
<1> HIDE DEF more
<1>3. CASE r[1] \in hosts
  <2>1. OfHosts(more, hosts) = Append(mine, r)
    BY <1>3, OfHostsAppend DEF more
  <2>2. OfIndices(more, hosts) = OfIndices(content, hosts) \cup {n + 1}
    <3>1. ASSUME NEW i
          PROVE  i \in OfIndices(more, hosts) <=> i \in OfIndices(content, hosts) \/ i = n + 1
      <4>1. i \in 1..(n + 1) <=> i \in 1..n \/ i = n + 1
        BY <1>1
      <4>2. n + 1 \notin 1..n
        BY <1>1
      <4> HIDE DEF n
      <4> QED BY <1>1, <1>3, <4>1, <4>2 DEF OfIndices, n
    <3> QED BY <3>1
  <2>3. n + 1 \notin OfIndices(content, hosts)
    BY <1>1 DEF OfIndices
  <2>4. Cardinality(OfIndices(more, hosts)) = Cardinality(OfIndices(content, hosts)) + 1
    BY <2>2, <2>3, OfIndicesFinite, FS_AddElement
  <2>5. /\ Len(Append(mine, r)) = Len(mine) + 1
        /\ Append(mine, r) \in Seq(Seq(Cell))
        /\ \A i \in 1..Len(mine) : Append(mine, r)[i] = mine[i]
        /\ Append(mine, r)[Len(mine) + 1] = r
    BY <1>2, AppendProperties
  <2>6. Len(OfHosts(more, hosts)) = Cardinality(OfIndices(more, hosts))
    BY <2>1, <2>4, <2>5 DEF AreOfHosts
  <2>7. ASSUME NEW w
        PROVE  w \in ToSet(OfHosts(more, hosts)) <=> \E i \in OfIndices(more, hosts) : w = more[i]
    <3>1. DOMAIN Append(mine, r) = 1..(Len(mine) + 1) /\ DOMAIN mine = 1..Len(mine)
      BY <1>2, <2>5
    <3>2. \A i : i \in 1..(Len(mine) + 1) <=> i \in 1..Len(mine) \/ i = Len(mine) + 1
      BY <1>2
    <3>3. w \in ToSet(Append(mine, r)) <=> w \in ToSet(mine) \/ w = r
      BY <2>5, <3>1, <3>2 DEF ToSet
    <3>4. w \in ToSet(mine) <=> \E i \in OfIndices(content, hosts) : w = content[i]
      BY DEF AreOfHosts
    <3>5. \A i \in OfIndices(content, hosts) : more[i] = content[i]
      BY <1>1 DEF OfIndices
    <3> QED BY <1>1, <2>1, <2>2, <3>3, <3>4, <3>5
  <2>8. OfHosts(OfHosts(more, hosts), hosts) = OfHosts(more, hosts)
    <3>1. OfHosts(Append(mine, r), hosts) = Append(OfHosts(mine, hosts), r)
      BY <1>2, <1>3, OfHostsAppend
    <3> QED BY <2>1, <3>1 DEF AreOfHosts
  <2> QED BY <2>6, <2>7, <2>8 DEF AreOfHosts, more
<1>4. CASE r[1] \notin hosts
  <2>1. OfHosts(more, hosts) = mine
    BY <1>4, OfHostsAppend DEF more
  <2>2. OfIndices(more, hosts) = OfIndices(content, hosts)
    <3>1. ASSUME NEW i
          PROVE  i \in OfIndices(more, hosts) <=> i \in OfIndices(content, hosts)
      <4>1. i \in 1..(n + 1) <=> i \in 1..n \/ i = n + 1
        BY <1>1
      <4> HIDE DEF n
      <4> QED BY <1>1, <1>4, <4>1 DEF OfIndices, n
    <3> QED BY <3>1
  <2>3. \A i \in OfIndices(content, hosts) : more[i] = content[i]
    BY <1>1 DEF OfIndices
  <2> QED BY <2>1, <2>2, <2>3 DEF AreOfHosts, more
<1> QED BY <1>3, <1>4

LEMMA RowsOfHosts ==
    ASSUME NEW content \in Rows, NEW hosts
    PROVE  AreOfHosts(content, hosts)
<1> DEFINE n         == Len(content)
           prefix(i) == SubSeq(content, 1, i)
           S         == {i \in 0..n : AreOfHosts(prefix(i), hosts)}
<1>1. n \in Nat /\ \A j \in 1..n : content[j] \in Seq(Cell)
  BY DEF Rows
<1>2. prefix(0) = <<>>
  <2>1. 0 < 1 /\ 0 \in Int /\ 1 \in Int
    OBVIOUS
  <2> QED BY <2>1, SubSeqEmpty
<1>3. prefix(n) = content
  BY SubSeqFull DEF Rows
<1>4. ASSUME NEW i \in 0..n
      PROVE  /\ prefix(i) \in Rows /\ Len(prefix(i)) = i
             /\ \A j \in 1..i : prefix(i)[j] = content[j]
  <2>1. 1 \in Int /\ i \in Int /\ i \in Nat /\ \A j \in 1..i : content[j] \in Seq(Cell)
    BY <1>1
  <2>2. /\ SubSeq(content, 1, i) \in Seq(Seq(Cell))
        /\ Len(SubSeq(content, 1, i)) = IF 1 <= i THEN i - 1 + 1 ELSE 0
        /\ \A j \in 1..(i - 1 + 1) : SubSeq(content, 1, i)[j] = content[1 + j - 1]
    BY <2>1, SubSeqProperties
  <2>3. i - 1 + 1 = i /\ (1 <= i \/ i = 0) /\ \A j \in 1..i : 1 + j - 1 = j
    BY <2>1
  <2> QED BY <2>2, <2>3 DEF Rows
<1>5. ASSUME NEW i \in 0..(n - 1)
      PROVE  prefix(i + 1) = Append(prefix(i), content[i + 1])
  <2>1. i \in Nat /\ i \in 0..n /\ i + 1 \in 0..n /\ i + 1 \in 1..n
    BY <1>1
  <2>2. content[i + 1] \in Seq(Cell)
    BY <1>1, <2>1
  <2>3. /\ prefix(i) \in Seq(Seq(Cell)) /\ Len(prefix(i)) = i
        /\ \A j \in 1..i : prefix(i)[j] = content[j]
    BY <1>4, <2>1 DEF Rows
  <2>4. /\ prefix(i + 1) \in Seq(Seq(Cell)) /\ Len(prefix(i + 1)) = i + 1
        /\ \A j \in 1..(i + 1) : prefix(i + 1)[j] = content[j]
    BY <1>4, <2>1 DEF Rows
  <2> HIDE DEF prefix
  <2>5. /\ Append(prefix(i), content[i + 1]) \in Seq(Seq(Cell))
        /\ Len(Append(prefix(i), content[i + 1])) = i + 1
        /\ \A j \in 1..i : Append(prefix(i), content[i + 1])[j] = prefix(i)[j]
        /\ Append(prefix(i), content[i + 1])[i + 1] = content[i + 1]
    BY <2>2, <2>3, AppendProperties
  <2>6. ASSUME NEW j \in 1..(i + 1)
        PROVE  prefix(i + 1)[j] = Append(prefix(i), content[i + 1])[j]
    <3>1. j \in 1..i \/ j = i + 1
      BY <2>1
    <3> QED BY <2>3, <2>4, <2>5, <3>1
  <2> QED BY <2>4, <2>5, <2>6, SeqEqual
<1> HIDE DEF prefix
<1>6. 0 \in S
  <2> DEFINE none == <<>>
  <2>1. none \in Rows /\ Len(none) = 0 /\ ToSet(none) = {} /\ OfHosts(none, hosts) = none
    BY OfHostsEmpty DEF Rows, ToSet
  <2> HIDE DEF none
  <2>2. OfIndices(none, hosts) = {}
    BY <2>1 DEF OfIndices
  <2>3. AreOfHosts(none, hosts)
    BY <2>1, <2>2, FS_EmptySet DEF AreOfHosts
  <2>4. 0 \in 0..n
    BY <1>1
  <2> QED BY <1>2, <2>3, <2>4 DEF none
<1>7. ASSUME NEW i \in 0..(n - 1), i \in S PROVE i + 1 \in S
  <2>1. i + 1 \in 0..n /\ i + 1 \in 1..n /\ i \in 0..n
    BY <1>1
  <2>2. prefix(i) \in Rows /\ content[i + 1] \in Seq(Cell)
    BY <1>1, <1>4, <2>1
  <2>3. AreOfHosts(Append(prefix(i), content[i + 1]), hosts)
    BY <1>7, <2>2, AreOfHostsAppend
  <2> QED BY <1>5, <2>1, <2>3
<1>8. n \in S
  <2> HIDE DEF S, n
  <2>1. \A i \in 0..n : i \in S
    BY <1>1, <1>6, <1>7, BoundedInduction
  <2> QED BY <1>1, <2>1
<1> QED BY <1>3, <1>8

-----------------------------------------------------------------------------
(* Objects, and the rows that stand for them *)

\* Objects of a table with p primary and s subsidiary fields.
Objs(p, s) == {obj \in [Text -> Text \cup {Missing}] :
                  \A k \in Text : HasKey(obj, k) => k \in Texts(p) /\ obj[k] \in Texts(s)}

\* Rows of such a table: only one of the host may have lost its key.
Row(p, s) == {r \in Seq(Cell) :
                 /\ r[1] \in {Host, Other}
                 /\ \/ Len(r) = 1 + p + s
                    \/ r[1] = Host /\ p = 1 /\ s > 0 /\ Len(r) = p + s}

\* The rows of the host are those of the object, each once.
Represents(content, obj, s) ==
    /\ \A i \in 1..Len(content) :
          content[i][1] = Host =>
             \E k \in Text : HasKey(obj, k) /\ content[i] = RowFor(k, obj[k], s)
    /\ \A k \in Text : HasKey(obj, k) =>
          \E i \in 1..Len(content) : content[i] = RowFor(k, obj[k], s)
    /\ \A i, j \in 1..Len(content) :
          content[i][1] = Host /\ content[i] = content[j] => i = j

\* The columns of a table.
Bounded(p, s) == p \in 1..MaxColumns /\ s \in 0..MaxColumns /\ p + s <= MaxColumns

LEMMA RowsAreRows ==
    ASSUME NEW p, NEW s, Bounded(p, s), NEW content \in Seq(Row(p, s))
    PROVE  /\ content \in Rows
           /\ \A i \in 1..Len(content) : /\ content[i] \in Row(p, s)
                                         /\ content[i] \in Seq(Cell)
                                         /\ Len(content[i]) >= 1 + p
<1>1. \A i \in 1..Len(content) : content[i] \in Row(p, s)
  OBVIOUS
<1>2. Row(p, s) \subseteq Seq(Cell)
  BY DEF Row
<1>3. content \in Rows
  BY <1>2 DEF Rows
<1>4. ASSUME NEW r \in Row(p, s) PROVE Len(r) >= 1 + p
  <2>1. p \in Nat /\ s \in Nat
    BY RecordsAssumption DEF Bounded
  <2>2. Len(r) = 1 + p + s \/ (s > 0 /\ Len(r) = p + s)
    BY DEF Row
  <2> QED BY <2>1, <2>2
<1> QED BY <1>1, <1>2, <1>3, <1>4

\* A row that stands for a key is found.
LEMMA FoundRow ==
    ASSUME NEW p, NEW s, Bounded(p, s), NEW content \in Seq(Row(p, s)), NEW obj \in Objs(p, s),
           Represents(content, obj, s), NEW k \in Text, HasKey(obj, k)
    PROVE  LET i == FirstMatch(content, KeyFields(k))
           IN  i \in 1..Len(content) /\ content[i] = RowFor(k, obj[k], s)
<1> DEFINE i == FirstMatch(content, KeyFields(k))
<1>1. p \in 1..MaxColumns /\ s \in 0..MaxColumns
  BY DEF Bounded
<1>2. \A l \in Text : HasKey(obj, l) => l \in Texts(p) /\ obj[l] \in Texts(s)
                                        /\ Starts(RowFor(l, obj[l], s), l, p)
  BY <1>1, RowForStarts DEF Objs
<1>3. content \in Seq(Seq(Cell)) /\ \A j \in 1..Len(content) : Len(content[j]) >= 1 + p
  BY RowsAreRows DEF Rows
<1>4. \/ i = 0 /\ \A j \in 1..Len(content) : ~Starts(content[j], k, p)
      \/ i \in 1..Len(content) /\ Starts(content[i], k, p)
  BY <1>1, <1>2, <1>3, FirstMatchIs
<1> HIDE DEF i
<1>5. PICK j \in 1..Len(content) : content[j] = RowFor(k, obj[k], s)
  BY DEF Represents
<1>6. i \in 1..Len(content) /\ Starts(content[i], k, p)
  BY <1>2, <1>4, <1>5
<1>7. content[i][1] = Host
  BY <1>6 DEF Starts
<1>8. PICK l \in Text : HasKey(obj, l) /\ content[i] = RowFor(l, obj[l], s)
  BY <1>6, <1>7 DEF Represents
<1>9. l = k
  BY <1>1, <1>2, <1>6, <1>8, StartsOnce
<1> QED BY <1>6, <1>8, <1>9 DEF i

\* Two keys have two rows.
LEMMA RowForOnce ==
    ASSUME NEW p \in 1..MaxColumns, NEW s \in 0..MaxColumns,
           NEW k \in Texts(p), NEW v \in Texts(s), NEW l \in Texts(p), NEW w \in Texts(s),
           RowFor(k, v, s) = RowFor(l, w, s)
    PROVE  k = l
<1>1. Starts(RowFor(k, v, s), k, p) /\ Starts(RowFor(k, v, s), l, p)
  BY RowForStarts
<1> QED BY <1>1, StartsOnce

LEMMA RepresentsDelete ==
    ASSUME NEW p, NEW s, Bounded(p, s), NEW content \in Seq(Row(p, s)), NEW obj \in Objs(p, s),
           Represents(content, obj, s), NEW k \in Text, HasKey(obj, k),
           NEW i \in 1..Len(content), content[i] = RowFor(k, obj[k], s)
    PROVE  /\ [obj EXCEPT ![k] = Missing] \in Objs(p, s)
           /\ Represents(RemoveAt(content, i), [obj EXCEPT ![k] = Missing], s)
<1> DEFINE n     == Len(content)
           left  == RemoveAt(content, i)
           other == [obj EXCEPT ![k] = Missing]
<1>1. p \in 1..MaxColumns /\ s \in 0..MaxColumns /\ n \in Nat /\ i \in Nat /\ 1 <= i /\ i <= n
  BY DEF Bounded
<1>2. Len(left) = n - 1
      /\ \A j \in 1..(n - 1) : left[j] = IF j < i THEN content[j] ELSE content[j + 1]
  BY RowsAreRows, RemoveAtIs
<1>3. \A l \in Text : HasKey(obj, l) => l \in Texts(p) /\ obj[l] \in Texts(s)
  BY DEF Objs
<1>4. /\ other \in [Text -> Text \cup {Missing}]
      /\ ~HasKey(other, k)
      /\ \A l \in Text : l # k => other[l] = obj[l]
  BY DEF Objs, HasKey
<1>5. content[i][1] = Host
  BY <1>1, <1>3, RowForIs
<1> HIDE DEF left, other
<1>6. other \in Objs(p, s)
  BY <1>3, <1>4 DEF Objs, HasKey
\* An index behind the gap.
<1> DEFINE old(j) == IF j < i THEN j ELSE j + 1
<1>7. ASSUME NEW j \in 1..(n - 1)
      PROVE  old(j) \in 1..n /\ old(j) # i /\ left[j] = content[old(j)]
  <2>1. CASE j < i
    BY <1>1, <1>2, <2>1
  <2>2. CASE ~(j < i)
    <3>1. j + 1 \in 1..n /\ j + 1 # i
      BY <1>1, <2>2
    <3> QED BY <1>2, <2>2, <3>1
  <2> QED BY <2>1, <2>2
<1>8. ASSUME NEW j \in 1..(n - 1), NEW m \in 1..(n - 1), old(j) = old(m) PROVE j = m
  BY <1>1, <1>8
<1>9. ASSUME NEW m \in 1..n, m # i PROVE \E j \in 1..(n - 1) : old(j) = m
  <2>1. CASE m < i
    <3>1. m \in 1..(n - 1) /\ old(m) = m
      BY <1>1, <2>1
    <3> QED BY <3>1
  <2>2. CASE ~(m < i)
    <3>1. m - 1 \in 1..(n - 1) /\ old(m - 1) = m
      BY <1>1, <1>9, <2>2
    <3> QED BY <3>1
  <2> QED BY <2>1, <2>2
<1> HIDE DEF old, n
<1>10. ASSUME NEW j \in 1..(n - 1), left[j][1] = Host
       PROVE  \E l \in Text : HasKey(other, l) /\ left[j] = RowFor(l, other[l], s)
  <2>1. old(j) \in 1..n /\ old(j) # i /\ left[j] = content[old(j)]
    BY <1>7
  <2>2. PICK l \in Text : HasKey(obj, l) /\ content[old(j)] = RowFor(l, obj[l], s)
    BY <1>10, <2>1 DEF Represents, n
  <2>3. l # k
    BY <1>5, <2>1, <2>2 DEF Represents, n
  <2> QED BY <1>4, <2>1, <2>2, <2>3 DEF HasKey
<1>11. ASSUME NEW l \in Text, HasKey(other, l)
       PROVE  \E j \in 1..(n - 1) : left[j] = RowFor(l, other[l], s)
  <2>1. l # k /\ HasKey(obj, l) /\ other[l] = obj[l]
    BY <1>4, <1>11 DEF HasKey
  <2>2. PICK m \in 1..n : content[m] = RowFor(l, obj[l], s)
    BY <2>1 DEF Represents, n
  <2>3. m # i
    BY <1>1, <1>3, <2>1, <2>2, RowForOnce
  <2>4. PICK j \in 1..(n - 1) : old(j) = m
    BY <1>9, <2>3
  <2> QED BY <1>7, <2>1, <2>2, <2>4
<1>12. ASSUME NEW j \in 1..(n - 1), NEW m \in 1..(n - 1), left[j][1] = Host, left[j] = left[m]
       PROVE  j = m
  <2>1. old(j) \in 1..n /\ old(m) \in 1..n /\ left[j] = content[old(j)] /\ left[m] = content[old(m)]
    BY <1>7
  <2>2. old(j) = old(m)
    BY <1>12, <2>1 DEF Represents, n
  <2> QED BY <1>8, <2>2
<1>13. Represents(left, other, s)
  BY <1>2, <1>10, <1>11, <1>12 DEF Represents
<1> QED BY <1>6, <1>13 DEF left, other

LEMMA RepresentsUpdate ==
    ASSUME NEW p, NEW s, Bounded(p, s), NEW content \in Seq(Row(p, s)), NEW obj \in Objs(p, s),
           Represents(content, obj, s), NEW k \in Text, HasKey(obj, k), NEW v \in Texts(s),
           NEW i \in 1..Len(content), content[i] = RowFor(k, obj[k], s)
    PROVE  /\ [obj EXCEPT ![k] = v] \in Objs(p, s)
           /\ Represents([content EXCEPT ![i] = RowFor(k, v, s)], [obj EXCEPT ![k] = v], s)
<1> DEFINE n     == Len(content)
           row   == RowFor(k, v, s)
           new   == [content EXCEPT ![i] = row]
           other == [obj EXCEPT ![k] = v]
<1>1. p \in 1..MaxColumns /\ s \in 0..MaxColumns /\ n \in Nat
  BY DEF Bounded
<1>2. \A l \in Text : HasKey(obj, l) => l \in Texts(p) /\ obj[l] \in Texts(s)
  BY DEF Objs
<1>3. v \in Text /\ v # Missing
  BY <1>1, TextsParsed, RecordsAssumption
<1>4. /\ other \in [Text -> Text \cup {Missing}]
      /\ HasKey(other, k) /\ other[k] = v
      /\ \A l \in Text : l # k => other[l] = obj[l]
  BY <1>3 DEF Objs, HasKey
<1>5. content[i][1] = Host /\ row \in Seq(Cell) /\ row[1] = Host
  BY <1>1, <1>2, RowForIs
<1>6. content \in Rows
  BY RowsAreRows
<1> HIDE DEF row
<1>7. Len(new) = n /\ new[i] = row /\ \A j \in 1..n : j # i => new[j] = content[j]
  BY <1>5, <1>6 DEF Rows
<1> HIDE DEF new, other, n
<1>8. other \in Objs(p, s)
  BY <1>2, <1>4 DEF Objs, HasKey
<1>9. \A j \in 1..n : j # i /\ content[j][1] = Host =>
         \E l \in Text : l # k /\ HasKey(obj, l) /\ content[j] = RowFor(l, obj[l], s)
  <2> SUFFICES ASSUME NEW j \in 1..n, j # i, content[j][1] = Host
               PROVE  \E l \in Text : l # k /\ HasKey(obj, l) /\ content[j] = RowFor(l, obj[l], s)
    OBVIOUS
  <2>1. PICK l \in Text : HasKey(obj, l) /\ content[j] = RowFor(l, obj[l], s)
    BY DEF Represents, n
  <2>2. l # k
    BY <1>5, <2>1 DEF Represents, n
  <2> QED BY <2>1, <2>2
<1>10. ASSUME NEW j \in 1..n, new[j][1] = Host
       PROVE  \E l \in Text : HasKey(other, l) /\ new[j] = RowFor(l, other[l], s)
  <2>1. CASE j = i
    BY <1>4, <1>7, <2>1 DEF row
  <2>2. CASE j # i
    BY <1>4, <1>7, <1>9, <1>10, <2>2 DEF HasKey
  <2> QED BY <2>1, <2>2
<1>11. ASSUME NEW l \in Text, HasKey(other, l)
       PROVE  \E j \in 1..n : new[j] = RowFor(l, other[l], s)
  <2>1. CASE l = k
    BY <1>4, <1>7, <2>1 DEF row, n
  <2>2. CASE l # k
    <3>1. HasKey(obj, l) /\ other[l] = obj[l]
      BY <1>4, <1>11, <2>2 DEF HasKey
    <3>2. PICK j \in 1..n : content[j] = RowFor(l, obj[l], s)
      BY <3>1 DEF Represents, n
    <3>3. j # i
      BY <1>1, <1>2, <2>2, <3>1, <3>2, RowForOnce
    <3> QED BY <1>7, <3>1, <3>2, <3>3
  <2> QED BY <2>1, <2>2
<1>12. ASSUME NEW j \in 1..n, j # i PROVE content[j] # row
  <2>1. ASSUME content[j] = row PROVE FALSE
    <3>1. PICK l \in Text : l # k /\ HasKey(obj, l) /\ content[j] = RowFor(l, obj[l], s)
      BY <1>5, <1>9, <1>12, <2>1
    <3>2. l = k
      BY <1>1, <1>2, <2>1, <3>1, RowForOnce DEF row
    <3> QED BY <3>1, <3>2
  <2> QED BY <2>1
<1>13. ASSUME NEW j \in 1..n, NEW m \in 1..n, new[j][1] = Host, new[j] = new[m]
       PROVE  j = m
  <2>1. CASE j = i \/ m = i
    BY <1>7, <1>12, <1>13, <2>1
  <2>2. CASE j # i /\ m # i
    BY <1>7, <1>13, <2>2 DEF Represents, n
  <2> QED BY <2>1, <2>2
<1>14. Represents(new, other, s)
  BY <1>7, <1>10, <1>11, <1>13 DEF Represents
<1> QED BY <1>8, <1>14 DEF new, other, row

LEMMA RepresentsInsert ==
    ASSUME NEW p, NEW s, Bounded(p, s), NEW content \in Seq(Row(p, s)), NEW obj \in Objs(p, s),
           Represents(content, obj, s), NEW k \in Texts(p), ~HasKey(obj, k), NEW v \in Texts(s)
    PROVE  /\ [obj EXCEPT ![k] = v] \in Objs(p, s)
           /\ Represents(Append(content, RowFor(k, v, s)), [obj EXCEPT ![k] = v], s)
<1> DEFINE n     == Len(content)
           row   == RowFor(k, v, s)
           new   == Append(content, row)
           other == [obj EXCEPT ![k] = v]
<1>1. p \in 1..MaxColumns /\ s \in 0..MaxColumns /\ p \in 0..MaxColumns /\ n \in Nat
  BY RecordsAssumption DEF Bounded
<1>2. \A l \in Text : HasKey(obj, l) => l \in Texts(p) /\ obj[l] \in Texts(s)
  BY DEF Objs
<1>3. v \in Text /\ v # Missing /\ k \in Text
  BY <1>1, TextsParsed, RecordsAssumption
<1>4. /\ other \in [Text -> Text \cup {Missing}]
      /\ HasKey(other, k) /\ other[k] = v
      /\ \A l \in Text : l # k => other[l] = obj[l]
  BY <1>3 DEF Objs, HasKey
<1>5. row \in Seq(Cell) /\ row[1] = Host
  BY <1>1, RowForIs
<1>6. content \in Rows
  BY RowsAreRows
<1> HIDE DEF row
<1>7. Len(new) = n + 1 /\ new[n + 1] = row /\ \A j \in 1..n : new[j] = content[j]
  BY <1>5, <1>6 DEF Rows
<1>8. \A j : j \in 1..(n + 1) <=> j \in 1..n \/ j = n + 1
  BY <1>1
<1> HIDE DEF new, other, n
<1>9. other \in Objs(p, s)
  BY <1>2, <1>4 DEF Objs, HasKey
<1>10. ASSUME NEW j \in 1..(n + 1), new[j][1] = Host
       PROVE  \E l \in Text : HasKey(other, l) /\ new[j] = RowFor(l, other[l], s)
  <2>1. CASE j = n + 1
    BY <1>3, <1>4, <1>7, <2>1 DEF row
  <2>2. CASE j \in 1..n
    <3>1. PICK l \in Text : HasKey(obj, l) /\ content[j] = RowFor(l, obj[l], s)
      BY <1>7, <1>10, <2>2 DEF Represents, n
    <3>2. l # k
      BY <3>1
    <3> QED BY <1>4, <1>7, <2>2, <3>1, <3>2 DEF HasKey
  <2> QED BY <1>8, <2>1, <2>2
<1>11. ASSUME NEW l \in Text, HasKey(other, l)
       PROVE  \E j \in 1..(n + 1) : new[j] = RowFor(l, other[l], s)
  <2>1. CASE l = k
    BY <1>4, <1>7, <1>8, <2>1 DEF row
  <2>2. CASE l # k
    <3>1. HasKey(obj, l) /\ other[l] = obj[l]
      BY <1>4, <1>11, <2>2 DEF HasKey
    <3>2. PICK j \in 1..n : content[j] = RowFor(l, obj[l], s)
      BY <3>1 DEF Represents, n
    <3> QED BY <1>7, <1>8, <3>1, <3>2
  <2> QED BY <2>1, <2>2
<1>12. ASSUME NEW j \in 1..n PROVE content[j] # row
  <2>1. ASSUME content[j] = row PROVE FALSE
    <3>1. PICK l \in Text : HasKey(obj, l) /\ content[j] = RowFor(l, obj[l], s)
      BY <1>5, <2>1 DEF Represents, n
    <3>2. l = k
      BY <1>1, <1>2, <2>1, <3>1, RowForOnce DEF row
    <3> QED BY <3>1, <3>2
  <2> QED BY <2>1
<1>13. ASSUME NEW j \in 1..(n + 1), NEW m \in 1..(n + 1), new[j][1] = Host, new[j] = new[m]
       PROVE  j = m
  <2>1. CASE j = n + 1 \/ m = n + 1
    BY <1>7, <1>8, <1>12, <1>13, <2>1
  <2>2. CASE j \in 1..n /\ m \in 1..n
    BY <1>7, <1>13, <2>2 DEF Represents, n
  <2> QED BY <1>8, <2>1, <2>2
<1>14. Represents(new, other, s)
  BY <1>7, <1>10, <1>11, <1>13 DEF Represents
<1> QED BY <1>9, <1>14 DEF new, other, row

\* What an update makes of a row.
LEMMA UpdatedRow ==
    ASSUME NEW p, NEW s, Bounded(p, s), NEW r \in Row(p, s), NEW values \in Seq(Field)
    PROVE  /\ Updated(r, 2 + p, values) \in Row(p, s)
           /\ Updated(r, 2 + p, values)[1] = r[1]
<1> DEFINE row == Updated(r, 2 + p, values)
<1>1. p \in Nat /\ p >= 1 /\ s \in Nat
  BY RecordsAssumption DEF Bounded
<1>2. r \in Seq(Cell) /\ DOMAIN r = 1..Len(r) /\ Len(r) \in Nat /\ Len(r) >= 1 + p
  <2>1. r \in Seq(Cell) /\ (Len(r) = 1 + p + s \/ (s > 0 /\ Len(r) = p + s))
    BY DEF Row
  <2> QED BY <1>1, <2>1
<1>3. row = [j \in 1..Len(r) |-> IF j - (2 + p) + 1 \in 1..Len(values)
                                 THEN values[j - (2 + p) + 1] ELSE r[j]]
  BY <1>2 DEF Updated
<1>4. \A j \in 1..Len(r) : r[j] \in Cell
  BY <1>2
<1>5. \A j \in 1..Len(values) : values[j] \in Cell
  BY DEF Cell
<1>6. row \in [1..Len(r) -> Cell]
  BY <1>3, <1>4, <1>5
<1>7. row \in Seq(Cell) /\ Len(row) = Len(r)
  BY <1>2, <1>6
<1>8. row[1] = r[1]
  <2>1. 1 \in 1..Len(r) /\ ~(1 - (2 + p) + 1 \in 1..Len(values))
    BY <1>1, <1>2
  <2> QED BY <1>3, <2>1
<1> HIDE DEF row
<1> QED BY <1>7, <1>8 DEF Row, row

LEMMA UpdatedRowFor ==
    ASSUME NEW p, NEW s, Bounded(p, s), s # 0, NEW k \in Texts(p), NEW v \in Texts(s), NEW w \in Texts(s)
    PROVE  /\ Updated(RowFor(k, v, s), 2 + p, Parsed(w)) = RowFor(k, w, s)
           /\ ~(Len(RowFor(k, v, s)) < 2 + p + Len(Parsed(w)) - 1)
<1> DEFINE old == RowFor(k, v, s)
           new == RowFor(k, w, s)
           row == Updated(old, 2 + p, Parsed(w))
<1>1. p \in 1..MaxColumns /\ s \in 0..MaxColumns /\ p \in Nat /\ s \in Nat
  BY RecordsAssumption DEF Bounded
<1>2. Parsed(w) \in Seq(Field) /\ Len(Parsed(w)) = s
  BY <1>1, TextsParsed
<1>3. /\ old \in Seq(Cell) /\ Len(old) = 1 + p + s /\ old[1] = Host
      /\ \A j \in 1..p : old[1 + j] = Parsed(k)[j]
  BY <1>1, RowForIs
<1>4. /\ new \in Seq(Cell) /\ Len(new) = 1 + p + s /\ new[1] = Host
      /\ \A j \in 1..p : new[1 + j] = Parsed(k)[j]
      /\ \A j \in 1..s : new[1 + p + j] = Parsed(w)[j]
  BY <1>1, RowForIs
<1> HIDE DEF old, new
<1>5. DOMAIN old = 1..(1 + p + s) /\ DOMAIN Parsed(w) = 1..s
  BY <1>2, <1>3
<1>6. row = [j \in 1..(1 + p + s) |-> IF j - (2 + p) + 1 \in 1..s
                                      THEN Parsed(w)[j - (2 + p) + 1] ELSE old[j]]
  BY <1>5 DEF Updated
<1>7. ASSUME NEW j \in 1..(1 + p + s)
      PROVE  (IF j - (2 + p) + 1 \in 1..s THEN Parsed(w)[j - (2 + p) + 1] ELSE old[j]) = new[j]
  <2>1. CASE j = 1
    <3>1. ~(j - (2 + p) + 1 \in 1..s)
      BY <1>1, <2>1
    <3> QED BY <1>3, <1>4, <2>1, <3>1
  <2>2. CASE j # 1 /\ j <= 1 + p
    <3>1. ~(j - (2 + p) + 1 \in 1..s) /\ j - 1 \in 1..p /\ 1 + (j - 1) = j
      BY <1>1, <2>2
    <3>2. old[1 + (j - 1)] = Parsed(k)[j - 1] /\ new[1 + (j - 1)] = Parsed(k)[j - 1]
      BY <1>3, <1>4, <3>1
    <3> QED BY <3>1, <3>2
  <2>3. CASE ~(j <= 1 + p)
    <3>1. j - (2 + p) + 1 \in 1..s /\ 1 + p + (j - (2 + p) + 1) = j
      BY <1>1, <2>3
    <3>2. new[1 + p + (j - (2 + p) + 1)] = Parsed(w)[j - (2 + p) + 1]
      BY <1>4, <3>1
    <3> QED BY <3>1, <3>2
  <2> QED BY <2>1, <2>2, <2>3
<1>8. new = [j \in 1..(1 + p + s) |-> new[j]]
  BY <1>4
<1>9. row = new
  BY <1>6, <1>7, <1>8
<1>10. ~(Len(old) < 2 + p + Len(Parsed(w)) - 1)
  BY <1>1, <1>2, <1>3
<1> QED BY <1>9, <1>10 DEF old, new

\* What an insert adds.
LEMMA InsertedRow ==
    ASSUME NEW p, NEW s, Bounded(p, s), shape.subsidiary = s,
           NEW k \in Texts(p), NEW v \in Texts(s)
    PROVE  /\ <<Host>> \o Inserted(k, v) \in Row(p, s)
           /\ (<<Host>> \o Inserted(k, v))[1] = Host
           /\ ~(p = 1 /\ s > 0 /\ k = <<>>) => <<Host>> \o Inserted(k, v) = RowFor(k, v, s)
<1>1. p \in 1..MaxColumns /\ s \in 0..MaxColumns /\ p \in Nat /\ s \in Nat /\ p >= 1
      /\ p \in 0..MaxColumns /\ p # 0
  BY RecordsAssumption DEF Bounded
<1>2. /\ RowFor(k, v, s) \in Seq(Cell) /\ Len(RowFor(k, v, s)) = 1 + p + s
      /\ RowFor(k, v, s)[1] = Host
  BY <1>1, RowForIs
<1>3. RowFor(k, v, s) \in Row(p, s)
  BY <1>2 DEF Row
<1>4. Parsed(k) \in Seq(Field) /\ Len(Parsed(k)) = p
  BY <1>1, TextsParsed
<1>5. CASE s = 0
  <2>1. <<Host>> \o Inserted(k, v) = RowFor(k, v, s)
    BY <1>5 DEF Inserted, RowFor
  <2> QED BY <1>2, <1>3, <2>1
<1>6. CASE s # 0 /\ k # <<>>
  <2>1. <<Host>> \o Inserted(k, v) = RowFor(k, v, s)
    BY <1>6 DEF Inserted, RowFor
  <2> QED BY <1>2, <1>3, <2>1
<1>7. CASE s # 0 /\ k = <<>>
  <2>1. Parsed(v) \in Seq(Field) /\ Len(Parsed(v)) = s
    BY <1>1, <1>7, TextsParsed
  <2>2. Inserted(k, v) = <<>> \o Parsed(v)
    BY <1>7 DEF Inserted
  <2>3. Inserted(k, v) = Parsed(v)
    BY <2>1, <2>2, ConcatEmptySeq
  <2>4. /\ <<Host>> \o Inserted(k, v) \in Seq(Cell)
        /\ Len(<<Host>> \o Inserted(k, v)) = 1 + s
        /\ (<<Host>> \o Inserted(k, v))[1] = Host
    BY <2>1, <2>3, HostFirst
  <2>5. p = 1
    BY <1>4, <1>7, OneField DEF Parsed
  <2>6. s > 0 /\ 1 + s = p + s
    BY <1>1, <1>7, <2>5
  <2>7. <<Host>> \o Inserted(k, v) \in Row(p, s)
    BY <2>4, <2>5, <2>6 DEF Row
  <2> QED BY <1>7, <2>4, <2>5, <2>6, <2>7
<1> QED BY <1>5, <1>6, <1>7

\* The rows after an operation are rows, and those of other hosts are the same.
LEMMA RowRemoved ==
    ASSUME NEW p, NEW s, Bounded(p, s), NEW content \in Seq(Row(p, s)),
           NEW i \in 1..Len(content), content[i][1] = Host
    PROVE  /\ RemoveAt(content, i) \in Seq(Row(p, s))
           /\ OfHosts(RemoveAt(content, i), {Other}) = OfHosts(content, {Other})
<1>1. content \in Rows /\ Len(content) \in Nat /\ \A j \in 1..Len(content) : content[j] \in Row(p, s)
  BY RowsAreRows
<1>2. /\ RemoveAt(content, i) \in Rows
      /\ Len(RemoveAt(content, i)) = Len(content) - 1
      /\ \A j \in 1..(Len(content) - 1) :
            RemoveAt(content, i)[j] = IF j < i THEN content[j] ELSE content[j + 1]
  BY <1>1, RemoveAtIs
<1>3. ASSUME NEW j \in 1..(Len(content) - 1)
      PROVE  RemoveAt(content, i)[j] \in Row(p, s)
  <2>1. j \in 1..Len(content) /\ j + 1 \in 1..Len(content)
    BY <1>1
  <2> QED BY <1>1, <1>2, <2>1
<1>4. RemoveAt(content, i) \in Seq(Row(p, s))
  <2> DEFINE left == RemoveAt(content, i)
             m    == Len(content) - 1
  <2>1. left \in Seq(Seq(Cell)) /\ Len(left) = m
    BY <1>2 DEF Rows
  <2>2. left = [j \in 1..m |-> left[j]] /\ m \in Nat
    BY <2>1
  <2> HIDE DEF left, m
  <2>3. \A j \in 1..m : left[j] \in Row(p, s)
    BY <1>3 DEF left, m
  <2>4. left \in [1..m -> Row(p, s)]
    BY <2>2, <2>3
  <2> QED BY <2>2, <2>4 DEF left
<1>5. content[i][1] \notin {Other}
  BY RecordsAssumption
<1>6. OfHosts(RemoveAt(content, i), {Other}) = OfHosts(content, {Other})
  BY <1>1, <1>5, OfHostsRemoveAt
<1> QED BY <1>4, <1>6

WithRow(content, i, r) == [content EXCEPT ![i] = r]

SameOthers(content, other) == OfHosts(content, {Other}) = OfHosts(other, {Other})

LEMMA RowChanged ==
    ASSUME NEW p, NEW s, Bounded(p, s), NEW content \in Seq(Row(p, s)),
           NEW i \in 1..Len(content), content[i][1] = Host,
           NEW r \in Row(p, s), r[1] = Host
    PROVE  /\ WithRow(content, i, r) \in Seq(Row(p, s))
           /\ SameOthers(WithRow(content, i, r), content)
<1>1. content \in Rows /\ r \in Seq(Cell) /\ r[1] \notin {Other} /\ content[i][1] \notin {Other}
  BY RowsAreRows, RecordsAssumption DEF Row
<1>2. OfHosts([content EXCEPT ![i] = r], {Other}) = OfHosts(content, {Other})
  BY <1>1, OfHostsExcept
<1> QED BY <1>2, ExceptSeq DEF WithRow, SameOthers

LEMMA RowAdded ==
    ASSUME NEW p, NEW s, Bounded(p, s), NEW content \in Seq(Row(p, s)),
           NEW r \in Row(p, s), r[1] = Host
    PROVE  /\ Append(content, r) \in Seq(Row(p, s))
           /\ SameOthers(Append(content, r), content)
<1>1. content \in Rows /\ r \in Seq(Cell) /\ r[1] \notin {Other}
  BY RowsAreRows, RecordsAssumption DEF Row
<1>2. OfHosts(Append(content, r), {Other}) = OfHosts(content, {Other})
  BY <1>1, OfHostsAppend
<1> QED BY <1>2, AppendProperties DEF SameOthers

\* What a rebase starts with.
LEMMA RowsTruncated ==
    ASSUME NEW p, NEW s, Bounded(p, s), NEW content \in Seq(Row(p, s))
    PROVE  /\ Truncated(content) \in Seq(Row(p, s))
           /\ OfHosts(Truncated(content), {Other}) = OfHosts(content, {Other})
           /\ \A i \in 1..Len(Truncated(content)) : Truncated(content)[i][1] = Other
<1> DEFINE left == OfHosts(content, {Other})
<1>1. content \in Rows /\ \A j \in 1..Len(content) : content[j] \in Row(p, s)
  BY RowsAreRows
<1>2. left \in Rows
  BY <1>1, OfHostsType
<1>3. AreOfHosts(content, {Other})
  BY <1>1, RowsOfHosts
<1>4. Truncated(content) = left
  BY DEF Truncated
<1>5. left \in Seq(Seq(Cell)) /\ Len(left) \in Nat /\ DOMAIN left = 1..Len(left)
  BY <1>2 DEF Rows
<1> HIDE DEF left
<1>6. ASSUME NEW i \in 1..Len(left) PROVE left[i] \in Row(p, s) /\ left[i][1] = Other
  <2>1. left[i] \in ToSet(left)
    BY <1>5 DEF ToSet
  <2>2. PICK j \in OfIndices(content, {Other}) : left[i] = content[j]
    BY <1>3, <2>1 DEF AreOfHosts, left
  <2> QED BY <1>1, <2>2 DEF OfIndices
<1>7. left \in Seq(Row(p, s))
  <2> DEFINE m == Len(left)
  <2>1. left = [j \in 1..m |-> left[j]] /\ m \in Nat
    BY <1>5
  <2> HIDE DEF m
  <2>2. \A j \in 1..m : left[j] \in Row(p, s)
    BY <1>6 DEF m
  <2>3. left \in [1..m -> Row(p, s)]
    BY <2>1, <2>2
  <2> QED BY <2>1, <2>3
<1>8. OfHosts(left, {Other}) = OfHosts(content, {Other})
  BY <1>3 DEF AreOfHosts, left
<1> QED BY <1>4, <1>6, <1>7, <1>8

-----------------------------------------------------------------------------
(* Deltas between objects *)

Deltas(p, s) == [type: {"delta", "rebase"}, inserts: Objs(p, s), deletes: Objs(p, s),
                 updates: Objs(p, s)]

\* What is left to do on the way from one object to another.
Leads(d, obj, goal) ==
    \A k \in Text :
        /\ d.inserts[k] = (IF HasKey(obj, k) THEN Missing ELSE goal[k])
        /\ HasKey(d.deletes, k) <=> HasKey(obj, k) /\ ~HasKey(goal, k)
        /\ d.updates[k] = (IF HasKey(obj, k) /\ HasKey(goal, k) /\ obj[k] # goal[k]
                           THEN goal[k] ELSE Missing)

LEMMA EmptyObjectIs ==
    ASSUME NEW p, NEW s
    PROVE  Objects!EmptyObject \in Objs(p, s) /\ \A k \in Text : ~HasKey(Objects!EmptyObject, k)
BY DEF Objs, HasKey, Objects!EmptyObject

LEMMA DeltaCreated ==
    ASSUME NEW p, NEW s, NEW obj \in Objs(p, s), NEW goal \in Objs(p, s),
           NEW type \in {"delta", "rebase"}
    PROVE  /\ Objects!DeltaCreate(type, goal, obj) \in Deltas(p, s)
           /\ Objects!DeltaCreate(type, goal, obj).type = type
           /\ Leads(Objects!DeltaCreate(type, goal, obj), obj, goal)
<1> DEFINE d == Objects!DeltaCreate(type, goal, obj)
<1>1. /\ d.type = type
      /\ d.inserts = [k \in Text |-> IF HasKey(obj, k) THEN Missing ELSE goal[k]]
      /\ d.deletes = [k \in Text |-> IF HasKey(goal, k) THEN Missing ELSE obj[k]]
      /\ d.updates = [k \in Text |-> IF HasKey(obj, k) /\ goal[k] # obj[k]
                                     THEN goal[k] ELSE Missing]
      /\ d = [type |-> d.type, inserts |-> d.inserts, deletes |-> d.deletes, updates |-> d.updates]
  BY DEF Objects!DeltaCreate, Objects!KeysSetMinus, Objects!KeysSetIntersectAndValuesSetMinus,
         Objects!HasKey, HasKey
<1> HIDE DEF d
<1>2. d.inserts \in Objs(p, s) /\ d.deletes \in Objs(p, s) /\ d.updates \in Objs(p, s)
  BY <1>1 DEF Objs, HasKey
<1>3. d \in Deltas(p, s)
  BY <1>1, <1>2 DEF Deltas
<1>4. Leads(d, obj, goal)
  BY <1>1 DEF Leads, HasKey
<1> QED BY <1>1, <1>3, <1>4 DEF d

\* The operations of a delta are those of the objects it leads between.
LEMMA Operations ==
    ASSUME NEW p, NEW s, NEW d \in Deltas(p, s), NEW obj \in Objs(p, s), NEW goal \in Objs(p, s),
           Leads(d, obj, goal), NEW k \in Text
    PROVE  /\ HasKey(d.deletes, k) => HasKey(obj, k)
           /\ HasKey(d.updates, k) => /\ HasKey(obj, k) /\ s # 0
                                      /\ d.updates[k] = goal[k]
           /\ HasKey(d.inserts, k) => /\ ~HasKey(obj, k) /\ HasKey(goal, k)
                                      /\ d.inserts[k] = goal[k]
<1>1. CASE HasKey(d.updates, k)
  <2>1. HasKey(obj, k) /\ HasKey(goal, k) /\ obj[k] # goal[k] /\ d.updates[k] = goal[k]
    BY <1>1 DEF Leads, HasKey
  <2>2. obj[k] \in Texts(s) /\ goal[k] \in Texts(s)
    BY <2>1 DEF Objs
  <2>3. ASSUME s = 0 PROVE FALSE
    <3>1. s \in 0..MaxColumns
      BY <2>3, RecordsAssumption
    <3>2. obj[k] = <<>> /\ goal[k] = <<>>
      BY <2>2, <2>3, <3>1, TextsParsed
    <3> QED BY <2>1, <3>2
  <2> QED BY <2>1, <2>3 DEF Leads, HasKey
<1>2. CASE ~HasKey(d.updates, k)
  BY <1>2 DEF Leads, HasKey
<1> QED BY <1>1, <1>2

\* An operation that was done is no longer to do.
LEMMA LeadsDeleted ==
    ASSUME NEW p, NEW s, NEW d \in Deltas(p, s), NEW obj \in Objs(p, s), NEW goal \in Objs(p, s),
           Leads(d, obj, goal), NEW k \in Text, HasKey(d.deletes, k), NEW e \in Deltas(p, s),
           e.inserts = d.inserts, e.updates = d.updates,
           e.deletes = [d.deletes EXCEPT ![k] = Missing]
    PROVE  Leads(e, [obj EXCEPT ![k] = Missing], goal)
<1> DEFINE other == [obj EXCEPT ![k] = Missing]
<1>1. other[k] = Missing /\ \A l \in Text : l # k => other[l] = obj[l]
  BY DEF Objs
<1>2. e.deletes[k] = Missing /\ \A l \in Text : l # k => e.deletes[l] = d.deletes[l]
  BY DEF Objs, Deltas
<1> HIDE DEF other
<1>3. Leads(e, other, goal)
  BY <1>1, <1>2 DEF Leads, HasKey
<1> QED BY <1>3 DEF other

LEMMA LeadsUpdated ==
    ASSUME NEW p, NEW s, NEW d \in Deltas(p, s), NEW obj \in Objs(p, s), NEW goal \in Objs(p, s),
           Leads(d, obj, goal), NEW k \in Text, HasKey(d.updates, k), NEW e \in Deltas(p, s),
           e.inserts = d.inserts, e.deletes = d.deletes,
           e.updates = [d.updates EXCEPT ![k] = Missing]
    PROVE  Leads(e, [obj EXCEPT ![k] = d.updates[k]], goal)
<1> DEFINE other == [obj EXCEPT ![k] = d.updates[k]]
<1>1. other[k] = d.updates[k] /\ \A l \in Text : l # k => other[l] = obj[l]
  BY DEF Objs
<1>2. e.updates[k] = Missing /\ \A l \in Text : l # k => e.updates[l] = d.updates[l]
  BY DEF Objs, Deltas
<1> HIDE DEF other
<1>3. Leads(e, other, goal)
  BY <1>1, <1>2 DEF Leads, HasKey
<1> QED BY <1>3 DEF other

LEMMA LeadsInserted ==
    ASSUME NEW p, NEW s, NEW d \in Deltas(p, s), NEW obj \in Objs(p, s), NEW goal \in Objs(p, s),
           Leads(d, obj, goal), NEW k \in Text, HasKey(d.inserts, k), NEW e \in Deltas(p, s),
           e.updates = d.updates, e.deletes = d.deletes,
           e.inserts = [d.inserts EXCEPT ![k] = Missing]
    PROVE  Leads(e, [obj EXCEPT ![k] = d.inserts[k]], goal)
<1> DEFINE other == [obj EXCEPT ![k] = d.inserts[k]]
<1>1. other[k] = d.inserts[k] /\ \A l \in Text : l # k => other[l] = obj[l]
  BY DEF Objs
<1>2. e.inserts[k] = Missing /\ \A l \in Text : l # k => e.inserts[l] = d.inserts[l]
  BY DEF Objs, Deltas
<1> HIDE DEF other
<1>3. Leads(e, other, goal)
  BY <1>1, <1>2 DEF Leads, HasKey
<1> QED BY <1>3 DEF other

LEMMA LeadsDone ==
    ASSUME NEW p, NEW s, NEW d \in Deltas(p, s), NEW obj \in Objs(p, s), NEW goal \in Objs(p, s),
           Leads(d, obj, goal),
           \A k \in Text : ~HasKey(d.inserts, k) /\ ~HasKey(d.deletes, k) /\ ~HasKey(d.updates, k)
    PROVE  obj = goal
<1>1. \A k \in Text : obj[k] = goal[k]
  BY DEF Leads, HasKey
<1> QED BY <1>1 DEF Objs

-----------------------------------------------------------------------------
(* From a table to its object *)

Tables(n) == [header: {h \in [1..n -> 1..n] : \A c \in 1..n : \E i \in 1..n : h[i] = c},
              records: Seq([1..n -> Field])]

\* The fields of a record, in the order of leech.json.
FieldAt(table, i, column, n) ==
    table.records[i][CHOOSE j \in 1..n : table.header[j] = column]

KeyAt(table, i, p, s)   == Composed([c \in 1..p |-> FieldAt(table, i, c, p + s)])
ValueAt(table, i, p, s) == Composed([c \in 1..s |-> FieldAt(table, i, p + c, p + s)])

\* The object has what the first m records say, of those with the same key the last.
Final(table, i, m, p, s) ==
    \A j \in 1..m : j > i => KeyAt(table, j, p, s) # KeyAt(table, i, p, s)

MadeOf(obj, table, m, p, s) ==
    \A k \in Text :
        IF \E i \in 1..m : KeyAt(table, i, p, s) = k
        THEN \E i \in 1..m : /\ KeyAt(table, i, p, s) = k /\ Final(table, i, m, p, s)
                             /\ obj[k] = ValueAt(table, i, p, s)
        ELSE ~HasKey(obj, k)

LEMMA FieldAtType ==
    ASSUME NEW n \in Nat, NEW table \in Tables(n), NEW i \in 1..Len(table.records), NEW c \in 1..n
    PROVE  FieldAt(table, i, c, n) \in Field
<1> DEFINE chosen == CHOOSE j \in 1..n : table.header[j] = c
<1>1. \E j \in 1..n : table.header[j] = c
  BY DEF Tables
<1>2. chosen \in 1..n
  BY <1>1
<1>3. table.records[i] \in [1..n -> Field]
  <2>1. table.records \in Seq([1..n -> Field])
    BY DEF Tables
  <2> QED BY <2>1
<1> HIDE DEF chosen
<1>4. table.records[i][chosen] \in Field
  BY <1>2, <1>3
<1> QED BY <1>4 DEF FieldAt, chosen

LEMMA KeyAndValueAt ==
    ASSUME NEW p, NEW s, Bounded(p, s), NEW table \in Tables(p + s),
           NEW i \in 1..Len(table.records)
    PROVE  /\ [c \in 1..p |-> FieldAt(table, i, c, p + s)] \in [1..p -> Field]
           /\ [c \in 1..s |-> FieldAt(table, i, p + c, p + s)] \in [1..s -> Field]
           /\ KeyAt(table, i, p, s) \in Texts(p) /\ KeyAt(table, i, p, s) \in Text
           /\ ValueAt(table, i, p, s) \in Texts(s) /\ ValueAt(table, i, p, s) \in Text
<1>1. p \in Nat /\ s \in Nat /\ p + s \in Nat /\ p \in 0..MaxColumns /\ s \in 0..MaxColumns
  BY RecordsAssumption DEF Bounded
<1>2. \A c \in 1..p : c \in 1..(p + s)
  BY <1>1
<1>3. \A c \in 1..s : p + c \in 1..(p + s)
  BY <1>1
<1>4. \A c \in 1..(p + s) : FieldAt(table, i, c, p + s) \in Field
  BY <1>1, FieldAtType
<1>5. [c \in 1..p |-> FieldAt(table, i, c, p + s)] \in [1..p -> Field]
  BY <1>2, <1>4
<1>6. [c \in 1..s |-> FieldAt(table, i, p + c, p + s)] \in [1..s -> Field]
  BY <1>3, <1>4
<1>7. KeyAt(table, i, p, s) \in Texts(p) /\ ValueAt(table, i, p, s) \in Texts(s)
  BY <1>5, <1>6 DEF KeyAt, ValueAt, Texts
<1> QED BY <1>1, <1>5, <1>6, <1>7, TextsParsed

\* A record more.
LEMMA MadeOfNext ==
    ASSUME NEW p, NEW s, Bounded(p, s), NEW table \in Tables(p + s),
           NEW m \in Nat, m + 1 \in 1..Len(table.records),
           NEW obj \in Objs(p, s), MadeOf(obj, table, m, p, s)
    PROVE  LET next == [obj EXCEPT ![KeyAt(table, m + 1, p, s)] = ValueAt(table, m + 1, p, s)]
           IN  next \in Objs(p, s) /\ MadeOf(next, table, m + 1, p, s)
<1> DEFINE key  == KeyAt(table, m + 1, p, s)
           val  == ValueAt(table, m + 1, p, s)
           next == [obj EXCEPT ![key] = val]
           at(i) == KeyAt(table, i, p, s)
<1>1. key \in Texts(p) /\ key \in Text /\ val \in Texts(s) /\ val \in Text /\ val # Missing
  BY KeyAndValueAt, RecordsAssumption
<1> HIDE DEF key, val
<1>2. /\ next \in [Text -> Text \cup {Missing}]
      /\ next[key] = val /\ \A k \in Text : k # key => next[k] = obj[k]
  BY <1>1 DEF Objs
<1> HIDE DEF next
<1>3. next \in Objs(p, s)
  BY <1>1, <1>2 DEF Objs, HasKey
<1>4. /\ \A i : i \in 1..(m + 1) <=> i \in 1..m \/ i = m + 1
      /\ \A i \in 1..m : m + 1 > i
      /\ \A j \in 1..(m + 1) : ~(j > m + 1)
  OBVIOUS
<1>5. key = at(m + 1)
  BY DEF key
<1> HIDE DEF at
<1>6. /\ \A l \in Text : (\E i \in 1..m : at(i) = l) =>
            \E i \in 1..m : /\ at(i) = l
                            /\ \A j \in 1..m : j > i => at(j) # at(i)
                            /\ obj[l] = ValueAt(table, i, p, s)
      /\ \A l \in Text : ~(\E i \in 1..m : at(i) = l) => ~HasKey(obj, l)
  BY DEF MadeOf, Final, at
<1>7. ASSUME NEW k \in Text, \E i \in 1..(m + 1) : at(i) = k
      PROVE  \E i \in 1..(m + 1) : /\ at(i) = k
                                   /\ \A j \in 1..(m + 1) : j > i => at(j) # at(i)
                                   /\ next[k] = ValueAt(table, i, p, s)
  <2>1. CASE k = key
    <3>1. m + 1 \in 1..(m + 1) /\ at(m + 1) = k /\ next[k] = ValueAt(table, m + 1, p, s)
      BY <1>2, <1>4, <1>5, <2>1 DEF val
    <3> QED BY <1>4, <3>1
  <2>2. CASE k # key
    <3>1. \E i \in 1..m : at(i) = k
      BY <1>4, <1>5, <1>7, <2>2
    <3>2. PICK i \in 1..m : /\ at(i) = k
                            /\ \A j \in 1..m : j > i => at(j) # at(i)
                            /\ obj[k] = ValueAt(table, i, p, s)
      BY <1>6, <3>1
    <3>3. \A j \in 1..(m + 1) : j > i => at(j) # at(i)
      BY <1>4, <1>5, <2>2, <3>2
    <3> QED BY <1>2, <1>4, <2>2, <3>2, <3>3
  <2> QED BY <2>1, <2>2
<1>8. ASSUME NEW k \in Text, ~ \E i \in 1..(m + 1) : at(i) = k
      PROVE  ~HasKey(next, k)
  <2>1. k # key /\ ~ \E i \in 1..m : at(i) = k
    BY <1>4, <1>5, <1>8
  <2>2. ~HasKey(obj, k) /\ next[k] = obj[k]
    BY <1>2, <1>6, <2>1
  <2> QED BY <2>2 DEF HasKey
<1>9. MadeOf(next, table, m + 1, p, s)
  BY <1>7, <1>8 DEF MadeOf, Final, at
<1> QED BY <1>3, <1>9 DEF next, key, val

\* What a commit makes of a table.
LEMMA ObjectMade ==
    ASSUME NEW p, NEW s, Bounded(p, s), shape.primary = p, shape.subsidiary = s,
           NEW table \in Tables(p + s)
    PROVE  /\ TableToJsonObject(table) \in Objs(p, s)
           /\ MadeOf(TableToJsonObject(table), table, Len(table.records), p, s)
<1> DEFINE n    == Len(table.records)
           step == [i \in 1..n |-> [obj \in Objs(p, s) |->
                      [obj EXCEPT ![KeyAt(table, i, p, s)] = ValueAt(table, i, p, s)]]]
           Fits(f) == f = [i \in 0..n |->
                         IF i = 0 THEN Objects!EmptyObject
                         ELSE [f[i - 1] EXCEPT ![KeyAt(table, i, p, s)] = ValueAt(table, i, p, s)]]
           object == CHOOSE f : Fits(f)
<1>1. n \in Nat
  BY DEF Tables
<1>2. ASSUME NEW i \in 1..n, NEW obj \in Objs(p, s)
      PROVE  [obj EXCEPT ![KeyAt(table, i, p, s)] = ValueAt(table, i, p, s)] \in Objs(p, s)
  <2>1. /\ KeyAt(table, i, p, s) \in Texts(p) /\ ValueAt(table, i, p, s) \in Texts(s)
        /\ KeyAt(table, i, p, s) \in Text /\ ValueAt(table, i, p, s) \in Text
    BY KeyAndValueAt
  <2> QED BY <2>1 DEF Objs, HasKey
<1>3. step \in Steps(n, Objs(p, s))
  BY <1>2 DEF Steps
<1>4. \A i \in 1..n, obj \in Objs(p, s) :
        step[i][obj] = [obj EXCEPT ![KeyAt(table, i, p, s)] = ValueAt(table, i, p, s)]
  OBVIOUS
<1> HIDE DEF step
<1>5. PICK f \in [0..n -> Objs(p, s)] :
        f = [i \in 0..n |-> IF i = 0 THEN Objects!EmptyObject ELSE step[i][f[i - 1]]]
  <2> HIDE DEF n
  <2>1. Recursive(n, Objs(p, s), Objects!EmptyObject, step)
    BY <1>1, <1>3, EmptyObjectIs, Recursion
  <2> QED BY <2>1 DEF Recursive
<1>6. \A i \in 0..n : i # 0 => i \in 1..n /\ i - 1 \in 0..n /\ f[i - 1] \in Objs(p, s)
  <2> TAKE i \in 0..n
  <2> HAVE i # 0
  <2>1. i \in 1..n /\ i - 1 \in 0..n
    BY <1>1
  <2> QED BY <2>1
<1>7. Fits(f)
  <2> DEFINE g == [i \in 0..n |->
                      IF i = 0 THEN Objects!EmptyObject
                      ELSE [f[i - 1] EXCEPT ![KeyAt(table, i, p, s)] = ValueAt(table, i, p, s)]]
  <2>1. ASSUME NEW i \in 0..n PROVE f[i] = g[i]
    <3>1. f[i] = IF i = 0 THEN Objects!EmptyObject ELSE step[i][f[i - 1]]
      BY <1>5
    <3>2. CASE i = 0
      BY <3>1, <3>2
    <3>3. CASE i # 0
      BY <1>4, <1>6, <3>1, <3>3
    <3> QED BY <3>2, <3>3
  <2>2. f = [i \in 0..n |-> f[i]] /\ g = [i \in 0..n |-> g[i]]
    BY <1>5
  <2> HIDE DEF g
  <2>3. f = g
    BY <2>1, <2>2
  <2> QED BY <2>3 DEF g
<1>8. Fits(object)
  <2> HIDE DEF Fits
  <2> QED BY <1>7
<1>9. TableToJsonObject(table) = object[n]
  <2>1. \A i \in 1..n : \A c : FieldOf(table, table.records[i], c) = FieldAt(table, i, c, p + s)
    BY DEF FieldOf, FieldAt, Columns
  <2> QED BY DEF TableToJsonObject, KeyAt, ValueAt, FieldOf, FieldAt, Columns
<1> HIDE DEF object
<1>10. \A i \in 0..n : object[i] = IF i = 0 THEN Objects!EmptyObject
          ELSE [object[i - 1] EXCEPT ![KeyAt(table, i, p, s)] = ValueAt(table, i, p, s)]
  BY <1>8
<1> DEFINE S == {i \in 0..n : object[i] \in Objs(p, s) /\ MadeOf(object[i], table, i, p, s)}
<1> HIDE DEF Fits
<1>11. 0 \in S
  <2>1. 0 \in 0..n
    BY <1>1
  <2>2. object[0] = Objects!EmptyObject
    BY <1>10, <2>1
  <2>3. ~ \E i : i \in 1..0
    OBVIOUS
  <2>4. MadeOf(Objects!EmptyObject, table, 0, p, s)
    BY <2>3, EmptyObjectIs DEF MadeOf
  <2> QED BY <2>1, <2>2, <2>4, EmptyObjectIs
<1>12. ASSUME NEW i \in 0..(n - 1), i \in S PROVE i + 1 \in S
  <2>1. i \in Nat /\ i + 1 \in 0..n /\ i + 1 \in 1..Len(table.records) /\ (i + 1) - 1 = i
        /\ i + 1 # 0
    BY <1>1
  <2>2. object[i + 1] = [object[i] EXCEPT ![KeyAt(table, i + 1, p, s)]
                                             = ValueAt(table, i + 1, p, s)]
    BY <1>10, <2>1
  <2>3. object[i] \in Objs(p, s) /\ MadeOf(object[i], table, i, p, s)
    BY <1>12
  <2>4. object[i + 1] \in Objs(p, s) /\ MadeOf(object[i + 1], table, i + 1, p, s)
    BY <2>1, <2>2, <2>3, MadeOfNext
  <2> QED BY <2>1, <2>4
<1>13. n \in S
  <2> HIDE DEF S, n
  <2>1. \A i \in 0..n : i \in S
    BY <1>1, <1>11, <1>12, BoundedInduction
  <2> QED BY <1>1, <2>1
<1> QED BY <1>9, <1>13

\* The records that count.
Effective(table, p, s) ==
    {i \in 1..Len(table.records) : Final(table, i, Len(table.records), p, s)}

\* A record, as the destination has it.
RowAt(table, i, p, s) == <<Host>> \o [c \in 1..(p + s) |-> FieldAt(table, i, c, p + s)]

LEMMA RowForRecord ==
    ASSUME NEW p, NEW s, Bounded(p, s), NEW table \in Tables(p + s),
           NEW i \in 1..Len(table.records)
    PROVE  RowFor(KeyAt(table, i, p, s), ValueAt(table, i, p, s), s) = RowAt(table, i, p, s)
<1> DEFINE key == [c \in 1..p |-> FieldAt(table, i, c, p + s)]
           val == [c \in 1..s |-> FieldAt(table, i, p + c, p + s)]
           all == [c \in 1..(p + s) |-> FieldAt(table, i, c, p + s)]
<1>1. p \in Nat /\ s \in Nat /\ p # 0 /\ p \in 0..MaxColumns /\ s \in 0..MaxColumns
  BY RecordsAssumption DEF Bounded
<1>2. key \in [1..p -> Field] /\ val \in [1..s -> Field]
  BY KeyAndValueAt
<1>3. \A c \in 1..p : key[c] = FieldAt(table, i, c, p + s)
  OBVIOUS
<1>4. \A c \in 1..s : val[c] = FieldAt(table, i, p + c, p + s)
  OBVIOUS
<1>5. \A c \in 1..(p + s) : all[c] = FieldAt(table, i, c, p + s)
  OBVIOUS
<1>6. all \in [1..(p + s) -> Field]
  BY <1>1, FieldAtType
<1>7. KeyAt(table, i, p, s) = Composed(key) /\ ValueAt(table, i, p, s) = Composed(val)
      /\ RowAt(table, i, p, s) = <<Host>> \o all
  BY DEF KeyAt, ValueAt, RowAt
<1> HIDE DEF key, val, all
<1>8. /\ Parsed(Composed(key)) = key /\ key \in Seq(Field) /\ Len(key) = p
      /\ val \in Seq(Field) /\ Len(val) = s /\ (s # 0 => Parsed(Composed(val)) = val)
  BY <1>1, <1>2, ComposedText
<1>9. all \in Seq(Field) /\ Len(all) = p + s
  BY <1>1, <1>6
<1>10. CASE s = 0
  <2>1. all = key
    <3>1. Len(all) = Len(key)
      BY <1>1, <1>8, <1>9, <1>10
    <3>2. \A c \in 1..Len(all) : c \in 1..p /\ c \in 1..(p + s)
      BY <1>1, <1>9, <1>10
    <3>3. \A c \in 1..Len(all) : all[c] = key[c]
      BY <1>3, <1>5, <3>2
    <3> QED BY <1>8, <1>9, <3>1, <3>3, SeqEqual
  <2> QED BY <1>7, <1>8, <1>10, <2>1 DEF RowFor
<1>11. CASE s # 0
  <2>1. /\ key \o val \in Seq(Field) /\ Len(key \o val) = p + s
        /\ \A c \in 1..(p + s) : (key \o val)[c] = IF c <= p THEN key[c] ELSE val[c - p]
    BY <1>8, ConcatProperties
  <2>2. ASSUME NEW c \in 1..(p + s) PROVE (key \o val)[c] = all[c]
    <3>1. CASE c <= p
      <4>1. c \in 1..p
        BY <1>1, <3>1
      <4> QED BY <1>3, <1>5, <2>1, <3>1, <4>1
    <3>2. CASE ~(c <= p)
      <4>1. c - p \in 1..s /\ p + (c - p) = c
        BY <1>1, <3>2
      <4>2. val[c - p] = FieldAt(table, i, p + (c - p), p + s)
        BY <1>4, <4>1
      <4> QED BY <1>5, <2>1, <3>2, <4>1, <4>2
    <3> QED BY <3>1, <3>2
  <2>3. key \o val = all
    BY <1>9, <2>1, <2>2, SeqEqual
  <2> QED BY <1>7, <1>8, <1>11, <2>3 DEF RowFor
<1> QED BY <1>10, <1>11

\* The rows of the host are the records that count, each once.
LEMMA Mirrored ==
    ASSUME NEW p, NEW s, Bounded(p, s), NEW table \in Tables(p + s),
           NEW content \in Seq(Row(p, s)), NEW obj \in Objs(p, s),
           MadeOf(obj, table, Len(table.records), p, s), Represents(content, obj, s)
    PROVE  /\ Len(OfHosts(content, {Host})) = Cardinality(Effective(table, p, s))
           /\ ToSet(OfHosts(content, {Host}))
                 = {RowAt(table, i, p, s) : i \in Effective(table, p, s)}
<1> DEFINE E     == Effective(table, p, s)
           I     == OfIndices(content, {Host})
           row(e) == RowAt(table, e, p, s)
           at(e) == KeyAt(table, e, p, s)
           val(e) == ValueAt(table, e, p, s)
           n     == Len(table.records)
<1>1. p \in 1..MaxColumns /\ s \in 0..MaxColumns /\ n \in Nat
  BY DEF Bounded, Tables
<1>2. \A i \in 1..n : at(i) \in Texts(p) /\ val(i) \in Texts(s) /\ at(i) \in Text
                      /\ val(i) \in Text /\ RowFor(at(i), val(i), s) = row(i)
  BY KeyAndValueAt, RowForRecord
<1>3. \A i : i \in E <=> i \in 1..n /\ \A j \in 1..n : j > i => at(j) # at(i)
  BY DEF Effective, Final
<1>4. \A i : i \in I <=> i \in 1..Len(content) /\ content[i][1] = Host
  BY DEF OfIndices
<1>5. \A k \in Text : IF \E i \in 1..n : at(i) = k
                      THEN \E i \in 1..n : /\ at(i) = k /\ (\A j \in 1..n : j > i => at(j) # at(i))
                                           /\ obj[k] = val(i)
                      ELSE ~HasKey(obj, k)
  BY DEF MadeOf, Final
<1> HIDE DEF E, I, row, at, val
<1>6. ASSUME NEW e \in E, NEW d \in E, at(e) = at(d) PROVE e = d
  <2>1. e \in 1..n /\ d \in 1..n /\ ~(d > e) /\ ~(e > d)
    BY <1>3, <1>6
  <2> QED BY <1>1, <2>1
<1>7. ASSUME NEW e \in E PROVE HasKey(obj, at(e)) /\ obj[at(e)] = val(e)
  <2>1. e \in 1..n /\ at(e) \in Text /\ val(e) \in Text
    BY <1>2, <1>3
  <2>2. PICK d \in 1..n : /\ at(d) = at(e) /\ (\A j \in 1..n : j > d => at(j) # at(d))
                          /\ obj[at(e)] = val(d)
    BY <1>5, <2>1
  <2>3. d = e
    BY <1>3, <1>6, <2>2
  <2> QED BY <2>1, <2>2, <2>3, RecordsAssumption DEF HasKey
<1>8. ASSUME NEW i \in I PROVE \E e \in E : content[i] = row(e)
  <2>1. i \in 1..Len(content) /\ content[i][1] = Host
    BY <1>4
  <2>2. PICK k \in Text : HasKey(obj, k) /\ content[i] = RowFor(k, obj[k], s)
    BY <2>1 DEF Represents
  <2>3. PICK e \in 1..n : /\ at(e) = k /\ (\A j \in 1..n : j > e => at(j) # at(e))
                          /\ obj[k] = val(e)
    BY <1>5, <2>2
  <2>4. e \in E
    BY <1>3, <2>3
  <2> QED BY <1>2, <2>2, <2>3, <2>4
<1>9. ASSUME NEW e \in E PROVE \E i \in I : content[i] = row(e)
  <2>1. e \in 1..n /\ HasKey(obj, at(e)) /\ obj[at(e)] = val(e)
    BY <1>3, <1>7
  <2>2. PICK i \in 1..Len(content) : content[i] = RowFor(at(e), val(e), s)
    BY <1>2, <2>1 DEF Represents
  <2>3. at(e) \in Texts(p) /\ val(e) \in Texts(s)
    BY <1>2, <2>1
  <2>4. RowFor(at(e), val(e), s)[1] = Host
    BY <1>1, <2>3, RowForIs
  <2> QED BY <1>2, <1>4, <2>1, <2>2, <2>4
<1>10. ASSUME NEW e \in E, NEW d \in E, row(e) = row(d) PROVE e = d
  <2>1. e \in 1..n /\ d \in 1..n
    BY <1>3
  <2>2. RowFor(at(e), val(e), s) = RowFor(at(d), val(d), s)
    BY <1>2, <1>10, <2>1
  <2>3. at(e) = at(d)
    BY <1>1, <1>2, <2>1, <2>2, RowForOnce
  <2> QED BY <1>6, <2>3
<1>11. ASSUME NEW i \in I, NEW j \in I, content[i] = content[j] PROVE i = j
  BY <1>4, <1>11 DEF Represents
<1> DEFINE f == [i \in I |-> CHOOSE e \in E : content[i] = row(e)]
<1>12. \A i \in I : f[i] \in E /\ content[i] = row(f[i])
  BY <1>8
<1>13. f \in [I -> E]
  BY <1>12
<1> HIDE DEF f
<1>14. f \in Bijection(I, E)
  <2>1. \A i, j \in I : f[i] = f[j] => i = j
    BY <1>11, <1>12
  <2>2. \A e \in E : \E i \in I : f[i] = e
    BY <1>9, <1>10, <1>12
  <2> QED BY <1>13, <2>1, <2>2 DEF Bijection, Injection, Surjection, IsInjective
<1>15. content \in Rows
  BY RowsAreRows
<1>16. Cardinality(E) = Cardinality(I)
  <2>1. IsFiniteSet(I)
    BY <1>15, OfIndicesFinite DEF I
  <2>2. ExistsBijection(I, E)
    BY <1>14 DEF ExistsBijection
  <2> QED BY <2>1, <2>2, FS_Bijection
<1>17. AreOfHosts(content, {Host})
  BY <1>15, RowsOfHosts
<1>18. Len(OfHosts(content, {Host})) = Cardinality(E)
  BY <1>16, <1>17 DEF AreOfHosts, I
<1>19. ToSet(OfHosts(content, {Host})) = {row(e) : e \in E}
  <2>1. \A r : r \in ToSet(OfHosts(content, {Host})) <=> \E i \in I : r = content[i]
    BY <1>17 DEF AreOfHosts, I
  <2>2. \A r : (\E i \in I : r = content[i]) <=> \E e \in E : r = row(e)
    BY <1>8, <1>9
  <2> QED BY <2>1, <2>2
<1> QED BY <1>18, <1>19 DEF E, row

-----------------------------------------------------------------------------
(* The inductive invariant *)

\* A table has the columns of the shape, one of them at least primary.
LEMMA ShapeBounded ==
    ASSUME NEW sh \in Shapes
    PROVE  Bounded(sh.primary, sh.subsidiary)
BY DEF Shapes, Bounded

\* A source, and the set of sources, of a table with n columns.
SourcesOf(n) ==
    [header: {h \in [1..n -> 1..n] : \A c \in 1..n : \E i \in 1..n : h[i] = c},
     records: {r \in BoundedSeq([1..n -> Field], MaxRecords) :
                  r = <<>> \/ Last(r) # <<Empty>>}]

LEMMA SourcesAre == Sources = SourcesOf(shape.primary + shape.subsidiary)
BY DEF Sources, SourcesOf, Header, Columns

LEMMA SourcesAreTables ==
    ASSUME NEW n \in Nat
    PROVE  SourcesOf(n) \subseteq Tables(n)
<1>1. ASSUME NEW r \in BoundedSeq([1..n -> Field], MaxRecords)
      PROVE  r \in Seq([1..n -> Field])
  <2>1. PICK m \in 0..MaxRecords : r \in [1..m -> [1..n -> Field]]
    BY DEF BoundedSeq, SeqOf
  <2>2. m \in Nat
    BY RecordsAssumption
  <2> QED BY <2>1, <2>2
<1> QED BY <1>1 DEF SourcesOf, Tables

\* A patch command that is on its way.
Patches(p, s) == [pc: {"patch"}, delta: Deltas(p, s), content: Seq(Row(p, s))]

StateInv ==
    /\ shape \in Shapes
    /\ source \in SourcesOf(shape.primary + shape.subsidiary)
    /\ snapshot \in Objs(shape.primary, shape.subsidiary)
    /\ MadeOf(snapshot, source, Len(source.records), shape.primary, shape.subsidiary)
    /\ rows \in Seq(Row(shape.primary, shape.subsidiary))
    /\ headed \in BOOLEAN
    /\ command = Idle \/ command \in Patches(shape.primary, shape.subsidiary)
    /\ trusted \in BOOLEAN
    /\ commits \in 0..MaxCommits
    /\ misled \in BOOLEAN

\* As long as no record can have lost its key or be there twice, all have their
\* columns, and those of the host are the snapshot's when the last patch succeeded.
RowsInv ==
    /\ Hollow(snapshot) => misled
    /\ ~misled => \A i \in 1..Len(rows) : Len(rows[i]) = 1 + shape.primary + shape.subsidiary
    /\ command = Idle /\ trusted /\ ~misled => Represents(rows, snapshot, shape.subsidiary)

\* The patch under way neither meets a record without its key nor leaves one.
Solid ==
    /\ ~Hollow(snapshot)
    /\ misled => command.delta.type = "rebase"

\* The content stands for some object, and what is left of the delta leads from it
\* to the snapshot.
OnTheWay(content, d, goal, p, s) ==
    \E obj \in Objs(p, s) : Represents(content, obj, s) /\ Leads(d, obj, goal)

PatchInv ==
    command # Idle =>
        /\ OfHosts(command.content, {Other}) = OfHosts(rows, {Other})
        /\ Solid => OnTheWay(command.content, command.delta, snapshot,
                             shape.primary, shape.subsidiary)

IInv == StateInv /\ RowsInv /\ PatchInv

LEMMA IdleIs ==
    ASSUME NEW p, NEW s
    PROVE  /\ Idle.pc = "idle"
           /\ \A c \in Patches(p, s) : c.pc = "patch" /\ c # Idle
<1>1. Idle.pc = "idle"
  BY DEF Idle
<1>2. \A c \in Patches(p, s) : c.pc = "patch"
  BY DEF Patches
<1> QED BY <1>1, <1>2

\* What every step may rely on.
LEMMA Facts ==
    ASSUME StateInv
    PROVE  /\ Bounded(shape.primary, shape.subsidiary)
           /\ shape.primary \in Nat /\ shape.subsidiary \in Nat
           /\ source \in Tables(shape.primary + shape.subsidiary)
<1>1. Bounded(shape.primary, shape.subsidiary)
  BY ShapeBounded DEF StateInv
<1>2. shape.primary \in Nat /\ shape.subsidiary \in Nat
      /\ shape.primary + shape.subsidiary \in Nat
  BY <1>1, RecordsAssumption DEF Bounded
<1> QED BY <1>1, <1>2, SourcesAreTables DEF StateInv

LEMMA InitInv == Init => IInv
<1> SUFFICES ASSUME Init PROVE IInv
  OBVIOUS
<1> DEFINE p == shape.primary
           s == shape.subsidiary
<1>1. shape \in Shapes /\ Bounded(p, s)
  BY ShapeBounded DEF Init
<1>2. p \in Nat /\ s \in Nat /\ p + s \in Nat
  BY <1>1, RecordsAssumption DEF Bounded
<1>3. Columns = 1..(p + s)
  BY DEF Columns
<1>4. /\ source = [header |-> [c \in 1..(p + s) |-> c], records |-> <<>>]
      /\ snapshot = Objects!EmptyObject
      /\ \E fields \in BoundedSeq(Field, MaxRecords) :
            rows = [i \in DOMAIN fields |-> <<Other>> \o [c \in 1..(p + s) |-> fields[i]]]
      /\ headed = TRUE /\ command = Idle /\ trusted = TRUE /\ commits = 0 /\ misled = FALSE
  BY <1>3 DEF Init
<1> HIDE DEF p, s
<1>5. source \in SourcesOf(p + s) /\ Len(source.records) = 0
  <2> DEFINE h == [c \in 1..(p + s) |-> c]
  <2>1. h \in {g \in [1..(p + s) -> 1..(p + s)] :
                 \A c \in 1..(p + s) : \E i \in 1..(p + s) : g[i] = c}
    OBVIOUS
  <2> HIDE DEF h
  <2>2. <<>> \in BoundedSeq([1..(p + s) -> Field], MaxRecords)
    <3>1. 0 \in 0..MaxRecords
      BY RecordsAssumption
    <3>2. <<>> \in [1..0 -> [1..(p + s) -> Field]]
      OBVIOUS
    <3> QED BY <3>1, <3>2 DEF BoundedSeq, SeqOf
  <2> QED BY <1>4, <2>1, <2>2 DEF SourcesOf, h
<1>6. /\ snapshot \in Objs(p, s)
      /\ MadeOf(snapshot, source, Len(source.records), p, s)
      /\ \A k \in Text : ~HasKey(snapshot, k)
  <2>1. ~ \E i : i \in 1..0
    OBVIOUS
  <2>2. MadeOf(Objects!EmptyObject, source, 0, p, s)
    BY <2>1, EmptyObjectIs DEF MadeOf
  <2> QED BY <1>4, <1>5, <2>2, EmptyObjectIs
<1>7. /\ rows \in Seq(Row(p, s))
      /\ \A i \in 1..Len(rows) : Len(rows[i]) = 1 + p + s /\ rows[i][1] # Host
  <2>1. PICK fields \in BoundedSeq(Field, MaxRecords) :
          rows = [i \in DOMAIN fields |-> <<Other>> \o [c \in 1..(p + s) |-> fields[i]]]
    BY <1>4
  <2>2. fields \in Seq(Field)
    BY RecordsAssumption DEF BoundedSeq, SeqOf
  <2>3. /\ DOMAIN fields = 1..Len(fields) /\ Len(fields) \in Nat
        /\ \A i \in 1..Len(fields) : fields[i] \in Field
    BY <2>2
  <2>4. ASSUME NEW i \in 1..Len(fields)
        PROVE  rows[i] \in Row(p, s) /\ Len(rows[i]) = 1 + p + s /\ rows[i][1] # Host
    <3> DEFINE all == [c \in 1..(p + s) |-> fields[i]]
               row == <<Other>> \o all
    <3>1. fields[i] \in Field
      BY <2>3, <2>4
    <3>2. all \in Seq(Cell) /\ Len(all) = p + s /\ <<Other>> \in Seq(Cell)
          /\ Len(<<Other>>) = 1 /\ <<Other>>[1] = Other
      BY <1>2, <3>1 DEF Cell
    <3> HIDE DEF all
    <3>3. /\ row \in Seq(Cell) /\ Len(row) = 1 + (p + s)
          /\ \A j \in 1..(1 + (p + s)) : row[j] = IF j <= 1 THEN <<Other>>[j] ELSE all[j - 1]
      BY <3>2, ConcatProperties
    <3>4. 1 \in 1..(1 + (p + s)) /\ 1 <= 1 /\ 1 + (p + s) = 1 + p + s
      BY <1>2
    <3>5. row[1] = Other
      BY <3>2, <3>3, <3>4
    <3> HIDE DEF row
    <3>6. row \in Row(p, s) /\ Len(row) = 1 + p + s /\ row[1] # Host
      BY <3>3, <3>4, <3>5, RecordsAssumption DEF Row
    <3>7. rows[i] = row
      BY <2>1, <2>3, <2>4 DEF row, all
    <3> QED BY <3>6, <3>7
  <2>5. rows = [i \in 1..Len(fields) |-> rows[i]]
    BY <2>1, <2>3
  <2>6. rows \in Seq(Row(p, s)) /\ Len(rows) = Len(fields)
    BY <2>3, <2>4, <2>5
  <2> QED BY <2>4, <2>6
<1>8. Represents(rows, snapshot, s)
  BY <1>6, <1>7 DEF Represents
<1>9. ~Hollow(snapshot)
  <2>1. Composed(<<Empty>>) \in Text
    <3>1. 0 \in 0..MaxColumns /\ <<>> \in [1..0 -> Field] /\ <<>> # <<Empty>>
      BY RecordsAssumption
    <3>2. <<>> \in Text
      BY <3>1, TextIs
    <3> QED BY <3>2 DEF Composed
  <2> QED BY <1>6, <2>1 DEF Hollow
<1>10. StateInv
  <2>1. commits \in 0..MaxCommits
    BY <1>4, RecordsAssumption
  <2> QED BY <1>1, <1>4, <1>5, <1>6, <1>7, <2>1 DEF StateInv, p, s
<1>11. RowsInv
  BY <1>7, <1>8, <1>9 DEF RowsInv, p, s
<1>12. PatchInv
  BY <1>4 DEF PatchInv
<1> QED BY <1>10, <1>11, <1>12 DEF IInv

\* A failed patch leaves everything but the trust in the destination.
LEMMA FailInv ==
    ASSUME IInv, Fail
    PROVE  IInv'
<1>1. /\ command' = Idle /\ trusted' = FALSE
      /\ shape' = shape /\ source' = source /\ snapshot' = snapshot /\ rows' = rows
      /\ headed' = headed /\ commits' = commits /\ misled' = misled
  BY DEF Fail
<1>2. StateInv'
  BY <1>1 DEF IInv, StateInv, Idle
<1>3. RowsInv'
  BY <1>1 DEF IInv, RowsInv, Hollow, HasKey
<1>4. PatchInv'
  BY <1>1 DEF PatchInv, Idle
<1> QED BY <1>2, <1>3, <1>4 DEF IInv

LEMMA CommitInv ==
    ASSUME IInv, Commit
    PROVE  IInv'
<1> DEFINE p == shape.primary
           s == shape.subsidiary
<1>1. /\ command = Idle /\ commits < MaxCommits /\ commits' = commits + 1
      /\ shape' = shape /\ rows' = rows /\ headed' = headed /\ trusted' = trusted
  BY DEF Commit
<1>2. PICK new \in Sources :
        /\ source' = new
        /\ snapshot' = TableToJsonObject(new)
        /\ misled' = (misled \/ Hollow(TableToJsonObject(new)))
        /\ IF trusted
           THEN PatchWith(Objects!DeltaCreate("delta", TableToJsonObject(new), snapshot), rows)
           ELSE UNCHANGED command
  BY DEF Commit
<1>3. PICK obj : obj = TableToJsonObject(new)
  OBVIOUS
<1>4. Bounded(p, s) /\ p \in Nat /\ s \in Nat /\ p + s \in Nat
  BY Facts DEF IInv
<1>5. new \in SourcesOf(p + s) /\ new \in Tables(p + s)
  BY <1>4, SourcesAre, SourcesAreTables
<1>6. obj \in Objs(p, s) /\ MadeOf(obj, new, Len(new.records), p, s)
  BY <1>3, <1>4, <1>5, ObjectMade
<1>7. snapshot \in Objs(p, s) /\ rows \in Seq(Row(p, s))
  BY DEF IInv, StateInv
<1>8. PICK d : d = Objects!DeltaCreate("delta", obj, snapshot)
  OBVIOUS
<1>9. d \in Deltas(p, s) /\ d.type = "delta" /\ Leads(d, snapshot, obj)
  BY <1>6, <1>7, <1>8, DeltaCreated
<1>10. /\ source' = new /\ snapshot' = obj /\ misled' = (misled \/ Hollow(obj))
       /\ trusted => command' = [pc |-> "patch", delta |-> d, content |-> rows]
       /\ ~trusted => command' = Idle
  BY <1>1, <1>2, <1>3, <1>8 DEF PatchWith
<1>11. trusted => command' \in Patches(p, s) /\ command'.delta = d /\ command'.content = rows
  BY <1>7, <1>9, <1>10 DEF Patches
<1>12. trusted \in BOOLEAN /\ misled \in BOOLEAN /\ misled' \in BOOLEAN
  <2>1. trusted \in BOOLEAN /\ misled \in BOOLEAN
    BY DEF IInv, StateInv
  <2>2. Hollow(obj) \in BOOLEAN
    BY DEF Hollow
  <2> QED BY <1>10, <2>1, <2>2
<1>13. commits' \in 0..MaxCommits
  BY <1>1, RecordsAssumption DEF IInv, StateInv
<1>14. StateInv'
  BY <1>1, <1>5, <1>6, <1>7, <1>10, <1>11, <1>12, <1>13 DEF IInv, StateInv, Idle
<1>15. Hollow(snapshot)' <=> Hollow(obj)
  BY <1>1, <1>10 DEF Hollow, HasKey
<1>16. RowsInv'
  <2>1. trusted => command' # Idle
    BY <1>11, IdleIs
  <2>2. Hollow(snapshot)' => misled'
    BY <1>10, <1>12, <1>15
  <2>3. ~misled' => ~misled
    BY <1>10, <1>12
  <2>4. Idle' = Idle
    BY DEF Idle
  <2> QED BY <1>1, <2>1, <2>2, <2>3, <2>4 DEF IInv, RowsInv
<1>17. PatchInv'
  <2>1. Idle' = Idle
    BY DEF Idle
  <2>2. CASE ~trusted
    BY <1>10, <2>1, <2>2 DEF PatchInv
  <2>3. CASE trusted
    <3>1. command'.delta = d /\ command'.content = rows
      BY <1>11, <2>3
    <3>2. Solid' => ~misled
      BY <1>9, <1>10, <1>12, <3>1 DEF Solid
    <3>3. ~misled => Represents(rows, snapshot, s)
      BY <1>1, <2>3 DEF IInv, RowsInv
    <3>4. Solid' => OnTheWay(rows, d, obj, p, s)
      BY <1>7, <1>9, <3>2, <3>3 DEF OnTheWay
    <3> QED BY <1>1, <1>10, <3>1, <3>4 DEF PatchInv
  <2> QED BY <2>2, <2>3
<1> QED BY <1>14, <1>16, <1>17 DEF IInv

LEMMA RebaseInv ==
    ASSUME IInv, Rebase
    PROVE  IInv'
<1> DEFINE p == shape.primary
           s == shape.subsidiary
<1>1. /\ shape' = shape /\ source' = source /\ snapshot' = snapshot /\ rows' = rows
      /\ headed' = headed /\ trusted' = trusted /\ commits' = commits /\ misled' = misled
  BY DEF Rebase
<1>2. Bounded(p, s) /\ snapshot \in Objs(p, s) /\ rows \in Seq(Row(p, s))
  BY Facts DEF IInv, StateInv
<1>3. PICK d : d = Objects!DeltaCreate("rebase", snapshot, Objects!EmptyObject)
  OBVIOUS
<1>4. PICK content : content = Truncated(rows)
  OBVIOUS
<1>5. command' = [pc |-> "patch", delta |-> d, content |-> content]
  BY <1>3, <1>4 DEF Rebase, PatchWith
<1>6. d \in Deltas(p, s) /\ d.type = "rebase" /\ Leads(d, Objects!EmptyObject, snapshot)
  BY <1>2, <1>3, EmptyObjectIs, DeltaCreated
<1>7. /\ content \in Seq(Row(p, s))
      /\ OfHosts(content, {Other}) = OfHosts(rows, {Other})
      /\ \A i \in 1..Len(content) : content[i][1] = Other
  BY <1>2, <1>4, RowsTruncated
<1>8. command' \in Patches(p, s) /\ command'.delta = d /\ command'.content = content
  BY <1>5, <1>6, <1>7 DEF Patches
<1>9. Represents(content, Objects!EmptyObject, s)
  BY <1>7, EmptyObjectIs, RecordsAssumption DEF Represents
<1>10. OnTheWay(content, d, snapshot, p, s)
  BY <1>6, <1>9, EmptyObjectIs DEF OnTheWay
<1>11. StateInv'
  BY <1>1, <1>8 DEF IInv, StateInv
<1>12. RowsInv'
  <2>1. command' # Idle' /\ Idle' = Idle
    BY <1>8, IdleIs DEF Idle
  <2> QED BY <1>1, <2>1 DEF IInv, RowsInv, Hollow, HasKey
<1>13. PatchInv'
  BY <1>1, <1>7, <1>8, <1>10 DEF PatchInv
<1> QED BY <1>11, <1>12, <1>13 DEF IInv

-----------------------------------------------------------------------------
(* The operations of a patch *)

\* The transaction after an operation: one less of it is left.
Dropped(obj, k, drop) == IF drop THEN [obj EXCEPT ![k] = Missing] ELSE obj

Left(operation, k, content, p, s) ==
    /\ command' \in Patches(p, s)
    /\ command'.content = content
    /\ command'.delta.type = command.delta.type
    /\ command'.delta.inserts = Dropped(command.delta.inserts, k, operation = "inserts")
    /\ command'.delta.deletes = Dropped(command.delta.deletes, k, operation = "deletes")
    /\ command'.delta.updates = Dropped(command.delta.updates, k, operation = "updates")

LEMMA DoneIs ==
    ASSUME NEW p, NEW s, command \in Patches(p, s), NEW k \in Text,
           NEW operation \in {"inserts", "deletes", "updates"},
           NEW content \in Seq(Row(p, s)), Done(operation, k, content)
    PROVE  Left(operation, k, content, p, s)
<1>1. command' = [command EXCEPT !.delta[operation][k] = Missing, !.content = content]
  BY DEF Done
<1>2. PICK c : c = command
  OBVIOUS
<1>3. PICK d : d = c.delta
  OBVIOUS
<1>4. /\ c = [pc |-> "patch", delta |-> d, content |-> c.content]
      /\ d = [type |-> d.type, inserts |-> d.inserts, deletes |-> d.deletes, updates |-> d.updates]
      /\ d.type \in {"delta", "rebase"}
      /\ d.inserts \in Objs(p, s) /\ d.deletes \in Objs(p, s) /\ d.updates \in Objs(p, s)
  BY <1>2, <1>3 DEF Patches, Deltas
<1>5. \A obj \in Objs(p, s) : [obj EXCEPT ![k] = Missing] \in Objs(p, s)
  BY DEF Objs, HasKey
<1>6. PICK e : e = [d EXCEPT ![operation][k] = Missing]
  OBVIOUS
<1>7. command' = [pc |-> "patch", delta |-> e, content |-> content]
  <2>1. PICK step : step = [c EXCEPT !.delta[operation][k] = Missing]
    OBVIOUS
  <2>2. command' = [step EXCEPT !.content = content]
    BY <1>1, <1>2, <2>1
  <2>3. step = [c EXCEPT !.delta = [c.delta EXCEPT ![operation][k] = Missing]]
    BY <2>1
  <2>4. step = [c EXCEPT !.delta = e]
    BY <1>3, <1>6, <2>3
  <2>5. step = [pc |-> "patch", delta |-> e, content |-> c.content]
    BY <1>4, <2>4
  <2> QED BY <2>2, <2>5
<1>8. /\ e.type = d.type
      /\ e.inserts = IF operation = "inserts" THEN [d.inserts EXCEPT ![k] = Missing] ELSE d.inserts
      /\ e.deletes = IF operation = "deletes" THEN [d.deletes EXCEPT ![k] = Missing] ELSE d.deletes
      /\ e.updates = IF operation = "updates" THEN [d.updates EXCEPT ![k] = Missing] ELSE d.updates
      /\ e = [type |-> e.type, inserts |-> e.inserts, deletes |-> e.deletes, updates |-> e.updates]
  BY <1>4, <1>6
<1>9. e \in Deltas(p, s)
  BY <1>4, <1>5, <1>8 DEF Deltas
<1>10. command' \in Patches(p, s) /\ command'.delta = e /\ command'.content = content
  BY <1>7, <1>9 DEF Patches
<1> QED BY <1>2, <1>3, <1>8, <1>10 DEF Left, Dropped

\* An operation keeps the invariant when the new content has the rows of other
\* hosts and is on the way if the old one was.
LEMMA OperationInv ==
    ASSUME IInv, UNCHANGED <<shape, source, snapshot, rows, headed, trusted, commits, misled>>,
           command \in Patches(shape.primary, shape.subsidiary),
           command' \in Patches(shape.primary, shape.subsidiary),
           command'.delta.type = command.delta.type,
           OfHosts(command'.content, {Other}) = OfHosts(command.content, {Other}),
           Solid => OnTheWay(command'.content, command'.delta, snapshot,
                             shape.primary, shape.subsidiary)
    PROVE  IInv'
<1>1. command # Idle /\ command' # Idle /\ Idle' = Idle
  BY IdleIs DEF Idle
<1>2. Solid' => Solid
  BY DEF Solid, Hollow, HasKey
<1>3. StateInv'
  BY DEF IInv, StateInv
<1>4. RowsInv'
  BY <1>1 DEF IInv, RowsInv, Hollow, HasKey
<1>5. PatchInv'
  BY <1>1, <1>2 DEF IInv, PatchInv
<1> QED BY <1>3, <1>4, <1>5 DEF IInv

\* What an operation of the patch is about.
LEMMA PatchFacts ==
    ASSUME IInv, Patching
    PROVE  LET p == shape.primary
               s == shape.subsidiary
           IN  /\ Bounded(p, s)
               /\ command \in Patches(p, s)
               /\ command.delta \in Deltas(p, s)
               /\ command.delta.inserts \in Objs(p, s)
               /\ command.delta.deletes \in Objs(p, s)
               /\ command.delta.updates \in Objs(p, s)
               /\ command.content \in Seq(Row(p, s))
               /\ snapshot \in Objs(p, s)
               /\ Solid => OnTheWay(command.content, command.delta, snapshot, p, s)
<1> DEFINE p == shape.primary
           s == shape.subsidiary
<1>1. Bounded(p, s)
  BY Facts DEF IInv
<1>2. command # Idle
  BY IdleIs DEF Patching
<1>3. command \in Patches(p, s)
  BY <1>2 DEF IInv, StateInv
<1>4. command.delta \in Deltas(p, s) /\ command.content \in Seq(Row(p, s))
  BY <1>3 DEF Patches
<1>5. /\ command.delta.inserts \in Objs(p, s)
      /\ command.delta.deletes \in Objs(p, s)
      /\ command.delta.updates \in Objs(p, s)
  BY <1>4 DEF Deltas
<1>6. snapshot \in Objs(p, s)
  BY DEF IInv, StateInv
<1>7. Solid => OnTheWay(command.content, command.delta, snapshot, p, s)
  BY <1>2 DEF IInv, PatchInv
<1> QED BY <1>1, <1>3, <1>4, <1>5, <1>6, <1>7

\* The record that the key fields find.
LEMMA MatchIs ==
    ASSUME NEW p, NEW s, Bounded(p, s), NEW content \in Seq(Row(p, s)), NEW k \in Texts(p),
           FirstMatch(content, KeyFields(k)) # 0
    PROVE  LET i == FirstMatch(content, KeyFields(k))
           IN  i \in 1..Len(content) /\ content[i] \in Row(p, s) /\ content[i][1] = Host
<1> DEFINE i == FirstMatch(content, KeyFields(k))
<1>1. p \in 1..MaxColumns
  BY DEF Bounded
<1>2. content \in Seq(Seq(Cell)) /\ \A j \in 1..Len(content) : Len(content[j]) >= 1 + p
  BY RowsAreRows DEF Rows
<1>3. i \in 1..Len(content) /\ Starts(content[i], k, p)
  BY <1>1, <1>2, FirstMatchIs
<1> HIDE DEF i
<1>4. content[i][1] = Host
  BY <1>3 DEF Starts
<1> QED BY <1>3, <1>4 DEF i

\* The keys of an object are keys of the table.
LEMMA KeysAre ==
    ASSUME NEW p, NEW s, NEW obj \in Objs(p, s), NEW k \in Keys(obj)
    PROVE  k \in Text /\ HasKey(obj, k) /\ k \in Texts(p) /\ obj[k] \in Texts(s)
BY DEF Keys, Objs

LEMMA TablePatchDeletesInv ==
    ASSUME IInv, TablePatchDeletes
    PROVE  IInv'
<1> DEFINE p == shape.primary
           s == shape.subsidiary
<1>1. PICK c, d : c = command.content /\ d = command.delta
  OBVIOUS
<1>2. /\ Bounded(p, s) /\ command \in Patches(p, s) /\ d \in Deltas(p, s)
      /\ d.deletes \in Objs(p, s) /\ c \in Seq(Row(p, s)) /\ snapshot \in Objs(p, s)
      /\ Solid => OnTheWay(c, d, snapshot, p, s)
  BY <1>1, PatchFacts DEF TablePatchDeletes
<1>3. PICK k \in Keys(d.deletes) :
        \/ Fail
        \/ /\ FirstMatch(c, KeyFields(k)) # 0
           /\ Done("deletes", k, RemoveAt(c, FirstMatch(c, KeyFields(k))))
           /\ UNCHANGED <<shape, source, snapshot, rows, headed, trusted, commits, misled>>
  BY <1>1 DEF TablePatchDeletes
<1>4. PICK i : i = FirstMatch(c, KeyFields(k))
  OBVIOUS
<1>5. CASE Fail
  BY <1>5, FailInv
<1>6. CASE ~Fail
  <2>1. /\ i # 0 /\ Done("deletes", k, RemoveAt(c, i))
        /\ UNCHANGED <<shape, source, snapshot, rows, headed, trusted, commits, misled>>
    BY <1>3, <1>4, <1>6
  <2>2. k \in Text /\ HasKey(d.deletes, k) /\ k \in Texts(p)
    BY <1>2, KeysAre
  <2>3. i \in 1..Len(c) /\ c[i] \in Row(p, s) /\ c[i][1] = Host
    BY <1>2, <1>4, <2>1, <2>2, MatchIs
  <2>4. /\ RemoveAt(c, i) \in Seq(Row(p, s))
        /\ OfHosts(RemoveAt(c, i), {Other}) = OfHosts(c, {Other})
    BY <1>2, <2>3, RowRemoved
  <2>5. PICK e : e = command'.delta
    OBVIOUS
  <2>6. /\ command' \in Patches(p, s) /\ command'.content = RemoveAt(c, i)
        /\ e.type = d.type /\ e.inserts = d.inserts /\ e.updates = d.updates
        /\ e.deletes = [d.deletes EXCEPT ![k] = Missing]
    <3>1. Left("deletes", k, RemoveAt(c, i), p, s)
      BY <1>1, <1>2, <2>1, <2>2, <2>4, <2>5, DoneIs
    <3> QED BY <1>1, <2>5, <3>1 DEF Left, Dropped
  <2>7. e \in Deltas(p, s)
    BY <2>5, <2>6 DEF Patches
  <2>8. ASSUME Solid PROVE OnTheWay(RemoveAt(c, i), e, snapshot, p, s)
    <3>1. PICK obj \in Objs(p, s) : Represents(c, obj, s) /\ Leads(d, obj, snapshot)
      BY <1>2, <2>8 DEF OnTheWay
    <3>2. HasKey(obj, k)
      BY <1>2, <2>2, <3>1, Operations
    <3>3. c[i] = RowFor(k, obj[k], s)
      BY <1>2, <1>4, <2>2, <3>1, <3>2, FoundRow
    <3>4. /\ [obj EXCEPT ![k] = Missing] \in Objs(p, s)
          /\ Represents(RemoveAt(c, i), [obj EXCEPT ![k] = Missing], s)
      BY <1>2, <2>2, <2>3, <3>1, <3>2, <3>3, RepresentsDelete
    <3>5. Leads(e, [obj EXCEPT ![k] = Missing], snapshot)
      BY <1>2, <2>2, <2>6, <2>7, <3>1, LeadsDeleted
    <3> QED BY <3>4, <3>5 DEF OnTheWay
  <2> QED BY <1>1, <1>2, <2>1, <2>4, <2>5, <2>6, <2>8, OperationInv
<1> QED BY <1>5, <1>6

LEMMA TablePatchUpdatesInv ==
    ASSUME IInv, TablePatchUpdates
    PROVE  IInv'
<1> DEFINE p == shape.primary
           s == shape.subsidiary
<1>1. PICK c, d : c = command.content /\ d = command.delta
  OBVIOUS
<1>2. /\ Bounded(p, s) /\ command \in Patches(p, s) /\ d \in Deltas(p, s)
      /\ d.updates \in Objs(p, s) /\ c \in Seq(Row(p, s)) /\ snapshot \in Objs(p, s)
      /\ Solid => OnTheWay(c, d, snapshot, p, s)
  BY <1>1, PatchFacts DEF TablePatchUpdates
<1>3. PICK k \in Keys(d.updates) :
        \/ Fail
        \/ /\ FirstMatch(c, KeyFields(k)) # 0
           /\ Done("updates", k, [c EXCEPT ![FirstMatch(c, KeyFields(k))] =
                                     Updated(@, Len(KeyFields(k)) + 1, Parsed(d.updates[k]))])
           /\ UNCHANGED <<shape, source, snapshot, rows, headed, trusted, commits, misled>>
  BY <1>1 DEF TablePatchUpdates
<1>4. PICK i : i = FirstMatch(c, KeyFields(k))
  OBVIOUS
<1>5. CASE Fail
  BY <1>5, FailInv
<1>6. CASE ~Fail
  <2>1. /\ i # 0
        /\ Done("updates", k, [c EXCEPT ![i] = Updated(c[i], Len(KeyFields(k)) + 1, Parsed(d.updates[k]))])
        /\ UNCHANGED <<shape, source, snapshot, rows, headed, trusted, commits, misled>>
    BY <1>3, <1>4, <1>6
  <2>2. k \in Text /\ HasKey(d.updates, k) /\ k \in Texts(p) /\ d.updates[k] \in Texts(s)
    BY <1>2, KeysAre
  <2>3. i \in 1..Len(c) /\ c[i] \in Row(p, s) /\ c[i][1] = Host
    BY <1>2, <1>4, <2>1, <2>2, MatchIs
  <2>4. /\ p \in 1..MaxColumns /\ s \in 0..MaxColumns /\ p \in Nat
    BY <1>2, RecordsAssumption DEF Bounded
  <2>5. Len(KeyFields(k)) + 1 = 2 + p
    <3>1. Len(KeyFields(k)) = 1 + p
      BY <2>2, <2>4, KeyFieldsIs
    <3> QED BY <2>4, <3>1
  <2>6. Parsed(d.updates[k]) \in Seq(Field)
    BY <2>2, <2>4, TextsParsed
  <2>7. PICK row : row = Updated(c[i], 2 + p, Parsed(d.updates[k]))
    OBVIOUS
  <2>8. row \in Row(p, s) /\ row[1] = Host
    BY <1>2, <2>3, <2>6, <2>7, UpdatedRow
  <2>9. /\ [c EXCEPT ![i] = row] \in Seq(Row(p, s))
        /\ OfHosts([c EXCEPT ![i] = row], {Other}) = OfHosts(c, {Other})
    <3>1. WithRow(c, i, row) \in Seq(Row(p, s)) /\ SameOthers(WithRow(c, i, row), c)
      BY <1>2, <2>3, <2>8, RowChanged
    <3> QED BY <3>1 DEF WithRow, SameOthers
  <2>10. Done("updates", k, [c EXCEPT ![i] = row])
    BY <2>1, <2>5, <2>7
  <2>11. PICK e : e = command'.delta
    OBVIOUS
  <2>12. /\ command' \in Patches(p, s) /\ command'.content = [c EXCEPT ![i] = row]
         /\ e.type = d.type /\ e.inserts = d.inserts /\ e.deletes = d.deletes
         /\ e.updates = [d.updates EXCEPT ![k] = Missing]
    <3>1. Left("updates", k, [c EXCEPT ![i] = row], p, s)
      BY <1>1, <1>2, <2>2, <2>9, <2>10, <2>11, DoneIs
    <3> QED BY <1>1, <2>11, <3>1 DEF Left, Dropped
  <2>13. e \in Deltas(p, s)
    BY <2>11, <2>12 DEF Patches
  <2>14. ASSUME Solid PROVE OnTheWay([c EXCEPT ![i] = row], e, snapshot, p, s)
    <3>1. PICK obj \in Objs(p, s) : Represents(c, obj, s) /\ Leads(d, obj, snapshot)
      BY <1>2, <2>14 DEF OnTheWay
    <3>2. HasKey(obj, k) /\ s # 0
      BY <1>2, <2>2, <3>1, Operations
    <3>3. c[i] = RowFor(k, obj[k], s)
      BY <1>2, <1>4, <2>2, <3>1, <3>2, FoundRow
    <3>4. obj[k] \in Texts(s)
      BY <2>2, <3>1, <3>2 DEF Objs
    <3>5. row = RowFor(k, d.updates[k], s)
      BY <1>2, <2>2, <2>7, <3>2, <3>3, <3>4, UpdatedRowFor
    <3>6. /\ [obj EXCEPT ![k] = d.updates[k]] \in Objs(p, s)
          /\ Represents([c EXCEPT ![i] = row], [obj EXCEPT ![k] = d.updates[k]], s)
      BY <1>2, <2>2, <2>3, <3>1, <3>2, <3>3, <3>5, RepresentsUpdate
    <3>7. Leads(e, [obj EXCEPT ![k] = d.updates[k]], snapshot)
      BY <1>2, <2>2, <2>12, <2>13, <3>1, LeadsUpdated
    <3> QED BY <3>6, <3>7 DEF OnTheWay
  <2> QED BY <1>1, <1>2, <2>1, <2>9, <2>11, <2>12, <2>14, OperationInv
<1> QED BY <1>5, <1>6

LEMMA TablePatchInsertsInv ==
    ASSUME IInv, TablePatchInserts
    PROVE  IInv'
<1> DEFINE p == shape.primary
           s == shape.subsidiary
<1>1. PICK c, d : c = command.content /\ d = command.delta
  OBVIOUS
<1>2. /\ Bounded(p, s) /\ command \in Patches(p, s) /\ d \in Deltas(p, s)
      /\ d.inserts \in Objs(p, s) /\ c \in Seq(Row(p, s)) /\ snapshot \in Objs(p, s)
      /\ Solid => OnTheWay(c, d, snapshot, p, s)
  BY <1>1, PatchFacts DEF TablePatchInserts
<1>3. PICK k \in Keys(d.inserts) :
        Done("inserts", k, Append(c, <<Host>> \o Inserted(k, d.inserts[k])))
  BY <1>1 DEF TablePatchInserts
<1>4. UNCHANGED <<shape, source, snapshot, rows, headed, trusted, commits, misled>>
  BY DEF TablePatchInserts
<1>5. k \in Text /\ HasKey(d.inserts, k) /\ k \in Texts(p) /\ d.inserts[k] \in Texts(s)
  BY <1>2, KeysAre
<1>6. PICK row : row = <<Host>> \o Inserted(k, d.inserts[k])
  OBVIOUS
<1>7. /\ row \in Row(p, s) /\ row[1] = Host
      /\ ~(p = 1 /\ s > 0 /\ k = <<>>) => row = RowFor(k, d.inserts[k], s)
  BY <1>2, <1>5, <1>6, InsertedRow
<1>8. /\ Append(c, row) \in Seq(Row(p, s))
      /\ OfHosts(Append(c, row), {Other}) = OfHosts(c, {Other})
  <2>1. Append(c, row) \in Seq(Row(p, s)) /\ SameOthers(Append(c, row), c)
    BY <1>2, <1>7, RowAdded
  <2> QED BY <2>1 DEF SameOthers
<1>9. PICK e : e = command'.delta
  OBVIOUS
<1>10. /\ command' \in Patches(p, s) /\ command'.content = Append(c, row)
       /\ e.type = d.type /\ e.updates = d.updates /\ e.deletes = d.deletes
       /\ e.inserts = [d.inserts EXCEPT ![k] = Missing]
  <2>1. Left("inserts", k, Append(c, row), p, s)
    BY <1>1, <1>2, <1>3, <1>5, <1>6, <1>8, <1>9, DoneIs
  <2> QED BY <1>1, <1>9, <2>1 DEF Left, Dropped
<1>11. e \in Deltas(p, s)
  BY <1>9, <1>10 DEF Patches
<1>12. ASSUME Solid PROVE OnTheWay(Append(c, row), e, snapshot, p, s)
  <2>1. PICK obj \in Objs(p, s) : Represents(c, obj, s) /\ Leads(d, obj, snapshot)
    BY <1>2, <1>12 DEF OnTheWay
  <2>2. ~HasKey(obj, k) /\ HasKey(snapshot, k)
    BY <1>2, <1>5, <2>1, Operations
  <2>3. Composed(<<Empty>>) = <<>>
    BY DEF Composed
  <2>4. ~(p = 1 /\ s > 0 /\ k = <<>>)
    BY <1>12, <2>2, <2>3 DEF Solid, Hollow
  <2>5. row = RowFor(k, d.inserts[k], s)
    BY <1>7, <2>4
  <2>6. /\ [obj EXCEPT ![k] = d.inserts[k]] \in Objs(p, s)
        /\ Represents(Append(c, row), [obj EXCEPT ![k] = d.inserts[k]], s)
    BY <1>2, <1>5, <2>1, <2>2, <2>5, RepresentsInsert
  <2>7. Leads(e, [obj EXCEPT ![k] = d.inserts[k]], snapshot)
    BY <1>2, <1>5, <1>10, <1>11, <2>1, LeadsInserted
  <2> QED BY <2>6, <2>7 DEF OnTheWay
<1> QED BY <1>1, <1>2, <1>4, <1>8, <1>9, <1>10, <1>12, OperationInv

\* What a patch writes when every operation is done.
LEMMA CommittingFacts ==
    ASSUME IInv, Committing
    PROVE  LET p == shape.primary
               s == shape.subsidiary
           IN  /\ Bounded(p, s)
               /\ command # Idle
               /\ command.content \in Seq(Row(p, s))
               /\ OfHosts(command.content, {Other}) = OfHosts(rows, {Other})
               /\ Solid => Represents(command.content, snapshot, s)
               /\ Solid => \A i \in 1..Len(command.content) :
                              Len(command.content[i]) = 1 + p + s
<1> DEFINE p == shape.primary
           s == shape.subsidiary
<1>1. PICK c, d : c = command.content /\ d = command.delta
  OBVIOUS
<1>2. /\ Bounded(p, s) /\ command \in Patches(p, s) /\ d \in Deltas(p, s)
      /\ c \in Seq(Row(p, s)) /\ snapshot \in Objs(p, s)
      /\ Solid => OnTheWay(c, d, snapshot, p, s)
  BY <1>1, PatchFacts DEF Committing
<1>3. command # Idle
  BY <1>2, IdleIs
<1>4. \A k \in Text : ~HasKey(d.inserts, k) /\ ~HasKey(d.deletes, k) /\ ~HasKey(d.updates, k)
  <2>1. /\ Keys(command.delta["inserts"]) = {} /\ Keys(command.delta["deletes"]) = {}
        /\ Keys(command.delta["updates"]) = {}
    BY DEF Committing
  <2>2. Keys(d.inserts) = {} /\ Keys(d.deletes) = {} /\ Keys(d.updates) = {}
    BY <1>1, <2>1
  <2> QED BY <2>2 DEF Keys
<1>5. ASSUME Solid PROVE Represents(c, snapshot, s)
  <2>1. PICK obj \in Objs(p, s) : Represents(c, obj, s) /\ Leads(d, obj, snapshot)
    BY <1>2, <1>5 DEF OnTheWay
  <2>2. obj = snapshot
    BY <1>2, <1>4, <2>1, LeadsDone
  <2> QED BY <2>1, <2>2
<1>6. ASSUME Solid, NEW i \in 1..Len(c) PROVE Len(c[i]) = 1 + p + s
  <2>1. c[i] \in Row(p, s)
    BY <1>2
  <2>2. CASE c[i][1] # Host
    BY <2>1, <2>2 DEF Row
  <2>3. CASE c[i][1] = Host
    <3>1. PICK k \in Text : HasKey(snapshot, k) /\ c[i] = RowFor(k, snapshot[k], s)
      BY <1>5, <1>6, <2>3 DEF Represents
    <3>2. k \in Texts(p) /\ snapshot[k] \in Texts(s) /\ p \in 1..MaxColumns /\ s \in 0..MaxColumns
      BY <1>2, <3>1 DEF Objs, Bounded
    <3>3. Len(RowFor(k, snapshot[k], s)) = 1 + p + s
      BY <3>2, RowForIs
    <3> QED BY <3>1, <3>3
  <2> QED BY <2>2, <2>3
<1>7. OfHosts(c, {Other}) = OfHosts(rows, {Other})
  BY <1>1, <1>3 DEF IInv, PatchInv
<1> QED BY <1>1, <1>2, <1>3, <1>5, <1>6, <1>7

LEMMA CommitTransactionInv ==
    ASSUME IInv, CommitTransaction
    PROVE  IInv'
<1> DEFINE p == shape.primary
           s == shape.subsidiary
<1>1. PICK c : c = command.content
  OBVIOUS
<1>2. /\ Bounded(p, s) /\ c \in Seq(Row(p, s))
      /\ Solid => Represents(c, snapshot, s)
      /\ Solid => \A i \in 1..Len(c) : Len(c[i]) = 1 + p + s
  BY <1>1, CommittingFacts DEF CommitTransaction
<1>3. /\ rows' = c /\ command' = Idle /\ trusted' = TRUE /\ headed' = headed
      /\ misled' = IF command.delta.type = "rebase" THEN Hollow(snapshot) ELSE misled
      /\ shape' = shape /\ source' = source /\ snapshot' = snapshot /\ commits' = commits
  BY <1>1 DEF CommitTransaction
<1>4. misled \in BOOLEAN /\ Hollow(snapshot) \in BOOLEAN /\ (Hollow(snapshot) => misled)
  BY DEF IInv, StateInv, RowsInv, Hollow
<1>5. misled' \in BOOLEAN /\ (Hollow(snapshot) => misled')
  BY <1>3, <1>4
<1>6. ~misled' => Solid
  BY <1>3, <1>4 DEF Solid
<1>7. Idle' = Idle
  BY DEF Idle
<1>8. StateInv'
  BY <1>2, <1>3, <1>5, <1>7 DEF IInv, StateInv
<1>9. Hollow(snapshot)' <=> Hollow(snapshot)
  BY <1>3 DEF Hollow, HasKey
<1>10. RowsInv'
  <2>1. Hollow(snapshot)' => misled'
    BY <1>5, <1>9
  <2>2. ~misled' => \A i \in 1..Len(c) : Len(c[i]) = 1 + p + s
    BY <1>2, <1>6
  <2>3. ~misled' => Represents(c, snapshot, s)
    BY <1>2, <1>6
  <2> HIDE DEF p, s
  <2>4. p' = p /\ s' = s
    BY <1>3 DEF p, s
  <2> QED BY <1>3, <2>1, <2>2, <2>3, <2>4 DEF RowsInv, p, s
<1>11. PatchInv'
  BY <1>3, <1>7 DEF PatchInv
<1> QED BY <1>8, <1>10, <1>11 DEF IInv

\* The start of what was to be written has rows of the table.
LEMMA StartRows ==
    ASSUME NEW p, NEW s, NEW c \in Seq(Row(p, s)), NEW start \in Prefixes(c)
    PROVE  /\ start \in Seq(Row(p, s))
           /\ \A i \in 1..Len(start) : i \in 1..Len(c) /\ start[i] = c[i]
<1>1. PICK n \in 0..Len(c) : start = SubSeq(c, 1, n)
  BY DEF Prefixes
<1> QED BY <1>1

LEMMA CommitTornInv ==
    ASSUME IInv, CommitTorn
    PROVE  IInv'
<1> DEFINE p == shape.primary
           s == shape.subsidiary
<1>1. PICK c, start : c = command.content /\ start = rows'
  OBVIOUS
<1>2. /\ Bounded(p, s) /\ c \in Seq(Row(p, s))
      /\ Solid => \A i \in 1..Len(c) : Len(c[i]) = 1 + p + s
  BY <1>1, CommittingFacts DEF CommitTorn
<1>3. /\ start \in Prefixes(c) /\ command' = Idle /\ trusted' = FALSE
      /\ headed' \in {headed, FALSE} /\ misled' = misled
      /\ shape' = shape /\ source' = source /\ snapshot' = snapshot /\ commits' = commits
  BY <1>1 DEF CommitTorn
<1>4. /\ start \in Seq(Row(p, s))
      /\ \A i \in 1..Len(start) : i \in 1..Len(c) /\ start[i] = c[i]
  BY <1>2, <1>3, StartRows
<1>5. misled \in BOOLEAN /\ (Hollow(snapshot) => misled)
  BY DEF IInv, StateInv, RowsInv
<1>6. ~misled => Solid
  BY <1>5 DEF Solid
<1>7. Idle' = Idle
  BY DEF Idle
<1>8. StateInv'
  BY <1>1, <1>3, <1>4, <1>7 DEF IInv, StateInv
<1>9. Hollow(snapshot)' <=> Hollow(snapshot)
  BY <1>3 DEF Hollow, HasKey
<1>10. RowsInv'
  <2>1. ~misled => \A i \in 1..Len(start) : Len(start[i]) = 1 + p + s
    BY <1>2, <1>4, <1>6
  <2> HIDE DEF p, s
  <2>2. p' = p /\ s' = s
    BY <1>3 DEF p, s
  <2> QED BY <1>1, <1>3, <1>5, <1>9, <2>1, <2>2 DEF RowsInv, p, s
<1>11. PatchInv'
  BY <1>3, <1>7 DEF PatchInv
<1> QED BY <1>8, <1>10, <1>11 DEF IInv

LEMMA ShortWriteInv ==
    ASSUME IInv, ShortWrite
    PROVE  IInv'
<1> DEFINE p == shape.primary
           s == shape.subsidiary
<1>1. PICK c : c = command.content
  OBVIOUS
<1>2. PICK start \in Prefixes(c) : rows' = start \o c
  BY <1>1 DEF ShortWrite
<1>3. Bounded(p, s) /\ c \in Seq(Row(p, s))
  BY <1>1, CommittingFacts DEF ShortWrite
<1>4. /\ command' = Idle /\ trusted' = TRUE /\ headed' \in {headed, FALSE} /\ misled' = TRUE
      /\ shape' = shape /\ source' = source /\ snapshot' = snapshot /\ commits' = commits
  BY DEF ShortWrite
<1>5. start \in Seq(Row(p, s))
  BY <1>3, StartRows
<1>6. rows' \in Seq(Row(p, s))
  BY <1>2, <1>3, <1>5
<1>7. Idle' = Idle
  BY DEF Idle
<1>8. StateInv'
  BY <1>4, <1>6, <1>7 DEF IInv, StateInv
<1>9. RowsInv'
  BY <1>4 DEF RowsInv
<1>10. PatchInv'
  BY <1>4, <1>7 DEF PatchInv
<1> QED BY <1>8, <1>9, <1>10 DEF IInv

LEMMA NextInv ==
    ASSUME IInv, [Next]_vars
    PROVE  IInv'
<1>1. CASE Commit
  BY <1>1, CommitInv
<1>2. CASE Rebase
  BY <1>2, RebaseInv
<1>3. CASE TablePatchDeletes
  BY <1>3, TablePatchDeletesInv
<1>4. CASE TablePatchUpdates
  BY <1>4, TablePatchUpdatesInv
<1>5. CASE TablePatchInserts
  BY <1>5, TablePatchInsertsInv
<1>6. CASE CommitTransaction
  BY <1>6, CommitTransactionInv
<1>7. CASE CommitTorn
  BY <1>7, CommitTornInv
<1>8. CASE ShortWrite
  BY <1>8, ShortWriteInv
<1>9. CASE PatchFails
  BY <1>9, FailInv DEF PatchFails
<1>10. CASE UNCHANGED vars
  <2>1. /\ shape' = shape /\ source' = source /\ snapshot' = snapshot /\ rows' = rows
        /\ headed' = headed /\ command' = command /\ trusted' = trusted /\ commits' = commits /\ misled' = misled
        /\ Idle' = Idle
    BY <1>10 DEF vars, Idle
  <2>2. StateInv'
    BY <2>1 DEF IInv, StateInv
  <2>3. RowsInv'
    BY <2>1 DEF IInv, RowsInv, Hollow, HasKey
  <2>4. PatchInv'
    BY <2>1 DEF IInv, PatchInv, Solid, Hollow, HasKey
  <2> QED BY <2>2, <2>3, <2>4 DEF IInv
<1> QED BY <1>1, <1>2, <1>3, <1>4, <1>5, <1>6, <1>7, <1>8, <1>9, <1>10 DEF Next

\* The invariant holds in every state.
LEMMA Invariant == Spec => []IInv
BY InitInv, NextInv, PTL DEF Spec

-----------------------------------------------------------------------------
(* The properties *)

\* Rows have the columns of the destination's header, unless one may have lost its
\* key, and every other variable keeps to its values.
THEOREM TypeCorrect == Spec => []TypeOK
<1>1. ASSUME IInv PROVE TypeOK
  <2> DEFINE p == shape.primary
             s == shape.subsidiary
  <2>1. StateInv /\ RowsInv
    BY <1>1 DEF IInv
  <2>2. Bounded(p, s) /\ p \in Nat /\ s \in Nat
    BY <2>1, Facts
  <2>3. source \in Sources
    BY <2>1, SourcesAre DEF StateInv
  <2>4. snapshot \in [Text -> Text \cup {Missing}]
    BY <2>1 DEF StateInv, Objs
  <2>5. Cardinality(Columns) = p + s
    <3>1. 1 \in Int /\ p + s \in Int /\ (1 > p + s => p + s = 0) /\ (p + s) - 1 + 1 = p + s
      BY <2>2
    <3>2. Cardinality(1..(p + s)) = IF 1 > p + s THEN 0 ELSE (p + s) - 1 + 1
      BY <3>1, FS_Interval
    <3> QED BY <3>1, <3>2 DEF Columns
  <2>6. ASSUME NEW i \in DOMAIN rows
        PROVE  /\ rows[i][1] \in {Host, Other}
               /\ ~misled => Len(rows[i]) = 1 + Cardinality(Columns)
    <3>1. rows \in Seq(Row(p, s))
      BY <2>1 DEF StateInv
    <3>2. i \in 1..Len(rows) /\ rows[i] \in Row(p, s)
      BY <3>1
    <3>3. ~misled => Len(rows[i]) = 1 + p + s
      BY <2>1, <3>2 DEF RowsInv
    <3>4. 1 + p + s = 1 + (p + s)
      BY <2>2
    <3> QED BY <2>5, <3>2, <3>3, <3>4 DEF Row
  <2>7. command.pc \in {"idle", "patch"}
    BY <2>1, IdleIs DEF StateInv
  <2> QED BY <2>1, <2>3, <2>4, <2>6, <2>7 DEF StateInv, TypeOK
<1> QED BY <1>1, Invariant, PTL

\* After a patch that succeeded, the destination has of the host exactly the records
\* of the source that count, field by field.
THEOREM SourceMirrored == Spec => []MirrorsSource
<1>1. ASSUME IInv PROVE MirrorsSource
  <2> DEFINE p == shape.primary
             s == shape.subsidiary
             value(i, c) == source.records[i][CHOOSE j \in Columns : source.header[j] = c]
             effective == {i \in DOMAIN source.records :
                             \A j \in DOMAIN source.records : j > i =>
                                 \E c \in 1..p : value(i, c) # value(j, c)}
             mine == OfHosts(rows, {Host})
  <2> SUFFICES ASSUME command = Idle, trusted, ~misled
               PROVE  /\ Len(mine) = Cardinality(effective)
                      /\ ToSet(mine) = {<<Host>> \o [c \in Columns |-> value(i, c)] : i \in effective}
    BY DEF MirrorsSource
  <2>1. StateInv /\ RowsInv
    BY <1>1 DEF IInv
  <2>2. /\ Bounded(p, s) /\ p \in Nat /\ s \in Nat
        /\ source \in Tables(p + s)
        /\ rows \in Seq(Row(p, s)) /\ snapshot \in Objs(p, s)
        /\ MadeOf(snapshot, source, Len(source.records), p, s)
        /\ Represents(rows, snapshot, s)
    BY <2>1, Facts DEF StateInv, RowsInv
  <2>3. /\ Len(mine) = Cardinality(Effective(source, p, s))
        /\ ToSet(mine) = {RowAt(source, i, p, s) : i \in Effective(source, p, s)}
    BY <2>2, Mirrored
  <2>4. Columns = 1..(p + s)
    BY DEF Columns
  <2>5. \A i, c : value(i, c) = FieldAt(source, i, c, p + s)
    BY <2>4 DEF FieldAt
  <2>6. DOMAIN source.records = 1..Len(source.records)
    BY <2>2 DEF Tables
  <2> HIDE DEF value, mine, p, s
  <2>7. p \in 1..MaxColumns
    BY <2>2 DEF Bounded
  <2>8. ASSUME NEW i \in 1..Len(source.records), NEW j \in 1..Len(source.records)
        PROVE  KeyAt(source, j, p, s) # KeyAt(source, i, p, s)
                  <=> \E c \in 1..p : value(i, c) # value(j, c)
    <3> DEFINE f == [c \in 1..p |-> FieldAt(source, i, c, p + s)]
               g == [c \in 1..p |-> FieldAt(source, j, c, p + s)]
    <3>1. f \in [1..p -> Field] /\ g \in [1..p -> Field]
      BY <2>2, KeyAndValueAt
    <3>2. KeyAt(source, i, p, s) = Composed(f) /\ KeyAt(source, j, p, s) = Composed(g)
      BY DEF KeyAt
    <3>3. \A c \in 1..p : f[c] = value(i, c) /\ g[c] = value(j, c)
      BY <2>5
    <3> HIDE DEF f, g
    <3>4. Composed(f) = Composed(g) => f = g
      BY <2>7, <3>1, ComposedInjective
    <3>5. ASSUME \A c \in 1..p : f[c] = g[c] PROVE f = g
      <4>1. f = [c \in 1..p |-> f[c]] /\ g = [c \in 1..p |-> g[c]]
        BY <3>1
      <4> QED BY <3>5, <4>1
    <3> QED BY <3>2, <3>3, <3>4, <3>5
  <2>9. effective = Effective(source, p, s)
    <3>1. ASSUME NEW i
          PROVE  i \in effective <=> i \in Effective(source, p, s)
      BY <2>6, <2>8 DEF Effective, Final
    <3> HIDE DEF effective
    <3> QED BY <3>1
  <2>10. \A i : RowAt(source, i, p, s) = <<Host>> \o [c \in Columns |-> value(i, c)]
    BY <2>4, <2>5 DEF RowAt
  <2> HIDE DEF effective
  <2> QED BY <2>3, <2>9, <2>10
<1> QED BY <1>1, Invariant, PTL

\* No patch fails because a record that it deletes or updates is not there.
THEOREM RecordsFound == Spec => PatchesFindTheirRecords
<1>1. ASSUME IInv, command # Idle, ~misled,
             NEW operation \in {"deletes", "updates"}, NEW k \in Keys(command.delta[operation])
      PROVE  FirstMatch(command.content, KeyFields(k)) # 0
  <2> DEFINE p == shape.primary
             s == shape.subsidiary
  <2>1. Patching
    BY <1>1, IdleIs DEF IInv, StateInv, Patching
  <2>2. Solid
    BY <1>1 DEF IInv, RowsInv, Solid
  <2>3. /\ Bounded(p, s) /\ command.content \in Seq(Row(p, s))
        /\ command.delta \in Deltas(p, s) /\ snapshot \in Objs(p, s)
        /\ command.delta.deletes \in Objs(p, s) /\ command.delta.updates \in Objs(p, s)
    BY <1>1, <2>1, PatchFacts
  <2>4. PICK obj \in Objs(p, s) : /\ Represents(command.content, obj, s)
                                  /\ Leads(command.delta, obj, snapshot)
    BY <1>1, <2>1, <2>2, PatchFacts DEF OnTheWay
  <2>5. k \in Text /\ (HasKey(command.delta.deletes, k) \/ HasKey(command.delta.updates, k))
    BY <1>1 DEF Keys
  <2>6. HasKey(obj, k)
    BY <2>3, <2>4, <2>5, Operations
  <2>7. FirstMatch(command.content, KeyFields(k)) \in 1..Len(command.content)
    BY <2>3, <2>4, <2>5, <2>6, FoundRow
  <2> QED BY <2>7
<1>2. ASSUME IInv
      PROVE  [command # Idle /\ ~misled /\ command' = Idle /\ ~trusted' =>
                 \A operation \in {"deletes", "updates"} :
                    \A k \in Keys(command.delta[operation]) :
                        FirstMatch(command.content, KeyFields(k)) # 0]_vars
  BY <1>1, <1>2
<1> QED BY <1>2, Invariant, PTL DEF PatchesFindTheirRecords

\* The records of another host stay as they are, in order, but for the end of them
\* that a patch that failed did not write, and the start that a short write wrote
\* twice.
THEOREM OthersStay == Spec => OthersUntouched
<1> DEFINE old == OfHosts(rows, {Other})
           new == OfHosts(rows', {Other})
           Kept == \/ new = old
                   \/ ~trusted' /\ new \in Prefixes(old)
                   \/ misled' /\ \E start \in Prefixes(old) : new = start \o old
<1>1. ASSUME IInv, Committing
      PROVE  command.content \in Rows /\ OfHosts(command.content, {Other}) = old
  BY <1>1, CommittingFacts, RowsAreRows
<1>2. ASSUME IInv, [Next]_vars PROVE [Kept]_rows
  <2>1. CASE CommitTransaction
    <3>1. rows' = command.content
      BY <2>1 DEF CommitTransaction
    <3>2. new = old
      BY <1>1, <1>2, <2>1, <3>1 DEF CommitTransaction
    <3> QED BY <3>2
  <2>2. CASE CommitTorn
    <3>1. rows' \in Prefixes(command.content) /\ trusted' = FALSE
      BY <2>2 DEF CommitTorn
    <3>2. new \in Prefixes(old)
      BY <1>1, <1>2, <2>2, <3>1, OfHostsPrefix DEF CommitTorn
    <3> QED BY <3>1, <3>2
  <2>3. CASE ShortWrite
    <3>1. PICK first \in Prefixes(command.content) : rows' = first \o command.content
      BY <2>3 DEF ShortWrite
    <3>2. misled' = TRUE
      BY <2>3 DEF ShortWrite
    <3>3. command.content \in Rows /\ OfHosts(command.content, {Other}) = old
      BY <1>1, <1>2, <2>3 DEF ShortWrite
    <3>4. first \in Rows /\ OfHosts(first, {Other}) \in Prefixes(old)
      BY <3>3, OfHostsPrefix
    <3>5. new = OfHosts(first, {Other}) \o old
      <4>1. OfHosts(first \o command.content, {Other})
               = OfHosts(first, {Other}) \o OfHosts(command.content, {Other})
        BY <3>3, <3>4, OfHostsConcat
      <4> QED BY <3>1, <3>3, <4>1
    <3> QED BY <3>2, <3>4, <3>5
  <2>4. CASE ~(CommitTransaction \/ CommitTorn \/ ShortWrite)
    <3>1. rows' = rows
      BY <1>2, <2>4 DEF Next, vars, Commit, Rebase, TablePatchDeletes, TablePatchUpdates,
                        TablePatchInserts, PatchFails, Fail
    <3> QED BY <3>1
  <2> QED BY <2>1, <2>2, <2>3, <2>4
<1> QED BY <1>2, Invariant, PTL DEF Spec, OthersUntouched

=============================================================================
