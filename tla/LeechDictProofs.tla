-------------------------- MODULE LeechDictProofs ---------------------------
(***************************************************************************)
(* Theorems about LeechDict, for any keys, values, hash values and number  *)
(* of calls: its types, that probing ends, and, as long as no buffer is    *)
(* compacted, that no pair is lost and that the dictionary is a map.       *)
(***************************************************************************)
EXTENDS LeechDict, LeechInduction, FiniteSetTheorems

\* LCH_DICT_CAPACITY is 256.  Of fewer than four slots one call to LCH_DictSet
\* could take the last.
CapacityAssumption == Capacity >= 4

-----------------------------------------------------------------------------
(* Buffers *)

Buffer(n) == [0..(n - 1) -> Item \cup {Empty, Invalidated}]

Taken(buf) == {i \in Slots(buf) : buf[i] # Empty}

Valid(buf) == {i \in Slots(buf) : buf[i] \in Item}

Pairs(buf) == {buf[i] : i \in Valid(buf)}

\* The slot that is looked at after d others, for a key of hash value h.
Probe(h, n, d) == (h + d) % n

\* The way from its key's own slot to an item has no empty slot.
Placed(hsh, n, buf) ==
    \A i \in 0..(n - 1) : buf[i] \in Item =>
        \E d \in 0..(n - 1) :
            /\ Probe(hsh[buf[i].key], n, d) = i
            /\ \A e \in 0..(d - 1) : buf[Probe(hsh[buf[i].key], n, e)] # Empty

Unique(n, buf) ==
    \A i, j \in 0..(n - 1) :
        buf[i] \in Item /\ buf[j] \in Item /\ buf[i].key = buf[j].key => i = j

HasRoom(n, buf) == \E i \in 0..(n - 1) : buf[i] = Empty

Sound(hsh, n, buf) ==
    /\ n \in Nat \ {0}
    /\ buf \in Buffer(n)
    /\ Placed(hsh, n, buf)
    /\ Unique(n, buf)
    /\ HasRoom(n, buf)

LEMMA SlotsOf ==
    ASSUME NEW n \in Nat, NEW buf \in Buffer(n)
    PROVE  /\ Slots(buf) = 0..(n - 1) /\ Size(buf) = n
           /\ IsFiniteSet(Taken(buf)) /\ IsFiniteSet(Valid(buf))
           /\ Cardinality(Taken(buf)) \in Nat /\ Cardinality(Valid(buf)) \in Nat
           /\ Valid(buf) \subseteq Taken(buf)
           /\ Cardinality(Valid(buf)) <= Cardinality(Taken(buf))
<1>1. Slots(buf) = 0..(n - 1)
  BY DEF Slots, Buffer
<1>2. IsFiniteSet(0..(n - 1)) /\ Cardinality(0..(n - 1)) = n
  <2>1. Cardinality(0..(n - 1)) = IF 0 > n - 1 THEN 0 ELSE (n - 1) - 0 + 1
    BY FS_Interval
  <2> QED BY <2>1, FS_Interval
<1>3. Taken(buf) \subseteq 0..(n - 1) /\ Valid(buf) \subseteq 0..(n - 1)
  BY <1>1 DEF Taken, Valid
<1>4. IsFiniteSet(Taken(buf)) /\ IsFiniteSet(Valid(buf))
  BY <1>2, <1>3, FS_Subset
<1>5. Cardinality(Taken(buf)) \in Nat /\ Cardinality(Valid(buf)) \in Nat
  BY <1>4, FS_CardinalityType
<1>6. Valid(buf) \subseteq Taken(buf)
  <2>1. Empty \notin Item
    BY DictAssumption DEF Item
  <2> QED BY <2>1 DEF Taken, Valid
<1>7. Cardinality(Valid(buf)) <= Cardinality(Taken(buf))
  BY <1>4, <1>6, FS_Subset
<1> QED BY <1>1, <1>2, <1>4, <1>5, <1>6, <1>7 DEF Size

\* A buffer with fewer slots taken than it has, has an empty one.
LEMMA RoomLeft ==
    ASSUME NEW n \in Nat, NEW buf \in Buffer(n), Cardinality(Taken(buf)) < n
    PROVE  HasRoom(n, buf)
<1>1. Slots(buf) = 0..(n - 1) /\ Size(buf) = n /\ Cardinality(Taken(buf)) \in Nat
  BY SlotsOf
<1>2. CASE Taken(buf) = Slots(buf)
  <2>1. Cardinality(Taken(buf)) = n
    BY <1>1, <1>2 DEF Size
  <2> QED BY <1>1, <2>1
<1>3. CASE Taken(buf) # Slots(buf)
  BY <1>1, <1>3 DEF Taken, HasRoom
<1> QED BY <1>2, <1>3

LEMMA EmptyBufferSound ==
    ASSUME NEW n \in Nat \ {0}
    PROVE  /\ EmptyBuffer(n) \in Buffer(n)
           /\ \A hsh : Sound(hsh, n, EmptyBuffer(n))
           /\ Taken(EmptyBuffer(n)) = {} /\ Valid(EmptyBuffer(n)) = {}
<1>1. Empty \notin Item
  BY DictAssumption DEF Item
<1>2. EmptyBuffer(n) \in Buffer(n)
  BY DEF EmptyBuffer, Buffer
<1>3. \A i \in 0..(n - 1) : EmptyBuffer(n)[i] = Empty
  BY DEF EmptyBuffer
<1>4. 0 \in 0..(n - 1)
  OBVIOUS
<1>5. \A hsh : Placed(hsh, n, EmptyBuffer(n))
  BY <1>1, <1>3 DEF Placed
<1>6. Unique(n, EmptyBuffer(n)) /\ HasRoom(n, EmptyBuffer(n))
  BY <1>1, <1>3, <1>4 DEF Unique, HasRoom
<1>7. Slots(EmptyBuffer(n)) = 0..(n - 1)
  BY <1>2, SlotsOf
<1>8. Taken(EmptyBuffer(n)) = {} /\ Valid(EmptyBuffer(n)) = {}
  BY <1>1, <1>3, <1>7 DEF Taken, Valid
<1> QED BY <1>2, <1>5, <1>6, <1>8 DEF Sound

-----------------------------------------------------------------------------
(* Probing *)

LEMMA ProbeType ==
    ASSUME NEW h \in Nat, NEW n \in Nat \ {0}, NEW d \in Nat
    PROVE  Probe(h, n, d) \in 0..(n - 1)
BY DEF Probe

LEMMA Remainder ==
    ASSUME NEW n \in Nat \ {0}, NEW q \in Nat, NEW r \in 0..(n - 1)
    PROVE  (n * q + r) % n = r
OBVIOUS

LEMMA Quotient ==
    ASSUME NEW x \in Nat, NEW n \in Nat \ {0}
    PROVE  \E q \in Nat, r \in 0..(n - 1) : x = n * q + r
<1>1. x = n * (x \div n) + (x % n)
  OBVIOUS
<1>2. x \div n \in Nat
  OBVIOUS
<1>3. x % n \in 0..(n - 1)
  OBVIOUS
<1> QED BY <1>1, <1>2, <1>3

\* Probing comes to every slot.
LEMMA ProbeReaches ==
    ASSUME NEW h \in Nat, NEW n \in Nat \ {0}, NEW i \in 0..(n - 1)
    PROVE  \E d \in 0..(n - 1) : Probe(h, n, d) = i
<1>1. PICK q \in Nat, r \in 0..(n - 1) : h = n * q + r
  BY Quotient
<1>2. n * q \in Nat /\ n * (q + 1) = n * q + n
  OBVIOUS
<1>3. CASE r <= i
  <2>1. h + (i - r) = n * q + i /\ i - r \in 0..(n - 1)
    BY <1>1, <1>2, <1>3
  <2>2. Probe(h, n, i - r) = i
    BY <2>1, Remainder DEF Probe
  <2> QED BY <2>1, <2>2
<1>4. CASE i < r
  <2>1. h + (n + i - r) = n * (q + 1) + i /\ n + i - r \in 0..(n - 1)
    BY <1>1, <1>2, <1>4
  <2>2. Probe(h, n, n + i - r) = i
    <3>1. q + 1 \in Nat
      OBVIOUS
    <3> QED BY <2>1, <3>1, Remainder DEF Probe
  <2> QED BY <2>1, <2>2
<1> QED BY <1>3, <1>4

Stops(buf, n, k, d) ==
    \/ buf[Probe(hash[k], n, d)] = Empty
    \/ /\ buf[Probe(hash[k], n, d)] # Invalidated
       /\ buf[Probe(hash[k], n, d)].key = k

\* Probing stops in a buffer that has room, and where it stops first.
LEMMA IndexStops ==
    ASSUME NEW n \in Nat \ {0}, NEW buf \in Buffer(n), HasRoom(n, buf),
           hash \in [Key -> Hashes], NEW k \in Key
    PROVE  \E d \in 0..(n - 1) :
              /\ ComputeIndex(buf, k) = Probe(hash[k], n, d)
              /\ Stops(buf, n, k, d)
              /\ \A e \in 0..(d - 1) : ~Stops(buf, n, k, e)
<1> DEFINE S == {d \in 0..(n - 1) : Stops(buf, n, k, d)}
           First(d) == Stops(buf, n, k, d) /\ \A e \in 0..(d - 1) : ~Stops(buf, n, k, e)
<1>1. hash[k] \in Nat
  BY DictAssumption
<1>2. Slots(buf) = 0..(n - 1) /\ Size(buf) = n
  BY SlotsOf
<1>3. S # {}
  <2>1. PICK i \in 0..(n - 1) : buf[i] = Empty
    BY DEF HasRoom
  <2>2. PICK d \in 0..(n - 1) : Probe(hash[k], n, d) = i
    BY <1>1, ProbeReaches
  <2> QED BY <2>1, <2>2 DEF Stops
<1>4. PICK d \in S : \A e \in S : d <= e
  <2>1. S \in SUBSET Nat
    OBVIOUS
  <2> HIDE DEF S
  <2> QED BY <1>3, <2>1, LeastNumber
<1>5. d \in 0..(n - 1) /\ First(d)
  <2>1. d \in 0..(n - 1) /\ Stops(buf, n, k, d)
    BY <1>4
  <2>2. ASSUME NEW e \in 0..(d - 1) PROVE ~Stops(buf, n, k, e)
    <3>1. e \in 0..(n - 1) /\ ~(d <= e)
      BY <2>1
    <3> QED BY <1>4, <3>1
  <2> QED BY <2>1, <2>2
<1> DEFINE c == CHOOSE c \in 0..(n - 1) : First(c)
<1>6. ComputeIndex(buf, k) = Probe(hash[k], n, c)
  BY <1>2 DEF ComputeIndex, Probe, Stops
<1>7. c \in 0..(n - 1) /\ First(c)
  <2> HIDE DEF First
  <2> QED BY <1>5
<1> QED BY <1>6, <1>7

LEMMA IndexType ==
    ASSUME NEW n \in Nat \ {0}, NEW buf \in Buffer(n), HasRoom(n, buf),
           hash \in [Key -> Hashes], NEW k \in Key
    PROVE  /\ ComputeIndex(buf, k) \in 0..(n - 1)
           /\ \/ buf[ComputeIndex(buf, k)] = Empty
              \/ buf[ComputeIndex(buf, k)] \in Item /\ buf[ComputeIndex(buf, k)].key = k
<1>1. hash[k] \in Nat
  BY DictAssumption
<1>2. PICK d \in 0..(n - 1) : /\ ComputeIndex(buf, k) = Probe(hash[k], n, d)
                              /\ Stops(buf, n, k, d)
  BY IndexStops
<1>3. ComputeIndex(buf, k) \in 0..(n - 1)
  BY <1>1, <1>2, ProbeType
<1>4. buf[ComputeIndex(buf, k)] \in Item \cup {Empty, Invalidated}
  BY <1>3 DEF Buffer
<1> QED BY <1>2, <1>3, <1>4 DEF Stops

\* An item is found where it is.
LEMMA IndexFinds ==
    ASSUME NEW n, NEW buf, Sound(hash, n, buf), hash \in [Key -> Hashes],
           NEW i \in 0..(n - 1), buf[i] \in Item
    PROVE  ComputeIndex(buf, buf[i].key) = i
<1> DEFINE k == buf[i].key
<1>1. n \in Nat \ {0} /\ buf \in Buffer(n) /\ HasRoom(n, buf) /\ k \in Key /\ Empty \notin Item
      /\ Invalidated \notin Item
  BY DictAssumption DEF Sound, Item
<1>2. hash[k] \in Nat
  BY <1>1, DictAssumption
<1>3. PICK c \in 0..(n - 1) : /\ Probe(hash[k], n, c) = i
                              /\ \A e \in 0..(c - 1) : buf[Probe(hash[k], n, e)] # Empty
  BY DEF Sound, Placed
<1>4. PICK d \in 0..(n - 1) : /\ ComputeIndex(buf, k) = Probe(hash[k], n, d)
                              /\ Stops(buf, n, k, d)
                              /\ \A e \in 0..(d - 1) : ~Stops(buf, n, k, e)
  <2> HIDE DEF k
  <2> QED BY <1>1, IndexStops
<1> DEFINE j == Probe(hash[k], n, d)
<1>5. j \in 0..(n - 1)
  <2>1. d \in Nat
    BY <1>1
  <2> HIDE DEF k
  <2> QED BY <1>1, <1>2, <2>1, ProbeType
<1>6. Stops(buf, n, k, c)
  BY <1>1, <1>3 DEF Stops
<1>7. ~(c \in 0..(d - 1))
  BY <1>4, <1>6
<1>8. CASE d = c
  BY <1>3, <1>4, <1>8
<1>9. CASE d # c
  <2>1. d \in 0..(c - 1)
    BY <1>1, <1>7, <1>9
  <2>2. buf[j] # Empty
    BY <1>3, <2>1
  <2>3. buf[j] \in Item /\ buf[j].key = k
    <3>1. buf[j] \in Item \cup {Empty, Invalidated}
      BY <1>1, <1>5 DEF Buffer
    <3> QED BY <1>4, <2>2, <3>1 DEF Stops
  <2>4. j = i
    BY <1>5, <2>3 DEF Sound, Unique
  <2> QED BY <1>4, <2>4
<1> QED BY <1>8, <1>9

-----------------------------------------------------------------------------
(* Setting and removing *)

LEMMA SlotOf ==
    ASSUME NEW n, NEW buf, Sound(hash, n, buf), hash \in [Key -> Hashes], NEW k \in Key,
           NEW index, index = ComputeIndex(buf, k)
    PROVE  /\ index \in 0..(n - 1)
           /\ buf[index] = Empty => /\ index \notin Taken(buf)
                                    /\ \A p \in Pairs(buf) : p.key # k
           /\ buf[index] # Empty => /\ index \in Valid(buf)
                                    /\ buf[index] \in Item /\ buf[index].key = k
           /\ \A i \in 0..(n - 1) : buf[i] \in Item /\ buf[i].key = k => i = index
<1>1. n \in Nat \ {0} /\ n \in Nat /\ buf \in Buffer(n) /\ HasRoom(n, buf)
  BY DEF Sound
<1>2. Slots(buf) = 0..(n - 1)
  BY <1>1, SlotsOf
<1>3. /\ index \in 0..(n - 1)
      /\ buf[index] # Empty => buf[index] \in Item /\ buf[index].key = k
  BY <1>1, IndexType
<1>4. \A i \in 0..(n - 1) : buf[i] \in Item /\ buf[i].key = k => i = index
  BY IndexFinds
<1>5. Empty \notin Item
  BY DictAssumption DEF Item
<1>6. buf[index] = Empty => index \notin Taken(buf) /\ \A p \in Pairs(buf) : p.key # k
  BY <1>2, <1>4, <1>5 DEF Taken, Pairs, Valid
<1>7. buf[index] # Empty => index \in Valid(buf)
  BY <1>2, <1>3 DEF Valid
<1> QED BY <1>3, <1>4, <1>6, <1>7

\* Storing an item where the probing for its key stops.
PutIn(buf, item) == [buf EXCEPT ![ComputeIndex(buf, item.key)] = item]

IsPut(hsh, n, buf, item, index, new) ==
    /\ new \in Buffer(n) /\ Placed(hsh, n, new) /\ Unique(n, new)
    /\ Taken(new) = Taken(buf) \cup {index}
    /\ Valid(new) = Valid(buf) \cup {index}
    /\ Pairs(new) = {p \in Pairs(buf) : p.key # item.key} \cup {item}
    /\ Cardinality(Taken(new)) =
           Cardinality(Taken(buf)) + (IF buf[index] = Empty THEN 1 ELSE 0)
    /\ Cardinality(Valid(new)) =
           Cardinality(Valid(buf)) + (IF buf[index] = Empty THEN 1 ELSE 0)

LEMMA Put ==
    ASSUME NEW n, NEW buf, Sound(hash, n, buf), hash \in [Key -> Hashes], NEW item \in Item
    PROVE  IsPut(hash, n, buf, item, ComputeIndex(buf, item.key), PutIn(buf, item))
<1> PICK index : index = ComputeIndex(buf, item.key)
  OBVIOUS
<1> PICK new : new = [buf EXCEPT ![index] = item]
  OBVIOUS
<1>0. index = ComputeIndex(buf, item.key) /\ new = PutIn(buf, item)
  BY DEF PutIn
<1> DEFINE k == item.key
<1>1. n \in Nat \ {0} /\ n \in Nat /\ buf \in Buffer(n) /\ k \in Key
  BY DEF Sound, Item
<1>2. Empty \notin Item
  BY DictAssumption DEF Item
<1>3. /\ index \in 0..(n - 1)
      /\ buf[index] # Empty => buf[index] \in Item /\ buf[index].key = k
      /\ \A i \in 0..(n - 1) : buf[i] \in Item /\ buf[i].key = k => i = index
  <2> HIDE DEF k
  <2> QED BY <1>1, SlotOf DEF k
<1>4. new \in Buffer(n)
  BY <1>1 DEF Buffer
<1>5. \A i \in 0..(n - 1) : new[i] = IF i = index THEN item ELSE buf[i]
  BY <1>1 DEF Buffer
<1>6. Slots(buf) = 0..(n - 1) /\ Slots(new) = 0..(n - 1)
  BY <1>1, <1>4, SlotsOf
<1> HIDE DEF k
<1>7. Placed(hash, n, new)
  <2>1. ASSUME NEW i \in 0..(n - 1), new[i] \in Item
        PROVE  \E d \in 0..(n - 1) :
                  /\ Probe(hash[new[i].key], n, d) = i
                  /\ \A e \in 0..(d - 1) : new[Probe(hash[new[i].key], n, e)] # Empty
    <3>1. new[i].key \in Key
      BY <2>1 DEF Item
    <3>2. hash[new[i].key] \in Nat
      BY <3>1, DictAssumption
    <3>3. \E d \in 0..(n - 1) :
             /\ Probe(hash[new[i].key], n, d) = i
             /\ \A e \in 0..(d - 1) : buf[Probe(hash[new[i].key], n, e)] # Empty
      <4>1. CASE i = index
        <5>1. PICK d \in 0..(n - 1) : /\ index = Probe(hash[k], n, d)
                                      /\ \A e \in 0..(d - 1) : ~Stops(buf, n, k, e)
          BY <1>1, IndexStops DEF Sound, k
        <5>2. new[i].key = k
          BY <1>5, <4>1 DEF k
        <5> QED BY <4>1, <5>1, <5>2 DEF Stops
      <4>2. CASE i # index
        <5>1. new[i] = buf[i]
          BY <1>5, <4>2
        <5> QED BY <2>1, <5>1 DEF Sound, Placed
      <4> QED BY <4>1, <4>2
    <3>4. PICK d \in 0..(n - 1) :
             /\ Probe(hash[new[i].key], n, d) = i
             /\ \A e \in 0..(d - 1) : buf[Probe(hash[new[i].key], n, e)] # Empty
      BY <3>3
    <3>5. ASSUME NEW e \in 0..(d - 1) PROVE new[Probe(hash[new[i].key], n, e)] # Empty
      <4>1. e \in Nat
        BY <1>1
      <4>2. Probe(hash[new[i].key], n, e) \in 0..(n - 1)
        BY <1>1, <3>2, <4>1, ProbeType
      <4> QED BY <1>2, <1>5, <3>4, <4>2
    <3> QED BY <3>4, <3>5
  <2> QED BY <2>1 DEF Placed
<1>8. Unique(n, new)
  <2> SUFFICES ASSUME NEW i \in 0..(n - 1), NEW j \in 0..(n - 1),
                      new[i] \in Item, new[j] \in Item, new[i].key = new[j].key
               PROVE  i = j
    BY DEF Unique
  <2>1. CASE i = index \/ j = index
    BY <1>3, <1>5, <2>1 DEF k
  <2>2. CASE i # index /\ j # index
    BY <1>5, <2>2 DEF Sound, Unique
  <2> QED BY <2>1, <2>2
<1>9. Taken(new) = Taken(buf) \cup {index}
  BY <1>2, <1>3, <1>5, <1>6 DEF Taken
<1>10. Valid(new) = Valid(buf) \cup {index}
  BY <1>3, <1>5, <1>6 DEF Valid
<1>11. ASSUME NEW p \in Pairs(new)
       PROVE  p \in {q \in Pairs(buf) : q.key # item.key} \cup {item}
  <2>1. PICK i \in 0..(n - 1) : i \in Valid(new) /\ p = new[i] /\ new[i] \in Item
    BY <1>6 DEF Pairs, Valid
  <2>2. CASE i = index
    BY <1>5, <2>1, <2>2
  <2>3. CASE i # index
    <3>1. p = buf[i] /\ buf[i] \in Item
      BY <1>5, <2>1, <2>3
    <3>2. p \in Pairs(buf)
      BY <1>6, <3>1 DEF Pairs, Valid
    <3>3. p.key # item.key
      BY <1>3, <2>3, <3>1 DEF k
    <3> QED BY <3>2, <3>3
  <2> QED BY <2>2, <2>3
<1>12. item \in Pairs(new)
  BY <1>3, <1>5, <1>10 DEF Pairs
<1>13. ASSUME NEW p \in Pairs(buf), p.key # item.key PROVE p \in Pairs(new)
  <2>1. PICK i \in 0..(n - 1) : i \in Valid(buf) /\ p = buf[i] /\ buf[i] \in Item
    BY <1>6 DEF Pairs, Valid
  <2>2. i # index
    <3>1. Empty # p
      BY <1>2, <2>1
    <3> QED BY <1>3, <1>13, <2>1, <3>1 DEF k
  <2> QED BY <1>5, <1>10, <2>1, <2>2 DEF Pairs
<1>14. Pairs(new) = {p \in Pairs(buf) : p.key # item.key} \cup {item}
  BY <1>11, <1>12, <1>13
<1>15. /\ IsFiniteSet(Taken(buf)) /\ IsFiniteSet(Valid(buf)) /\ Valid(buf) \subseteq Taken(buf)
       /\ Cardinality(Taken(buf)) \in Nat /\ Cardinality(Valid(buf)) \in Nat
  BY <1>1, SlotsOf
<1>16. /\ Cardinality(Taken(buf) \cup {index}) =
              Cardinality(Taken(buf)) + (IF buf[index] = Empty THEN 1 ELSE 0)
       /\ Cardinality(Valid(buf) \cup {index}) =
              Cardinality(Valid(buf)) + (IF buf[index] = Empty THEN 1 ELSE 0)
  <2>1. CASE buf[index] = Empty
    <3>1. index \notin Taken(buf) /\ index \notin Valid(buf)
      BY <1>15, <2>1 DEF Taken
    <3> QED BY <1>15, <2>1, <3>1, FS_AddElement
  <2>2. CASE buf[index] # Empty
    <3>1. index \in Taken(buf) /\ index \in Valid(buf)
      BY <1>3, <1>6, <2>2 DEF Taken, Valid
    <3>2. Taken(buf) \cup {index} = Taken(buf) /\ Valid(buf) \cup {index} = Valid(buf)
      BY <3>1
    <3>3. /\ Cardinality(Taken(buf) \cup {index}) = Cardinality(Taken(buf))
          /\ Cardinality(Valid(buf) \cup {index}) = Cardinality(Valid(buf))
      BY <3>2, Zenon
    <3> QED BY <1>15, <2>2, <3>3
  <2> QED BY <2>1, <2>2
<1>17. /\ Cardinality(Taken(new)) = Cardinality(Taken(buf) \cup {index})
       /\ Cardinality(Valid(new)) = Cardinality(Valid(buf) \cup {index})
  BY <1>9, <1>10, Zenon
<1>18. IsPut(hash, n, buf, item, index, new)
  BY <1>4, <1>7, <1>8, <1>9, <1>10, <1>14, <1>16, <1>17 DEF IsPut
<1> QED BY <1>0, <1>18

\* Invalidating the slot of a key that is there.
Invalidate(buf, k) == [buf EXCEPT ![ComputeIndex(buf, k)] = Invalidated]

IsInvalidated(hsh, n, buf, k, new) ==
    /\ new \in Buffer(n) /\ Placed(hsh, n, new) /\ Unique(n, new)
    /\ Taken(new) = Taken(buf)
    /\ Cardinality(Valid(buf)) > 0
    /\ Cardinality(Valid(new)) = Cardinality(Valid(buf)) - 1
    /\ Pairs(new) = {p \in Pairs(buf) : p.key # k}

LEMMA Invalidation ==
    ASSUME NEW n, NEW buf, Sound(hash, n, buf), hash \in [Key -> Hashes], NEW k \in Key,
           buf[ComputeIndex(buf, k)] # Empty
    PROVE  IsInvalidated(hash, n, buf, k, Invalidate(buf, k))
<1> PICK index : index = ComputeIndex(buf, k)
  OBVIOUS
<1> PICK new : new = [buf EXCEPT ![index] = Invalidated]
  OBVIOUS
<1>0. new = Invalidate(buf, k)
  BY DEF Invalidate
<1>1. n \in Nat \ {0} /\ n \in Nat /\ buf \in Buffer(n)
  BY DEF Sound
<1>2. Empty # Invalidated /\ Invalidated \notin Item /\ Empty \notin Item
  BY DictAssumption DEF Item
<1>3. /\ index \in 0..(n - 1) /\ index \in Valid(buf)
      /\ buf[index] \in Item /\ buf[index].key = k
      /\ \A i \in 0..(n - 1) : buf[i] \in Item /\ buf[i].key = k => i = index
  BY SlotOf
<1>4. new \in Buffer(n)
  BY <1>1 DEF Buffer
<1>5. \A i \in 0..(n - 1) : new[i] = IF i = index THEN Invalidated ELSE buf[i]
  BY <1>1 DEF Buffer
<1>6. Slots(buf) = 0..(n - 1) /\ Slots(new) = 0..(n - 1)
  BY <1>1, <1>4, SlotsOf
<1>7. Placed(hash, n, new)
  <2>1. ASSUME NEW i \in 0..(n - 1), new[i] \in Item
        PROVE  \E d \in 0..(n - 1) :
                  /\ Probe(hash[new[i].key], n, d) = i
                  /\ \A e \in 0..(d - 1) : new[Probe(hash[new[i].key], n, e)] # Empty
    <3>1. new[i] = buf[i]
      BY <1>2, <1>5, <2>1
    <3>2. hash[new[i].key] \in Nat
      BY <2>1, DictAssumption DEF Item
    <3>3. PICK d \in 0..(n - 1) :
             /\ Probe(hash[new[i].key], n, d) = i
             /\ \A e \in 0..(d - 1) : buf[Probe(hash[new[i].key], n, e)] # Empty
      BY <2>1, <3>1 DEF Sound, Placed
    <3>4. ASSUME NEW e \in 0..(d - 1) PROVE new[Probe(hash[new[i].key], n, e)] # Empty
      <4>1. e \in Nat
        BY <1>1
      <4>2. Probe(hash[new[i].key], n, e) \in 0..(n - 1)
        BY <1>1, <3>2, <4>1, ProbeType
      <4> QED BY <1>2, <1>5, <3>3, <4>2
    <3> QED BY <3>3, <3>4
  <2> QED BY <2>1 DEF Placed
<1>8. Unique(n, new)
  BY <1>2, <1>5 DEF Sound, Unique
<1>9. Taken(new) = Taken(buf)
  BY <1>2, <1>3, <1>5, <1>6 DEF Taken
<1>10. Valid(new) = Valid(buf) \ {index}
  BY <1>2, <1>3, <1>5, <1>6 DEF Valid
<1>11. /\ Cardinality(Valid(buf)) > 0
       /\ Cardinality(Valid(new)) = Cardinality(Valid(buf)) - 1
  <2>1. IsFiniteSet(Valid(buf)) /\ Cardinality(Valid(buf)) \in Nat
    BY <1>1, SlotsOf
  <2>2. Cardinality(Valid(buf) \ {index}) = Cardinality(Valid(buf)) - 1
    BY <1>3, <2>1, FS_RemoveElement
  <2>3. Cardinality(Valid(buf)) # 0
    BY <1>3, <2>1, FS_EmptySet
  <2>4. Cardinality(Valid(new)) = Cardinality(Valid(buf)) - 1
    BY <1>10, <2>2, Zenon
  <2> QED BY <2>1, <2>3, <2>4
<1>12. ASSUME NEW p \in Pairs(new) PROVE p \in Pairs(buf) /\ p.key # k
  <2>1. PICK i \in 0..(n - 1) : i \in Valid(new) /\ p = new[i] /\ new[i] \in Item
    BY <1>6 DEF Pairs, Valid
  <2>2. i # index /\ p = buf[i] /\ buf[i] \in Item
    BY <1>2, <1>5, <2>1
  <2>3. p \in Pairs(buf)
    BY <1>6, <2>2 DEF Pairs, Valid
  <2> QED BY <1>3, <2>2, <2>3
<1>13. ASSUME NEW p \in Pairs(buf), p.key # k PROVE p \in Pairs(new)
  <2>1. PICK i \in 0..(n - 1) : i \in Valid(buf) /\ p = buf[i] /\ buf[i] \in Item
    BY <1>6 DEF Pairs, Valid
  <2>2. i # index
    BY <1>3, <1>13, <2>1
  <2> QED BY <1>5, <1>10, <2>1, <2>2 DEF Pairs
<1>14. Pairs(new) = {p \in Pairs(buf) : p.key # k}
  BY <1>12, <1>13
<1>15. IsInvalidated(hash, n, buf, k, new)
  BY <1>4, <1>7, <1>8, <1>9, <1>11, <1>14 DEF IsInvalidated
<1> QED BY <1>0, <1>15

-----------------------------------------------------------------------------
(* Rehashing *)

\* A buffer that is being filled with the items of another one, up to slot i.
Filled(buf, i) == {j \in Valid(buf) : j < i}

Moved(hsh, m, buf, i, b) ==
    /\ b \in Buffer(m) /\ Placed(hsh, m, b) /\ Unique(m, b)
    /\ Taken(b) = Valid(b)
    /\ Cardinality(Valid(b)) = Cardinality(Filled(buf, i))
    /\ Pairs(b) = {buf[j] : j \in Filled(buf, i)}

LEMMA FilledStep ==
    ASSUME NEW n \in Nat, NEW buf \in Buffer(n), NEW i \in 0..(n - 1)
    PROVE  /\ Cardinality(Filled(buf, i)) \in Nat
           /\ i \notin Valid(buf) => Filled(buf, i + 1) = Filled(buf, i)
           /\ i \in Valid(buf) =>
                 /\ Filled(buf, i + 1) = Filled(buf, i) \cup {i}
                 /\ Cardinality(Filled(buf, i + 1)) = Cardinality(Filled(buf, i)) + 1
                 /\ Cardinality(Filled(buf, i)) < Cardinality(Valid(buf))
<1>1. IsFiniteSet(Valid(buf)) /\ Slots(buf) = 0..(n - 1) /\ Cardinality(Valid(buf)) \in Nat
  BY SlotsOf
<1>2. Valid(buf) \subseteq 0..(n - 1)
  BY <1>1 DEF Valid
<1>3. IsFiniteSet(Filled(buf, i)) /\ Cardinality(Filled(buf, i)) \in Nat
  <2>1. Filled(buf, i) \subseteq Valid(buf)
    BY DEF Filled
  <2> QED BY <1>1, <2>1, FS_Subset, FS_CardinalityType
<1>4. ASSUME i \notin Valid(buf) PROVE Filled(buf, i + 1) = Filled(buf, i)
  <2>1. \A j \in Valid(buf) : j < i + 1 <=> j < i
    <3> TAKE j \in Valid(buf)
    <3>1. j \in Nat /\ i \in Nat /\ j # i
      BY <1>2, <1>4
    <3> QED BY <3>1
  <2> QED BY <2>1 DEF Filled
<1>5. ASSUME i \in Valid(buf)
      PROVE  /\ Filled(buf, i + 1) = Filled(buf, i) \cup {i}
             /\ i \notin Filled(buf, i)
  <2>1. \A j \in Valid(buf) : j < i + 1 <=> j < i \/ j = i
    <3> TAKE j \in Valid(buf)
    <3>1. j \in Nat /\ i \in Nat
      BY <1>2
    <3> QED BY <3>1
  <2>2. ~(i < i)
    OBVIOUS
  <2> QED BY <1>5, <2>1, <2>2 DEF Filled
<1>6. ASSUME i \in Valid(buf)
      PROVE  /\ Cardinality(Filled(buf, i + 1)) = Cardinality(Filled(buf, i)) + 1
             /\ Cardinality(Filled(buf, i)) < Cardinality(Valid(buf))
  <2>1. Cardinality(Filled(buf, i) \cup {i}) = Cardinality(Filled(buf, i)) + 1
    BY <1>3, <1>5, <1>6, FS_AddElement
  <2>2. Cardinality(Filled(buf, i + 1)) = Cardinality(Filled(buf, i)) + 1
    BY <1>5, <1>6, <2>1, Zenon
  <2>3. Filled(buf, i + 1) \subseteq Valid(buf)
    BY DEF Filled
  <2>4. Cardinality(Filled(buf, i + 1)) <= Cardinality(Valid(buf))
    BY <1>1, <2>3, FS_Subset
  <2> QED BY <1>1, <1>3, <2>2, <2>4
<1> QED BY <1>3, <1>4, <1>5, <1>6

\* The definition of Rehashed, in the form of a function that is given.
FillStep(b, item) == IF item \in Item THEN PutIn(b, item) ELSE b

IsFill(f, n, buf, m) ==
    f = [i \in 0..n |-> IF i = 0 THEN EmptyBuffer(m) ELSE FillStep(f[i - 1], buf[i - 1])]

LEMMA FillExists ==
    ASSUME NEW n \in Nat, NEW buf \in Buffer(n), NEW m \in Nat \ {0}
    PROVE  \E f : IsFill(f, n, buf, m)
<1> DEFINE step == [i \in 1..n |-> [b \in Buffer(m) |-> FillStep(b, buf[i - 1])]]
<1>1. EmptyBuffer(m) \in Buffer(m)
  BY EmptyBufferSound
<1>2. \A b \in Buffer(m), i \in 1..n : FillStep(b, buf[i - 1]) \in Buffer(m)
  BY DEF FillStep, PutIn, Buffer
<1>3. step \in Steps(n, Buffer(m))
  BY <1>2 DEF Steps
<1>4. \A i \in 1..n, b \in Buffer(m) : step[i][b] = FillStep(b, buf[i - 1])
  OBVIOUS
<1> HIDE DEF step
<1>5. Recursive(n, Buffer(m), EmptyBuffer(m), step)
  BY <1>1, <1>3, Recursion
<1>6. PICK f \in [0..n -> Buffer(m)] :
        f = [i \in 0..n |-> IF i = 0 THEN EmptyBuffer(m) ELSE step[i][f[i - 1]]]
  BY <1>5 DEF Recursive
<1>7. \A i \in 0..n : i # 0 => i \in 1..n /\ f[i - 1] \in Buffer(m)
  <2> TAKE i \in 0..n
  <2> HAVE i # 0
  <2>1. i \in 1..n /\ i - 1 \in 0..n
    OBVIOUS
  <2> QED BY <2>1
<1>8. f = [i \in 0..n |-> IF i = 0 THEN EmptyBuffer(m) ELSE FillStep(f[i - 1], buf[i - 1])]
  BY <1>4, <1>6, <1>7
<1> QED BY <1>8 DEF IsFill

LEMMA RehashedIs ==
    ASSUME NEW n \in Nat, NEW buf \in Buffer(n), NEW m \in Nat \ {0}
    PROVE  \E f : IsFill(f, n, buf, m) /\ Rehashed(buf, m) = f[n]
<1> DEFINE taken == {i \in Slots(buf) : buf[i] \in Item}
           step == CHOOSE f : f = [i \in 0..Size(buf) |->
                IF i = 0 THEN EmptyBuffer(m)
                ELSE IF i - 1 \in taken
                     THEN [f[i - 1] EXCEPT
                             ![ComputeIndex(f[i - 1], buf[i - 1].key)] = buf[i - 1]]
                     ELSE f[i - 1]]
<1>1. Size(buf) = n /\ Slots(buf) = 0..(n - 1)
  BY SlotsOf
<1>2. ASSUME NEW f
      PROVE  IsFill(f, n, buf, m) <=>
               f = [i \in 0..Size(buf) |->
                IF i = 0 THEN EmptyBuffer(m)
                ELSE IF i - 1 \in taken
                     THEN [f[i - 1] EXCEPT
                             ![ComputeIndex(f[i - 1], buf[i - 1].key)] = buf[i - 1]]
                     ELSE f[i - 1]]
  <2>1. \A i \in 0..n : i # 0 => (i - 1 \in taken <=> buf[i - 1] \in Item)
    <3> TAKE i \in 0..n
    <3> HAVE i # 0
    <3>1. i - 1 \in 0..(n - 1)
      OBVIOUS
    <3> QED BY <1>1, <3>1
  <2> HIDE DEF taken
  <2> QED BY <1>1, <2>1 DEF IsFill, FillStep, PutIn
<1>3. IsFill(step, n, buf, m)
  <2> HIDE DEF taken
  <2> QED BY <1>2, FillExists
<1>4. Rehashed(buf, m) = step[n]
  BY <1>1 DEF Rehashed
<1> QED BY <1>3, <1>4

\* The item of the next slot moves to the buffer.
LEMMA MoveOne ==
    ASSUME NEW n \in Nat, NEW buf \in Buffer(n), Unique(n, buf), hash \in [Key -> Hashes],
           NEW m \in Nat \ {0}, Cardinality(Valid(buf)) < m, NEW i \in 0..(n - 1),
           NEW b, Moved(hash, m, buf, i, b)
    PROVE  Moved(hash, m, buf, i + 1, FillStep(b, buf[i]))
<1>1. Slots(buf) = 0..(n - 1) /\ Cardinality(Valid(buf)) \in Nat
  BY SlotsOf
<1>2. CASE buf[i] \notin Item
  <2>1. i \notin Valid(buf)
    BY <1>2 DEF Valid
  <2>2. Filled(buf, i + 1) = Filled(buf, i)
    BY <2>1, FilledStep
  <2>3. FillStep(b, buf[i]) = b
    BY <1>2 DEF FillStep
  <2> QED BY <2>2, <2>3 DEF Moved
<1>3. CASE buf[i] \in Item
  <2> DEFINE item  == buf[i]
             index == ComputeIndex(b, item.key)
             new   == PutIn(b, item)
  <2>1. i \in Valid(buf)
    BY <1>1, <1>3 DEF Valid
  <2>2. /\ Filled(buf, i + 1) = Filled(buf, i) \cup {i}
        /\ Cardinality(Filled(buf, i + 1)) = Cardinality(Filled(buf, i)) + 1
        /\ Cardinality(Filled(buf, i)) < Cardinality(Valid(buf))
        /\ Cardinality(Filled(buf, i)) \in Nat
    BY <2>1, FilledStep
  <2>3. b \in Buffer(m) /\ Placed(hash, m, b) /\ Unique(m, b) /\ Taken(b) = Valid(b)
        /\ Cardinality(Valid(b)) = Cardinality(Filled(buf, i))
        /\ Pairs(b) = {buf[j] : j \in Filled(buf, i)}
    BY DEF Moved
  <2>4. Cardinality(Taken(b)) < m
    BY <1>1, <2>2, <2>3
  <2>5. HasRoom(m, b)
    BY <2>3, <2>4, RoomLeft
  <2>6. Sound(hash, m, b)
    BY <2>3, <2>5 DEF Sound
  <2>7. \A p \in Pairs(b) : p.key # item.key
    <3>1. ASSUME NEW j \in Filled(buf, i) PROVE buf[j].key # item.key
      <4>1. j \in 0..(n - 1) /\ buf[j] \in Item /\ j # i
        BY <1>1 DEF Filled, Valid
      <4> QED BY <1>3, <4>1 DEF Unique
    <3> QED BY <2>3, <3>1
  <2>8. item \in Item
    BY <1>3
  <2> HIDE DEF item
  <2>9. /\ new \in Buffer(m) /\ Placed(hash, m, new) /\ Unique(m, new)
        /\ Taken(new) = Taken(b) \cup {index}
        /\ Valid(new) = Valid(b) \cup {index}
        /\ Pairs(new) = {p \in Pairs(b) : p.key # item.key} \cup {item}
        /\ Cardinality(Valid(new)) = Cardinality(Valid(b)) + (IF b[index] = Empty THEN 1 ELSE 0)
    <3>1. IsPut(hash, m, b, item, index, new)
      BY <2>6, <2>8, Put
    <3> HIDE DEF index, new
    <3> QED BY <3>1 DEF IsPut
  <2>10. b[index] = Empty
    <3> HIDE DEF index
    <3>1. index = ComputeIndex(b, item.key) /\ item.key \in Key
      BY <2>8 DEF index, Item
    <3>2. b[index] # Empty => index \in Valid(b) /\ b[index].key = item.key
      BY <2>6, <3>1, SlotOf
    <3> QED BY <2>7, <3>2 DEF Pairs
  <2> HIDE DEF new, index
  <2>11. Cardinality(Valid(new)) = Cardinality(Filled(buf, i + 1))
    BY <2>2, <2>3, <2>9, <2>10
  <2>12. Pairs(new) = {buf[j] : j \in Filled(buf, i + 1)}
    <3>1. Pairs(new) = Pairs(b) \cup {item}
      BY <2>7, <2>9
    <3> QED BY <2>2, <2>3, <3>1 DEF item
  <2>13. Moved(hash, m, buf, i + 1, new)
    BY <2>3, <2>9, <2>11, <2>12 DEF Moved
  <2>14. FillStep(b, buf[i]) = new
    BY <1>3 DEF FillStep, new, index, item
  <2> QED BY <2>13, <2>14
<1> QED BY <1>2, <1>3

\* A rehash keeps the pairs, and leaves no slot invalidated.
LEMMA Rehash ==
    ASSUME NEW n \in Nat, NEW buf \in Buffer(n), Unique(n, buf), hash \in [Key -> Hashes],
           NEW m \in Nat \ {0}, Cardinality(Valid(buf)) < m
    PROVE  /\ Sound(hash, m, Rehashed(buf, m))
           /\ Taken(Rehashed(buf, m)) = Valid(Rehashed(buf, m))
           /\ Cardinality(Valid(Rehashed(buf, m))) = Cardinality(Valid(buf))
           /\ Pairs(Rehashed(buf, m)) = Pairs(buf)
<1>1. PICK f : IsFill(f, n, buf, m) /\ Rehashed(buf, m) = f[n]
  BY RehashedIs
<1>2. Slots(buf) = 0..(n - 1) /\ Cardinality(Valid(buf)) \in Nat
  BY SlotsOf
<1> DEFINE S == {i \in 0..n : Moved(hash, m, buf, i, f[i])}
<1>3. 0 \in S
  <2>1. f[0] = EmptyBuffer(m)
    BY <1>1 DEF IsFill
  <2>2. Filled(buf, 0) = {}
    BY <1>2 DEF Filled, Valid
  <2>3. Cardinality(Filled(buf, 0)) = 0
    BY <2>2, FS_EmptySet
  <2>4. /\ EmptyBuffer(m) \in Buffer(m) /\ Placed(hash, m, EmptyBuffer(m))
        /\ Unique(m, EmptyBuffer(m)) /\ Taken(EmptyBuffer(m)) = Valid(EmptyBuffer(m))
        /\ Valid(EmptyBuffer(m)) = {} /\ Pairs(EmptyBuffer(m)) = {}
    BY EmptyBufferSound DEF Sound, Pairs
  <2>5. Cardinality(Valid(EmptyBuffer(m))) = 0
    BY <2>4, FS_EmptySet
  <2> QED BY <2>1, <2>2, <2>3, <2>4, <2>5 DEF Moved
<1>4. ASSUME NEW i \in 0..(n - 1), i \in S PROVE i + 1 \in S
  <2>1. i + 1 \in 0..n /\ i + 1 # 0 /\ (i + 1) - 1 = i
    OBVIOUS
  <2>2. f[i + 1] = FillStep(f[i], buf[i])
    BY <1>1, <2>1 DEF IsFill
  <2>3. Moved(hash, m, buf, i + 1, FillStep(f[i], buf[i]))
    BY <1>4, MoveOne
  <2> QED BY <2>1, <2>2, <2>3
<1> HIDE DEF S
<1>5. n \in S
  BY <1>3, <1>4, BoundedInduction
<1> DEFINE r == Rehashed(buf, m)
<1>6. Moved(hash, m, buf, n, r)
  BY <1>1, <1>5 DEF S
<1>7. Filled(buf, n) = Valid(buf)
  BY <1>2 DEF Filled, Valid
<1> HIDE DEF r
<1>8. /\ r \in Buffer(m) /\ Placed(hash, m, r) /\ Unique(m, r) /\ Taken(r) = Valid(r)
      /\ Cardinality(Valid(r)) = Cardinality(Valid(buf)) /\ Pairs(r) = Pairs(buf)
  BY <1>6, <1>7 DEF Moved, Pairs
<1>9. HasRoom(m, r)
  BY <1>8, RoomLeft
<1> QED BY <1>8, <1>9 DEF Sound, r

-----------------------------------------------------------------------------
(* The invariant, whether buffers are compacted or not.  No more slots are *)
(* taken than in_use says, which passes three quarters by one at the most, *)
(* so one is left; length does not count fewer than there are.             *)

Inv ==
    /\ TypeOK
    /\ Size(buffer) >= Capacity
    /\ Sound(hash, Size(buffer), buffer)
    /\ Cardinality(Taken(buffer)) <= in_use
    /\ Cardinality(Valid(buffer)) <= length
    /\ length <= in_use /\ in_use <= sets
    /\ in_use * 4 < Size(buffer) * 3 + 4

\* The next call to LCH_DictSet finds the buffer full of invalidated slots.
Compacts == sets < MaxSets /\ TooFull /\ ~Expand

\* What EnsureCapacity leaves.
EnsuredOK(m) ==
    /\ m \in Nat /\ m >= Capacity /\ Size(Ensured) = m
    /\ Sound(hash, m, Ensured)
    /\ EnsuredInUse \in Nat /\ length <= EnsuredInUse /\ EnsuredInUse <= in_use
    /\ Cardinality(Taken(Ensured)) <= EnsuredInUse
    /\ Cardinality(Valid(Ensured)) <= length
    /\ EnsuredInUse * 4 < m * 3
    /\ (TooFull => Expand) =>
          /\ Pairs(Ensured) = Pairs(buffer)
          /\ Cardinality(Valid(Ensured)) = Cardinality(Valid(buffer))

LEMMA RoomBound ==
    ASSUME NEW n \in Nat, n >= 4, NEW used \in Nat, used * 4 < n * 3 + 4
    PROVE  used < n
OBVIOUS

LEMMA EnsureCapacity ==
    ASSUME CapacityAssumption, Inv
    PROVE  \E m : EnsuredOK(m)
<1> DEFINE n == Size(buffer)
<1>1. /\ n \in Nat \ {0} /\ n \in Nat /\ buffer \in Buffer(n) /\ Unique(n, buffer)
      /\ n >= Capacity /\ Capacity \in Nat /\ Capacity >= 4
      /\ Sound(hash, n, buffer) /\ hash \in [Key -> Hashes]
      /\ length \in Nat /\ in_use \in Nat
      /\ length <= in_use /\ in_use * 4 < n * 3 + 4
      /\ Cardinality(Taken(buffer)) <= in_use /\ Cardinality(Valid(buffer)) <= length
  BY DictAssumption DEF Inv, Sound, TypeOK, CapacityAssumption
<1>2. Cardinality(Valid(buffer)) \in Nat
  BY <1>1, SlotsOf
<1>3. TooFull <=> in_use * 4 >= n * 3
  BY DEF TooFull
<1>4. Expand <=> n * (in_use - length) < 50
  BY DEF Expand
<1> HIDE DEF n
<1>5. CASE ~TooFull
  <2>1. Ensured = buffer /\ EnsuredInUse = in_use
    BY <1>5 DEF Ensured, EnsuredInUse
  <2>2. in_use * 4 < n * 3
    BY <1>1, <1>3, <1>5
  <2> QED BY <1>1, <1>5, <2>1, <2>2 DEF EnsuredOK, n
<1>6. CASE TooFull /\ Expand
  <2> DEFINE m == 2 * n
  <2>1. Ensured = Rehashed(buffer, m) /\ EnsuredInUse = length
    BY <1>6 DEF Ensured, EnsuredInUse, n
  <2>2. m \in Nat \ {0} /\ m >= Capacity /\ Cardinality(Valid(buffer)) < m /\ length * 4 < m * 3
    BY <1>1, <1>2
  <2> HIDE DEF m
  <2>3. /\ Sound(hash, m, Ensured)
        /\ Taken(Ensured) = Valid(Ensured)
        /\ Cardinality(Valid(Ensured)) = Cardinality(Valid(buffer))
        /\ Pairs(Ensured) = Pairs(buffer)
    BY <1>1, <2>1, <2>2, Rehash
  <2>4. Size(Ensured) = m
    BY <2>2, <2>3, SlotsOf DEF Sound
  <2> QED BY <1>1, <1>6, <2>1, <2>2, <2>3, <2>4 DEF EnsuredOK
<1>7. CASE TooFull /\ ~Expand
  <2>1. Ensured = EmptyBuffer(n) /\ EnsuredInUse = length
    BY <1>7 DEF Ensured, EnsuredInUse, n
  <2>2. in_use # length
    BY <1>1, <1>4, <1>7
  <2>3. length * 4 < n * 3
    BY <1>1, <2>2
  <2>4. /\ Sound(hash, n, Ensured) /\ Ensured \in Buffer(n)
        /\ Taken(Ensured) = {} /\ Valid(Ensured) = {}
    BY <1>1, <2>1, EmptyBufferSound
  <2>5. Size(Ensured) = n
    BY <1>1, <2>4, SlotsOf
  <2>6. Cardinality(Taken(Ensured)) = 0 /\ Cardinality(Valid(Ensured)) = 0
    BY <2>4, FS_EmptySet
  <2> QED BY <1>1, <1>7, <2>1, <2>3, <2>4, <2>5, <2>6 DEF EnsuredOK
<1> QED BY <1>5, <1>6, <1>7

LEMMA SetStep ==
    ASSUME CapacityAssumption, Inv, NEW k \in Key, NEW v \in Value, DictSet(k, v)
    PROVE  /\ Inv'
           /\ ~Compacts =>
                 /\ Pairs(buffer') = {p \in Pairs(buffer) : p.key # k}
                                       \cup {[key |-> k, value |-> v]}
                 /\ length = Cardinality(Valid(buffer)) => length' = Cardinality(Valid(buffer'))
<1> DEFINE item  == [key |-> k, value |-> v]
           index == ComputeIndex(Ensured, k)
           one   == IF Ensured[index] = Empty THEN 1 ELSE 0
<1>1. PICK m : EnsuredOK(m)
  BY EnsureCapacity
<1>2. item \in Item /\ item.key = k
  BY DEF Item
<1>3. /\ sets < MaxSets /\ sets' = sets + 1
      /\ buffer' = PutIn(Ensured, item)
      /\ in_use' = EnsuredInUse + one
      /\ length' = length + one
      /\ hash' = hash
  BY <1>2 DEF DictSet, PutIn
<1>4. /\ m \in Nat /\ m >= Capacity /\ Sound(hash, m, Ensured)
      /\ EnsuredInUse \in Nat /\ length <= EnsuredInUse /\ EnsuredInUse <= in_use
      /\ Cardinality(Taken(Ensured)) <= EnsuredInUse
      /\ Cardinality(Valid(Ensured)) <= length
      /\ EnsuredInUse * 4 < m * 3
  BY <1>1 DEF EnsuredOK
<1>5. /\ hash \in [Key -> Hashes] /\ length \in Nat /\ in_use \in Nat /\ sets \in Nat
      /\ in_use <= sets /\ MaxSets \in Nat /\ Capacity \in Nat /\ Capacity >= 4
  BY DictAssumption DEF Inv, TypeOK, CapacityAssumption
<1> HIDE DEF item
<1>6. IsPut(hash, m, Ensured, item, index, buffer')
  BY <1>2, <1>3, <1>4, <1>5, Put
<1>7. one \in {0, 1}
  OBVIOUS
<1>8. /\ Cardinality(Taken(buffer')) = Cardinality(Taken(Ensured)) + one
      /\ Cardinality(Valid(buffer')) = Cardinality(Valid(Ensured)) + one
      /\ buffer' \in Buffer(m) /\ Placed(hash, m, buffer') /\ Unique(m, buffer')
      /\ Pairs(buffer') = {p \in Pairs(Ensured) : p.key # k} \cup {item}
  BY <1>2, <1>6 DEF IsPut
<1> HIDE DEF one, index
<1>9. /\ Slots(buffer') = 0..(m - 1) /\ Size(buffer') = m
      /\ Cardinality(Taken(buffer')) \in Nat /\ Cardinality(Valid(buffer')) \in Nat
  BY <1>4, <1>8, SlotsOf
<1>10. /\ Cardinality(Taken(Ensured)) \in Nat /\ Cardinality(Valid(Ensured)) \in Nat
  BY <1>4, SlotsOf DEF Sound
<1>11. /\ in_use' \in Nat /\ length' \in Nat /\ sets' \in 0..MaxSets
       /\ length' <= in_use' /\ in_use' <= sets' /\ in_use' * 4 < m * 3 + 4
       /\ Cardinality(Taken(buffer')) <= in_use' /\ Cardinality(Valid(buffer')) <= length'
  BY <1>3, <1>4, <1>5, <1>7, <1>8, <1>10
<1>12. Cardinality(Taken(buffer')) < m
  <2>1. m >= 4
    BY <1>4, <1>5
  <2>2. in_use' < m
    BY <1>4, <1>11, <2>1, RoomBound
  <2> QED BY <1>4, <1>9, <1>11, <2>2
<1>13. HasRoom(m, buffer')
  BY <1>4, <1>8, <1>12, RoomLeft
<1>14. Sound(hash', Size(buffer'), buffer')
  BY <1>3, <1>4, <1>8, <1>9, <1>13 DEF Sound
<1>15. TypeOK'
  <2>1. in_use' \in 0..MaxSets /\ length' \in 0..MaxSets
    BY <1>5, <1>11
  <2>2. buffer' \in [Slots(buffer') -> Item \cup {Empty, Invalidated}]
    BY <1>8, <1>9 DEF Buffer
  <2> QED BY <1>3, <1>5, <1>11, <2>1, <2>2 DEF TypeOK
<1>16. Inv'
  BY <1>4, <1>9, <1>11, <1>14, <1>15 DEF Inv
<1>17. ASSUME ~Compacts
       PROVE  /\ Pairs(buffer') = {p \in Pairs(buffer) : p.key # k} \cup {item}
              /\ length = Cardinality(Valid(buffer)) => length' = Cardinality(Valid(buffer'))
  <2>1. /\ Pairs(Ensured) = Pairs(buffer)
        /\ Cardinality(Valid(Ensured)) = Cardinality(Valid(buffer))
    BY <1>1, <1>3, <1>17 DEF EnsuredOK, Compacts
  <2> QED BY <1>3, <1>8, <2>1
<1> QED BY <1>16, <1>17 DEF item

LEMMA RemoveStep ==
    ASSUME CapacityAssumption, Inv, NEW k \in Key, DictRemove(k)
    PROVE  /\ Inv'
           /\ HasKey(k)
           /\ Pairs(buffer') = {p \in Pairs(buffer) : p.key # k}
           /\ length = Cardinality(Valid(buffer)) => length' = Cardinality(Valid(buffer'))
<1> DEFINE n     == Size(buffer)
           index == ComputeIndex(buffer, k)
<1>1. /\ HasKey(k) /\ buffer[index] # Empty
      /\ buffer' = [buffer EXCEPT ![index] = Invalidated]
      /\ length' = length - 1
      /\ hash' = hash /\ in_use' = in_use /\ sets' = sets
  BY DEF DictRemove, HasKey
<1>2. /\ n \in Nat /\ n >= Capacity /\ Sound(hash, n, buffer) /\ buffer \in Buffer(n)
      /\ hash \in [Key -> Hashes] /\ length \in Nat /\ in_use \in Nat /\ sets \in Nat
      /\ length <= in_use /\ in_use <= sets /\ in_use * 4 < n * 3 + 4
      /\ Cardinality(Taken(buffer)) <= in_use /\ Cardinality(Valid(buffer)) <= length
      /\ sets \in 0..MaxSets /\ MaxSets \in Nat /\ Capacity \in Nat /\ Capacity >= 4
  BY DictAssumption DEF Inv, TypeOK, CapacityAssumption, Sound
<1> HIDE DEF n
<1>3. /\ buffer' \in Buffer(n) /\ Placed(hash, n, buffer') /\ Unique(n, buffer')
      /\ Taken(buffer') = Taken(buffer)
      /\ Cardinality(Valid(buffer)) > 0
      /\ Cardinality(Valid(buffer')) = Cardinality(Valid(buffer)) - 1
      /\ Pairs(buffer') = {p \in Pairs(buffer) : p.key # k}
  <2>1. buffer' = Invalidate(buffer, k)
    BY <1>1 DEF Invalidate
  <2>2. buffer[ComputeIndex(buffer, k)] # Empty
    BY <1>1
  <2>3. IsInvalidated(hash, n, buffer, k, Invalidate(buffer, k))
    BY <1>2, <2>2, Invalidation
  <2>4. IsInvalidated(hash, n, buffer, k, buffer')
    BY <2>1, <2>3
  <2> QED BY <2>4 DEF IsInvalidated
<1> HIDE DEF index
<1>4. Slots(buffer') = 0..(n - 1) /\ Size(buffer') = n
  BY <1>2, <1>3, SlotsOf
<1>5. Cardinality(Valid(buffer)) \in Nat /\ Cardinality(Taken(buffer)) \in Nat
  BY <1>2, SlotsOf
<1>6. /\ length' \in Nat /\ length' <= in_use' /\ in_use' <= sets'
      /\ Cardinality(Valid(buffer')) <= length' /\ Cardinality(Taken(buffer')) <= in_use'
      /\ in_use' * 4 < n * 3 + 4
  BY <1>1, <1>2, <1>3, <1>5
<1>7. Cardinality(Taken(buffer')) < n
  BY <1>1, <1>2, <1>3, <1>5
<1>8. HasRoom(n, buffer')
  BY <1>2, <1>3, <1>7, RoomLeft
<1>9. Sound(hash', Size(buffer'), buffer')
  BY <1>1, <1>2, <1>3, <1>4, <1>8 DEF Sound
<1>10. TypeOK'
  <2>1. length' \in 0..MaxSets /\ in_use' \in 0..MaxSets
    BY <1>1, <1>2, <1>6
  <2>2. buffer' \in [Slots(buffer') -> Item \cup {Empty, Invalidated}]
    BY <1>3, <1>4 DEF Buffer
  <2> QED BY <1>1, <1>2, <2>1, <2>2 DEF TypeOK
<1>11. Inv'
  BY <1>2, <1>4, <1>6, <1>9, <1>10 DEF Inv
<1>12. length = Cardinality(Valid(buffer)) => length' = Cardinality(Valid(buffer'))
  BY <1>1, <1>3
<1> QED BY <1>1, <1>3, <1>11, <1>12

LEMMA InvInit == ASSUME CapacityAssumption PROVE Init => Inv /\ Valid(buffer) = {}
<1> SUFFICES ASSUME Init PROVE Inv /\ Valid(buffer) = {}
  OBVIOUS
<1>1. /\ Capacity \in Nat \ {0} /\ Capacity \in Nat /\ Capacity >= 4 /\ MaxSets \in Nat
      /\ buffer = EmptyBuffer(Capacity) /\ hash \in [Key -> Hashes]
      /\ length = 0 /\ in_use = 0 /\ sets = 0
  BY DictAssumption DEF Init, CapacityAssumption
<1>2. /\ buffer \in Buffer(Capacity) /\ Sound(hash, Capacity, buffer)
      /\ Taken(buffer) = {} /\ Valid(buffer) = {}
  BY <1>1, EmptyBufferSound
<1>3. Slots(buffer) = 0..(Capacity - 1) /\ Size(buffer) = Capacity
  BY <1>1, <1>2, SlotsOf
<1>4. Cardinality(Taken(buffer)) = 0 /\ Cardinality(Valid(buffer)) = 0
  BY <1>2, FS_EmptySet
<1>5. TypeOK
  <2>1. buffer \in [Slots(buffer) -> Item \cup {Empty, Invalidated}]
    BY <1>2, <1>3 DEF Buffer
  <2> QED BY <1>1, <2>1 DEF TypeOK
<1> QED BY <1>1, <1>2, <1>3, <1>4, <1>5 DEF Inv

LEMMA InvStep == ASSUME CapacityAssumption PROVE Inv /\ [Next]_vars => Inv'
<1> SUFFICES ASSUME Inv, [Next]_vars PROVE Inv'
  OBVIOUS
<1>1. CASE UNCHANGED vars
  BY <1>1 DEF vars, Inv, TypeOK
<1>2. CASE Next
  BY <1>2, SetStep, RemoveStep DEF Next
<1> QED BY <1>1, <1>2

\* The dictionary keeps its types, and its counters do not pass the number of
\* calls: length does not drop below zero.
THEOREM TypeCorrect == ASSUME CapacityAssumption PROVE Spec => []TypeOK
<1>1. Inv => TypeOK
  BY DEF Inv
<1> QED BY <1>1, InvInit, InvStep, PTL DEF Spec

\* However often the buffer was expanded or compacted, an empty slot is left:
\* the loops of lib/dict.c that probe for a key end.
THEOREM ProbingStops == ASSUME CapacityAssumption PROVE Spec => []ProbingEnds
<1>1. Inv => ProbingEnds
  <2> SUFFICES ASSUME Inv PROVE ProbingEnds
    OBVIOUS
  <2>1. Sound(hash, Size(buffer), buffer)
    BY DEF Inv
  <2>2. Slots(buffer) = 0..(Size(buffer) - 1)
    BY <2>1, SlotsOf DEF Sound
  <2> QED BY <2>1, <2>2 DEF Sound, HasRoom, ProbingEnds
<1> QED BY <1>1, InvInit, InvStep, PTL DEF Spec

-----------------------------------------------------------------------------
(* What holds until a buffer is compacted *)

NothingLost == length = Cardinality(Valid(buffer))

LEMMA NothingLostInit == ASSUME CapacityAssumption PROVE Init => NothingLost
<1>1. Cardinality({}) = 0
  BY FS_EmptySet
<1> QED BY <1>1, InvInit DEF Init, NothingLost

LEMMA NothingLostStep ==
    ASSUME CapacityAssumption
    PROVE  Inv /\ NothingLost /\ ~Compacts /\ [Next]_vars => NothingLost'
<1> SUFFICES ASSUME Inv, NothingLost, ~Compacts, [Next]_vars PROVE NothingLost'
  OBVIOUS
<1>1. CASE UNCHANGED vars
  BY <1>1 DEF vars, NothingLost
<1>2. ASSUME NEW k \in Key, DictRemove(k) PROVE NothingLost'
  BY <1>2, RemoveStep DEF NothingLost
<1>3. ASSUME NEW k \in Key, NEW v \in Value, DictSet(k, v) PROVE NothingLost'
  BY <1>3, SetStep DEF NothingLost
<1> QED BY <1>1, <1>2, <1>3 DEF Next

\* The map that the pairs are.
MapOf(P) ==
    [k \in Key |-> IF \E p \in P : p.key = k THEN (CHOOSE p \in P : p.key = k).value
                                             ELSE Missing]

Mapping == [k \in Key |-> IF HasKey(k) THEN Get(k) ELSE Missing]

LEMMA MappingIs == Inv => Mapping = MapOf(Pairs(buffer))
<1> SUFFICES ASSUME Inv PROVE Mapping = MapOf(Pairs(buffer))
  OBVIOUS
<1> DEFINE n == Size(buffer)
<1>1. /\ Sound(hash, n, buffer) /\ hash \in [Key -> Hashes]
      /\ n \in Nat /\ buffer \in Buffer(n)
  BY DEF Inv, TypeOK, Sound
<1>2. Slots(buffer) = 0..(n - 1)
  BY <1>1, SlotsOf
<1> HIDE DEF n
<1>3. ASSUME NEW k \in Key
      PROVE  (IF HasKey(k) THEN Get(k) ELSE Missing)
               = (IF \E p \in Pairs(buffer) : p.key = k
                  THEN (CHOOSE p \in Pairs(buffer) : p.key = k).value ELSE Missing)
  <2> PICK index : index = ComputeIndex(buffer, k)
    OBVIOUS
  <2>1. /\ buffer[index] = Empty => \A p \in Pairs(buffer) : p.key # k
        /\ buffer[index] # Empty => index \in Valid(buffer) /\ buffer[index].key = k
        /\ \A i \in 0..(n - 1) : buffer[i] \in Item /\ buffer[i].key = k => i = index
    BY <1>1, SlotOf
  <2>2. HasKey(k) <=> buffer[index] # Empty
    BY DEF HasKey
  <2>3. CASE buffer[index] = Empty
    BY <2>1, <2>2, <2>3
  <2>4. CASE buffer[index] # Empty
    <3>1. buffer[index] \in Pairs(buffer) /\ buffer[index].key = k
      BY <2>1, <2>4 DEF Pairs
    <3>2. \A p \in Pairs(buffer) : p.key = k => p = buffer[index]
      BY <1>2, <2>1 DEF Pairs, Valid
    <3>3. (CHOOSE p \in Pairs(buffer) : p.key = k) = buffer[index]
      BY <3>1, <3>2
    <3>4. Get(k) = buffer[index].value
      BY DEF Get
    <3> QED BY <2>2, <2>4, <3>1, <3>3, <3>4
  <2> QED BY <2>3, <2>4
<1> QED BY <1>3 DEF Mapping, MapOf

LEMMA MapOfSet ==
    ASSUME NEW P, NEW k \in Key, NEW v,
           NEW Q, Q = {p \in P : p.key # k} \cup {[key |-> k, value |-> v]}
    PROVE  MapOf(Q) = [MapOf(P) EXCEPT ![k] = v]
<1> DEFINE item == [key |-> k, value |-> v]
<1>1. item.key = k /\ item.value = v
  OBVIOUS
<1>2. Q = {p \in P : p.key # k} \cup {item}
  OBVIOUS
<1> HIDE DEF item
<1>3. MapOf(Q)[k] = v
  <2>1. item \in Q /\ \A p \in Q : p.key = k => p = item
    BY <1>1, <1>2
  <2>2. (CHOOSE p \in Q : p.key = k) = item
    BY <1>1, <2>1
  <2> QED BY <1>1, <2>1, <2>2 DEF MapOf
<1>4. ASSUME NEW l \in Key, l # k PROVE MapOf(Q)[l] = MapOf(P)[l]
  <2>1. \A p : p \in Q /\ p.key = l <=> p \in P /\ p.key = l
    BY <1>1, <1>2, <1>4
  <2>2. (CHOOSE p : p \in Q /\ p.key = l) = (CHOOSE p : p \in P /\ p.key = l)
    BY <2>1
  <2>3. (CHOOSE p \in Q : p.key = l) = (CHOOSE p \in P : p.key = l)
    BY <2>2
  <2> QED BY <2>1, <2>3 DEF MapOf
<1>5. MapOf(P) = [l \in Key |-> MapOf(P)[l]] /\ MapOf(Q) = [l \in Key |-> MapOf(Q)[l]]
  BY DEF MapOf
<1> QED BY <1>3, <1>4, <1>5

LEMMA MapOfRemove ==
    ASSUME NEW P, NEW k \in Key, NEW Q, Q = {p \in P : p.key # k}
    PROVE  MapOf(Q) = [MapOf(P) EXCEPT ![k] = Missing]
<1>1. MapOf(Q)[k] = Missing
  BY DEF MapOf
<1>2. ASSUME NEW l \in Key, l # k PROVE MapOf(Q)[l] = MapOf(P)[l]
  <2>1. \A p : p \in Q /\ p.key = l <=> p \in P /\ p.key = l
    BY <1>2
  <2>2. (CHOOSE p : p \in Q /\ p.key = l) = (CHOOSE p : p \in P /\ p.key = l)
    BY <2>1
  <2>3. (CHOOSE p \in Q : p.key = l) = (CHOOSE p \in P : p.key = l)
    BY <2>2
  <2> QED BY <2>1, <2>3 DEF MapOf
<1>3. MapOf(P) = [l \in Key |-> MapOf(P)[l]] /\ MapOf(Q) = [l \in Key |-> MapOf(Q)[l]]
  BY DEF MapOf
<1> QED BY <1>1, <1>2, <1>3

LEMMA MapInit == ASSUME CapacityAssumption PROVE Init => Map!Init
<1> SUFFICES ASSUME Init PROVE Mapping = [k \in Key |-> Missing]
  BY DEF Map!Init, Mapping
<1>1. Inv /\ Pairs(buffer) = {}
  BY InvInit DEF Pairs
<1> QED BY <1>1, MappingIs DEF MapOf

LEMMA MapStep ==
    ASSUME CapacityAssumption
    PROVE  Inv /\ ~Compacts /\ [Next]_vars => [Map!Next]_Mapping
<1> SUFFICES ASSUME Inv, ~Compacts, [Next]_vars PROVE Map!Next \/ Mapping' = Mapping
  OBVIOUS
<1>1. Mapping = MapOf(Pairs(buffer))
  BY MappingIs
<1>2. Inv'
  BY InvStep
<1>3. Mapping' = MapOf(Pairs(buffer'))
  <2>1. (Inv => Mapping = MapOf(Pairs(buffer)))'
    BY MappingIs, PTL
  <2> QED BY <1>2, <2>1
<1>4. CASE UNCHANGED vars
  BY <1>1, <1>3, <1>4 DEF vars
<1>5. ASSUME NEW k \in Key, NEW v \in Value, DictSet(k, v) PROVE Map!Next
  <2>1. Pairs(buffer') = {p \in Pairs(buffer) : p.key # k} \cup {[key |-> k, value |-> v]}
    BY <1>5, SetStep
  <2>2. Mapping' = [Mapping EXCEPT ![k] = v]
    BY <1>1, <1>3, <2>1, MapOfSet
  <2> QED BY <2>2 DEF Map!Next, Map!Set, Mapping
<1>6. ASSUME NEW k \in Key, DictRemove(k) PROVE Map!Next
  <2>1. Pairs(buffer') = {p \in Pairs(buffer) : p.key # k} /\ HasKey(k)
    BY <1>6, RemoveStep
  <2>2. Mapping' = [Mapping EXCEPT ![k] = Missing]
    BY <1>1, <1>3, <2>1, MapOfRemove
  <2>3. Mapping[k] # Missing
    <3> DEFINE n == Size(buffer)
    <3>1. /\ Sound(hash, n, buffer) /\ hash \in [Key -> Hashes] /\ buffer \in Buffer(n)
      BY DEF Inv, TypeOK, Sound
    <3> HIDE DEF n
    <3> PICK index : index = ComputeIndex(buffer, k)
      OBVIOUS
    <3>2. buffer[index] \in Item
      BY <2>1, <3>1, SlotOf DEF HasKey
    <3>3. Mapping[k] = buffer[index].value
      BY <2>1 DEF Mapping, Get
    <3> QED BY <3>2, <3>3, DictAssumption DEF Item
  <2> QED BY <2>2, <2>3 DEF Map!Next, Map!Remove, Mapping
<1> QED BY <1>4, <1>5, <1>6 DEF Next

\* As long as no call compacts a buffer that is full of invalidated slots,
\* LCH_DictLength is the number of pairs, and LCH_DictGetKeys lists as many.
THEOREM CountsPairs ==
    ASSUME CapacityAssumption
    PROVE  Spec /\ []~Compacts => []LengthCountsPairs
<1>1. NothingLost => LengthCountsPairs
  BY DEF NothingLost, LengthCountsPairs, Valid
<1> QED BY <1>1, InvInit, InvStep, NothingLostInit, NothingLostStep, PTL DEF Spec

\* As long as no call compacts a buffer, the hash table is a map: every step of
\* it is one of LeechMap, or none.
THEOREM Refinement ==
    ASSUME CapacityAssumption
    PROVE  Spec /\ []~Compacts => ImplementsMap
<1> QED BY InvInit, InvStep, MapInit, MapStep, PTL DEF Spec, ImplementsMap, Map!Spec, Mapping

\* A dictionary of few calls to LCH_DictSet does not come to that: with 256
\* slots, as LCH_DICT_CAPACITY has it, one of 192.
FewSets == 4 * MaxSets <= 3 * Capacity \/ MaxSets <= 7

LEMMA FewDoNotCompact ==
    ASSUME CapacityAssumption, FewSets PROVE Inv => ~Compacts
<1> SUFFICES ASSUME Inv, Compacts PROVE FALSE
  OBVIOUS
<1> DEFINE n == Size(buffer)
<1>1. /\ n \in Nat /\ n >= Capacity /\ Capacity \in Nat /\ MaxSets \in Nat
      /\ length \in Nat /\ in_use \in Nat /\ sets \in Nat
      /\ length <= in_use /\ in_use <= sets /\ sets < MaxSets
      /\ in_use * 4 >= n * 3 /\ ~(n * (in_use - length) < 50)
  BY DictAssumption DEF Inv, Sound, TypeOK, Compacts, TooFull, Expand
<1> HIDE DEF n
<1>2. CASE 4 * MaxSets <= 3 * Capacity
  BY <1>1, <1>2
<1>3. CASE MaxSets <= 7
  <2>1. n \in 0..8 /\ in_use - length \in 0..6
    BY <1>1, <1>3
  <2>2. \A x \in 0..8, y \in 0..6 : x * y < 50
    OBVIOUS
  <2> QED BY <1>1, <2>1, <2>2
<1> QED BY <1>2, <1>3 DEF FewSets

\* Dictionaries of few calls to LCH_DictSet count their pairs, and are maps.
THEOREM SmallDictionaries ==
    ASSUME CapacityAssumption, FewSets
    PROVE  Spec => []LengthCountsPairs /\ ImplementsMap
BY InvInit, InvStep, FewDoNotCompact, CountsPairs, Refinement, PTL DEF Spec

=============================================================================
