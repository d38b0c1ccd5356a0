----------------------------- MODULE LeechDict ------------------------------
(***************************************************************************)
(* The hash table behind every JSON object (lib/dict.c): open addressing   *)
(* with linear probing, where a removal only invalidates the slot and a    *)
(* set that finds the buffer too full rehashes it first.                   *)
(***************************************************************************)
EXTENDS Naturals, FiniteSets

CONSTANTS
    Key,
    Value,
    Missing,       \* the value of a key that is not there
    Capacity,      \* LCH_DICT_CAPACITY: number of slots at first
    Hashes,        \* hash values that keys may have
    MaxSets,       \* bound: number of calls to LCH_DictSet
    Empty,         \* a slot that holds no item
    Invalidated    \* a slot whose item was removed

ASSUME DictAssumption ==
    /\ Capacity \in Nat \ {0}
    /\ Hashes \subseteq Nat
    /\ MaxSets \in Nat
    /\ Missing \notin Value
    /\ Empty # Invalidated
    /\ {Empty, Invalidated} \cap [key: Key, value: Value] = {}

VARIABLES
    hash,     \* HashKey, whatever it makes of the keys
    length,   \* number of key-value pairs
    in_use,   \* number of slots taken since the last rehash
    buffer,   \* the slots
    sets      \* number of calls to LCH_DictSet so far

dict == <<length, in_use, buffer>>
vars == <<hash, length, in_use, buffer, sets>>

Item == [key: Key, value: Value]

Slots(buf) == DOMAIN buf

Size(buf) == Cardinality(Slots(buf))

EmptyBuffer(n) == [i \in 0..(n - 1) |-> Empty]

\* Where the probing from the key's own slot stops: at an empty slot or at the
\* valid item of the key.
ComputeIndex(buf, k) ==
    LET probe(d) == (hash[k] + d) % Size(buf)
        stops(d) == buf[probe(d)] = Empty
                    \/ (buf[probe(d)] # Invalidated /\ buf[probe(d)].key = k)
    IN  probe(CHOOSE d \in Slots(buf) : stops(d) /\ \A e \in 0..(d - 1) : ~stops(e))

HasKey(k) == buffer[ComputeIndex(buffer, k)] # Empty

Get(k) == buffer[ComputeIndex(buffer, k)].value

\* The valid items, one after the other, moved into a buffer of the new size.
Rehashed(buf, n) ==
    LET taken == {i \in Slots(buf) : buf[i] \in Item}
        step[i \in 0..Size(buf)] ==
            IF i = 0 THEN EmptyBuffer(n)
            ELSE IF i - 1 \in taken
                 THEN [step[i - 1] EXCEPT
                          ![ComputeIndex(step[i - 1], buf[i - 1].key)] = buf[i - 1]]
                 ELSE step[i - 1]
    IN  step[Size(buf)]

\* Fault variant: invalidated slots do not count.
TooManyPairs == length * 4 >= Size(buffer) * 3

\* The load factor, 0.75, is reached.
TooFull == in_use * 4 >= Size(buffer) * 3

\* capacity / 100 * (in_use - length) < 0.5
Expand == Size(buffer) * (in_use - length) < 50

\* Fault variant: a larger buffer starts empty.
EnsuredEmpty ==
    IF ~TooFull THEN buffer
    ELSE IF Expand THEN EmptyBuffer(2 * Size(buffer)) ELSE EmptyBuffer(Size(buffer))

\* LCH_DictSet's EnsureCapacity: the buffer that the new pair goes into.  Only an
\* expansion moves the items over.
Ensured ==
    IF ~TooFull THEN buffer
    ELSE IF Expand THEN Rehashed(buffer, 2 * Size(buffer))
         ELSE EmptyBuffer(Size(buffer))

EnsuredInUse == IF TooFull THEN length ELSE in_use

-----------------------------------------------------------------------------

Init ==
    /\ hash \in [Key -> Hashes]
    /\ length = 0
    /\ in_use = 0
    /\ buffer = EmptyBuffer(Capacity)
    /\ sets = 0

DictSet(k, v) ==
    LET index == ComputeIndex(Ensured, k)
        new   == Ensured[index] = Empty
    IN  /\ sets < MaxSets
        /\ sets' = sets + 1
        /\ buffer' = [Ensured EXCEPT ![index] = [key |-> k, value |-> v]]
        /\ in_use' = EnsuredInUse + (IF new THEN 1 ELSE 0)
        /\ length' = length + (IF new THEN 1 ELSE 0)
        /\ UNCHANGED hash

\* Fault variant: the slot becomes empty and cuts the probing short.
RemoveEmpties(k) ==
    /\ HasKey(k)
    /\ buffer' = [buffer EXCEPT ![ComputeIndex(buffer, k)] = Empty]
    /\ length' = length - 1
    /\ UNCHANGED <<hash, in_use, sets>>

\* Fault variant: the removal is counted twice.
RemoveTwice(k) ==
    /\ HasKey(k)
    /\ buffer' = [buffer EXCEPT ![ComputeIndex(buffer, k)] = Invalidated]
    /\ length' = length - 2
    /\ UNCHANGED <<hash, in_use, sets>>

\* Callers look the key up first.
DictRemove(k) ==
    /\ HasKey(k)
    /\ buffer' = [buffer EXCEPT ![ComputeIndex(buffer, k)] = Invalidated]
    /\ length' = length - 1
    /\ UNCHANGED <<hash, in_use, sets>>

Next == \E k \in Key : DictRemove(k) \/ \E v \in Value : DictSet(k, v)

Spec == Init /\ [][Next]_vars

-----------------------------------------------------------------------------

TypeOK ==
    /\ hash \in [Key -> Hashes]
    /\ length \in 0..MaxSets
    /\ in_use \in 0..MaxSets
    /\ buffer \in [Slots(buffer) -> Item \cup {Empty, Invalidated}]
    /\ sets \in 0..MaxSets

\* The keys that LCH_DictGetKeys lists are as many as LCH_DictLength says, each
\* in one slot: a rehash or a reused probe path neither loses nor repeats one.
LengthCountsPairs ==
    length = Cardinality({i \in Slots(buffer) : buffer[i] \in Item})

\* Probing ends for every key, for the buffer is never without an empty slot.
ProbingEnds == \E i \in Slots(buffer) : buffer[i] = Empty

\* The dictionary is a map: what was set last is found, what was removed is
\* not, and no operation on one key is felt by another.
Map == INSTANCE LeechMap WITH
    pairs <- [k \in Key |-> IF HasKey(k) THEN Get(k) ELSE Missing]

ImplementsMap == Map!Spec

=============================================================================
