--------------------------- MODULE LeechInduction ---------------------------
(***************************************************************************)
(* Induction over the natural numbers, stated of sets, and what it says of *)
(* functions that are defined by recursion, and of sequences of sequences  *)
(* that are flattened.  The proofs about walks along the chain, patches of *)
(* many blocks, rehashed buffers and tables of records rest on it.         *)
(***************************************************************************)
EXTENDS Integers, SequencesExt, SequenceTheorems, WellFoundedInduction, TLAPS

Less == OpToRel(<, Nat)

LEMMA LessWellFounded == IsWellFoundedOn(Less, Nat)
BY NatLessThanWellFounded DEF Less

\* A set of numbers that is not empty has a least one.
LEMMA LeastNumber ==
    ASSUME NEW S \in SUBSET Nat, S # {}
    PROVE  \E n \in S : \A m \in S : n <= m
<1>1. \A n, m \in Nat : <<m, n>> \in Less <=> m < n
  BY DEF Less, OpToRel
<1>2. PICK n \in S : \A m \in S : <<m, n>> \notin Less
  BY LessWellFounded, WFMin
<1>3. ASSUME NEW m \in S PROVE n <= m
  <2>1. n \in Nat /\ m \in Nat
    OBVIOUS
  <2>2. ~(m < n)
    BY <1>1, <1>2, <2>1
  <2> QED BY <2>1, <2>2
<1> QED BY <1>3

\* A set that has 0, and with a number the next one, has every number.
LEMMA SetInduction ==
    ASSUME NEW S, 0 \in S, \A n \in Nat : n \in S => n + 1 \in S
    PROVE  \A n \in Nat : n \in S
<1> DEFINE T == {n \in Nat : n \notin S}
<1>1. ASSUME T # {} PROVE FALSE
  <2>1. PICK n \in T : \A m \in T : n <= m
    BY <1>1, LeastNumber
  <2>2. n \in Nat /\ n \notin S /\ n # 0
    OBVIOUS
  <2>3. n - 1 \in Nat /\ ~(n <= n - 1) /\ (n - 1) + 1 = n
    BY <2>2
  <2>4. n - 1 \in S
    BY <2>1, <2>3
  <2> QED BY <2>2, <2>3, <2>4
<1> QED BY <1>1

\* Up to a bound.
LEMMA BoundedInduction ==
    ASSUME NEW n \in Nat, NEW S, 0 \in S,
           \A i \in 0..(n - 1) : i \in S => i + 1 \in S
    PROVE  \A i \in 0..n : i \in S
<1> DEFINE T == {i \in Nat : i <= n => i \in S}
<1>1. 0 \in T
  OBVIOUS
<1>2. ASSUME NEW i \in Nat, i \in T PROVE i + 1 \in T
  BY <1>2
<1> HIDE DEF T
<1>3. \A i \in Nat : i \in T
  BY <1>1, <1>2, SetInduction
<1> QED BY <1>3 DEF T

\* A function may be defined by what it is at 0 and by how each of its values
\* follows from the one before.  (The definitions let the provers match the
\* lemma with its uses.)
Steps(n, A) == [1..n -> [A -> A]]

Recursive(n, A, first, step) ==
    \E f \in [0..n -> A] :
        f = [i \in 0..n |-> IF i = 0 THEN first ELSE step[i][f[i - 1]]]

LEMMA Recursion ==
    ASSUME NEW n \in Nat, NEW A, NEW first \in A, NEW step \in Steps(n, A)
    PROVE  Recursive(n, A, first, step)
<1> USE DEF Steps
<1> DEFINE Fits(f, m) == f[0] = first /\ \A i \in 1..m : f[i] = step[i][f[i - 1]]
           S == {m \in 0..n : \E f \in [0..m -> A] : Fits(f, m)}
<1>1. 0 \in S
  <2> DEFINE f == [i \in 0..0 |-> first]
  <2>1. f \in [0..0 -> A] /\ Fits(f, 0)
    OBVIOUS
  <2> HIDE DEF f, Fits
  <2> QED BY <2>1
<1>2. ASSUME NEW m \in 0..(n - 1), m \in S PROVE m + 1 \in S
  <2>1. PICK f \in [0..m -> A] : Fits(f, m)
    BY <1>2
  <2> DEFINE next == step[m + 1][f[m]]
             g    == [i \in 0..(m + 1) |-> IF i <= m THEN f[i] ELSE next]
  <2>2. m \in Nat /\ m + 1 \in 1..n /\ m \in 0..m
    OBVIOUS
  <2>3. next \in A
    BY <2>2
  <2> HIDE DEF next
  <2>4. g \in [0..(m + 1) -> A]
    BY <2>2, <2>3
  <2>5. g[m] = f[m] /\ g[m + 1] = next
    BY <2>2
  <2>6. ASSUME NEW i \in 1..(m + 1) PROVE g[i] = step[i][g[i - 1]]
    <3>1. CASE i = m + 1
      BY <2>2, <2>5, <3>1 DEF next
    <3>2. CASE i # m + 1
      <4>1. i \in 1..m /\ i \in 0..(m + 1) /\ i <= m /\ i - 1 \in 0..(m + 1) /\ i - 1 <= m
        BY <2>2, <3>2
      <4>2. g[i] = f[i] /\ g[i - 1] = f[i - 1]
        BY <4>1
      <4> QED BY <2>1, <4>1, <4>2
    <3> QED BY <3>1, <3>2
  <2>7. g[0] = first
    BY <2>1, <2>2
  <2> HIDE DEF g
  <2>8. m + 1 \in 0..n
    BY <2>2
  <2> QED BY <2>4, <2>6, <2>7, <2>8
<1>3. n \in S
  <2> HIDE DEF S
  <2>1. \A i \in 0..n : i \in S
    BY <1>1, <1>2, BoundedInduction
  <2> QED BY <2>1
<1>4. PICK f \in [0..n -> A] : Fits(f, n)
  BY <1>3
<1>5. f = [i \in 0..n |-> IF i = 0 THEN first ELSE step[i][f[i - 1]]]
  <2>1. \A i \in 0..n : f[i] = IF i = 0 THEN first ELSE step[i][f[i - 1]]
    BY <1>4
  <2> HIDE DEF Fits
  <2> QED BY <2>1
<1> QED BY <1>5 DEF Recursive

-----------------------------------------------------------------------------
(* Sequences of sequences *)

\* What a sequence of parts is flattened to, part by part.
IsFlattening(f, parts) ==
    f = [i \in 0..Len(parts) |-> IF i = 0 THEN <<>> ELSE f[i - 1] \o parts[i]]

LEMMA FlattenIs ==
    ASSUME NEW S, NEW parts \in Seq(Seq(S))
    PROVE  \E f \in [0..Len(parts) -> Seq(S)] :
              IsFlattening(f, parts) /\ FlattenSeq(parts) = f[Len(parts)]
<1> DEFINE n    == Len(parts)
           step == [i \in 1..n |-> [s \in Seq(S) |-> s \o parts[i]]]
<1>1. n \in Nat /\ parts \in [1..n -> Seq(S)] /\ <<>> \in Seq(S)
  OBVIOUS
<1>2. \A i \in 1..n, s \in Seq(S) : s \o parts[i] \in Seq(S)
  BY <1>1, ConcatProperties
<1>3. step \in Steps(n, Seq(S))
  BY <1>2 DEF Steps
<1>4. \A i \in 1..n, s \in Seq(S) : step[i][s] = s \o parts[i]
  OBVIOUS
<1> HIDE DEF step
<1>5. PICK f \in [0..n -> Seq(S)] :
        f = [i \in 0..n |-> IF i = 0 THEN <<>> ELSE step[i][f[i - 1]]]
  <2> HIDE DEF n
  <2>1. Recursive(n, Seq(S), <<>>, step)
    BY <1>1, <1>3, Recursion
  <2> QED BY <2>1 DEF Recursive
<1>6. \A i \in 0..n : i # 0 => i \in 1..n /\ f[i - 1] \in Seq(S)
  <2> TAKE i \in 0..n
  <2> HAVE i # 0
  <2>1. i \in 1..n /\ i - 1 \in 0..n
    OBVIOUS
  <2> QED BY <2>1
<1>7. f = [i \in 0..n |-> IF i = 0 THEN <<>> ELSE f[i - 1] \o parts[i]]
  BY <1>4, <1>5, <1>6
<1>8. IsFlattening(f, parts)
  BY <1>7 DEF IsFlattening
<1>9. CASE n = 0
  <2>1. FlattenSeq(parts) = parts /\ parts = <<>>
    BY <1>1, <1>9 DEF FlattenSeq
  <2>2. f[0] = <<>>
    BY <1>1, <1>7
  <2> QED BY <1>8, <1>9, <2>1, <2>2
<1>10. CASE n # 0
  <2> DEFINE Fits(g) == g = [i \in 1..n |-> IF i = 1 THEN parts[i] ELSE g[i - 1] \o parts[i]]
             flatten == CHOOSE g : Fits(g)
             g == [i \in 1..n |-> f[i]]
  <2>1. \A i \in 0..n : f[i] = IF i = 0 THEN <<>> ELSE f[i - 1] \o parts[i]
    BY <1>7
  <2>2. \A i \in 1..n : g[i] = IF i = 1 THEN parts[i] ELSE g[i - 1] \o parts[i]
    <3> TAKE i \in 1..n
    <3>1. f[i] = f[i - 1] \o parts[i] /\ g[i] = f[i] /\ f[0] = <<>>
      <4>1. i \in 0..n /\ i # 0 /\ 0 \in 0..n
        BY <1>1
      <4>2. f[i] = f[i - 1] \o parts[i] /\ f[0] = <<>>
        BY <2>1, <4>1
      <4> QED BY <4>2
    <3>2. CASE i = 1
      <4>1. f[1] = <<>> \o parts[1] /\ parts[1] \in Seq(S)
        BY <1>1, <3>1, <3>2
      <4>2. f[1] = parts[1]
        BY <4>1, ConcatEmptySeq
      <4> QED BY <3>1, <3>2, <4>2
    <3>3. CASE i # 1
      <4>1. i - 1 \in 1..n
        BY <1>1, <3>3
      <4>2. g[i - 1] = f[i - 1]
        BY <4>1
      <4> QED BY <3>1, <3>3, <4>2
    <3> QED BY <3>2, <3>3
  <2>3. g = [i \in 1..n |-> IF i = 1 THEN parts[i] ELSE g[i - 1] \o parts[i]]
    <3> DEFINE h == [i \in 1..n |-> IF i = 1 THEN parts[i] ELSE g[i - 1] \o parts[i]]
    <3>1. \A i \in 1..n : g[i] = h[i]
      BY <2>2
    <3>2. DOMAIN g = 1..n /\ DOMAIN h = 1..n
      OBVIOUS
    <3>3. g = [i \in 1..n |-> g[i]] /\ h = [i \in 1..n |-> h[i]]
      OBVIOUS
    <3> HIDE DEF g, h
    <3>4. g = h
      BY <3>1, <3>3
    <3> QED BY <3>4 DEF h
  <2>4. Fits(flatten)
    <3>1. Fits(g)
      BY <2>3
    <3> HIDE DEF g, Fits
    <3> QED BY <3>1 DEF flatten
  <2>5. FlattenSeq(parts) = flatten[n]
    BY <1>10 DEF FlattenSeq
  <2>6. \A i \in 1..n : flatten[i] = IF i = 1 THEN parts[i] ELSE flatten[i - 1] \o parts[i]
    BY <2>4
  <2> DEFINE T == {i \in 0..n : i # 0 => flatten[i] = g[i]}
  <2> HIDE DEF flatten, g
  <2>7. 0 \in T
    BY <1>1
  <2>8. ASSUME NEW i \in 0..(n - 1), i \in T PROVE i + 1 \in T
    <3>1. i + 1 \in 1..n /\ i + 1 \in 0..n /\ (i + 1) - 1 = i
      BY <1>1
    <3>2. flatten[i + 1] = IF i + 1 = 1 THEN parts[i + 1] ELSE flatten[i] \o parts[i + 1]
      BY <2>6, <3>1
    <3>3. g[i + 1] = IF i + 1 = 1 THEN parts[i + 1] ELSE g[i] \o parts[i + 1]
      BY <2>2, <3>1
    <3>4. i = 0 \/ flatten[i] = g[i]
      BY <2>8
    <3>5. flatten[i + 1] = g[i + 1]
      BY <3>1, <3>2, <3>3, <3>4
    <3> QED BY <3>1, <3>5
  <2> HIDE DEF T
  <2>9. n \in T
    <3>1. \A i \in 0..n : i \in T
      <4> HIDE DEF n
      <4> QED BY <1>1, <2>7, <2>8, BoundedInduction
    <3> QED BY <1>1, <3>1
  <2>10. flatten[n] = g[n]
    BY <1>10, <2>9 DEF T
  <2>11. g[n] = f[n]
    BY <1>1, <1>10 DEF g
  <2> QED BY <1>8, <2>5, <2>10, <2>11
<1> QED BY <1>9, <1>10

LEMMA FlatteningAt ==
    ASSUME NEW S, NEW parts \in Seq(Seq(S)), NEW f \in [0..Len(parts) -> Seq(S)],
           IsFlattening(f, parts)
    PROVE  /\ f[0] = <<>>
           /\ \A i \in 1..Len(parts) :
                 /\ i - 1 \in 0..Len(parts) /\ parts[i] \in Seq(S)
                 /\ f[i - 1] \in Seq(S) /\ f[i] \in Seq(S)
                 /\ f[i] = f[i - 1] \o parts[i]
<1>1. \A i \in 0..Len(parts) : f[i] = IF i = 0 THEN <<>> ELSE f[i - 1] \o parts[i]
  BY DEF IsFlattening
<1>2. Len(parts) \in Nat /\ parts \in [1..Len(parts) -> Seq(S)]
  OBVIOUS
<1>3. ASSUME NEW i \in 1..Len(parts)
      PROVE  /\ i - 1 \in 0..Len(parts) /\ parts[i] \in Seq(S)
             /\ f[i - 1] \in Seq(S) /\ f[i] \in Seq(S)
             /\ f[i] = f[i - 1] \o parts[i]
  <2>1. i \in 0..Len(parts) /\ i - 1 \in 0..Len(parts) /\ i # 0
    BY <1>2
  <2>2. parts[i] \in Seq(S) /\ f[i - 1] \in Seq(S) /\ f[i] \in Seq(S)
    BY <1>2, <2>1
  <2>3. f[i] = f[i - 1] \o parts[i]
    BY <1>1, <2>1
  <2> QED BY <2>1, <2>2, <2>3
<1>4. f[0] = <<>>
  <2>1. 0 \in 0..Len(parts)
    BY <1>2
  <2> QED BY <1>1, <2>1
<1> QED BY <1>3, <1>4

\* One part more.
LEMMA FlattenAppend ==
    ASSUME NEW S, NEW parts \in Seq(Seq(S)), NEW part \in Seq(S)
    PROVE  FlattenSeq(Append(parts, part)) = FlattenSeq(parts) \o part
<1> DEFINE n == Len(parts)
           more == Append(parts, part)
<1>1. n \in Nat /\ more \in Seq(Seq(S)) /\ Len(more) = n + 1
  OBVIOUS
<1>2. more[n + 1] = part /\ \A i \in 1..n : more[i] = parts[i]
  OBVIOUS
<1>3. PICK f \in [0..n -> Seq(S)] : IsFlattening(f, parts) /\ FlattenSeq(parts) = f[n]
  BY FlattenIs
<1> HIDE DEF more
<1>4. PICK g \in [0..Len(more) -> Seq(S)] :
        IsFlattening(g, more) /\ FlattenSeq(more) = g[Len(more)]
  BY <1>1, FlattenIs
<1>5. /\ f[0] = <<>>
      /\ \A i \in 1..n : /\ i - 1 \in 0..n /\ parts[i] \in Seq(S)
                         /\ f[i - 1] \in Seq(S) /\ f[i] \in Seq(S)
                         /\ f[i] = f[i - 1] \o parts[i]
  BY <1>3, FlatteningAt
<1>6. /\ g[0] = <<>>
      /\ \A i \in 1..Len(more) : /\ i - 1 \in 0..Len(more) /\ more[i] \in Seq(S)
                                 /\ g[i - 1] \in Seq(S) /\ g[i] \in Seq(S)
                                 /\ g[i] = g[i - 1] \o more[i]
  BY <1>1, <1>4, FlatteningAt
<1> DEFINE T == {i \in 0..n : g[i] = f[i]}
<1> HIDE DEF n
<1>7. 0 \in T
  BY <1>1, <1>5, <1>6
<1>8. ASSUME NEW i \in 0..(n - 1), i \in T PROVE i + 1 \in T
  <2>1. i + 1 \in 1..n /\ i + 1 \in 1..Len(more) /\ (i + 1) - 1 = i /\ i + 1 \in 0..n
    BY <1>1
  <2>2. g[i + 1] = g[i] \o more[i + 1] /\ f[i + 1] = f[i] \o parts[i + 1]
    BY <1>5, <1>6, <2>1
  <2>3. more[i + 1] = parts[i + 1] /\ g[i] = f[i]
    BY <1>2, <1>8, <2>1
  <2>4. g[i + 1] = f[i + 1]
    BY <2>2, <2>3
  <2> QED BY <2>1, <2>4
<1>9. g[n] = f[n]
  <2> HIDE DEF T
  <2>1. \A i \in 0..n : i \in T
    BY <1>1, <1>7, <1>8, BoundedInduction
  <2>2. n \in T
    BY <1>1, <2>1
  <2> QED BY <2>2 DEF T
<1>10. g[n + 1] = g[n] \o more[n + 1]
  <2>1. n + 1 \in 1..Len(more) /\ (n + 1) - 1 = n
    BY <1>1
  <2> QED BY <1>6, <2>1
<1> QED BY <1>1, <1>2, <1>3, <1>4, <1>9, <1>10 DEF more

=============================================================================
