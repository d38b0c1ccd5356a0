---------------------------- MODULE LeechCsvProofs ----------------------------
(***************************************************************************)
(* Proofs about LeechCsv, for texts, fields, records and tables of any     *)
(* length: the parser stays within the text and skips separators only, it  *)
(* reads back what was composed, and it finds the fields that separators   *)
(* outside of quotes make.                                                 *)
(***************************************************************************)
EXTENDS LeechCsv, LeechInduction, SequenceTheorems, FiniteSetTheorems

-----------------------------------------------------------------------------
(* Sequences of sequences *)

\* A part stands in a sequence, behind a position.
Holds(whole, at, part) ==
    /\ at + Len(part) <= Len(whole)
    /\ \A k \in 1..Len(part) : whole[at + k] = part[k]

LEMMA ConcatHolds ==
    ASSUME NEW S, NEW s \in Seq(S), NEW t \in Seq(S)
    PROVE  /\ s \o t \in Seq(S)
           /\ Len(s \o t) = Len(s) + Len(t)
           /\ Holds(s \o t, 0, s)
           /\ Holds(s \o t, Len(s), t)
<1>1. /\ s \o t \in Seq(S)
      /\ Len(s \o t) = Len(s) + Len(t)
      /\ \A i \in 1 .. Len(s) + Len(t) : (s \o t)[i] =
                     IF i <= Len(s) THEN s[i] ELSE t[i - Len(s)]
  BY ConcatProperties
<1>2. Len(s) \in Nat /\ Len(t) \in Nat
  OBVIOUS
<1>3. ASSUME NEW k \in 1..Len(s) PROVE (s \o t)[0 + k] = s[k]
  <2>1. 0 + k = k /\ k \in 1..(Len(s) + Len(t)) /\ k <= Len(s)
    BY <1>2
  <2> QED BY <1>1, <2>1
<1>4. ASSUME NEW k \in 1..Len(t) PROVE (s \o t)[Len(s) + k] = t[k]
  <2>1. Len(s) + k \in 1..(Len(s) + Len(t)) /\ ~(Len(s) + k <= Len(s)) /\ (Len(s) + k) - Len(s) = k
    BY <1>2
  <2> QED BY <1>1, <2>1
<1>5. 0 + Len(s) <= Len(s \o t) /\ Len(s) + Len(t) <= Len(s \o t)
  BY <1>1, <1>2
<1> QED BY <1>1, <1>3, <1>4, <1>5 DEF Holds

\* What stands in a part stands in the whole.
LEMMA HoldsWithin ==
    ASSUME NEW S, NEW whole \in Seq(S), NEW part \in Seq(S), NEW inner \in Seq(S),
           NEW at \in Nat, NEW inside \in Nat, Holds(whole, at, part), Holds(part, inside, inner)
    PROVE  Holds(whole, at + inside, inner)
<1>1. Len(whole) \in Nat /\ Len(part) \in Nat /\ Len(inner) \in Nat
  OBVIOUS
<1>2. at + Len(part) <= Len(whole) /\ inside + Len(inner) <= Len(part)
  BY DEF Holds
<1>3. (at + inside) + Len(inner) <= Len(whole)
  BY <1>1, <1>2
<1>4. ASSUME NEW k \in 1..Len(inner) PROVE whole[(at + inside) + k] = inner[k]
  <2>1. inside + k \in 1..Len(part) /\ (at + inside) + k = at + (inside + k)
    BY <1>1, <1>2
  <2>2. part[inside + k] = inner[k]
    BY DEF Holds
  <2>3. whole[at + (inside + k)] = part[inside + k]
    BY <2>1 DEF Holds
  <2> QED BY <2>1, <2>2, <2>3
<1> QED BY <1>3, <1>4 DEF Holds

\* Each part begins where the one before it ends.
IsStarts(at, parts, whole) ==
    /\ at[1] = 0
    /\ \A i \in 1..Len(parts) :
        /\ at[i + 1] = at[i] + Len(parts[i])
        /\ Holds(whole, at[i], parts[i])
    /\ Len(whole) = at[Len(parts) + 1]

Starts(parts) ==
    CHOOSE at \in [1..(Len(parts) + 1) -> Nat] : IsStarts(at, parts, FlattenSeq(parts))

LEMMA StartsOf ==
    ASSUME NEW S, NEW parts \in Seq(Seq(S))
    PROVE  /\ FlattenSeq(parts) \in Seq(S)
           /\ Starts(parts) \in [1..(Len(parts) + 1) -> Nat]
           /\ IsStarts(Starts(parts), parts, FlattenSeq(parts))
<1> DEFINE n == Len(parts)
<1>1. n \in Nat
  OBVIOUS
<1>2. PICK f \in [0..n -> Seq(S)] : IsFlattening(f, parts) /\ FlattenSeq(parts) = f[n]
  BY FlattenIs
<1>3. /\ f[0] = <<>>
      /\ \A i \in 1..n : /\ i - 1 \in 0..n /\ parts[i] \in Seq(S)
                         /\ f[i - 1] \in Seq(S) /\ f[i] \in Seq(S)
                         /\ f[i] = f[i - 1] \o parts[i]
  BY <1>2, FlatteningAt
<1> DEFINE at == [i \in 1..(n + 1) |-> Len(f[i - 1])]
           T == {m \in 0..n : \A i \in 1..m : Holds(f[m], at[i], parts[i])}
<1> HIDE DEF n
<1>4. /\ at \in [1..(n + 1) -> Nat]
      /\ \A i \in 1..(n + 1) : at[i] = Len(f[i - 1])
  <2>1. \A i \in 1..(n + 1) : i - 1 \in 0..n
    BY <1>1
  <2>2. \A i \in 1..(n + 1) : f[i - 1] \in Seq(S)
    BY <2>1
  <2>3. \A i \in 1..(n + 1) : Len(f[i - 1]) \in Nat
    BY <2>2, LenProperties
  <2> QED BY <2>3
<1> HIDE DEF at
<1>5. \A i \in 1..n : at[i + 1] = at[i] + Len(parts[i]) /\ at[i] \in Nat /\ at[i] = Len(f[i - 1])
  <2> TAKE i \in 1..n
  <2>1. i \in 1..(n + 1) /\ i + 1 \in 1..(n + 1) /\ (i + 1) - 1 = i
    BY <1>1
  <2>2. Len(f[i]) = Len(f[i - 1]) + Len(parts[i])
    BY <1>3, ConcatHolds
  <2> QED BY <1>4, <2>1, <2>2
<1>6. 0 \in T
  BY <1>1
<1>7. ASSUME NEW m \in 0..(n - 1), m \in T PROVE m + 1 \in T
  <2>1. m + 1 \in 1..n /\ (m + 1) - 1 = m /\ m \in Nat /\ m + 1 \in 0..n
    BY <1>1
  <2>2. /\ f[m + 1] = f[m] \o parts[m + 1] /\ f[m] \in Seq(S) /\ parts[m + 1] \in Seq(S)
        /\ f[m + 1] \in Seq(S)
    BY <1>3, <2>1
  <2>3. Holds(f[m + 1], 0, f[m]) /\ Holds(f[m + 1], Len(f[m]), parts[m + 1])
    BY <2>2, ConcatHolds
  <2>4. ASSUME NEW i \in 1..(m + 1) PROVE Holds(f[m + 1], at[i], parts[i])
    <3>1. CASE i = m + 1
      <4>1. at[m + 1] = Len(f[m])
        BY <1>5, <2>1
      <4> QED BY <2>3, <3>1, <4>1
    <3>2. CASE i # m + 1
      <4>1. i \in 1..m /\ i \in 1..n
        BY <1>1, <2>1, <3>2
      <4>2. Holds(f[m], at[i], parts[i])
        BY <1>7, <4>1
      <4>3. at[i] \in Nat /\ parts[i] \in Seq(S) /\ 0 + at[i] = at[i]
        <5>1. at[i] \in Nat
          BY <1>5, <4>1
        <5>2. parts[i] \in Seq(S)
          BY <1>3, <4>1
        <5> QED BY <5>1, <5>2
      <4>4. Holds(f[m + 1], 0 + at[i], parts[i])
        BY <2>2, <2>3, <4>2, <4>3, HoldsWithin
      <4> QED BY <4>3, <4>4
    <3> QED BY <3>1, <3>2
  <2> QED BY <2>1, <2>4
<1>8. n \in T
  <2> HIDE DEF T
  <2>1. \A m \in 0..n : m \in T
    BY <1>1, <1>6, <1>7, BoundedInduction
  <2> QED BY <1>1, <2>1
<1>9. at[1] = 0 /\ Len(f[n]) = at[n + 1]
  <2>1. 1 \in 1..(n + 1) /\ n + 1 \in 1..(n + 1) /\ (n + 1) - 1 = n /\ 1 - 1 = 0
    BY <1>1
  <2>2. Len(<<>>) = 0
    OBVIOUS
  <2> QED BY <1>3, <1>4, <2>1, <2>2
<1>10. IsStarts(at, parts, FlattenSeq(parts))
  BY <1>2, <1>5, <1>8, <1>9 DEF IsStarts, n
<1>11. f[n] \in Seq(S)
  BY <1>1
<1> QED BY <1>2, <1>4, <1>10, <1>11 DEF Starts, n

-----------------------------------------------------------------------------
(* Parts with a separator between each two *)

\* Where each part begins.
IsSpread(at, parts, separator, whole) ==
    LET n == Len(parts)
    IN  /\ at[1] = 0
        /\ \A i \in 1..n : Holds(whole, at[i], parts[i])
        /\ \A i \in 1..(n - 1) :
            /\ at[i + 1] = (at[i] + Len(parts[i])) + Len(separator)
            /\ Holds(whole, at[i] + Len(parts[i]), separator)
        /\ Len(whole) = at[n] + Len(parts[n])

Spread(parts, separator) ==
    CHOOSE at \in [1..Len(parts) -> Nat] : IsSpread(at, parts, separator, Joined(parts, separator))

LEMMA JoinedOf ==
    ASSUME NEW S, NEW parts \in Seq(Seq(S)), parts # <<>>, NEW separator \in Seq(S)
    PROVE  /\ Joined(parts, separator) \in Seq(S)
           /\ Spread(parts, separator) \in [1..Len(parts) -> Nat]
           /\ IsSpread(Spread(parts, separator), parts, separator, Joined(parts, separator))
<1> DEFINE n     == Len(parts)
           whole == Joined(parts, separator)
           pre   == [i \in 1..n |-> IF i = 1 THEN parts[i] ELSE separator \o parts[i]]
           b     == Starts(pre)
           gap   == Len(separator)
           at    == [i \in 1..n |-> IF i = 1 THEN 0 ELSE b[i] + gap]
<1>1. n \in Nat \ {0} /\ gap \in Nat /\ DOMAIN parts = 1..n /\ parts \in [1..n -> Seq(S)]
  OBVIOUS
<1>2. /\ \A i \in 1..n : parts[i] \in Seq(S) /\ separator \o parts[i] \in Seq(S)
      /\ \A i \in 1..n : Len(parts[i]) \in Nat /\ Len(separator \o parts[i]) = gap + Len(parts[i])
  BY <1>1, ConcatProperties, LenProperties
<1>3. pre \in Seq(Seq(S)) /\ Len(pre) = n
  <2>1. \A i \in 1..n : pre[i] \in Seq(S)
    BY <1>2
  <2>2. pre \in [1..n -> Seq(S)]
    BY <2>1
  <2> HIDE DEF pre, n
  <2> QED BY <1>1, <2>2
<1>4. \A i \in 1..n : pre[i] = IF i = 1 THEN parts[i] ELSE separator \o parts[i]
  OBVIOUS
<1>5. whole = FlattenSeq(pre)
  BY <1>1 DEF Joined
<1> HIDE DEF pre
<1>6. /\ whole \in Seq(S)
      /\ b \in [1..(n + 1) -> Nat]
      /\ IsStarts(b, pre, whole)
  BY <1>3, <1>5, StartsOf
<1> HIDE DEF b, gap, whole
<1>7. /\ b[1] = 0 /\ Len(whole) = b[n + 1]
      /\ \A i \in 1..n : /\ b[i + 1] = b[i] + Len(pre[i])
                         /\ Holds(whole, b[i], pre[i])
  <2> HIDE DEF n
  <2> QED BY <1>3, <1>6 DEF IsStarts
<1>8. \A i \in 1..n : b[i] \in Nat
  <2> TAKE i \in 1..n
  <2>1. i \in 1..(n + 1)
    BY <1>1
  <2> QED BY <1>6, <2>1
<1>9. at \in [1..n -> Nat] /\ \A i \in 1..n : at[i] = IF i = 1 THEN 0 ELSE b[i] + gap
  <2>1. \A i \in 1..n : b[i] + gap \in Nat
    BY <1>1, <1>8
  <2> QED BY <2>1
<1> HIDE DEF n, at
<1>10. \A i \in 1..n : at[i] \in Nat /\ at[i] + Len(parts[i]) = b[i + 1]
  <2> TAKE i \in 1..n
  <2>1. b[i + 1] = b[i] + Len(pre[i]) /\ b[i] \in Nat /\ Len(parts[i]) \in Nat
    BY <1>2, <1>7, <1>8
  <2>2. CASE i = 1
    BY <1>4, <1>7, <1>9, <2>1, <2>2
  <2>3. CASE i # 1
    <3>1. Len(pre[i]) = gap + Len(parts[i]) /\ at[i] = b[i] + gap
      BY <1>2, <1>4, <1>9, <2>3
    <3> QED BY <1>1, <2>1, <3>1
  <2> QED BY <2>2, <2>3
<1>11. ASSUME NEW i \in 1..n PROVE Holds(whole, at[i], parts[i])
  <2>1. CASE i = 1
    BY <1>4, <1>7, <1>9, <2>1
  <2>2. CASE i # 1
    <3>1. pre[i] = separator \o parts[i] /\ at[i] = b[i] + gap
      BY <1>4, <1>9, <2>2
    <3>2. Holds(pre[i], gap, parts[i]) /\ pre[i] \in Seq(S)
      BY <1>2, <3>1, ConcatHolds DEF gap
    <3>3. Holds(whole, b[i], pre[i]) /\ b[i] \in Nat /\ parts[i] \in Seq(S)
      BY <1>2, <1>7, <1>8
    <3>4. Holds(whole, b[i] + gap, parts[i])
      BY <1>1, <1>6, <3>2, <3>3, HoldsWithin
    <3> QED BY <3>1, <3>4
  <2> QED BY <2>1, <2>2
<1>12. ASSUME NEW i \in 1..(n - 1)
       PROVE  /\ at[i + 1] = (at[i] + Len(parts[i])) + gap
              /\ Holds(whole, at[i] + Len(parts[i]), separator)
  <2>1. i \in 1..n /\ i + 1 \in 1..n /\ i + 1 # 1
    BY <1>1
  <2>2. at[i] + Len(parts[i]) = b[i + 1]
    BY <1>10, <2>1
  <2>3. at[i + 1] = b[i + 1] + gap
    BY <1>9, <2>1
  <2>4. pre[i + 1] = separator \o parts[i + 1] /\ parts[i + 1] \in Seq(S)
    BY <1>2, <1>4, <2>1
  <2>5. Holds(pre[i + 1], 0, separator) /\ pre[i + 1] \in Seq(S)
    BY <2>4, ConcatHolds
  <2>6. Holds(whole, b[i + 1], pre[i + 1]) /\ b[i + 1] \in Nat
    BY <1>7, <1>8, <2>1
  <2>7. b[i + 1] + 0 = b[i + 1]
    BY <2>6
  <2>8. Holds(whole, b[i + 1] + 0, separator)
    BY <1>6, <2>5, <2>6, HoldsWithin
  <2> QED BY <2>2, <2>3, <2>7, <2>8
<1>13. Len(whole) = at[n] + Len(parts[n]) /\ at[1] = 0
  <2>1. n \in 1..n /\ 1 \in 1..n
    BY <1>1
  <2> QED BY <1>7, <1>9, <1>10, <2>1
<1>14. IsSpread(at, parts, separator, whole)
  BY <1>11, <1>12, <1>13 DEF IsSpread, n, gap
<1> QED BY <1>6, <1>9, <1>14 DEF Spread, n, whole

-----------------------------------------------------------------------------
(* The parser stays within the text *)

Record == Seq(Seq(Char)) \ {<<>>}

EndsField(i) == At(i) \in {None, Comma} \/ AtCrLf(i)

\* A record that ends has a field, and a table a record.  Where a field ends there
\* is a separator or nothing, which is why two characters may be skipped after a
\* record.
TypeInv ==
    /\ TypeOK
    /\ table \in Seq(Record)
    /\ pc \in {"field", "end of record", "done"} => field = <<>>
    /\ pc = "end of field" => EndsField(cursor)
    /\ pc = "end of record" => record # <<>> /\ (cursor > Len(text) \/ AtCrLf(cursor))
    /\ pc = "done" => record = <<>> /\ table # <<>>

LEMMA AtType ==
    ASSUME text \in Seq(Char), NEW i \in Nat \ {0}
    PROVE  /\ At(i) \in Char \cup {None}
           /\ At(i) = None <=> i > Len(text)
           /\ i <= Len(text) => At(i) = text[i] /\ At(i) \in Char
           /\ Len(text) \in Nat
<1>1. Len(text) \in Nat /\ None \notin Char
  BY CsvAssumption DEF Char
<1>2. i <= Len(text) => text[i] \in Char
  BY <1>1
<1> QED BY <1>1, <1>2 DEF At

LEMMA PastSpacesIs ==
    ASSUME text \in Seq(Char), NEW i \in 1..(Len(text) + 1)
    PROVE  /\ PastSpaces(i) \in i..(Len(text) + 1)
           /\ PastSpaces(i) \in Nat \ {0}
           /\ At(PastSpaces(i)) # Space
           /\ \A h \in i..(PastSpaces(i) - 1) : At(h) = Space
<1> DEFINE S == {j \in i..(Len(text) + 1) : At(j) # Space}
           Q(j) == At(j) # Space /\ \A h \in i..(j - 1) : At(h) = Space
<1>1. Len(text) \in Nat
  OBVIOUS
<1>2. S \in SUBSET Nat
  BY <1>1
<1>3. Len(text) + 1 \in S
  <2>1. At(Len(text) + 1) = None
    BY <1>1, AtType
  <2> QED BY <1>1, <2>1, CsvAssumption
<1>4. PICK j \in S : \A m \in S : j <= m
  <2> HIDE DEF S
  <2> QED BY <1>2, <1>3, LeastNumber
<1>5. ASSUME NEW h \in i..(j - 1) PROVE At(h) = Space
  <2>1. h \in i..(Len(text) + 1) /\ ~(j <= h)
    BY <1>1
  <2>2. h \notin S
    BY <1>4, <2>1
  <2> QED BY <2>1, <2>2
<1>6. j \in i..(Len(text) + 1) /\ Q(j)
  BY <1>5
<1>7. PastSpaces(i) \in i..(Len(text) + 1) /\ Q(PastSpaces(i))
  <2> DEFINE c == CHOOSE x \in i..(Len(text) + 1) : Q(x)
  <2>1. c \in i..(Len(text) + 1) /\ Q(c)
    <3> HIDE DEF Q
    <3> QED BY <1>6
  <2>2. PastSpaces(i) = c
    BY DEF PastSpaces
  <2> HIDE DEF c
  <2> QED BY <2>1, <2>2
<1>8. PastSpaces(i) \in Nat \ {0}
  BY <1>1, <1>7
<1> QED BY <1>7, <1>8

\* There is nothing to skip.
LEMMA NoSpaces ==
    ASSUME text \in Seq(Char), NEW i \in 1..(Len(text) + 1), At(i) # Space
    PROVE  PastSpaces(i) = i
<1>1. /\ PastSpaces(i) \in i..(Len(text) + 1)
      /\ \A h \in i..(PastSpaces(i) - 1) : At(h) = Space
  BY PastSpacesIs
<1>2. Len(text) \in Nat
  OBVIOUS
<1>3. ASSUME PastSpaces(i) # i PROVE FALSE
  <2>1. i \in i..(PastSpaces(i) - 1)
    BY <1>1, <1>2, <1>3
  <2> QED BY <1>1, <2>1
<1> QED BY <1>3

LEMMA TrimIs ==
    ASSUME NEW raw \in Seq(Char)
    PROVE  /\ Trim(raw) \in Seq(Char)
           /\ raw # <<>> /\ raw[1] # Space /\ raw[Len(raw)] # Space => Trim(raw) = raw
           /\ raw = <<>> => Trim(raw) = raw
<1> DEFINE n       == Len(raw)
           kept    == {i \in DOMAIN raw : raw[i] # Space}
           ends(i, j) == \A h \in kept : i <= h /\ h <= j
           first   == CHOOSE i \in kept : ends(i, n)
           last    == CHOOSE j \in kept : ends(1, j)
<1>1. n \in Nat /\ DOMAIN raw = 1..n /\ kept \subseteq 1..n /\ \A i \in 1..n : raw[i] \in Char
  OBVIOUS
<1>2. Trim(raw) = IF kept = {} THEN <<>> ELSE SubSeq(raw, first, last)
  BY DEF Trim
<1> HIDE DEF kept
<1>3. ASSUME kept # {} PROVE first \in kept /\ ends(first, n) /\ last \in kept /\ ends(1, last)
  <2>1. PICK i \in kept : \A h \in kept : i <= h
    <3>1. kept \in SUBSET Nat
      BY <1>1
    <3> QED BY <1>3, <3>1, LeastNumber
  <2>2. ends(i, n)
    BY <1>1, <2>1
  <2> DEFINE far == {n - h : h \in kept}
  <2>3. far \in SUBSET Nat /\ far # {}
    BY <1>1, <1>3
  <2>4. PICK d \in far : \A m \in far : d <= m
    <3> HIDE DEF far
    <3> QED BY <2>3, LeastNumber
  <2>5. PICK j \in kept : d = n - j
    BY <2>4
  <2>6. \A h \in kept : n - j <= n - h
    BY <2>4, <2>5
  <2>7. ends(1, j)
    BY <1>1, <2>6
  <2>8. first \in kept /\ ends(first, n)
    <3> HIDE DEF ends
    <3> QED BY <2>2
  <2>9. last \in kept /\ ends(1, last)
    <3> HIDE DEF ends
    <3> QED BY <2>7
  <2> QED BY <2>8, <2>9
<1> HIDE DEF first, last
<1>4. Trim(raw) \in Seq(Char)
  <2>1. CASE kept = {}
    BY <1>2, <2>1
  <2>2. CASE kept # {}
    <3>1. first \in 1..n /\ last \in 1..n
      BY <1>1, <1>3, <2>2
    <3>2. first \in Int /\ last \in Int /\ \A k \in first..last : k \in 1..n
      BY <1>1, <3>1
    <3>3. \A k \in first..last : raw[k] \in Char
      BY <1>1, <3>2
    <3>4. SubSeq(raw, first, last) \in Seq(Char)
      BY <3>2, <3>3, SubSeqProperties
    <3> QED BY <1>2, <2>2, <3>4
  <2> QED BY <2>1, <2>2
<1>5. ASSUME raw # <<>>, raw[1] # Space, raw[n] # Space PROVE Trim(raw) = raw
  <2>1. 1 \in kept /\ n \in kept
    BY <1>1, <1>5 DEF kept
  <2>2. first = 1 /\ last = n
    <3>1. first \in 1..n /\ last \in 1..n
      BY <1>1, <1>3, <2>1
    <3>2. first <= 1 /\ n <= last
      BY <1>3, <2>1
    <3> HIDE DEF n
    <3> QED BY <1>1, <3>1, <3>2
  <2>3. Trim(raw) = SubSeq(raw, 1, n)
    BY <1>2, <2>1, <2>2
  <2> QED BY <2>3, SubSeqFull
<1>6. ASSUME raw = <<>> PROVE Trim(raw) = raw
  <2>1. kept = {}
    BY <1>6 DEF kept
  <2> QED BY <1>2, <1>6, <2>1
<1> QED BY <1>4, <1>5, <1>6

LEMMA ComposeFieldType ==
    ASSUME NEW raw \in Seq(Char)
    PROVE  ComposeField(raw) \in Seq(Char)
<1> DEFINE double(ch) == IF ch = Quote THEN <<Quote, Quote>> ELSE <<ch>>
           doubles == [i \in DOMAIN raw |-> double(raw[i])]
<1>1. Quote \in Char /\ DOMAIN raw = 1..Len(raw) /\ Len(raw) \in Nat
  BY DEF Char
<1>2. \A i \in 1..Len(raw) : double(raw[i]) \in Seq(Char)
  <2> TAKE i \in 1..Len(raw)
  <2>1. raw[i] \in Char /\ <<Quote, Quote>> \in Seq(Char) /\ <<raw[i]>> \in Seq(Char)
    BY <1>1
  <2> QED BY <2>1
<1> HIDE DEF double
<1>3. doubles \in Seq(Seq(Char))
  BY <1>1, <1>2
<1> HIDE DEF doubles
<1>4. FlattenSeq(doubles) \in Seq(Char)
  BY <1>3, StartsOf
<1>5. <<Quote>> \in Seq(Char)
  BY <1>1
<1>6. <<Quote>> \o FlattenSeq(doubles) \o <<Quote>> \in Seq(Char)
  <2> DEFINE doubled == FlattenSeq(doubles)
  <2> HIDE DEF doubled
  <2>1. doubled \in Seq(Char)
    BY <1>4 DEF doubled
  <2>2. <<Quote>> \o doubled \in Seq(Char)
    BY <1>5, <2>1, ConcatProperties
  <2>3. (<<Quote>> \o doubled) \o <<Quote>> \in Seq(Char)
    BY <1>5, <2>2, ConcatProperties
  <2> QED BY <2>3 DEF doubled
<1>7. ComposeField(raw) = IF Escaped(raw) THEN <<Quote>> \o FlattenSeq(doubles) \o <<Quote>> ELSE raw
  BY DEF ComposeField, doubles, double
<1> QED BY <1>6, <1>7

LEMMA ComposeRecordType ==
    ASSUME NEW fields \in Record
    PROVE  ComposeRecord(fields) \in Seq(Char)
<1> DEFINE parts == [i \in DOMAIN fields |-> ComposeField(fields[i])]
<1>1. fields \in Seq(Seq(Char)) /\ fields # <<>> /\ DOMAIN fields = 1..Len(fields)
      /\ Len(fields) \in Nat \ {0}
  BY DEF Record
<1>2. \A i \in 1..Len(fields) : ComposeField(fields[i]) \in Seq(Char)
  BY <1>1, ComposeFieldType
<1>3. parts \in Seq(Seq(Char)) /\ parts # <<>>
  BY <1>1, <1>2
<1> HIDE DEF parts
<1>4. <<Comma>> \in Seq(Char)
  BY DEF Char
<1>5. Joined(parts, <<Comma>>) \in Seq(Char)
  BY <1>3, <1>4, JoinedOf
<1> QED BY <1>5 DEF ComposeRecord, parts

LEMMA ComposeTableType ==
    ASSUME NEW records \in Seq(Record), records # <<>>
    PROVE  ComposeTable(records) \in Seq(Char)
<1> DEFINE parts == [i \in DOMAIN records |-> ComposeRecord(records[i])]
<1>1. DOMAIN records = 1..Len(records) /\ Len(records) \in Nat \ {0}
  OBVIOUS
<1>2. \A i \in 1..Len(records) : ComposeRecord(records[i]) \in Seq(Char)
  BY <1>1, ComposeRecordType
<1>3. parts \in Seq(Seq(Char)) /\ parts # <<>>
  BY <1>1, <1>2
<1> HIDE DEF parts
<1>4. <<CR, LF>> \in Seq(Char)
  BY DEF Char
<1>5. Joined(parts, <<CR, LF>>) \in Seq(Char)
  BY <1>3, <1>4, JoinedOf
<1> QED BY <1>5 DEF ComposeTable, parts

\* What is composed at first is a table too.
LEMMA TablesAre ==
    ASSUME NEW records \in Tables
    PROVE  records \in Seq(Record) /\ records # <<>>
<1> DEFINE Fields == BoundedSeq(Char, MaxField)
<1>1. PICK s \in (1..MaxCells) \X (1..MaxCells) : records \in [1..s[1] -> [1..s[2] -> Fields]]
  BY DEF Tables
<1>2. s[1] \in Nat \ {0} /\ s[2] \in Nat \ {0}
  BY CsvAssumption
<1>3. Fields \subseteq Seq(Char)
  <2>1. ASSUME NEW x \in Fields PROVE x \in Seq(Char)
    <3>1. PICK m \in 0..MaxField : x \in [1..m -> Char]
      BY DEF BoundedSeq, SeqOf
    <3>2. m \in Nat
      BY CsvAssumption
    <3> QED BY <3>1, <3>2
  <2> QED BY <2>1
<1> HIDE DEF Fields
<1>4. [1..s[2] -> Fields] \subseteq Record
  <2>1. ASSUME NEW x \in [1..s[2] -> Fields] PROVE x \in Record
    <3>1. x \in [1..s[2] -> Seq(Char)]
      BY <1>3
    <3>2. x \in Seq(Seq(Char)) /\ Len(x) = s[2]
      BY <1>2, <3>1
    <3>3. x # <<>>
      BY <1>2, <3>2
    <3> QED BY <3>2, <3>3 DEF Record
  <2> QED BY <2>1
<1>5. records \in [1..s[1] -> Record]
  BY <1>1, <1>4
<1>6. records \in Seq(Record) /\ Len(records) = s[1]
  BY <1>2, <1>5
<1> QED BY <1>2, <1>6

LEMMA TypeInit ==
    ASSUME Init PROVE TypeInv
<1>1. text \in Seq(Char)
  <2>1. CASE source \in Tables /\ text = ComposeTable(source)
    BY <2>1, TablesAre, ComposeTableType
  <2>2. CASE text \in BoundedSeq(Char, MaxText)
    <3>1. PICK m \in 0..MaxText : text \in [1..m -> Char]
      BY <2>2 DEF BoundedSeq, SeqOf
    <3>2. m \in Nat
      BY CsvAssumption
    <3> QED BY <3>1, <3>2
  <2> QED BY <2>1, <2>2 DEF Init
<1>2. Len(text) \in Nat
  BY <1>1
<1>3. TypeOK
  BY <1>1, <1>2 DEF TypeOK, Init
<1> QED BY <1>3 DEF TypeInv, Init

LEMMA ParserType ==
    ASSUME TypeInv
    PROVE  /\ text \in Seq(Char) /\ Len(text) \in Nat /\ cursor \in 1..(Len(text) + 1)
           /\ cursor \in Nat \ {0} /\ cursor + 1 \in Nat \ {0}
           /\ field \in Seq(Char) /\ record \in Seq(Seq(Char)) /\ table \in Seq(Record)
<1>1. /\ text \in Seq(Char) /\ cursor \in 1..(Len(text) + 1)
      /\ field \in Seq(Char) /\ record \in Seq(Seq(Char)) /\ table \in Seq(Record)
  BY DEF TypeInv, TypeOK
<1>2. Len(text) \in Nat
  BY <1>1, LenProperties
<1>3. cursor \in Nat \ {0} /\ cursor + 1 \in Nat \ {0}
  BY <1>1, <1>2
<1> QED BY <1>1, <1>2, <1>3

LEMMA ParseFieldType ==
    ASSUME TypeInv, ParseField PROVE TypeInv'
<1> DEFINE i == PastSpaces(cursor)
<1>1. /\ text \in Seq(Char) /\ Len(text) \in Nat /\ cursor \in 1..(Len(text) + 1)
      /\ i \in cursor..(Len(text) + 1) /\ i \in Nat \ {0}
  BY ParserType, PastSpacesIs
<1>2. At(i) = Quote => i <= Len(text)
  BY <1>1, AtType, CsvAssumption
<1> HIDE DEF i
<1>3. cursor' \in 1..(Len(text) + 1) /\ pc' \in {"escaped", "non-escaped"}
  BY <1>1, <1>2 DEF ParseField, i
<1> QED BY <1>3 DEF TypeInv, TypeOK, ParseField

LEMMA ParseEscapedType ==
    ASSUME TypeInv, ParseEscaped PROVE TypeInv'
<1>1. text \in Seq(Char) /\ Len(text) \in Nat /\ cursor \in 1..Len(text) /\ cursor + 1 \in Nat \ {0}
  BY DEF TypeInv, TypeOK, ParseEscaped
<1>2. At(cursor) \in Char
  BY <1>1, AtType
<1>3. At(cursor + 1) = Quote => cursor + 1 <= Len(text)
  BY <1>1, AtType, CsvAssumption
<1>4. cursor' \in 1..(Len(text) + 1)
  BY <1>1, <1>3 DEF ParseEscaped
<1>5. field' \in Seq(Char)
  BY <1>2 DEF ParseEscaped, TypeInv, TypeOK
<1> QED BY <1>4, <1>5 DEF TypeInv, TypeOK, ParseEscaped

LEMMA ParseEscapedEndType ==
    ASSUME TypeInv, ParseEscapedEnd PROVE TypeInv'
<1>1. /\ text \in Seq(Char) /\ Len(text) \in Nat /\ cursor \in 1..(Len(text) + 1)
      /\ cursor \in Nat \ {0}
  BY ParserType
<1>2. CASE At(cursor) = Quote
  <2> DEFINE i == PastSpaces(cursor + 1)
  <2>1. cursor <= Len(text)
    BY <1>1, <1>2, AtType, CsvAssumption
  <2>2. cursor + 1 \in 1..(Len(text) + 1)
    BY <1>1, <2>1
  <2>3. i \in (cursor + 1)..(Len(text) + 1)
    BY <1>1, <2>2, PastSpacesIs
  <2> HIDE DEF i
  <2>4. cursor' = i /\ pc' = IF EndsField(i) THEN "end of field" ELSE "failed"
    <3>1. ~(cursor > Len(text))
      BY <1>1, <2>1
    <3>2. /\ cursor' = i
          /\ pc' = IF At(i) \in {None, Comma} \/ AtCrLf(i) THEN "end of field" ELSE "failed"
      BY <3>1 DEF ParseEscapedEnd, i
    <3> QED BY <3>2 DEF EndsField
  <2>5. i \in 1..(Len(text) + 1)
    BY <1>1, <2>3
  <2>6. pc' = "end of field" => EndsField(cursor)'
    BY <2>4 DEF EndsField, At, AtCrLf, ParseEscapedEnd
  <2> QED BY <2>4, <2>5, <2>6 DEF TypeInv, TypeOK, ParseEscapedEnd
<1>3. CASE At(cursor) # Quote
  <2>1. pc' = "failed" /\ cursor' = cursor
    BY <1>3 DEF ParseEscapedEnd
  <2> QED BY <2>1 DEF TypeInv, TypeOK, ParseEscapedEnd
<1> QED BY <1>2, <1>3

LEMMA ParseNonEscapedType ==
    ASSUME TypeInv, ParseNonEscaped PROVE TypeInv'
<1>1. /\ text \in Seq(Char) /\ Len(text) \in Nat /\ cursor \in 1..(Len(text) + 1)
      /\ cursor \in Nat \ {0}
  BY ParserType
<1>2. At(cursor) # None /\ At(cursor) \in Char
  BY CsvAssumption DEF ParseNonEscaped, TEXTDATA, Char
<1>3. cursor <= Len(text)
  BY <1>1, <1>2, AtType
<1>4. cursor' \in 1..(Len(text) + 1) /\ field' \in Seq(Char)
  BY <1>1, <1>2, <1>3 DEF ParseNonEscaped, TypeInv, TypeOK
<1> QED BY <1>4 DEF TypeInv, TypeOK, ParseNonEscaped

LEMMA ParseNonEscapedEndType ==
    ASSUME TypeInv, ParseNonEscapedEnd PROVE TypeInv'
<1>1. field' \in Seq(Char)
  BY TrimIs DEF ParseNonEscapedEnd, TypeInv, TypeOK
<1>2. pc' = IF EndsField(cursor) THEN "end of field" ELSE "failed"
  BY DEF ParseNonEscapedEnd, EndsField
<1>3. pc' = "end of field" => EndsField(cursor)'
  BY <1>2 DEF EndsField, At, AtCrLf, ParseNonEscapedEnd
<1> QED BY <1>1, <1>2, <1>3 DEF TypeInv, TypeOK, ParseNonEscapedEnd

LEMMA ParseRecordType ==
    ASSUME TypeInv, ParseRecord PROVE TypeInv'
<1>1. /\ text \in Seq(Char) /\ Len(text) \in Nat /\ cursor \in 1..(Len(text) + 1)
      /\ cursor \in Nat \ {0} /\ field \in Seq(Char) /\ record \in Seq(Seq(Char))
  BY ParserType
<1>5. EndsField(cursor)
  BY DEF TypeInv, ParseRecord
<1>2. record' \in Seq(Seq(Char)) /\ record' # <<>> /\ field' = <<>> /\ <<>> \in Seq(Char)
  <2>1. record' = Append(record, field) /\ field' = <<>>
    BY DEF ParseRecord
  <2>2. Append(record, field) \in Seq(Seq(Char)) /\ Append(record, field) # <<>>
    BY <1>1
  <2> QED BY <2>1, <2>2
<1>3. CASE At(cursor) = Comma
  <2>1. cursor <= Len(text)
    BY <1>1, <1>3, AtType, CsvAssumption
  <2>2. cursor' = cursor + 1 /\ pc' = "field"
    BY <1>3 DEF ParseRecord
  <2>3. cursor' \in 1..(Len(text) + 1)
    BY <1>1, <2>1, <2>2
  <2> QED BY <1>2, <2>2, <2>3 DEF TypeInv, TypeOK, ParseRecord
<1>4. CASE At(cursor) # Comma
  <2>1. At(cursor) = None \/ AtCrLf(cursor)
    BY <1>4, <1>5 DEF EndsField
  <2>2. cursor > Len(text) \/ AtCrLf(cursor)
    BY <1>1, <2>1, AtType
  <2>3. cursor' = cursor /\ text' = text /\ pc' = "end of record"
    BY <1>4 DEF ParseRecord
  <2>4. cursor' > Len(text') \/ AtCrLf(cursor)'
    BY <2>2, <2>3 DEF AtCrLf, At
  <2> QED BY <1>2, <2>3, <2>4 DEF TypeInv, TypeOK, ParseRecord
<1> QED BY <1>3, <1>4

\* The two characters that are skipped are there.
LEMMA SeparatorThere ==
    ASSUME TypeInv, NEW i \in 1..(Len(text) + 1), AtCrLf(i)
    PROVE  i + 1 <= Len(text)
<1>1. text \in Seq(Char) /\ Len(text) \in Nat /\ i + 1 \in Nat \ {0}
  BY ParserType
<1>2. At(i + 1) # None
  BY CsvAssumption DEF AtCrLf
<1> QED BY <1>1, <1>2, AtType

LEMMA ParseTableType ==
    ASSUME TypeInv, ParseTable PROVE TypeInv'
<1>1. /\ text \in Seq(Char) /\ Len(text) \in Nat /\ cursor \in 1..(Len(text) + 1)
      /\ record \in Record /\ table \in Seq(Record) /\ (cursor > Len(text) \/ AtCrLf(cursor))
      /\ field = <<>>
  <2>1. record # <<>> /\ (cursor > Len(text) \/ AtCrLf(cursor)) /\ field = <<>>
    BY DEF TypeInv, ParseTable
  <2> QED BY <2>1, ParserType DEF Record
<1>2. /\ table' \in Seq(Record) /\ table' # <<>> /\ table' \in Seq(Seq(Seq(Char)))
      /\ record' = <<>> /\ <<>> \in Seq(Seq(Char)) /\ <<>> \in Seq(Char)
  <2>1. table' = Append(table, record) /\ record' = <<>>
    BY DEF ParseTable
  <2>2. table' \in Seq(Record) /\ table' # <<>>
    BY <1>1, <2>1
  <2>3. Record \subseteq Seq(Seq(Char))
    BY DEF Record
  <2>4. table' \in Seq(Seq(Seq(Char)))
    BY <2>2, <2>3, SeqMonotonic
  <2> QED BY <2>1, <2>2, <2>4
<1>3. cursor' \in 1..(Len(text) + 1) /\ pc' \in {"done", "field"}
  <2>1. CASE cursor > Len(text)
    <3>1. cursor' = cursor /\ pc' = "done"
      BY <2>1 DEF ParseTable
    <3> QED BY <1>1, <3>1
  <2>2. CASE ~(cursor > Len(text))
    <3>1. cursor + 1 <= Len(text)
      BY <1>1, <2>2, SeparatorThere
    <3>2. cursor' = cursor + 2 /\ pc' \in {"done", "field"}
      BY <2>2 DEF ParseTable
    <3>3. cursor' \in 1..(Len(text) + 1)
      BY <1>1, <3>1, <3>2
    <3> QED BY <3>2, <3>3
  <2> QED BY <2>1, <2>2
<1>4. text' = text /\ field' = <<>>
  BY <1>1 DEF ParseTable
<1>5. TypeOK'
  BY <1>1, <1>2, <1>3, <1>4 DEF TypeOK
<1>6. table' \in Seq(Record) /\ pc' \in {"done", "field"} /\ record' = <<>> /\ table' # <<>>
      /\ field' = <<>>
  BY <1>2, <1>3, <1>4
<1> QED BY <1>5, <1>6 DEF TypeInv

LEMMA ComposeFileType ==
    ASSUME TypeInv, ComposeFile PROVE TypeInv'
<1>1. text' \in Seq(Char)
  BY ComposeTableType DEF ComposeFile, TypeInv
<1>2. Len(text') \in Nat
  BY <1>1
<1>3. /\ pc' = "field" /\ cursor' = 1 /\ table' = <<>> /\ field' = <<>> /\ record' = <<>>
  BY DEF ComposeFile, TypeInv
<1>4. cursor' \in 1..(Len(text') + 1)
  BY <1>2, <1>3
<1>5. /\ <<>> \in Seq(Char) /\ <<>> \in Seq(Seq(Char)) /\ <<>> \in Seq(Seq(Seq(Char)))
      /\ <<>> \in Seq(Record)
  OBVIOUS
<1>6. TypeOK'
  BY <1>1, <1>3, <1>4, <1>5 DEF TypeOK
<1> QED BY <1>3, <1>5, <1>6 DEF TypeInv

LEMMA TypeStep ==
    ASSUME TypeInv, [Next]_vars PROVE TypeInv'
<1>1. CASE UNCHANGED vars
  BY <1>1 DEF vars, TypeInv, TypeOK, EndsField, At, AtCrLf
<1>2. CASE Next
  BY <1>2, ParseFieldType, ParseEscapedType, ParseEscapedEndType, ParseNonEscapedType,
     ParseNonEscapedEndType, ParseRecordType, ParseTableType, ComposeFileType DEF Next
<1> QED BY <1>1, <1>2

LEMMA TypeInvHolds == Spec => []TypeInv
<1>1. Init => TypeInv
  BY TypeInit
<1>2. TypeInv /\ [Next]_vars => TypeInv'
  BY TypeStep
<1> QED BY <1>1, <1>2, PTL DEF Spec

\* The parser stays within the text, or just behind it, and makes fields of its
\* characters, whoever wrote it.
THEOREM TypeCorrect == Spec => []TypeOK
<1>1. TypeInv => TypeOK
  BY DEF TypeInv
<1> QED BY <1>1, TypeInvHolds, PTL

\* The two characters that ParseTable skips after a record are a separator, or it
\* is at the end of the text.
THEOREM RecordsEnd == Spec => []RecordsEndAtSeparator
<1>1. TypeInv => RecordsEndAtSeparator
  BY DEF TypeInv, RecordsEndAtSeparator
<1> QED BY <1>1, TypeInvHolds, PTL

-----------------------------------------------------------------------------
(* Where the fields of a table stand in its text *)

FieldTexts(fields)   == [i \in DOMAIN fields |-> ComposeField(fields[i])]
RecordTexts(records) == [i \in DOMAIN records |-> ComposeRecord(records[i])]

\* The positions before and after a field.
FieldStart(records, n, m) ==
    Spread(RecordTexts(records), <<CR, LF>>)[n] + Spread(FieldTexts(records[n]), <<Comma>>)[m]

FieldEnd(records, n, m) == FieldStart(records, n, m) + Len(ComposeField(records[n][m]))

LEMMA RecordLayout ==
    ASSUME NEW fields \in Record
    PROVE  LET at == Spread(FieldTexts(fields), <<Comma>>)
               whole == ComposeRecord(fields)
           IN  /\ whole \in Seq(Char)
               /\ at \in [1..Len(fields) -> Nat]
               /\ at[1] = 0
               /\ \A i \in 1..Len(fields) : Holds(whole, at[i], ComposeField(fields[i]))
               /\ \A i \in 1..(Len(fields) - 1) :
                    LET e == at[i] + Len(ComposeField(fields[i]))
                    IN  at[i + 1] = e + 1 /\ e + 1 <= Len(whole) /\ whole[e + 1] = Comma
               /\ Len(whole) = at[Len(fields)] + Len(ComposeField(fields[Len(fields)]))
<1> DEFINE parts == FieldTexts(fields)
           at    == Spread(parts, <<Comma>>)
           whole == ComposeRecord(fields)
           n     == Len(fields)
<1>1. fields \in Seq(Seq(Char)) /\ fields # <<>> /\ DOMAIN fields = 1..n /\ n \in Nat \ {0}
  BY DEF Record
<1>2. \A i \in 1..n : ComposeField(fields[i]) \in Seq(Char)
  BY <1>1, ComposeFieldType
<1>3. /\ parts \in Seq(Seq(Char)) /\ parts # <<>> /\ Len(parts) = n
      /\ \A i \in 1..n : parts[i] = ComposeField(fields[i])
  BY <1>1, <1>2 DEF FieldTexts
<1>4. <<Comma>> \in Seq(Char) /\ Len(<<Comma>>) = 1 /\ <<Comma>>[1] = Comma
  BY DEF Char
<1>5. whole = Joined(parts, <<Comma>>)
  BY DEF ComposeRecord, FieldTexts
<1> HIDE DEF parts, at, whole, n
<1>6. /\ whole \in Seq(Char)
      /\ at \in [1..n -> Nat]
      /\ IsSpread(at, parts, <<Comma>>, whole)
  BY <1>3, <1>4, <1>5, JoinedOf DEF at
<1>7. /\ at[1] = 0
      /\ \A i \in 1..n : Holds(whole, at[i], parts[i])
      /\ \A i \in 1..(n - 1) :
           /\ at[i + 1] = (at[i] + Len(parts[i])) + 1
           /\ Holds(whole, at[i] + Len(parts[i]), <<Comma>>)
      /\ Len(whole) = at[n] + Len(parts[n])
  BY <1>3, <1>4, <1>6 DEF IsSpread
<1>8. \A i \in 1..n : Holds(whole, at[i], ComposeField(fields[i]))
  BY <1>3, <1>7
<1>9. ASSUME NEW i \in 1..(n - 1), NEW e, e = at[i] + Len(ComposeField(fields[i]))
      PROVE  at[i + 1] = e + 1 /\ e + 1 <= Len(whole) /\ whole[e + 1] = Comma
  <2>1. i \in 1..n
    BY <1>1
  <2>2. parts[i] = ComposeField(fields[i])
    BY <1>3, <2>1
  <2>3. at[i + 1] = e + 1 /\ Holds(whole, e, <<Comma>>)
    BY <1>7, <1>9, <2>2
  <2>4. 1 \in 1..Len(<<Comma>>)
    BY <1>4
  <2> QED BY <1>4, <2>3, <2>4 DEF Holds
<1>10. Len(whole) = at[n] + Len(ComposeField(fields[n]))
  BY <1>1, <1>3, <1>7
<1> QED BY <1>6, <1>7, <1>8, <1>9, <1>10 DEF whole, at, n, parts

LEMMA TableLayout ==
    ASSUME NEW records \in Seq(Record), records # <<>>
    PROVE  LET at == Spread(RecordTexts(records), <<CR, LF>>)
               whole == ComposeTable(records)
           IN  /\ whole \in Seq(Char)
               /\ at \in [1..Len(records) -> Nat]
               /\ at[1] = 0
               /\ \A i \in 1..Len(records) : Holds(whole, at[i], ComposeRecord(records[i]))
               /\ \A i \in 1..(Len(records) - 1) :
                    LET e == at[i] + Len(ComposeRecord(records[i]))
                    IN  /\ at[i + 1] = e + 2 /\ e + 2 <= Len(whole)
                        /\ whole[e + 1] = CR /\ whole[e + 2] = LF
               /\ Len(whole) = at[Len(records)] + Len(ComposeRecord(records[Len(records)]))
<1> DEFINE parts == RecordTexts(records)
           at    == Spread(parts, <<CR, LF>>)
           whole == ComposeTable(records)
           n     == Len(records)
<1>1. DOMAIN records = 1..n /\ n \in Nat \ {0} /\ \A i \in 1..n : records[i] \in Record
  OBVIOUS
<1>2. \A i \in 1..n : ComposeRecord(records[i]) \in Seq(Char)
  BY <1>1, ComposeRecordType
<1>3. /\ parts \in Seq(Seq(Char)) /\ parts # <<>> /\ Len(parts) = n
      /\ \A i \in 1..n : parts[i] = ComposeRecord(records[i])
  BY <1>1, <1>2 DEF RecordTexts
<1>4. /\ <<CR, LF>> \in Seq(Char) /\ Len(<<CR, LF>>) = 2
      /\ <<CR, LF>>[1] = CR /\ <<CR, LF>>[2] = LF
  BY DEF Char
<1>5. whole = Joined(parts, <<CR, LF>>)
  BY DEF ComposeTable, RecordTexts
<1> HIDE DEF parts, at, whole, n
<1>6. /\ whole \in Seq(Char)
      /\ at \in [1..n -> Nat]
      /\ IsSpread(at, parts, <<CR, LF>>, whole)
  BY <1>3, <1>4, <1>5, JoinedOf DEF at
<1>7. /\ at[1] = 0
      /\ \A i \in 1..n : Holds(whole, at[i], parts[i])
      /\ \A i \in 1..(n - 1) :
           /\ at[i + 1] = (at[i] + Len(parts[i])) + 2
           /\ Holds(whole, at[i] + Len(parts[i]), <<CR, LF>>)
      /\ Len(whole) = at[n] + Len(parts[n])
  BY <1>3, <1>4, <1>6 DEF IsSpread
<1>8. \A i \in 1..n : Holds(whole, at[i], ComposeRecord(records[i]))
  BY <1>3, <1>7
<1>9. ASSUME NEW i \in 1..(n - 1), NEW e, e = at[i] + Len(ComposeRecord(records[i]))
      PROVE  /\ at[i + 1] = e + 2 /\ e + 2 <= Len(whole)
             /\ whole[e + 1] = CR /\ whole[e + 2] = LF
  <2>1. i \in 1..n
    BY <1>1
  <2>2. parts[i] = ComposeRecord(records[i])
    BY <1>3, <2>1
  <2>3. at[i + 1] = e + 2 /\ Holds(whole, e, <<CR, LF>>)
    BY <1>7, <1>9, <2>2
  <2>4. 1 \in 1..Len(<<CR, LF>>) /\ 2 \in 1..Len(<<CR, LF>>)
    BY <1>4
  <2> QED BY <1>4, <2>3, <2>4 DEF Holds
<1>10. Len(whole) = at[n] + Len(ComposeRecord(records[n]))
  BY <1>1, <1>3, <1>7
<1> QED BY <1>6, <1>7, <1>8, <1>9, <1>10 DEF whole, at, n, parts

\* What stands in a field, and behind it.
LEMMA Layout ==
    ASSUME NEW records \in Seq(Record), records # <<>>, text = ComposeTable(records),
           NEW n \in 1..Len(records), NEW m \in 1..Len(records[n]),
           NEW s, s = FieldStart(records, n, m), NEW e, e = FieldEnd(records, n, m)
    PROVE  /\ s \in Nat /\ e \in Nat /\ e <= Len(text)
           /\ ComposeField(records[n][m]) \in Seq(Char)
           /\ e = s + Len(ComposeField(records[n][m]))
           /\ Holds(text, s, ComposeField(records[n][m]))
           /\ m < Len(records[n]) =>
                 e + 1 <= Len(text) /\ At(e + 1) = Comma /\ FieldStart(records, n, m + 1) = e + 1
           /\ m = Len(records[n]) /\ n < Len(records) =>
                 e + 2 <= Len(text) /\ AtCrLf(e + 1) /\ FieldStart(records, n + 1, 1) = e + 2
           /\ m = Len(records[n]) /\ n = Len(records) => e = Len(text)
<1> DEFINE fields == records[n]
           whole  == ComposeRecord(fields)
           ra     == Spread(RecordTexts(records), <<CR, LF>>)
           fa     == Spread(FieldTexts(fields), <<Comma>>)
           t      == ComposeField(fields[m])
<1>1. fields \in Record
  OBVIOUS
<1>2. fields \in Seq(Seq(Char)) /\ fields[m] \in Seq(Char) /\ Len(fields) \in Nat \ {0}
      /\ Len(records) \in Nat \ {0}
  BY <1>1 DEF Record
<1>3. t \in Seq(Char) /\ Len(t) \in Nat
  BY <1>2, ComposeFieldType, LenProperties
<1>4. s = ra[n] + fa[m] /\ e = s + Len(t)
  BY DEF FieldStart, FieldEnd
<1>5. /\ whole \in Seq(Char)
      /\ fa \in [1..Len(fields) -> Nat]
      /\ fa[1] = 0
      /\ Holds(whole, fa[m], t)
      /\ m < Len(fields) =>
            /\ fa[m + 1] = (fa[m] + Len(t)) + 1 /\ (fa[m] + Len(t)) + 1 <= Len(whole)
            /\ whole[(fa[m] + Len(t)) + 1] = Comma
      /\ Len(whole) = fa[Len(fields)] + Len(ComposeField(fields[Len(fields)]))
  <2>1. m \in 1..(Len(fields) - 1) \/ ~(m < Len(fields))
    BY <1>2
  <2> QED BY <1>1, <2>1, RecordLayout
<1>6. /\ ra \in [1..Len(records) -> Nat]
      /\ Holds(text, ra[n], whole)
      /\ n < Len(records) =>
            /\ ra[n + 1] = (ra[n] + Len(whole)) + 2 /\ (ra[n] + Len(whole)) + 2 <= Len(text)
            /\ text[(ra[n] + Len(whole)) + 1] = CR /\ text[(ra[n] + Len(whole)) + 2] = LF
      /\ n = Len(records) => Len(text) = ra[n] + Len(whole)
      /\ text \in Seq(Char)
  <2>1. n \in 1..(Len(records) - 1) \/ ~(n < Len(records))
    BY <1>2
  <2> QED BY <2>1, TableLayout
<1>7. n < Len(records) => FieldStart(records, n + 1, 1) = ra[n + 1]
  <2>1. ASSUME n < Len(records) PROVE FieldStart(records, n + 1, 1) = ra[n + 1]
    <3>1. n + 1 \in 1..Len(records)
      BY <1>2, <2>1
    <3>2. records[n + 1] \in Record
      BY <3>1
    <3>3. Spread(FieldTexts(records[n + 1]), <<Comma>>)[1] = 0
      BY <3>2, RecordLayout
    <3>4. ra[n + 1] \in Nat
      BY <1>6, <3>1
    <3> QED BY <3>3, <3>4 DEF FieldStart
  <2> QED BY <2>1
<1>8. m < Len(fields) => FieldStart(records, n, m + 1) = ra[n] + fa[m + 1]
  BY DEF FieldStart
<1>9. ra[n] \in Nat /\ fa[m] \in Nat /\ Len(whole) \in Nat /\ Len(text) \in Nat
  <2>1. ra[n] \in Nat /\ fa[m] \in Nat
    BY <1>5, <1>6
  <2>2. Len(whole) \in Nat /\ Len(text) \in Nat
    <3> HIDE DEF whole
    <3> QED BY <1>5, <1>6, LenProperties
  <2> QED BY <2>1, <2>2
<1>10. m = Len(fields) => Len(whole) = fa[m] + Len(t)
  BY <1>5
<1> HIDE DEF ra, fa, t, whole
<1>11. fa[m] + Len(t) <= Len(whole) /\ ra[n] + Len(whole) <= Len(text)
  BY <1>5, <1>6 DEF Holds
<1> DEFINE r == ra[n]
           f == fa[m]
           l == Len(t)
           w == Len(whole)
           z == Len(text)
<1>17. /\ r \in Nat /\ f \in Nat /\ l \in Nat /\ w \in Nat /\ z \in Nat
       /\ s = r + f /\ e = s + l /\ f + l <= w /\ r + w <= z
  BY <1>3, <1>4, <1>9, <1>11
<1> HIDE DEF r, f, l, w, z
<1>12. s \in Nat /\ e \in Nat /\ e <= Len(text)
  <2>1. s \in Nat /\ e \in Nat /\ e <= z
    BY <1>17
  <2> QED BY <2>1 DEF z
<1>13. Holds(text, s, t)
  BY <1>3, <1>4, <1>5, <1>6, <1>9, HoldsWithin
<1>14. ASSUME m < Len(fields)
       PROVE  e + 1 <= Len(text) /\ At(e + 1) = Comma /\ FieldStart(records, n, m + 1) = e + 1
  <2>1. (fa[m] + Len(t)) + 1 \in 1..Len(whole)
    BY <1>3, <1>5, <1>9, <1>14
  <2>2. text[ra[n] + ((fa[m] + Len(t)) + 1)] = Comma
    BY <1>5, <1>6, <1>14, <2>1 DEF Holds
  <2>3. ra[n] + ((fa[m] + Len(t)) + 1) = e + 1 /\ e + 1 <= Len(text)
    <3>1. (f + l) + 1 <= w
      BY <1>5, <1>14 DEF f, l, w
    <3>2. r + ((f + l) + 1) = e + 1 /\ e + 1 <= z
      BY <1>17, <3>1
    <3> QED BY <3>2 DEF r, f, l, z
  <2>4. FieldStart(records, n, m + 1) = e + 1
    <3>1. FieldStart(records, n, m + 1) = r + ((f + l) + 1)
      BY <1>5, <1>8, <1>14 DEF r, f, l
    <3> QED BY <1>17, <3>1
  <2> QED BY <2>2, <2>3, <2>4 DEF At
<1>15. ASSUME m = Len(fields), n < Len(records)
       PROVE  e + 2 <= Len(text) /\ AtCrLf(e + 1) /\ FieldStart(records, n + 1, 1) = e + 2
  <2>1. e = ra[n] + Len(whole)
    BY <1>3, <1>4, <1>9, <1>10, <1>15
  <2>2. e + 2 <= Len(text) /\ text[e + 1] = CR /\ text[e + 2] = LF /\ ra[n + 1] = e + 2
    BY <1>6, <1>15, <2>1
  <2>3. e + 1 <= Len(text) /\ (e + 1) + 1 = e + 2
    BY <1>9, <1>12, <2>2
  <2>4. At(e + 1) = CR /\ At((e + 1) + 1) = LF
    BY <2>2, <2>3 DEF At
  <2> QED BY <1>7, <1>15, <2>2, <2>4 DEF AtCrLf
<1>16. m = Len(fields) /\ n = Len(records) => e = Len(text)
  BY <1>3, <1>4, <1>6, <1>9, <1>10
<1> QED BY <1>3, <1>4, <1>12, <1>13, <1>14, <1>15, <1>16 DEF t

\* The text begins with its first field.
LEMMA FirstField ==
    ASSUME NEW records \in Seq(Record), records # <<>>
    PROVE  /\ FieldStart(records, 1, 1) = 0
           /\ 1 \in 1..Len(records) /\ 1 \in 1..Len(records[1])
<1>1. Len(records) \in Nat \ {0} /\ records[1] \in Record
  OBVIOUS
<1>2. Len(records[1]) \in Nat \ {0}
  BY <1>1 DEF Record
<1>3. Spread(RecordTexts(records), <<CR, LF>>)[1] = 0
  BY TableLayout
<1>4. Spread(FieldTexts(records[1]), <<Comma>>)[1] = 0
  BY <1>1, RecordLayout
<1> QED BY <1>1, <1>2, <1>3, <1>4 DEF FieldStart

\* What follows a field is no part of one.
LEMMA BehindField ==
    ASSUME NEW records \in Seq(Record), records # <<>>, text = ComposeTable(records),
           NEW n \in 1..Len(records), NEW m \in 1..Len(records[n]),
           NEW e, e = FieldEnd(records, n, m)
    PROVE  EndsField(e + 1) /\ At(e + 1) \notin TEXTDATA \cup {Quote}
<1> DEFINE s == FieldStart(records, n, m)
<1>1. /\ s \in Nat /\ e \in Nat /\ e <= Len(text)
      /\ m < Len(records[n]) => At(e + 1) = Comma
      /\ m = Len(records[n]) /\ n < Len(records) => AtCrLf(e + 1)
      /\ m = Len(records[n]) /\ n = Len(records) => e = Len(text)
  BY Layout
<1>2. Len(records[n]) \in Nat /\ Len(records) \in Nat /\ text \in Seq(Char)
  BY TableLayout DEF Record
<1>3. \/ m < Len(records[n])
      \/ m = Len(records[n]) /\ n < Len(records)
      \/ m = Len(records[n]) /\ n = Len(records)
  BY <1>2
<1>4. e + 1 \in Nat \ {0}
  BY <1>1
<1>5. At(e + 1) = Comma \/ AtCrLf(e + 1) \/ At(e + 1) = None
  BY <1>1, <1>2, <1>3, <1>4, AtType
<1> QED BY <1>5, CsvAssumption DEF EndsField, AtCrLf, TEXTDATA

Doubles(raw) == [i \in DOMAIN raw |-> IF raw[i] = Quote THEN <<Quote, Quote>> ELSE <<raw[i]>>]

\* Where each character of an escaped field is, behind the opening quote.
LEMMA EscapedLayout ==
    ASSUME NEW raw \in Seq(Char), Escaped(raw)
    PROVE  LET t == ComposeField(raw)
               c == Starts(Doubles(raw))
           IN  /\ t \in Seq(Char) /\ Len(t) = c[Len(raw) + 1] + 2
               /\ c \in [1..(Len(raw) + 1) -> Nat] /\ c[1] = 0
               /\ t[1] = Quote /\ t[c[Len(raw) + 1] + 2] = Quote
               /\ \A k \in 1..Len(raw) :
                    /\ c[k] + 2 <= Len(t)
                    /\ t[c[k] + 2] = raw[k]
                    /\ raw[k] # Quote => c[k + 1] = c[k] + 1
                    /\ raw[k] = Quote => c[k + 1] = c[k] + 2 /\ c[k] + 3 <= Len(t)
                                         /\ t[c[k] + 3] = Quote
<1> DEFINE parts   == Doubles(raw)
           doubled == FlattenSeq(parts)
           c       == Starts(parts)
           n       == Len(raw)
           t       == ComposeField(raw)
<1>1. Quote \in Char /\ DOMAIN raw = 1..n /\ n \in Nat /\ \A i \in 1..n : raw[i] \in Char
  BY DEF Char
<1>2. \A i \in 1..n : parts[i] = IF raw[i] = Quote THEN <<Quote, Quote>> ELSE <<raw[i]>>
  BY <1>1 DEF Doubles
<1>3. \A i \in 1..n : parts[i] \in Seq(Char)
  <2> TAKE i \in 1..n
  <2>1. <<Quote, Quote>> \in Seq(Char) /\ <<raw[i]>> \in Seq(Char)
    BY <1>1
  <2> QED BY <1>2, <2>1
<1>4. parts \in Seq(Seq(Char)) /\ Len(parts) = n
  <2>1. parts \in [1..n -> Seq(Char)]
    BY <1>1, <1>3 DEF Doubles
  <2> HIDE DEF parts
  <2> QED BY <1>1, <2>1
<1>5. t = (<<Quote>> \o doubled) \o <<Quote>>
  BY DEF ComposeField, Doubles
<1> HIDE DEF parts, t, n
<1>6. /\ doubled \in Seq(Char)
      /\ c \in [1..(n + 1) -> Nat]
      /\ IsStarts(c, parts, doubled)
  BY <1>4, StartsOf
<1> HIDE DEF doubled, c
<1>7. /\ c[1] = 0 /\ Len(doubled) = c[n + 1]
      /\ \A i \in 1..n : c[i + 1] = c[i] + Len(parts[i]) /\ Holds(doubled, c[i], parts[i])
  BY <1>4, <1>6 DEF IsStarts
<1>8. <<Quote>> \in Seq(Char) /\ Len(<<Quote>>) = 1 /\ <<Quote>>[1] = Quote
  BY <1>1
<1>9. /\ <<Quote>> \o doubled \in Seq(Char) /\ Len(<<Quote>> \o doubled) = 1 + Len(doubled)
      /\ Holds(<<Quote>> \o doubled, 0, <<Quote>>) /\ Holds(<<Quote>> \o doubled, 1, doubled)
  BY <1>6, <1>8, ConcatHolds
<1>10. /\ t \in Seq(Char) /\ Len(t) = (1 + Len(doubled)) + 1
       /\ Holds(t, 0, <<Quote>> \o doubled) /\ Holds(t, 1 + Len(doubled), <<Quote>>)
  <2> DEFINE front == <<Quote>> \o doubled
  <2>1. front \in Seq(Char) /\ Len(front) = 1 + Len(doubled) /\ t = front \o <<Quote>>
    BY <1>5, <1>9
  <2> HIDE DEF front
  <2>2. /\ t \in Seq(Char) /\ Len(t) = Len(front) + Len(<<Quote>>)
        /\ Holds(t, 0, front) /\ Holds(t, Len(front), <<Quote>>)
    BY <1>8, <2>1, ConcatHolds
  <2>3. Len(t) = (1 + Len(doubled)) + 1 /\ Holds(t, 1 + Len(doubled), <<Quote>>)
    BY <1>8, <2>1, <2>2
  <2> QED BY <2>2, <2>3 DEF front
<1>11. Len(doubled) \in Nat
  BY <1>6
<1>12. Holds(t, 0, <<Quote>>) /\ Holds(t, 1, doubled)
  <2>1. Holds(t, 0 + 0, <<Quote>>) /\ Holds(t, 0 + 1, doubled)
    BY <1>6, <1>8, <1>9, <1>10, HoldsWithin
  <2> QED BY <2>1
<1>13. t[1] = Quote /\ t[Len(doubled) + 2] = Quote
  <2>1. 1 \in 1..Len(<<Quote>>)
    BY <1>8
  <2>2. t[0 + 1] = Quote /\ t[(1 + Len(doubled)) + 1] = Quote
    BY <1>8, <1>10, <1>12, <2>1 DEF Holds
  <2> QED BY <1>11, <2>2
<1>14. ASSUME NEW k \in 1..n
       PROVE  /\ c[k] + 2 <= Len(t)
              /\ t[c[k] + 2] = raw[k]
              /\ raw[k] # Quote => c[k + 1] = c[k] + 1
              /\ raw[k] = Quote => /\ c[k + 1] = c[k] + 2 /\ c[k] + 3 <= Len(t)
                                   /\ t[c[k] + 3] = Quote
  <2>1. k \in 1..(n + 1)
    BY <1>1
  <2>2. c[k] \in Nat
    BY <1>6, <2>1
  <2>3. Holds(t, 1 + c[k], parts[k])
    BY <1>3, <1>6, <1>7, <1>10, <1>12, <2>2, HoldsWithin
  <2>4. /\ (1 + c[k]) + Len(parts[k]) <= Len(t)
        /\ \A j \in 1..Len(parts[k]) : t[(1 + c[k]) + j] = parts[k][j]
    BY <2>3 DEF Holds
  <2>5. c[k + 1] = c[k] + Len(parts[k])
    BY <1>7
  <2>6. CASE raw[k] = Quote
    <3>1. Len(parts[k]) = 2 /\ parts[k][1] = Quote /\ parts[k][2] = Quote
      <4>1. parts[k] = <<Quote, Quote>>
        BY <1>2, <2>6
      <4> QED BY <4>1
    <3>2. t[(1 + c[k]) + 1] = Quote /\ t[(1 + c[k]) + 2] = Quote
      BY <2>4, <3>1
    <3>3. (1 + c[k]) + 1 = c[k] + 2 /\ (1 + c[k]) + 2 = c[k] + 3 /\ Len(t) \in Nat
      BY <1>10, <2>2
    <3>4. c[k] + 3 <= Len(t) /\ c[k] + 2 <= Len(t)
      BY <2>2, <2>4, <3>1, <3>3
    <3> QED BY <2>5, <2>6, <3>1, <3>2, <3>3, <3>4
  <2>7. CASE raw[k] # Quote
    <3>1. Len(parts[k]) = 1 /\ parts[k][1] = raw[k]
      <4>1. parts[k] = <<raw[k]>>
        BY <1>2, <2>7
      <4> QED BY <4>1
    <3>2. t[(1 + c[k]) + 1] = raw[k]
      BY <2>4, <3>1
    <3>3. (1 + c[k]) + 1 = c[k] + 2 /\ Len(t) \in Nat
      BY <1>10, <2>2
    <3>4. c[k] + 2 <= Len(t)
      BY <2>2, <2>4, <3>1, <3>3
    <3> QED BY <2>5, <2>7, <3>1, <3>2, <3>3, <3>4
  <2> QED BY <2>6, <2>7
<1>15. Len(t) = c[n + 1] + 2
  BY <1>7, <1>10, <1>11
<1> QED BY <1>6, <1>7, <1>10, <1>13, <1>14, <1>15 DEF t, c, n, parts

\* A character of a field that is read.
LEMMA InText ==
    ASSUME NEW s \in Nat, NEW t, Holds(text, s, t), NEW i \in 1..Len(t)
    PROVE  At(s + i) = t[i] /\ s + i <= Len(text)
<1>1. s + i <= s + Len(t)
  OBVIOUS
<1> QED BY <1>1 DEF Holds, At

-----------------------------------------------------------------------------
(* What is composed is read back *)

\* The parser is at field m of record n, and has read those before it.  A last
\* record of one empty field is not reached: it leaves nothing behind the
\* separator before it.
InField(records, n, m) ==
    /\ n \in 1..Len(records) /\ m \in 1..Len(records[n])
    /\ Len(table) = n - 1  /\ \A i \in 1..(n - 1) : table[i] = records[i]
    /\ Len(record) = m - 1 /\ \A i \in 1..(m - 1) : record[i] = records[n][i]
    /\ n = Len(records) /\ n > 1 => records[n] # << <<>> >>

PrefixOf(s, t) == Len(s) <= Len(t) /\ \A i \in 1..Len(s) : s[i] = t[i]

\* How far it is in the field, which stands behind position s.
ReadsField(raw, s) ==
    \/ pc = "field" /\ cursor = s + 1
    \/ /\ pc = "escaped" /\ Escaped(raw)
       /\ PrefixOf(field, raw)
       /\ cursor = s + (Starts(Doubles(raw))[Len(field) + 1] + 2)
    \/ /\ pc = "non-escaped" /\ ~Escaped(raw)
       /\ PrefixOf(field, raw)
       /\ cursor = s + (Len(field) + 1)
    \/ pc = "end of field" /\ field = raw /\ cursor = (s + Len(ComposeField(raw))) + 1

ReadsRecord(records, n) ==
    /\ pc = "end of record"
    /\ n \in 1..Len(records)
    /\ Len(table) = n - 1 /\ \A i \in 1..(n - 1) : table[i] = records[i]
    /\ record = records[n]
    /\ n = Len(records) /\ n > 1 => records[n] # << <<>> >>
    /\ cursor = FieldEnd(records, n, Len(records[n])) + 1

ReadBack(records) ==
    IF Len(records) > 1 /\ Last(records) = << <<>> >> THEN Front(records) ELSE records

Reads(records) ==
    \/ \E n, m \in Nat : InField(records, n, m) /\ ReadsField(records[n][m], FieldStart(records, n, m))
    \/ \E n \in Nat : ReadsRecord(records, n)
    \/ pc = "done" /\ table = ReadBack(records)

RoundInv ==
    source # None =>
        /\ source \in Seq(Record) /\ source # <<>>
        /\ text = ComposeTable(source)
        /\ Reads(source)

LEMMA ReadsInit ==
    ASSUME NEW records \in Seq(Record), records # <<>>,
           pc = "field", cursor = 1, record = <<>>, table = <<>>
    PROVE  Reads(records)
<1>1. /\ FieldStart(records, 1, 1) = 0
      /\ 1 \in 1..Len(records) /\ 1 \in 1..Len(records[1])
  BY FirstField
<1>2. Len(table) = 1 - 1 /\ Len(record) = 1 - 1
  OBVIOUS
<1>3. InField(records, 1, 1)
  BY <1>1, <1>2 DEF InField
<1>4. ReadsField(records[1][1], FieldStart(records, 1, 1))
  BY <1>1 DEF ReadsField
<1> QED BY <1>3, <1>4 DEF Reads

LEMMA RoundInit ==
    ASSUME Init PROVE RoundInv
<1>1. ASSUME source # None PROVE source \in Tables /\ text = ComposeTable(source)
  BY <1>1 DEF Init
<1>2. ASSUME source # None PROVE source \in Seq(Record) /\ source # <<>> /\ Reads(source)
  BY <1>1, <1>2, TablesAre, ReadsInit DEF Init
<1> QED BY <1>1, <1>2 DEF RoundInv

LEMMA ComposeFileRound ==
    ASSUME TypeInv, ComposeFile PROVE RoundInv'
<1>1. /\ source' = table /\ text' = ComposeTable(table) /\ pc' = "field" /\ cursor' = 1
      /\ table' = <<>> /\ record' = <<>> /\ table \in Seq(Record) /\ table # <<>>
  BY DEF ComposeFile, TypeInv
<1>2. PICK new : new = table
  OBVIOUS
<1>3. new \in Seq(Record) /\ new # <<>> /\ source' = new /\ text' = ComposeTable(new)
  BY <1>1, <1>2
<1>4. /\ FieldStart(new, 1, 1) = 0
      /\ 1 \in 1..Len(new) /\ 1 \in 1..Len(new[1])
  BY <1>3, FirstField
<1>5. Len(table') = 1 - 1 /\ Len(record') = 1 - 1
  BY <1>1
<1>6. InField(new, 1, 1)'
  BY <1>1, <1>4, <1>5 DEF InField
<1>7. ReadsField(new[1][1], FieldStart(new, 1, 1))'
  BY <1>1, <1>4 DEF ReadsField
<1>8. Reads(new)'
  BY <1>6, <1>7 DEF Reads
<1> QED BY <1>3, <1>8 DEF RoundInv

\* Where the field is, and what follows it.
FieldThere(raw, s) ==
    LET t == ComposeField(raw)
        e == s + Len(t)
    IN  /\ raw \in Seq(Char) /\ s \in Nat /\ t \in Seq(Char) /\ e \in Nat /\ e <= Len(text)
        /\ ~Escaped(raw) => t = raw
        /\ \A i \in 1..Len(t) : At(s + i) = t[i] /\ s + i <= Len(text)
        /\ EndsField(e + 1) /\ At(e + 1) \notin TEXTDATA \cup {Quote}

LEMMA FieldIsThere ==
    ASSUME NEW records \in Seq(Record), records # <<>>, text = ComposeTable(records),
           NEW n \in 1..Len(records), NEW m \in 1..Len(records[n])
    PROVE  FieldThere(records[n][m], FieldStart(records, n, m))
<1> DEFINE raw == records[n][m]
           s   == FieldStart(records, n, m)
           t   == ComposeField(raw)
           e   == s + Len(t)
<1>1. records[n] \in Record
  OBVIOUS
<1>2. raw \in Seq(Char)
  BY <1>1 DEF Record
<1>3. e = FieldEnd(records, n, m)
  BY DEF FieldEnd
<1>4. /\ s \in Nat /\ t \in Seq(Char) /\ e \in Nat /\ e <= Len(text)
      /\ Holds(text, s, t)
  BY <1>3, Layout
<1>5. EndsField(e + 1) /\ At(e + 1) \notin TEXTDATA \cup {Quote}
  BY <1>3, BehindField
<1>6. \A i \in 1..Len(t) : At(s + i) = t[i] /\ s + i <= Len(text)
  BY <1>4, InText
<1>7. ~Escaped(raw) => t = raw
  BY DEF ComposeField
<1> QED BY <1>2, <1>4, <1>5, <1>6, <1>7 DEF FieldThere

LEMMA PlainField ==
    ASSUME NEW raw \in Seq(Char), ~Escaped(raw)
    PROVE  /\ \A i \in 1..Len(raw) : raw[i] \in TEXTDATA
           /\ raw # <<>> => raw[1] # Space /\ raw[Len(raw)] # Space
<1>1. DOMAIN raw = 1..Len(raw)
  OBVIOUS
<1>2. \A i \in 1..Len(raw) : raw[i] \in TEXTDATA
  BY <1>1 DEF Escaped, EscapedForText
<1>3. raw # <<>> => Head(raw) = raw[1] /\ Last(raw) = raw[Len(raw)]
  BY DEF Last
<1> QED BY <1>2, <1>3 DEF Escaped

LEMMA PrefixWhole ==
    ASSUME NEW S, NEW s \in Seq(S), NEW t \in Seq(S), PrefixOf(s, t), Len(s) = Len(t)
    PROVE  s = t
BY SeqEqual DEF PrefixOf

LEMMA PrefixMore ==
    ASSUME NEW S, NEW s \in Seq(S), NEW t \in Seq(S), PrefixOf(s, t), Len(s) < Len(t)
    PROVE  LET k == Len(s) + 1
           IN  /\ k \in 1..Len(t)
               /\ PrefixOf(Append(s, t[k]), t) /\ Len(Append(s, t[k])) = k
<1> DEFINE k    == Len(s) + 1
           more == Append(s, t[k])
<1>1. Len(s) \in Nat /\ Len(t) \in Nat /\ k \in 1..Len(t)
  OBVIOUS
<1>2. Len(more) = k /\ more[k] = t[k] /\ \A i \in 1..Len(s) : more[i] = s[i]
  OBVIOUS
<1> HIDE DEF more
<1>3. ASSUME NEW i \in 1..k PROVE more[i] = t[i]
  <2>1. i = k \/ i \in 1..Len(s)
    BY <1>1
  <2> QED BY <1>2, <2>1 DEF PrefixOf
<1> QED BY <1>1, <1>2, <1>3 DEF PrefixOf, more

\* A step within a field.
LEMMA FieldStep ==
    ASSUME NEW records, NEW n \in Nat, NEW m \in Nat, InField(records, n, m),
           UNCHANGED <<record, table>>,
           NEW raw, raw = records[n][m], NEW s, s = FieldStart(records, n, m),
           ReadsField(raw, s)'
    PROVE  Reads(records)'
<1>1. InField(records, n, m)'
  BY DEF InField
<1> QED BY <1>1 DEF Reads

LEMMA ParseFieldRound ==
    ASSUME TypeInv, NEW raw, NEW s, FieldThere(raw, s), ReadsField(raw, s), ParseField
    PROVE  ReadsField(raw, s)'
<1> DEFINE t == ComposeField(raw)
           e == s + Len(t)
<1>1. pc = "field" /\ cursor = s + 1 /\ field = <<>> /\ field' = <<>>
  BY DEF ParseField, ReadsField, TypeInv
<1>2. /\ text \in Seq(Char) /\ cursor \in 1..(Len(text) + 1)
  BY ParserType
<1>3. /\ raw \in Seq(Char) /\ s \in Nat /\ t \in Seq(Char) /\ e \in Nat
      /\ \A i \in 1..Len(t) : At(s + i) = t[i]
      /\ At(e + 1) \notin TEXTDATA \cup {Quote}
      /\ ~Escaped(raw) => t = raw
  BY DEF FieldThere
<1>4. PrefixOf(<<>>, raw) /\ Len(<<>>) = 0
  BY <1>3 DEF PrefixOf
<1>5. Space # Quote /\ Space \in TEXTDATA /\ Quote \notin TEXTDATA
  BY CsvAssumption DEF TEXTDATA
<1>6. CASE Escaped(raw)
  <2>1. t[1] = Quote /\ Len(t) = Starts(Doubles(raw))[Len(raw) + 1] + 2
        /\ Starts(Doubles(raw))[1] = 0
        /\ Starts(Doubles(raw)) \in [1..(Len(raw) + 1) -> Nat]
    BY <1>3, <1>6, EscapedLayout
  <2>2. Len(raw) + 1 \in 1..(Len(raw) + 1)
    BY <1>3
  <2>3. 1 \in 1..Len(t)
    BY <2>1, <2>2
  <2>4. At(cursor) = Quote
    BY <1>1, <1>3, <2>1, <2>3
  <2>5. PastSpaces(cursor) = cursor
    BY <1>2, <1>5, <2>4, NoSpaces
  <2>6. pc' = "escaped" /\ cursor' = cursor + 1
    BY <2>4, <2>5 DEF ParseField
  <2>7. cursor' = s + (Starts(Doubles(raw))[Len(field') + 1] + 2)
    BY <1>1, <1>3, <1>4, <2>1, <2>6
  <2> QED BY <1>1, <1>4, <1>6, <2>6, <2>7 DEF ReadsField
<1>7. CASE ~Escaped(raw)
  <2>1. At(cursor) # Space /\ At(cursor) # Quote
    <3>1. CASE raw = <<>>
      <4>1. e = s
        BY <1>3, <1>7, <3>1
      <4> QED BY <1>1, <1>3, <1>5, <4>1
    <3>2. CASE raw # <<>>
      <4>1. 1 \in 1..Len(raw) /\ t = raw
        BY <1>3, <1>7, <3>2
      <4>2. At(cursor) = raw[1]
        BY <1>1, <1>3, <4>1
      <4>3. raw[1] \in TEXTDATA /\ raw[1] # Space
        BY <1>3, <1>7, <3>2, <4>1, PlainField
      <4> QED BY <1>5, <4>2, <4>3
    <3> QED BY <3>1, <3>2
  <2>2. PastSpaces(cursor) = cursor
    BY <1>2, <2>1, NoSpaces
  <2>3. pc' = "non-escaped" /\ cursor' = cursor
    BY <2>1, <2>2 DEF ParseField
  <2>4. cursor' = s + (Len(field') + 1)
    BY <1>1, <1>3, <1>4, <2>3
  <2> QED BY <1>1, <1>4, <1>7, <2>3, <2>4 DEF ReadsField
<1> QED BY <1>6, <1>7

\* The character of an escaped field that is next, or its closing quote.
NextEscaped(raw, s, e, k, c) ==
    /\ Escaped(raw) /\ PrefixOf(field, raw) /\ k \in 1..(Len(raw) + 1)
    /\ cursor = s + (c[k] + 2) /\ s \in Nat /\ c[k] \in Nat /\ cursor <= Len(text)
    /\ k \in 1..Len(raw) => /\ At(cursor) = raw[k]
                            /\ raw[k] = Quote => /\ At(cursor + 1) = Quote
                                                 /\ c[k + 1] = c[k] + 2
                            /\ raw[k] # Quote => c[k + 1] = c[k] + 1
    /\ k \notin 1..Len(raw) => /\ field = raw /\ cursor = e /\ At(cursor) = Quote
                               /\ At(cursor + 1) # Quote /\ At(cursor + 1) # Space
                               /\ EndsField(cursor + 1)

LEMMA EscapedNext ==
    ASSUME TypeInv, NEW raw, NEW s, FieldThere(raw, s), ReadsField(raw, s), pc = "escaped",
           NEW e, e = s + Len(ComposeField(raw)), NEW k, k = Len(field) + 1,
           NEW c, c = Starts(Doubles(raw))
    PROVE  NextEscaped(raw, s, e, k, c)
<1> DEFINE t == ComposeField(raw)
<1>1. Escaped(raw) /\ PrefixOf(field, raw) /\ cursor = s + (c[k] + 2)
  BY DEF ReadsField
<1>2. /\ raw \in Seq(Char) /\ s \in Nat /\ t \in Seq(Char) /\ e \in Nat
      /\ \A i \in 1..Len(t) : At(s + i) = t[i] /\ s + i <= Len(text)
      /\ EndsField(e + 1) /\ At(e + 1) \notin TEXTDATA \cup {Quote}
  BY DEF FieldThere
<1>3. field \in Seq(Char) /\ Len(field) \in Nat /\ Len(raw) \in Nat /\ Len(t) \in Nat
  BY <1>2, ParserType, LenProperties
<1>4. k \in 1..(Len(raw) + 1)
  BY <1>1, <1>3 DEF PrefixOf
<1>5. /\ Len(t) = c[Len(raw) + 1] + 2
      /\ c \in [1..(Len(raw) + 1) -> Nat]
      /\ t[c[Len(raw) + 1] + 2] = Quote
      /\ \A i \in 1..Len(raw) :
            /\ c[i] + 2 <= Len(t)
            /\ t[c[i] + 2] = raw[i]
            /\ raw[i] # Quote => c[i + 1] = c[i] + 1
            /\ raw[i] = Quote => c[i + 1] = c[i] + 2 /\ c[i] + 3 <= Len(t) /\ t[c[i] + 3] = Quote
  BY <1>1, <1>2, EscapedLayout
<1> HIDE DEF t
<1>6. c[k] \in Nat
  BY <1>4, <1>5
<1>7. ASSUME k \in 1..Len(raw)
      PROVE  /\ At(cursor) = raw[k] /\ cursor <= Len(text)
             /\ raw[k] = Quote => At(cursor + 1) = Quote /\ c[k + 1] = c[k] + 2
             /\ raw[k] # Quote => c[k + 1] = c[k] + 1
  <2>1. c[k] + 2 \in 1..Len(t) /\ t[c[k] + 2] = raw[k]
    BY <1>3, <1>5, <1>6, <1>7
  <2>2. At(cursor) = raw[k] /\ cursor <= Len(text)
    BY <1>1, <1>2, <2>1
  <2>3. ASSUME raw[k] = Quote PROVE At(cursor + 1) = Quote /\ c[k + 1] = c[k] + 2
    <3>1. c[k] + 3 \in 1..Len(t) /\ t[c[k] + 3] = Quote /\ c[k + 1] = c[k] + 2
      BY <1>3, <1>5, <1>6, <1>7, <2>3
    <3>2. cursor + 1 = s + (c[k] + 3)
      BY <1>1, <1>2, <1>6
    <3>3. At(s + (c[k] + 3)) = Quote
      BY <1>2, <3>1
    <3> QED BY <3>1, <3>2, <3>3
  <2>4. raw[k] # Quote => c[k + 1] = c[k] + 1
    BY <1>5, <1>7
  <2> QED BY <2>2, <2>3, <2>4
<1>8. ASSUME k \notin 1..Len(raw)
      PROVE  /\ field = raw /\ cursor = e /\ At(cursor) = Quote /\ cursor <= Len(text)
             /\ At(cursor + 1) # Quote /\ At(cursor + 1) # Space
             /\ EndsField(cursor + 1)
  <2>1. k = Len(raw) + 1
    BY <1>3, <1>4, <1>8
  <2>2. field = raw
    BY <1>1, <1>2, <1>3, <2>1, PrefixWhole
  <2>3. c[k] + 2 = Len(t) /\ t[c[k] + 2] = Quote /\ c[k] + 2 \in 1..Len(t)
    BY <1>3, <1>5, <1>6, <2>1
  <2>4. cursor = e /\ At(cursor) = Quote /\ cursor <= Len(text)
    BY <1>1, <1>2, <2>3 DEF t
  <2>5. Space \in TEXTDATA
    BY DEF TEXTDATA
  <2> QED BY <1>2, <2>2, <2>4, <2>5
<1> QED BY <1>1, <1>2, <1>4, <1>6, <1>7, <1>8 DEF NextEscaped

LEMMA ParseEscapedRound ==
    ASSUME TypeInv, NEW raw, NEW s, FieldThere(raw, s), ReadsField(raw, s), ParseEscaped
    PROVE  ReadsField(raw, s)'
<1>1. PICK e, k, c : /\ e = s + Len(ComposeField(raw)) /\ k = Len(field) + 1
                     /\ c = Starts(Doubles(raw))
  OBVIOUS
<1>2. pc = "escaped" /\ pc' = "escaped" /\ field' = Append(field, At(cursor))
  BY DEF ParseEscaped
<1>8. NextEscaped(raw, s, e, k, c)
  BY <1>1, <1>2, EscapedNext
<1>3. /\ Escaped(raw) /\ PrefixOf(field, raw) /\ k \in 1..(Len(raw) + 1)
      /\ cursor = s + (c[k] + 2) /\ s \in Nat /\ c[k] \in Nat
      /\ k \in 1..Len(raw) => /\ At(cursor) = raw[k]
                              /\ raw[k] = Quote => /\ At(cursor + 1) = Quote
                                                   /\ c[k + 1] = c[k] + 2
                              /\ raw[k] # Quote => c[k + 1] = c[k] + 1
      /\ k \notin 1..Len(raw) => At(cursor) = Quote /\ At(cursor + 1) # Quote
  BY <1>8 DEF NextEscaped
<1>4. k \in 1..Len(raw)
  BY <1>3 DEF ParseEscaped
<1>5. raw \in Seq(Char) /\ field \in Seq(Char)
  BY ParserType DEF FieldThere
<1>6. PrefixOf(field', raw) /\ Len(field') = k
  <2>1. Len(field) < Len(raw) /\ Len(raw) \in Nat
    BY <1>1, <1>4, <1>5
  <2> QED BY <1>1, <1>2, <1>3, <1>4, <1>5, <2>1, PrefixMore
<1>7. cursor' = s + (c[k + 1] + 2)
  <2>1. CASE raw[k] = Quote
    <3>1. cursor' = cursor + 2
      BY <1>3, <1>4, <2>1 DEF ParseEscaped
    <3>2. c[k + 1] = c[k] + 2
      BY <1>3, <1>4, <2>1
    <3>3. cursor = s + (c[k] + 2) /\ s \in Nat /\ c[k] \in Nat
      BY <1>3
    <3> QED BY <3>1, <3>2, <3>3
  <2>2. CASE raw[k] # Quote
    <3>1. cursor' = cursor + 1
      BY <1>3, <1>4, <2>2 DEF ParseEscaped
    <3>2. c[k + 1] = c[k] + 1
      BY <1>3, <1>4, <2>2
    <3>3. cursor = s + (c[k] + 2) /\ s \in Nat /\ c[k] \in Nat
      BY <1>3
    <3> QED BY <3>1, <3>2, <3>3
  <2> QED BY <2>1, <2>2
<1> QED BY <1>1, <1>2, <1>3, <1>6, <1>7 DEF ReadsField

LEMMA ParseEscapedEndRound ==
    ASSUME TypeInv, NEW raw, NEW s, FieldThere(raw, s), ReadsField(raw, s), ParseEscapedEnd
    PROVE  ReadsField(raw, s)'
<1>1. PICK e, k, c : /\ e = s + Len(ComposeField(raw)) /\ k = Len(field) + 1
                     /\ c = Starts(Doubles(raw))
  OBVIOUS
<1>2. pc = "escaped" /\ field' = field
  BY DEF ParseEscapedEnd
<1>9. NextEscaped(raw, s, e, k, c)
  BY <1>1, <1>2, EscapedNext
<1>3. /\ cursor <= Len(text)
      /\ k \in 1..Len(raw) => /\ At(cursor) = raw[k]
                              /\ raw[k] = Quote => At(cursor + 1) = Quote
      /\ k \notin 1..Len(raw) => /\ field = raw /\ cursor = e
                                 /\ At(cursor + 1) # Space /\ EndsField(cursor + 1)
  BY <1>9 DEF NextEscaped
<1>4. text \in Seq(Char) /\ Len(text) \in Nat /\ cursor \in Nat \ {0}
  BY ParserType
<1>5. At(cursor) = Quote /\ At(cursor + 1) # Quote
  <2>1. ~(cursor > Len(text))
    BY <1>3, <1>4
  <2> QED BY <2>1 DEF ParseEscapedEnd
<1>6. k \notin 1..Len(raw)
  BY <1>3, <1>5
<1>7. PastSpaces(cursor + 1) = cursor + 1
  <2>1. cursor + 1 \in 1..(Len(text) + 1)
    BY <1>3, <1>4
  <2> QED BY <1>3, <1>4, <1>6, <2>1, NoSpaces
<1>8. cursor' = cursor + 1 /\ pc' = "end of field"
  <2>1. ~(cursor > Len(text))
    BY <1>3, <1>4
  <2>2. /\ cursor' = cursor + 1
        /\ pc' = IF At(cursor + 1) \in {None, Comma} \/ AtCrLf(cursor + 1)
                 THEN "end of field" ELSE "failed"
    BY <1>7, <2>1 DEF ParseEscapedEnd
  <2> QED BY <1>3, <1>6, <2>2 DEF EndsField
<1> QED BY <1>1, <1>2, <1>3, <1>6, <1>8 DEF ReadsField

\* The character of a plain field that is next, or what follows the field.
LEMMA PlainNext ==
    ASSUME TypeInv, NEW raw, NEW s, FieldThere(raw, s), ReadsField(raw, s), pc = "non-escaped",
           NEW k, k = Len(field) + 1
    PROVE  /\ ~Escaped(raw) /\ PrefixOf(field, raw) /\ k \in 1..(Len(raw) + 1)
           /\ cursor = s + k /\ s \in Nat /\ raw \in Seq(Char) /\ field \in Seq(Char)
           /\ k \in 1..Len(raw) => At(cursor) = raw[k] /\ raw[k] \in TEXTDATA
           /\ k \notin 1..Len(raw) => /\ field = raw /\ ComposeField(raw) = raw
                                      /\ k = Len(raw) + 1
                                      /\ At(cursor) \notin TEXTDATA /\ EndsField(cursor)
<1> DEFINE t == ComposeField(raw)
           e == s + Len(t)
<1>1. ~Escaped(raw) /\ PrefixOf(field, raw) /\ cursor = s + k
  BY DEF ReadsField
<1>2. /\ raw \in Seq(Char) /\ s \in Nat /\ t = raw
      /\ \A i \in 1..Len(t) : At(s + i) = t[i]
      /\ EndsField(e + 1) /\ At(e + 1) \notin TEXTDATA \cup {Quote}
  BY <1>1 DEF FieldThere
<1>3. field \in Seq(Char) /\ Len(field) \in Nat /\ Len(raw) \in Nat
  BY <1>2, ParserType, LenProperties
<1>4. k \in 1..(Len(raw) + 1)
  BY <1>1, <1>3 DEF PrefixOf
<1>5. k \in 1..Len(raw) => At(cursor) = raw[k] /\ raw[k] \in TEXTDATA
  BY <1>1, <1>2, PlainField
<1>6. ASSUME k \notin 1..Len(raw)
      PROVE  /\ field = raw /\ k = Len(raw) + 1
             /\ At(cursor) \notin TEXTDATA /\ EndsField(cursor)
  <2>1. k = Len(raw) + 1
    BY <1>3, <1>4, <1>6
  <2>2. field = raw
    BY <1>1, <1>2, <1>3, <2>1, PrefixWhole
  <2>3. cursor = e + 1
    BY <1>1, <1>2, <1>3, <2>1
  <2> QED BY <1>2, <2>1, <2>2, <2>3
<1> QED BY <1>1, <1>2, <1>3, <1>4, <1>5, <1>6

LEMMA ParseNonEscapedRound ==
    ASSUME TypeInv, NEW raw, NEW s, FieldThere(raw, s), ReadsField(raw, s), ParseNonEscaped
    PROVE  ReadsField(raw, s)'
<1>1. PICK k : k = Len(field) + 1
  OBVIOUS
<1>2. /\ pc = "non-escaped" /\ pc' = "non-escaped" /\ field' = Append(field, At(cursor))
      /\ cursor' = cursor + 1 /\ At(cursor) \in TEXTDATA
  BY DEF ParseNonEscaped
<1>3. /\ ~Escaped(raw) /\ PrefixOf(field, raw) /\ k \in 1..(Len(raw) + 1)
      /\ cursor = s + k /\ s \in Nat /\ raw \in Seq(Char) /\ field \in Seq(Char)
      /\ k \in 1..Len(raw) => At(cursor) = raw[k]
      /\ k \notin 1..Len(raw) => At(cursor) \notin TEXTDATA
  BY <1>1, <1>2, PlainNext
<1>4. k \in 1..Len(raw)
  BY <1>2, <1>3
<1>5. PrefixOf(field', raw) /\ Len(field') = k
  <2>1. Len(field) < Len(raw) /\ Len(raw) \in Nat
    BY <1>1, <1>3, <1>4
  <2> QED BY <1>1, <1>2, <1>3, <1>4, <2>1, PrefixMore
<1>6. cursor' = s + (k + 1)
  BY <1>2, <1>3
<1> QED BY <1>2, <1>3, <1>5, <1>6 DEF ReadsField

LEMMA ParseNonEscapedEndRound ==
    ASSUME TypeInv, NEW raw, NEW s, FieldThere(raw, s), ReadsField(raw, s), ParseNonEscapedEnd
    PROVE  ReadsField(raw, s)'
<1>1. PICK k : k = Len(field) + 1
  OBVIOUS
<1>2. /\ pc = "non-escaped" /\ field' = Trim(field) /\ cursor' = cursor
      /\ At(cursor) \notin TEXTDATA
      /\ pc' = IF EndsField(cursor) THEN "end of field" ELSE "failed"
  BY DEF ParseNonEscapedEnd, EndsField
<1>3. /\ ~Escaped(raw) /\ raw \in Seq(Char) /\ cursor = s + k /\ s \in Nat
      /\ k \in 1..Len(raw) => At(cursor) \in TEXTDATA
      /\ k \notin 1..Len(raw) => /\ field = raw /\ ComposeField(raw) = raw
                                 /\ k = Len(raw) + 1 /\ EndsField(cursor)
  BY <1>1, <1>2, PlainNext
<1>4. /\ field = raw /\ ComposeField(raw) = raw /\ k = Len(raw) + 1
      /\ pc' = "end of field"
  BY <1>2, <1>3
<1>5. Trim(raw) = raw
  BY <1>3, PlainField, TrimIs
<1>6. cursor' = (s + Len(ComposeField(raw))) + 1
  <2>1. Len(ComposeField(raw)) = Len(raw)
    BY <1>4
  <2>2. Len(raw) \in Nat
    BY <1>3
  <2>3. s + (Len(raw) + 1) = (s + Len(raw)) + 1
    BY <1>3, <2>2
  <2>4. cursor' = s + (Len(raw) + 1)
    BY <1>2, <1>3, <1>4
  <2> QED BY <2>1, <2>3, <2>4
<1> QED BY <1>2, <1>4, <1>5, <1>6 DEF ReadsField

LEMMA ParseRecordRound ==
    ASSUME TypeInv, NEW records \in Seq(Record), records # <<>>, text = ComposeTable(records),
           NEW n \in Nat, NEW m \in Nat, InField(records, n, m),
           ReadsField(records[n][m], FieldStart(records, n, m)), ParseRecord
    PROVE  Reads(records)'
<1>1. PICK e : e = FieldEnd(records, n, m)
  OBVIOUS
<1>2. /\ pc = "end of field" /\ field = records[n][m] /\ cursor = e + 1
      /\ record' = Append(record, field) /\ table' = table
  BY <1>1 DEF ReadsField, ParseRecord, FieldEnd
<1>3. /\ n \in 1..Len(records) /\ m \in 1..Len(records[n])
      /\ Len(table) = n - 1 /\ \A i \in 1..(n - 1) : table[i] = records[i]
      /\ Len(record) = m - 1 /\ \A i \in 1..(m - 1) : record[i] = records[n][i]
      /\ n = Len(records) /\ n > 1 => records[n] # << <<>> >>
  BY DEF InField
<1>4. /\ e \in Nat
      /\ m < Len(records[n]) => At(e + 1) = Comma /\ FieldStart(records, n, m + 1) = e + 1
      /\ m = Len(records[n]) /\ n < Len(records) => AtCrLf(e + 1)
      /\ m = Len(records[n]) /\ n = Len(records) => e = Len(text)
  BY <1>1, <1>3, Layout
<1>5. records[n] \in Seq(Seq(Char)) /\ Len(records[n]) \in Nat /\ Len(records) \in Nat
  <2>1. records[n] \in Record
    BY <1>3
  <2> QED BY <2>1 DEF Record
<1>6. record \in Seq(Seq(Char)) /\ field \in Seq(Char) /\ text \in Seq(Char)
  BY ParserType
<1>7. /\ record' \in Seq(Seq(Char)) /\ Len(record') = m
      /\ \A i \in 1..m : record'[i] = records[n][i]
  <2>1. Len(Append(record, field)) = Len(record) + 1 /\ Append(record, field) \in Seq(Seq(Char))
    BY <1>6
  <2>2. Len(record') = m
    <3>1. (m - 1) + 1 = m
      OBVIOUS
    <3>2. record' = Append(record, field)
      BY <1>2
    <3>3. Len(record) = m - 1
      BY <1>3
    <3> QED BY <2>1, <3>1, <3>2, <3>3
  <2>3. ASSUME NEW i \in 1..m PROVE record'[i] = records[n][i]
    <3>1. CASE i = m
      <4>1. Append(record, field)[Len(record) + 1] = field /\ Len(record) + 1 = m
        BY <1>3, <1>6
      <4> QED BY <1>2, <3>1, <4>1
    <3>2. CASE i # m
      <4>1. i \in 1..(m - 1) /\ i \in 1..Len(record)
        BY <1>3, <3>2
      <4>2. Append(record, field)[i] = record[i]
        BY <1>6, <4>1
      <4> QED BY <1>2, <1>3, <4>1, <4>2
    <3> QED BY <3>1, <3>2
  <2> QED BY <1>2, <2>1, <2>2, <2>3
<1>8. CASE m < Len(records[n])
  <2>1. pc' = "field" /\ cursor' = (e + 1) + 1 /\ At(cursor) = Comma
    BY <1>2, <1>4, <1>8 DEF ParseRecord
  <2>2. m + 1 \in 1..Len(records[n]) /\ (m + 1) - 1 = m /\ m + 1 \in Nat
    BY <1>3, <1>5, <1>8
  <2>3. InField(records, n, m + 1)'
    BY <1>2, <1>3, <1>7, <2>2 DEF InField
  <2>4. ReadsField(records[n][m + 1], FieldStart(records, n, m + 1))'
    BY <1>4, <1>8, <2>1 DEF ReadsField
  <2> QED BY <2>2, <2>3, <2>4 DEF Reads
<1>9. CASE ~(m < Len(records[n]))
  <2>1. m = Len(records[n])
    BY <1>3, <1>5, <1>9
  <2>2. At(e + 1) = CR \/ At(e + 1) = None
    <3>1. n < Len(records) \/ n = Len(records)
      BY <1>3, <1>5
    <3>2. e = Len(text) => At(e + 1) = None
      <4>1. e + 1 \in Nat \ {0} /\ (e = Len(text) => e + 1 > Len(text))
        BY <1>4
      <4> QED BY <1>6, <4>1, AtType
    <3> QED BY <1>4, <2>1, <3>1, <3>2 DEF AtCrLf
  <2>3. At(cursor) # Comma
    BY <1>2, <2>2, CsvAssumption
  <2>4. pc' = "end of record" /\ cursor' = e + 1
    BY <1>2, <2>3 DEF ParseRecord
  <2>5. record' = records[n]
    BY <1>5, <1>7, <2>1, SeqEqual
  <2>6. ReadsRecord(records, n)'
    BY <1>1, <1>2, <1>3, <2>1, <2>4, <2>5 DEF ReadsRecord
  <2> QED BY <2>6 DEF Reads
<1> QED BY <1>8, <1>9

\* A record that has no text is one empty field.
LEMMA NoText ==
    ASSUME NEW records \in Seq(Record), records # <<>>, text = ComposeTable(records),
           NEW n \in 1..Len(records), FieldStart(records, n, 1) >= Len(text)
    PROVE  n = Len(records) /\ records[n] = << <<>> >>
<1>1. PICK s, e : s = FieldStart(records, n, 1) /\ e = FieldEnd(records, n, 1)
  OBVIOUS
<1>2. records[n] \in Seq(Seq(Char)) /\ Len(records[n]) \in Nat \ {0} /\ Len(records) \in Nat
  <2>1. records[n] \in Record
    OBVIOUS
  <2> QED BY <2>1 DEF Record
<1>3. 1 \in 1..Len(records[n])
  BY <1>2
<1> DEFINE t == ComposeField(records[n][1])
<1>4. /\ s \in Nat /\ e \in Nat /\ e <= Len(text) /\ t \in Seq(Char) /\ e = s + Len(t)
      /\ 1 < Len(records[n]) => e + 1 <= Len(text)
      /\ 1 = Len(records[n]) /\ n < Len(records) => e + 2 <= Len(text)
  BY <1>1, <1>3, Layout
<1>5. Len(text) \in Nat /\ Len(t) \in Nat
  BY <1>4, TableLayout, LenProperties
<1>6. Len(t) = 0 /\ e = Len(text)
  BY <1>1, <1>4, <1>5
<1>7. Len(records[n]) = 1 /\ n = Len(records)
  <2>1. ~(1 < Len(records[n]))
    BY <1>4, <1>5, <1>6
  <2>2. 1 = Len(records[n])
    <3>1. PICK l : l = Len(records[n])
      OBVIOUS
    <3>2. l \in Nat \ {0} /\ ~(1 < l)
      BY <1>2, <2>1, <3>1
    <3>3. l = 1
      BY <3>2
    <3> QED BY <3>1, <3>3
  <2>3. ~(n < Len(records))
    BY <1>4, <1>5, <1>6, <2>2
  <2> QED BY <1>2, <2>2, <2>3
<1>8. records[n][1] = <<>>
  <2>1. records[n][1] \in Seq(Char)
    BY <1>2, <1>3
  <2>2. CASE Escaped(records[n][1])
    <3> DEFINE raw == records[n][1]
               c   == Starts(Doubles(raw))
    <3>1. Len(t) = c[Len(raw) + 1] + 2 /\ c \in [1..(Len(raw) + 1) -> Nat]
      BY <2>1, <2>2, EscapedLayout
    <3>2. Len(raw) + 1 \in 1..(Len(raw) + 1)
      BY <2>1
    <3>3. c[Len(raw) + 1] \in Nat
      BY <3>1, <3>2
    <3> QED BY <1>6, <3>1, <3>3
  <2>3. CASE ~Escaped(records[n][1])
    <3>1. t = records[n][1]
      BY <2>3 DEF ComposeField
    <3> QED BY <1>6, <2>1, <3>1
  <2> QED BY <2>2, <2>3
<1>9. records[n] = << <<>> >>
  <2>1. << <<>> >> \in Seq(Seq(Char)) /\ Len(<< <<>> >>) = 1 /\ << <<>> >>[1] = <<>>
    OBVIOUS
  <2> QED BY <1>2, <1>7, <1>8, <2>1, SeqEqual
<1> QED BY <1>7, <1>9

LEMMA LastFieldEnds ==
    ASSUME NEW records \in Seq(Record), records # <<>>, text = ComposeTable(records),
           NEW n \in 1..Len(records), NEW m \in 1..Len(records[n])
    PROVE  m = Len(records[n]) /\ n = Len(records) => FieldEnd(records, n, m) = Len(text)
<1>1. PICK s, e : s = FieldStart(records, n, m) /\ e = FieldEnd(records, n, m)
  OBVIOUS
<1>2. m = Len(records[n]) /\ n = Len(records) => e = Len(text)
  BY <1>1, Layout
<1> QED BY <1>1, <1>2

LEMMA ParseTableRound ==
    ASSUME TypeInv, NEW records \in Seq(Record), records # <<>>, text = ComposeTable(records),
           NEW n \in Nat, ReadsRecord(records, n), ParseTable
    PROVE  Reads(records)'
<1> DEFINE last == Len(records[n])
<1>1. PICK e : e = FieldEnd(records, n, last)
  OBVIOUS
<1>2. /\ n \in 1..Len(records)
      /\ Len(table) = n - 1 /\ \A i \in 1..(n - 1) : table[i] = records[i]
      /\ record = records[n]
      /\ n = Len(records) /\ n > 1 => records[n] # << <<>> >>
      /\ cursor = e + 1
  BY <1>1 DEF ReadsRecord
<1>3. records[n] \in Record /\ last \in Nat \ {0} /\ Len(records) \in Nat
  <2>1. records[n] \in Record
    BY <1>2
  <2> QED BY <2>1 DEF Record
<1>4. last \in 1..last
  BY <1>3
<1>5. /\ e \in Nat /\ e <= Len(text)
      /\ n < Len(records) =>
            e + 2 <= Len(text) /\ AtCrLf(e + 1) /\ FieldStart(records, n + 1, 1) = e + 2
      /\ n = Len(records) => e = Len(text)
  BY <1>1, <1>2, <1>4, Layout
<1>6. table \in Seq(Record) /\ Len(text) \in Nat
  BY ParserType
<1>7. table' = Append(table, record) /\ record' = <<>> /\ Len(<<>>) = 0
  BY DEF ParseTable
<1>8. /\ table' \in Seq(Record) /\ Len(table') = n
      /\ \A i \in 1..n : table'[i] = records[i]
  <2>1. Append(table, record) \in Seq(Record) /\ Len(Append(table, record)) = Len(table) + 1
    BY <1>2, <1>3, <1>6
  <2>2. ASSUME NEW i \in 1..n PROVE table'[i] = records[i]
    <3>1. CASE i = n
      <4>1. Append(table, record)[Len(table) + 1] = record /\ Len(table) + 1 = n
        BY <1>2, <1>6
      <4> QED BY <1>2, <1>7, <3>1, <4>1
    <3>2. CASE i # n
      <4>1. i \in 1..(n - 1) /\ i \in 1..Len(table)
        BY <1>2, <3>2
      <4>2. Append(table, record)[i] = table[i]
        BY <1>6, <4>1
      <4> QED BY <1>2, <1>7, <4>1, <4>2
    <3> QED BY <3>1, <3>2
  <2> QED BY <1>2, <1>7, <2>1, <2>2
<1>9. CASE n = Len(records)
  <2>1. cursor > Len(text)
    BY <1>2, <1>5, <1>6, <1>9
  <2>2. pc' = "done"
    BY <2>1 DEF ParseTable
  <2>3. table' = records
    BY <1>8, <1>9, SeqEqual
  <2>4. ReadBack(records) = records
    BY <1>2, <1>9 DEF ReadBack, Last
  <2> QED BY <2>2, <2>3, <2>4 DEF Reads
<1>10. CASE n # Len(records)
  <2>1. n < Len(records) /\ n + 1 \in 1..Len(records) /\ n + 1 \in Nat /\ (n + 1) - 1 = n
    BY <1>2, <1>3, <1>10
  <2>2. e + 2 <= Len(text) /\ FieldStart(records, n + 1, 1) = e + 2
    BY <1>5, <2>1
  <2>3. /\ cursor' = (e + 2) + 1
        /\ pc' = IF (e + 2) + 1 > Len(text) THEN "done" ELSE "field"
    <3>1. ~(cursor > Len(text)) /\ cursor + 2 = (e + 2) + 1
      BY <1>2, <1>5, <1>6, <2>2
    <3> QED BY <3>1 DEF ParseTable
  <2>4. CASE (e + 2) + 1 > Len(text)
    <3>1. e + 2 >= Len(text)
      BY <1>5, <1>6, <2>4
    <3>2. n + 1 = Len(records) /\ records[n + 1] = << <<>> >>
      BY <2>1, <2>2, <3>1, NoText
    <3>3. ReadBack(records) = Front(records) /\ Front(records) = SubSeq(records, 1, n)
      <4>1. Len(records) > 1 /\ Last(records) = << <<>> >> /\ Len(records) - 1 = n
        BY <1>2, <2>1, <3>2 DEF Last
      <4> QED BY <4>1 DEF ReadBack, Front
    <3>4. /\ SubSeq(records, 1, n) \in Seq(Record) /\ Len(SubSeq(records, 1, n)) = n
          /\ \A i \in 1..n : SubSeq(records, 1, n)[i] = records[i]
      <4>1. 1 <= n /\ n <= Len(records)
        BY <1>2, <2>1
      <4> QED BY <4>1
    <3>5. table' = SubSeq(records, 1, n)
      BY <1>8, <3>4, SeqEqual
    <3>6. pc' = "done"
      BY <2>3, <2>4
    <3> QED BY <3>3, <3>5, <3>6 DEF Reads
  <2>5. CASE ~((e + 2) + 1 > Len(text))
    <3>1. pc' = "field"
      BY <2>3, <2>5
    <3>2. 1 \in 1..Len(records[n + 1])
      <4>1. records[n + 1] \in Record
        BY <2>1
      <4> QED BY <4>1 DEF Record
    <3>3. ASSUME n + 1 = Len(records), records[n + 1] = << <<>> >> PROVE FALSE
      <4>1. FieldEnd(records, n + 1, 1) = Len(text)
        <5>1. 1 = Len(records[n + 1])
          BY <3>3
        <5>2. n + 1 \in 1..Len(records) /\ 1 \in 1..Len(records[n + 1])
          BY <2>1, <3>2
        <5>3. 1 = Len(records[n + 1]) /\ n + 1 = Len(records) =>
                  FieldEnd(records, n + 1, 1) = Len(text)
          BY <5>2, LastFieldEnds
        <5> QED BY <3>3, <5>1, <5>3
      <4>2. ComposeField(<<>>) = <<>>
        <5>1. ~Escaped(<<>>)
          BY DEF Escaped, EscapedForText
        <5> QED BY <5>1 DEF ComposeField
      <4>3. records[n + 1][1] = <<>>
        BY <3>3
      <4>4. FieldEnd(records, n + 1, 1) = e + 2
        BY <1>5, <2>2, <4>2, <4>3 DEF FieldEnd
      <4> QED BY <1>5, <1>6, <2>5, <4>1, <4>4
    <3>4. /\ Len(record') = 1 - 1 /\ \A i \in 1..(1 - 1) : record'[i] = records[n + 1][i]
          /\ \A i \in 1..((n + 1) - 1) : table'[i] = records[i]
      BY <1>7, <1>8, <2>1
    <3>5. InField(records, n + 1, 1)'
      BY <1>8, <2>1, <3>2, <3>3, <3>4 DEF InField
    <3>6. ReadsField(records[n + 1][1], FieldStart(records, n + 1, 1))'
      BY <2>2, <2>3, <3>1 DEF ReadsField
    <3> QED BY <2>1, <3>5, <3>6 DEF Reads
  <2> QED BY <2>4, <2>5
<1> QED BY <1>9, <1>10

LEMMA ReadsStep ==
    ASSUME TypeInv, NEW records \in Seq(Record), records # <<>>, text = ComposeTable(records),
           Reads(records),
           \/ ParseField \/ ParseEscaped \/ ParseEscapedEnd \/ ParseNonEscaped
           \/ ParseNonEscapedEnd \/ ParseRecord \/ ParseTable
    PROVE  Reads(records)'
<1>1. CASE ParseTable
  <2>1. pc = "end of record"
    BY <1>1 DEF ParseTable
  <2>2. PICK n \in Nat : ReadsRecord(records, n)
    BY <2>1 DEF Reads, ReadsField
  <2> QED BY <1>1, <2>2, ParseTableRound
<1>2. CASE ~ParseTable
  <2>1. pc \notin {"end of record", "done"}
    BY <1>2 DEF ParseField, ParseEscaped, ParseEscapedEnd, ParseNonEscaped, ParseNonEscapedEnd,
                ParseRecord
  <2>2. PICK n \in Nat, m \in Nat :
          InField(records, n, m) /\ ReadsField(records[n][m], FieldStart(records, n, m))
    BY <2>1 DEF Reads, ReadsRecord
  <2>3. CASE ParseRecord
    BY <2>2, <2>3, ParseRecordRound
  <2>4. CASE ~ParseRecord
    <3>1. PICK raw, s : raw = records[n][m] /\ s = FieldStart(records, n, m)
      OBVIOUS
    <3>2. FieldThere(raw, s)
      BY <2>2, <3>1, FieldIsThere DEF InField
    <3>3. ReadsField(raw, s)'
      BY <1>2, <2>2, <2>4, <3>1, <3>2, ParseFieldRound, ParseEscapedRound, ParseEscapedEndRound,
         ParseNonEscapedRound, ParseNonEscapedEndRound
    <3>4. UNCHANGED <<record, table>>
      BY <1>2, <2>4 DEF ParseField, ParseEscaped, ParseEscapedEnd, ParseNonEscaped,
                        ParseNonEscapedEnd
    <3> QED BY <2>2, <3>1, <3>3, <3>4, FieldStep
  <2> QED BY <2>3, <2>4
<1> QED BY <1>1, <1>2

LEMMA RoundStep ==
    ASSUME TypeInv, RoundInv, [Next]_vars PROVE RoundInv'
<1>1. CASE ComposeFile
  BY <1>1, ComposeFileRound
<1>2. CASE UNCHANGED vars
  BY <1>2 DEF vars, RoundInv, Reads, InField, ReadsField, ReadsRecord
<1>3. CASE \/ ParseField \/ ParseEscaped \/ ParseEscapedEnd \/ ParseNonEscaped
           \/ ParseNonEscapedEnd \/ ParseRecord \/ ParseTable
  <2>1. source' = source /\ text' = text
    BY <1>3 DEF ParseField, ParseEscaped, ParseEscapedEnd, ParseNonEscaped, ParseNonEscapedEnd,
                ParseRecord, ParseTable
  <2>2. PICK records : records = source
    OBVIOUS
  <2>3. ASSUME source # None PROVE Reads(records)'
    BY <1>3, <2>2, <2>3, ReadsStep DEF RoundInv
  <2> QED BY <2>1, <2>2, <2>3 DEF RoundInv
<1> QED BY <1>1, <1>2, <1>3 DEF Next

\* The text of any table, of any number of records, fields and characters, parses,
\* and to that table, but for a last record of one empty field behind others.
THEOREM RoundTrips == Spec => []RoundTrip
<1>1. Init => TypeInv /\ RoundInv
  BY TypeInit, RoundInit
<1>2. TypeInv /\ RoundInv /\ [Next]_vars => (TypeInv /\ RoundInv)'
  BY TypeStep, RoundStep
<1>3. TypeInv /\ RoundInv => RoundTrip
  BY DEF RoundInv, RoundTrip, Reads, ReadsField, ReadsRecord, ReadBack
<1> QED BY <1>1, <1>2, <1>3, PTL DEF Spec


-----------------------------------------------------------------------------
(* The fields are those that the separators make *)

\* What stands at positions 1..c of a text: quotes, and outside of them commas and
\* breaks, but for one that ends the text.
QuotesTo(t, c)  == {h \in 1..c : t[h] = Quote}
OutOfQuotes(t, c) == Cardinality(QuotesTo(t, c)) % 2 = 0
CrLfIn(t, i)    == i + 1 <= Len(t) /\ t[i] = CR /\ t[i + 1] = LF
CommasTo(t, c)  == {i \in 1..c : OutOfQuotes(t, i) /\ t[i] = Comma}
BreaksTo(t, c)  == {i \in 1..c : OutOfQuotes(t, i) /\ CrLfIn(t, i) /\ i # Len(t) - 1}
SeparatorsTo(t, c) == CommasTo(t, c) \cup BreaksTo(t, c)

SameCounts(t, c, d) ==
    /\ CommasTo(t, d) = CommasTo(t, c)
    /\ BreaksTo(t, d) = BreaksTo(t, c)

LEMMA CountsFinite ==
    ASSUME NEW t, NEW c \in Nat
    PROVE  /\ IsFiniteSet(QuotesTo(t, c)) /\ Cardinality(QuotesTo(t, c)) \in Nat
           /\ IsFiniteSet(BreaksTo(t, c)) /\ Cardinality(BreaksTo(t, c)) \in Nat
           /\ IsFiniteSet(SeparatorsTo(t, c)) /\ Cardinality(SeparatorsTo(t, c)) \in Nat
<1>1. IsFiniteSet(1..c)
  BY FS_Interval
<1>2. /\ QuotesTo(t, c) \in SUBSET (1..c) /\ BreaksTo(t, c) \in SUBSET (1..c)
      /\ SeparatorsTo(t, c) \in SUBSET (1..c)
  BY DEF QuotesTo, BreaksTo, SeparatorsTo, CommasTo
<1>3. /\ IsFiniteSet(QuotesTo(t, c)) /\ IsFiniteSet(BreaksTo(t, c))
      /\ IsFiniteSet(SeparatorsTo(t, c))
  BY <1>1, <1>2, FS_Subset
<1> QED BY <1>3, FS_CardinalityType

LEMMA PlainStretch ==
    ASSUME NEW t, NEW c \in Nat, NEW d \in Nat, c <= d,
           \A h \in (c + 1)..d : t[h] \notin {Quote, Comma, CR}
    PROVE  /\ SameCounts(t, c, d)
           /\ OutOfQuotes(t, d) <=> OutOfQuotes(t, c)
<1>1. \A h \in 1..d : h \in 1..c \/ h \in (c + 1)..d
  OBVIOUS
<1>2. 1..c \subseteq 1..d
  OBVIOUS
<1>3. QuotesTo(t, d) = QuotesTo(t, c)
  BY <1>1, <1>2 DEF QuotesTo
<1>4. CommasTo(t, d) = CommasTo(t, c)
  BY <1>1, <1>2 DEF CommasTo
<1>5. BreaksTo(t, d) = BreaksTo(t, c)
  BY <1>1, <1>2 DEF BreaksTo, CrLfIn
<1> QED BY <1>3, <1>4, <1>5 DEF SameCounts, OutOfQuotes

LEMMA OneMore ==
    ASSUME NEW c \in Nat
    PROVE  1..(c + 1) = (1..c) \cup {c + 1} /\ c + 1 \notin 1..c
  OBVIOUS

LEMMA QuoteStep ==
    ASSUME NEW t, NEW c \in Nat, t[c + 1] = Quote
    PROVE  /\ SameCounts(t, c, c + 1)
           /\ OutOfQuotes(t, c + 1) <=> ~OutOfQuotes(t, c)
<1>1. QuotesTo(t, c + 1) = QuotesTo(t, c) \cup {c + 1} /\ c + 1 \notin QuotesTo(t, c)
  BY OneMore DEF QuotesTo
<1>2. Quote # Comma /\ Quote # CR
  BY CsvAssumption
<1>3. CommasTo(t, c + 1) = CommasTo(t, c)
  BY <1>2, OneMore DEF CommasTo
<1>4. BreaksTo(t, c + 1) = BreaksTo(t, c)
  BY <1>2, OneMore DEF BreaksTo, CrLfIn
<1>5. PICK q : q = Cardinality(QuotesTo(t, c))
  OBVIOUS
<1>6. q \in Nat /\ Cardinality(QuotesTo(t, c + 1)) = q + 1
  BY <1>1, <1>5, CountsFinite, FS_AddElement
<1>7. (q + 1) % 2 = 0 <=> ~(q % 2 = 0)
  BY <1>6
<1> QED BY <1>3, <1>4, <1>5, <1>6, <1>7 DEF SameCounts, OutOfQuotes

LEMMA OtherQuotes ==
    ASSUME NEW t, NEW c \in Nat, t[c + 1] # Quote
    PROVE  OutOfQuotes(t, c + 1) <=> OutOfQuotes(t, c)
<1>1. QuotesTo(t, c + 1) = QuotesTo(t, c)
  BY OneMore DEF QuotesTo
<1> QED BY <1>1 DEF OutOfQuotes

LEMMA InQuotesStep ==
    ASSUME NEW t, NEW c \in Nat, t[c + 1] # Quote, ~OutOfQuotes(t, c)
    PROVE  /\ SameCounts(t, c, c + 1)
           /\ ~OutOfQuotes(t, c + 1)
<1>1. ~OutOfQuotes(t, c + 1)
  BY OtherQuotes
<1>2. CommasTo(t, c + 1) = CommasTo(t, c)
  BY <1>1, OneMore DEF CommasTo
<1>3. BreaksTo(t, c + 1) = BreaksTo(t, c)
  BY <1>1, OneMore DEF BreaksTo
<1> QED BY <1>1, <1>2, <1>3 DEF SameCounts

LEMMA CommaStep ==
    ASSUME NEW t, NEW c \in Nat, t[c + 1] = Comma, OutOfQuotes(t, c)
    PROVE  /\ OutOfQuotes(t, c + 1)
           /\ BreaksTo(t, c + 1) = BreaksTo(t, c)
           /\ Cardinality(SeparatorsTo(t, c + 1)) = Cardinality(SeparatorsTo(t, c)) + 1
<1>1. Comma # Quote /\ Comma # CR
  BY CsvAssumption
<1>2. OutOfQuotes(t, c + 1)
  BY <1>1, OtherQuotes
<1>3. BreaksTo(t, c + 1) = BreaksTo(t, c)
  BY <1>1, OneMore DEF BreaksTo, CrLfIn
<1>4. CommasTo(t, c + 1) = CommasTo(t, c) \cup {c + 1}
  BY <1>2, OneMore DEF CommasTo
<1>5. SeparatorsTo(t, c + 1) = SeparatorsTo(t, c) \cup {c + 1}
  BY <1>3, <1>4 DEF SeparatorsTo
<1>6. c + 1 \notin SeparatorsTo(t, c)
  BY OneMore DEF SeparatorsTo, CommasTo, BreaksTo
<1>7. Cardinality(SeparatorsTo(t, c + 1)) = Cardinality(SeparatorsTo(t, c)) + 1
  BY <1>5, <1>6, CountsFinite, FS_AddElement
<1> QED BY <1>2, <1>3, <1>7

LEMMA BreakStep ==
    ASSUME NEW t, Len(t) \in Nat, NEW c \in Nat, CrLfIn(t, c + 1), OutOfQuotes(t, c)
    PROVE  /\ OutOfQuotes(t, c + 2)
           /\ c + 2 = Len(t) => SameCounts(t, c, c + 2)
           /\ c + 2 # Len(t) =>
                /\ Cardinality(BreaksTo(t, c + 2)) = Cardinality(BreaksTo(t, c)) + 1
                /\ Cardinality(SeparatorsTo(t, c + 2)) = Cardinality(SeparatorsTo(t, c)) + 1
<1>1. /\ CR \notin {Quote, Comma} /\ LF \notin {Quote, Comma, CR}
  BY CsvAssumption
<1>2. t[c + 1] = CR /\ t[c + 2] = LF /\ c + 2 <= Len(t) /\ (c + 1) + 1 = c + 2
  <2>1. (c + 1) + 1 = c + 2
    OBVIOUS
  <2> QED BY <2>1 DEF CrLfIn
<1>3. OutOfQuotes(t, c + 1)
  BY <1>1, <1>2, OtherQuotes
<1>4. SameCounts(t, c + 1, c + 2) /\ OutOfQuotes(t, c + 2)
  <2>1. PICK d \in Nat : d = c + 1
    OBVIOUS
  <2>2. PICK e \in Nat : e = c + 2
    OBVIOUS
  <2>3. d <= e /\ \A h \in (d + 1)..e : h = c + 2
    BY <2>1, <2>2
  <2>4. \A h \in (d + 1)..e : t[h] \notin {Quote, Comma, CR}
    BY <1>1, <1>2, <2>3
  <2>5. SameCounts(t, d, e) /\ (OutOfQuotes(t, e) <=> OutOfQuotes(t, d))
    BY <2>3, <2>4, PlainStretch
  <2> QED BY <1>3, <2>1, <2>2, <2>5
<1>5. CommasTo(t, c + 1) = CommasTo(t, c)
  BY <1>1, <1>2, OneMore DEF CommasTo
<1>6. CASE c + 2 = Len(t)
  <2>1. c + 1 = Len(t) - 1
    BY <1>6
  <2>2. BreaksTo(t, c + 1) = BreaksTo(t, c)
    BY <2>1, OneMore DEF BreaksTo
  <2> QED BY <1>4, <1>5, <1>6, <2>2 DEF SameCounts
<1>7. CASE c + 2 # Len(t)
  <2>1. c + 1 # Len(t) - 1
    BY <1>7
  <2>2. BreaksTo(t, c + 1) = BreaksTo(t, c) \cup {c + 1}
    BY <1>3, <2>1, OneMore DEF BreaksTo
  <2>3. SeparatorsTo(t, c + 1) = SeparatorsTo(t, c) \cup {c + 1}
    BY <1>5, <2>2 DEF SeparatorsTo
  <2>4. c + 1 \notin SeparatorsTo(t, c) /\ c + 1 \notin BreaksTo(t, c)
    BY OneMore DEF SeparatorsTo, CommasTo, BreaksTo
  <2>5. /\ Cardinality(BreaksTo(t, c + 1)) = Cardinality(BreaksTo(t, c)) + 1
        /\ Cardinality(SeparatorsTo(t, c + 1)) = Cardinality(SeparatorsTo(t, c)) + 1
    BY <2>2, <2>3, <2>4, CountsFinite, FS_AddElement
  <2>6. BreaksTo(t, c + 2) = BreaksTo(t, c + 1) /\ SeparatorsTo(t, c + 2) = SeparatorsTo(t, c + 1)
    BY <1>4 DEF SameCounts, SeparatorsTo
  <2> QED BY <1>4, <1>7, <2>5, <2>6
<1> QED BY <1>4, <1>6, <1>7

\* Outside of quotes the parser has consumed an even number of them, and inside an
\* odd number; and it has made a field for each separator before the cursor.
FieldsBefore == Len(FlattenSeq(table)) + Len(record)

SeparatorsInv ==
    /\ pc \in {"field", "escaped", "non-escaped", "end of field"} =>
        /\ Cardinality(BreaksTo(text, cursor - 1)) = Len(table)
        /\ Cardinality(SeparatorsTo(text, cursor - 1)) = FieldsBefore
    /\ pc = "end of record" =>
        /\ Cardinality(BreaksTo(text, cursor - 1)) = Len(table)
        /\ Cardinality(SeparatorsTo(text, cursor - 1)) + 1 = FieldsBefore
    /\ pc \in {"field", "non-escaped", "end of field", "end of record"} =>
        OutOfQuotes(text, cursor - 1)
    /\ pc = "escaped" => ~OutOfQuotes(text, cursor - 1)
    /\ pc = "done" =>
        /\ Cardinality(BreaksTo(text, Len(text))) + 1 = Len(table)
        /\ Cardinality(SeparatorsTo(text, Len(text))) + 1 = Len(FlattenSeq(table))

LEMMA NothingRead ==
    ASSUME NEW t
    PROVE  /\ OutOfQuotes(t, 1 - 1)
           /\ Cardinality(BreaksTo(t, 1 - 1)) = Len(<<>>)
           /\ Cardinality(SeparatorsTo(t, 1 - 1)) = Len(FlattenSeq(<<>>)) + Len(<<>>)
<1>1. 1 - 1 = 0 /\ 1..0 = {}
  OBVIOUS
<1>2. QuotesTo(t, 0) = {} /\ BreaksTo(t, 0) = {} /\ SeparatorsTo(t, 0) = {}
  BY <1>1 DEF QuotesTo, BreaksTo, SeparatorsTo, CommasTo
<1>3. Cardinality({}) = 0
  BY FS_EmptySet
<1>4. FlattenSeq(<<>>) = <<>>
  <2>1. <<>> \in Seq(Seq(Nat)) /\ Len(<<>>) = 0
    OBVIOUS
  <2>2. PICK parts \in Seq(Seq(Nat)) : parts = <<>>
    BY <2>1
  <2>3. PICK f \in [0..Len(parts) -> Seq(Nat)] :
          IsFlattening(f, parts) /\ FlattenSeq(parts) = f[Len(parts)]
    BY FlattenIs
  <2>4. f[0] = <<>>
    BY <2>3, FlatteningAt
  <2> QED BY <2>1, <2>2, <2>3, <2>4
<1>5. 0 % 2 = 0
  OBVIOUS
<1>6. OutOfQuotes(t, 0)
  BY <1>2, <1>3, <1>5 DEF OutOfQuotes
<1>7. Len(<<>>) = 0 /\ 0 + 0 = 0
  OBVIOUS
<1> QED BY <1>1, <1>2, <1>3, <1>4, <1>6, <1>7

LEMMA SeparatorsInit ==
    ASSUME Init PROVE SeparatorsInv
<1>1. pc = "field" /\ cursor = 1 /\ record = <<>> /\ table = <<>>
  BY DEF Init
<1> QED BY <1>1, NothingRead DEF SeparatorsInv, FieldsBefore

\* A step within a field passes no separator that is outside of quotes.
LEMMA WithinField ==
    ASSUME SeparatorsInv, UNCHANGED <<text, record, table>>,
           pc \in {"field", "escaped", "non-escaped"},
           pc' \in {"escaped", "non-escaped", "end of field", "failed"},
           NEW c, c = cursor - 1, NEW d, d = cursor' - 1,
           SameCounts(text, c, d),
           pc' \in {"non-escaped", "end of field"} => OutOfQuotes(text, d),
           pc' = "escaped" => ~OutOfQuotes(text, d)
    PROVE  SeparatorsInv'
<1>1. /\ Cardinality(BreaksTo(text, c)) = Len(table)
      /\ Cardinality(SeparatorsTo(text, c)) = FieldsBefore
  BY DEF SeparatorsInv
<1>2. BreaksTo(text, d) = BreaksTo(text, c) /\ SeparatorsTo(text, d) = SeparatorsTo(text, c)
  BY DEF SameCounts, SeparatorsTo
<1>3. FieldsBefore' = FieldsBefore
  BY DEF FieldsBefore
<1> QED BY <1>1, <1>2, <1>3 DEF SeparatorsInv

\* The positions that PastSpaces skips.
LEMMA SpacesSkipped ==
    ASSUME TypeInv, NEW c \in Nat, c + 1 <= Len(text) + 1,
           NEW i, i = PastSpaces(c + 1)
    PROVE  /\ i \in Nat \ {0} /\ i - 1 \in Nat /\ (i - 1) + 1 = i
           /\ SameCounts(text, c, i - 1)
           /\ OutOfQuotes(text, i - 1) <=> OutOfQuotes(text, c)
<1>1. text \in Seq(Char) /\ Len(text) \in Nat
  BY ParserType
<1>2. c + 1 \in 1..(Len(text) + 1)
  BY <1>1
<1>3. i \in (c + 1)..(Len(text) + 1) /\ \A h \in (c + 1)..(i - 1) : At(h) = Space
  BY <1>1, <1>2, PastSpacesIs
<1>4. i \in Nat \ {0} /\ i - 1 \in Nat /\ (i - 1) + 1 = i /\ c <= i - 1 /\ i - 1 <= Len(text)
  BY <1>1, <1>3
<1>5. \A h \in (c + 1)..(i - 1) : text[h] \notin {Quote, Comma, CR}
  <2>1. ASSUME NEW h \in (c + 1)..(i - 1) PROVE text[h] \notin {Quote, Comma, CR}
    <3>1. h \in Nat \ {0} /\ h <= Len(text)
      BY <1>1, <1>4
    <3>2. text[h] = Space
      BY <1>1, <1>3, <3>1, AtType
    <3> QED BY <3>2, CsvAssumption
  <2> QED BY <2>1
<1>6. PICK d \in Nat : d = i - 1
  BY <1>4
<1>7. SameCounts(text, c, d) /\ (OutOfQuotes(text, d) <=> OutOfQuotes(text, c))
  BY <1>4, <1>5, <1>6, PlainStretch
<1> QED BY <1>4, <1>6, <1>7

\* Where the parser is, as the number of characters it has consumed.
LEMMA Consumed ==
    ASSUME TypeInv
    PROVE  \E c \in Nat : c = cursor - 1 /\ cursor = c + 1 /\ c <= Len(text) /\ cursor \in Nat
<1>1. cursor \in 1..(Len(text) + 1) /\ Len(text) \in Nat
  BY ParserType
<1>2. cursor - 1 \in Nat /\ cursor = (cursor - 1) + 1 /\ cursor - 1 <= Len(text) /\ cursor \in Nat
  BY <1>1
<1> QED BY <1>2

LEMMA ParseFieldSeparators ==
    ASSUME TypeInv, SeparatorsInv, ParseField PROVE SeparatorsInv'
<1>1. PICK c \in Nat : c = cursor - 1 /\ cursor = c + 1 /\ c <= Len(text) /\ cursor \in Nat
  BY Consumed
<1>2. PICK i : i = PastSpaces(c + 1)
  OBVIOUS
<1>3. /\ pc = "field" /\ UNCHANGED <<text, record, table>>
      /\ At(i) = Quote => pc' = "escaped" /\ cursor' = i + 1
      /\ At(i) # Quote => pc' = "non-escaped" /\ cursor' = i
  BY <1>1, <1>2 DEF ParseField
<1>4. OutOfQuotes(text, c)
  BY <1>1, <1>3 DEF SeparatorsInv
<1>5. Len(text) \in Nat /\ text \in Seq(Char)
  BY ParserType
<1>6. /\ i \in Nat \ {0} /\ i - 1 \in Nat /\ (i - 1) + 1 = i
      /\ SameCounts(text, c, i - 1) /\ OutOfQuotes(text, i - 1)
  <2>1. c + 1 <= Len(text) + 1
    BY <1>1, <1>5
  <2> QED BY <1>2, <1>4, <2>1, SpacesSkipped
<1>7. CASE At(i) = Quote
  <2>1. text[i] = Quote
    <3>1. At(i) # None
      BY <1>7, CsvAssumption
    <3> QED BY <1>5, <1>6, <1>7, <3>1, AtType
  <2>2. PICK b \in Nat : b = i - 1
    BY <1>6
  <2>3. b + 1 = i
    BY <1>6, <2>2
  <2>4. SameCounts(text, b, i) /\ ~OutOfQuotes(text, i)
    BY <1>6, <2>1, <2>2, <2>3, QuoteStep
  <2>5. SameCounts(text, c, i)
    BY <1>6, <2>2, <2>4 DEF SameCounts
  <2>6. i = cursor' - 1 /\ pc' = "escaped"
    BY <1>3, <1>6, <1>7
  <2> QED BY <1>1, <1>3, <2>4, <2>5, <2>6, WithinField
<1>8. CASE At(i) # Quote
  <2>1. i - 1 = cursor' - 1 /\ pc' = "non-escaped"
    BY <1>3, <1>8
  <2> QED BY <1>1, <1>3, <1>6, <2>1, WithinField
<1> QED BY <1>7, <1>8

LEMMA ParseEscapedSeparators ==
    ASSUME TypeInv, SeparatorsInv, ParseEscaped PROVE SeparatorsInv'
<1>1. PICK c \in Nat : c = cursor - 1 /\ cursor = c + 1 /\ c <= Len(text) /\ cursor \in Nat
  BY Consumed
<1>2. /\ pc = "escaped" /\ pc' = "escaped" /\ UNCHANGED <<text, record, table>>
      /\ cursor <= Len(text)
      /\ \/ At(cursor) = Quote /\ At(cursor + 1) = Quote /\ cursor' = cursor + 2
         \/ At(cursor) # Quote /\ cursor' = cursor + 1
  BY DEF ParseEscaped
<1>3. ~OutOfQuotes(text, c)
  BY <1>1, <1>2 DEF SeparatorsInv
<1>4. text[c + 1] = At(cursor)
  BY <1>1, <1>2 DEF At
<1>5. CASE At(cursor) = Quote /\ At(cursor + 1) = Quote /\ cursor' = cursor + 2
  <2>1. PICK d \in Nat : d = c + 1
    OBVIOUS
  <2>2. text[d + 1] = Quote
    <3>1. At(cursor + 1) # None
      BY <1>5, CsvAssumption
    <3> QED BY <1>1, <1>5, <2>1, <3>1 DEF At
  <2>3. SameCounts(text, c, d) /\ OutOfQuotes(text, d)
    BY <1>3, <1>4, <1>5, <2>1, QuoteStep
  <2>4. SameCounts(text, d, d + 1) /\ ~OutOfQuotes(text, d + 1)
    BY <2>2, <2>3, QuoteStep
  <2>5. SameCounts(text, c, d + 1)
    BY <2>3, <2>4 DEF SameCounts
  <2>6. d + 1 = cursor' - 1
    BY <1>1, <1>5, <2>1
  <2> QED BY <1>1, <1>2, <2>4, <2>5, <2>6, WithinField
<1>6. CASE At(cursor) # Quote /\ cursor' = cursor + 1
  <2>1. SameCounts(text, c, c + 1) /\ ~OutOfQuotes(text, c + 1)
    BY <1>3, <1>4, <1>6, InQuotesStep
  <2>2. c + 1 = cursor' - 1
    BY <1>1, <1>6
  <2> QED BY <1>1, <1>2, <2>1, <2>2, WithinField
<1> QED BY <1>2, <1>5, <1>6

LEMMA ParseEscapedEndSeparators ==
    ASSUME TypeInv, SeparatorsInv, ParseEscapedEnd PROVE SeparatorsInv'
<1>1. PICK c \in Nat : c = cursor - 1 /\ cursor = c + 1 /\ c <= Len(text) /\ cursor \in Nat
  BY Consumed
<1>2. pc = "escaped" /\ UNCHANGED <<text, record, table>>
  BY DEF ParseEscapedEnd
<1>3. ~OutOfQuotes(text, c)
  BY <1>1, <1>2 DEF SeparatorsInv
<1>4. Len(text) \in Nat /\ text \in Seq(Char)
  BY ParserType
<1>5. CASE cursor > Len(text)
  <2>1. At(cursor) # Quote
    BY <1>5, CsvAssumption, <1>4, <1>1 DEF At
  <2>2. pc' = "failed"
    BY <2>1 DEF ParseEscapedEnd
  <2> QED BY <2>2 DEF SeparatorsInv
<1>6. CASE ~(cursor > Len(text))
  <2>1. PICK i : i = PastSpaces((c + 1) + 1)
    OBVIOUS
  <2>2. /\ At(cursor) = Quote /\ cursor' = i
        /\ pc' \in {"end of field", "failed"}
    BY <1>1, <1>6, <2>1 DEF ParseEscapedEnd
  <2>3. text[c + 1] = Quote
    <3>1. cursor <= Len(text)
      BY <1>1, <1>4, <1>6
    <3>2. c + 1 <= Len(text) /\ At(c + 1) = Quote
      BY <1>1, <2>2, <3>1
    <3> QED BY <3>2 DEF At
  <2>4. SameCounts(text, c, c + 1) /\ OutOfQuotes(text, c + 1)
    BY <1>3, <2>3, QuoteStep
  <2>5. c + 1 \in Nat /\ (c + 1) + 1 <= Len(text) + 1
    BY <1>1, <1>4, <1>6
  <2>6. SameCounts(text, c + 1, i - 1) /\ OutOfQuotes(text, i - 1)
    BY <2>1, <2>4, <2>5, SpacesSkipped
  <2>7. SameCounts(text, c, i - 1)
    BY <2>4, <2>6 DEF SameCounts
  <2>8. i - 1 = cursor' - 1
    BY <2>2
  <2> QED BY <1>1, <1>2, <2>2, <2>6, <2>7, <2>8, WithinField
<1> QED BY <1>5, <1>6

LEMMA ParseNonEscapedSeparators ==
    ASSUME TypeInv, SeparatorsInv, ParseNonEscaped PROVE SeparatorsInv'
<1>1. PICK c \in Nat : c = cursor - 1 /\ cursor = c + 1 /\ c <= Len(text) /\ cursor \in Nat
  BY Consumed
<1>2. /\ pc = "non-escaped" /\ pc' = pc /\ UNCHANGED <<text, record, table>>
      /\ At(cursor) \in TEXTDATA /\ cursor' = cursor + 1
  BY DEF ParseNonEscaped
<1>3. OutOfQuotes(text, c)
  BY <1>1, <1>2 DEF SeparatorsInv
<1>4. text[c + 1] \notin {Quote, Comma, CR}
  BY <1>1, <1>2, CsvAssumption DEF At, TEXTDATA
<1>5. \A h \in (c + 1)..(c + 1) : text[h] \notin {Quote, Comma, CR}
  BY <1>4
<1>6. SameCounts(text, c, c + 1) /\ OutOfQuotes(text, c + 1)
  <2>1. PICK d \in Nat : d = c + 1
    OBVIOUS
  <2>2. c <= d /\ \A h \in (c + 1)..d : text[h] \notin {Quote, Comma, CR}
    BY <1>5, <2>1
  <2>3. SameCounts(text, c, d) /\ OutOfQuotes(text, d)
    BY <1>3, <2>2, PlainStretch
  <2> QED BY <2>1, <2>3
<1>7. c + 1 = cursor' - 1
  BY <1>1, <1>2
<1> QED BY <1>1, <1>2, <1>6, <1>7, WithinField

LEMMA ParseNonEscapedEndSeparators ==
    ASSUME TypeInv, SeparatorsInv, ParseNonEscapedEnd PROVE SeparatorsInv'
<1>1. PICK c \in Nat : c = cursor - 1 /\ cursor = c + 1 /\ c <= Len(text) /\ cursor \in Nat
  BY Consumed
<1>2. /\ pc = "non-escaped" /\ pc' \in {"end of field", "failed"}
      /\ UNCHANGED <<text, record, table>> /\ cursor' = cursor
  BY DEF ParseNonEscapedEnd
<1>3. OutOfQuotes(text, c)
  BY <1>1, <1>2 DEF SeparatorsInv
<1>4. SameCounts(text, c, c) /\ c = cursor' - 1
  BY <1>1, <1>2 DEF SameCounts
<1> QED BY <1>1, <1>2, <1>3, <1>4, WithinField

\* The characters of a separator.
LEMMA SeparatorIn ==
    ASSUME TypeInv, NEW c \in Nat, c <= Len(text)
    PROVE  /\ At(c + 1) = Comma => text[c + 1] = Comma
           /\ AtCrLf(c + 1) => CrLfIn(text, c + 1) /\ c + 2 <= Len(text)
<1>1. text \in Seq(Char) /\ Len(text) \in Nat
  BY ParserType
<1>2. ASSUME At(c + 1) = Comma PROVE text[c + 1] = Comma
  BY <1>2, CsvAssumption DEF At
<1>3. ASSUME AtCrLf(c + 1) PROVE CrLfIn(text, c + 1) /\ c + 2 <= Len(text)
  <2>1. At(c + 1) = CR /\ At((c + 1) + 1) = LF
    BY <1>3 DEF AtCrLf
  <2>2. c + 1 <= Len(text) /\ (c + 1) + 1 <= Len(text)
    BY <2>1, CsvAssumption DEF At
  <2>3. c + 2 <= Len(text)
    BY <1>1, <2>2
  <2> QED BY <2>1, <2>2, <2>3 DEF At, CrLfIn
<1> QED BY <1>2, <1>3

LEMMA FieldsTyped ==
    ASSUME TypeInv
    PROVE  /\ table \in Seq(Seq(Seq(Char))) /\ record \in Seq(Seq(Char))
           /\ FlattenSeq(table) \in Seq(Seq(Char))
           /\ Len(table) \in Nat /\ Len(record) \in Nat /\ Len(FlattenSeq(table)) \in Nat
<1>1. table \in Seq(Seq(Seq(Char))) /\ record \in Seq(Seq(Char))
  BY DEF TypeInv, TypeOK
<1>2. FlattenSeq(table) \in Seq(Seq(Char))
  BY <1>1, StartsOf
<1> QED BY <1>1, <1>2

LEMMA ParseRecordSeparators ==
    ASSUME TypeInv, SeparatorsInv, ParseRecord PROVE SeparatorsInv'
<1>1. PICK c \in Nat : c = cursor - 1 /\ cursor = c + 1 /\ c <= Len(text) /\ cursor \in Nat
  BY Consumed
<1>2. /\ pc = "end of field" /\ UNCHANGED <<text, table>> /\ record' = Append(record, field)
      /\ At(cursor) = Comma => pc' = "field" /\ cursor' = cursor + 1
      /\ At(cursor) # Comma => pc' = "end of record" /\ cursor' = cursor
  BY DEF ParseRecord
<1>3. /\ OutOfQuotes(text, c)
      /\ Cardinality(BreaksTo(text, c)) = Len(table)
      /\ Cardinality(SeparatorsTo(text, c)) = FieldsBefore
  BY <1>1, <1>2 DEF SeparatorsInv
<1>4. FieldsBefore' = FieldsBefore + 1
  <2>1. Len(Append(record, field)) = Len(record) + 1
    BY FieldsTyped
  <2>2. Len(record') = Len(record) + 1 /\ FlattenSeq(table') = FlattenSeq(table)
    BY <1>2, <2>1
  <2>3. Len(FlattenSeq(table)) + (Len(record) + 1) = (Len(FlattenSeq(table)) + Len(record)) + 1
    BY FieldsTyped
  <2> QED BY <2>2, <2>3 DEF FieldsBefore
<1>5. CASE At(cursor) = Comma
  <2>1. text[c + 1] = Comma
    BY <1>1, <1>5, SeparatorIn
  <2>2. /\ OutOfQuotes(text, c + 1)
        /\ BreaksTo(text, c + 1) = BreaksTo(text, c)
        /\ Cardinality(SeparatorsTo(text, c + 1)) = Cardinality(SeparatorsTo(text, c)) + 1
    BY <1>3, <2>1, CommaStep
  <2>3. cursor' - 1 = c + 1 /\ pc' = "field"
    <3>1. cursor' = (c + 1) + 1 /\ pc' = "field"
      BY <1>1, <1>2, <1>5
    <3>2. ((c + 1) + 1) - 1 = c + 1
      OBVIOUS
    <3> QED BY <3>1, <3>2
  <2> QED BY <1>2, <1>3, <1>4, <2>2, <2>3 DEF SeparatorsInv
<1>6. CASE At(cursor) # Comma
  <2>1. cursor' - 1 = c /\ pc' = "end of record"
    BY <1>1, <1>2, <1>6
  <2> QED BY <1>2, <1>3, <1>4, <2>1 DEF SeparatorsInv
<1> QED BY <1>5, <1>6

LEMMA ParseTableSeparators ==
    ASSUME TypeInv, SeparatorsInv, ParseTable PROVE SeparatorsInv'
<1>1. PICK c \in Nat : c = cursor - 1 /\ cursor = c + 1 /\ c <= Len(text) /\ cursor \in Nat
  BY Consumed
<1>2. /\ pc = "end of record" /\ UNCHANGED text
      /\ table' = Append(table, record) /\ record' = <<>>
      /\ cursor > Len(text) => pc' = "done"
      /\ ~(cursor > Len(text)) =>
            cursor' = cursor + 2 /\ pc' = IF cursor + 2 > Len(text) THEN "done" ELSE "field"
  BY DEF ParseTable
<1>3. /\ OutOfQuotes(text, c)
      /\ Cardinality(BreaksTo(text, c)) = Len(table)
      /\ Cardinality(SeparatorsTo(text, c)) + 1 = FieldsBefore
  BY <1>1, <1>2 DEF SeparatorsInv
<1>4. Len(text) \in Nat /\ (cursor > Len(text) \/ AtCrLf(cursor))
  BY <1>2, ParserType DEF TypeInv
<1>5. /\ Len(table') = Len(table) + 1
      /\ Len(FlattenSeq(table')) = FieldsBefore
  <2>1. FlattenSeq(Append(table, record)) = FlattenSeq(table) \o record
    BY FieldsTyped, FlattenAppend
  <2>2. Len(FlattenSeq(table) \o record) = Len(FlattenSeq(table)) + Len(record)
    BY FieldsTyped, ConcatHolds
  <2>3. Len(Append(table, record)) = Len(table) + 1
    BY FieldsTyped
  <2>4. table' = Append(table, record)
    BY <1>2
  <2> QED BY <2>1, <2>2, <2>3, <2>4 DEF FieldsBefore
<1>6. FieldsBefore' = FieldsBefore
  <2>1. Len(record') = 0
    BY <1>2
  <2>2. PICK f : f = FieldsBefore
    OBVIOUS
  <2>3. f \in Nat
    BY <2>2, FieldsTyped DEF FieldsBefore
  <2>4. f + 0 = f
    BY <2>3
  <2>5. FieldsBefore' = Len(FlattenSeq(table')) + 0
    BY <2>1 DEF FieldsBefore
  <2> QED BY <1>5, <2>2, <2>4, <2>5
<1>7. CASE cursor > Len(text)
  <2>1. pc' = "done"
    BY <1>2, <1>7
  <2>2. c = Len(text)
    BY <1>1, <1>4, <1>7
  <2> QED BY <1>2, <1>3, <1>5, <2>1, <2>2 DEF SeparatorsInv
<1>8. CASE ~(cursor > Len(text))
  <2>1. CrLfIn(text, c + 1) /\ c + 2 <= Len(text)
    BY <1>1, <1>4, <1>8, SeparatorIn
  <2>2. /\ OutOfQuotes(text, c + 2)
        /\ c + 2 = Len(text) => SameCounts(text, c, c + 2)
        /\ c + 2 # Len(text) =>
              /\ Cardinality(BreaksTo(text, c + 2)) = Cardinality(BreaksTo(text, c)) + 1
              /\ Cardinality(SeparatorsTo(text, c + 2)) = Cardinality(SeparatorsTo(text, c)) + 1
    BY <1>3, <1>4, <2>1, BreakStep
  <2>3. /\ cursor' = cursor + 2
        /\ pc' = IF cursor + 2 > Len(text) THEN "done" ELSE "field"
    BY <1>2, <1>8
  <2>4. cursor + 2 = (c + 2) + 1 /\ ((c + 2) + 1) - 1 = c + 2
    BY <1>1
  <2>5. cursor' - 1 = c + 2
    BY <2>3, <2>4
  <2>6. CASE c + 2 = Len(text)
    <3>1. (c + 2) + 1 > Len(text)
      BY <1>4, <2>6
    <3>2. pc' = "done"
      BY <2>3, <2>4, <3>1
    <3>3. BreaksTo(text, c + 2) = BreaksTo(text, c) /\ SeparatorsTo(text, c + 2) = SeparatorsTo(text, c)
      BY <2>2, <2>6 DEF SameCounts, SeparatorsTo
    <3> QED BY <1>2, <1>3, <1>5, <2>6, <3>2, <3>3 DEF SeparatorsInv
  <2>7. CASE c + 2 # Len(text)
    <3>1. ~((c + 2) + 1 > Len(text))
      BY <1>4, <2>1, <2>7
    <3>2. pc' = "field"
      BY <2>3, <2>4, <3>1
    <3> QED BY <1>2, <1>3, <1>5, <1>6, <2>2, <2>5, <2>7, <3>2 DEF SeparatorsInv
  <2> QED BY <2>6, <2>7
<1> QED BY <1>7, <1>8

LEMMA ComposeFileSeparators ==
    ASSUME TypeInv, SeparatorsInv, ComposeFile PROVE SeparatorsInv'
<1>1. /\ pc' = "field" /\ cursor' = 1 /\ table' = <<>> /\ record' = <<>>
  BY DEF ComposeFile, TypeInv
<1> QED BY <1>1, NothingRead DEF SeparatorsInv, FieldsBefore

LEMMA SeparatorsStep ==
    ASSUME TypeInv, SeparatorsInv, [Next]_vars PROVE SeparatorsInv'
<1>1. CASE UNCHANGED vars
  BY <1>1 DEF vars, SeparatorsInv, FieldsBefore
<1>2. CASE Next
  BY <1>2, ParseFieldSeparators, ParseEscapedSeparators, ParseEscapedEndSeparators,
     ParseNonEscapedSeparators, ParseNonEscapedEndSeparators, ParseRecordSeparators,
     ParseTableSeparators, ComposeFileSeparators DEF Next
<1> QED BY <1>1, <1>2

\* An accepted text of any length, whoever wrote it, has as many records and fields as
\* its breaks and commas outside of quotes make.
THEOREM FieldsMatch == Spec => []FieldsMatchSeparators
<1>1. Init => TypeInv /\ SeparatorsInv
  BY TypeInit, SeparatorsInit
<1>2. TypeInv /\ SeparatorsInv /\ [Next]_vars => TypeInv' /\ SeparatorsInv'
  BY TypeStep, SeparatorsStep
<1>3. TypeInv /\ SeparatorsInv => FieldsMatchSeparators
  <2>1. ASSUME TypeInv, SeparatorsInv, pc = "done" PROVE FieldsMatchSeparators
    <3> DEFINE plain(i)  == Cardinality({h \in 1..i : text[h] = Quote}) % 2 = 0
               commas    == {i \in DOMAIN text : plain(i) /\ At(i) = Comma}
               breaks    == {i \in DOMAIN text : plain(i) /\ AtCrLf(i)} \ {Len(text) - 1}
               z         == Len(text)
    <3>1. text \in Seq(Char) /\ z \in Nat /\ DOMAIN text = 1..z
      BY <2>1, ParserType
    <3>2. \A i \in 1..z : plain(i) <=> OutOfQuotes(text, i)
      BY DEF OutOfQuotes, QuotesTo
    <3>3. ASSUME NEW i \in 1..z
          PROVE  (At(i) = Comma <=> text[i] = Comma) /\ (AtCrLf(i) <=> CrLfIn(text, i))
      <4>1. i \in Nat \ {0} /\ i <= Len(text)
        BY <3>1
      <4>2. At(i) = text[i]
        BY <4>1 DEF At
      <4>3. At(i + 1) = LF <=> i + 1 <= Len(text) /\ text[i + 1] = LF
        BY CsvAssumption DEF At
      <4> QED BY <4>2, <4>3 DEF AtCrLf, CrLfIn
    <3> HIDE DEF plain
    <3>4. commas = CommasTo(text, z)
      BY <3>1, <3>2, <3>3 DEF CommasTo
    <3>5. breaks = BreaksTo(text, z)
      BY <3>1, <3>2, <3>3 DEF BreaksTo
    <3>6. /\ Cardinality(BreaksTo(text, z)) + 1 = Len(table)
          /\ Cardinality(SeparatorsTo(text, z)) + 1 = Len(FlattenSeq(table))
      BY <2>1 DEF SeparatorsInv
    <3>7. Cardinality(BreaksTo(text, z)) \in Nat /\ Cardinality(SeparatorsTo(text, z)) \in Nat
      BY <3>1, CountsFinite
    <3>8. commas \cup breaks = SeparatorsTo(text, z)
      BY <3>4, <3>5 DEF SeparatorsTo
    <3> HIDE DEF commas, breaks
    <3>9. /\ Len(table) = 1 + Cardinality(breaks)
          /\ Len(FlattenSeq(table)) = 1 + Cardinality(commas \cup breaks)
      <4>1. PICK b, s : /\ b = Cardinality(BreaksTo(text, z))
                        /\ s = Cardinality(SeparatorsTo(text, z))
        OBVIOUS
      <4>2. b + 1 = 1 + b /\ s + 1 = 1 + s
        BY <3>7, <4>1
      <4>3. Cardinality(breaks) = b /\ Cardinality(commas \cup breaks) = s
        BY <3>5, <3>8, <4>1
      <4>4. b + 1 = Len(table) /\ s + 1 = Len(FlattenSeq(table))
        BY <3>6, <4>1
      <4> QED BY <4>2, <4>3, <4>4
    <3> QED BY <3>9 DEF FieldsMatchSeparators, plain, commas, breaks
  <2>2. ASSUME pc # "done" PROVE FieldsMatchSeparators
    BY <2>2 DEF FieldsMatchSeparators
  <2> QED BY <2>1, <2>2
<1> QED BY <1>1, <1>2, <1>3, PTL DEF Spec
=============================================================================
