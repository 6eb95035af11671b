--------------------------- MODULE ExtractionProofs ---------------------------
(***************************************************************************)
(* Theorems about extractClaims, for any output the model may write.       *)
(***************************************************************************)
EXTENDS ClaimExtraction, AuditLemmas, SequenceTheorems, FiniteSetTheorems

\* A list made of the first n of some lists, and where each item of it is from.
Laid(flat, lists, n, from, place) ==
  /\ from \in [1 .. Len(flat) -> 1 .. n] /\ place \in [1 .. Len(flat) -> Nat]
  /\ \A j \in 1 .. Len(flat) : /\ place[j] \in 1 .. Len(lists[from[j]])
                               /\ flat[j] = lists[from[j]][place[j]]
  /\ \A i, j \in 1 .. Len(flat) :
       i < j => from[i] < from[j] \/ (from[i] = from[j] /\ place[i] < place[j])
  /\ \A k \in 1 .. n : \A m \in 1 .. Len(lists[k]) :
       \E j \in 1 .. Len(flat) : from[j] = k /\ place[j] = m

\* The lists laid end to end, one more at a time.
LEMMA FlattenStepwise ==
  ASSUME NEW S, NEW lists \in Seq(Seq(S))
  PROVE  \E f \in [0 .. Len(lists) -> Seq(S)] :
           /\ f[0] = <<>>
           /\ \A k \in 0 .. Len(lists) : k < Len(lists) => f[k + 1] = f[k] \o lists[k + 1]
           /\ FlattenSeq(lists) = f[Len(lists)]
<1> DEFINE n == Len(lists)
           IsUpto(m, f) ==
             f = [i \in 1 .. m |-> IF i = 1 THEN lists[i] ELSE f[i - 1] \o lists[i]]
           Reaches(m) == m <= n => \E f \in [1 .. m -> Seq(S)] : IsUpto(m, f)
           Some == {m \in Nat : Reaches(m)}
<1>1. n \in Nat /\ \A k \in 1 .. n : lists[k] \in Seq(S)
  OBVIOUS
<1>2. 0 \in Some
  <2>1. <<>> \in [1 .. 0 -> Seq(S)] /\ IsUpto(0, <<>>)
    OBVIOUS
  <2> QED
    BY <2>1
<1>3. ASSUME NEW m \in Some PROVE m + 1 \in Some
  <2> SUFFICES ASSUME m + 1 <= n
               PROVE  \E f \in [1 .. m + 1 -> Seq(S)] : IsUpto(m + 1, f)
    <3> HIDE DEF IsUpto
    <3> QED
      OBVIOUS
  <2>1. m \in Nat /\ m <= n /\ Reaches(m)
    <3> HIDE DEF IsUpto
    <3> QED
      BY <1>1
  <2>2. PICK f \in [1 .. m -> Seq(S)] : IsUpto(m, f)
    BY <2>1
  <2> DEFINE g == [i \in 1 .. m + 1 |->
                     IF i = m + 1 THEN IF m = 0 THEN lists[1] ELSE f[m] \o lists[m + 1] ELSE f[i]]
  <2>3. g \in [1 .. m + 1 -> Seq(S)]
    <3>1. lists[m + 1] \in Seq(S) /\ (m = 0 => lists[1] \in Seq(S)) /\ (m # 0 => f[m] \in Seq(S))
      BY <1>1, <2>1
    <3>2. ASSUME NEW i \in 1 .. m + 1 PROVE g[i] \in Seq(S)
      <4>1. CASE i = m + 1
        BY <3>1, <4>1
      <4>2. CASE i # m + 1
        <5>1. i \in 1 .. m
          BY <2>1, <4>2
        <5> QED
          BY <4>2, <5>1
      <4> QED
        BY <4>1, <4>2
    <3> QED
      BY <3>2
  <2>4. ASSUME NEW i \in 1 .. m + 1
        PROVE  g[i] = IF i = 1 THEN lists[i] ELSE g[i - 1] \o lists[i]
    <3>1. CASE i = m + 1
      <4>1. m # 0 => i - 1 \in 1 .. m + 1 /\ g[i - 1] = f[m] /\ i # 1
        BY <2>1, <3>1
      <4>2. m = 0 => i = 1
        BY <3>1
      <4>3. g[i] = IF m = 0 THEN lists[1] ELSE f[m] \o lists[m + 1]
        BY <3>1
      <4> HIDE DEF g
      <4> QED
        BY <3>1, <4>1, <4>2, <4>3
    <3>2. CASE i # m + 1
      <4>1. i \in 1 .. m /\ (i # 1 => i - 1 \in 1 .. m /\ i - 1 # m + 1)
        BY <2>1, <3>2
      <4>2. f[i] = IF i = 1 THEN lists[i] ELSE f[i - 1] \o lists[i]
        BY <2>2, <4>1
      <4>3. g[i] = f[i] /\ (i # 1 => g[i - 1] = f[i - 1])
        BY <3>2, <4>1
      <4> HIDE DEF g
      <4> QED
        BY <4>2, <4>3
    <3> QED
      BY <3>1, <3>2
  <2>5. IsUpto(m + 1, g)
    <3>1. g = [i \in 1 .. m + 1 |-> g[i]]
      OBVIOUS
    <3> HIDE DEF g
    <3> QED
      BY <2>4, <3>1
  <2> QED
    BY <2>3, <2>5
<1>4. \E f \in [1 .. n -> Seq(S)] : IsUpto(n, f)
  <2>1. Some = Nat
    <3>1. Some \in SUBSET Nat
      OBVIOUS
    <3> HIDE DEF Some
    <3> QED
      BY <1>2, <1>3, <3>1, Upward
  <2>2. Reaches(n)
    <3> HIDE DEF Reaches
    <3> QED
      BY <1>1, <2>1
  <2> HIDE DEF IsUpto
  <2> QED
    BY <1>1, <2>2
<1> DEFINE flatten == CHOOSE f : IsUpto(n, f)
<1>5. IsUpto(n, flatten)
  <2> HIDE DEF IsUpto
  <2> QED
    BY <1>4, Zenon
<1>6. n # 0 => FlattenSeq(lists) = flatten[n]
  BY DEF FlattenSeq
<1>7. n = 0 => FlattenSeq(lists) = <<>>
  BY DEF FlattenSeq
<1> HIDE DEF flatten
<1>8. \A i \in 1 .. n : flatten[i] = IF i = 1 THEN lists[i] ELSE flatten[i - 1] \o lists[i]
  BY <1>5
<1> HIDE DEF IsUpto, Some
<1> DEFINE f == [k \in 0 .. n |-> IF k = 0 THEN <<>> ELSE flatten[k]]
<1>9. \A k \in 0 .. n : k < n => f[k + 1] = f[k] \o lists[k + 1]
  <2> SUFFICES ASSUME NEW k \in 0 .. n, k < n PROVE f[k + 1] = f[k] \o lists[k + 1]
    OBVIOUS
  <2>1. k + 1 \in 1 .. n /\ k + 1 \in 0 .. n /\ (k + 1) - 1 = k /\ k + 1 # 0
    BY <1>1
  <2>2. f[k + 1] = IF k + 1 = 1 THEN lists[k + 1] ELSE flatten[k] \o lists[k + 1]
    BY <1>8, <2>1
  <2>3. CASE k = 0
    <3>1. f[k] = <<>> /\ f[k + 1] = lists[k + 1]
      BY <2>2, <2>3
    <3>2. lists[k + 1] \in Seq(S)
      BY <1>1, <2>1
    <3> HIDE DEF f
    <3> QED
      BY <3>1, <3>2
  <2>4. CASE k # 0
    <3>1. f[k] = flatten[k]
      BY <2>4
    <3>2. k + 1 # 1
      BY <2>1, <2>4
    <3> HIDE DEF f
    <3> QED
      BY <2>2, <3>1, <3>2
  <2> QED
    BY <2>3, <2>4
<1>10. f[0] = <<>> /\ f[n] = FlattenSeq(lists)
  BY <1>1, <1>6, <1>7
<1>11. f \in [0 .. n -> Seq(S)]
  <2> DEFINE Good == {k \in Nat : k <= n => f[k] \in Seq(S)}
  <2>1. 0 \in Good
    <3>1. <<>> \in Seq(S)
      OBVIOUS
    <3> HIDE DEF f
    <3> QED
      BY <1>10, <3>1
  <2>2. ASSUME NEW k \in Good PROVE k + 1 \in Good
    <3> SUFFICES ASSUME k + 1 <= n PROVE f[k + 1] \in Seq(S)
      OBVIOUS
    <3>1. k \in 0 .. n /\ k < n /\ k + 1 \in 1 .. n
      BY <1>1
    <3>2. k <= n => f[k] \in Seq(S)
      OBVIOUS
    <3> HIDE DEF f
    <3>3. f[k] \in Seq(S)
      BY <1>1, <3>1, <3>2
    <3>4. lists[k + 1] \in Seq(S)
      BY <1>1, <3>1
    <3>5. f[k + 1] = f[k] \o lists[k + 1]
      BY <1>9, <3>1
    <3> QED
      BY <3>3, <3>4, <3>5
  <2>3. Good = Nat
    <3>1. Good \in SUBSET Nat
      OBVIOUS
    <3> HIDE DEF Good
    <3> QED
      BY <2>1, <2>2, <3>1, Upward
  <2>4. \A k \in 0 .. n : f[k] \in Seq(S)
    <3> HIDE DEF f
    <3> QED
      BY <2>3
  <2>5. DOMAIN f = 0 .. n
    OBVIOUS
  <2>6. f = [k \in 0 .. n |-> f[k]]
    OBVIOUS
  <2> HIDE DEF f
  <2> QED
    BY <2>4, <2>6
<1> HIDE DEF f
<1> QED
  BY <1>9, <1>10, <1>11

\* Lists laid end to end keep their items and their order.
LEMMA Flattened ==
  ASSUME NEW S, NEW lists \in Seq(Seq(S))
  PROVE  /\ FlattenSeq(lists) \in Seq(S)
         /\ \E from, place : Laid(FlattenSeq(lists), lists, Len(lists), from, place)
<1> DEFINE n == Len(lists)
<1>1. n \in Nat /\ \A k \in 1 .. n : lists[k] \in Seq(S)
  OBVIOUS
<1>2. PICK f \in [0 .. n -> Seq(S)] :
        /\ f[0] = <<>>
        /\ \A k \in 0 .. n : k < n => f[k + 1] = f[k] \o lists[k + 1]
        /\ FlattenSeq(lists) = f[n]
  BY FlattenStepwise
<1> DEFINE Lies(k) == \E from, place : Laid(f[k], lists, k, from, place)
           Some == {k \in Nat : k <= n => Lies(k)}
<1>3. 0 \in Some
  <2>1. Len(<<>>) = 0 /\ <<>> \in [1 .. 0 -> 1 .. 0] /\ <<>> \in [1 .. 0 -> Nat]
    OBVIOUS
  <2>2. Laid(<<>>, lists, 0, <<>>, <<>>)
    BY <2>1 DEF Laid
  <2> QED
    BY <1>2, <2>2
<1>4. ASSUME NEW k \in Some PROVE k + 1 \in Some
  <2> SUFFICES ASSUME k + 1 <= n PROVE Lies(k + 1)
    <3> HIDE DEF Lies
    <3> QED
      OBVIOUS
  <2>1. k \in Nat /\ k \in 0 .. n /\ k < n /\ k + 1 \in 1 .. n /\ Lies(k)
    <3> HIDE DEF Lies
    <3> QED
      BY <1>1
  <2> DEFINE before == f[k]
             more == lists[k + 1]
             after == f[k + 1]
             m == Len(before)
             length == Len(after)
  <2>2. before \in Seq(S) /\ more \in Seq(S) /\ after = before \o more
    BY <1>1, <1>2, <2>1
  <2>3. PICK from, place : Laid(before, lists, k, from, place)
    BY <2>1
  <2> DEFINE from2 == [j \in 1 .. length |-> IF j <= m THEN from[j] ELSE k + 1]
             place2 == [j \in 1 .. length |-> IF j <= m THEN place[j] ELSE j - m]
  <2> HIDE DEF before, more, after
  <2>4. /\ m \in Nat /\ Len(more) \in Nat /\ length = m + Len(more)
        /\ \A j \in 1 .. length : after[j] = IF j <= m THEN before[j] ELSE more[j - m]
    BY <2>2
  <2>5. /\ from \in [1 .. m -> 1 .. k] /\ place \in [1 .. m -> Nat]
        /\ \A j \in 1 .. m : place[j] \in 1 .. Len(lists[from[j]]) /\ before[j] = lists[from[j]][place[j]]
        /\ \A i, j \in 1 .. m : i < j => from[i] < from[j] \/ (from[i] = from[j] /\ place[i] < place[j])
        /\ \A l \in 1 .. k : \A p \in 1 .. Len(lists[l]) : \E j \in 1 .. m : from[j] = l /\ place[j] = p
    BY <2>3 DEF Laid
  <2>6. \A j \in 1 .. m : j \in 1 .. length /\ from2[j] = from[j] /\ place2[j] = place[j]
    BY <2>4
  <2>7. \A j \in 1 .. length : ~(j <= m) =>
          from2[j] = k + 1 /\ place2[j] = j - m /\ j - m \in 1 .. Len(more)
    BY <2>4
  <2>8. from2 \in [1 .. length -> 1 .. k + 1] /\ place2 \in [1 .. length -> Nat]
    <3>1. ASSUME NEW j \in 1 .. length PROVE from2[j] \in 1 .. k + 1 /\ place2[j] \in Nat
      <4>1. CASE j <= m
        <5>1. j \in 1 .. m
          BY <2>4, <4>1
        <5>2. from[j] \in 1 .. k /\ place[j] \in Nat
          BY <2>5, <5>1
        <5> QED
          BY <2>1, <2>6, <5>1, <5>2
      <4>2. CASE ~(j <= m)
        BY <2>1, <2>7, <4>2
      <4> QED
        BY <4>1, <4>2
    <3> QED
      BY <3>1
  <2>9. ASSUME NEW j \in 1 .. length
        PROVE  place2[j] \in 1 .. Len(lists[from2[j]]) /\ after[j] = lists[from2[j]][place2[j]]
    <3>1. CASE j <= m
      <4>1. j \in 1 .. m
        BY <2>4, <3>1
      <4>2. after[j] = before[j]
        BY <2>4, <3>1
      <4> HIDE DEF from2, place2
      <4> QED
        BY <2>5, <2>6, <4>1, <4>2
    <3>2. CASE ~(j <= m)
      <4>1. after[j] = more[j - m]
        BY <2>4, <3>2
      <4> HIDE DEF from2, place2
      <4> QED
        BY <2>7, <3>2, <4>1 DEF more
    <3> QED
      BY <3>1, <3>2
  <2>10. ASSUME NEW i \in 1 .. length, NEW j \in 1 .. length, i < j
         PROVE  from2[i] < from2[j] \/ (from2[i] = from2[j] /\ place2[i] < place2[j])
    <3> HIDE DEF from2, place2
    <3>1. CASE j <= m
      <4>1. i \in 1 .. m /\ j \in 1 .. m
        BY <2>4, <2>10, <3>1
      <4> QED
        BY <2>5, <2>6, <2>10, <4>1
    <3>2. CASE ~(j <= m) /\ i <= m
      <4>1. i \in 1 .. m
        BY <2>4, <3>2
      <4>2. from[i] \in 1 .. k
        BY <2>5, <4>1
      <4>3. from2[i] \in 1 .. k /\ from2[j] = k + 1
        BY <2>6, <2>7, <3>2, <4>1, <4>2
      <4>4. k \in Nat
        BY <2>1
      <4> QED
        BY <4>3, <4>4
    <3>3. CASE ~(i <= m)
      <4>1. ~(j <= m)
        BY <2>4, <2>10, <3>3
      <4>2. from2[i] = k + 1 /\ from2[j] = k + 1 /\ place2[i] = i - m /\ place2[j] = j - m
        BY <2>7, <3>3, <4>1
      <4> QED
        BY <2>4, <2>10, <4>2
    <3> QED
      BY <3>1, <3>2, <3>3
  <2>11. ASSUME NEW l \in 1 .. k + 1, NEW p \in 1 .. Len(lists[l])
         PROVE  \E j \in 1 .. length : from2[j] = l /\ place2[j] = p
    <3> HIDE DEF from2, place2
    <3>1. CASE l = k + 1
      <4>1. p \in 1 .. Len(more)
        BY <3>1 DEF more
      <4>2. p + m \in 1 .. length /\ ~(p + m <= m) /\ (p + m) - m = p
        <5>1. m \in Nat /\ Len(more) \in Nat /\ length = m + Len(more)
          BY <2>4
        <5> HIDE DEF m, length
        <5> QED
          BY <4>1, <5>1
      <4>3. from2[p + m] = k + 1 /\ place2[p + m] = p
        BY <2>7, <4>2
      <4> QED
        BY <3>1, <4>2, <4>3
    <3>2. CASE l # k + 1
      <4>1. l \in 1 .. k
        BY <2>1, <3>2
      <4>2. PICK j \in 1 .. m : from[j] = l /\ place[j] = p
        BY <2>5, <4>1
      <4> QED
        BY <2>6, <4>2
    <3> QED
      BY <3>1, <3>2
  <2> HIDE DEF from2, place2
  <2>12. Laid(after, lists, k + 1, from2, place2)
    BY <2>8, <2>9, <2>10, <2>11 DEF Laid
  <2> QED
    BY <2>12 DEF after
<1>5. Lies(n)
  <2>1. Some = Nat
    <3>1. Some \in SUBSET Nat
      OBVIOUS
    <3> HIDE DEF Some
    <3> QED
      BY <1>3, <1>4, <3>1, Upward
  <2> HIDE DEF Lies
  <2> QED
    BY <1>1, <2>1
<1>6. f[n] \in Seq(S)
  <2>1. n \in 0 .. n /\ f \in [0 .. n -> Seq(S)]
    BY <1>1, <1>2
  <2> HIDE DEF n
  <2> QED
    BY <2>1
<1> QED
  BY <1>2, <1>5, <1>6

\* The items of a list at some positions, in order, and the position of each.
Picked(list, positions) ==
  FlattenSeq([i \in DOMAIN list |-> IF i \in positions THEN <<list[i]>> ELSE <<>>])

Picks(list, positions, at) ==
  LET picked == Picked(list, positions)
  IN  /\ at \in [1 .. Len(picked) -> positions]
      /\ \A j \in 1 .. Len(picked) : picked[j] = list[at[j]]
      /\ \A i, j \in 1 .. Len(picked) : i < j => at[i] < at[j]
      /\ \A p \in positions : \E j \in 1 .. Len(picked) : at[j] = p

\* What is picked is in the order of the list.
LEMMA PickedInOrder ==
  ASSUME NEW S, NEW list \in Seq(S), NEW positions \in SUBSET (1 .. Len(list))
  PROVE  /\ Picked(list, positions) \in Seq(S)
         /\ \E at : Picks(list, positions, at)
<1> DEFINE lists == [i \in DOMAIN list |-> IF i \in positions THEN <<list[i]>> ELSE <<>>]
           n == Len(list)
<1>1. n \in Nat /\ DOMAIN list = 1 .. n /\ \A i \in 1 .. n : list[i] \in S
  OBVIOUS
<1>2. \A i \in 1 .. n : lists[i] = IF i \in positions THEN <<list[i]>> ELSE <<>>
  BY <1>1
<1>3. lists \in Seq(Seq(S)) /\ Len(lists) = n
  <2>1. ASSUME NEW i \in 1 .. n
        PROVE  (IF i \in positions THEN <<list[i]>> ELSE <<>>) \in Seq(S)
    BY <1>1
  <2>2. lists \in [1 .. n -> Seq(S)]
    BY <1>1, <2>1
  <2> HIDE DEF lists
  <2> QED
    BY <1>1, <2>2
<1>4. Picked(list, positions) = FlattenSeq(lists)
  BY DEF Picked
<1> HIDE DEF lists
<1> DEFINE picked == FlattenSeq(lists)
<1>5. picked \in Seq(S) /\ \E from, place : Laid(picked, lists, n, from, place)
  BY <1>3, Flattened
<1>6. PICK from, place : Laid(picked, lists, n, from, place)
  BY <1>5
<1> DEFINE m == Len(picked)
<1> HIDE DEF picked
<1>7. /\ from \in [1 .. m -> 1 .. n] /\ place \in [1 .. m -> Nat]
      /\ \A j \in 1 .. m : place[j] \in 1 .. Len(lists[from[j]]) /\ picked[j] = lists[from[j]][place[j]]
      /\ \A i, j \in 1 .. m : i < j => from[i] < from[j] \/ (from[i] = from[j] /\ place[i] < place[j])
      /\ \A l \in 1 .. n : \A p \in 1 .. Len(lists[l]) : \E j \in 1 .. m : from[j] = l /\ place[j] = p
  BY <1>6 DEF Laid
<1>8. ASSUME NEW j \in 1 .. m
      PROVE  from[j] \in positions /\ place[j] = 1 /\ picked[j] = list[from[j]]
  <2>1. from[j] \in 1 .. n /\ place[j] \in 1 .. Len(lists[from[j]])
    BY <1>7
  <2>2. from[j] \in positions
    <3> SUFFICES ASSUME from[j] \notin positions PROVE FALSE
      OBVIOUS
    <3>1. lists[from[j]] = <<>>
      BY <1>2, <2>1
    <3> QED
      BY <2>1, <3>1
  <2>3. lists[from[j]] = <<list[from[j]]>>
    BY <1>2, <2>1, <2>2
  <2>4. place[j] = 1
    <3>1. Len(<<list[from[j]]>>) = 1
      OBVIOUS
    <3> QED
      BY <2>1, <2>3, <3>1
  <2>5. picked[j] = lists[from[j]][place[j]]
    BY <1>7
  <2> QED
    BY <2>2, <2>3, <2>4, <2>5
<1>9. from \in [1 .. m -> positions]
  BY <1>7, <1>8
<1>10. \A i, j \in 1 .. m : i < j => from[i] < from[j]
  <2> SUFFICES ASSUME NEW i \in 1 .. m, NEW j \in 1 .. m, i < j PROVE from[i] < from[j]
    OBVIOUS
  <2>1. from[i] < from[j] \/ (from[i] = from[j] /\ place[i] < place[j])
    BY <1>7
  <2>2. place[i] = 1 /\ place[j] = 1
    BY <1>8
  <2> QED
    BY <2>1, <2>2
<1>11. ASSUME NEW p \in positions PROVE \E j \in 1 .. m : from[j] = p
  <2>1. p \in 1 .. n
    OBVIOUS
  <2>2. lists[p] = <<list[p]>>
    BY <1>2, <2>1
  <2>3. 1 \in 1 .. Len(lists[p])
    BY <2>2
  <2> QED
    BY <1>7, <2>1, <2>3
<1>12. Picks(list, positions, from)
  BY <1>4, <1>8, <1>9, <1>10, <1>11 DEF Picks, picked
<1> QED
  BY <1>4, <1>5, <1>12 DEF picked

-------------------------------------------------------------------------------

\* The least of some numbers.
LEMMA LeastOf ==
  ASSUME NEW S \in SUBSET Nat, S # {} PROVE Min(S) \in S /\ \A x \in S : Min(S) <= x
BY FirstPosition DEF Min, First

\* The greatest of some bounded numbers.
LEMMA GreatestOf ==
  ASSUME NEW n \in Nat, NEW S \in SUBSET (0 .. n), S # {}
  PROVE  Max(S) \in S /\ \A x \in S : x <= Max(S)
<1> DEFINE T == {n - x : x \in S}
<1>1. T \in SUBSET Nat /\ T # {}
  <2>1. \A x \in S : n - x \in Nat
    OBVIOUS
  <2>2. PICK x : x \in S
    OBVIOUS
  <2>3. n - x \in T
    BY <2>2
  <2> QED
    BY <2>1, <2>3
<1>2. First(T) \in T /\ \A t \in T : First(T) <= t
  BY <1>1, FirstPosition
<1>3. PICK x \in S : First(T) = n - x
  BY <1>2
<1>4. \A y \in S : n - x <= n - y
  BY <1>2, <1>3
<1>5. \A y \in S : y <= x
  BY <1>4
<1> QED
  BY <1>5 DEF Max

\* A run of symbols ends at the first symbol that is none of them.
LEMMA SkipEnds ==
  ASSUME NEW text \in Seq(Symbols), NEW from \in 0 .. Len(text), NEW symbols, "end" \notin symbols
  PROVE  /\ skip(text, from, symbols) \in from .. Len(text)
         /\ At(text, skip(text, from, symbols) + 1) \notin symbols
         /\ \A k \in from .. skip(text, from, symbols) - 1 : At(text, k + 1) \in symbols
<1> DEFINE n == Len(text)
           S == {k \in from .. n : At(text, k + 1) \notin symbols}
<1>1. n \in Nat /\ n \in from .. n /\ n + 1 \notin DOMAIN text
  OBVIOUS
<1>2. n \in S
  BY <1>1 DEF At
<1>3. S \in SUBSET Nat
  BY <1>1
<1> HIDE DEF S
<1>4. Min(S) \in S /\ \A k \in S : Min(S) <= k
  BY <1>2, <1>3, LeastOf
<1>5. skip(text, from, symbols) = Min(S)
  BY DEF skip, S
<1>6. ASSUME NEW k \in from .. Min(S) - 1 PROVE At(text, k + 1) \in symbols
  <2>1. Min(S) \in from .. n
    BY <1>4 DEF S
  <2>2. k \in from .. n /\ ~(Min(S) <= k)
    BY <1>1, <2>1
  <2> QED
    BY <1>4, <2>2 DEF S
<1> QED
  BY <1>4, <1>5, <1>6 DEF S

\* It goes no further than a symbol that is none of them.
LEMMA SkipStops ==
  ASSUME NEW text \in Seq(Symbols), NEW from \in 0 .. Len(text), NEW symbols, "end" \notin symbols,
         NEW stop \in from .. Len(text), At(text, stop + 1) \notin symbols
  PROVE  skip(text, from, symbols) <= stop
<1> DEFINE m == skip(text, from, symbols)
<1>1. m \in from .. Len(text) /\ \A i \in from .. m - 1 : At(text, i + 1) \in symbols
  BY SkipEnds
<1>2. Len(text) \in Nat /\ from \in Nat
  OBVIOUS
<1> HIDE DEF m
<1>3. ~(stop \in from .. m - 1)
  BY <1>1
<1>4. m <= stop
  BY <1>1, <1>2, <1>3
<1> QED
  BY <1>4 DEF m

-------------------------------------------------------------------------------
Spans == [start : Nat, text : Seq(Symbols)]

EndOf(span) == span.start + Len(span.text)

\* A span points at its text.
Sliced(text, span) ==
  /\ span \in Spans
  /\ EndOf(span) <= Len(text)
  /\ \A i \in 1 .. Len(span.text) : span.text[i] = text[span.start + i]

Inside(span, whole) == whole.start <= span.start /\ EndOf(span) <= EndOf(whole)

Holds(span, p) == span.start < p /\ p <= EndOf(span)

\* What a span that points at its text is made of.
LEMMA SpanParts ==
  ASSUME NEW text \in Seq(Symbols), NEW span, Sliced(text, span)
  PROVE  /\ span.start \in Nat /\ span.text \in Seq(Symbols) /\ Len(span.text) \in Nat
         /\ EndOf(span) \in Nat /\ EndOf(span) = span.start + Len(span.text)
         /\ EndOf(span) <= Len(text) /\ Len(text) \in Nat
         /\ \A i \in 1 .. Len(span.text) : span.text[i] = text[span.start + i]
<1>1. span.start \in Nat /\ span.text \in Seq(Symbols)
  BY DEF Sliced, Spans
<1>2. Len(span.text) \in Nat /\ Len(text) \in Nat
  BY <1>1
<1> QED
  BY <1>1, <1>2 DEF Sliced, EndOf

\* So does a part of it.
LEMMA PartSliced ==
  ASSUME NEW text \in Seq(Symbols), NEW span, Sliced(text, span),
         NEW from \in 0 .. Len(span.text), NEW to \in 0 .. Len(span.text)
  PROVE  /\ Sliced(text, Part(span, from, to))
         /\ Inside(Part(span, from, to), span)
         /\ Part(span, from, to).start = span.start + from
         /\ EndOf(Part(span, from, to)) = span.start + IF from <= to THEN to ELSE from
<1> DEFINE part == SubSeq(span.text, from + 1, to)
           n == Len(span.text)
<1>1. /\ span.start \in Nat /\ span.text \in Seq(Symbols) /\ n \in Nat
      /\ EndOf(span) = span.start + n /\ EndOf(span) <= Len(text)
      /\ \A i \in 1 .. n : span.text[i] = text[span.start + i]
  BY SpanParts
<1>0. from \in Nat /\ to \in Nat /\ from <= n /\ to <= n
  BY <1>1
<1>2. from + 1 \in Int /\ to \in Int /\ \A i \in from + 1 .. to : span.text[i] \in Symbols
  BY <1>1
<1>3. /\ part \in Seq(Symbols)
      /\ Len(part) = IF from + 1 <= to THEN to - (from + 1) + 1 ELSE 0
      /\ \A i \in 1 .. to - (from + 1) + 1 : part[i] = span.text[from + 1 + i - 1]
  BY <1>2, SubSeqProperties, SMTT(20)
<1>4. Len(part) = IF from <= to THEN to - from ELSE 0
  <2> HIDE DEF part, n
  <2> QED
    BY <1>1, <1>3
<1>5. Part(span, from, to) = [start |-> span.start + from, text |-> part]
  BY DEF Part, Span
<1> HIDE DEF part
<1>6. Part(span, from, to) \in Spans
  BY <1>1, <1>3, <1>5 DEF Spans
<1>7. EndOf(Part(span, from, to)) = span.start + IF from <= to THEN to ELSE from
  <2>1. EndOf(Part(span, from, to)) = (span.start + from) + Len(part)
    BY <1>5 DEF EndOf
  <2> HIDE DEF n
  <2> QED
    BY <1>0, <1>1, <1>4, <2>1
<1>8. ASSUME NEW i \in 1 .. Len(part) PROVE part[i] = text[(span.start + from) + i]
  <2>1. i \in 1 .. to - (from + 1) + 1 /\ from + i \in 1 .. n /\ from + 1 + i - 1 = from + i
    <3> HIDE DEF n
    <3> QED
      BY <1>0, <1>1, <1>4
  <2>2. part[i] = span.text[from + i]
    BY <1>3, <2>1
  <2>3. span.text[from + i] = text[span.start + (from + i)]
    BY <1>1, <2>1
  <2>4. span.start + (from + i) = (span.start + from) + i
    BY <1>1
  <2> QED
    BY <2>2, <2>3, <2>4
<1>9. EndOf(Part(span, from, to)) <= Len(text)
  <2>1. Len(text) \in Nat
    OBVIOUS
  <2> HIDE DEF n
  <2> QED
    BY <1>0, <1>1, <1>7, <2>1
<1>10. Sliced(text, Part(span, from, to))
  BY <1>5, <1>6, <1>8, <1>9 DEF Sliced
<1>11. Inside(Part(span, from, to), span)
  <2>1. Part(span, from, to).start = span.start + from
    BY <1>5
  <2> HIDE DEF n
  <2> QED
    BY <1>0, <1>1, <1>7, <2>1 DEF Inside
<1> QED
  BY <1>5, <1>7, <1>10, <1>11

\* A part of a part is a part.
LEMMA InsideInside ==
  ASSUME NEW text \in Seq(Symbols), NEW part, Sliced(text, part), NEW middle, Sliced(text, middle),
         NEW whole, Sliced(text, whole), Inside(part, middle), Inside(middle, whole)
  PROVE  Inside(part, whole)
<1>1. /\ part.start \in Nat /\ EndOf(part) \in Nat /\ middle.start \in Nat /\ EndOf(middle) \in Nat
      /\ whole.start \in Nat /\ EndOf(whole) \in Nat
  BY SpanParts
<1> QED
  BY <1>1 DEF Inside

\* Trimming keeps what a span points at, and all of it but the spaces around it.
LEMMA TrimSliced ==
  ASSUME NEW text \in Seq(Symbols), NEW span, Sliced(text, span)
  PROVE  /\ Sliced(text, trimSpan(span))
         /\ Inside(trimSpan(span), span)
         /\ \A i \in 1 .. Len(span.text) :
              span.text[i] # "space" => Holds(trimSpan(span), span.start + i)
<1> DEFINE n == Len(span.text)
           some == NonSpaces(span.text)
<1>1. /\ span.start \in Nat /\ span.text \in Seq(Symbols) /\ n \in Nat
      /\ EndOf(span) = span.start + n /\ EndOf(span) <= Len(text) /\ Len(text) \in Nat
  BY SpanParts
<1>2. DOMAIN span.text = 1 .. n
  BY <1>1
<1>3. some \in SUBSET (1 .. n) /\ some \in SUBSET Nat /\ some \in SUBSET (0 .. n)
  BY <1>1, <1>2 DEF NonSpaces
<1>4. \A i \in 1 .. n : span.text[i] # "space" => i \in some
  BY <1>2 DEF NonSpaces
<1>5. CASE some = {}
  <2>1. trimSpan(span) = [start |-> span.start + n, text |-> <<>>]
    BY <1>5 DEF trimSpan, Span
  <2>2. trimSpan(span) \in Spans
    BY <1>1, <2>1 DEF Spans
  <2>3. EndOf(trimSpan(span)) = span.start + n /\ trimSpan(span).start = span.start + n
    BY <1>1, <2>1 DEF EndOf
  <2>4. Sliced(text, trimSpan(span))
    BY <1>1, <2>1, <2>2, <2>3 DEF Sliced
  <2>5. Inside(trimSpan(span), span)
    BY <1>1, <2>3 DEF Inside
  <2> QED
    BY <1>4, <1>5, <2>4, <2>5
<1>6. CASE some # {}
  <2> DEFINE first == Min(some)
             last == Max(some)
  <2> HIDE DEF some
  <2>1. first \in some /\ \A i \in some : first <= i
    BY <1>3, <1>6, LeastOf
  <2>2. last \in some /\ \A i \in some : i <= last
    BY <1>1, <1>3, <1>6, GreatestOf
  <2>3. trimSpan(span) = Part(span, first - 1, last)
    BY <1>6 DEF trimSpan, some
  <2> HIDE DEF first, last
  <2>4. first \in 1 .. n /\ last \in 1 .. n /\ first - 1 \in 0 .. n /\ last \in 0 .. n /\ first - 1 <= last
    BY <1>1, <1>3, <2>1, <2>2
  <2>5. /\ Sliced(text, Part(span, first - 1, last))
        /\ Inside(Part(span, first - 1, last), span)
        /\ Part(span, first - 1, last).start = span.start + (first - 1)
        /\ EndOf(Part(span, first - 1, last)) = span.start + IF first - 1 <= last THEN last ELSE first - 1
    BY <2>4, PartSliced
  <2>6. \A i \in 1 .. n : span.text[i] # "space" => Holds(trimSpan(span), span.start + i)
    <3> SUFFICES ASSUME NEW i \in 1 .. n, span.text[i] # "space"
                 PROVE  Holds(trimSpan(span), span.start + i)
      OBVIOUS
    <3>1. first <= i /\ i <= last
      BY <1>4, <2>1, <2>2
    <3>2. first \in Nat /\ last \in Nat /\ i \in Nat /\ span.start \in Nat
      BY <1>1, <2>4
    <3>3. span.start + (first - 1) < span.start + i
      BY <3>1, <3>2
    <3>4. EndOf(trimSpan(span)) = span.start + last
      BY <2>3, <2>4, <2>5
    <3>5. span.start + i <= span.start + last
      BY <3>1, <3>2
    <3> QED
      BY <2>3, <2>5, <3>3, <3>4, <3>5 DEF Holds
  <2> QED
    BY <2>3, <2>5, <2>6
<1> QED
  BY <1>5, <1>6

-------------------------------------------------------------------------------
\* Spans of a text inside one of its spans, one after the other.
Cut(spans, text, whole) ==
  /\ spans \in Seq(Spans)
  /\ \A k \in 1 .. Len(spans) : Sliced(text, spans[k]) /\ Inside(spans[k], whole)
  /\ \A j, k \in 1 .. Len(spans) : j < k => EndOf(spans[j]) <= spans[k].start

\* Spans that are picked are still apart and in order.
LEMMA PickedCut ==
  ASSUME NEW text, NEW whole, NEW spans, Cut(spans, text, whole),
         NEW positions \in SUBSET (1 .. Len(spans))
  PROVE  Cut(Picked(spans, positions), text, whole)
<1> DEFINE picked == Picked(spans, positions)
<1>1. spans \in Seq(Spans)
  BY DEF Cut
<1>2. picked \in Seq(Spans) /\ \E at : Picks(spans, positions, at)
  BY <1>1, PickedInOrder
<1>3. PICK at : Picks(spans, positions, at)
  BY <1>2
<1>4. /\ at \in [1 .. Len(picked) -> positions]
      /\ \A j \in 1 .. Len(picked) : picked[j] = spans[at[j]]
      /\ \A i, j \in 1 .. Len(picked) : i < j => at[i] < at[j]
  BY <1>3 DEF Picks
<1> HIDE DEF picked
<1>5. \A j \in 1 .. Len(picked) : at[j] \in 1 .. Len(spans)
  BY <1>4
<1>6. \A k \in 1 .. Len(picked) : Sliced(text, picked[k]) /\ Inside(picked[k], whole)
  BY <1>4, <1>5 DEF Cut
<1>7. \A j, k \in 1 .. Len(picked) : j < k => EndOf(picked[j]) <= picked[k].start
  BY <1>4, <1>5 DEF Cut
<1> QED
  BY <1>2, <1>6, <1>7 DEF Cut, picked

\* The spans that are not empty are picked.
LEMMA NonEmptyPicked ==
  ASSUME NEW spans \in Seq(Spans)
  PROVE  NonEmpty(spans) = Picked(spans, {k \in 1 .. Len(spans) : spans[k].text # <<>>})
<1>1. DOMAIN spans = 1 .. Len(spans)
  OBVIOUS
<1> QED
  BY <1>1 DEF NonEmpty, Those, Picked

\* Trimmed, and without those of which nothing is left.
LEMMA TrimmedCut ==
  ASSUME NEW text \in Seq(Symbols), NEW whole, Sliced(text, whole), NEW spans, Cut(spans, text, whole)
  PROVE  /\ Cut(Trimmed(spans), text, whole)
         /\ \A k \in 1 .. Len(Trimmed(spans)) :
              /\ Trimmed(spans)[k].text # <<>>
              /\ \E j \in 1 .. Len(spans) : Trimmed(spans)[k] = trimSpan(spans[j])
         /\ \A j \in 1 .. Len(spans) : trimSpan(spans[j]).text # <<>> =>
              \E k \in 1 .. Len(Trimmed(spans)) : Trimmed(spans)[k] = trimSpan(spans[j])
<1> DEFINE n == Len(spans)
           trimmed == [k \in DOMAIN spans |-> trimSpan(spans[k])]
           left == {k \in 1 .. Len(trimmed) : trimmed[k].text # <<>>}
<1>1. /\ spans \in Seq(Spans) /\ n \in Nat /\ DOMAIN spans = 1 .. n
      /\ \A k \in 1 .. n : Sliced(text, spans[k]) /\ Inside(spans[k], whole)
      /\ \A j, k \in 1 .. n : j < k => EndOf(spans[j]) <= spans[k].start
  BY DEF Cut
<1>2. \A k \in 1 .. n : Sliced(text, trimSpan(spans[k])) /\ Inside(trimSpan(spans[k]), spans[k])
  BY <1>1, TrimSliced
<1>3. \A k \in 1 .. n : trimSpan(spans[k]) \in Spans
  BY <1>2 DEF Sliced
<1>4. trimmed \in Seq(Spans) /\ Len(trimmed) = n /\ \A k \in 1 .. n : trimmed[k] = trimSpan(spans[k])
  <2>1. trimmed \in [1 .. n -> Spans] /\ \A k \in 1 .. n : trimmed[k] = trimSpan(spans[k])
    BY <1>1, <1>3
  <2> HIDE DEF trimmed
  <2> QED
    BY <1>1, <2>1
<1>5. Trimmed(spans) = NonEmpty(trimmed)
  BY DEF Trimmed
<1> HIDE DEF trimmed
<1>6. Trimmed(spans) = Picked(trimmed, left)
  BY <1>4, <1>5, NonEmptyPicked
<1>7. \A k \in 1 .. n : Inside(trimmed[k], whole)
  BY <1>1, <1>2, <1>4, InsideInside
<1>8. ASSUME NEW j \in 1 .. n, NEW k \in 1 .. n, j < k PROVE EndOf(trimmed[j]) <= trimmed[k].start
  <2>1. /\ EndOf(trimmed[j]) <= EndOf(spans[j]) /\ spans[k].start <= trimmed[k].start
        /\ EndOf(spans[j]) <= spans[k].start
    BY <1>1, <1>2, <1>4, <1>8 DEF Inside
  <2>2. /\ EndOf(trimmed[j]) \in Nat /\ EndOf(spans[j]) \in Nat /\ spans[k].start \in Nat
        /\ trimmed[k].start \in Nat
    BY <1>1, <1>2, <1>4, SpanParts
  <2> QED
    BY <2>1, <2>2
<1>9. Cut(trimmed, text, whole)
  BY <1>2, <1>4, <1>7, <1>8 DEF Cut
<1>10. Cut(Trimmed(spans), text, whole)
  BY <1>6, <1>9, PickedCut
<1>11. PICK at : Picks(trimmed, left, at)
  BY <1>4, PickedInOrder
<1> HIDE DEF left
<1>12. /\ at \in [1 .. Len(Trimmed(spans)) -> left]
       /\ \A j \in 1 .. Len(Trimmed(spans)) : Trimmed(spans)[j] = trimmed[at[j]]
       /\ \A p \in left : \E j \in 1 .. Len(Trimmed(spans)) : at[j] = p
  BY <1>6, <1>11 DEF Picks
<1>13. \A k \in left : k \in 1 .. n /\ trimmed[k].text # <<>> /\ trimmed[k] = trimSpan(spans[k])
  BY <1>4 DEF left
<1>14. \A k \in 1 .. n : trimSpan(spans[k]).text # <<>> => k \in left
  BY <1>4 DEF left
<1>15. ASSUME NEW k \in 1 .. Len(Trimmed(spans))
       PROVE  /\ Trimmed(spans)[k].text # <<>>
              /\ \E j \in 1 .. n : Trimmed(spans)[k] = trimSpan(spans[j])
  <2>1. at[k] \in left /\ Trimmed(spans)[k] = trimmed[at[k]]
    BY <1>12
  <2> QED
    BY <1>13, <2>1
<1>16. ASSUME NEW j \in 1 .. n, trimSpan(spans[j]).text # <<>>
       PROVE  \E k \in 1 .. Len(Trimmed(spans)) : Trimmed(spans)[k] = trimSpan(spans[j])
  <2>1. j \in left
    BY <1>14, <1>16
  <2>2. PICK k \in 1 .. Len(Trimmed(spans)) : at[k] = j
    BY <1>12, <2>1
  <2> QED
    BY <1>12, <1>13, <2>1, <2>2
<1> QED
  BY <1>10, <1>15, <1>16

\* A symbol that is no space stays in what is trimmed.
LEMMA TrimmedHolds ==
  ASSUME NEW text \in Seq(Symbols), NEW whole, Sliced(text, whole), NEW spans, Cut(spans, text, whole),
         NEW k \in 1 .. Len(spans), NEW p \in Nat, Holds(spans[k], p), text[p] # "space"
  PROVE  \E l \in 1 .. Len(Trimmed(spans)) : Holds(Trimmed(spans)[l], p)
<1> DEFINE span == spans[k]
           i == p - span.start
<1>1. Sliced(text, span)
  BY DEF Cut
<1>2. /\ span.start \in Nat /\ Len(span.text) \in Nat /\ EndOf(span) = span.start + Len(span.text)
      /\ \A j \in 1 .. Len(span.text) : span.text[j] = text[span.start + j]
  BY <1>1, SpanParts
<1>3. span.start < p /\ p <= EndOf(span)
  BY DEF Holds
<1> HIDE DEF span
<1>4. i \in 1 .. Len(span.text) /\ span.start + i = p
  BY <1>2, <1>3
<1>5. span.text[i] # "space"
  BY <1>2, <1>4
<1>6. Sliced(text, trimSpan(span)) /\ Holds(trimSpan(span), p)
  BY <1>1, <1>4, <1>5, TrimSliced
<1>7. trimSpan(span).text # <<>>
  <2>1. /\ trimSpan(span).start \in Nat
        /\ EndOf(trimSpan(span)) = trimSpan(span).start + Len(trimSpan(span).text)
    BY <1>6, SpanParts
  <2>2. trimSpan(span).start < p /\ p <= EndOf(trimSpan(span))
    BY <1>6 DEF Holds
  <2>3. Len(trimSpan(span).text) # 0
    BY <2>1, <2>2
  <2> QED
    BY <2>3
<1>8. PICK l \in 1 .. Len(Trimmed(spans)) : Trimmed(spans)[l] = trimSpan(span)
  BY <1>7, TrimmedCut DEF span
<1> QED
  BY <1>6, <1>8

\* The first of some ascending ends that is not before a position.
LEMMA FirstReaching ==
  ASSUME NEW m \in Nat, NEW to \in [1 .. m + 1 -> Nat], NEW i \in 1 .. to[m + 1]
  PROVE  \E k \in 1 .. m + 1 : i <= to[k] /\ (k # 1 => to[k - 1] < i)
<1> DEFINE reaching == {k \in 1 .. m + 1 : i <= to[k]}
           k == Min(reaching)
<1>1. reaching \in SUBSET Nat /\ m + 1 \in reaching
  OBVIOUS
<1> HIDE DEF reaching
<1>2. k \in reaching /\ \A j \in reaching : k <= j
  BY <1>1, LeastOf
<1> HIDE DEF k
<1>3. k \in 1 .. m + 1 /\ i <= to[k]
  BY <1>2 DEF reaching
<1>4. ASSUME k # 1 PROVE to[k - 1] < i
  <2>1. k - 1 \in 1 .. m + 1 /\ ~(k <= k - 1)
    BY <1>3, <1>4
  <2>2. ~(i <= to[k - 1])
    BY <1>2, <2>1 DEF reaching
  <2>3. to[k - 1] \in Nat
    BY <2>1
  <2> QED
    BY <2>2, <2>3
<1> QED
  BY <1>3, <1>4

-------------------------------------------------------------------------------
\* Some positions of a list, in ascending order.
Ordered(list, positions) ==
  FlattenSeq([i \in DOMAIN list |-> IF i \in positions THEN <<i>> ELSE <<>>])

\* Positions in order are in order, and all there.
LEMMA OrderedPositions ==
  ASSUME NEW S, NEW list \in Seq(S), NEW positions \in SUBSET (1 .. Len(list))
  PROVE  LET at == Ordered(list, positions)
         IN  /\ at \in Seq(1 .. Len(list))
             /\ \A k \in 1 .. Len(at) : at[k] \in positions
             /\ \A j, k \in 1 .. Len(at) : j < k => at[j] < at[k]
             /\ \A p \in positions : \E k \in 1 .. Len(at) : at[k] = p
<1> DEFINE n == Len(list)
           index == [i \in 1 .. n |-> i]
           at == Ordered(list, positions)
<1>1. n \in Nat /\ DOMAIN list = 1 .. n
  OBVIOUS
<1>2. index \in Seq(1 .. n) /\ Len(index) = n /\ DOMAIN index = 1 .. n /\ \A i \in 1 .. n : index[i] = i
  BY <1>1
<1> HIDE DEF index
<1>3. at = Picked(index, positions)
  <2>1. [i \in DOMAIN list |-> IF i \in positions THEN <<i>> ELSE <<>>]
          = [i \in DOMAIN index |-> IF i \in positions THEN <<index[i]>> ELSE <<>>]
    BY <1>1, <1>2
  <2> QED
    BY <2>1 DEF Ordered, Picked
<1>4. at \in Seq(1 .. n) /\ \E pos : Picks(index, positions, pos)
  BY <1>2, <1>3, PickedInOrder
<1>5. PICK pos : Picks(index, positions, pos)
  BY <1>4
<1>6. /\ pos \in [1 .. Len(at) -> positions]
      /\ \A j \in 1 .. Len(at) : at[j] = index[pos[j]]
      /\ \A i, j \in 1 .. Len(at) : i < j => pos[i] < pos[j]
      /\ \A p \in positions : \E j \in 1 .. Len(at) : pos[j] = p
  BY <1>3, <1>5 DEF Picks
<1>7. \A j \in 1 .. Len(at) : at[j] = pos[j] /\ pos[j] \in positions
  BY <1>2, <1>6
<1> HIDE DEF at
<1>8. \A p \in positions : \E k \in 1 .. Len(at) : at[k] = p
  BY <1>6, <1>7
<1>9. \A j, k \in 1 .. Len(at) : j < k => at[j] < at[k]
  BY <1>6, <1>7
<1> QED
  BY <1>4, <1>7, <1>8, <1>9 DEF at

\* Parts of a span that follow one another.
Parts(whole, n, from, to) == [k \in 1 .. n |-> Part(whole, from[k], to[k])]

Following(whole, n, from, to) ==
  /\ from \in [1 .. n -> 0 .. Len(whole.text)] /\ to \in [1 .. n -> 0 .. Len(whole.text)]
  /\ \A k \in 1 .. n : from[k] <= to[k]
  /\ \A j, k \in 1 .. n : j < k => to[j] <= from[k]

\* Parts that follow each other are a cut.
LEMMA PartsCut ==
  ASSUME NEW text \in Seq(Symbols), NEW whole, Sliced(text, whole), NEW n \in Nat,
         NEW from, NEW to, Following(whole, n, from, to)
  PROVE  LET parts == Parts(whole, n, from, to)
         IN  /\ Cut(parts, text, whole)
             /\ Len(parts) = n
             /\ \A k \in 1 .. n : /\ parts[k] = Part(whole, from[k], to[k])
                                  /\ parts[k].start = whole.start + from[k]
                                  /\ EndOf(parts[k]) = whole.start + to[k]
<1> DEFINE parts == Parts(whole, n, from, to)
<1>0. /\ from \in [1 .. n -> 0 .. Len(whole.text)] /\ to \in [1 .. n -> 0 .. Len(whole.text)]
      /\ \A k \in 1 .. n : from[k] <= to[k]
      /\ \A j, k \in 1 .. n : j < k => to[j] <= from[k]
      /\ parts = [k \in 1 .. n |-> Part(whole, from[k], to[k])]
  BY DEF Following, Parts
<1> HIDE DEF parts
<1>1. /\ whole.start \in Nat /\ Len(whole.text) \in Nat
  BY SpanParts
<1>2. ASSUME NEW k \in 1 .. n
      PROVE  /\ parts[k] = Part(whole, from[k], to[k])
             /\ Sliced(text, parts[k]) /\ Inside(parts[k], whole) /\ parts[k] \in Spans
             /\ parts[k].start = whole.start + from[k] /\ EndOf(parts[k]) = whole.start + to[k]
  <2>1. from[k] \in 0 .. Len(whole.text) /\ to[k] \in 0 .. Len(whole.text) /\ from[k] <= to[k]
    BY <1>0
  <2>2. parts[k] = Part(whole, from[k], to[k])
    BY <1>0
  <2>3. /\ Sliced(text, Part(whole, from[k], to[k])) /\ Inside(Part(whole, from[k], to[k]), whole)
        /\ Part(whole, from[k], to[k]).start = whole.start + from[k]
        /\ EndOf(Part(whole, from[k], to[k])) = whole.start + IF from[k] <= to[k] THEN to[k] ELSE from[k]
    BY <2>1, PartSliced
  <2> QED
    BY <2>1, <2>2, <2>3 DEF Sliced
<1>3. parts \in Seq(Spans) /\ Len(parts) = n
  <2>1. parts \in [1 .. n -> Spans]
    BY <1>0, <1>2
  <2> QED
    BY <2>1
<1>4. ASSUME NEW j \in 1 .. n, NEW k \in 1 .. n, j < k PROVE EndOf(parts[j]) <= parts[k].start
  <2>1. to[j] <= from[k] /\ to[j] \in Nat /\ from[k] \in Nat
    BY <1>0, <1>1, <1>4
  <2>2. EndOf(parts[j]) = whole.start + to[j] /\ parts[k].start = whole.start + from[k]
    BY <1>2
  <2>3. whole.start + to[j] <= whole.start + from[k]
    BY <1>1, <2>1
  <2> QED
    BY <2>2, <2>3
<1> QED
  BY <1>2, <1>3, <1>4 DEF Cut, parts

\* A text is cut at every separator, and at nothing else.
Cuts(text, separator) == Ordered(text, {i \in 1 .. Len(text) : text[i] = separator})

\* The cuts, and the parts that lie between them.
SplitAt(parts, cuts, whole, separator) ==
  /\ cuts \in Seq(1 .. Len(whole.text))
  /\ \A j, k \in 1 .. Len(cuts) : j < k => cuts[j] < cuts[k]
  /\ \A i \in 1 .. Len(whole.text) :
       whole.text[i] = separator <=> \E k \in 1 .. Len(cuts) : cuts[k] = i
  /\ Len(parts) = Len(cuts) + 1
  /\ \A k \in 1 .. Len(parts) :
       /\ parts[k].start = whole.start + (IF k = 1 THEN 0 ELSE cuts[k - 1])
       /\ EndOf(parts[k]) = whole.start + (IF k \in DOMAIN cuts THEN cuts[k] - 1 ELSE Len(whole.text))

\* Splitting cuts a text, at the separators.
LEMMA SplitCut ==
  ASSUME NEW text \in Seq(Symbols), NEW whole, Sliced(text, whole), NEW separator \in Symbols,
         NEW cuts, cuts = Cuts(whole.text, separator)
  PROVE  /\ Cut(split(whole, separator), text, whole)
         /\ SplitAt(split(whole, separator), cuts, whole, separator)
<1> DEFINE inner == whole.text
           n == Len(inner)
           seps == {i \in 1 .. n : inner[i] = separator}
           m == Len(cuts)
           from == [k \in 1 .. m + 1 |-> IF k = 1 THEN 0 ELSE cuts[k - 1]]
           to == [k \in 1 .. m + 1 |-> IF k \in DOMAIN cuts THEN cuts[k] - 1 ELSE n]
           parts == split(whole, separator)
<1>1. inner \in Seq(Symbols) /\ n \in Nat /\ DOMAIN inner = 1 .. n
  <2>1. inner \in Seq(Symbols)
    BY SpanParts
  <2> QED
    BY <2>1
<1>2. cuts = Ordered(inner, seps)
  BY DEF Cuts
<1>3. seps \in SUBSET (1 .. n)
  OBVIOUS
<1>4. /\ cuts \in Seq(1 .. n)
      /\ \A k \in 1 .. m : cuts[k] \in seps
      /\ \A j, k \in 1 .. m : j < k => cuts[j] < cuts[k]
      /\ \A p \in seps : \E k \in 1 .. m : cuts[k] = p
  <2> DEFINE at == Ordered(inner, seps)
  <2>1. /\ at \in Seq(1 .. n)
        /\ \A k \in 1 .. Len(at) : at[k] \in seps
        /\ \A j, k \in 1 .. Len(at) : j < k => at[j] < at[k]
        /\ \A p \in seps : \E k \in 1 .. Len(at) : at[k] = p
    <3> HIDE DEF seps
    <3> QED
      BY <1>1, <1>3, OrderedPositions
  <2> HIDE DEF seps
  <2> QED
    BY <1>2, <2>1
<1>5. m \in Nat /\ DOMAIN cuts = 1 .. m /\ \A k \in 1 .. m : cuts[k] \in 1 .. n
  <2> DEFINE places == 1 .. n
  <2>1. cuts \in Seq(places)
    BY <1>4
  <2> HIDE DEF places
  <2>2. m \in Nat /\ DOMAIN cuts = 1 .. m /\ \A k \in 1 .. m : cuts[k] \in places
    BY <2>1
  <2> QED
    BY <2>2 DEF places
<1>6. \A i \in 1 .. n : inner[i] = separator <=> \E k \in 1 .. m : cuts[k] = i
  BY <1>4
<1> HIDE DEF seps, n, m
<1>7. \A k \in 1 .. m + 1 : /\ from[k] = IF k = 1 THEN 0 ELSE cuts[k - 1]
                            /\ to[k] = IF k \in 1 .. m THEN cuts[k] - 1 ELSE n
  BY <1>5
<1>8. parts = [k \in 1 .. m + 1 |-> Part(whole, from[k], to[k])]
  <2>1. [i \in DOMAIN inner |-> IF inner[i] = separator THEN <<i>> ELSE <<>>]
          = [i \in DOMAIN inner |-> IF i \in seps THEN <<i>> ELSE <<>>]
    BY <1>1 DEF seps, n
  <2>2. Where(whole.text, LAMBDA i : whole.text[i] = separator) = cuts
    BY <1>2, <2>1 DEF Where, Ordered
  <2> QED
    BY <2>2 DEF split, m, n
<1>9. from \in [1 .. m + 1 -> 0 .. n] /\ to \in [1 .. m + 1 -> 0 .. n]
  <2>1. ASSUME NEW k \in 1 .. m + 1
        PROVE  from[k] \in 0 .. n /\ to[k] \in 0 .. n
    <3>1. k # 1 => k - 1 \in 1 .. m
      BY <1>5
    <3>2. from[k] \in 0 .. n
      <4>1. (k = 1 => from[k] = 0) /\ (k # 1 => from[k] = cuts[k - 1] /\ cuts[k - 1] \in 1 .. n)
        BY <1>5, <1>7, <3>1
      <4> HIDE DEF from
      <4> QED
        BY <1>1, <4>1
    <3>3. to[k] \in 0 .. n
      <4>1. \/ k \in 1 .. m /\ to[k] = cuts[k] - 1 /\ cuts[k] \in 1 .. n
            \/ to[k] = n
        BY <1>5, <1>7
      <4> HIDE DEF to
      <4> QED
        BY <1>1, <4>1
    <3> QED
      BY <3>2, <3>3
  <2> QED
    BY <2>1
<1> HIDE DEF from, to
<1>10. ASSUME NEW k \in 1 .. m + 1 PROVE from[k] <= to[k]
  <2>1. CASE k = 1
    <3>1. from[k] = 0 /\ to[k] \in 0 .. n
      BY <1>7, <1>9, <2>1
    <3> QED
      BY <1>1, <3>1
  <2>2. CASE k # 1
    <3>1. k - 1 \in 1 .. m /\ k - 1 < k
      BY <1>5, <2>2
    <3>2. from[k] = cuts[k - 1] /\ cuts[k - 1] \in 1 .. n
      BY <1>5, <1>7, <2>2, <3>1
    <3>3. CASE k \in 1 .. m
      <4>1. cuts[k - 1] < cuts[k] /\ cuts[k] \in 1 .. n /\ to[k] = cuts[k] - 1
        BY <1>4, <1>5, <1>7, <3>1, <3>3
      <4> QED
        BY <1>1, <3>2, <4>1
    <3>4. CASE k \notin 1 .. m
      <4>1. to[k] = n
        BY <1>7, <3>4
      <4> QED
        BY <1>1, <3>2, <4>1
    <3> QED
      BY <3>3, <3>4
  <2> QED
    BY <2>1, <2>2
<1>11. ASSUME NEW j \in 1 .. m + 1, NEW k \in 1 .. m + 1, j < k PROVE to[j] <= from[k]
  <2>1. k # 1 /\ k - 1 \in 1 .. m /\ j \in 1 .. m /\ j <= k - 1
    BY <1>5, <1>11
  <2>2. to[j] = cuts[j] - 1 /\ from[k] = cuts[k - 1]
    BY <1>7, <2>1
  <2>3. cuts[j] \in 1 .. n /\ cuts[k - 1] \in 1 .. n
    BY <1>5, <2>1
  <2>4. j = k - 1 \/ cuts[j] < cuts[k - 1]
    <3>1. j # k - 1 => j < k - 1
      BY <2>1
    <3> QED
      BY <1>4, <2>1, <3>1
  <2> QED
    BY <1>1, <2>2, <2>3, <2>4
<1>12. m + 1 \in Nat
  BY <1>5
<1>13. /\ Cut(parts, text, whole) /\ Len(parts) = m + 1
       /\ \A k \in 1 .. m + 1 : /\ parts[k].start = whole.start + from[k]
                                /\ EndOf(parts[k]) = whole.start + to[k]
  <2>1. parts = Parts(whole, m + 1, from, to)
    BY <1>8 DEF Parts
  <2>2. Following(whole, m + 1, from, to)
    <3>1. from \in [1 .. m + 1 -> 0 .. Len(whole.text)] /\ to \in [1 .. m + 1 -> 0 .. Len(whole.text)]
      BY <1>9 DEF n
    <3> QED
      BY <1>10, <1>11, <3>1 DEF Following
  <2> HIDE DEF parts
  <2> QED
    BY <1>12, <2>1, <2>2, PartsCut
<1>14. ASSUME NEW k \in 1 .. m + 1
       PROVE  /\ parts[k].start = whole.start + IF k = 1 THEN 0 ELSE cuts[k - 1]
              /\ EndOf(parts[k]) = whole.start + IF k \in DOMAIN cuts THEN cuts[k] - 1 ELSE n
  <2> HIDE DEF parts
  <2>1. parts[k].start = whole.start + from[k] /\ EndOf(parts[k]) = whole.start + to[k]
    BY <1>13
  <2>2. from[k] = (IF k = 1 THEN 0 ELSE cuts[k - 1]) /\ to[k] = IF k \in DOMAIN cuts THEN cuts[k] - 1 ELSE n
    BY <1>5, <1>7
  <2> QED
    BY <2>1, <2>2
<1> HIDE DEF parts
<1>15. SplitAt(parts, cuts, whole, separator)
  BY <1>4, <1>6, <1>13, <1>14 DEF SplitAt, m, n
<1> QED
  BY <1>13, <1>15 DEF parts

-------------------------------------------------------------------------------
\* Cuts of spans that are themselves one after the other, laid end to end.
Fill(seqs, text, containers) ==
  /\ seqs \in Seq(Seq(Spans)) /\ Len(seqs) = Len(containers)
  /\ \A k \in 1 .. Len(containers) : Cut(seqs[k], text, containers[k])

\* A list has the items of some lists, and no others.
Gathers(flat, seqs) ==
  /\ \A j \in 1 .. Len(flat) : \E k \in 1 .. Len(seqs) : \E p \in 1 .. Len(seqs[k]) : flat[j] = seqs[k][p]
  /\ \A k \in 1 .. Len(seqs) : \A p \in 1 .. Len(seqs[k]) : \E j \in 1 .. Len(flat) : flat[j] = seqs[k][p]

\* The cuts of the parts of a cut, laid end to end, are a cut.
LEMMA FlattenCut ==
  ASSUME NEW text \in Seq(Symbols), NEW whole, Sliced(text, whole),
         NEW containers, Cut(containers, text, whole),
         NEW seqs, Fill(seqs, text, containers)
  PROVE  Cut(FlattenSeq(seqs), text, whole) /\ Gathers(FlattenSeq(seqs), seqs)
<1> DEFINE flat == FlattenSeq(seqs)
           n == Len(seqs)
           m == Len(flat)
<1>0. /\ seqs \in Seq(Seq(Spans)) /\ Len(seqs) = Len(containers)
      /\ \A k \in 1 .. Len(containers) : Cut(seqs[k], text, containers[k])
  BY DEF Fill
<1>1. flat \in Seq(Spans) /\ \E from, place : Laid(flat, seqs, n, from, place)
  BY <1>0, Flattened
<1>2. PICK from, place : Laid(flat, seqs, n, from, place)
  BY <1>1
<1>3. n \in Nat /\ m \in Nat /\ n = Len(containers)
  BY <1>0, <1>1
<1> HIDE DEF flat, n, m
<1>4. /\ from \in [1 .. m -> 1 .. n]
      /\ \A j \in 1 .. m : place[j] \in 1 .. Len(seqs[from[j]]) /\ flat[j] = seqs[from[j]][place[j]]
      /\ \A i, j \in 1 .. m : i < j => from[i] < from[j] \/ (from[i] = from[j] /\ place[i] < place[j])
      /\ \A k \in 1 .. n : \A p \in 1 .. Len(seqs[k]) : \E j \in 1 .. m : from[j] = k /\ place[j] = p
  BY <1>2 DEF Laid, m
<1>5. \A j \in 1 .. m : from[j] \in 1 .. n
  BY <1>4
<1>6. ASSUME NEW j \in 1 .. m
      PROVE  /\ from[j] \in 1 .. n /\ Sliced(text, containers[from[j]]) /\ Inside(containers[from[j]], whole)
             /\ Sliced(text, flat[j]) /\ Inside(flat[j], containers[from[j]]) /\ Inside(flat[j], whole)
  <2>1. from[j] \in 1 .. n /\ place[j] \in 1 .. Len(seqs[from[j]]) /\ flat[j] = seqs[from[j]][place[j]]
    BY <1>4, <1>5
  <2>2. Sliced(text, containers[from[j]]) /\ Inside(containers[from[j]], whole)
    BY <1>3, <2>1 DEF Cut
  <2>3. Cut(seqs[from[j]], text, containers[from[j]])
    BY <1>0, <1>3, <2>1
  <2>4. Sliced(text, flat[j]) /\ Inside(flat[j], containers[from[j]])
    BY <2>1, <2>3 DEF Cut
  <2>5. Inside(flat[j], whole)
    BY <2>2, <2>4, InsideInside
  <2> QED
    BY <2>1, <2>2, <2>4, <2>5
<1>7. ASSUME NEW i \in 1 .. m, NEW j \in 1 .. m, i < j PROVE EndOf(flat[i]) <= flat[j].start
  <2>1. CASE from[i] = from[j]
    <3>1. /\ from[i] \in 1 .. n /\ place[i] \in 1 .. Len(seqs[from[i]]) /\ place[j] \in 1 .. Len(seqs[from[i]])
          /\ flat[i] = seqs[from[i]][place[i]] /\ flat[j] = seqs[from[i]][place[j]]
      BY <1>4, <1>5, <2>1
    <3>2. place[i] < place[j]
      <4>1. from[i] \in Int /\ from[j] \in Int
        BY <1>3, <1>5
      <4> QED
        BY <1>4, <1>7, <2>1, <4>1
    <3>3. Cut(seqs[from[i]], text, containers[from[i]])
      BY <1>0, <1>3, <3>1
    <3> QED
      BY <3>1, <3>2, <3>3 DEF Cut
  <2>2. CASE from[i] # from[j]
    <3>1. from[i] < from[j]
      BY <1>4, <1>7, <2>2
    <3>2. EndOf(containers[from[i]]) <= containers[from[j]].start
      BY <1>3, <1>6, <3>1 DEF Cut
    <3>3. EndOf(flat[i]) <= EndOf(containers[from[i]]) /\ containers[from[j]].start <= flat[j].start
      BY <1>6 DEF Inside
    <3>4. /\ EndOf(flat[i]) \in Nat /\ EndOf(containers[from[i]]) \in Nat
          /\ containers[from[j]].start \in Nat /\ flat[j].start \in Nat
      BY <1>6, SpanParts
    <3> QED
      BY <3>2, <3>3, <3>4
  <2> QED
    BY <2>1, <2>2
<1>8. Cut(flat, text, whole)
  BY <1>1, <1>6, <1>7 DEF Cut, m
<1>9. ASSUME NEW j \in 1 .. m PROVE \E k \in 1 .. n : \E p \in 1 .. Len(seqs[k]) : flat[j] = seqs[k][p]
  <2>1. from[j] \in 1 .. n /\ place[j] \in 1 .. Len(seqs[from[j]]) /\ flat[j] = seqs[from[j]][place[j]]
    BY <1>4, <1>5
  <2> QED
    BY <2>1
<1>10. ASSUME NEW k \in 1 .. n, NEW p \in 1 .. Len(seqs[k]) PROVE \E j \in 1 .. m : flat[j] = seqs[k][p]
  <2>1. PICK j \in 1 .. m : from[j] = k /\ place[j] = p
    BY <1>4
  <2> QED
    BY <1>4, <2>1
<1> QED
  BY <1>8, <1>9, <1>10 DEF flat, n, m, Gathers
-------------------------------------------------------------------------------
\* A run of terminators, the quotes it takes and the spaces after them are over
\* before the next one begins.
LEMMA RunParts ==
  ASSUME NEW text \in Seq(Symbols), NEW i \in Runs(text)
  PROVE  /\ i \in 0 .. Len(text) - 1
         /\ Closing(text, i) \in i + 1 .. Len(text)
         /\ Resuming(text, i) \in Closing(text, i) .. Len(text)
         /\ \A k \in Closing(text, i) + 1 .. Resuming(text, i) : text[k] = "space"
         /\ \A j \in Runs(text) : i < j => Resuming(text, i) <= j
<1> DEFINE n == Len(text)
           over == EndOfRun(text, i)
           close == Closing(text, i)
           resume == Resuming(text, i)
<1>1. n \in Nat /\ DOMAIN text = 1 .. n
  OBVIOUS
<1>2. \A j \in Runs(text) : /\ j \in 0 .. n - 1 /\ At(text, j + 1) \in Terminators
                            /\ At(text, j) \notin Terminators
  BY DEF Runs
<1>3. "end" \notin Terminators /\ "end" \notin {"quote"} /\ "end" \notin {"space"}
  BY DEF Terminators
<1>4. "quote" \notin Terminators /\ "space" \notin Terminators
  BY DEF Terminators
<1>5. i \in 0 .. n /\ i \in 0 .. n - 1
  BY <1>1, <1>2
<1>6. /\ over \in i .. n /\ At(text, over + 1) \notin Terminators
      /\ \A k \in i .. over - 1 : At(text, k + 1) \in Terminators
  BY <1>3, <1>5, SkipEnds DEF EndOfRun
<1> HIDE DEF over
<1>7. over \in i + 1 .. n /\ over \in 0 .. n
  BY <1>1, <1>2, <1>5, <1>6
<1>8. close = skip(text, over, {"quote"}) /\ resume = skip(text, close, {"space"})
  BY DEF Closing, Resuming, over
<1> HIDE DEF close, resume
<1>9. close \in over .. n
  BY <1>3, <1>7, <1>8, SkipEnds
<1>10. close \in i + 1 .. n /\ close \in 0 .. n
  BY <1>1, <1>5, <1>7, <1>9
<1>11. resume \in close .. n /\ \A k \in close .. resume - 1 : At(text, k + 1) \in {"space"}
  BY <1>3, <1>8, <1>10, SkipEnds
<1>12. ASSUME NEW k \in close + 1 .. resume PROVE text[k] = "space"
  <2>1. k - 1 \in close .. resume - 1 /\ (k - 1) + 1 = k /\ k \in 1 .. n
    BY <1>1, <1>10, <1>11
  <2>2. At(text, k) = "space"
    BY <1>11, <2>1
  <2> QED
    BY <1>1, <2>1, <2>2 DEF At
<1>13. ASSUME NEW j \in Runs(text), i < j PROVE resume <= j
  <2>1. j \in 0 .. n - 1 /\ At(text, j + 1) \in Terminators /\ At(text, j) \notin Terminators
    BY <1>2
  <2>2. over <= j
    <3> SUFFICES ASSUME j < over PROVE FALSE
      BY <1>1, <1>7, <2>1
    <3>1. j - 1 \in i .. over - 1 /\ (j - 1) + 1 = j
      BY <1>1, <1>5, <1>7, <1>13, <2>1
    <3> QED
      BY <1>6, <2>1, <3>1
  <2>3. j \in over .. n
    BY <1>1, <1>7, <2>1, <2>2
  <2>4. close <= j
    <3>1. At(text, j + 1) \notin {"quote"}
      BY <1>4, <2>1
    <3> QED
      BY <1>3, <1>7, <1>8, <2>3, <3>1, SkipStops
  <2>5. j \in close .. n
    BY <1>1, <1>10, <2>1, <2>4
  <2>6. At(text, j + 1) \notin {"space"}
    BY <1>4, <2>1
  <2> QED
    BY <1>3, <1>8, <1>10, <2>5, <2>6, SkipStops
<1> QED
  BY <1>5, <1>10, <1>11, <1>12, <1>13 DEF n, close, resume

\* The sentences of a span lie in it one after the other, and have all of its
\* text but spaces.
LEMMA SentencesCut ==
  ASSUME NEW text \in Seq(Symbols), NEW whole, Sliced(text, whole)
  PROVE  LET sentences == splitSentences(whole)
         IN  /\ Cut(sentences, text, whole)
             /\ \A k \in 1 .. Len(sentences) : sentences[k].text # <<>>
             /\ \A i \in 1 .. Len(whole.text) : whole.text[i] # "space" =>
                  \E k \in 1 .. Len(sentences) : Holds(sentences[k], whole.start + i)
<1> DEFINE inner == whole.text
           n == Len(inner)
           stops == {i \in 1 .. n : i - 1 \in Runs(inner) /\ endsSentence(inner, i - 1)}
           ends == Ordered(inner, stops)
           m == Len(ends)
           from == [k \in 1 .. m + 1 |-> IF k = 1 THEN 0 ELSE Resuming(inner, ends[k - 1] - 1)]
           to == [k \in 1 .. m + 1 |-> IF k \in DOMAIN ends THEN Closing(inner, ends[k] - 1) ELSE n]
           parts == Parts(whole, m + 1, from, to)
<1>1. inner \in Seq(Symbols) /\ n \in Nat /\ DOMAIN inner = 1 .. n /\ whole.start \in Nat
  <2>1. inner \in Seq(Symbols) /\ whole.start \in Nat
    BY SpanParts
  <2> QED
    BY <2>1
<1>2. Ends(inner) = ends
  <2>1. [i \in DOMAIN inner |-> IF i - 1 \in Runs(inner) /\ endsSentence(inner, i - 1)
                                THEN <<i>> ELSE <<>>]
          = [i \in DOMAIN inner |-> IF i \in stops THEN <<i>> ELSE <<>>]
    BY <1>1 DEF stops, n
  <2> QED
    BY <2>1 DEF Ends, Where, Ordered
<1>3. splitSentences(whole) = Trimmed(parts)
  BY <1>2 DEF splitSentences, Parts
<1>4. /\ ends \in Seq(1 .. n)
      /\ \A k \in 1 .. m : ends[k] \in stops
      /\ \A j, k \in 1 .. m : j < k => ends[j] < ends[k]
  <2>1. stops \in SUBSET (1 .. n)
    OBVIOUS
  <2> HIDE DEF stops
  <2> QED
    BY <1>1, <2>1, OrderedPositions
<1>5. m \in Nat /\ DOMAIN ends = 1 .. m /\ \A k \in 1 .. m : ends[k] - 1 \in Runs(inner) /\ ends[k] \in 1 .. n
  <2>1. m \in Nat /\ DOMAIN ends = 1 .. m
    <3> HIDE DEF ends, n
    <3> QED
      BY <1>4
  <2>2. \A i \in stops : i - 1 \in Runs(inner) /\ i \in 1 .. n
    OBVIOUS
  <2> HIDE DEF stops, ends, n
  <2> QED
    BY <1>4, <2>1, <2>2
<1> HIDE DEF ends, m, n
<1> DEFINE close == [k \in 1 .. m |-> Closing(inner, ends[k] - 1)]
           resume == [k \in 1 .. m |-> Resuming(inner, ends[k] - 1)]
<1>6. ASSUME NEW k \in 1 .. m
      PROVE  /\ close[k] \in ends[k] .. n /\ resume[k] \in close[k] .. n
             /\ \A i \in close[k] + 1 .. resume[k] : inner[i] = "space"
  <2> DEFINE i == ends[k] - 1
  <2>1. i \in Runs(inner) /\ ends[k] \in 1 .. n
    BY <1>5
  <2>2. i + 1 = ends[k] /\ close[k] = Closing(inner, i) /\ resume[k] = Resuming(inner, i)
    BY <1>1, <2>1
  <2> HIDE DEF i, close, resume
  <2>3. /\ Closing(inner, i) \in i + 1 .. n /\ Resuming(inner, i) \in Closing(inner, i) .. n
        /\ \A j \in Closing(inner, i) + 1 .. Resuming(inner, i) : inner[j] = "space"
    BY <1>1, <2>1, RunParts DEF n
  <2> QED
    BY <2>2, <2>3
<1>7. ASSUME NEW j \in 1 .. m, NEW k \in 1 .. m, j < k PROVE resume[j] < ends[k]
  <2>1. ends[j] - 1 \in Runs(inner) /\ ends[k] - 1 \in Runs(inner) /\ ends[j] \in 1 .. n /\ ends[k] \in 1 .. n
    BY <1>5
  <2>2. ends[j] < ends[k]
    BY <1>4, <1>7 DEF m
  <2>3. ends[j] - 1 < ends[k] - 1
    BY <1>1, <2>1, <2>2
  <2>4. Resuming(inner, ends[j] - 1) <= ends[k] - 1
    BY <1>1, <2>1, <2>3, RunParts
  <2>5. resume[j] \in close[j] .. n /\ close[j] \in ends[j] .. n /\ resume[j] = Resuming(inner, ends[j] - 1)
    BY <1>6
  <2> HIDE DEF resume, close
  <2> QED
    BY <1>1, <2>1, <2>4, <2>5
<1>8. \A k \in 1 .. m + 1 : /\ from[k] = IF k = 1 THEN 0 ELSE resume[k - 1]
                            /\ to[k] = IF k \in 1 .. m THEN close[k] ELSE n
  <2> SUFFICES ASSUME NEW k \in 1 .. m + 1
               PROVE  /\ from[k] = IF k = 1 THEN 0 ELSE resume[k - 1]
                      /\ to[k] = IF k \in 1 .. m THEN close[k] ELSE n
    OBVIOUS
  <2>1. k # 1 => k - 1 \in 1 .. m
    BY <1>5
  <2>2. k # 1 => resume[k - 1] = Resuming(inner, ends[k - 1] - 1)
    BY <2>1
  <2>3. k \in 1 .. m => close[k] = Closing(inner, ends[k] - 1)
    OBVIOUS
  <2>4. from[k] = (IF k = 1 THEN 0 ELSE Resuming(inner, ends[k - 1] - 1))
    OBVIOUS
  <2>5. to[k] = (IF k \in 1 .. m THEN Closing(inner, ends[k] - 1) ELSE n)
    BY <1>5
  <2> HIDE DEF from, to, resume, close
  <2> QED
    BY <2>2, <2>3, <2>4, <2>5
<1>9. DOMAIN from = 1 .. m + 1 /\ DOMAIN to = 1 .. m + 1
  OBVIOUS
<1>10. from = [k \in 1 .. m + 1 |-> from[k]] /\ to = [k \in 1 .. m + 1 |-> to[k]]
  OBVIOUS
<1> HIDE DEF from, to, close, resume
<1>11. ASSUME NEW k \in 1 .. m PROVE ends[k] \in 1 .. n /\ close[k] \in 1 .. n /\ resume[k] \in 1 .. n
                                     /\ ends[k] <= close[k] /\ close[k] <= resume[k]
  BY <1>1, <1>5, <1>6
<1>12. ASSUME NEW k \in 1 .. m + 1 PROVE from[k] \in 0 .. n /\ to[k] \in 0 .. n /\ from[k] <= to[k]
  <2>1. CASE k = 1
    <3>1. from[k] = 0
      BY <1>8, <2>1
    <3>2. to[k] \in 0 .. n
      BY <1>1, <1>8, <1>11
    <3> QED
      BY <1>1, <3>1, <3>2
  <2>2. CASE k # 1
    <3>1. k - 1 \in 1 .. m /\ k - 1 < k
      BY <1>5, <2>2
    <3>2. from[k] = resume[k - 1] /\ resume[k - 1] \in 1 .. n
      BY <1>8, <1>11, <2>2, <3>1
    <3>3. CASE k \in 1 .. m
      <4>1. resume[k - 1] < ends[k] /\ ends[k] <= close[k] /\ to[k] = close[k]
            /\ close[k] \in 1 .. n /\ ends[k] \in 1 .. n
        BY <1>7, <1>8, <1>11, <3>1, <3>3
      <4> QED
        BY <1>1, <3>2, <4>1
    <3>4. CASE k \notin 1 .. m
      <4>1. to[k] = n
        BY <1>8, <3>4
      <4> QED
        BY <1>1, <3>2, <4>1
    <3> QED
      BY <3>3, <3>4
  <2> QED
    BY <2>1, <2>2
<1>13. ASSUME NEW j \in 1 .. m + 1, NEW k \in 1 .. m + 1, j < k PROVE to[j] <= from[k]
  <2>1. k # 1 /\ k - 1 \in 1 .. m /\ j \in 1 .. m /\ (j = k - 1 \/ j < k - 1)
    BY <1>5, <1>13
  <2>2. to[j] = close[j] /\ from[k] = resume[k - 1]
    BY <1>8, <2>1
  <2>3. j < k - 1 => resume[j] < ends[k - 1]
    BY <1>7, <2>1
  <2>4. /\ close[j] \in 1 .. n /\ resume[j] \in 1 .. n /\ close[j] <= resume[j]
        /\ ends[k - 1] \in 1 .. n /\ close[k - 1] \in 1 .. n /\ resume[k - 1] \in 1 .. n
        /\ ends[k - 1] <= close[k - 1] /\ close[k - 1] <= resume[k - 1]
    BY <1>11, <2>1
  <2> QED
    BY <1>1, <2>1, <2>2, <2>3, <2>4
<1>14. Following(whole, m + 1, from, to)
  <2>1. from \in [1 .. m + 1 -> 0 .. n] /\ to \in [1 .. m + 1 -> 0 .. n]
    BY <1>10, <1>12
  <2> QED
    BY <1>12, <1>13, <2>1 DEF Following, n
<1>15. /\ Cut(parts, text, whole) /\ Len(parts) = m + 1
       /\ \A k \in 1 .. m + 1 : /\ parts[k] = Part(whole, from[k], to[k])
                                /\ parts[k].start = whole.start + from[k]
                                /\ EndOf(parts[k]) = whole.start + to[k]
  <2>1. m + 1 \in Nat
    BY <1>5
  <2> QED
    BY <1>14, <2>1, PartsCut
<1>16. ASSUME NEW i \in 1 .. n, inner[i] # "space"
       PROVE  \E k \in 1 .. Len(splitSentences(whole)) : Holds(splitSentences(whole)[k], whole.start + i)
  <2>1. PICK k \in 1 .. m + 1 : i <= to[k] /\ (k # 1 => to[k - 1] < i)
    <3>1. to \in [1 .. m + 1 -> Nat]
      <4>1. \A k \in 1 .. m + 1 : to[k] \in Nat
        BY <1>1, <1>12
      <4> QED
        BY <1>10, <4>1
    <3>2. to[m + 1] = n
      BY <1>5, <1>8
    <3> QED
      BY <1>1, <1>5, <3>1, <3>2, FirstReaching
  <2>2. from[k] < i
    <3>1. CASE k = 1
      BY <1>8, <3>1
    <3>2. CASE k # 1
      <4>1. k - 1 \in 1 .. m /\ k - 1 \in 1 .. m + 1
        BY <1>5, <3>2
      <4>2. to[k - 1] = close[k - 1] /\ from[k] = resume[k - 1]
        BY <1>8, <3>2, <4>1
      <4>3. close[k - 1] \in 1 .. n /\ resume[k - 1] \in 1 .. n
        BY <1>11, <4>1
      <4>4. ~(i \in close[k - 1] + 1 .. resume[k - 1])
        BY <1>6, <1>16, <4>1
      <4> QED
        BY <1>1, <2>1, <3>2, <4>2, <4>3, <4>4
    <3> QED
      BY <3>1, <3>2
  <2>3. Holds(parts[k], whole.start + i)
    <3>1. from[k] \in 0 .. n /\ to[k] \in 0 .. n
      BY <1>12
    <3>2. whole.start + from[k] < whole.start + i /\ whole.start + i <= whole.start + to[k]
      BY <1>1, <2>1, <2>2, <3>1
    <3> QED
      BY <1>15, <3>2 DEF Holds
  <2>4. text[whole.start + i] # "space"
    <3>1. text[whole.start + i] = inner[i]
      BY SpanParts DEF n
    <3> QED
      BY <1>16, <3>1
  <2>5. whole.start + i \in Nat /\ k \in 1 .. Len(parts)
    BY <1>1, <1>15
  <2> HIDE DEF parts
  <2> QED
    BY <1>3, <1>15, <2>3, <2>4, <2>5, TrimmedHolds
<1> HIDE DEF parts
<1>17. Cut(splitSentences(whole), text, whole)
       /\ \A k \in 1 .. Len(splitSentences(whole)) : splitSentences(whole)[k].text # <<>>
  BY <1>3, <1>15, TrimmedCut
<1> QED
  BY <1>16, <1>17 DEF n
-------------------------------------------------------------------------------
\* What is no separator is in one of the parts.
LEMMA SplitHolds ==
  ASSUME NEW text \in Seq(Symbols), NEW whole, Sliced(text, whole), NEW separator \in Symbols,
         NEW i \in 1 .. Len(whole.text), whole.text[i] # separator
  PROVE  \E k \in 1 .. Len(split(whole, separator)) : Holds(split(whole, separator)[k], whole.start + i)
<1> DEFINE cuts == Cuts(whole.text, separator)
           parts == split(whole, separator)
           n == Len(whole.text)
           m == Len(cuts)
           to == [k \in 1 .. m + 1 |-> IF k \in DOMAIN cuts THEN cuts[k] - 1 ELSE n]
<1>1. whole.start \in Nat /\ n \in Nat
  BY SpanParts
<1>2. /\ cuts \in Seq(1 .. n)
      /\ \A p \in 1 .. n : whole.text[p] = separator <=> \E k \in 1 .. m : cuts[k] = p
      /\ Len(parts) = m + 1
      /\ \A k \in 1 .. Len(parts) :
           /\ parts[k].start = whole.start + (IF k = 1 THEN 0 ELSE cuts[k - 1])
           /\ EndOf(parts[k]) = whole.start + (IF k \in DOMAIN cuts THEN cuts[k] - 1 ELSE n)
  <2>1. SplitAt(parts, cuts, whole, separator)
    BY SplitCut
  <2> HIDE DEF cuts, parts
  <2> QED
    BY <2>1 DEF SplitAt
<1> HIDE DEF cuts, parts
<1>3. m \in Nat /\ DOMAIN cuts = 1 .. m /\ \A k \in 1 .. m : cuts[k] \in 1 .. n
  <2> DEFINE places == 1 .. n
  <2>1. cuts \in Seq(places)
    BY <1>2
  <2> HIDE DEF places
  <2>2. m \in Nat /\ DOMAIN cuts = 1 .. m /\ \A k \in 1 .. m : cuts[k] \in places
    BY <2>1
  <2> QED
    BY <2>2 DEF places
<1> HIDE DEF n, m
<1>4. \A k \in 1 .. m + 1 : to[k] = IF k \in 1 .. m THEN cuts[k] - 1 ELSE n
  BY <1>3
<1>5. to = [k \in 1 .. m + 1 |-> to[k]]
  OBVIOUS
<1> HIDE DEF to
<1>6. to \in [1 .. m + 1 -> Nat]
  <2>1. ASSUME NEW k \in 1 .. m + 1 PROVE to[k] \in Nat
    <3>1. CASE k \in 1 .. m
      <4>1. to[k] = cuts[k] - 1 /\ cuts[k] \in 1 .. n
        BY <1>3, <1>4, <3>1
      <4> QED
        BY <1>1, <4>1
    <3>2. CASE k \notin 1 .. m
      BY <1>1, <1>4, <3>2
    <3> QED
      BY <3>1, <3>2
  <2> QED
    BY <1>5, <2>1
<1>7. to[m + 1] = n
  BY <1>3, <1>4
<1>8. i \in 1 .. n
  BY DEF n
<1>9. PICK k \in 1 .. m + 1 : i <= to[k] /\ (k # 1 => to[k - 1] < i)
  BY <1>3, <1>6, <1>7, <1>8, FirstReaching
<1>10. EndOf(parts[k]) = whole.start + to[k] /\ k \in 1 .. Len(parts)
  BY <1>2, <1>3, <1>4 DEF m, n
<1>11. whole.start + i <= EndOf(parts[k])
  <2>1. to[k] \in Nat
    BY <1>6
  <2> QED
    BY <1>1, <1>8, <1>9, <1>10, <2>1
<1>12. parts[k].start < whole.start + i
  <2>1. CASE k = 1
    <3>1. parts[k].start = whole.start + 0
      BY <1>2, <1>10, <2>1
    <3> QED
      BY <1>1, <1>8, <3>1
  <2>2. CASE k # 1
    <3>1. k - 1 \in 1 .. m /\ k - 1 \in 1 .. m + 1
      BY <1>3, <2>2
    <3>2. parts[k].start = whole.start + cuts[k - 1]
      BY <1>2, <1>10, <2>2
    <3>3. cuts[k - 1] \in 1 .. n /\ to[k - 1] = cuts[k - 1] - 1
      BY <1>3, <1>4, <3>1
    <3>4. cuts[k - 1] # i
      BY <1>2, <1>8, <3>1 DEF m, n
    <3> QED
      BY <1>1, <1>8, <1>9, <2>2, <3>2, <3>3, <3>4
  <2> QED
    BY <2>1, <2>2
<1>13. Holds(parts[k], whole.start + i)
  BY <1>11, <1>12 DEF Holds
<1> QED
  BY <1>10, <1>13 DEF parts

\* The cells of a row lie in it one after the other, and have all of its text
\* but borders and spaces.
LEMMA CellsCut ==
  ASSUME NEW text \in Seq(Symbols), NEW whole, Sliced(text, whole)
  PROVE  /\ Cut(tableCells(whole), text, whole)
         /\ \A i \in 1 .. Len(whole.text) : whole.text[i] \notin {"bar", "space"} =>
              \E k \in 1 .. Len(tableCells(whole)) : Holds(tableCells(whole)[k], whole.start + i)
<1> DEFINE parts == split(whole, "bar")
<1>1. "bar" \in Symbols
  BY DEF Symbols
<1>2. Cut(parts, text, whole)
  BY <1>1, SplitCut
<1>3. tableCells(whole) = Trimmed(parts)
  BY DEF tableCells
<1>4. ASSUME NEW i \in 1 .. Len(whole.text), whole.text[i] \notin {"bar", "space"}
      PROVE  \E k \in 1 .. Len(tableCells(whole)) : Holds(tableCells(whole)[k], whole.start + i)
  <2>1. PICK k \in 1 .. Len(parts) : Holds(parts[k], whole.start + i)
    BY <1>1, <1>4, SplitHolds
  <2>2. text[whole.start + i] # "space" /\ whole.start + i \in Nat
    <3>1. whole.text[i] = text[whole.start + i] /\ whole.start \in Nat
      BY SpanParts
    <3> QED
      BY <1>4, <3>1
  <2> HIDE DEF parts
  <2> QED
    BY <1>2, <1>3, <2>1, <2>2, TrimmedHolds
<1> HIDE DEF parts
<1> QED
  BY <1>2, <1>3, <1>4, TrimmedCut

\* Leading markup is bullets and spaces.
LEMMA MarkupLeads ==
  ASSUME NEW text \in Seq(Symbols)
  PROVE  /\ leadingMarkup(text) \in 0 .. Len(text)
         /\ \A i \in 1 .. leadingMarkup(text) : text[i] \in {"bullet", "space"}
<1> DEFINE n == Len(text)
           lengths == {k \in DOMAIN text :
                         /\ text[k] = "space"
                         /\ \A j \in 1 .. k : \/ text[j] = "space"
                                              \/ text[j] = "bullet" /\ text[j + 1] = "space"}
           all == {0} \cup lengths
<1>1. n \in Nat /\ DOMAIN text = 1 .. n
  OBVIOUS
<1>2. all \in SUBSET (0 .. n) /\ all # {}
  BY <1>1
<1>3. \A k \in all : \A i \in 1 .. k : text[i] \in {"bullet", "space"}
  <2>1. \A k \in lengths : \A i \in 1 .. k : text[i] \in {"bullet", "space"}
    OBVIOUS
  <2>2. \A i \in 1 .. 0 : text[i] \in {"bullet", "space"}
    OBVIOUS
  <2> QED
    BY <2>1, <2>2
<1>4. leadingMarkup(text) = Max(all)
  BY DEF leadingMarkup
<1> HIDE DEF all
<1>5. Max(all) \in all
  BY <1>1, <1>2, GreatestOf
<1> QED
  BY <1>2, <1>3, <1>4, <1>5

\* What of a line is looked at lies in it, and has all but bullets and spaces.
LEMMA BodyInside ==
  ASSUME NEW text \in Seq(Symbols), NEW line, Sliced(text, line)
  PROVE  /\ Sliced(text, bodyOf(line)) /\ Inside(bodyOf(line), line)
         /\ \A i \in 1 .. Len(line.text) : line.text[i] \notin {"bullet", "space"} =>
              Holds(bodyOf(line), line.start + i)
<1> DEFINE trimmed == trimSpan(line)
           n == Len(trimmed.text)
           markup == leadingMarkup(trimmed.text)
<1>1. /\ Sliced(text, trimmed) /\ Inside(trimmed, line)
      /\ \A i \in 1 .. Len(line.text) : line.text[i] # "space" => Holds(trimmed, line.start + i)
  BY TrimSliced
<1>2. /\ line.start \in Nat /\ Len(line.text) \in Nat
      /\ \A i \in 1 .. Len(line.text) : line.text[i] = text[line.start + i]
  BY SpanParts
<1> HIDE DEF trimmed
<1>3. /\ trimmed.start \in Nat /\ trimmed.text \in Seq(Symbols) /\ n \in Nat /\ EndOf(trimmed) = trimmed.start + n
      /\ \A i \in 1 .. n : trimmed.text[i] = text[trimmed.start + i]
  BY <1>1, SpanParts
<1>4. markup \in 0 .. n /\ \A i \in 1 .. markup : trimmed.text[i] \in {"bullet", "space"}
  BY <1>3, MarkupLeads
<1>5. bodyOf(line) = Part(trimmed, markup, n)
  BY DEF bodyOf, trimmed
<1> HIDE DEF markup
<1>6. /\ Sliced(text, Part(trimmed, markup, n)) /\ Inside(Part(trimmed, markup, n), trimmed)
      /\ Part(trimmed, markup, n).start = trimmed.start + markup
      /\ EndOf(Part(trimmed, markup, n)) = trimmed.start + IF markup <= n THEN n ELSE markup
  <2>1. n \in 0 .. n
    BY <1>3
  <2> QED
    BY <1>1, <1>4, <2>1, PartSliced
<1> HIDE DEF n
<1>7. EndOf(bodyOf(line)) = trimmed.start + n /\ bodyOf(line).start = trimmed.start + markup
  BY <1>3, <1>4, <1>5, <1>6
<1>8. ASSUME NEW i \in 1 .. Len(line.text), line.text[i] \notin {"bullet", "space"}
      PROVE  Holds(bodyOf(line), line.start + i)
  <2> DEFINE p == line.start + i
             j == p - trimmed.start
  <2>1. trimmed.start < p /\ p <= trimmed.start + n
    BY <1>1, <1>3, <1>8 DEF Holds
  <2>2. p \in Nat /\ text[p] \notin {"bullet", "space"}
    BY <1>2, <1>8
  <2> HIDE DEF p
  <2>3. j \in 1 .. n /\ trimmed.start + j = p
    BY <1>3, <2>1, <2>2
  <2>4. trimmed.text[j] \notin {"bullet", "space"}
    BY <1>3, <2>2, <2>3 DEF n
  <2>5. ~(j \in 1 .. markup)
    BY <1>4, <2>4
  <2>6. trimmed.start + markup < p
    BY <1>3, <1>4, <2>2, <2>3, <2>5
  <2> QED
    BY <1>7, <2>1, <2>6 DEF Holds, p
<1>9. Sliced(text, bodyOf(line)) /\ Inside(bodyOf(line), line)
  <2>1. Sliced(text, bodyOf(line)) /\ Inside(bodyOf(line), trimmed)
    BY <1>5, <1>6
  <2> QED
    BY <1>1, <2>1, InsideInside
<1> QED
  BY <1>8, <1>9
-------------------------------------------------------------------------------
Markup == {"bullet", "bar", "space"}

\* The sentences of a line lie in it one after the other, and have all of its
\* text but markup.
LEMMA CandidatesCut ==
  ASSUME NEW text \in Seq(Symbols), NEW line, Sliced(text, line)
  PROVE  /\ Cut(candidatesOf(line), text, line)
         /\ \A k \in 1 .. Len(candidatesOf(line)) : candidatesOf(line)[k].text # <<>>
         /\ \A i \in 1 .. Len(line.text) : line.text[i] \notin Markup =>
              \E k \in 1 .. Len(candidatesOf(line)) : Holds(candidatesOf(line)[k], line.start + i)
<1> DEFINE body == bodyOf(line)
           segments == IF "bar" \in ToSet(body.text) THEN tableCells(body) ELSE <<body>>
           seqs == [k \in DOMAIN segments |-> splitSentences(segments[k])]
           flat == FlattenSeq(seqs)
           m == Len(segments)
<1>1. /\ Sliced(text, body) /\ Inside(body, line)
      /\ \A i \in 1 .. Len(line.text) : line.text[i] \notin {"bullet", "space"} =>
           Holds(body, line.start + i)
  BY BodyInside
<1>2. candidatesOf(line) = flat
  BY DEF candidatesOf
<1> HIDE DEF body
<1>3. /\ body \in Spans /\ body.start \in Nat /\ Len(body.text) \in Nat
      /\ EndOf(body) \in Nat /\ EndOf(body) = body.start + Len(body.text)
      /\ \A i \in 1 .. Len(body.text) : body.text[i] = text[body.start + i]
  BY <1>1, SpanParts DEF Sliced
<1>4. Cut(segments, text, body)
  <2>1. Cut(<<body>>, text, body)
    <3>1. <<body>> \in Seq(Spans) /\ Len(<<body>>) = 1 /\ <<body>>[1] = body
      BY <1>3
    <3>2. Inside(body, body)
      BY <1>3 DEF Inside
    <3> QED
      BY <1>1, <3>1, <3>2 DEF Cut
  <2>2. Cut(tableCells(body), text, body)
    BY <1>1, CellsCut
  <2> QED
    BY <2>1, <2>2
<1>5. ASSUME NEW i \in 1 .. Len(body.text), body.text[i] \notin {"bar", "space"}
      PROVE  \E k \in 1 .. m : Holds(segments[k], body.start + i)
  <2>1. \E k \in 1 .. Len(tableCells(body)) : Holds(tableCells(body)[k], body.start + i)
    BY <1>1, <1>5, CellsCut
  <2>2. \E k \in 1 .. Len(<<body>>) : Holds(<<body>>[k], body.start + i)
    <3>1. 1 \in 1 .. Len(<<body>>) /\ <<body>>[1] = body
      OBVIOUS
    <3>2. Holds(body, body.start + i)
      BY <1>3 DEF Holds
    <3> QED
      BY <3>1, <3>2
  <2>3. segments = tableCells(body) \/ segments = <<body>>
    OBVIOUS
  <2> HIDE DEF segments
  <2> QED
    BY <2>1, <2>2, <2>3
<1> HIDE DEF segments
<1>6. segments \in Seq(Spans) /\ m \in Nat /\ DOMAIN segments = 1 .. m
  BY <1>4 DEF Cut
<1>7. \A k \in 1 .. m : Sliced(text, segments[k]) /\ Inside(segments[k], body)
  BY <1>4 DEF Cut
<1>8. ASSUME NEW k \in 1 .. m
      PROVE  /\ Cut(splitSentences(segments[k]), text, segments[k])
             /\ splitSentences(segments[k]) \in Seq(Spans)
  BY <1>7, SentencesCut DEF Cut
<1>9. seqs \in Seq(Seq(Spans)) /\ Len(seqs) = m /\ \A k \in 1 .. m : seqs[k] = splitSentences(segments[k])
  <2>1. seqs \in [1 .. m -> Seq(Spans)] /\ \A k \in 1 .. m : seqs[k] = splitSentences(segments[k])
    BY <1>6, <1>8
  <2> HIDE DEF seqs
  <2> QED
    BY <1>6, <2>1
<1> HIDE DEF seqs
<1>10. Fill(seqs, text, segments)
  BY <1>8, <1>9 DEF Fill
<1>11. /\ Cut(flat, text, body)
       /\ \A j \in 1 .. Len(flat) : \E k \in 1 .. m : \E p \in 1 .. Len(seqs[k]) : flat[j] = seqs[k][p]
       /\ \A k \in 1 .. m : \A p \in 1 .. Len(seqs[k]) : \E j \in 1 .. Len(flat) : flat[j] = seqs[k][p]
  <2>1. Cut(flat, text, body) /\ Gathers(flat, seqs)
    BY <1>1, <1>4, <1>10, FlattenCut
  <2>2. Len(seqs) = m
    BY <1>9
  <2> HIDE DEF m, flat
  <2> QED
    BY <2>1, <2>2 DEF Gathers
<1> HIDE DEF flat, m
<1>12. Cut(flat, text, line)
  <2>1. \A j \in 1 .. Len(flat) : Inside(flat[j], line)
    <3> SUFFICES ASSUME NEW j \in 1 .. Len(flat) PROVE Inside(flat[j], line)
      OBVIOUS
    <3>1. Sliced(text, flat[j]) /\ Inside(flat[j], body)
      BY <1>11 DEF Cut
    <3> QED
      BY <1>1, <3>1, InsideInside
  <2> QED
    BY <1>11, <2>1 DEF Cut
<1>13. ASSUME NEW j \in 1 .. Len(flat) PROVE flat[j].text # <<>>
  <2>1. PICK k \in 1 .. m : \E p \in 1 .. Len(seqs[k]) : flat[j] = seqs[k][p]
    BY <1>11
  <2>2. \A p \in 1 .. Len(splitSentences(segments[k])) : splitSentences(segments[k])[p].text # <<>>
    BY <1>7, SentencesCut
  <2> QED
    BY <1>9, <2>1, <2>2
<1>14. ASSUME NEW i \in 1 .. Len(line.text), line.text[i] \notin Markup
       PROVE  \E j \in 1 .. Len(flat) : Holds(flat[j], line.start + i)
  <2> DEFINE p == line.start + i
             b == p - body.start
  <2>0. line.start \in Nat /\ line.text[i] = text[p] /\ p \in Nat
    BY SpanParts
  <2>1. body.start < p /\ p <= EndOf(body)
    BY <1>1, <1>14 DEF Holds, Markup
  <2>2. text[p] \notin Markup
    BY <1>14, <2>0
  <2> HIDE DEF p
  <2>3. b \in 1 .. Len(body.text) /\ body.start + b = p
    BY <1>3, <2>0, <2>1
  <2>4. body.text[b] \notin {"bar", "space"}
    BY <1>3, <2>2, <2>3 DEF Markup
  <2>5. PICK k \in 1 .. m : Holds(segments[k], p)
    BY <1>5, <2>3, <2>4
  <2> DEFINE segment == segments[k]
             s == p - segment.start
  <2>6. /\ Sliced(text, segment) /\ segment.start \in Nat /\ Len(segment.text) \in Nat
        /\ EndOf(segment) = segment.start + Len(segment.text)
        /\ \A j \in 1 .. Len(segment.text) : segment.text[j] = text[segment.start + j]
    BY <1>7, SpanParts
  <2>7. segment.start < p /\ p <= EndOf(segment)
    BY <2>5 DEF Holds
  <2>8. seqs[k] = splitSentences(segment)
    BY <1>9
  <2> HIDE DEF segment
  <2>9. s \in 1 .. Len(segment.text) /\ segment.start + s = p
    BY <2>0, <2>6, <2>7, SMTT(20)
  <2>10. segment.text[s] # "space"
    BY <2>2, <2>6, <2>9 DEF Markup
  <2>11. PICK l \in 1 .. Len(splitSentences(segment)) : Holds(splitSentences(segment)[l], p)
    BY <2>6, <2>9, <2>10, SentencesCut
  <2>12. PICK j \in 1 .. Len(flat) : flat[j] = seqs[k][l]
    BY <1>11, <2>8, <2>11
  <2> QED
    BY <2>8, <2>11, <2>12 DEF p
<1> QED
  BY <1>2, <1>12, <1>13, <1>14
-------------------------------------------------------------------------------
\* The lines that are not passed over, their sentences, and those that claim.
Whole(text) == Span(0, text)

Kept(text) ==
  {k \in 1 .. Len(Lines(text)) : ~isPassedOver(Lines(text)[k], fencedCodeRanges(text))}

KeptLines(text) == Picked(Lines(text), Kept(text))

Candidates(text) == FlattenSeq([k \in DOMAIN KeptLines(text) |-> candidatesOf(KeptLines(text)[k])])

Found(text) ==
  Picked(Candidates(text), {k \in 1 .. Len(Candidates(text)) : isClaim(Candidates(text)[k])})

\* A text is a span of itself.
LEMMA WholeSliced ==
  ASSUME NEW text \in Seq(Symbols)
  PROVE  /\ Sliced(text, Whole(text))
         /\ Whole(text).start = 0 /\ Whole(text).text = text /\ EndOf(Whole(text)) = Len(text)
<1>1. Len(text) \in Nat
  OBVIOUS
<1>2. Whole(text) = [start |-> 0, text |-> text]
  BY DEF Whole, Span
<1>3. EndOf(Whole(text)) = 0 + Len(text)
  BY <1>2 DEF EndOf
<1> QED
  BY <1>1, <1>2, <1>3 DEF Sliced, Spans

\* The lines cut a text.
LEMMA LinesCut ==
  ASSUME NEW text \in Seq(Symbols)
  PROVE  /\ Cut(Lines(text), text, Whole(text))
         /\ Lines(text) \in Seq(Spans)
<1>1. "newline" \in Symbols
  BY DEF Symbols
<1>2. Lines(text) = split(Whole(text), "newline")
  BY DEF Lines, Whole
<1>3. Cut(split(Whole(text), "newline"), text, Whole(text))
  BY <1>1, WholeSliced, SplitCut
<1> QED
  BY <1>2, <1>3 DEF Cut

\* The candidates are those of the lines that are kept, apart and in order.
LEMMA CandidatesFound ==
  ASSUME NEW text \in Seq(Symbols)
  PROVE  /\ Cut(Candidates(text), text, Whole(text))
         /\ \A j \in 1 .. Len(Candidates(text)) :
              \E k \in Kept(text) : \E p \in 1 .. Len(candidatesOf(Lines(text)[k])) :
                Candidates(text)[j] = candidatesOf(Lines(text)[k])[p]
         /\ \A k \in Kept(text) : \A p \in 1 .. Len(candidatesOf(Lines(text)[k])) :
              \E j \in 1 .. Len(Candidates(text)) : Candidates(text)[j] = candidatesOf(Lines(text)[k])[p]
<1> DEFINE lines == Lines(text)
           kept == KeptLines(text)
           m == Len(kept)
           seqs == [k \in DOMAIN kept |-> candidatesOf(kept[k])]
<1>1. Cut(lines, text, Whole(text)) /\ lines \in Seq(Spans)
  BY LinesCut
<1>2. Kept(text) \in SUBSET (1 .. Len(lines)) /\ kept = Picked(lines, Kept(text))
  BY DEF Kept, KeptLines
<1>3. Candidates(text) = FlattenSeq(seqs)
  BY DEF Candidates
<1> HIDE DEF lines, kept
<1>4. Cut(kept, text, Whole(text))
  BY <1>1, <1>2, PickedCut
<1>5. PICK at : Picks(lines, Kept(text), at)
  BY <1>1, <1>2, PickedInOrder
<1>6. /\ at \in [1 .. m -> Kept(text)]
      /\ \A j \in 1 .. m : kept[j] = lines[at[j]]
      /\ \A p \in Kept(text) : \E j \in 1 .. m : at[j] = p
  BY <1>2, <1>5 DEF Picks
<1>7. \A k \in 1 .. m : Sliced(text, kept[k]) /\ kept \in Seq(Spans) /\ m \in Nat
  BY <1>4 DEF Cut
<1>8. m \in Nat /\ DOMAIN kept = 1 .. m
  BY <1>4 DEF Cut
<1>9. ASSUME NEW k \in 1 .. m
      PROVE  Cut(candidatesOf(kept[k]), text, kept[k]) /\ candidatesOf(kept[k]) \in Seq(Spans)
  BY <1>7, CandidatesCut DEF Cut
<1>10. seqs \in Seq(Seq(Spans)) /\ Len(seqs) = m /\ \A k \in 1 .. m : seqs[k] = candidatesOf(kept[k])
  <2>1. seqs \in [1 .. m -> Seq(Spans)] /\ \A k \in 1 .. m : seqs[k] = candidatesOf(kept[k])
    BY <1>8, <1>9
  <2> HIDE DEF seqs
  <2> QED
    BY <1>8, <2>1
<1> HIDE DEF seqs
<1>11. Fill(seqs, text, kept)
  BY <1>9, <1>10 DEF Fill
<1> DEFINE flat == FlattenSeq(seqs)
<1>12. Cut(flat, text, Whole(text)) /\ Gathers(flat, seqs)
  BY <1>4, <1>11, WholeSliced, FlattenCut
<1> HIDE DEF flat, m
<1>13. ASSUME NEW j \in 1 .. Len(flat)
       PROVE  \E k \in Kept(text) : \E p \in 1 .. Len(candidatesOf(lines[k])) :
                flat[j] = candidatesOf(lines[k])[p]
  <2>1. PICK k \in 1 .. m : \E p \in 1 .. Len(seqs[k]) : flat[j] = seqs[k][p]
    BY <1>10, <1>12 DEF Gathers
  <2>2. at[k] \in Kept(text) /\ kept[k] = lines[at[k]]
    BY <1>6
  <2>3. seqs[k] = candidatesOf(kept[k])
    BY <1>10
  <2> QED
    BY <2>1, <2>2, <2>3
<1>14. ASSUME NEW k \in Kept(text), NEW p \in 1 .. Len(candidatesOf(lines[k]))
       PROVE  \E j \in 1 .. Len(flat) : flat[j] = candidatesOf(lines[k])[p]
  <2>1. PICK i \in 1 .. m : at[i] = k
    BY <1>6
  <2>2. seqs[i] = candidatesOf(lines[k]) /\ i \in 1 .. Len(seqs)
    BY <1>6, <1>10, <2>1
  <2>3. p \in 1 .. Len(seqs[i]) /\ candidatesOf(lines[k])[p] = seqs[i][p]
    BY <2>2
  <2> QED
    BY <1>12, <2>2, <2>3 DEF Gathers
<1> QED
  BY <1>3, <1>12, <1>13, <1>14 DEF flat, lines

\* What is found is the candidates that are claims.
LEMMA FoundCut ==
  ASSUME NEW text \in Seq(Symbols)
  PROVE  /\ Cut(Found(text), text, Whole(text))
         /\ \A j \in 1 .. Len(Found(text)) :
              /\ isClaim(Found(text)[j])
              /\ \E k \in Kept(text) : \E p \in 1 .. Len(candidatesOf(Lines(text)[k])) :
                   Found(text)[j] = candidatesOf(Lines(text)[k])[p]
         /\ \A k \in Kept(text) : \A p \in 1 .. Len(candidatesOf(Lines(text)[k])) :
              isClaim(candidatesOf(Lines(text)[k])[p]) =>
                \E j \in 1 .. Len(Found(text)) : Found(text)[j] = candidatesOf(Lines(text)[k])[p]
<1> DEFINE candidates == Candidates(text)
           claiming == {k \in 1 .. Len(candidates) : isClaim(candidates[k])}
           found == Found(text)
<1>1. /\ Cut(candidates, text, Whole(text)) /\ candidates \in Seq(Spans)
      /\ claiming \in SUBSET (1 .. Len(candidates)) /\ found = Picked(candidates, claiming)
  BY CandidatesFound DEF Cut, Found
<1>2. \A k \in claiming : k \in 1 .. Len(candidates) /\ isClaim(candidates[k])
  OBVIOUS
<1>3. \A k \in 1 .. Len(candidates) : isClaim(candidates[k]) => k \in claiming
  OBVIOUS
<1> HIDE DEF claiming, found
<1>4. Cut(found, text, Whole(text))
  BY <1>1, PickedCut
<1>5. PICK at : Picks(candidates, claiming, at)
  BY <1>1, PickedInOrder
<1>6. /\ at \in [1 .. Len(found) -> claiming]
      /\ \A j \in 1 .. Len(found) : found[j] = candidates[at[j]]
      /\ \A p \in claiming : \E j \in 1 .. Len(found) : at[j] = p
  BY <1>1, <1>5 DEF Picks
<1>7. ASSUME NEW j \in 1 .. Len(found)
      PROVE  /\ isClaim(found[j])
             /\ \E k \in Kept(text) : \E p \in 1 .. Len(candidatesOf(Lines(text)[k])) :
                  found[j] = candidatesOf(Lines(text)[k])[p]
  <2>1. at[j] \in claiming /\ found[j] = candidates[at[j]]
    BY <1>6
  <2>2. at[j] \in 1 .. Len(candidates) /\ isClaim(candidates[at[j]])
    BY <1>2, <2>1
  <2> QED
    BY <2>1, <2>2, CandidatesFound
<1>8. ASSUME NEW k \in Kept(text), NEW p \in 1 .. Len(candidatesOf(Lines(text)[k])),
             isClaim(candidatesOf(Lines(text)[k])[p])
      PROVE  \E j \in 1 .. Len(found) : found[j] = candidatesOf(Lines(text)[k])[p]
  <2>1. PICK i \in 1 .. Len(candidates) : candidates[i] = candidatesOf(Lines(text)[k])[p]
    BY CandidatesFound
  <2>2. i \in claiming
    BY <1>3, <1>8, <2>1
  <2>3. PICK j \in 1 .. Len(found) : at[j] = i
    BY <1>6, <2>2
  <2> QED
    BY <1>6, <2>1, <2>3
<1> QED
  BY <1>4, <1>7, <1>8 DEF found

\* The claims are those sentences, each at its place.
LEMMA ClaimsFound ==
  ASSUME NEW text \in Seq(Symbols)
  PROVE  extractClaims(text)
           = [n \in DOMAIN Found(text) |->
                [id |-> n - 1, text |-> Found(text)[n].text, spanStart |-> Found(text)[n].start,
                 spanEnd |-> Found(text)[n].start + Len(Found(text)[n].text)]]
<1> DEFINE ranges == fencedCodeRanges(text)
           lines == Those(Lines(text), LAMBDA line : ~isPassedOver(line, ranges))
           candidates == FlattenSeq([k \in DOMAIN lines |-> candidatesOf(lines[k])])
<1>1. lines = KeptLines(text)
  <2>1. DOMAIN Lines(text) = 1 .. Len(Lines(text))
    BY LinesCut
  <2>2. [i \in DOMAIN Lines(text) |-> IF ~isPassedOver(Lines(text)[i], ranges)
                                      THEN <<Lines(text)[i]>> ELSE <<>>]
          = [i \in DOMAIN Lines(text) |-> IF i \in Kept(text) THEN <<Lines(text)[i]>> ELSE <<>>]
    BY <2>1 DEF Kept
  <2> QED
    BY <2>2 DEF Those, KeptLines, Picked
<1>2. candidates = Candidates(text)
  BY <1>1 DEF Candidates
<1>3. Those(candidates, isClaim) = Found(text)
  <2>1. DOMAIN Candidates(text) = 1 .. Len(Candidates(text))
    BY CandidatesFound DEF Cut
  <2>2. [i \in DOMAIN Candidates(text) |-> IF isClaim(Candidates(text)[i])
                                           THEN <<Candidates(text)[i]>> ELSE <<>>]
          = [i \in DOMAIN Candidates(text) |->
               IF i \in {k \in 1 .. Len(Candidates(text)) : isClaim(Candidates(text)[k])}
               THEN <<Candidates(text)[i]>> ELSE <<>>]
    BY <2>1
  <2> HIDE DEF candidates
  <2> QED
    BY <1>2, <2>2 DEF Those, Found, Picked
<1> QED
  BY <1>3 DEF extractClaims
-------------------------------------------------------------------------------
ExtractionInv ==
  /\ output \in Seq(Symbols)
  /\ claims = extractClaims(output)

\* Every one of them has text, and lies in a line that is not passed over.
LEMMA FoundInLines ==
  ASSUME NEW text \in Seq(Symbols), NEW j \in 1 .. Len(Found(text))
  PROVE  /\ Sliced(text, Found(text)[j])
         /\ Found(text)[j].start < EndOf(Found(text)[j])
         /\ isClaim(Found(text)[j])
         /\ \E k \in Kept(text) : /\ k \in 1 .. Len(Lines(text)) /\ Sliced(text, Lines(text)[k])
                                  /\ Inside(Found(text)[j], Lines(text)[k])
<1> DEFINE span == Found(text)[j]
<1>1. Sliced(text, span) /\ isClaim(span)
  BY FoundCut DEF Cut
<1>2. PICK k \in Kept(text) : \E p \in 1 .. Len(candidatesOf(Lines(text)[k])) :
        span = candidatesOf(Lines(text)[k])[p]
  BY FoundCut
<1> HIDE DEF span
<1>3. k \in 1 .. Len(Lines(text))
  BY DEF Kept
<1>4. Sliced(text, Lines(text)[k])
  BY <1>3, LinesCut DEF Cut
<1>5. Inside(span, Lines(text)[k]) /\ span.text # <<>>
  <2>1. PICK p \in 1 .. Len(candidatesOf(Lines(text)[k])) : span = candidatesOf(Lines(text)[k])[p]
    BY <1>2
  <2>2. /\ Cut(candidatesOf(Lines(text)[k]), text, Lines(text)[k])
        /\ candidatesOf(Lines(text)[k])[p].text # <<>>
    BY <1>4, CandidatesCut
  <2> QED
    BY <2>1, <2>2 DEF Cut
<1>6. span.start < EndOf(span)
  <2>1. /\ span.start \in Nat /\ span.text \in Seq(Symbols) /\ Len(span.text) \in Nat
        /\ EndOf(span) = span.start + Len(span.text)
    BY <1>1, SpanParts
  <2>2. Len(span.text) # 0
    BY <1>5, <2>1
  <2> QED
    BY <2>1, <2>2
<1> QED
  BY <1>1, <1>3, <1>4, <1>5, <1>6 DEF span

\* There is nothing in the empty text.
LEMMA NothingInNothing == extractClaims(<<>>) = <<>>
<1>1. <<>> \in Seq(Symbols) /\ Len(<<>>) = 0
  OBVIOUS
<1>2. Found(<<>>) \in Seq(Spans)
  BY <1>1, FoundCut DEF Cut
<1>3. Len(Found(<<>>)) = 0
  <2> SUFFICES ASSUME Len(Found(<<>>)) # 0 PROVE FALSE
    OBVIOUS
  <2>1. 1 \in 1 .. Len(Found(<<>>))
    BY <1>2
  <2>2. Sliced(<<>>, Found(<<>>)[1]) /\ Found(<<>>)[1].start < EndOf(Found(<<>>)[1])
    BY <1>1, <2>1, FoundInLines
  <2>3. /\ Found(<<>>)[1].start \in Nat /\ EndOf(Found(<<>>)[1]) \in Nat
        /\ EndOf(Found(<<>>)[1]) <= Len(<<>>)
    BY <1>1, <2>2, SpanParts
  <2> QED
    BY <1>1, <2>2, <2>3
<1>4. Found(<<>>) = <<>>
  BY <1>2, <1>3
<1>5. DOMAIN Found(<<>>) = {}
  BY <1>4
<1>6. extractClaims(<<>>)
        = [n \in DOMAIN Found(<<>>) |->
             [id |-> n - 1, text |-> Found(<<>>)[n].text, spanStart |-> Found(<<>>)[n].start,
              spanEnd |-> Found(<<>>)[n].start + Len(Found(<<>>)[n].text)]]
  BY <1>1, ClaimsFound
<1>7. DOMAIN extractClaims(<<>>) = {}
  BY <1>5, <1>6
<1>8. extractClaims(<<>>) = [n \in {} |-> extractClaims(<<>>)[n]]
  BY <1>6, <1>7
<1> QED
  BY <1>8

\* The claims are always those of the output so far.
LEMMA ExtractionInvariant == Spec => []ExtractionInv
<1>1. Init => ExtractionInv
  BY NothingInNothing DEF Init, ExtractionInv
<1>2. ExtractionInv /\ [Next]_vars => ExtractionInv'
  <2> SUFFICES ASSUME ExtractionInv, [Next]_vars PROVE ExtractionInv'
    OBVIOUS
  <2>1. ASSUME NEW piece \in Pieces, Write(piece) PROVE ExtractionInv'
    <3>1. piece \in Seq(Symbols)
      BY PiecesAssumption
    <3>2. output' \in Seq(Symbols)
      BY <2>1, <3>1 DEF ExtractionInv, Write
    <3> QED
      BY <2>1, <3>2 DEF ExtractionInv, Write
  <2>2. CASE UNCHANGED vars
    BY <2>2 DEF ExtractionInv, vars
  <2> QED
    BY <2>1, <2>2 DEF Next
<1> QED
  BY <1>1, <1>2, PTL DEF Spec

\* A claim and the span it was found as.
LEMMA ClaimSpans ==
  ASSUME NEW text \in Seq(Symbols), NEW list, list = extractClaims(text)
  PROVE  /\ DOMAIN list = 1 .. Len(Found(text))
         /\ \A n \in DOMAIN list : /\ list[n].text = Found(text)[n].text
                                   /\ list[n].spanStart = Found(text)[n].start
                                   /\ list[n].spanEnd = EndOf(Found(text)[n])
<1> DEFINE found == Found(text)
<1>1. DOMAIN found = 1 .. Len(found)
  BY FoundCut DEF Cut
<1>2. list = [n \in DOMAIN found |->
                [id |-> n - 1, text |-> found[n].text, spanStart |-> found[n].start,
                 spanEnd |-> found[n].start + Len(found[n].text)]]
  BY ClaimsFound
<1> HIDE DEF found
<1>3. ASSUME NEW n \in DOMAIN list
      PROVE  /\ list[n].text = found[n].text /\ list[n].spanStart = found[n].start
             /\ list[n].spanEnd = EndOf(found[n])
  <2>1. list[n] = [id |-> n - 1, text |-> found[n].text, spanStart |-> found[n].start,
                   spanEnd |-> found[n].start + Len(found[n].text)]
    BY <1>2
  <2> QED
    BY <2>1 DEF EndOf
<1>4. DOMAIN list = DOMAIN found
  BY <1>2
<1> QED
  BY <1>1, <1>3, <1>4 DEF found

\* The slice at a span is the text of the span.
LEMMA SlicePointsAt ==
  ASSUME NEW text \in Seq(Symbols), NEW span, Sliced(text, span)
  PROVE  Slice(text, span.start, EndOf(span)) = span.text
<1> DEFINE from == span.start + 1
           to == EndOf(span)
           slice == SubSeq(text, from, to)
<1>1. /\ span.start \in Nat /\ span.text \in Seq(Symbols) /\ Len(span.text) \in Nat
      /\ to \in Nat /\ to = span.start + Len(span.text) /\ to <= Len(text) /\ Len(text) \in Nat
      /\ \A i \in 1 .. Len(span.text) : span.text[i] = text[span.start + i]
  BY SpanParts
<1>2. from \in Int /\ to \in Int /\ \A i \in from .. to : text[i] \in Symbols
  BY <1>1
<1> HIDE DEF to
<1>3. /\ slice \in Seq(Symbols)
      /\ Len(slice) = IF from <= to THEN to - from + 1 ELSE 0
      /\ \A i \in 1 .. to - from + 1 : slice[i] = text[from + i - 1]
  BY <1>2, SubSeqProperties, SMTT(20)
<1> HIDE DEF slice
<1>4. Len(slice) = Len(span.text)
  BY <1>1, <1>3
<1>5. ASSUME NEW i \in 1 .. Len(span.text) PROVE slice[i] = span.text[i]
  <2>1. i \in 1 .. to - from + 1 /\ from + i - 1 = span.start + i
    BY <1>1
  <2> QED
    BY <1>1, <1>3, <2>1
<1>6. slice = span.text
  BY <1>1, <1>3, <1>4, <1>5, SeqEqual
<1> QED
  BY <1>6 DEF Slice, slice, to

(* "For every returned claim, output.slice(claim.spanStart, claim.spanEnd)  *)
(* equals claim.text", whatever the model writes and however long the      *)
(* output is; and the claims lie in it one after the other.                 *)
THEOREM SpansAlwaysPoint == Spec => []SpansPointAtTheirText
<1>1. ExtractionInv => SpansPointAtTheirText
  <2> SUFFICES ASSUME ExtractionInv PROVE SpansPointAtTheirText
    OBVIOUS
  <2>1. output \in Seq(Symbols) /\ claims = extractClaims(output)
    BY DEF ExtractionInv
  <2>2. /\ DOMAIN claims = 1 .. Len(Found(output))
        /\ \A n \in DOMAIN claims : /\ claims[n].text = Found(output)[n].text
                                    /\ claims[n].spanStart = Found(output)[n].start
                                    /\ claims[n].spanEnd = EndOf(Found(output)[n])
    BY <2>1, ClaimSpans
  <2>3. ASSUME NEW n \in DOMAIN claims
        PROVE  Slice(output, claims[n].spanStart, claims[n].spanEnd) = claims[n].text
    <3>1. Sliced(output, Found(output)[n])
      BY <2>1, <2>2, FoundInLines
    <3>2. Slice(output, Found(output)[n].start, EndOf(Found(output)[n])) = Found(output)[n].text
      BY <2>1, <3>1, SlicePointsAt
    <3> QED
      BY <2>2, <3>2
  <2>4. ASSUME NEW n \in DOMAIN claims, n > 1
        PROVE  claims[n - 1].spanEnd <= claims[n].spanStart
    <3>1. n \in 1 .. Len(Found(output)) /\ n - 1 \in 1 .. Len(Found(output)) /\ n - 1 < n
      BY <2>2, <2>4
    <3>2. EndOf(Found(output)[n - 1]) <= Found(output)[n].start
      BY <2>1, <3>1, FoundCut DEF Cut
    <3> QED
      BY <2>2, <3>1, <3>2
  <2> QED
    BY <2>3, <2>4 DEF SpansPointAtTheirText
<1> QED
  BY <1>1, ExtractionInvariant, PTL
-------------------------------------------------------------------------------
\* A set of numbers that a list goes through in ascending order.
Counts(f, n, S) ==
  /\ n \in Nat /\ S \in SUBSET Nat
  /\ \A j \in 1 .. n : f[j] \in S
  /\ \A i, j \in 1 .. n : i < j => f[i] < f[j]
  /\ \A p \in S : \E j \in 1 .. n : f[j] = p

\* A list without repetition has as many items as their set.
LEMMA CountedUp ==
  ASSUME NEW n, NEW f, NEW S, Counts(f, n, S)
  PROVE  Cardinality(S) = n
<1> DEFINE g == [j \in 1 .. n |-> f[j]]
<1>0. /\ n \in Nat /\ S \in SUBSET Nat
      /\ \A j \in 1 .. n : f[j] \in S
      /\ \A i, j \in 1 .. n : i < j => f[i] < f[j]
      /\ \A p \in S : \E j \in 1 .. n : f[j] = p
  BY DEF Counts
<1>1. g \in [1 .. n -> S]
  BY <1>0
<1>2. ASSUME NEW i \in 1 .. n, NEW j \in 1 .. n, g[i] = g[j] PROVE i = j
  <2>1. f[i] = f[j] /\ f[i] \in Nat /\ f[j] \in Nat
    BY <1>0, <1>2
  <2>2. ~(f[i] < f[j]) /\ ~(f[j] < f[i])
    BY <2>1
  <2>3. ~(i < j) /\ ~(j < i)
    BY <1>0, <2>2
  <2>4. i \in Int /\ j \in Int
    BY <1>0
  <2> QED
    BY <2>3, <2>4
<1>3. \A p \in S : \E j \in 1 .. n : g[j] = p
  BY <1>0
<1> HIDE DEF g
<1>4. g \in Bijection(1 .. n, S)
  BY <1>1, <1>2, <1>3 DEF Bijection, Injection, Surjection, IsInjective
<1> QED
  BY <1>0, <1>4, FS_CountingElements DEF ExistsBijection

\* Between two lines there is a newline.
\* The lines lie between the newlines.
LinesLie(lines, cuts, text) ==
  /\ Len(cuts) \in Nat /\ Len(lines) = Len(cuts) + 1
  /\ \A k \in 1 .. Len(cuts) : cuts[k] \in 1 .. Len(text)
  /\ \A j, k \in 1 .. Len(cuts) : j < k => cuts[j] < cuts[k]
  /\ \A i \in 1 .. Len(text) : text[i] = "newline" <=> \E k \in 1 .. Len(cuts) : cuts[k] = i
  /\ \A k \in 1 .. Len(lines) :
       /\ lines[k].start = IF k = 1 THEN 0 ELSE cuts[k - 1]
       /\ EndOf(lines[k]) = IF k \in 1 .. Len(cuts) THEN cuts[k] - 1 ELSE Len(text)

\* Where the lines begin and end.
LEMMA LineParts ==
  ASSUME NEW text \in Seq(Symbols)
  PROVE  LinesLie(Lines(text), Cuts(text, "newline"), text)
<1> DEFINE cuts == Cuts(text, "newline")
           lines == split(Whole(text), "newline")
           n == Len(text)
           m == Len(cuts)
<1>1. Sliced(text, Whole(text)) /\ Whole(text).start = 0 /\ Whole(text).text = text
  BY WholeSliced
<1>2. "newline" \in Symbols /\ cuts = Cuts(Whole(text).text, "newline")
  BY <1>1 DEF Symbols
<1>3. n \in Nat /\ lines = Lines(text)
  BY DEF Lines, Whole
<1> HIDE DEF cuts, lines
<1>4. /\ cuts \in Seq(1 .. n)
      /\ \A j, k \in 1 .. m : j < k => cuts[j] < cuts[k]
      /\ \A i \in 1 .. n : text[i] = "newline" <=> \E k \in 1 .. m : cuts[k] = i
      /\ Len(lines) = m + 1
      /\ \A k \in 1 .. Len(lines) :
           /\ lines[k].start = 0 + (IF k = 1 THEN 0 ELSE cuts[k - 1])
           /\ EndOf(lines[k]) = 0 + (IF k \in DOMAIN cuts THEN cuts[k] - 1 ELSE n)
  <2> DEFINE whole == Whole(text)
  <2>1. Sliced(text, whole) /\ "newline" \in Symbols /\ cuts = Cuts(whole.text, "newline")
        /\ lines = split(whole, "newline")
    BY <1>1, <1>2 DEF lines
  <2> HIDE DEF whole
  <2>2. SplitAt(lines, cuts, whole, "newline")
    BY <2>1, SplitCut
  <2>3. whole.text = text /\ whole.start = 0
    BY <1>1 DEF whole
  <2> QED
    BY <2>2, <2>3 DEF SplitAt
<1>5. m \in Nat /\ DOMAIN cuts = 1 .. m /\ \A k \in 1 .. m : cuts[k] \in 1 .. n
  <2> DEFINE places == 1 .. n
  <2>1. cuts \in Seq(places)
    BY <1>4
  <2> HIDE DEF places
  <2>2. m \in Nat /\ DOMAIN cuts = 1 .. m /\ \A k \in 1 .. m : cuts[k] \in places
    BY <2>1
  <2> QED
    BY <2>2 DEF places
<1> HIDE DEF m, n
<1>6. ASSUME NEW k \in 1 .. Len(lines) PROVE lines[k].start = IF k = 1 THEN 0 ELSE cuts[k - 1]
  <2>1. k # 1 => k - 1 \in 1 .. m
    BY <1>4, <1>5
  <2>2. k # 1 => cuts[k - 1] \in Nat
    BY <1>3, <1>5, <2>1
  <2>3. lines[k].start = 0 + (IF k = 1 THEN 0 ELSE cuts[k - 1])
    BY <1>4
  <2> QED
    BY <2>2, <2>3
<1>7. ASSUME NEW k \in 1 .. Len(lines) PROVE EndOf(lines[k]) = IF k \in 1 .. m THEN cuts[k] - 1 ELSE n
  <2>1. EndOf(lines[k]) = 0 + (IF k \in 1 .. m THEN cuts[k] - 1 ELSE n)
    BY <1>4, <1>5
  <2>2. k \in 1 .. m => cuts[k] \in 1 .. n
    BY <1>5
  <2> QED
    BY <1>3, <2>1, <2>2
<1>8. LinesLie(lines, cuts, text)
  BY <1>4, <1>5, <1>6, <1>7 DEF LinesLie, m, n
<1> QED
  BY <1>3, <1>8 DEF cuts

\* Between two lines there is a newline.
LEMMA LinesApart ==
  ASSUME NEW text \in Seq(Symbols), NEW i \in 1 .. Len(Lines(text)), NEW j \in 1 .. Len(Lines(text)),
         i < j
  PROVE  EndOf(Lines(text)[i]) + 1 <= Lines(text)[j].start
<1> DEFINE cuts == Cuts(text, "newline")
           lines == Lines(text)
           m == Len(cuts)
<1>1. /\ m \in Nat /\ Len(lines) = m + 1
      /\ \A k \in 1 .. m : cuts[k] \in 1 .. Len(text)
      /\ \A p, q \in 1 .. m : p < q => cuts[p] < cuts[q]
      /\ \A k \in 1 .. Len(lines) :
           /\ lines[k].start = IF k = 1 THEN 0 ELSE cuts[k - 1]
           /\ EndOf(lines[k]) = IF k \in 1 .. m THEN cuts[k] - 1 ELSE Len(text)
  <2>1. LinesLie(lines, cuts, text)
    BY LineParts
  <2> HIDE DEF cuts, lines
  <2> QED
    BY <2>1 DEF LinesLie
<1> HIDE DEF cuts, lines, m
<1>2. i \in 1 .. m /\ j # 1 /\ j - 1 \in 1 .. m /\ (i = j - 1 \/ i < j - 1) /\ i \in 1 .. Len(lines)
      /\ j \in 1 .. Len(lines)
  BY <1>1 DEF lines
<1>3. EndOf(lines[i]) = cuts[i] - 1 /\ lines[j].start = cuts[j - 1]
  BY <1>1, <1>2
<1>4. cuts[i] \in Nat /\ cuts[j - 1] \in Nat
  BY <1>1, <1>2
<1>5. cuts[i] <= cuts[j - 1]
  BY <1>1, <1>2, <1>4
<1> QED
  BY <1>3, <1>4, <1>5 DEF lines

\* Above the line that an offset is in there are as many newlines as lines.
Newlines(text, offset) == {i \in 1 .. offset : text[i] = "newline"}

\* The number of the line an offset is in is one more than the newlines above.
LEMMA LineNumber ==
  ASSUME NEW text \in Seq(Symbols), NEW k \in 1 .. Len(Lines(text)), NEW p \in Nat,
         Lines(text)[k].start <= p, p <= EndOf(Lines(text)[k])
  PROVE  Cardinality(Newlines(text, p)) + 1 = k
<1> DEFINE cuts == Cuts(text, "newline")
           lines == Lines(text)
           m == Len(cuts)
           n == Len(text)
           above == Newlines(text, p)
<1>1. /\ m \in Nat /\ Len(lines) = m + 1 /\ n \in Nat
      /\ \A l \in 1 .. m : cuts[l] \in 1 .. n
      /\ \A i, j \in 1 .. m : i < j => cuts[i] < cuts[j]
      /\ \A i \in 1 .. n : text[i] = "newline" <=> \E l \in 1 .. m : cuts[l] = i
      /\ \A l \in 1 .. Len(lines) :
           /\ lines[l].start = IF l = 1 THEN 0 ELSE cuts[l - 1]
           /\ EndOf(lines[l]) = IF l \in 1 .. m THEN cuts[l] - 1 ELSE n
  <2>1. LinesLie(lines, cuts, text) /\ m = Len(cuts) /\ n = Len(text) /\ n \in Nat
    BY LineParts
  <2> HIDE DEF cuts, lines, m, n, above
  <2> QED
    BY <2>1 DEF LinesLie
<1>2. k \in 1 .. Len(lines) /\ lines[k].start <= p /\ p <= EndOf(lines[k])
  OBVIOUS
<1> HIDE DEF cuts, lines, m, n
<1>3. p <= n
  <2>1. k \in 1 .. m => cuts[k] \in 1 .. n
    BY <1>1
  <2> QED
    BY <1>1, <1>2, <2>1
<1>4. k - 1 \in Nat /\ (k - 1) + 1 = k /\ \A j \in 1 .. k - 1 : j \in 1 .. m
  BY <1>1, <1>2
<1>5. ASSUME NEW j \in 1 .. k - 1 PROVE cuts[j] \in above
  <2>1. j \in 1 .. m /\ k # 1 /\ k - 1 \in 1 .. m /\ (j = k - 1 \/ j < k - 1)
    BY <1>1, <1>2, <1>4
  <2>2. cuts[j] \in 1 .. n /\ cuts[k - 1] \in 1 .. n /\ cuts[k - 1] <= p
    BY <1>1, <1>2, <2>1
  <2>3. j < k - 1 => cuts[j] < cuts[k - 1]
    BY <1>1, <2>1
  <2>4. cuts[j] \in 1 .. p
    BY <1>1, <2>1, <2>2, <2>3
  <2>5. text[cuts[j]] = "newline"
    BY <1>1, <2>1, <2>2
  <2> QED
    BY <2>4, <2>5 DEF Newlines
<1>6. ASSUME NEW i \in above PROVE \E j \in 1 .. k - 1 : cuts[j] = i
  <2>1. i \in 1 .. p /\ text[i] = "newline"
    BY DEF Newlines
  <2>2. i \in 1 .. n
    BY <1>1, <1>3, <2>1
  <2>3. PICK j \in 1 .. m : cuts[j] = i
    BY <1>1, <2>1, <2>2
  <2>4. j < k
    <3> SUFFICES ASSUME ~(j < k) PROVE FALSE
      OBVIOUS
    <3>1. k \in 1 .. m /\ (j = k \/ k < j)
      BY <1>1, <1>2
    <3>2. cuts[k] \in 1 .. n /\ cuts[j] \in 1 .. n /\ p <= cuts[k] - 1
      BY <1>1, <1>2, <3>1
    <3>3. k < j => cuts[k] < cuts[j]
      BY <1>1, <3>1
    <3>4. cuts[k] <= cuts[j]
      BY <3>1, <3>2, <3>3
    <3> QED
      BY <2>1, <2>3, <3>2, <3>4
  <2>5. j \in 1 .. k - 1
    BY <1>1, <1>2, <2>4
  <2> QED
    BY <2>3, <2>5
<1>7. above \in SUBSET Nat
  BY DEF Newlines
<1>8. \A i, j \in 1 .. k - 1 : i < j => cuts[i] < cuts[j]
  BY <1>1, <1>4
<1> HIDE DEF above
<1>9. Counts(cuts, k - 1, above)
  BY <1>4, <1>5, <1>6, <1>7, <1>8 DEF Counts
<1>10. Cardinality(above) = k - 1
  BY <1>9, CountedUp
<1> QED
  BY <1>4, <1>10 DEF above
-------------------------------------------------------------------------------
\* The numbers of the lines with a fence marker, and how many there are above a
\* line.
Fences(text) == {k \in 1 .. Len(Lines(text)) : isFenceLine(Lines(text)[k])}

FencesAbove(text, n) == {k \in 1 .. n - 1 : isFenceLine(Lines(text)[k])}

Coded(text, n) == isFenceLine(Lines(text)[n]) \/ Cardinality(FencesAbove(text, n)) % 2 = 1

\* The n-th fence line is line at[n].
Numbered(text, at, m) ==
  /\ m \in Nat /\ Len(FenceLines(text)) = m
  /\ \A j \in 1 .. m : at[j] \in Fences(text) /\ FenceLines(text)[j] = Lines(text)[at[j]]
  /\ \A i, j \in 1 .. m : i < j => at[i] < at[j]
  /\ \A p \in Fences(text) : \E j \in 1 .. m : at[j] = p

\* The lines with a fence marker, by number.
LEMMA FencesNumbered ==
  ASSUME NEW text \in Seq(Symbols) PROVE \E at : Numbered(text, at, Len(FenceLines(text)))
<1> DEFINE lines == Lines(text)
           fences == FenceLines(text)
<1>1. lines \in Seq(Spans) /\ DOMAIN lines = 1 .. Len(lines)
  BY LinesCut
<1>2. fences = Picked(lines, Fences(text))
  <2>1. [i \in DOMAIN lines |-> IF isFenceLine(lines[i]) THEN <<lines[i]>> ELSE <<>>]
          = [i \in DOMAIN lines |-> IF i \in Fences(text) THEN <<lines[i]>> ELSE <<>>]
    BY <1>1 DEF Fences
  <2> QED
    BY <2>1 DEF FenceLines, Those, Picked
<1>3. Fences(text) \in SUBSET (1 .. Len(lines))
  BY DEF Fences
<1> HIDE DEF lines, fences
<1>4. fences \in Seq(Spans) /\ \E at : Picks(lines, Fences(text), at)
  BY <1>1, <1>2, <1>3, PickedInOrder
<1>5. PICK at : Picks(lines, Fences(text), at)
  BY <1>4
<1>6. /\ at \in [1 .. Len(fences) -> Fences(text)]
      /\ \A j \in 1 .. Len(fences) : fences[j] = lines[at[j]]
      /\ \A i, j \in 1 .. Len(fences) : i < j => at[i] < at[j]
      /\ \A p \in Fences(text) : \E j \in 1 .. Len(fences) : at[j] = p
  BY <1>2, <1>5 DEF Picks
<1>7. Len(fences) \in Nat
  BY <1>4
<1>8. \A j \in 1 .. Len(fences) : at[j] \in Fences(text) /\ fences[j] = lines[at[j]]
  BY <1>6
<1>9. Numbered(text, at, Len(fences))
  BY <1>6, <1>7, <1>8 DEF Numbered, lines, fences
<1> QED
  BY <1>9 DEF fences

\* The markers above a line are the first so many.
LEMMA AboveCounted ==
  ASSUME NEW text \in Seq(Symbols), NEW at, NEW m, Numbered(text, at, m),
         NEW n \in 1 .. Len(Lines(text))
  PROVE  \E q \in 0 .. m : /\ \A j \in 1 .. m : at[j] < n <=> j <= q
                           /\ Cardinality(FencesAbove(text, n)) = q
<1>1. /\ m \in Nat
      /\ \A j \in 1 .. m : at[j] \in Fences(text)
      /\ \A i, j \in 1 .. m : i < j => at[i] < at[j]
      /\ \A p \in Fences(text) : \E j \in 1 .. m : at[j] = p
  BY DEF Numbered
<1>2. \A j \in 1 .. m : at[j] \in 1 .. Len(Lines(text)) /\ isFenceLine(Lines(text)[at[j]])
  BY <1>1 DEF Fences
<1>3. Len(Lines(text)) \in Nat
  BY LinesCut
<1> DEFINE before == {j \in 1 .. m : at[j] < n}
           q == Max({0} \cup before)
<1>4. {0} \cup before \in SUBSET (0 .. m) /\ {0} \cup before # {}
  BY <1>1
<1>5. q \in {0} \cup before /\ \A j \in {0} \cup before : j <= q
  <2> HIDE DEF before
  <2> QED
    BY <1>1, <1>4, GreatestOf
<1>6. q \in 0 .. m
  BY <1>4, <1>5
<1> HIDE DEF q
<1>7. ASSUME NEW j \in 1 .. m PROVE at[j] < n <=> j <= q
  <2>1. at[j] < n => j <= q
    BY <1>5
  <2>2. ASSUME j <= q PROVE at[j] < n
    <3>1. q # 0 /\ q \in before
      BY <1>1, <1>5, <1>6, <2>2
    <3>2. q \in 1 .. m /\ at[q] < n
      BY <3>1
    <3>3. at[j] \in Int /\ at[q] \in Int /\ n \in Int
      BY <1>2, <1>3, <3>2
    <3>4. j = q \/ j < q
      BY <1>1, <1>6, <2>2
    <3> QED
      BY <1>1, <3>2, <3>3, <3>4
  <2> QED
    BY <2>1, <2>2
<1> HIDE DEF before
<1>8. Counts(at, q, FencesAbove(text, n))
  <2>1. q \in Nat /\ FencesAbove(text, n) \in SUBSET Nat
    BY <1>1, <1>6 DEF FencesAbove
  <2>2. \A j \in 1 .. q : j \in 1 .. m
    BY <1>1, <1>6
  <2>3. ASSUME NEW j \in 1 .. q PROVE at[j] \in FencesAbove(text, n)
    <3>1. j \in 1 .. m /\ j <= q
      BY <2>2
    <3>2. at[j] < n /\ at[j] \in 1 .. Len(Lines(text)) /\ isFenceLine(Lines(text)[at[j]])
      BY <1>2, <1>7, <3>1
    <3>3. at[j] \in 1 .. n - 1
      BY <1>3, <3>2
    <3> QED
      BY <3>2, <3>3 DEF FencesAbove
  <2>4. ASSUME NEW p \in FencesAbove(text, n) PROVE \E j \in 1 .. q : at[j] = p
    <3>1. p \in 1 .. n - 1 /\ isFenceLine(Lines(text)[p])
      BY DEF FencesAbove
    <3>2. p \in 1 .. Len(Lines(text)) /\ p < n
      BY <1>3, <3>1
    <3>3. p \in Fences(text)
      BY <3>1, <3>2 DEF Fences
    <3>4. PICK j \in 1 .. m : at[j] = p
      BY <1>1, <3>3
    <3>5. j <= q
      BY <1>7, <3>2, <3>4
    <3> QED
      BY <1>1, <1>6, <3>4, <3>5
  <2> QED
    BY <1>1, <2>1, <2>2, <2>3, <2>4 DEF Counts
<1> QED
  BY <1>6, <1>7, <1>8, CountedUp

\* An odd number is one less than an even one.
LEMMA Odd == ASSUME NEW q \in Nat PROVE q % 2 = 1 <=> \E k \in Nat : k > 0 /\ q = 2 * k - 1
<1>1. ASSUME q % 2 = 1 PROVE \E k \in Nat : k > 0 /\ q = 2 * k - 1
  <2>1. q \div 2 + 1 \in Nat /\ q \div 2 + 1 > 0 /\ q = 2 * (q \div 2 + 1) - 1
    BY <1>1
  <2> QED
    BY <2>1
<1>2. ASSUME NEW k \in Nat, k > 0, q = 2 * k - 1 PROVE q % 2 = 1
  BY <1>2
<1> QED
  BY <1>1, <1>2

\* Numbers come in pairs.
LEMMA Halved ==
  ASSUME NEW j \in Nat, j > 0 PROVE \E k \in Nat : k > 0 /\ (j = 2 * k - 1 \/ j = 2 * k)
<1> DEFINE k == (j + 1) \div 2
<1>1. k \in Nat /\ k > 0 /\ (j = 2 * k - 1 \/ j = 2 * k)
  OBVIOUS
<1> QED
  BY <1>1

\* A line is in a range of fenced code when it has a fence marker or an odd
\* number of them above it, and only then.
LEMMA CodeInRanges ==
  ASSUME NEW text \in Seq(Symbols), NEW n \in 1 .. Len(Lines(text)),
         Lines(text)[n].start < Len(text)
  PROVE  isInside(fencedCodeRanges(text), Lines(text)[n].start) <=> Coded(text, n)
<1> DEFINE lines == Lines(text)
           fences == FenceLines(text)
           m == Len(fences)
           Over(k) == IF 2 * k > m THEN Len(text) ELSE fences[2 * k].start + Len(fences[2 * k].text) + 1
           ranges == fencedCodeRanges(text)
           start == lines[n].start
<1>1. ranges = {<<fences[2 * k - 1].start, Over(k)>> : k \in 1 .. (m + 1) \div 2}
  BY DEF fencedCodeRanges
<1>2. isInside(ranges, start) <=>
        \E k \in 1 .. (m + 1) \div 2 : fences[2 * k - 1].start <= start /\ start < Over(k)
  <2> DEFINE K == 1 .. (m + 1) \div 2
             From(k) == fences[2 * k - 1].start
  <2>1. ranges = {<<From(k), Over(k)>> : k \in K}
    BY <1>1
  <2> HIDE DEF Over, From, K, start, ranges
  <2>2. \A k \in K : <<From(k), Over(k)>> \in ranges
    BY <2>1
  <2>3. \A r \in ranges : \E k \in K : r = <<From(k), Over(k)>>
    BY <2>1
  <2>4. \A k \in K : <<From(k), Over(k)>>[1] = From(k) /\ <<From(k), Over(k)>>[2] = Over(k)
    OBVIOUS
  <2>5. ASSUME isInside(ranges, start) PROVE \E k \in K : From(k) <= start /\ start < Over(k)
    <3>1. PICK r \in ranges : r[1] <= start /\ start < r[2]
      BY <2>5 DEF isInside
    <3>2. PICK k \in K : r = <<From(k), Over(k)>>
      BY <2>3
    <3> QED
      BY <2>4, <3>1, <3>2
  <2>6. ASSUME NEW k \in K, From(k) <= start, start < Over(k) PROVE isInside(ranges, start)
    <3>1. <<From(k), Over(k)>> \in ranges
      BY <2>2
    <3> QED
      BY <2>4, <2>6, <3>1 DEF isInside
  <2>7. isInside(ranges, start) <=> \E k \in K : From(k) <= start /\ start < Over(k)
    BY <2>5, <2>6
  <2> QED
    BY <2>7 DEF From, K
<1>3. PICK at : Numbered(text, at, m)
  BY FencesNumbered
<1>4. PICK q \in 0 .. m : /\ \A j \in 1 .. m : at[j] < n <=> j <= q
                          /\ Cardinality(FencesAbove(text, n)) = q
  BY <1>3, AboveCounted
<1>5. /\ m \in Nat
      /\ \A j \in 1 .. m : at[j] \in Fences(text) /\ fences[j] = lines[at[j]]
      /\ \A i, j \in 1 .. m : i < j => at[i] < at[j]
      /\ \A p \in Fences(text) : \E j \in 1 .. m : at[j] = p
  BY <1>3 DEF Numbered
<1>6. \A j \in 1 .. m : at[j] \in 1 .. Len(lines) /\ isFenceLine(lines[at[j]])
  BY <1>5 DEF Fences
<1>7. /\ lines \in Seq(Spans) /\ Len(lines) \in Nat /\ Len(text) \in Nat
      /\ \A k \in 1 .. Len(lines) : Sliced(text, lines[k])
  BY LinesCut DEF Cut
<1>8. \A k \in 1 .. Len(lines) : /\ lines[k].start \in Nat /\ EndOf(lines[k]) \in Nat
                                 /\ lines[k].start <= EndOf(lines[k])
                                 /\ EndOf(lines[k]) = lines[k].start + Len(lines[k].text)
                                 /\ EndOf(lines[k]) <= Len(text)
  <2> SUFFICES ASSUME NEW k \in 1 .. Len(lines)
               PROVE  /\ lines[k].start \in Nat /\ EndOf(lines[k]) \in Nat
                      /\ lines[k].start <= EndOf(lines[k])
                      /\ EndOf(lines[k]) = lines[k].start + Len(lines[k].text)
                      /\ EndOf(lines[k]) <= Len(text)
    OBVIOUS
  <2> DEFINE line == lines[k]
  <2>1. /\ line.start \in Nat /\ Len(line.text) \in Nat /\ EndOf(line) \in Nat
        /\ EndOf(line) = line.start + Len(line.text) /\ EndOf(line) <= Len(text)
    BY <1>7, SpanParts
  <2> HIDE DEF line
  <2>2. line.start <= EndOf(line)
    BY <2>1
  <2> QED
    BY <2>1, <2>2 DEF line
<1>9. \A i, j \in 1 .. Len(lines) : i < j => EndOf(lines[i]) + 1 <= lines[j].start
  BY LinesApart
<1>10. n \in 1 .. Len(lines) /\ start < Len(text)
  OBVIOUS
<1> DEFINE Fence == isFenceLine(lines[n])
<1>11. Coded(text, n) <=> Fence \/ q % 2 = 1
  BY <1>4 DEF Coded
<1> HIDE DEF lines, fences, m, ranges
<1>12. Fence => \E j \in 1 .. m : at[j] = n
  <2>1. Fence => n \in Fences(text)
    BY <1>10 DEF Fences, lines
  <2> QED
    BY <1>5, <2>1
<1> HIDE DEF Fence
<1>13. q \in Nat /\ q <= m
  BY <1>4, <1>5

\* Where the k-th range begins and ends, in lines.
<1>14. ASSUME NEW k \in 1 .. (m + 1) \div 2
       PROVE  /\ k \in Nat /\ k > 0 /\ 2 * k - 1 \in 1 .. m
              /\ fences[2 * k - 1].start <= start <=> at[2 * k - 1] <= n
              /\ start < Over(k) <=> (2 * k > m \/ n <= at[2 * k])
  <2>1. k \in Nat /\ k > 0 /\ 2 * k - 1 \in 1 .. m
    BY <1>5
  <2> DEFINE a == at[2 * k - 1]
  <2>2. a \in 1 .. Len(lines) /\ fences[2 * k - 1] = lines[a]
    BY <1>5, <1>6, <2>1
  <2>3. fences[2 * k - 1].start <= start <=> a <= n
    <3> HIDE DEF a
    <3>1. CASE a = n
      BY <1>8, <2>2, <3>1
    <3>2. CASE a < n
      <4>1. EndOf(lines[a]) + 1 <= start
        BY <1>9, <1>10, <2>2, <3>2
      <4>2. lines[a].start \in Nat /\ EndOf(lines[a]) \in Nat /\ lines[a].start <= EndOf(lines[a]) /\ start \in Nat
        BY <1>8, <1>10, <2>2
      <4>3. lines[a].start <= start
        <5> HIDE DEF start
        <5> QED
          BY <4>1, <4>2
      <4>4. a <= n
        BY <1>7, <1>10, <2>2, <3>2
      <4> QED
        BY <2>2, <4>3, <4>4
    <3>3. CASE n < a
      <4>1. EndOf(lines[n]) + 1 <= lines[a].start
        BY <1>9, <1>10, <2>2, <3>3
      <4>2. start \in Nat /\ EndOf(lines[n]) \in Nat /\ start <= EndOf(lines[n]) /\ lines[a].start \in Nat
        BY <1>8, <1>10, <2>2
      <4>3. ~(lines[a].start <= start)
        <5> HIDE DEF start
        <5> QED
          BY <4>1, <4>2
      <4>4. ~(a <= n)
        BY <1>7, <1>10, <2>2, <3>3
      <4> QED
        BY <2>2, <4>3, <4>4
    <3> QED
      BY <1>7, <1>10, <2>2, <3>1, <3>2, <3>3
  <2>4. start < Over(k) <=> (2 * k > m \/ n <= at[2 * k])
    <3>1. CASE 2 * k > m
      BY <1>10, <3>1
    <3>2. CASE ~(2 * k > m)
      <4> DEFINE b == at[2 * k]
      <4>1. 2 * k \in 1 .. m
        BY <1>5, <2>1, <3>2
      <4>2. b \in 1 .. Len(lines) /\ fences[2 * k] = lines[b]
        BY <1>5, <1>6, <4>1
      <4>3. Over(k) = EndOf(lines[b]) + 1
        BY <1>8, <3>2, <4>2
      <4> HIDE DEF Over, b
      <4>4. CASE n = b
        <5>1. start \in Nat /\ EndOf(lines[b]) \in Nat /\ start <= EndOf(lines[b])
          BY <1>8, <1>10, <4>4
        <5>2. start < EndOf(lines[b]) + 1
          <6> HIDE DEF start
          <6> QED
            BY <5>1
        <5>3. n <= b
          BY <1>7, <1>10, <4>4
        <5> QED
          BY <4>3, <5>2, <5>3 DEF b
      <4>5. CASE n < b
        <5>1. EndOf(lines[n]) + 1 <= lines[b].start
          BY <1>9, <1>10, <4>2, <4>5
        <5>2. /\ start \in Nat /\ EndOf(lines[n]) \in Nat /\ start <= EndOf(lines[n])
              /\ lines[b].start \in Nat /\ EndOf(lines[b]) \in Nat /\ lines[b].start <= EndOf(lines[b])
          BY <1>8, <1>10, <4>2
        <5>3. start < EndOf(lines[b]) + 1
          <6> HIDE DEF start
          <6> QED
            BY <5>1, <5>2
        <5>4. n <= b
          BY <1>7, <1>10, <4>2, <4>5
        <5> QED
          BY <4>3, <5>3, <5>4 DEF b
      <4>6. CASE b < n
        <5>1. EndOf(lines[b]) + 1 <= start
          BY <1>9, <1>10, <4>2, <4>6
        <5>2. start \in Nat /\ EndOf(lines[b]) \in Nat
          BY <1>8, <1>10, <4>2
        <5>3. ~(start < EndOf(lines[b]) + 1)
          <6> HIDE DEF start
          <6> QED
            BY <5>1, <5>2
        <5>4. ~(n <= b)
          BY <1>7, <1>10, <4>2, <4>6
        <5> QED
          BY <3>2, <4>3, <5>3, <5>4 DEF b
      <4> QED
        BY <1>7, <1>10, <4>2, <4>4, <4>5, <4>6
    <3> QED
      BY <3>1, <3>2
  <2> QED
    BY <2>1, <2>3, <2>4
<1>15. ASSUME isInside(ranges, start) PROVE Coded(text, n)
  <2>1. PICK k \in 1 .. (m + 1) \div 2 : fences[2 * k - 1].start <= start /\ start < Over(k)
    BY <1>2, <1>15
  <2> HIDE DEF Over, start
  <2>2. /\ k \in Nat /\ k > 0 /\ 2 * k - 1 \in 1 .. m
        /\ at[2 * k - 1] <= n /\ (2 * k > m \/ n <= at[2 * k])
    BY <1>14, <2>1
  <2>3. 2 * k > m \/ 2 * k \in 1 .. m
    BY <1>5, <2>2
  <2>4. CASE n = at[2 * k - 1] \/ (2 * k \in 1 .. m /\ n = at[2 * k])
    BY <1>5, <1>6, <1>11, <2>2, <2>4 DEF Fence
  <2>5. CASE n # at[2 * k - 1] /\ ~(2 * k \in 1 .. m /\ n = at[2 * k])
    <3>1. at[2 * k - 1] < n
      <4>1. at[2 * k - 1] \in Int /\ n \in Int
        BY <1>6, <1>7, <1>10, <2>2
      <4> QED
        BY <2>2, <2>5, <4>1
    <3>2. 2 * k - 1 <= q
      BY <1>4, <2>2, <3>1
    <3>3. 2 * k \in 1 .. m => ~(2 * k <= q)
      <4> SUFFICES ASSUME 2 * k \in 1 .. m PROVE ~(2 * k <= q)
        OBVIOUS
      <4>1. at[2 * k] \in Int /\ n \in Int
        BY <1>6, <1>7, <1>10
      <4>2. n <= at[2 * k]
        BY <1>5, <2>2
      <4>3. ~(at[2 * k] < n)
        BY <4>1, <4>2
      <4> QED
        BY <1>4, <4>3
    <3>4. q = 2 * k - 1
      BY <1>5, <1>13, <2>2, <2>3, <3>2, <3>3
    <3>5. q % 2 = 1
      BY <1>13, <2>2, <3>4, Odd
    <3> QED
      BY <1>11, <3>5
  <2> QED
    BY <2>4, <2>5
<1>16. ASSUME Coded(text, n) PROVE isInside(ranges, start)
  <2> HIDE DEF Over, start
  <2>1. CASE Fence
    <3>1. PICK j \in 1 .. m : at[j] = n
      BY <1>12, <2>1
    <3>2. j \in Nat /\ j > 0 /\ j <= m
      BY <1>5
    <3>3. PICK k \in Nat : k > 0 /\ (j = 2 * k - 1 \/ j = 2 * k)
      BY <3>2, Halved
    <3>4. k \in 1 .. (m + 1) \div 2 /\ 2 * k - 1 \in 1 .. m
      BY <1>5, <3>2, <3>3
    <3>5. n \in Int /\ \A i \in 1 .. m : at[i] \in Int
      BY <1>6, <1>7, <1>10
    <3>6. at[2 * k - 1] <= n
      <4>1. CASE j = 2 * k - 1
        BY <3>1, <3>5, <4>1
      <4>2. CASE j = 2 * k
        <5>1. 2 * k - 1 < j
          BY <3>3, <4>2
        <5>2. at[2 * k - 1] < at[j]
          BY <1>5, <3>4, <5>1
        <5> QED
          BY <3>1, <3>4, <3>5, <5>2
      <4> QED
        BY <3>3, <4>1, <4>2
    <3>7. 2 * k > m \/ n <= at[2 * k]
      <4>1. CASE j = 2 * k
        BY <3>1, <3>5, <4>1
      <4>2. CASE j = 2 * k - 1 /\ ~(2 * k > m)
        <5>1. j < 2 * k /\ 2 * k \in 1 .. m
          BY <1>5, <3>3, <4>2
        <5>2. at[j] < at[2 * k]
          BY <1>5, <5>1
        <5> QED
          BY <3>1, <3>5, <5>1, <5>2
      <4> QED
        BY <3>3, <4>1, <4>2
    <3> QED
      BY <1>2, <1>14, <3>4, <3>6, <3>7
  <2>2. CASE ~Fence
    <3>1. q % 2 = 1
      BY <1>11, <1>16, <2>2
    <3>2. PICK k \in Nat : k > 0 /\ q = 2 * k - 1
      BY <1>13, <3>1, Odd
    <3>3. k \in 1 .. (m + 1) \div 2 /\ 2 * k - 1 \in 1 .. m
      BY <1>5, <1>13, <3>2
    <3>4. n \in Int /\ \A i \in 1 .. m : at[i] \in Int
      BY <1>6, <1>7, <1>10
    <3>5. at[2 * k - 1] < n
      <4>1. 2 * k - 1 <= q
        BY <1>13, <3>2
      <4> QED
        BY <1>4, <3>3, <4>1
    <3>6. at[2 * k - 1] <= n
      BY <3>3, <3>4, <3>5
    <3>7. 2 * k > m \/ n <= at[2 * k]
      <4> SUFFICES ASSUME ~(2 * k > m) PROVE n <= at[2 * k]
        OBVIOUS
      <4>1. 2 * k \in 1 .. m /\ ~(2 * k <= q)
        BY <1>5, <1>13, <3>2
      <4>2. ~(at[2 * k] < n)
        BY <1>4, <4>1
      <4> QED
        BY <3>4, <4>1, <4>2
    <3> QED
      BY <1>2, <1>14, <3>3, <3>6, <3>7
  <2> QED
    BY <2>1, <2>2
<1> QED
  BY <1>15, <1>16 DEF ranges, lines
-------------------------------------------------------------------------------
\* IsCode and LineOf, of the output.
LEMMA LinesOfOutput ==
  ASSUME output \in Seq(Symbols), NEW k \in 1 .. Len(Lines(output))
  PROVE  /\ IsCode(k) <=> Coded(output, k)
         /\ \A p \in Nat : Lines(output)[k].start <= p /\ p <= EndOf(Lines(output)[k]) => LineOf(p) = k
<1>1. IsCode(k) <=> Coded(output, k)
  BY DEF IsCode, Coded, FencesAbove
<1>2. ASSUME NEW p \in Nat, Lines(output)[k].start <= p, p <= EndOf(Lines(output)[k])
      PROVE  LineOf(p) = k
  <2>1. Cardinality(Newlines(output, p)) + 1 = k
    BY <1>2, LineNumber
  <2> QED
    BY <2>1 DEF LineOf, Newlines
<1> QED
  BY <1>1, <1>2

(* Fenced code is never mined for claims: no claim touches a line of code,  *)
(* wherever in the output the fences stand, however many there are and     *)
(* whether or not the last one is closed, and none reaches from one line   *)
(* into the next.                                                           *)
THEOREM CodeIsNeverMined == Spec => []CodeIsNeverClaimed
<1>1. ExtractionInv => CodeIsNeverClaimed
  <2> SUFFICES ASSUME ExtractionInv, NEW n \in DOMAIN claims
               PROVE  /\ ~IsCode(LineOf(claims[n].spanStart))
                      /\ LineOf(claims[n].spanStart) = LineOf(claims[n].spanEnd)
    BY DEF CodeIsNeverClaimed
  <2>1. output \in Seq(Symbols) /\ claims = extractClaims(output)
    BY DEF ExtractionInv
  <2> DEFINE span == Found(output)[n]
             from == span.start
             to == EndOf(span)
  <2>2. n \in 1 .. Len(Found(output)) /\ claims[n].spanStart = from /\ claims[n].spanEnd = to
    BY <2>1, ClaimSpans
  <2>3. Sliced(output, span) /\ from < to
    BY <2>1, <2>2, FoundInLines
  <2>4. PICK k \in Kept(output) : /\ k \in 1 .. Len(Lines(output)) /\ Sliced(output, Lines(output)[k])
                                  /\ Inside(span, Lines(output)[k])
    BY <2>1, <2>2, FoundInLines
  <2> DEFINE line == Lines(output)[k]
  <2>5. from \in Nat /\ to \in Nat /\ to <= Len(output) /\ Len(output) \in Nat
    BY <2>1, <2>3, SpanParts
  <2>6. line.start \in Nat /\ EndOf(line) \in Nat /\ line.start <= from /\ to <= EndOf(line)
    BY <2>1, <2>4, SpanParts DEF Inside
  <2> HIDE DEF from, to
  <2>7. LineOf(from) = k /\ LineOf(to) = k
    <3>1. line.start <= from /\ from <= EndOf(line) /\ line.start <= to /\ to <= EndOf(line)
      <4> HIDE DEF line
      <4> QED
        BY <2>3, <2>5, <2>6
    <3> QED
      BY <2>1, <2>4, <2>5, <3>1, LinesOfOutput
  <2>8. line.start < Len(output)
    <3> HIDE DEF line
    <3> QED
      BY <2>3, <2>5, <2>6
  <2>9. ~isInside(fencedCodeRanges(output), line.start)
    BY <2>4 DEF Kept, isPassedOver
  <2>10. ~IsCode(k)
    BY <2>1, <2>4, <2>8, <2>9, CodeInRanges, LinesOfOutput
  <2> QED
    BY <2>2, <2>7, <2>10
<1> QED
  BY <1>1, ExtractionInvariant, PTL

-------------------------------------------------------------------------------
\* A run of words is three tokens.
LEMMA Substantive ==
  ASSUME NEW text \in Seq(Symbols), NEW i \in 1 .. Len(text), text[i] \in {"Fact", "fact"}
  PROVE  isSubstantive(text)
<1> DEFINE n == Len(text)
           all == (1 .. n) \X (1 .. 3)
           run == {i} \X (1 .. 3)
           some == tokens(text)
<1>1. n \in Nat /\ DOMAIN text = 1 .. n
  OBVIOUS
<1>2. \A j \in 1 .. n : Weight(text[j]) \in {0, 1, 3}
  BY DEF Weight
<1>3. Weight(text[i]) = 3
  BY DEF Weight
<1>4. some \in SUBSET all
  <2> SUFFICES ASSUME NEW t \in some PROVE t \in all
    OBVIOUS
  <2>1. PICK j \in 1 .. n : t \in {j} \X (1 .. Weight(text[j]))
    BY <1>1 DEF tokens
  <2> QED
    BY <1>2, <2>1
<1>5. run \in SUBSET some
  <2>1. i \in DOMAIN text /\ run = {i} \X (1 .. Weight(text[i]))
    BY <1>1, <1>3
  <2> HIDE DEF run
  <2> QED
    BY <2>1 DEF tokens
<1>6. IsFiniteSet(all)
  <2>1. 1 \in Int /\ 3 \in Int /\ n \in Int
    BY <1>1
  <2>2. IsFiniteSet(1 .. n) /\ IsFiniteSet(1 .. 3)
    BY <2>1, FS_Interval
  <2> QED
    BY <2>2, FS_Product
<1>7. Cardinality(run) = 3
  <2>1. IsFiniteSet({i}) /\ Cardinality({i}) = 1
    BY FS_Singleton
  <2>2. IsFiniteSet(1 .. 3) /\ Cardinality(1 .. 3) = 3
    <3>1. 1 \in Int /\ 3 \in Int
      OBVIOUS
    <3>2. IsFiniteSet(1 .. 3) /\ Cardinality(1 .. 3) = IF 1 > 3 THEN 0 ELSE 3 - 1 + 1
      BY <3>1, FS_Interval
    <3> QED
      BY <3>2
  <2>3. Cardinality(run) = Cardinality({i}) * Cardinality(1 .. 3)
    BY <2>1, <2>2, FS_Product
  <2> HIDE DEF run
  <2> QED
    BY <2>1, <2>2, <2>3
<1> HIDE DEF all, run, some
<1>8. IsFiniteSet(some)
  BY <1>4, <1>6, FS_Subset
<1>9. Cardinality(run) <= Cardinality(some)
  BY <1>5, <1>8, FS_Subset
<1> QED
  BY <1>7, <1>9 DEF isSubstantive, MIN_CLAIM_TOKENS, some

\* Where no question is asked and nothing hedged, a sentence with a run of words
\* is a claim.
LEMMA Asserted ==
  ASSUME NEW span, span.text \in Seq(Symbols), NEW i \in 1 .. Len(span.text),
         span.text[i] \in {"Fact", "fact"},
         \A j \in 1 .. Len(span.text) : span.text[j] \notin {"perhaps", "question"}
  PROVE  isClaim(span)
<1>1. DOMAIN span.text = 1 .. Len(span.text)
  OBVIOUS
<1>2. isSubstantive(span.text)
  BY Substantive
<1>3. ~isQuestion(span.text)
  BY <1>1 DEF isQuestion
<1>4. ~isHedged(span.text)
  BY <1>1 DEF isHedged, ToSet
<1> QED
  BY <1>2, <1>3, <1>4 DEF isClaim

(* No assertion slips past the audit: on a line that is no code and neither *)
(* asks nor hedges, every run of words is part of a claim, whatever the     *)
(* bullets, cells, abbreviations and quotes around it.                      *)
THEOREM NoAssertionSlipsBy == Spec => []EveryAssertionClaimed
<1>1. ExtractionInv => EveryAssertionClaimed
  <2> SUFFICES ASSUME ExtractionInv, NEW i \in DOMAIN output, output[i] \in {"Fact", "fact"},
                      ~IsCode(LineOf(i - 1)),
                      ~\E j \in DOMAIN output : /\ LineOf(j - 1) = LineOf(i - 1)
                                                /\ output[j] \in {"perhaps", "question"}
               PROVE  IsClaimed(i)
    BY DEF EveryAssertionClaimed
  <2>1. output \in Seq(Symbols) /\ claims = extractClaims(output) /\ DOMAIN output = 1 .. Len(output)
    BY DEF ExtractionInv
  <2>2. i \in 1 .. Len(output) /\ Len(output) \in Nat
    BY <2>1
  <2> DEFINE lines == Lines(output)
  <2>3. PICK k \in 1 .. Len(lines) : Holds(lines[k], i)
    <3> DEFINE whole == Whole(output)
    <3>1. Sliced(output, whole) /\ whole.start = 0 /\ whole.text = output /\ whole.start + i = i
      BY <2>1, <2>2, WholeSliced
    <3>2. "newline" \in Symbols /\ lines = split(whole, "newline")
      BY DEF Symbols, Lines, Whole
    <3> HIDE DEF whole, lines
    <3>3. i \in 1 .. Len(whole.text) /\ whole.text[i] # "newline"
      BY <2>2, <3>1
    <3> QED
      BY <2>1, <3>1, <3>2, <3>3, SplitHolds
  <2> DEFINE line == lines[k]
  <2>4. Sliced(output, line)
    BY <2>1, LinesCut DEF Cut
  <2>5. /\ line.start \in Nat /\ Len(line.text) \in Nat /\ line.text \in Seq(Symbols)
        /\ EndOf(line) \in Nat /\ EndOf(line) = line.start + Len(line.text) /\ EndOf(line) <= Len(output)
        /\ \A j \in 1 .. Len(line.text) : line.text[j] = output[line.start + j]
    BY <2>1, <2>4, SpanParts
  <2>6. line.start < i /\ i <= EndOf(line)
    BY <2>3 DEF Holds
  <2> DEFINE a == i - line.start
  <2>19. a \in 1 .. Len(line.text) /\ line.start + a = i
    <3>1. /\ i \in Nat /\ line.start \in Nat /\ Len(line.text) \in Nat
          /\ line.start < i /\ i <= line.start + Len(line.text)
      BY <2>2, <2>5, <2>6
    <3> HIDE DEF line
    <3> QED
      BY <3>1

\* The number of the line.
  <2>7. \A j \in Nat : line.start < j /\ j <= EndOf(line) => j \in DOMAIN output /\ LineOf(j - 1) = k
    <3> SUFFICES ASSUME NEW j \in Nat, line.start < j, j <= EndOf(line)
                 PROVE  j \in DOMAIN output /\ LineOf(j - 1) = k
      OBVIOUS
    <3>1. j \in 1 .. Len(output) /\ j - 1 \in Nat /\ line.start <= j - 1 /\ j - 1 <= EndOf(line)
      <4> HIDE DEF line
      <4> QED
        BY <2>2, <2>5
    <3> QED
      BY <2>1, <3>1, LinesOfOutput
  <2>8. LineOf(i - 1) = k
    BY <2>2, <2>6, <2>7
  <2>9. ASSUME NEW j \in Nat, line.start < j, j <= EndOf(line)
        PROVE  output[j] \notin {"perhaps", "question"}
    BY <2>7, <2>8, <2>9

\* The line is not passed over.
  <2>10. k \in Kept(output)
    <3>1. line.start < Len(output)
      <4> HIDE DEF line
      <4> QED
        BY <2>2, <2>5, <2>6
    <3>2. ~isInside(fencedCodeRanges(output), line.start)
      BY <2>1, <2>8, <3>1, CodeInRanges, LinesOfOutput
    <3>3. ~isFormattingOnly(trimSpan(line).text)
      <4> DEFINE trimmed == trimSpan(line)
                 b == i - trimmed.start
      <4>2. line.text[a] # "space"
        BY <2>5, <2>19
      <4>3. Sliced(output, trimmed) /\ Holds(trimmed, i)
        BY <2>1, <2>4, <2>19, <4>2, TrimSliced
      <4>4. /\ trimmed.start \in Nat /\ Len(trimmed.text) \in Nat /\ trimmed.text \in Seq(Symbols)
            /\ EndOf(trimmed) = trimmed.start + Len(trimmed.text)
            /\ \A j \in 1 .. Len(trimmed.text) : trimmed.text[j] = output[trimmed.start + j]
        BY <2>1, <4>3, SpanParts
      <4>5. trimmed.start < i /\ i <= EndOf(trimmed)
        BY <4>3 DEF Holds
      <4> HIDE DEF trimmed
      <4>6. b \in 1 .. Len(trimmed.text) /\ trimmed.start + b = i
        BY <2>2, <4>4, <4>5
      <4>7. trimmed.text[b] \in {"Fact", "fact"} /\ b \in DOMAIN trimmed.text
        BY <4>4, <4>6
      <4>8. trimmed.text[b] \in ToSet(trimmed.text)
        BY <4>7 DEF ToSet
      <4> QED
        BY <4>7, <4>8 DEF isFormattingOnly, trimmed
    <3> QED
      BY <3>2, <3>3 DEF Kept, isPassedOver

\* The sentence it is in.
  <2> DEFINE sentences == candidatesOf(line)
  <2>11. PICK p \in 1 .. Len(sentences) : Holds(sentences[p], i)
    <3>1. line.text[a] \notin Markup
      BY <2>5, <2>19 DEF Markup
    <3> QED
      BY <2>1, <2>4, <2>19, <3>1, CandidatesCut
  <2> DEFINE span == sentences[p]
             c == i - span.start
  <2>12. Sliced(output, span) /\ Inside(span, line)
    BY <2>1, <2>4, CandidatesCut DEF Cut
  <2>13. /\ span.start \in Nat /\ Len(span.text) \in Nat /\ span.text \in Seq(Symbols)
         /\ EndOf(span) = span.start + Len(span.text)
         /\ \A j \in 1 .. Len(span.text) : span.text[j] = output[span.start + j]
    BY <2>1, <2>12, SpanParts
  <2>14. span.start < i /\ i <= EndOf(span)
    BY <2>11 DEF Holds
  <2>15. line.start <= span.start /\ EndOf(span) <= EndOf(line)
    BY <2>12 DEF Inside
  <2>16. isClaim(span)
    <3> HIDE DEF span, line
    <3>1. c \in 1 .. Len(span.text) /\ span.start + c = i
      <4>1. /\ i \in Nat /\ span.start \in Nat /\ Len(span.text) \in Nat
            /\ span.start < i /\ i <= span.start + Len(span.text)
        BY <2>2, <2>13, <2>14
      <4> DEFINE s == span.start
                 w == Len(span.text)
      <4>2. i \in Nat /\ s \in Nat /\ w \in Nat /\ s < i /\ i <= s + w
        BY <4>1
      <4> HIDE DEF s, w
      <4>3. i - s \in 1 .. w /\ s + (i - s) = i
        BY <4>2
      <4> QED
        BY <4>3 DEF s, w
    <3>2. span.text[c] \in {"Fact", "fact"}
      BY <2>13, <3>1
    <3>3. ASSUME NEW j \in 1 .. Len(span.text) PROVE span.text[j] \notin {"perhaps", "question"}
      <4>1. span.start + j \in Nat /\ line.start < span.start + j /\ span.start + j <= EndOf(line)
        <5>1. j \in Nat /\ j > 0 /\ j <= Len(span.text) /\ span.start \in Nat /\ Len(span.text) \in Nat
          BY <2>13
        <5>2. line.start \in Nat /\ EndOf(line) \in Nat /\ line.start <= span.start
              /\ span.start + Len(span.text) <= EndOf(line)
          BY <2>5, <2>13, <2>15
        <5> QED
          BY <5>1, <5>2, SMTT(20)
      <4>2. output[span.start + j] \notin {"perhaps", "question"}
        BY <2>9, <4>1
      <4> QED
        BY <2>13, <4>2
    <3> QED
      BY <2>13, <3>1, <3>2, <3>3, Asserted
  <2>17. PICK n \in 1 .. Len(Found(output)) : Found(output)[n] = span
    BY <2>1, <2>10, <2>11, <2>16, FoundCut
  <2>18. n \in DOMAIN claims /\ claims[n].spanStart = span.start /\ claims[n].spanEnd = EndOf(span)
    BY <2>1, <2>17, ClaimSpans
  <2> QED
    BY <2>14, <2>18 DEF IsClaimed
<1> QED
  BY <1>1, ExtractionInvariant, PTL
-------------------------------------------------------------------------------
\* Two ascending lists that have the same numbers up to a limit begin alike.
Ascends(list, n) ==
  /\ n \in Nat
  /\ \A j \in 1 .. n : list[j] \in Nat
  /\ \A i, j \in 1 .. n : i < j => list[i] < list[j]

Covers(a, n, b, m, limit) == \A j \in 1 .. n : a[j] < limit => \E i \in 1 .. m : b[i] = a[j]

\* Two ascending lists with the same items below a limit begin alike.
LEMMA BeginAlike ==
  ASSUME NEW a, NEW n, Ascends(a, n), NEW b, NEW m, Ascends(b, m), NEW limit \in Nat,
         Covers(a, n, b, m, limit), Covers(b, m, a, n, limit)
  PROVE  \A j \in 1 .. n : a[j] < limit => j \in 1 .. m /\ b[j] = a[j]
<1>1. /\ n \in Nat /\ m \in Nat
      /\ \A j \in 1 .. n : a[j] \in Nat
      /\ \A j \in 1 .. m : b[j] \in Nat
      /\ \A i, j \in 1 .. n : i < j => a[i] < a[j]
      /\ \A i, j \in 1 .. m : i < j => b[i] < b[j]
      /\ \A j \in 1 .. n : a[j] < limit => \E i \in 1 .. m : b[i] = a[j]
      /\ \A j \in 1 .. m : b[j] < limit => \E i \in 1 .. n : a[i] = b[j]
  BY DEF Ascends, Covers
<1> DEFINE Agree(j) == j \in 1 .. n /\ a[j] < limit => j \in 1 .. m /\ b[j] = a[j]
           Some == {k \in Nat : \A j \in 1 .. k : Agree(j)}
<1>2. 0 \in Some
  OBVIOUS
<1>3. ASSUME NEW k \in Some PROVE k + 1 \in Some
  <2> DEFINE l == k + 1
  <2>1. k \in Nat /\ \A j \in 1 .. k : Agree(j)
    OBVIOUS
  <2>2. ASSUME l \in 1 .. n, a[l] < limit PROVE l \in 1 .. m /\ b[l] = a[l]
    <3>1. PICK i \in 1 .. m : b[i] = a[l]
      BY <1>1, <2>2
    <3>2. \A j \in 1 .. k : j \in 1 .. m /\ j \in 1 .. n /\ b[j] = a[j] /\ a[j] < a[l]
      <4> SUFFICES ASSUME NEW j \in 1 .. k
                   PROVE  j \in 1 .. m /\ j \in 1 .. n /\ b[j] = a[j] /\ a[j] < a[l]
        OBVIOUS
      <4>1. j \in 1 .. n /\ j < l
        BY <1>1, <2>1, <2>2
      <4>2. a[j] < a[l] /\ a[j] \in Nat /\ a[l] \in Nat
        BY <1>1, <2>2, <4>1
      <4>3. a[j] < limit
        BY <2>2, <4>2
      <4> QED
        BY <2>1, <4>1, <4>2, <4>3
    <3>3. ~(i < l)
      <4> SUFFICES ASSUME i < l PROVE FALSE
        OBVIOUS
      <4>1. i \in 1 .. k
        BY <1>1, <2>1
      <4>2. a[i] < a[l] /\ b[i] = a[i] /\ a[l] \in Nat
        BY <1>1, <2>2, <3>2, <4>1
      <4> QED
        BY <3>1, <4>2
    <3>4. l \in 1 .. m
      BY <1>1, <2>1, <3>3
    <3>5. ~(l < i)
      <4> SUFFICES ASSUME l < i PROVE FALSE
        OBVIOUS
      <4>1. b[l] < b[i] /\ b[l] \in Nat /\ b[i] \in Nat
        BY <1>1, <3>4
      <4>2. b[l] < limit
        BY <2>2, <3>1, <4>1
      <4>3. PICK h \in 1 .. n : a[h] = b[l]
        BY <1>1, <3>4, <4>2
      <4>4. a[h] < a[l] /\ a[h] \in Nat /\ a[l] \in Nat
        BY <1>1, <2>2, <3>1, <4>1, <4>3
      <4>5. ~(l < h) /\ l # h
        <5>1. l < h => a[l] < a[h]
          BY <1>1, <2>2
        <5> QED
          BY <4>4, <5>1
      <4>6. h \in 1 .. k
        BY <1>1, <2>1, <4>5
      <4>7. b[h] = a[h] /\ h \in 1 .. m /\ h < l
        BY <2>1, <3>2, <4>6
      <4>8. b[h] < b[l]
        BY <1>1, <3>4, <4>7
      <4> QED
        BY <4>1, <4>3, <4>7, <4>8
    <3>6. i = l
      BY <1>1, <2>1, <3>3, <3>5
    <3> QED
      BY <3>1, <3>4, <3>6
  <2>3. \A j \in 1 .. l : j \in 1 .. k \/ j = l
    BY <2>1
  <2> HIDE DEF l
  <2>4. Agree(l)
    BY <2>2
  <2> HIDE DEF Agree
  <2>5. \A j \in 1 .. l : Agree(j)
    BY <2>1, <2>3, <2>4
  <2> QED
    BY <2>1, <2>5 DEF l
<1>4. Some = Nat
  <2>1. Some \in SUBSET Nat
    OBVIOUS
  <2> HIDE DEF Some
  <2> QED
    BY <1>2, <1>3, <2>1, Upward
<1>5. \A j \in 1 .. n : Agree(j)
  <2> HIDE DEF Agree
  <2> QED
    BY <1>1, <1>4
<1> QED
  BY <1>5

\* Spans of a text at the same place have the same text, and a longer text has
\* them too.
Extends(longer, text) ==
  /\ longer \in Seq(Symbols) /\ Len(text) <= Len(longer)
  /\ \A i \in 1 .. Len(text) : longer[i] = text[i]

\* Spans of a text and of what it becomes, at the same place, are the same.
LEMMA SamePlace ==
  ASSUME NEW text \in Seq(Symbols), NEW longer, Extends(longer, text),
         NEW span, Sliced(text, span), NEW other, Sliced(longer, other),
         span.start = other.start, EndOf(span) = EndOf(other)
  PROVE  span = other
<1>1. /\ span \in Spans /\ span.start \in Nat /\ span.text \in Seq(Symbols) /\ Len(span.text) \in Nat
      /\ EndOf(span) = span.start + Len(span.text) /\ EndOf(span) <= Len(text) /\ Len(text) \in Nat
      /\ \A i \in 1 .. Len(span.text) : span.text[i] = text[span.start + i]
  BY SpanParts DEF Sliced
<1>2. /\ other \in Spans /\ other.start \in Nat /\ other.text \in Seq(Symbols) /\ Len(other.text) \in Nat
      /\ EndOf(other) = other.start + Len(other.text)
      /\ \A i \in 1 .. Len(other.text) : other.text[i] = longer[other.start + i]
  BY SpanParts DEF Sliced, Extends
<1>3. Len(span.text) = Len(other.text)
  <2> DEFINE s == span.start
             l == Len(span.text)
             o == Len(other.text)
  <2>1. s \in Nat /\ l \in Nat /\ o \in Nat /\ s + l = s + o
    <3>1. other.start + o = EndOf(other)
      BY <1>2
    <3>2. s + l = EndOf(span)
      BY <1>1
    <3> QED
      BY <1>1, <1>2, <3>1, <3>2
  <2> HIDE DEF s, l, o
  <2>2. l = o
    BY <2>1
  <2> QED
    BY <2>2 DEF l, o
<1>4. ASSUME NEW i \in 1 .. Len(span.text) PROVE span.text[i] = other.text[i]
  <2>1. span.start + i \in 1 .. Len(text)
    BY <1>1
  <2>2. longer[span.start + i] = text[span.start + i]
    BY <2>1 DEF Extends
  <2> QED
    BY <1>1, <1>2, <1>3, <2>2
<1>5. span.text = other.text
  BY <1>1, <1>2, <1>3, <1>4, SeqEqual
<1> QED
  BY <1>1, <1>2, <1>5 DEF Spans

\* The finished lines of a text are lines of what it becomes.
Finished(text) == Len(Cuts(text, "newline"))

\* A finished line is not changed by what follows, and no other begins before it ends.
LEMMA LinesStand ==
  ASSUME NEW text \in Seq(Symbols), NEW longer, Extends(longer, text)
  PROVE  /\ Finished(text) \in Nat
         /\ \A k \in 1 .. Finished(text) :
              /\ k \in 1 .. Len(Lines(text)) /\ k \in 1 .. Len(Lines(longer))
              /\ Lines(longer)[k] = Lines(text)[k]
              /\ Lines(text)[k].start < Len(text)
         /\ Finished(text) > 0 =>
              LET limit == Cuts(text, "newline")[Finished(text)]
              IN  /\ limit \in Nat
                  /\ \A k \in 1 .. Len(Lines(text)) : Lines(text)[k].start < limit => k \in 1 .. Finished(text)
                  /\ \A k \in 1 .. Len(Lines(longer)) : Lines(longer)[k].start < limit => k \in 1 .. Finished(text)
<1> DEFINE a == Cuts(text, "newline")
           b == Cuts(longer, "newline")
           m == Len(a)
           n == Len(b)
           lines == Lines(text)
           longs == Lines(longer)
<1>0. longer \in Seq(Symbols) /\ Len(longer) \in Nat /\ Len(text) \in Nat /\ Len(text) <= Len(longer)
  BY DEF Extends
<1>1. /\ m \in Nat /\ Len(lines) = m + 1
      /\ \A k \in 1 .. m : a[k] \in 1 .. Len(text)
      /\ \A j, k \in 1 .. m : j < k => a[j] < a[k]
      /\ \A i \in 1 .. Len(text) : text[i] = "newline" <=> \E k \in 1 .. m : a[k] = i
      /\ \A k \in 1 .. Len(lines) :
           /\ lines[k].start = IF k = 1 THEN 0 ELSE a[k - 1]
           /\ EndOf(lines[k]) = IF k \in 1 .. m THEN a[k] - 1 ELSE Len(text)
  <2>1. LinesLie(lines, a, text)
    BY LineParts
  <2> HIDE DEF a, lines
  <2> QED
    BY <2>1 DEF LinesLie
<1>2. /\ n \in Nat /\ Len(longs) = n + 1
      /\ \A k \in 1 .. n : b[k] \in 1 .. Len(longer)
      /\ \A j, k \in 1 .. n : j < k => b[j] < b[k]
      /\ \A i \in 1 .. Len(longer) : longer[i] = "newline" <=> \E k \in 1 .. n : b[k] = i
      /\ \A k \in 1 .. Len(longs) :
           /\ longs[k].start = IF k = 1 THEN 0 ELSE b[k - 1]
           /\ EndOf(longs[k]) = IF k \in 1 .. n THEN b[k] - 1 ELSE Len(longer)
  <2>1. LinesLie(longs, b, longer)
    BY <1>0, LineParts
  <2> HIDE DEF b, longs
  <2> QED
    BY <2>1 DEF LinesLie
<1> HIDE DEF a, b, m, n, lines, longs
<1>3. Ascends(a, m) /\ Ascends(b, n)
  BY <1>1, <1>2 DEF Ascends
<1>4. Covers(a, m, b, n, Len(text) + 1)
  <2> SUFFICES ASSUME NEW j \in 1 .. m PROVE \E i \in 1 .. n : b[i] = a[j]
    BY DEF Covers
  <2>1. a[j] \in 1 .. Len(text) /\ a[j] \in 1 .. Len(longer)
    BY <1>0, <1>1
  <2>2. longer[a[j]] = "newline"
    BY <1>1, <2>1 DEF Extends
  <2> QED
    BY <1>2, <2>1, <2>2
<1>5. Covers(b, n, a, m, Len(text) + 1)
  <2> SUFFICES ASSUME NEW j \in 1 .. n, b[j] < Len(text) + 1 PROVE \E i \in 1 .. m : a[i] = b[j]
    BY DEF Covers
  <2>1. b[j] \in 1 .. Len(longer)
    BY <1>2
  <2>2. b[j] \in 1 .. Len(text)
    BY <1>0, <2>1
  <2>3. text[b[j]] = "newline"
    BY <1>2, <2>1, <2>2 DEF Extends
  <2> QED
    BY <1>1, <2>2, <2>3
<1>6. ASSUME NEW k \in 1 .. m PROVE k \in 1 .. n /\ b[k] = a[k] /\ a[k] \in 1 .. Len(text)
  <2>1. Len(text) + 1 \in Nat /\ a[k] < Len(text) + 1 /\ a[k] \in 1 .. Len(text)
    BY <1>0, <1>1
  <2> QED
    BY <1>3, <1>4, <1>5, <2>1, BeginAlike
<1>7. ASSUME NEW k \in 1 .. m
      PROVE  /\ k \in 1 .. Len(lines) /\ k \in 1 .. Len(longs) /\ longs[k] = lines[k]
             /\ lines[k].start < Len(text)
  <2>1. k \in 1 .. Len(lines) /\ k \in 1 .. n /\ k \in 1 .. Len(longs)
    BY <1>1, <1>2, <1>6
  <2>2. Sliced(text, lines[k]) /\ Sliced(longer, longs[k])
    BY <1>0, <2>1, LinesCut DEF Cut, lines, longs
  <2>3. EndOf(lines[k]) = a[k] - 1 /\ EndOf(longs[k]) = a[k] - 1
    BY <1>1, <1>2, <1>6, <2>1
  <2>4. lines[k].start = longs[k].start
    <3>1. CASE k = 1
      BY <1>1, <1>2, <2>1, <3>1
    <3>2. CASE k # 1
      <4>1. k - 1 \in 1 .. m
        BY <1>1, <3>2
      <4>2. b[k - 1] = a[k - 1]
        BY <1>6, <4>1
      <4> QED
        BY <1>1, <1>2, <2>1, <3>2, <4>2
    <3> QED
      BY <3>1, <3>2
  <2>5. longs[k] = lines[k]
    BY <2>2, <2>3, <2>4, SamePlace
  <2>6. lines[k].start < Len(text)
    <3>1. /\ lines[k].start \in Nat /\ EndOf(lines[k]) = lines[k].start + Len(lines[k].text)
          /\ Len(lines[k].text) \in Nat
      BY <2>2, SpanParts
    <3>2. a[k] \in 1 .. Len(text)
      BY <1>6
    <3>3. lines[k].start <= a[k] - 1
      <4> DEFINE s == lines[k].start
                 l == Len(lines[k].text)
      <4>1. s \in Nat /\ l \in Nat /\ s + l = a[k] - 1
        BY <2>3, <3>1
      <4> HIDE DEF s, l
      <4>2. s <= a[k] - 1
        BY <3>2, <4>1
      <4> QED
        BY <4>2 DEF s
    <3> QED
      BY <1>0, <3>1, <3>2, <3>3
  <2> QED
    BY <2>1, <2>5, <2>6
<1>8. ASSUME m > 0
      PROVE  /\ a[m] \in Nat
             /\ \A k \in 1 .. Len(lines) : lines[k].start < a[m] => k \in 1 .. m
             /\ \A k \in 1 .. Len(longs) : longs[k].start < a[m] => k \in 1 .. m
  <2>1. m \in 1 .. m /\ a[m] \in Nat /\ m \in 1 .. n /\ b[m] = a[m]
    BY <1>0, <1>1, <1>6, <1>8
  <2>2. ASSUME NEW k \in 1 .. Len(lines), lines[k].start < a[m] PROVE k \in 1 .. m
    <3> SUFFICES ASSUME k \notin 1 .. m PROVE FALSE
      OBVIOUS
    <3>1. k = m + 1 /\ k # 1 /\ k - 1 = m
      BY <1>1, <1>8
    <3>2. lines[k].start = a[m]
      BY <1>1, <3>1
    <3> QED
      BY <2>1, <2>2, <3>2
  <2>3. ASSUME NEW k \in 1 .. Len(longs), longs[k].start < a[m] PROVE k \in 1 .. m
    <3> SUFFICES ASSUME k \notin 1 .. m PROVE FALSE
      OBVIOUS
    <3>1. k # 1 /\ k - 1 \in 1 .. n /\ (m = k - 1 \/ m < k - 1)
      BY <1>1, <1>2, <1>8
    <3>2. longs[k].start = b[k - 1] /\ b[k - 1] \in Nat /\ b[m] \in Nat
      BY <1>0, <1>2, <2>1, <3>1
    <3>3. m < k - 1 => b[m] < b[k - 1]
      BY <1>2, <2>1, <3>1
    <3> QED
      BY <2>1, <2>3, <3>1, <3>2, <3>3
  <2> QED
    BY <2>1, <2>2, <2>3
<1> QED
  BY <1>1, <1>7, <1>8 DEF Finished, a, m, lines, longs

\* Nor is whether it is passed over.
LEMMA KeptStand ==
  ASSUME NEW text \in Seq(Symbols), NEW longer, Extends(longer, text), NEW k \in 1 .. Finished(text)
  PROVE  k \in Kept(text) <=> k \in Kept(longer)
<1> DEFINE lines == Lines(text)
           longs == Lines(longer)
           start == lines[k].start
<1>1. /\ k \in 1 .. Len(lines) /\ k \in 1 .. Len(longs) /\ longs[k] = lines[k] /\ start < Len(text)
      /\ Finished(text) \in Nat
      /\ \A j \in 1 .. k : j \in 1 .. Finished(text)
  BY LinesStand
<1>2. \A j \in 1 .. k : longs[j] = lines[j]
  BY <1>1, LinesStand
<1>3. FencesAbove(text, k) = FencesAbove(longer, k)
  <2>1. \A j \in 1 .. k - 1 : j \in 1 .. k
    BY <1>1
  <2> QED
    BY <1>2, <2>1 DEF FencesAbove
<1>4. Coded(text, k) <=> Coded(longer, k)
  BY <1>1, <1>3 DEF Coded
<1>5. isInside(fencedCodeRanges(text), start) <=> Coded(text, k)
  BY <1>1, CodeInRanges
<1>6. isInside(fencedCodeRanges(longer), start) <=> Coded(longer, k)
  <2>1. longer \in Seq(Symbols) /\ longs[k].start < Len(longer)
    <3>1. start \in Nat
      <4>1. Sliced(text, lines[k])
        BY <1>1, LinesCut DEF Cut
      <4> QED
        BY <4>1, SpanParts
    <3>2. longer \in Seq(Symbols) /\ Len(text) <= Len(longer) /\ Len(text) \in Nat /\ Len(longer) \in Nat
      BY DEF Extends
    <3>3. longs[k].start = start
      BY <1>1
    <3> HIDE DEF start
    <3> QED
      BY <1>1, <3>1, <3>2, <3>3
  <2> QED
    BY <1>1, <2>1, CodeInRanges
<1> QED
  BY <1>1, <1>4, <1>5, <1>6 DEF Kept, isPassedOver

\* The lines of a text that begin before a limit are lines of another text, and
\* what is not passed over of them is not passed over there.
SameAbove(text, other, m, limit) ==
  /\ \A k \in 1 .. Len(Lines(text)) : Lines(text)[k].start < limit => k \in 1 .. m
  /\ \A k \in 1 .. m : Lines(text)[k] = Lines(other)[k] /\ (k \in Kept(text) => k \in Kept(other))

\* What is found in lines that two texts share is found in both.
LEMMA FoundCarries ==
  ASSUME NEW text \in Seq(Symbols), NEW other \in Seq(Symbols), NEW m, NEW limit \in Nat,
         SameAbove(text, other, m, limit),
         NEW j \in 1 .. Len(Found(text)), Found(text)[j].start < limit
  PROVE  \E i \in 1 .. Len(Found(other)) : Found(other)[i] = Found(text)[j]
<1> DEFINE span == Found(text)[j]
<1>1. Sliced(text, span) /\ isClaim(span)
  BY FoundCut DEF Cut
<1>2. PICK k \in Kept(text) : \E p \in 1 .. Len(candidatesOf(Lines(text)[k])) :
        span = candidatesOf(Lines(text)[k])[p]
  BY FoundCut
<1>3. PICK p \in 1 .. Len(candidatesOf(Lines(text)[k])) : span = candidatesOf(Lines(text)[k])[p]
  BY <1>2
<1>4. k \in 1 .. Len(Lines(text))
  BY DEF Kept
<1>5. Sliced(text, Lines(text)[k])
  BY <1>4, LinesCut DEF Cut
<1>6. Inside(span, Lines(text)[k])
  BY <1>3, <1>5, CandidatesCut DEF Cut
<1>7. Lines(text)[k].start < limit
  <2>1. Lines(text)[k].start <= span.start /\ span.start < limit
    BY <1>6 DEF Inside
  <2>2. Lines(text)[k].start \in Nat /\ span.start \in Nat
    BY <1>1, <1>5, SpanParts
  <2> HIDE DEF span
  <2> QED
    BY <2>1, <2>2
<1>8. Lines(text)[k] = Lines(other)[k] /\ k \in Kept(other)
  BY <1>4, <1>7 DEF SameAbove
<1>9. p \in 1 .. Len(candidatesOf(Lines(other)[k])) /\ span = candidatesOf(Lines(other)[k])[p]
  BY <1>3, <1>8
<1> QED
  BY <1>1, <1>8, <1>9, FoundCut

\* Nor is what is found in it, or its place among what is found.
LEMMA FoundStand ==
  ASSUME NEW text \in Seq(Symbols), NEW longer, Extends(longer, text),
         NEW n \in 1 .. Len(Found(text)), EndOf(Found(text)[n]) < LastLine(text)
  PROVE  n \in 1 .. Len(Found(longer)) /\ Found(longer)[n] = Found(text)[n]
<1> DEFINE cuts == Cuts(text, "newline")
           m == Finished(text)
           limit == cuts[m]
           found == Found(text)
           founds == Found(longer)
           a == [j \in 1 .. Len(found) |-> found[j].start]
           b == [j \in 1 .. Len(founds) |-> founds[j].start]
<1>1. longer \in Seq(Symbols)
  BY DEF Extends
<1>2. Sliced(text, found[n]) /\ found[n].start < EndOf(found[n])
  BY FoundInLines
<1>3. found[n].start \in Nat /\ EndOf(found[n]) \in Nat
  BY <1>2, SpanParts
<1>4. m > 0 /\ limit \in Nat /\ found[n].start < limit
  <2> DEFINE newlines == {i \in DOMAIN text : text[i] = "newline"}
             last == LastLine(text)
  <2>1. DOMAIN text = 1 .. Len(text) /\ Len(text) \in Nat
    OBVIOUS
  <2>2. {0} \cup newlines \in SUBSET (0 .. Len(text)) /\ {0} \cup newlines # {}
    BY <2>1
  <2>3. last \in {0} \cup newlines
    <3>1. last = Max({0} \cup newlines)
      BY DEF LastLine
    <3> HIDE DEF newlines, last
    <3> QED
      BY <2>1, <2>2, <3>1, GreatestOf
  <2> HIDE DEF last
  <2>4. EndOf(found[n]) < last
    BY DEF last
  <2>5. last \in newlines
    <3>1. last # 0
      BY <1>3, <2>4
    <3> QED
      BY <2>3, <3>1
  <2>6. /\ m \in Nat
        /\ \A k \in 1 .. m : cuts[k] \in 1 .. Len(text)
        /\ \A i, j \in 1 .. m : i < j => cuts[i] < cuts[j]
        /\ \A i \in 1 .. Len(text) : text[i] = "newline" <=> \E k \in 1 .. m : cuts[k] = i
    <3>1. LinesLie(Lines(text), cuts, text)
      BY LineParts
    <3>2. m = Len(cuts)
      BY DEF Finished
    <3> HIDE DEF cuts, m
    <3> QED
      BY <3>1, <3>2 DEF LinesLie
  <2>7. PICK k \in 1 .. m : cuts[k] = last
    BY <2>1, <2>5, <2>6
  <2> HIDE DEF cuts, m
  <2>8. m \in 1 .. m /\ (k = m \/ k < m)
    BY <2>6
  <2>9. k < m => cuts[k] < cuts[m]
    BY <2>6, <2>8
  <2>10. cuts[m] \in Nat /\ cuts[k] \in Nat
    BY <2>6, <2>8
  <2>11. last <= limit
    BY <2>7, <2>8, <2>9, <2>10
  <2>12. found[n].start < limit
    <3> DEFINE s == found[n].start
               e == EndOf(found[n])
    <3>1. s < e /\ e < last /\ last <= limit /\ s \in Nat /\ e \in Nat /\ last \in Nat /\ limit \in Nat
      BY <1>2, <1>3, <2>4, <2>7, <2>10, <2>11
    <3> HIDE DEF s, e, limit
    <3>2. s < limit
      BY <3>1
    <3> QED
      BY <3>2 DEF s
  <2> QED
    BY <2>6, <2>8, <2>10, <2>12
<1>5. /\ m \in Nat
      /\ \A k \in 1 .. m : Lines(longer)[k] = Lines(text)[k] /\ (k \in Kept(text) <=> k \in Kept(longer))
      /\ \A k \in 1 .. Len(Lines(text)) : Lines(text)[k].start < limit => k \in 1 .. m
      /\ \A k \in 1 .. Len(Lines(longer)) : Lines(longer)[k].start < limit => k \in 1 .. m
  BY <1>4, LinesStand, KeptStand
<1> HIDE DEF limit, m
<1>14. SameAbove(text, longer, m, limit) /\ SameAbove(longer, text, m, limit)
  BY <1>5 DEF SameAbove
<1>6. ASSUME NEW j \in 1 .. Len(found), found[j].start < limit
      PROVE  \E i \in 1 .. Len(founds) : founds[i] = found[j]
  BY <1>1, <1>4, <1>6, <1>14, FoundCarries
<1>7. ASSUME NEW j \in 1 .. Len(founds), founds[j].start < limit
      PROVE  \E i \in 1 .. Len(found) : found[i] = founds[j]
  BY <1>1, <1>4, <1>7, <1>14, FoundCarries
<1>8. Ascends(a, Len(found)) /\ Ascends(b, Len(founds))
  <2>1. ASSUME NEW x \in Seq(Symbols)
        PROVE  Ascends([j \in 1 .. Len(Found(x)) |-> Found(x)[j].start], Len(Found(x)))
    <3> DEFINE all == Found(x)
               starts == [j \in 1 .. Len(all) |-> all[j].start]
    <3>1. /\ Len(all) \in Nat
          /\ \A j, k \in 1 .. Len(all) : j < k => EndOf(all[j]) <= all[k].start
      <4>1. Cut(all, x, Whole(x))
        BY <2>1, FoundCut
      <4> HIDE DEF all
      <4> QED
        BY <4>1 DEF Cut
    <3>2. \A j \in 1 .. Len(all) : all[j].start \in Nat /\ EndOf(all[j]) \in Nat /\ all[j].start < EndOf(all[j])
      BY <2>1, FoundInLines, SpanParts
    <3> HIDE DEF all
    <3>3. ASSUME NEW i \in 1 .. Len(all), NEW j \in 1 .. Len(all), i < j PROVE starts[i] < starts[j]
      <4>1. EndOf(all[i]) <= all[j].start
        BY <3>1, <3>3
      <4>2. all[i].start < all[j].start
        BY <3>2, <4>1
      <4> QED
        BY <4>2
    <3>4. \A j \in 1 .. Len(all) : starts[j] \in Nat
      BY <3>2
    <3> HIDE DEF starts
    <3>5. Ascends(starts, Len(all))
      BY <3>1, <3>3, <3>4 DEF Ascends
    <3> QED
      BY <3>5 DEF starts, all
  <2> QED
    BY <1>1, <2>1
<1>9. /\ \A j \in 1 .. Len(found) : a[j] = found[j].start
      /\ \A j \in 1 .. Len(founds) : b[j] = founds[j].start
  OBVIOUS
<1> HIDE DEF a, b
<1>10. Covers(a, Len(found), b, Len(founds), limit) /\ Covers(b, Len(founds), a, Len(found), limit)
  <2>1. ASSUME NEW j \in 1 .. Len(found), a[j] < limit PROVE \E i \in 1 .. Len(founds) : b[i] = a[j]
    <3>1. PICK i \in 1 .. Len(founds) : founds[i] = found[j]
      BY <1>6, <1>9, <2>1
    <3> QED
      BY <1>9, <3>1
  <2>2. ASSUME NEW j \in 1 .. Len(founds), b[j] < limit PROVE \E i \in 1 .. Len(found) : a[i] = b[j]
    <3>1. PICK i \in 1 .. Len(found) : found[i] = founds[j]
      BY <1>7, <1>9, <2>2
    <3> QED
      BY <1>9, <3>1
  <2> QED
    BY <2>1, <2>2 DEF Covers
<1>11. n \in 1 .. Len(founds) /\ b[n] = a[n]
  BY <1>4, <1>8, <1>9, <1>10, BeginAlike

\* Only one of those that are found in the longer text begins there.
<1>12. PICK i \in 1 .. Len(founds) : founds[i] = found[n]
  BY <1>4, <1>6
<1>13. i = n
  <2>1. b[i] = b[n]
    BY <1>9, <1>11, <1>12
  <2>2. b[i] \in Nat /\ b[n] \in Nat /\ (i < n => b[i] < b[n]) /\ (n < i => b[n] < b[i])
    BY <1>8, <1>11 DEF Ascends
  <2>3. i \in Int /\ n \in Int
    BY <1>8 DEF Ascends
  <2> QED
    BY <2>1, <2>2, <2>3
<1> QED
  BY <1>11, <1>12, <1>13

(* Writing on never takes back what was found in a finished line: a claim   *)
(* keeps its id, its span and its text, whatever follows, an unterminated  *)
(* fence included.                                                          *)
THEOREM FinishedLinesAlwaysStand == Spec => FinishedLinesStand
<1> DEFINE Stand == \A n \in DOMAIN claims :
                      claims[n].spanEnd < LastLine(output) =>
                        n \in DOMAIN claims' /\ claims'[n] = claims[n]
<1>1. ExtractionInv /\ [Next]_vars => [Stand]_vars
  <2> SUFFICES ASSUME ExtractionInv, NEW piece \in Pieces, Write(piece),
                      NEW n \in DOMAIN claims, claims[n].spanEnd < LastLine(output)
               PROVE  n \in DOMAIN claims' /\ claims'[n] = claims[n]
    BY DEF Next
  <2> DEFINE longer == output \o piece
             found == Found(output)
             founds == Found(longer)
  <2>1. /\ output \in Seq(Symbols) /\ claims = extractClaims(output)
        /\ piece \in Seq(Symbols) /\ claims' = extractClaims(longer)
    BY PiecesAssumption DEF ExtractionInv, Write
  <2>2. Extends(longer, output)
    <3>1. /\ longer \in Seq(Symbols) /\ Len(longer) = Len(output) + Len(piece)
          /\ \A i \in 1 .. Len(output) + Len(piece) :
               longer[i] = IF i <= Len(output) THEN output[i] ELSE piece[i - Len(output)]
      BY <2>1, ConcatProperties
    <3>2. Len(output) \in Nat /\ Len(piece) \in Nat
      BY <2>1
    <3> HIDE DEF longer
    <3>3. Len(output) <= Len(longer)
      BY <3>1, <3>2
    <3>4. \A i \in 1 .. Len(output) : longer[i] = output[i]
      BY <3>1, <3>2
    <3> QED
      BY <3>1, <3>3, <3>4 DEF Extends
  <2> HIDE DEF longer
  <2>3. longer \in Seq(Symbols)
    BY <2>2 DEF Extends
  <2>4. n \in 1 .. Len(found) /\ claims[n].spanEnd = EndOf(found[n])
    BY <2>1, ClaimSpans
  <2>5. n \in 1 .. Len(founds) /\ founds[n] = found[n]
    BY <2>1, <2>2, <2>4, FoundStand
  <2>6. DOMAIN found = 1 .. Len(found) /\ DOMAIN founds = 1 .. Len(founds)
    BY <2>1, <2>3, FoundCut DEF Cut
  <2>7. claims[n] = [id |-> n - 1, text |-> found[n].text, spanStart |-> found[n].start,
                     spanEnd |-> found[n].start + Len(found[n].text)]
    BY <2>1, <2>4, <2>6, ClaimsFound
  <2>8. DOMAIN claims' = 1 .. Len(founds)
    BY <2>1, <2>3, ClaimSpans
  <2>9. claims'[n] = [id |-> n - 1, text |-> founds[n].text, spanStart |-> founds[n].start,
                      spanEnd |-> founds[n].start + Len(founds[n].text)]
    BY <2>1, <2>3, <2>5, <2>6, ClaimsFound
  <2> QED
    BY <2>5, <2>7, <2>8, <2>9
<1> QED
  BY <1>1, ExtractionInvariant, PTL DEF Spec, FinishedLinesStand
===============================================================================
