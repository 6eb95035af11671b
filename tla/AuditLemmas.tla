------------------------------ MODULE AuditLemmas ------------------------------
(***************************************************************************)
(* What the ladder of Grounding returns, for every claim and evidence,     *)
(* what graph Ledger makes of an audit, whatever the audit, and what holds *)
(* of numbers, of recursive functions on them and of filtered lists: the   *)
(* facts that the other modules of proofs share.                           *)
(***************************************************************************)
EXTENDS Grounding, Ledger, WellFoundedInduction, TLAPS

\* The first of some stages is one of them.
LEMMA FirstStage ==
  ASSUME NEW S \in SUBSET Stages, S # {}
  PROVE  First(S) \in S
<1>1. \E s \in S : \A t \in S : s <= t
  <2>1. CASE 1 \in S
    BY <2>1 DEF Stages
  <2>2. CASE 1 \notin S /\ 2 \in S
    BY <2>2 DEF Stages
  <2>3. CASE 1 \notin S /\ 2 \notin S /\ 3 \in S
    BY <2>3 DEF Stages
  <2>4. CASE 1 \notin S /\ 2 \notin S /\ 3 \notin S
    <3>1. \A s \in S : s = 4
      BY <2>4 DEF Stages
    <3>2. QED
      BY <3>1
  <2>5. QED
    BY <2>1, <2>2, <2>3, <2>4
<1>2. QED
  BY <1>1 DEF First

\* A stage finds positions of the evidence.
LEMMA HitInEvidence ==
  ASSUME NEW claim, NEW evidence, NEW s \in Stages
  PROVE  hit(s, claim, evidence) \subseteq DOMAIN evidence
<1>1. stageExact(claim, evidence) \subseteq DOMAIN evidence
  BY DEF stageExact
<1>2. stageNormalized(claim, evidence) \subseteq DOMAIN evidence
  BY DEF stageNormalized
<1>3. stageNormalizedCoverage(claim, evidence) \subseteq DOMAIN evidence
  BY DEF stageNormalizedCoverage
<1>4. Occurring(claim, evidence) \subseteq DOMAIN evidence
  <2>1. dedupe(Occurrences(claim, evidence), evidence) \subseteq Occurrences(claim, evidence)
    BY DEF dedupe
  <2>2. \A o \in Occurrences(claim, evidence) : o[2] \in DOMAIN evidence
    BY DEF Occurrences
  <2>3. QED
    BY <2>1, <2>2 DEF Occurring
<1>5. stageSpecifics(claim, evidence) \subseteq DOMAIN evidence
  BY <1>4 DEF stageSpecifics
<1>6. QED
  BY <1>1, <1>2, <1>3, <1>5 DEF hit, Stages

\* The ladder always ends with one of the schema's statuses.
LEMMA AssessedStatus ==
  ASSUME NEW claim, NEW evidence
  PROVE  assessClaim(claim, evidence).status \in GroundingStatuses
BY DEF assessClaim, Assessment, GroundingStatuses

\* A grounded claim names a chunk of the evidence that is T1 to T3.
LEMMA GroundedSupport ==
  ASSUME NEW claim, NEW evidence,
         assessClaim(claim, evidence).status = "grounded"
  PROVE  \E j \in DOMAIN evidence :
           /\ ~isUntrustedTier(evidence[j].tier)
           /\ evidence[j].id \in assessClaim(claim, evidence).supporting
<1> DEFINE Hits == {s \in Stages : trusted(hit(s, claim, evidence), evidence)}
           s == First(Hits)
<1>1. Hits # {}
  BY DEF assessClaim, Assessment
<1>2. s \in Hits
  BY <1>1, FirstStage
<1>3. PICK j \in hit(s, claim, evidence) : ~isUntrustedTier(evidence[j].tier)
  BY <1>2 DEF trusted
<1>4. j \in DOMAIN evidence
  BY <1>2, <1>3, HitInEvidence
<1>5. assessClaim(claim, evidence).supporting = ids(hit(s, claim, evidence), evidence)
  BY <1>1 DEF assessClaim, Assessment
<1>6. QED
  BY <1>3, <1>4, <1>5 DEF ids

\* The chunks an assessment names are chunks of the evidence.
LEMMA SupportInEvidence ==
  ASSUME NEW claim, NEW evidence
  PROVE  assessClaim(claim, evidence).supporting
           \subseteq {evidence[j].id : j \in DOMAIN evidence}
<1> DEFINE trustedHits == {s \in Stages : trusted(hit(s, claim, evidence), evidence)}
           hits == {s \in Stages : hit(s, claim, evidence) # {}}
<1>1. \A s \in Stages : ids(hit(s, claim, evidence), evidence)
                          \subseteq {evidence[j].id : j \in DOMAIN evidence}
  BY HitInEvidence DEF ids
<1>2. ids(rejectedOn(claim, evidence), evidence)
        \subseteq {evidence[j].id : j \in DOMAIN evidence}
  <2>1. Occurring(claim, evidence) \subseteq DOMAIN evidence
    BY DEF Occurring, dedupe, Occurrences
  <2>2. QED
    BY <2>1 DEF rejectedOn, ids
<1>3. CASE trustedHits # {}
  <2>1. First(trustedHits) \in Stages
    BY <1>3, FirstStage
  <2>2. QED
    BY <1>1, <1>3, <2>1 DEF assessClaim, Assessment
<1>4. CASE trustedHits = {} /\ hits # {}
  <2>1. First(hits) \in Stages
    BY <1>4, FirstStage
  <2>2. QED
    BY <1>1, <1>4, <2>1 DEF assessClaim, Assessment
<1>5. CASE trustedHits = {} /\ hits = {}
  BY <1>2, <1>5 DEF assessClaim, Assessment
<1>6. QED
  BY <1>3, <1>4, <1>5

\* The verdict allows exactly an output all of whose claims are grounded.
LEMMA VerdictAllows ==
  ASSUME NEW assessments, NEW policy \in UnverifiablePolicies,
         \A i \in DOMAIN assessments : assessments[i].status \in GroundingStatuses
  PROVE  /\ verdictFor(assessments, policy).decision \in {"allow", "block", policy}
         /\ verdictFor(assessments, policy).decision = "allow"
              <=> \A i \in DOMAIN assessments : assessments[i].status = "grounded"
BY DEF verdictFor, GroundingStatuses, UnverifiablePolicies

-------------------------------------------------------------------------------
\* A set of positions has a first one.
LEMMA FirstPosition ==
  ASSUME NEW S \in SUBSET Nat, S # {}
  PROVE  /\ First(S) \in S
         /\ \A t \in S : First(S) <= t
<1> DEFINE Less == {p \in Nat \X Nat : p[1] < p[2]}
<1>1. IsWellFoundedOn(Less, Nat)
  BY NatLessThanWellFounded DEF OpToRel
<1>2. PICK x \in S : \A y \in S : <<y, x>> \notin Less
  <2> HIDE DEF Less
  <2> QED
    BY <1>1, WFMin
<1>3. \A y \in S : x <= y
  <2>1. \A y \in S : <<y, x>> \in Nat \X Nat /\ <<y, x>>[1] = y /\ <<y, x>>[2] = x
    OBVIOUS
  <2>2. \A y \in S : ~ (y < x)
    BY <1>2, <2>1
  <2>3. QED
    BY <2>2
<1>4. QED
  BY <1>3 DEF First

\* What holds of 0 and of the next of each holds of every natural number.
LEMMA Upward ==
  ASSUME NEW S \in SUBSET Nat, 0 \in S, \A k \in S : k + 1 \in S
  PROVE  S = Nat
<1> DEFINE Rest == Nat \ S
<1> SUFFICES ASSUME Rest # {} PROVE FALSE
  OBVIOUS
<1>1. First(Rest) \in Rest /\ \A t \in Rest : First(Rest) <= t
  <2>1. Rest \in SUBSET Nat
    OBVIOUS
  <2> QED
    BY <2>1, FirstPosition
<1>2. PICK k \in Nat : k = First(Rest)
  BY <1>1
<1>3. k \notin S /\ \A t \in Nat \ S : k <= t
  BY <1>1, <1>2
<1>4. k # 0
  BY <1>3
<1>5. k - 1 \in Nat
  BY <1>4
<1>6. k - 1 \notin Nat \ S
  <2>1. ~(k <= k - 1)
    OBVIOUS
  <2> QED
    BY <1>3, <2>1
<1>7. (k - 1) + 1 \in S
  BY <1>5, <1>6
<1> QED
  BY <1>3, <1>7

\* A step repeated from a first value gives a value after each number of steps.
LEMMA Recurrence ==
  ASSUME NEW S, NEW base \in S, NEW step \in [S -> S]
  PROVE  \E f \in [Nat -> S] : f[0] = base /\ \A k \in Nat : f[k + 1] = step[f[k]]
<1> DEFINE Upto(m, g) == /\ g \in [0..m -> S] /\ g[0] = base
                         /\ \A k \in 0..m : k < m => g[k + 1] = step[g[k]]
           Some == {m \in Nat : \E g : Upto(m, g)}
<1>1. Some = Nat
  <2>1. 0 \in Some
    <3>1. Upto(0, [k \in 0..0 |-> base])
      OBVIOUS
    <3> QED
      BY <3>1
  <2>2. ASSUME NEW m \in Some PROVE m + 1 \in Some
    <3> PICK g : Upto(m, g)
      OBVIOUS
    <3> DEFINE h == [k \in 0..m + 1 |-> IF k = m + 1 THEN step[g[m]] ELSE g[k]]
    <3>1. m \in Nat /\ g \in [0..m -> S]
      OBVIOUS
    <3>2. h \in [0..m + 1 -> S] /\ h[0] = base
      BY <3>1
    <3>3. ASSUME NEW k \in 0..m + 1, k < m + 1 PROVE h[k + 1] = step[h[k]]
      <4>1. k \in 0..m /\ k + 1 \in 0..m + 1 /\ k # m + 1
        BY <3>1, <3>3
      <4>2. h[k] = g[k] /\ h[k + 1] = IF k + 1 = m + 1 THEN step[g[m]] ELSE g[k + 1]
        BY <4>1
      <4>3. CASE k = m
        BY <4>2, <4>3
      <4>4. CASE k # m
        BY <3>1, <4>1, <4>2, <4>4
      <4> QED
        BY <4>3, <4>4
    <3> QED
      BY <3>1, <3>2, <3>3
  <2> HIDE DEF Some
  <2> QED
    <3>1. Some \in SUBSET Nat
      BY DEF Some
    <3> QED
      BY <2>1, <2>2, <3>1, Upward
<1> DEFINE upto(m) == CHOOSE g : Upto(m, g)
<1>2. \A m \in Nat : Upto(m, upto(m))
  <2> SUFFICES ASSUME NEW m \in Nat PROVE Upto(m, upto(m))
    OBVIOUS
  <2>1. \E g : Upto(m, g)
    BY <1>1
  <2> HIDE DEF Upto
  <2> QED
    BY <2>1, Zenon
<1> HIDE DEF upto
<1>3. \A m \in Nat : \A k \in 0..m : upto(m + 1)[k] = upto(m)[k]
  <2> SUFFICES ASSUME NEW m \in Nat PROVE \A k \in 0..m : upto(m + 1)[k] = upto(m)[k]
    OBVIOUS
  <2>1. PICK g : g = upto(m) /\ Upto(m, g)
    BY <1>2
  <2>2. PICK h : h = upto(m + 1) /\ Upto(m + 1, h)
    BY <1>2
  <2> DEFINE Same == {k \in Nat : k <= m => h[k] = g[k]}
  <2>3. 0 \in Same
    BY <2>1, <2>2
  <2>4. ASSUME NEW k \in Same PROVE k + 1 \in Same
    <3> SUFFICES ASSUME k + 1 <= m PROVE h[k + 1] = g[k + 1]
      OBVIOUS
    <3>1. k \in 0..m /\ k < m /\ k \in 0..m + 1 /\ k < m + 1
      OBVIOUS
    <3>2. h[k] = g[k]
      BY <3>1
    <3> QED
      BY <2>1, <2>2, <3>1, <3>2
  <2>5. Same = Nat
    <3> HIDE DEF Same
    <3>1. Same \in SUBSET Nat
      BY DEF Same
    <3> QED
      BY <2>3, <2>4, <3>1, Upward
  <2> QED
    BY <2>1, <2>2, <2>5
<1> DEFINE f == [m \in Nat |-> upto(m)[m]]
<1>4. f \in [Nat -> S] /\ f[0] = base
  <2>1. \A m \in Nat : upto(m) \in [0..m -> S] /\ m \in 0..m /\ upto(m)[0] = base
    BY <1>2
  <2> QED
    BY <2>1
<1>5. ASSUME NEW k \in Nat PROVE f[k + 1] = step[f[k]]
  <2>1. upto(k + 1)[k + 1] = step[upto(k + 1)[k]]
    <3>1. k + 1 \in Nat /\ k \in 0..k + 1 /\ k < k + 1
      OBVIOUS
    <3>2. Upto(k + 1, upto(k + 1))
      BY <1>2, <3>1
    <3> QED
      BY <3>1, <3>2
  <2>2. upto(k + 1)[k] = upto(k)[k]
    BY <1>3
  <2> QED
    BY <2>1, <2>2
<1> HIDE DEF f
<1> QED
  BY <1>4, <1>5

\* How a filter goes through a list: the items it has kept after each.
KeptUpto(items, positions) ==
  CHOOSE f : f = [k \in 0 .. Len(items) |-> IF k = 0 THEN <<>>
                                            ELSE IF k \in positions THEN Append(f[k - 1], items[k])
                                            ELSE f[k - 1]]

\* The items at some positions are found one position at a time.
LEMMA KeptStepwise ==
  ASSUME NEW items, Len(items) \in Nat, NEW positions
  PROVE  /\ ItemsAt(items, positions) = KeptUpto(items, positions)[Len(items)]
         /\ \A k \in 0 .. Len(items) :
              KeptUpto(items, positions)[k]
                = IF k = 0 THEN <<>>
                  ELSE IF k \in positions THEN Append(KeptUpto(items, positions)[k - 1], items[k])
                  ELSE KeptUpto(items, positions)[k - 1]
<1> DEFINE n == Len(items)
           IsUpto(m, f) == f = [k \in 0 .. m |-> IF k = 0 THEN <<>>
                                                 ELSE IF k \in positions THEN Append(f[k - 1], items[k])
                                                 ELSE f[k - 1]]
           Upto == KeptUpto(items, positions)
<1>1. \A m \in 0 .. n : \E f : IsUpto(m, f)
  <2> DEFINE Bad == {m \in 0 .. n : ~\E f : IsUpto(m, f)}
  <2> SUFFICES ASSUME Bad # {} PROVE FALSE
    OBVIOUS
  <2>1. Bad \in SUBSET Nat
    OBVIOUS
  <2>2. First(Bad) \in Bad /\ \A t \in Bad : First(Bad) <= t
    <3> HIDE DEF Bad
    <3> QED
      BY <2>1, FirstPosition
  <2>3. PICK m \in Nat : m = First(Bad)
    BY <2>1, <2>2
  <2>4. m \in Bad /\ m # 0
    <3>1. IsUpto(0, [k \in {0} |-> <<>>])
      <4>1. 0 .. 0 = {0}
        OBVIOUS
      <4>2. QED
        BY <4>1
    <3>2. QED
      BY <2>2, <2>3, <3>1
  <2>5. m - 1 \in 0 .. n /\ m - 1 \notin Bad
    <3>1. m \in 0 .. n
      BY <2>4
    <3> HIDE DEF Bad
    <3>2. QED
      BY <2>2, <2>3, <2>4, <3>1
  <2>6. PICK f : IsUpto(m - 1, f)
    BY <2>5
  <2> DEFINE g == [k \in 0 .. m |-> IF k = 0 THEN <<>>
                                    ELSE IF k \in positions THEN Append(f[k - 1], items[k])
                                    ELSE f[k - 1]]
  <2>7. \A k \in 0 .. m - 1 : g[k] = f[k]
    <3>1. \A k \in 0 .. m - 1 : k \in 0 .. m
      BY <2>3
    <3>2. \A k \in 0 .. m - 1 : f[k] = IF k = 0 THEN <<>>
                                       ELSE IF k \in positions THEN Append(f[k - 1], items[k])
                                       ELSE f[k - 1]
      <4> DEFINE Following(k) == IF k = 0 THEN <<>>
                            ELSE IF k \in positions THEN Append(f[k - 1], items[k])
                            ELSE f[k - 1]
      <4>1. f = [k \in 0 .. m - 1 |-> Following(k)]
        BY <2>6
      <4> HIDE DEF Following
      <4>2. \A k \in 0 .. m - 1 : f[k] = Following(k)
        BY <4>1
      <4>3. QED
        BY <4>2 DEF Following
    <3>3. QED
      BY <3>1, <3>2
  <2>8. \A k \in 0 .. m : k # 0 => k - 1 \in 0 .. m - 1
    BY <2>3
  <2>9. IsUpto(m, g)
    <3>1. \A k \in 0 .. m : k # 0 => g[k - 1] = f[k - 1]
      BY <2>7, <2>8
    <3>2. g = [k \in 0 .. m |-> IF k = 0 THEN <<>>
                               ELSE IF k \in positions THEN Append(g[k - 1], items[k])
                               ELSE g[k - 1]]
      BY <3>1
    <3> HIDE DEF g
    <3>3. QED
      BY <3>2
  <2>10. QED
    BY <2>4, <2>9
<1>2. IsUpto(n, Upto)
  <2>1. Upto = CHOOSE f : IsUpto(n, f)
    BY DEF KeptUpto
  <2>2. \E f : IsUpto(n, f)
    <3>1. n \in 0 .. n
      OBVIOUS
    <3> HIDE DEF IsUpto
    <3>2. QED
      BY <1>1, <3>1
  <2> HIDE DEF IsUpto, Upto
  <2>3. QED
    BY <2>1, <2>2, Zenon
<1>3. ItemsAt(items, positions) = Upto[n]
  BY DEF ItemsAt, KeptUpto
<1> HIDE DEF Upto
<1>4. \A k \in 0 .. n : Upto[k] = IF k = 0 THEN <<>>
                                  ELSE IF k \in positions THEN Append(Upto[k - 1], items[k])
                                  ELSE Upto[k - 1]
  BY <1>2
<1>5. QED
  BY <1>3, <1>4 DEF Upto

\* After each, these are items at positions it keeps.
LEMMA KeptAreLists ==
  ASSUME NEW items, Len(items) \in Nat, NEW positions
  PROVE  \A k \in 0 .. Len(items) :
           KeptUpto(items, positions)[k] \in Seq({items[i] : i \in positions \cap (1 .. Len(items))})
<1> DEFINE n == Len(items)
           S == {items[k] : k \in positions \cap (1 .. n)}
           Upto == KeptUpto(items, positions)
<1>1. \A k \in 0 .. n : Upto[k] = IF k = 0 THEN <<>>
                                  ELSE IF k \in positions THEN Append(Upto[k - 1], items[k])
                                  ELSE Upto[k - 1]
  BY KeptStepwise
<1> HIDE DEF S, Upto
<1>2. \A k \in 0 .. n : Upto[k] \in Seq(S)
  <2> DEFINE Bad == {k \in 0 .. n : Upto[k] \notin Seq(S)}
  <2> SUFFICES ASSUME Bad # {} PROVE FALSE
    OBVIOUS
  <2>1. Bad \in SUBSET Nat
    OBVIOUS
  <2>2. First(Bad) \in Bad /\ \A t \in Bad : First(Bad) <= t
    <3> HIDE DEF Bad
    <3> QED
      BY <2>1, FirstPosition
  <2>3. PICK k \in Nat : k = First(Bad)
    BY <2>1, <2>2
  <2>4. k \in 0 .. n /\ Upto[k] \notin Seq(S)
    BY <2>2, <2>3
  <2>5. k # 0
    <3>1. 0 \in 0 .. n
      OBVIOUS
    <3>2. Upto[0] = <<>>
      BY <1>1, <3>1
    <3>3. <<>> \in Seq(S)
      OBVIOUS
    <3>4. QED
      BY <2>4, <3>2, <3>3
  <2>6. k - 1 \in 0 .. n /\ k - 1 \notin Bad
    BY <2>2, <2>3, <2>4, <2>5
  <2> DEFINE before == Upto[k - 1]
  <2>7. before \in Seq(S)
    BY <2>6
  <2>8. Upto[k] = IF k \notin positions THEN before ELSE Append(before, items[k])
    BY <1>1, <2>4, <2>5
  <2>9. ~k \notin positions => items[k] \in S
    BY <2>4, <2>5 DEF S
  <2> HIDE DEF before, Bad
  <2>10. Upto[k] \in Seq(S)
    BY <2>7, <2>8, <2>9
  <2>11. QED
    BY <2>4, <2>10
<1>3. QED
  BY <1>2 DEF S, Upto

\* What a filter keeps are the items at the positions it keeps.
LEMMA ItemsKept ==
  ASSUME NEW items, Len(items) \in Nat, NEW positions
  PROVE  ItemsAt(items, positions) \in Seq({items[k] : k \in positions \cap (1 .. Len(items))})
<1>1. Len(items) \in 0 .. Len(items)
  OBVIOUS
<1>2. QED
  BY <1>1, KeptAreLists, KeptStepwise

\* And each of those is kept.
LEMMA EachKept ==
  ASSUME NEW items, Len(items) \in Nat, NEW positions,
         NEW p \in positions \cap (1 .. Len(items))
  PROVE  \E j \in DOMAIN ItemsAt(items, positions) : ItemsAt(items, positions)[j] = items[p]
<1> DEFINE n == Len(items)
           S == {items[k] : k \in positions \cap (1 .. n)}
           Upto == KeptUpto(items, positions)
           Holds(k) == \E j \in DOMAIN Upto[k] : Upto[k][j] = items[p]
<1>1. ItemsAt(items, positions) = Upto[n]
  BY KeptStepwise
<1>2. \A k \in 0 .. n : Upto[k] = IF k = 0 THEN <<>>
                                  ELSE IF k \in positions THEN Append(Upto[k - 1], items[k])
                                  ELSE Upto[k - 1]
  BY KeptStepwise
<1>3. \A k \in 0 .. n : \E T : Upto[k] \in Seq(T)
  BY KeptAreLists
<1> HIDE DEF Upto
<1>4. \A k \in p .. n : Holds(k)
  <2> DEFINE Bad == {k \in p .. n : ~Holds(k)}
  <2> SUFFICES ASSUME Bad # {} PROVE FALSE
    OBVIOUS
  <2>1. Bad \in SUBSET Nat
    OBVIOUS
  <2>2. First(Bad) \in Bad /\ \A t \in Bad : First(Bad) <= t
    <3> HIDE DEF Bad
    <3> QED
      BY <2>1, FirstPosition
  <2>3. PICK k \in p .. n : k = First(Bad) /\ ~Holds(k)
    BY <2>2
  <2>4. k \in 0 .. n /\ k # 0 /\ k - 1 \in 0 .. n
    BY <2>3
  <2>5. PICK T : Upto[k - 1] \in Seq(T)
    BY <1>3, <2>4
  <2>6. Upto[k] = IF k \in positions THEN Append(Upto[k - 1], items[k]) ELSE Upto[k - 1]
    BY <1>2, <2>4
  <2> DEFINE before == Upto[k - 1]
  <2>7. CASE k = p
    <3>1. Upto[k] = Append(before, items[p])
      BY <2>6, <2>7
    <3>2. before \in Seq(T)
      BY <2>5
    <3> HIDE DEF before
    <3>3. /\ Len(before) + 1 \in DOMAIN Append(before, items[p])
          /\ Append(before, items[p])[Len(before) + 1] = items[p]
      BY <3>2
    <3>4. Holds(k)
      BY <3>1, <3>3
    <3>5. QED
      BY <2>3, <3>4
  <2>8. CASE k # p
    <3>1. k - 1 \in p .. n /\ k - 1 \notin Bad
      <4>1. k - 1 \in p .. n
        BY <2>3, <2>8
      <4> HIDE DEF Bad
      <4>2. QED
        BY <2>2, <2>3, <4>1
    <3>2. PICK j \in DOMAIN before : before[j] = items[p]
      BY <3>1
    <3>3. before \in Seq(T)
      BY <2>5
    <3>4. Upto[k] = IF k \in positions THEN Append(before, items[k]) ELSE before
      BY <2>6
    <3> HIDE DEF before
    <3>5. /\ j \in DOMAIN Append(before, items[k])
          /\ Append(before, items[k])[j] = items[p]
      BY <3>2, <3>3
    <3>6. Holds(k)
      BY <3>2, <3>4, <3>5
    <3>7. QED
      BY <2>3, <3>6
  <2>9. QED
    BY <2>7, <2>8
<1>5. n \in p .. n
  OBVIOUS
<1>6. Holds(n)
  BY <1>4, <1>5
<1>7. QED
  BY <1>1, <1>6

\* An id of a node that belongs to the audit's run, or that outlives it.
LocalTo(audit, id, kind) ==
  KindOf(id) = kind /\ TenantOf(id) = audit.tenant /\ runOf(id) = RunIn(audit)

SharedBy(audit, id, kind) ==
  KindOf(id) = kind /\ TenantOf(id) = audit.tenant /\ runOf(id) = NoRun

\* What each kind of node is called, and to what it belongs.
LEMMA RunForm == \A audit : LocalTo(audit, RunIn(audit), "Run")
BY DEF LocalTo, RunIn, RunId, KindOf, TenantOf, runOf

\* A policy is shared by runs.
LEMMA PolicyForm == \A audit : SharedBy(audit, PolicyIn(audit), "Policy")
BY DEF SharedBy, PolicyIn, PolicyId, KindOf, TenantOf, runOf

\* So is a source.
LEMMA SourceForm == \A audit, i : SharedBy(audit, SourceIn(audit, i), "Source")
BY DEF SharedBy, SourceIn, SourceId, KindOf, TenantOf, runOf

\* A step belongs to its run.
LEMMA StepForm == \A audit, s : LocalTo(audit, StepIn(audit, s), "Step")
BY DEF LocalTo, StepIn, StepId, RunIn, RunId, KindOf, TenantOf, runOf

\* So does the output.
LEMMA OutputForm == \A audit : LocalTo(audit, OutputIn(audit), "Output")
BY DEF LocalTo, OutputIn, OutputId, RunIn, RunId, KindOf, TenantOf, runOf

\* So does an artifact.
LEMMA ArtifactForm == \A audit, i : LocalTo(audit, ArtifactIn(audit, i), "Artifact")
BY DEF LocalTo, ArtifactIn, ArtifactId, RunIn, RunId, KindOf, TenantOf, runOf

\* So does a chunk.
LEMMA ChunkForm == \A audit, i : LocalTo(audit, ChunkIn(audit, i), "Chunk")
BY DEF LocalTo, ChunkIn, ChunkId, RunIn, RunId, KindOf, TenantOf, runOf

\* So does a claim.
LEMMA ClaimForm == \A audit, i : LocalTo(audit, ClaimIn(audit, i), "Claim")
BY DEF LocalTo, ClaimIn, ClaimId, RunIn, RunId, KindOf, TenantOf, runOf

\* So does a verdict.
LEMMA VerdictForm == \A audit, target : LocalTo(audit, VerdictIn(audit, target), "Verdict")
BY DEF LocalTo, VerdictIn, VerdictId, RunIn, RunId, KindOf, TenantOf, runOf

\* Every id of an audit has its tenant, and its run or none.
LEMMA IdForms ==
  ASSUME NEW audit, NEW id \in IdsIn(audit)
  PROVE  \/ \E kind \in {"Run", "Step", "Output", "Artifact", "Chunk", "Claim", "Verdict"} :
              LocalTo(audit, id, kind)
         \/ \E kind \in {"Policy", "Source"} : SharedBy(audit, id, kind)
BY RunForm, PolicyForm, SourceForm, StepForm, OutputForm, ArtifactForm, ChunkForm, ClaimForm,
   VerdictForm DEF IdsIn, ChunksIn, ClaimsIn

\* A non-empty set of positions of a list has a last one.
LEMMA LatestPosition ==
  ASSUME NEW n \in Nat, NEW S \in SUBSET (1 .. n), S # {}
  PROVE  Latest(S) \in S
<1> DEFINE Mirror == {n - k : k \in S}
<1>1. Mirror \in SUBSET Nat /\ Mirror # {}
  <2>1. \A k \in S : n - k \in Nat
    OBVIOUS
  <2>2. PICK k \in S : TRUE
    OBVIOUS
  <2>3. QED
    BY <2>1, <2>2
<1>2. First(Mirror) \in Mirror /\ \A t \in Mirror : First(Mirror) <= t
  BY <1>1, FirstPosition
<1>3. PICK k \in S : First(Mirror) = n - k
  BY <1>2
<1>4. ASSUME NEW j \in S PROVE j <= k
  <2>1. n - k <= n - j
    BY <1>2, <1>3
  <2>2. QED
    BY <2>1
<1>5. QED
  BY <1>4 DEF Latest

\* And a first one.
LEMMA EarliestPosition ==
  ASSUME NEW n \in Nat, NEW S \in SUBSET (1 .. n), S # {}
  PROVE  Earliest(S) \in S
<1>1. S \in SUBSET Nat
  OBVIOUS
<1>2. First(S) \in S /\ \A t \in S : First(S) <= t
  BY <1>1, FirstPosition
<1>3. QED
  BY <1>2 DEF Earliest

\* The chunks a grounding names are chunks of the audit.
LEMMA NamedIsChunk ==
  ASSUME NEW audit, NEW n \in Nat, DOMAIN audit.chunks = 1 .. n, NEW supporting,
         NEW c \in NamedBy(audit, supporting)
  PROVE  \E k \in DOMAIN audit.chunks :
           /\ c = ChunkIn(audit, k)
           /\ audit.chunks[k].chunk.id \in supporting
<1>1. PICK id \in {audit.chunks[k].chunk.id : k \in DOMAIN audit.chunks} \cap supporting :
        c = ChunkIn(audit, Latest({k \in DOMAIN audit.chunks : audit.chunks[k].chunk.id = id}))
  BY DEF NamedBy
<1> DEFINE S == {k \in DOMAIN audit.chunks : audit.chunks[k].chunk.id = id}
<1>2. S \in SUBSET (1 .. n) /\ S # {}
  BY <1>1
<1>3. Latest(S) \in S
  <2> HIDE DEF S
  <2> QED
    BY <1>2, LatestPosition
<1>4. QED
  BY <1>1, <1>3

\* An edge of an audit: its tenant's, between two of its nodes, of kinds that an
\* edge of its type may join.
SoundEdge(audit, e) ==
  /\ e.tenant = audit.tenant
  /\ e.from \in IdsIn(audit) /\ e.to \in IdsIn(audit)
  /\ e.type \in DOMAIN EDGE_MATRIX
  /\ <<KindOf(e.from), KindOf(e.to)>> \in EDGE_MATRIX[e.type]
  /\ e.type # "DERIVED_FROM"
  /\ e.type = "SPLIT_INTO" => KindOf(e.from) = "Artifact" /\ KindOf(e.to) = "Chunk"

\* Every edge of an audit joins nodes of that audit, of the kinds its name says.
LEMMA EdgesSound ==
  ASSUME NEW audit, NEW n \in Nat, DOMAIN audit.chunks = 1 .. n, NEW e \in EdgesIn(audit)
  PROVE  SoundEdge(audit, e)
<1> DEFINE Edge(type, from, to) == createEdge(audit.tenant, type, from, to)
           Step(s) == StepIn(audit, s)
           All == DOMAIN audit.chunks
<1>0. ASSUME NEW type, NEW from, NEW to, e = Edge(type, from, to)
      PROVE  e.tenant = audit.tenant /\ e.type = type /\ e.from = from /\ e.to = to
  BY <1>0 DEF createEdge
<1>1. ASSUME NEW s \in {RETRIEVE_STEP, ASSEMBLE_STEP, GENERATE_STEP},
             e = Edge("PRODUCED", RunIn(audit), Step(s))
      PROVE  SoundEdge(audit, e)
  BY <1>0, <1>1, RunForm, StepForm DEF SoundEdge, LocalTo, IdsIn, EDGE_MATRIX
<1>2. ASSUME NEW i \in All, e = Edge("PRODUCED", SourceIn(audit, i), ArtifactIn(audit, i))
      PROVE  SoundEdge(audit, e)
  BY <1>0, <1>2, SourceForm, ArtifactForm DEF SoundEdge, SharedBy, LocalTo, IdsIn, EDGE_MATRIX
<1>3. ASSUME NEW i \in All, e = Edge("PRODUCED", Step(RETRIEVE_STEP), ArtifactIn(audit, i))
      PROVE  SoundEdge(audit, e)
  BY <1>0, <1>3, StepForm, ArtifactForm DEF SoundEdge, LocalTo, IdsIn, EDGE_MATRIX
<1>4. ASSUME NEW i \in All, e = Edge("SPLIT_INTO", ArtifactIn(audit, i), ChunkIn(audit, i))
      PROVE  SoundEdge(audit, e)
  BY <1>0, <1>4, ChunkForm, ArtifactForm DEF SoundEdge, LocalTo, IdsIn, ChunksIn, EDGE_MATRIX
<1>5. ASSUME NEW i \in AdmittedIn(audit),
             \/ e = Edge("CONSUMED", Step(ASSEMBLE_STEP), ChunkIn(audit, i))
             \/ e = Edge("INCLUDED_IN", ChunkIn(audit, i), Step(ASSEMBLE_STEP))
      PROVE  SoundEdge(audit, e)
  BY <1>0, <1>5, ChunkForm, StepForm
     DEF SoundEdge, LocalTo, IdsIn, ChunksIn, AdmittedIn, EDGE_MATRIX
<1>6. ASSUME e = Edge("PRODUCED", Step(GENERATE_STEP), OutputIn(audit))
      PROVE  SoundEdge(audit, e)
  BY <1>0, <1>6, OutputForm, StepForm DEF SoundEdge, LocalTo, IdsIn, EDGE_MATRIX
<1>7. ASSUME NEW claim \in ClaimsIn(audit), e = Edge("EXTRACTED_FROM", claim, OutputIn(audit))
      PROVE  SoundEdge(audit, e)
  BY <1>0, <1>7, ClaimForm, OutputForm DEF SoundEdge, LocalTo, IdsIn, ClaimsIn, EDGE_MATRIX
<1>8. ASSUME NEW subject \in ChunksIn(audit) \cup ClaimsIn(audit) \cup {OutputIn(audit)},
             e = Edge("EVALUATED_BY", subject, PolicyIn(audit))
      PROVE  SoundEdge(audit, e)
  <2>1. KindOf(subject) \in {"Chunk", "Claim", "Output"} /\ subject \in IdsIn(audit)
    BY ChunkForm, ClaimForm, OutputForm DEF LocalTo, IdsIn, ChunksIn, ClaimsIn
  <2>2. QED
    BY <1>0, <1>8, <2>1, PolicyForm DEF SoundEdge, SharedBy, IdsIn, EDGE_MATRIX
<1>9. ASSUME NEW target \in ChunksIn(audit) \cup ClaimsIn(audit),
             e = Edge("DECIDES", VerdictIn(audit, target), target)
      PROVE  SoundEdge(audit, e)
  <2>1. KindOf(target) \in {"Chunk", "Claim"} /\ target \in IdsIn(audit)
    BY ChunkForm, ClaimForm DEF LocalTo, IdsIn, ChunksIn, ClaimsIn
  <2>2. VerdictIn(audit, target) \in IdsIn(audit)
    BY DEF IdsIn
  <2>3. QED
    BY <1>0, <1>9, <2>1, <2>2, VerdictForm DEF SoundEdge, LocalTo, EDGE_MATRIX
<1>10. ASSUME NEW i \in DOMAIN audit.claims,
              NEW chunk \in NamedBy(audit, audit.claims[i].supporting),
              e = Edge("SUPPORTED_BY", ClaimIn(audit, i), chunk)
       PROVE  SoundEdge(audit, e)
  <2>1. PICK k \in All : chunk = ChunkIn(audit, k)
    BY NamedIsChunk
  <2>2. QED
    BY <1>0, <1>10, <2>1, ClaimForm, ChunkForm
       DEF SoundEdge, LocalTo, IdsIn, ChunksIn, ClaimsIn, EDGE_MATRIX
<1>11. QED
  BY <1>1, <1>2, <1>3, <1>4, <1>5, <1>6, <1>7, <1>8, <1>9, <1>10 DEF EdgesIn

\* Two nodes of one audit are not of two runs.
LEMMA OneRun ==
  ASSUME NEW audit, NEW a \in IdsIn(audit), NEW b \in IdsIn(audit)
  PROVE  /\ TenantOf(a) = audit.tenant /\ TenantOf(b) = audit.tenant
         /\ NoRun \notin {runOf(a), runOf(b)} => runOf(a) = runOf(b)
BY IdForms DEF LocalTo, SharedBy

\* A set of edges, each sound for some audit, is closed and well formed among
\* all the nodes of the audits, and without circles.
LEMMA SoundGraph ==
  ASSUME NEW graph,
         \A e \in graph.edges : \E audit :
           SoundEdge(audit, e) /\ IdsIn(audit) \subseteq DOMAIN graph.nodes
  PROVE  Dangling(graph) = {} /\ IllFormed(graph) = {} /\ loadable(graph)
<1>1. Dangling(graph) = {}
  BY DEF Dangling, SoundEdge
<1>2. IllFormed(graph) = {}
  <2> SUFFICES ASSUME NEW e \in IllFormed(graph) PROVE FALSE
    OBVIOUS
  <2>1. e \in graph.edges
    BY DEF IllFormed
  <2>2. PICK audit : SoundEdge(audit, e)
    BY <2>1
  <2>3. /\ TenantOf(e.from) = e.tenant /\ TenantOf(e.to) = e.tenant
        /\ NoRun \notin {runOf(e.from), runOf(e.to)} => runOf(e.from) = runOf(e.to)
        /\ <<KindOf(e.from), KindOf(e.to)>> \in EDGE_MATRIX[e.type]
    BY <2>2, OneRun DEF SoundEdge
  <2>4. QED
    BY <2>3 DEF IllFormed
<1>3. ~Cyclic(graph)
  <2> SUFFICES ASSUME Cyclic(graph) PROVE FALSE
    OBVIOUS
  <2>1. PICK loop \in SUBSET {e \in graph.edges \ Dangling(graph) : e.type \in ACYCLIC_EDGE_TYPES} :
          loop # {} /\ \A e \in loop : \E f \in loop : f.from = e.to
    BY DEF Cyclic
  <2>2. PICK e \in loop, f \in loop : f.from = e.to
    BY <2>1
  <2>3. \A g \in loop : KindOf(g.from) = "Artifact" /\ KindOf(g.to) = "Chunk"
    BY <2>1 DEF SoundEdge, ACYCLIC_EDGE_TYPES
  <2>4. QED
    BY <2>2, <2>3
<1>4. QED
  BY <1>1, <1>2, <1>3 DEF loadable

\* The run of an id that belongs to one, and the parts of an id.
LEMMA ClaimParts ==
  ASSUME NEW a, NEW b, NEW i, NEW j, ClaimIn(a, i) = ClaimIn(b, j)
  PROVE  RunIn(a) = RunIn(b) /\ i = j
BY DEF ClaimIn, ClaimId

\* The id of a chunk tells its run and its place.
LEMMA ChunkParts ==
  ASSUME NEW a, NEW b, NEW i, NEW j, ChunkIn(a, i) = ChunkIn(b, j)
  PROVE  RunIn(a) = RunIn(b) /\ i = j
BY DEF ChunkIn, ChunkId

\* The members of an audit's ids, by kind.
LEMMA MembersOfKind ==
  ASSUME NEW audit, NEW id \in IdsIn(audit)
  PROVE  /\ KindOf(id) = "Chunk" => id \in ChunksIn(audit)
         /\ KindOf(id) = "Claim" => id \in ClaimsIn(audit)
         /\ KindOf(id) = "Policy" => id = PolicyIn(audit)
         /\ KindOf(id) = "Verdict" => \E target \in ChunksIn(audit) \cup ClaimsIn(audit) :
                                        id = VerdictIn(audit, target)
BY RunForm, PolicyForm, SourceForm, StepForm, OutputForm, ArtifactForm, ChunkForm, ClaimForm,
   VerdictForm DEF IdsIn, ChunksIn, ClaimsIn, LocalTo, SharedBy

\* The edges of support are the last of EdgesIn: of no other type is one.
LEMMA SupportEdges ==
  ASSUME NEW audit, NEW e
  PROVE  e \in EdgesIn(audit) /\ e.type = "SUPPORTED_BY" <=>
           \E i \in DOMAIN audit.claims : \E chunk \in NamedBy(audit, audit.claims[i].supporting) :
             e = createEdge(audit.tenant, "SUPPORTED_BY", ClaimIn(audit, i), chunk)
BY DEF EdgesIn, createEdge

\* What a node of an audit is recorded with, by its kind.
LEMMA ChunkAttributes ==
  ASSUME NEW audit, NEW k
  PROVE  AttributesIn(audit, ChunkIn(audit, k)).admitted = audit.chunks[k].admitted
BY DEF AttributesIn, ChunkIn, ChunkId, KindOf

\* The attributes of a verdict are those of what it is about.
LEMMA VerdictAttributes ==
  ASSUME NEW audit, NEW target
  PROVE  /\ AttributesIn(audit, VerdictIn(audit, target)) = VerdictOn(audit, target)
         /\ VerdictIn(audit, target)[3] = target
BY DEF AttributesIn, VerdictIn, VerdictId, KindOf

\* The verdict on a chunk is the decision on it.
LEMMA ChunkVerdict ==
  ASSUME NEW audit, NEW k
  PROVE  VerdictOn(audit, ChunkIn(audit, k)).decision = audit.chunks[k].decision
BY DEF VerdictOn, ChunkIn, ChunkId, KindOf

\* What the verdict on a claim says, and when it was only monitored.
LEMMA ClaimVerdict ==
  ASSUME NEW audit, NEW i
  PROVE  /\ VerdictOn(audit, ClaimIn(audit, i)).decision
              = decisionForGrounding(audit.claims[i].status)
         /\ VerdictOn(audit, ClaimIn(audit, i)).monitored <=> audit.policy.mode = "monitor"
<1>1. KindOf(ClaimIn(audit, i)) = "Claim" /\ ClaimIn(audit, i)[4] = i
  BY DEF ClaimIn, ClaimId, KindOf
<1>2. PICK decision, method, monitored :
        /\ decision = decisionForGrounding(audit.claims[i].status)
        /\ method = IF audit.claims[i].method = "judge" THEN "judge" ELSE "deterministic"
        /\ monitored = (audit.policy.mode = "monitor")
  BY Zenon
<1>3. VerdictOn(audit, ClaimIn(audit, i))
        = [decision |-> decision, method |-> method, monitored |-> monitored]
  <2>1. "Claim" # "Chunk"
    OBVIOUS
  <2>2. QED
    BY <1>1, <1>2, <2>1, Zenon DEF VerdictOn
<1>4. /\ VerdictOn(audit, ClaimIn(audit, i)).decision = decision
      /\ VerdictOn(audit, ClaimIn(audit, i)).monitored = monitored
  BY <1>3
<1>5. QED
  BY <1>2, <1>4, Zenon
===============================================================================
