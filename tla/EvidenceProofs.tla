---------------------------- MODULE EvidenceProofs ----------------------------
(***************************************************************************)
(* What EvidenceAudit says of an output's audit, for every output, every   *)
(* stock of chunks and every order in which they are retrieved.            *)
(***************************************************************************)
EXTENDS EvidenceAudit, AuditLemmas, SequenceTheorems

\* The specifics of a claim are a list.
ClaimsAreLists == \A i \in DOMAIN Claims : \E S : SpecificsOf(Claims[i]) \in Seq(S)

\* No two positions of a list of chunks hold one id.
Apart(chunks) == \A j, k \in DOMAIN chunks : chunks[j].id = chunks[k].id => j = k

\* Chunk j of chunks carries something of a claim all of which is in context.
Carries(claim, chunks, j) ==
  \/ claim.id \in chunks[j].text.quotes \cup chunks[j].text.restates
  \/ SpecificsOf(claim) = <<>> /\ claim.words # <<>> /\ NearlyAll(claim, chunks[j].text.words)
  \/ /\ Sourced(claim, chunks) = DOMAIN SpecificsOf(claim)
     /\ \E i \in DOMAIN SpecificsOf(claim) : SpecificsOf(claim)[i] \in chunks[j].text.mentions

TypeOK == evidence \in Seq(Chunks) /\ Apart(evidence)

Inv == TypeOK /\ audit = Audited(evidence)

-------------------------------------------------------------------------------
\* A chunk with an id of its own that holds a specific is among those the
\* specifics stage goes by.
LEMMA Undeduped ==
  ASSUME NEW claim, NEW chunks, Apart(chunks), NEW S, SpecificsOf(claim) \in Seq(S),
         NEW j \in DOMAIN chunks,
         \E i \in DOMAIN SpecificsOf(claim) : SpecificsOf(claim)[i] \in chunks[j].text.mentions
  PROVE  j \in Occurring(claim, chunks)
<1> DEFINE T == {i \in DOMAIN SpecificsOf(claim) : SpecificsOf(claim)[i] \in chunks[j].text.mentions}
<1>1. T \in SUBSET Nat /\ T # {}
  OBVIOUS
<1>2. PICK m \in T : \A n \in T : ~(n < m)
  <2> HIDE DEF T
  <2>1. First(T) \in T /\ \A n \in T : First(T) <= n
    BY <1>1, FirstPosition
  <2>2. PICK m : m = First(T)
    OBVIOUS
  <2>3. m \in Nat /\ \A n \in T : n \in Nat /\ m <= n
    BY <1>1, <2>1, <2>2
  <2>4. \A n \in T : ~(n < m)
    BY <2>3
  <2>5. QED
    BY <2>1, <2>2, <2>4
<1>3. <<m, j>> \in Occurrences(claim, chunks)
  BY DEF Occurrences
<1>4. ASSUME NEW p \in Occurrences(claim, chunks), ListedBefore(p, <<m, j>>),
             chunks[p[2]].id = chunks[j].id
      PROVE  FALSE
  <2>1. p[2] \in DOMAIN chunks /\ p[1] \in DOMAIN SpecificsOf(claim)
    BY DEF Occurrences
  <2>2. p[2] = j
    BY <1>4, <2>1 DEF Apart
  <2>3. p[1] \in T
    BY <2>1, <2>2 DEF Occurrences
  <2>4. p[1] < m
    BY <1>4, <2>2 DEF ListedBefore
  <2>5. QED
    BY <1>2, <2>3, <2>4
<1>5. <<m, j>> \in dedupe(Occurrences(claim, chunks), chunks)
  BY <1>3, <1>4 DEF dedupe
<1>6. <<m, j>>[2] = j
  OBVIOUS
<1>7. QED
  BY <1>5, <1>6 DEF Occurring

\* What the specifics stage goes by holds some specific.
LEMMA OccurringMentions ==
  ASSUME NEW claim, NEW chunks, NEW j \in Occurring(claim, chunks)
  PROVE  /\ j \in DOMAIN chunks
         /\ \E i \in DOMAIN SpecificsOf(claim) : SpecificsOf(claim)[i] \in chunks[j].text.mentions
<1>1. PICK o \in dedupe(Occurrences(claim, chunks), chunks) : j = o[2]
  BY DEF Occurring
<1>2. o \in Occurrences(claim, chunks)
  BY DEF dedupe
<1>3. o[1] \in DOMAIN SpecificsOf(claim) /\ o[2] \in DOMAIN chunks
        /\ SpecificsOf(claim)[o[1]] \in chunks[o[2]].text.mentions
  BY <1>2 DEF Occurrences
<1>4. QED
  BY <1>1, <1>3

\* Whatever a stage finds carries something of the claim.
LEMMA HitCarries ==
  ASSUME NEW claim, NEW chunks, NEW s \in Stages, NEW j \in hit(s, claim, chunks)
  PROVE  j \in DOMAIN chunks /\ Carries(claim, chunks, j)
<1>1. CASE s = 1
  BY <1>1 DEF hit, stageExact, Carries
<1>2. CASE s = 2
  BY <1>2 DEF hit, stageNormalized, Carries
<1>3. CASE s = 3
  BY <1>3 DEF hit, stageNormalizedCoverage, Carries
<1>4. CASE s = 4
  <2>1. j \in stageSpecifics(claim, chunks)
    BY <1>4 DEF hit
  <2>2. j \in Occurring(claim, chunks) /\ Sourced(claim, chunks) = DOMAIN SpecificsOf(claim)
    BY <2>1 DEF stageSpecifics
  <2>3. QED
    BY <2>2, OccurringMentions DEF Carries
<1>5. QED
  BY <1>1, <1>2, <1>3, <1>4 DEF Stages

\* A claim is grounded exactly when a trusted chunk carries something of it:
\* neither the order of the stages nor that of the chunks has a part in it.
LEMMA GroundedIff ==
  ASSUME NEW claim, NEW chunks, Apart(chunks), NEW S, SpecificsOf(claim) \in Seq(S)
  PROVE  assessClaim(claim, chunks).status = "grounded"
           <=> \E j \in DOMAIN chunks : ~isUntrustedTier(chunks[j].tier) /\ Carries(claim, chunks, j)
<1> DEFINE Hits == {s \in Stages : trusted(hit(s, claim, chunks), chunks)}
<1>1. assessClaim(claim, chunks).status = "grounded" <=> Hits # {}
  BY DEF assessClaim, Assessment
<1>2. ASSUME Hits # {}
      PROVE  \E j \in DOMAIN chunks : ~isUntrustedTier(chunks[j].tier) /\ Carries(claim, chunks, j)
  <2>1. PICK s \in Stages : trusted(hit(s, claim, chunks), chunks)
    BY <1>2
  <2>2. PICK j \in hit(s, claim, chunks) : ~isUntrustedTier(chunks[j].tier)
    BY <2>1 DEF trusted
  <2>3. QED
    BY <2>2, HitCarries
<1>3. ASSUME NEW j \in DOMAIN chunks, ~isUntrustedTier(chunks[j].tier), Carries(claim, chunks, j)
      PROVE  Hits # {}
  <2>1. \E s \in Stages : j \in hit(s, claim, chunks)
    <3>1. CASE claim.id \in chunks[j].text.quotes
      <4>1. j \in hit(1, claim, chunks)
        BY <3>1 DEF hit, stageExact
      <4>2. QED
        BY <4>1 DEF Stages
    <3>2. CASE claim.id \in chunks[j].text.restates
      <4>1. j \in hit(2, claim, chunks)
        BY <3>2 DEF hit, stageNormalized
      <4>2. QED
        BY <4>1 DEF Stages
    <3>3. CASE /\ SpecificsOf(claim) = <<>> /\ claim.words # <<>>
               /\ NearlyAll(claim, chunks[j].text.words)
      <4>1. j \in hit(3, claim, chunks)
        BY <3>3 DEF hit, stageNormalizedCoverage
      <4>2. QED
        BY <4>1 DEF Stages
    <3>4. CASE /\ Sourced(claim, chunks) = DOMAIN SpecificsOf(claim)
               /\ \E i \in DOMAIN SpecificsOf(claim) :
                    SpecificsOf(claim)[i] \in chunks[j].text.mentions
      <4>1. j \in Occurring(claim, chunks)
        BY <3>4, Undeduped
      <4>2. j \in hit(4, claim, chunks)
        BY <3>4, <4>1 DEF hit, stageSpecifics
      <4>3. QED
        BY <4>2 DEF Stages
    <3>5. QED
      BY <1>3, <3>1, <3>2, <3>3, <3>4 DEF Carries
  <2>2. QED
    BY <1>3, <2>1 DEF trusted
<1>4. QED
  BY <1>1, <1>2, <1>3

\* Another chunk, or another order, leaves what a chunk carries.
LEMMA CarriesOn ==
  ASSUME NEW claim, NEW chunks, NEW others,
         \A j \in DOMAIN chunks : \E k \in DOMAIN others : others[k] = chunks[j],
         NEW j \in DOMAIN chunks, Carries(claim, chunks, j)
  PROVE  \E k \in DOMAIN others : others[k] = chunks[j] /\ Carries(claim, others, k)
<1>1. PICK k \in DOMAIN others : others[k] = chunks[j]
  OBVIOUS
<1>2. Sourced(claim, chunks) = DOMAIN SpecificsOf(claim)
        => Sourced(claim, others) = DOMAIN SpecificsOf(claim)
  BY DEF Sourced
<1>3. Carries(claim, others, k)
  BY <1>1, <1>2 DEF Carries
<1>4. QED
  BY <1>1, <1>3

-------------------------------------------------------------------------------
\* A chunk put into a list that has none of its id: the list goes on to hold
\* each id once, and all that it held.
LEMMA Inserted ==
  ASSUME NEW chunks \in Seq(Chunks), Apart(chunks), NEW chunk \in Chunks,
         \A j \in DOMAIN chunks : chunks[j].id # chunk.id,
         NEW position \in 1 .. Len(chunks) + 1,
         NEW others, others = InsertAt(chunks, position, chunk)
  PROVE  /\ others \in Seq(Chunks)
         /\ Apart(others)
         /\ \A j \in DOMAIN chunks : \E k \in DOMAIN others : others[k] = chunks[j]
         /\ \E k \in DOMAIN others : others[k] = chunk
<1> DEFINE before == SubSeq(chunks, 1, position - 1)
           after  == SubSeq(chunks, position, Len(chunks))
<1>a. /\ before \in Seq(Chunks) /\ Len(before) = position - 1
      /\ \A k \in 1 .. position - 1 : before[k] = chunks[k]
  BY SubSeqProperties
<1>b. /\ after \in Seq(Chunks) /\ Len(after) = Len(chunks) + 1 - position
      /\ \A k \in 1 .. Len(chunks) + 1 - position : after[k] = chunks[k + position - 1]
  BY SubSeqProperties
<1>c. others = (before \o <<chunk>>) \o after
  BY DEF InsertAt
<1> HIDE DEF before, after
<1>d. /\ before \o <<chunk>> \in Seq(Chunks) /\ Len(before \o <<chunk>>) = position
      /\ \A k \in 1 .. position :
           (before \o <<chunk>>)[k] = IF k < position THEN chunks[k] ELSE chunk
  BY <1>a
<1>1. /\ others \in Seq(Chunks) /\ Len(others) = Len(chunks) + 1
      /\ DOMAIN others = 1 .. Len(chunks) + 1
  BY <1>b, <1>c, <1>d
<1>2. \A k \in 1 .. Len(chunks) + 1 :
        others[k] = IF k < position THEN chunks[k]
                    ELSE IF k = position THEN chunk ELSE chunks[k - 1]
  <2>1. ASSUME NEW k \in 1 .. Len(chunks) + 1
        PROVE  others[k] = IF k <= position THEN (before \o <<chunk>>)[k] ELSE after[k - position]
    BY <1>b, <1>c, <1>d, ConcatProperties, SMTT(20)
  <2>2. QED
    BY <1>b, <1>d, <2>1
<1>3. Apart(others)
  <2>1. ASSUME NEW k \in DOMAIN others, NEW n \in DOMAIN others, k < n, others[k].id = others[n].id
        PROVE  FALSE
    <3>1. CASE k = position \/ n = position
      BY <1>1, <1>2, <2>1, <3>1
    <3>2. CASE k # position /\ n # position
      <4>1. PICK i, j \in DOMAIN chunks : others[k] = chunks[i] /\ others[n] = chunks[j] /\ i < j
        <5>1. CASE n < position
          BY <1>1, <1>2, <2>1, <5>1
        <5>2. CASE k < position /\ position < n
          BY <1>1, <1>2, <2>1, <5>2
        <5>3. CASE position < k
          BY <1>1, <1>2, <2>1, <5>3
        <5>4. QED
          BY <1>1, <2>1, <3>2, <5>1, <5>2, <5>3
      <4>2. QED
        BY <2>1, <4>1 DEF Apart
    <3>3. QED
      BY <3>1, <3>2
  <2>2. QED
    BY <1>1, <2>1 DEF Apart
<1>4. ASSUME NEW j \in DOMAIN chunks
      PROVE  \E k \in DOMAIN others : others[k] = chunks[j]
  <2>1. CASE j < position
    <3>1. j \in DOMAIN others /\ others[j] = chunks[j]
      BY <1>1, <1>2, <2>1
    <3>2. QED
      BY <1>1, <3>1
  <2>2. CASE ~(j < position)
    <3>1. j + 1 \in DOMAIN others /\ others[j + 1] = chunks[j]
      BY <1>1, <1>2, <2>2
    <3>2. QED
      BY <1>1, <3>1
  <2>3. QED
    BY <2>1, <2>2
<1>5. position \in DOMAIN others /\ others[position] = chunk
  BY <1>1, <1>2
<1>6. QED
  BY <1>1, <1>3, <1>4, <1>5

\* Two neighbours changing places: the same of the list they are in.
LEMMA Exchanged ==
  ASSUME NEW chunks \in Seq(Chunks), Apart(chunks), NEW position \in 1 .. Len(chunks) - 1,
         NEW others, others = Exchange(chunks, position)
  PROVE  /\ others \in Seq(Chunks)
         /\ Apart(others)
         /\ \A j \in DOMAIN chunks : \E k \in DOMAIN others : others[k] = chunks[j]
         /\ \A k \in DOMAIN others : \E j \in DOMAIN chunks : chunks[j] = others[k]
<1>1. position \in DOMAIN chunks /\ position + 1 \in DOMAIN chunks
  OBVIOUS
<1>2. DOMAIN others = DOMAIN chunks /\ others \in Seq(Chunks)
  BY <1>1 DEF Exchange
<1>3. \A k \in DOMAIN chunks :
        others[k] = IF k = position THEN chunks[position + 1]
                    ELSE IF k = position + 1 THEN chunks[position] ELSE chunks[k]
  BY <1>1 DEF Exchange
<1>4. Apart(others)
  BY <1>1, <1>2, <1>3 DEF Apart
<1>5. QED
  BY <1>1, <1>2, <1>3, <1>4

\* What every step does to the list of chunks.
LEMMA StepKeepsChunks ==
  ASSUME Inv, Next
  PROVE  /\ Inv'
         /\ \A j \in DOMAIN evidence : \E k \in DOMAIN evidence' : evidence'[k] = evidence[j]
<1>1. CASE RetrieveSome
  <2>1. PICK chunk \in Chunks : \E position \in 1 .. Len(evidence) + 1 : Retrieve(chunk, position)
    BY <1>1 DEF RetrieveSome
  <2>2. PICK position \in 1 .. Len(evidence) + 1 : Retrieve(chunk, position)
    BY <2>1
  <2>3. QED
    BY <2>2, Inserted DEF Retrieve, Inv, TypeOK, Apart, Audited
<1>2. CASE ReorderSome
  <2>1. PICK position \in 1 .. Len(evidence) - 1 : Reorder(position)
    BY <1>2 DEF ReorderSome
  <2>2. evidence \in Seq(Chunks) /\ Apart(evidence)
    BY DEF Inv, TypeOK
  <2>3. evidence' = Exchange(evidence, position)
    BY <2>1 DEF Reorder
  <2>4. /\ evidence' \in Seq(Chunks)
        /\ Apart(evidence')
        /\ \A j \in DOMAIN evidence : \E k \in DOMAIN evidence' : evidence'[k] = evidence[j]
    BY <2>2, <2>3, Exchanged
  <2>5. QED
    BY <2>1, <2>4 DEF Reorder, Inv, TypeOK, Apart, Audited
<1>3. QED
  BY <1>1, <1>2 DEF Next

\* The invariant holds throughout.
LEMMA InvHolds == Spec => []Inv
<1>1. Init => Inv
  BY DEF Init, Inv, TypeOK, Apart
<1>2. Inv /\ [Next]_vars => Inv'
  <2>1. ASSUME Inv, UNCHANGED vars PROVE Inv'
    BY <2>1 DEF Inv, TypeOK, Apart, Audited, vars
  <2>2. QED
    BY <2>1, StepKeepsChunks
<1>3. QED
  BY <1>1, <1>2, PTL DEF Spec

\* The audit of a claim.
LEMMA AssessedClaim ==
  ASSUME Inv, NEW i \in DOMAIN Claims
  PROVE  Assessed(i) = assessClaim(Claims[i], evidence)
BY DEF Inv, Audited, Assessed, auditOutput

-------------------------------------------------------------------------------
(* Whatever has been retrieved: a claim the audit calls grounded rests on a *)
(* chunk of tier T1 to T3 that carries something of it (assessClaim).       *)
THEOREM AlwaysGroundedOnTrusted == Spec => []GroundedOnTrusted
<1>1. Inv => GroundedOnTrusted
  <2>1. SUFFICES ASSUME Inv, NEW i \in DOMAIN Claims, Assessed(i).status = "grounded"
                 PROVE  \E j \in DOMAIN evidence : /\ evidence[j].id \in Assessed(i).supporting
                                                   /\ ~isUntrustedTier(evidence[j].tier)
                                                   /\ Speaks(j, Claims[i])
    BY DEF GroundedOnTrusted
  <2> DEFINE claim == Claims[i]
             Hits == {s \in Stages : trusted(hit(s, claim, evidence), evidence)}
             s == First(Hits)
  <2>2. Assessed(i) = assessClaim(claim, evidence)
    BY <2>1, AssessedClaim
  <2>3. Hits # {}
    BY <2>1, <2>2 DEF assessClaim, Assessment
  <2>4. s \in Hits
    BY <2>3, FirstStage
  <2>5. PICK j \in hit(s, claim, evidence) : ~isUntrustedTier(evidence[j].tier)
    BY <2>4 DEF trusted
  <2>6. j \in DOMAIN evidence /\ Carries(claim, evidence, j)
    BY <2>4, <2>5, HitCarries
  <2>7. Assessed(i).supporting = ids(hit(s, claim, evidence), evidence)
    BY <2>2, <2>3 DEF assessClaim, Assessment
  <2>8. Speaks(j, claim)
    BY <2>6 DEF Carries, Speaks
  <2>9. QED
    BY <2>5, <2>6, <2>7, <2>8 DEF ids
<1>2. QED
  BY <1>1, InvHolds, PTL

(* A claim with a specific that is nowhere in context and that no trusted   *)
(* chunk restates is refused by the ladder itself, and its output blocked.  *)
THEOREM InventionAlwaysBlocks == Spec => []InventedSpecificBlocks
<1>1. Inv => InventedSpecificBlocks
  <2>1. SUFFICES ASSUME Inv, NEW i \in DOMAIN Claims,
                        NEW k \in DOMAIN SpecificsOf(Claims[i]),
                        \A j \in DOMAIN evidence :
                          SpecificsOf(Claims[i])[k] \notin evidence[j].text.mentions,
                        ~\E j \in DOMAIN evidence :
                           /\ ~isUntrustedTier(evidence[j].tier)
                           /\ Claims[i].id \in evidence[j].text.quotes \cup evidence[j].text.restates
                 PROVE  Assessed(i).status = "ungrounded" /\ audit.verdict.decision = "block"
    BY DEF InventedSpecificBlocks
  <2> DEFINE claim == Claims[i]
  <2>2. SpecificsOf(claim) # <<>> /\ Sourced(claim, evidence) # DOMAIN SpecificsOf(claim)
    BY <2>1 DEF Sourced
  <2>3. \A s \in Stages : ~trusted(hit(s, claim, evidence), evidence)
    <3>1. ~trusted(stageExact(claim, evidence), evidence)
      BY <2>1 DEF trusted, stageExact
    <3>2. ~trusted(stageNormalized(claim, evidence), evidence)
      BY <2>1 DEF trusted, stageNormalized
    <3>3. stageNormalizedCoverage(claim, evidence) = {} /\ stageSpecifics(claim, evidence) = {}
      BY <2>2 DEF stageNormalizedCoverage, stageSpecifics
    <3>4. ~trusted({}, evidence)
      BY DEF trusted
    <3>5. QED
      BY <3>1, <3>2, <3>3, <3>4 DEF hit, Stages
  <2>4. rejected(claim, evidence)
    BY <2>2 DEF rejected
  <2>5. assessClaim(claim, evidence).status = "ungrounded"
    BY <2>3, <2>4 DEF assessClaim, Assessment
  <2>6. /\ audit.verdict = verdictFor(audit.assessments, Unverifiable)
        /\ i \in DOMAIN audit.assessments
        /\ Assessed(i) = assessClaim(claim, evidence)
    BY <2>1, AssessedClaim DEF Inv, Audited, auditOutput
  <2>7. audit.verdict.decision = "block"
    BY <2>5, <2>6 DEF verdictFor, Assessed
  <2>8. QED
    BY <2>5, <2>6, <2>7
<1>2. QED
  BY <1>1, InvHolds, PTL

(* Where every chunk has an id of its own, a claim is refused for the low   *)
(* tier of its support only when no trusted chunk holds a specific of it.   *)
THEOREM LowTierOnlyWithoutTrusted ==
  ASSUME ClaimsAreLists
  PROVE  Spec => []LowTierOnlyIfNoneTrusted
<1>1. Inv => LowTierOnlyIfNoneTrusted
  <2>1. SUFFICES ASSUME Inv, NEW i \in DOMAIN Claims,
                        Assessed(i).reason = "CLAIM_SUPPORT_LOW_TIER",
                        Sourced(Claims[i], evidence) = DOMAIN SpecificsOf(Claims[i]),
                        NEW j \in DOMAIN evidence, ~isUntrustedTier(evidence[j].tier),
                        \E k \in DOMAIN SpecificsOf(Claims[i]) :
                          SpecificsOf(Claims[i])[k] \in evidence[j].text.mentions
                 PROVE  FALSE
    BY DEF LowTierOnlyIfNoneTrusted
  <2>2. Carries(Claims[i], evidence, j)
    BY <2>1 DEF Carries
  <2>3. PICK S : SpecificsOf(Claims[i]) \in Seq(S)
    BY DEF ClaimsAreLists
  <2>4. assessClaim(Claims[i], evidence).status = "grounded"
    BY <2>1, <2>2, <2>3, GroundedIff DEF Inv, TypeOK
  <2>5. assessClaim(Claims[i], evidence).reason = NoReason
    BY <2>4 DEF assessClaim, Assessment
  <2>6. QED
    BY <2>1, <2>5, AssessedClaim DEF NoReason
<1>2. QED
  BY <1>1, InvHolds, PTL

(* No chunk retrieved, at any position, takes the ground from a claim.      *)
THEOREM EvidenceOnlyGrounds ==
  ASSUME ClaimsAreLists
  PROVE  Spec => MoreEvidenceNeverUngrounds
<1>1. Inv /\ [Next]_vars
        => [\A i \in DOMAIN Claims :
              Assessed(i).status = "grounded" => Assessed(i)'.status = "grounded"]_vars
  <2>1. SUFFICES ASSUME Inv, Next, NEW i \in DOMAIN Claims, Assessed(i).status = "grounded"
                 PROVE  Assessed(i)'.status = "grounded"
    OBVIOUS
  <2>2. /\ Inv'
        /\ \A j \in DOMAIN evidence : \E k \in DOMAIN evidence' : evidence'[k] = evidence[j]
    BY <2>1, StepKeepsChunks
  <2>3. PICK S : SpecificsOf(Claims[i]) \in Seq(S)
    BY DEF ClaimsAreLists
  <2>4. PICK j \in DOMAIN evidence : /\ ~isUntrustedTier(evidence[j].tier)
                                     /\ Carries(Claims[i], evidence, j)
    BY <2>1, <2>3, AssessedClaim, GroundedIff DEF Inv, TypeOK
  <2>5. PICK k \in DOMAIN evidence' : /\ evidence'[k] = evidence[j]
                                      /\ Carries(Claims[i], evidence', k)
    BY <2>2, <2>4, CarriesOn
  <2>6. Apart(evidence')
    BY <2>2 DEF Inv, TypeOK, Apart
  <2>7. assessClaim(Claims[i], evidence').status = "grounded"
    BY <2>3, <2>4, <2>5, <2>6, GroundedIff
  <2>8. Assessed(i)' = assessClaim(Claims[i], evidence')
    BY <2>2 DEF Inv, Audited, Assessed, auditOutput
  <2>9. QED
    BY <2>7, <2>8
<1>2. QED
  BY <1>1, InvHolds, PTL DEF Spec, MoreEvidenceNeverUngrounds

-------------------------------------------------------------------------------
\* Each of two lists holds the chunks of the other.
SameChunks(chunks, others) ==
  /\ \A j \in DOMAIN chunks : \E k \in DOMAIN others : others[k] = chunks[j]
  /\ \A k \in DOMAIN others : \E j \in DOMAIN chunks : chunks[j] = others[k]

\* What a stage, or a rejection, goes by in one list it goes by in the other.
LEMMA OccurringMoves ==
  ASSUME NEW claim, NEW S, SpecificsOf(claim) \in Seq(S), NEW chunks, NEW others,
         Apart(others), SameChunks(chunks, others), NEW j \in Occurring(claim, chunks)
  PROVE  \E k \in Occurring(claim, others) : others[k] = chunks[j]
<1>1. j \in DOMAIN chunks
  BY OccurringMentions
<1>2. PICK k \in DOMAIN others : others[k] = chunks[j]
  BY <1>1 DEF SameChunks
<1>3. \E i \in DOMAIN SpecificsOf(claim) : SpecificsOf(claim)[i] \in others[k].text.mentions
  BY <1>2, OccurringMentions
<1>4. QED
  BY <1>2, <1>3, Undeduped

\* What a claim is drawn from does not depend on the order of the chunks.
LEMMA SourcedAlike ==
  ASSUME NEW claim, NEW chunks, NEW others, SameChunks(chunks, others)
  PROVE  Sourced(claim, chunks) = Sourced(claim, others)
BY DEF Sourced, SameChunks

\* Nor does what a stage of the ladder finds.
LEMMA HitMoves ==
  ASSUME NEW claim, NEW S, SpecificsOf(claim) \in Seq(S), NEW chunks, NEW others,
         Apart(others), SameChunks(chunks, others),
         NEW s \in Stages, NEW j \in hit(s, claim, chunks)
  PROVE  \E k \in hit(s, claim, others) : others[k] = chunks[j]
<1>1. j \in DOMAIN chunks
  BY HitInEvidence
<1>2. PICK k \in DOMAIN others : others[k] = chunks[j]
  BY <1>1 DEF SameChunks
<1>3. CASE s = 1
  <2>1. k \in hit(s, claim, others)
    BY <1>2, <1>3 DEF hit, stageExact
  <2>2. QED
    BY <1>2, <2>1
<1>4. CASE s = 2
  <2>1. k \in hit(s, claim, others)
    BY <1>2, <1>4 DEF hit, stageNormalized
  <2>2. QED
    BY <1>2, <2>1
<1>5. CASE s = 3
  <2>1. k \in hit(s, claim, others)
    BY <1>2, <1>5 DEF hit, stageNormalizedCoverage
  <2>2. QED
    BY <1>2, <2>1
<1>6. CASE s = 4
  <2>1. j \in Occurring(claim, chunks) /\ Sourced(claim, chunks) = DOMAIN SpecificsOf(claim)
    BY <1>6 DEF hit, stageSpecifics
  <2>2. hit(s, claim, others) = Occurring(claim, others)
    BY <1>6, <2>1, SourcedAlike DEF hit, stageSpecifics
  <2>3. QED
    BY <2>1, <2>2, OccurringMoves
<1>7. QED
  BY <1>3, <1>4, <1>5, <1>6 DEF Stages

\* One assessment of a claim for all orders of its evidence.
LEMMA AssessedAlike ==
  ASSUME NEW claim, NEW S, SpecificsOf(claim) \in Seq(S), NEW chunks, NEW others,
         Apart(chunks), Apart(others), SameChunks(chunks, others)
  PROVE  assessClaim(claim, chunks) = assessClaim(claim, others)
<1>1. SameChunks(others, chunks)
  BY DEF SameChunks
<1>2. \A s \in Stages : /\ \A j \in hit(s, claim, chunks) :
                              \E k \in hit(s, claim, others) : others[k] = chunks[j]
                        /\ \A k \in hit(s, claim, others) :
                              \E j \in hit(s, claim, chunks) : chunks[j] = others[k]
  BY <1>1, HitMoves
<1>3. \A s \in Stages :
        /\ trusted(hit(s, claim, chunks), chunks) <=> trusted(hit(s, claim, others), others)
        /\ hit(s, claim, chunks) = {} <=> hit(s, claim, others) = {}
  BY <1>2 DEF trusted
<1>4. \A s \in Stages : ids(hit(s, claim, chunks), chunks) = ids(hit(s, claim, others), others)
  BY <1>2 DEF ids
<1>5. ids(Occurring(claim, chunks), chunks) = ids(Occurring(claim, others), others)
  <2>1. /\ \A j \in Occurring(claim, chunks) :
             \E k \in Occurring(claim, others) : others[k] = chunks[j]
        /\ \A k \in Occurring(claim, others) :
             \E j \in Occurring(claim, chunks) : chunks[j] = others[k]
    BY <1>1, OccurringMoves
  <2>2. QED
    BY <2>1 DEF ids
<1>6. ids(rejectedOn(claim, chunks), chunks) = ids(rejectedOn(claim, others), others)
  BY <1>5 DEF rejectedOn, ids
<1>7. Corpus(chunks) = Corpus(others)
  BY DEF Corpus, SameChunks
<1>8. rejected(claim, chunks) <=> rejected(claim, others)
  BY <1>7, SourcedAlike DEF rejected
<1> DEFINE T(list) == {s \in Stages : trusted(hit(s, claim, list), list)}
           H(list) == {s \in Stages : hit(s, claim, list) # {}}
<1>9. T(chunks) = T(others) /\ H(chunks) = H(others)
  BY <1>3
<1>10. CASE T(chunks) # {}
  <2>1. First(T(chunks)) \in Stages
    BY <1>10, FirstStage
  <2>2. QED
    BY <1>4, <1>9, <1>10, <2>1 DEF assessClaim
<1>11. CASE T(chunks) = {} /\ H(chunks) # {}
  <2>1. First(H(chunks)) \in Stages
    BY <1>11, FirstStage
  <2>2. QED
    BY <1>4, <1>9, <1>11, <2>1 DEF assessClaim
<1>12. CASE T(chunks) = {} /\ H(chunks) = {}
  BY <1>6, <1>8, <1>9, <1>12 DEF assessClaim
<1>13. QED
  BY <1>10, <1>11, <1>12

(* Where every chunk has an id of its own, the order in which the chunks    *)
(* were retrieved changes neither status nor support of any claim.          *)
THEOREM OrderHasNoPart ==
  ASSUME ClaimsAreLists
  PROVE  Spec => OrderIrrelevant
<1>1. Inv /\ [Next]_vars
        => [RetrievedIds(evidence') = RetrievedIds(evidence)
              => \A i \in DOMAIN Claims : /\ Assessed(i)'.status = Assessed(i).status
                                          /\ Assessed(i)'.supporting = Assessed(i).supporting]_vars
  <2>1. SUFFICES ASSUME Inv, Next, RetrievedIds(evidence') = RetrievedIds(evidence), NEW i \in DOMAIN Claims
                 PROVE  /\ Assessed(i)'.status = Assessed(i).status
                        /\ Assessed(i)'.supporting = Assessed(i).supporting
    OBVIOUS
  <2>2. Inv'
    BY <2>1, StepKeepsChunks
  <2>3. evidence \in Seq(Chunks) /\ Apart(evidence)
    BY <2>1 DEF Inv, TypeOK
  <2>4. ~RetrieveSome
    <3>1. SUFFICES ASSUME NEW chunk \in Chunks, NEW position \in 1 .. Len(evidence) + 1,
                          Retrieve(chunk, position)
                   PROVE  FALSE
      BY DEF RetrieveSome
    <3>2. \E k \in DOMAIN evidence' : evidence'[k] = chunk
      BY <2>3, <3>1, Inserted DEF Retrieve
    <3>3. chunk.id \in RetrievedIds(evidence') /\ chunk.id \notin RetrievedIds(evidence)
      BY <3>1, <3>2 DEF Retrieve, RetrievedIds
    <3>4. QED
      BY <2>1, <3>3
  <2>5. PICK position \in 1 .. Len(evidence) - 1 : evidence' = Exchange(evidence, position)
    BY <2>1, <2>4 DEF Next, ReorderSome, Reorder
  <2>6. Apart(evidence') /\ SameChunks(evidence, evidence')
    BY <2>3, <2>5, Exchanged DEF SameChunks
  <2>7. PICK S : SpecificsOf(Claims[i]) \in Seq(S)
    BY DEF ClaimsAreLists
  <2>8. assessClaim(Claims[i], evidence) = assessClaim(Claims[i], evidence')
    BY <2>3, <2>6, <2>7, AssessedAlike
  <2>9. Assessed(i)' = assessClaim(Claims[i], evidence')
    BY <2>2 DEF Inv, Audited, Assessed, auditOutput
  <2>10. QED
    BY <2>1, <2>8, <2>9, AssessedClaim
<1>2. QED
  BY <1>1, InvHolds, PTL DEF Spec, OrderIrrelevant
===============================================================================
