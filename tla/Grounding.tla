------------------------------- MODULE Grounding -------------------------------
(***************************************************************************)
(* The outbound gate (packages/outbound): whether a claim of the output    *)
(* traces back to the chunks that were in context, and the verdict over    *)
(* all the claims.                                                         *)
(*                                                                         *)
(* A claim is [id, entities, numbers, words]: the hard specifics and the   *)
(* content words found in its text, in order.  A chunk's text is           *)
(* abstracted to what the matchers find in it:                             *)
(*   quotes     the claims (ids) it contains verbatim                      *)
(*   restates   the claims it contains once both are normalized            *)
(*   mentions   the specifics it contains                                  *)
(*   words      the words it contains                                      *)
(* Evidence is a sequence of chunks, a support is a set of its positions.  *)
(***************************************************************************)
EXTENDS Provenance, FiniteSets

GroundingStatuses == {"grounded", "ungrounded", "unverifiable"}

SpecificsOf(claim) == claim.entities \o claim.numbers

Covered(claim, words) == {i \in DOMAIN claim.words : claim.words[i] \in words}

\* matched / claimTokens.length >= 0.9
NearlyAll(claim, words) == 10 * Cardinality(Covered(claim, words)) >= 9 * Len(claim.words)

\* matched / claimTokens.length < options.minLexicalOverlap, 0.34 by default
TooFew(claim, words) == 100 * Cardinality(Covered(claim, words)) < 34 * Len(claim.words)

stageExact(claim, evidence) ==
  {j \in DOMAIN evidence : claim.id \in evidence[j].text.quotes}

stageNormalized(claim, evidence) ==
  {j \in DOMAIN evidence : claim.id \in evidence[j].text.restates}

\* stageNormalizedCoverage for claims with specifics too.
stageNormalizedCoverage_any_claim(claim, evidence) ==
  IF claim.words = <<>> THEN {}
  ELSE {j \in DOMAIN evidence : NearlyAll(claim, evidence[j].text.words)}

\* Only for a claim without specifics, and within a single chunk.
stageNormalizedCoverage(claim, evidence) ==
  IF SpecificsOf(claim) # <<>> \/ claim.words = <<>> THEN {}
  ELSE {j \in DOMAIN evidence : NearlyAll(claim, evidence[j].text.words)}

\* Every occurrence <<i, j>> of specific i in chunk j, in the order the code
\* lists them.
Occurrences(claim, evidence) ==
  {o \in (DOMAIN SpecificsOf(claim)) \X (DOMAIN evidence) :
     SpecificsOf(claim)[o[1]] \in evidence[o[2]].text.mentions}

ListedBefore(o, p) == o[1] < p[1] \/ (o[1] = p[1] /\ o[2] < p[2])

\* The first occurrence with each chunk id is the one that is kept.
dedupe(occurrences, evidence) ==
  {o \in occurrences : \A p \in occurrences :
     ListedBefore(p, o) => evidence[p[2]].id # evidence[o[2]].id}

Sourced(claim, evidence) ==
  {i \in DOMAIN SpecificsOf(claim) :
     \E j \in DOMAIN evidence : SpecificsOf(claim)[i] \in evidence[j].text.mentions}

Occurring(claim, evidence) ==
  {o[2] : o \in dedupe(Occurrences(claim, evidence), evidence)}

\* The hit of the specifics stage: every specific appears in some chunk.
stageSpecifics(claim, evidence) ==
  IF Sourced(claim, evidence) = DOMAIN SpecificsOf(claim)
  THEN Occurring(claim, evidence)
  ELSE {}

Corpus(evidence) == UNION {evidence[j].text.words : j \in DOMAIN evidence}

\* The rejection of the specifics stage: a missing specific, or, for a claim
\* without specifics, too little vocabulary shared with the whole context.
rejected(claim, evidence) ==
  IF SpecificsOf(claim) # <<>>
  THEN Sourced(claim, evidence) # DOMAIN SpecificsOf(claim)
  ELSE claim.words # <<>> /\ TooFew(claim, Corpus(evidence))

\* The chunks a rejection names: those that hold the sourced specifics.
rejectedOn(claim, evidence) ==
  IF SpecificsOf(claim) # <<>> THEN Occurring(claim, evidence) ELSE {}

specificsMethod(claim) ==
  IF claim.entities # <<>> THEN "entity"
  ELSE IF claim.numbers # <<>> THEN "numeric" ELSE "lexical"

Stages == 1 .. 4

\* The chunks each stage finds, in the order the stages run.
hit(stage, claim, evidence) ==
  <<stageExact(claim, evidence), stageNormalized(claim, evidence),
    stageNormalizedCoverage(claim, evidence), stageSpecifics(claim, evidence)>>[stage]

decidedBy(stage, claim) ==
  <<"exact", "normalized", "normalized", specificsMethod(claim)>>[stage]

\* trusted of any hit at all, only of hits trusted throughout, or by the first
\* supporting chunk.
trusted_any(support, evidence) == support # {}

trusted_all(support, evidence) ==
  support # {} /\ \A j \in support : ~isUntrustedTier(evidence[j].tier)

trusted_first(support, evidence) ==
  \E j \in support : ~isUntrustedTier(evidence[j].tier) /\ \A k \in support : j <= k

\* A hit is trusted when some supporting chunk is.
trusted(support, evidence) ==
  \E j \in support : ~isUntrustedTier(evidence[j].tier)

First(stages) == CHOOSE s \in stages : \A t \in stages : s <= t

ids(support, evidence) == {evidence[j].id : j \in support}

Assessment(status, method, supporting, reason) ==
  [status |-> status, decidedBy |-> method, supporting |-> supporting, reason |-> reason]

NoReason == "none"

\* assessClaim that stops at the first hit of any kind.
assessClaim_first_hit(claim, evidence) ==
  LET hits == {s \in Stages : hit(s, claim, evidence) # {}}
      support == hit(First(hits), claim, evidence)
      method == decidedBy(First(hits), claim)
  IN  IF hits # {} /\ trusted(support, evidence)
      THEN Assessment("grounded", method, ids(support, evidence), NoReason)
      ELSE IF hits # {}
      THEN Assessment("ungrounded", method, ids(support, evidence), "CLAIM_SUPPORT_LOW_TIER")
      ELSE IF rejected(claim, evidence)
      THEN Assessment("ungrounded", specificsMethod(claim), {}, "CLAIM_UNGROUNDED")
      ELSE Assessment("unverifiable", "none", {}, "CLAIM_UNVERIFIABLE")

\* The stages run in order and the first trusted hit grounds the claim.  With
\* none, the first hit of any kind makes it ungrounded for its low tier, ahead
\* of a rejection; a claim no stage settled is unverifiable.
assessClaim(claim, evidence) ==
  LET trustedHits == {s \in Stages : trusted(hit(s, claim, evidence), evidence)}
      hits        == {s \in Stages : hit(s, claim, evidence) # {}}
      ByStage(status, s, reason) ==
        Assessment(status, decidedBy(s, claim), ids(hit(s, claim, evidence), evidence), reason)
  IN  IF trustedHits # {} THEN ByStage("grounded", First(trustedHits), NoReason)
      ELSE IF hits # {} THEN ByStage("ungrounded", First(hits), "CLAIM_SUPPORT_LOW_TIER")
      ELSE IF rejected(claim, evidence)
      THEN Assessment("ungrounded", specificsMethod(claim),
                      ids(rejectedOn(claim, evidence), evidence), "CLAIM_UNGROUNDED")
      ELSE Assessment("unverifiable", "none", {}, "CLAIM_UNVERIFIABLE")

\* What to do with an output some claim of which nothing could settle.
UnverifiablePolicies == {"block", "quarantine"}

Reasons(assessments) ==
  {<<i, assessments[i].reason>> :
     i \in {k \in DOMAIN assessments : assessments[k].reason # NoReason}}

\* One decision over the assessments of an output's claims, in order, with the
\* reasons of those that have one.
verdictFor(assessments, unverifiablePolicy) ==
  LET statuses == {assessments[i].status : i \in DOMAIN assessments}
  IN  [decision |-> IF "ungrounded" \in statuses THEN "block"
                    ELSE IF "unverifiable" \in statuses THEN unverifiablePolicy
                    ELSE "allow",
       reasons  |-> Reasons(assessments)]

auditOutput(claims, evidence, unverifiablePolicy) ==
  LET assessments == [i \in DOMAIN claims |-> assessClaim(claims[i], evidence)]
  IN  [assessments |-> assessments, verdict |-> verdictFor(assessments, unverifiablePolicy)]
===============================================================================
