----------------------------- MODULE InboundProofs -----------------------------
(***************************************************************************)
(* What classification and the slot check guarantee for every payload,     *)
(* every declaration and every policy, not only those TLC enumerates.      *)
(***************************************************************************)
EXTENDS InboundPipeline, SequenceTheorems, TLAPS

\* Any declaration: a caller's hints, or a chunk's own provenance.
Declaration(h) ==
  /\ h.channel \in Channels \cup {NoChannel}
  /\ h.tier \in Tiers \cup {NoTier}
  /\ h.status \in Statuses \cup {NoStatus}

\* A status that is detected is a status.
LEMMA DetectedStatus ==
  ASSUME NEW t \in Payloads, NEW s \in Statuses \cup {NoStatus}
  PROVE  detectStatus(t, s) \in Statuses \cup {NoStatus}
  BY DEF Payloads, detectStatus, responseStatus, Found, NoSignal, NoStatus,
         ErrorStatuses, EnvelopeStatuses, Statuses

\* A signature is a signature.
LEMMA SignatureType ==
  ASSUME NEW t, NEW s
  PROVE  classifySignature(t, s) \in Signatures
  BY DEF classifySignature, Signatures

\* Every channel has a ceiling.
LEMMA CeilingType ==
  \A c \in Channels : TIER_CEILING[c] \in Tiers
  BY DEF TIER_CEILING, Channels, Tiers

\* A tier given for an explicit status is no better than the ceiling.
LEMMA ExplicitTierType ==
  ASSUME NEW c \in Channels, NEW s
  PROVE  /\ tierForExplicitOkStatus(c, s) \in Tiers
         /\ tierForExplicitOkStatus(c, s) >= TIER_CEILING[c]
  BY DEF tierForExplicitOkStatus, TIER_CEILING, Channels, Tiers

\* The worse of two tiers is no better than either.
LEMMA WorseTier ==
  ASSUME NEW a \in Tiers, NEW b \in Tiers
  PROVE  /\ worseTier(a, b) \in Tiers
         /\ worseTier(a, b) >= a /\ worseTier(a, b) >= b
         /\ b >= a => worseTier(b, a) = b
  BY DEF worseTier, Tiers

\* A ceiling only ever lowers: no status lifts a channel above its own.
LEMMA CeilingLowers ==
  ASSUME NEW g, NEW c \in Channels, NEW s
  PROVE  /\ ceilingFor(g, c, s) \in Tiers
         /\ ceilingFor(g, c, s) >= TIER_CEILING[c]
  BY CeilingType, ExplicitTierType, WorseTier DEF ceilingFor, Tiers

\* The label is one of the schema's, never better than its channel justifies
\* nor than what was declared.
LEMMA InferredLabel ==
  ASSUME NEW g \in Signatures, NEW h, Declaration(h), NEW s
  PROVE  LET label == inferProvenance(g, h, s)
         IN  /\ label.channel \in Channels
             /\ label.tier \in Tiers
             /\ label.tier >= TIER_CEILING[label.channel]
             /\ h.tier # NoTier => label.tier >= h.tier
<1> DEFINE label == inferProvenance(g, h, s)
<1>1. CASE isSuspicious(g)
  <2>1. /\ label.tier = 5
        /\ label.channel \in {"SYSTEM_ALERT", "DIAGNOSTIC_LOG", "UNLABELED"}
    BY <1>1 DEF isSuspicious, SUSPICIOUS_SIGNATURES, Signatures, inferProvenance
  <2>2. h.tier \in Tiers \cup {NoTier}
    BY DEF Declaration
  <2> QED
    BY <2>1, <2>2, CeilingType DEF Channels, Tiers, NoTier
<1>2. CASE ~isSuspicious(g) /\ h.channel # NoChannel /\ h.tier # NoTier
  <2>1. label = [channel |-> h.channel,
                 tier |-> worseTier(h.tier, ceilingFor(g, h.channel, s))]
    BY <1>2 DEF isSuspicious, SUSPICIOUS_SIGNATURES, Signatures, inferProvenance
  <2>2. h.channel \in Channels /\ h.tier \in Tiers
    BY <1>2 DEF Declaration
  <2>3. /\ ceilingFor(g, h.channel, s) \in Tiers
        /\ ceilingFor(g, h.channel, s) >= TIER_CEILING[h.channel]
    BY <2>2, CeilingLowers
  <2>4. /\ worseTier(h.tier, ceilingFor(g, h.channel, s)) \in Tiers
        /\ worseTier(h.tier, ceilingFor(g, h.channel, s)) >= h.tier
        /\ worseTier(h.tier, ceilingFor(g, h.channel, s)) >= ceilingFor(g, h.channel, s)
    BY <2>2, <2>3, WorseTier
  <2> QED
    BY <2>1, <2>2, <2>3, <2>4, CeilingType DEF Tiers
<1>3. CASE /\ ~isSuspicious(g) /\ g = "recognized_ok_status"
           /\ h.channel # NoChannel /\ h.tier = NoTier
  <2>1. label = [channel |-> h.channel, tier |-> tierForExplicitOkStatus(h.channel, s)]
    BY <1>3 DEF isSuspicious, SUSPICIOUS_SIGNATURES, Signatures, inferProvenance
  <2>2. h.channel \in Channels
    BY <1>3 DEF Declaration
  <2> QED
    BY <1>3, <2>1, <2>2, ExplicitTierType
<1>4. CASE /\ ~isSuspicious(g)
           /\ ~(h.channel # NoChannel /\ h.tier # NoTier)
           /\ ~(g = "recognized_ok_status" /\ h.channel # NoChannel)
  <2>1. label = [channel |-> "UNLABELED", tier |-> 5]
    BY <1>4 DEF isSuspicious, SUSPICIOUS_SIGNATURES, Signatures, inferProvenance
  <2>2. h.tier \in Tiers \cup {NoTier}
    BY DEF Declaration
  <2> QED
    BY <2>1, <2>2, CeilingType DEF Channels, Tiers, NoTier
<1> QED
  BY <1>1, <1>2, <1>3, <1>4

\* A classified chunk is no better than its channel allows, or than was declared.
LEMMA ClassifiedChunk ==
  ASSUME NEW t \in Payloads, NEW h, Declaration(h)
  PROVE  LET c == classifyChunk(t, h)
         IN  /\ c.text = t
             /\ c.channel \in Channels /\ c.tier \in Tiers
             /\ c.status \in Statuses \cup {NoStatus}
             /\ c.tier >= TIER_CEILING[c.channel]
             /\ h.tier # NoTier => c.tier >= h.tier
<1> DEFINE status == detectStatus(t, h.status)
           g == classifySignature(t, status)
<1>1. status \in Statuses \cup {NoStatus}
  BY DetectedStatus DEF Declaration
<1>2. g \in Signatures
  BY SignatureType
<1> HIDE DEF status, g
<1>3. LET label == inferProvenance(g, h, status)
      IN  /\ label.channel \in Channels
          /\ label.tier \in Tiers
          /\ label.tier >= TIER_CEILING[label.channel]
          /\ h.tier # NoTier => label.tier >= h.tier
  BY <1>2, InferredLabel
<1> QED
  BY <1>1, <1>3 DEF classifyChunk, status, g

-------------------------------------------------------------------------------
\* Reasons are put together with \o, and only no reasons at all allow.
LEMMA Singleton ==
  ASSUME NEW S, NEW e \in S
  PROVE  <<e>> \in Seq(S)
  OBVIOUS

\* A reason, or none, is a list of reasons.
LEMMA OneReason ==
  ASSUME NEW code \in ReasonCodes, NEW r, r = <<>> \/ r = <<code>>
  PROVE  r \in Seq(ReasonCodes)
<1>1. <<code>> \in Seq(ReasonCodes)
  BY Singleton
<1>2. <<>> \in Seq(ReasonCodes)
  BY EmptySeq
<1>3. QED
  BY <1>1, <1>2

\* A reason is a reason to refuse.
LEMMA NoReason ==
  ASSUME NEW code
  PROVE  <<code>> # <<>>
<1>1. Len(<<code>>) = 1 /\ Len(<<>>) = 0
  OBVIOUS
<1>2. QED
  BY <1>1

\* Lists of reasons joined are a list of reasons.
LEMMA TwoParts ==
  ASSUME NEW s \in Seq(ReasonCodes), NEW t \in Seq(ReasonCodes)
  PROVE  /\ s \o t \in Seq(ReasonCodes)
         /\ s \o t = <<>> => s = <<>> /\ t = <<>>
  BY ConcatProperties, ConcatEqualIffEmpty

\* A payload whose label contradicts it has at least one reason against it.
LEMMA MismatchReasons ==
  ASSUME NEW c
  PROVE  /\ labelMismatchReasons(c) \in Seq(ReasonCodes)
         /\ labelMismatchReasons(c) = <<>>
              /\ isSuspicious(classifySignature(c.text, c.status))
            => /\ ~(c.status # NoStatus /\ isOkStatus(c.status))
               /\ ~(c.channel \in DATA_CHANNELS /\ c.tier <= 3)
<1> DEFINE sig     == classifySignature(c.text, c.status)
           claims  == \/ c.status # NoStatus /\ isOkStatus(c.status)
                      \/ c.channel \in DATA_CHANNELS /\ c.tier <= 3
           label   == ReasonIf(claims, "PROVENANCE_LABEL_MISMATCH")
           result  == ReasonIf(sig = "degraded_result", "RESULT_DEGRADED")
<1>1. labelMismatchReasons(c) = IF ~isSuspicious(sig) THEN <<>> ELSE label \o result
  BY DEF labelMismatchReasons
<1>2. label = IF claims THEN <<"PROVENANCE_LABEL_MISMATCH">> ELSE <<>>
  BY DEF ReasonIf
<1>3. result = <<>> \/ result = <<"RESULT_DEGRADED">>
  BY DEF ReasonIf
<1> HIDE DEF label, result, claims
<1>4. label \in Seq(ReasonCodes) /\ result \in Seq(ReasonCodes)
  <2>1. {"PROVENANCE_LABEL_MISMATCH", "RESULT_DEGRADED"} \subseteq ReasonCodes
    BY DEF ReasonCodes
  <2>2. QED
    BY <1>2, <1>3, <2>1, OneReason, Zenon
<1>5. label = <<>> => ~claims
  BY <1>2, NoReason
<1>6. label \o result \in Seq(ReasonCodes) /\ (label \o result = <<>> => label = <<>>)
  BY <1>4, TwoParts
<1>7. <<>> \in Seq(ReasonCodes)
  BY EmptySeq
<1>8. CASE isSuspicious(sig)
  BY <1>1, <1>5, <1>6, <1>8, Zenon DEF claims
<1>9. CASE ~isSuspicious(sig)
  BY <1>1, <1>7, <1>9, Zenon
<1>10. QED
  BY <1>8, <1>9

\* Why a slot refuses, and what it has found of a chunk it allows.
LEMMA CheckedChunk ==
  ASSUME NEW c, NEW s
  PROVE  LET v == checkSlot(c, s)
         IN  /\ v.decision \in {"allow", "block"} /\ v.reasons \in Seq(ReasonCodes)
             /\ v.decision = "allow" =>
                  /\ c.channel \in s.allowedChannels
                  /\ tierMeetsMinimum(c.tier, s.minTier)
                  /\ labelMismatchReasons(c) = <<>>
<1> DEFINE v         == checkSlot(c, s)
           blank     == ReasonIf(c.text.blank, "PAYLOAD_EMPTY")
           truncated == ReasonIf(c.text.truncated, "PAYLOAD_TRUNCATED")
           notOk     == ReasonIf(c.status # NoStatus /\ ~isOkStatus(c.status),
                                 "UPSTREAM_STATUS_NOT_OK")
           mismatch  == labelMismatchReasons(c)
           channel   == ReasonIf(c.channel \notin s.allowedChannels, "CHANNEL_NOT_PERMITTED")
           tier      == ReasonIf(~tierMeetsMinimum(c.tier, s.minTier), "TIER_BELOW_MINIMUM")
           payload   == payloadReasons(c)
<1>1. /\ blank = <<>> \/ blank = <<"PAYLOAD_EMPTY">>
      /\ truncated = <<>> \/ truncated = <<"PAYLOAD_TRUNCATED">>
      /\ notOk = <<>> \/ notOk = <<"UPSTREAM_STATUS_NOT_OK">>
      /\ channel = <<>> \/ channel = <<"CHANNEL_NOT_PERMITTED">>
      /\ tier = <<>> \/ tier = <<"TIER_BELOW_MINIMUM">>
  BY DEF ReasonIf
<1>2. channel = <<>> => c.channel \in s.allowedChannels
  BY NoReason DEF ReasonIf
<1>3. tier = <<>> => tierMeetsMinimum(c.tier, s.minTier)
  BY NoReason DEF ReasonIf
<1>4. payload = ((blank \o truncated) \o notOk) \o mismatch
  BY DEF payloadReasons
<1>5. /\ v.reasons = (payload \o channel) \o tier
      /\ v.decision = IF v.reasons = <<>> THEN "allow" ELSE "block"
  BY DEF checkSlot
<1>6. mismatch \in Seq(ReasonCodes)
  BY MismatchReasons
<1> HIDE DEF v, blank, truncated, notOk, mismatch, channel, tier, payload
<1>7. /\ blank \in Seq(ReasonCodes) /\ truncated \in Seq(ReasonCodes)
      /\ notOk \in Seq(ReasonCodes)
      /\ channel \in Seq(ReasonCodes) /\ tier \in Seq(ReasonCodes)
  <2>1. {"PAYLOAD_EMPTY", "PAYLOAD_TRUNCATED", "UPSTREAM_STATUS_NOT_OK",
         "CHANNEL_NOT_PERMITTED", "TIER_BELOW_MINIMUM"} \subseteq ReasonCodes
    BY DEF ReasonCodes
  <2>2. QED
    BY <1>1, <2>1, OneReason, Zenon
<1>8. (blank \o truncated) \o notOk \in Seq(ReasonCodes)
  BY <1>7, TwoParts
<1>9. payload \in Seq(ReasonCodes) /\ (payload = <<>> => mismatch = <<>>)
  BY <1>4, <1>6, <1>8, TwoParts
<1>10. payload \o channel \in Seq(ReasonCodes) /\ v.reasons \in Seq(ReasonCodes)
  BY <1>5, <1>7, <1>9, TwoParts
<1>11. v.reasons = <<>> => payload = <<>> /\ channel = <<>> /\ tier = <<>>
  BY <1>5, <1>7, <1>9, <1>10, TwoParts
<1>12. v.decision \in {"allow", "block"} /\ (v.decision = "allow" => v.reasons = <<>>)
  BY <1>5
<1>13. QED
  BY <1>2, <1>3, <1>9, <1>10, <1>11, <1>12, Zenon DEF mismatch, v

-------------------------------------------------------------------------------
(* What the label properties rest on: the types, the two bounds, and that a *)
(* verdict is the one of the chunk and slot it stands beside.               *)
VerdictCurrent == pc = "checked" => verdict = checkSlot(chunk, slot)

LabelInv == TypeOK /\ CeilingHolds /\ DeclarationNeverRaised /\ VerdictCurrent

\* Hints are a declaration.
LEMMA HintsDeclare ==
  ASSUME NEW h \in Hints
  PROVE  Declaration(h)
  BY HintsAssumption, ZenonT(30) DEF Hints, Declaration, Statuses, NoStatus

\* The invariant holds of an empty slot.
LEMMA LabelInit == Init => LabelInv
  BY DEF Init, LabelInv, TypeOK, CeilingHolds, DeclarationNeverRaised, Labelled, VerdictCurrent

\* Every step keeps it.
LEMMA LabelStep == LabelInv /\ [Next]_vars => LabelInv'
<1> SUFFICES ASSUME LabelInv, [Next]_vars
             PROVE  LabelInv'
  OBVIOUS
<1> USE DEF LabelInv, TypeOK, CeilingHolds, DeclarationNeverRaised, Labelled, VerdictCurrent
<1>1. CASE Classify
  <2>1. text \in Payloads /\ Declaration(hints)
    BY TextsAssumption, HintsDeclare
  <2> QED
    BY <1>1, <2>1, ClassifiedChunk DEF Classify
<1>2. CASE LabelByHand
  <2>1. Declaration(hints)
    BY HintsDeclare
  <2> QED
    BY <1>2, <2>1 DEF LabelByHand, Declaration, Tiers, NoTier
<1>3. CASE Reclassify
  <2> DEFINE h == [channel |-> chunk.channel, tier |-> chunk.tier,
                   status |-> chunk.status, source |-> chunk.source]
  <2>1. /\ chunk.text \in Payloads
        /\ Declaration(h)
        /\ h.tier # NoTier /\ h.tier = chunk.tier
    BY <1>3, TextsAssumption DEF Reclassify, Declaration, Tiers, NoTier
  <2> HIDE DEF h
  <2>2. /\ classifyChunk(chunk.text, h).text = text
        /\ classifyChunk(chunk.text, h).channel \in Channels
        /\ classifyChunk(chunk.text, h).tier \in Tiers
        /\ classifyChunk(chunk.text, h).status \in Statuses \cup {NoStatus}
        /\ classifyChunk(chunk.text, h).tier >=
             TIER_CEILING[classifyChunk(chunk.text, h).channel]
        /\ classifyChunk(chunk.text, h).tier >= chunk.tier
    BY <1>3, <2>1, ClassifiedChunk DEF Reclassify
  <2>3. chunk' = classifyChunk(chunk.text, h)
    BY <1>3 DEF Reclassify, h
  <2>4. chunk.tier >= hints.tier \/ hints.tier = NoTier
    BY <1>3 DEF Reclassify
  <2>5. hints.tier \in Tiers \cup {NoTier} /\ chunk.tier \in Tiers
    BY <1>3, HintsDeclare DEF Reclassify, Declaration
  <2> QED
    BY <1>3, <2>2, <2>3, <2>4, <2>5 DEF Reclassify, Tiers, NoTier
<1>4. ASSUME NEW s \in SlotChoices, CheckSlot(s)
      PROVE  LabelInv'
  <2>1. /\ checkSlot(chunk, s).decision \in {"allow", "block"}
        /\ checkSlot(chunk, s).reasons \in Seq(ReasonCodes)
    BY CheckedChunk
  <2> QED
    BY <1>4, <2>1 DEF CheckSlot
<1>5. CASE UNCHANGED vars
  BY <1>5 DEF vars
<1> QED
  BY <1>1, <1>2, <1>3, <1>4, <1>5 DEF Next

(* The labels of the pipeline are labels of the schema, in every behaviour. *)
THEOREM TypeCorrect == Spec => []TypeOK
<1>1. LabelInv => TypeOK
  BY DEF LabelInv
<1> QED
  BY <1>1, LabelInit, LabelStep, PTL DEF Spec

(* No label the guard gives is better than its channel can justify.         *)
THEOREM CeilingAlwaysHolds == Spec => []CeilingHolds
<1>1. LabelInv => CeilingHolds
  BY DEF LabelInv
<1> QED
  BY <1>1, LabelInit, LabelStep, PTL DEF Spec

(* No path of labelling ends with more trust than was declared.             *)
THEOREM DeclarationNeverGains == Spec => []DeclarationNeverRaised
<1>1. LabelInv => DeclarationNeverRaised
  BY DEF LabelInv
<1> QED
  BY <1>1, LabelInit, LabelStep, PTL DEF Spec


(* Whoever labelled it, a payload that reads as a failure is refused by     *)
(* every slot that takes data only and no tier worse than T3.               *)
THEOREM SuspiciousIsNeverEvidence == Spec => []SuspiciousNeverEvidence
<1>1. LabelInv => SuspiciousNeverEvidence
  <2> SUFFICES ASSUME LabelInv, pc = "checked", DataSlot(slot), verdict.decision = "allow",
                      isSuspicious(signature)
               PROVE  FALSE
    BY DEF SuspiciousNeverEvidence
  <2>1. /\ chunk.channel \in slot.allowedChannels
        /\ tierMeetsMinimum(chunk.tier, slot.minTier)
        /\ labelMismatchReasons(chunk) = <<>>
    BY CheckedChunk DEF LabelInv, VerdictCurrent
  <2>2. chunk.tier \in Tiers /\ slot.minTier \in Tiers
    BY SlotsAssumption DEF LabelInv, TypeOK, Labelled, Slots
  <2>3. chunk.channel \in DATA_CHANNELS /\ chunk.tier <= 3
    BY <2>1, <2>2 DEF DataSlot, tierMeetsMinimum, Tiers
  <2>4. QED
    BY <2>1, <2>3, MismatchReasons DEF signature
<1>2. QED
  BY <1>1, LabelInit, LabelStep, PTL DEF Spec

(* A 2xx status on a payload that reads as a failure is refused everywhere. *)
THEOREM SuccessClaimIsRefused == Spec => []SuccessClaimOnFailureRefused
<1>1. LabelInv => SuccessClaimOnFailureRefused
  <2> SUFFICES ASSUME LabelInv, pc = "checked", isOkStatus(chunk.status),
                      isSuspicious(signature)
               PROVE  verdict.decision = "block"
    BY DEF SuccessClaimOnFailureRefused
  <2>1. chunk.status # NoStatus
    BY DEF isOkStatus, NoStatus
  <2>2. labelMismatchReasons(chunk) # <<>>
    BY <2>1, MismatchReasons DEF signature
  <2>3. verdict.decision # "allow"
    BY <2>2, CheckedChunk DEF LabelInv, VerdictCurrent
  <2>4. QED
    BY <2>3 DEF LabelInv, TypeOK
<1>2. QED
  BY <1>1, LabelInit, LabelStep, PTL DEF Spec

(* What a data slot admits of the guard's own labelling is data its channel *)
(* justifies: an agent's output, though a data channel, never is.           *)
THEOREM EvidenceIsJustified == Spec => []EvidenceTierJustified
<1>1. LabelInv => EvidenceTierJustified
  <2> SUFFICES ASSUME LabelInv, pc = "checked", labeller = "guard", DataSlot(slot),
                      verdict.decision = "allow"
               PROVE  /\ chunk.tier <= slot.minTier
                      /\ chunk.channel \in {"USER_MESSAGE", "RETRIEVED_DOC", "TOOL_RESULT"}
    BY DEF EvidenceTierJustified
  <2>1. chunk.channel \in slot.allowedChannels /\ tierMeetsMinimum(chunk.tier, slot.minTier)
    BY CheckedChunk DEF LabelInv, VerdictCurrent
  <2>2. chunk.tier \in Tiers /\ slot.minTier \in Tiers
    BY SlotsAssumption DEF LabelInv, TypeOK, Labelled, Slots
  <2>3. /\ chunk.channel \in DATA_CHANNELS
        /\ chunk.tier <= slot.minTier /\ chunk.tier <= 3
    BY <2>1, <2>2 DEF DataSlot, tierMeetsMinimum, Tiers
  <2>4. chunk.tier >= TIER_CEILING[chunk.channel]
    BY DEF LabelInv, CeilingHolds, Labelled
  <2>5. QED
    BY <2>2, <2>3, <2>4 DEF TIER_CEILING, DATA_CHANNELS, Channels, Tiers
<1>2. QED
  BY <1>1, LabelInit, LabelStep, PTL DEF Spec
-------------------------------------------------------------------------------
\* What a slot asks of a chunk, condition by condition.
Acceptable(c, s) ==
  /\ ~c.text.blank /\ ~c.text.truncated
  /\ ~(c.status # NoStatus /\ ~isOkStatus(c.status))
  /\ isSuspicious(classifySignature(c.text, c.status)) =>
       /\ classifySignature(c.text, c.status) # "degraded_result"
       /\ ~(c.status # NoStatus /\ isOkStatus(c.status))
       /\ ~(c.channel \in DATA_CHANNELS /\ c.tier <= 3)
  /\ c.channel \in s.allowedChannels
  /\ tierMeetsMinimum(c.tier, s.minTier)

\* There is no reason in a joined list when there is none in either part.
LEMMA EmptyParts ==
  ASSUME NEW s \in Seq(ReasonCodes), NEW t \in Seq(ReasonCodes)
  PROVE  s \o t = <<>> <=> s = <<>> /\ t = <<>>
  BY ConcatEqualIffEmpty

\* A reason is given when its condition holds.
LEMMA ReasonFor ==
  ASSUME NEW P, NEW code \in ReasonCodes
  PROVE  /\ ReasonIf(P, code) \in Seq(ReasonCodes)
         /\ ReasonIf(P, code) = <<>> <=> ~P
<1>1. CASE P
  <2>1. ReasonIf(P, code) = <<code>>
    BY <1>1 DEF ReasonIf
  <2>2. QED
    BY <1>1, <2>1, NoReason, OneReason
<1>2. CASE ~P
  <2>1. ReasonIf(P, code) = <<>>
    BY <1>2 DEF ReasonIf
  <2>2. QED
    BY <1>2, <2>1, OneReason
<1>3. QED
  BY <1>1, <1>2

\* When a label agrees with what the text looks like.
LEMMA MismatchIff ==
  ASSUME NEW c
  PROVE  labelMismatchReasons(c) = <<>> <=>
           (isSuspicious(classifySignature(c.text, c.status)) =>
              /\ classifySignature(c.text, c.status) # "degraded_result"
              /\ ~(c.status # NoStatus /\ isOkStatus(c.status))
              /\ ~(c.channel \in DATA_CHANNELS /\ c.tier <= 3))
<1> DEFINE sig    == classifySignature(c.text, c.status)
           claims == \/ c.status # NoStatus /\ isOkStatus(c.status)
                     \/ c.channel \in DATA_CHANNELS /\ c.tier <= 3
           label  == ReasonIf(claims, "PROVENANCE_LABEL_MISMATCH")
           result == ReasonIf(sig = "degraded_result", "RESULT_DEGRADED")
<1>1. labelMismatchReasons(c) = IF ~isSuspicious(sig) THEN <<>> ELSE label \o result
  BY DEF labelMismatchReasons
<1>2. "PROVENANCE_LABEL_MISMATCH" \in ReasonCodes /\ "RESULT_DEGRADED" \in ReasonCodes
  BY DEF ReasonCodes
<1>3. /\ label \in Seq(ReasonCodes) /\ (label = <<>> <=> ~claims)
      /\ result \in Seq(ReasonCodes) /\ (result = <<>> <=> sig # "degraded_result")
  <2> HIDE DEF claims, sig
  <2>1. label \in Seq(ReasonCodes) /\ (label = <<>> <=> ~claims)
    BY <1>2, ReasonFor
  <2>2. result \in Seq(ReasonCodes) /\ (result = <<>> <=> sig # "degraded_result")
    BY <1>2, ReasonFor
  <2>3. QED
    BY <2>1, <2>2
<1> HIDE DEF label, result
<1>4. label \o result = <<>> <=> label = <<>> /\ result = <<>>
  BY <1>3, EmptyParts
<1>5. CASE isSuspicious(sig)
  <2>1. labelMismatchReasons(c) = label \o result
    BY <1>1, <1>5
  <2>2. labelMismatchReasons(c) = <<>> <=> ~claims /\ sig # "degraded_result"
    BY <2>1, <1>3, <1>4
  <2>3. QED
    BY <2>2, <1>5
<1>6. CASE ~isSuspicious(sig)
  BY <1>1, <1>6
<1>7. QED
  BY <1>5, <1>6

\* A slot admits a chunk exactly if it is acceptable.
LEMMA AllowedIff ==
  ASSUME NEW c, NEW s
  PROVE  checkSlot(c, s).decision = "allow" <=> Acceptable(c, s)
<1> DEFINE notOk     == c.status # NoStatus /\ ~isOkStatus(c.status)
           blankR    == ReasonIf(c.text.blank, "PAYLOAD_EMPTY")
           truncR    == ReasonIf(c.text.truncated, "PAYLOAD_TRUNCATED")
           notOkR    == ReasonIf(notOk, "UPSTREAM_STATUS_NOT_OK")
           mismatchR == labelMismatchReasons(c)
           strange   == c.channel \notin s.allowedChannels
           low       == ~tierMeetsMinimum(c.tier, s.minTier)
           channelR  == ReasonIf(strange, "CHANNEL_NOT_PERMITTED")
           tierR     == ReasonIf(low, "TIER_BELOW_MINIMUM")
           payloadR  == ((blankR \o truncR) \o notOkR) \o mismatchR
           all       == (payloadR \o channelR) \o tierR
<1>1. checkSlot(c, s).decision = IF all = <<>> THEN "allow" ELSE "block"
  BY DEF checkSlot, payloadReasons
<1>2. {"PAYLOAD_EMPTY", "PAYLOAD_TRUNCATED", "UPSTREAM_STATUS_NOT_OK",
       "CHANNEL_NOT_PERMITTED", "TIER_BELOW_MINIMUM"} \subseteq ReasonCodes
  BY DEF ReasonCodes
<1>3. /\ blankR \in Seq(ReasonCodes) /\ (blankR = <<>> <=> ~c.text.blank)
      /\ truncR \in Seq(ReasonCodes) /\ (truncR = <<>> <=> ~c.text.truncated)
  BY <1>2, ReasonFor
<1> HIDE DEF notOk, strange, low
<1>4. /\ notOkR \in Seq(ReasonCodes) /\ (notOkR = <<>> <=> ~notOk)
      /\ channelR \in Seq(ReasonCodes) /\ (channelR = <<>> <=> ~strange)
      /\ tierR \in Seq(ReasonCodes) /\ (tierR = <<>> <=> ~low)
  BY <1>2, ReasonFor
<1>5. mismatchR \in Seq(ReasonCodes)
  BY MismatchReasons
<1> HIDE DEF blankR, truncR, notOkR, mismatchR, channelR, tierR
<1>6. /\ blankR \o truncR \in Seq(ReasonCodes)
      /\ (blankR \o truncR) \o notOkR \in Seq(ReasonCodes)
      /\ payloadR \in Seq(ReasonCodes)
      /\ payloadR \o channelR \in Seq(ReasonCodes)
  <2>1. blankR \o truncR \in Seq(ReasonCodes)
    BY <1>3, TwoParts
  <2>2. (blankR \o truncR) \o notOkR \in Seq(ReasonCodes)
    BY <1>4, <2>1, TwoParts
  <2>3. payloadR \in Seq(ReasonCodes)
    BY <1>5, <2>2, TwoParts
  <2>4. payloadR \o channelR \in Seq(ReasonCodes)
    BY <1>4, <2>3, TwoParts
  <2>5. QED
    BY <2>1, <2>2, <2>3, <2>4
<1>7. payloadR = <<>> <=>
        blankR = <<>> /\ truncR = <<>> /\ notOkR = <<>> /\ mismatchR = <<>>
  <2>1. blankR \o truncR = <<>> <=> blankR = <<>> /\ truncR = <<>>
    BY <1>3, EmptyParts
  <2>2. (blankR \o truncR) \o notOkR = <<>> <=> blankR \o truncR = <<>> /\ notOkR = <<>>
    BY <1>4, <1>6, EmptyParts
  <2>3. payloadR = <<>> <=> (blankR \o truncR) \o notOkR = <<>> /\ mismatchR = <<>>
    BY <1>5, <1>6, EmptyParts
  <2>4. QED
    BY <2>1, <2>2, <2>3
<1> HIDE DEF payloadR
<1>8. all = <<>> <=> payloadR = <<>> /\ channelR = <<>> /\ tierR = <<>>
  <2>1. payloadR \o channelR = <<>> <=> payloadR = <<>> /\ channelR = <<>>
    BY <1>4, <1>6, EmptyParts
  <2>2. all = <<>> <=> payloadR \o channelR = <<>> /\ tierR = <<>>
    BY <1>4, <1>6, EmptyParts
  <2>3. QED
    BY <2>1, <2>2
<1> HIDE DEF all
<1>9. checkSlot(c, s).decision = "allow" <=> all = <<>>
  BY <1>1
<1>10. all = <<>> <=> /\ ~c.text.blank /\ ~c.text.truncated /\ ~notOk
                      /\ mismatchR = <<>> /\ ~strange /\ ~low
  BY <1>3, <1>4, <1>7, <1>8
<1>11. QED
  BY <1>9, <1>10, MismatchIff, Zenon DEF Acceptable, notOk, strange, low, mismatchR

\* A payload that reads as a failure is labelled by that alone, and as no data
\* channel.  Any other label keeps the channel declared.
LEMMA FailureLabel ==
  ASSUME NEW g \in Signatures, isSuspicious(g), NEW h, NEW k, NEW s
  PROVE  /\ inferProvenance(g, h, s) = inferProvenance(g, k, s)
         /\ inferProvenance(g, h, s).channel \notin DATA_CHANNELS
  BY DEF inferProvenance, isSuspicious, SUSPICIOUS_SIGNATURES, Signatures, DATA_CHANNELS

\* What is declared of an unsuspicious text stands, but for its ceiling.
LEMMA DeclaredLabel ==
  ASSUME NEW g \in Signatures, ~isSuspicious(g), NEW h, NEW s,
         h.channel # NoChannel, h.tier # NoTier
  PROVE  inferProvenance(g, h, s) =
           [channel |-> h.channel, tier |-> worseTier(h.tier, ceilingFor(g, h.channel, s))]
  BY DEF inferProvenance, isSuspicious, SUSPICIOUS_SIGNATURES, Signatures

\* Without a channel a tier declared says nothing.
LEMMA ChannellessLabel ==
  ASSUME NEW g \in Signatures, ~isSuspicious(g), NEW h, NEW s, h.channel = NoChannel
  PROVE  inferProvenance(g, h, s) = [channel |-> "UNLABELED", tier |-> 5]
  BY DEF inferProvenance, isSuspicious, SUSPICIOUS_SIGNATURES, Signatures

\* A better tier stays better under the same limit.
LEMMA WorseTierMonotone ==
  ASSUME NEW a \in Tiers, NEW b \in Tiers, NEW m \in Tiers, a <= b
  PROVE  worseTier(a, m) <= worseTier(b, m)
  BY DEF worseTier, Tiers

\* The status found once is found again.
LEMMA StatusStays ==
  ASSUME NEW t \in Payloads, NEW s
  PROVE  detectStatus(t, detectStatus(t, s)) = detectStatus(t, s)
  BY DEF detectStatus

\* One chunk is at least as good as another: the same but for a better tier,
\* and no data where the payload reads as a failure.
AsGood(d, c) ==
  /\ d.text = c.text /\ d.status = c.status /\ d.channel = c.channel
  /\ d.tier <= c.tier
  /\ isSuspicious(classifySignature(d.text, d.status)) => d.channel \notin DATA_CHANNELS

\* A chunk as good as one that is allowed is allowed.
LEMMA AsGoodIsAllowed ==
  ASSUME NEW c, NEW d, NEW s \in Slots, c.tier \in Tiers, d.tier \in Tiers,
         AsGood(d, c), checkSlot(c, s).decision = "allow"
  PROVE  checkSlot(d, s).decision = "allow"
<1>1. Acceptable(c, s)
  BY AllowedIff
<1>2. s.minTier \in Tiers
  BY DEF Slots
<1>3. tierMeetsMinimum(d.tier, s.minTier)
  BY <1>1, <1>2 DEF Acceptable, AsGood, tierMeetsMinimum, Tiers
<1>4. Acceptable(d, s)
  BY <1>1, <1>3, Zenon DEF Acceptable, AsGood
<1>5. QED
  BY <1>4, AllowedIff

\* A suspicious text is never labelled as data.
LEMMA SelfAsGood ==
  ASSUME NEW t \in Payloads, NEW h
  PROVE  LET d == classifyChunk(t, h)
         IN  isSuspicious(classifySignature(d.text, d.status)) => d.channel \notin DATA_CHANNELS
<1> DEFINE status == detectStatus(t, h.status)
           g == classifySignature(t, status)
<1>1. g \in Signatures
  BY SignatureType
<1>2. /\ classifyChunk(t, h).text = t /\ classifyChunk(t, h).status = status
      /\ classifyChunk(t, h).channel = inferProvenance(g, h, status).channel
  BY DEF classifyChunk
<1> HIDE DEF status
<1>3. QED
  BY <1>1, <1>2, FailureLabel

\* Declared better, a payload comes out as least as good.
LEMMA BetterDeclared ==
  ASSUME NEW t \in Payloads, NEW h \in Hints, h.tier # NoTier, NEW better \in 1 .. h.tier
  PROVE  LET d == classifyChunk(t, [h EXCEPT !.tier = better])
         IN  AsGood(d, classifyChunk(t, h)) /\ d.tier \in Tiers
<1> DEFINE k == [h EXCEPT !.tier = better]
           status == detectStatus(t, h.status)
           g == classifySignature(t, status)
           c == classifyChunk(t, h)
           d == classifyChunk(t, k)
<1>1. /\ k.channel = h.channel /\ k.tier = better /\ k.status = h.status
      /\ better \in Tiers /\ h.tier \in Tiers /\ better <= h.tier
      /\ h.channel \in Channels \cup {NoChannel}
  BY DEF Hints, Tiers, NoTier
<1>2. /\ d.text = t /\ c.text = t /\ d.status = status /\ c.status = status
      /\ d.channel = inferProvenance(g, k, status).channel
      /\ c.channel = inferProvenance(g, h, status).channel
      /\ d.tier = inferProvenance(g, k, status).tier
      /\ c.tier = inferProvenance(g, h, status).tier
  BY <1>1 DEF classifyChunk
<1>3. g \in Signatures
  BY SignatureType
<1>4. Declaration(h) /\ Declaration(k)
  BY <1>1, HintsDeclare DEF Declaration
<1>5. c.tier \in Tiers /\ d.tier \in Tiers
  BY <1>4, ClassifiedChunk
<1>6. isSuspicious(classifySignature(d.text, d.status)) => d.channel \notin DATA_CHANNELS
  BY SelfAsGood
<1> HIDE DEF k, status, g, c, d
<1>7. d.channel = c.channel /\ d.tier <= c.tier
  <2>1. CASE isSuspicious(g)
    <3>1. inferProvenance(g, k, status) = inferProvenance(g, h, status)
      BY <1>3, <2>1, FailureLabel
    <3>2. QED
      BY <3>1, <1>2, <1>5 DEF Tiers
  <2>2. CASE ~isSuspicious(g) /\ h.channel = NoChannel
    <3>1. inferProvenance(g, k, status) = inferProvenance(g, h, status)
      BY <1>1, <1>3, <2>2, ChannellessLabel
    <3>2. QED
      BY <3>1, <1>2, <1>5 DEF Tiers
  <2>3. CASE ~isSuspicious(g) /\ h.channel # NoChannel
    <3> DEFINE ceiling == ceilingFor(g, h.channel, status)
    <3>1. ceiling \in Tiers
      BY <1>1, <2>3, CeilingLowers
    <3>2. k.tier # NoTier
      BY <1>1 DEF Tiers, NoTier
    <3>3. /\ inferProvenance(g, h, status) = [channel |-> h.channel, tier |-> worseTier(h.tier, ceiling)]
          /\ inferProvenance(g, k, status) = [channel |-> h.channel, tier |-> worseTier(better, ceiling)]
      BY <1>1, <1>3, <2>3, <3>2, DeclaredLabel
    <3> HIDE DEF ceiling
    <3>4. worseTier(better, ceiling) <= worseTier(h.tier, ceiling)
      BY <1>1, <3>1, WorseTierMonotone
    <3>5. QED
      BY <1>2, <3>3, <3>4
  <2>4. QED
    BY <2>1, <2>2, <2>3
<1>8. AsGood(d, c)
  BY <1>2, <1>6, <1>7 DEF AsGood
<1>9. QED
  BY <1>5, <1>8 DEF c, d, k

\* Classified again under its own label, a chunk is no better than the first
\* classification made it.
LEMMA NoBetterAgain ==
  ASSUME NEW t \in Payloads, NEW h \in Hints, NEW c, c.text = t,
         c.channel \in Channels, c.tier \in Tiers, AsGood(classifyChunk(t, h), c)
  PROVE  AsGood(classifyChunk(t, h),
                classifyChunk(c.text, [channel |-> c.channel, tier |-> c.tier,
                                       status |-> c.status, source |-> c.source]))
<1> DEFINE k == [channel |-> c.channel, tier |-> c.tier, status |-> c.status, source |-> c.source]
           status == detectStatus(t, h.status)
           g == classifySignature(t, status)
           d == classifyChunk(t, h)
           e == classifyChunk(t, k)
<1>1. /\ d.text = t /\ d.status = status
      /\ d.channel = inferProvenance(g, h, status).channel
      /\ d.tier = inferProvenance(g, h, status).tier
  BY DEF classifyChunk
<1>2. /\ k.channel = c.channel /\ k.tier = c.tier /\ k.status = status
      /\ d.channel = c.channel /\ d.tier <= c.tier
      /\ isSuspicious(g) => d.channel \notin DATA_CHANNELS
  BY <1>1 DEF AsGood
<1>3. detectStatus(t, k.status) = status
  BY <1>2, StatusStays
<1>4. /\ e.text = t /\ e.status = status
      /\ e.channel = inferProvenance(g, k, status).channel
      /\ e.tier = inferProvenance(g, k, status).tier
  BY <1>3 DEF classifyChunk
<1>5. g \in Signatures
  BY SignatureType
<1>6. d.tier \in Tiers
  BY HintsDeclare, ClassifiedChunk
<1>7. isSuspicious(classifySignature(d.text, d.status)) => d.channel \notin DATA_CHANNELS
  BY SelfAsGood
<1> HIDE DEF status, g, d, e, k
<1>8. d.channel = e.channel /\ d.tier <= e.tier
  <2>1. CASE isSuspicious(g)
    <3>1. inferProvenance(g, k, status) = inferProvenance(g, h, status)
      BY <1>5, <2>1, FailureLabel
    <3>2. QED
      BY <1>1, <1>4, <1>6, <3>1 DEF Tiers
  <2>2. CASE ~isSuspicious(g)
    <3> DEFINE ceiling == ceilingFor(g, k.channel, status)
    <3>1. k.channel # NoChannel /\ k.tier # NoTier
      BY <1>2 DEF Channels, NoChannel, Tiers, NoTier
    <3>2. inferProvenance(g, k, status) = [channel |-> k.channel, tier |-> worseTier(k.tier, ceiling)]
      BY <1>5, <2>2, <3>1, DeclaredLabel
    <3>3. ceiling \in Tiers
      BY <1>2, CeilingLowers
    <3> HIDE DEF ceiling
    <3>4. worseTier(k.tier, ceiling) >= k.tier /\ worseTier(k.tier, ceiling) \in Tiers
      BY <1>2, <3>3, WorseTier
    <3>5. e.channel = k.channel /\ e.tier = worseTier(k.tier, ceiling)
      BY <1>4, <3>2
    <3>6. QED
      BY <1>2, <1>6, <3>4, <3>5 DEF Tiers
  <2>3. QED
    BY <2>1, <2>2
<1>9. AsGood(d, e)
  BY <1>1, <1>4, <1>8, <1>7 DEF AsGood
<1>10. QED
  BY <1>9 DEF d, e, k

\* A declaration is read for its channel, its tier and its status alone.
LEMMA SameDeclaration ==
  ASSUME NEW t \in Payloads, NEW h \in Hints, NEW k,
         k.channel = h.channel, k.tier = h.tier, k.status = h.status
  PROVE  AsGood(classifyChunk(t, h), classifyChunk(t, k))
<1> DEFINE d == classifyChunk(t, h)
           e == classifyChunk(t, k)
<1>1. /\ d.text = e.text /\ d.status = e.status /\ d.channel = e.channel /\ d.tier = e.tier
  BY DEF classifyChunk, inferProvenance
<1>2. d.tier \in Tiers
  BY HintsDeclare, ClassifiedChunk
<1>3. isSuspicious(classifySignature(d.text, d.status)) => d.channel \notin DATA_CHANNELS
  BY SelfAsGood
<1> HIDE DEF d, e
<1>4. AsGood(d, e)
  BY <1>1, <1>2, <1>3 DEF AsGood, Tiers
<1>5. QED
  BY <1>4 DEF d, e

(* Where a label came from: the guard's is never better than its first      *)
(* classification of what was declared, a caller's is what was declared.    *)
Traced ==
  /\ Labelled => labeller # "nobody"
  /\ Labelled /\ labeller = "guard" => AsGood(classifyChunk(text, hints), chunk)
  /\ Labelled /\ labeller = "caller" =>
       /\ chunk.channel = hints.channel /\ chunk.tier = hints.tier
       /\ chunk.status = hints.status

\* Every step keeps what is known of earlier labels.
LEMMA TracedStep == LabelInv /\ Traced /\ [Next]_vars => Traced'
<1> SUFFICES ASSUME LabelInv, Traced, [Next]_vars
             PROVE  Traced'
  OBVIOUS
<1>1. text \in Payloads /\ hints \in Hints
  BY TextsAssumption DEF LabelInv, TypeOK
<1>2. CASE Classify
  <2>1. AsGood(classifyChunk(text, hints), classifyChunk(text, hints))
    BY <1>1, SameDeclaration
  <2>2. /\ chunk' = classifyChunk(text, hints) /\ labeller' = "guard"
        /\ text' = text /\ hints' = hints
    BY <1>2 DEF Classify
  <2>3. QED
    BY <2>1, <2>2 DEF Traced
<1>3. CASE LabelByHand
  BY <1>3 DEF LabelByHand, Traced
<1>4. CASE Reclassify
  <2> DEFINE k == [channel |-> chunk.channel, tier |-> chunk.tier,
                   status |-> chunk.status, source |-> chunk.source]
  <2>1. /\ chunk' = classifyChunk(chunk.text, k) /\ labeller' = "guard"
        /\ text' = text /\ hints' = hints
        /\ pc = "labelled"
    BY <1>4 DEF Reclassify
  <2>2. /\ chunk.text = text /\ chunk.channel \in Channels /\ chunk.tier \in Tiers
    BY <2>1 DEF LabelInv, TypeOK, Labelled
  <2>3. labeller \in {"guard", "caller", "nobody"}
    BY DEF LabelInv, TypeOK
  <2>4. CASE labeller = "guard"
    <3>1. AsGood(classifyChunk(text, hints), chunk)
      BY <2>1, <2>4 DEF Traced, Labelled
    <3>2. AsGood(classifyChunk(text, hints), classifyChunk(chunk.text, k))
      BY <1>1, <2>2, <3>1, NoBetterAgain
    <3>3. QED
      BY <2>1, <3>2 DEF Traced
  <2>5. CASE labeller = "caller"
    <3>1. k.channel = hints.channel /\ k.tier = hints.tier /\ k.status = hints.status
      BY <2>1, <2>5 DEF Traced, Labelled
    <3> HIDE DEF k
    <3>2. AsGood(classifyChunk(text, hints), classifyChunk(text, k))
      BY <1>1, <3>1, SameDeclaration
    <3>3. QED
      BY <2>1, <2>2, <3>2 DEF Traced
  <2>6. labeller # "nobody"
    BY <2>1 DEF Traced, Labelled
  <2>7. QED
    BY <2>3, <2>4, <2>5, <2>6
<1>5. ASSUME NEW s \in SlotChoices, CheckSlot(s)
      PROVE  Traced'
  BY <1>5 DEF CheckSlot, Traced, Labelled
<1>6. CASE UNCHANGED vars
  BY <1>6 DEF vars, Traced, Labelled
<1>7. QED
  BY <1>2, <1>3, <1>4, <1>5, <1>6 DEF Next

(* If a payload declared at some tier is admitted, it is admitted declared  *)
(* at any better one: trust never works against a source.                   *)
THEOREM BetterTierIsNeverWorse == Spec => []BetterTierNeverHurts
<1>1. Init => Traced
  BY DEF Init, Traced, Labelled
<1>2. LabelInv /\ Traced => BetterTierNeverHurts
  <2> SUFFICES ASSUME LabelInv, Traced, pc = "checked", labeller = "guard",
                      verdict.decision = "allow", hints.tier # NoTier,
                      NEW better \in 1 .. hints.tier
               PROVE  checkSlot(classifyChunk(text, [hints EXCEPT !.tier = better]),
                                slot).decision = "allow"
    BY DEF BetterTierNeverHurts
  <2> DEFINE c == classifyChunk(text, hints)
             d == classifyChunk(text, [hints EXCEPT !.tier = better])
  <2>1. text \in Payloads /\ hints \in Hints /\ slot \in Slots /\ chunk.tier \in Tiers
    BY TextsAssumption, SlotsAssumption DEF LabelInv, TypeOK, Labelled
  <2>2. checkSlot(chunk, slot).decision = "allow" /\ AsGood(c, chunk)
    BY DEF LabelInv, VerdictCurrent, Traced, Labelled
  <2>3. c.tier \in Tiers
    BY <2>1, HintsDeclare, ClassifiedChunk
  <2>4. AsGood(d, c) /\ d.tier \in Tiers
    BY <2>1, BetterDeclared
  <2> HIDE DEF c, d
  <2>5. checkSlot(c, slot).decision = "allow"
    BY <2>1, <2>2, <2>3, AsGoodIsAllowed
  <2>6. checkSlot(d, slot).decision = "allow"
    BY <2>1, <2>3, <2>4, <2>5, AsGoodIsAllowed
  <2>7. QED
    BY <2>6 DEF d
<1>3. QED
  BY <1>1, <1>2, LabelInit, LabelStep, TracedStep, PTL DEF Spec
===============================================================================
