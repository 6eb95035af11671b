----------------------------- MODULE EvidenceAudit -----------------------------
(***************************************************************************)
(* The audit of one output while the evidence it is held against changes.  *)
(* auditOutput is a pure function of the claims and the chunks; what is    *)
(* hard to see from a call is how its answer moves when a chunk is added,  *)
(* or when the same chunks arrive in another order.                        *)
(***************************************************************************)
EXTENDS Grounding, SequencesExt

CONSTANTS
  Claims,       \* the claims of the output, in order
  Chunks,       \* the chunks that may be retrieved
  MaxEvidence,  \* bound on the chunks in context
  Unverifiable  \* the unverifiablePolicy of the audit

ASSUME MaxEvidenceAssumption == MaxEvidence \in Nat
ASSUME UnverifiableAssumption == Unverifiable \in UnverifiablePolicies

VARIABLES
  evidence,  \* the chunks in context, in order
  audit      \* the audit of the output against them

vars == <<evidence, audit>>

Audited(chunks) == auditOutput(Claims, chunks, Unverifiable)

Init ==
  /\ evidence = <<>>
  /\ audit = Audited(<<>>)

RetrievedIds(chunks) == {chunks[j].id : j \in DOMAIN chunks}

\* One more chunk, anywhere in the list, and the output is audited again.  Its
\* id is its own: no text of one source comes under two labels.
Retrieve(chunk, position) ==
  /\ Len(evidence) < MaxEvidence
  /\ \A j \in DOMAIN evidence : evidence[j].id # chunk.id
  /\ evidence' = InsertAt(evidence, position, chunk)
  /\ audit' = Audited(evidence')

Exchange(chunks, position) ==
  [chunks EXCEPT ![position] = chunks[position + 1], ![position + 1] = chunks[position]]

\* The same chunks in another order.
Reorder(position) ==
  /\ evidence' = Exchange(evidence, position)
  /\ audit' = Audited(evidence')

RetrieveSome == \E chunk \in Chunks : \E position \in 1 .. Len(evidence) + 1 :
                  Retrieve(chunk, position)

ReorderSome == \E position \in 1 .. Len(evidence) - 1 : Reorder(position)

Next == RetrieveSome \/ ReorderSome

Spec == Init /\ [][Next]_vars

-------------------------------------------------------------------------------
Assessed(i) == audit.assessments[i]

\* Chunk j alone carries something of the claim.
Speaks(j, claim) ==
  LET text == evidence[j].text
  IN  \/ claim.id \in text.quotes \cup text.restates
      \/ SpecificsOf(claim) = <<>> /\ NearlyAll(claim, text.words)
      \/ \E i \in DOMAIN SpecificsOf(claim) : SpecificsOf(claim)[i] \in text.mentions

(* A claim is grounded only on evidence: some chunk it is said to rest on   *)
(* is of tier T1 to T3 and itself carries something of the claim.           *)
GroundedOnTrusted ==
  \A i \in DOMAIN Claims : Assessed(i).status = "grounded" =>
    \E j \in DOMAIN evidence : /\ evidence[j].id \in Assessed(i).supporting
                               /\ ~isUntrustedTier(evidence[j].tier)
                               /\ Speaks(j, Claims[i])

(* A specific that no chunk in context contains blocks the claim that makes *)
(* it, unless the whole claim is restated by a trusted chunk; such a claim  *)
(* is never left for a judge or a quarantine to decide.                     *)
InventedSpecificBlocks ==
  \A i \in DOMAIN Claims :
    /\ \E k \in DOMAIN SpecificsOf(Claims[i]) :
         \A j \in DOMAIN evidence : SpecificsOf(Claims[i])[k] \notin evidence[j].text.mentions
    /\ ~\E j \in DOMAIN evidence :
         /\ ~isUntrustedTier(evidence[j].tier)
         /\ Claims[i].id \in evidence[j].text.quotes \cup evidence[j].text.restates
    => Assessed(i).status = "ungrounded" /\ audit.verdict.decision = "block"

(* Retrieving one more chunk never takes the ground from a claim.           *)
MoreEvidenceNeverUngrounds ==
  [][\A i \in DOMAIN Claims :
       Assessed(i).status = "grounded" => Assessed(i)'.status = "grounded"]_vars

(* The order in which the chunks were retrieved changes neither a status    *)
(* nor the chunks a claim is said to rest on.                               *)
OrderIrrelevant ==
  [][RetrievedIds(evidence') = RetrievedIds(evidence)
       => \A i \in DOMAIN Claims : /\ Assessed(i)'.status = Assessed(i).status
                                   /\ Assessed(i)'.supporting = Assessed(i).supporting]_vars

(* "Later stages still run first, in case a trusted chunk supports the same *)
(* claim by a weaker method; only if none does is the untrusted match       *)
(* reported": CLAIM_SUPPORT_LOW_TIER is not given to a claim all of whose   *)
(* specifics appear in context and one of them in a trusted chunk.          *)
LowTierOnlyIfNoneTrusted ==
  \A i \in DOMAIN Claims : Assessed(i).reason = "CLAIM_SUPPORT_LOW_TIER" =>
    ~ /\ Sourced(Claims[i], evidence) = DOMAIN SpecificsOf(Claims[i])
      /\ \E j \in DOMAIN evidence : ~isUntrustedTier(evidence[j].tier)
           /\ \E k \in DOMAIN SpecificsOf(Claims[i]) :
                SpecificsOf(Claims[i])[k] \in evidence[j].text.mentions
===============================================================================
