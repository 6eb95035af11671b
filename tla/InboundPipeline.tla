---------------------------- MODULE InboundPipeline ----------------------------
(***************************************************************************)
(* One payload on its way into a context slot.  It is labelled, either by  *)
(* classifyChunk or by a caller that assembled the chunk by hand           *)
(* (checkSlot takes any Chunk); a labelled chunk may be fed back as a      *)
(* candidate and classified again with its own provenance as hints, as     *)
(* the CLI, the benchmark and Guard.run do; then it is checked against a   *)
(* slot.                                                                   *)
(***************************************************************************)
EXTENDS InboundGuard

CONSTANTS
  Texts,         \* payloads, each abstracted to what the detectors see
  HintStatuses,  \* the upstream statuses a caller may declare
  SlotChoices    \* the slots a chunk may be checked against

ASSUME TextsAssumption == Texts \subseteq Payloads

ASSUME HintsAssumption == HintStatuses \subseteq Statuses \cup {NoStatus}

ASSUME SlotsAssumption == SlotChoices \subseteq Slots

\* The provenance hints of a candidate (Partial<Provenance>).
Hints == [channel : Channels \cup {NoChannel}, tier : Tiers \cup {NoTier},
          status : HintStatuses, source : {"source"}]

VARIABLES
  pc,       \* "raw", then "labelled", then "checked"
  text,     \* the payload
  hints,    \* what its caller declared about it
  labeller, \* who labelled it: "nobody", "guard" or "caller"
  chunk,    \* the labelled chunk
  slot,     \* the slot it was checked against
  verdict   \* what checkSlot said

vars == <<pc, text, hints, labeller, chunk, slot, verdict>>

NoChunk == [channel |-> NoChannel]
NoSlot == [minTier |-> NoTier]
NoVerdict == [decision |-> "undecided", reasons |-> <<>>]

Init ==
  /\ pc = "raw"
  /\ text \in Texts
  /\ hints \in Hints
  /\ labeller = "nobody"
  /\ chunk = NoChunk
  /\ slot = NoSlot
  /\ verdict = NoVerdict

\* classifyChunk(raw, hints)
Classify ==
  /\ pc = "raw"
  /\ pc' = "labelled"
  /\ labeller' = "guard"
  /\ chunk' = classifyChunk(text, hints)
  /\ UNCHANGED <<text, hints, slot, verdict>>

\* A caller that builds the Chunk itself: its declaration is the label, taken
\* from a full Provenance, so channel and tier are present.
LabelByHand ==
  /\ pc = "raw"
  /\ hints.channel # NoChannel /\ hints.tier # NoTier
  /\ pc' = "labelled"
  /\ labeller' = "caller"
  /\ chunk' = [id |-> chunkId(text, hints), text |-> text, source |-> hints.source,
               channel |-> hints.channel, tier |-> hints.tier, status |-> hints.status]
  /\ UNCHANGED <<text, hints, slot, verdict>>

\* classifyChunk(chunk.text, chunk.provenance)
Reclassify ==
  /\ pc = "labelled"
  /\ chunk' = classifyChunk(chunk.text,
                [channel |-> chunk.channel, tier |-> chunk.tier,
                 status |-> chunk.status, source |-> chunk.source])
  /\ labeller' = "guard"
  /\ UNCHANGED <<pc, text, hints, slot, verdict>>

CheckSlot(s) ==
  /\ pc = "labelled"
  /\ pc' = "checked"
  /\ slot' = s
  /\ verdict' = checkSlot(chunk, s)
  /\ UNCHANGED <<text, hints, labeller, chunk>>

Next ==
  \/ Classify
  \/ LabelByHand
  \/ Reclassify
  \/ \E s \in SlotChoices : CheckSlot(s)

Spec == Init /\ [][Next]_vars

-------------------------------------------------------------------------------
Labelled == pc \in {"labelled", "checked"}

\* The signature the payload has under the status on its label.
signature == classifySignature(chunk.text, chunk.status)

\* A slot whose contents are reasoned from as data: only data channels, and no
\* tier worse than T3.  Every slot of the default policy is one.
DataSlot(s) == s.allowedChannels \subseteq DATA_CHANNELS /\ s.minTier <= 3

(* The variables have the shapes the code gives them.                       *)
TypeOK ==
  /\ pc \in {"raw", "labelled", "checked"}
  /\ text \in Texts
  /\ hints \in Hints
  /\ labeller \in {"nobody", "guard", "caller"}
  /\ Labelled =>
       /\ chunk.text = text
       /\ chunk.channel \in Channels /\ chunk.tier \in Tiers
       /\ chunk.status \in Statuses \cup {NoStatus}
  /\ pc = "checked" =>
       /\ slot \in SlotChoices
       /\ verdict.decision \in {"allow", "block"}
       /\ verdict.reasons \in Seq(ReasonCodes)

(* A label the guard gave is never better than the best its channel can     *)
(* justify, whatever was declared and however often it was classified       *)
(* ("ceilings only ever lower a declared tier").                            *)
CeilingHolds ==
  Labelled /\ labeller = "guard" => chunk.tier >= TIER_CEILING[chunk.channel]

(* Classifying lowers or keeps a declared tier; a path of labelling and     *)
(* relabelling never ends with more trust than the caller declared.         *)
DeclarationNeverRaised ==
  Labelled /\ hints.tier # NoTier => chunk.tier >= hints.tier

(* Whoever labelled it, a payload that reads as an error, a truncation, a   *)
(* trace, a diagnostic or a degraded result is refused by every data slot.  *)
SuspiciousNeverEvidence ==
  pc = "checked" /\ DataSlot(slot) /\ verdict.decision = "allow"
    => ~isSuspicious(signature)

(* Even where a slot takes T5 material from any channel, a payload that     *)
(* claims a 2xx status while reading as a failure is refused.               *)
SuccessClaimOnFailureRefused ==
  pc = "checked" /\ isOkStatus(chunk.status) /\ isSuspicious(signature)
    => verdict.decision = "block"

(* What the default policy admits from the guard's own labelling is data    *)
(* whose trust its own channel justifies: never a cache, an alert, a log,   *)
(* an unlabelled blob, nor an agent's output.                               *)
EvidenceTierJustified ==
  pc = "checked" /\ labeller = "guard" /\ DataSlot(slot) /\ verdict.decision = "allow"
    => /\ chunk.tier <= slot.minTier
       /\ chunk.channel \in {"USER_MESSAGE", "RETRIEVED_DOC", "TOOL_RESULT"}

(* A declaration cannot be improved into a refusal: if a payload declared   *)
(* at some tier is admitted, the same payload declared at a better tier is  *)
(* admitted too, so trust never works against a source.                     *)
BetterTierNeverHurts ==
  pc = "checked" /\ labeller = "guard" /\ verdict.decision = "allow" /\ hints.tier # NoTier
    => \A better \in 1 .. hints.tier :
         checkSlot(classifyChunk(text, [hints EXCEPT !.tier = better]), slot).decision = "allow"
===============================================================================
