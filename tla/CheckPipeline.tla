----------------------------- MODULE CheckPipeline -----------------------------
(***************************************************************************)
(* runPipeline and auditFromPipeline (packages/cli): both gates over the   *)
(* chunks and the output of one check input, and the audit its ledger is   *)
(* built from.  The command line composes the gates on its own, apart from *)
(* the middleware.                                                         *)
(*                                                                         *)
(* A check input is [entries, output, slot, policy]: an entry of its chunk *)
(* list is [id, text, hints], the output its claims in order, the slot a   *)
(* name or NoSlot, the policy a function from slot names or NoPolicy.      *)
(***************************************************************************)
EXTENDS Grounding, InboundGuard, Ledger

NoId == <<>>
NoText == [blank |-> "undefined"]
NoSlot == "undefined"
NoPolicy == <<>>

DEFAULT_SLOT_NAME == "signals"
DEFAULT_TENANT == "local"

slotNameOf(input) == IF input.slot = NoSlot THEN DEFAULT_SLOT_NAME ELSE input.slot
policyOf(input) == IF input.policy = NoPolicy THEN DEFAULT_POLICY ELSE input.policy

\* resolveSlot finds the slot and toChunk a text in every entry.
runnable(input) ==
  /\ slotNameOf(input) \in DOMAIN policyOf(input)
  /\ \A i \in DOMAIN input.entries : input.entries[i].text # NoText

resolveSlot(input) == policyOf(input)[slotNameOf(input)]

toChunk(entry) ==
  LET chunk == classifyChunk(entry.text, entry.hints)
  IN  IF entry.id = NoId THEN chunk ELSE [chunk EXCEPT !.id = entry.id]

Classified(entries) == [i \in DOMAIN entries |-> toChunk(entries[i])]

\* Chunks are found by id: of two with one id, the first is.
requiredChunk(chunks, id) == chunks[Earliest({i \in DOMAIN chunks : chunks[i].id = id})]

Allowed(verdicts) == {i \in DOMAIN verdicts : verdicts[i].decision = "allow"}
BlockedAt(verdicts) == {i \in DOMAIN verdicts : verdicts[i].decision = "block"}

\* deliveredChunks that are all the chunks, blocked or not.
deliveredChunks_all(chunks, verdicts) == chunks

deliveredChunks(chunks, verdicts) ==
  ItemsAt([k \in DOMAIN chunks |-> requiredChunk(chunks, chunks[k].id)], Allowed(verdicts))

NoReasonCode == "null"

FirstReasonOf(audit) ==
  LET at == {r[1] : r \in audit.verdict.reasons}
  IN  IF at = {} THEN NoReasonCode ELSE audit.assessments[Earliest(at)].reason

\* outcomeOf that looks at the inbound gate alone.
outcomeOf_inbound(verdicts, audit) == BlockedAt(verdicts) # {}

\* blocked: any chunk refused, or the output refused on what was delivered.
outcomeOf(verdicts, audit) == BlockedAt(verdicts) # {} \/ audit.verdict.decision = "block"

\* What both gates make of chunks, given their verdicts, and of an output.
\* The stage named is the first that blocked.
Gated(chunks, verdicts, output, delivered, audit, monitor) ==
  LET blocked == outcomeOf(verdicts, audit)
      inbound == BlockedAt(verdicts)
  IN  [outcome    |-> IF blocked /\ ~monitor THEN "block" ELSE "allow",
       wouldBlock |-> blocked,
       monitor    |-> monitor,
       stage      |-> IF inbound # {} THEN "inbound"
                      ELSE IF audit.verdict.decision = "block" THEN "outbound" ELSE "none",
       reasonCode |-> IF inbound # {} THEN verdicts[Earliest(inbound)].reasons[1]
                      ELSE IF audit.verdict.decision = "block" THEN FirstReasonOf(audit)
                      ELSE NoReasonCode,
       chunks     |-> chunks,
       verdicts   |-> verdicts,
       delivered  |-> delivered,
       audit      |-> audit,
       output     |-> output]

runPipeline(entries, output, slot, monitor) ==
  LET chunks    == Classified(entries)
      verdicts  == [i \in DOMAIN chunks |-> checkSlot(chunks[i], slot)]
      delivered == deliveredChunks(chunks, verdicts)
  IN  Gated(chunks, verdicts, output, delivered, auditOutput(output, delivered, "block"), monitor)

\* The same with the gates bypassed: every chunk allowed, nothing extracted.
disabledPipeline(entries, output) ==
  LET chunks    == Classified(entries)
      verdicts  == [i \in DOMAIN chunks |-> [decision |-> "allow", reasons |-> <<>>]]
      delivered == deliveredChunks(chunks, verdicts)
  IN  Gated(chunks, verdicts, output, delivered, auditOutput(<<>>, delivered, "block"), FALSE)

-------------------------------------------------------------------------------
\* auditFromPipeline that tells chunks apart by their place and never says
\* that an output was kept back.
auditFromPipeline_delivered(result, slotName) ==
  LET chunks == result.chunks
      delivered == {result.delivered[k].id : k \in DOMAIN result.delivered}
  IN  [tenant    |-> DEFAULT_TENANT,
       runKey    |-> <<result.output, slotName,
                       [i \in DOMAIN chunks |-> <<chunks[i].id, contentDigest(chunks[i].text)>>]>>,
       policy    |-> [name |-> "default", version |-> "1",
                      mode |-> IF result.monitor THEN "monitor" ELSE "enforce",
                      contentHash |-> contentDigest(slotName)],
       output    |-> result.output,
       delivered |-> TRUE,
       chunks    |-> [i \in DOMAIN chunks |->
                        [chunk    |-> chunks[i],
                         admitted |-> chunks[i].id \in delivered,
                         decision |-> result.verdicts[i].decision]],
       claims    |-> [n \in DOMAIN result.output |->
                        [status     |-> result.audit.assessments[n].status,
                         method     |-> result.audit.assessments[n].decidedBy,
                         supporting |-> result.audit.assessments[n].supporting]]]

\* The audit the ledger is built from.  Whether a chunk was admitted, and with
\* which verdict, is looked up by its id; the last verdict of an id is kept.
\* The policy is named after nothing but the slot.
auditFromPipeline(result, slotName) ==
  LET chunks == result.chunks
      delivered == {result.delivered[k].id : k \in DOMAIN result.delivered}
      verdictOf(id) == result.verdicts[Latest({i \in DOMAIN chunks : chunks[i].id = id})]
  IN  [tenant    |-> DEFAULT_TENANT,
       runKey    |-> <<result.output, slotName,
                       [i \in DOMAIN chunks |-> <<chunks[i].id, contentDigest(chunks[i].text)>>]>>,
       policy    |-> [name |-> "default", version |-> "1",
                      mode |-> IF result.monitor THEN "monitor" ELSE "enforce",
                      contentHash |-> contentDigest(slotName)],
       output    |-> result.output,
       delivered |-> result.monitor \/ ~result.wouldBlock,
       chunks    |-> [i \in DOMAIN chunks |->
                        [chunk    |-> chunks[i],
                         admitted |-> chunks[i].id \in delivered,
                         decision |-> verdictOf(chunks[i].id).decision]],
       claims    |-> [n \in DOMAIN result.output |->
                        [status     |-> result.audit.assessments[n].status,
                         method     |-> result.audit.assessments[n].decidedBy,
                         supporting |-> result.audit.assessments[n].supporting]]]

checkOf(input, monitor) ==
  runPipeline(input.entries, input.output, resolveSlot(input), monitor)

graphOfCheck(input, monitor) ==
  buildGraph(auditFromPipeline(checkOf(input, monitor), slotNameOf(input)))

-------------------------------------------------------------------------------
\* The chunks of an input the slot admits, each itself.
AdmittedOf(input) ==
  LET chunks == Classified(input.entries)
  IN  ItemsAt(chunks, {i \in DOMAIN chunks :
                         checkSlot(chunks[i], resolveSlot(input)).decision = "allow"})

\* What an enforcing guard of the middleware decides of the same candidates
\* and output: refused chunks are withheld, and the output alone is decided on.
guardDelivers(input) ==
  auditOutput(input.output, AdmittedOf(input), "block").verdict.decision = "allow"
===============================================================================
