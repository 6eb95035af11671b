------------------------------ MODULE Provenance ------------------------------
(***************************************************************************)
(* The shared vocabulary of the guard (packages/schema): channels,         *)
(* credibility tiers, upstream statuses, reason codes and slots.           *)
(*                                                                         *)
(* A tier "T1" .. "T5" is its rank 1 .. 5, the number the code compares    *)
(* (TIER_RANK): a larger rank is a less trusted tier.  An absent optional  *)
(* field is a value outside the field's range.                             *)
(***************************************************************************)
EXTENDS Integers, Sequences

Channels == {"USER_MESSAGE", "RETRIEVED_DOC", "TOOL_RESULT", "SYSTEM_ALERT",
             "DIAGNOSTIC_LOG", "AGENT_OUTPUT", "CACHE", "UNLABELED"}

\* No channel was declared (hints.channel === undefined).
NoChannel == "undefined"

Tiers == 1 .. 5

\* No tier was declared (hints.tier === undefined).
NoTier == 0

\* An upstream status of the schema, 100 .. 599.
Statuses == 100 .. 599

\* upstreamStatus === undefined
NoStatus == 0

isOkStatus(status) == status >= 200 /\ status <= 299

\* Channels whose contents are meant to be reasoned from as data.
DATA_CHANNELS == {"USER_MESSAGE", "RETRIEVED_DOC", "TOOL_RESULT", "AGENT_OUTPUT"}

\* The best tier a channel can justify on its own.
TIER_CEILING ==
  [channel \in Channels |->
     IF channel = "USER_MESSAGE" THEN 1
     ELSE IF channel = "TOOL_RESULT" THEN 2
     ELSE IF channel = "RETRIEVED_DOC" THEN 3
     ELSE IF channel \in {"CACHE", "AGENT_OUTPUT"} THEN 4
     ELSE 5]

\* worseTier the wrong way round.
worseTier_swapped(left, right) == IF left <= right THEN left ELSE right

\* The more suspicious of two tiers.
worseTier(left, right) == IF left >= right THEN left ELSE right

\* tierMeetsMinimum with the ranks the wrong way round.
tierMeetsMinimum_swapped(tier, minTier) == tier >= minTier

tierMeetsMinimum(tier, minTier) == tier <= minTier

\* Tiers the outbound tier gate refuses to ground a claim on.
isUntrustedTier(tier) == tier \in {4, 5}

ReasonCodes == {"CHANNEL_NOT_PERMITTED", "TIER_BELOW_MINIMUM", "UPSTREAM_STATUS_NOT_OK",
                "PAYLOAD_EMPTY", "PAYLOAD_TRUNCATED", "CLAIM_UNGROUNDED",
                "CLAIM_SUPPORT_LOW_TIER", "CLAIM_UNVERIFIABLE",
                "PROVENANCE_LABEL_MISMATCH", "RESULT_DEGRADED"}

Decisions == {"allow", "quarantine", "block"}

\* A context slot: which channels it takes and the worst tier it takes.
Slots == [allowedChannels : SUBSET Channels, minTier : Tiers]

\* The items of a list at some positions, in order: what a filter keeps of it.
ItemsAt(items, positions) ==
  LET Upto[k \in 0 .. Len(items)] ==
        IF k = 0 THEN <<>>
        ELSE IF k \in positions THEN Append(Upto[k - 1], items[k])
        ELSE Upto[k - 1]
  IN  Upto[Len(items)]
===============================================================================
