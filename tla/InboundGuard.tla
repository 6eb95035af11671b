----------------------------- MODULE InboundGuard -----------------------------
(***************************************************************************)
(* The inbound gate (packages/inbound): what a raw payload is classified   *)
(* as, and whether a labelled chunk may enter a context slot.              *)
(*                                                                         *)
(* A payload is abstracted to what the detectors see in it:                *)
(*   blank                     nothing but whitespace                      *)
(*   statusLine, bareStatus,   the error-response signals, each absent     *)
(*   envelope, htmlError       (NoSignal) or the status it carries; a JSON *)
(*                             error envelope may carry none (NoStatus)    *)
(*   headers                   response header lines at the top            *)
(*   density                   the marker density term, in tenths, which   *)
(*                             the code caps at 3                          *)
(*   truncated, degraded, stack, shell   the other detectors               *)
(* A chunk is [id, text, channel, tier, status]; the provenance fields no  *)
(* decision reads (retrievedAt, parentSourceId) are left out.              *)
(***************************************************************************)
EXTENDS Provenance

NoSignal == -1
MaxDensity == 3

\* Statuses the patterns for a status line or an HTML title can match.
ErrorStatuses == 400 .. 599

\* The statuses a JSON body can carry: any, or none at all.
EnvelopeStatuses == Statuses \cup {NoStatus}

\* What the detectors can see in a payload.
Payloads ==
  [blank : BOOLEAN, statusLine : ErrorStatuses \cup {NoSignal},
   bareStatus : ErrorStatuses \cup {NoSignal},
   envelope : EnvelopeStatuses \cup {NoSignal},
   htmlError : ErrorStatuses \cup {NoSignal},
   headers : BOOLEAN, density : 0 .. MaxDensity,
   truncated : BOOLEAN, degraded : BOOLEAN, stack : BOOLEAN, shell : BOOLEAN]

Found(signal) == signal # NoSignal

Weight(signal, tenths) == IF Found(signal) THEN tenths ELSE 0

\* analyzeErrorResponse(text).score, in tenths.
errorScore(text) ==
  Weight(text.statusLine, 10) + Weight(text.bareStatus, 6)
    + Weight(text.envelope, 8) + Weight(text.htmlError, 8)
    + (IF text.headers THEN 3 ELSE 0) + text.density

ERROR_RESPONSE_THRESHOLD == 6

isErrorResponse(text) == errorScore(text) >= ERROR_RESPONSE_THRESHOLD

\* analyzeErrorResponse(text).status: the first signal that carries one.
responseStatus(text) ==
  IF Found(text.statusLine) THEN text.statusLine
  ELSE IF Found(text.bareStatus) THEN text.bareStatus
  ELSE IF Found(text.envelope) /\ text.envelope # NoStatus THEN text.envelope
  ELSE IF Found(text.htmlError) THEN text.htmlError
  ELSE NoStatus

\* The hinted status wins over the one read from the payload.
detectStatus(text, hinted) ==
  IF hinted # NoStatus THEN hinted ELSE responseStatus(text)

Signatures == {"empty", "truncated_json", "http_error", "stack_trace",
               "shell_diagnostic", "degraded_result", "non_ok_status",
               "recognized_ok_status", "unrecognized"}

SUSPICIOUS_SIGNATURES == Signatures \ {"recognized_ok_status", "unrecognized"}

isSuspicious(signature) == signature \in SUSPICIOUS_SIGNATURES

\* The detectors in the order the code tries them: the first that fires names
\* the payload.
classifySignature(text, status) ==
  IF text.blank THEN "empty"
  ELSE IF status # NoStatus /\ ~isOkStatus(status) THEN "non_ok_status"
  ELSE IF isErrorResponse(text) THEN "http_error"
  ELSE IF text.truncated THEN "truncated_json"
  ELSE IF text.degraded THEN "degraded_result"
  ELSE IF text.stack THEN "stack_trace"
  ELSE IF text.shell THEN "shell_diagnostic"
  ELSE IF status # NoStatus THEN "recognized_ok_status"
  ELSE "unrecognized"

\* The tier an explicit ok status backs up, per channel.
tierForExplicitOkStatus(channel, status) ==
  IF status = NoStatus \/ ~isOkStatus(status) THEN 5
  ELSE IF channel = "TOOL_RESULT" THEN 2
  ELSE IF channel = "RETRIEVED_DOC" THEN 3
  ELSE IF channel = "CACHE" THEN 4
  ELSE 5

\* ceilingFor that caps only a label with an ok status.
ceilingFor_status_only(signature, channel, status) ==
  IF signature = "recognized_ok_status" THEN tierForExplicitOkStatus(channel, status) ELSE 1

\* The best tier a declaration of this channel can come out at.
ceilingFor(signature, channel, status) ==
  IF signature = "recognized_ok_status"
  THEN worseTier(TIER_CEILING[channel], tierForExplicitOkStatus(channel, status))
  ELSE TIER_CEILING[channel]

\* Content that contradicts the declaration decides the label; otherwise the
\* declaration stands, capped by what its channel and status can justify.
inferProvenance(signature, hints, status) ==
  IF signature \in {"http_error", "non_ok_status"}
  THEN [channel |-> "SYSTEM_ALERT", tier |-> 5]
  ELSE IF signature \in {"stack_trace", "shell_diagnostic", "degraded_result"}
  THEN [channel |-> "DIAGNOSTIC_LOG", tier |-> 5]
  ELSE IF signature \in {"empty", "truncated_json"}
  THEN [channel |-> "UNLABELED", tier |-> 5]
  ELSE IF hints.channel # NoChannel /\ hints.tier # NoTier
  THEN [channel |-> hints.channel,
        tier    |-> worseTier(hints.tier, ceilingFor(signature, hints.channel, status))]
  ELSE IF signature = "recognized_ok_status" /\ hints.channel # NoChannel
  THEN [channel |-> hints.channel,
        tier    |-> tierForExplicitOkStatus(hints.channel, status)]
  ELSE [channel |-> "UNLABELED", tier |-> 5]

\* The id is a hash of the source, the content hash and the text: of nothing
\* in the label.  The content hash is the default one, a hash of the text.
chunkId(text, hints) == <<hints.source, text>>

classifyChunk(text, hints) ==
  LET status   == detectStatus(text, hints.status)
      inferred == inferProvenance(classifySignature(text, status), hints, status)
  IN  [id      |-> chunkId(text, hints),
       text    |-> text,
       source  |-> hints.source,
       channel |-> inferred.channel,
       tier    |-> inferred.tier,
       status  |-> status]

ReasonIf(condition, code) == IF condition THEN <<code>> ELSE <<>>

\* labelMismatchReasons that looks only at the status claimed.
labelMismatchReasons_status_only(chunk) ==
  ReasonIf(/\ isSuspicious(classifySignature(chunk.text, chunk.status))
           /\ chunk.status # NoStatus /\ isOkStatus(chunk.status),
           "PROVENANCE_LABEL_MISMATCH")

\* The label disagreeing with the payload.  The payload is classified again,
\* so a chunk a caller assembled by hand is held to the same detectors.
labelMismatchReasons(chunk) ==
  LET signature     == classifySignature(chunk.text, chunk.status)
      claimsSuccess == chunk.status # NoStatus /\ isOkStatus(chunk.status)
      claimsData    == chunk.channel \in DATA_CHANNELS /\ chunk.tier <= 3
  IN  IF ~isSuspicious(signature) THEN <<>>
      ELSE ReasonIf(claimsSuccess \/ claimsData, "PROVENANCE_LABEL_MISMATCH")
             \o ReasonIf(signature = "degraded_result", "RESULT_DEGRADED")

payloadReasons(chunk) ==
  ReasonIf(chunk.text.blank, "PAYLOAD_EMPTY")
    \o ReasonIf(chunk.text.truncated, "PAYLOAD_TRUNCATED")
    \o ReasonIf(chunk.status # NoStatus /\ ~isOkStatus(chunk.status),
                "UPSTREAM_STATUS_NOT_OK")
    \o labelMismatchReasons(chunk)

checkSlot(chunk, slot) ==
  LET reasons == payloadReasons(chunk)
        \o ReasonIf(chunk.channel \notin slot.allowedChannels, "CHANNEL_NOT_PERMITTED")
        \o ReasonIf(~tierMeetsMinimum(chunk.tier, slot.minTier), "TIER_BELOW_MINIMUM")
  IN  [decision |-> IF reasons = <<>> THEN "allow" ELSE "block",
       reasons  |-> reasons]

\* The policy the guard and the CLI use when none is given.
DEFAULT_POLICY ==
  [signals        |-> [allowedChannels |-> DATA_CHANNELS, minTier |-> 3],
   evidence       |-> [allowedChannels |-> {"RETRIEVED_DOC", "TOOL_RESULT"},
                       minTier |-> 3],
   working_memory |-> [allowedChannels |-> DATA_CHANNELS, minTier |-> 3]]
===============================================================================
