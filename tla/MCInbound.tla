------------------------------- MODULE MCInbound -------------------------------
(***************************************************************************)
(* Payloads in which at most two detectors fire at once, every channel and *)
(* tier declared or not, and statuses on both sides of every boundary.     *)
(***************************************************************************)
EXTENDS InboundPipeline, FiniteSets

Clean == [blank |-> FALSE, statusLine |-> NoSignal, bareStatus |-> NoSignal,
          envelope |-> NoSignal, htmlError |-> NoSignal, headers |-> FALSE,
          density |-> 0, truncated |-> FALSE, degraded |-> FALSE,
          stack |-> FALSE, shell |-> FALSE]

\* One thing a payload can show, as an update of a clean one.
Shows(t, feature) ==
  CASE feature = "statusLine" -> [t EXCEPT !.statusLine = 503]
    [] feature = "bareStatus" -> [t EXCEPT !.bareStatus = 404]
    [] feature = "envelope"   -> [t EXCEPT !.envelope = 500]
    [] feature = "errorKey"   -> [t EXCEPT !.envelope = NoStatus]
    [] feature = "okError"    -> [t EXCEPT !.envelope = 200]
    [] feature = "htmlError"  -> [t EXCEPT !.htmlError = 502]
    [] feature = "headers"    -> [t EXCEPT !.headers = TRUE]
    [] feature = "words"      -> [t EXCEPT !.density = 1]
    [] feature = "dense"      -> [t EXCEPT !.density = MaxDensity]
    [] feature = "truncated"  -> [t EXCEPT !.truncated = TRUE]
    [] feature = "degraded"   -> [t EXCEPT !.degraded = TRUE]
    [] feature = "stack"      -> [t EXCEPT !.stack = TRUE]
    [] feature = "shell"      -> [t EXCEPT !.shell = TRUE]

Features == {"statusLine", "bareStatus", "envelope", "errorKey", "okError", "htmlError",
             "headers", "words", "dense", "truncated", "degraded", "stack", "shell"}

\* A JSON envelope needs a body that parses, from its first character; a status
\* line needs the first characters too.
Exclusive == {"statusLine", "envelope", "errorKey", "okError", "truncated"}

MCTexts ==
  {Clean, [Clean EXCEPT !.blank = TRUE]}
    \cup {Shows(Clean, f) : f \in Features}
    \cup {Shows(Shows(Clean, p[1]), p[2]) :
            p \in {q \in Features \X Features : ~(q[1] \in Exclusive /\ q[2] \in Exclusive)}}

MCHintStatuses == {NoStatus, 199, 200, 299, 300}

MCSlotChoices ==
  {DEFAULT_POLICY[name] : name \in DOMAIN DEFAULT_POLICY}
    \cup {[allowedChannels |-> Channels, minTier |-> 5],
          [allowedChannels |-> DATA_CHANNELS \cup {"CACHE"}, minTier |-> 4],
          [allowedChannels |-> {"TOOL_RESULT"}, minTier |-> 2]}
===============================================================================
