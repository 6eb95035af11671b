------------------------------- MODULE MCLedger -------------------------------
(***************************************************************************)
(* Two runs of guards of two tenants, recorded in any order and again.     *)
(* Each label of a text comes from a source of its own, so that chunk ids  *)
(* tell labels apart.                                                      *)
(***************************************************************************)
EXTENDS GuardLedger

CONSTANTS r1, r2

Body == [blank |-> FALSE, statusLine |-> NoSignal, bareStatus |-> NoSignal,
         envelope |-> NoSignal, htmlError |-> NoSignal, headers |-> FALSE,
         density |-> 0, truncated |-> FALSE, degraded |-> FALSE,
         stack |-> FALSE, shell |-> FALSE,
         quotes |-> {}, restates |-> {}, mentions |-> {}, words |-> {"w1", "w2"}]

Report == [Body EXCEPT !.quotes = {"stated"}, !.restates = {"stated"}]

Candidate(text, channel, status, source) ==
  [id |-> NoId, text |-> text,
   hints |-> [channel |-> channel, tier |-> 2, status |-> status, source |-> source]]

\* A report a slot admits, a cached copy it refuses, and something else.
Fresh  == Candidate(Report, "TOOL_RESULT", 200, "api")
Cached == Candidate(Report, "CACHE", 200, "cache")
Other  == Candidate(Body, "TOOL_RESULT", NoStatus, "api")

MCCandidates == {Fresh, Cached, Other}

MCDistinctLists == {<<Cached, Fresh>>, <<Other, Cached>>}

Stated == [id |-> "stated", entities |-> <<>>, numbers |-> <<>>, words |-> <<"w3">>]
Open   == [id |-> "open", entities |-> <<>>, numbers |-> <<>>, words |-> <<"w1", "w4">>]

MCClaims == {Stated, Open}
MCOutputs == {<<Stated>>, <<Open, Stated>>}

\* A judge that refutes a claim by a chunk it was shown, or fails.
MCJudgeAnswers ==
  {[kind |-> "ungrounded", supporting |-> {chunkId(Fresh.text, Fresh.hints)}],
   [kind |-> "throws", supporting |-> {}]}

Guarding(mode, judge, tenant, version) ==
  [mode |-> mode, judge |-> judge, tenant |-> tenant,
   policy |-> [name |-> "default", version |-> version]]

\* Policies named apart, as a user may name them.
MCNamedGuards == {Guarding("monitor", TRUE, "acme", "watch"),
                  Guarding("enforce", FALSE, "acme", "hold"),
                  Guarding("enforce", TRUE, "globex", "hold")}
MCJudgingGuards == {Guarding("enforce", TRUE, "local", "1")}

MCSlot == DEFAULT_POLICY["signals"]

\* What the theorems ask of the inputs is so of these.
ASSUME WhatTheoremsAsk == IdsTellChunksApart /\ JudgeNamesAdmitted /\ PoliciesNamedApart
===============================================================================
