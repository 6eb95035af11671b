------------------------------- MODULE MCGuard -------------------------------
(***************************************************************************)
(* Candidates a slot admits and refuses, in both modes, and outputs        *)
(* whose claims are grounded, invented, or left open, in every order the   *)
(* judge's loop can meet them.                                             *)
(***************************************************************************)
EXTENDS Guard, TLC

CONSTANTS r1, r2

Body == [blank |-> FALSE, statusLine |-> NoSignal, bareStatus |-> NoSignal,
         envelope |-> NoSignal, htmlError |-> NoSignal, headers |-> FALSE,
         density |-> 0, truncated |-> FALSE, degraded |-> FALSE,
         stack |-> FALSE, shell |-> FALSE,
         quotes |-> {}, restates |-> {}, mentions |-> {}, words |-> {"w1", "w2"}]

Hint(channel, tier, status) ==
  [channel |-> channel, tier |-> tier, status |-> status, source |-> channel]

Candidate(text, hints) == [id |-> NoId, text |-> text, hints |-> hints]

Report == [Body EXCEPT !.quotes = {"stated"}, !.restates = {"stated"}]

\* A report a slot admits, a stale copy of it that it does not, an error page
\* that says what the output says, and a tool result about something else.
Fresh   == Candidate(Report, Hint("TOOL_RESULT", 2, 200))
Stale   == Candidate(Report, Hint("CACHE", 2, 200))
Failure == Candidate([Report EXCEPT !.statusLine = 503], Hint("TOOL_RESULT", 2, NoStatus))
Other   == Candidate(Body, Hint("RETRIEVED_DOC", 3, NoStatus))

MCCandidates == {Fresh, Stale, Failure, Other}

MCCandidateLists == {<<Failure, Fresh, Stale>>, <<Stale, Other>>}

\* Stated in the report; naming something no text names; two that only share
\* vocabulary with the context, which the ladder leaves open.
Stated   == [id |-> "stated", entities |-> <<>>, numbers |-> <<>>, words |-> <<"w3">>]
Invented == [id |-> "invented", entities |-> <<"name">>, numbers |-> <<>>, words |-> <<>>]
Open1    == [id |-> "open1", entities |-> <<>>, numbers |-> <<>>, words |-> <<"w1", "w4">>]
Open2    == [id |-> "open2", entities |-> <<>>, numbers |-> <<>>, words |-> <<"w2", "w5">>]

MCClaims == {Stated, Invented, Open1, Open2}

MCOutputs == {<<>>, <<Stated>>, <<Open1, Stated, Open2>>, <<Invented>>}

MCJudgeAnswers == [kind : AnswerKinds, supporting : {{}}]

MCGuards == {[mode |-> "monitor", judge |-> TRUE],
             [mode |-> "enforce", judge |-> TRUE],
             [mode |-> "enforce", judge |-> FALSE]}

\* A policy of the user's that takes what "signals" does and cached material, at T4.
MCLenientSlot == [allowedChannels |-> DATA_CHANNELS \cup {"CACHE"}, minTier |-> 4]
===============================================================================
