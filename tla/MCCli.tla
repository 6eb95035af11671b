--------------------------------- MODULE MCCli ---------------------------------
(***************************************************************************)
(* Check inputs of up to two entries, with ids of their own or all one,    *)
(* under slots that admit and refuse each; a corpus of six scenarios with  *)
(* hits and misses of both gates; two processes over one ledger file.      *)
(***************************************************************************)
EXTENDS Cli

CONSTANTS c1, c2, p1, p2

Body == [blank |-> FALSE, statusLine |-> NoSignal, bareStatus |-> NoSignal,
         envelope |-> NoSignal, htmlError |-> NoSignal, headers |-> FALSE,
         density |-> 0, truncated |-> FALSE, degraded |-> FALSE,
         stack |-> FALSE, shell |-> FALSE,
         quotes |-> {}, restates |-> {}, mentions |-> {}, words |-> {"w1", "w2"}]

Report == [Body EXCEPT !.quotes = {"stated"}, !.restates = {"stated"}]

Entry(id, text, channel, status, source) ==
  [id |-> id, text |-> text,
   hints |-> [channel |-> channel, tier |-> 2, status |-> status, source |-> source]]

\* A report the slots admit, a cached copy they refuse, a user's statement that
\* only some admit, something else, and a failure that claims success.
Fresh(id)    == Entry(id, Report, "TOOL_RESULT", 200, "api")
Cached(id)   == Entry(id, Report, "CACHE", 200, "cache")
Question(id) == Entry(id, Report, "USER_MESSAGE", NoStatus, "user")
Other(id)    == Entry(id, Body, "TOOL_RESULT", NoStatus, "api")
Failing(id)  == Entry(id, [Report EXCEPT !.statusLine = 503], "TOOL_RESULT", 200, "api")
Textless     == [Other(NoId) EXCEPT !.text = NoText]

Named == <<"x">>

MCEntries == {Fresh(NoId), Cached(NoId), Question(NoId), Other(NoId), Failing(NoId),
              Fresh(Named), Question(Named), Other(Named)}

MCEntryLists == {<<>>} \cup {<<a>> : a \in MCEntries} \cup {<<a, b>> : a, b \in MCEntries}

Stated == [id |-> "stated", entities |-> <<>>, numbers |-> <<>>, words |-> <<"w3">>]
Open   == [id |-> "open", entities |-> <<>>, numbers |-> <<>>, words |-> <<"w1", "w4">>]

MCPolicy == [cached |-> [allowedChannels |-> {"CACHE"}, minTier |-> 4]]

Input(entries, output, slot, policy) ==
  [entries |-> entries, output |-> output, slot |-> slot, policy |-> policy]

MCInputs ==
  {Input(l, <<Stated>>, s, NoPolicy) : l \in MCEntryLists, s \in {NoSlot, "evidence"}}
    \cup {Input(<<e>>, <<Open, Stated>>, NoSlot, NoPolicy) : e \in MCEntries}

\* Some id names a chunk that is refused and one that is admitted.
Colliding(input) ==
  LET chunks == Classified(input.entries)
      Admits(i) == checkSlot(chunks[i], resolveSlot(input)).decision = "allow"
  IN  \E i, j \in DOMAIN chunks : chunks[i].id = chunks[j].id /\ Admits(i) /\ ~Admits(j)

Check(file, input, monitor, graph) ==
  [name |-> "check", file |-> file, input |-> input, monitor |-> monitor, graph |-> graph]

Plain    == Input(<<Fresh(NoId)>>, <<Stated>>, NoSlot, NoPolicy)
Polluted == Input(<<Cached(NoId), Fresh(NoId)>>, <<Stated>>, NoSlot, NoPolicy)

Readings == {[name |-> "validate"]} \cup
            {[name |-> "trace", target |-> RunIn(auditFromPipeline(checkOf(i, FALSE), DEFAULT_SLOT_NAME))] :
               i \in {Plain, Polluted}}

MCWideCommands ==
  {Check("payload", i, m, FALSE) : i \in {j \in MCInputs : ~Colliding(j)}, m \in BOOLEAN}
    \cup {Check("payload", i, FALSE, FALSE) :
            i \in {Input(<<Textless>>, <<Stated>>, NoSlot, NoPolicy),
                   Input(<<Fresh(NoId)>>, <<Stated>>, "nowhere", NoPolicy),
                   Input(<<Cached(NoId)>>, <<Stated>>, NoSlot, MCPolicy),
                   Input(<<Cached(NoId)>>, <<Stated>>, "cached", MCPolicy)}}
    \cup {Check(file, Plain, FALSE, TRUE) :
            file \in {"missing", "directory", "unreadable", "malformed", "unusable"}}
    \cup {Check("payload", i, m, TRUE) : i \in {Plain, Polluted}, m \in BOOLEAN}
    \cup {[name |-> "bench", monitor |-> m, control |-> k] : m \in BOOLEAN, k \in Controls}

MCFewCommands == {Check("payload", Polluted, TRUE, TRUE)} \cup Readings

MCCommands == [c \in Calls |-> IF c = c1 THEN MCWideCommands ELSE MCFewCommands]
MCHostOf == [c \in Calls |-> IF c = c1 THEN p1 ELSE p2]

MCCollideCommands ==
  [c \in Calls |-> {Check("payload", i, m, FALSE) : i \in {j \in MCInputs : Colliding(j)}, m \in BOOLEAN}]

Scenario(id, entries, output, expectation, difficulty, provenance, gate, shape) ==
  [id |-> id, entries |-> entries, output |-> output, expectation |-> expectation,
   difficulty |-> difficulty, provenance |-> provenance, expectedGate |-> gate, shape |-> shape]

MCScenarios ==
  <<Scenario("pollution", <<Failing(<<"a">>)>>, <<Stated>>,
             "should_block", "basic", "derived", "inbound", "prose"),
    Scenario("fabrication", <<Other(<<"a">>)>>, <<Stated>>,
             "should_block", "hard", "constructed", "outbound", "broken JSON"),
    Scenario("partly", <<Cached(<<"a">>), Other(<<"b">>)>>, <<Stated>>,
             "should_block", "mixed", "constructed", "either", "prose"),
    Scenario("missed", <<Fresh(<<"a">>)>>, <<Stated>>,
             "should_block", "hard", "derived", "outbound", "prose"),
    Scenario("clean", <<Fresh(<<"a">>)>>, <<Stated>>,
             "should_allow", "basic", "constructed", "either", "prose"),
    Scenario("quoted", <<Fresh(<<"a">>), Other(<<"b">>)>>, <<Open, Stated>>,
             "should_allow", "mixed", "derived", "either", "prose")>>

\* What the theorems ask holds of the checks and of the corpus.  The run of one
\* call is the one in which ids tell too little.
ASSUME WhatTheoremsAsk ==
  /\ Cardinality(Calls) = 1 \/ (InputsAreLists /\ IdsTellVerdicts /\ SharedIdsAreTrusted)
  /\ ScenariosAreTyped
===============================================================================
