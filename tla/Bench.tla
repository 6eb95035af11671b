--------------------------------- MODULE Bench ---------------------------------
(***************************************************************************)
(* The benchmark (packages/cli over packages/harness): every scenario goes *)
(* through both gates and once more through a control with the gates       *)
(* bypassed, whose evidence is verified before the scenario is counted.    *)
(*                                                                         *)
(* A scenario is [id, entries, output, expectation, difficulty,            *)
(* provenance, expectedGate, shape].  The shape is all the shape check     *)
(* sees of its output.  A hash of a text is the text.                      *)
(***************************************************************************)
EXTENDS CheckPipeline

ScenarioDifficulties == {"basic", "hard", "mixed"}
ScenarioProvenances == {"derived", "constructed"}
ExpectedGates == {"inbound", "outbound", "either"}
GuardStages == {"inbound", "outbound", "none"}

\* What a control tells of a scenario it delivered chunks of.
evidenceOf(scenario, pipeline, chunks) ==
  [scenarioId       |-> scenario.id,
   control          |-> IF pipeline.wouldBlock THEN "withheld" ELSE "delivered",
   chunkCount       |-> Len(chunks),
   chunkIds         |-> [k \in DOMAIN chunks |-> chunks[k].id],
   contentHashes    |-> [k \in DOMAIN chunks |-> chunks[k].text],
   provenanceLabels |-> [k \in DOMAIN chunks |-> <<chunks[k].channel, chunks[k].tier>>],
   outputHash       |-> pipeline.output]

\* The default control: the scenario through the bypassed pipeline.
defaultDisabledControl(scenario) ==
  LET pipeline == disabledPipeline(scenario.entries, scenario.output)
  IN  evidenceOf(scenario, pipeline, pipeline.delivered)

\* Some text that is in no scenario, and a label in no usable form.
Foreign == "foreign"
Unusable == <<NoChannel, NoTier>>

Backwards(s) == [k \in DOMAIN s |-> s[Len(s) + 1 - k]]

\* Controls that do not reproduce the scenario, as a replaced control may not.
\* The last three tell nothing a benchmark counts.
Controls == {"default", "constant", "partial", "unordered", "altering", "rewriting",
             "withholding", "unlabelled", "relabelling", "verbose"}

Distorted(control, sound) ==
  LET Short(s) == SubSeq(s, 1, Len(s) - 1)
  IN  IF control = "constant" THEN [sound EXCEPT !.scenarioId = "constant"]
      ELSE IF control = "partial"
      THEN [sound EXCEPT !.chunkCount = @ - 1, !.chunkIds = Short(@),
                         !.contentHashes = Short(@), !.provenanceLabels = Short(@)]
      ELSE IF control = "unordered"
      THEN [sound EXCEPT !.chunkIds = Backwards(@), !.contentHashes = Backwards(@)]
      ELSE IF control = "altering"
      THEN [sound EXCEPT !.contentHashes = [k \in DOMAIN @ |-> [blank |-> Foreign]]]
      ELSE IF control = "rewriting" THEN [sound EXCEPT !.outputHash = Append(@, Foreign)]
      ELSE IF control = "withholding" THEN [sound EXCEPT !.control = "withheld"]
      ELSE IF control = "unlabelled"
      THEN [sound EXCEPT !.provenanceLabels = [k \in DOMAIN @ |-> Unusable]]
      ELSE IF control = "relabelling"
      THEN [sound EXCEPT !.provenanceLabels = [k \in DOMAIN @ |-> <<"UNLABELED", 5>>]]
      ELSE IF control = "verbose"
      THEN [sound EXCEPT !.contentHashes = Append(@, [blank |-> Foreign])]
      ELSE sound

controlEvidence(control, scenario) == Distorted(control, defaultDisabledControl(scenario))

\* The evidence corresponds to the scenario: its chunks, all of them, in order
\* and unaltered, its output, and nothing withheld.  Labels have to be usable,
\* not right, and a hash more than there are chunks goes unseen.
verifyControlEvidence(scenario, evidence) ==
  LET entries == scenario.entries
  IN  /\ evidence.scenarioId = scenario.id
      /\ evidence.chunkCount = Len(entries) /\ Len(evidence.chunkIds) = Len(entries)
      /\ \A i \in DOMAIN entries : evidence.chunkIds[i] = entries[i].id
      /\ \A i \in DOMAIN entries :
           i \in DOMAIN evidence.contentHashes /\ evidence.contentHashes[i] = entries[i].text
      /\ Len(evidence.provenanceLabels) = Len(entries)
      /\ \A i \in DOMAIN evidence.provenanceLabels : evidence.provenanceLabels[i] # Unusable
      /\ evidence.outputHash = scenario.output
      /\ evidence.control = "delivered"

shapeCheckCatches(shape) == shape \in {"empty", "broken JSON"}

resultFor(scenario, pipeline, evidence) ==
  LET expected == IF scenario.expectation = "should_block" THEN "block" ELSE "allow"
  IN  [id            |-> scenario.id,
       provenance    |-> scenario.provenance,
       difficulty    |-> scenario.difficulty,
       expected      |-> scenario.expectation,
       expectedGate  |-> scenario.expectedGate,
       actualGate    |-> pipeline.stage,
       passed        |-> pipeline.outcome = expected,
       reasonCode    |-> pipeline.reasonCode,
       wouldBlock    |-> pipeline.wouldBlock,
       guardEffect   |-> IF pipeline.wouldBlock = (evidence.control = "withheld")
                         THEN "none" ELSE "changed",
       shapeBaseline |-> IF shapeCheckCatches(scenario.shape) THEN "catch" ELSE "miss"]

\* The result of a scenario whose control evidence was verified.
runBenchScenario(scenario, monitor, evidence) ==
  resultFor(scenario,
            runPipeline(scenario.entries, scenario.output,
                        DEFAULT_POLICY[DEFAULT_SLOT_NAME], monitor),
            evidence)

-------------------------------------------------------------------------------
Count(results, Holds(_)) == Cardinality({i \in DOMAIN results : Holds(results[i])})

Tally(results, values, ValueOf(_)) ==
  [v \in values |-> Count(results, LAMBDA r : ValueOf(r) = v)]

\* A rate is <<numerator, denominator>>; makeRate's percentage is read off it.
RateOf(results, Counted(_)) ==
  <<Count(results, LAMBDA r : Counted(r) /\ r.wouldBlock), Count(results, Counted)>>

Saturated(rate) == rate[2] \in 1 .. 4 /\ rate[1] = rate[2]

\* buildRecallRates written before there was a mixed tier.
buildRecallRates_two_tiers(results) ==
  [cell \in {"basic", "hard"} \X ScenarioProvenances |->
     RateOf(results, LAMBDA r : /\ r.expected = "should_block" /\ r.difficulty = cell[1]
                                /\ r.provenance = cell[2])]

buildRecallRates(results) ==
  [cell \in ScenarioDifficulties \X ScenarioProvenances |->
     RateOf(results, LAMBDA r : /\ r.expected = "should_block" /\ r.difficulty = cell[1]
                                /\ r.provenance = cell[2])]

buildFalsePositiveRates(results) ==
  [difficulty \in ScenarioDifficulties |->
     RateOf(results, LAMBDA r : r.expected = "should_allow" /\ r.difficulty = difficulty)]

buildGateBreakdown(results) ==
  [expected |-> Tally(results, ExpectedGates, LAMBDA r : r.expectedGate),
   actual   |-> Tally(results, GuardStages, LAMBDA r : r.actualGate),
   expectedActual |-> Tally(results, ExpectedGates \X GuardStages,
                            LAMBDA r : <<r.expectedGate, r.actualGate>>),
   outboundValidated |->
     Count(results, LAMBDA r : /\ r.expected = "should_block" /\ r.expectedGate = "outbound"
                               /\ r.actualGate = "outbound")]

\* Only the basic and the hard tier are warned about.
saturationWarnings(recall, falsePositiveRate) ==
  {cell \in DOMAIN recall : cell[1] # "mixed" /\ Saturated(recall[cell])}
    \cup {<<difficulty>> : difficulty \in
            {d \in DOMAIN falsePositiveRate : d # "mixed" /\ Saturated(falsePositiveRate[d])}}

summarizeBench(results, controlInvocations) ==
  LET recall == buildRecallRates(results)
      falsePositiveRate == buildFalsePositiveRates(results)
      blocked == ItemsAt(results, {i \in DOMAIN results : results[i].wouldBlock})
      shouldBlock == ItemsAt(results, {i \in DOMAIN results : results[i].expected = "should_block"})
  IN  [recall               |-> recall,
       falsePositiveRate    |-> falsePositiveRate,
       gateBreakdown        |-> buildGateBreakdown(results),
       saturationWarnings   |-> saturationWarnings(recall, falsePositiveRate),
       stageBreakdown       |-> Tally(blocked, GuardStages, LAMBDA r : r.actualGate),
       reasonBreakdown      |-> Tally(blocked, ReasonCodes, LAMBDA r : r.reasonCode),
       guardChangedOutcome  |-> <<Count(shouldBlock, LAMBDA r : r.guardEffect = "changed"),
                                  Len(shouldBlock)>>,
       controlInvocations   |-> controlInvocations,
       shapeBaselineCatches |-> Count(shouldBlock, LAMBDA r : r.shapeBaseline = "catch")]

\* Only a basic scenario that fails makes the command fail.
benchExit(results) ==
  IF \A i \in DOMAIN results : results[i].difficulty # "basic" \/ results[i].passed
  THEN 0 ELSE 1
===============================================================================
