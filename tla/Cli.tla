---------------------------------- MODULE Cli ----------------------------------
(***************************************************************************)
(* The provguard command (packages/cli): commands that run side by side,   *)
(* each in some process, over one ledger file.                             *)
(*                                                                         *)
(* A command is one of                                                     *)
(*   [name |-> "check", file, input, monitor, graph]   file says what is   *)
(*       found at the path of the input, graph whether --graph was given   *)
(*   [name |-> "bench", monitor, control]                                  *)
(*   [name |-> "trace", target]   trace, explain and impact alike          *)
(*   [name |-> "validate"]                                                 *)
(* What a check prints is a function of its command, Checked.  The tenant  *)
(* is the default one.                                                     *)
(***************************************************************************)
EXTENDS Bench, Functions

CONSTANTS
  Calls,      \* invocations of main or of the exported functions
  Processes,  \* the processes they run in
  HostOf,     \* the process of each call
  Commands,   \* the commands each call may be given
  Scenarios   \* the scenarios of the harness, in order

ASSUME HostAssumption == HostOf \in [Calls -> Processes]

\* What is found at the path of a check's input.
InputFiles == {"payload", "missing", "directory", "unreadable", "malformed", "unusable"}

ASSUME CommandsAssumption ==
  \A c \in Calls : \A k \in Commands[c] : k.name = "check" => k.file \in InputFiles

VARIABLES
  call,         \* where each call is, and how it ended
  graphFile,    \* what the ledger file holds
  overlapped,   \* the calls that have the file open and had it beside a writer
  invocations   \* controlInvocations of each process

\* History: the check that has written the file by itself, if none has since.
VARIABLE standing

fileVars == <<graphFile, overlapped, standing>>
vars == <<call, fileVars, invocations>>

Idle == [phase |-> "idle"]
Absent == [kind |-> "absent"]
Empty == [kind |-> "empty"]
\* No JSON, JSON of another shape, and a graph document put together from parts
\* of several.
Torn == [kind |-> "torn"]
OtherJson == [kind |-> "other"]
Mixed == [kind |-> "mixed"]
Document(input, monitor) == [kind |-> "document", input |-> input, monitor |-> monitor]

\* The checks there may be, what each makes of its input, and the ledger of each.
Checks ==
  {<<k.input, k.monitor>> :
     k \in {m \in UNION {Commands[c] : c \in Calls} :
              m.name = "check" /\ m.file = "payload" /\ runnable(m.input)}}
Checked == [k \in Checks |-> checkOf(k[1], k[2])]
Ledgers == [k \in Checks |-> graphOfCheck(k[1], k[2])]

EXIT_USAGE == 2
NoCode == "none"
NoReport == <<>>

\* How a call ended: its exit status, the error code, and what it was about: the
\* summary of a benchmark, the ledger a traversal or a validation read.
Ended(command, exit, code, about) ==
  [phase |-> "ended", command |-> command, exit |-> exit, code |-> code, about |-> about]

Failed(command, code) == Ended(command, EXIT_USAGE, code, NoReport)

Init ==
  /\ call = [c \in Calls |-> Idle]
  /\ graphFile \in {Absent, OtherJson}
  /\ overlapped = {}
  /\ standing = {}
  /\ invocations = [p \in Processes |-> 0]

Answer(c, answer) == call' = [call EXCEPT ![c] = answer]
In(c, phase, name) ==
  call[c].phase = phase /\ call[c].command.name = name
commandOf(c) == call[c].command

\* main has parsed its arguments and awaits the first module or file.
Start(c) ==
  /\ call[c] = Idle
  /\ \E command \in Commands[c] : Answer(c, [phase |-> "started", command |-> command])
  /\ UNCHANGED <<fileVars, invocations>>

-------------------------------------------------------------------------------
\* readInputFile, parseJsonInput, parseCheckInput and what runPipeline throws.
checkFailure(command) ==
  IF command.file = "missing" THEN "INPUT_NOT_FOUND"
  ELSE IF command.file = "directory" THEN "INPUT_IS_DIRECTORY"
  ELSE IF command.file = "unreadable" THEN "INPUT_NOT_READABLE"
  ELSE IF command.file = "malformed" THEN "INPUT_MALFORMED_JSON"
  ELSE IF command.file = "unusable" \/ ~runnable(command.input) THEN "INPUT_INVALID_CHECK"
  ELSE NoCode

resultOf(command) == Checked[<<command.input, command.monitor>>]

checkExit(command) == IF resultOf(command).wouldBlock /\ ~command.monitor THEN 1 ELSE 0

RunCheck(c) ==
  /\ In(c, "started", "check")
  /\ LET command == commandOf(c)
     IN  IF checkFailure(command) # NoCode
         THEN Answer(c, Failed(command, checkFailure(command)))
         ELSE IF command.graph
         THEN Answer(c, [phase |-> "checked", command |-> command])
         ELSE Answer(c, Ended(command, checkExit(command), NoCode, NoReport))
  /\ UNCHANGED <<fileVars, invocations>>

Writers == {c \in Calls : call[c].phase = "writing"}
Readers == {c \in Calls : call[c].phase = "reading"}

documentOf(c) == Document(commandOf(c).input, commandOf(c).monitor)

\* What the file may hold once some of the writers are through with it, whether
\* or not they came to their end: of one that was alone, a part or all; of one
\* that was not, any part of its document beside parts of others.
Left(some) ==
  {graphFile} \cup {documentOf(c) : c \in some}
    \cup {what \in {Torn} : some # {}}
    \cup {what \in {OtherJson, Mixed} :
            some # {} /\ (graphFile # Empty \/ ~(\E c \in some : some = {c}))}

\* OpenGraph of a file that is opened as it is.
OpenGraph_in_place(c) ==
  /\ In(c, "checked", "check")
  /\ Answer(c, [phase |-> "writing", command |-> commandOf(c)])
  /\ overlapped' = overlapped \cup Writers \cup Readers \cup {d \in {c} : Writers # {}}
  /\ standing' = {}
  /\ UNCHANGED <<graphFile, invocations>>

\* writeFile opens the file for writing, which empties it.
OpenGraph(c) ==
  /\ In(c, "checked", "check")
  /\ Answer(c, [phase |-> "writing", command |-> commandOf(c)])
  /\ graphFile' = Empty
  /\ overlapped' = overlapped \cup Writers \cup Readers \cup {d \in {c} : Writers # {}}
  /\ standing' = {}
  /\ UNCHANGED invocations

\* The file cannot be opened: the verdict is lost with it.
OpenFails(c) ==
  /\ In(c, "checked", "check")
  /\ Answer(c, Failed(commandOf(c), "INPUT_INVALID_CHECK"))
  /\ UNCHANGED <<fileVars, invocations>>

\* Written from the start of the file.  What another call has written there in
\* the meantime is overwritten, and its end stays where it was the longer.
WriteGraph(c) ==
  /\ In(c, "writing", "check")
  /\ LET command == commandOf(c)
     IN  /\ Answer(c, Ended(command, checkExit(command), NoCode, NoReport))
         /\ standing' = {check \in {<<command.input, command.monitor>>} : c \notin overlapped}
  /\ graphFile' \in IF graphFile = Empty THEN {documentOf(c)} ELSE Left({c})
  /\ overlapped' = overlapped \ {c}
  /\ UNCHANGED invocations

WriteFails(c) ==
  /\ In(c, "writing", "check")
  /\ Answer(c, Failed(commandOf(c), "INPUT_INVALID_CHECK"))
  /\ graphFile' \in Left({c})
  /\ overlapped' = overlapped \ {c}
  /\ UNCHANGED <<standing, invocations>>

-------------------------------------------------------------------------------
\* readInputFile and readGraphDocument.
readFailure(seen) ==
  IF seen.kind = "absent" THEN "INPUT_NOT_FOUND"
  ELSE IF seen.kind \in {"empty", "torn"} THEN "INPUT_MALFORMED_JSON"
  ELSE IF seen.kind = "other" THEN "INPUT_INVALID_GRAPH"
  ELSE NoCode

\* Redaction takes away texts, which no node of the model carries.
fromCanonicalJSON(seen) ==
  IF seen.kind = "document" THEN Ledgers[<<seen.input, seen.monitor>>] ELSE EmptyStore

\* report.valid
validateGraph(graph) ==
  /\ Dangling(graph) = {} /\ IllFormed(graph) = {} /\ ~Cyclic(graph)
  /\ SupportFromBlocked(graph) = {} /\ UnsupportedDelivery(graph) = {}

\* A call that reads the ledger opens the file.
OpenLedger(c) ==
  /\ call[c].phase = "started" /\ commandOf(c).name \in {"trace", "validate"}
  /\ Answer(c, [phase |-> "reading", command |-> commandOf(c)])
  /\ overlapped' = overlapped \cup {d \in {c} : Writers # {}}
  /\ UNCHANGED <<graphFile, standing, invocations>>

\* What it may have read at the end: what is in the file or, where another has
\* written meanwhile, parts of what was there at different times.
Readable(c) ==
  {graphFile} \cup {what \in {Empty, Torn, OtherJson, Mixed} : c \in overlapped}

\* The answers to a traversal, which loads the graph and looks for its target,
\* and to a validation.  Of a mixed document anything may be found.
traversalOf(command, seen) ==
  LET graph == fromCanonicalJSON(seen)
      answer == Ended(command, 0, NoCode, seen)
      refused == Failed(command, "INPUT_INVALID_GRAPH")
      unknown == Failed(command, "INPUT_INVALID_CHECK")
  IN  IF readFailure(seen) # NoCode THEN {Failed(command, readFailure(seen))}
      ELSE IF seen = Mixed THEN {answer, refused, unknown}
      ELSE IF ~loadable(graph) THEN {refused}
      ELSE IF command.target \notin DOMAIN graph.nodes THEN {unknown}
      ELSE {answer}

validationOf(command, seen) ==
  LET answer(exit) == Ended(command, exit, NoCode, seen)
  IN  IF readFailure(seen) # NoCode THEN {Failed(command, readFailure(seen))}
      ELSE IF seen = Mixed THEN {answer(0), answer(1)}
      ELSE {answer(IF validateGraph(fromCanonicalJSON(seen)) THEN 0 ELSE 1)}

\* trace, explain and impact.
Traverse(c) ==
  /\ In(c, "reading", "trace")
  /\ \E seen \in Readable(c) : \E answer \in traversalOf(commandOf(c), seen) : Answer(c, answer)
  /\ overlapped' = overlapped \ {c}
  /\ UNCHANGED <<graphFile, standing, invocations>>

Validate(c) ==
  /\ In(c, "reading", "validate")
  /\ \E seen \in Readable(c) : \E answer \in validationOf(commandOf(c), seen) : Answer(c, answer)
  /\ overlapped' = overlapped \ {c}
  /\ UNCHANGED <<graphFile, standing, invocations>>

-------------------------------------------------------------------------------
\* resetControlInvocations that is never called.
resetControlInvocations_never(count) == count

resetControlInvocations(count) == 0

\* The scenarios whose control evidence is refused.
Unverified(evidence) ==
  {i \in DOMAIN Scenarios : ~verifyControlEvidence(Scenarios[i], evidence[i])}

resultsOf(command, evidence) ==
  [i \in DOMAIN Scenarios |-> runBenchScenario(Scenarios[i], command.monitor, evidence[i])]

benchAnswer(command, results, counted) ==
  Ended(command, benchExit(results), NoCode, summarizeBench(results, counted))

\* The scenarios up to the first whose evidence was refused were counted.
BenchStep(c, command, evidence, refused) ==
  LET ran     == IF refused = {} THEN Len(Scenarios) ELSE Earliest(refused)
      counted == resetControlInvocations(invocations[HostOf[c]]) + ran
  IN  /\ invocations' = [invocations EXCEPT ![HostOf[c]] = counted]
      /\ Answer(c, IF refused # {} THEN Failed(command, "INPUT_INVALID_CHECK")
                   ELSE benchAnswer(command, resultsOf(command, evidence), counted))

\* runBench: no await between the reset of the counter, the scenarios and the
\* summary.  The first scenario that cannot be verified ends it.
RunBench(c) ==
  /\ In(c, "started", "bench")
  /\ LET command  == commandOf(c)
         evidence == [i \in DOMAIN Scenarios |-> controlEvidence(command.control, Scenarios[i])]
     IN  BenchStep(c, command, evidence, Unverified(evidence))
  /\ UNCHANGED fileVars

-------------------------------------------------------------------------------
\* A caller of the exported functions goes on to its next call.
Return(c) ==
  /\ call[c].phase = "ended"
  /\ Answer(c, Idle)
  /\ UNCHANGED <<fileVars, invocations>>

\* A process dies with its calls; a file being written stays as it is by then.
Crash(p) ==
  LET dying == {c \in Calls : HostOf[c] = p}
  IN  /\ \E c \in dying : call[c].phase \in {"started", "checked", "writing", "reading"}
      /\ call' = [c \in Calls |-> IF c \in dying THEN Idle ELSE call[c]]
      /\ graphFile' \in Left(dying \cap Writers)
      /\ overlapped' = overlapped \ dying
      /\ invocations' = [invocations EXCEPT ![p] = 0]
      /\ UNCHANGED standing

CheckStep == \E c \in Calls :
  RunCheck(c) \/ OpenGraph(c) \/ OpenFails(c) \/ WriteGraph(c) \/ WriteFails(c)

OtherStep == \E c \in Calls :
  Start(c) \/ OpenLedger(c) \/ Traverse(c) \/ Validate(c) \/ RunBench(c) \/ Return(c)

Next == CheckStep \/ OtherStep \/ \E p \in Processes : Crash(p)

Spec == Init /\ [][Next]_vars

-------------------------------------------------------------------------------
CompletedBy(c, name) == In(c, "ended", name) /\ call[c].code = NoCode

(* A check that exits 0 while enforcing is one whose output the guard of    *)
(* the middleware delivers too, for the same candidates under the same      *)
(* slot: the command, which composes the gates on its own, is never the     *)
(* more permissive of the two.                                              *)
AllowedIsDeliverable ==
  \A c \in Calls : CompletedBy(c, "check") /\ call[c].exit = 0 /\ ~commandOf(c).monitor
    => guardDelivers(commandOf(c).input)

(* "A claim supported only by a chunk that inbound rejected is not          *)
(* grounded": a claim a check reports as grounded is grounded on the chunks *)
(* the slot admits, each taken for itself.                                  *)
RefusedNeverGrounds ==
  \A c \in Calls : CompletedBy(c, "check") =>
    LET input == commandOf(c).input
        assessments == resultOf(commandOf(c)).audit.assessments
    IN  \A n \in DOMAIN assessments : assessments[n].status = "grounded" =>
          assessClaim(input.output[n], AdmittedOf(input)).status = "grounded"

SoundChecks == {k \in Checks : validateGraph(Ledgers[k]) /\ loadable(Ledgers[k])}

(* The ledger of any check, of a blocked output or in monitor mode too, is  *)
(* one `graph validate` finds nothing wrong with and a traversal loads.     *)
CheckedGraphValidates ==
  \A c \in Calls : CompletedBy(c, "check")
    => <<commandOf(c).input, commandOf(c).monitor>> \in SoundChecks

(* Whatever crashes, failures or writes at a time have left in the file,    *)
(* once a check has written it by itself a traversal or validation that     *)
(* reads it undisturbed answers from the whole ledger of that check and     *)
(* finds nothing wrong with it: no part of what was there before is left    *)
(* behind it.                                                               *)
RewriteRestores ==
  [][\A c \in Readers \ overlapped : \A check \in standing : call'[c].phase = "ended" =>
       \/ /\ call'[c].code = NoCode /\ call'[c].exit = 0
          /\ call'[c].about = Document(check[1], check[2])
       \/ /\ call'[c].code = "INPUT_INVALID_CHECK" /\ commandOf(c).name = "trace"
          /\ commandOf(c).target \notin DOMAIN Ledgers[check].nodes]_vars

(* A benchmark reports as many control invocations as there are scenarios,  *)
(* whatever ran in its process before it.                                   *)
BenchCountsItsOwn ==
  \A c \in Calls : CompletedBy(c, "bench")
    => call[c].about.controlInvocations = Len(Scenarios)

\* Scenario i as the input of a check.
ScenarioInput(i) ==
  [entries |-> Scenarios[i].entries, output |-> Scenarios[i].output,
   slot |-> NoSlot, policy |-> NoPolicy]

\* The guard keeps something of scenario i from its context or its caller.
Withheld(i) ==
  \/ Len(AdmittedOf(ScenarioInput(i))) < Len(Scenarios[i].entries)
  \/ ~guardDelivers(ScenarioInput(i))

WithheldOf(expectation) ==
  Cardinality({i \in DOMAIN Scenarios : Scenarios[i].expectation = expectation /\ Withheld(i)})

Total(f) == FoldFunction(+, 0, f)
Counted(rates)  == Total([k \in DOMAIN rates |-> rates[k][1]])
Measured(rates) == Total([k \in DOMAIN rates |-> rates[k][2]])

(* In either mode and with any control that was accepted, recall counts the *)
(* should_block scenarios in which an enforcing guard would withhold a      *)
(* chunk or the output, the false positives the others, and the guard is    *)
(* said to have changed exactly the outcomes it changes.  Every scenario is *)
(* in one rate ("a new tier appears everywhere or nowhere"), and the        *)
(* breakdowns add up to the scenarios that would block.                     *)
MeasuresTheGuard ==
  \A c \in Calls : CompletedBy(c, "bench") =>
    LET summary == call[c].about
        withheld == WithheldOf("should_block") + WithheldOf("should_allow")
    IN  /\ Counted(summary.recall) = WithheldOf("should_block")
        /\ Counted(summary.falsePositiveRate) = WithheldOf("should_allow")
        /\ summary.guardChangedOutcome[1] = WithheldOf("should_block")
        /\ Measured(summary.recall) = summary.guardChangedOutcome[2]
        /\ Measured(summary.recall) + Measured(summary.falsePositiveRate) = Len(Scenarios)
        /\ Total(summary.stageBreakdown) = withheld
        /\ Total(summary.reasonBreakdown) = withheld

-------------------------------------------------------------------------------
\* What the theorems ask of the checks.  Chunks, and the specifics of a claim,
\* come in lists.
IsAList(s) == s \in Seq({s[i] : i \in DOMAIN s})

InputsAreLists ==
  \A check \in Checks :
    /\ IsAList(check[1].entries)
    /\ \A n \in DOMAIN check[1].output :
         IsAList(check[1].output[n].entities) /\ IsAList(check[1].output[n].numbers)

\* No id names both a chunk its slot admits and one it refuses.
IdsTellVerdicts ==
  \A check \in Checks :
    LET chunks == Classified(check[1].entries)
        Verdict(i) == checkSlot(chunks[i], resolveSlot(check[1]))
    IN  \A i, j \in DOMAIN chunks :
          chunks[i].id = chunks[j].id => Verdict(i).decision = Verdict(j).decision

OneIdOneChunk(input) ==
  LET chunks == Classified(input.entries)
  IN  \A i, j \in DOMAIN chunks : chunks[i].id = chunks[j].id => chunks[i] = chunks[j]

\* Where chunks that differ share an id, the slot admits none of T4 or T5, as no
\* slot of the default policy does.
SharedIdsAreTrusted ==
  \A check \in Checks : OneIdOneChunk(check[1]) \/ resolveSlot(check[1]).minTier \in 1 .. 3

\* What they ask of the corpus: a list of scenarios of the types the harness
\* gives them, each a list of claims over a list of chunks in which no id names
\* two different chunks.
ScenariosAreTyped ==
  /\ IsAList(Scenarios)
  /\ \A i \in DOMAIN Scenarios :
       /\ Scenarios[i].difficulty \in ScenarioDifficulties
       /\ Scenarios[i].provenance \in ScenarioProvenances
       /\ Scenarios[i].expectation \in {"should_block", "should_allow"}
       /\ IsAList(Scenarios[i].entries) /\ IsAList(Scenarios[i].output)
       /\ OneIdOneChunk(ScenarioInput(i))
===============================================================================
