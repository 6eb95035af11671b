------------------------------- MODULE CliProofs -------------------------------
(***************************************************************************)
(* What Cli promises of any number of calls in any number of processes,    *)
(* whatever commands they are given and whatever crashes or fails: that a  *)
(* benchmark counts its own control invocations and measures the guard,    *)
(* that a ledger file that is written again is whole again, and that a     *)
(* check says of an answer what the guard's own gates do.                  *)
(***************************************************************************)
EXTENDS Cli, AuditLemmas, FiniteSetTheorems

\* The harness gives the benchmark a list of scenarios.
ScenariosAreAList == \E S : Scenarios \in Seq(S)

Shape == call = [c \in Calls |-> call[c]]

\* A check past its gates is one that could be run.
CheckInv(c) ==
  /\ call[c].phase # "idle" => commandOf(c) \in Commands[c]
  /\ call[c].phase \in {"checked", "writing"} \/ CompletedBy(c, "check")
       => <<commandOf(c).input, commandOf(c).monitor>> \in Checks
  /\ CompletedBy(c, "check") => call[c].exit = checkExit(commandOf(c))

\* A call that writes and had no other beside it is the only one, and has an
\* empty file before it; where a check stands, its document does, and none writes.
FileInv ==
  /\ \A c \in Writers \ overlapped : graphFile = Empty /\ Writers = {c}
  /\ \A check \in standing : /\ check \in Checks /\ Writers = {}
                            /\ graphFile = Document(check[1], check[2])

Inv ==
  /\ Shape
  /\ FileInv
  /\ \A c \in Calls : CheckInv(c)

-------------------------------------------------------------------------------
\* The invocations a summary gives are those it was given.
LEMMA SummaryCounts ==
  ASSUME NEW results, NEW count
  PROVE  summarizeBench(results, count).controlInvocations = count
BY Zenon DEF summarizeBench

\* The summary of a benchmark none of whose controls was refused.
Summarized(about) ==
  \E command, evidence :
    /\ Unverified(evidence) = {}
    /\ about = summarizeBench(resultsOf(command, evidence), Len(Scenarios))

\* What a benchmark without a refused control ends with.
LEMMA BenchEnds ==
  ASSUME ScenariosAreAList, NEW c \in Calls, RunBench(c), call'[c].code = NoCode,
         call = [d \in Calls |-> call[d]]
  PROVE  Summarized(call'[c].about)
<1> DEFINE command == commandOf(c)
           evidence == [i \in DOMAIN Scenarios |-> controlEvidence(command.control, Scenarios[i])]
           refused == Unverified(evidence)
           ran     == IF refused = {} THEN Len(Scenarios) ELSE Earliest(refused)
           counted == resetControlInvocations(invocations[HostOf[c]]) + ran
           results == resultsOf(command, evidence)
<1>1. call' = [call EXCEPT ![c] = IF refused # {} THEN Failed(command, "INPUT_INVALID_CHECK")
                                  ELSE Ended(command, benchExit(results), NoCode,
                                             summarizeBench(results, counted))]
  BY DEF RunBench, BenchStep, benchAnswer, Answer
<1> HIDE DEF results, refused
<1>2. call'[c] = IF refused # {} THEN Failed(command, "INPUT_INVALID_CHECK")
                 ELSE Ended(command, benchExit(results), NoCode, summarizeBench(results, counted))
  BY <1>1
<1>3. refused = {}
  BY <1>2 DEF Failed, Ended, NoCode
<1>4. call'[c].about = summarizeBench(results, counted)
  BY <1>2, <1>3 DEF Ended
<1>5. counted = Len(Scenarios)
  <2>1. PICK S : Scenarios \in Seq(S)
    BY DEF ScenariosAreAList
  <2>2. Len(Scenarios) \in Nat
    BY <2>1
  <2>3. QED
    BY <1>3, <2>2 DEF resetControlInvocations
<1> HIDE DEF counted, command, evidence
<1>6. QED
  BY <1>3, <1>4, <1>5 DEF Summarized, results, refused

\* An answer concerns the call it is given to.
LEMMA Answered ==
  ASSUME Shape, NEW c \in Calls, NEW answer, Answer(c, answer)
  PROVE  /\ Shape'
         /\ call'[c] = answer
         /\ \A d \in Calls \ {c} : call'[d] = call[d]
BY DEF Answer, Shape

\* What one step of a call leaves of the others, and what it may leave the call at.
Moves(c, answer) ==
  /\ Shape'
  /\ call'[c] = answer
  /\ \A d \in Calls \ {c} : call'[d] = call[d]

\* The steps of a check end no call but a check.
LEMMA CheckAnswers ==
  ASSUME Shape, NEW c \in Calls,
         RunCheck(c) \/ OpenGraph(c) \/ OpenFails(c) \/ WriteGraph(c) \/ WriteFails(c)
  PROVE  \E answer : /\ Moves(c, answer)
                     /\ answer.phase = "ended" => answer.command.name = "check"
<1> DEFINE command == commandOf(c)
<1>1. command.name = "check"
  BY DEF RunCheck, OpenGraph, OpenFails, WriteGraph, WriteFails, In, commandOf
<1>2. \A code : Failed(command, code).command = command
  BY DEF Failed, Ended
<1>3. \A exit, code, about : Ended(command, exit, code, about).command = command
  BY DEF Ended
<1>4. CASE RunCheck(c)
  <2> DEFINE answer == IF checkFailure(command) # NoCode
                       THEN Failed(command, checkFailure(command))
                       ELSE IF command.graph THEN [phase |-> "checked", command |-> command]
                       ELSE Ended(command, checkExit(command), NoCode, NoReport)
  <2>1. Answer(c, answer)
    BY <1>4 DEF RunCheck
  <2>2. answer.phase = "ended" => answer.command.name = "check"
    BY <1>1, <1>2, <1>3
  <2> HIDE DEF answer
  <2>3. QED
    BY <2>1, <2>2, Answered DEF Moves
<1>5. CASE OpenGraph(c)
  <2>1. Answer(c, [phase |-> "writing", command |-> command])
    BY <1>5 DEF OpenGraph
  <2>2. QED
    BY <2>1, Answered DEF Moves
<1>6. CASE OpenFails(c) \/ WriteFails(c)
  <2>1. Answer(c, Failed(command, "INPUT_INVALID_CHECK"))
    BY <1>6 DEF OpenFails, WriteFails
  <2>2. QED
    BY <1>1, <1>2, <2>1, Answered DEF Moves
<1>7. CASE WriteGraph(c)
  <2>1. Answer(c, Ended(command, checkExit(command), NoCode, NoReport))
    BY <1>7 DEF WriteGraph
  <2>2. QED
    BY <1>1, <1>3, <2>1, Answered DEF Moves
<1>8. QED
  BY <1>4, <1>5, <1>6, <1>7

\* What a reading call ends with: one of the answers to what it has read.
LEMMA ReadingAnswers ==
  ASSUME Shape, NEW c \in Calls, Traverse(c) \/ Validate(c)
  PROVE  \E answer : /\ Moves(c, answer)
                     /\ answer.phase = "ended" /\ answer.command = commandOf(c)
                     /\ answer.command.name \in {"trace", "validate"}
<1> DEFINE command == commandOf(c)
<1>1. command.name \in {"trace", "validate"}
  BY DEF Traverse, Validate, In, commandOf
<1>2. \A code : Failed(command, code).phase = "ended" /\ Failed(command, code).command = command
  BY DEF Failed, Ended
<1>3. \A exit, code, about : /\ Ended(command, exit, code, about).phase = "ended"
                             /\ Ended(command, exit, code, about).command = command
  BY DEF Ended
<1>4. \A seen : \A answer \in traversalOf(command, seen) \cup validationOf(command, seen) :
        answer.phase = "ended" /\ answer.command = command
  BY <1>2, <1>3 DEF traversalOf, validationOf
<1>5. PICK seen, answer : /\ answer \in traversalOf(command, seen) \cup validationOf(command, seen)
                         /\ Answer(c, answer)
  BY DEF Traverse, Validate
<1>6. QED
  BY <1>1, <1>4, <1>5, Answered DEF Moves

\* A call begins, opens the file to read it, and goes on to another.
LEMMA StartAnswers ==
  ASSUME Shape, NEW c \in Calls, Start(c) \/ OpenLedger(c) \/ Return(c)
  PROVE  \E answer : /\ Moves(c, answer)
                     /\ answer.phase \in {"started", "reading", "idle"}
                     /\ answer.phase = "started" => answer.command \in Commands[c]
                     /\ answer.phase = "reading"
                          => answer.command = commandOf(c) /\ call[c].phase = "started"
<1>1. CASE Start(c)
  <2>1. PICK command \in Commands[c] : Answer(c, [phase |-> "started", command |-> command])
    BY <1>1 DEF Start
  <2>2. QED
    BY <2>1, Answered DEF Moves
<1>2. CASE Return(c)
  <2>1. Answer(c, Idle)
    BY <1>2 DEF Return
  <2>2. QED
    BY <2>1, Answered DEF Moves, Idle
<1>3. CASE OpenLedger(c)
  <2>1. Answer(c, [phase |-> "reading", command |-> commandOf(c)])
    BY <1>3 DEF OpenLedger
  <2>2. QED
    BY <1>3, <2>1, Answered DEF Moves, OpenLedger
<1>4. QED
  BY <1>1, <1>2, <1>3

\* A call of bench ends, whatever the measurement finds.
LEMMA BenchAnswers ==
  ASSUME Shape, NEW c \in Calls, RunBench(c)
  PROVE  \E answer : /\ Moves(c, answer)
                     /\ answer.phase = "ended" /\ answer.command = commandOf(c)
                     /\ answer.command.name = "bench"
<1> DEFINE command == commandOf(c)
           evidence == [i \in DOMAIN Scenarios |-> controlEvidence(command.control, Scenarios[i])]
           refused == Unverified(evidence)
           ran     == IF refused = {} THEN Len(Scenarios) ELSE Earliest(refused)
           counted == resetControlInvocations(invocations[HostOf[c]]) + ran
           results == resultsOf(command, evidence)
           answer == IF refused # {} THEN Failed(command, "INPUT_INVALID_CHECK")
                     ELSE Ended(command, benchExit(results), NoCode, summarizeBench(results, counted))
<1>1. Answer(c, answer) /\ command.name = "bench"
  BY DEF RunBench, BenchStep, benchAnswer, In, commandOf
<1> HIDE DEF results, counted, refused
<1>2. answer.phase = "ended" /\ answer.command = command
  BY DEF Failed, Ended
<1> HIDE DEF answer
<1>3. QED
  BY <1>1, <1>2, Answered DEF Moves

\* A crash leaves each call where it was or idle.
LEMMA CrashAnswers ==
  ASSUME Shape, NEW p \in Processes, Crash(p)
  PROVE  Shape' /\ \A c \in Calls : call'[c] = Idle \/ call'[c] = call[c]
BY DEF Crash, Shape

-------------------------------------------------------------------------------
\* A benchmark that has ended without an error reports such a summary.
BenchInv ==
  /\ Shape
  /\ \A c \in Calls : CompletedBy(c, "bench") => Summarized(call[c].about)

\* No step of another call, and no crash, touches it.
LEMMA BenchInvHolds ==
  ASSUME ScenariosAreAList
  PROVE  Spec => []BenchInv
<1>1. Init => BenchInv
  BY DEF Init, BenchInv, Shape, CompletedBy, In, Idle
<1>2. ASSUME BenchInv, Next PROVE BenchInv'
  <2> USE <1>2 DEF BenchInv
  <2>1. ASSUME NEW c \in Calls, NEW answer, Moves(c, answer),
               answer.phase = "ended" /\ answer.code = NoCode /\ answer.command.name = "bench"
                 => Summarized(answer.about)
        PROVE  BenchInv'
    BY <2>1 DEF Moves, CompletedBy, In
  <2>2. CASE CheckStep
    <3>1. PICK c \in Calls : RunCheck(c) \/ OpenGraph(c) \/ OpenFails(c) \/ WriteGraph(c) \/ WriteFails(c)
      BY <2>2 DEF CheckStep
    <3>2. QED
      BY <2>1, <3>1, CheckAnswers
  <2>3. CASE OtherStep
    <3>1. PICK c \in Calls : Start(c) \/ OpenLedger(c) \/ Traverse(c) \/ Validate(c)
                         \/ RunBench(c) \/ Return(c)
      BY <2>3 DEF OtherStep
    <3>2. CASE Start(c) \/ OpenLedger(c) \/ Return(c)
      BY <2>1, <3>2, StartAnswers
    <3>3. CASE Traverse(c) \/ Validate(c)
      BY <2>1, <3>3, ReadingAnswers
    <3>4. CASE RunBench(c)
      <4>1. PICK answer : Moves(c, answer)
        BY <3>4, BenchAnswers
      <4>2. answer.code = NoCode => Summarized(answer.about)
        BY <3>4, <4>1, BenchEnds DEF Moves, Shape
      <4>3. QED
        BY <2>1, <4>1, <4>2
    <3>5. QED
      BY <3>1, <3>2, <3>3, <3>4
  <2>4. CASE \E p \in Processes : Crash(p)
    <3>1. Shape' /\ \A c \in Calls : call'[c] = Idle \/ call'[c] = call[c]
      BY <2>4, CrashAnswers
    <3>2. QED
      BY <3>1 DEF CompletedBy, In, Idle
  <2>5. QED
    BY <2>2, <2>3, <2>4 DEF Next
<1>3. ASSUME BenchInv, UNCHANGED vars PROVE BenchInv'
  BY <1>3 DEF vars, BenchInv, Shape, CompletedBy, In
<1>4. QED
  BY <1>1, <1>2, <1>3, PTL DEF Spec

(* However calls interleave, and in whatever processes they crash, a        *)
(* benchmark that ends reports one control invocation per scenario          *)
(* (resetControlInvocations, runBench).                                     *)
THEOREM BenchAlwaysCountsItsOwn ==
  ASSUME ScenariosAreAList
  PROVE  Spec => []BenchCountsItsOwn
<1>1. BenchInv => BenchCountsItsOwn
  BY SummaryCounts DEF BenchInv, BenchCountsItsOwn, Summarized
<1>2. QED
  BY <1>1, BenchInvHolds, PTL

-------------------------------------------------------------------------------

\* A check that is run is one of the checks.
LEMMA RunnableCheck ==
  ASSUME NEW c \in Calls, NEW command \in Commands[c], command.name = "check",
         checkFailure(command) = NoCode
  PROVE  <<command.input, command.monitor>> \in Checks
<1>1. command.file = "payload" /\ runnable(command.input)
  BY CommandsAssumption DEF InputFiles, checkFailure, NoCode
<1>2. command \in {m \in UNION {Commands[d] : d \in Calls} :
                     m.name = "check" /\ m.file = "payload" /\ runnable(m.input)}
  BY <1>1
<1>3. QED
  BY <1>2 DEF Checks

\* A step of a check keeps to its command, and opens or writes the file only
\* for one that could be run.
LEMMA CheckKeeps ==
  ASSUME Shape, NEW c \in Calls, CheckInv(c),
         RunCheck(c) \/ OpenGraph(c) \/ OpenFails(c) \/ WriteGraph(c) \/ WriteFails(c)
  PROVE  \E answer : /\ Moves(c, answer)
                     /\ answer.phase # "idle" /\ answer.command = commandOf(c)
                     /\ commandOf(c) \in Commands[c] /\ commandOf(c).name = "check"
                     /\ answer.phase # "ended" \/ answer.code = NoCode
                          => <<commandOf(c).input, commandOf(c).monitor>> \in Checks
                     /\ answer.phase = "ended" /\ answer.code = NoCode
                          => answer.exit = checkExit(commandOf(c))
<1> DEFINE command == commandOf(c)
<1>1. command.name = "check" /\ command \in Commands[c]
  BY DEF RunCheck, OpenGraph, OpenFails, WriteGraph, WriteFails, In, CheckInv, commandOf
<1>2. \A code : Failed(command, code) = Ended(command, EXIT_USAGE, code, NoReport)
  BY DEF Failed
<1>3. \A exit, code, about : /\ Ended(command, exit, code, about).command = command
                             /\ Ended(command, exit, code, about).code = code
                             /\ Ended(command, exit, code, about).exit = exit
                             /\ Ended(command, exit, code, about).phase = "ended"
  BY DEF Ended
<1>4. CASE RunCheck(c)
  <2> DEFINE answer == IF checkFailure(command) # NoCode
                       THEN Failed(command, checkFailure(command))
                       ELSE IF command.graph THEN [phase |-> "checked", command |-> command]
                       ELSE Ended(command, checkExit(command), NoCode, NoReport)
  <2>1. Answer(c, answer)
    BY <1>4 DEF RunCheck
  <2>2. answer.phase # "idle" /\ answer.command = command
    BY <1>2, <1>3
  <2>3. /\ answer.phase # "ended" \/ answer.code = NoCode => checkFailure(command) = NoCode
        /\ answer.phase = "ended" /\ answer.code = NoCode => answer.exit = checkExit(command)
    BY <1>2, <1>3
  <2> HIDE DEF answer
  <2>4. QED
    BY <1>1, <2>1, <2>2, <2>3, Answered, RunnableCheck DEF Moves
<1>5. CASE OpenGraph(c)
  <2>1. Answer(c, [phase |-> "writing", command |-> command])
    BY <1>5 DEF OpenGraph
  <2>2. <<command.input, command.monitor>> \in Checks
    BY <1>5 DEF OpenGraph, In, CheckInv
  <2>3. QED
    BY <1>1, <2>1, <2>2, Answered DEF Moves
<1>6. CASE OpenFails(c) \/ WriteFails(c)
  <2>1. Answer(c, Failed(command, "INPUT_INVALID_CHECK"))
    BY <1>6 DEF OpenFails, WriteFails
  <2>2. "INPUT_INVALID_CHECK" # NoCode
    BY DEF NoCode
  <2>3. QED
    BY <1>1, <1>2, <1>3, <2>1, <2>2, Answered DEF Moves
<1>7. CASE WriteGraph(c)
  <2>1. Answer(c, Ended(command, checkExit(command), NoCode, NoReport))
    BY <1>7 DEF WriteGraph
  <2>2. <<command.input, command.monitor>> \in Checks
    BY <1>7 DEF WriteGraph, In, CheckInv
  <2>3. QED
    BY <1>1, <1>3, <2>1, <2>2, Answered DEF Moves
<1>8. QED
  BY <1>4, <1>5, <1>6, <1>7

\* Which calls write after one of them has moved.
LEMMA WritersMove ==
  ASSUME NEW c \in Calls, NEW answer, Moves(c, answer)
  PROVE  Writers' = (Writers \ {c}) \cup {d \in {c} : answer.phase = "writing"}
BY DEF Moves, Writers

\* A step that neither writes nor opens the file to be written.
LEMMA FileKept ==
  ASSUME FileInv, graphFile' = graphFile, standing' = standing, Writers' = Writers,
         Writers \ overlapped' \subseteq Writers \ overlapped
  PROVE  FileInv'
BY DEF FileInv

\* A step of a check keeps what is said of the file.
LEMMA CheckKeepsFile ==
  ASSUME Inv, NEW c \in Calls,
         RunCheck(c) \/ OpenGraph(c) \/ OpenFails(c) \/ WriteGraph(c) \/ WriteFails(c)
  PROVE  FileInv'
<1> DEFINE command == commandOf(c)
<1>1. Shape /\ FileInv /\ CheckInv(c)
  BY DEF Inv
<1>2. \A exit, code, about : Ended(command, exit, code, about).phase = "ended"
  BY DEF Ended
<1>3. \A code : Failed(command, code).phase = "ended"
  BY <1>2 DEF Failed
<1>4. CASE RunCheck(c)
  <2> DEFINE answer == IF checkFailure(command) # NoCode
                       THEN Failed(command, checkFailure(command))
                       ELSE IF command.graph THEN [phase |-> "checked", command |-> command]
                       ELSE Ended(command, checkExit(command), NoCode, NoReport)
  <2>1. Answer(c, answer) /\ c \notin Writers /\ UNCHANGED fileVars
    BY <1>4 DEF RunCheck, In, Writers
  <2>2. answer.phase # "writing"
    BY <1>2, <1>3
  <2> HIDE DEF answer
  <2>3. Writers' = Writers
    BY <1>1, <2>1, <2>2, Answered, WritersMove DEF Moves
  <2>4. QED
    BY <1>1, <2>1, <2>3, FileKept DEF fileVars
<1>5. CASE OpenFails(c)
  <2>1. Answer(c, Failed(command, "INPUT_INVALID_CHECK")) /\ c \notin Writers /\ UNCHANGED fileVars
    BY <1>5 DEF OpenFails, In, Writers
  <2>2. Writers' = Writers
    BY <1>1, <1>3, <2>1, Answered, WritersMove DEF Moves
  <2>3. QED
    BY <1>1, <2>1, <2>2, FileKept DEF fileVars
<1>6. CASE OpenGraph(c)
  <2>1. /\ Answer(c, [phase |-> "writing", command |-> command])
        /\ graphFile' = Empty /\ standing' = {}
        /\ overlapped' = overlapped \cup Writers \cup Readers \cup {d \in {c} : Writers # {}}
    BY <1>6 DEF OpenGraph
  <2>2. Writers' = Writers \cup {c}
    BY <1>1, <2>1, Answered, WritersMove DEF Moves
  <2>3. ASSUME NEW d \in Writers' \ overlapped' PROVE Writers' = {d}
    BY <2>1, <2>2
  <2>4. QED
    BY <2>1, <2>3 DEF FileInv
<1>7. CASE WriteGraph(c) \/ WriteFails(c)
  <2>1. c \in Writers /\ standing = {}
    BY <1>1, <1>7 DEF WriteGraph, WriteFails, In, Writers, FileInv
  <2>2. PICK answer : Answer(c, answer) /\ answer.phase = "ended"
    BY <1>2, <1>3, <1>7 DEF WriteGraph, WriteFails
  <2>3. Writers' = Writers \ {c}
    BY <1>1, <2>2, Answered, WritersMove DEF Moves
  <2>4. overlapped' = overlapped \ {c}
    BY <1>7 DEF WriteGraph, WriteFails
  <2>5. Writers' \ overlapped' = {}
    BY <1>1, <2>1, <2>3, <2>4 DEF FileInv
  <2>6. CASE standing' = {}
    BY <2>5, <2>6 DEF FileInv
  <2>7. CASE standing' # {}
    <3>1. WriteGraph(c) /\ c \notin overlapped /\ standing' = {<<command.input, command.monitor>>}
      BY <1>7, <2>1, <2>7 DEF WriteGraph, WriteFails
    <3>2. graphFile = Empty /\ Writers = {c}
      BY <1>1, <2>1, <3>1 DEF FileInv
    <3>3. graphFile' = Document(command.input, command.monitor)
      BY <3>1, <3>2 DEF WriteGraph, documentOf
    <3>4. <<command.input, command.monitor>> \in Checks
      BY <1>1, <2>1 DEF CheckInv, Writers
    <3>5. QED
      BY <2>3, <2>5, <3>1, <3>2, <3>3, <3>4 DEF FileInv
  <2>8. QED
    BY <2>6, <2>7
<1>8. QED
  BY <1>4, <1>5, <1>6, <1>7

\* So does every other step.
LEMMA FileSteps ==
  ASSUME Inv, Next
  PROVE  FileInv'
<1>1. Shape /\ FileInv
  BY DEF Inv
<1>2. CASE CheckStep
  BY <1>2, CheckKeepsFile DEF CheckStep
<1>3. CASE OtherStep
  <2>1. PICK c \in Calls : Start(c) \/ OpenLedger(c) \/ Traverse(c) \/ Validate(c)
                         \/ RunBench(c) \/ Return(c)
    BY <1>3 DEF OtherStep
  <2>2. c \notin Writers
    BY <2>1 DEF Start, OpenLedger, Traverse, Validate, RunBench, Return, In, Idle, Writers
  <2>3. graphFile' = graphFile /\ standing' = standing
    BY <2>1 DEF Start, OpenLedger, Traverse, Validate, RunBench, BenchStep, Return, fileVars
  <2>4. overlapped \ {c} \subseteq overlapped'
    BY <2>1 DEF Start, OpenLedger, Traverse, Validate, RunBench, BenchStep, Return, fileVars
  <2>5. PICK answer : Moves(c, answer) /\ answer.phase # "writing"
    BY <1>1, <2>1, StartAnswers, ReadingAnswers, BenchAnswers
  <2>6. Writers' = Writers
    BY <2>2, <2>5, WritersMove
  <2>7. QED
    BY <1>1, <2>2, <2>3, <2>4, <2>6, FileKept
<1>4. CASE \E p \in Processes : Crash(p)
  <2>1. PICK p \in Processes : Crash(p)
    BY <1>4
  <2> DEFINE dying == {c \in Calls : HostOf[c] = p}
  <2>2. Writers' = Writers \ dying
    BY <2>1 DEF Crash, Writers, Idle
  <2>3. /\ graphFile' \in Left(dying \cap Writers) /\ standing' = standing
        /\ overlapped' = overlapped \ dying
    BY <2>1 DEF Crash
  <2> HIDE DEF dying
  <2>4. CASE dying \cap Writers = {}
    <3>1. graphFile' = graphFile
      BY <2>3, <2>4 DEF Left
    <3>2. QED
      BY <1>1, <2>2, <2>3, <2>4, <3>1, FileKept
  <2>5. CASE dying \cap Writers # {}
    <3>1. standing = {}
      BY <1>1, <2>5 DEF FileInv
    <3>2. Writers' \ overlapped' = {}
      BY <1>1, <2>2, <2>3, <2>5 DEF FileInv
    <3>3. QED
      BY <2>3, <3>1, <3>2 DEF FileInv
  <2>6. QED
    BY <2>4, <2>5
<1>5. QED
  BY <1>2, <1>3, <1>4 DEF Next

\* One call moves and the invariant holds of it: then it holds.
LEMMA MoveKeeps ==
  ASSUME Inv, FileInv', NEW c \in Calls, NEW answer, Moves(c, answer),
         answer.phase # "idle" => answer.command \in Commands[c],
         (\/ answer.phase \in {"checked", "writing"}
          \/ answer.phase = "ended" /\ answer.command.name = "check" /\ answer.code = NoCode)
           => <<answer.command.input, answer.command.monitor>> \in Checks,
         answer.phase = "ended" /\ answer.command.name = "check" /\ answer.code = NoCode
           => answer.exit = checkExit(answer.command)
  PROVE  Inv'
<1>1. Shape'
  BY DEF Moves
<1>2. ASSUME NEW d \in Calls PROVE CheckInv(d)'
  BY DEF Inv, Moves, CheckInv, CompletedBy, In, commandOf
<1>3. QED
  BY <1>1, <1>2 DEF Inv

\* The invariant holds of every call.
LEMMA InvHolds == Spec => []Inv
<1>1. Init => Inv
  <2>1. SUFFICES ASSUME Init PROVE Inv
    OBVIOUS
  <2>2. Shape /\ \A c \in Calls : call[c].phase = "idle"
    BY <2>1 DEF Init, Shape, Idle
  <2>3. FileInv
    BY <2>1, <2>2 DEF Init, FileInv, Writers
  <2>4. QED
    BY <2>2, <2>3 DEF Inv, CheckInv, CompletedBy, In
<1>2. ASSUME Inv, Next PROVE Inv'
  <2>1. FileInv'
    BY <1>2, FileSteps
  <2>2. CASE CheckStep
    <3>1. PICK c \in Calls : RunCheck(c) \/ OpenGraph(c) \/ OpenFails(c) \/ WriteGraph(c) \/ WriteFails(c)
      BY <2>2 DEF CheckStep
    <3>2. Shape /\ CheckInv(c)
      BY <1>2 DEF Inv
    <3>3. PICK answer : /\ Moves(c, answer)
                        /\ answer.phase # "idle" /\ answer.command = commandOf(c)
                        /\ commandOf(c) \in Commands[c] /\ commandOf(c).name = "check"
                        /\ answer.phase # "ended" \/ answer.code = NoCode
                             => <<commandOf(c).input, commandOf(c).monitor>> \in Checks
                        /\ answer.phase = "ended" /\ answer.code = NoCode
                             => answer.exit = checkExit(commandOf(c))
      BY <3>1, <3>2, CheckKeeps
    <3>4. QED
      BY <1>2, <2>1, <3>3, MoveKeeps
  <2>3. CASE OtherStep
    <3>1. PICK c \in Calls : Start(c) \/ OpenLedger(c) \/ Traverse(c) \/ Validate(c)
                         \/ RunBench(c) \/ Return(c)
      BY <2>3 DEF OtherStep
    <3>2. Shape /\ CheckInv(c)
      BY <1>2 DEF Inv
    <3>3. CASE Start(c) \/ OpenLedger(c) \/ Return(c)
      <4>1. PICK answer : /\ Moves(c, answer) /\ answer.phase \in {"started", "reading", "idle"}
                          /\ answer.phase = "started" => answer.command \in Commands[c]
                          /\ answer.phase = "reading"
                               => answer.command = commandOf(c) /\ call[c].phase = "started"
        BY <3>2, <3>3, StartAnswers
      <4>2. answer.phase # "idle" => answer.command \in Commands[c]
        BY <3>2, <4>1 DEF CheckInv
      <4>3. QED
        BY <1>2, <2>1, <4>1, <4>2, MoveKeeps
    <3>4. CASE Traverse(c) \/ Validate(c)
      <4>1. PICK answer : /\ Moves(c, answer) /\ answer.phase = "ended"
                          /\ answer.command = commandOf(c)
                          /\ answer.command.name \in {"trace", "validate"}
        BY <3>2, <3>4, ReadingAnswers
      <4>2. commandOf(c) \in Commands[c]
        BY <3>2, <3>4 DEF CheckInv, Traverse, Validate, In
      <4>3. QED
        BY <1>2, <2>1, <4>1, <4>2, MoveKeeps
    <3>5. CASE RunBench(c)
      <4>1. PICK answer : /\ Moves(c, answer) /\ answer.phase = "ended"
                          /\ answer.command.name = "bench" /\ answer.command = commandOf(c)
        BY <3>2, <3>5, BenchAnswers
      <4>2. commandOf(c) \in Commands[c]
        BY <3>2, <3>5 DEF CheckInv, RunBench, In
      <4>3. QED
        BY <1>2, <2>1, <4>1, <4>2, MoveKeeps
    <3>6. QED
      BY <3>1, <3>3, <3>4, <3>5
  <2>4. CASE \E p \in Processes : Crash(p)
    <3>1. Shape' /\ \A c \in Calls : call'[c] = Idle \/ call'[c] = call[c]
      BY <1>2, <2>4, CrashAnswers DEF Inv
    <3>2. \A c \in Calls : CheckInv(c)'
      BY <1>2, <3>1 DEF Inv, CheckInv, CompletedBy, In, commandOf, Idle
    <3>3. QED
      BY <2>1, <3>1, <3>2 DEF Inv
  <2>5. QED
    BY <1>2, <2>2, <2>3, <2>4 DEF Next
<1>3. ASSUME Inv, UNCHANGED vars PROVE Inv'
  BY <1>3 DEF vars, fileVars, Inv, Shape, FileInv, Writers, CheckInv, commandOf, CompletedBy, In
<1>4. QED
  BY <1>1, <1>2, <1>3, PTL DEF Spec

\* An undisturbed answer, where a check stands whose ledger is sound, is that of
\* the ledger.
LEMMA AnswersFromStanding ==
  ASSUME Inv, Checks \subseteq SoundChecks, NEW c \in Readers \ overlapped, NEW check \in standing,
         Traverse(c) \/ Validate(c)
  PROVE  \/ /\ call'[c].code = NoCode /\ call'[c].exit = 0
            /\ call'[c].about = Document(check[1], check[2])
         \/ /\ call'[c].code = "INPUT_INVALID_CHECK" /\ commandOf(c).name = "trace"
            /\ commandOf(c).target \notin DOMAIN Ledgers[check].nodes
<1> DEFINE command == commandOf(c)
           seen == Document(check[1], check[2])
<1>1. Readable(c) = {seen} /\ check \in Checks
  BY DEF Inv, FileInv, Readable
<1>2. check = <<check[1], check[2]>>
  BY <1>1 DEF Checks
<1>3. seen.kind = "document" /\ <<seen.input, seen.monitor>> = check
  BY <1>2 DEF Document
<1>4. readFailure(seen) = NoCode /\ seen # Mixed /\ fromCanonicalJSON(seen) = Ledgers[check]
  BY <1>3 DEF readFailure, Mixed, fromCanonicalJSON
<1>5. validateGraph(Ledgers[check]) /\ loadable(Ledgers[check])
  BY <1>1 DEF SoundChecks
<1>6. c \in Calls /\ \A answer : Answer(c, answer) => call'[c] = answer
  BY Answered DEF Inv, Readers
<1> HIDE DEF seen
<1>7. /\ Ended(command, 0, NoCode, seen).code = NoCode /\ Ended(command, 0, NoCode, seen).exit = 0
      /\ Ended(command, 0, NoCode, seen).about = seen
      /\ Failed(command, "INPUT_INVALID_CHECK").code = "INPUT_INVALID_CHECK"
  BY DEF Failed, Ended
<1>8. CASE Traverse(c)
  <2>1. command.name = "trace" /\ \E answer \in traversalOf(command, seen) : Answer(c, answer)
    BY <1>1, <1>8 DEF Traverse, In, commandOf
  <2>2. traversalOf(command, seen) =
          IF command.target \notin DOMAIN Ledgers[check].nodes
          THEN {Failed(command, "INPUT_INVALID_CHECK")} ELSE {Ended(command, 0, NoCode, seen)}
    BY <1>4, <1>5 DEF traversalOf
  <2>3. QED
    BY <1>6, <1>7, <2>1, <2>2 DEF seen
<1>9. CASE Validate(c)
  <2>1. \E answer \in validationOf(command, seen) : Answer(c, answer)
    BY <1>1, <1>9 DEF Validate
  <2>2. validationOf(command, seen) = {Ended(command, 0, NoCode, seen)}
    BY <1>4, <1>5 DEF validationOf
  <2>3. QED
    BY <1>6, <1>7, <2>1, <2>2 DEF seen
<1>10. QED
  BY <1>8, <1>9

\* A call that reads ends by reading.
LEMMA ReadersEnd ==
  ASSUME Inv, NEW c \in Readers, Next, call'[c].phase = "ended"
  PROVE  Traverse(c) \/ Validate(c)
<1>1. Shape /\ c \in Calls /\ call[c].phase = "reading"
  BY DEF Inv, Readers
<1>2. CASE CheckStep
  <2>1. PICK d \in Calls : RunCheck(d) \/ OpenGraph(d) \/ OpenFails(d) \/ WriteGraph(d) \/ WriteFails(d)
    BY <1>2 DEF CheckStep
  <2>2. d # c
    BY <1>1, <2>1 DEF RunCheck, OpenGraph, OpenFails, WriteGraph, WriteFails, In
  <2>3. QED
    BY <1>1, <2>1, <2>2, CheckAnswers DEF Moves
<1>3. CASE OtherStep
  <2>1. PICK d \in Calls : Start(d) \/ OpenLedger(d) \/ Traverse(d) \/ Validate(d)
                         \/ RunBench(d) \/ Return(d)
    BY <1>3 DEF OtherStep
  <2>2. CASE d = c
    BY <1>1, <2>1, <2>2 DEF Start, OpenLedger, RunBench, Return, In, Idle
  <2>3. CASE d # c
    BY <1>1, <2>1, <2>3, StartAnswers, ReadingAnswers, BenchAnswers DEF Moves
  <2>4. QED
    BY <2>2, <2>3
<1>4. CASE \E p \in Processes : Crash(p)
  BY <1>1, <1>4, CrashAnswers DEF Idle
<1>5. QED
  BY <1>2, <1>3, <1>4 DEF Next
-------------------------------------------------------------------------------
\* The stage and the reason the pipeline names.
stageOf(verdicts, audit) ==
  IF BlockedAt(verdicts) # {} THEN "inbound"
  ELSE IF audit.verdict.decision = "block" THEN "outbound" ELSE "none"

reasonOf(verdicts, audit) ==
  IF BlockedAt(verdicts) # {} THEN verdicts[Earliest(BlockedAt(verdicts))].reasons[1]
  ELSE IF audit.verdict.decision = "block" THEN FirstReasonOf(audit)
  ELSE NoReasonCode

\* What the pipeline says of two gates' findings.
LEMMA GatedFields ==
  ASSUME NEW chunks, NEW verdicts, NEW output, NEW delivered, NEW audit, NEW monitor
  PROVE  LET gated == Gated(chunks, verdicts, output, delivered, audit, monitor)
         IN  /\ gated.chunks = chunks /\ gated.verdicts = verdicts
             /\ gated.output = output /\ gated.delivered = delivered
             /\ gated.audit = audit /\ gated.monitor = monitor
             /\ gated.wouldBlock = outcomeOf(verdicts, audit)
             /\ gated.stage = stageOf(verdicts, audit)
             /\ gated.reasonCode = reasonOf(verdicts, audit)
<1>1. PICK outcome, wouldBlock, stage, reasonCode :
        /\ wouldBlock = outcomeOf(verdicts, audit)
        /\ stage = stageOf(verdicts, audit)
        /\ reasonCode = reasonOf(verdicts, audit)
        /\ Gated(chunks, verdicts, output, delivered, audit, monitor)
             = [outcome |-> outcome, wouldBlock |-> wouldBlock, monitor |-> monitor,
                stage |-> stage, reasonCode |-> reasonCode, chunks |-> chunks,
                verdicts |-> verdicts, delivered |-> delivered, audit |-> audit,
                output |-> output]
  BY Zenon DEF Gated, stageOf, reasonOf
<1>2. QED
  BY <1>1

\* The chunks of a check's input, and the gates' findings on them.
ChunksOf(input) == Classified(input.entries)
VerdictsOf(input) ==
  [i \in DOMAIN ChunksOf(input) |-> checkSlot(ChunksOf(input)[i], resolveSlot(input))]

\* The entries of a check are a list.
LEMMA EntriesAreAList ==
  ASSUME InputsAreLists, NEW input, NEW monitor, <<input, monitor>> \in Checks
  PROVE  IsAList(input.entries)
<1>1. <<input, monitor>>[1] = input
  OBVIOUS
<1> QED
  BY <1>1 DEF InputsAreLists

\* The chunks of an input are its entries, in order.
LEMMA CheckLists ==
  ASSUME NEW input, IsAList(input.entries)
  PROVE  \E n \in Nat : /\ DOMAIN ChunksOf(input) = 1 .. n
                        /\ ChunksOf(input) = [i \in 1 .. n |-> toChunk(input.entries[i])]
                        /\ Len(ChunksOf(input)) = n /\ Len(input.entries) = n
<1>1. PICK S : input.entries \in Seq(S)
  BY DEF IsAList
<1>2. Len(input.entries) \in Nat /\ DOMAIN input.entries = 1 .. Len(input.entries)
  BY <1>1
<1>3. ChunksOf(input) = [i \in 1 .. Len(input.entries) |-> toChunk(input.entries[i])]
  BY <1>2 DEF ChunksOf, Classified
<1>4. Len(ChunksOf(input)) = Len(input.entries)
  BY <1>2, <1>3
<1>5. QED
  BY <1>2, <1>3, <1>4

\* What a check delivers to its audit: for each chunk the slot admits, the first of
\* its id.
DeliveredOf(input) == deliveredChunks(ChunksOf(input), VerdictsOf(input))

\* The chunk that an id is looked up as is a chunk of that id.
LEMMA FirstOfId ==
  ASSUME NEW input, IsAList(input.entries), NEW k \in DOMAIN ChunksOf(input)
  PROVE  \E m \in DOMAIN ChunksOf(input) :
           /\ requiredChunk(ChunksOf(input), ChunksOf(input)[k].id) = ChunksOf(input)[m]
           /\ ChunksOf(input)[m].id = ChunksOf(input)[k].id
<1> DEFINE chunks == ChunksOf(input)
           S == {i \in DOMAIN chunks : chunks[i].id = chunks[k].id}
<1>1. PICK n \in Nat : DOMAIN chunks = 1 .. n
  BY CheckLists
<1>2. S \in SUBSET (1 .. n) /\ S # {}
  BY <1>1
<1>3. Earliest(S) \in S
  <2> HIDE DEF S
  <2> QED
    BY <1>2, EarliestPosition
<1>4. requiredChunk(chunks, chunks[k].id) = chunks[Earliest(S)]
  BY DEF requiredChunk
<1>5. QED
  BY <1>3, <1>4

\* What is admitted are the chunks at the places that are allowed.
LEMMA AdmittedAt ==
  ASSUME NEW input
  PROVE  AdmittedOf(input) = ItemsAt(ChunksOf(input), Allowed(VerdictsOf(input)))
<1>1. Allowed(VerdictsOf(input))
        = {i \in DOMAIN ChunksOf(input) :
             checkSlot(ChunksOf(input)[i], resolveSlot(input)).decision = "allow"}
  BY DEF Allowed, VerdictsOf
<1> QED
  BY <1>1 DEF AdmittedOf, ChunksOf

\* Where ids tell chunks apart, what is delivered is what is admitted.
LEMMA OneIdDelivers ==
  ASSUME NEW input, IsAList(input.entries), OneIdOneChunk(input)
  PROVE  DeliveredOf(input) = AdmittedOf(input)
<1> DEFINE chunks == ChunksOf(input)
           allowed == Allowed(VerdictsOf(input))
           found == [k \in DOMAIN chunks |-> requiredChunk(chunks, chunks[k].id)]
<1>1. chunks = [i \in DOMAIN chunks |-> chunks[i]]
  BY EntriesAreAList, CheckLists
<1>2. \A k \in DOMAIN chunks : \E m \in DOMAIN chunks :
        found[k] = chunks[m] /\ chunks[m].id = chunks[k].id
  BY FirstOfId
<1>3. \A i, j \in DOMAIN chunks : chunks[i].id = chunks[j].id => chunks[i] = chunks[j]
  BY DEF OneIdOneChunk, ChunksOf
<1>4. DeliveredOf(input) = ItemsAt(found, allowed)
  BY DEF DeliveredOf, deliveredChunks
<1>5. found = [k \in DOMAIN chunks |-> found[k]]
  OBVIOUS
<1> HIDE DEF chunks, found
<1>6. \A k \in DOMAIN chunks : found[k] = chunks[k]
  BY <1>2, <1>3
<1>7. found = chunks
  BY <1>1, <1>5, <1>6
<1> QED
  BY <1>4, <1>7, AdmittedAt DEF chunks

\* What is delivered are chunks that are admitted, and where ids tell chunks apart
\* it is what is admitted.
LEMMA DeliveredIsAdmitted ==
  ASSUME InputsAreLists, IdsTellVerdicts, NEW input, NEW monitor, <<input, monitor>> \in Checks
  PROVE  /\ \A j \in DOMAIN DeliveredOf(input) :
              \E m \in Allowed(VerdictsOf(input)) : DeliveredOf(input)[j] = ChunksOf(input)[m]
         /\ OneIdOneChunk(input) => DeliveredOf(input) = AdmittedOf(input)
<1> DEFINE chunks == ChunksOf(input)
           allowed == Allowed(VerdictsOf(input))
           found == [k \in DOMAIN chunks |-> requiredChunk(chunks, chunks[k].id)]
<1>1. PICK n \in Nat : DOMAIN chunks = 1 .. n /\ chunks = [i \in 1 .. n |-> toChunk(input.entries[i])]
  BY EntriesAreAList, CheckLists
<1>3. allowed = {i \in DOMAIN chunks : checkSlot(chunks[i], resolveSlot(input)).decision = "allow"}
  BY DEF Allowed, VerdictsOf
<1>5. DeliveredOf(input) = ItemsAt(found, allowed)
  BY DEF DeliveredOf, deliveredChunks
<1>6. \A k \in DOMAIN chunks : \E m \in DOMAIN chunks :
        found[k] = chunks[m] /\ chunks[m].id = chunks[k].id
  BY EntriesAreAList, FirstOfId
<1>7. \A i, j \in DOMAIN chunks : chunks[i].id = chunks[j].id =>
        checkSlot(chunks[i], resolveSlot(input)).decision
          = checkSlot(chunks[j], resolveSlot(input)).decision
  BY DEF IdsTellVerdicts, ChunksOf
<1>9. found = [k \in DOMAIN chunks |-> found[k]] /\ DOMAIN found = 1 .. n /\ Len(found) = n
  BY <1>1
<1> HIDE DEF chunks, found, allowed
<1>10. ASSUME NEW j \in DOMAIN DeliveredOf(input)
       PROVE  \E m \in allowed : DeliveredOf(input)[j] = chunks[m]
  <2>1. DeliveredOf(input) \in Seq({found[k] : k \in allowed \cap (1 .. n)})
    BY <1>5, <1>9, ItemsKept
  <2>2. PICK k \in allowed \cap (1 .. n) : DeliveredOf(input)[j] = found[k]
    BY <2>1
  <2>3. PICK m \in DOMAIN chunks : found[k] = chunks[m] /\ chunks[m].id = chunks[k].id
    BY <1>1, <1>6
  <2>4. m \in allowed
    BY <1>1, <1>3, <1>7, <2>3
  <2>5. QED
    BY <2>2, <2>3, <2>4
<1>11. OneIdOneChunk(input) => DeliveredOf(input) = AdmittedOf(input)
  BY EntriesAreAList, OneIdDelivers
<1>12. QED
  BY <1>10, <1>11 DEF chunks, allowed

\* What a check makes of its input.
LEMMA CheckFields ==
  ASSUME NEW input, NEW monitor
  PROVE  LET result == checkOf(input, monitor)
         IN  /\ result.chunks = ChunksOf(input) /\ result.verdicts = VerdictsOf(input)
             /\ result.output = input.output /\ result.delivered = DeliveredOf(input)
             /\ result.audit = auditOutput(input.output, DeliveredOf(input), "block")
             /\ result.monitor = monitor
             /\ result.wouldBlock = outcomeOf(VerdictsOf(input), result.audit)
             /\ result.stage = stageOf(VerdictsOf(input), result.audit)
             /\ result.reasonCode = reasonOf(VerdictsOf(input), result.audit)
<1> DEFINE audit == auditOutput(input.output, DeliveredOf(input), "block")
           gated == Gated(ChunksOf(input), VerdictsOf(input), input.output,
                          DeliveredOf(input), audit, monitor)
<1>1. checkOf(input, monitor) = gated
  BY DEF checkOf, runPipeline, ChunksOf, VerdictsOf, DeliveredOf
<1>2. /\ gated.chunks = ChunksOf(input) /\ gated.verdicts = VerdictsOf(input)
      /\ gated.output = input.output /\ gated.delivered = DeliveredOf(input)
      /\ gated.audit = audit /\ gated.monitor = monitor
      /\ gated.wouldBlock = outcomeOf(VerdictsOf(input), audit)
      /\ gated.stage = stageOf(VerdictsOf(input), audit)
      /\ gated.reasonCode = reasonOf(VerdictsOf(input), audit)
  <2> HIDE DEF audit
  <2> QED
    BY GatedFields
<1> HIDE DEF gated
<1>3. QED
  BY <1>1, <1>2

\* An audit that is not refused grounds every claim, and the other way round.
LEMMA AuditAllows ==
  ASSUME NEW output, NEW evidence
  PROVE  LET audit == auditOutput(output, evidence, "block")
         IN  /\ audit.assessments = [i \in DOMAIN output |-> assessClaim(output[i], evidence)]
             /\ audit.verdict.decision \in {"allow", "block"}
             /\ audit.verdict.decision = "allow" <=>
                  \A i \in DOMAIN output : assessClaim(output[i], evidence).status = "grounded"
<1> DEFINE assessed == [i \in DOMAIN output |-> assessClaim(output[i], evidence)]
<1>1. \A i \in DOMAIN assessed : assessed[i].status \in GroundingStatuses
  BY AssessedStatus
<1>2. "block" \in UnverifiablePolicies
  BY DEF UnverifiablePolicies
<1>3. /\ auditOutput(output, evidence, "block").assessments = assessed
      /\ auditOutput(output, evidence, "block").verdict = verdictFor(assessed, "block")
  BY DEF auditOutput
<1>4. DOMAIN assessed = DOMAIN output /\ \A i \in DOMAIN output : assessed[i] = assessClaim(output[i], evidence)
  OBVIOUS
<1> HIDE DEF assessed
<1>5. /\ verdictFor(assessed, "block").decision \in {"allow", "block"}
      /\ verdictFor(assessed, "block").decision = "allow"
           <=> \A i \in DOMAIN assessed : assessed[i].status = "grounded"
  BY <1>1, <1>2, VerdictAllows
<1>6. QED
  BY <1>3, <1>4, <1>5 DEF assessed
-------------------------------------------------------------------------------
\* A list that ends in something is not empty.
LEMMA EmptyParts ==
  ASSUME NEW S, NEW s \in Seq(S), NEW t \in Seq(S), s \o t = <<>>
  PROVE  t = <<>>
<1>1. Len(s \o t) = Len(s) + Len(t)
  OBVIOUS
<1>2. QED
  BY <1>1

\* A chunk a slot of T1 to T3 admits is one a claim may be grounded on.
LEMMA AllowedTier ==
  ASSUME NEW chunk, NEW slot, checkSlot(chunk, slot).decision = "allow", slot.minTier \in 1 .. 3
  PROVE  ~isUntrustedTier(chunk.tier)
<1> DEFINE Codes == {"PAYLOAD_EMPTY", "PAYLOAD_TRUNCATED", "UPSTREAM_STATUS_NOT_OK",
                     "PROVENANCE_LABEL_MISMATCH", "RESULT_DEGRADED", "CHANNEL_NOT_PERMITTED",
                     "TIER_BELOW_MINIMUM"}
           low == ReasonIf(~tierMeetsMinimum(chunk.tier, slot.minTier), "TIER_BELOW_MINIMUM")
           before == payloadReasons(chunk)
                       \o ReasonIf(chunk.channel \notin slot.allowedChannels, "CHANNEL_NOT_PERMITTED")
<1>1. \A condition : \A code \in Codes : ReasonIf(condition, code) \in Seq(Codes)
  <2> SUFFICES ASSUME NEW condition, NEW code \in Codes PROVE ReasonIf(condition, code) \in Seq(Codes)
    OBVIOUS
  <2>1. ReasonIf(condition, code) \in {<<code>>, <<>>}
    BY Zenon DEF ReasonIf
  <2> HIDE DEF Codes
  <2>2. <<code>> \in Seq(Codes) /\ <<>> \in Seq(Codes)
    OBVIOUS
  <2>3. QED
    BY <2>1, <2>2
<1>2. payloadReasons(chunk) \in Seq(Codes)
  <2> DEFINE claims == ReasonIf(\/ chunk.status # NoStatus /\ isOkStatus(chunk.status)
                                \/ chunk.channel \in DATA_CHANNELS /\ chunk.tier <= 3,
                                "PROVENANCE_LABEL_MISMATCH")
             degraded == ReasonIf(classifySignature(chunk.text, chunk.status) = "degraded_result",
                                  "RESULT_DEGRADED")
             blank == ReasonIf(chunk.text.blank, "PAYLOAD_EMPTY")
             truncated == ReasonIf(chunk.text.truncated, "PAYLOAD_TRUNCATED")
             notOk == ReasonIf(chunk.status # NoStatus /\ ~isOkStatus(chunk.status),
                               "UPSTREAM_STATUS_NOT_OK")
  <2>1. /\ "PAYLOAD_EMPTY" \in Codes /\ "PAYLOAD_TRUNCATED" \in Codes
        /\ "UPSTREAM_STATUS_NOT_OK" \in Codes /\ "PROVENANCE_LABEL_MISMATCH" \in Codes
        /\ "RESULT_DEGRADED" \in Codes
    OBVIOUS
  <2>2. labelMismatchReasons(chunk) \in {<<>>, claims \o degraded}
    BY Zenon DEF labelMismatchReasons
  <2>3. payloadReasons(chunk) = blank \o truncated \o notOk \o labelMismatchReasons(chunk)
    BY DEF payloadReasons
  <2> HIDE DEF Codes
  <2>4. /\ blank \in Seq(Codes) /\ truncated \in Seq(Codes) /\ notOk \in Seq(Codes)
        /\ claims \in Seq(Codes) /\ degraded \in Seq(Codes)
    BY <1>1, <2>1, Zenon
  <2> HIDE DEF claims, degraded, blank, truncated, notOk
  <2>5. labelMismatchReasons(chunk) \in Seq(Codes)
    <3>1. <<>> \in Seq(Codes) /\ claims \o degraded \in Seq(Codes)
      BY <2>4
    <3>2. QED
      BY <2>2, <3>1
  <2>6. QED
    BY <2>3, <2>4, <2>5
<1>3. before \in Seq(Codes)
  <2>1. "CHANNEL_NOT_PERMITTED" \in Codes
    OBVIOUS
  <2> HIDE DEF Codes
  <2> DEFINE strange == ReasonIf(chunk.channel \notin slot.allowedChannels, "CHANNEL_NOT_PERMITTED")
  <2>2. strange \in Seq(Codes)
    BY <1>1, <2>1, Zenon
  <2> HIDE DEF strange
  <2>3. payloadReasons(chunk) \o strange \in Seq(Codes)
    BY <1>2, <2>2
  <2>4. QED
    BY <2>3 DEF strange
<1>4. before \o low = <<>>
  BY DEF checkSlot
<1>5. tierMeetsMinimum(chunk.tier, slot.minTier)
  <2> SUFFICES ASSUME ~tierMeetsMinimum(chunk.tier, slot.minTier) PROVE FALSE
    OBVIOUS
  <2>1. low = <<"TIER_BELOW_MINIMUM">>
    BY DEF ReasonIf
  <2> HIDE DEF before, low, Codes
  <2>2. "TIER_BELOW_MINIMUM" \in Codes
    BY DEF Codes
  <2>3. low \in Seq(Codes) /\ low # <<>>
    BY <2>1, <2>2
  <2>4. QED
    BY <1>3, <1>4, <2>3, EmptyParts
<1>6. QED
  BY <1>5 DEF tierMeetsMinimum, isUntrustedTier

\* A claim grounded on some evidence is grounded on trusted evidence that has all of
\* it.
LEMMA GroundedOnMore ==
  ASSUME NEW claim, NEW evidence, NEW more, NEW n \in Nat, DOMAIN more = 1 .. n,
         NEW E, claim.entities \in Seq(E), NEW N, claim.numbers \in Seq(N),
         \A j \in DOMAIN evidence : \E k \in DOMAIN more : more[k] = evidence[j],
         \A k \in DOMAIN more : ~isUntrustedTier(more[k].tier),
         assessClaim(claim, evidence).status = "grounded"
  PROVE  assessClaim(claim, more).status = "grounded"
<1> DEFINE Hits == {s \in Stages : trusted(hit(s, claim, evidence), evidence)}
<1>1. Hits # {}
  BY DEF assessClaim, Assessment
<1>2. PICK s \in Stages : hit(s, claim, evidence) # {}
  BY <1>1 DEF trusted
<1>3. hit(s, claim, more) # {}
  <2>1. CASE s = 1
    <3>1. stageExact(claim, evidence) # {}
      BY <1>2, <2>1 DEF hit
    <3>2. stageExact(claim, more) # {}
      BY <3>1 DEF stageExact
    <3>3. QED
      BY <2>1, <3>2 DEF hit
  <2>2. CASE s = 2
    <3>1. stageNormalized(claim, evidence) # {}
      BY <1>2, <2>2 DEF hit
    <3>2. stageNormalized(claim, more) # {}
      BY <3>1 DEF stageNormalized
    <3>3. QED
      BY <2>2, <3>2 DEF hit
  <2>3. CASE s = 3
    <3>1. stageNormalizedCoverage(claim, evidence) # {}
      BY <1>2, <2>3 DEF hit
    <3>2. stageNormalizedCoverage(claim, more) # {}
      BY <3>1 DEF stageNormalizedCoverage
    <3>3. QED
      BY <2>3, <3>2 DEF hit
  <2>4. CASE s = 4
    <3>1. stageSpecifics(claim, evidence) # {}
      BY <1>2, <2>4 DEF hit
    <3>2. Sourced(claim, evidence) = DOMAIN SpecificsOf(claim) /\ Occurring(claim, evidence) # {}
      BY <3>1 DEF stageSpecifics
    <3>3. Sourced(claim, more) = DOMAIN SpecificsOf(claim)
      BY <3>2 DEF Sourced
    <3>4. PICK i \in DOMAIN SpecificsOf(claim), j \in DOMAIN more :
            SpecificsOf(claim)[i] \in more[j].text.mentions
      <4>1. PICK o \in Occurrences(claim, evidence) : TRUE
        BY <3>2 DEF Occurring, dedupe
      <4>2. o[1] \in DOMAIN SpecificsOf(claim)
        BY DEF Occurrences
      <4>3. QED
        BY <3>3, <4>2 DEF Sourced
    <3> DEFINE O == Occurrences(claim, more)
               rows == {o[1] : o \in O}
               columns == {k \in DOMAIN more : <<First(rows), k>> \in O}
    <3>5. DOMAIN SpecificsOf(claim) \subseteq Nat
      <4>1. claim.entities \in Seq(E \cup N) /\ claim.numbers \in Seq(E \cup N)
        OBVIOUS
      <4>2. SpecificsOf(claim) \in Seq(E \cup N)
        BY <4>1 DEF SpecificsOf
      <4>3. QED
        BY <4>2
    <3>6. <<i, j>> \in O
      BY <3>4 DEF Occurrences
    <3>7. /\ First(rows) \in rows /\ rows \in SUBSET Nat
          /\ \A t \in rows : First(rows) <= t
      <4>1. rows \in SUBSET Nat
        BY <3>5 DEF Occurrences
      <4>2. rows # {}
        BY <3>6
      <4> HIDE DEF rows
      <4>3. QED
        BY <4>1, <4>2, FirstPosition
    <3>8. columns \in SUBSET Nat /\ columns # {}
      <4>1. PICK o \in O : o[1] = First(rows)
        BY <3>7
      <4>2. o = <<First(rows), o[2]>> /\ o[2] \in DOMAIN more
        BY <4>1 DEF Occurrences
      <4>3. o[2] \in columns
        <5> HIDE DEF O, rows
        <5> QED
          BY <4>1, <4>2
      <4>4. columns \subseteq DOMAIN more /\ DOMAIN more \subseteq Nat
        OBVIOUS
      <4> HIDE DEF columns
      <4>5. QED
        BY <4>3, <4>4
    <3>9. First(columns) \in columns /\ \A t \in columns : First(columns) <= t
      <4> HIDE DEF columns
      <4> QED
        BY <3>8, FirstPosition
    <3>10. PICK r \in Nat, c \in DOMAIN more :
             /\ <<r, c>> \in O
             /\ \A o \in O : r <= o[1] /\ (o[1] = r => c <= o[2])
      <4>1. First(columns) \in DOMAIN more /\ <<First(rows), First(columns)>> \in O
        BY <3>9
      <4>2. ASSUME NEW o \in O PROVE First(rows) <= o[1] /\ (o[1] = First(rows) => First(columns) <= o[2])
        <5>1. o[1] \in rows /\ o = <<o[1], o[2]>> /\ o[2] \in DOMAIN more
          BY DEF Occurrences
        <5>2. o[1] = First(rows) => o[2] \in columns
          BY <5>1
        <5>3. QED
          BY <3>7, <3>9, <5>1, <5>2
      <4>3. First(rows) \in Nat
        BY <3>7
      <4> HIDE DEF O, rows, columns
      <4>4. QED
        BY <4>1, <4>2, <4>3
    <3>11. \A p \in O : p[1] \in Nat /\ p[2] \in Nat
      BY <3>5 DEF Occurrences
    <3>12. \A p \in O : ~ListedBefore(p, <<r, c>>)
      <4> HIDE DEF O
      <4> QED
        BY <3>10, <3>11 DEF ListedBefore
    <3>13. <<r, c>> \in dedupe(O, more)
      <4> HIDE DEF O
      <4> QED
        BY <3>10, <3>12 DEF dedupe
    <3>14. Occurring(claim, more) # {}
      BY <3>13 DEF Occurring
    <3>15. stageSpecifics(claim, more) # {}
      BY <3>3, <3>14 DEF stageSpecifics
    <3>16. QED
      BY <2>4, <3>15 DEF hit
  <2>5. QED
    BY <2>1, <2>2, <2>3, <2>4 DEF Stages
<1>4. trusted(hit(s, claim, more), more)
  BY <1>3, HitInEvidence DEF trusted
<1>5. QED
  BY <1>4 DEF assessClaim, Assessment

\* What a check grounds is grounded on the chunks its slot admits, each itself.
LEMMA GroundedOnAdmitted ==
  ASSUME InputsAreLists, IdsTellVerdicts, SharedIdsAreTrusted,
         NEW input, NEW monitor, <<input, monitor>> \in Checks,
         NEW i \in DOMAIN input.output,
         assessClaim(input.output[i], DeliveredOf(input)).status = "grounded"
  PROVE  assessClaim(input.output[i], AdmittedOf(input)).status = "grounded"
<1> DEFINE chunks == ChunksOf(input)
           allowed == Allowed(VerdictsOf(input))
<1>1. CASE OneIdOneChunk(input)
  BY <1>1, DeliveredIsAdmitted
<1>2. CASE resolveSlot(input).minTier \in 1 .. 3
  <2>1. PICK n \in Nat : DOMAIN chunks = 1 .. n /\ Len(chunks) = n
    BY EntriesAreAList, CheckLists
  <2>2. allowed = {k \in DOMAIN chunks : checkSlot(chunks[k], resolveSlot(input)).decision = "allow"}
    BY DEF Allowed, VerdictsOf
  <2>3. AdmittedOf(input) = ItemsAt(chunks, allowed)
    BY <2>2 DEF AdmittedOf, ChunksOf
  <2>4. \A j \in DOMAIN DeliveredOf(input) : \E m \in allowed : DeliveredOf(input)[j] = chunks[m]
    BY DeliveredIsAdmitted
  <2>5. PICK E, N : input.output[i].entities \in Seq(E) /\ input.output[i].numbers \in Seq(N)
    BY DEF InputsAreLists, IsAList
  <2> HIDE DEF chunks, allowed
  <2>6. AdmittedOf(input) \in Seq({chunks[k] : k \in allowed \cap (1 .. n)})
    BY <2>1, <2>3, ItemsKept
  <2>7. PICK l \in Nat : DOMAIN AdmittedOf(input) = 1 .. l
    BY <2>6
  <2>8. \A k \in DOMAIN AdmittedOf(input) : ~isUntrustedTier(AdmittedOf(input)[k].tier)
    BY <1>2, <2>2, <2>6, AllowedTier
  <2>9. \A j \in DOMAIN DeliveredOf(input) :
          \E k \in DOMAIN AdmittedOf(input) : AdmittedOf(input)[k] = DeliveredOf(input)[j]
    <3> SUFFICES ASSUME NEW j \in DOMAIN DeliveredOf(input)
                 PROVE  \E k \in DOMAIN AdmittedOf(input) :
                          AdmittedOf(input)[k] = DeliveredOf(input)[j]
      OBVIOUS
    <3>1. PICK m \in allowed : DeliveredOf(input)[j] = chunks[m]
      BY <2>4
    <3>2. m \in allowed \cap (1 .. Len(chunks)) /\ Len(chunks) \in Nat
      BY <2>1, <2>2
    <3>3. QED
      BY <2>3, <3>1, <3>2, EachKept
  <2>10. QED
    BY <2>5, <2>7, <2>8, <2>9, GroundedOnMore
<1>3. QED
  BY <1>1, <1>2 DEF SharedIdsAreTrusted

\* What a completed check has made of its input.
LEMMA CompletedCheck ==
  ASSUME Inv, NEW c \in Calls, CompletedBy(c, "check")
  PROVE  /\ resultOf(commandOf(c)).audit
              = auditOutput(commandOf(c).input.output, DeliveredOf(commandOf(c).input), "block")
         /\ resultOf(commandOf(c)).wouldBlock
              = outcomeOf(VerdictsOf(commandOf(c).input), resultOf(commandOf(c)).audit)
         /\ call[c].exit = checkExit(commandOf(c))
         /\ <<commandOf(c).input, commandOf(c).monitor>> \in Checks
<1> DEFINE input == commandOf(c).input
           monitor == commandOf(c).monitor
<1>1. <<input, monitor>> \in Checks /\ call[c].exit = checkExit(commandOf(c))
  BY DEF Inv, CheckInv
<1>2. resultOf(commandOf(c)) = checkOf(input, monitor)
  BY <1>1 DEF resultOf, Checked
<1> HIDE DEF input, monitor
<1>3. /\ checkOf(input, monitor).audit = auditOutput(input.output, DeliveredOf(input), "block")
      /\ checkOf(input, monitor).wouldBlock
           = outcomeOf(VerdictsOf(input), checkOf(input, monitor).audit)
  BY CheckFields
<1>4. QED
  BY <1>1, <1>2, <1>3 DEF input, monitor

(* "A claim supported only by a chunk that inbound rejected is not          *)
(* grounded": no check reports a claim as grounded but on the chunks the    *)
(* slot admits, each taken for itself, where no id names both an admitted   *)
(* and a refused chunk (runPipeline, deliveredChunks).                      *)
THEOREM RefusedNeverGround ==
  ASSUME InputsAreLists, IdsTellVerdicts, SharedIdsAreTrusted
  PROVE  Spec => []RefusedNeverGrounds
<1>1. ASSUME Inv PROVE RefusedNeverGrounds
  <2> SUFFICES ASSUME NEW c \in Calls, CompletedBy(c, "check"),
                      NEW n \in DOMAIN resultOf(commandOf(c)).audit.assessments,
                      resultOf(commandOf(c)).audit.assessments[n].status = "grounded"
               PROVE  assessClaim(commandOf(c).input.output[n],
                                  AdmittedOf(commandOf(c).input)).status = "grounded"
    BY DEF RefusedNeverGrounds
  <2> DEFINE input == commandOf(c).input
             monitor == commandOf(c).monitor
             assessed == resultOf(commandOf(c)).audit.assessments
  <2>1. /\ resultOf(commandOf(c)).audit = auditOutput(input.output, DeliveredOf(input), "block")
        /\ <<input, monitor>> \in Checks
    BY <1>1, CompletedCheck
  <2>2. assessed = [i \in DOMAIN input.output |-> assessClaim(input.output[i], DeliveredOf(input))]
    BY <2>1, AuditAllows
  <2>3. n \in DOMAIN assessed /\ assessed[n].status = "grounded"
    OBVIOUS
  <2> HIDE DEF assessed, input, monitor
  <2>4. n \in DOMAIN input.output /\ assessClaim(input.output[n], DeliveredOf(input)).status = "grounded"
    BY <2>2, <2>3
  <2>5. assessClaim(input.output[n], AdmittedOf(input)).status = "grounded"
    BY <2>1, <2>4, GroundedOnAdmitted
  <2>6. QED
    BY <2>5 DEF input
<1>2. QED
  BY <1>1, InvHolds, PTL

(* An output that an enforcing check lets pass is one the guard of the      *)
(* middleware delivers for the same candidates under the same slot, though  *)
(* each composes the two gates on its own (outcomeOf, exitCodeFor).         *)
THEOREM AllowedIsAlwaysDeliverable ==
  ASSUME InputsAreLists, IdsTellVerdicts, SharedIdsAreTrusted
  PROVE  Spec => []AllowedIsDeliverable
<1>1. ASSUME Inv PROVE AllowedIsDeliverable
  <2> SUFFICES ASSUME NEW c \in Calls, CompletedBy(c, "check"), call[c].exit = 0,
                      ~commandOf(c).monitor
               PROVE  guardDelivers(commandOf(c).input)
    BY DEF AllowedIsDeliverable
  <2> DEFINE input == commandOf(c).input
             monitor == commandOf(c).monitor
             audit == auditOutput(input.output, DeliveredOf(input), "block")
  <2>1. /\ resultOf(commandOf(c)).audit = audit
        /\ resultOf(commandOf(c)).wouldBlock = outcomeOf(VerdictsOf(input), audit)
        /\ call[c].exit = checkExit(commandOf(c))
        /\ <<input, monitor>> \in Checks
    BY <1>1, CompletedCheck
  <2>2. ~outcomeOf(VerdictsOf(input), audit)
    BY <2>1 DEF checkExit
  <2>3. audit.verdict.decision # "block"
    BY <2>2 DEF outcomeOf
  <2>4. \A i \in DOMAIN input.output :
          assessClaim(input.output[i], DeliveredOf(input)).status = "grounded"
    BY <2>3, AuditAllows
  <2> HIDE DEF input, monitor
  <2>5. \A i \in DOMAIN input.output :
          assessClaim(input.output[i], AdmittedOf(input)).status = "grounded"
    BY <2>1, <2>4, GroundedOnAdmitted
  <2>6. guardDelivers(input)
    <3>1. auditOutput(input.output, AdmittedOf(input), "block").verdict.decision = "allow"
            <=> \A i \in DOMAIN input.output :
                  assessClaim(input.output[i], AdmittedOf(input)).status = "grounded"
      BY AuditAllows
    <3>2. QED
      BY <2>5, <3>1 DEF guardDelivers
  <2>7. QED
    BY <2>6 DEF input
<1>2. QED
  BY <1>1, InvHolds, PTL

-------------------------------------------------------------------------------
\* The audit the ledger of a check is built from.
AuditOf(input, monitor) == auditFromPipeline(checkOf(input, monitor), slotNameOf(input))

\* The ids of the chunks a check delivers, and what it decides on an id.
IdsDelivered(input) == {DeliveredOf(input)[k].id : k \in DOMAIN DeliveredOf(input)}

DecisionOn(input, id) ==
  VerdictsOf(input)[Latest({i \in DOMAIN ChunksOf(input) : ChunksOf(input)[i].id = id})].decision

\* What it tells of the chunks, the claims and the output.
LEMMA AuditFields ==
  ASSUME NEW input, NEW monitor
  PROVE  LET audit == AuditOf(input, monitor)
             Assessed(n) == assessClaim(input.output[n], DeliveredOf(input))
         IN  /\ DOMAIN audit.chunks = DOMAIN ChunksOf(input)
             /\ \A k \in DOMAIN ChunksOf(input) :
                  /\ audit.chunks[k].chunk = ChunksOf(input)[k]
                  /\ audit.chunks[k].admitted <=> ChunksOf(input)[k].id \in IdsDelivered(input)
                  /\ audit.chunks[k].decision = DecisionOn(input, ChunksOf(input)[k].id)
             /\ DOMAIN audit.claims = DOMAIN input.output
             /\ \A n \in DOMAIN input.output :
                  /\ audit.claims[n].status = Assessed(n).status
                  /\ audit.claims[n].supporting = Assessed(n).supporting
             /\ audit.delivered <=>
                  \/ monitor
                  \/ ~outcomeOf(VerdictsOf(input),
                                auditOutput(input.output, DeliveredOf(input), "block"))
             /\ audit.policy.mode = IF monitor THEN "monitor" ELSE "enforce"
<1> DEFINE result == checkOf(input, monitor)
           assessed == auditOutput(input.output, DeliveredOf(input), "block").assessments
           chunks == ChunksOf(input)
           delivered == IdsDelivered(input)
           blocked == outcomeOf(VerdictsOf(input),
                                auditOutput(input.output, DeliveredOf(input), "block"))
<1>1. /\ result.chunks = chunks /\ result.verdicts = VerdictsOf(input)
      /\ result.output = input.output /\ result.delivered = DeliveredOf(input)
      /\ result.audit.assessments = assessed
      /\ result.monitor = monitor
      /\ result.wouldBlock = blocked
  BY CheckFields
<1>2. assessed = [i \in DOMAIN input.output |-> assessClaim(input.output[i], DeliveredOf(input))]
  BY AuditAllows
<1> HIDE DEF result, assessed, chunks, blocked
<1> DEFINE Rows == [i \in DOMAIN chunks |->
                      [chunk |-> chunks[i], admitted |-> chunks[i].id \in delivered,
                       decision |-> DecisionOn(input, chunks[i].id)]]
           Claims == [n \in DOMAIN input.output |->
                        [status |-> assessed[n].status, method |-> assessed[n].decidedBy,
                         supporting |-> assessed[n].supporting]]
<1>3. PICK key, policy, reached :
        /\ policy.mode = IF monitor THEN "monitor" ELSE "enforce"
        /\ reached = (monitor \/ ~blocked)
        /\ AuditOf(input, monitor)
             = [tenant |-> DEFAULT_TENANT, runKey |-> key, policy |-> policy,
                output |-> input.output, delivered |-> reached, chunks |-> Rows, claims |-> Claims]
  <2> DEFINE policy == [name |-> "default", version |-> "1",
                        mode |-> IF monitor THEN "monitor" ELSE "enforce",
                        contentHash |-> contentDigest(slotNameOf(input))]
             key == <<input.output, slotNameOf(input),
                      [i \in DOMAIN chunks |-> <<chunks[i].id, contentDigest(chunks[i].text)>>]>>
  <2>1. policy.mode = IF monitor THEN "monitor" ELSE "enforce"
    OBVIOUS
  <2>2. auditFromPipeline(result, slotNameOf(input))
             = [tenant |-> DEFAULT_TENANT, runKey |-> key, policy |-> policy,
                output |-> input.output, delivered |-> monitor \/ ~blocked,
                chunks |-> Rows, claims |-> Claims]
    BY <1>1, Zenon DEF auditFromPipeline, IdsDelivered, DecisionOn, chunks
  <2>3. AuditOf(input, monitor) = auditFromPipeline(result, slotNameOf(input))
    BY DEF AuditOf, result
  <2> HIDE DEF policy, key, Rows, Claims
  <2>4. QED
    BY <2>1, <2>2, <2>3, Zenon
<1>4. /\ AuditOf(input, monitor).chunks = Rows /\ AuditOf(input, monitor).claims = Claims
      /\ AuditOf(input, monitor).policy.mode = IF monitor THEN "monitor" ELSE "enforce"
      /\ AuditOf(input, monitor).delivered = reached
  <2> HIDE DEF Rows, Claims
  <2> QED
    BY <1>3
<1>5. AuditOf(input, monitor).delivered <=> (monitor \/ ~blocked)
  <2>1. reached = (monitor \/ ~blocked) /\ AuditOf(input, monitor).delivered = reached
    BY <1>3, <1>4
  <2>2. QED
    BY <2>1, Zenon
<1>6. DOMAIN Rows = DOMAIN chunks /\
      \A k \in DOMAIN chunks : /\ Rows[k].chunk = chunks[k]
                               /\ Rows[k].admitted <=> chunks[k].id \in delivered
                               /\ Rows[k].decision = DecisionOn(input, chunks[k].id)
  <2>1. ASSUME NEW k \in DOMAIN chunks
        PROVE  /\ Rows[k].chunk = chunks[k]
               /\ Rows[k].admitted <=> chunks[k].id \in delivered
               /\ Rows[k].decision = DecisionOn(input, chunks[k].id)
    <3>1. PICK in, decision : in = (chunks[k].id \in delivered)
                              /\ decision = DecisionOn(input, chunks[k].id)
      BY Zenon
    <3>2. Rows[k] = [chunk |-> chunks[k], admitted |-> in, decision |-> decision]
      BY <3>1, Zenon
    <3> HIDE DEF Rows
    <3>3. /\ Rows[k].chunk = chunks[k] /\ Rows[k].admitted = in /\ Rows[k].decision = decision
      BY <3>2
    <3>4. QED
      BY <3>1, <3>3, Zenon
  <2>2. QED
    BY <2>1
<1>7. DOMAIN Claims = DOMAIN input.output /\
      \A n \in DOMAIN input.output :
        /\ Claims[n].status = assessClaim(input.output[n], DeliveredOf(input)).status
        /\ Claims[n].supporting = assessClaim(input.output[n], DeliveredOf(input)).supporting
  BY <1>2
<1> HIDE DEF Rows, Claims
<1>8. QED
  BY <1>4, <1>5, <1>6, <1>7 DEF chunks, blocked

\* A chunk that grounds a claim of a check is one its slot admits, and is
\* recorded as one.
LEMMA NamedIsAllowed ==
  ASSUME InputsAreLists, IdsTellVerdicts, NEW input, NEW monitor, <<input, monitor>> \in Checks,
         NEW i \in DOMAIN input.output,
         NEW c \in NamedBy(AuditOf(input, monitor), AuditOf(input, monitor).claims[i].supporting)
  PROVE  \E k \in DOMAIN AuditOf(input, monitor).chunks :
           /\ c = ChunkIn(AuditOf(input, monitor), k)
           /\ AuditOf(input, monitor).chunks[k].admitted
           /\ AuditOf(input, monitor).chunks[k].decision = "allow"
<1> DEFINE chunks == ChunksOf(input)
           audit == AuditOf(input, monitor)
           delivered == IdsDelivered(input)
           Sharing(id) == {m \in DOMAIN chunks : chunks[m].id = id}
<1>1. PICK n \in Nat : DOMAIN chunks = 1 .. n /\ Len(chunks) = n
  BY EntriesAreAList, CheckLists
<1>2. /\ DOMAIN audit.chunks = DOMAIN chunks
      /\ \A k \in DOMAIN chunks :
           /\ audit.chunks[k].chunk = chunks[k]
           /\ audit.chunks[k].admitted <=> chunks[k].id \in delivered
           /\ audit.chunks[k].decision = DecisionOn(input, chunks[k].id)
  BY AuditFields
<1>3. audit.claims[i].supporting \subseteq delivered
  <2>1. \A m \in DOMAIN input.output :
          audit.claims[m].supporting = assessClaim(input.output[m], DeliveredOf(input)).supporting
    BY AuditFields
  <2>2. audit.claims[i].supporting = assessClaim(input.output[i], DeliveredOf(input)).supporting
    BY <2>1
  <2> HIDE DEF audit
  <2>3. QED
    BY <2>2, SupportInEvidence DEF IdsDelivered
<1>4. \A j \in DOMAIN DeliveredOf(input) :
        \E q \in Allowed(VerdictsOf(input)) : DeliveredOf(input)[j] = chunks[q]
  BY DeliveredIsAdmitted
<1>5. \A q \in DOMAIN chunks : VerdictsOf(input)[q] = checkSlot(chunks[q], resolveSlot(input))
  BY DEF VerdictsOf
<1>6. \A p, q \in DOMAIN chunks : chunks[p].id = chunks[q].id =>
        checkSlot(chunks[p], resolveSlot(input)).decision
          = checkSlot(chunks[q], resolveSlot(input)).decision
  BY DEF IdsTellVerdicts, ChunksOf
<1>7. Allowed(VerdictsOf(input))
        = {q \in DOMAIN chunks : VerdictsOf(input)[q].decision = "allow"}
  BY DEF Allowed, VerdictsOf
<1>8. c \in NamedBy(audit, audit.claims[i].supporting) /\ DOMAIN audit.chunks = 1 .. n
  BY <1>1, <1>2
<1> HIDE DEF audit, chunks
<1>9. PICK k \in DOMAIN chunks : c = ChunkIn(audit, k) /\ chunks[k].id \in delivered
  <2> HIDE DEF delivered
  <2>1. PICK k \in DOMAIN audit.chunks :
          c = ChunkIn(audit, k) /\ audit.chunks[k].chunk.id \in audit.claims[i].supporting
    BY <1>8, NamedIsChunk
  <2>2. k \in DOMAIN chunks /\ audit.chunks[k].chunk = chunks[k]
    BY <1>2, <2>1
  <2>3. QED
    BY <1>3, <2>1, <2>2
<1>10. PICK q \in DOMAIN chunks : VerdictsOf(input)[q].decision = "allow" /\ chunks[q].id = chunks[k].id
  <2>1. PICK j \in DOMAIN DeliveredOf(input) : DeliveredOf(input)[j].id = chunks[k].id
    BY <1>9 DEF IdsDelivered
  <2>2. PICK q \in Allowed(VerdictsOf(input)) : DeliveredOf(input)[j] = chunks[q]
    BY <1>4
  <2>3. QED
    BY <1>7, <2>1, <2>2
<1>11. Latest(Sharing(chunks[k].id)) \in Sharing(chunks[k].id)
  <2> DEFINE S == Sharing(chunks[k].id)
  <2>1. S \in SUBSET (1 .. n) /\ S # {}
    BY <1>1
  <2> HIDE DEF S
  <2>2. Latest(S) \in S
    BY <2>1, LatestPosition
  <2>3. QED
    BY <2>2 DEF S
<1>12. audit.chunks[k].decision = "allow"
  <2>1. PICK m \in DOMAIN chunks : m = Latest(Sharing(chunks[k].id)) /\ chunks[m].id = chunks[k].id
    BY <1>11
  <2>2. VerdictsOf(input)[m].decision = "allow"
    BY <1>5, <1>6, <1>10, <2>1
  <2>3. QED
    BY <1>2, <2>1, <2>2 DEF DecisionOn, chunks
<1>13. QED
  BY <1>2, <1>9, <1>12 DEF audit

\* The ledger of a check is one a validation finds nothing wrong with.
LEMMA CheckSound ==
  ASSUME InputsAreLists, IdsTellVerdicts, NEW input, NEW monitor, <<input, monitor>> \in Checks
  PROVE  validateGraph(graphOfCheck(input, monitor)) /\ loadable(graphOfCheck(input, monitor))
<1> DEFINE audit == AuditOf(input, monitor)
           graph == buildGraph(audit)
<1>1. graphOfCheck(input, monitor) = graph
  BY DEF graphOfCheck, AuditOf
<1>2. PICK n \in Nat : DOMAIN audit.chunks = 1 .. n
  BY EntriesAreAList, CheckLists, AuditFields
<1>3. /\ DOMAIN graph.nodes = IdsIn(audit)
      /\ \A id \in IdsIn(audit) : graph.nodes[id] = AttributesIn(audit, id)
      /\ graph.edges = EdgesIn(audit)
  BY DEF buildGraph
<1>4. DOMAIN audit.claims = DOMAIN input.output
  BY AuditFields
<1>5. /\ \A k \in DOMAIN input.output :
           audit.claims[k].status = assessClaim(input.output[k], DeliveredOf(input)).status
      /\ audit.delivered <=> \/ monitor
                             \/ ~outcomeOf(VerdictsOf(input),
                                    auditOutput(input.output, DeliveredOf(input), "block"))
      /\ audit.policy.mode = IF monitor THEN "monitor" ELSE "enforce"
  BY AuditFields
<1>6. \A i \in DOMAIN input.output : \A c \in NamedBy(audit, audit.claims[i].supporting) :
        \E k \in DOMAIN audit.chunks : /\ c = ChunkIn(audit, k)
                                       /\ audit.chunks[k].admitted
                                       /\ audit.chunks[k].decision = "allow"
  BY NamedIsAllowed
<1> HIDE DEF audit, graph
<1>7. Dangling(graph) = {} /\ IllFormed(graph) = {} /\ loadable(graph)
  <2>1. \A e \in graph.edges : SoundEdge(audit, e) /\ IdsIn(audit) \subseteq DOMAIN graph.nodes
    BY <1>2, <1>3, EdgesSound
  <2>2. QED
    BY <2>1, SoundGraph
<1>8. \A v \in OfKind(graph, "Verdict") : \E target \in ChunksIn(audit) \cup ClaimsIn(audit) :
        v = VerdictIn(audit, target) /\ v[3] = target /\ graph.nodes[v] = VerdictOn(audit, target)
  <2> SUFFICES ASSUME NEW v \in OfKind(graph, "Verdict")
               PROVE  \E target \in ChunksIn(audit) \cup ClaimsIn(audit) :
                        /\ v = VerdictIn(audit, target) /\ v[3] = target
                        /\ graph.nodes[v] = VerdictOn(audit, target)
    OBVIOUS
  <2>1. v \in IdsIn(audit) /\ KindOf(v) = "Verdict"
    BY <1>3 DEF OfKind
  <2>2. PICK target \in ChunksIn(audit) \cup ClaimsIn(audit) : v = VerdictIn(audit, target)
    BY <2>1, MembersOfKind
  <2>3. QED
    BY <1>3, <2>1, <2>2, VerdictAttributes
<1>9. SupportFromBlocked(graph) = {}
  <2> SUFFICES ASSUME NEW e \in graph.edges, e.type = "SUPPORTED_BY", e.to \in Refused(graph)
               PROVE  FALSE
    BY DEF SupportFromBlocked
  <2>1. PICK i \in DOMAIN audit.claims : \E chunk \in NamedBy(audit, audit.claims[i].supporting) :
          e = createEdge(audit.tenant, "SUPPORTED_BY", ClaimIn(audit, i), chunk)
    BY <1>3, SupportEdges
  <2>2. e.to \in NamedBy(audit, audit.claims[i].supporting)
    BY <2>1 DEF createEdge
  <2>3. PICK k \in DOMAIN audit.chunks : /\ e.to = ChunkIn(audit, k)
                                         /\ audit.chunks[k].admitted
                                         /\ audit.chunks[k].decision = "allow"
    BY <1>4, <1>6, <2>2
  <2>4. graph.nodes[e.to].admitted
    <3>1. e.to \in IdsIn(audit)
      BY <2>3 DEF IdsIn, ChunksIn
    <3>2. graph.nodes[e.to] = AttributesIn(audit, ChunkIn(audit, k))
      BY <1>3, <2>3, <3>1
    <3>3. QED
      BY <2>3, <3>2, ChunkAttributes, Zenon
  <2>5. PICK v \in OfKind(graph, "Verdict") : v[3] = e.to /\ graph.nodes[v].decision # "allow"
    BY <2>4 DEF Refused
  <2>6. graph.nodes[v] = VerdictOn(audit, ChunkIn(audit, k))
    BY <1>8, <2>3, <2>5
  <2>7. QED
    BY <2>3, <2>5, <2>6, ChunkVerdict
<1>10. UnsupportedDelivery(graph) = {}
  <2> SUFFICES ASSUME NEW c \in OfKind(graph, "Claim"),
                      c[3] \in DOMAIN graph.nodes, graph.nodes[c[3]].delivered
               PROVE  \E v \in OfKind(graph, "Verdict") :
                        v[3] = c /\ (graph.nodes[v].decision = "allow" \/ graph.nodes[v].monitored)
    BY DEF UnsupportedDelivery
  <2>1. c \in IdsIn(audit) /\ KindOf(c) = "Claim"
    BY <1>3 DEF OfKind
  <2>2. PICK i \in DOMAIN input.output : c = ClaimIn(audit, i) /\ c \in ClaimsIn(audit)
    BY <1>4, <2>1, MembersOfKind DEF ClaimsIn
  <2> DEFINE v == VerdictIn(audit, c)
  <2>3. v \in OfKind(graph, "Verdict") /\ v[3] = c
    <3>1. v \in IdsIn(audit)
      BY <2>2 DEF IdsIn
    <3>2. KindOf(v) = "Verdict"
      BY VerdictForm DEF LocalTo
    <3>3. QED
      BY <1>3, <3>1, <3>2, VerdictAttributes DEF OfKind
  <2>4. graph.nodes[v] = VerdictOn(audit, ClaimIn(audit, i))
    <3>1. v \in IdsIn(audit)
      BY <2>2 DEF IdsIn
    <3>2. QED
      BY <1>3, <2>2, <3>1, VerdictAttributes
  <2> HIDE DEF v
  <2>5. CASE monitor
    <3>1. graph.nodes[v].monitored
      <4>1. audit.policy.mode = "monitor"
        BY <1>5, <2>5
      <4>2. VerdictOn(audit, ClaimIn(audit, i)).monitored
        BY <4>1, ClaimVerdict, Zenon
      <4>3. QED
        BY <2>4, <4>2, Zenon
    <3>2. QED
      BY <2>3, <3>1, Zenon
  <2>6. CASE ~monitor
    <3> DEFINE output == auditOutput(input.output, DeliveredOf(input), "block")
    <3>1. audit.delivered
      <4>1. c[3] = OutputIn(audit)
        BY <2>2 DEF ClaimIn, ClaimId
      <4>2. OutputIn(audit) \in IdsIn(audit)
        BY DEF IdsIn
      <4>3. AttributesIn(audit, OutputIn(audit)) = [delivered |-> audit.delivered]
        BY DEF AttributesIn, OutputIn, OutputId, KindOf
      <4>4. PICK delivered : delivered = audit.delivered
        OBVIOUS
      <4>5. graph.nodes[c[3]] = [delivered |-> delivered]
        BY <1>3, <4>1, <4>2, <4>3, <4>4
      <4>6. graph.nodes[c[3]].delivered = delivered
        BY <4>5
      <4>7. QED
        BY <4>4, <4>6, Zenon
    <3>2. ~outcomeOf(VerdictsOf(input), output)
      BY <1>5, <2>6, <3>1, Zenon
    <3>3. output.verdict.decision = "allow"
      <4>1. output.verdict.decision \in {"allow", "block"}
        BY AuditAllows
      <4> HIDE DEF output
      <4>2. QED
        BY <3>2, <4>1 DEF outcomeOf
    <3>4. assessClaim(input.output[i], DeliveredOf(input)).status = "grounded"
      BY <3>3, AuditAllows
    <3>5. graph.nodes[v].decision = "allow"
      BY <1>5, <2>4, <3>4, ClaimVerdict DEF decisionForGrounding
    <3>6. QED
      BY <2>3, <3>5
  <2>7. QED
    BY <2>5, <2>6
<1>11. ~Cyclic(graph)
  BY <1>7 DEF loadable
<1>12. QED
  BY <1>1, <1>7, <1>9, <1>10, <1>11 DEF validateGraph

\* The ledgers of all checks are sound.
LEMMA AllSound ==
  ASSUME InputsAreLists, IdsTellVerdicts
  PROVE  Checks \subseteq SoundChecks
<1>1. SUFFICES ASSUME NEW check \in Checks PROVE check \in SoundChecks
  OBVIOUS
<1>2. PICK input, monitor : check = <<input, monitor>>
  BY DEF Checks
<1>3. Ledgers[check] = graphOfCheck(input, monitor)
  BY <1>2 DEF Ledgers
<1>4. QED
  BY <1>2, <1>3, CheckSound DEF SoundChecks

(* The ledger of any check, of a blocked output or in monitor mode too, is  *)
(* one `graph validate` finds nothing wrong with and a traversal loads      *)
(* (buildGraph over auditFromPipeline, validateGraph): with no assumption   *)
(* on the ledgers but that no id of a check names both an admitted and a    *)
(* refused chunk.                                                           *)
THEOREM LedgersAlwaysValidate ==
  ASSUME InputsAreLists, IdsTellVerdicts
  PROVE  Spec => []CheckedGraphValidates
<1>1. Inv => CheckedGraphValidates
  BY AllSound DEF Inv, CheckInv, CheckedGraphValidates
<1>2. QED
  BY <1>1, InvHolds, PTL

(* However many checks have crashed or failed in the middle of the file or  *)
(* written into each other's documents, one check that writes it by itself  *)
(* makes it whole: an undisturbed traversal or validation answers from that *)
(* check's ledger, which loads and validates (writeGraphForRun,             *)
(* readGraphDocument, loadGraphStore, runGraphCommand).                     *)
THEOREM RewriteAlwaysRestores ==
  ASSUME InputsAreLists, IdsTellVerdicts
  PROVE  Spec => RewriteRestores
<1> DEFINE Restored == \A c \in Readers \ overlapped : \A check \in standing :
             call'[c].phase = "ended" =>
               \/ /\ call'[c].code = NoCode /\ call'[c].exit = 0
                  /\ call'[c].about = Document(check[1], check[2])
               \/ /\ call'[c].code = "INPUT_INVALID_CHECK" /\ commandOf(c).name = "trace"
                  /\ commandOf(c).target \notin DOMAIN Ledgers[check].nodes
<1>1. Inv /\ [Next]_vars => [Restored]_vars
  BY AllSound, ReadersEnd, AnswersFromStanding
<1>2. QED
  BY <1>1, InvHolds, PTL DEF Spec, RewriteRestores
-------------------------------------------------------------------------------
\* How many items are in each cell.
CountsIn(I, cellOf, S) == [v \in S |-> Cardinality({i \in I : cellOf[i] = v})]

\* The numbers of items in some cells add up to the number of items in any of them.
LEMMA CountsAddUp ==
  ASSUME NEW I, IsFiniteSet(I), NEW cellOf, NEW S, IsFiniteSet(S)
  PROVE  Total(CountsIn(I, cellOf, S)) = Cardinality({i \in I : cellOf[i] \in S})
<1> DEFINE f == [v \in S |-> Cardinality({i \in I : cellOf[i] = v})]
           Within(s) == {i \in I : cellOf[i] \in s}
           some(s) == CHOOSE x \in s : TRUE
           IsSum(g) == g = [s \in SUBSET S |-> IF s = {} THEN 0
                                               ELSE f[some(s)] + g[s \ {some(s)}]]
           sum == CHOOSE g : IsSum(g)
           W == [s \in SUBSET S |-> Cardinality(Within(s))]
<1>1. Total(f) = sum[S]
  BY DEF Total, FoldFunction, FoldFunctionOnSet, MapThenFoldSet
<1>2. \A s \in SUBSET S : s # {} => some(s) \in s
  OBVIOUS
<1>3. \A s \in SUBSET S : s # {} =>
        Cardinality(Within(s)) = f[some(s)] + Cardinality(Within(s \ {some(s)}))
  <2> SUFFICES ASSUME NEW s \in SUBSET S, s # {}
               PROVE  Cardinality(Within(s)) = f[some(s)] + Cardinality(Within(s \ {some(s)}))
    OBVIOUS
  <2> DEFINE x == some(s)
  <2>1. x \in s /\ x \in S
    BY <1>2
  <2> HIDE DEF x
  <2>2. f[x] = Cardinality(Within({x}))
    <3>1. f[x] = Cardinality({i \in I : cellOf[i] = x})
      BY <2>1
    <3>2. {i \in I : cellOf[i] = x} = Within({x})
      OBVIOUS
    <3> QED
      BY <3>1, <3>2
  <2>3. Within(s) = Within({x}) \cup Within(s \ {x}) /\ Within({x}) \cap Within(s \ {x}) = {}
    BY <2>1
  <2>4. \A t : IsFiniteSet(Within(t)) /\ Cardinality(Within(t)) \in Nat
    BY FS_Subset, FS_CardinalityType
  <2> HIDE DEF Within, f
  <2>5. Cardinality(Within(s)) = Cardinality(Within({x})) + Cardinality(Within(s \ {x})) - Cardinality({})
    <3>1. IsFiniteSet(Within({x})) /\ IsFiniteSet(Within(s \ {x}))
      BY <2>4
    <3>2. Cardinality(Within({x}) \cup Within(s \ {x}))
            = Cardinality(Within({x})) + Cardinality(Within(s \ {x}))
                - Cardinality(Within({x}) \cap Within(s \ {x}))
      BY <3>1, FS_Union
    <3> QED
      BY <2>3, <3>2
  <2> QED
    BY <2>2, <2>4, <2>5, FS_EmptySet DEF x
<1>4. Cardinality(Within({})) = 0
  <2>1. Within({}) = {}
    OBVIOUS
  <2> QED
    BY <2>1, FS_EmptySet
<1>5. \A s \in SUBSET S : s \ {some(s)} \in SUBSET S
  OBVIOUS
<1> HIDE DEF f, Within, some
<1>6. IsSum(W)
  <2>1. \A s \in SUBSET S : W[s] = IF s = {} THEN 0 ELSE f[some(s)] + W[s \ {some(s)}]
    BY <1>3, <1>4, <1>5
  <2>2. W = [s \in SUBSET S |-> W[s]]
    OBVIOUS
  <2> HIDE DEF W
  <2> QED
    BY <2>1, <2>2
<1>7. IsSum(sum)
  <2> HIDE DEF IsSum, W
  <2> QED
    BY <1>6, Zenon
<1> HIDE DEF sum
<1>8. \A s \in SUBSET S : sum[s] = IF s = {} THEN 0 ELSE f[some(s)] + sum[s \ {some(s)}]
  BY <1>7
<1>9. \A s \in SUBSET S : W[s] = IF s = {} THEN 0 ELSE f[some(s)] + W[s \ {some(s)}]
  BY <1>6
<1> HIDE DEF W
<1>10. \A s \in SUBSET S : sum[s] = W[s]
  <2> DEFINE Bad == {n \in Nat : \E s \in SUBSET S : Cardinality(s) = n /\ sum[s] # W[s]}
  <2>1. ASSUME NEW s \in SUBSET S, sum[s] # W[s] PROVE Cardinality(s) \in Bad
    BY <2>1, FS_Subset, FS_CardinalityType
  <2> SUFFICES ASSUME Bad # {} PROVE FALSE
    BY <2>1
  <2>2. First(Bad) \in Bad /\ \A n \in Bad : First(Bad) <= n
    <3>1. Bad \in SUBSET Nat
      OBVIOUS
    <3> HIDE DEF Bad
    <3> QED
      BY <3>1, FirstPosition
  <2>3. PICK s \in SUBSET S : Cardinality(s) = First(Bad) /\ sum[s] # W[s]
    BY <2>2
  <2>4. s # {}
    BY <1>8, <1>9, <2>3
  <2>5. IsFiniteSet(s) /\ Cardinality(s) \in Nat
    BY FS_Subset, FS_CardinalityType
  <2>6. s \ {some(s)} \in SUBSET S /\ Cardinality(s \ {some(s)}) = Cardinality(s) - 1
    BY <1>2, <1>5, <2>4, <2>5, FS_RemoveElement
  <2>7. sum[s \ {some(s)}] # W[s \ {some(s)}]
    BY <1>8, <1>9, <2>3, <2>4
  <2>8. Cardinality(s \ {some(s)}) \in Bad
    BY <2>1, <2>6, <2>7
  <2> HIDE DEF Bad
  <2> QED
    BY <2>2, <2>3, <2>5, <2>6, <2>8
<1>11. W[S] = Cardinality(Within(S))
  BY DEF W
<1> QED
  BY <1>1, <1>10, <1>11 DEF CountsIn, f, Within

\* Where a list has its items of some kind, and which of those a filter keeps.
PlacesOf(s, V) == {j \in DOMAIN s : s[j] \in V}
KeptOf(items, positions, V) == {i \in positions \cap (1 .. Len(items)) : items[i] \in V}

\* As many of what a filter keeps are of some kind as of the items it keeps.
LEMMA KeptCount ==
  ASSUME NEW items, Len(items) \in Nat, NEW positions, NEW V
  PROVE  Cardinality(PlacesOf(ItemsAt(items, positions), V))
           = Cardinality(KeptOf(items, positions, V))
<1> DEFINE n == Len(items)
           Upto == KeptUpto(items, positions)
           Of(s) == {j \in DOMAIN s : s[j] \in V}
           Kept(k) == {i \in positions \cap (1 .. k) : items[i] \in V}
           Same == {k \in Nat : k <= n => Cardinality(Of(Upto[k])) = Cardinality(Kept(k))}
<1>1. /\ ItemsAt(items, positions) = Upto[n]
      /\ \A k \in 0 .. n : Upto[k] = IF k = 0 THEN <<>>
                                     ELSE IF k \in positions THEN Append(Upto[k - 1], items[k])
                                     ELSE Upto[k - 1]
  BY KeptStepwise
<1>2. \A k \in 0 .. n : \E T : Upto[k] \in Seq(T)
  BY KeptAreLists
<1>3. \A k \in Nat : IsFiniteSet(Kept(k)) /\ Cardinality(Kept(k)) \in Nat
  <2> SUFFICES ASSUME NEW k \in Nat PROVE IsFiniteSet(Kept(k)) /\ Cardinality(Kept(k)) \in Nat
    OBVIOUS
  <2>1. IsFiniteSet(1 .. k) /\ Kept(k) \in SUBSET (1 .. k)
    BY FS_Interval
  <2> HIDE DEF Kept
  <2> QED
    BY <2>1, FS_Subset, FS_CardinalityType
<1>4. \A s, T : s \in Seq(T) => IsFiniteSet(Of(s))
  <2> SUFFICES ASSUME NEW s, NEW T, s \in Seq(T) PROVE IsFiniteSet(Of(s))
    OBVIOUS
  <2>1. Len(s) \in Nat /\ Of(s) \in SUBSET (1 .. Len(s))
    OBVIOUS
  <2>2. IsFiniteSet(1 .. Len(s))
    BY <2>1, FS_Interval
  <2> HIDE DEF Of
  <2> QED
    BY <2>1, <2>2, FS_Subset
<1> HIDE DEF Upto
<1>5. 0 \in Same
  <2>1. Upto[0] = <<>>
    BY <1>1
  <2>2. Of(<<>>) = {} /\ Kept(0) = {}
    OBVIOUS
  <2> QED
    BY <2>1, <2>2
<1>6. ASSUME NEW k \in Same PROVE k + 1 \in Same
  <2> SUFFICES ASSUME k + 1 <= n PROVE Cardinality(Of(Upto[k + 1])) = Cardinality(Kept(k + 1))
    OBVIOUS
  <2> DEFINE before == Upto[k]
             item == items[k + 1]
  <2>1. k \in 0 .. n /\ k + 1 \in 0 .. n /\ k + 1 # 0 /\ (k + 1) - 1 = k
    OBVIOUS
  <2>2. PICK T : before \in Seq(T)
    BY <1>2, <2>1
  <2>3. Cardinality(Of(before)) = Cardinality(Kept(k))
    BY <2>1
  <2>4. Upto[k + 1] = IF k + 1 \in positions THEN Append(before, item) ELSE before
    BY <1>1, <2>1
  <2> HIDE DEF before, item
  <2>5. CASE k + 1 \in positions /\ item \in V
    <3>1. Of(Append(before, item)) = Of(before) \cup {Len(before) + 1} /\ Len(before) + 1 \notin Of(before)
      BY <2>2, <2>5
    <3>2. Kept(k + 1) = Kept(k) \cup {k + 1} /\ k + 1 \notin Kept(k)
      BY <2>1, <2>5 DEF item
    <3>3. IsFiniteSet(Of(before)) /\ IsFiniteSet(Kept(k))
      BY <1>3, <1>4, <2>1, <2>2
    <3> HIDE DEF Of, Kept
    <3>4. Cardinality(Of(Append(before, item))) = Cardinality(Of(before)) + 1
      BY <3>1, <3>3, FS_AddElement
    <3>5. Cardinality(Kept(k + 1)) = Cardinality(Kept(k)) + 1
      BY <3>2, <3>3, FS_AddElement
    <3> QED
      BY <2>3, <2>4, <2>5, <3>4, <3>5
  <2>6. CASE ~(k + 1 \in positions /\ item \in V)
    <3>1. Of(Upto[k + 1]) = Of(before)
      <4>1. CASE k + 1 \in positions
        <5>1. Of(Append(before, item)) = Of(before)
          BY <2>2, <2>6, <4>1
        <5> QED
          BY <2>4, <4>1, <5>1
      <4>2. CASE k + 1 \notin positions
        BY <2>4, <4>2
      <4> QED
        BY <4>1, <4>2
    <3>2. Kept(k + 1) = Kept(k)
      BY <2>1, <2>6 DEF item
    <3> QED
      BY <2>3, <3>1, <3>2
  <2> QED
    BY <2>5, <2>6
<1>7. n \in Same
  <2> HIDE DEF Same
  <2>1. Same \in SUBSET Nat
    BY DEF Same
  <2> QED
    BY <1>5, <1>6, <2>1, Upward
<1>8. Cardinality(Of(Upto[n])) = Cardinality(Kept(n))
  BY <1>7
<1> QED
  BY <1>1, <1>8 DEF PlacesOf, KeptOf

\* As many numbers as there are up to one.
LEMMA CountUpto ==
  ASSUME NEW n \in Nat
  PROVE  IsFiniteSet(1 .. n) /\ Cardinality(1 .. n) = n
<1>1. IsFiniteSet(1 .. n) /\ Cardinality(1 .. n) = IF 1 > n THEN 0 ELSE n - 1 + 1
  BY FS_Interval
<1> QED
  BY <1>1

\* It keeps as many as there are positions.
LEMMA KeptLength ==
  ASSUME NEW items, Len(items) \in Nat, NEW positions
  PROVE  Len(ItemsAt(items, positions)) = Cardinality(positions \cap (1 .. Len(items)))
<1> DEFINE V == {items[k] : k \in positions \cap (1 .. Len(items))}
           kept == ItemsAt(items, positions)
<1>1. kept \in Seq(V)
  BY ItemsKept
<1>2. KeptOf(items, positions, V) = positions \cap (1 .. Len(items))
  BY DEF KeptOf
<1>3. Cardinality(PlacesOf(kept, V)) = Cardinality(KeptOf(items, positions, V))
  BY KeptCount
<1> HIDE DEF kept, V
<1>4. Len(kept) \in Nat /\ PlacesOf(kept, V) = 1 .. Len(kept)
  BY <1>1 DEF PlacesOf
<1>5. Cardinality(1 .. Len(kept)) = Len(kept)
  BY <1>4, CountUpto
<1> QED
  BY <1>2, <1>3, <1>4, <1>5 DEF kept

\* The totals of some rates, where those count the items in each cell.
LEMMA RatesAddUp ==
  ASSUME NEW I, IsFiniteSet(I), NEW H \in SUBSET I, NEW S, IsFiniteSet(S),
         NEW cellOf, \A i \in I : cellOf[i] \in S,
         NEW rates, rates = [cell \in S |-> <<CountsIn(H, cellOf, S)[cell],
                                             CountsIn(I, cellOf, S)[cell]>>]
  PROVE  Counted(rates) = Cardinality(H) /\ Measured(rates) = Cardinality(I)
<1>1. DOMAIN rates = S
  OBVIOUS
<1>2. /\ [k \in DOMAIN rates |-> rates[k][1]] = CountsIn(H, cellOf, S)
      /\ [k \in DOMAIN rates |-> rates[k][2]] = CountsIn(I, cellOf, S)
  BY <1>1 DEF CountsIn
<1>3. IsFiniteSet(H)
  BY FS_Subset
<1>4. {i \in H : cellOf[i] \in S} = H /\ {i \in I : cellOf[i] \in S} = I
  OBVIOUS
<1>5. Counted(rates) = Cardinality({i \in H : cellOf[i] \in S})
  BY <1>2, <1>3, CountsAddUp DEF Counted
<1>6. Measured(rates) = Cardinality({i \in I : cellOf[i] \in S})
  BY <1>2, CountsAddUp DEF Measured
<1> QED
  BY <1>4, <1>5, <1>6

\* The sets a summary has an entry for each member of.
LEMMA FewCells ==
  /\ IsFiniteSet(ScenarioDifficulties) /\ IsFiniteSet(ScenarioDifficulties \X ScenarioProvenances)
  /\ IsFiniteSet(GuardStages) /\ IsFiniteSet(ReasonCodes)
<1>1. \A a : IsFiniteSet({a})
  BY FS_Singleton
<1>2. \A a, b : IsFiniteSet({a, b})
  <2> TAKE a, b
  <2>1. {a, b} = {a} \cup {b}
    OBVIOUS
  <2>2. IsFiniteSet({a} \cup {b})
    BY <1>1, FS_AddElement
  <2> QED
    BY <2>1, <2>2
<1>3. \A a, b, c : IsFiniteSet({a, b, c})
  <2> TAKE a, b, c
  <2>1. {a, b, c} = {a, b} \cup {c}
    OBVIOUS
  <2>2. IsFiniteSet({a, b} \cup {c})
    BY <1>2, FS_AddElement
  <2> QED
    BY <2>1, <2>2
<1>4. IsFiniteSet(ScenarioDifficulties) /\ IsFiniteSet(ScenarioProvenances) /\ IsFiniteSet(GuardStages)
  BY <1>2, <1>3 DEF ScenarioDifficulties, ScenarioProvenances, GuardStages
<1>5. IsFiniteSet(ScenarioDifficulties \X ScenarioProvenances)
  BY <1>4, FS_Product
<1>6. IsFiniteSet(ReasonCodes)
  <2> DEFINE A == {"CHANNEL_NOT_PERMITTED", "TIER_BELOW_MINIMUM", "UPSTREAM_STATUS_NOT_OK"}
             B == {"PAYLOAD_EMPTY", "PAYLOAD_TRUNCATED", "CLAIM_UNGROUNDED"}
             C == {"CLAIM_SUPPORT_LOW_TIER", "CLAIM_UNVERIFIABLE"}
             D == {"PROVENANCE_LABEL_MISMATCH", "RESULT_DEGRADED"}
  <2>1. ReasonCodes = (A \cup B) \cup (C \cup D)
    BY DEF ReasonCodes
  <2>2. IsFiniteSet(A) /\ IsFiniteSet(B) /\ IsFiniteSet(C) /\ IsFiniteSet(D)
    BY <1>2, <1>3
  <2> HIDE DEF A, B, C, D
  <2>3. IsFiniteSet(A \cup B) /\ IsFiniteSet(C \cup D)
    BY <2>2, FS_Union
  <2> QED
    BY <2>1, <2>3, FS_Union
<1> QED
  BY <1>4, <1>5, <1>6
\* The scenarios of some expectation, and those of them that would block.
Expecting(results, expectation) == {i \in DOMAIN results : results[i].expected = expectation}
Blocking(results, expectation) == {i \in Expecting(results, expectation) : results[i].wouldBlock}

\* The scenarios counted are finitely many.
LEMMA FewScenarios ==
  ASSUME NEW n \in Nat, NEW results, DOMAIN results = 1 .. n, NEW e
  PROVE  /\ IsFiniteSet(Expecting(results, e))
         /\ Blocking(results, e) \in SUBSET Expecting(results, e)
<1>1. IsFiniteSet(1 .. n) /\ Expecting(results, e) \in SUBSET (1 .. n)
  BY FS_Interval DEF Expecting
<1>2. IsFiniteSet(Expecting(results, e))
  BY <1>1, FS_Subset
<1> QED
  BY <1>2 DEF Blocking

\* The recall rates take in every scenario that should block.
LEMMA RecallTotals ==
  ASSUME NEW n \in Nat, NEW results, DOMAIN results = 1 .. n,
         \A i \in 1 .. n : /\ results[i].difficulty \in ScenarioDifficulties
                           /\ results[i].provenance \in ScenarioProvenances
  PROVE  /\ Counted(buildRecallRates(results)) = Cardinality(Blocking(results, "should_block"))
         /\ Measured(buildRecallRates(results)) = Cardinality(Expecting(results, "should_block"))
<1> DEFINE S == ScenarioDifficulties \X ScenarioProvenances
           I == Expecting(results, "should_block")
           H == Blocking(results, "should_block")
           cellOf == [i \in 1 .. n |-> <<results[i].difficulty, results[i].provenance>>]
           InCell(i, cell) == /\ results[i].expected = "should_block"
                              /\ results[i].difficulty = cell[1]
                              /\ results[i].provenance = cell[2]
<1>1. buildRecallRates(results)
        = [cell \in S |->
             <<Cardinality({i \in DOMAIN results : InCell(i, cell) /\ results[i].wouldBlock}),
               Cardinality({i \in DOMAIN results : InCell(i, cell)})>>]
  BY DEF buildRecallRates, RateOf, Count
<1>2. \A cell \in S :
        /\ {i \in DOMAIN results : InCell(i, cell) /\ results[i].wouldBlock} = {i \in H : cellOf[i] = cell}
        /\ {i \in DOMAIN results : InCell(i, cell)} = {i \in I : cellOf[i] = cell}
  <2> SUFFICES ASSUME NEW cell \in S
               PROVE  /\ {i \in DOMAIN results : InCell(i, cell) /\ results[i].wouldBlock}
                           = {i \in H : cellOf[i] = cell}
                      /\ {i \in DOMAIN results : InCell(i, cell)} = {i \in I : cellOf[i] = cell}
    OBVIOUS
  <2>1. \A i \in 1 .. n : cellOf[i] = cell
                            <=> results[i].difficulty = cell[1] /\ results[i].provenance = cell[2]
    OBVIOUS
  <2> HIDE DEF cellOf
  <2> QED
    BY <2>1 DEF Expecting, Blocking
<1>3. \A i \in I : cellOf[i] \in S
  BY DEF Expecting
<1>4. buildRecallRates(results)
        = [cell \in S |-> <<CountsIn(H, cellOf, S)[cell], CountsIn(I, cellOf, S)[cell]>>]
  <2> HIDE DEF InCell, cellOf, H, I
  <2> QED
    BY <1>1, <1>2 DEF CountsIn
<1>5. IsFiniteSet(I) /\ H \in SUBSET I
  BY FewScenarios
<1> HIDE DEF H, I, S, cellOf
<1>6. IsFiniteSet(S)
  BY FewCells DEF S
<1>7. /\ Counted(buildRecallRates(results)) = Cardinality(H)
      /\ Measured(buildRecallRates(results)) = Cardinality(I)
  BY <1>3, <1>4, <1>5, <1>6, RatesAddUp
<1> QED
  BY <1>7 DEF H, I

\* And the false-positive rates every one that should be allowed.
LEMMA FalsePositiveTotals ==
  ASSUME NEW n \in Nat, NEW results, DOMAIN results = 1 .. n,
         \A i \in 1 .. n : results[i].difficulty \in ScenarioDifficulties
  PROVE  /\ Counted(buildFalsePositiveRates(results)) = Cardinality(Blocking(results, "should_allow"))
         /\ Measured(buildFalsePositiveRates(results)) = Cardinality(Expecting(results, "should_allow"))
<1> DEFINE S == ScenarioDifficulties
           I == Expecting(results, "should_allow")
           H == Blocking(results, "should_allow")
           cellOf == [i \in 1 .. n |-> results[i].difficulty]
           InCell(i, cell) == results[i].expected = "should_allow" /\ results[i].difficulty = cell
<1>1. buildFalsePositiveRates(results)
        = [cell \in S |->
             <<Cardinality({i \in DOMAIN results : InCell(i, cell) /\ results[i].wouldBlock}),
               Cardinality({i \in DOMAIN results : InCell(i, cell)})>>]
  BY DEF buildFalsePositiveRates, RateOf, Count
<1>2. \A cell \in S :
        /\ {i \in DOMAIN results : InCell(i, cell) /\ results[i].wouldBlock} = {i \in H : cellOf[i] = cell}
        /\ {i \in DOMAIN results : InCell(i, cell)} = {i \in I : cellOf[i] = cell}
  BY DEF Expecting, Blocking
<1>3. \A i \in I : cellOf[i] \in S
  BY DEF Expecting
<1>4. buildFalsePositiveRates(results)
        = [cell \in S |-> <<CountsIn(H, cellOf, S)[cell], CountsIn(I, cellOf, S)[cell]>>]
  <2> HIDE DEF InCell, cellOf, H, I
  <2> QED
    BY <1>1, <1>2 DEF CountsIn
<1>5. IsFiniteSet(I) /\ H \in SUBSET I
  BY FewScenarios
<1> HIDE DEF H, I, S, cellOf
<1>6. IsFiniteSet(S)
  BY FewCells DEF S
<1>7. /\ Counted(buildFalsePositiveRates(results)) = Cardinality(H)
      /\ Measured(buildFalsePositiveRates(results)) = Cardinality(I)
  BY <1>3, <1>4, <1>5, <1>6, RatesAddUp
<1> QED
  BY <1>7 DEF H, I
\* Results of n scenarios.
ListOf(results, n) == n \in Nat /\ results = [i \in 1 .. n |-> results[i]]

\* What is kept of the results is some of them, and as many as there are places.
LEMMA ResultsKept ==
  ASSUME NEW n, NEW results, ListOf(results, n),
         NEW places \in SUBSET (1 .. n)
  PROVE  /\ DOMAIN ItemsAt(results, places) = 1 .. Len(ItemsAt(results, places))
         /\ Len(ItemsAt(results, places)) \in Nat
         /\ Len(ItemsAt(results, places)) = Cardinality(places)
         /\ \A j \in DOMAIN ItemsAt(results, places) :
              \E i \in places : ItemsAt(results, places)[j] = results[i]
<1> DEFINE kept == ItemsAt(results, places)
<1>1. n \in Nat /\ Len(results) = n /\ places \cap (1 .. n) = places
  BY DEF ListOf
<1>2. kept \in Seq({results[k] : k \in places \cap (1 .. Len(results))})
  BY <1>1, ItemsKept
<1>3. Len(kept) = Cardinality(places \cap (1 .. Len(results)))
  BY <1>1, KeptLength
<1> HIDE DEF kept
<1>4. kept \in Seq({results[k] : k \in places})
  BY <1>1, <1>2
<1>5. /\ DOMAIN kept = 1 .. Len(kept) /\ Len(kept) \in Nat
      /\ \A j \in DOMAIN kept : \E i \in places : kept[j] = results[i]
  <2> DEFINE T == {results[k] : k \in places}
  <2>1. \A r \in T : \E i \in places : r = results[i]
    OBVIOUS
  <2>2. kept \in Seq(T)
    BY <1>4
  <2> HIDE DEF T
  <2>3. DOMAIN kept = 1 .. Len(kept) /\ Len(kept) \in Nat /\ \A j \in DOMAIN kept : kept[j] \in T
    BY <2>2
  <2> QED
    BY <2>1, <2>3
<1> QED
  BY <1>1, <1>3, <1>5 DEF kept

\* The tally of some of the results by a value they all have adds up to their number.
LEMMA TallyTotals ==
  ASSUME NEW n, NEW results, ListOf(results, n),
         NEW places \in SUBSET (1 .. n), NEW S, IsFiniteSet(S), NEW valueOf,
         \A j \in DOMAIN ItemsAt(results, places) : valueOf[j] \in S
  PROVE  Total(CountsIn(DOMAIN ItemsAt(results, places), valueOf, S)) = Cardinality(places)
<1> DEFINE kept == ItemsAt(results, places)
<1>1. DOMAIN kept = 1 .. Len(kept) /\ Len(kept) \in Nat /\ Len(kept) = Cardinality(places)
  BY ResultsKept
<1> HIDE DEF kept
<1>2. IsFiniteSet(DOMAIN kept) /\ Cardinality(DOMAIN kept) = Len(kept)
  BY <1>1, CountUpto
<1>3. {j \in DOMAIN kept : valueOf[j] \in S} = DOMAIN kept
  BY DEF kept
<1>4. Total(CountsIn(DOMAIN kept, valueOf, S)) = Cardinality({j \in DOMAIN kept : valueOf[j] \in S})
  BY <1>2, CountsAddUp
<1> QED
  BY <1>1, <1>2, <1>3, <1>4 DEF kept

\* Every result that would block names a stage and a reason.
AllNamed(results) ==
  \A i \in DOMAIN results : results[i].wouldBlock
    => results[i].actualGate \in GuardStages /\ results[i].reasonCode \in ReasonCodes

\* The breakdowns then add up to those that would.
LEMMA BreakdownTotals ==
  ASSUME NEW n, NEW results, ListOf(results, n), NEW count, AllNamed(results)
  PROVE  LET summary == summarizeBench(results, count)
             blocked == Cardinality({i \in 1 .. n : results[i].wouldBlock})
         IN  Total(summary.stageBreakdown) = blocked /\ Total(summary.reasonBreakdown) = blocked
<1> DEFINE places == {i \in DOMAIN results : results[i].wouldBlock}
           kept == ItemsAt(results, places)
           stageAt == [j \in DOMAIN kept |-> kept[j].actualGate]
           reasonAt == [j \in DOMAIN kept |-> kept[j].reasonCode]
<1>1. /\ summarizeBench(results, count).stageBreakdown
           = [v \in GuardStages |-> Cardinality({j \in DOMAIN kept : kept[j].actualGate = v})]
      /\ summarizeBench(results, count).reasonBreakdown
           = [v \in ReasonCodes |-> Cardinality({j \in DOMAIN kept : kept[j].reasonCode = v})]
  BY DEF summarizeBench, Tally, Count
<1>2. DOMAIN results = 1 .. n /\ places \in SUBSET (1 .. n)
  BY DEF ListOf
<1>3. \A j \in DOMAIN kept : \E i \in places : kept[j] = results[i]
  <2> HIDE DEF places
  <2>1. places \in SUBSET (1 .. n)
    BY <1>2
  <2> QED
    BY <2>1, ResultsKept
<1>4. \A i \in places : results[i].actualGate \in GuardStages /\ results[i].reasonCode \in ReasonCodes
  BY DEF AllNamed
<1> HIDE DEF kept, places
<1>5. \A j \in DOMAIN kept : stageAt[j] \in GuardStages /\ reasonAt[j] \in ReasonCodes
  BY <1>3, <1>4
<1>6. /\ summarizeBench(results, count).stageBreakdown = CountsIn(DOMAIN kept, stageAt, GuardStages)
      /\ summarizeBench(results, count).reasonBreakdown = CountsIn(DOMAIN kept, reasonAt, ReasonCodes)
  <2> DEFINE StageIs(v) == {j \in DOMAIN kept : kept[j].actualGate = v}
             ReasonIs(v) == {j \in DOMAIN kept : kept[j].reasonCode = v}
  <2>1. \A v : /\ StageIs(v) = {j \in DOMAIN kept : stageAt[j] = v}
               /\ ReasonIs(v) = {j \in DOMAIN kept : reasonAt[j] = v}
    OBVIOUS
  <2>2. /\ summarizeBench(results, count).stageBreakdown
             = [v \in GuardStages |-> Cardinality(StageIs(v))]
        /\ summarizeBench(results, count).reasonBreakdown
             = [v \in ReasonCodes |-> Cardinality(ReasonIs(v))]
    BY <1>1
  <2> HIDE DEF stageAt, reasonAt, StageIs, ReasonIs
  <2> QED
    BY <2>1, <2>2 DEF CountsIn
<1> HIDE DEF stageAt, reasonAt
<1>7. /\ Total(CountsIn(DOMAIN kept, stageAt, GuardStages)) = Cardinality(places)
      /\ Total(CountsIn(DOMAIN kept, reasonAt, ReasonCodes)) = Cardinality(places)
  BY <1>2, <1>5, FewCells, TallyTotals DEF kept
<1> QED
  BY <1>2, <1>6, <1>7 DEF places

\* Where the guard is said to have changed the outcome of those that would block, it
\* is counted to have changed that of every one of them that should.
LEMMA ChangedTotals ==
  ASSUME NEW n, NEW results, ListOf(results, n), NEW count,
         \A i \in 1 .. n : results[i].guardEffect = "changed" <=> results[i].wouldBlock
  PROVE  LET summary == summarizeBench(results, count)
         IN  /\ summary.guardChangedOutcome[1] = Cardinality(Blocking(results, "should_block"))
             /\ summary.guardChangedOutcome[2] = Cardinality(Expecting(results, "should_block"))
<1> DEFINE places == Expecting(results, "should_block")
           kept == ItemsAt(results, places)
           V == {results[i] : i \in {k \in 1 .. n : results[k].guardEffect = "changed"}}
<1>1. summarizeBench(results, count).guardChangedOutcome
        = <<Cardinality({j \in DOMAIN kept : kept[j].guardEffect = "changed"}), Len(kept)>>
  BY DEF summarizeBench, Count, Expecting
<1>2. n \in Nat /\ Len(results) = n /\ DOMAIN results = 1 .. n /\ places \in SUBSET (1 .. n)
  BY DEF Expecting, ListOf
<1>3. /\ Len(kept) = Cardinality(places)
      /\ \A j \in DOMAIN kept : \E i \in places : kept[j] = results[i]
  <2> HIDE DEF places
  <2> QED
    BY <1>2, ResultsKept
<1>4. Cardinality(PlacesOf(kept, V)) = Cardinality(KeptOf(results, places, V))
  <2> HIDE DEF places, V
  <2> QED
    BY <1>2, KeptCount
<1>5. KeptOf(results, places, V) = Blocking(results, "should_block")
  BY <1>2 DEF KeptOf, Blocking, Expecting
<1> DEFINE changed == summarizeBench(results, count).guardChangedOutcome
<1> HIDE DEF kept, places
<1>6. PlacesOf(kept, V) = {j \in DOMAIN kept : kept[j].guardEffect = "changed"}
  <2>1. \A j \in DOMAIN kept : kept[j] \in V <=> kept[j].guardEffect = "changed"
    BY <1>2, <1>3
  <2> HIDE DEF V
  <2> QED
    BY <2>1 DEF PlacesOf
<1>7. changed = <<Cardinality(PlacesOf(kept, V)), Len(kept)>>
  BY <1>1, <1>6
<1> HIDE DEF changed, V
<1>8. changed[1] = Cardinality(Blocking(results, "should_block")) /\ changed[2] = Cardinality(places)
  BY <1>3, <1>4, <1>5, <1>7
<1> QED
  BY <1>8 DEF changed, places
-------------------------------------------------------------------------------
\* A claim that is not grounded has a reason.
LEMMA UngroundedHasReason ==
  ASSUME NEW claim, NEW evidence
  PROVE  IF assessClaim(claim, evidence).status = "grounded"
         THEN assessClaim(claim, evidence).reason = NoReason
         ELSE assessClaim(claim, evidence).reason \in ReasonCodes \ {NoReason}
<1> DEFINE trustedHits == {s \in Stages : trusted(hit(s, claim, evidence), evidence)}
           hits        == {s \in Stages : hit(s, claim, evidence) # {}}
           ByStage(status, s, reason) ==
             Assessment(status, decidedBy(s, claim), ids(hit(s, claim, evidence), evidence), reason)
<1>1. \A status, method, supporting, reason :
        /\ Assessment(status, method, supporting, reason).status = status
        /\ Assessment(status, method, supporting, reason).reason = reason
  BY DEF Assessment
<1>2. \A status, s, reason : /\ ByStage(status, s, reason).status = status
                             /\ ByStage(status, s, reason).reason = reason
  BY <1>1
<1>3. assessClaim(claim, evidence)
        = IF trustedHits # {} THEN ByStage("grounded", First(trustedHits), NoReason)
          ELSE IF hits # {} THEN ByStage("ungrounded", First(hits), "CLAIM_SUPPORT_LOW_TIER")
          ELSE IF rejected(claim, evidence)
          THEN Assessment("ungrounded", specificsMethod(claim),
                          ids(rejectedOn(claim, evidence), evidence), "CLAIM_UNGROUNDED")
          ELSE Assessment("unverifiable", "none", {}, "CLAIM_UNVERIFIABLE")
  BY Zenon DEF assessClaim
<1>4. {"CLAIM_SUPPORT_LOW_TIER", "CLAIM_UNGROUNDED", "CLAIM_UNVERIFIABLE"} \subseteq ReasonCodes \ {NoReason}
  BY DEF ReasonCodes, NoReason
<1> HIDE DEF trustedHits, hits, ByStage
<1> QED
  BY <1>1, <1>2, <1>3, <1>4

\* An audit that refuses an output has found some claim not grounded.
LEMMA RefusalIsUngrounded ==
  ASSUME NEW output, NEW evidence
  PROVE  \/ auditOutput(output, evidence, "block").verdict.decision = "allow"
         \/ /\ auditOutput(output, evidence, "block").verdict.decision = "block"
            /\ \E i \in DOMAIN output : assessClaim(output[i], evidence).status # "grounded"
<1>1. auditOutput(output, evidence, "block").verdict.decision \in {"allow", "block"}
  BY AuditAllows
<1>2. auditOutput(output, evidence, "block").verdict.decision = "allow"
        <=> \A i \in DOMAIN output : assessClaim(output[i], evidence).status = "grounded"
  BY AuditAllows
<1> QED
  BY <1>1, <1>2

\* The first reason an audit that refuses an output gives.
LEMMA RefusalHasReason ==
  ASSUME NEW n \in Nat, NEW output, DOMAIN output = 1 .. n, NEW evidence,
         auditOutput(output, evidence, "block").verdict.decision = "block"
  PROVE  FirstReasonOf(auditOutput(output, evidence, "block")) \in ReasonCodes
<1> DEFINE audit == auditOutput(output, evidence, "block")
           assessed == [i \in DOMAIN output |-> assessClaim(output[i], evidence)]
           at == {i \in 1 .. n : assessed[i].reason # NoReason}
<1>1. audit.assessments = assessed /\ audit.verdict.reasons = Reasons(assessed)
  BY DEF auditOutput, verdictFor
<1>2. \A i \in 1 .. n : assessed[i] = assessClaim(output[i], evidence)
  OBVIOUS
<1>3. PICK k \in 1 .. n : assessClaim(output[k], evidence).status # "grounded"
  <2>1. "block" # "allow"
    OBVIOUS
  <2> QED
    BY <2>1, RefusalIsUngrounded
<1> DEFINE given == audit.verdict.reasons
<1>4. {r[1] : r \in given} = at
  <2>1. given = {<<i, assessed[i].reason>> : i \in at}
    BY <1>1 DEF Reasons
  <2> HIDE DEF given, at, assessed
  <2>2. \A r \in given : \E i \in at : r[1] = i
    BY <2>1
  <2>3. \A i \in at : \E r \in given : r[1] = i
    <3> TAKE i \in at
    <3>1. <<i, assessed[i].reason>> \in given /\ <<i, assessed[i].reason>>[1] = i
      BY <2>1
    <3> QED
      BY <3>1
  <2> QED
    BY <2>2, <2>3
<1>5. k \in at
  BY <1>2, <1>3, UngroundedHasReason
<1>6. Earliest(at) \in at
  <2>1. at \in SUBSET (1 .. n)
    OBVIOUS
  <2> HIDE DEF at
  <2> QED
    BY <1>5, <2>1, EarliestPosition
<1>7. FirstReasonOf(audit) = assessed[Earliest(at)].reason
  <2> HIDE DEF at, assessed, audit
  <2> QED
    BY <1>1, <1>4, <1>5 DEF FirstReasonOf, given
<1>8. assessed[Earliest(at)].reason \in ReasonCodes
  BY <1>2, <1>6, UngroundedHasReason
<1> QED
  BY <1>7, <1>8

\* The reasons a chunk is refused for.
LEMMA BlockHasReason ==
  ASSUME NEW chunk, NEW slot
  PROVE  /\ checkSlot(chunk, slot).decision \in {"allow", "block"}
         /\ checkSlot(chunk, slot).decision = "block" => checkSlot(chunk, slot).reasons[1] \in ReasonCodes
<1>1. \A condition : \A code \in ReasonCodes : ReasonIf(condition, code) \in Seq(ReasonCodes)
  BY DEF ReasonIf
<1>2. {"CHANNEL_NOT_PERMITTED", "TIER_BELOW_MINIMUM", "UPSTREAM_STATUS_NOT_OK", "PAYLOAD_EMPTY",
       "PAYLOAD_TRUNCATED", "PROVENANCE_LABEL_MISMATCH", "RESULT_DEGRADED"} \subseteq ReasonCodes
  BY DEF ReasonCodes
<1>3. \A s, t : s \in Seq(ReasonCodes) /\ t \in Seq(ReasonCodes) => s \o t \in Seq(ReasonCodes)
  OBVIOUS
<1>4. <<>> \in Seq(ReasonCodes)
  OBVIOUS
<1>5. labelMismatchReasons(chunk) \in Seq(ReasonCodes)
  BY <1>1, <1>2, <1>3, <1>4, Zenon DEF labelMismatchReasons
<1>6. payloadReasons(chunk) \in Seq(ReasonCodes)
  BY <1>1, <1>2, <1>3, <1>5, Zenon DEF payloadReasons
<1> DEFINE reasons == checkSlot(chunk, slot).reasons
<1>7. /\ reasons \in Seq(ReasonCodes)
      /\ checkSlot(chunk, slot).decision = IF reasons = <<>> THEN "allow" ELSE "block"
  <2>1. reasons = payloadReasons(chunk)
                    \o ReasonIf(chunk.channel \notin slot.allowedChannels, "CHANNEL_NOT_PERMITTED")
                    \o ReasonIf(~tierMeetsMinimum(chunk.tier, slot.minTier), "TIER_BELOW_MINIMUM")
    BY DEF checkSlot
  <2>2. reasons \in Seq(ReasonCodes)
    BY <1>1, <1>2, <1>3, <1>6, <2>1, Zenon
  <2>3. checkSlot(chunk, slot).decision = IF reasons = <<>> THEN "allow" ELSE "block"
    BY <2>1 DEF checkSlot
  <2> QED
    BY <2>2, <2>3
<1> HIDE DEF reasons
<1>8. reasons # <<>> => reasons[1] \in ReasonCodes
  BY <1>7
<1> QED
  BY <1>7, <1>8 DEF reasons

\* A check of a list of claims over a list of chunks that blocks names a stage and a
\* reason.
LEMMA BlockedIsNamed ==
  ASSUME NEW input, IsAList(input.entries), IsAList(input.output), NEW audit,
         audit = auditOutput(input.output, DeliveredOf(input), "block"),
         outcomeOf(VerdictsOf(input), audit)
  PROVE  /\ stageOf(VerdictsOf(input), audit) \in GuardStages
         /\ reasonOf(VerdictsOf(input), audit) \in ReasonCodes
<1> DEFINE verdicts == VerdictsOf(input)
           refused == BlockedAt(verdicts)
<1>1. stageOf(verdicts, audit) \in GuardStages
  BY DEF stageOf, GuardStages
<1>2. CASE refused # {}
  <2>1. PICK n \in Nat : DOMAIN ChunksOf(input) = 1 .. n
    BY CheckLists
  <2>2. refused \in SUBSET (1 .. n)
    BY <2>1 DEF BlockedAt, VerdictsOf
  <2>3. \A i \in refused : verdicts[i].reasons[1] \in ReasonCodes
    BY BlockHasReason DEF BlockedAt, VerdictsOf
  <2> HIDE DEF refused, verdicts
  <2>4. Earliest(refused) \in refused
    BY <1>2, <2>2, EarliestPosition
  <2>5. reasonOf(verdicts, audit) = verdicts[Earliest(refused)].reasons[1]
    BY <1>2 DEF reasonOf, refused
  <2> QED
    BY <1>1, <2>3, <2>4, <2>5 DEF verdicts
<1>3. CASE refused = {}
  <2>1. audit.verdict.decision = "block"
    BY <1>3 DEF outcomeOf
  <2>2. PICK n \in Nat : DOMAIN input.output = 1 .. n
    BY DEF IsAList
  <2>3. FirstReasonOf(audit) \in ReasonCodes
    BY <2>1, <2>2, RefusalHasReason
  <2>4. reasonOf(verdicts, audit) = FirstReasonOf(audit)
    BY <1>3, <2>1 DEF reasonOf
  <2> QED
    BY <1>1, <2>3, <2>4
<1> QED
  BY <1>2, <1>3
-------------------------------------------------------------------------------
\* Fewer chunks are admitted than there are where some is refused.
LEMMA FewerAdmitted ==
  ASSUME NEW input, IsAList(input.entries)
  PROVE  Len(AdmittedOf(input)) < Len(input.entries) <=> BlockedAt(VerdictsOf(input)) # {}
<1> DEFINE chunks == ChunksOf(input)
           allowed == Allowed(VerdictsOf(input))
<1>1. PICK n \in Nat : DOMAIN chunks = 1 .. n /\ Len(chunks) = n /\ Len(input.entries) = n
  BY CheckLists
<1>2. Len(AdmittedOf(input)) = Cardinality(allowed \cap (1 .. Len(chunks)))
  <2>1. AdmittedOf(input) = ItemsAt(chunks, allowed)
    BY AdmittedAt
  <2> HIDE DEF chunks, allowed
  <2> QED
    BY <1>1, <2>1, KeptLength
<1>3. DOMAIN VerdictsOf(input) = 1 .. n
  BY <1>1 DEF VerdictsOf
<1>4. \A i \in 1 .. n : VerdictsOf(input)[i].decision \in {"allow", "block"}
  BY <1>1, BlockHasReason DEF VerdictsOf
<1>5. allowed \in SUBSET (1 .. n)
  BY <1>3 DEF Allowed
<1>6. BlockedAt(VerdictsOf(input)) # {} <=> allowed # 1 .. n
  BY <1>3, <1>4 DEF Allowed, BlockedAt
<1> HIDE DEF allowed, chunks
<1>7. Len(AdmittedOf(input)) = Cardinality(allowed)
  <2>1. allowed \cap (1 .. Len(chunks)) = allowed
    BY <1>1, <1>5
  <2> QED
    BY <1>2, <2>1
<1>8. IsFiniteSet(1 .. n) /\ Cardinality(1 .. n) = n
  BY CountUpto
<1>9. /\ Cardinality(allowed) \in Nat /\ Cardinality(allowed) <= n
      /\ Cardinality(allowed) = n => allowed = 1 .. n
  BY <1>5, <1>8, FS_Subset, FS_CardinalityType
<1>10. allowed = 1 .. n => Cardinality(allowed) = n
  BY <1>8
<1> QED
  BY <1>1, <1>6, <1>7, <1>9, <1>10

\* A scenario would block where an enforcing guard keeps something of it back, and
\* then a stage and a reason are named.
LEMMA ScenarioPipeline ==
  ASSUME ScenariosAreTyped, NEW i \in DOMAIN Scenarios, NEW monitor
  PROVE  LET pipeline == runPipeline(Scenarios[i].entries, Scenarios[i].output,
                                     DEFAULT_POLICY[DEFAULT_SLOT_NAME], monitor)
         IN  /\ pipeline.wouldBlock \in BOOLEAN
             /\ pipeline.wouldBlock <=> Withheld(i)
             /\ Withheld(i) => pipeline.stage \in GuardStages /\ pipeline.reasonCode \in ReasonCodes
<1> DEFINE input == ScenarioInput(i)
           pipeline == runPipeline(Scenarios[i].entries, Scenarios[i].output,
                                   DEFAULT_POLICY[DEFAULT_SLOT_NAME], monitor)
           audit == auditOutput(input.output, DeliveredOf(input), "block")
<1>1. input.entries = Scenarios[i].entries /\ input.output = Scenarios[i].output
  BY DEF ScenarioInput
<1>2. resolveSlot(input) = DEFAULT_POLICY[DEFAULT_SLOT_NAME]
  BY DEF ScenarioInput, resolveSlot, policyOf, slotNameOf
<1>3. pipeline = checkOf(input, monitor)
  BY <1>1, <1>2 DEF checkOf
<1>4. IsAList(input.entries) /\ IsAList(input.output) /\ OneIdOneChunk(input)
  BY <1>1 DEF ScenariosAreTyped
<1>5. Withheld(i) <=> Len(AdmittedOf(input)) < Len(input.entries) \/ ~guardDelivers(input)
  BY <1>1 DEF Withheld
<1> HIDE DEF input, pipeline
<1>6. /\ pipeline.wouldBlock = outcomeOf(VerdictsOf(input), audit)
      /\ pipeline.stage = stageOf(VerdictsOf(input), audit)
      /\ pipeline.reasonCode = reasonOf(VerdictsOf(input), audit)
  BY <1>3, CheckFields
<1>7. DeliveredOf(input) = AdmittedOf(input)
  BY <1>4, OneIdDelivers
<1>8. ~guardDelivers(input) <=> audit.verdict.decision = "block"
  <2>1. guardDelivers(input) <=> audit.verdict.decision = "allow"
    BY <1>7 DEF guardDelivers
  <2>2. audit.verdict.decision \in {"allow", "block"}
    BY RefusalIsUngrounded
  <2> QED
    BY <2>1, <2>2
<1>9. outcomeOf(VerdictsOf(input), audit) <=> Withheld(i)
  BY <1>4, <1>5, <1>8, FewerAdmitted DEF outcomeOf
<1>10. Withheld(i) => /\ stageOf(VerdictsOf(input), audit) \in GuardStages
                      /\ reasonOf(VerdictsOf(input), audit) \in ReasonCodes
  BY <1>4, <1>9, BlockedIsNamed
<1>11. outcomeOf(VerdictsOf(input), audit) \in BOOLEAN
  BY DEF outcomeOf
<1> HIDE DEF audit
<1> QED
  BY <1>6, <1>9, <1>10, <1>11 DEF pipeline

\* What a benchmark whose controls were all verified knows of each scenario.
LEMMA ResultFields ==
  ASSUME ScenariosAreTyped, NEW command, NEW evidence, Unverified(evidence) = {},
         NEW i \in DOMAIN Scenarios
  PROVE  LET r == resultsOf(command, evidence)[i]
         IN  /\ r.difficulty = Scenarios[i].difficulty /\ r.provenance = Scenarios[i].provenance
             /\ r.expected = Scenarios[i].expectation
             /\ r.wouldBlock <=> Withheld(i)
             /\ r.guardEffect = "changed" <=> r.wouldBlock
             /\ r.wouldBlock => r.actualGate \in GuardStages /\ r.reasonCode \in ReasonCodes
<1> DEFINE pipeline == runPipeline(Scenarios[i].entries, Scenarios[i].output,
                                   DEFAULT_POLICY[DEFAULT_SLOT_NAME], command.monitor)
           r == resultFor(Scenarios[i], pipeline, evidence[i])
<1>1. resultsOf(command, evidence)[i] = r
  BY DEF resultsOf, runBenchScenario
<1>2. evidence[i].control = "delivered"
  <2>1. verifyControlEvidence(Scenarios[i], evidence[i])
    BY DEF Unverified
  <2> QED
    BY <2>1 DEF verifyControlEvidence
<1>3. /\ pipeline.wouldBlock \in BOOLEAN
      /\ pipeline.wouldBlock <=> Withheld(i)
      /\ Withheld(i) => pipeline.stage \in GuardStages /\ pipeline.reasonCode \in ReasonCodes
  BY ScenarioPipeline
<1> HIDE DEF pipeline
<1>4. /\ r.difficulty = Scenarios[i].difficulty /\ r.provenance = Scenarios[i].provenance
      /\ r.expected = Scenarios[i].expectation
      /\ r.wouldBlock = pipeline.wouldBlock
      /\ r.guardEffect = IF pipeline.wouldBlock = (evidence[i].control = "withheld")
                         THEN "none" ELSE "changed"
      /\ r.actualGate = pipeline.stage /\ r.reasonCode = pipeline.reasonCode
  BY DEF resultFor
<1> HIDE DEF r
<1>5. r.guardEffect = "changed" <=> r.wouldBlock
  <2>1. CASE pipeline.wouldBlock = TRUE
    BY <1>2, <1>4, <2>1
  <2>2. CASE pipeline.wouldBlock = FALSE
    BY <1>2, <1>4, <2>2
  <2> QED
    BY <1>3, <2>1, <2>2
<1> QED
  BY <1>1, <1>3, <1>4, <1>5
\* What MeasuresTheGuard asks of a summary.
MeasuredRight(summary) ==
  LET withheld == WithheldOf("should_block") + WithheldOf("should_allow")
  IN  /\ Counted(summary.recall) = WithheldOf("should_block")
      /\ Counted(summary.falsePositiveRate) = WithheldOf("should_allow")
      /\ summary.guardChangedOutcome[1] = WithheldOf("should_block")
      /\ Measured(summary.recall) = summary.guardChangedOutcome[2]
      /\ Measured(summary.recall) + Measured(summary.falsePositiveRate) = Len(Scenarios)
      /\ Total(summary.stageBreakdown) = withheld
      /\ Total(summary.reasonBreakdown) = withheld

\* Two sets that share nothing have together as many members as the two.
LEMMA ApartCount ==
  ASSUME NEW n \in Nat, NEW A \in SUBSET (1 .. n), NEW B \in SUBSET (1 .. n), A \cap B = {}
  PROVE  Cardinality(A \cup B) = Cardinality(A) + Cardinality(B)
<1>1. IsFiniteSet(A) /\ IsFiniteSet(B)
  BY CountUpto, FS_Subset
<1>2. Cardinality(A) \in Nat /\ Cardinality(B) \in Nat
  BY <1>1, FS_CardinalityType
<1>3. Cardinality(A \cup B) = Cardinality(A) + Cardinality(B) - Cardinality(A \cap B)
  BY <1>1, FS_Union
<1>4. Cardinality(A \cap B) = 0
  BY FS_EmptySet
<1> QED
  BY <1>2, <1>3, <1>4

\* The rates and breakdowns a summary has.
LEMMA SummaryRates ==
  ASSUME NEW results, NEW count
  PROVE  /\ summarizeBench(results, count).recall = buildRecallRates(results)
         /\ summarizeBench(results, count).falsePositiveRate = buildFalsePositiveRates(results)
BY Zenon DEF summarizeBench

\* The summary of a benchmark whose controls were all verified measures the guard.
LEMMA SummaryMeasures ==
  ASSUME ScenariosAreTyped, NEW about, Summarized(about)
  PROVE  MeasuredRight(about)
<1> PICK command, evidence :
       /\ Unverified(evidence) = {}
       /\ about = summarizeBench(resultsOf(command, evidence), Len(Scenarios))
  BY DEF Summarized
<1> DEFINE n == Len(Scenarios)
           results == resultsOf(command, evidence)
<1>1. n \in Nat /\ DOMAIN Scenarios = 1 .. n
  BY DEF ScenariosAreTyped, IsAList
<1>2. ListOf(results, n) /\ DOMAIN results = 1 .. n
  BY <1>1 DEF ListOf, resultsOf
<1>3. \A i \in 1 .. n :
        /\ results[i].difficulty \in ScenarioDifficulties
        /\ results[i].provenance \in ScenarioProvenances
        /\ results[i].expected = Scenarios[i].expectation
        /\ results[i].expected \in {"should_block", "should_allow"}
        /\ results[i].wouldBlock <=> Withheld(i)
        /\ results[i].guardEffect = "changed" <=> results[i].wouldBlock
        /\ results[i].wouldBlock => results[i].actualGate \in GuardStages
                                    /\ results[i].reasonCode \in ReasonCodes
  <2> TAKE i \in 1 .. n
  <2>1. i \in DOMAIN Scenarios
    BY <1>1
  <2> QED
    BY <2>1, ResultFields DEF ScenariosAreTyped
<1> HIDE DEF results
<1> DEFINE Sb == "should_block"
           Sa == "should_allow"
<1>4. \A e \in {Sb, Sa} : /\ Blocking(results, e) = {i \in DOMAIN Scenarios : Scenarios[i].expectation = e /\ Withheld(i)}
                          /\ Cardinality(Blocking(results, e)) = WithheldOf(e)
  <2> TAKE e \in {Sb, Sa}
  <2>1. Blocking(results, e) = {i \in DOMAIN Scenarios : Scenarios[i].expectation = e /\ Withheld(i)}
    BY <1>1, <1>2, <1>3 DEF Blocking, Expecting
  <2> QED
    BY <2>1 DEF WithheldOf
<1>5. /\ Counted(about.recall) = Cardinality(Blocking(results, Sb))
      /\ Measured(about.recall) = Cardinality(Expecting(results, Sb))
  BY <1>1, <1>2, <1>3, RecallTotals, SummaryRates DEF results
<1>6. /\ Counted(about.falsePositiveRate) = Cardinality(Blocking(results, Sa))
      /\ Measured(about.falsePositiveRate) = Cardinality(Expecting(results, Sa))
  BY <1>1, <1>2, <1>3, FalsePositiveTotals, SummaryRates DEF results
<1>7. /\ about.guardChangedOutcome[1] = Cardinality(Blocking(results, Sb))
      /\ about.guardChangedOutcome[2] = Cardinality(Expecting(results, Sb))
  BY <1>2, <1>3, ChangedTotals DEF results
<1>8. /\ Total(about.stageBreakdown) = Cardinality({i \in 1 .. n : results[i].wouldBlock})
      /\ Total(about.reasonBreakdown) = Cardinality({i \in 1 .. n : results[i].wouldBlock})
  <2>1. AllNamed(results)
    BY <1>2, <1>3 DEF AllNamed
  <2> QED
    BY <1>2, <2>1, BreakdownTotals DEF results
<1>9. /\ Expecting(results, Sb) \cap Expecting(results, Sa) = {}
      /\ Expecting(results, Sb) \cup Expecting(results, Sa) = 1 .. n
  BY <1>2, <1>3 DEF Expecting
<1>10. /\ Blocking(results, Sb) \cap Blocking(results, Sa) = {}
       /\ Blocking(results, Sb) \cup Blocking(results, Sa) = {i \in 1 .. n : results[i].wouldBlock}
  BY <1>2, <1>3 DEF Blocking, Expecting
<1>11. \A e : Expecting(results, e) \in SUBSET (1 .. n) /\ Blocking(results, e) \in SUBSET (1 .. n)
  BY <1>2 DEF Blocking, Expecting
<1>12. Cardinality(Expecting(results, Sb)) + Cardinality(Expecting(results, Sa)) = n
  <2> DEFINE A == Expecting(results, Sb)
             B == Expecting(results, Sa)
  <2>1. A \in SUBSET (1 .. n) /\ B \in SUBSET (1 .. n)
    BY <1>11
  <2>2. A \cap B = {}
    BY <1>9
  <2>3. A \cup B = 1 .. n
    BY <1>9
  <2> HIDE DEF A, B, n
  <2>4. Cardinality(A \cup B) = Cardinality(A) + Cardinality(B)
    <3>1. n \in Nat
      BY <1>1
    <3>2. \A C, D : C \in SUBSET (1 .. n) /\ D \in SUBSET (1 .. n) /\ C \cap D = {}
                    => Cardinality(C \cup D) = Cardinality(C) + Cardinality(D)
      BY <3>1, ApartCount
    <3> QED
      BY <2>1, <2>2, <3>2
  <2>5. Cardinality(A) + Cardinality(B) = n
    BY <1>1, <2>3, <2>4, CountUpto
  <2> QED
    BY <2>5 DEF A, B
<1>13. Cardinality(Blocking(results, Sb)) + Cardinality(Blocking(results, Sa))
         = Cardinality({i \in 1 .. n : results[i].wouldBlock})
  <2> DEFINE A == Blocking(results, Sb)
             B == Blocking(results, Sa)
  <2>1. A \in SUBSET (1 .. n) /\ B \in SUBSET (1 .. n)
    BY <1>11
  <2>2. A \cap B = {}
    BY <1>10
  <2> HIDE DEF A, B, n
  <2>3. Cardinality(A \cup B) = Cardinality(A) + Cardinality(B)
    <3>1. n \in Nat
      BY <1>1
    <3>2. \A C, D : C \in SUBSET (1 .. n) /\ D \in SUBSET (1 .. n) /\ C \cap D = {}
                    => Cardinality(C \cup D) = Cardinality(C) + Cardinality(D)
      BY <3>1, ApartCount
    <3> QED
      BY <2>1, <2>2, <3>2
  <2> QED
    BY <1>10, <2>3 DEF A, B
<1> QED
  BY <1>4, <1>5, <1>6, <1>7, <1>8, <1>12, <1>13 DEF MeasuredRight

(* What a benchmark measures is the guard: whatever controls were accepted, *)
(* in either mode, whatever ran before it, its recall counts exactly the   *)
(* should_block scenarios an enforcing guard keeps something of back, its   *)
(* false positives the others, every scenario is in one rate, and the       *)
(* breakdowns add up (summarizeBench, verifyControlEvidence,                *)
(* runBenchScenario).                                                       *)
THEOREM AlwaysMeasuresTheGuard ==
  ASSUME ScenariosAreTyped
  PROVE  Spec => []MeasuresTheGuard
<1>1. ScenariosAreAList
  BY DEF ScenariosAreAList, ScenariosAreTyped, IsAList
<1>2. BenchInv => MeasuresTheGuard
  BY SummaryMeasures DEF BenchInv, MeasuresTheGuard, MeasuredRight
<1>3. QED
  BY <1>1, <1>2, BenchInvHolds, PTL
===============================================================================
