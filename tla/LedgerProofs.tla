----------------------------- MODULE LedgerProofs -----------------------------
(***************************************************************************)
(* Theorems about the guard and the ledger its runs are recorded in, for   *)
(* any runs, guards, slot, inputs and judge, and any order of recording.   *)
(*                                                                         *)
(* The guard first.  Everything rests on one inductive invariant, Inv:     *)
(* what is known of a run at each await, said of every run on its own.  A  *)
(* step of one run leaves the invariant of the others alone, since it      *)
(* changes no variable of theirs; what remains is one lemma per action     *)
(* about the run it moves.                                                 *)
(*                                                                         *)
(* Then the ledger.  The invariant, LedgerInv: the store is the union of   *)
(* the graphs of the recorded runs, every node has the attributes one of   *)
(* them gave it, and what belongs to a run id has those of the run         *)
(* recorded last under it.  What the graph of one audit is like is in      *)
(* AuditLemmas.                                                            *)
(***************************************************************************)
EXTENDS GuardLedger, AuditLemmas

PCs == {"idle", "admitted", "judging", "settled", "done"}

\* The variables are functions of the runs, and the shapes of TypeOK.
Shapes ==
  /\ pc \in [Runs -> PCs]
  /\ guard \in [Runs -> Guards]
  /\ DOMAIN candidates = Runs
  /\ DOMAIN context = Runs
  /\ DOMAIN claims = Runs
  /\ DOMAIN evidence = Runs
  /\ DOMAIN assessments = Runs
  /\ DOMAIN advisory = Runs
  /\ DOMAIN asking = Runs
  /\ DOMAIN result = Runs

ShapesOf(r) ==
  /\ pc[r] # "idle" => candidates[r] \in CandidateLists
  /\ ~Running(r) => claims[r] = <<>>
  /\ Running(r) => claims[r] \in Outputs
  /\ DOMAIN assessments[r] = DOMAIN claims[r]
  /\ DOMAIN advisory[r] = DOMAIN claims[r]
  /\ asking[r] \in DOMAIN claims[r] \cup {0}
  /\ result[r].decision \in Decisions \cup {"undecided"}
  /\ result[r].delivered \in BOOLEAN

\* What was put in context, and what the output is audited against.
AuditOf(r) ==
  /\ pc[r] # "idle" => context[r] = contextFor(candidates[r], guard[r].mode)
  /\ Running(r) => evidence[r] = Admitted(candidates[r])

\* The ladder's assessment stands, or the judge made an open claim worse.
StricterOf(r) ==
  \A i \in DOMAIN claims[r] :
    \/ assessments[r][i] = Deterministic(r, i)
    \/ /\ Deterministic(r, i).status = "unverifiable"
       /\ assessments[r][i].status = "ungrounded"
       /\ assessments[r][i].decidedBy = "judge"
       /\ guard[r].judge /\ advisory[r][i] = "ungrounded"

\* The judge's loop stands at the first open claim it has no answer to.
LoopOf(r) ==
  /\ pc[r] = "judging" <=> asking[r] # 0
  /\ pc[r] = "judging" => guard[r].judge /\ assessments[r][asking[r]].status = "unverifiable"
  /\ \A i \in DOMAIN claims[r] :
       advisory[r][i] # NoAdvice <=>
         /\ guard[r].judge
         /\ Deterministic(r, i).status = "unverifiable"
         /\ asking[r] = 0 \/ i < asking[r]

\* The answer is the gate's.
ResultOf(r) ==
  Done(r) => result[r] =
    LET sound == Supported(claims[r], chunksOf(candidates[r]))
    IN  [decision  |-> IF sound THEN "allow" ELSE "block",
         delivered |-> guard[r].mode = "monitor" \/ sound]

RunInv(r) ==
  /\ ShapesOf(r)
  /\ AuditOf(r)
  /\ Running(r) => StricterOf(r) /\ LoopOf(r)
  /\ ~Running(r) => asking[r] = 0
  /\ ResultOf(r)

Inv == Shapes /\ \A r \in Runs : RunInv(r)

-------------------------------------------------------------------------------

\* The invariant holds of idle runs.
LEMMA InvInit == Init => Inv
<1> SUFFICES ASSUME Init PROVE Inv
  OBVIOUS
<1>1. Shapes
  BY DEF Init, Shapes, PCs
<1>2. ASSUME NEW r \in Runs PROVE RunInv(r)
  <2>1. pc[r] = "idle" /\ claims[r] = <<>> /\ assessments[r] = <<>> /\ advisory[r] = <<>>
    BY DEF Init
  <2>2. asking[r] = 0 /\ result[r] = NoResult
    BY DEF Init
  <2>3. ShapesOf(r)
    BY <2>1, <2>2 DEF ShapesOf, Running, NoResult
  <2>4. QED
    BY <2>1, <2>2, <2>3 DEF RunInv, AuditOf, ResultOf, Running, Done
<1>3. QED
  BY <1>1, <1>2 DEF Inv

\* Nothing of run s changes.
Same(s) ==
  /\ pc'[s] = pc[s] /\ guard'[s] = guard[s] /\ candidates'[s] = candidates[s]
  /\ context'[s] = context[s] /\ claims'[s] = claims[s] /\ evidence'[s] = evidence[s]
  /\ assessments'[s] = assessments[s] /\ advisory'[s] = advisory[s]
  /\ asking'[s] = asking[s] /\ result'[s] = result[s]

\* A run that a step leaves alone is as it was.
LEMMA Framed ==
  ASSUME NEW s \in Runs, RunInv(s), Same(s)
  PROVE  RunInv(s)'
<1>1. Running(s)' = Running(s) /\ Done(s)' = Done(s)
  BY DEF Same, Running, Done
<1>2. ShapesOf(s)'
  BY <1>1 DEF RunInv, ShapesOf, Same
<1>3. AuditOf(s)'
  BY <1>1 DEF RunInv, AuditOf, Same
<1>4. Running(s) => StricterOf(s)' /\ LoopOf(s)'
  <2>1. \A i : Deterministic(s, i)' = Deterministic(s, i)
    BY DEF Deterministic, Same
  <2>2. QED
    BY <1>1, <2>1 DEF RunInv, StricterOf, LoopOf, Same
<1>5. ResultOf(s)'
  BY <1>1 DEF RunInv, ResultOf, Same
<1>6. ~Running(s)' => asking'[s] = 0
  BY <1>1 DEF RunInv, Same
<1>7. QED
  BY <1>1, <1>2, <1>3, <1>4, <1>5, <1>6 DEF RunInv

\* An action of run r has done its part once it has kept the shapes, touched
\* nothing of another run, and left run r as the invariant says.
Kept(r) ==
  /\ Shapes'
  /\ \A s \in Runs \ {r} : Same(s)
  /\ RunInv(r)'

\* Admitting the context keeps the invariant.
LEMMA AdmitContextKeeps ==
  ASSUME Inv, NEW r \in Runs, NEW list \in CandidateLists, AdmitContext(r, list)
  PROVE  Kept(r)
<1> USE DEF AdmitContext
<1>1. Shapes'
  BY DEF Inv, Shapes, PCs
<1>2. \A s \in Runs \ {r} : Same(s)
  BY DEF Inv, Shapes, Same
<1>3. /\ pc[r] = "idle" /\ pc'[r] = "admitted" /\ candidates'[r] = list
      /\ context'[r] = contextFor(list, guard[r].mode)
  BY DEF Inv, Shapes
<1>4. RunInv(r)
  BY DEF Inv
<1>5. ~Running(r) /\ ~Running(r)' /\ ~Done(r)'
  BY <1>3 DEF Running, Done
<1>6. ShapesOf(r)'
  BY <1>3, <1>4, <1>5 DEF RunInv, ShapesOf
<1>7. AuditOf(r)'
  BY <1>3, <1>5 DEF AuditOf
<1>8. QED
  BY <1>1, <1>2, <1>4, <1>5, <1>6, <1>7 DEF Kept, RunInv, ResultOf

\* Where the loop goes from claim k: to the first open claim, or to its end.
LEMMA LoopGoesOn ==
  ASSUME Shapes, NEW r \in Runs, NEW k \in Nat, NEW assessed, DOMAIN assessed \subseteq Nat,
         AskFrom(r, k, assessed)
  PROVE  /\ pc' \in [Runs -> PCs] /\ DOMAIN asking' = Runs
         /\ \A s \in Runs \ {r} : pc'[s] = pc[s] /\ asking'[s] = asking[s]
         /\ \/ /\ pc'[r] = "judging" /\ guard[r].judge
               /\ asking'[r] \in DOMAIN assessed /\ k <= asking'[r]
               /\ assessed[asking'[r]].status = "unverifiable"
               /\ \A i \in DOMAIN assessed :
                    k <= i /\ i < asking'[r] => assessed[i].status # "unverifiable"
            \/ /\ pc'[r] = "settled" /\ asking'[r] = 0
               /\ guard[r].judge => \A i \in DOMAIN assessed :
                    k <= i => assessed[i].status # "unverifiable"
<1> DEFINE Open == Undecided(assessed, k)
<1>0. Open \in SUBSET Nat
  BY DEF Undecided
<1>1. CASE guard[r].judge /\ Open # {}
  <2>1. asking' = [asking EXCEPT ![r] = First(Open)] /\ pc' = [pc EXCEPT ![r] = "judging"]
    BY <1>1 DEF AskFrom
  <2>2. asking'[r] = First(Open) /\ pc'[r] = "judging" /\ DOMAIN asking' = Runs
    BY <2>1 DEF Shapes
  <2>3. pc' \in [Runs -> PCs]
    BY <2>1 DEF Shapes, PCs
  <2>4. First(Open) \in Open /\ \A t \in Open : First(Open) <= t
    BY <1>0, <1>1, FirstPosition
  <2>5. First(Open) \in DOMAIN assessed /\ k <= First(Open)
          /\ assessed[First(Open)].status = "unverifiable"
    BY <2>4 DEF Undecided
  <2>6. \A i \in DOMAIN assessed :
          k <= i /\ i < First(Open) => assessed[i].status # "unverifiable"
    <3> SUFFICES ASSUME NEW i \in DOMAIN assessed, k <= i, i < First(Open),
                        assessed[i].status = "unverifiable"
                 PROVE  FALSE
      OBVIOUS
    <3>1. i \in Open
      BY DEF Undecided
    <3>2. i \in Nat /\ First(Open) \in Nat
      BY <1>0, <2>4
    <3>3. QED
      BY <2>4, <3>1, <3>2
  <2>7. QED
    BY <1>1, <2>1, <2>2, <2>3, <2>5, <2>6 DEF Shapes
<1>2. CASE ~(guard[r].judge /\ Open # {})
  <2>1. asking' = [asking EXCEPT ![r] = 0] /\ pc' = [pc EXCEPT ![r] = "settled"]
    BY <1>2 DEF AskFrom
  <2>2. asking'[r] = 0 /\ pc'[r] = "settled" /\ DOMAIN asking' = Runs
          /\ pc' \in [Runs -> PCs]
    BY <2>1 DEF Shapes, PCs
  <2>3. guard[r].judge => \A i \in DOMAIN assessed :
          k <= i => assessed[i].status # "unverifiable"
    BY <1>2 DEF Undecided
  <2>4. QED
    BY <2>1, <2>2, <2>3 DEF Shapes
<1>3. QED
  BY <1>1, <1>2

\* An output's positions are positive.
LEMMA Positions ==
  ASSUME NEW output \in Outputs
  PROVE  DOMAIN output \subseteq Nat \ {0}
<1>1. output \in Seq(Claims)
  BY OutputsAssumption
<1>2. DOMAIN output = 1 .. Len(output)
  BY <1>1
<1>3. QED
  BY <1>1, <1>2

\* So does auditing the output.
LEMMA RunKeeps ==
  ASSUME Inv, NEW r \in Runs, NEW output \in Outputs, Run(r, output)
  PROVE  Kept(r)
<1> DEFINE admissible == Admitted(candidates[r])
           assessed == [i \in DOMAIN output |-> assessClaim(output[i], admissible)]
<1>1. /\ pc[r] = "admitted" /\ AskFrom(r, 1, assessed)
      /\ claims' = [claims EXCEPT ![r] = output]
      /\ evidence' = [evidence EXCEPT ![r] = admissible]
      /\ assessments' = [assessments EXCEPT ![r] = assessed]
      /\ advisory' = [advisory EXCEPT ![r] = [i \in DOMAIN output |-> NoAdvice]]
      /\ UNCHANGED <<guard, candidates, context, result>>
  BY DEF Run
<1>2. Shapes /\ RunInv(r)
  BY DEF Inv
<1>3. DOMAIN output \subseteq Nat \ {0} /\ DOMAIN assessed = DOMAIN output
  BY Positions
<1>4. /\ claims'[r] = output /\ evidence'[r] = admissible /\ assessments'[r] = assessed
      /\ advisory'[r] = [i \in DOMAIN output |-> NoAdvice]
  BY <1>1, <1>2 DEF Shapes
<1>5. /\ pc' \in [Runs -> PCs] /\ DOMAIN asking' = Runs
      /\ \A s \in Runs \ {r} : pc'[s] = pc[s] /\ asking'[s] = asking[s]
      /\ \/ /\ pc'[r] = "judging" /\ guard[r].judge
            /\ asking'[r] \in DOMAIN output
            /\ assessed[asking'[r]].status = "unverifiable"
            /\ \A i \in DOMAIN output :
                 i < asking'[r] => assessed[i].status # "unverifiable"
         \/ /\ pc'[r] = "settled" /\ asking'[r] = 0
            /\ guard[r].judge => \A i \in DOMAIN output : assessed[i].status # "unverifiable"
  <2> HIDE DEF assessed
  <2>1. \A i \in DOMAIN output : 1 <= i
    BY <1>3
  <2>2. DOMAIN assessed \subseteq Nat /\ 1 \in Nat
    BY <1>3
  <2>3. QED
    BY <1>1, <1>2, <1>3, <2>1, <2>2, LoopGoesOn
<1>6. Shapes'
  BY <1>1, <1>2, <1>5 DEF Shapes
<1>7. \A s \in Runs \ {r} : Same(s)
  BY <1>1, <1>2, <1>5 DEF Shapes, Same
<1>8. Running(r)' /\ ~Done(r)'
  BY <1>5 DEF Running, Done
<1>9. ShapesOf(r)'
  BY <1>1, <1>2, <1>3, <1>4, <1>5, <1>8 DEF RunInv, ShapesOf
<1>10. AuditOf(r)'
  BY <1>1, <1>2, <1>4 DEF RunInv, AuditOf
<1>11. \A i \in DOMAIN output : Deterministic(r, i)' = assessed[i]
  BY <1>4 DEF Deterministic
<1>12. StricterOf(r)'
  BY <1>4, <1>11 DEF StricterOf
<1>13. LoopOf(r)'
  <2> HIDE DEF assessed
  <2>1. \A i \in DOMAIN output : advisory'[r][i] = NoAdvice
    BY <1>4
  <2>2. CASE pc'[r] = "judging"
    BY <1>1, <1>3, <1>4, <1>5, <1>11, <2>1, <2>2 DEF LoopOf
  <2>3. CASE pc'[r] = "settled"
    BY <1>1, <1>3, <1>4, <1>5, <1>11, <2>1, <2>3 DEF LoopOf
  <2>4. QED
    BY <1>5, <2>2, <2>3
<1>14. QED
  BY <1>6, <1>7, <1>8, <1>9, <1>10, <1>12, <1>13 DEF Kept, RunInv, ResultOf

\* So does an answer of the judge.
LEMMA JudgeAnswerKeeps ==
  ASSUME Inv, NEW r \in Runs, NEW answer \in JudgeAnswers, JudgeAnswer(r, answer)
  PROVE  Kept(r)
<1> DEFINE a == asking[r]
           assessed == Applied(assessments[r], a, answer)
<1>1. /\ pc[r] = "judging" /\ AskFrom(r, a + 1, assessed)
      /\ assessments' = [assessments EXCEPT ![r] = assessed]
      /\ advisory' = [advisory EXCEPT ![r][a] = AdviceOf(answer)]
      /\ UNCHANGED <<guard, candidates, context, claims, evidence, result>>
  BY DEF JudgeAnswer
<1>2. Shapes /\ RunInv(r)
  BY DEF Inv
<1>3. Running(r) /\ ~Done(r)
  BY <1>1 DEF Running, Done
<1>4. /\ StricterOf(r) /\ LoopOf(r) /\ ShapesOf(r)
      /\ claims[r] \in Outputs
  BY <1>2, <1>3 DEF RunInv, ShapesOf
<1>5. DOMAIN claims[r] \subseteq Nat \ {0}
  BY <1>4, Positions
<1>6. /\ a \in DOMAIN claims[r] /\ a \in Nat /\ a # 0 /\ guard[r].judge
      /\ assessments[r][a].status = "unverifiable"
  BY <1>1, <1>4, <1>5 DEF LoopOf, ShapesOf
<1>7. DOMAIN assessed = DOMAIN claims[r]
  BY <1>4 DEF Applied, ShapesOf
<1>8. /\ \A i \in DOMAIN claims[r] \ {a} : assessed[i] = assessments[r][i]
      /\ \/ assessed[a] = assessments[r][a]
         \/ /\ answer.kind = "ungrounded"
            /\ assessed[a].status = "ungrounded" /\ assessed[a].decidedBy = "judge"
  BY <1>4, <1>6 DEF Applied, ShapesOf, Assessment
<1> HIDE DEF assessed
<1>9. assessments'[r] = assessed
  BY <1>1, <1>2 DEF Shapes
<1>10. advisory'[r] = [advisory[r] EXCEPT ![a] = AdviceOf(answer)]
  BY <1>1, <1>2 DEF Shapes
<1>11. /\ advisory'[r][a] = AdviceOf(answer)
       /\ \A i \in DOMAIN claims[r] \ {a} : advisory'[r][i] = advisory[r][i]
       /\ DOMAIN advisory'[r] = DOMAIN claims[r]
  BY <1>4, <1>6, <1>10 DEF ShapesOf
<1>12. AdviceOf(answer) # NoAdvice
  BY AnswersAssumption DEF AdviceOf, AnswerKinds, GroundingStatuses, NoAdvice
<1>13. /\ pc' \in [Runs -> PCs] /\ DOMAIN asking' = Runs
       /\ \A s \in Runs \ {r} : pc'[s] = pc[s] /\ asking'[s] = asking[s]
       /\ \/ /\ pc'[r] = "judging"
             /\ asking'[r] \in DOMAIN claims[r] /\ a < asking'[r]
             /\ assessed[asking'[r]].status = "unverifiable"
             /\ \A i \in DOMAIN claims[r] :
                  a < i /\ i < asking'[r] => assessed[i].status # "unverifiable"
          \/ /\ pc'[r] = "settled" /\ asking'[r] = 0
             /\ \A i \in DOMAIN claims[r] : a < i => assessed[i].status # "unverifiable"
  <2>1. a + 1 \in Nat /\ DOMAIN assessed \subseteq Nat
    BY <1>5, <1>6, <1>7
  <2>2. \A i \in DOMAIN claims[r] : i \in Nat /\ (a < i <=> a + 1 <= i)
    BY <1>5, <1>6
  <2>3. \/ /\ pc'[r] = "judging"
           /\ asking'[r] \in DOMAIN claims[r] /\ a + 1 <= asking'[r]
           /\ assessed[asking'[r]].status = "unverifiable"
           /\ \A i \in DOMAIN claims[r] :
                a + 1 <= i /\ i < asking'[r] => assessed[i].status # "unverifiable"
        \/ /\ pc'[r] = "settled" /\ asking'[r] = 0
           /\ \A i \in DOMAIN claims[r] : a + 1 <= i => assessed[i].status # "unverifiable"
    BY <1>1, <1>2, <1>6, <1>7, <2>1, LoopGoesOn
  <2>4. /\ pc' \in [Runs -> PCs] /\ DOMAIN asking' = Runs
        /\ \A s \in Runs \ {r} : pc'[s] = pc[s] /\ asking'[s] = asking[s]
    BY <1>1, <1>2, <2>1, LoopGoesOn
  <2>5. QED
    BY <2>2, <2>3, <2>4
<1>14. Shapes'
  BY <1>1, <1>2, <1>13 DEF Shapes
<1>15. \A s \in Runs \ {r} : Same(s)
  BY <1>1, <1>2, <1>13 DEF Shapes, Same
<1>16. Running(r)' /\ ~Done(r)'
  BY <1>13 DEF Running, Done
<1>17. ShapesOf(r)'
  <2>1. pc[r] # "idle" /\ pc'[r] # "idle"
    BY <1>1, <1>13
  <2>2. asking'[r] \in DOMAIN claims[r] \cup {0}
    BY <1>13
  <2>3. QED
    BY <1>1, <1>4, <1>7, <1>9, <1>11, <1>16, <2>1, <2>2 DEF ShapesOf
<1>18. AuditOf(r)'
  BY <1>1, <1>2, <1>3 DEF RunInv, AuditOf
<1>19. \A i : Deterministic(r, i)' = Deterministic(r, i)
  BY <1>1 DEF Deterministic
<1>20. Deterministic(r, a).status = "unverifiable" /\ assessments[r][a] = Deterministic(r, a)
  BY <1>4, <1>6 DEF StricterOf
<1>21. StricterOf(r)'
  <2>1. ASSUME NEW i \in DOMAIN claims[r], i # a
        PROVE  \/ assessments'[r][i] = Deterministic(r, i)
               \/ /\ Deterministic(r, i).status = "unverifiable"
                  /\ assessments'[r][i].status = "ungrounded"
                  /\ assessments'[r][i].decidedBy = "judge"
                  /\ guard[r].judge /\ advisory'[r][i] = "ungrounded"
    BY <1>4, <1>8, <1>9, <1>11, <2>1 DEF StricterOf
  <2>2. \/ assessments'[r][a] = Deterministic(r, a)
        \/ /\ Deterministic(r, a).status = "unverifiable"
           /\ assessments'[r][a].status = "ungrounded"
           /\ assessments'[r][a].decidedBy = "judge"
           /\ guard[r].judge /\ advisory'[r][a] = "ungrounded"
    BY <1>6, <1>8, <1>9, <1>11, <1>20 DEF AdviceOf
  <2>3. QED
    BY <1>1, <1>19, <2>1, <2>2 DEF StricterOf
<1>22. LoopOf(r)'
  <2>1. /\ pc'[r] = "judging" <=> asking'[r] # 0
        /\ pc'[r] = "judging" => guard'[r].judge
                                   /\ assessments'[r][asking'[r]].status = "unverifiable"
    BY <1>1, <1>5, <1>6, <1>9, <1>13
  <2>2. ASSUME NEW i \in DOMAIN claims[r]
        PROVE  advisory'[r][i] # NoAdvice <=>
                 /\ Deterministic(r, i).status = "unverifiable"
                 /\ asking'[r] = 0 \/ i < asking'[r]
    <3>1. CASE i = a
      BY <1>5, <1>6, <1>11, <1>12, <1>13, <1>20, <3>1
    <3>2. CASE i < a
      <4>1. advisory[r][i] # NoAdvice <=> Deterministic(r, i).status = "unverifiable"
        BY <1>4, <1>6, <3>2 DEF LoopOf
      <4>2. asking'[r] = 0 \/ i < asking'[r]
        BY <1>5, <1>6, <1>13, <3>2
      <4>3. QED
        BY <1>5, <1>6, <1>11, <3>2, <4>1, <4>2
    <3>3. CASE a < i
      <4>1. i # a /\ ~(i < a) /\ a # 0
        BY <1>5, <1>6, <3>3
      <4>2. advisory'[r][i] = NoAdvice
        BY <1>4, <1>11, <4>1 DEF LoopOf
      <4>3. Deterministic(r, i).status = "unverifiable" => assessed[i].status = "unverifiable"
        <5>1. advisory[r][i] = NoAdvice
          BY <1>11, <4>1, <4>2
        <5>2. assessments[r][i] = Deterministic(r, i)
          BY <1>4, <5>1 DEF StricterOf, NoAdvice
        <5>3. QED
          BY <1>8, <4>1, <5>2
      <4>4. QED
        BY <1>5, <1>6, <1>13, <3>3, <4>2, <4>3
    <3>4. QED
      BY <1>5, <1>6, <3>1, <3>2, <3>3
  <2>3. QED
    BY <1>1, <1>6, <1>19, <2>1, <2>2 DEF LoopOf
<1>23. QED
  BY <1>14, <1>15, <1>16, <1>17, <1>18, <1>21, <1>22 DEF Kept, RunInv, ResultOf

\* The claims of a running run all have one of the schema's statuses, and are
\* all grounded exactly when the ladder grounds them all.
LEMMA StatusesOf ==
  ASSUME NEW r \in Runs, RunInv(r), Running(r)
  PROVE  /\ \A i \in DOMAIN assessments[r] : assessments[r][i].status \in GroundingStatuses
         /\ (\A i \in DOMAIN assessments[r] : assessments[r][i].status = "grounded")
              <=> Supported(claims[r], chunksOf(candidates[r]))
<1>1. /\ StricterOf(r) /\ DOMAIN assessments[r] = DOMAIN claims[r]
      /\ evidence[r] = Admitted(candidates[r])
  BY DEF RunInv, ShapesOf, AuditOf
<1>2. \A i \in DOMAIN claims[r] : Deterministic(r, i).status \in GroundingStatuses
  BY AssessedStatus DEF Deterministic
<1>3. \A i \in DOMAIN claims[r] :
        /\ assessments[r][i].status \in GroundingStatuses
        /\ assessments[r][i].status = "grounded" <=> Deterministic(r, i).status = "grounded"
  BY <1>1, <1>2 DEF StricterOf, GroundingStatuses
<1>4. QED
  BY <1>1, <1>3 DEF Supported, Deterministic, Admitted

\* So does the delivery.
LEMMA DeliverKeeps ==
  ASSUME Inv, NEW r \in Runs, Deliver(r)
  PROVE  Kept(r)
<1> DEFINE decision == verdictFor(assessments[r], "block").decision
<1>1. /\ pc[r] = "settled" /\ pc' = [pc EXCEPT ![r] = "done"]
      /\ result' = [result EXCEPT ![r] =
           [decision  |-> decision,
            delivered |-> guard[r].mode = "monitor" \/ decision = "allow"]]
      /\ UNCHANGED <<guard, candidates, context, claims, evidence, assessments, advisory, asking>>
  BY DEF Deliver
<1>2. Shapes /\ RunInv(r)
  BY DEF Inv
<1>3. Running(r)
  BY <1>1 DEF Running
<1>4. decision = IF Supported(claims[r], chunksOf(candidates[r])) THEN "allow" ELSE "block"
  BY <1>2, <1>3, StatusesOf, VerdictAllows DEF UnverifiablePolicies
<1> HIDE DEF decision
<1>5. /\ pc'[r] = "done"
      /\ result'[r] = [decision  |-> decision,
                       delivered |-> guard[r].mode = "monitor" \/ decision = "allow"]
  BY <1>1, <1>2 DEF Shapes
<1>6. Shapes'
  BY <1>1, <1>2 DEF Shapes, PCs
<1>7. \A s \in Runs \ {r} : Same(s)
  BY <1>1, <1>2 DEF Shapes, Same
<1>8. Running(r)'
  BY <1>5 DEF Running
<1>9. ShapesOf(r)'
  <2>1. decision \in Decisions
    BY <1>4 DEF Decisions
  <2>2. result'[r].decision = decision /\ result'[r].delivered \in BOOLEAN
    BY <1>5
  <2>3. QED
    BY <1>1, <1>2, <1>3, <1>8, <2>1, <2>2 DEF RunInv, ShapesOf
<1>10. AuditOf(r)'
  BY <1>1, <1>2, <1>3 DEF RunInv, AuditOf
<1>11. StricterOf(r)' /\ LoopOf(r)'
  <2>1. \A i : Deterministic(r, i)' = Deterministic(r, i)
    BY <1>1 DEF Deterministic
  <2>2. StricterOf(r) /\ LoopOf(r)
    BY <1>2, <1>3 DEF RunInv
  <2>3. StricterOf(r)'
    BY <1>1, <2>1, <2>2 DEF StricterOf
  <2>4. LoopOf(r)'
    BY <1>1, <1>5, <2>1, <2>2 DEF LoopOf
  <2>5. QED
    BY <2>3, <2>4
<1>12. ResultOf(r)'
  BY <1>1, <1>4, <1>5 DEF ResultOf
<1>13. QED
  BY <1>6, <1>7, <1>8, <1>9, <1>10, <1>11, <1>12 DEF Kept, RunInv

-------------------------------------------------------------------------------

\* What is kept of the run that moves is kept of all.
LEMMA KeptInv ==
  ASSUME Inv, NEW r \in Runs, Kept(r)
  PROVE  Inv'
<1>1. Shapes' /\ RunInv(r)'
  BY DEF Kept
<1>2. ASSUME NEW s \in Runs, s # r PROVE RunInv(s)'
  BY <1>2, Framed DEF Kept, Inv
<1>3. QED
  BY <1>1, <1>2 DEF Inv

\* Every step keeps the invariant.
LEMMA InvStep == Inv /\ [Next]_vars => Inv'
<1> SUFFICES ASSUME Inv, [Next]_vars PROVE Inv'
  OBVIOUS
<1>1. CASE UNCHANGED vars
  <2>1. Shapes'
    BY <1>1 DEF Inv, Shapes, vars
  <2>2. ASSUME NEW s \in Runs PROVE RunInv(s)'
    BY <1>1, Framed DEF Inv, Same, vars
  <2>3. QED
    BY <2>1, <2>2 DEF Inv
<1>2. CASE Next
  <2>1. PICK r \in Runs : CallerStep(r) \/ JudgeStep(r) \/ Deliver(r)
    BY <1>2 DEF Next
  <2>2. ASSUME NEW list \in CandidateLists, AdmitContext(r, list) PROVE Inv'
    BY <2>2, AdmitContextKeeps, KeptInv
  <2>3. ASSUME NEW output \in Outputs, Run(r, output) PROVE Inv'
    BY <2>3, RunKeeps, KeptInv
  <2>4. ASSUME NEW answer \in JudgeAnswers, JudgeAnswer(r, answer) PROVE Inv'
    BY <2>4, JudgeAnswerKeeps, KeptInv
  <2>5. CASE Deliver(r)
    BY <2>5, DeliverKeeps, KeptInv
  <2>6. QED
    BY <2>1, <2>2, <2>3, <2>4, <2>5 DEF CallerStep, JudgeStep
<1>3. QED
  BY <1>1, <1>2

\* It holds of every behaviour.
LEMMA Invariant == Spec => []Inv
<1>1. Init => Inv
  BY InvInit
<1>2. Inv /\ [Next]_vars => Inv'
  BY InvStep
<1>3. QED
  BY <1>1, <1>2, PTL DEF Spec

(* The guard's variables keep the shapes the code gives them.               *)
THEOREM GuardTypeCorrect == Spec => []TypeOK
<1>1. Inv => TypeOK
  BY DEF Inv, Shapes, PCs, RunInv, ShapesOf, TypeOK
<1>2. QED
  BY <1>1, Invariant, PTL

(* The judge sees only what the ladder left open, and only makes it worse.  *)
THEOREM JudgeAlwaysStricter == Spec => []JudgeOnlyStricter
<1>1. Inv => JudgeOnlyStricter
  BY DEF Inv, RunInv, StricterOf, JudgeOnlyStricter
<1>2. QED
  BY <1>1, Invariant, PTL

\* The two fields of a result.
LEMMA Results ==
  ASSUME NEW r \in Runs, RunInv(r), Done(r)
  PROVE  /\ result[r].decision =
              IF Supported(claims[r], chunksOf(candidates[r])) THEN "allow" ELSE "block"
         /\ result[r].delivered <=>
              guard[r].mode = "monitor" \/ Supported(claims[r], chunksOf(candidates[r]))
<1> DEFINE sound == Supported(claims[r], chunksOf(candidates[r]))
<1>1. result[r] = [decision  |-> IF sound THEN "allow" ELSE "block",
                   delivered |-> guard[r].mode = "monitor" \/ sound]
  BY Zenon DEF RunInv, ResultOf
<1> HIDE DEF sound
<1>2. result[r].decision = IF sound THEN "allow" ELSE "block"
  BY <1>1
<1>3. result[r].delivered = (guard[r].mode = "monitor" \/ sound)
  BY <1>1
<1>4. result[r].delivered <=> guard[r].mode = "monitor" \/ sound
  BY <1>3, Zenon
<1>5. QED
  BY <1>2, <1>4 DEF sound

(* No enforcing guard delivers a claim that is not grounded on a trusted    *)
(* chunk, whatever its judge answers and however its runs interleave.       *)
THEOREM DeliveryAlwaysSound == Spec => []DeliverySound
<1>1. ASSUME Inv, NEW r \in Runs, Done(r), guard[r].mode = "enforce", result[r].delivered,
             NEW i \in DOMAIN claims[r]
      PROVE  /\ assessments[r][i].status = "grounded"
             /\ \E j \in DOMAIN evidence[r] :
                  /\ ~isUntrustedTier(evidence[r][j].tier)
                  /\ evidence[r][j].id \in assessments[r][i].supporting
  <2>1. RunInv(r) /\ Running(r)
    BY <1>1 DEF Inv, Running, Done
  <2>2. Supported(claims[r], chunksOf(candidates[r]))
    BY <1>1, <2>1, Results
  <2>3. assessments[r][i].status = "grounded"
    <3>1. DOMAIN assessments[r] = DOMAIN claims[r]
      BY <2>1 DEF RunInv, ShapesOf
    <3>2. \A k \in DOMAIN assessments[r] : assessments[r][k].status = "grounded"
      BY <2>1, <2>2, StatusesOf
    <3>3. QED
      BY <1>1, <3>1, <3>2
  <2>4. assessments[r][i] = assessClaim(claims[r][i], evidence[r])
    BY <1>1, <2>1, <2>3 DEF RunInv, StricterOf, Deterministic
  <2>5. QED
    BY <2>3, <2>4, GroundedSupport
<1>2. Inv => DeliverySound
  BY <1>1 DEF DeliverySound
<1>3. QED
  BY <1>2, Invariant, PTL

(* Two runs of one input decide alike, whatever their modes and judges.     *)
THEOREM DecisionIsModeIndependent == Spec => []DecisionModeIndependent
<1>1. ASSUME Inv, NEW r \in Runs, Done(r)
      PROVE  result[r].decision =
               IF Supported(claims[r], chunksOf(candidates[r])) THEN "allow" ELSE "block"
  BY <1>1, Results DEF Inv
<1>2. Inv => DecisionModeIndependent
  BY <1>1 DEF DecisionModeIndependent
<1>3. QED
  BY <1>2, Invariant, PTL

(* What a refused chunk says grounds nothing, in monitor mode too.          *)
THEOREM AlwaysAuditedOnAdmissible == Spec => []AuditedOnAdmissible
<1>1. ASSUME Inv, NEW r \in Runs, Running(r)
      PROVE  /\ evidence[r] = contextFor(candidates[r], "enforce")
             /\ guard[r].mode = "enforce" => evidence[r] = context[r]
  <2>1. AuditOf(r) /\ pc[r] # "idle"
    BY <1>1 DEF Inv, RunInv, Running
  <2>2. evidence[r] = Admitted(candidates[r])
    BY <1>1, <2>1 DEF AuditOf
  <2>3. contextFor(candidates[r], "enforce") = Admitted(candidates[r])
    BY DEF contextFor
  <2>4. QED
    BY <2>1, <2>2, <2>3 DEF AuditOf
<1>2. Inv => AuditedOnAdmissible
  BY <1>1 DEF AuditedOnAdmissible
<1>3. QED
  BY <1>2, Invariant, PTL

(* The judge is asked about the open claims, all of them and in order.      *)
THEOREM AlwaysJudgedInOrder == Spec => []JudgedInOrder
<1>1. Inv => JudgedInOrder
  BY DEF Inv, RunInv, LoopOf, JudgedInOrder
<1>2. QED
  BY <1>1, Invariant, PTL

(* Monitor mode withholds no candidate and no output.                       *)
THEOREM MonitorNeverChangesAnything == Spec => []MonitorChangesNothing
<1>1. ASSUME NEW list \in CandidateLists PROVE Len(chunksOf(list)) = Len(list)
  <2>1. list \in Seq(Candidates)
    BY ListsAssumption
  <2>2. DOMAIN list = 1 .. Len(list) /\ Len(list) \in Nat
    BY <2>1
  <2>3. chunksOf(list) \in [1 .. Len(list) -> {chunkOf(list[i]) : i \in DOMAIN list}]
    BY <2>2 DEF chunksOf
  <2>4. chunksOf(list) \in Seq({chunkOf(list[i]) : i \in DOMAIN list})
    BY <2>2, <2>3
  <2>5. QED
    BY <2>2, <2>3, <2>4
<1>2. ASSUME Inv, NEW r \in Runs, guard[r].mode = "monitor"
      PROVE  /\ pc[r] # "idle" => Len(context[r]) = Len(candidates[r])
             /\ Done(r) => result[r].delivered
  <2>1. RunInv(r)
    BY <1>2 DEF Inv
  <2>2. contextFor(candidates[r], guard[r].mode) = chunksOf(candidates[r])
    BY <1>2 DEF contextFor
  <2>3. pc[r] # "idle" => Len(context[r]) = Len(candidates[r])
    BY <1>1, <2>1, <2>2 DEF RunInv, AuditOf, ShapesOf
  <2>4. Done(r) => result[r].delivered
    BY <1>2, <2>1, Results
  <2>5. QED
    BY <2>3, <2>4
<1>3. Inv => MonitorChangesNothing
  BY <1>2 DEF MonitorChangesNothing
<1>4. QED
  BY <1>3, Invariant, PTL

\* One run's part of SettledStaysSettled.
StaysSettled(r) ==
  /\ Running(r) => \A i \in DOMAIN claims[r] :
       assessments[r][i].status # "unverifiable" => assessments'[r][i] = assessments[r][i]
  /\ Done(r) => result'[r] = result[r] /\ evidence'[r] = evidence[r]

(* A claim once settled stays as it is, and so does a run that returned.    *)
THEOREM SettledAlwaysStaysSettled == Spec => SettledStaysSettled
<1>1. ASSUME NEW r \in Runs, Same(r) PROVE StaysSettled(r)
  BY <1>1 DEF Same, StaysSettled
<1>2. ASSUME Inv, NEW r \in Runs, CallerStep(r) \/ JudgeStep(r) \/ Deliver(r)
      PROVE  StaysSettled(r)
  <2>1. ASSUME NEW list \in CandidateLists, AdmitContext(r, list) PROVE StaysSettled(r)
    BY <2>1 DEF AdmitContext, StaysSettled, Running, Done
  <2>2. ASSUME NEW output \in Outputs, Run(r, output) PROVE StaysSettled(r)
    BY <2>2 DEF Run, StaysSettled, Running, Done
  <2>3. ASSUME NEW answer \in JudgeAnswers, JudgeAnswer(r, answer) PROVE StaysSettled(r)
    <3>1. Shapes /\ RunInv(r) /\ pc[r] = "judging" /\ Running(r) /\ ~Done(r)
      BY <1>2, <2>3 DEF Inv, JudgeAnswer, Running, Done
    <3>2. assessments[r][asking[r]].status = "unverifiable"
      BY <3>1 DEF RunInv, LoopOf
    <3>3. assessments'[r] = Applied(assessments[r], asking[r], answer)
      BY <2>3, <3>1 DEF JudgeAnswer, Shapes
    <3>4. ASSUME NEW i \in DOMAIN claims[r], assessments[r][i].status # "unverifiable"
          PROVE  assessments'[r][i] = assessments[r][i]
      <4>1. i # asking[r] /\ i \in DOMAIN assessments[r]
        BY <3>1, <3>2, <3>4 DEF RunInv, ShapesOf
      <4>2. QED
        BY <3>3, <4>1 DEF Applied
    <3>5. QED
      BY <3>1, <3>4 DEF StaysSettled
  <2>4. CASE Deliver(r)
    BY <2>4 DEF Deliver, StaysSettled, Done
  <2>5. QED
    BY <1>2, <2>1, <2>2, <2>3, <2>4 DEF CallerStep, JudgeStep
<1>3. ASSUME Inv, NEW r \in Runs, CallerStep(r) \/ JudgeStep(r) \/ Deliver(r),
             NEW s \in Runs \ {r}
      PROVE  Same(s)
  BY <1>3, AdmitContextKeeps, RunKeeps, JudgeAnswerKeeps, DeliverKeeps
     DEF CallerStep, JudgeStep, Kept
<1>4. Inv /\ [Next]_vars => [\A r \in Runs : StaysSettled(r)]_vars
  BY <1>1, <1>2, <1>3 DEF Next
<1>5. Spec => [][\A r \in Runs : StaysSettled(r)]_vars
  BY <1>4, Invariant, PTL DEF Spec
<1>6. QED
  BY <1>5 DEF SettledStaysSettled, StaysSettled

(* Deciding in steps, with a judge, among other runs, implements deciding   *)
(* once by the ladder alone: the guard is a delivery gate.                  *)
THEOREM GuardIsAGate == Spec => ImplementsGate
<1>1. Init => Gate!Init
  <2> SUFFICES ASSUME Init PROVE Gate!Init
    OBVIOUS
  <2>1. \A r \in Runs : ~Running(r) /\ ~Done(r)
    BY DEF Init, Running, Done
  <2>2. QED
    BY <2>1 DEF Gate!Init, Gate!Nothing, Gate!Pending, SubmittedBy, DeliveryOf
<1>2. Inv /\ [Next]_vars => [Gate!Next]_(Gate!vars)
  <2> SUFFICES ASSUME Inv, [Next]_vars PROVE [Gate!Next]_(Gate!vars)
    OBVIOUS
  <2>1. ASSUME \A s \in Runs : SubmittedBy(s)' = SubmittedBy(s),
               \A s \in Runs : DeliveryOf(s)' = DeliveryOf(s)
        PROVE  UNCHANGED Gate!vars
    BY <2>1 DEF Gate!vars
  <2>2. ASSUME NEW s \in Runs, Same(s)
        PROVE  SubmittedBy(s)' = SubmittedBy(s) /\ DeliveryOf(s)' = DeliveryOf(s)
    BY <2>2 DEF Same, SubmittedBy, DeliveryOf, Running, Done
  <2>3. CASE UNCHANGED vars
    <3>1. \A s \in Runs : Same(s)
      BY <2>3 DEF Same, vars
    <3>2. QED
      BY <2>1, <2>2, <3>1
  <2>4. CASE Next
    <3>1. PICK r \in Runs : CallerStep(r) \/ JudgeStep(r) \/ Deliver(r)
      BY <2>4 DEF Next
    <3>2. Shapes /\ RunInv(r)
      BY DEF Inv
    <3>3. ASSUME NEW list \in CandidateLists, AdmitContext(r, list)
          PROVE  UNCHANGED Gate!vars
      <4>1. Kept(r)
        BY <3>3, AdmitContextKeeps
      <4>2. ~Running(r) /\ ~Running(r)' /\ ~Done(r) /\ ~Done(r)'
        BY <3>2, <3>3 DEF AdmitContext, Shapes, Running, Done
      <4>3. QED
        BY <2>1, <2>2, <4>1, <4>2 DEF Kept, SubmittedBy, DeliveryOf
    <3>4. ASSUME NEW answer \in JudgeAnswers, JudgeAnswer(r, answer)
          PROVE  UNCHANGED Gate!vars
      <4>1. Kept(r)
        BY <3>4, JudgeAnswerKeeps
      <4>2. pc[r] = "judging" /\ pc'[r] \in {"judging", "settled"}
        BY <3>2, <3>4 DEF JudgeAnswer, AskFrom, Shapes
      <4>3. Running(r) /\ Running(r)' /\ ~Done(r) /\ ~Done(r)'
        BY <4>2 DEF Running, Done
      <4>4. UNCHANGED <<guard, candidates, claims>>
        BY <3>4 DEF JudgeAnswer
      <4>5. QED
        BY <2>1, <2>2, <4>1, <4>3, <4>4 DEF Kept, SubmittedBy, DeliveryOf
    <3>5. ASSUME NEW output \in Outputs, Run(r, output)
          PROVE  Gate!Next
      <4> DEFINE request == [mode |-> guard[r].mode, chunks |-> chunksOf(candidates[r]),
                             claims |-> output]
      <4>1. Kept(r)
        BY <3>5, RunKeeps
      <4>2. /\ pc[r] = "admitted" /\ pc'[r] \in {"judging", "settled"}
            /\ claims'[r] = output /\ UNCHANGED <<guard, candidates>>
        BY <3>2, <3>5 DEF Run, AskFrom, Shapes
      <4>3. ~Running(r) /\ Running(r)' /\ ~Done(r) /\ ~Done(r)'
        BY <4>2 DEF Running, Done
      <4>4. SubmittedBy(r) = [mode |-> "none"] /\ SubmittedBy(r)' = request
        BY <4>2, <4>3 DEF SubmittedBy
      <4>5. \A s \in Runs : DeliveryOf(s)' = DeliveryOf(s)
        BY <2>2, <4>1, <4>3 DEF Kept, DeliveryOf
      <4>6. \A s \in Runs \ {r} : SubmittedBy(s)' = SubmittedBy(s)
        BY <2>2, <4>1 DEF Kept
      <4>7. request \in [mode : Modes, chunks : {chunksOf(list) : list \in CandidateLists},
                         claims : Outputs]
        <5>1. guard[r].mode \in Modes
          BY <3>2, GuardsAssumption DEF Shapes
        <5>2. candidates[r] \in CandidateLists
          BY <3>2, <4>2 DEF RunInv, ShapesOf
        <5>3. QED
          BY <5>1, <5>2
      <4> HIDE DEF request
      <4>8. Gate!Submit(r, request)
        BY <4>4, <4>5, <4>6 DEF Gate!Submit, Gate!Nothing
      <4>9. QED
        BY <4>7, <4>8 DEF Gate!Next
    <3>6. ASSUME Deliver(r)
          PROVE  Gate!Next
      <4> DEFINE sound == Supported(claims[r], chunksOf(candidates[r]))
                 answer == [decision  |-> IF sound THEN "allow" ELSE "block",
                            delivered |-> guard[r].mode = "monitor" \/ sound]
      <4>1. Kept(r)
        BY <3>6, DeliverKeeps
      <4>2. /\ pc[r] = "settled" /\ pc'[r] = "done"
            /\ UNCHANGED <<guard, candidates, claims>>
        BY <3>2, <3>6 DEF Deliver, Shapes
      <4>3. Running(r) /\ Running(r)' /\ ~Done(r) /\ Done(r)'
        BY <4>2 DEF Running, Done
      <4>4. /\ SubmittedBy(r) = [mode |-> guard[r].mode, chunks |-> chunksOf(candidates[r]),
                                 claims |-> claims[r]]
            /\ SubmittedBy(r)' = SubmittedBy(r)
        BY <4>2, <4>3 DEF SubmittedBy
      <4>5. result'[r] = answer
        BY <4>1, <4>2, <4>3, Zenon DEF Kept, RunInv, ResultOf
      <4> HIDE DEF answer
      <4>6. DeliveryOf(r) = [decision |-> "undecided"] /\ DeliveryOf(r)' = answer
        BY <4>3, <4>5 DEF DeliveryOf
      <4>7. \A s \in Runs : SubmittedBy(s)' = SubmittedBy(s)
        BY <2>2, <4>1, <4>4 DEF Kept
      <4>8. \A s \in Runs \ {r} : DeliveryOf(s)' = DeliveryOf(s)
        BY <2>2, <4>1 DEF Kept
      <4>9. SubmittedBy(r) # [mode |-> "none"]
        BY <4>4
      <4>10. [r_1 \in Runs |-> DeliveryOf(r_1)]' =
               [[r_1 \in Runs |-> DeliveryOf(r_1)] EXCEPT ![r] = answer]
        BY <4>6, <4>8
      <4>11. [r_1 \in Runs |-> SubmittedBy(r_1)]' = [r_1 \in Runs |-> SubmittedBy(r_1)]
        BY <4>7
      <4> DEFINE sub == [r_1 \in Runs |-> SubmittedBy(r_1)]
      <4>12. /\ sub[r].claims = claims[r] /\ sub[r].chunks = chunksOf(candidates[r])
             /\ sub[r].mode = guard[r].mode /\ sub[r] # [mode |-> "none"]
        BY <4>4, <4>9
      <4>13. answer = [decision  |-> IF Supported(sub[r].claims, sub[r].chunks)
                                     THEN "allow" ELSE "block",
                       delivered |-> \/ sub[r].mode = "monitor"
                                     \/ Supported(sub[r].claims, sub[r].chunks)]
        <5> HIDE DEF sub
        <5> QED
          BY <4>12, Zenon DEF answer
      <4>14. [r_1 \in Runs |-> DeliveryOf(r_1)][r] = [decision |-> "undecided"]
        BY <4>6
      <4>15. Gate!Decide(r)
        BY <4>10, <4>11, <4>12, <4>13, <4>14, Zenon DEF Gate!Decide, Gate!Nothing, Gate!Pending
      <4>16. QED
        BY <4>15 DEF Gate!Next
    <3>7. QED
      BY <3>1, <3>3, <3>4, <3>5, <3>6 DEF CallerStep, JudgeStep
  <2>5. QED
    BY <2>3, <2>4
<1>3. QED
  BY <1>1, <1>2, Invariant, PTL DEF Spec, ImplementsGate, Gate!Spec

-------------------------------------------------------------------------------
(***************************************************************************)
(* The ledger.                                                             *)
(***************************************************************************)
\* What belongs to a run id is as the run recorded last under it says.
LatestOf(run) ==
  /\ latest[run] \in recorded /\ RunIn(runAudit(latest[run])) = run
  /\ \A id \in IdsIn(runAudit(latest[run])) :
       runOf(id) # NoRun => store.nodes[id] = AttributesIn(runAudit(latest[run]), id)

\* A node is as some recorded run says.
RecordedAs(id) ==
  \E s \in recorded : /\ id \in IdsIn(runAudit(s))
                      /\ store.nodes[id] = AttributesIn(runAudit(s), id)

StoreInv ==
  /\ store = [nodes |-> store.nodes, edges |-> store.edges]
  /\ store.nodes = [id \in DOMAIN store.nodes |-> store.nodes[id]]
  /\ store.edges = UNION {EdgesIn(runAudit(s)) : s \in recorded}
  /\ DOMAIN store.nodes = UNION {IdsIn(runAudit(s)) : s \in recorded}
  /\ \A id \in DOMAIN store.nodes : RecordedAs(id)

LatestInv ==
  /\ \A s \in recorded : RunIn(runAudit(s)) \in DOMAIN latest
  /\ \A run \in DOMAIN latest : LatestOf(run)

LedgerInv ==
  /\ Inv
  /\ \A s \in recorded : s \in Runs /\ Done(s)
  /\ StoreInv
  /\ LatestInv

\* The invariant holds of the empty ledger.
LEMMA LedgerInvInit == LedgerInit => LedgerInv
<1> SUFFICES ASSUME LedgerInit PROVE LedgerInv
  OBVIOUS
<1>1. Inv
  BY InvInit DEF LedgerInit
<1>2. recorded = {} /\ store = [nodes |-> <<>>, edges |-> {}] /\ latest = <<>>
  BY DEF LedgerInit, EmptyStore
<1>3. StoreInv
  BY <1>2 DEF StoreInv
<1>4. LatestInv
  BY <1>2 DEF LatestInv
<1>5. QED
  BY <1>1, <1>2, <1>3, <1>4 DEF LedgerInv

\* The chunks of a run's audit are a list, one for each of its candidates.
LEMMA AuditLists ==
  ASSUME Inv, NEW r \in Runs, Done(r)
  PROVE  /\ \E n \in Nat : DOMAIN runAudit(r).chunks = 1 .. n
         /\ DOMAIN runAudit(r).chunks = DOMAIN candidates[r]
         /\ DOMAIN runAudit(r).claims = DOMAIN claims[r]
<1>1. candidates[r] \in CandidateLists
  BY DEF Inv, RunInv, ShapesOf, Done
<1>2. candidates[r] \in Seq(Candidates)
  BY <1>1, ListsAssumption
<1>3. Len(candidates[r]) \in Nat /\ DOMAIN candidates[r] = 1 .. Len(candidates[r])
  BY <1>2
<1>4. DOMAIN runAudit(r).chunks = DOMAIN candidates[r]
  BY DEF runAudit, chunksOf
<1>5. DOMAIN runAudit(r).claims = DOMAIN claims[r]
  BY DEF runAudit
<1>6. QED
  BY <1>3, <1>4, <1>5

\* A run that has returned makes no further step.
LEMMA DoneIsSame ==
  ASSUME Inv, [Next]_vars, NEW s \in Runs, Done(s)
  PROVE  Same(s)
<1>1. CASE UNCHANGED vars
  BY <1>1 DEF Same, vars
<1>2. CASE Next
  <2>1. PICK r \in Runs : CallerStep(r) \/ JudgeStep(r) \/ Deliver(r)
    BY <1>2 DEF Next
  <2>2. r # s
    BY <2>1 DEF CallerStep, JudgeStep, AdmitContext, Run, JudgeAnswer, Deliver, Done
  <2>3. Kept(r)
    BY <2>1, AdmitContextKeeps, RunKeeps, JudgeAnswerKeeps, DeliverKeeps
       DEF CallerStep, JudgeStep
  <2>4. QED
    BY <2>2, <2>3 DEF Kept
<1>3. QED
  BY <1>1, <1>2

\* The audit of a run that is left alone is as it was.
LEMMA AuditStays ==
  ASSUME NEW s \in Runs, Same(s)
  PROVE  runAudit(s)' = runAudit(s)
BY DEF Same, runAudit, chunksOf

\* A step of the guard leaves the ledger alone, and what it was told.
LEMMA GuardStepKeeps ==
  ASSUME LedgerInv, [Next]_vars, UNCHANGED ledgerVars
  PROVE  LedgerInv'
<1>1. Inv'
  BY InvStep DEF LedgerInv
<1>2. \A s \in recorded : Same(s)
  BY DoneIsSame DEF LedgerInv
<1>3. \A s \in recorded : runAudit(s)' = runAudit(s) /\ s \in Runs /\ Done(s)'
  BY <1>2, AuditStays DEF LedgerInv, Same, Done
<1>4. recorded' = recorded /\ store' = store /\ latest' = latest
  BY DEF ledgerVars
<1>5. StoreInv'
  <2>1. ASSUME NEW id \in DOMAIN store.nodes PROVE RecordedAs(id)'
    <3>1. PICK s \in recorded : /\ id \in IdsIn(runAudit(s))
                                /\ store.nodes[id] = AttributesIn(runAudit(s), id)
      BY DEF LedgerInv, StoreInv, RecordedAs
    <3>2. QED
      BY <1>3, <1>4, <3>1 DEF RecordedAs
  <2>2. UNION {EdgesIn(runAudit(s))' : s \in recorded} = UNION {EdgesIn(runAudit(s)) : s \in recorded}
    BY <1>3
  <2>3. UNION {IdsIn(runAudit(s))' : s \in recorded} = UNION {IdsIn(runAudit(s)) : s \in recorded}
    BY <1>3
  <2>4. QED
    BY <1>4, <2>1, <2>2, <2>3 DEF LedgerInv, StoreInv
<1>6. LatestInv'
  <2>1. ASSUME NEW run \in DOMAIN latest PROVE LatestOf(run)'
    BY <1>3, <1>4 DEF LedgerInv, LatestInv, LatestOf
  <2>2. QED
    BY <1>3, <1>4, <2>1 DEF LedgerInv, LatestInv
<1>7. QED
  BY <1>1, <1>3, <1>4, <1>5, <1>6 DEF LedgerInv

\* The graph of a run is always loaded: it is closed, well formed and acyclic.
LEMMA GraphLoads ==
  ASSUME Inv, NEW r \in Runs, Done(r)
  PROVE  /\ loadable(graphOf(r))
         /\ DOMAIN graphOf(r).nodes = IdsIn(runAudit(r))
         /\ \A id \in IdsIn(runAudit(r)) : graphOf(r).nodes[id] = AttributesIn(runAudit(r), id)
         /\ graphOf(r).edges = EdgesIn(runAudit(r))
<1>1. /\ DOMAIN graphOf(r).nodes = IdsIn(runAudit(r))
      /\ \A id \in IdsIn(runAudit(r)) : graphOf(r).nodes[id] = AttributesIn(runAudit(r), id)
      /\ graphOf(r).edges = EdgesIn(runAudit(r))
  BY DEF graphOf, buildGraph
<1>2. \A e \in EdgesIn(runAudit(r)) : SoundEdge(runAudit(r), e)
  BY AuditLists, EdgesSound
<1>3. loadable(graphOf(r))
  BY <1>1, <1>2, SoundGraph
<1>4. QED
  BY <1>1, <1>3

\* What recording a run does to the store.
LEMMA RecordStores ==
  ASSUME LedgerInv, NEW r \in Runs, Record(r)
  PROVE  /\ store' = [nodes |-> recordOver(store.nodes, graphOf(r).nodes),
                      edges |-> store.edges \cup EdgesIn(runAudit(r))]
         /\ DOMAIN store'.nodes = DOMAIN store.nodes \cup IdsIn(runAudit(r))
         /\ \A id \in IdsIn(runAudit(r)) : store'.nodes[id] = AttributesIn(runAudit(r), id)
         /\ \A id \in DOMAIN store.nodes \ IdsIn(runAudit(r)) : store'.nodes[id] = store.nodes[id]
         /\ recorded' = recorded \cup {r}
         /\ DOMAIN latest' = DOMAIN latest \cup {RunIn(runAudit(r))}
         /\ latest'[RunIn(runAudit(r))] = r
         /\ \A run \in DOMAIN latest \ {RunIn(runAudit(r))} : latest'[run] = latest[run]
<1>1. Done(r) /\ Inv /\ store' = load(store, graphOf(r))
  BY DEF Record, LedgerInv
<1>2. /\ loadable(graphOf(r))
      /\ DOMAIN graphOf(r).nodes = IdsIn(runAudit(r))
      /\ \A id \in IdsIn(runAudit(r)) : graphOf(r).nodes[id] = AttributesIn(runAudit(r), id)
      /\ graphOf(r).edges = EdgesIn(runAudit(r))
  BY <1>1, GraphLoads
<1>3. store' = [nodes |-> recordOver(store.nodes, graphOf(r).nodes),
                edges |-> store.edges \cup EdgesIn(runAudit(r))]
  BY <1>1, <1>2 DEF load
<1>4. store'.nodes = recordOver(store.nodes, graphOf(r).nodes)
  BY <1>3
<1>5. /\ DOMAIN store'.nodes = DOMAIN store.nodes \cup IdsIn(runAudit(r))
      /\ \A id \in IdsIn(runAudit(r)) : store'.nodes[id] = AttributesIn(runAudit(r), id)
      /\ \A id \in DOMAIN store.nodes \ IdsIn(runAudit(r)) : store'.nodes[id] = store.nodes[id]
  BY <1>2, <1>4 DEF recordOver
<1>6. /\ recorded' = recorded \cup {r}
      /\ DOMAIN latest' = DOMAIN latest \cup {RunIn(runAudit(r))}
      /\ latest'[RunIn(runAudit(r))] = r
      /\ \A run \in DOMAIN latest \ {RunIn(runAudit(r))} : latest'[run] = latest[run]
  BY DEF Record, recordOver
<1>7. QED
  BY <1>3, <1>5, <1>6

\* Recording a run keeps it.
LEMMA RecordKeeps ==
  ASSUME LedgerInv, NEW r \in Runs, Record(r)
  PROVE  LedgerInv'
<1>0. UNCHANGED vars /\ Done(r)
  BY DEF Record
<1>1. Inv' /\ Inv
  <2>1. [Next]_vars
    BY <1>0
  <2>2. QED
    BY <2>1, InvStep DEF LedgerInv
<1>2. \A s \in Runs : runAudit(s)' = runAudit(s) /\ (Done(s) => Done(s)')
  BY <1>0, AuditStays DEF vars, Same, Done
<1>3. /\ store' = [nodes |-> recordOver(store.nodes, graphOf(r).nodes),
                   edges |-> store.edges \cup EdgesIn(runAudit(r))]
      /\ DOMAIN store'.nodes = DOMAIN store.nodes \cup IdsIn(runAudit(r))
      /\ \A id \in IdsIn(runAudit(r)) : store'.nodes[id] = AttributesIn(runAudit(r), id)
      /\ \A id \in DOMAIN store.nodes \ IdsIn(runAudit(r)) : store'.nodes[id] = store.nodes[id]
      /\ recorded' = recorded \cup {r}
      /\ DOMAIN latest' = DOMAIN latest \cup {RunIn(runAudit(r))}
      /\ latest'[RunIn(runAudit(r))] = r
      /\ \A run \in DOMAIN latest \ {RunIn(runAudit(r))} : latest'[run] = latest[run]
  BY RecordStores
<1>4. \A s \in recorded' : s \in Runs /\ Done(s)'
  BY <1>0, <1>2, <1>3 DEF LedgerInv
<1>5. StoreInv'
  <2>1. store'.nodes = recordOver(store.nodes, graphOf(r).nodes)
        /\ store'.edges = store.edges \cup EdgesIn(runAudit(r))
    BY <1>3
  <2>2. store' = [nodes |-> store'.nodes, edges |-> store'.edges]
    BY <1>3, <2>1
  <2>3. store'.nodes = [id \in DOMAIN store'.nodes |-> store'.nodes[id]]
    BY <2>1 DEF recordOver
  <2>4. store'.edges = UNION {EdgesIn(runAudit(s))' : s \in recorded'}
    <3>1. store.edges = UNION {EdgesIn(runAudit(s)) : s \in recorded}
      BY DEF LedgerInv, StoreInv
    <3>2. UNION {EdgesIn(runAudit(s))' : s \in recorded'}
            = UNION {EdgesIn(runAudit(s)) : s \in recorded'}
      BY <1>2, <1>4
    <3>3. UNION {EdgesIn(runAudit(s)) : s \in recorded \cup {r}}
            = (UNION {EdgesIn(runAudit(s)) : s \in recorded}) \cup EdgesIn(runAudit(r))
      OBVIOUS
    <3>4. store'.edges = store.edges \cup EdgesIn(runAudit(r)) /\ recorded' = recorded \cup {r}
      BY <1>3, <2>1
    <3>5. QED
      BY <3>1, <3>2, <3>3, <3>4
  <2>5. DOMAIN store'.nodes = UNION {IdsIn(runAudit(s))' : s \in recorded'}
    <3>1. DOMAIN store.nodes = UNION {IdsIn(runAudit(s)) : s \in recorded}
      BY DEF LedgerInv, StoreInv
    <3>2. UNION {IdsIn(runAudit(s))' : s \in recorded'}
            = UNION {IdsIn(runAudit(s)) : s \in recorded'}
      BY <1>2, <1>4
    <3>3. UNION {IdsIn(runAudit(s)) : s \in recorded \cup {r}}
            = (UNION {IdsIn(runAudit(s)) : s \in recorded}) \cup IdsIn(runAudit(r))
      OBVIOUS
    <3>4. DOMAIN store'.nodes = DOMAIN store.nodes \cup IdsIn(runAudit(r)) /\ recorded' = recorded \cup {r}
      BY <1>3
    <3>5. QED
      BY <3>1, <3>2, <3>3, <3>4
  <2>6. ASSUME NEW id \in DOMAIN store'.nodes PROVE RecordedAs(id)'
    <3>1. CASE id \in IdsIn(runAudit(r))
      BY <1>2, <1>3, <3>1 DEF RecordedAs
    <3>2. CASE id \notin IdsIn(runAudit(r))
      <4>1. id \in DOMAIN store.nodes /\ store'.nodes[id] = store.nodes[id]
        BY <1>3, <2>6, <3>2
      <4>2. PICK s \in recorded : /\ id \in IdsIn(runAudit(s))
                                  /\ store.nodes[id] = AttributesIn(runAudit(s), id)
        BY <4>1 DEF LedgerInv, StoreInv, RecordedAs
      <4>3. s \in recorded' /\ runAudit(s)' = runAudit(s)
        BY <1>2, <1>3, <4>2 DEF LedgerInv
      <4>4. QED
        BY <4>1, <4>2, <4>3 DEF RecordedAs
    <3>3. QED
      BY <3>1, <3>2
  <2>7. QED
    BY <2>2, <2>3, <2>4, <2>5, <2>6 DEF StoreInv
<1>6. LatestInv'
  <2>1. ASSUME NEW run \in DOMAIN latest' PROVE LatestOf(run)'
    <3>1. CASE run = RunIn(runAudit(r))
      <4>1. latest'[run] = r /\ r \in recorded' /\ runAudit(r)' = runAudit(r)
        BY <1>2, <1>3, <3>1
      <4>2. QED
        BY <1>3, <3>1, <4>1 DEF LatestOf
    <3>2. CASE run # RunIn(runAudit(r))
      <4>1. run \in DOMAIN latest /\ latest'[run] = latest[run]
        BY <1>3, <2>1, <3>2
      <4>0. PICK s : s = latest[run]
        OBVIOUS
      <4>2. /\ s \in recorded /\ RunIn(runAudit(s)) = run
            /\ \A id \in IdsIn(runAudit(s)) :
                 runOf(id) # NoRun => store.nodes[id] = AttributesIn(runAudit(s), id)
        BY <4>0, <4>1 DEF LedgerInv, LatestInv, LatestOf
      <4>3. s \in recorded' /\ s \in Runs /\ runAudit(s)' = runAudit(s)
        BY <1>2, <1>3, <4>2 DEF LedgerInv
      <4>4. ASSUME NEW id \in IdsIn(runAudit(s)), runOf(id) # NoRun
            PROVE  store'.nodes[id] = AttributesIn(runAudit(s), id)
        <5>1. runOf(id) = run
          BY <4>2, <4>4, IdForms DEF LocalTo, SharedBy
        <5>2. id \notin IdsIn(runAudit(r))
          BY <3>2, <4>4, <5>1, IdForms DEF LocalTo, SharedBy
        <5>3. id \in DOMAIN store.nodes
          BY <4>2, <4>4 DEF LedgerInv, StoreInv
        <5>4. QED
          BY <1>3, <4>2, <4>4, <5>2, <5>3
      <4>5. latest'[run] = s
        BY <4>0, <4>1
      <4>6. QED
        BY <4>2, <4>3, <4>4, <4>5 DEF LatestOf
    <3>3. QED
      BY <3>1, <3>2
  <2>2. \A s \in recorded' : RunIn(runAudit(s)) \in DOMAIN latest' /\ runAudit(s)' = runAudit(s)
    BY <1>2, <1>3, <1>4 DEF LedgerInv, LatestInv
  <2>3. QED
    BY <2>1, <2>2 DEF LatestInv
<1>7. QED
  BY <1>1, <1>4, <1>5, <1>6 DEF LedgerInv

\* It holds of every behaviour.
LEMMA LedgerInvariant == LedgerSpec => []LedgerInv
<1>1. LedgerInv /\ [LedgerNext]_<<vars, ledgerVars>> => LedgerInv'
  <2> SUFFICES ASSUME LedgerInv, [LedgerNext]_<<vars, ledgerVars>> PROVE LedgerInv'
    OBVIOUS
  <2>1. CASE [Next]_vars /\ UNCHANGED ledgerVars
    BY <2>1, GuardStepKeeps
  <2>2. ASSUME NEW r \in Runs, Record(r) PROVE LedgerInv'
    BY <2>2, RecordKeeps
  <2>3. QED
    BY <2>1, <2>2 DEF LedgerNext
<1>2. QED
  BY <1>1, LedgerInvInit, PTL DEF LedgerSpec

(* The whole store is a well-formed graph, whatever the runs, the inputs    *)
(* and the judge, and in whatever order runs were recorded and repeated.    *)
THEOREM StoreAlwaysWellFormed == LedgerSpec => []StoreWellFormed
<1>1. LedgerInv => StoreWellFormed
  <2> SUFFICES ASSUME LedgerInv PROVE StoreWellFormed
    OBVIOUS
  <2>1. ASSUME NEW e \in store.edges
        PROVE  \E audit : SoundEdge(audit, e) /\ IdsIn(audit) \subseteq DOMAIN store.nodes
    <3>1. PICK s \in recorded : e \in EdgesIn(runAudit(s))
      BY DEF LedgerInv, StoreInv
    <3>2. SoundEdge(runAudit(s), e)
      BY <3>1, AuditLists, EdgesSound DEF LedgerInv
    <3>3. IdsIn(runAudit(s)) \subseteq DOMAIN store.nodes
      BY <3>1 DEF LedgerInv, StoreInv
    <3>4. QED
      BY <3>2, <3>3
  <2>2. QED
    BY <2>1, SoundGraph DEF StoreWellFormed
<1>2. QED
  BY <1>1, LedgerInvariant, PTL

-------------------------------------------------------------------------------
\* Runs of one run id submitted one output, with chunks of the same ids.
LEMMA AlikeRuns ==
  ASSUME NEW r \in Runs, NEW s \in Runs, RunIn(runAudit(r)) = RunIn(runAudit(s))
  PROVE  /\ claims[r] = claims[s] /\ runAudit(r).tenant = runAudit(s).tenant
         /\ runAudit(r).output = runAudit(s).output
         /\ DOMAIN runAudit(r).chunks = DOMAIN runAudit(s).chunks
         /\ DOMAIN runAudit(r).claims = DOMAIN runAudit(s).claims
         /\ \A k \in DOMAIN runAudit(r).chunks :
              runAudit(r).chunks[k].chunk.id = runAudit(s).chunks[k].chunk.id
<1> DEFINE idsOf(t) == [i \in DOMAIN chunksOf(candidates[t]) |-> chunksOf(candidates[t])[i].id]
<1>1. \A t \in Runs : /\ runAudit(t).runKey = <<claims[t], idsOf(t)>>
                      /\ runAudit(t).output = claims[t]
                      /\ DOMAIN runAudit(t).claims = DOMAIN claims[t]
                      /\ DOMAIN runAudit(t).chunks = DOMAIN idsOf(t)
  BY DEF runAudit
<1>2. \A t \in Runs : \A k \in DOMAIN runAudit(t).chunks :
        runAudit(t).chunks[k].chunk.id = idsOf(t)[k]
  BY DEF runAudit
<1> HIDE DEF idsOf
<1>3. runAudit(r).tenant = runAudit(s).tenant /\ runAudit(r).runKey = runAudit(s).runKey
  BY DEF RunIn, RunId
<1>4. claims[r] = claims[s] /\ idsOf(r) = idsOf(s)
  BY <1>1, <1>3
<1>5. QED
  BY <1>1, <1>2, <1>3, <1>4

\* What a run of the ledger says a claim rests on, by the ids of the chunks: what
\* the assessment named, as far as it is among the candidates.
IdOf(r, k) == runAudit(r).chunks[k].chunk.id
IdsOf(r)   == {IdOf(r, k) : k \in DOMAIN runAudit(r).chunks}

\* The chunks named as support are those of the run with the ids that were named.
LEMMA NamedIds ==
  ASSUME Inv, NEW r \in Runs, Done(r), NEW i \in DOMAIN claims[r]
  PROVE  {IdOf(r, c[4]) : c \in NamedBy(runAudit(r), assessments[r][i].supporting)}
           = assessments[r][i].supporting \cap IdsOf(r)
<1> DEFINE audit == runAudit(r)
           supporting == assessments[r][i].supporting
           At(id) == {k \in DOMAIN audit.chunks : audit.chunks[k].chunk.id = id}
<1>1. PICK n \in Nat : DOMAIN audit.chunks = 1 .. n
  BY AuditLists
<1>2. \A k : ChunkIn(audit, k)[4] = k
  BY DEF ChunkIn, ChunkId
<1>3. ASSUME NEW id \in IdsOf(r)
      PROVE  Latest(At(id)) \in DOMAIN audit.chunks /\ IdOf(r, Latest(At(id))) = id
  <2>1. At(id) \in SUBSET (1 .. n) /\ At(id) # {}
    BY <1>1, <1>3 DEF IdsOf, IdOf
  <2>2. Latest(At(id)) \in At(id)
    <3> HIDE DEF At
    <3> QED
      BY <2>1, LatestPosition
  <2>3. QED
    BY <2>2 DEF IdOf
<1>4. NamedBy(audit, supporting) = {ChunkIn(audit, Latest(At(id))) : id \in IdsOf(r) \cap supporting}
  BY DEF NamedBy, IdsOf, IdOf
<1> HIDE DEF At
<1>5. \A c \in NamedBy(audit, supporting) : IdOf(r, c[4]) \in supporting \cap IdsOf(r)
  BY <1>2, <1>3, <1>4
<1>6. \A id \in supporting \cap IdsOf(r) :
        \E c \in NamedBy(audit, supporting) : IdOf(r, c[4]) = id
  BY <1>2, <1>3, <1>4
<1>7. QED
  BY <1>5, <1>6

(* A claim rests in the ledger on exactly what a recorded run of its run id *)
(* named, whatever other runs were recorded and in whatever order.          *)
THEOREM SupportIsAlwaysWhatWasNamed == LedgerSpec => []SupportIsWhatWasNamed
<1>1. ASSUME LedgerInv, NEW r \in recorded, NEW i \in DOMAIN claims[r]
      PROVE  LET audit == runAudit(r)
                 idOf(k) == audit.chunks[k].chunk.id
                 alike == {s \in recorded : RunIn(runAudit(s)) = RunIn(audit)}
             IN  {idOf(c[4]) : c \in SupportOf(ClaimIn(audit, i))}
                   = (UNION {assessments[s][i].supporting : s \in alike})
                       \cap {idOf(k) : k \in DOMAIN audit.chunks}
  <2> DEFINE alike == {s \in recorded : RunIn(runAudit(s)) = RunIn(runAudit(r))}
             claim == ClaimIn(runAudit(r), i)
  <2>1. \A s \in recorded : s \in Runs /\ Done(s) /\ Inv
    BY <1>1 DEF LedgerInv
  <2>2. \A s \in alike : /\ i \in DOMAIN claims[s] /\ i \in DOMAIN runAudit(s).claims
                         /\ ClaimIn(runAudit(s), i) = claim
                         /\ IdsOf(s) = IdsOf(r)
                         /\ DOMAIN runAudit(s).chunks = DOMAIN runAudit(r).chunks
                         /\ \A k \in DOMAIN runAudit(r).chunks : IdOf(s, k) = IdOf(r, k)
                         /\ runAudit(s).claims[i].supporting = assessments[s][i].supporting
    <3> SUFFICES ASSUME NEW s \in alike
                 PROVE  /\ i \in DOMAIN claims[s] /\ i \in DOMAIN runAudit(s).claims
                        /\ ClaimIn(runAudit(s), i) = claim
                        /\ IdsOf(s) = IdsOf(r)
                        /\ DOMAIN runAudit(s).chunks = DOMAIN runAudit(r).chunks
                        /\ \A k \in DOMAIN runAudit(r).chunks : IdOf(s, k) = IdOf(r, k)
                        /\ runAudit(s).claims[i].supporting = assessments[s][i].supporting
      OBVIOUS
    <3>1. /\ claims[s] = claims[r] /\ runAudit(s).output = runAudit(r).output
          /\ DOMAIN runAudit(s).chunks = DOMAIN runAudit(r).chunks
          /\ \A k \in DOMAIN runAudit(r).chunks : IdOf(s, k) = IdOf(r, k)
      BY <2>1, AlikeRuns DEF IdOf
    <3>2. i \in DOMAIN runAudit(s).claims
      BY <1>1, <2>1, <3>1, AuditLists
    <3>3. runAudit(s).claims[i].supporting = assessments[s][i].supporting
      BY <1>1, <3>1 DEF runAudit
    <3>4. ClaimIn(runAudit(s), i) = claim
      BY <3>1 DEF ClaimIn, OutputIn
    <3>5. QED
      BY <1>1, <3>1, <3>2, <3>3, <3>4 DEF IdsOf
  <2>3. ASSUME NEW c \in SupportOf(claim)
        PROVE  \E s \in alike : c \in NamedBy(runAudit(s), assessments[s][i].supporting)
    <3>1. PICK e \in store.edges : e.type = "SUPPORTED_BY" /\ e.from = claim /\ e.to = c
      BY DEF SupportOf
    <3>2. PICK s \in recorded : e \in EdgesIn(runAudit(s))
      BY <1>1 DEF LedgerInv, StoreInv
    <3>3. PICK j \in DOMAIN runAudit(s).claims :
            \E chunk \in NamedBy(runAudit(s), runAudit(s).claims[j].supporting) :
              e = createEdge(runAudit(s).tenant, "SUPPORTED_BY", ClaimIn(runAudit(s), j), chunk)
      BY <3>1, <3>2, SupportEdges
    <3>4. ClaimIn(runAudit(s), j) = claim /\ c \in NamedBy(runAudit(s), runAudit(s).claims[j].supporting)
      BY <3>1, <3>3 DEF createEdge
    <3>5. s \in alike /\ i = j
      BY <3>4, ClaimParts
    <3>6. QED
      BY <2>2, <3>4, <3>5
  <2>4. ASSUME NEW s \in alike, NEW c \in NamedBy(runAudit(s), assessments[s][i].supporting)
        PROVE  c \in SupportOf(claim)
    <3> DEFINE e == createEdge(runAudit(s).tenant, "SUPPORTED_BY", claim, c)
    <3>1. e \in EdgesIn(runAudit(s)) /\ e.type = "SUPPORTED_BY" /\ e.from = claim /\ e.to = c
      BY <2>2, <2>4, SupportEdges DEF createEdge
    <3>2. e \in store.edges
      BY <1>1, <3>1 DEF LedgerInv, StoreInv
    <3>3. QED
      BY <3>1, <3>2 DEF SupportOf
  <2>5. ASSUME NEW s \in alike
        PROVE  {IdOf(r, c[4]) : c \in NamedBy(runAudit(s), assessments[s][i].supporting)}
                 = assessments[s][i].supporting \cap IdsOf(r)
    <3>1. {IdOf(s, c[4]) : c \in NamedBy(runAudit(s), assessments[s][i].supporting)}
            = assessments[s][i].supporting \cap IdsOf(s)
      BY <2>1, <2>2, NamedIds
    <3>2. \A c \in NamedBy(runAudit(s), assessments[s][i].supporting) : IdOf(s, c[4]) = IdOf(r, c[4])
      <4> SUFFICES ASSUME NEW c \in NamedBy(runAudit(s), assessments[s][i].supporting)
                   PROVE  IdOf(s, c[4]) = IdOf(r, c[4])
        OBVIOUS
      <4>1. PICK k \in DOMAIN runAudit(s).chunks : c = ChunkIn(runAudit(s), k)
        BY <2>1, AuditLists, NamedIsChunk
      <4>2. c[4] = k
        BY <4>1 DEF ChunkIn, ChunkId
      <4>3. QED
        BY <2>2, <4>1, <4>2
    <3>3. QED
      BY <2>2, <3>1, <3>2
  <2> HIDE DEF alike, claim
  <2>6. {IdOf(r, c[4]) : c \in SupportOf(claim)}
          = (UNION {assessments[s][i].supporting : s \in alike}) \cap IdsOf(r)
    <3>1. ASSUME NEW c \in SupportOf(claim)
          PROVE  IdOf(r, c[4]) \in (UNION {assessments[s][i].supporting : s \in alike}) \cap IdsOf(r)
      BY <2>3, <2>5
    <3>2. ASSUME NEW id \in (UNION {assessments[s][i].supporting : s \in alike}) \cap IdsOf(r)
          PROVE  \E c \in SupportOf(claim) : IdOf(r, c[4]) = id
      <4>1. PICK s \in alike : id \in assessments[s][i].supporting \cap IdsOf(r)
        OBVIOUS
      <4>2. PICK c \in NamedBy(runAudit(s), assessments[s][i].supporting) : IdOf(r, c[4]) = id
        BY <2>5, <4>1
      <4>3. QED
        BY <2>4, <4>2
    <3>3. QED
      BY <3>1, <3>2
  <2>7. QED
    BY <2>6 DEF alike, claim, IdOf, IdsOf
<1>2. LedgerInv => SupportIsWhatWasNamed
  BY <1>1 DEF SupportIsWhatWasNamed
<1>3. QED
  BY <1>2, LedgerInvariant, PTL

-------------------------------------------------------------------------------
\* The judge's own word on a claim of a run, where the ladder's does not stand.
JudgedOf(r) ==
  \A i \in DOMAIN claims[r] :
    \/ assessments[r][i] = Deterministic(r, i)
    \/ \E answer \in JudgeAnswers : /\ answer.kind = "ungrounded"
                                    /\ assessments[r][i].supporting = answer.supporting

JudgedInv == \A r \in Runs : Running(r) => JudgedOf(r)

\* Every step keeps what is known of judged claims.
LEMMA JudgedStep == Inv /\ JudgedInv /\ [Next]_vars => JudgedInv'
<1> SUFFICES ASSUME Inv, JudgedInv, [Next]_vars PROVE JudgedInv'
  OBVIOUS
<1>1. ASSUME NEW s \in Runs, Same(s) PROVE (Running(s) => JudgedOf(s))'
  <2>1. Running(s)' = Running(s)
    BY <1>1 DEF Same, Running
  <2>2. \A i : Deterministic(s, i)' = Deterministic(s, i)
    BY <1>1 DEF Same, Deterministic
  <2>3. QED
    BY <1>1, <2>1, <2>2, ZenonT(30) DEF Same, JudgedInv, JudgedOf
<1>2. CASE UNCHANGED vars
  <2>1. \A s \in Runs : Same(s)
    BY <1>2 DEF Same, vars
  <2>2. QED
    BY <1>1, <2>1 DEF JudgedInv
<1>3. CASE Next
  <2>1. PICK r \in Runs : CallerStep(r) \/ JudgeStep(r) \/ Deliver(r)
    BY <1>3 DEF Next
  <2>2. Kept(r)
    BY <2>1, AdmitContextKeeps, RunKeeps, JudgeAnswerKeeps, DeliverKeeps
       DEF CallerStep, JudgeStep
  <2>3. Shapes /\ RunInv(r) /\ RunInv(r)'
    BY <2>2 DEF Inv, Kept
  <2>4. ASSUME NEW list \in CandidateLists, AdmitContext(r, list)
        PROVE  (Running(r) => JudgedOf(r))'
    BY <2>3, <2>4 DEF AdmitContext, Shapes, Running
  <2>5. ASSUME NEW output \in Outputs, Run(r, output)
        PROVE  (Running(r) => JudgedOf(r))'
    <3>1. /\ claims'[r] = output /\ evidence'[r] = Admitted(candidates[r])
          /\ assessments'[r] = [i \in DOMAIN output |->
                                  assessClaim(output[i], Admitted(candidates[r]))]
      BY <2>3, <2>5 DEF Run, Shapes
    <3>2. \A i \in DOMAIN output : assessments'[r][i] = Deterministic(r, i)'
      BY <3>1 DEF Deterministic
    <3>3. QED
      BY <3>1, <3>2 DEF JudgedOf
  <2>6. ASSUME NEW answer \in JudgeAnswers, JudgeAnswer(r, answer)
        PROVE  (Running(r) => JudgedOf(r))'
    <3>1. /\ pc[r] = "judging" /\ Running(r)
          /\ assessments'[r] = Applied(assessments[r], asking[r], answer)
          /\ UNCHANGED <<claims, evidence>>
      BY <2>3, <2>6 DEF JudgeAnswer, Shapes, Running
    <3>2. \A i : Deterministic(r, i)' = Deterministic(r, i)
      BY <3>1 DEF Deterministic
    <3>3. \A i \in DOMAIN claims[r] :
            \/ assessments'[r][i] = assessments[r][i]
            \/ answer.kind = "ungrounded" /\ assessments'[r][i].supporting = answer.supporting
      BY <2>3, <3>1 DEF Applied, Assessment, RunInv, ShapesOf
    <3>4. QED
      BY <3>1, <3>2, <3>3 DEF JudgedInv, JudgedOf
  <2>7. ASSUME Deliver(r)
        PROVE  (Running(r) => JudgedOf(r))'
    <3>1. Running(r) /\ UNCHANGED <<claims, evidence, assessments>>
      BY <2>7 DEF Deliver, Running
    <3>2. \A i : Deterministic(r, i)' = Deterministic(r, i)
      BY <3>1 DEF Deterministic
    <3>3. QED
      BY <3>1, <3>2 DEF JudgedInv, JudgedOf
  <2>8. ASSUME NEW s \in Runs \ {r} PROVE (Running(s) => JudgedOf(s))'
    BY <1>1, <2>2 DEF Kept
  <2>9. QED
    BY <2>1, <2>4, <2>5, <2>6, <2>7, <2>8 DEF JudgedInv, CallerStep, JudgeStep
<1>4. QED
  BY <1>2, <1>3

\* It holds of every behaviour.
LEMMA JudgedInvariant == LedgerSpec => []JudgedInv
<1>1. LedgerInit => JudgedInv
  BY DEF LedgerInit, Init, JudgedInv, Running
<1>2. LedgerInv /\ JudgedInv /\ [LedgerNext]_<<vars, ledgerVars>> => JudgedInv'
  <2> SUFFICES ASSUME LedgerInv, JudgedInv, [LedgerNext]_<<vars, ledgerVars>> PROVE JudgedInv'
    OBVIOUS
  <2>1. [Next]_vars
    BY DEF LedgerNext, Record
  <2>2. QED
    BY <2>1, JudgedStep DEF LedgerInv
<1>3. QED
  BY <1>1, <1>2, LedgerInvariant, PTL DEF LedgerSpec

\* The chunks of a run's audit are candidates the guard has labelled.
LEMMA ChunkOfCandidate ==
  ASSUME Inv, NEW r \in Runs, Done(r), NEW k \in DOMAIN runAudit(r).chunks
  PROVE  /\ \E candidate \in Candidates : runAudit(r).chunks[k].chunk = chunkOf(candidate)
         /\ runAudit(r).chunks[k].admitted = ~wouldRefuse(runAudit(r).chunks[k].chunk)
         /\ runAudit(r).chunks[k].decision = checkSlot(runAudit(r).chunks[k].chunk, Slot).decision
<1>1. candidates[r] \in Seq(Candidates)
  BY ListsAssumption DEF Inv, RunInv, ShapesOf, Done
<1>2. k \in DOMAIN candidates[r]
  BY AuditLists
<1>3. candidates[r][k] \in Candidates
  BY <1>1, <1>2
<1>4. k \in DOMAIN chunksOf(candidates[r]) /\ chunksOf(candidates[r])[k] = chunkOf(candidates[r][k])
  BY <1>2 DEF chunksOf
<1>5. PICK chunk, admitted, decision :
        /\ chunk = chunksOf(candidates[r])[k]
        /\ admitted = ~wouldRefuse(chunk)
        /\ decision = checkSlot(chunk, Slot).decision
  BY Zenon
<1>6. runAudit(r).chunks[k] = [chunk |-> chunk, admitted |-> admitted, decision |-> decision]
  BY <1>4, <1>5, Zenon DEF runAudit
<1>7. /\ runAudit(r).chunks[k].chunk = chunk
      /\ runAudit(r).chunks[k].admitted = admitted
      /\ runAudit(r).chunks[k].decision = decision
  BY <1>6
<1>8. QED
  BY <1>3, <1>4, <1>5, <1>7, Zenon

\* What an assessment names was admitted, if ids tell the chunks apart and the
\* judge names none that was refused.
LEMMA SupportingAdmitted ==
  ASSUME IdsTellChunksApart, JudgeNamesAdmitted,
         Inv, JudgedInv, NEW r \in Runs, Done(r), NEW i \in DOMAIN claims[r],
         NEW k \in DOMAIN runAudit(r).chunks, IdOf(r, k) \in assessments[r][i].supporting
  PROVE  ~wouldRefuse(runAudit(r).chunks[k].chunk)
<1>1. PICK candidate \in Candidates : runAudit(r).chunks[k].chunk = chunkOf(candidate)
  BY ChunkOfCandidate
<1>2. CASE assessments[r][i] = Deterministic(r, i)
  <2>1. evidence[r] = Admissible(chunksOf(candidates[r])) /\ candidates[r] \in CandidateLists
    BY DEF Inv, RunInv, AuditOf, ShapesOf, Running, Done, Admitted
  <2>2. candidates[r] \in Seq(Candidates)
    BY <2>1, ListsAssumption
  <2> DEFINE chunks == chunksOf(candidates[r])
  <2>3. /\ Len(chunks) \in Nat /\ Len(chunks) = Len(candidates[r])
        /\ \A j \in 1 .. Len(chunks) : chunks[j] = chunkOf(candidates[r][j])
    <3>1. Len(candidates[r]) \in Nat /\ DOMAIN candidates[r] = 1 .. Len(candidates[r])
      BY <2>2
    <3>2. chunks \in [1 .. Len(candidates[r]) -> {chunkOf(candidates[r][j]) : j \in DOMAIN candidates[r]}]
      BY <3>1 DEF chunksOf
    <3>3. chunks \in Seq({chunkOf(candidates[r][j]) : j \in DOMAIN candidates[r]})
      BY <3>1, <3>2
    <3>4. Len(chunks) = Len(candidates[r])
      BY <3>1, <3>2, <3>3
    <3>5. QED
      BY <3>1, <3>4 DEF chunksOf
  <2>4. \A j \in DOMAIN evidence[r] : \E m \in 1 .. Len(chunks) :
          evidence[r][j] = chunks[m] /\ ~wouldRefuse(chunks[m])
    <3> DEFINE takes == {m \in DOMAIN chunks : ~wouldRefuse(chunks[m])}
    <3>1. evidence[r] = ItemsAt(chunks, takes)
      BY <2>1 DEF Admissible
    <3> HIDE DEF chunks
    <3>2. \A m \in takes : ~wouldRefuse(chunks[m])
      OBVIOUS
    <3> HIDE DEF takes
    <3>3. evidence[r] \in Seq({chunks[m] : m \in takes \cap (1 .. Len(chunks))})
      BY <2>3, <3>1, ItemsKept
    <3>4. QED
      BY <3>2, <3>3
  <2>5. PICK j \in DOMAIN evidence[r] : evidence[r][j].id = IdOf(r, k)
    BY <1>2, SupportInEvidence DEF Deterministic
  <2>6. PICK m \in 1 .. Len(chunks) : evidence[r][j] = chunks[m] /\ ~wouldRefuse(chunks[m])
    BY <2>4, <2>5
  <2>7. candidates[r][m] \in Candidates /\ chunks[m] = chunkOf(candidates[r][m])
    BY <2>2, <2>3, <2>6
  <2>8. chunkOf(candidate).id = chunkOf(candidates[r][m]).id
    BY <1>1, <2>5, <2>6, <2>7 DEF IdOf
  <2>9. QED
    BY <1>1, <2>6, <2>7, <2>8 DEF IdsTellChunksApart
<1>3. CASE assessments[r][i] # Deterministic(r, i)
  <2>1. PICK answer \in JudgeAnswers : /\ answer.kind = "ungrounded"
                                       /\ assessments[r][i].supporting = answer.supporting
    BY <1>3 DEF JudgedInv, JudgedOf, Running, Done
  <2>2. chunkOf(candidate).id \in answer.supporting
    BY <1>1, <2>1 DEF IdOf
  <2>3. QED
    BY <1>1, <2>1, <2>2 DEF JudgeNamesAdmitted
<1>4. QED
  BY <1>2, <1>3

\* Where ids tell chunks apart, a chunk node is of the same chunk in every run
\* that records it.
LEMMA OneChunk ==
  ASSUME IdsTellChunksApart, Inv, NEW s \in Runs, NEW t \in Runs, Done(s), Done(t),
         NEW k \in DOMAIN runAudit(s).chunks,
         ChunkIn(runAudit(s), k) \in IdsIn(runAudit(t))
  PROVE  /\ k \in DOMAIN runAudit(t).chunks
         /\ ChunkIn(runAudit(t), k) = ChunkIn(runAudit(s), k)
         /\ runAudit(t).chunks[k].chunk = runAudit(s).chunks[k].chunk
<1>1. ChunkIn(runAudit(s), k) \in ChunksIn(runAudit(t))
  BY MembersOfKind, ChunkForm DEF LocalTo
<1>2. PICK j \in DOMAIN runAudit(t).chunks : ChunkIn(runAudit(s), k) = ChunkIn(runAudit(t), j)
  BY <1>1 DEF ChunksIn
<1>3. RunIn(runAudit(s)) = RunIn(runAudit(t)) /\ j = k
  BY <1>2, ChunkParts
<1>4. runAudit(t).chunks[k].chunk.id = runAudit(s).chunks[k].chunk.id
  BY <1>3, AlikeRuns
<1>5. PICK a \in Candidates : runAudit(s).chunks[k].chunk = chunkOf(a)
  BY ChunkOfCandidate
<1>6. PICK b \in Candidates : runAudit(t).chunks[k].chunk = chunkOf(b)
  BY <1>2, <1>3, ChunkOfCandidate
<1>7. QED
  BY <1>2, <1>3, <1>4, <1>5, <1>6 DEF IdsTellChunksApart

\* A chunk no run refuses is refused by no node of the store.
LEMMA NotRefused ==
  ASSUME IdsTellChunksApart, LedgerInv, NEW s \in recorded, NEW k \in DOMAIN runAudit(s).chunks,
         ~wouldRefuse(runAudit(s).chunks[k].chunk)
  PROVE  ChunkIn(runAudit(s), k) \notin Refused(store)
<1> DEFINE c == ChunkIn(runAudit(s), k)
<1>0. Inv /\ \A t \in recorded : t \in Runs /\ Done(t)
  BY DEF LedgerInv
<1>1. ASSUME NEW t \in recorded, c \in IdsIn(runAudit(t))
      PROVE  /\ k \in DOMAIN runAudit(t).chunks
             /\ c = ChunkIn(runAudit(t), k)
             /\ ~wouldRefuse(runAudit(t).chunks[k].chunk)
  BY <1>0, <1>1, OneChunk
<1>2. ASSUME c \in DOMAIN store.nodes PROVE store.nodes[c].admitted
  <2>1. PICK t \in recorded : c \in IdsIn(runAudit(t)) /\ store.nodes[c] = AttributesIn(runAudit(t), c)
    BY <1>2 DEF LedgerInv, StoreInv, RecordedAs
  <2>2. store.nodes[c].admitted = runAudit(t).chunks[k].admitted
    <3>1. c = ChunkIn(runAudit(t), k)
      BY <1>1, <2>1
    <3> HIDE DEF c
    <3>2. QED
      BY <2>1, <3>1, ChunkAttributes
  <2>3. runAudit(t).chunks[k].admitted = ~wouldRefuse(runAudit(t).chunks[k].chunk)
    BY <1>0, <1>1, <2>1, ChunkOfCandidate
  <2>4. ~wouldRefuse(runAudit(t).chunks[k].chunk)
    BY <1>1, <2>1
  <2>5. QED
    BY <2>2, <2>3, <2>4, Zenon
<1>3. ASSUME NEW v \in OfKind(store, "Verdict"), v[3] = c
      PROVE  store.nodes[v].decision = "allow"
  <2>1. PICK t \in recorded : v \in IdsIn(runAudit(t)) /\ store.nodes[v] = AttributesIn(runAudit(t), v)
    BY DEF LedgerInv, StoreInv, RecordedAs, OfKind
  <2>2. PICK target \in ChunksIn(runAudit(t)) \cup ClaimsIn(runAudit(t)) :
          v = VerdictIn(runAudit(t), target)
    BY <2>1, MembersOfKind DEF OfKind
  <2>3. target = c
    BY <1>3, <2>2, VerdictAttributes
  <2>4. c \in IdsIn(runAudit(t))
    BY <2>2, <2>3 DEF IdsIn
  <2>5. store.nodes[v] = VerdictOn(runAudit(t), c)
    <3> HIDE DEF c
    <3> QED
      BY <2>1, <2>2, <2>3, VerdictAttributes
  <2>6. store.nodes[v].decision = runAudit(t).chunks[k].decision
    <3>1. c = ChunkIn(runAudit(t), k)
      BY <1>1, <2>4
    <3> HIDE DEF c
    <3>2. QED
      BY <2>5, <3>1, ChunkVerdict
  <2>7. runAudit(t).chunks[k].decision = checkSlot(runAudit(t).chunks[k].chunk, Slot).decision
    BY <1>0, <1>1, <2>4, ChunkOfCandidate
  <2>8. checkSlot(runAudit(t).chunks[k].chunk, Slot).decision = "allow"
    BY <1>1, <2>4 DEF wouldRefuse
  <2>9. QED
    BY <2>6, <2>7, <2>8
<1>4. QED
  BY <1>2, <1>3, Zenon DEF Refused, OfKind

(* No chunk the slot refused supports a claim of the ledger: neither mode,  *)
(* nor a run that shares the ledger, nor a judge of the caller's that       *)
(* refutes by what it was shown, puts one there.                            *)
THEOREM RefusedNeverSupport ==
  ASSUME IdsTellChunksApart, JudgeNamesAdmitted
  PROVE  LedgerSpec => []RefusedNeverSupports
<1>1. ASSUME LedgerInv, JudgedInv PROVE RefusedNeverSupports
  <2>0. Inv /\ \A t \in recorded : t \in Runs /\ Done(t)
    BY <1>1 DEF LedgerInv
  <2>1. ASSUME NEW e \in store.edges, e.type = "SUPPORTED_BY"
        PROVE  e.to \notin Refused(store)
    <3>1. PICK s \in recorded : e \in EdgesIn(runAudit(s))
      BY <1>1 DEF LedgerInv, StoreInv
    <3>2. PICK i \in DOMAIN runAudit(s).claims :
            e.to \in NamedBy(runAudit(s), runAudit(s).claims[i].supporting)
      <4>1. PICK i \in DOMAIN runAudit(s).claims :
              \E chunk \in NamedBy(runAudit(s), runAudit(s).claims[i].supporting) :
                e = createEdge(runAudit(s).tenant, "SUPPORTED_BY", ClaimIn(runAudit(s), i), chunk)
        BY <2>1, <3>1, SupportEdges
      <4>2. QED
        BY <4>1 DEF createEdge
    <3>3. i \in DOMAIN claims[s] /\ runAudit(s).claims[i].supporting = assessments[s][i].supporting
      <4>1. i \in DOMAIN claims[s]
        BY <2>0, AuditLists
      <4>2. QED
        BY <4>1 DEF runAudit
    <3>4. PICK k \in DOMAIN runAudit(s).chunks :
            e.to = ChunkIn(runAudit(s), k) /\ IdOf(s, k) \in assessments[s][i].supporting
      BY <2>0, <3>2, <3>3, AuditLists, NamedIsChunk DEF IdOf
    <3>5. ~wouldRefuse(runAudit(s).chunks[k].chunk)
      BY <1>1, <2>0, <3>3, <3>4, SupportingAdmitted
    <3>6. QED
      BY <1>1, <3>4, <3>5, NotRefused
  <2>2. QED
    BY <2>1 DEF RefusedNeverSupports, SupportFromBlocked
<1>2. QED
  BY <1>1, LedgerInvariant, JudgedInvariant, PTL
-------------------------------------------------------------------------------
\* The run that was recorded last under the run id of a recorded run.
LEMMA LatestRun ==
  ASSUME LedgerInv, NEW t \in recorded
  PROVE  \E s \in recorded :
           /\ s \in Runs /\ Done(s)
           /\ RunIn(runAudit(s)) = RunIn(runAudit(t))
           /\ \A id \in IdsIn(runAudit(s)) :
                /\ id \in DOMAIN store.nodes
                /\ runOf(id) # NoRun => store.nodes[id] = AttributesIn(runAudit(s), id)
<1>1. RunIn(runAudit(t)) \in DOMAIN latest
  BY DEF LedgerInv, LatestInv
<1>2. PICK s : s = latest[RunIn(runAudit(t))]
  OBVIOUS
<1>3. /\ s \in recorded /\ RunIn(runAudit(s)) = RunIn(runAudit(t))
      /\ \A id \in IdsIn(runAudit(s)) :
           runOf(id) # NoRun => store.nodes[id] = AttributesIn(runAudit(s), id)
  BY <1>1, <1>2 DEF LedgerInv, LatestInv, LatestOf
<1>4. \A id \in IdsIn(runAudit(s)) : id \in DOMAIN store.nodes
  BY <1>3 DEF LedgerInv, StoreInv
<1>5. QED
  BY <1>3, <1>4 DEF LedgerInv

\* An id of a run is not one that outlives it.
LEMMA OfARun ==
  ASSUME NEW audit
  PROVE  /\ runOf(OutputIn(audit)) # NoRun
         /\ \A target : runOf(VerdictIn(audit, target)) # NoRun
<1>1. RunIn(audit) # NoRun
  BY DEF RunIn, RunId, NoRun
<1>2. QED
  BY <1>1, OutputForm, VerdictForm DEF LocalTo

\* In what an enforcing guard delivered every claim is grounded.
LEMMA DeliveredGrounded ==
  ASSUME Inv, NEW r \in Runs, Done(r), guard[r].mode # "monitor", result[r].delivered,
         NEW i \in DOMAIN claims[r]
  PROVE  assessments[r][i].status = "grounded"
<1>1. RunInv(r) /\ Running(r)
  BY DEF Inv, Running, Done
<1>2. Supported(claims[r], chunksOf(candidates[r]))
  BY <1>1, Results
<1>3. DOMAIN assessments[r] = DOMAIN claims[r]
  BY <1>1 DEF RunInv, ShapesOf
<1>4. QED
  BY <1>1, <1>2, <1>3, StatusesOf

(* Whatever was delivered, the ledger explains: the verdicts of the run     *)
(* recorded last say of each of its claims that it was allowed, or that the *)
(* policy was only monitoring.                                              *)
THEOREM DeliveriesAlwaysExplained == LedgerSpec => []DeliveriesExplained
<1>1. ASSUME LedgerInv, NEW c \in OfKind(store, "Claim"), store.nodes[c[3]].delivered
      PROVE  \E v \in OfKind(store, "Verdict") :
               v[3] = c /\ (store.nodes[v].decision = "allow" \/ store.nodes[v].monitored)
  <2>1. PICK t \in recorded : t \in Runs /\ Done(t) /\ c \in IdsIn(runAudit(t))
    BY <1>1 DEF LedgerInv, StoreInv, RecordedAs, OfKind
  <2>2. PICK i \in DOMAIN runAudit(t).claims : c = ClaimIn(runAudit(t), i)
    BY <2>1, MembersOfKind DEF OfKind, ClaimsIn
  <2>3. PICK s \in recorded :
          /\ s \in Runs /\ Done(s)
          /\ RunIn(runAudit(s)) = RunIn(runAudit(t))
          /\ \A id \in IdsIn(runAudit(s)) :
               /\ id \in DOMAIN store.nodes
               /\ runOf(id) # NoRun => store.nodes[id] = AttributesIn(runAudit(s), id)
    BY <1>1, <2>1, LatestRun
  <2>4. /\ runAudit(s).output = runAudit(t).output
        /\ i \in DOMAIN runAudit(s).claims /\ i \in DOMAIN claims[s]
    BY <1>1, <2>1, <2>2, <2>3, AlikeRuns, AuditLists DEF LedgerInv
  <2>5. c = ClaimIn(runAudit(s), i) /\ c[3] = OutputIn(runAudit(s))
    BY <2>2, <2>3, <2>4 DEF ClaimIn, ClaimId, OutputIn
  <2>6. result[s].delivered
    <3>1. OutputIn(runAudit(s)) \in IdsIn(runAudit(s))
      BY DEF IdsIn
    <3>2. store.nodes[c[3]] = AttributesIn(runAudit(s), OutputIn(runAudit(s)))
      BY <2>3, <2>5, <3>1, OfARun
    <3>3. AttributesIn(runAudit(s), OutputIn(runAudit(s))).delivered = runAudit(s).delivered
      BY DEF AttributesIn, OutputIn, OutputId, KindOf
    <3>4. runAudit(s).delivered = result[s].delivered
      BY DEF runAudit
    <3>5. store.nodes[c[3]].delivered = result[s].delivered
      BY <3>2, <3>3, <3>4
    <3>6. QED
      BY <1>1, <3>5, Zenon
  <2>7. PICK v : v = VerdictIn(runAudit(s), c)
    OBVIOUS
  <2>8. v \in OfKind(store, "Verdict") /\ v[3] = c /\ store.nodes[v] = VerdictOn(runAudit(s), c)
    <3>1. v \in IdsIn(runAudit(s))
      BY <2>4, <2>5, <2>7 DEF IdsIn, ClaimsIn
    <3>2. v[3] = c /\ AttributesIn(runAudit(s), v) = VerdictOn(runAudit(s), c)
      BY <2>7, VerdictAttributes
    <3>3. KindOf(v) = "Verdict"
      BY <2>7, VerdictForm DEF LocalTo
    <3>4. QED
      BY <2>3, <2>7, <3>1, <3>2, <3>3, OfARun DEF OfKind
  <2>9. /\ store.nodes[v].decision = decisionForGrounding(runAudit(s).claims[i].status)
        /\ store.nodes[v].monitored <=> runAudit(s).policy.mode = "monitor"
    <3> USE <2>5, <2>8
    <3>1. store.nodes[v].decision = decisionForGrounding(runAudit(s).claims[i].status)
      BY ClaimVerdict
    <3>2. store.nodes[v].monitored <=> runAudit(s).policy.mode = "monitor"
      BY ClaimVerdict, ZenonT(30)
    <3>3. QED
      BY <3>1, <3>2, Zenon
  <2>10. runAudit(s).claims[i].status = assessments[s][i].status
    BY <2>4 DEF runAudit
  <2>11. runAudit(s).policy.mode = guard[s].mode
    BY DEF runAudit
  <2>12. CASE guard[s].mode = "monitor"
    BY <2>8, <2>9, <2>11, <2>12, Zenon
  <2>13. CASE guard[s].mode # "monitor"
    <3>1. assessments[s][i].status = "grounded"
      BY <1>1, <2>3, <2>4, <2>6, <2>13, DeliveredGrounded DEF LedgerInv
    <3>2. store.nodes[v].decision = "allow"
      BY <2>9, <2>10, <3>1 DEF decisionForGrounding
    <3>3. QED
      BY <2>8, <3>2, Zenon
  <2>14. QED
    BY <2>12, <2>13
<1>2. LedgerInv => DeliveriesExplained
  BY <1>1, Zenon DEF DeliveriesExplained, UnsupportedDelivery
<1>3. QED
  BY <1>2, LedgerInvariant, PTL
-------------------------------------------------------------------------------
\* The attributes of the nodes that outlive a run.
LEMMA SharedAttributes ==
  ASSUME NEW audit, NEW id
  PROVE  /\ KindOf(id) = "Source" => AttributesIn(audit, id) = NoAttributes
         /\ KindOf(id) = "Policy" =>
              AttributesIn(audit, id) = [mode        |-> audit.policy.mode,
                                         contentHash |-> audit.policy.contentHash]
BY DEF AttributesIn

\* Where policies are named apart, one id has one policy's attributes.
LEMMA OnePolicy ==
  ASSUME PoliciesNamedApart, Inv, NEW s \in Runs, NEW t \in Runs,
         PolicyIn(runAudit(s)) = PolicyIn(runAudit(t))
  PROVE  /\ runAudit(s).policy.mode = runAudit(t).policy.mode
         /\ runAudit(s).policy.contentHash = runAudit(t).policy.contentHash
<1>1. guard[s] \in Guards /\ guard[t] \in Guards
  BY DEF Inv, Shapes
<1>2. \A r \in Runs : /\ runAudit(r).tenant = guard[r].tenant
                      /\ runAudit(r).policy.name = guard[r].policy.name
                      /\ runAudit(r).policy.version = guard[r].policy.version
                      /\ runAudit(r).policy.mode = guard[r].mode
                      /\ runAudit(r).policy.contentHash = contentDigest(Slot)
  BY DEF runAudit
<1>3. /\ runAudit(s).tenant = runAudit(t).tenant
      /\ runAudit(s).policy.name = runAudit(t).policy.name
      /\ runAudit(s).policy.version = runAudit(t).policy.version
  BY DEF PolicyIn, PolicyId
<1>4. guard[s].mode = guard[t].mode
  BY <1>1, <1>2, <1>3 DEF PoliciesNamedApart
<1>5. QED
  BY <1>2, <1>4

\* What the ledger knows of the run recorded last under its id is what it says.
LEMMA LatestIsKnown ==
  ASSUME PoliciesNamedApart, LedgerInv, NEW run \in DOMAIN latest,
         NEW id \in IdsIn(runAudit(latest[run]))
  PROVE  id \in DOMAIN store.nodes /\ store.nodes[id] = AttributesIn(runAudit(latest[run]), id)
<1>1. PICK s : s = latest[run]
  OBVIOUS
<1>2. /\ s \in recorded /\ s \in Runs /\ id \in IdsIn(runAudit(s))
      /\ runOf(id) # NoRun => store.nodes[id] = AttributesIn(runAudit(s), id)
  BY <1>1 DEF LedgerInv, LatestInv, LatestOf
<1>3. id \in DOMAIN store.nodes
  BY <1>2 DEF LedgerInv, StoreInv
<1>4. PICK t \in recorded : /\ id \in IdsIn(runAudit(t))
                            /\ store.nodes[id] = AttributesIn(runAudit(t), id)
  BY <1>3 DEF LedgerInv, StoreInv, RecordedAs
<1>5. t \in Runs /\ Inv
  BY DEF LedgerInv
<1>6. CASE runOf(id) # NoRun
  BY <1>1, <1>2, <1>3, <1>6
<1>7. CASE KindOf(id) = "Source"
  <2>1. AttributesIn(runAudit(s), id) = NoAttributes /\ AttributesIn(runAudit(t), id) = NoAttributes
    BY <1>7, SharedAttributes
  <2>2. QED
    BY <1>1, <1>3, <1>4, <2>1
<1>8. CASE KindOf(id) = "Policy"
  <2>1. id = PolicyIn(runAudit(s)) /\ id = PolicyIn(runAudit(t))
    BY <1>2, <1>4, <1>8, MembersOfKind
  <2>2. /\ runAudit(s).policy.mode = runAudit(t).policy.mode
        /\ runAudit(s).policy.contentHash = runAudit(t).policy.contentHash
    BY <1>2, <1>5, <2>1, OnePolicy
  <2>3. AttributesIn(runAudit(s), id) = AttributesIn(runAudit(t), id)
    BY <1>8, <2>2, SharedAttributes
  <2>4. QED
    BY <1>1, <1>3, <1>4, <2>3
<1>9. RunIn(runAudit(s)) # NoRun
  BY DEF RunIn, RunId, NoRun
<1>10. runOf(id) # NoRun \/ KindOf(id) \in {"Policy", "Source"}
  BY <1>2, <1>9, IdForms DEF LocalTo, SharedBy
<1>11. QED
  BY <1>6, <1>7, <1>8, <1>10

(* Where policies are named apart, recording again a run that is what the   *)
(* ledger knows of its run id changes nothing, whatever came in between.    *)
THEOREM ReplayAlwaysConverges ==
  ASSUME PoliciesNamedApart
  PROVE  LedgerSpec => ReplayConverges
<1>1. ASSUME LedgerInv, NEW run \in DOMAIN latest, Record(latest[run])
      PROVE  store' = store
  <2>1. PICK s : s = latest[run]
    OBVIOUS
  <2>2. s \in recorded /\ s \in Runs
    BY <1>1, <2>1 DEF LedgerInv, LatestInv, LatestOf
  <2>3. Record(s)
    BY <1>1, <2>1 DEF Record
  <2>4. /\ store' = [nodes |-> recordOver(store.nodes, graphOf(s).nodes),
                     edges |-> store.edges \cup EdgesIn(runAudit(s))]
        /\ DOMAIN store'.nodes = DOMAIN store.nodes \cup IdsIn(runAudit(s))
        /\ \A id \in IdsIn(runAudit(s)) : store'.nodes[id] = AttributesIn(runAudit(s), id)
        /\ \A id \in DOMAIN store.nodes \ IdsIn(runAudit(s)) : store'.nodes[id] = store.nodes[id]
    BY <1>1, <2>2, <2>3, RecordStores
  <2>5. \A id \in IdsIn(runAudit(s)) :
          id \in DOMAIN store.nodes /\ store.nodes[id] = AttributesIn(runAudit(s), id)
    BY <1>1, <2>1, LatestIsKnown
  <2>6. store'.edges = store.edges
    <3>1. EdgesIn(runAudit(s)) \subseteq store.edges
      BY <1>1, <2>2 DEF LedgerInv, StoreInv
    <3>2. store'.edges = store.edges \cup EdgesIn(runAudit(s))
      BY <2>4
    <3>3. QED
      BY <3>1, <3>2
  <2>7. store'.nodes = store.nodes
    <3>1. DOMAIN store'.nodes = DOMAIN store.nodes
      BY <2>4, <2>5
    <3>2. \A id \in DOMAIN store.nodes : store'.nodes[id] = store.nodes[id]
      BY <2>4, <2>5
    <3>3. store.nodes = [id \in DOMAIN store.nodes |-> store.nodes[id]]
      BY <1>1 DEF LedgerInv, StoreInv
    <3>4. store'.nodes = [id \in DOMAIN store'.nodes |-> store'.nodes[id]]
      BY <2>4 DEF recordOver
    <3>5. QED
      BY <3>1, <3>2, <3>3, <3>4
  <2>8. store' = [nodes |-> store'.nodes, edges |-> store'.edges]
    BY <2>4
  <2>9. store = [nodes |-> store.nodes, edges |-> store.edges]
    BY <1>1 DEF LedgerInv, StoreInv
  <2>10. QED
    BY <2>6, <2>7, <2>8, <2>9
<1>2. LedgerInv =>
        [\A id \in DOMAIN latest : Record(latest[id]) => store' = store]_<<vars, ledgerVars>>
  BY <1>1
<1>3. QED
  BY <1>2, LedgerInvariant, PTL DEF ReplayConverges
===============================================================================
