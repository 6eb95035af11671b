-------------------------------- MODULE Guard --------------------------------
(***************************************************************************)
(* createGuard (packages/middleware): the two call sites of the guard and  *)
(* the judge it may wait for.  A caller admits its candidates to context,  *)
(* lets its model write an output, and hands candidates and output to run. *)
(* run labels and checks the candidates again, audits the output against   *)
(* the admissible ones, asks the judge about the claims nothing else       *)
(* settled, one at a time, and answers with a decision.                    *)
(*                                                                         *)
(* Every await is a point where other runs make steps.  The judge is code  *)
(* of the caller: it may answer anything, throw, or never answer.          *)
(***************************************************************************)
EXTENDS InboundGuard, Grounding

CONSTANTS
  Runs,           \* the calls of run, of one guard or of several
  Guards,         \* the guards in use: [mode, judge, ...]
  Slot,           \* the slot every one of them fills
  Candidates,     \* the candidate chunks there are: [id, text, hints]
  CandidateLists, \* what a caller may pass as candidates
  Claims,         \* the claims there are
  Outputs,        \* the outputs a model may write, as their claims in order
  JudgeAnswers    \* what a judge may answer: [kind, supporting]

Modes == {"monitor", "enforce"}

\* "unusable" is an answer that is no Grounding, "throws" a rejected promise.
AnswerKinds == GroundingStatuses \cup {"unusable", "throws"}

ASSUME GuardsAssumption == \A g \in Guards : g.mode \in Modes /\ g.judge \in BOOLEAN

ASSUME ListsAssumption == CandidateLists \subseteq Seq(Candidates)

ASSUME OutputsAssumption == Outputs \subseteq Seq(Claims)

ASSUME AnswersAssumption == \A answer \in JudgeAnswers : answer.kind \in AnswerKinds

VARIABLES
  pc,          \* per run: "idle", "admitted", "judging", "settled", "done"
  guard,       \* per run, the guard it was made on
  candidates,  \* per run, the candidates the caller passed
  context,     \* per run, the chunks admitContext returned to the caller
  claims,      \* per run, the claims of the output
  evidence,    \* per run, the chunks the output is audited against
  assessments, \* per run, the assessment of each claim so far
  advisory,    \* per run, what the judge said of each claim
  asking,      \* per run, the claim the judge is asked about, 0 for none
  result       \* per run, what run returned

vars == <<pc, guard, candidates, context, claims, evidence, assessments,
          advisory, asking, result>>

\* The caller's id for a candidate, when it gives none.
NoId == <<>>

NoAdvice == "none"
NoResult == [decision |-> "undecided", delivered |-> FALSE]

-------------------------------------------------------------------------------
chunkOf(candidate) ==
  LET classified == classifyChunk(candidate.text, candidate.hints)
  IN  IF candidate.id = NoId THEN classified ELSE [classified EXCEPT !.id = candidate.id]

wouldRefuse(chunk) == checkSlot(chunk, Slot).decision # "allow"

chunksOf(list) == [i \in DOMAIN list |-> chunkOf(list[i])]

\* Admissible that takes every chunk.
Admissible_all(chunks) == chunks

\* The chunks the slot takes, in order.
Admissible(chunks) == ItemsAt(chunks, {k \in DOMAIN chunks : ~wouldRefuse(chunks[k])})

Admitted(list) == Admissible(chunksOf(list))

\* admitContext(candidates).context: monitor mode withholds nothing.
contextFor(list, mode) == IF mode = "monitor" THEN chunksOf(list) ELSE Admitted(list)

\* Undecided that takes in the claims the ladder settled.
Undecided_all(assessed, k) == {i \in DOMAIN assessed : i >= k}

\* The claims from position k on that only a judge can still say anything of.
Undecided(assessed, k) ==
  {i \in DOMAIN assessed : i >= k /\ assessed[i].status = "unverifiable"}

\* AskFrom that asks of every claim, and that asks until the judge decides.
AskFrom_every_claim(r, k, assessed) ==
  IF guard[r].judge /\ Undecided_all(assessed, k) # {}
  THEN /\ asking' = [asking EXCEPT ![r] = First(Undecided_all(assessed, k))]
       /\ pc' = [pc EXCEPT ![r] = "judging"]
  ELSE /\ asking' = [asking EXCEPT ![r] = 0]
       /\ pc' = [pc EXCEPT ![r] = "settled"]

AskFrom_until_decided(r, k, assessed) ==
  IF guard[r].judge /\ Undecided(assessed, 1) # {}
  THEN /\ asking' = [asking EXCEPT ![r] = First(Undecided(assessed, 1))]
       /\ pc' = [pc EXCEPT ![r] = "judging"]
  ELSE /\ asking' = [asking EXCEPT ![r] = 0]
       /\ pc' = [pc EXCEPT ![r] = "settled"]

\* The next of them, and the state run waits in; without one it is settled.
AskFrom(r, k, assessed) ==
  IF guard[r].judge /\ Undecided(assessed, k) # {}
  THEN /\ asking' = [asking EXCEPT ![r] = First(Undecided(assessed, k))]
       /\ pc' = [pc EXCEPT ![r] = "judging"]
  ELSE /\ asking' = [asking EXCEPT ![r] = 0]
       /\ pc' = [pc EXCEPT ![r] = "settled"]

Init ==
  /\ pc = [r \in Runs |-> "idle"]
  /\ guard \in [Runs -> Guards]
  /\ candidates = [r \in Runs |-> <<>>]
  /\ context = [r \in Runs |-> <<>>]
  /\ claims = [r \in Runs |-> <<>>]
  /\ evidence = [r \in Runs |-> <<>>]
  /\ assessments = [r \in Runs |-> <<>>]
  /\ advisory = [r \in Runs |-> <<>>]
  /\ asking = [r \in Runs |-> 0]
  /\ result = [r \in Runs |-> NoResult]

\* The first call site: admitContext(candidates), before the model writes.
AdmitContext(r, list) ==
  /\ pc[r] = "idle"
  /\ pc' = [pc EXCEPT ![r] = "admitted"]
  /\ candidates' = [candidates EXCEPT ![r] = list]
  /\ context' = [context EXCEPT ![r] = contextFor(list, guard[r].mode)]
  /\ UNCHANGED <<guard, claims, evidence, assessments, advisory, asking, result>>

\* The second: run(candidates, output), up to its first await.
Run(r, output) ==
  /\ pc[r] = "admitted"
  /\ LET admissible == Admitted(candidates[r])
         assessed   == [i \in DOMAIN output |-> assessClaim(output[i], admissible)]
     IN  /\ claims' = [claims EXCEPT ![r] = output]
         /\ evidence' = [evidence EXCEPT ![r] = admissible]
         /\ assessments' = [assessments EXCEPT ![r] = assessed]
         /\ advisory' = [advisory EXCEPT ![r] = [i \in DOMAIN output |-> NoAdvice]]
         /\ AskFrom(r, 1, assessed)
  /\ UNCHANGED <<guard, candidates, context, result>>

\* Applied that also takes the judge's word for a claim being grounded.
Applied_grounding(assessed, i, answer) ==
  IF answer.kind \in {"grounded", "ungrounded"}
  THEN [assessed EXCEPT ![i] = Assessment(answer.kind, "judge", answer.supporting, NoReason)]
  ELSE assessed

\* What an answer makes of an undecided claim: only "ungrounded" is applied.
Applied(assessed, i, answer) ==
  IF answer.kind = "ungrounded"
  THEN [assessed EXCEPT ![i] =
          Assessment("ungrounded", "judge", answer.supporting, "CLAIM_UNGROUNDED")]
  ELSE assessed

\* A failed answer leaves the deterministic status as the advice, with an error.
AdviceOf(answer) == IF answer.kind \in {"unusable", "throws"} THEN "error" ELSE answer.kind

\* The judge's promise settles; the loop goes on to the next undecided claim.
JudgeAnswer(r, answer) ==
  /\ pc[r] = "judging"
  /\ LET assessed == Applied(assessments[r], asking[r], answer)
     IN  /\ assessments' = [assessments EXCEPT ![r] = assessed]
         /\ AskFrom(r, asking[r] + 1, assessed)
  /\ advisory' = [advisory EXCEPT ![r][asking[r]] = AdviceOf(answer)]
  /\ UNCHANGED <<guard, candidates, context, claims, evidence, result>>

\* Deliver that quarantines an output with open claims.
Deliver_quarantining(r) ==
  /\ pc[r] = "settled"
  /\ pc' = [pc EXCEPT ![r] = "done"]
  /\ LET decision == verdictFor(assessments[r], "quarantine").decision
     IN  result' = [result EXCEPT ![r] =
           [decision  |-> decision,
            delivered |-> guard[r].mode = "monitor" \/ decision = "allow"]]
  /\ UNCHANGED <<guard, candidates, context, claims, evidence, assessments, advisory, asking>>

\* run resumes from its await and returns.  No unverifiablePolicy is passed on.
Deliver(r) ==
  /\ pc[r] = "settled"
  /\ pc' = [pc EXCEPT ![r] = "done"]
  /\ LET decision == verdictFor(assessments[r], "block").decision
     IN  result' = [result EXCEPT ![r] =
           [decision  |-> decision,
            delivered |-> guard[r].mode = "monitor" \/ decision = "allow"]]
  /\ UNCHANGED <<guard, candidates, context, claims, evidence, assessments, advisory, asking>>

CallerStep(r) ==
  \/ \E list \in CandidateLists : AdmitContext(r, list)
  \/ \E output \in Outputs : Run(r, output)

JudgeStep(r) == \E answer \in JudgeAnswers : JudgeAnswer(r, answer)

Next == \E r \in Runs : CallerStep(r) \/ JudgeStep(r) \/ Deliver(r)

Spec == Init /\ [][Next]_vars

\* The event loop resumes every run whose promise has settled.
LoopFairness == \A r \in Runs : WF_vars(Deliver(r))

\* A judge that always answers in the end: nothing in the code makes it.
JudgeFairness == \A r \in Runs : WF_vars(JudgeStep(r))

SpecLoopFair == Spec /\ LoopFairness

-------------------------------------------------------------------------------
Running(r) == pc[r] \in {"judging", "settled", "done"}
Done(r) == pc[r] = "done"

\* What the deterministic ladder alone says of claim i of run r.
Deterministic(r, i) == assessClaim(claims[r][i], evidence[r])

TypeOK ==
  /\ pc \in [Runs -> {"idle", "admitted", "judging", "settled", "done"}]
  /\ guard \in [Runs -> Guards]
  /\ \A r \in Runs :
       /\ pc[r] # "idle" => candidates[r] \in CandidateLists
       /\ Running(r) => claims[r] \in Outputs
       /\ DOMAIN assessments[r] = DOMAIN claims[r]
       /\ DOMAIN advisory[r] = DOMAIN claims[r]
       /\ asking[r] \in DOMAIN claims[r] \cup {0}
       /\ result[r].decision \in Decisions \cup {"undecided"}
       /\ result[r].delivered \in BOOLEAN

(* An enforcing guard delivers an output only if every claim in it is       *)
(* grounded, and names a chunk of the audited evidence of tier T1 to T3:    *)
(* whatever the slot lets in, whatever the judge said, threw or kept back,  *)
(* and whatever other runs did meanwhile.                                   *)
DeliverySound ==
  \A r \in Runs : Done(r) /\ guard[r].mode = "enforce" /\ result[r].delivered =>
    \A i \in DOMAIN claims[r] :
      /\ assessments[r][i].status = "grounded"
      /\ \E j \in DOMAIN evidence[r] :
           /\ ~isUntrustedTier(evidence[r][j].tier)
           /\ evidence[r][j].id \in assessments[r][i].supporting

(* The judge sees only what the ladder left open, and can only make it      *)
(* worse: a claim has the ladder's status, or was unverifiable and is now   *)
(* ungrounded by a judge that said so.                                      *)
JudgeOnlyStricter ==
  \A r \in Runs : Running(r) => \A i \in DOMAIN claims[r] :
    \/ assessments[r][i] = Deterministic(r, i)
    \/ /\ Deterministic(r, i).status = "unverifiable"
       /\ assessments[r][i].status = "ungrounded"
       /\ assessments[r][i].decidedBy = "judge"
       /\ guard[r].judge /\ advisory[r][i] = "ungrounded"

(* The decision is the same in both modes, and with or without a judge: two *)
(* runs of the same candidates and output never decide differently, however *)
(* their judges answered ("identical in both modes for identical input").   *)
DecisionModeIndependent ==
  \A r, s \in Runs :
    Done(r) /\ Done(s) /\ candidates[r] = candidates[s] /\ claims[r] = claims[s]
      => result[r].decision = result[s].decision

(* Monitor mode changes nothing for the caller: all its candidates reach    *)
(* the context and its output is delivered.                                 *)
MonitorChangesNothing ==
  \A r \in Runs : guard[r].mode = "monitor" =>
    /\ pc[r] # "idle" => Len(context[r]) = Len(candidates[r])
    /\ Done(r) => result[r].delivered

(* In either mode the output is audited against exactly the chunks an       *)
(* enforcing guard would have put in context, so that a refused chunk the   *)
(* model saw in monitor mode grounds nothing.                               *)
AuditedOnAdmissible ==
  \A r \in Runs : Running(r) =>
    /\ evidence[r] = contextFor(candidates[r], "enforce")
    /\ guard[r].mode = "enforce" => evidence[r] = context[r]

(* The judge is consulted on every claim left open before the run returns,  *)
(* in the order of the output, and on no other.                             *)
JudgedInOrder ==
  \A r \in Runs : Running(r) => \A i \in DOMAIN claims[r] :
    advisory[r][i] # NoAdvice <=>
      /\ guard[r].judge
      /\ Deterministic(r, i).status = "unverifiable"
      /\ asking[r] = 0 \/ i < asking[r]

(* A claim once grounded or ungrounded stays so, and nothing about a run    *)
(* changes once it has returned.                                            *)
SettledStaysSettled ==
  [][\A r \in Runs :
       /\ Running(r) => \A i \in DOMAIN claims[r] :
            assessments[r][i].status # "unverifiable" => assessments'[r][i] = assessments[r][i]
       /\ Done(r) => result'[r] = result[r] /\ evidence'[r] = evidence[r]]_vars

(* A run whose claims the ladder settles returns, even though some other    *)
(* run waits for a judge that never answers.                                *)
OnlyTheUndecidedWait ==
  \A r \in Runs :
    (Running(r) /\ (guard[r].judge => Undecided(assessments[r], 1) = {})) ~> Done(r)

(* If the judge always answers in the end, every run returns.               *)
EveryRunReturns == JudgeFairness => \A r \in Runs : Running(r) ~> Done(r)

\* Every claim is grounded by the ladder on the chunks the slot admits.
Supported(claimList, chunks) ==
  \A i \in DOMAIN claimList : assessClaim(claimList[i], Admissible(chunks)).status = "grounded"

\* What a run has submitted for delivery, and what it was answered.
SubmittedBy(r) ==
  IF Running(r)
  THEN [mode |-> guard[r].mode, chunks |-> chunksOf(candidates[r]), claims |-> claims[r]]
  ELSE [mode |-> "none"]

DeliveryOf(r) == IF Done(r) THEN result[r] ELSE [decision |-> "undecided"]

\* The guard as the delivery gate its callers are promised.
Gate == INSTANCE DeliveryGate WITH
  Sound     <- Supported,
  Requests  <- [mode : Modes, chunks : {chunksOf(list) : list \in CandidateLists},
                claims : Outputs],
  submitted <- [r \in Runs |-> SubmittedBy(r)],
  delivery  <- [r \in Runs |-> DeliveryOf(r)]

(* Deciding with a judge, in steps, among other runs, is deciding once by   *)
(* the ladder alone: the guard implements the delivery gate.                *)
ImplementsGate == Gate!Spec
===============================================================================
