\* Two runs on guards of both modes, with and without a judge, and the gate
\* they promise, on a slot that also takes T4 material.
\* The event loop is fair; a judge may never answer, except where a property
\* supposes that it does.
CONSTANTS
  r1 = r1
  r2 = r2
  Runs = {r1, r2}
  Guards <- MCGuards
  Slot <- MCLenientSlot
  Candidates <- MCCandidates
  CandidateLists <- MCCandidateLists
  Claims <- MCClaims
  Outputs <- MCOutputs
  JudgeAnswers <- MCJudgeAnswers
SPECIFICATION SpecLoopFair
INVARIANTS
  DeliverySound
  JudgeOnlyStricter
  DecisionModeIndependent
PROPERTIES
  ImplementsGate
  OnlyTheUndecidedWait
  EveryRunReturns
\* Every run may have returned.
CHECK_DEADLOCK FALSE
