\* A run repeated with a judge that fails the second time.
CONSTANTS
  r1 = r1
  r2 = r2
  Runs = {r1, r2}
  Guards <- MCJudgingGuards
  Slot <- MCSlot
  Candidates <- MCCandidates
  CandidateLists <- MCDistinctLists
  Claims <- MCClaims
  Outputs <- MCOutputs
  JudgeAnswers <- MCJudgeAnswers
SPECIFICATION LedgerSpec
PROPERTIES
  JudgeNeverRelabelled
CHECK_DEADLOCK FALSE
