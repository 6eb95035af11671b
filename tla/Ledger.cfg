\* Chunk ids tell labels apart, and policy versions tell policies apart.
CONSTANTS
  r1 = r1
  r2 = r2
  Runs = {r1, r2}
  Guards <- MCNamedGuards
  Slot <- MCSlot
  Candidates <- MCCandidates
  CandidateLists <- MCDistinctLists
  Claims <- MCClaims
  Outputs <- MCOutputs
  JudgeAnswers <- MCJudgeAnswers
SPECIFICATION LedgerSpec
INVARIANTS
  StoreWellFormed
  SupportIsWhatWasNamed
  RefusedNeverSupports
  DeliveriesExplained
PROPERTIES
  ReplayConverges
CHECK_DEADLOCK FALSE
