\* Every output of up to six symbols.
CONSTANTS
  Pieces <- MCPieces
  MaxLength = 6
SPECIFICATION Spec
INVARIANTS
  SpansPointAtTheirText
  CodeIsNeverClaimed
  EveryAssertionClaimed
PROPERTIES
  FinishedLinesStand
CHECK_DEADLOCK FALSE
