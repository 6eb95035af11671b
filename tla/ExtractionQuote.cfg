\* Every output of up to six symbols, against the comment on closing quotes.
CONSTANTS
  Pieces <- MCPieces
  MaxLength = 6
SPECIFICATION Spec
INVARIANTS
  QuotedSentenceEnds
CHECK_DEADLOCK FALSE
