\* Evidence that grows and is reordered, every chunk under its own id.
CONSTANTS
  Claims <- MCClaims
  Chunks <- MCChunks
  MaxEvidence = 3
  Unverifiable = "quarantine"
SPECIFICATION Spec
INVARIANTS
  GroundedOnTrusted
  InventedSpecificBlocks
  LowTierOnlyIfNoneTrusted
PROPERTIES
  MoreEvidenceNeverUngrounds
  OrderIrrelevant
CHECK_DEADLOCK FALSE
