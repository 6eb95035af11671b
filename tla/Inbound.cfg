\* Every labelling and check of one payload, over the boundary inputs.
CONSTANTS
  Texts <- MCTexts
  HintStatuses <- MCHintStatuses
  SlotChoices <- MCSlotChoices
SPECIFICATION Spec
INVARIANTS
  CeilingHolds
  DeclarationNeverRaised
  SuspiciousNeverEvidence
  BetterTierNeverHurts
\* A checked payload is done with.
CHECK_DEADLOCK FALSE
