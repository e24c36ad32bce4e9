SPECIFICATION Spec
CONSTANTS
  Texts <- MCTexts
  Length <- MCLength
  Given <- MCGiven
  DeterministicWeight = 80
  AIImpacts = {0, 3, 50, 100, 250}
INVARIANTS TypeOK LossNeverPasses AuditWithinShare
CHECK_DEADLOCK FALSE
