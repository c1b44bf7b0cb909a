CONSTANTS
  MaxTokens = 3
  Limits <- NoneToTwo
  CommandLines <- Lines
  Definitions <- Usages
  AllocatorMayFail = TRUE
SPECIFICATION Spec
INVARIANTS TypeOK LettersAccounted ResultValid DashesEnd
PROPERTIES Returns
CHECK_DEADLOCK FALSE
