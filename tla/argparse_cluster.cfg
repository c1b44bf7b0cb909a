CONSTANTS
  MaxTokens = 1
  Limits <- UpToTwo
  CommandLines <- Lines
  Definitions <- Usages
  AllocatorMayFail = FALSE
SPECIFICATION Spec
INVARIANTS AllAccounted
CHECK_DEADLOCK FALSE
