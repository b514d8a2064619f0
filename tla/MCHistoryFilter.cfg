CONSTANTS
  Budget = 11
  Base = 1
  Separator = 1
  Instruction <- Instructions
  Length <- Lengths
  MaxCalls = 2
  MaxMessages = 5
CHECK_DEADLOCK FALSE
SPECIFICATION Spec
INVARIANTS
  FitsBudget
  PromptIsSent
  UnitsStayWhole
  TextsAlternate
  NothingFitsUnsent
