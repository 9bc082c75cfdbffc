SPECIFICATION PartsSpec
CONSTANTS
  Callers = {c1, c2, c3}
  Subjects = {alice, bob}
  None = None
  Others = others
  MaxDecisions = 2
  Pictures = 2
  MaxTexts = 2
  Budget = 9
  Between = 1
  Rule = 2
  Longest = 5
SYMMETRY CallerSymmetry
INVARIANTS
  TokenIsPinned
  TurnShownOnce
  PromptFits
PROPERTIES
  NewerWins
  TurnKeepsOwner
  RenewedIsNew
  FailureIsShared
CHECK_DEADLOCK FALSE
