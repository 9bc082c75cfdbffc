SPECIFICATION Spec
CONSTANTS
  Callers = {c1, c2}
  Subjects = {alice, bob}
  None = None
  Others = others
  MaxDecisions = 1
INVARIANTS
  ToldOfRealFailure
CHECK_DEADLOCK FALSE
