SPECIFICATION LiveSpec
CONSTANTS
  None = None
  Requests = {r1, r2, r3}
  MaxObjects = 1
  MaxIds = 1
  Callers = {c1, c2}
  Subjects = {alice, bob}
  Others = others
  MaxDecisions = 1
  Turns = {t1, t2, t3}
  Accounts = {alice, bob}
  Limits = {0, 1, 2}
  MaxChanges = 1
INVARIANTS
  SlotsAccounted
PROPERTIES
  NobodyWaitsForever
  EveryoneAnswered
  EveryTurnRuns
CHECK_DEADLOCK FALSE
