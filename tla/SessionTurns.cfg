SPECIFICATION ChatSpec
CONSTANTS
  Turns = {t1, t2, t3}
  Accounts = {alice}
  Sessions = {a, b}
  Limits = {0, 2}
  MaxChanges = 0
  Old = Old
INVARIANTS
  MessageOnce
  ContextKept
PROPERTIES
  ImplementsSlots
  EveryRequestEnds
CHECK_DEADLOCK FALSE
