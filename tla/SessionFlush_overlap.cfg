SPECIFICATION Spec
CONSTANTS
  Timers = {t1, t2}
  Loop = loop
  None = None
  MaxTurns = 2
INVARIANTS
  FlushLands
