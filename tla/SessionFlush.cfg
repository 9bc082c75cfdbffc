SPECIFICATION FairSpec
CONSTANTS
  Timers = {t1}
  Loop = loop
  None = None
  MaxTurns = 3
INVARIANTS
  FlushLands
PROPERTIES
  SavedOrRetried
