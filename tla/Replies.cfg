SPECIFICATION RepliesSpec
CONSTANTS
  None = None
  Requests = {r1, r2, r3}
  MaxObjects = 3
  MaxIds = 1
  Apis = {"chat", "messages", "responses"}
  MaxRequests = 2
  Pieces = 4
  Streams = {"chat", "messages", "responses"}
  MaxItems = 3
  MaxBeats = 1
SYMMETRY RequestSymmetry
INVARIANTS
  
  ReadOnlyInherited
  SourcesOfReply
  StudioKnows
  ReadOnce
  WholeAnswer
  WellFormed
  SettledAfterDelivery

  
  
CHECK_DEADLOCK FALSE
