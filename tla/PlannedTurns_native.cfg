SPECIFICATION PlanSpec
CONSTANTS
  Apis = {"chat", "messages", "responses"}
  MaxRequests = 3
  None = None
INVARIANTS
  NativeKnows
CHECK_DEADLOCK FALSE
