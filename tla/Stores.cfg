SPECIFICATION StoresSpec
CONSTANTS
  None = None
  People = {alice, bob}
  Askers = {c1, c2}
  MaxEdits = 1
  MaxRotations = 1
  Subjects = {alice, bob}
  Wanters = {c1, c2}
  MaxChanges = 2
  Identities = {i1, i2}
  Turns = {c1, c2}
  Modes = {chat}
  MaxClock = 4
  MaxSwitches = 1
  Talks = {c1, c2}
  Replies = {alice, bob}
  MaxEntries = 5
  MaxTurns = 2
  MaxKeys = 3
  Tenants = {alice, bob}
  Cleaners = {w1}
  MaxThreads = 3
  Calls = {k1, k2, k3}
  Models = {alice, bob}
  Limits = {0, 1, 2}
  LogLimits = {1, 2}
  MaxBuckets = 2
  MaxClears = 1
  Threads = {c1, c2}
  Rates = {0, 2, 3}
  Burst = 2
  UNIT = 4
  MaxTicks = 4
  MaxLimits = 1
  MaxRequests = 5
  PoolAccounts = {c1, c2}
  Signers = {i1, i2}
  MaxPending = 2
  MaxLogins = 2
SYMMETRY Symmetry
INVARIANTS
  GrantDescends
  ToldOfUsable
  NoteIsLatest
  ForgottenStays
  JoinsOwn
  SessionsResume
  LedgerAgrees
  RateHeld
  
PROPERTIES
  ExchangeKeepsOwner
  NewerCaptureStays
  OneAttemptPerInput
  FindsOwn
CHECK_DEADLOCK FALSE
