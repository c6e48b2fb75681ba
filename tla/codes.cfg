CONSTANTS
  h1 = h1
  h2 = h2
  o1 = o1
  None = None
  Handlers <- TwoHandlers
  Orders <- OneOrder
  Limit = 1
  Lags <- PromptOrSlow
  Overtime = 1
  LockTimeout = 33
  Orphan = Orphan
SPECIFICATION Spec
INVARIANTS TypeOK OneAtATime CodesWithinLimit ArrivesAlive
SYMMETRY Symmetry
CHECK_DEADLOCK FALSE
