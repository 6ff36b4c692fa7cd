CONSTANTS
  Slots = {f1, f2}
  MaxRetries = 2
  Persisted = TRUE
SPECIFICATION FairSpec
INVARIANTS TypeOK NoWorkerLost ServesAsDesired NoGhostStatus RetryCovered
PROPERTY EverythingEnds
CHECK_DEADLOCK FALSE
