CONSTANTS
  Slots = {f1, f2}
  MaxRetries = 2
  Persisted = TRUE
SPECIFICATION Spec
PROPERTIES RemovedStaysRemoved
CHECK_DEADLOCK FALSE
