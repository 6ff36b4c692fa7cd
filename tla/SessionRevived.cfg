CONSTANTS
  Slots = {f1, f2}
  MaxRetries = 2
  Persisted = TRUE
SPECIFICATION Spec
PROPERTIES StopDisablesRestart
CHECK_DEADLOCK FALSE
