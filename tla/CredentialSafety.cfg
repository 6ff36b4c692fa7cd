SPECIFICATION Spec
CONSTANTS
  Managers = {m1, m2}
  None = None
  MaxIssued = 3
SYMMETRY Symmetry
INVARIANTS TypeOK CurrentUnlessLost ExclusiveUse
PROPERTIES InterruptedNotResumed
