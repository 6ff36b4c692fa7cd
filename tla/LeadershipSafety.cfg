SPECIFICATION Spec
CONSTANTS
  a = a
  b = b
  c = c
  A = A
  B = B
  NoProc = NoProc
  Proc = {a, b, c}
  Dep = {A, B}
  DepOf <- Twin
  Coordinated = {a, b}
  Laggards = {A}
  RestartOld = TRUE
  MaxFaults = 1
INVARIANT TypeOK
INVARIANT WorkersUnderLock
INVARIANT HolderIsCurrent
PROPERTY OnlyHolderWrites
