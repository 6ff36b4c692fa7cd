SPECIFICATION Spec
CONSTANTS
  Ids = {i1, i2}
  Names = {n1, n2}
  None = None
  Hours = {2}
  Configs <- Narrowing
  Base <- Plain
  Start = 1
  End = 3
  MaxQueue = 2
  MaxCommands = 5
SYMMETRY Symmetry
INVARIANTS TypeOK RestartAccepted CapacityKept PolicyDurable
PROPERTIES LedgerKept
