SPECIFICATION Spec
CONSTANTS
  Ids = {i1}
  Names = {n1}
  None = None
  Hours = {2, 3}
  Configs <- Widening
  Base <- Plain
  Start = 1
  End = 3
  MaxQueue = 2
  MaxCommands = 4
INVARIANTS RestartAccepted
