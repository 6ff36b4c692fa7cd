SPECIFICATION FairSpec
CONSTANTS
  a = a
  b = b
  c = c
  A = A
  B = B
  NoProc = NoProc
  Proc = {a, b}
  Dep = {A, B}
  DepOf <- Single
  Coordinated = {a, b}
  Laggards = {}
  RestartOld = FALSE
  MaxFaults = 2
PROPERTY StandbyReplacesOlder
PROPERTY ServiceResumes
