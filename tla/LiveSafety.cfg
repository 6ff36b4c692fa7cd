SPECIFICATION FairSpec
PROPERTIES
  LoginOwnsView
  ViewCurrent
  LogsCurrent
  RevokedLeaves
CONSTANTS
  MaxEvents = 2
  MaxLogins = 2
  MaxPipe = 1
