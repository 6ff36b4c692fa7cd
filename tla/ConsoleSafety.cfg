CONSTANTS
  admin = admin
  op = op
  ext = ext
  new = new
  new2 = new2
  s1 = s1
  s2 = s2
  t1 = t1
  None = None
  Accounts <- MCAccounts
  Local <- MCLocal
  Admin = admin
  Subjects <- MCSubjects
  Bindings <- MCBindings
  Tunnels <- MCTunnels
  Profiles <- MCProfiles
  Browsers = {b1, b2}
  Tokens = {k1, k2}
  Requests = {q1, q2}
  MaxRev <- MCMaxRev
SPECIFICATION Spec
INVARIANTS
  UsableIsVerified
  UniqueIdentity
PROPERTIES
  CommitsCurrent
  JobsAuthorized
  RevocationFinal
SYMMETRY Symmetry
CHECK_DEADLOCK FALSE
