CONSTANTS
  http = http
  other = other
  socks = socks
  extra = extra
  None = None
  Clusters = {c1, c2}
  Ports <- MCPorts
  Default = http
  Policies <- MCPolicies
  MaxRetries = 2
  MaxFaults = 3
  MaxStrangers = 2
SPECIFICATION FairSpec
INVARIANTS
  TypeOK
  ServedIsVerified
  MigrationResumes
PROPERTIES
  OwnOnly
  Recovers
