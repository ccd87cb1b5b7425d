CONSTANTS
  PersistedConfig <- MCConfig
  MalformedHosts = {"bad"}
  Tokens = {"t1"}
  Credentials = {"c1", "c2"}
  MaxOps = 1
  MaxFaults = 1
  MaxRestarts = 1
  PermissionSets <- MCPerms
  Scopes <- MCScopes
  Sees = {"c1"}
  Robots = {"c3"}
  RemoteKinds <- MCRemotes
  SCMCredential = "none"
  Worlds <- MCWorlds
SPECIFICATION FairSpec
INVARIANTS TypeOK CheckTellsTruth
PROPERTIES DeliveredStays ExpiredObjectsGo
CHECK_DEADLOCK FALSE
