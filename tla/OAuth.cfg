CONSTANTS
  PersistedConfig <- File
  MalformedHosts <- NoMalformedHosts
  Objects <- OwnObjects
  Sessions = {s1, s2}
  Requests = {r1, r2}
  r1 = r1
  r2 = r2
  UserSecrets <- OwnSecrets
  Workspaces <- OneWorkspace
  ApiServer = TRUE
  MaxBegins = 3
  MaxFlows = 2
  MaxUpsets = 1
  DefaultRetry = 2
SPECIFICATION FairSpec
INVARIANT TypeOK
INVARIANT AloneReachesItsKind
INVARIANT SameSession
INVARIANT AskedScopes
INVARIANT ReturnPossible
PROPERTY RequestsAnswered
CHECK_DEADLOCK FALSE
