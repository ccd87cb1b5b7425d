CONSTANTS
  PersistedConfig <- File
  MalformedHosts <- NoMalformedHosts
  Objects <- SharedObjects
  Sessions = {s1, s2}
  Requests = {r1, r2}
  r1 = r1
  r2 = r2
  UserSecrets <- OwnSecrets
  Workspaces <- OneWorkspace
  ApiServer = TRUE
  MaxBegins = 4
  MaxFlows = 2
  MaxUpsets = 0
  DefaultRetry = 2
SPECIFICATION Spec
INVARIANT FlowReachesItsKind
CHECK_DEADLOCK FALSE
