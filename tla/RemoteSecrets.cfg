CONSTANTS
  PersistedConfig <- File
  MalformedHosts <- Malformed
  RemoteSecrets = {"rs1", "rs2"}
  Environments = {"e1", "e2"}
  Applications = {"a1"}
  Adopted = {"e1", "e2"}
  Target <- Targets
  Templates <- Kinds
  Hosts <- AllHosts
  UserOps <- AllOps
  MaxOps = 3
  MaxFaults = 1
SPECIFICATION Spec
INVARIANT TypeOK
INVARIANT UrlFollowsHost
INVARIANT GoneOwnersLeaveNothing
PROPERTY ReportKeepsData
PROPERTY TargetsOfOthersKept
PROPERTY DeletedOwnersGo
CHECK_DEADLOCK FALSE
