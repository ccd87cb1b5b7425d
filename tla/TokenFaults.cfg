SPECIFICATION FairSpec
CONSTANTS
  Tokens = {t1}
  Bindings = {b1}
  Data = {d1, d2}
  Secrets = {s0, s1}
  FixedName = s0
  NoTok = NoTok
  NoBnd = NoBnd
  NoData = NoData
  NoSec = NoSec
  b1 = b1
  b2 = b2
  d1 = d1
  d2 = d2
  BindingSpecs <- PlainSpecs
  TokenSpecs = {"ok", "unknownProvider", "badScopes"}
  Matches <- AllMatch
  RejectedData = {d2}
  LegacyBindings = {}
  ReportsMissing = TRUE
  UserOps = {"createToken", "deleteToken", "upload", "refresh"}
  TimePasses = TRUE
  MetadataExpires = TRUE
  MaxFaults = 1
  MaxRestarts = 0
  MaxOps = 4
INVARIANTS
  QuiescentTokens
PROPERTIES
  TokensHeal
  
  ExpiredTokenGoes
CHECK_DEADLOCK FALSE
