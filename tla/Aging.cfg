SPECIFICATION FairSpec
CONSTANTS
  Tokens = {t1}
  Bindings = {b1}
  Data = {d1}
  Secrets = {s0, s1}
  FixedName = s0
  NoTok = NoTok
  NoBnd = NoBnd
  NoData = NoData
  NoSec = NoSec
  b1 = b1
  b2 = b2
  d1 = d1
  d2 = d2
  BindingSpecs <- NamedSpecs
  TokenSpecs = {"ok"}
  Matches <- AllMatch
  RejectedData = {}
  LegacyBindings = {}
  ReportsMissing = FALSE
  UserOps = {"createBinding", "deleteBinding", "upload"}
  TimePasses = TRUE
  MetadataExpires = FALSE
  MaxFaults = 0
  MaxRestarts = 0
  MaxOps = 2
PROPERTIES
  Settles
  DeletedBindingGoes
  ExpiredBindingGoes
CHECK_DEADLOCK FALSE
