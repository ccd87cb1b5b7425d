SPECIFICATION Spec
CONSTANTS
  Tokens = {t1, t2}
  Bindings = {b1, b2}
  Data = {d1, d2}
  Secrets = {s0, s1}
  FixedName = s0
  NoTok = NoTok
  NoBnd = NoBnd
  NoData = NoData
  NoSec = NoSec
  b1 = b1
  b2 = b2
  d1 = d1
  d2 = d2
  BindingSpecs <- PlainSpecs
  TokenSpecs = {"ok"}
  Matches <- D1Matches
  RejectedData = {}
  LegacyBindings = {b1}
  ReportsMissing = FALSE
  UserOps = {"createBinding", "deleteBinding", "upload", "deleteToken", "deleteSecret"}
  TimePasses = FALSE
  MetadataExpires = FALSE
  MaxFaults = 0
  MaxRestarts = 0
  MaxOps = 3
INVARIANTS
  QuiescentBindings
  QuiescentTokens
SYMMETRY TokenSymmetry
CHECK_DEADLOCK FALSE
