SPECIFICATION Spec
CONSTANTS
  Tokens = {t1, t2}
  Bindings = {b1}
  Data = {d1}
  Secrets = {s0, s1, s2}
  FixedName = s0
  NoTok = NoTok
  NoBnd = NoBnd
  NoData = NoData
  NoSec = NoSec
  b1 = b1
  b2 = b2
  d1 = d1
  d2 = d2
  BindingSpecs <- OddSpecs
  TokenSpecs = {"ok"}
  Matches <- AllMatch
  RejectedData = {}
  LegacyBindings = {}
  ReportsMissing = FALSE
  UserOps = {"createBinding", "deleteBinding", "upload"}
  TimePasses = FALSE
  MetadataExpires = TRUE
  MaxFaults = 1
  MaxRestarts = 1
  MaxOps = 3
INVARIANTS
  TypeOK
  NoOrphanSecret
  AwaitingHasNoRef
  QuiescentBindings
  FaultySpecReported
PROPERTIES
  BindingKeepsPromise
  LinkedBeforeInjected
CONSTRAINT OneMishap
SYMMETRY TokenSymmetry
CHECK_DEADLOCK FALSE
