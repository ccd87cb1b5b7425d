CONSTANTS
  Names = {"t1"}
  Generated = "g1"
  Credentials = {"c1", "c2"}
  MaxOps = 4
  MaxFaults = 2
  MaxRestarts = 1
SPECIFICATION FairSpec
INVARIANTS TypeOK FailedUploadReported HandledUploadStored
PROPERTIES UploadSecretGoes
CHECK_DEADLOCK FALSE
