CONSTANTS
  r1 = r1  r2 = r2  s1 = s1  s2 = s2  s3 = s3  s4 = s4  l1 = l1  c1 = c1  e1 = e1
  Nil = Nil
  Records = {r1, r2}
  Submits = {s1, s2, s3, s4}
  Lookups = {l1}
  Checkpoints = {c1}
  Streams = {}
  RecordOf <- MCRecordOf
  MaxProofCache = 1
  FanoutOn = TRUE
  MaxAttempts = 2
  MaxCrashes = 1
  MaxIoFaults = 0
  MaxSignFaults = 1
SPECIFICATION Spec
INVARIANTS PublishedOnDisk ProofVerifies OneEntryPerRecord
PROPERTY ImplementsAppendOnlyLog
CHECK_DEADLOCK FALSE
