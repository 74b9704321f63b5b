CONSTANTS
  r1 = r1  r2 = r2  s1 = s1  s2 = s2  s3 = s3  s4 = s4  l1 = l1  c1 = c1  e1 = e1
  Nil = Nil
  Records = {r1, r2}
  Submits = {s1, s3}
  Lookups = {}
  Checkpoints = {}
  Streams = {}
  RecordOf <- MCRecordOf
  MaxProofCache = 1
  FanoutOn = FALSE
  MaxAttempts = 2
  MaxCrashes = 0
  MaxIoFaults = 1
  MaxSignFaults = 0
SPECIFICATION Spec
INVARIANT PublishedOnDisk
CHECK_DEADLOCK FALSE
