CONSTANTS
  r1 = r1  r2 = r2  s1 = s1  s2 = s2  s3 = s3  s4 = s4  l1 = l1  c1 = c1  e1 = e1
  Nil = Nil
  Records = {r1, r2}
  Submits = {s1, s2, s3}
  Lookups = {l1}
  Checkpoints = {}
  Streams = {e1}
  RecordOf <- MCRecordOf
  MaxProofCache = 1
  FanoutOn = FALSE
  MaxAttempts = 2
  MaxCrashes = 1
  MaxIoFaults = 1
  MaxSignFaults = 1
SPECIFICATION FairSpec
INVARIANTS StreamNoGap StreamsOnDisk
PROPERTY EverySubmitSettles
CHECK_DEADLOCK FALSE
