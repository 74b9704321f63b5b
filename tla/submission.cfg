CONSTANTS
  r1 = r1  r2 = r2  f1 = f1  f2 = f2
  Submit = Submit
  Records = {r1, r2}
  High = {r1}
  Flushes = {f1, f2}
  MaxRetries = 2
  MaxQueueDepth = 1
SPECIFICATION FairSpec
INVARIANTS TypeOK NoSilentLoss FlushLeavesNothingBehind
PROPERTY FlushReturns
CHECK_DEADLOCK FALSE
