CONSTANTS
  p1 = p1
  NFiles = 2
  NRecords = 2
  Readers = {p1}
  MaxRounds = 2
  MaxWrites = 2
  MaxReads = 2
SPECIFICATION MirrorSpec
INVARIANTS MirrorTypeOK ReadFresh IndexSound
CHECK_DEADLOCK FALSE
