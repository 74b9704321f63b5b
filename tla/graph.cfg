CONSTANTS
  r1 = r1  r2 = r2  r3 = r3  bad = bad
  q1 = q1  q2 = q2  q3 = q3  q4 = q4  q5 = q5  q6 = q6
  Garbage = Garbage  NoIndex = NoIndex
  Records = {r1, r2, r3, bad}
  Invalid = {bad}
  Requests = {q1, q2, q3, q4, q5, q6}
  RecOf <- MCRecOf
  IndexOf <- MCIndexOf
  MaxFaults = 3
SPECIFICATION Spec
INVARIANTS TypeOK LossBounded RestartKeepsIndexes
CHECK_DEADLOCK FALSE
