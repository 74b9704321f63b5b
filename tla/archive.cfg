CONSTANTS
  r1 = r1  r2 = r2  r3 = r3  bad = bad  p1 = p1  p2 = p2
  q1 = q1  q2 = q2  q3 = q3  q4 = q4  q5 = q5
  Garbage = Garbage
  Records = {r1, r2, r3, bad}
  Invalid = {bad}
  Evidence = {p1, p2}
  Requests = {q1, q2, q3, q4, q5}
  RecOf <- MCRecOf
  EvidenceOf <- MCEvidenceOf
  MaxFaults = 2
SPECIFICATION Spec
INVARIANTS TypeOK AcknowledgedKept
CHECK_DEADLOCK FALSE
