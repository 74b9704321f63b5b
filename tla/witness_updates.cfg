CONSTANTS
  a = a  b = b  p1 = p1
  Nil = Nil
  Leaves = {a, b}
  Views <- MCViews
  Peers = {p1}
  Seconds = {1, 2}
  MaxInterrupts = 2
SPECIFICATION WitnessedSpec
INVARIANTS LeavesCoverState CommitNeverRefused CosignedUnderState
INVARIANTS HonestLogAccepted NoFalseIncident CosignaturesAgree
PROPERTY CommittedViewGrows
