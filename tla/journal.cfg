CONSTANTS
  a = a  retry = retry  b = b  c = c
  opA = opA  opB = opB  e1 = e1  e2 = e2
  Writers = {a, retry, b, c}
  Operations = {opA, opB}
  Envelopes = {e1, e2}
  OpOf <- MCOpOf
  FromOf <- MCFromOf
  ToOf <- MCToOf
  EnvOf <- MCEnvOf
  ValidEnv = {e1, e2}
  MaxCursor = 2
  NoOne = NoOne
SPECIFICATION Spec
INVARIANTS TypeOK AcknowledgedKept NoLostUpdate
CHECK_DEADLOCK FALSE
