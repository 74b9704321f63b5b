CONSTANTS
  a1 = a1  a2 = a2  b1 = b1  e1 = e1  u1 = u1  n1 = n1  m1 = m1
  k1 = k1  k2 = k2  x1 = x1  x2 = x2  doA = doA  doB = doB
  Nil = Nil  NoKey = NoKey  NoContext = NoContext  BadContext = BadContext
  Calls = {a1, a2, b1, u1, n1}
  Results = {a1, a2, b1, u1, n1}
  Keys = {k1}
  Bindings = {doA, doB}
  Contexts = {x1, x2}
  KeyOf <- MCKeyOf
  CtxOf <- MCCtxOf
  BindingOf <- MCBindingOf
  MaxEntries = 2
  WindowMs = 0
  MaxClock = 1
  MaxCrashes = 1
  MaxFaults = 1
SPECIFICATION Spec
INVARIANTS AtMostOneDispatch ReservationOnDisk OneWriterPerContext ReplayFaithful ReplayableForWindow
CHECK_DEADLOCK FALSE
