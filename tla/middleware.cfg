CONSTANTS
  c1 = c1  c2 = c2  c3 = c3  x1 = x1  x2 = x2  t1 = t1
  Nil = Nil  Genesis = Genesis
  Calls = {c1, c2, c3}
  Contexts = {x1, x2}
  CtxOf <- MCCtxOf
  InboundOf <- MCInboundOf
  Tokens = {t1}
SPECIFICATION Spec
INVARIANTS ParentsCommitted ForksOnlyOverlapping RequestAnswered ZeroKeyOnlyAcrossDestroy
CHECK_DEADLOCK FALSE
