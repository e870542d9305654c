SPECIFICATION FairSpec
CONSTANTS
  r1 = r1
  r2 = r2
  w1 = w1
  w2 = w2
  Ctxs = {r1, w1, w2}
  CtxOps <- WritersOps
  Keys = {k1}
  Entries = {e1}
  Bufs = {b1, b2, b3}
  MaxIO = 2
  NULL = NULL
PROPERTY EveryGetAnswered
