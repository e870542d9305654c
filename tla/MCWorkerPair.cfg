SPECIFICATION FairSpec
CONSTANTS
  r1 = r1
  r2 = r2
  w1 = w1
  w2 = w2
  Ctxs = {r1, w1}
  CtxOps <- PairOps
  Keys = {k1, k2}
  Entries = {e1, e2}
  Bufs = {b1, b2}
  MaxIO = 2
  NULL = NULL
INVARIANT NoDanglingEntry
PROPERTIES
  RefinesKvSpec
  EveryGetAnswered
  BuffersComeBack
