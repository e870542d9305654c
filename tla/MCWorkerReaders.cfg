SPECIFICATION Spec
CONSTANTS
  r1 = r1
  r2 = r2
  w1 = w1
  w2 = w2
  Ctxs = {r1, r2, w1}
  CtxOps <- ReadersOps
  Keys = {k1}
  Entries = {e1, e2}
  Bufs = {b1, b2, b3}
  MaxIO = 2
  NULL = NULL
INVARIANTS
  TypeOK
  BuffersConserved
  CallsConserved
  PoolConserved
  CountsStillHold
  PinsCountGets
  LoadHasMemory
PROPERTY ScansInOrder
SYMMETRY BufSymmetry
CHECK_DEADLOCK FALSE
