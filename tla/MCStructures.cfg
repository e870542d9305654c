\* Every order in which three objects can be taken and released; two levels, three
\* leaves each, and two internal nodes that compete for three pages; heaps of up to
\* five keys out of four; trees with small nodes, of four values, with keys enough
\* for a third level to come and go.
SPECIFICATION StructuresSpec
CONSTANTS
  count = 3
  MAX = 99
  h1 = h1
  h2 = h2
  h3 = h3
  nlevel = 2
  page_num = 3
  min_pages <- Minima
  Hashes = {h1, h2, h3}
  Nodes = {n1, n2}
  None = None
  MaxLen = 5
  MaxKey = 4
  NodeValues = 4
  MaxKeys = 19
INVARIANTS
  PoolTypeOK
  FreeListOK
  HeldReleasable
  CacheTypeOK
  PagesAccounted
  IndexMatchesLru
  DataIsOfItsOwner
  OnlyStarvedFails
  ItemsKept
  AssertionsHold
  KeysInOrder
  WellFormed
  ScansComplete
PROPERTIES
  RefinesPoolSpec
  MinimumKept
SYMMETRY Symmetry
CHECK_DEADLOCK FALSE
