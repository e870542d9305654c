\* Two levels and one internal node, with pages for the minima and the node.
SPECIFICATION CacheSpec
CONSTANTS
  h1 = h1
  h2 = h2
  h3 = h3
  nlevel = 2
  page_num = 3
  min_pages <- Minima
  Hashes = {h1, h2, h3}
  Nodes = {n1}
  None = None
INVARIANT PageFound
SYMMETRY Symmetry
CHECK_DEADLOCK FALSE
