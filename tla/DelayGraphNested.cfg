CONSTANTS
  Leaf = {a, b, c}
  Composite = {g, h}
  MaxParts = 2
  MinParts = 1
  MaxLinks = 1
SYMMETRY Symmetry
SPECIFICATION GraphSpec
INVARIANTS ChainsAreOrdered
CHECK_DEADLOCK FALSE
