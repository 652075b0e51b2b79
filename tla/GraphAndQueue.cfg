CONSTANTS
  Elem <- MCElem
  None = None
  Leaf = {a, b, c}
  Composite = {g, h}
  MaxParts = 3
  MinParts = 0
  MaxLinks = 1
SYMMETRY Symmetry
SPECIFICATION MCSpec
INVARIANTS TypeOK Aligned PlanIsAsked SortIsTopological
PROPERTY ImplementsJobPriority
CHECK_DEADLOCK FALSE
