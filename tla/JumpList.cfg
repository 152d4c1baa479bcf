SPECIFICATION Spec
CONSTANTS
  NumPages = 4
  Sizes = {0, 1, 2, 3}
  Counts = {0}
  Continuous = TRUE
  UIntRange = 16
INVARIANTS WellFormed BisectBounds
PROPERTIES LeavesAWayBack DepartureSaved
