SPECIFICATION Spec
CONSTANTS
  Procs = {p, q}
  Files = {f}
  Ids = {i}
  Jumps = {}
  Marks = {a, b}
  Rows <- SmallRows
  Layouts <- AllLayouts
  MaxFaults = 1
  None = None
SYMMETRY Symmetry
INVARIANTS BookmarksAgree WellFormed VersionTellsLayout
PROPERTY ListsSavedWhole
