SPECIFICATION Spec
CONSTANTS
  Files = {f}
  Places <- OnePlace
  Ids = {i1, i2}
  Texts = {s, t}
  Blank = Blank
  Eps = 1
  MaxFaults = 1
  None = None
SYMMETRY Symmetry
INVARIANTS NotesAgree WellFormed
PROPERTY SavedWhereTyped
