SPECIFICATION Spec
CONSTANTS
  Pages <- OnePage
  NotePages <- OnePage
  Geos <- ThreeGeos
  Ids = {i1, i2}
  Origins = {o1}
  NumColors = 1
  ImportEps = 1
  DeleteEps = 2
  MaxFaults = 1
  None = None
SYMMETRY Symmetry
INVARIANTS WellFormed NoEcho
PROPERTIES DeletesOnlyAsked DeletedEverywhere
