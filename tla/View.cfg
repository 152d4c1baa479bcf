SPECIFICATION ViewSpec
CONSTANTS
  None = None
  NumPages = 5
  Padding = 1
  MaxSize = 20
  Cells = {2, 4}
  FitCell <- FitsWidth
  MinChange = 0
  Settings <- Switches
  Windows = {2, 4}
  Step = 2
  MaxMoves = 2
  Stored <- Quarter
  Targets <- Near
INVARIANTS
  ShowsPosition
  AskedPageShown
CHECK_DEADLOCK FALSE
