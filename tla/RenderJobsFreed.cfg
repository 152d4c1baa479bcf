SPECIFICATION Spec
CONSTANTS
  p1 = p1
  icon = icon
  j1 = j1
  j2 = j2
  j3 = j3
  NoRequest = NoRequest
  Pages <- OnePage
  Icons <- NoIcon
  Jobs <- TwoJobs
CHECK_DEADLOCK FALSE
INVARIANT RenderOnlyLiveDocument
