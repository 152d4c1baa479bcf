SPECIFICATION FairSpec
CONSTANTS
  p1 = p1
  icon = icon
  j1 = j1
  j2 = j2
  j3 = j3
  NoRequest = NoRequest
  Pages <- OnePage
  Icons <- OneIcon
  Jobs <- ThreeJobs
CHECK_DEADLOCK FALSE
INVARIANTS
  SingleLiveJob
  JobsListed
  RequestRefs
  RendererOutlivesRequests
PROPERTIES
  ImplementsService
  AsksAreSettled
  DrainsAfterFree
