SPECIFICATION FairSpec
CONSTANTS
  NumPages = 2
  Span = 1
  CacheSize = 1
  HasIcon = TRUE
  Wheel = TRUE
  Reliable = TRUE
CHECK_DEADLOCK FALSE
PROPERTY ShownEventually
