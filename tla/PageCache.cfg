SPECIFICATION Spec
CONSTANTS
  NumPages = 3
  Span = 1
  CacheSize = 2
  HasIcon = FALSE
  Wheel = FALSE
  Reliable = FALSE
CHECK_DEADLOCK FALSE
INVARIANTS
  CacheWellFormed
  FlagsMatchCache
  OldLayoutIsDiscarded
  InvisibleOnlyCached
PROPERTIES
  EvictsLeastRecent
