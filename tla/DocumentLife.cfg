SPECIFICATION FairSpec
CONSTANTS
  a = a
  b = b
  k = k
  Files = {a, b}
  Written <- OnlyA
  PageCounts = {1, 2}
  Keys = {k}
  NoKey = NoKey
  Garbled = Garbled
  OpenFirstPage = FALSE
  None = None
  FirstPages <- TwoAndOne
  FirstKeys <- AEncrypted
  PageArguments <- FirstOrLast
  MaxWrites = 1
  MaxIdle = 2
INVARIANTS
  WatchesItsFile
  PredecessorIsWatched
  HistoryIsLast
PROPERTIES
  PlaceKept
  FollowsFile
