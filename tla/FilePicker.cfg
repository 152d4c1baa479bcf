SPECIFICATION Spec
CONSTANTS
  ab = ab
  ba = ba
  aab = aab
  deep = deep
  dot = dot
  odt = odt
  Files <- Six
  Letters <- Alphabet
  Name <- Names
  Depth <- Depths
  Hidden <- OneHidden
  Supported <- Documents
  Texts <- Typed
  Found <- Matches
  MaxTimers = 2
  MaxSearches = 2
  MaxOpens = 1
INVARIANTS
  WellFormed
  VisibleMatch
  LastSearchIsText
  ResultsOfText
