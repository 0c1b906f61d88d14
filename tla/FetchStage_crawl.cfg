SPECIFICATION FairSpec
CONSTANTS
  a1 = a1
  a2 = a2
  c1 = c1
  c2 = c2
  Url <- MCUrl
  Assets = {a1, a2}
  Chunks = {c1, c2}
  Imports <- MCImports
  Webpack = {a2}
  HasMap = {a2}
  InScope = {a1, a2, c1, c2}
  Workers = {1, 2}
  Modes = {"crawl", "single"}
  MaxAssets = 3
  RetryAttempts = 1
  Budget <- LapseOrBoth
INVARIANTS
  BytesBehindRows
  DoneMeansSettled
PROPERTIES
  FetchEnds
CHECK_DEADLOCK FALSE
