SPECIFICATION FairSpec
CONSTANTS
  a1 = a1
  a2 = a2
  f1 = f1
  f2 = f2
  api = api
  Url <- MCUrl
  Findings = {f1, f2}
  Native <- MCNative
  Taught <- MCTaught
  Bad <- MCBad
  One = a1
  Workers = {1, 2}
  Api = api
  Modes = {"crawl", "single"}
  Budget <- AnyTwo
INVARIANTS
  AnalyzedMeansFound
  EvidenceKept
  LessonReachesAll
PROPERTIES
  AnalyzeEnds
CHECK_DEADLOCK FALSE
