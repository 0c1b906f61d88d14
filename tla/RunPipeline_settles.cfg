SPECIFICATION FairSpec
CONSTANTS
  w1 = w1
  w2 = w2
  a1 = a1
  Workers = {w1, w2}
  Apis = {a1}
  StageOrder <- TwoStages
  MaxJobs = 2
  MaxEntries = 5
  MaxAttempts = 2
  Envelope <- CrashAndFailure
  CrashAt <- CoveredPoint
CHECK_DEADLOCK FALSE
PROPERTIES RunSettles 
