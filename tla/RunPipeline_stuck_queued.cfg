SPECIFICATION FairSpec
CONSTANTS
  w1 = w1
  w2 = w2
  a1 = a1
  Workers = {w1, w2}
  Apis = {a1}
  StageOrder <- TwoStages
  MaxJobs = 2
  MaxEntries = 3
  MaxAttempts = 2
  Envelope <- OneCrash
  CrashAt <- EnterPoint
CHECK_DEADLOCK FALSE
PROPERTIES DeadWorkersRunSettles
