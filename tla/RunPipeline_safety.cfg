SPECIFICATION Spec
CONSTANTS
  w1 = w1
  w2 = w2
  a1 = a1
  Workers = {w1, w2}
  Apis = {a1}
  StageOrder <- TwoStages
  MaxJobs = 3
  MaxEntries = 3
  MaxAttempts = 2
  Envelope <- AnyTwo
  CrashAt <- AnyPoint
SYMMETRY WorkerSymmetry
CHECK_DEADLOCK FALSE
INVARIANTS AdvancesOnce ExclusiveClaim NeverStranded
PROPERTIES ImplementsLifecycle
