SPECIFICATION FairSpec
CONSTANTS
  c1 = c1
  c2 = c2
  tA = tA
  tB = tB
  Contents = {c1}
  Tenants = {tA, tB}
  BatchSize = 2
  MaxSessions = 2
  MaxLogins = 2
  Envelope <- AroundTeardown
CONSTRAINT
  FirstIsA
INVARIANTS
  NothingLost
  SentToOwnTenant
PROPERTIES
  Drains
CHECK_DEADLOCK FALSE
