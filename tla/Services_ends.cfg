SPECIFICATION AnySpec
CONSTANTS
  Parts = {"index", "threats", "events", "login"}
  Bundle <- TwoBundles
  Mapped = {"y"}
  Unreadable = {"x"}
  Indexers = {1, 2}
  Openers = {1}
  Trouble <- SomeTrouble
  Gens = {"g1", "g2"}
  Failures <- SomeFailures
  Path <- ThreeStates
  Cap = 2
  Slots = {1}
  Hitches <- SomeHitches
  Users = {"u1", "u2"}
  Known = {"u1"}
  Callers = {1, 2}
  MaxAttempts = 2
  MaxOfAll = 3
  RedisOutages = 1
INVARIANTS DoneIsComplete OneGeneration Gapless GuessesBounded
PROPERTIES EventuallyIndexed GenerationEnds PageSettles
CHECK_DEADLOCK FALSE
