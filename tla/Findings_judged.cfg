SPECIFICATION AnySpec
CONSTANTS
  Parts = {"spec", "browser", "discover", "correlate", "chunks"}
  Holders = {"{id}", "{user}", "7"}
  Vars = {"${base}", "${id}"}
  Mixed = {}
  HttpMethods = {"GET", "POST"}
  PathItemMethods = {"GET", "POST"}
  Endpoints <- SomeEndpoints
  Bodies <- SomeBodies
  Rules <- SomeRules
  Assets <- SomeAssets
  Refs = {"served", "whole", "refused"}
  RuleNames = {"all", "wrong", "picked"}
  t1 = t1
  t2 = t2
  Tasks = {t1, t2}
  MaxRules = 2
  MaxRuns = 1
  MaxTasks = 3
  MaxMishaps = 1
  Scripts <- SomeScripts
  Upsets <- SomeUpsets
  Accidents <- SomeAccidents
  Unplaced <- SomeUnplaced
  Requests <- SomeRequests
  Param <- AnySegment
  Bundles <- SomeBundles
  Routes = 1
  Acts = 1
  MaxScripts = 2
  Url = {"a", "b"}
  InScopeUrls = {"a", "b"}
  WithMap = {"a"}
  MaxKept = 1
  Kinds = {"upload", "asset", "crawl", "capture"}
  Discoverers = {1, 2}
  MaxEndpoints = 2
  MaxRequests = 2
  Deaths = 1
  MaxUrls = 2
  MaxUrlLen = 3
  MaxFold = 3
  MaxArms = 2
  MaxTemplate = 1
  MaxBody = 2
INVARIANTS
  NoFalseShadow VerdictsCurrent NoScriptMissed DiscoveredMeansSeeded NeverGuesses
  NeverInvented
SYMMETRY TwoTasks
CHECK_DEADLOCK FALSE
