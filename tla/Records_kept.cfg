SPECIFICATION AnySpec
CONSTANTS
  Parts = {"sessions", "identity", "page", "observations", "modules", "routes", "reveal"}
  SessionIds = {1, 2}
  RunIds = {1, 2}
  Clients = {1}
  Workers = {1}
  AllowLocal = FALSE
  Hosts <- SomeHosts
  PublicSuffixes <- NoSuffixes
  Literals <- SomeLiterals
  Inside <- SomeInside
  Scopes <- SomeScopes
  Targets <- SomeTargets
  Hints <- NoHint
  Edits <- SomeEdits
  Redirects <- SomeRedirects
  MaxUpsets = 1
  NoName = ""
  Urls = {"u", "v", "w"}
  Inline = {"v"}
  Hashes = {"a", "b", "c", "d"}
  Processors = {p1, p2}
  Sessions = {1, 2}
  Acts = 4
  MaxBatch = 2
  MaxFiles = 1
  MaxBytes = 3
  MaxAsset = 1
  InlineCap = 1
  Respawns = 1
  Spoils = 1
  Requests = {1, 2}
  Large = 1
  BodyTotalCap = 2
  ObservationCap = 2
  EagerEvery = 2
  Syncs = {1, 2}
  Absolute = {"http://u"}
  MaxNodes = 3
  MaxWritten = 2
  MaxFaults = 2
  MaxSpan = 5
  MaxReveals = 2
  Served <- SomeServed
  Needs <- SomeNeeds
  Size <- SomeSize
  KeyOf <- SomeKeyOf
  Settings <- SomeSettings
  Bounds <- SomeBounds
  Trees <- SomeTrees
  Revealed <- SomeRevealed
  Candidates <- SomeCandidates
  Crawls <- SomeCrawls
  NameIn <- SomeNameIn
  Builds <- SomeBuilds
  Codes <- SomeCodes
  Texts = {"user", "e", "t", "f()"}
  LiteralTexts = {"/a", "/b", "http://u"}
INVARIANTS
  NoDangling PurgeComplete OnlyDeclared SameCodeNoDiff SeenIsKept HookFollowsScope
  UrlsAreTheirs HarvestIsOutermost FoundIsRevealed
SYMMETRY TwoProcessors
CHECK_DEADLOCK FALSE
