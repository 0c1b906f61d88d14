------------------------------- MODULE Findings -------------------------------
(***************************************************************************)
(* How scripts, chunks and requests are found, and what a spec makes of    *)
(* the endpoints found in them, composed: a behaviour is one of one        *)
(* module, named by part, and the others stay as they began.  The spec     *)
(* diff is extended rather than instanced: its properties are stated of    *)
(* every behaviour.                                                        *)
(***************************************************************************)
EXTENDS SpecDiff

CONSTANTS
  Parts,                                  \* what a behaviour may be of
  Scripts, Routes, Acts, MaxScripts, Upsets,                      \* BrowserCapture
  Url, InScopeUrls, WithMap, MaxKept, Kinds, Discoverers, Accidents, \* DiscoverStage
  Unplaced, Requests, Param, MaxEndpoints, MaxRequests, Deaths,   \* Correlate
  Bundles, MaxUrls, MaxUrlLen, MaxFold, MaxArms, MaxTemplate, MaxBody \* ChunkEnum

VARIABLES
  part,
  target, ran, orders, news, drive, parsed, pending, out, detached, blocked,
  excused, upsets,
  kind, allowed, assets, scripts, manifests, recorded, signals, finder, over,
  accidents,
  ops, observed, hosts, hints, matcher, deaths,
  bundle, phase, todo, urls

B == INSTANCE BrowserCapture
D == INSTANCE DiscoverStage
C == INSTANCE Correlate WITH Endpoints <- Unplaced
K == INSTANCE ChunkEnum

ASSUME FindingsAssumption ==
  B!CaptureConstantsOK /\ D!DiscoverConstantsOK /\ C!CorrelateConstantsOK /\ K!EnumConstants
-----------------------------------------------------------------------------
browserVars == <<target, ran, orders, news, drive, parsed, pending, out,
                 detached, blocked, excused, upsets>>
discoverVars == <<kind, allowed, assets, scripts, manifests, recorded,
                  signals, finder, over, accidents>>
correlateVars == <<ops, observed, hosts, hints, matcher, deaths>>
chunksVars == <<bundle, phase, todo, urls>>
allVars == <<part, dvars, browserVars, discoverVars, correlateVars, chunksVars>>

\* Where a module may begin in several ways, one of them will do for the others.
AnyInit ==
  /\ part \in Parts
  /\ IF part = "chunks" THEN K!Init
     ELSE /\ bundle = CHOOSE v \in Bundles : TRUE
          /\ phase = "parse" /\ todo = {} /\ urls = {}
  /\ IF part = "browser" THEN TRUE ELSE upsets = CHOOSE v \in Upsets : TRUE
  /\ IF part = "discover" THEN TRUE
     ELSE kind = "crawl" /\ allowed = TRUE /\ accidents = CHOOSE v \in Accidents : TRUE
  /\ IF part = "correlate" THEN TRUE ELSE ops = {} /\ observed = {}
  /\ Init /\ B!Init /\ D!Init /\ C!Init

OnlySpecDiff == part = "spec" /\ UNCHANGED <<part, browserVars, discoverVars, correlateVars, chunksVars>>
OnlyBrowserCapture == part = "browser" /\ UNCHANGED <<part, dvars, discoverVars, correlateVars, chunksVars>>
OnlyDiscoverStage == part = "discover" /\ UNCHANGED <<part, dvars, browserVars, correlateVars, chunksVars>>
OnlyCorrelate == part = "correlate" /\ UNCHANGED <<part, dvars, browserVars, discoverVars, chunksVars>>
OnlyChunkEnum == part = "chunks" /\ UNCHANGED <<part, dvars, browserVars, discoverVars, correlateVars>>

AnyNext ==
  \/ \E t \in Tasks, ref \in DOMAIN Bodies : OnlySpecDiff /\ Attach(t, ref)
  \/ \E t \in Tasks, rule \in Rules : OnlySpecDiff /\ AddRule(t, rule)
  \/ \E t \in Tasks, i \in DOMAIN rules : OnlySpecDiff /\ DeleteRule(t, i)
  \/ \E t \in Tasks : OnlySpecDiff /\ ReadSpec(t)
  \/ \E t \in Tasks : OnlySpecDiff /\ SelectEndpoints(t)
  \/ \E t \in Tasks : OnlySpecDiff /\ ClassifyEndpoints(t)
  \/ \E t \in Tasks : OnlySpecDiff /\ Commit(t)
  \/ \E t \in Tasks : OnlySpecDiff /\ Rollback(t)
  \/ \E t \in Tasks : OnlySpecDiff /\ Advance(t)
  \/ \E occurrences \in Assets : OnlySpecDiff /\ Records(occurrences)
  \/ \E occurrences \in Assets : OnlySpecDiff /\ Reextracts(occurrences)
  \/ OnlySpecDiff /\ RunStarts
  \/ OnlySpecDiff /\ RunStops
  \/ \E t \in B!Targets : OnlyBrowserCapture /\ B!Attach(t)
  \/ \E t \in B!Targets : OnlyBrowserCapture /\ B!CarryOut(t)
  \/ \E t \in B!Targets : OnlyBrowserCapture /\ B!TargetEnds(t)
  \/ \E s \in Scripts : OnlyBrowserCapture /\ B!RunScript(s)
  \/ OnlyBrowserCapture /\ B!PageMoves
  \/ OnlyBrowserCapture /\ B!BrowserDies
  \/ \E n \in B!Senders : OnlyBrowserCapture /\ B!Receive(n)
  \/ \E n \in B!Senders : OnlyBrowserCapture /\ B!ReceiveRaises(n)
  \/ OnlyBrowserCapture /\ B!PhaseSettles
  \/ OnlyBrowserCapture /\ B!PhaseTimesOut
  \/ OnlyBrowserCapture /\ B!ReplyTimesOut
  \/ OnlyBrowserCapture /\ B!Act
  \/ OnlyBrowserCapture /\ B!CollectRoutes
  \/ OnlyBrowserCapture /\ B!NextRoute
  \/ OnlyBrowserCapture /\ B!EndRoutes
  \/ OnlyBrowserCapture /\ B!ReadGenerator
  \/ OnlyBrowserCapture /\ B!Interrupt
  \/ \E w \in Discoverers : OnlyDiscoverStage /\ D!Take(w)
  \/ \E w \in Discoverers : OnlyDiscoverStage /\ D!Look(w)
  \/ \E w \in Discoverers : OnlyDiscoverStage /\ D!Crawl(w)
  \/ \E w \in Discoverers : OnlyDiscoverStage /\ D!Browse(w)
  \/ \E w \in Discoverers : OnlyDiscoverStage /\ D!StoreScripts(w)
  \/ \E w \in Discoverers : OnlyDiscoverStage /\ D!FetchMaps(w)
  \/ \E w \in Discoverers : OnlyDiscoverStage /\ D!StoreManifest(w)
  \/ \E w \in Discoverers : OnlyDiscoverStage /\ D!Commit(w)
  \/ \E w \in Discoverers : OnlyDiscoverStage /\ D!RecordSignal(w)
  \/ \E w \in Discoverers : OnlyDiscoverStage /\ D!End(w)
  \/ \E w \in Discoverers : OnlyDiscoverStage /\ D!BrowserFails(w)
  \/ \E w \in Discoverers : OnlyDiscoverStage /\ D!Pause(w)
  \/ \E w \in Discoverers : OnlyDiscoverStage /\ D!Crash(w)
  \/ OnlyCorrelate /\ C!ReadFindings
  \/ OnlyCorrelate /\ C!WriteOccurrences
  \/ OnlyCorrelate /\ C!AnalyzeBodies
  \/ OnlyCorrelate /\ C!Redelivered
  \/ OnlyChunkEnum /\ K!FoldTemplate
  \/ OnlyChunkEnum /\ K!FoldConditional
  \/ \E url \in todo : OnlyChunkEnum /\ K!AddUrl(url)
  \/ \E url \in todo : OnlyChunkEnum /\ K!PassUrl(url)
  \/ OnlyChunkEnum /\ K!Done

AnySpec == AnyInit /\ [][AnyNext]_allVars
-----------------------------------------------------------------------------
\* Every script that runs is captured, or its context ended first, or the
\* wait for it did (driver.py).
NoScriptMissed == part = "browser" => B!NoScriptMissed

\* A stage that counts as done left everything a later one reads
\* (discover_run, capture_run).
DiscoveredMeansSeeded == part = "discover" => D!DiscoveredMeansSeeded

\* What one execution attaches to an endpoint is never a guess (match.py).
NeverGuesses == part = "correlate" => C!NeverGuesses

\* A chunk's URL is one the bundle itself would build (chunkenum.py).
NeverInvented == part = "chunks" => K!NeverInvented
=============================================================================
