-------------------------------- MODULE Records --------------------------------
(***************************************************************************)
(* What the platform records and what the extension sees of a page,        *)
(* composed: a behaviour is one of one module, named by part, and the      *)
(* others stay as they began.  Sessions and runs are extended rather than  *)
(* instanced: their properties are stated of every behaviour.              *)
(***************************************************************************)
EXTENDS SessionRuns

CONSTANTS
  Parts,                                                      \* what a behaviour may be of
  Texts, NameIn, NoName, Builds, Codes,                                   \* FindingIdentity
  Urls, Inline, Hashes, Served, Needs, Size, Processors, Sessions,        \* PageCapture
  Acts, MaxBatch, MaxFiles, MaxBytes, MaxAsset, InlineCap, Respawns, Spoils,
  Requests, KeyOf, Large, BodyTotalCap, ObservationCap, EagerEvery,  \* PageObservations
  Syncs, Settings, Bounds,
  LiteralTexts, Absolute, Candidates, MaxNodes, MaxWritten, Crawls, MaxFaults, \* CrossModule
  MaxSpan, Trees,                                                          \* RouteHarvest
  Revealed, MaxReveals                                                     \* SecretReveal

VARIABLES
  part,
  code, build, oldest, base, run,
  mem, stored, proc, turn, sent, held, torn, respawns, spoilt, asked,
  settings, kept, updates, hook, waiting, sync, failed, sid, request,
  pending, seen, saved, used, due, budget,
  crawl, pass, phase, at, index, records, done, lost, faults,
  tree, order, claimed, next, claimAt, lastEnd, taken,
  assets, sightings, scanned, gone, call, audit, answers, mishaps

F == INSTANCE FindingIdentity
P == INSTANCE PageCapture
O == INSTANCE PageObservations WITH left <- budget
X == INSTANCE CrossModule WITH rows <- records, MaxFiles <- MaxWritten, Literals <- LiteralTexts
H == INSTANCE RouteHarvest
R == INSTANCE SecretReveal WITH
  Crawls <- Revealed, crawl <- assets, rows <- sightings, done <- scanned, faults <- mishaps

ASSUME RecordsAssumption ==
  /\ ConstantsOK /\ F!IdentityConstantsOK /\ P!CaptureConstants
  /\ O!ObservationConstants /\ X!CrossModuleConstants /\ H!HarvestConstants
  /\ R!RevealConstants
-----------------------------------------------------------------------------
identityVars == <<code, build, oldest, base, run>>
pageVars == <<mem, stored, proc, turn, sent, held, torn, respawns, spoilt, asked>>
observationsVars == <<settings, kept, updates, hook, waiting, sync, failed,
                      sid, request, pending, seen, saved, used, due, budget>>
modulesVars == <<crawl, pass, phase, at, index, records, done, lost, faults>>
routesVars == <<tree, order, claimed, next, claimAt, lastEnd, taken>>
revealVars == <<assets, sightings, scanned, gone, call, audit, answers,
                mishaps>>
allVars == <<part, srvars, identityVars, pageVars, observationsVars,
             modulesVars, routesVars, revealVars>>

\* Where a module may begin in several ways, one of them will do for the others.
FixOthers ==
  /\ IF part = "identity" THEN TRUE
     ELSE /\ code = CHOOSE v \in Codes : TRUE
          /\ build = CHOOSE v \in Builds : TRUE
          /\ oldest = CHOOSE v \in F!Versions : TRUE
  /\ IF part = "observations" THEN TRUE
     ELSE settings = (CHOOSE v \in Settings : TRUE) /\ budget = CHOOSE v \in Bounds : TRUE
  /\ IF part = "modules" THEN TRUE ELSE crawl = CHOOSE v \in Crawls : TRUE
  /\ IF part = "routes" THEN TRUE ELSE tree = CHOOSE v \in Trees : TRUE
  /\ IF part = "reveal" THEN TRUE ELSE assets = CHOOSE v \in Revealed : TRUE

AnyInit ==
  /\ part \in Parts
  /\ FixOthers
  /\ Init /\ F!Init /\ P!Init /\ O!Init /\ X!Init /\ H!Init /\ R!Init

OnlySessionRuns == part = "sessions" /\ UNCHANGED <<part, identityVars, pageVars, observationsVars, modulesVars, routesVars,
          revealVars>>
OnlyFindingIdentity == part = "identity" /\ UNCHANGED <<part, srvars, pageVars, observationsVars, modulesVars, routesVars,
          revealVars>>
OnlyPageCapture == part = "page" /\ UNCHANGED <<part, srvars, identityVars, observationsVars, modulesVars,
          routesVars, revealVars>>
OnlyPageObservations == part = "observations" /\ UNCHANGED <<part, srvars, identityVars, pageVars, modulesVars, routesVars,
          revealVars>>
OnlyCrossModule == part = "modules" /\ UNCHANGED <<part, srvars, identityVars, pageVars, observationsVars, routesVars,
          revealVars>>
OnlyRouteHarvest == part = "routes" /\ UNCHANGED <<part, srvars, identityVars, pageVars, observationsVars,
          modulesVars, revealVars>>
OnlySecretReveal == part = "reveal" /\ UNCHANGED <<part, srvars, identityVars, pageVars, observationsVars,
          modulesVars, routesVars>>

AnyNext ==
  \/ \E hosts \in Scopes, target \in Targets \union Hints :
       OnlySessionRuns /\ CreateSession(hosts, target)
  \/ \E s \in live, hosts \in Scopes : OnlySessionRuns /\ SeedScope(s, hosts)
  \/ \E c \in Clients, s \in live, target \in Targets : OnlySessionRuns /\ AskCrawl(c, s, target)
  \/ \E c \in Clients, s \in live, target \in Hints : OnlySessionRuns /\ AskUpload(c, s, target)
  \/ \E c \in Clients, r \in rows : \E target \in Edits \union {row[r].target}, hosts \in Scopes \union {scope[row[r].session]} :
       OnlySessionRuns /\ AskRerun(c, r, target, hosts)
  \/ \E c \in Clients : OnlySessionRuns /\ CopyInput(c)
  \/ \E c \in Clients : OnlySessionRuns /\ CreateRun(c)
  \/ \E c \in Clients : OnlySessionRuns /\ PutInput(c)
  \/ \E c \in Clients : OnlySessionRuns /\ PointToInput(c)
  \/ \E c \in Clients, w \in Workers : OnlySessionRuns /\ Enqueue(c, w)
  \/ \E w \in Workers, host \in Hosts : OnlySessionRuns /\ Hop(w, host)
  \/ \E w \in Workers, host \in Hosts : OnlySessionRuns /\ Surf(w, host)
  \/ \E w \in Workers : OnlySessionRuns /\ Launch(w)
  \/ \E w \in Workers : OnlySessionRuns /\ ListAssets(w)
  \/ \E w \in Workers : OnlySessionRuns /\ Capture(w)
  \/ \E w \in Workers : OnlySessionRuns /\ PutArtifact(w)
  \/ \E w \in Workers : OnlySessionRuns /\ NoInput(w)
  \/ \E w \in Workers : OnlySessionRuns /\ RecordArtifact(w)
  \/ \E s \in live : OnlySessionRuns /\ Collect(s)
  \/ OnlySessionRuns /\ CommitDelete
  \/ \E r \in purge.runs : OnlySessionRuns /\ Sweep(r)
  \/ OnlySessionRuns /\ EndPurge
  \/ OnlySessionRuns /\ Crash
  \/ \E site \in code : OnlyFindingIdentity /\ F!AnalyzeBase(site)
  \/ \E site \in code : OnlyFindingIdentity /\ F!AnalyzeRun(site)
  \/ OnlyPageCapture /\ P!Toggle
  \/ \E url \in Urls : OnlyPageCapture /\ P!SeeScript(url)
  \/ \E url \in Inline : \E hash \in Served[url] : OnlyPageCapture /\ P!SeeInline(url, hash)
  \/ \E p \in Processors : OnlyPageCapture /\ P!TakeBatch(p)
  \/ \E p \in Processors, hash \in Hashes : OnlyPageCapture /\ P!FetchContent(p, hash)
  \/ \E p \in Processors : OnlyPageCapture /\ P!FetchFails(p)
  \/ \E p \in Processors : OnlyPageCapture /\ P!SkipSeen(p)
  \/ \E p \in Processors : OnlyPageCapture /\ P!KeepFile(p)
  \/ \E p \in Processors : OnlyPageCapture /\ P!PutOutbox(p)
  \/ \E p \in Processors : OnlyPageCapture /\ P!PutDedup(p)
  \/ \E p \in Processors : OnlyPageCapture /\ P!CountAndFollow(p)
  \/ OnlyPageCapture /\ P!PersistMeta
  \/ OnlyPageCapture /\ P!ClearFiles
  \/ \E then \in {"flush", "rotate"} : OnlyPageCapture /\ P!Leave(then)
  \/ OnlyPageCapture /\ P!Flushed
  \/ OnlyPageCapture /\ P!Rotate
  \/ OnlyPageCapture /\ P!Adopt
  \/ OnlyPageCapture /\ P!Respawn
  \/ \E s \in Settings : OnlyPageObservations /\ O!UpdateSettings(s)
  \/ \E s \in Settings : OnlyPageObservations /\ O!NewSession(s)
  \/ OnlyPageObservations /\ O!Stored
  \/ \E a \in Syncs : OnlyPageObservations /\ O!StartSync(a)
  \/ \E a \in Syncs : OnlyPageObservations /\ O!ReadHook(a)
  \/ \E a \in Syncs : OnlyPageObservations /\ O!WriteHook(a)
  \/ \E a \in Syncs : OnlyPageObservations /\ O!SyncFails(a)
  \/ \E r \in Requests : OnlyPageObservations /\ O!SendRequest(r)
  \/ \E r \in Requests : OnlyPageObservations /\ O!RecordObservation(r)
  \/ \E r \in Requests : OnlyPageObservations /\ O!HandleResponseBody(r)
  \/ OnlyPageObservations /\ O!StopCapture
  \/ OnlyPageObservations /\ O!Save
  \/ OnlyPageObservations /\ O!Respawn
  \/ OnlyCrossModule /\ X!Harvest
  \/ OnlyCrossModule /\ X!HarvestFails
  \/ OnlyCrossModule /\ X!IndexBuilt
  \/ OnlyCrossModule /\ X!Extract
  \/ OnlyCrossModule /\ X!ExtractFallsBack
  \/ OnlyCrossModule /\ X!SkipDone
  \/ OnlyCrossModule /\ X!Redelivered
  \/ OnlyCrossModule /\ X!Reextract
  \/ OnlyCrossModule /\ X!Over
  \/ \E s \in DOMAIN tree : OnlyRouteHarvest /\ H!PassBy(s)
  \/ \E s \in DOMAIN tree : OnlyRouteHarvest /\ H!Deny(s)
  \/ \E s \in DOMAIN tree : OnlyRouteHarvest /\ H!Harvest(s)
  \/ \E a \in DOMAIN assets : OnlySecretReveal /\ R!Analyze(a)
  \/ \E a \in DOMAIN assets, what \in {"code", "map"} : OnlySecretReveal /\ R!Lost(<<what, a>>)
  \/ \E r \in sightings : OnlySecretReveal /\ R!LoadTarget(<<r.value, r.path>>)
  \/ OnlySecretReveal /\ R!Derive
  \/ OnlySecretReveal /\ R!SourceGone
  \/ OnlySecretReveal /\ R!StoreFails
  \/ OnlySecretReveal /\ R!Audit
  \/ OnlySecretReveal /\ R!AuditFails
  \/ OnlySecretReveal /\ R!Answer

AnySpec == AnyInit /\ [][AnyNext]_allVars
-----------------------------------------------------------------------------
\* Code that did not change shows no difference between two versions of the
\* rules (queries.diff_runs).
SameCodeNoDiff == part = "identity" => F!SameCodeNoDiff

\* What the extension takes for captured is queued for upload, and a script that
\* was seen is not left behind by a processor that has ended (processQueue).
SeenIsKept == part = "page" => P!SeenIsKept

\* The page's hook is registered for the hosts of the settings once its
\* updates have ended (hook-matches.js).
HookFollowsScope == part = "observations" => O!HookFollowsScope

\* A row's URL is made of values its unit's names can have, but for an import,
\* and a constant that another file exports is found (_base_env.py,
\* _modulegraph.py).
UrlsAreTheirs == part = "modules" => X!UrlsAreTheirs

\* The URLs harvested are the outermost builders outside a sink
\* (_harvest_routes).
HarvestIsOutermost == part = "routes" => H!HarvestIsOutermost

\* A reveal shows the secret that was found (probe/reveal.py).
FoundIsRevealed == part = "reveal" => R!FoundIsRevealed
================================================================================
