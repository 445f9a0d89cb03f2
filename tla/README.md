# A TLA+ model of SimpleDeploy

SimpleDeploy watches a directory of Docker Compose files, keeps the running
stacks in step with them, and offers an HTTP API, a dashboard, backups, alerts
and git sync around that loop. This directory models the app lifecycle, which
is its core, and the services around it. Everything is checked with TLC; the
theorems of section 5 are proved with TLAPS.

    tlc -workers 2 -config Mutex.cfg MCAppLifecycle     # one run
    tlapm AppMutexProofs.tla                            # one proof module

Paths are relative to the repository root (`src/`).

## 1. Inventory of the system

| Component | State it keeps | Operations | Hard behaviour | What makes it correct | Module |
|---|---|---|---|---|---|
| Reconciler (`internal/reconciler`) | retry set, proxy handle | Reconcile, RefreshRoutes, RefreshStatuses, DeployOne, RestartOne, PullOne, StopOne, StartOne, ScaleOne, RollbackOne, CancelOne, archiveApp, removeApp, Watch | passes, retries and API goroutines interleave over files, rows and docker; nothing but the Tracker excludes them | edits are deployed, gone apps archived and only those, the server comes to rest | `Reconciler`, `AppLifecycle` |
| Deployer and Tracker (`internal/deployer`) | flights, logs, cancel functions | Deploy, RollbackDeploy, Restart, Pull, Stop, Start, Scale, Cancel, Teardown, Status | cancellation while compose runs, failures midway | one tracked compose command per app, always released | `Deployer`, `Tracker` |
| Deploy logs (`deployer/tracker.go`, `api/`) | lines, followers' channels | Send, Subscribe, Done | full channels, a client that arrives late | every follower's stream ends | `LogStreams` |
| Store (`internal/store`) | SQLite tables | UpsertApp, UpdateAppStatus, MarkAppArchived, PurgeApp, CreateComposeVersion, ... | late writes for rows already purged | history goes with its row | `AppStore` |
| Compose files (`internal/compose`) | files under `apps_dir` | parse, validate, inject the shared network, atomic write | read and write back races edits | a file is rewritten at most once | `ComposeFiles` |
| API: app handlers (`internal/api`) | one goroutine per request | deploy, actions, archive, purge, endpoints, ... | goroutines outlive the request | see the reconciler | `AppLifecycle` |
| Status column (`reconciler`, `metrics/collector.go`) | `apps.status` | Stop, Start, deploys, RefreshStatuses, syncStatus | four writers, each with an old listing | the status settles on what the containers do | `AppStatus` |
| Event bus (`internal/events`, `api/events_ws.go`) | subscribers, channels, stale flags | Subscribe, cancel, Publish, the WebSocket loop | overflow, cancel during publish, slow clients | every loss is marked, publishers never hang | `EventBus` |
| Config sync, one app (`internal/configsync`) | `simpledeploy.yml`, debounce timers, self-write marks | WriteAppSidecar, the watcher's apply, ReconcileDBFromFS | own writes told apart by a time window | rows and file agree after quiet | `ConfigSync` |
| Config sync, global | `config.yml`, `secrets.yml` | debounced write, Close, boot import | two files, crash, hand edits, lost files | a restart keeps the rows, a bad file is not overwritten | `GlobalSync` |
| Git sync (`internal/gitsync`) | clone, commit and sync queues, hashes of own renders | commit, push, fetch, rebase, secure, import | server wins a conflict, but never for access; follow-up commits | local edits reach the remote, access stays | `GitSync` on `ConfigSync` |
| Git sync settings (`api/gitsync_config_handler.go`) | `gitsync_config`, `gs`, `gsMu` | save, disable, reload, sync now | Stop joins goroutines while requests wait on them | what runs is what is saved; a reload ends | `GitReload` |
| Backups (`internal/backup`) | cron entries, runs, files, running set | run, hooks, retention, restore, upload | prune against restore, hooks half done, crash | a restore is verbatim, services come back, the newest run stays | `Backup` |
| Backups of the database (`api/server.go`, `api/system.go`) | settings rows, one cron, runs, files | save settings, run, prune | settings saved row by row, overlapping runs | a run listed as ok has its file | `SystemBackup` |
| Alerts (`internal/alerts`) | rules, webhooks, open history rows | evaluate, send, edit, disable, delete | edits inside an evaluation | one open alert per rule, resolves follow fires | `Alerts` |
| Proxy (`internal/proxy`, `api/cert.go`) | routes, owners, rules, certificates, last load | SetRoutes, ReloadCerts, upload and delete a certificate | revert on a failed load, skipped loads | rules match the loaded routes | `Proxy` |
| Rate limiter (`proxy/ratelimit.go`) | buckets, LRU list | Allow | window edges, eviction | a steady rate is bounded | `RateLimit` |
| Request statistics (`proxy/reqmetrics.go`, `internal/metrics`, `store/reqmetrics.go`) | queue, rows of three tiers | record, flush, roll up, prune, query | failed statements, repeats, bucket edges | nothing counted twice, views complete | `RequestStats` |
| Auth and users (`internal/auth`, `api/users.go`, ...) | users, keys, grants, token versions, lockout | setup, login, logout, change, delete, sockets | a login beside a password change, sockets that outlive rights | sessions know the password, bursts are bounded | `Access` |
| Log buffer (`internal/logbuf`) | ring | append, clear, Recent | wrap-around | equals the newest lines written | `LogRing` |
| Audit, bundles, recipes, mirrors, CLI, UI, docs | rows or none | | | | see section 7 |

How they interact: the file watcher debounces events into `Reconcile` and
routes sidecar events to config sync; API handlers call the reconciler in
goroutines of their own; the reconciler calls the deployer, which registers
with the Tracker and runs `docker compose`, then writes the store and the
proxy. Every change of a row schedules a sidecar write, whose hook queues a git
commit; a pull writes the sidecar, which is imported into the rows again. The
status ticker, backups, alerts and the audit recorder publish on the bus, whose
WebSocket handlers call back into the store to filter. There is no lock around
an app: the Tracker's two maps, the retry set and each SQL statement are the
only atomic things there. Services have a mutex each (`loadMu`, `gsMu`,
`setupMu`, a semaphore for restores), and let go of it around I/O. That is where
the hazards listed in `PROJECT.json` come from.

## 2. Modules

The app lifecycle is a chain, each module extending the one before as the
packages call each other downwards: `ComposeFiles`, `Tracker`, `AppStore`,
`Deployer`, `Reconciler`, `AppLifecycle`, `AppProperties`. `DeployMutex` is the
abstract specification of what the Tracker promises. `AppTypeProofs`,
`AppMutexProofs` and `AppArchiveProofs` hold its theorems. `GitSync` extends
`ConfigSync`: a pull and a dashboard edit meet in the same file and the same
rows. The other services share no state with these in the code (each talks to
its own tables and files), and are one module each, with their properties at
the end. Their theorems are in `BusReloadProofs` (event bus, git sync settings),
`GitSyncProofs`, `ServiceProofs` (alerts, sessions, lockout, request statistics),
`BackupProofs` and `ResourceProofs` (proxy, log ring, global settings, backups of
the database, rate limiter).

`MCAppLifecycle` and `MCGitSync` instantiate the two compositions.
`MCServices` and `MCResources` check the separate services together: a variable
`part`, chosen at the start, says which one of them runs, and the others keep
their initial state. So one run has the sum, not the product, of their state
spaces, and a property of a service is checked against exactly the behaviours
of its own specification.

### State and code: the app lifecycle

* **Goroutines.** `th[t]` is a goroutine: `op` names the entry point, `pc` the
  place where other goroutines can act next, `app` its app, `seen` the file
  docker compose read, `buf` the bytes a rollback keeps, `hash` and `id` what it
  read to store, `res` the deployer's result. A step ends where the code
  releases a lock, runs a command, or touches the disk or the database again.
* **Passes.** `ps[p]` is a `Reconcile`, `RefreshRoutes` or route refresh in
  progress, with the scan and the row listing it works from. The retry of app
  `a` is pass `a`, so `r.retrying[a]` is `~PassIdle(a)`. A pass starts
  `deployApp` in thread `<<p, a>>` and `wg.Wait` is `WaitDeploys`.
* **Files.** `file[a]`; `dirty` is a watcher event not yet consumed.
  `hashFile` is injective. Two ids the operator writes are different contents.
* **docker.** `docker[a]` is the file the containers were created from and
  whether they are up, down, unhealthy or absent. A failed or killed
  `compose up` leaves the old project or an unhealthy new one.
* **hist** is history only, never read by an action.

### State and code: the services

* **EventBus.** `buf[s]` counts the events in a channel, `con[s]` and `pub[p]`
  are program counters of a handler and of a `Publish`, `mu[s]` the mutex of a
  connection, `owed` the history of losses not yet made up for.
* **ConfigSync, GitSync.** A sidecar is its settings, its access list and
  whether its bytes are the server's own; settings and access carry the number
  of the change that set them, positive from the server and negative from the
  remote. The local branch is the remote commit it contains (`base`) and the
  commits since (`ahead`); `worker` is the program counter of the one goroutine
  that touches the repository; `queue`, `held` and `suppress` are `commitCh`
  and the requests kept back during an import; `hash` is the expected render.
* **GitReload.** `saver` and `client` are requests, `owner` and the readers are
  the two sides of `gsMu`, `worker` and `poll` the two goroutines of a syncer,
  `syncCh` their channel. A request waiting for the write lock keeps new readers
  out, as `sync.RWMutex` does.
* **Backup.** `bcfg` and `brun` are the tables, `bfile` the local target
  (a file's bytes are the id of the run that wrote it, so is a checksum),
  `entries` the cron entries, `job` and `restore` the pipelines step by step,
  `stuck` the runs a failed prune could not remove.
* **SystemBackup.** `sysRow` and `sysCron` are the settings and the one
  schedule the server knows, `crons` all that tick, `runRow` and `sysFiles`
  what runs left.
* **Alerts.** `rules` and `open` are rows; `eval` holds the snapshot of the
  rules an evaluation works on; an edit by the API is two or three statements.
* **Access.** `accounts`, `grants`, `keys` are rows, `sessions` tokens handed
  out with the version and the password they stand for, `ask` the requests that
  hash passwords meanwhile, `socks` open log sockets with the identity of their
  first request. That a socket whose rights are gone is closed rests on its own
  ticker alone and is not a property.
* **AppStatus.** Each writer reads docker and the column and writes later.
* **LogStreams, LogRing.** A line is its number; a follower has a channel of
  `ChanSize` and the history it was given first; the ring is compared with the
  plain list of lines.
* **Proxy.** `px` is what SetRoutes publishes, `loaded` what Caddy runs, `cert`
  the pair of files; a load in flight is a program counter with what it will put
  back on failure.
* **RateLimit.** Tokens, burst and last use of each key, and the requests of one
  watched key, let through or refused.
* **RequestStats.** `rows[tier][ts]` is a count; a rollup reads, writes and
  deletes in separate transactions, any of which may fail.
* **GlobalSync.** A secret is the number of the change that set it, in rows and
  files alike; what a boot may do to the rows is the code's decision table.

### What is left out of modelled parts

Lifecycle: `degraded` (`AppStatus` has it); registry logins; labels, display
names and version notes; topics and their authorization (a filter accepts or
refuses freely); the semaphore of three deploys per pass; the order in which
maps and directories are walked (any order). Config and git sync: secrets of an
app's sidecar, more than one app, pruning of orphan files, symlink checks,
webhooks of the forge, compose files in the repository. Backups: retention by age, S3,
strategies' commands, missed-run notices. Alerts: payload templates. Proxy: IP
matching, Caddy itself. Metrics: averages of container metrics (the path of
request counts is modelled). Users: profile edits, hashes, token formats.

## 3. Runs

All bounds are constants of the configuration. Deadlock checking is off
everywhere: with its budget of requests and faults spent the server rests,
which `ComesToRest` asserts for the lifecycle.

| Run | Shows | Why the bound is enough |
|---|---|---|
| `Mutex` | `LogIsHeld`, `MutexSpec` (refinement of `DeployMutex`, which implies `OneDeployPerApp`), `TypeOK` | two requests, one watcher pass and a retry contend for one app; three events allow deploy, cancel, deploy again |
| `Converge` | `EditsTried`; `Converges` under `FairSpec` | any two of edit, deploy, restart, crash, with skipped deploys and retries; `EditsTried` is proved for any number |
| `Rest` | `ComesToRest` under `FairSpec` | any two of ten operations with failures of up, down and the rest |
| `Remove` | `VersionsHaveRow`, `ArchivedWasGone` | two of edit, lost directory, delete, purge, re-creation, crash and a retry that times out, beside two deploys and a pass, over a good, a refused and a broken file; `ArchivedWasGone` asks only whether the app was gone at some time, so it says nothing of an app that came back before it was archived |
| `RouteOnly` | `RefusedStaysRouted` | four of pull, restart, cancel, stop, status refresh, health change, crash and a lost directory on an app whose file is refused |
| `Sync` | `AccessNeverPulled`, `PullOnlyFollows`, `LocalCommitKept`, `BranchesConverge` | two changes out of dashboard edit, grant, hand edit and remote commit, one failed push or a crash, in three modes; pulls start whenever the worker is free, also beside the writes of earlier changes; a queue of one place overflows with the second request; two remote commits conflict with a pushed and with an unpushed edit |
| `Services` | bus: `LossIsMarked`, `PublishReturns`; alerts: `OneOpenAlert`, `ResolvedAfterFiring`, `AlertFollowsMetric`; access: `SessionsKnowPassword`, `BurstBounded`; status: `StatusSettles`; logs: `FollowersEnd`; reload: `RunningIsSaved`, `UnpolledReturns` | see below |
| `Resources` | backup: `RestoreVerbatim`, `ServiceRestarted`, `MissingIsPrunable`, `NewestKept`; proxy: `RulesMatchLoaded`, `SkipIsSafe`, `DomainKept`; rate: `SteadyRate`; stats: `CountedOnce`, `ViewIsComplete`; ring: `RecentIsSuffix`; global: `RestartKeepsRows`, `BadFileKept`; system: `ListedHasFile` | see below |

Bounds of `Services`. Bus: two publishers race for the last place of a
two-place buffer while the handler drains; connections share only the list
that `Publish` copies, so one is enough. Alerts: two rules and two edits, so an
edit can meet an evaluation and a restart the history it left. Access: two
requests at a time, four altogether, over up to three ids, so that a login
overlaps a password change by its user or an administrator and an id is left
by a deletion. Status: two services allow degraded; two requests, one fault.
Logs: two deploys so that a follower of the first meets the second, four lines
through a channel of two. Reload: four requests, of which two save, one syncs,
and a channel of one place that a poll fills.

Bounds of `Resources`. Backups are two parts because overlapping runs and
restores multiply: `backup` has two runs at once, without restores; `restore`
has one run at a time beside a restore or upload. Two run rows and a retention of
one let the second run prune the first. Proxy: two apps claim one domain twice,
two loaders, each of which may be a refresh of the routes or a certificate request,
two writes of certificate files (a file put back after a failed load is not counted
against the bound). Rate: six calls of three clients over four ticks, with a
window of two and a table of two, see a window's edge, an eviction by another
client and a return. Statistics: three tiers with buckets of one, two
and four ticks up to the age at which the last drops a row. Ring: eight writes
wrap a ring of three twice. Global: three changes and three mishaps, among them
losing either file, a hand edit that does not parse, and a crash. System: two
saves, by one request at a time or by a hand-edited `config.yml`, a boot that may
find other settings in that file, one fault, three seconds; two requests at a time
break it (section 6).

Runs that must find a violation, each of a statement the repository makes
about itself. `PROJECT.json` quotes the line.

| Run | What the trace shows |
|---|---|
| `LostEdit` | a file edited after compose read it and before `deployApp` hashes it is stored as deployed and never runs |
| `PollHang` | Stop cancels; the worker's select takes the cancelled context while the poll's request is in the channel; the poll waits for an answer, Stop for the poll, and `gsMu` stays locked |
| `GrantUndone` | a pull takes its snapshot of the grants, the dashboard grants, and the pull that changed the file puts the snapshot back |
| `StaleRewrite` | the debounced rewrite of one pulled file lands after the rebase of the next pull and before that one reads the file to import it: HEAD has the newer remote commit, rows and file keep the older settings |

### Fairness

`FairSpec` of the app lifecycle is `WF_vars(System)`: while the server has a
step of its own to take, some step is taken. It stands for the Go scheduler
running a runnable goroutine, compose commands returning and timers firing.
No particular goroutine is promised anything, and requests, edits, health
changes and crashes are never required.

`GSpec`: the worker goroutine takes its steps, poll ticks come, debounce timers
fire and hooks run (WF each). The remote may refuse only `MaxFaults` times:
`BranchesConverge` is about a remote that comes back.

`ServicesSpec` has the fairness of each service, guarded by its being the one
that runs. Bus: a running `Publish` takes its next step, a write returns, at the
latest at its ten-second deadline, and a publisher waiting for a connection's
mutex gets it if it is released again and again (SF: Go's mutex hands over to a
waiter that starves). Clients promise nothing. Alerts: the evaluation ticker and
an accepted edit. Status: both tickers,
and a request ends. Logs: a deploy and a follower's handler end what they began.
Reload: some goroutine of the reload, the worker or a client's send that can go
on does (one WF for all of them); ticks of the poll and clients going away
are not promised. `ReloadSpec`, used by `PollHang`, promises more, each
goroutine its turn: SF for the lock, which Go hands to its waiters in turn, and for
noticing a cancelled context, since a `select` with two ready cases chooses at random. The
violation is found in spite of it.

## 4. What the properties say about races

* `EditsTried` and `Converges` exclude exactly the disturbed apps (`Disturbed`):
  those whose file changed under a running deploy (`LostEdit`), went back to the
  stored hash (`TornDeploy`), or met two restarts: a Reconcile that finds an app
  changed behind a restart, which reads no file, queues a retry, but not while the
  retry's own pass is running (`reconciler.go:578-585`). The second skip is then
  the last, although `reconciler.go:905-908` promises another Reconcile. Two
  requests are too few for that, so the run alone would not have told. The run
  has no label edits or cancels (`MaskedEdit`, `CancelUp`).
* A retry polls until the flight is gone (`reconciler.go:600`). That the deploy has
  ended by then, as `docs/architecture/reconciler.md:26` promises, is not a property of the
  passing runs: a cancel takes the flight away first (`EarlyRetry`, section 6).
* `LocalCommitKept` and `PullOnlyFollows` are the two sides of git sync: an edit made
  here survives a rebase, and the server's own rewrites of a pulled file are
  not taken for one. The second holds with a condition that the code does not
  enforce: every pull began after the writes that the one before it caused had
  landed (`~hurried`). The poll loop, a webhook or "Sync now" may start one sooner,
  since a write follows its change by half a second; the model lets them, and then the same
  statement, `RemoteEditsApply`, is broken (`StaleRewrite`). `AccessNeverPulled` is checked
  in between, when the tree already holds the remote's list.
* `ResolvedAfterFiring` is about every `resolved` that is sent, also one that
  repeats what was said: the last notice of that rule must have been `firing`.
* `RestoreVerbatim` follows a restore from the lookup of its run to the bytes
  it wrote, with prunes and runs of the same second in between.
* `UnpolledReturns` is what is left of `ReloadReturns` when nothing polls.
* `StatusSettles` says nothing about `stopped`; `StoppedStays` fails (section 6).
* `SteadyRate` is about a client that is refused in every stretch of time as long
  as a window. Refusals at each of its requests are not enough: a client that
  goes over, rests for two windows and comes back has its burst again, which the
  code intends (`elapsed >= 2*d.window`).
* `BurstBounded` counts the attempts that were past the lockout check already.
* `LossIsMarked` says that the stale flag is set for every loss; the flag is set after the new
  event is readable (`bus.go:110-113`), so a handler that drains its whole buffer
  in between notices only with the next event.

## 5. Proofs

For every number of apps, watchers, jobs, publishers, connections, requests,
rules, accounts, runs and files, every buffer size and every bound:

| Theorem | States |
|---|---|
| `AppTypeProofs!TypeCorrect` | `Spec => []TypeOK` |
| `AppMutexProofs!DeploysExclude` | `Spec => []OneDeployPerApp` |
| `AppMutexProofs!LogsAreHeld` | `Spec => []LogIsHeld` |
| `AppMutexProofs!ImplementsMutex` | `Spec => MutexSpec` |
| `AppMutexProofs!EditsAreTried` | `Spec => []EditsTried`, if `LoopOnly` |
| `AppArchiveProofs!OnlyMissingAppsArchived` | `Spec => []ArchivedWasGone` |
| `AppArchiveProofs!HistoryGoesWithRow` | `Spec => []VersionsHaveRow` |
| `AppArchiveProofs!RefusedAppsStayRouted` | `Spec => []RefusedStaysRouted`, if `FilesStay` |
| `BusReloadProofs!BusTypeCorrect` | `Spec => []BusTypeOK` |
| `BusReloadProofs!LossesAreMarked` | `Spec => []LossIsMarked` |
| `BusReloadProofs!SettingsApplied` | `ReloadSpec => []RunningIsSaved` |
| `BusReloadProofs!MutexExcludes` | `ReloadSpec => []ReloadExcludes` |
| `GitSyncProofs!GitTypes` | `GSpec => []GTypeOK` |
| `GitSyncProofs!AccessStaysOurs` | `GSpec => []AccessNeverPulled` |
| `GitSyncProofs!LocalEditsKept` | `GSpec => LocalCommitKept` |
| `GitSyncProofs!RemoteIsFollowed` | `GSpec => []PullOnlyFollows`; while no pull was `hurried`, `RemoteEditsApply` |
| `ServiceProofs!OneAlertPerRule` | `AlertsSpec => []OneOpenAlert` |
| `ServiceProofs!ResolvedWasFiring` | `AlertsSpec => ResolvedAfterFiring` |
| `ServiceProofs!SessionsAreCurrent` | `AccessSpec => []SessionsKnowPassword` |
| `ServiceProofs!BurstsAreBounded` | `AccessSpec => []BurstBounded` |
| `ServiceProofs!RequestsCountOnce` | `StatsSpec => []CountedOnce` |
| `ServiceProofs!ViewsAreComplete` | `StatsSpec => []ViewIsComplete` |
| `BackupProofs!RestoresAreVerbatim` | `BSpec => []RestoreVerbatim` |
| `BackupProofs!ServiceComesBack` | `BSpec => []ServiceRestarted` |
| `BackupProofs!MissingRunsGo` | `BSpec => []MissingIsPrunable` |
| `BackupProofs!NewestRunStays` | `BSpec => NewestKept` |
| `ResourceProofs!RoutesAreLoaded` | `ProxySpec => []RulesMatchLoaded` |
| `ResourceProofs!DomainsAreKept` | `ProxySpec => DomainKept` |
| `ResourceProofs!SkipsAreSafe` | `ProxySpec => []SkipIsSafe` |
| `ResourceProofs!RecentIsNewest` | `RingSpec => []RecentIsSuffix` |
| `ResourceProofs!RestartsKeepRows` | `GlobalSpec => RestartKeepsRows` |
| `ResourceProofs!BadFilesAreKept` | `GlobalSpec => BadFileKept`, if `~NewHost` |
| `ResourceProofs!ListedRunsHaveFiles` | `SystemSpec => []ListedHasFile`, if `OneSaver` |
| `ResourceProofs!OneScheduleRuns` | `SystemSpec => []OneSchedule`, if `OneSaver` |
| `ResourceProofs!BurstIsGivenOnce` | `RateSpec => []SteadyRate` |

The assumptions are those named in the modules: `FilesAssumption`,
`NoFileAssumption`, `ThreadsAssumption` (`ComposeFiles`), the ones of
`AppStore`, `Deployer`, `LifecycleAssumption`, `BusAssumption`,
`NobodyAssumption`, `AlertIds`, `AccessBounds`, `AccessStarts`,
`BackupAssumption`, `ProxyAssumption`, `RateAssumption`, `RingAssumption`,
`OwnerAssumption`, `GitAssumption` and `StatsAssumption`. They only say that sets
are disjoint, sentinels are no members, bounds are naturals, quotas and windows
are positive, there are finitely many requests, and a table of users or backup
configs at the start is one that the program can have; TLC evaluates them in
every run. Two of them also fix something that the code fixes.
`GitAssumption` has `AccessFromDashboard`, which the server sets for as long as git
sync runs. `StatsAssumption` has at least two tiers whose windows grow, as the ones
of `RunOnce` do (an hour, six, a day, 30 days); a smaller window behind a larger
one would lose rows from the views. Nothing is assumed of the retentions.

Four hypotheses say more, and none can be dropped. (The condition of `PullOnlyFollows`
is in the property itself; section 4.)

* `LoopOnly` of `EditsAreTried`: no pull, no cancel, no label edit, and no row
  from another layout at the start. Each leaves a stored hash that is not of the
  file last brought up. A pull brings up a file and stores no hash, so a file
  that then goes back is found unchanged. The `compose up` of a cancel may end
  after a newer deploy. A label edit stores hashes of files that never ran. And a
  pass that corrects a path writes back the hash it listed before a deploy. With
  `Converge` as the base, two jobs and three requests, TLC finds a counterexample
  to `EditsTried` without each of the four. Edits, deploys, rollbacks, restarts,
  stops, removals, purges, status refreshes, lost directories, retries that time
  out, crashes and failures of docker are all allowed.
* `FilesStay` of `RefusedAppsStayRouted` has four parts. There is a proxy. No
  edit on disk: it can bring in a refused file that never ran, so that the stored
  hash is another file's. No app starts as `new`, for the same reason. And not
  both removals and crashes: a reboot between the purge of the row and the removal
  of the directory leaves a refused file without a row. Everything else the server
  does is allowed. With `RouteOnly` as the base (and, for edits, a second id),
  TLC finds a counterexample without each of the four.
* `~NewHost` of `BadFilesAreKept`: the files are read on a host that has run the
  server before, so the marker of the backfill is there. On a new host the code
  does overwrite an unreadable `config.yml`.
* `OneSaver` of the last two: one request at a time changes the settings of
  database backups. Two at once break both properties. These two counterexamples
  are in section 6 as well; the runs have the same bounds.

`OneSchedule`, a part of the invariant behind `ListedHasFile`, is not in the run.

### Arguments

* **Types.** `TypeOK` is not inductive: a step that writes `th[t].res` as a
  status, or indexes a table with `th[t].app` or `ps[p].cur`, needs to know that
  it is a real status or app at that `pc`. `Typed` adds that for threads
  (`GoodThread`) and passes (`GoodPass`); one lemma per action group shows it is
  kept.
* **Mutex.** `Held` says that a thread between TrackWithLog and
  DoneWithLogStatus of an app is the one `logs[a]` names, and that whoever
  `logs[a]` names is there. Every step of the lifecycle either leaves the
  tracked region of every app alone, or enters it when it is empty, or leaves
  it, or kills everything (`Moves`); invariance and the refinement of
  `DeployMutex` follow from that one classification.
* **Archive and history.** `Kept` follows an app from the pass that saw it
  missing, through teardown and tombstone, to the row: whoever is on the way to
  being archived, has a tombstone or is archived was gone. For versions it says
  that a purge empties the history and that only a row with the inserted id
  receives a version.
* **Edits.** `EditsTried` is about rest; `Loop` is what holds before. While an app is
  owed a `compose up` (`Owed`), three things are true of it (`Accounted`). Its row
  holds another file's hash, so that a pass will see the difference (`HashTells`).
  A deploy that is going to store a hash has read the newest file or is about to
  (`StoresNewest`). And something that leads to a deploy is under way (`OnTheWay`):
  a pending event, a goroutine that has yet to read the file (`Reader`), or a pass
  that will find it changed (`Finder`). One lemma per group of actions hands the
  debt on; the case that makes it deep is a skipped deploy (`BlockedDue`): whoever
  holds the log reads the file after all, or is a restart and a retry waits. A file
  write breaks the three only for an app that it disturbs, and a disturbed app
  stays so (`MoreHist`). It needs `Held` from above; that flights are logs (`Together`), since without
  cancels nothing but TrackWithLog and its counterparts touches them; and that a
  goroutine is only where its request can be (`RolesOK`).
* **Refused apps.** `RefusedStaysRouted` is about rest only; `Steady` is what holds
  before. The row of a refused app has the hash of the file on disk, or a
  DELETE has purged it and is about to remove the directory (`RowsSteady`). No
  deploy or rollback of a refused app is under way that could store another hash
  (`ThreadsSteady`), no version may replace a refused file and no rollback keeps
  one to put back later (`HistorySteady`, `Fine`). A pass that has scanned the app has its
  present file and is not archiving it (`PassesSteady`). And the routes are
  right or a pass or an event that leads to one is pending (`RoutesDue`). Each step is
  shown to keep the five groups of variables (`KeepsSteady`), from which `Steady'` follows
  once.
* **Bus.** A publisher that drops an event keeps the connection as `cur` until
  the flag is set, and only the handler clears the flag, on its way to a resync.
  `LossIsMarked` is inductive next to the types, once the types say that a
  publisher past `next` visits someone (`Visiting`).
* **Reload.** Neither property is inductive. `HoldsMutex` adds that who stops
  or starts a syncer is the owner of `gsMu` and that there are no readers then;
  without it a second request could be imagined inside. `AppliedOrAhead` adds
  that settings which do not run yet have a request on its way to the lock or
  beyond it: a request that saved earlier but reloads later applies what is
  saved by then, not its own settings.
* **Access in git sync.** Between the rebase and `securePulledTree` the file does hold
  the remote's list. `FileIsOurs` follows the file through these steps: the tip
  that the worker remembers was the file before the rebase, and a file that is
  not the server's is the tip after it.
* **Rebase.** `Replay` is a recursive function over the local commits. Its table
  exists (`ReplaysExist`), it follows its recursion (`ReplayIsLast`), and each
  commit it replays keeps the settings of those before it (`ReplayKeeps`).
* **Pull-only.** `Follows` has four parts: the file and every local commit have the
  settings of the remote commit that HEAD contains (`FollowsBase`), the rows follow
  the file but for what is being imported (`RowsFollow`), what is not committed is a
  render, noted as such or to be noted by a write hook (`RendersNoted`), and the
  worker only pulls (`OnlyPulls`). So no render becomes an edit. All this is kept while
  no pull is `hurried`: a write that carries an older render then lands in the middle
  of no later pull. `PullOnlyFollows`
  itself leaves out runs in which the server died: a crash inside a pull makes an
  edit of a render (`FollowUpsNeverOverride`, section 6).
* **Alerts.** `EvaluatorKnows` says what the evaluator still knows several
  statements after it looked: that the rule has no open alert while it fires,
  because requests resolve and delete alerts and never open one; and which
  notice it sent. `OpenWasTold` ties the history to the notices.
* **Sessions.** What a login read may be old. `Known` says how old: not newer
  than the row, and with an equal token version the password is equal too. Every
  action that changes accounts is shown to move `Forward` (versions rise,
  passwords change with a version or by a sidecar, ids are not reused), and
  `Known` survives any such move.
* **Lockout.** `LockInv` counts failures recorded since the lock together with
  logins that passed `IsLocked` before it. A login that ends moves one from the
  second number to the first.
* **Request statistics.** `Balanced`: the rows of all tiers, added to those pruned, are
  what was stored. A rollup moves rows into larger buckets; that it keeps the
  total is a fact on sums over groups (`SumOfGroups`), and that a flush adds
  exactly its count is `SumPlus`. For views, `MovedIsOld`: a row in a tier is older
  than the window of the tier before, so a view that reads a tier never misses a
  row that has moved on.
* **Restores and hooks.** What a restore has spooled is nothing or the bytes of
  the run asked for, and while the service is down some run holds it down
  (`DownWhileHeld`) and is at a step that leads to a start hook.
* **Retention.** Jobs prune from old listings under different retentions.
  A listed run is `Doomed`: as many newer runs succeeded as the tightest
  retention since asks for, so it stays prunable when other jobs prune as well.
  `OneClaim` says that a file has one run unless two wrote it (`clash`), and
  `MissingDoomed` that a missing file belongs to a doomed run.
* **Proxy.** Between publishing and loading the published state is ahead of
  Caddy. `CaddyRuns` names the state that Caddy does run: the one the loader
  would put back. For skips, `KeyTellsFiles`: every write of a certificate file
  has a new modification time, so equal keys mean equal files.
* **Log ring.** The i-th newest line lies i places behind the write position
  (`RingInv`); `BackMoves` is the arithmetic of the wrap. Recursion is avoided:
  `Recent` is a function of its index.
* **Global rows.** `KeptAs` is the invariant that matters: from a clean stop until
  the next server is up, the rows are in the database with files that agree, or
  in both files. It needs the order of the two writes (`SecretsFirst`), the debt
  of a running server (`UpIsWritten`), and that a boot writes what it has.
  For an unreadable file, `BadFileWaits` follows the two markers.
* **Database backups.** With one schedule at a time each second fires once, so
  names are distinct (`InTime`), and `RunsAre` says that a run's file stays its
  own from the dump to the row and that what is about to be removed is no longer
  listed.

* **Rate limiter.** `Spent` splits what was let through since a request into
  tokens and burst: no more tokens than the fillings since, and what is left of
  the burst added to what was used of it is one burst. Filling the bucket
  could give the burst back; while no window passes without a refusal it does
  not, because the bucket was over (`TellsOver`) and was not away for two windows.
  A bucket that was dropped for being idle for two windows ends every such stretch.

The library's induction theorems take an operator as a parameter, which the
provers cannot instantiate. Where an argument needs induction (the rebase,
sums), it is done on sets: a set of numbers with 0 and successors has all numbers
(`NumbersFromZero`), because its complement would have a least element (`WFMin`).

### Only model-checked

* Liveness under fairness and ENABLED are out of the prover's reach:
  `Converges`, `ComesToRest`, `BranchesConverge` and the temporal properties of
  `Services`.
* That the statements of section 6 fail is shown by TLC's traces.

Every invariant and every action property of the passing runs has a theorem.

## 6. Statements that do not hold

Statements of comments and documents that the code breaks, kept as properties.
Those with a configuration can be replayed
(`tlc -config X.cfg` on the module given):

| Configuration (module) | Property | What the trace shows |
|---|---|---|
| `TornDeploy` (`MCAppLifecycle`) | `LoopConverges` | a crash between compose up and the stored hash, then the old file comes back: it is not deployed |
| `CancelUp` (same) | `LoopConverges` | the untracked `compose up` that ends a Cancel outlives the next deploy and restores old containers |
| `MaskedEdit` (same) | `OtherEditsDeployed` | a label edit of one app makes `RefreshRoutes` store the hash of another app's undeployed edit |
| `EarlyRetry` (same) | `RetryWaits` | after a cancel the retry starts while the cancelled deploy is still running |
| `StaleStatus` (same) | `RefreshKeepsStopped` | `RefreshStatuses` overwrites the `stopped` of a Stop that finished meanwhile |
| `RollbackSwap` (same) | `NoSwapUnderDeploy` | a deploy starts between the rollback's check and its write |
| `OrphanContainers` (same) | `ArchivedHasNoContainers` | a deploy in flight while its app is archived leaves containers running |
| `UncheckedRoutes` (same) | `NoUncheckedRoutes` | a refused file put back after the scan has the stored hash, and its refused content is routed |
| `StaleRoutes` (same) | `RoutesFollowFiles` | two route refreshes finish in the reverse order |
| `ClosedSend` (`EventBus`) | `NoSendOnClosed` | `Publish` sends on the channel that a leaving client closed, and panics (`bus.go:102`) |
| `SelfWrite` (`ConfigSync`) | `FileReflectsRows` | an operator's edit within the window of an own write is neither applied nor written over (`configsync.go:76`) |

Others are found by adding the property to the run named:

| Property | Run | What the trace shows |
|---|---|---|
| `ArchivedHasNoDir` | `Remove`, `Jobs = {}`, `InitStates = {"deployed"}`, `Ops = {"edit", "rmdir"}` | a directory restored after archiving runs again while its row stays archived |
| `LoopConverges` | `Converge`, `Ops = {"edit", "restart"}`, `MaxOps = 3` | an edit is skipped behind a restart and again, by its retry, behind a second one; nothing looks at it any more |
| `TombstonesHaveRow` | `Remove`, two watchers, one job, `Ops = {"rmdir", "purge"}` | a purge between the read and the write of `WriteTombstone` leaves a tombstone without a row |
| `FetchOnly` | `Sync`, `Modes <- FetchMode` | a push that is refused fetches and rebases although auto-apply is off (`gitsync.go:1653`, against `git-sync.md:87`) |
| `SyncedIsPushed` | `Sync` | the commit of an earlier change marks the audit row of a later one, whose write is still to come, as synced (`gitsync.go:788`) |
| `PulledIsApplied` | `Sync` | the pull of a refused push does not import, and the watcher takes the pulled file for an own write made just before (`git-sync.md:147`) |
| `FollowUpsNeverOverride` | `Sync` | a crash inside a pull; the boot imports the pulled file and renders it again, and that commit, taken for an edit, wins over a newer remote edit (`git-sync.md:160`) |
| `LocalWins` | `Sync` | a dashboard save whose write is still to come is replaced by the import of a pull (`git-sync.md:154`) |
| `HistoryKeepsSnapshot` | `Services` | an edit of a rule rewrites the snapshot of an alert that fired between its two statements |
| `BackupRulesHaveNoHistory` | `Services` | an edit turns a rule into a backup rule, and the evaluator fires it like any other |
| `DisabledIsResolved` | `Services` | an evaluation with the old snapshot opens an alert of a rule just disabled |
| `PasswordEndsSessions` | `Services` | a sidecar changes a password without a new token version |
| `KeysAreReplaced` | `Services` | API keys that the sidecar does not list stay (`apply.go:208`) |
| `AdminRemains` | `Services`, `Starts <- MCTwoAdmins` | one administrator is demoted while the request that deletes the other is past its check |
| `StoppedStays` | `Services` | the collector writes `error`, from a listing made before, over `stopped` (`apps-and-services.md:59`) |
| `PairOnDisk` | `Resources` | a certificate is replaced or deleted between the two file writes of an upload |
| `AttributedToServer` | `Resources` | the app that claimed a domain first keeps it; statistics go to the lowest id |
| `KeptHasFile` | `Resources` | two dumps that start in one second share a file name |
| `ScheduleFollowsRows` | `Resources` | purging an app removes its backup configs and leaves their cron entries |
| `BadFileKept` | `Resources`, `NewHost = TRUE` | beside an empty database, the boot backfills over an unreadable `config.yml` (`config-sidecars.md:67`) |
| `OneSchedule`, `ListedHasFile` | `Resources`, two `SysSavers` | `dbBackupCron` is unguarded: two saves leave a cron that nobody can stop; both then run in one second, the second fails on the existing file, and pruning its failed row removes the good file |

Smaller disagreements that no property is about: `system-db-backup.md:9` says
that compact backups strip `request_stats`, the code deletes
`request_metrics`; failed runs count towards the retention of database backups; a crash inside
the debounce of the global files makes the next boot revert the change
(`state-on-disk.md`); a crash between stop and start hooks of a backup leaves
the service stopped and the run listed as running; a PUT of the git settings
can write back a token read before another PUT replaced it; a reload that fails
leaves the sidecar hook on the stopped syncer, and the exit stops only the syncer
of the boot.

## 7. Not modelled

The UI, the documentation site and the end-to-end tests (no server state);
Docker, Caddy, SQLite, git and SMTP internals (external; their effect where the
code depends on it is an action); HTTP parsing and rendering; flag parsing and
the command line's client commands; bundles, recipes, label parsing and mirror
rewriting (stateless conversions of YAML); the audit log beyond its sync status
(append-only rows); S3 and the commands of backup strategies. `PROJECT.json`
lists each component with its status.

## 8. Plan

1. Abstract specifications with refinements: of config sync as one register
   per app, of the proxy as an atomic table of routes, of the backup store.
2. Composition: the lifecycle with the bus and the status writers; two apps in
   `GitSync`; compose files in the repository.
3. Left out operations: retention by age and missed-run notices (`Backup`),
   profile edits (`Access`), orphan pruning and app secrets (`ConfigSync`).
