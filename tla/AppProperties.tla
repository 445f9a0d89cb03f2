---------------------------- MODULE AppProperties ----------------------------
(***************************************************************************)
(* What the app lifecycle must and must not do.                            *)
(***************************************************************************)
EXTENDS AppLifecycle

Users == [a \in Apps |-> {t \in Threads : Runs(t, a)}]
Mutex == INSTANCE DeployMutex WITH users <- Users

\* The compose commands registered with the Tracker implement DeployMutex.
MutexSpec == Mutex!Spec

\* No two of Deploy, RollbackDeploy, Restart and Pull run docker compose on
\* the same project at the same time (TrackWithLog).
OneDeployPerApp ==
  \A a \in Apps, t, u \in Threads : Runs(t, a) /\ Runs(u, a) => t = u

\* A Tracker log belongs to a command that is still running: no return path of
\* the deployer leaves an entry behind that would block every later deploy.
LogIsHeld ==
  \A a \in Apps : Busy(a) => Runs(logs[a], a)

\* An app is archived only if its directory really was missing at some point:
\* a file that is refused or does not parse never archives an app.
ArchivedWasGone ==
  \A a \in Apps : HasRow(a) /\ row[a].archived => a \in hist.gone

\* "One Reconcile() is queued to run when it finishes" (docs/architecture/
\* reconciler.md): a retry starts only when the deploy it waits for is over.
RetryWaits ==
  [][\A a \in Apps : ps[a].pc = "poll" /\ ps'[a].pc = "scan" => ~Busy(a)]_vars

\* History aside, the system is at rest: nothing runs and no event is pending,
\* so no step follows until someone makes a request or edits a file.
Quiet ==
  /\ ~dirty
  /\ \A t \in Threads : Idle(t)
  /\ \A p \in Scanners : PassIdle(p)

\* The newest allowed file has been through docker compose.
Settled(a) == Allowed(file[a]) => hist.tried[a] = file[a]

\* The file of a changed under a running deploy, or went back to the file whose
\* hash is stored (LostEdit and TornDeploy show those); or a Reconcile that found
\* it changed was skipped behind a restart while the retry's own pass ran.
Disturbed(a) == a \in hist.raced \cup hist.reverted \cup hist.starved

\* Whenever the server is at rest, no edit is left undeployed (deployApp,
\* reconcileAfterDeploy, the initial Reconcile): the newest allowed file of every
\* undisturbed app has been through docker compose.
EditsTried == Quiet => \A a \in Apps : Disturbed(a) \/ Settled(a)

\* Once edits stop, every allowed file has been deployed, whatever deploys,
\* retries and crashes it met, unless its app was disturbed.
Converges ==
  <>[](\A a \in Apps : Disturbed(a) \/ Settled(a))

\* The server always comes to rest again: every deploy, retry, removal and
\* Reconcile pass ends, none waits forever on another (Tracker, wg.Wait, the
\* retry's poll), and passes do not trigger passes without end.
ComesToRest == []<>Quiet

\* DELETE and Purge take the compose history with the row: a deploy that ends
\* after them, or after the slug was created anew, cannot leave a version with
\* no app to belong to (CreateComposeVersion inserts by the id it upserted).
VersionsHaveRow ==
  \A a \in Apps : ~HasRow(a) => versions[a] = <<>>

\* An app that runs from a file today's rules refuse stays routed across
\* refused pulls, restarts, status changes and a reboot (withRouteOnlyApps).
RefusedStaysRouted ==
  Quiet => \A a \in Apps : IsRefused(file[a]) => routes[a] = file[a]

----------------------------------------------------------------------------
(* Statements of the repository's comments and docs that the code breaks.  *)

\* reconciler.go: a skipped deploy "may have read an older file, so check
\* again once it finishes".  Read as: the newest allowed file is deployed.
EditsDeployed == Quiet => \A a \in Apps : Settled(a)

\* reconciler.md: "Everything else writes a file or a row and lets the loop
\* converge".  Files that changed under a running deploy are LostEdit's.
LoopConverges ==
  Quiet => \A a \in Apps \ hist.raced : Settled(a)

\* reconciler.go: touching hashes "would mask the compose changed signal and
\* prevent legitimate redeploys".  An edit of one app survives RefreshRoutes
\* run for a label change of another.
OtherEditsDeployed ==
  Quiet => \A a \in Apps \ (hist.raced \cup hist.relabelled) : Settled(a)

\* reconciler.go: RefreshStatuses "never overwrites stopped/error/degraded
\* statuses so it cannot race with Stop/Start".
RefreshKeepsStopped ==
  [][\A t \in Threads, a \in Apps :
       th[t].pc = "rsUpdate" /\ th'[t].pc = "idle" /\ th[t].app = a /\ HasRow(a)
         => row[a].status \in {"running", "unstable"}]_vars

\* reconciler.go: "Never swap the file under a running deploy".
NoSwapUnderDeploy ==
  [][\A t \in Threads :
       th[t].pc = "rbWrite" /\ th'[t].pc = "parse" => ~Busy(th[t].app)]_vars

\* archived-apps.md, what archived means: "App directory gone".
ArchivedHasNoDir ==
  Quiet => \A a \in Apps : HasRow(a) /\ row[a].archived => ~Present(file[a])

\* archived-apps.md, what archived means: "Containers torn down".
ArchivedHasNoContainers ==
  Quiet => \A a \in Apps :
             HasRow(a) /\ row[a].archived /\ ~Present(file[a])
               => docker[a].st = "none"

\* archived-apps.md: Delete "is a full purge in one step.  There is no archive
\* intermediate state".  Deleting is the only way a directory goes away here.
DeleteNeverArchives ==
  Quiet => \A a \in Apps : HasRow(a) => ~row[a].archived

\* archived-apps.md: purging "deletes the tombstone.  This is irreversible".
TombstonesHaveRow ==
  Quiet => \A a \in tombs : HasRow(a)

\* reconciler.go: "a changed file never qualifies, so new content is never
\* routed unchecked".  A refused file is routed only if it is the one that ran.
NoUncheckedRoutes ==
  \A a \in Apps : IsRefused(routes[a]) => routes[a] = hist.tried[a]

\* api.md: endpoints are "written to the compose labels, routes reload
\* automatically".
RoutesFollowFiles ==
  Quiet => \A a \in Apps : Allowed(file[a]) => routes[a] = file[a]
=============================================================================
