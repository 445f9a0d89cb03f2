----------------------------- MODULE Reconciler -----------------------------
(***************************************************************************)
(* reconciler.Reconciler: Reconcile passes over the apps directory, the    *)
(* retry queued behind a running deploy, deployApp around the deployer,    *)
(* rollback, archive, removal, route refresh and status refresh.           *)
(*                                                                         *)
(* A pass is a loop over the apps; each iteration is one step, except that *)
(* the read and the write of ensureSharedNetwork, and the four steps of    *)
(* archiveApp, are steps of their own because other goroutines act in      *)
(* between.  The semaphore of Reconcile (3) never blocks with at most      *)
(* three apps and is left out.                                             *)
(***************************************************************************)
EXTENDS Deployer

CONSTANT Proxy   \* r.proxy # nil
ASSUME ProxyAssumption == Proxy \in BOOLEAN

VARIABLES
  ps,      \* [Scanners -> Pass]: Reconcile, RefreshRoutes and route refreshes
  routes   \* [Apps -> File]: the compose file each app is routed from

\* A thread's own scanner is the goroutine it leaves behind to refresh routes.
Scanners == Passes \cup Threads

PassPc == {"idle", "poll", "scan", "inject", "deploy", "archive", "teardown",
           "sidecar", "tomb", "mark", "hashes", "routes"}
PassKind == {"reconcile", "refresh", "routes"}

(***************************************************************************)
(* todo: apps the current loop has not visited;  cur, buf: the app being   *)
(* injected or archived and the bytes to write;  scan: the files as parsed *)
(* by scanAppsDir;  list: the rows as returned by ListApps.                *)
(***************************************************************************)
Pass == [pc : PassPc, kind : PassKind, todo : SUBSET Apps,
         cur : Apps \cup {Nobody}, buf : File,
         scan : [Apps -> File], list : [Apps -> Row \cup {NoRow}]]

IdlePass == [pc |-> "idle", kind |-> "reconcile", todo |-> {}, cur |-> Nobody,
             buf |-> NoFile, scan |-> [a \in Apps |-> NoFile],
             list |-> [a \in Apps |-> NoRow]]

ReconcilerType ==
  /\ ps \in [Scanners -> Pass]
  /\ routes \in [Apps -> File]

PassIdle(p) == ps[p].pc = "idle"
NewPass(kind) == [IdlePass EXCEPT !.pc = "scan", !.kind = kind, !.todo = Apps]

\* r.retrying[a]: set from reconcileAfterDeploy until its Reconcile returns.
Retrying(a) == ~PassIdle(a)

\* Mutant: a skipped app is not looked at again.
MutQueueRetry(q, a) == q

\* reconcileAfterDeploy on pass table q: queue the retry unless one is queued.
QueueRetry(q, a) ==
  IF Retrying(a) THEN q ELSE [q EXCEPT ![a].pc = "poll"]

\* History: a skip behind a restart, for which no retry is queued because one runs.
Starves(a) ==
  hist' = [hist EXCEPT !.starved =
    IF /\ Retrying(a) /\ ps[a].pc # "poll"
       /\ \E t \in Threads : Runs(t, a) /\ th[t].op = "restart"
    THEN @ \cup {a} ELSE @]

----------------------------------------------------------------------------
(* scanAppsDir, shared by Reconcile, RefreshRoutes and the route refresh.  *)

ScanApp(p, a) ==
  /\ ps[p].pc = "scan" /\ a \in ps[p].todo
  /\ IF NeedsNetwork(file[a])
     THEN ps' = [ps EXCEPT ![p].pc = "inject", ![p].cur = a,
                           ![p].buf = InjectSharedNetwork(file[a])]
     ELSE ps' = [ps EXCEPT ![p].todo = @ \ {a}, ![p].scan[a] = file[a]]
  /\ UNCHANGED <<trackerVars, storeVars, fileVars, docker, th, hist, routes>>

\* The write of ensureSharedNetwork, then the parse.  WriteFileAtomic fails
\* when the directory went away, and the app is not loaded.
InjectNetwork(p) ==
  LET a == ps[p].cur IN
  /\ ps[p].pc = "inject"
  /\ IF Present(file[a]) THEN WriteFile(a, ps[p].buf)
                         ELSE UNCHANGED <<fileVars, hist>>
  /\ ps' = [ps EXCEPT ![p].pc = "scan", ![p].todo = @ \ {a},
       ![p].scan[a] = IF Present(file[a]) THEN ps[p].buf ELSE NoFile,
       ![p].cur = Nobody, ![p].buf = NoFile]
  /\ UNCHANGED <<trackerVars, storeVars, docker, th, routes>>

\* The scan is over: ListApps for Reconcile, else on to hashes or routes.
ScanDone(p) ==
  /\ ps[p].pc = "scan" /\ ps[p].todo = {}
  /\ ps' = [ps EXCEPT ![p] =
       CASE @.kind = "reconcile" ->
              [@ EXCEPT !.pc = "deploy", !.todo = Apps, !.list = ListApps]
         [] @.kind = "refresh" -> [@ EXCEPT !.pc = "hashes", !.todo = Apps]
         [] @.kind = "routes" -> [@ EXCEPT !.pc = "routes"]]
  /\ UNCHANGED <<trackerVars, storeVars, fileVars, docker, th, hist, routes>>

----------------------------------------------------------------------------
(* Reconcile: the deploy loop.                                             *)

Desired(p, a) == Allowed(ps[p].scan[a])
Listing(p, a) == ps[p].list[a]

NeedsDeploy(p, a) ==
  /\ Desired(p, a)
  /\ Listing(p, a) # NoRow =>
       /\ Present(file[a])
       /\ hashFile(file[a]) # Listing(p, a).hash

\* A row from another layout is written back as it was listed, with the path
\* corrected.
NormalizePath(p, a) ==
  IF Desired(p, a) /\ Listing(p, a) # NoRow /\ Listing(p, a).path # "ok"
  THEN UpsertApp(a, Listing(p, a).hash, Listing(p, a).status, "ok")
  ELSE UNCHANGED storeVars

VisitUnchanged(p, a) ==
  /\ ~NeedsDeploy(p, a)
  /\ ps' = [ps EXCEPT ![p].todo = @ \ {a}]
  /\ UNCHANGED <<th, hist>>

VisitDeploying(p, a) ==
  /\ NeedsDeploy(p, a)
  /\ IsDeploying(a)
  /\ ps' = QueueRetry([ps EXCEPT ![p].todo = @ \ {a}], a)
  /\ Starves(a)
  /\ UNCHANGED th

VisitChanged(p, a) ==
  /\ NeedsDeploy(p, a)
  /\ ~IsDeploying(a)
  /\ Idle(<<p, a>>)
  /\ StartThread(<<p, a>>, "deploy", "track", a)
  /\ ps' = [ps EXCEPT ![p].todo = @ \ {a}]
  /\ UNCHANGED hist

DeployLoop(p, a) ==
  /\ ps[p].pc = "deploy" /\ a \in ps[p].todo
  /\ NormalizePath(p, a)
  /\ VisitUnchanged(p, a) \/ VisitDeploying(p, a) \/ VisitChanged(p, a)
  /\ UNCHANGED <<trackerVars, fileVars, docker, routes>>

\* wg.Wait: every deployApp this pass started has returned.
WaitDeploys(p) ==
  /\ ps[p].pc = "deploy" /\ ps[p].todo = {}
  /\ \A a \in Apps : Idle(<<p, a>>)
  /\ ps' = [ps EXCEPT ![p].pc = "archive", ![p].todo = Apps]
  /\ UNCHANGED <<trackerVars, storeVars, fileVars, docker, th, hist, routes>>

----------------------------------------------------------------------------
(* Reconcile: the archive loop.                                            *)

\* Mutant: archive without looking at the disk again.
MutMustArchive(p, a) ==
  /\ Listing(p, a) # NoRow
  /\ ~Desired(p, a)
  /\ ~IsRefused(ps[p].scan[a])

\* Listed, neither loaded nor refused by the scan, and still not on disk.
MustArchive(p, a) ==
  /\ Listing(p, a) # NoRow
  /\ ~Desired(p, a)
  /\ ~IsRefused(ps[p].scan[a])
  /\ ~Present(file[a])

ArchiveLoop(p, a) ==
  /\ ps[p].pc = "archive" /\ a \in ps[p].todo
  /\ ps' = [ps EXCEPT ![p].todo = @ \ {a},
       ![p].cur = IF MustArchive(p, a) THEN a ELSE Nobody,
       ![p].pc = IF MustArchive(p, a) THEN "teardown" ELSE "archive"]
  /\ UNCHANGED <<trackerVars, storeVars, fileVars, docker, th, hist, routes>>

\* archiveApp: a failed teardown is logged and does not stop it.
ArchiveTeardown(p) ==
  /\ ps[p].pc = "teardown"
  /\ TeardownOk(ps[p].cur) \/ ("down" \in Faults /\ UNCHANGED docker)
  /\ ps' = [ps EXCEPT ![p].pc = "sidecar"]
  /\ UNCHANGED <<trackerVars, storeVars, fileVars, th, hist, routes>>

\* The tombstone is built from the row: without one there is none ...
ArchiveSidecar(p) ==
  /\ ps[p].pc = "sidecar"
  /\ ps' = [ps EXCEPT ![p].pc = IF HasRow(ps[p].cur) THEN "tomb" ELSE "mark"]
  /\ UNCHANGED <<trackerVars, storeVars, fileVars, docker, th, hist, routes>>

\* ... and written to disk after that read.
ArchiveTombstone(p) ==
  /\ ps[p].pc = "tomb"
  /\ WriteTombstone(ps[p].cur)
  /\ ps' = [ps EXCEPT ![p].pc = "mark"]
  /\ UNCHANGED <<trackerVars, fileVars, docker, th, hist, routes>>

ArchiveMark(p) ==
  /\ ps[p].pc = "mark"
  /\ MarkAppArchived(ps[p].cur)
  /\ ps' = [ps EXCEPT ![p].pc = "archive", ![p].cur = Nobody]
  /\ UNCHANGED <<trackerVars, fileVars, docker, th, hist, routes>>

ArchiveDone(p) ==
  /\ ps[p].pc = "archive" /\ ps[p].todo = {}
  /\ ps' = [ps EXCEPT ![p].pc = "routes"]
  /\ UNCHANGED <<trackerVars, storeVars, fileVars, docker, th, hist, routes>>

----------------------------------------------------------------------------
(* RefreshRoutes' hash loop, and updateProxyRoutes which ends every pass.  *)

RefreshHash(p, a) ==
  /\ ps[p].pc = "hashes" /\ a \in ps[p].todo
  /\ IF /\ Desired(p, a) /\ Present(file[a]) /\ HasRow(a)
        /\ row[a].hash # hashFile(file[a])
     THEN UpsertApp(a, hashFile(file[a]), row[a].status, "ok")
     ELSE UNCHANGED storeVars
  /\ ps' = [ps EXCEPT ![p].todo = @ \ {a}]
  /\ UNCHANGED <<trackerVars, fileVars, docker, th, hist, routes>>

HashesDone(p) ==
  /\ ps[p].pc = "hashes" /\ ps[p].todo = {}
  /\ ps' = [ps EXCEPT ![p].pc = "routes"]
  /\ UNCHANGED <<trackerVars, storeVars, fileVars, docker, th, hist, routes>>

\* Mutant: "still running" read off the stored status.
MutRouteOnly(p, a) ==
  /\ IsRefused(ps[p].scan[a])
  /\ Listed(a)
  /\ row[a].status = "running"
  /\ row[a].hash = hashFile(file[a])

\* withRouteOnlyApps: a refused app that runs from the stored hash.
RouteOnly(p, a) ==
  /\ IsRefused(ps[p].scan[a])
  /\ Listed(a)
  /\ row[a].hash # NoHash
  /\ row[a].hash = hashFile(file[a])

\* updateProxyRoutes, and the end of the pass (for a retry, `delete(retrying)`).
SetRoutes(p) ==
  /\ ps[p].pc = "routes"
  /\ routes' = IF Proxy
               THEN [a \in Apps |-> IF Desired(p, a) \/ RouteOnly(p, a)
                                    THEN ps[p].scan[a] ELSE NoFile]
               ELSE routes
  /\ ps' = [ps EXCEPT ![p] = IdlePass]
  /\ UNCHANGED <<trackerVars, storeVars, fileVars, docker, th, hist>>

\* The retry polls IsDeploying.
RetryDue(a) == ~IsDeploying(a)

RetryStarts(a) ==
  /\ ps[a].pc = "poll"
  /\ RetryDue(a)
  /\ ps' = [ps EXCEPT ![a] = NewPass("reconcile")]
  /\ UNCHANGED <<trackerVars, storeVars, fileVars, docker, th, hist, routes>>

PassStep(p) ==
  \/ InjectNetwork(p) \/ ScanDone(p) \/ WaitDeploys(p) \/ ArchiveTeardown(p)
  \/ ArchiveSidecar(p) \/ ArchiveTombstone(p) \/ ArchiveMark(p) \/ ArchiveDone(p)
  \/ HashesDone(p) \/ SetRoutes(p)
  \/ \E a \in Apps : \/ ScanApp(p, a) \/ DeployLoop(p, a) \/ ArchiveLoop(p, a)
                     \/ RefreshHash(p, a) \/ (p = a /\ RetryStarts(a))

----------------------------------------------------------------------------
(* deployApp, RestartOne, PullOne and RollbackOne around the deployer.     *)

\* loadAppConfig, or the parse in DeployOne and RollbackOne.
LoadConfig(t) ==
  /\ th[t].pc = "parse"
  /\ IF Parses(file[th[t].app]) THEN Goto(t, "track") ELSE EndThread(t)
  /\ UNCHANGED <<trackerVars, storeVars, fileVars, docker, hist, ps, routes>>

\* TrackWithLog found another deploy: DeployResult{Skipped: true}.
Skipped(t) ==
  LET a == th[t].app IN
  /\ th[t].pc = "track"
  /\ Busy(a)
  /\ IF th[t].op = "rollback" THEN Goto(t, "restore") ELSE EndThread(t)
  /\ IF th[t].op = "deploy"
     THEN ps' = QueueRetry(ps, a) /\ Starves(a)
     ELSE UNCHANGED <<ps, hist>>
  /\ UNCHANGED <<trackerVars, storeVars, fileVars, docker, routes>>

\* The status a finished operation stores.  PullOne ignores "unstable".
StatusOf(t) ==
  CASE th[t].op = "stop" -> "stopped"
    [] th[t].op = "start" -> "running"
    [] th[t].res \in {"failed", "refused"} -> "error"
    [] th[t].res = "unstable" /\ th[t].op # "pull" -> "unstable"
    [] OTHER -> "running"

\* The hash to store is read from disk after the deploy, unless the deployer
\* refused the file.
ReadHash(t) ==
  LET a == th[t].app IN
  /\ th[t].pc = "hash"
  /\ th' = [th EXCEPT ![t].pc = "upsert",
       ![t].hash = CASE th[t].res # "refused" -> hashFile(file[a])
                     [] th[t].op = "deploy" -> StoredHash(a)
                     [] OTHER -> @]
  /\ UNCHANGED <<trackerVars, storeVars, fileVars, docker, hist, ps, routes>>

StoreApp(t) ==
  LET a == th[t].app IN
  /\ th[t].pc = "upsert"
  /\ UpsertApp(a, th[t].hash, StatusOf(t), "ok")
  /\ IF th[t].op = "deploy"
     THEN th' = [th EXCEPT ![t].pc = "version",
                           ![t].id = IF HasRow(a) THEN row[a].id ELSE nextId]
     ELSE EndThread(t)
  /\ UNCHANGED <<trackerVars, fileVars, docker, hist, ps, routes>>

\* CreateComposeVersion reads the file once more; then the route refresh
\* goroutine starts (at most one per thread is kept at a time).
StoreVersion(t) ==
  LET a == th[t].app IN
  /\ th[t].pc = "version"
  /\ IF th[t].res # "refused" /\ Present(file[a])
     THEN CreateComposeVersion(a, th[t].id, file[a])
     ELSE UNCHANGED storeVars
  /\ IF Proxy /\ th[t].res \in {"success", "unstable"}
     THEN PassIdle(t) /\ ps' = [ps EXCEPT ![t] = NewPass("routes")]
     ELSE UNCHANGED ps
  /\ EndThread(t)
  /\ UNCHANGED <<trackerVars, fileVars, docker, hist, routes>>

SetStatus(t) ==
  /\ th[t].pc = "setStatus"
  /\ UpdateAppStatus(th[t].app, StatusOf(t))
  /\ EndThread(t)
  /\ UNCHANGED <<trackerVars, fileVars, docker, hist, ps, routes>>

\* RollbackOne refuses while a deploy is in flight ...
RollbackCheck(t) ==
  /\ th[t].pc = "rbCheck"
  /\ IF IsDeploying(th[t].app) THEN EndThread(t) ELSE Goto(t, "rbWrite")
  /\ UNCHANGED <<trackerVars, storeVars, fileVars, docker, hist, ps, routes>>

\* ... then keeps the current file, writes the version (buf) and deploys it.
RollbackWrite(t) ==
  LET a == th[t].app IN
  /\ th[t].pc = "rbWrite"
  /\ IF ~Present(file[a])
     THEN EndThread(t) /\ UNCHANGED <<fileVars, hist>>
     ELSE /\ WriteFile(a, th[t].buf)
          /\ th' = [th EXCEPT ![t].pc = "parse", ![t].buf = file[a]]
  /\ UNCHANGED <<trackerVars, storeVars, docker, ps, routes>>

\* A skipped rollback puts the kept file back.
RollbackRestore(t) ==
  LET a == th[t].app IN
  /\ th[t].pc = "restore"
  /\ IF Present(file[a]) THEN WriteFile(a, th[t].buf)
                         ELSE UNCHANGED <<fileVars, hist>>
  /\ EndThread(t)
  /\ UNCHANGED <<trackerVars, storeVars, docker, ps, routes>>

----------------------------------------------------------------------------
(* removeApp inside handleRemoveApp, handlePurge, and RefreshStatuses.     *)

RemoveTeardown(t) ==
  /\ th[t].pc = "rmDown"
  /\ \/ TeardownOk(th[t].app) /\ Goto(t, "rmPurge")
     \/ "down" \in Faults /\ EndThread(t) /\ UNCHANGED docker
  /\ UNCHANGED <<trackerVars, storeVars, fileVars, hist, ps, routes>>

RemovePurge(t) ==
  /\ th[t].pc = "rmPurge"
  /\ IF HasRow(th[t].app) THEN PurgeApp(th[t].app) /\ Goto(t, "rmFiles")
                          ELSE EndThread(t) /\ UNCHANGED storeVars
  /\ UNCHANGED <<trackerVars, fileVars, docker, hist, ps, routes>>

RemoveFiles(t) ==
  /\ th[t].pc = "rmFiles"
  /\ DeleteTombstone(th[t].app)
  /\ WriteFile(th[t].app, NoFile)
  /\ Goto(t, "rmRow")
  /\ UNCHANGED <<trackerVars, docker, ps, routes>>

RemoveRow(t) ==
  /\ th[t].pc = "rmRow"
  /\ PurgeApp(th[t].app)
  /\ EndThread(t)
  /\ UNCHANGED <<trackerVars, fileVars, docker, hist, ps, routes>>

PurgeTombstone(t) ==
  /\ th[t].pc = "pgTomb"
  /\ DeleteTombstone(th[t].app)
  /\ EndThread(t)
  /\ UNCHANGED <<trackerVars, fileVars, docker, hist, ps, routes>>

\* RefreshStatuses looks at one listed app; res is the status it listed.
\* `compose ps` lists no container of a stopped or absent project.
StatusQuery(t) ==
  LET a == th[t].app
      bad == docker[a].st = "bad"
      flip == CASE bad /\ th[t].res = "running" -> "unstable"
                [] ~bad /\ th[t].res = "unstable" -> "running"
                [] OTHER -> th[t].res
  IN
  /\ th[t].pc = "rsQuery"
  /\ IF IsDeploying(a) \/ docker[a].st \in {"none", "down"} \/ flip = th[t].res
     THEN EndThread(t)
     ELSE th' = [th EXCEPT ![t].pc = "rsUpdate", ![t].res = flip]
  /\ UNCHANGED <<trackerVars, storeVars, fileVars, docker, hist, ps, routes>>

StatusUpdate(t) ==
  /\ th[t].pc = "rsUpdate"
  /\ UpdateAppStatus(th[t].app, th[t].res)
  /\ EndThread(t)
  /\ UNCHANGED <<trackerVars, fileVars, docker, hist, ps, routes>>

ReconcilerStep(t) ==
  \/ LoadConfig(t) \/ Skipped(t) \/ ReadHash(t) \/ StoreApp(t)
  \/ StoreVersion(t) \/ SetStatus(t) \/ RollbackCheck(t) \/ RollbackWrite(t)
  \/ RollbackRestore(t)
  \/ RemoveTeardown(t) \/ RemovePurge(t) \/ RemoveFiles(t) \/ RemoveRow(t)
  \/ PurgeTombstone(t) \/ StatusQuery(t) \/ StatusUpdate(t)
=============================================================================
