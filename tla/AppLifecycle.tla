---------------------------- MODULE AppLifecycle ----------------------------
(***************************************************************************)
(* SimpleDeploy's app lifecycle: API handlers, the file watcher, the world *)
(* outside (operators editing files, containers changing health, the       *)
(* process dying) around the reconciler, the deployer and the store.       *)
(***************************************************************************)
EXTENDS Reconciler

CONSTANTS
  Ops,         \* requests and outside events this instance explores
  MaxOps,      \* bound: how many of them happen
  EditNet,     \* whether outside edits carry the shared network
  InitStates,  \* how apps may start: subset of StartStates
  InitIds      \* ids of the files they start with

StartStates == {"empty", "new", "deployed", "imported"}

ASSUME LifecycleAssumption ==
  /\ MaxOps \in Nat
  /\ EditNet \subseteq BOOLEAN
  /\ InitStates \subseteq StartStates
  /\ InitIds \subseteq Ids

VARIABLE spent

vars == <<trackerVars, storeVars, fileVars, docker, th, hist, ps, routes, spent>>

TypeOK ==
  /\ TrackerType
  /\ StoreType
  /\ DeployerType
  /\ ReconcilerType
  /\ spent \in 0..MaxOps

(***************************************************************************)
(* The server has just booted.  An app has no directory, a directory the   *)
(* reconciler has not seen, or is running from its file (perhaps one that  *)
(* today's rules refuse); "imported" rows point to another layout.         *)
(***************************************************************************)
Init ==
  \E st \in [Apps -> InitStates], c \in [Apps -> InitIds] :
    LET F(a) == [id |-> c[a], net |-> st[a] # "new"]
        Ran(a) == st[a] \in {"deployed", "imported"}
    IN
    /\ TrackerInit
    /\ file = [a \in Apps |-> IF st[a] = "empty" THEN NoFile ELSE F(a)]
    /\ row = [a \in Apps |-> IF Ran(a)
                THEN [id |-> 1, hash |-> hashFile(F(a)), status |-> "running",
                      archived |-> FALSE,
                      path |-> IF st[a] = "deployed" THEN "ok" ELSE "old"]
                ELSE NoRow]
    /\ docker = [a \in Apps |-> IF Ran(a)
                   THEN [img |-> F(a), st |-> "up"]
                   ELSE [img |-> NoFile, st |-> "none"]]
    /\ versions = [a \in Apps |-> IF Ran(a) THEN <<F(a)>> ELSE <<>>]
    /\ hist = [gone |-> {a \in Apps : st[a] = "empty"}, raced |-> {},
               reverted |-> {}, starved |-> {}, relabelled |-> {},
               tried |-> [a \in Apps |-> IF Ran(a) THEN F(a) ELSE NoFile]]
    /\ nextId = 2 /\ tombs = {} /\ dirty = TRUE /\ spent = 0
    /\ th = [t \in Threads |-> IdleThread]
    /\ ps = [p \in Scanners |-> IdlePass]
    /\ routes = [a \in Apps |-> NoFile]

Request(op) == op \in Ops /\ spent < MaxOps /\ spent' = spent + 1

----------------------------------------------------------------------------
(* API handlers.  Each starts a job; its remaining steps are the thread's. *)

\* handleDeploy: an existing app needs Force; the file is validated and gets
\* the shared network before it is written.
ApiDeploy(j, a, id) ==
  /\ Request("deploy") \/ (~HasRow(a) /\ Request("create"))
  /\ Idle(j)
  /\ Allowed([id |-> id, net |-> TRUE])
  /\ WriteFile(a, [id |-> id, net |-> TRUE])
  /\ StartThread(j, "deploy", "parse", a)
  /\ UNCHANGED <<trackerVars, storeVars, docker, ps, routes>>

\* handleRestart and handlePull refuse while a deploy runs.
ApiRestart(j, a) ==
  /\ Request("restart")
  /\ Idle(j) /\ ~IsDeploying(a)
  /\ StartThread(j, "restart", "parse", a)
  /\ UNCHANGED <<trackerVars, storeVars, fileVars, docker, hist, ps, routes>>

ApiPull(j, a) ==
  /\ Request("pull")
  /\ Idle(j) /\ ~IsDeploying(a)
  /\ StartThread(j, "pull", "parse", a)
  /\ UNCHANGED <<trackerVars, storeVars, fileVars, docker, hist, ps, routes>>

\* CancelOne: parse the file, then cancel the flight.
ApiCancel(j, a) ==
  /\ Request("cancel")
  /\ Idle(j) /\ Parses(file[a])
  /\ CancelFlight(a)
  /\ StartThread(j, "cancel", "cCheck", a)
  /\ UNCHANGED <<storeVars, fileVars, docker, hist, ps, routes>>

ApiStop(j, a) ==
  /\ Request("stop")
  /\ Idle(j)
  /\ StartThread(j, "stop", "stop", a)
  /\ UNCHANGED <<trackerVars, storeVars, fileVars, docker, hist, ps, routes>>

ApiStart(j, a) ==
  /\ Request("start")
  /\ Idle(j)
  /\ StartThread(j, "start", "start", a)
  /\ UNCHANGED <<trackerVars, storeVars, fileVars, docker, hist, ps, routes>>

ApiScale(j, a) ==
  /\ Request("scale")
  /\ Idle(j) /\ Parses(file[a])
  /\ StartThread(j, "scale", "scale", a)
  /\ UNCHANGED <<trackerVars, storeVars, fileVars, docker, hist, ps, routes>>

\* RollbackOne's checks before it touches the file.
MayRollBack(a, v) == HasRow(a) /\ Allowed(v)

ApiRollback(j, a, i) ==
  /\ Request("rollback")
  /\ Idle(j)
  /\ i \in 1..Len(versions[a])
  /\ MayRollBack(a, versions[a][i])
  /\ th' = [th EXCEPT ![j] = [IdleThread EXCEPT !.op = "rollback",
              !.pc = "rbCheck", !.app = a, !.buf = versions[a][i],
              !.hash = StoredHash(a)]]
  /\ UNCHANGED <<trackerVars, storeVars, fileVars, docker, hist, ps, routes>>

\* handleRemoveApp: an archived app is refused (purge it instead); without a
\* row only the directory goes.
ApiRemove(j, a) ==
  /\ Request("remove")
  /\ Idle(j)
  /\ \/ /\ Listed(a)
        /\ StartThread(j, "remove", "rmDown", a)
        /\ UNCHANGED <<storeVars, fileVars, hist>>
     \/ /\ ~HasRow(a) /\ Present(file[a])
        /\ DeleteTombstone(a)
        /\ WriteFile(a, NoFile)
        /\ UNCHANGED th
  /\ UNCHANGED <<trackerVars, docker, ps, routes>>

\* handlePurge: archived apps only.
ApiPurge(j, a) ==
  /\ Request("purge")
  /\ Idle(j)
  /\ HasRow(a) /\ row[a].archived
  /\ PurgeApp(a)
  /\ StartThread(j, "purge", "pgTomb", a)
  /\ UNCHANGED <<trackerVars, fileVars, docker, hist, ps, routes>>

\* Endpoint and access edits rewrite labels in place, then RefreshRoutes runs
\* in a goroutine of its own.
ApiRelabel(j, a, id) ==
  /\ Request("relabel")
  /\ PassIdle(j)
  /\ HasRow(a) /\ Parses(file[a])
  /\ LET f == [file[a] EXCEPT !.id = id] IN
       /\ Allowed(f)
       /\ file' = [file EXCEPT ![a] = f]
       /\ hist' = [hist EXCEPT !.relabelled = @ \cup {a}]
  /\ dirty' = TRUE
  /\ ps' = [ps EXCEPT ![j] = NewPass("refresh")]
  /\ UNCHANGED <<trackerVars, storeVars, docker, th, routes>>

\* RefreshStatuses (every 30 s) lists the apps and picks running/unstable.
RefreshStatuses(j, a) ==
  /\ Request("statuses")
  /\ Idle(j)
  /\ Listed(a) /\ row[a].status \in {"running", "unstable"}
  /\ th' = [th EXCEPT ![j] = [IdleThread EXCEPT !.op = "statuses",
              !.pc = "rsQuery", !.app = a, !.res = row[a].status]]
  /\ UNCHANGED <<trackerVars, storeVars, fileVars, docker, hist, ps, routes>>

----------------------------------------------------------------------------
(* The world outside.                                                      *)

\* git sync, SSH or a restore writes a compose file.
Edit(a, id, net) ==
  /\ Request("edit")
  /\ file[a] # [id |-> id, net |-> net]
  /\ WriteFile(a, [id |-> id, net |-> net])
  /\ UNCHANGED <<trackerVars, storeVars, docker, th, ps, routes>>

DeleteDir(a) ==
  /\ Request("rmdir")
  /\ Present(file[a])
  /\ WriteFile(a, NoFile)
  /\ UNCHANGED <<trackerVars, storeVars, docker, th, ps, routes>>

\* A container starts or stops failing its health check.
HealthFlip(a) ==
  /\ Request("health")
  /\ docker[a].st \in {"up", "bad"}
  /\ docker' = [docker EXCEPT ![a].st = IF @ = "up" THEN "bad" ELSE "up"]
  /\ UNCHANGED <<trackerVars, storeVars, fileVars, th, hist, ps, routes>>

\* The retry stops waiting after retryMaxWait.
RetryTimesOut(a) ==
  /\ Request("retryTimeout")
  /\ ps[a].pc = "poll" /\ IsDeploying(a)
  /\ ps' = [ps EXCEPT ![a] = NewPass("reconcile")]
  /\ UNCHANGED <<trackerVars, storeVars, fileVars, docker, th, hist, routes>>

\* What a killed `compose up` can leave behind.
Leftover(a) ==
  {docker[a]} \cup
  {[img |-> th[t].seen, st |-> "bad"] :
     t \in {u \in Threads : /\ th[u].app = a
                            /\ th[u].pc \in {"upEnd", "cUpEnd"}
                            /\ Parses(th[u].seen)}}

\* The process dies and boots: memory is lost, ReconcileDBFromFS marks every
\* app with a tombstone archived (a row it must create is stopped and has no
\* hash), and Watch runs an initial Reconcile.  Row ids are only ever compared
\* within an app, so one fresh id serves every row created here.
Crash ==
  /\ Request("crash")
  /\ docker' \in {d \in [Apps -> UNION {Leftover(a) : a \in Apps}] :
                    \A a \in Apps : d[a] \in Leftover(a)}
  /\ row' = [a \in Apps |->
       CASE a \notin tombs -> row[a]
         [] a \in tombs /\ HasRow(a) -> [row[a] EXCEPT !.archived = TRUE]
         [] OTHER -> [id |-> nextId, hash |-> NoHash, status |-> "stopped",
                      archived |-> TRUE, path |-> "old"]]
  /\ nextId' = nextId + 1
  /\ flights' = [a \in Apps |-> Nobody]
  /\ logs' = [a \in Apps |-> Nobody]
  /\ cancelled' = {}
  /\ th' = [t \in Threads |-> IdleThread]
  /\ ps' = [p \in Scanners |-> IdlePass]
  /\ routes' = [a \in Apps |-> NoFile]
  /\ dirty' = TRUE
  /\ UNCHANGED <<versions, tombs, file, hist>>

----------------------------------------------------------------------------
(* The watcher: a debounced event starts a Reconcile pass.                 *)
WatcherFires(w) ==
  /\ dirty
  /\ PassIdle(w)
  /\ dirty' = FALSE
  /\ ps' = [ps EXCEPT ![w] = NewPass("reconcile")]
  /\ UNCHANGED <<trackerVars, storeVars, file, docker, th, hist, routes, spent>>

ThreadStep(t) ==
  \/ (TrackedStep(t) \/ UntrackedStep(t)) /\ UNCHANGED <<ps, routes, spent>>
  \/ ReconcilerStep(t) /\ UNCHANGED spent

ScannerStep(p) == PassStep(p) /\ UNCHANGED spent

ApiRequest ==
  \E j \in Jobs, a \in Apps :
    \/ ApiRestart(j, a) \/ ApiPull(j, a) \/ ApiCancel(j, a) \/ ApiStop(j, a)
    \/ ApiStart(j, a) \/ ApiScale(j, a) \/ ApiRemove(j, a) \/ ApiPurge(j, a)
    \/ RefreshStatuses(j, a)
    \/ \E id \in Ids : ApiDeploy(j, a, id) \/ ApiRelabel(j, a, id)
    \/ \E i \in 1..KeepVersions : ApiRollback(j, a, i)

Outside ==
  \/ \E a \in Apps : \/ DeleteDir(a) \/ HealthFlip(a) \/ RetryTimesOut(a)
                     \/ \E id \in Ids, net \in EditNet : Edit(a, id, net)
  \/ Crash

\* What the server does by itself.
System ==
  \/ \E w \in Watchers : WatcherFires(w)
  \/ \E t \in Threads : ThreadStep(t)
  \/ \E p \in Scanners : ScannerStep(p)

Next == ApiRequest \/ Outside \/ System

Spec == Init /\ [][Next]_vars

(***************************************************************************)
(* The Go scheduler runs some goroutine that can run, docker compose       *)
(* commands return and timers fire: the server does not stand still while  *)
(* it has a step to take.  No single goroutine is promised more, and       *)
(* requests, edits, health changes and crashes are never required.         *)
(***************************************************************************)
FairSpec == Spec /\ WF_vars(System)
=============================================================================
