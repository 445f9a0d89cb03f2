--------------------------- MODULE AppTypeProofs ---------------------------
(***************************************************************************)
(* Type correctness of the app lifecycle, for every number of apps, passes,*)
(* jobs and requests and every choice of the other constants.              *)
(***************************************************************************)
EXTENDS AppProperties, TLAPS

----------------------------------------------------------------------------
(* Types: what the operations of each component preserve.                  *)

LEMMA IdleThreadType == IdleThread \in Thread
BY DEF IdleThread, Thread, PlainPc, OpName, Result, File, Hash, NoHash

LEMMA IdlePassType == IdlePass \in Pass
BY DEF IdlePass, Pass, PassPc, PassKind, File

\* hashFile returns a hash: what deployApp stores is well-typed.
LEMMA HashType == \A f \in File : hashFile(f) \in Hash
BY DEF hashFile, Hash, File, Present, NoHash

\* UpsertApp keeps the tables well-typed (store/apps.go).
LEMMA UpsertType ==
  ASSUME StoreType, NEW a \in Apps, NEW h \in Hash, NEW s \in Status,
         NEW p \in {"ok", "old"}, UpsertApp(a, h, s, p)
  PROVE  StoreType'
<1>1. CASE HasRow(a)
  <2>1. row[a] \in Row
    BY <1>1 DEF HasRow, StoreType
  <2>2. row' = [row EXCEPT ![a].hash = h, ![a].status = s, ![a].path = p]
        /\ UNCHANGED <<nextId, versions, tombs>>
    BY <1>1 DEF UpsertApp
  <2>3. row' \in [Apps -> Row \cup {NoRow}]
    BY <2>1, <2>2 DEF StoreType, Row
  <2> QED BY <2>2, <2>3 DEF StoreType
<1>2. CASE ~HasRow(a)
  <2> DEFINE r == [id |-> nextId, hash |-> h, status |-> s,
                   archived |-> FALSE, path |-> p]
  <2>1. row' = [row EXCEPT ![a] = r] /\ nextId' = nextId + 1
        /\ UNCHANGED <<versions, tombs>>
    BY <1>2 DEF UpsertApp
  <2>2. r \in Row /\ nextId + 1 \in Nat
    BY DEF StoreType, Row
  <2> QED BY <2>1, <2>2 DEF StoreType
<1> QED BY <1>1, <1>2

LEMMA StatusUpdateType ==
  ASSUME StoreType, NEW a \in Apps, NEW s \in Status, UpdateAppStatus(a, s)
  PROVE  StoreType'
BY DEF UpdateAppStatus, StoreType, Row, HasRow

LEMMA MarkType ==
  ASSUME StoreType, NEW a \in Apps, MarkAppArchived(a)
  PROVE  StoreType'
BY DEF MarkAppArchived, StoreType, Row, HasRow

LEMMA PurgeType ==
  ASSUME StoreType, NEW a \in Apps, PurgeApp(a)
  PROVE  StoreType'
BY KeepVersionsAssumption DEF PurgeApp, StoreType

\* The prune of CreateComposeVersion keeps the history within its bound.
LEMMA VersionType ==
  ASSUME StoreType, NEW a \in Apps, NEW id, NEW c \in Content,
         CreateComposeVersion(a, id, c)
  PROVE  StoreType'
<1> DEFINE s == Append(versions[a], c)
<1>1. /\ versions[a] \in Seq(Content) /\ Len(versions[a]) <= KeepVersions
      /\ Len(versions[a]) \in Nat
  BY DEF StoreType
<1>2. s \in Seq(Content) /\ Len(s) = Len(versions[a]) + 1
  BY <1>1
<1>3. Newest(s) \in Seq(Content) /\ Len(Newest(s)) <= KeepVersions
  <2>1. CASE Len(s) > KeepVersions
    <3>1. s # << >> BY <2>1, <1>2, <1>1, KeepVersionsAssumption
    <3>2. Tail(s) \in Seq(Content) /\ Len(Tail(s)) = Len(s) - 1
      BY <3>1, <1>2
    <3> QED BY <3>2, <2>1, <1>1, <1>2, KeepVersionsAssumption DEF Newest
  <2>2. CASE ~(Len(s) > KeepVersions)
    BY <2>2, <1>1, <1>2, KeepVersionsAssumption DEF Newest
  <2> QED BY <2>1, <2>2
<1> QED
  BY <1>3 DEF CreateComposeVersion, StoreType

LEMMA TombstoneType ==
  ASSUME StoreType, NEW a \in Apps, WriteTombstone(a) \/ DeleteTombstone(a)
  PROVE  StoreType'
BY DEF WriteTombstone, DeleteTombstone, StoreType

----------------------------------------------------------------------------
(* The inductive form of TypeOK: a goroutine that runs works on an app, the *)
(* status refresh holds a status, and a pass that injects or archives knows *)
(* for which app.  Without it file[th[t].app] could be outside file.        *)

GoodThread ==
  {r \in Thread : /\ r.pc # "idle" => r.app \in Apps
                  /\ r.pc \in {"rsQuery", "rsUpdate"} => r.res \in Status}

CurPc == {"inject", "teardown", "sidecar", "tomb", "mark"}
GoodPass == {r \in Pass : r.pc \in CurPc => r.cur \in Apps}

FilesOK == file \in [Apps -> File] /\ dirty \in BOOLEAN /\ hist \in History
DockerOK == docker \in [Apps -> Project]
ThreadsOK == th \in [Threads -> GoodThread]
PassesOK == ps \in [Scanners -> GoodPass]
RoutesOK == routes \in [Apps -> File]
SpentOK == spent \in 0..MaxOps

Typed ==
  /\ TrackerType /\ StoreType /\ FilesOK /\ DockerOK
  /\ ThreadsOK /\ PassesOK /\ RoutesOK /\ SpentOK

LEMMA TypedImpliesTypeOK == Typed => TypeOK
BY DEF Typed, TypeOK, DeployerType, ReconcilerType, FilesOK, DockerOK,
       ThreadsOK, PassesOK, RoutesOK, SpentOK, GoodThread, GoodPass

\* Parts that a step leaves alone keep their type.
LEMMA Keep ==
  /\ TrackerType /\ UNCHANGED trackerVars => TrackerType'
  /\ StoreType /\ UNCHANGED storeVars => StoreType'
  /\ FilesOK /\ UNCHANGED <<fileVars, hist>> => FilesOK'
  /\ DockerOK /\ UNCHANGED docker => DockerOK'
  /\ ThreadsOK /\ UNCHANGED th => ThreadsOK'
  /\ PassesOK /\ UNCHANGED ps => PassesOK'
  /\ RoutesOK /\ UNCHANGED routes => RoutesOK'
  /\ SpentOK /\ UNCHANGED spent => SpentOK'
<1>1. TrackerType /\ UNCHANGED trackerVars => TrackerType'
  BY DEF TrackerType, trackerVars
<1>2. StoreType /\ UNCHANGED storeVars => StoreType'
  BY DEF StoreType, storeVars
<1>3. FilesOK /\ UNCHANGED <<fileVars, hist>> => FilesOK'
  BY DEF FilesOK, fileVars
<1> QED
  BY <1>1, <1>2, <1>3 DEF DockerOK, ThreadsOK, PassesOK, RoutesOK, SpentOK

\* A write to an app directory keeps files and history well-typed.
LEMMA WriteFileType ==
  ASSUME FilesOK, NEW a \in Apps, NEW f \in File, WriteFile(a, f)
  PROVE  FilesOK'
BY DEF FilesOK, WriteFile, History

\* The updates of one goroutine.
LEMMA EndThreadType ==
  ASSUME ThreadsOK, NEW t \in Threads, EndThread(t)
  PROVE  ThreadsOK'
BY IdleThreadType DEF ThreadsOK, EndThread, GoodThread, IdleThread

LEMMA StartThreadType ==
  ASSUME ThreadsOK, NEW t, NEW op \in OpName, NEW a \in Apps,
         NEW pc \in (TrackedPc \cup PlainPc) \ {"rsQuery", "rsUpdate"},
         StartThread(t, op, pc, a)
  PROVE  ThreadsOK'
<1> DEFINE r == [IdleThread EXCEPT !.op = op, !.pc = pc, !.app = a]
<1>1. r \in GoodThread
  BY IdleThreadType DEF GoodThread, IdleThread, Thread
<1> QED BY <1>1 DEF ThreadsOK, StartThread

LEMMA GotoType ==
  ASSUME ThreadsOK, NEW t \in Threads, th[t].pc # "idle", 
         NEW pc \in (TrackedPc \cup PlainPc) \ {"rsQuery", "rsUpdate"},
         Goto(t, pc)
  PROVE  ThreadsOK'
<1>1. [th[t] EXCEPT !.pc = pc] \in GoodThread
  BY DEF ThreadsOK, GoodThread, Thread
<1> QED BY <1>1 DEF ThreadsOK, Goto

LEMMA ReturnType ==
  ASSUME ThreadsOK, TrackerType, NEW t \in Threads, th[t].pc # "idle",
         NEW res \in Result, Return(t, res)
  PROVE  ThreadsOK' /\ TrackerType'
<1>1. Continue(t) \in PlainPc \ {"idle", "rsQuery", "rsUpdate"}
  BY DEF Continue, PlainPc
<1>2. [th[t] EXCEPT !.pc = Continue(t), !.res = res] \in GoodThread
  BY <1>1 DEF ThreadsOK, GoodThread, Thread
<1>3. th[t].app \in Apps
  BY DEF ThreadsOK, GoodThread
<1> QED
  BY <1>2, <1>3 DEF ThreadsOK, Return, DoneWithLogStatus, TrackerType

LEMMA TrackType ==
  ASSUME TrackerType, NEW t \in Threads, NEW a \in Apps,
         TrackWithLog(a, t) \/ CancelFlight(a)
  PROVE  TrackerType'
BY DEF TrackerType, TrackWithLog, CancelFlight, IsDeploying

----------------------------------------------------------------------------
(* Each step of the deployer keeps Typed.                                  *)

LEMMA ProjectType ==
  \A f \in File : /\ \A h \in Health : [img |-> f, st |-> h] \in Project
                  /\ [img |-> f, st |-> "bad"] \in Project
                  /\ [img |-> f, st |-> "none"] \in Project
BY HealthAssumption DEF Project

LEMMA PartialUpType ==
  ASSUME DockerOK, NEW a \in Apps, NEW f \in File, PartialUp(a, f)
  PROVE  DockerOK'
BY ProjectType DEF DockerOK, PartialUp

LEMMA TriedType ==
  ASSUME FilesOK, NEW t \in Threads, th[t].app \in Apps, th[t].seen \in File,
         Tried(t), UNCHANGED fileVars
  PROVE  FilesOK'
BY DEF FilesOK, Tried, History, fileVars

LEMMA StarvesType ==
  ASSUME FilesOK, NEW a \in Apps, Starves(a), UNCHANGED fileVars
  PROVE  FilesOK'
BY DEF FilesOK, Starves, History, fileVars

\* A running goroutine's fields, as the handlers use them.
LEMMA ThreadFields ==
  ASSUME ThreadsOK, NEW t \in Threads
  PROVE  /\ th[t].pc # "idle" => th[t].app \in Apps
         /\ th[t].seen \in File /\ th[t].buf \in File /\ th[t].hash \in Hash
         /\ th[t].id \in Nat /\ th[t].res \in Result
         /\ th[t].pc \in {"rsQuery", "rsUpdate"} => th[t].res \in Status
BY DEF ThreadsOK, GoodThread, Thread

LEMMA TrackedStepType ==
  ASSUME Typed, NEW t \in Threads, TrackedStep(t), UNCHANGED <<ps, routes, spent>>
  PROVE  Typed'
<1> DEFINE a == th[t].app
<1>0. PassesOK' /\ RoutesOK' /\ SpentOK'
  BY Keep DEF Typed
<1>a. th[t].pc # "idle" => a \in Apps /\ file[a] \in File
  BY ThreadFields DEF Typed, FilesOK
<1>1. CASE Track(t)
  <2>1. a \in Apps BY <1>1, <1>a DEF Track
  <2>2. TrackerType' BY <1>1, <2>1, TrackType DEF Track, Typed
  <2>3. ThreadsOK'
    BY <1>1, GotoType DEF Track, Typed, TrackedPc
  <2> QED BY <1>0, <1>1, <2>2, <2>3, Keep DEF Track, Typed
<1>2. CASE CheckOk(t)
  <2>1. ThreadsOK' BY <1>2, GotoType DEF CheckOk, Typed, TrackedPc
  <2> QED BY <1>0, <1>2, <2>1, Keep DEF CheckOk, Typed
<1>3. CASE Refuse(t)
  <2>1. ThreadsOK' /\ TrackerType'
    BY <1>3, ReturnType DEF Refuse, Typed, Result
  <2> QED BY <1>0, <1>3, <2>1, Keep DEF Refuse, Typed
<1>4. CASE PullImages(t)
  <2>1. ThreadsOK' BY <1>4, GotoType DEF PullImages, Typed, TrackedPc
  <2> QED BY <1>0, <1>4, <2>1, Keep DEF PullImages, Typed
<1>5. CASE PullFails(t)
  <2>1. ThreadsOK' /\ TrackerType'
    BY <1>5, ReturnType DEF PullFails, Typed, Result
  <2> QED BY <1>0, <1>5, <2>1, Keep DEF PullFails, Typed
<1>6. CASE UpRead(t)
  <2> DEFINE pc == IF th[t].pc = "up" THEN "upEnd" ELSE "cUpEnd"
  <2>1. [th[t] EXCEPT !.seen = file[a], !.pc = pc] \in GoodThread
    BY <1>6, <1>a DEF UpRead, Typed, ThreadsOK, GoodThread, Thread, TrackedPc,
                      PlainPc
  <2>2. ThreadsOK' BY <1>6, <2>1 DEF UpRead, Typed, ThreadsOK
  <2> QED BY <1>0, <1>6, <2>2, Keep DEF UpRead, Typed
<1>7. CASE UpOk(t)
  <2>1. a \in Apps /\ th[t].seen \in File
    BY <1>7, <1>a, ThreadFields DEF UpOk, Typed
  <2>2. ThreadsOK' BY <1>7, GotoType DEF UpOk, Typed, TrackedPc
  <2>3. FilesOK' BY <1>7, <2>1, TriedType DEF UpOk, Typed
  <2>4. DockerOK' BY <1>7, <2>1, ProjectType DEF UpOk, Typed, DockerOK
  <2> QED BY <1>0, <1>7, <2>2, <2>3, <2>4, Keep DEF UpOk, Typed
<1>8. CASE UpFails(t)
  <2>1. a \in Apps /\ th[t].seen \in File
    BY <1>8, <1>a, ThreadFields DEF UpFails, Typed
  <2>2. ThreadsOK' /\ TrackerType'
    BY <1>8, ReturnType DEF UpFails, Typed, Result
  <2>3. FilesOK' BY <1>8, <2>1, TriedType DEF UpFails, Typed
  <2>4. DockerOK' BY <1>8, <2>1, PartialUpType DEF UpFails, Typed
  <2> QED BY <1>0, <1>8, <2>2, <2>3, <2>4, Keep DEF UpFails, Typed
<1>9. CASE RestartOk(t)
  <2>1. a \in Apps BY <1>9, <1>a DEF RestartOk
  <2>2. ThreadsOK' BY <1>9, GotoType DEF RestartOk, Typed, TrackedPc
  <2>3. DockerOK'
    BY <1>9, <2>1, HealthAssumption DEF RestartOk, Typed, DockerOK, Project
  <2> QED BY <1>0, <1>9, <2>2, <2>3, Keep DEF RestartOk, Typed
<1>10. CASE RestartFails(t)
  <2>1. ThreadsOK' /\ TrackerType'
    BY <1>10, ReturnType DEF RestartFails, Typed, Result
  <2> QED BY <1>0, <1>10, <2>1, Keep DEF RestartFails, Typed
<1>11. CASE Stabilize(t)
  <2>1. ThreadsOK' /\ TrackerType'
    BY <1>11, ReturnType DEF Stabilize, Typed, Result
  <2> QED BY <1>0, <1>11, <2>1, Keep DEF Stabilize, Typed
<1> QED
  BY <1>1, <1>2, <1>3, <1>4, <1>5, <1>6, <1>7, <1>8, <1>9, <1>10, <1>11
  DEF TrackedStep

LEMMA UntrackedStepType ==
  ASSUME Typed, NEW t \in Threads, UntrackedStep(t),
         UNCHANGED <<ps, routes, spent>>
  PROVE  Typed'
<1> DEFINE a == th[t].app
<1>0. PassesOK' /\ RoutesOK' /\ SpentOK'
  BY Keep DEF Typed
<1>a. th[t].pc # "idle" => a \in Apps /\ file[a] \in File
  BY ThreadFields DEF Typed, FilesOK
<1>1. CASE CancelCheck(t)
  <2>1. ThreadsOK'
    BY <1>1, GotoType, EndThreadType DEF CancelCheck, Typed, PlainPc
  <2> QED BY <1>0, <1>1, <2>1, Keep DEF CancelCheck, Typed
<1>2. CASE CancelUpEnd(t)
  <2>1. a \in Apps /\ th[t].seen \in File
    BY <1>2, <1>a, ThreadFields DEF CancelUpEnd, Typed
  <2>2. ThreadsOK' BY <1>2, EndThreadType DEF CancelUpEnd, Typed
  <2>3. FilesOK' BY <1>2, <2>1, TriedType DEF CancelUpEnd, Typed
  <2>4. DockerOK'
    BY <1>2, <2>1, ProjectType, PartialUpType DEF CancelUpEnd, Typed, DockerOK
  <2> QED BY <1>0, <1>2, <2>2, <2>3, <2>4, Keep DEF CancelUpEnd, Typed
<1>3. CASE Stop(t)
  <2>1. a \in Apps BY <1>3, <1>a DEF Stop
  <2>2. ThreadsOK'
    BY <1>3, GotoType, EndThreadType DEF Stop, Typed, PlainPc
  <2>3. DockerOK' BY <1>3, <2>1 DEF Stop, Typed, DockerOK, Project
  <2> QED BY <1>0, <1>3, <2>2, <2>3, Keep DEF Stop, Typed
<1>4. CASE Start(t)
  <2>1. a \in Apps BY <1>4, <1>a DEF Start
  <2>2. ThreadsOK'
    BY <1>4, GotoType, EndThreadType DEF Start, Typed, PlainPc
  <2>3. DockerOK'
    BY <1>4, <2>1, HealthAssumption DEF Start, Typed, DockerOK, Project
  <2> QED BY <1>0, <1>4, <2>2, <2>3, Keep DEF Start, Typed
<1>5. CASE Scale(t)
  <2>1. a \in Apps /\ file[a] \in File BY <1>5, <1>a DEF Scale
  <2>2. ThreadsOK' BY <1>5, EndThreadType DEF Scale, Typed
  <2>3. DockerOK'
    <3> DEFINE img == IF docker[a].st = "none" THEN file[a] ELSE docker[a].img
    <3>1. img \in File
      BY <2>1 DEF Typed, DockerOK, Project
    <3>2. \/ \E h \in Health : docker' = [docker EXCEPT ![a] =
                                         [img |-> img, st |-> h]]
          \/ UNCHANGED docker
      BY <1>5 DEF Scale
    <3> HIDE DEF img
    <3> QED BY <2>1, <3>1, <3>2, ProjectType DEF Typed, DockerOK
  <2> QED BY <1>0, <1>5, <2>2, <2>3, Keep DEF Scale, Typed
<1> QED
  BY <1>1, <1>2, <1>3, <1>4, <1>5 DEF UntrackedStep

----------------------------------------------------------------------------
(* Each step of a Reconcile pass keeps Typed.                              *)

LEMMA ScannerSets == Apps \subseteq Scanners /\ Threads \subseteq Scanners
                     /\ Passes \subseteq Scanners
                     /\ \A p \in Passes, a \in Apps : <<p, a>> \in Threads
BY DEF Scanners, Passes, Threads

LEMMA NewPassType == \A k \in PassKind : NewPass(k) \in GoodPass
BY IdlePassType DEF NewPass, GoodPass, Pass, PassPc, CurPc, IdlePass

LEMMA IdlePassGood == IdlePass \in GoodPass
BY IdlePassType DEF GoodPass, IdlePass, CurPc

\* reconcileAfterDeploy changes the pass table at one place at most.
LEMMA QueueRetryType ==
  ASSUME PassesOK, NEW q \in [Scanners -> GoodPass], NEW a \in Apps
  PROVE  QueueRetry(q, a) \in [Scanners -> GoodPass]
<1>1. a \in Scanners BY ScannerSets
<1>2. [q[a] EXCEPT !.pc = "poll"] \in GoodPass
  BY <1>1 DEF GoodPass, Pass, PassPc, CurPc
<1> QED BY <1>1, <1>2 DEF QueueRetry

LEMMA PassFields ==
  ASSUME PassesOK, NEW p \in Scanners
  PROVE  /\ ps[p] \in Pass
         /\ ps[p].pc \in CurPc => ps[p].cur \in Apps
         /\ ps[p].buf \in File
         /\ ps[p].scan \in [Apps -> File]
         /\ ps[p].list \in [Apps -> Row \cup {NoRow}]
BY DEF PassesOK, GoodPass, Pass

\* ensureSharedNetwork returns a file.
LEMMA InjectType == \A f \in File : NeedsNetwork(f) => InjectSharedNetwork(f) \in File
BY DEF NeedsNetwork, Parses, Present, InjectSharedNetwork, File, Content

LEMMA ScanAppType ==
  ASSUME Typed, NEW p \in Scanners, NEW a \in Apps, ScanApp(p, a)
  PROVE  PassesOK'
<1>1. file[a] \in File BY DEF Typed, FilesOK
<1>2. CASE NeedsNetwork(file[a])
  <2>1. [ps[p] EXCEPT !.pc = "inject", !.cur = a,
                      !.buf = InjectSharedNetwork(file[a])] \in GoodPass
    BY <1>1, <1>2, InjectType, PassFields DEF Typed, GoodPass, Pass, PassPc
  <2> QED BY <1>2, <2>1 DEF ScanApp, Typed, PassesOK
<1>3. CASE ~NeedsNetwork(file[a])
  <2>1. [ps[p] EXCEPT !.todo = @ \ {a}, !.scan[a] = file[a]] \in GoodPass
    BY <1>1, PassFields DEF Typed, GoodPass, Pass, ScanApp, CurPc
  <2> QED BY <1>3, <2>1 DEF ScanApp, Typed, PassesOK
<1> QED BY <1>2, <1>3

LEMMA InjectNetworkType ==
  ASSUME Typed, NEW p \in Scanners, InjectNetwork(p)
  PROVE  PassesOK' /\ FilesOK'
<1> DEFINE a == ps[p].cur
           f == IF Present(file[a]) THEN ps[p].buf ELSE NoFile
<1>1. a \in Apps /\ ps[p].buf \in File /\ ps[p] \in Pass
  BY PassFields DEF InjectNetwork, Typed, CurPc
<1>2. FilesOK'
  BY <1>1, WriteFileType, Keep DEF InjectNetwork, Typed
<1>3. f \in File BY <1>1 DEF File
<1>4. ps' = [ps EXCEPT ![p] = [ps[p] EXCEPT !.pc = "scan", !.todo = @ \ {a},
                               !.scan[a] = f, !.cur = Nobody, !.buf = NoFile]]
  BY ZenonT(30) DEF InjectNetwork
<1> HIDE DEF f
<1>5. [ps[p] EXCEPT !.pc = "scan", !.todo = @ \ {a}, !.scan[a] = f,
                    !.cur = Nobody, !.buf = NoFile] \in GoodPass
  BY <1>1, <1>3 DEF GoodPass, Pass, PassPc, CurPc, File
<1> QED BY <1>2, <1>4, <1>5 DEF Typed, PassesOK

LEMMA ListAppsType == StoreType => ListApps \in [Apps -> Row \cup {NoRow}]
BY DEF StoreType, ListApps, Listed, HasRow

LEMMA ScanDoneType ==
  ASSUME Typed, NEW p \in Scanners, ScanDone(p)
  PROVE  PassesOK'
<1>1. ps[p] \in Pass BY PassFields DEF Typed
<1>2. CASE ps[p].kind = "reconcile"
  <2>1. [ps[p] EXCEPT !.pc = "deploy", !.todo = Apps, !.list = ListApps]
          \in GoodPass
    BY <1>1, ListAppsType DEF Typed, GoodPass, Pass, PassPc, CurPc
  <2> QED BY <1>2, <2>1 DEF ScanDone, Typed, PassesOK
<1>3. CASE ps[p].kind = "refresh"
  <2>1. [ps[p] EXCEPT !.pc = "hashes", !.todo = Apps] \in GoodPass
    BY <1>1 DEF GoodPass, Pass, PassPc, CurPc
  <2> QED BY <1>3, <2>1 DEF ScanDone, Typed, PassesOK
<1>4. CASE ps[p].kind = "routes"
  <2>1. [ps[p] EXCEPT !.pc = "routes"] \in GoodPass
    BY <1>1 DEF GoodPass, Pass, PassPc, CurPc
  <2> QED BY <1>4, <2>1 DEF ScanDone, Typed, PassesOK
<1> QED BY <1>1, <1>2, <1>3, <1>4 DEF Pass, PassKind

LEMMA DeployLoopType ==
  ASSUME Typed, NEW p \in Scanners, NEW a \in Apps, DeployLoop(p, a)
  PROVE  PassesOK' /\ StoreType' /\ ThreadsOK' /\ FilesOK'
<1>1. ps[p] \in Pass /\ ps[p].list \in [Apps -> Row \cup {NoRow}]
  BY PassFields DEF Typed
<1>2. StoreType'
  <2>1. CASE Desired(p, a) /\ Listing(p, a) # NoRow /\ Listing(p, a).path # "ok"
    <3>1. Listing(p, a) \in Row BY <1>1, <2>1 DEF Listing
    <3>2. Listing(p, a).hash \in Hash /\ Listing(p, a).status \in Status
      BY <3>1 DEF Row
    <3>3. UpsertApp(a, Listing(p, a).hash, Listing(p, a).status, "ok")
      BY <2>1 DEF DeployLoop, NormalizePath
    <3> QED BY <3>2, <3>3, UpsertType DEF Typed
  <2>2. CASE ~(Desired(p, a) /\ Listing(p, a) # NoRow /\ Listing(p, a).path # "ok")
    BY <2>2, Keep DEF DeployLoop, NormalizePath, Typed
  <2> QED BY <2>1, <2>2
<1>3. [ps[p] EXCEPT !.todo = @ \ {a}] \in GoodPass
  BY <1>1 DEF DeployLoop, GoodPass, Pass, CurPc
<1>4. [ps EXCEPT ![p].todo = @ \ {a}] \in [Scanners -> GoodPass]
  BY <1>3 DEF Typed, PassesOK
<1>a. UNCHANGED fileVars BY DEF DeployLoop
<1>5. CASE VisitUnchanged(p, a)
  BY <1>2, <1>4, <1>5, <1>a, Keep DEF VisitUnchanged, Typed, PassesOK
<1>6. CASE VisitDeploying(p, a)
  <2>1. FilesOK' BY <1>6, <1>a, StarvesType DEF VisitDeploying, Typed
  <2> QED
    BY <1>2, <1>4, <1>6, <2>1, Keep, QueueRetryType
    DEF VisitDeploying, Typed, PassesOK
<1>7. CASE VisitChanged(p, a)
  <2>1. ThreadsOK'
    BY <1>7, StartThreadType DEF VisitChanged, Typed, OpName, PlainPc
  <2>2. FilesOK' BY <1>7, <1>a, Keep DEF VisitChanged, Typed
  <2> QED BY <1>2, <1>4, <1>7, <2>1, <2>2 DEF VisitChanged, PassesOK
<1> QED BY <1>5, <1>6, <1>7 DEF DeployLoop

LEMMA ArchiveLoopType ==
  ASSUME Typed, NEW p \in Scanners, NEW a \in Apps, ArchiveLoop(p, a)
  PROVE  PassesOK'
<1>1. ps[p] \in Pass BY PassFields DEF Typed
<1>2. CASE MustArchive(p, a)
  <2>1. [ps[p] EXCEPT !.todo = @ \ {a}, !.cur = a, !.pc = "teardown"]
          \in GoodPass
    BY <1>1 DEF GoodPass, Pass, PassPc
  <2> QED BY <1>2, <2>1 DEF ArchiveLoop, Typed, PassesOK
<1>3. CASE ~MustArchive(p, a)
  <2>1. [ps[p] EXCEPT !.todo = @ \ {a}, !.cur = Nobody, !.pc = "archive"]
          \in GoodPass
    BY <1>1 DEF GoodPass, Pass, PassPc, CurPc
  <2> QED BY <1>3, <2>1 DEF ArchiveLoop, Typed, PassesOK
<1> QED BY <1>2, <1>3

LEMMA RefreshHashType ==
  ASSUME Typed, NEW p \in Scanners, NEW a \in Apps, RefreshHash(p, a)
  PROVE  PassesOK' /\ StoreType'
<1>1. ps[p] \in Pass BY PassFields DEF Typed
<1>2. [ps[p] EXCEPT !.todo = @ \ {a}] \in GoodPass
  BY <1>1 DEF RefreshHash, GoodPass, Pass, CurPc
<1>3. PassesOK' BY <1>2 DEF RefreshHash, Typed, PassesOK
<1>4. hashFile(file[a]) \in Hash BY HashType DEF Typed, FilesOK
<1>5. HasRow(a) => row[a].status \in Status
  BY DEF HasRow, Typed, StoreType, Row
<1>6. StoreType'
  BY <1>4, <1>5, UpsertType, Keep DEF RefreshHash, Typed
<1> QED BY <1>3, <1>6

LEMMA SetRoutesType ==
  ASSUME Typed, NEW p \in Scanners, SetRoutes(p)
  PROVE  PassesOK' /\ RoutesOK'
<1>1. ps[p].scan \in [Apps -> File] BY PassFields DEF Typed
<1>2. RoutesOK' BY <1>1 DEF SetRoutes, Typed, RoutesOK, File
<1>3. PassesOK' BY IdlePassGood DEF SetRoutes, Typed, PassesOK
<1> QED BY <1>2, <1>3

LEMMA PassStepType ==
  ASSUME Typed, NEW p \in Scanners, PassStep(p), UNCHANGED spent
  PROVE  Typed'
<1>0. SpentOK' BY Keep DEF Typed
<1>a. ps[p] \in Pass /\ (ps[p].pc \in CurPc => ps[p].cur \in Apps)
  BY PassFields DEF Typed
<1>1. CASE InjectNetwork(p)
  BY <1>0, <1>1, InjectNetworkType, Keep DEF InjectNetwork, Typed
<1>2. CASE ScanDone(p)
  BY <1>0, <1>2, ScanDoneType, Keep DEF ScanDone, Typed
<1>3. CASE WaitDeploys(p)
  <2>1. [ps[p] EXCEPT !.pc = "archive", !.todo = Apps] \in GoodPass
    BY <1>a DEF GoodPass, Pass, PassPc, CurPc
  <2>2. PassesOK' BY <1>3, <2>1 DEF WaitDeploys, Typed, PassesOK
  <2> QED BY <1>0, <1>3, <2>2, Keep DEF WaitDeploys, Typed
<1>4. CASE ArchiveTeardown(p)
  <2>1. ps[p].cur \in Apps BY <1>4, <1>a DEF ArchiveTeardown, CurPc
  <2>2. [ps[p] EXCEPT !.pc = "sidecar"] \in GoodPass
    BY <1>a, <2>1 DEF GoodPass, Pass, PassPc
  <2>3. PassesOK' BY <1>4, <2>2 DEF ArchiveTeardown, Typed, PassesOK
  <2>4. DockerOK'
    BY <1>4, <2>1, ProjectType DEF ArchiveTeardown, TeardownOk, Typed, DockerOK,
                                   File
  <2> QED BY <1>0, <1>4, <2>3, <2>4, Keep DEF ArchiveTeardown, Typed
<1>5. CASE ArchiveSidecar(p)
  <2>1. ps[p].cur \in Apps BY <1>5, <1>a DEF ArchiveSidecar, CurPc
  <2>2. /\ [ps[p] EXCEPT !.pc = "tomb"] \in GoodPass
        /\ [ps[p] EXCEPT !.pc = "mark"] \in GoodPass
    BY <1>a, <2>1 DEF GoodPass, Pass, PassPc
  <2>3. PassesOK' BY <1>5, <2>2 DEF ArchiveSidecar, Typed, PassesOK
  <2> QED BY <1>0, <1>5, <2>3, Keep DEF ArchiveSidecar, Typed
<1>6. CASE ArchiveTombstone(p)
  <2>1. ps[p].cur \in Apps BY <1>6, <1>a DEF ArchiveTombstone, CurPc
  <2>2. [ps[p] EXCEPT !.pc = "mark"] \in GoodPass
    BY <1>a, <2>1 DEF GoodPass, Pass, PassPc
  <2>3. PassesOK' BY <1>6, <2>2 DEF ArchiveTombstone, Typed, PassesOK
  <2>4. StoreType' BY <1>6, <2>1, TombstoneType DEF ArchiveTombstone, Typed
  <2> QED BY <1>0, <1>6, <2>3, <2>4, Keep DEF ArchiveTombstone, Typed
<1>7. CASE ArchiveMark(p)
  <2>1. ps[p].cur \in Apps BY <1>7, <1>a DEF ArchiveMark, CurPc
  <2>2. [ps[p] EXCEPT !.pc = "archive", !.cur = Nobody] \in GoodPass
    BY <1>a DEF GoodPass, Pass, PassPc, CurPc
  <2>3. PassesOK' BY <1>7, <2>2 DEF ArchiveMark, Typed, PassesOK
  <2>4. StoreType' BY <1>7, <2>1, MarkType DEF ArchiveMark, Typed
  <2> QED BY <1>0, <1>7, <2>3, <2>4, Keep DEF ArchiveMark, Typed
<1>8. CASE ArchiveDone(p) \/ HashesDone(p)
  <2>1. [ps[p] EXCEPT !.pc = "routes"] \in GoodPass
    BY <1>a DEF GoodPass, Pass, PassPc, CurPc
  <2>2. PassesOK'
    BY <1>8, <2>1 DEF ArchiveDone, HashesDone, Typed, PassesOK
  <2> QED BY <1>0, <1>8, <2>2, Keep DEF ArchiveDone, HashesDone, Typed
<1>9. CASE SetRoutes(p)
  BY <1>0, <1>9, SetRoutesType, Keep DEF SetRoutes, Typed
<1>10. ASSUME NEW a \in Apps, ScanApp(p, a) PROVE Typed'
  BY <1>0, <1>10, ScanAppType, Keep DEF ScanApp, Typed
<1>11. ASSUME NEW a \in Apps, DeployLoop(p, a) PROVE Typed'
  BY <1>0, <1>11, DeployLoopType, Keep DEF DeployLoop, Typed
<1>12. ASSUME NEW a \in Apps, ArchiveLoop(p, a) PROVE Typed'
  BY <1>0, <1>12, ArchiveLoopType, Keep DEF ArchiveLoop, Typed
<1>13. ASSUME NEW a \in Apps, RefreshHash(p, a) PROVE Typed'
  BY <1>0, <1>13, RefreshHashType, Keep DEF RefreshHash, Typed
<1>14. ASSUME NEW a \in Apps, RetryStarts(a) PROVE Typed'
  <2>1. PassesOK'
    BY <1>14, NewPassType DEF RetryStarts, Typed, PassesOK, PassKind
  <2> QED BY <1>0, <1>14, <2>1, Keep DEF RetryStarts, Typed
<1> QED
  BY <1>1, <1>2, <1>3, <1>4, <1>5, <1>6, <1>7, <1>8, <1>9, <1>10, <1>11,
     <1>12, <1>13, <1>14 DEF PassStep

----------------------------------------------------------------------------
(* Each step of deployApp, rollback, removal and status refresh keeps Typed.*)

LEMMA StatusOfType == ASSUME NEW t PROVE StatusOf(t) \in Status
BY DEF StatusOf, Status

LEMMA StoredHashType == StoreType => \A a \in Apps : StoredHash(a) \in Hash
BY DEF StoreType, StoredHash, HasRow, Row, Hash, NoHash

LEMMA ReconcilerStepType ==
  ASSUME Typed, NEW t \in Threads, ReconcilerStep(t), UNCHANGED spent
  PROVE  Typed'
<1> DEFINE a == th[t].app
<1>0. SpentOK' BY Keep DEF Typed
<1>a. th[t].pc # "idle" => a \in Apps /\ file[a] \in File
  BY ThreadFields DEF Typed, FilesOK
<1>b. th[t].buf \in File /\ th[t].hash \in Hash /\ th[t].id \in Nat
  BY ThreadFields DEF Typed
<1>1. CASE LoadConfig(t)
  <2>1. ThreadsOK'
    BY <1>1, GotoType, EndThreadType DEF LoadConfig, Typed, PlainPc
  <2> QED BY <1>0, <1>1, <2>1, Keep DEF LoadConfig, Typed
<1>2. CASE Skipped(t)
  <2>1. ThreadsOK'
    BY <1>2, GotoType, EndThreadType DEF Skipped, Typed, PlainPc
  <2>2. PassesOK'
    BY <1>2, <1>a, QueueRetryType DEF Skipped, Typed, PassesOK
  <2>3. FilesOK' BY <1>2, <1>a, StarvesType, Keep DEF Skipped, Typed
  <2> QED BY <1>0, <1>2, <2>1, <2>2, <2>3, Keep DEF Skipped, Typed
<1>3. CASE ReadHash(t)
  <2> DEFINE h == CASE th[t].res # "refused" -> hashFile(file[a])
                    [] th[t].op = "deploy" -> StoredHash(a)
                    [] OTHER -> th[t].hash
  <2>1. h \in Hash
    BY <1>3, <1>a, <1>b, HashType, StoredHashType DEF ReadHash, Typed
  <2>2. th' = [th EXCEPT ![t].pc = "upsert", ![t].hash = h]
    BY <1>3 DEF ReadHash
  <2> HIDE DEF h
  <2>3. [th[t] EXCEPT !.pc = "upsert", !.hash = h] \in GoodThread
    <3>1. th[t].pc = "hash" BY <1>3 DEF ReadHash
    <3>2. th[t] \in Thread /\ th[t].app \in Apps
      BY <3>1 DEF Typed, ThreadsOK, GoodThread
    <3> QED BY <2>1, <3>2 DEF GoodThread, Thread, PlainPc
  <2>4. ThreadsOK' BY <2>2, <2>3 DEF Typed, ThreadsOK
  <2> QED BY <1>0, <1>3, <2>4, Keep DEF ReadHash, Typed
<1>4. CASE StoreApp(t)
  <2>1. a \in Apps BY <1>4, <1>a DEF StoreApp
  <2>2. StoreType'
    BY <1>4, <2>1, <1>b, UpsertType, StatusOfType DEF StoreApp, Typed
  <2> DEFINE id == IF HasRow(a) THEN row[a].id ELSE nextId
  <2>3. id \in Nat
    BY <2>1 DEF Typed, StoreType, HasRow, Row
  <2>4. \/ th' = [th EXCEPT ![t].pc = "version", ![t].id = id]
        \/ EndThread(t)
    BY <1>4 DEF StoreApp
  <2> HIDE DEF id
  <2>5. [th[t] EXCEPT !.pc = "version", !.id = id] \in GoodThread
    <3>1. th[t] \in Thread BY DEF Typed, ThreadsOK, GoodThread
    <3> QED BY <2>1, <2>3, <3>1 DEF GoodThread, Thread, PlainPc
  <2>6. ThreadsOK'
    BY <2>4, <2>5, EndThreadType DEF Typed, ThreadsOK
  <2> QED BY <1>0, <1>4, <2>2, <2>6, Keep DEF StoreApp, Typed
<1>5. CASE StoreVersion(t)
  <2>1. a \in Apps /\ (Present(file[a]) => file[a] \in Content)
    BY <1>5, <1>a DEF StoreVersion, Present, File
  <2>2. StoreType'
    BY <1>5, <2>1, VersionType, Keep DEF StoreVersion, Typed
  <2>3. ThreadsOK' BY <1>5, EndThreadType DEF StoreVersion, Typed
  <2>4. PassesOK'
    BY <1>5, NewPassType, Keep DEF StoreVersion, Typed, PassesOK, PassKind
  <2> QED BY <1>0, <1>5, <2>2, <2>3, <2>4, Keep DEF StoreVersion, Typed
<1>6. CASE SetStatus(t)
  <2>1. StoreType'
    BY <1>6, <1>a, StatusUpdateType, StatusOfType DEF SetStatus, Typed
  <2>2. ThreadsOK' BY <1>6, EndThreadType DEF SetStatus, Typed
  <2> QED BY <1>0, <1>6, <2>1, <2>2, Keep DEF SetStatus, Typed
<1>7. CASE RollbackCheck(t)
  <2>1. ThreadsOK'
    BY <1>7, GotoType, EndThreadType DEF RollbackCheck, Typed, PlainPc
  <2> QED BY <1>0, <1>7, <2>1, Keep DEF RollbackCheck, Typed
<1>8. CASE RollbackWrite(t)
  <2>1. FilesOK'
    BY <1>8, <1>a, <1>b, WriteFileType, Keep DEF RollbackWrite, Typed
  <2>2. [th[t] EXCEPT !.pc = "parse", !.buf = file[a]] \in GoodThread
    BY <1>8, <1>a, ZenonT(30) DEF RollbackWrite, Typed, ThreadsOK, GoodThread, Thread,
                      PlainPc
  <2>3. ThreadsOK'
    BY <1>8, <2>2, EndThreadType DEF RollbackWrite, Typed, ThreadsOK
  <2> QED BY <1>0, <1>8, <2>1, <2>3, Keep DEF RollbackWrite, Typed
<1>9. CASE RollbackRestore(t)
  <2>1. FilesOK'
    BY <1>9, <1>a, <1>b, WriteFileType, Keep DEF RollbackRestore, Typed
  <2>2. ThreadsOK' BY <1>9, EndThreadType DEF RollbackRestore, Typed
  <2> QED BY <1>0, <1>9, <2>1, <2>2, Keep DEF RollbackRestore, Typed
<1>10. CASE RemoveTeardown(t)
  <2>1. ThreadsOK'
    BY <1>10, GotoType, EndThreadType DEF RemoveTeardown, Typed, PlainPc
  <2>2. DockerOK'
    BY <1>10, <1>a, ProjectType DEF RemoveTeardown, TeardownOk, Typed, DockerOK,
                                    File
  <2> QED BY <1>0, <1>10, <2>1, <2>2, Keep DEF RemoveTeardown, Typed
<1>11. CASE RemovePurge(t)
  <2>1. ThreadsOK'
    BY <1>11, GotoType, EndThreadType DEF RemovePurge, Typed, PlainPc
  <2>2. StoreType' BY <1>11, <1>a, PurgeType, Keep DEF RemovePurge, Typed
  <2> QED BY <1>0, <1>11, <2>1, <2>2, Keep DEF RemovePurge, Typed
<1>12. CASE RemoveFiles(t)
  <2>1. ThreadsOK' BY <1>12, GotoType DEF RemoveFiles, Typed, PlainPc
  <2>2. StoreType' BY <1>12, <1>a, TombstoneType DEF RemoveFiles, Typed
  <2>3. FilesOK' BY <1>12, <1>a, WriteFileType DEF RemoveFiles, Typed, File
  <2> QED BY <1>0, <1>12, <2>1, <2>2, <2>3, Keep DEF RemoveFiles, Typed
<1>13. CASE RemoveRow(t)
  <2>1. ThreadsOK' BY <1>13, EndThreadType DEF RemoveRow, Typed
  <2>2. StoreType' BY <1>13, <1>a, PurgeType DEF RemoveRow, Typed
  <2> QED BY <1>0, <1>13, <2>1, <2>2, Keep DEF RemoveRow, Typed
<1>14. CASE PurgeTombstone(t)
  <2>1. ThreadsOK' BY <1>14, EndThreadType DEF PurgeTombstone, Typed
  <2>2. StoreType' BY <1>14, <1>a, TombstoneType DEF PurgeTombstone, Typed
  <2> QED BY <1>0, <1>14, <2>1, <2>2, Keep DEF PurgeTombstone, Typed
<1>15. CASE StatusQuery(t)
  <2>1. \/ EndThread(t)
        \/ \E s \in Status : th' = [th EXCEPT ![t].pc = "rsUpdate", ![t].res = s]
    <3>1. th[t].res \in Status BY <1>15, ThreadFields DEF StatusQuery, Typed
    <3>2. "running" \in Status /\ "unstable" \in Status BY DEF Status
    <3> QED BY <1>15, <3>1, <3>2 DEF StatusQuery
  <2>2. \A s \in Status :
          [th[t] EXCEPT !.pc = "rsUpdate", !.res = s] \in GoodThread
    <3>1. th[t].pc = "rsQuery" BY <1>15 DEF StatusQuery
    <3>2. th[t] \in Thread /\ th[t].app \in Apps
      BY <3>1 DEF Typed, ThreadsOK, GoodThread
    <3> QED BY <3>2 DEF GoodThread, Thread, PlainPc, Result
  <2>3. ThreadsOK' BY <2>1, <2>2, EndThreadType DEF Typed, ThreadsOK
  <2> QED BY <1>0, <1>15, <2>3, Keep DEF StatusQuery, Typed
<1>16. CASE StatusUpdate(t)
  <2>1. th[t].res \in Status BY <1>16, ThreadFields DEF StatusUpdate, Typed
  <2>2. StoreType' BY <1>16, <1>a, <2>1, StatusUpdateType DEF StatusUpdate, Typed
  <2>3. ThreadsOK' BY <1>16, EndThreadType DEF StatusUpdate, Typed
  <2> QED BY <1>0, <1>16, <2>2, <2>3, Keep DEF StatusUpdate, Typed
<1> QED
  BY <1>1, <1>2, <1>3, <1>4, <1>5, <1>6, <1>7, <1>8, <1>9, <1>10, <1>11,
     <1>12, <1>13, <1>14, <1>15, <1>16 DEF ReconcilerStep

----------------------------------------------------------------------------
(* Requests and the world outside keep Typed.                              *)

LEMMA RequestType == ASSUME SpentOK, NEW op, Request(op) PROVE SpentOK'
BY LifecycleAssumption DEF SpentOK, Request

LEMMA ContentType == \A id \in Ids, n \in BOOLEAN : [id |-> id, net |-> n] \in File
BY DEF File, Content

\* A job starts with more fields set than StartThread sets.
LEMMA JobInThreads == Jobs \subseteq Threads
BY DEF Threads

LEMMA ApiDeployType ==
  ASSUME Typed, NEW j \in Jobs, NEW a \in Apps, NEW id \in Ids, ApiDeploy(j, a, id)
  PROVE  Typed'
<1>1. SpentOK' BY RequestType DEF ApiDeploy, Typed
<1>2. FilesOK' BY ContentType, WriteFileType DEF ApiDeploy, Typed
<1>3. ThreadsOK' BY StartThreadType DEF ApiDeploy, Typed, OpName, PlainPc
<1> QED BY <1>1, <1>2, <1>3, Keep DEF ApiDeploy, Typed

\* Requests that only start a goroutine.
LEMMA ApiStartsType ==
  ASSUME Typed, NEW j \in Jobs, NEW a \in Apps,
         ApiRestart(j, a) \/ ApiPull(j, a) \/ ApiStop(j, a) \/ ApiStart(j, a)
           \/ ApiScale(j, a)
  PROVE  Typed'
<1>1. SpentOK'
  BY RequestType DEF ApiRestart, ApiPull, ApiStop, ApiStart, ApiScale, Typed
<1>2. ThreadsOK'
  BY StartThreadType DEF ApiRestart, ApiPull, ApiStop, ApiStart, ApiScale, Typed,
                         OpName, PlainPc
<1> QED
  BY <1>1, <1>2, Keep DEF ApiRestart, ApiPull, ApiStop, ApiStart, ApiScale, Typed

LEMMA ApiCancelType ==
  ASSUME Typed, NEW j \in Jobs, NEW a \in Apps, ApiCancel(j, a)
  PROVE  Typed'
<1>1. SpentOK' BY RequestType DEF ApiCancel, Typed
<1>2. TrackerType'
  BY DEF ApiCancel, CancelFlight, IsDeploying, TrackerType, Typed
<1>3. ThreadsOK' BY StartThreadType DEF ApiCancel, Typed, OpName, PlainPc
<1> QED BY <1>1, <1>2, <1>3, Keep DEF ApiCancel, Typed

LEMMA ApiRollbackType ==
  ASSUME Typed, NEW j \in Jobs, NEW a \in Apps, NEW i \in 1..KeepVersions,
         ApiRollback(j, a, i)
  PROVE  Typed'
<1>1. SpentOK' BY RequestType DEF ApiRollback, Typed
<1>2. versions[a][i] \in File
  BY DEF ApiRollback, Typed, StoreType, File
<1>3. StoredHash(a) \in Hash BY StoredHashType DEF Typed
<1>4. [IdleThread EXCEPT !.op = "rollback", !.pc = "rbCheck", !.app = a,
         !.buf = versions[a][i], !.hash = StoredHash(a)] \in GoodThread
  BY <1>2, <1>3, IdleThreadType DEF GoodThread, Thread, IdleThread, OpName, PlainPc
<1>5. ThreadsOK' BY <1>4, JobInThreads DEF ApiRollback, Typed, ThreadsOK
<1> QED BY <1>1, <1>5, Keep DEF ApiRollback, Typed

LEMMA ApiRemoveType ==
  ASSUME Typed, NEW j \in Jobs, NEW a \in Apps, ApiRemove(j, a)
  PROVE  Typed'
<1>1. SpentOK' BY RequestType DEF ApiRemove, Typed
<1>2. StoreType' BY TombstoneType, Keep DEF ApiRemove, Typed
<1>3. FilesOK' BY WriteFileType, Keep DEF ApiRemove, Typed, File
<1>4. ThreadsOK' BY StartThreadType, Keep DEF ApiRemove, Typed, OpName, PlainPc
<1> QED BY <1>1, <1>2, <1>3, <1>4, Keep DEF ApiRemove, Typed

LEMMA ApiPurgeType ==
  ASSUME Typed, NEW j \in Jobs, NEW a \in Apps, ApiPurge(j, a)
  PROVE  Typed'
<1>1. SpentOK' BY RequestType DEF ApiPurge, Typed
<1>2. StoreType' BY PurgeType DEF ApiPurge, Typed
<1>3. ThreadsOK' BY StartThreadType DEF ApiPurge, Typed, OpName, PlainPc
<1> QED BY <1>1, <1>2, <1>3, Keep DEF ApiPurge, Typed

LEMMA ApiRelabelType ==
  ASSUME Typed, NEW j \in Jobs, NEW a \in Apps, NEW id \in Ids,
         ApiRelabel(j, a, id)
  PROVE  Typed'
<1>1. SpentOK' BY RequestType DEF ApiRelabel, Typed
<1>2. [file[a] EXCEPT !.id = id] \in File
  BY DEF ApiRelabel, Parses, Present, Typed, FilesOK, File, Content
<1>3. FilesOK' BY <1>2 DEF ApiRelabel, Typed, FilesOK, History
<1>4. PassesOK'
  BY NewPassType DEF ApiRelabel, Typed, PassesOK, PassKind
<1> QED BY <1>1, <1>3, <1>4, Keep DEF ApiRelabel, Typed

LEMMA RefreshStatusesType ==
  ASSUME Typed, NEW j \in Jobs, NEW a \in Apps, RefreshStatuses(j, a)
  PROVE  Typed'
<1>1. SpentOK' BY RequestType DEF RefreshStatuses, Typed
<1>2. row[a].status \in Status
  BY DEF RefreshStatuses, Listed, HasRow, Typed, StoreType, Row
<1>3. [IdleThread EXCEPT !.op = "statuses", !.pc = "rsQuery", !.app = a,
                         !.res = row[a].status] \in GoodThread
  BY <1>2, IdleThreadType DEF GoodThread, Thread, IdleThread, OpName, PlainPc,
                              Result
<1>4. ThreadsOK' BY <1>3, JobInThreads DEF RefreshStatuses, Typed, ThreadsOK
<1> QED BY <1>1, <1>4, Keep DEF RefreshStatuses, Typed

LEMMA ApiRequestType == Typed /\ ApiRequest => Typed'
BY ApiDeployType, ApiStartsType, ApiCancelType, ApiRollbackType, ApiRemoveType,
   ApiPurgeType, ApiRelabelType, RefreshStatusesType DEF ApiRequest

LEMMA LeftoverType ==
  ASSUME Typed, NEW a \in Apps PROVE Leftover(a) \subseteq Project
<1>1. \A t \in Threads : th[t].seen \in File BY ThreadFields DEF Typed
<1> QED BY <1>1, ProjectType DEF Leftover, Typed, DockerOK

LEMMA CrashType == Typed /\ Crash => Typed'
<1> SUFFICES ASSUME Typed, Crash PROVE Typed' OBVIOUS
<1>1. SpentOK' BY RequestType DEF Crash, Typed
<1>2. DockerOK' BY LeftoverType DEF Crash, DockerOK
<1>3. TrackerType' BY DEF Crash, TrackerType
<1>4. ThreadsOK' BY IdleThreadType DEF Crash, ThreadsOK, GoodThread, IdleThread
<1>5. PassesOK' BY IdlePassGood DEF Crash, PassesOK
<1>6. RoutesOK' BY DEF Crash, RoutesOK, File
<1>7. FilesOK' BY DEF Crash, Typed, FilesOK
<1>8. StoreType'
  <2> DEFINE ghost == [id |-> nextId, hash |-> NoHash, status |-> "stopped",
                       archived |-> TRUE, path |-> "old"]
  <2>1. ghost \in Row BY DEF Typed, StoreType, Row, Status, Hash
  <2>2. \A a \in Apps :
          HasRow(a) => [row[a] EXCEPT !.archived = TRUE] \in Row
    BY DEF HasRow, Typed, StoreType, Row
  <2>3. row' = [a \in Apps |->
       CASE a \notin tombs -> row[a]
         [] a \in tombs /\ HasRow(a) -> [row[a] EXCEPT !.archived = TRUE]
         [] OTHER -> ghost]
    BY DEF Crash
  <2> HIDE DEF ghost
  <2>4. \A a \in Apps : row'[a] \in Row \cup {NoRow}
    <3> TAKE a \in Apps
    <3>1. row[a] \in Row \cup {NoRow} BY DEF Typed, StoreType
    <3>2. row'[a] \in {row[a], [row[a] EXCEPT !.archived = TRUE], ghost}
          /\ (row'[a] = [row[a] EXCEPT !.archived = TRUE] /\ ~HasRow(a)
                => row'[a] \in {row[a], ghost})
      BY <2>3
    <3> QED BY <2>1, <2>2, <3>1, <3>2
  <2>5. row' \in [Apps -> Row \cup {NoRow}]
    BY <2>3, <2>4
  <2>6. nextId' = nextId + 1 /\ UNCHANGED versions /\ UNCHANGED tombs
    BY DEF Crash
  <2> QED BY <2>5, <2>6 DEF Typed, StoreType
<1> QED BY <1>1, <1>2, <1>3, <1>4, <1>5, <1>6, <1>7, <1>8 DEF Typed

LEMMA OutsideType == Typed /\ Outside => Typed'
<1> SUFFICES ASSUME Typed, Outside PROVE Typed' OBVIOUS
<1>1. ASSUME NEW a \in Apps, DeleteDir(a) PROVE Typed'
  <2>1. SpentOK' /\ FilesOK'
    BY <1>1, RequestType, WriteFileType DEF DeleteDir, Typed, File
  <2> QED BY <1>1, <2>1, Keep DEF DeleteDir, Typed
<1>2. ASSUME NEW a \in Apps, HealthFlip(a) PROVE Typed'
  <2>1. SpentOK' BY <1>2, RequestType DEF HealthFlip, Typed
  <2>2. DockerOK' BY <1>2 DEF HealthFlip, Typed, DockerOK, Project
  <2> QED BY <1>2, <2>1, <2>2, Keep DEF HealthFlip, Typed
<1>3. ASSUME NEW a \in Apps, RetryTimesOut(a) PROVE Typed'
  <2>1. SpentOK' BY <1>3, RequestType DEF RetryTimesOut, Typed
  <2>2. PassesOK'
    BY <1>3, NewPassType DEF RetryTimesOut, Typed, PassesOK, PassKind
  <2> QED BY <1>3, <2>1, <2>2, Keep DEF RetryTimesOut, Typed
<1>4. ASSUME NEW a \in Apps, NEW id \in Ids, NEW net \in EditNet,
             Edit(a, id, net)
      PROVE  Typed'
  <2>1. [id |-> id, net |-> net] \in File BY ContentType, LifecycleAssumption
  <2>2. SpentOK' /\ FilesOK'
    BY <1>4, <2>1, RequestType, WriteFileType DEF Edit, Typed
  <2> QED BY <1>4, <2>2, Keep DEF Edit, Typed
<1> QED BY <1>1, <1>2, <1>3, <1>4, CrashType DEF Outside

LEMMA SystemType == Typed /\ System => Typed'
<1> SUFFICES ASSUME Typed, System PROVE Typed' OBVIOUS
<1>1. ASSUME NEW w \in Watchers, WatcherFires(w) PROVE Typed'
  <2>1. PassesOK'
    BY <1>1, NewPassType DEF WatcherFires, Typed, PassesOK, PassKind
  <2>2. FilesOK' BY <1>1 DEF WatcherFires, Typed, FilesOK
  <2> QED BY <1>1, <2>1, <2>2, Keep DEF WatcherFires, Typed
<1>2. ASSUME NEW t \in Threads, ThreadStep(t) PROVE Typed'
  BY <1>2, TrackedStepType, UntrackedStepType, ReconcilerStepType DEF ThreadStep
<1>3. ASSUME NEW p \in Scanners, ScannerStep(p) PROVE Typed'
  BY <1>3, PassStepType DEF ScannerStep
<1> QED BY <1>1, <1>2, <1>3 DEF System

LEMMA StutterType == Typed /\ UNCHANGED vars => Typed'
BY Keep DEF Typed, vars

LEMMA InitType == Init => Typed
<1> SUFFICES ASSUME NEW st \in [Apps -> InitStates], NEW c \in [Apps -> InitIds],
             LET F(a) == [id |-> c[a], net |-> st[a] # "new"]
                 Ran(a) == st[a] \in {"deployed", "imported"}
             IN
             /\ TrackerInit
             /\ file = [a \in Apps |-> IF st[a] = "empty" THEN NoFile ELSE F(a)]
             /\ row = [a \in Apps |-> IF Ran(a)
                THEN [id |-> 1, hash |-> hashFile(F(a)), status |-> "running",
                      archived |-> FALSE,
                      path |-> IF st[a] = "deployed" THEN "ok" ELSE "old"]
                ELSE NoRow]
             /\ docker = [a \in Apps |-> IF Ran(a)
                   THEN [img |-> F(a), st |-> "up"]
                   ELSE [img |-> NoFile, st |-> "none"]]
             /\ versions = [a \in Apps |-> IF Ran(a) THEN <<F(a)>> ELSE <<>>]
             /\ hist = [gone |-> {a \in Apps : st[a] = "empty"}, raced |-> {},
                reverted |-> {}, starved |-> {}, relabelled |-> {},
                tried |-> [a \in Apps |-> IF Ran(a) THEN F(a) ELSE NoFile]]
             /\ nextId = 2 /\ tombs = {} /\ dirty = TRUE /\ spent = 0
             /\ th = [t \in Threads |-> IdleThread]
             /\ ps = [p \in Scanners |-> IdlePass]
             /\ routes = [a \in Apps |-> NoFile]
      PROVE  Typed
  BY DEF Init
<1> DEFINE F(a) == [id |-> c[a], net |-> st[a] # "new"]
<1>1. \A a \in Apps : F(a) \in Content BY LifecycleAssumption DEF Content
<1> HIDE DEF F
<1>2. TrackerType BY DEF TrackerInit, TrackerType
<1>3. FilesOK BY <1>1 DEF F, FilesOK, File, History
<1>4. DockerOK BY <1>1 DEF F, DockerOK, Project, File
<1>5. ThreadsOK BY IdleThreadType DEF ThreadsOK, GoodThread, IdleThread
<1>6. PassesOK BY IdlePassGood DEF PassesOK
<1>7. RoutesOK BY DEF RoutesOK, File
<1>8. SpentOK BY LifecycleAssumption DEF SpentOK
<1>9. StoreType
  <2>1. \A a \in Apps : hashFile(F(a)) \in Hash BY <1>1, HashType DEF File
  <2>2. row \in [Apps -> Row \cup {NoRow}]
    BY <2>1 DEF F, Row, Status
  <2>3. versions \in [Apps -> Seq(Content)]
        /\ \A a \in Apps : Len(versions[a]) <= 1
    BY <1>1 DEF F
  <2>4. \A a \in Apps : Len(versions[a]) <= KeepVersions
    <3> TAKE a \in Apps
    <3>1. Len(versions[a]) \in Nat BY <2>3
    <3> QED BY <2>3, <3>1, KeepVersionsAssumption
  <2> QED BY <2>2, <2>3, <2>4 DEF StoreType
<1> QED BY <1>2, <1>3, <1>4, <1>5, <1>6, <1>7, <1>8, <1>9 DEF Typed

LEMMA TypedInvariant == Spec => []Typed
<1>1. Typed /\ [Next]_vars => Typed'
  BY ApiRequestType, OutsideType, SystemType, StutterType DEF Next
<1> QED BY <1>1, InitType, PTL DEF Spec

\* Type correctness, including the bound CreateComposeVersion keeps on the
\* compose history, holds in every reachable state.
THEOREM TypeCorrect == Spec => []TypeOK
BY TypedInvariant, TypedImpliesTypeOK, PTL
=============================================================================
