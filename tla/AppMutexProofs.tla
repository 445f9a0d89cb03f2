--------------------------- MODULE AppMutexProofs ---------------------------
(***************************************************************************)
(* The Tracker's promise: tracked compose commands exclude each other per  *)
(* app, no log outlives its command, and the lifecycle implements          *)
(* DeployMutex.  That follows from one invariant, Held, and from a         *)
(* classification of the steps by what they do to a goroutine's place and  *)
(* to the logs.  Where nobody cancels the flights are the logs (Together), *)
(* and under LoopOnly no edit is lost: Loop.                               *)
(***************************************************************************)
EXTENDS AppTypeProofs

\* A command runs for an app exactly when the app's log is its own.
Held == \A a \in Apps, t \in Threads : Runs(t, a) <=> logs[a] = t

OnlyThread(t) == \A u \in Threads \ {t} : th'[u] = th[u]

StaysOut(t) ==
  /\ th[t].pc \notin TrackedPc /\ th'[t].pc \notin TrackedPc
  /\ logs' = logs

StaysIn(t) ==
  /\ th[t].pc \in TrackedPc /\ th'[t].pc \in TrackedPc
  /\ th'[t].app = th[t].app
  /\ logs' = logs

Enters(t) ==
  /\ th[t].pc \notin TrackedPc /\ th'[t].pc \in TrackedPc
  /\ th'[t].app \in Apps /\ logs[th'[t].app] = Nobody
  /\ logs' = [logs EXCEPT ![th'[t].app] = t]

Leaves(t) ==
  /\ th[t].pc \in TrackedPc /\ th'[t].pc \notin TrackedPc
  /\ th[t].app \in Apps
  /\ logs' = [logs EXCEPT ![th[t].app] = Nobody]

Move(t) == OnlyThread(t) /\ (StaysOut(t) \/ StaysIn(t) \/ Enters(t) \/ Leaves(t))

Death ==
  /\ \A t \in Threads : th'[t].pc \notin TrackedPc
  /\ logs' = [a \in Apps |-> Nobody]

Still == UNCHANGED <<th, logs>>

Moves == (\E t \in Threads : Move(t)) \/ Death \/ Still

----------------------------------------------------------------------------
(* Every step is one of these moves.                                       *)

LEMMA PcSets == /\ TrackedPc \cap PlainPc = {}
                /\ {"check", "pull", "up", "upEnd", "restart", "stab"} = TrackedPc
                /\ "idle" \in PlainPc
BY DEF TrackedPc, PlainPc

LEMMA EndMoves ==
  ASSUME Typed, NEW t \in Threads, th[t].pc \notin TrackedPc, EndThread(t),
         UNCHANGED logs
  PROVE  Move(t)
BY PcSets DEF Typed, ThreadsOK, EndThread, IdleThread, Move, OnlyThread, StaysOut

LEMMA GotoMoves ==
  ASSUME Typed, NEW t \in Threads, th[t].pc \notin TrackedPc,
         NEW pc \in PlainPc, Goto(t, pc), UNCHANGED logs
  PROVE  Move(t)
<1>1. th'[t].pc = pc /\ OnlyThread(t)
  BY DEF Typed, ThreadsOK, GoodThread, Thread, Goto, OnlyThread
<1> QED BY <1>1, PcSets DEF Move, StaysOut

LEMMA GotoMovesIn ==
  ASSUME Typed, NEW t \in Threads, th[t].pc \in TrackedPc,
         NEW pc \in TrackedPc, Goto(t, pc), UNCHANGED logs
  PROVE  Move(t)
<1>1. th'[t].pc = pc /\ th'[t].app = th[t].app /\ OnlyThread(t)
  BY DEF Typed, ThreadsOK, GoodThread, Thread, Goto, OnlyThread
<1> QED BY <1>1 DEF Move, StaysIn

LEMMA ReturnMoves ==
  ASSUME Typed, NEW t \in Threads, th[t].pc \in TrackedPc, NEW res, Return(t, res)
  PROVE  Move(t)
<1>1. Continue(t) \in PlainPc BY DEF Continue, PlainPc
<1>2. th'[t].pc = Continue(t) /\ OnlyThread(t)
  BY DEF Typed, ThreadsOK, GoodThread, Thread, Return, OnlyThread
<1>3. th[t].app \in Apps BY ThreadFields, PcSets DEF Typed
<1>4. logs' = [logs EXCEPT ![th[t].app] = Nobody]
  BY DEF Return, DoneWithLogStatus
<1> QED BY <1>1, <1>2, <1>3, <1>4, PcSets DEF Move, Leaves

LEMMA TrackedStepMoves ==
  ASSUME Typed, NEW t \in Threads, TrackedStep(t)
  PROVE  Moves
<1> SUFFICES Move(t) BY DEF Moves
<1>1. CASE Track(t)
  <2>1. th[t].app \in Apps BY <1>1, ThreadFields DEF Track, Typed
  <2>2. \E pc \in TrackedPc : Goto(t, pc)
    BY <1>1, PcSets DEF Track
  <2>3. th'[t].pc \in TrackedPc /\ th'[t].app = th[t].app /\ OnlyThread(t)
    BY <2>2 DEF Typed, ThreadsOK, GoodThread, Thread, Goto, OnlyThread
  <2>4. th[t].pc \notin TrackedPc BY <1>1 DEF Track, TrackedPc
  <2>5. /\ logs[th[t].app] = Nobody
        /\ logs' = [logs EXCEPT ![th[t].app] = t]
    BY <1>1 DEF Track, TrackWithLog, Busy
  <2> QED BY <2>1, <2>3, <2>4, <2>5 DEF Move, Enters
<1>2. CASE CheckOk(t) \/ PullImages(t) \/ UpOk(t) \/ RestartOk(t)
  BY <1>2, GotoMovesIn, PcSets
  DEF CheckOk, PullImages, UpOk, RestartOk, trackerVars
<1>3. CASE Refuse(t) \/ PullFails(t) \/ UpFails(t) \/ RestartFails(t)
           \/ Stabilize(t)
  BY <1>3, ReturnMoves, PcSets
  DEF Refuse, PullFails, UpFails, RestartFails, Stabilize
<1>4. CASE UpRead(t)
  <2>1. /\ OnlyThread(t) /\ th'[t].app = th[t].app
        /\ th'[t].pc = IF th[t].pc = "up" THEN "upEnd" ELSE "cUpEnd"
    BY <1>4 DEF UpRead, Typed, ThreadsOK, GoodThread, Thread, OnlyThread
  <2>2. th[t].pc \in {"up", "cUp"} /\ logs' = logs
    BY <1>4 DEF UpRead, trackerVars
  <2>3. CASE th[t].pc = "up"
    BY <2>1, <2>2, <2>3, PcSets DEF Move, StaysIn
  <2>4. CASE th[t].pc = "cUp"
    BY <2>1, <2>2, <2>4 DEF Move, StaysOut, TrackedPc
  <2> QED BY <2>2, <2>3, <2>4
<1> QED BY <1>1, <1>2, <1>3, <1>4 DEF TrackedStep

LEMMA UntrackedStepMoves ==
  ASSUME Typed, NEW t \in Threads, UntrackedStep(t)
  PROVE  Moves
<1> SUFFICES Move(t) BY DEF Moves
<1>1. th[t].pc \notin TrackedPc /\ logs' = logs
  BY DEF UntrackedStep, CancelCheck, CancelUpEnd, Stop, Start, Scale, TrackedPc,
         trackerVars
<1>2. EndThread(t) \/ \E pc \in PlainPc : Goto(t, pc)
  BY DEF UntrackedStep, CancelCheck, CancelUpEnd, Stop, Start, Scale, PlainPc
<1> QED BY <1>1, <1>2, EndMoves, GotoMoves

LEMMA ReconcilerStepMoves ==
  ASSUME Typed, NEW t \in Threads, ReconcilerStep(t)
  PROVE  Moves
<1> SUFFICES Move(t) BY DEF Moves
<1>1. CASE ReadHash(t)
  <2>1. OnlyThread(t) /\ th'[t].pc = "upsert"
    BY <1>1 DEF ReadHash, Typed, ThreadsOK, GoodThread, Thread, OnlyThread
  <2> QED BY <1>1, <2>1 DEF ReadHash, trackerVars, Move, StaysOut, TrackedPc
<1>2. CASE StoreApp(t)
  <2>1. OnlyThread(t) /\ th'[t].pc \in {"version", "idle"}
    BY <1>2 DEF StoreApp, EndThread, IdleThread, Typed, ThreadsOK, GoodThread,
                Thread, OnlyThread
  <2> QED BY <1>2, <2>1 DEF StoreApp, trackerVars, Move, StaysOut, TrackedPc
<1>3. CASE RollbackWrite(t)
  <2>1. OnlyThread(t) /\ th'[t].pc \in {"parse", "idle"}
    BY <1>3 DEF RollbackWrite, EndThread, IdleThread, Typed, ThreadsOK,
                GoodThread, Thread, OnlyThread
  <2> QED BY <1>3, <2>1 DEF RollbackWrite, trackerVars, Move, StaysOut, TrackedPc
<1>4. CASE StatusQuery(t)
  <2>1. OnlyThread(t) /\ th'[t].pc \in {"rsUpdate", "idle"}
    BY <1>4 DEF StatusQuery, EndThread, IdleThread, Typed, ThreadsOK,
                GoodThread, Thread, OnlyThread
  <2> QED BY <1>4, <2>1 DEF StatusQuery, trackerVars, Move, StaysOut, TrackedPc
<1>5. CASE LoadConfig(t) \/ Skipped(t) \/ RollbackCheck(t) \/ StoreVersion(t)
           \/ SetStatus(t) \/ RollbackRestore(t)
  <2>1. th[t].pc \notin TrackedPc /\ logs' = logs
    BY <1>5 DEF LoadConfig, Skipped, RollbackCheck, StoreVersion, SetStatus,
                RollbackRestore, TrackedPc, trackerVars
  <2>2. EndThread(t) \/ \E pc \in PlainPc : Goto(t, pc)
    BY <1>5 DEF LoadConfig, Skipped, RollbackCheck, StoreVersion, SetStatus,
                RollbackRestore, PlainPc
  <2> QED BY <2>1, <2>2, EndMoves, GotoMoves
<1>6. CASE RemoveTeardown(t) \/ RemovePurge(t) \/ RemoveFiles(t)
           \/ RemoveRow(t) \/ PurgeTombstone(t) \/ StatusUpdate(t)
  <2>1. th[t].pc \notin TrackedPc /\ logs' = logs
    BY <1>6 DEF RemoveTeardown, RemovePurge, RemoveFiles, RemoveRow,
                PurgeTombstone, StatusUpdate, TrackedPc, trackerVars
  <2>2. EndThread(t) \/ \E pc \in PlainPc : Goto(t, pc)
    BY <1>6 DEF RemoveTeardown, RemovePurge, RemoveFiles, RemoveRow,
                PurgeTombstone, StatusUpdate, PlainPc
  <2> QED BY <2>1, <2>2, EndMoves, GotoMoves
<1> QED BY <1>1, <1>2, <1>3, <1>4, <1>5, <1>6 DEF ReconcilerStep

\* A goroutine starts from idle at a place outside the Tracker.
LEMMA StartMoves ==
  ASSUME Typed, NEW t, Idle(t), NEW op, NEW a, NEW pc \in PlainPc,
         StartThread(t, op, pc, a), UNCHANGED logs
  PROVE  Moves
<1>1. CASE t \in Threads
  <2>1. OnlyThread(t) /\ th'[t].pc = pc
    BY <1>1 DEF StartThread, IdleThread, Typed, ThreadsOK, OnlyThread
  <2>2. th[t].pc \notin TrackedPc BY DEF Idle, TrackedPc
  <2> QED BY <1>1, <2>1, <2>2, PcSets DEF Moves, Move, StaysOut
<1>2. CASE t \notin Threads
  <2>1. th' = th BY <1>2 DEF StartThread, Typed, ThreadsOK
  <2> QED BY <2>1 DEF Moves, Still
<1> QED BY <1>1, <1>2

LEMMA PassStepMoves ==
  ASSUME Typed, NEW p \in Scanners, PassStep(p)
  PROVE  Moves
<1>1. CASE InjectNetwork(p) \/ ScanDone(p) \/ WaitDeploys(p) \/ ArchiveTeardown(p)
           \/ ArchiveSidecar(p) \/ ArchiveTombstone(p) \/ ArchiveMark(p)
           \/ ArchiveDone(p) \/ HashesDone(p) \/ SetRoutes(p)
  BY <1>1 DEF InjectNetwork, ScanDone, WaitDeploys, ArchiveTeardown,
              ArchiveSidecar, ArchiveTombstone, ArchiveMark, ArchiveDone,
              HashesDone, SetRoutes, trackerVars, Moves, Still
<1>2. ASSUME NEW a \in Apps,
             ScanApp(p, a) \/ ArchiveLoop(p, a) \/ RefreshHash(p, a)
               \/ RetryStarts(a)
      PROVE  Moves
  BY <1>2 DEF ScanApp, ArchiveLoop, RefreshHash, RetryStarts, trackerVars, Moves,
              Still
<1>3. ASSUME NEW a \in Apps, DeployLoop(p, a) PROVE Moves
  <2>1. logs' = logs BY <1>3 DEF DeployLoop, trackerVars
  <2>2. CASE VisitUnchanged(p, a) \/ VisitDeploying(p, a)
    BY <2>1, <2>2 DEF VisitUnchanged, VisitDeploying, Moves, Still
  <2>3. CASE VisitChanged(p, a)
    BY <2>1, <2>3, StartMoves DEF VisitChanged, PlainPc
  <2> QED BY <1>3, <2>2, <2>3 DEF DeployLoop
<1> QED BY <1>1, <1>2, <1>3 DEF PassStep

LEMMA ApiRequestMoves == Typed /\ ApiRequest => Moves
<1> SUFFICES ASSUME Typed, NEW j \in Jobs, NEW a \in Apps,
      \/ ApiRestart(j, a) \/ ApiPull(j, a) \/ ApiCancel(j, a) \/ ApiStop(j, a)
      \/ ApiStart(j, a) \/ ApiScale(j, a) \/ ApiRemove(j, a) \/ ApiPurge(j, a)
      \/ RefreshStatuses(j, a)
      \/ \E id \in Ids : ApiDeploy(j, a, id) \/ ApiRelabel(j, a, id)
      \/ \E i \in 1..KeepVersions : ApiRollback(j, a, i)
    PROVE Moves
  BY DEF ApiRequest
<1>0. j \in Threads BY JobInThreads
<1>1. CASE ApiRestart(j, a) \/ ApiPull(j, a) \/ ApiStop(j, a) \/ ApiStart(j, a)
           \/ ApiScale(j, a) \/ ApiPurge(j, a)
  BY <1>1, StartMoves DEF ApiRestart, ApiPull, ApiStop, ApiStart, ApiScale,
                          ApiPurge, PlainPc, trackerVars
<1>2. CASE ApiCancel(j, a)
  BY <1>2, StartMoves DEF ApiCancel, CancelFlight, PlainPc
<1>3. CASE ApiRemove(j, a)
  BY <1>3, StartMoves DEF ApiRemove, PlainPc, trackerVars, Moves, Still
<1>4. CASE RefreshStatuses(j, a)
  <2>1. OnlyThread(j) /\ th'[j].pc = "rsQuery" /\ logs' = logs
    BY <1>0, <1>4 DEF RefreshStatuses, IdleThread, Typed, ThreadsOK, OnlyThread,
                      trackerVars
  <2>2. th[j].pc \notin TrackedPc BY <1>4 DEF RefreshStatuses, Idle, TrackedPc
  <2> QED BY <1>0, <2>1, <2>2 DEF Moves, Move, StaysOut, TrackedPc
<1>5. ASSUME NEW id \in Ids, ApiDeploy(j, a, id) PROVE Moves
  BY <1>5, StartMoves DEF ApiDeploy, PlainPc, trackerVars
<1>6. ASSUME NEW id \in Ids, ApiRelabel(j, a, id) PROVE Moves
  BY <1>6 DEF ApiRelabel, trackerVars, Moves, Still
<1>7. ASSUME NEW i \in 1..KeepVersions, ApiRollback(j, a, i) PROVE Moves
  <2>1. OnlyThread(j) /\ th'[j].pc = "rbCheck" /\ logs' = logs
    BY <1>0, <1>7 DEF ApiRollback, IdleThread, Typed, ThreadsOK, OnlyThread,
                      trackerVars
  <2>2. th[j].pc \notin TrackedPc BY <1>7 DEF ApiRollback, Idle, TrackedPc
  <2> QED BY <1>0, <2>1, <2>2 DEF Moves, Move, StaysOut, TrackedPc
<1> QED BY <1>1, <1>2, <1>3, <1>4, <1>5, <1>6, <1>7

LEMMA OutsideMoves == Typed /\ Outside => Moves
<1>1. ASSUME Crash PROVE Death
  BY <1>1 DEF Crash, Death, IdleThread, TrackedPc
<1>2. ASSUME NEW a \in Apps,
             DeleteDir(a) \/ HealthFlip(a) \/ RetryTimesOut(a)
      PROVE Still
  BY <1>2 DEF DeleteDir, HealthFlip, RetryTimesOut, trackerVars, Still
<1>3. ASSUME NEW a \in Apps, NEW id \in Ids, NEW net \in EditNet, Edit(a, id, net)
      PROVE Still
  BY <1>3 DEF Edit, trackerVars, Still
<1> QED BY <1>1, <1>2, <1>3 DEF Outside, Moves

LEMMA NextMoves == Typed /\ [Next]_vars => Moves
<1> SUFFICES ASSUME Typed, [Next]_vars PROVE Moves OBVIOUS
<1>1. CASE UNCHANGED vars BY <1>1 DEF vars, trackerVars, Moves, Still
<1>2. ASSUME NEW w \in Watchers, WatcherFires(w) PROVE Moves
  BY <1>2 DEF WatcherFires, trackerVars, Moves, Still
<1>3. ASSUME NEW t \in Threads, ThreadStep(t) PROVE Moves
  BY <1>3, TrackedStepMoves, UntrackedStepMoves, ReconcilerStepMoves
  DEF ThreadStep
<1>4. ASSUME NEW p \in Scanners, ScannerStep(p) PROVE Moves
  BY <1>4, PassStepMoves DEF ScannerStep
<1> QED
  BY <1>1, <1>2, <1>3, <1>4, ApiRequestMoves, OutsideMoves DEF Next, System

----------------------------------------------------------------------------
(* The invariant, and what follows from it.                                *)

LEMMA HeldMove ==
  ASSUME Typed, Held, NEW t \in Threads, Move(t)
  PROVE  Held'
<1> SUFFICES ASSUME NEW a \in Apps, NEW u \in Threads
             PROVE  Runs(u, a)' <=> logs'[a] = u
  BY DEF Held
<1>0. /\ Nobody \notin Threads /\ logs \in [Apps -> Threads \cup {Nobody}]
      /\ \A b \in Apps : Runs(t, b) <=> logs[b] = t
      /\ Runs(u, a) <=> logs[a] = u
  BY ThreadsAssumption DEF Held, Typed, TrackerType
<1>1. CASE u # t
  <2>1. Runs(u, a)' <=> Runs(u, a) BY <1>1 DEF Move, OnlyThread, Runs
  <2>2. CASE StaysOut(t) \/ StaysIn(t)
    BY <1>0, <2>1, <2>2 DEF StaysOut, StaysIn
  <2>3. CASE Enters(t)
    BY <1>0, <1>1, <2>1, <2>3 DEF Enters
  <2>4. CASE Leaves(t)
    <3>1. logs[th[t].app] = t BY <1>0, <2>4 DEF Leaves, Runs
    <3> QED BY <1>0, <1>1, <2>1, <2>4, <3>1 DEF Leaves
  <2> QED BY <2>2, <2>3, <2>4 DEF Move
<1>2. CASE u = t
  <2>1. CASE StaysOut(t) BY <1>0, <1>2, <2>1 DEF StaysOut, Runs
  <2>2. CASE StaysIn(t) BY <1>0, <1>2, <2>2 DEF StaysIn, Runs
  <2>3. CASE Enters(t)
    <3>1. logs[a] # t BY <1>0, <2>3 DEF Enters, Runs
    <3> QED BY <1>0, <1>2, <2>3, <3>1 DEF Enters, Runs
  <2>4. CASE Leaves(t)
    <3>1. ~Runs(u, a)' BY <1>2, <2>4 DEF Leaves, Runs
    <3>2. a # th[t].app => logs[a] # t BY <1>0 DEF Runs
    <3> QED BY <1>0, <1>2, <2>4, <3>1, <3>2 DEF Leaves
  <2> QED BY <2>1, <2>2, <2>3, <2>4 DEF Move
<1> QED BY <1>1, <1>2

LEMMA HeldInvariant == Spec => [](Typed /\ Held)
<1>1. Init => Held
  BY ThreadsAssumption DEF Init, TrackerInit, Held, Runs, IdleThread, TrackedPc
<1>2. Typed /\ Held /\ [Next]_vars => Held'
  <2> SUFFICES ASSUME Typed, Held, [Next]_vars PROVE Held' OBVIOUS
  <2>1. Moves BY NextMoves
  <2>2. CASE Death
    BY <2>2, ThreadsAssumption DEF Death, Held, Runs
  <2>3. CASE Still BY <2>3 DEF Still, Held, Runs
  <2> QED BY <2>1, <2>2, <2>3, HeldMove DEF Moves
<1> QED BY <1>1, <1>2, TypedInvariant, PTL DEF Spec

\* No two of Deploy, RollbackDeploy, Restart and Pull run docker compose on the
\* same project at once, whatever is cancelled, retried or crashes.
THEOREM DeploysExclude == Spec => []OneDeployPerApp
<1>1. Typed /\ Held => OneDeployPerApp BY DEF Held, OneDeployPerApp
<1> QED BY <1>1, HeldInvariant, PTL

\* Every Tracker log belongs to a command that still runs: no return path of
\* the deployer leaves an app locked.
THEOREM LogsAreHeld == Spec => []LogIsHeld
<1>1. Typed /\ Held => LogIsHeld
  BY DEF Held, LogIsHeld, Busy, Typed, TrackerType
<1> QED BY <1>1, HeldInvariant, PTL

----------------------------------------------------------------------------
(* Refinement of DeployMutex.                                              *)

LEMMA MoveRefines ==
  ASSUME Typed, Held, NEW t \in Threads, Move(t)
  PROVE  \/ \E a \in Apps : Mutex!Begin(a, t) \/ Mutex!End(a, t)
         \/ UNCHANGED Users
<1>0. Held' BY HeldMove
<1>1. CASE StaysOut(t) \/ StaysIn(t)
  <2>1. \A a \in Apps, u \in Threads : Runs(u, a)' <=> Runs(u, a)
    BY <1>0, <1>1 DEF Held, StaysOut, StaysIn
  <2> QED BY <2>1 DEF Users
<1>2. CASE Enters(t)
  <2> DEFINE a == th'[t].app
  <2>1. a \in Apps /\ logs[a] = Nobody /\ logs \in [Apps -> Threads \cup {Nobody}]
    BY <1>2 DEF Enters, Typed, TrackerType
  <2>2. Users[a] = {}
    BY <2>1, ThreadsAssumption DEF Users, Held
  <2>3. \A b \in Apps, u \in Threads :
          Runs(u, b)' <=> IF b = a THEN u = t ELSE Runs(u, b)
    BY <1>0, <1>2, <2>1 DEF Held, Enters
  <2>4. Users' = [Users EXCEPT ![a] = {t}]
    BY <2>1, <2>3 DEF Users
  <2> QED BY <2>1, <2>2, <2>4 DEF Mutex!Begin
<1>3. CASE Leaves(t)
  <2> DEFINE a == th[t].app
  <2>1. a \in Apps /\ logs[a] = t /\ logs \in [Apps -> Threads \cup {Nobody}]
    BY <1>3 DEF Leaves, Held, Runs, Typed, TrackerType
  <2>2. Users[a] = {t}
    <3>1. \A u \in Threads : Runs(u, a) <=> u = t BY <2>1 DEF Held
    <3>2. {u \in Threads : Runs(u, a)} = {t} BY <3>1
    <3> QED BY <2>1, <3>2 DEF Users
  <2>3. \A b \in Apps, u \in Threads :
          Runs(u, b)' <=> b # a /\ Runs(u, b)
    BY <1>0, <1>3, <2>1, ThreadsAssumption DEF Held, Leaves
  <2>4. Users' = [Users EXCEPT ![a] = {}]
    BY <2>1, <2>3 DEF Users
  <2> QED BY <2>1, <2>2, <2>4 DEF Mutex!End
<1> QED BY <1>1, <1>2, <1>3 DEF Move

\* The lifecycle implements DeployMutex: a tracked command begins only when
\* none runs for its app, and every step of the reconciler, the handlers, a
\* cancel or a crash is a begin, an end, the death of all, or no change.
THEOREM ImplementsMutex == Spec => MutexSpec
<1>1. Init => Mutex!Init
  BY DEF Init, Mutex!Init, Users, Runs, IdleThread, TrackedPc
<1>2. Typed /\ Held /\ [Next]_vars => [Mutex!Next]_Users
  <2> SUFFICES ASSUME Typed, Held, [Next]_vars PROVE [Mutex!Next]_Users OBVIOUS
  <2>1. Moves BY NextMoves
  <2>2. ASSUME NEW t \in Threads, Move(t) PROVE [Mutex!Next]_Users
    BY <2>2, MoveRefines DEF Mutex!Next
  <2>3. CASE Death
    <3>1. \A a \in Apps, t \in Threads : ~Runs(t, a)'
      BY <2>3 DEF Death, Runs
    <3>2. \A a \in Apps : {t \in Threads : Runs(t, a)'} = {}
      BY <3>1
    <3>3. Users' = [a \in Apps |-> {}] BY <3>2 DEF Users
    <3> QED BY <3>3 DEF Mutex!Die, Mutex!Next
  <2>4. CASE Still
    <3>1. UNCHANGED Users BY <2>4 DEF Still, Users, Runs
    <3> QED BY <3>1
  <2> QED BY <2>1, <2>2, <2>3, <2>4 DEF Moves
<1> QED BY <1>1, <1>2, HeldInvariant, PTL DEF Spec, MutexSpec, Mutex!Spec

----------------------------------------------------------------------------
(* Flights.  CancelOne takes a flight away while its command still runs;   *)
(* without cancels the flights, which a retry polls, are the logs, which   *)
(* say who runs.                                                           *)

Uncancelled == "cancel" \notin Ops

\* The flights that IsDeploying looks at are the logs that say who runs.
Together == flights = logs

LEMMA TrackedTogether ==
  ASSUME Together, NEW t, TrackedStep(t)
  PROVE  Together'
<1>1. CASE Track(t) BY <1>1 DEF Together, Track, TrackWithLog
<1>2. CASE Refuse(t) \/ PullFails(t) \/ UpFails(t) \/ RestartFails(t)
           \/ Stabilize(t)
  BY <1>2 DEF Together, Refuse, PullFails, UpFails, RestartFails, Stabilize, Return,
              DoneWithLogStatus
<1>3. CASE CheckOk(t) \/ PullImages(t) \/ UpRead(t) \/ UpOk(t) \/ RestartOk(t)
  BY <1>3 DEF Together, CheckOk, PullImages, UpRead, UpOk, RestartOk, trackerVars
<1> QED BY <1>1, <1>2, <1>3 DEF TrackedStep

LEMMA UntrackedTogether ==
  ASSUME NEW t, UntrackedStep(t) \/ ReconcilerStep(t)
  PROVE  UNCHANGED <<flights, logs>>
<1>1. CASE UntrackedStep(t)
  BY <1>1 DEF UntrackedStep, CancelCheck, CancelUpEnd, Stop, Start, Scale,
              trackerVars
<1>2. CASE LoadConfig(t) \/ Skipped(t) \/ ReadHash(t) \/ StoreApp(t)
           \/ StoreVersion(t) \/ SetStatus(t) \/ RollbackCheck(t)
           \/ RollbackWrite(t) \/ RollbackRestore(t)
  BY <1>2 DEF LoadConfig, Skipped, ReadHash, StoreApp, StoreVersion, SetStatus,
              RollbackCheck, RollbackWrite, RollbackRestore, trackerVars
<1>3. CASE RemoveTeardown(t) \/ RemovePurge(t) \/ RemoveFiles(t) \/ RemoveRow(t)
           \/ PurgeTombstone(t) \/ StatusQuery(t) \/ StatusUpdate(t)
  BY <1>3 DEF RemoveTeardown, RemovePurge, RemoveFiles, RemoveRow,
              PurgeTombstone, StatusQuery, StatusUpdate, trackerVars
<1> QED BY <1>1, <1>2, <1>3 DEF ReconcilerStep

LEMMA PassTogether ==
  ASSUME NEW p, PassStep(p)
  PROVE  UNCHANGED <<flights, logs>>
<1>1. CASE InjectNetwork(p) \/ ScanDone(p) \/ WaitDeploys(p) \/ ArchiveTeardown(p)
           \/ ArchiveSidecar(p) \/ ArchiveTombstone(p) \/ ArchiveMark(p)
           \/ ArchiveDone(p) \/ HashesDone(p) \/ SetRoutes(p)
  BY <1>1 DEF InjectNetwork, ScanDone, WaitDeploys, ArchiveTeardown,
              ArchiveSidecar, ArchiveTombstone, ArchiveMark, ArchiveDone,
              HashesDone, SetRoutes, trackerVars
<1>2. ASSUME NEW a \in Apps,
             \/ ScanApp(p, a) \/ DeployLoop(p, a) \/ ArchiveLoop(p, a)
             \/ RefreshHash(p, a) \/ RetryStarts(a)
      PROVE  UNCHANGED <<flights, logs>>
  BY <1>2 DEF ScanApp, DeployLoop, ArchiveLoop, RefreshHash, RetryStarts,
              trackerVars
<1> QED BY <1>1, <1>2 DEF PassStep

LEMMA ApiTogether ==
  ASSUME Uncancelled, ApiRequest
  PROVE  UNCHANGED <<flights, logs>>
<1> SUFFICES ASSUME NEW j \in Jobs, NEW a \in Apps,
      \/ ApiRestart(j, a) \/ ApiPull(j, a) \/ ApiCancel(j, a) \/ ApiStop(j, a)
      \/ ApiStart(j, a) \/ ApiScale(j, a) \/ ApiRemove(j, a) \/ ApiPurge(j, a)
      \/ RefreshStatuses(j, a)
      \/ \E id \in Ids : ApiDeploy(j, a, id) \/ ApiRelabel(j, a, id)
      \/ \E i \in 1..KeepVersions : ApiRollback(j, a, i)
    PROVE UNCHANGED <<flights, logs>>
  BY DEF ApiRequest
<1>1. ~ApiCancel(j, a) BY DEF ApiCancel, Request, Uncancelled
<1> QED
  BY <1>1 DEF ApiRestart, ApiPull, ApiStop, ApiStart, ApiScale, ApiRemove,
              ApiPurge, RefreshStatuses, ApiDeploy, ApiRelabel, ApiRollback,
              trackerVars

LEMMA OutsideTogether ==
  ASSUME Together, Outside
  PROVE  Together'
<1>1. CASE Crash BY <1>1 DEF Together, Crash
<1>2. ASSUME NEW a \in Apps,
             \/ DeleteDir(a) \/ HealthFlip(a) \/ RetryTimesOut(a)
             \/ \E id \in Ids, net \in EditNet : Edit(a, id, net)
      PROVE  Together'
  BY <1>2 DEF Together, DeleteDir, HealthFlip, RetryTimesOut, Edit, trackerVars
<1> QED BY <1>1, <1>2 DEF Outside

LEMMA FlightsAreLogs == ASSUME Uncancelled PROVE Spec => []Together
<1>1. Init => Together BY DEF Init, TrackerInit, Together
<1>2. Together /\ [Next]_vars => Together'
  <2> SUFFICES ASSUME Together, [Next]_vars PROVE Together' OBVIOUS
  <2>1. CASE UNCHANGED vars BY <2>1 DEF Together, vars, trackerVars
  <2>2. CASE System
    BY <2>2, TrackedTogether, UntrackedTogether, PassTogether
    DEF Together, System, WatcherFires, ThreadStep, ScannerStep, trackerVars
  <2> QED BY <2>1, <2>2, ApiTogether, OutsideTogether DEF Next, Together
<1> QED BY <1>1, <1>2, PTL DEF Spec

----------------------------------------------------------------------------
(* Edits.  At rest every allowed file has been through docker compose,     *)
(* unless the app was disturbed.  While one is owed a compose up, the hash *)
(* in its row differs from it, so that Reconcile sees the difference, and  *)
(* an event, a goroutine or a pass is on its way to deploy it.             *)

\* No pull, cancel or label edit, and no row from another layout.
LoopOnly == Ops \cap {"pull", "cancel", "relabel"} = {} /\ "imported" \notin InitStates

\* The allowed file of a has not been through a compose up.
Owed(a) == Allowed(file[a]) /\ hist.tried[a] # file[a]

DeployOp == {"deploy", "rollback"}
DeployPc == {"parse", "track", "check", "up", "upEnd", "stab", "hash", "upsert",
             "version", "rbCheck", "rbWrite", "restore"}
RestartPc == {"parse", "track", "restart", "stab", "setStatus"}
OtherPc == {"idle", "setStatus", "stop", "start", "scale", "rmDown", "rmPurge",
            "rmFiles", "rmRow", "pgTomb", "rsQuery", "rsUpdate"}

\* Where a goroutine can be, by what it does.
Role(r) ==
  \/ r.op \in DeployOp /\ r.pc \in DeployPc
  \/ r.op = "restart" /\ r.pc \in RestartPc
  \/ r.op \notin DeployOp \cup {"restart"} /\ r.pc \in OtherPc
RolesOK == \A t \in Threads : Role(th[t])

\* A row or a listing from another layout has no hash; no pass is RefreshRoutes,
\* and only the loop's own passes deploy.
Bare(r) == r # NoRow /\ r.path # "ok" => r.hash = NoHash
RowsBare == \A a \in Apps : Bare(row[a])
PassesFit ==
  \A p \in Scanners :
    /\ ps[p].kind # "refresh" /\ ps[p].pc # "hashes"
    /\ ps[p].pc = "deploy" => ps[p].kind = "reconcile"
    /\ ps[p].pc # "idle" /\ ps[p].kind = "reconcile" => p \in Passes
    /\ \A a \in Apps : Bare(ps[p].list[a])

\* The stored hash differs from a file that is owed.
HashTells(a) == Owed(a) /\ HasRow(a) => row[a].hash # hashFile(file[a])

\* A deploy that will store a hash has composed up the newest file, or will.
Stores(r, a) ==
  r.app = a /\ r.op \in DeployOp /\ r.pc \in {"upEnd", "stab", "hash", "upsert"}
StoresNewest(a) ==
  \A t \in Threads : Stores(th[t], a) =>
    IF th[t].pc = "upEnd" THEN th[t].seen = file[a] ELSE ~Owed(a)

\* A goroutine that will read the file, or put back the one it replaced.
Reader(r, a) ==
  /\ r.app = a /\ r.op \in DeployOp
  /\ r.pc \in {"parse", "track", "check", "up", "upEnd", "restore"}

\* A pass that will find the file f of app a changed.
Finder(r, a, f) ==
  \/ r.pc = "poll"
  \/ /\ r.pc \in {"scan", "inject"} /\ r.kind = "reconcile"
     /\ a \in r.todo \/ r.scan[a] = f
  \/ /\ r.pc = "deploy" /\ a \in r.todo /\ r.scan[a] = f
     /\ r.list[a] # NoRow => r.list[a].hash # hashFile(f)

Due(a) ==
  \/ dirty
  \/ \E t \in Threads : Reader(th[t], a)
  \/ \E p \in Scanners : Finder(ps[p], a, file[a])
OnTheWay(a) == Owed(a) => Due(a)

Accounted(a) == HashTells(a) /\ StoresNewest(a) /\ OnTheWay(a)

Loop ==
  /\ RolesOK /\ RowsBare /\ PassesFit
  /\ \A a \in Apps : Disturbed(a) \/ Accounted(a)

----------------------------------------------------------------------------
(* What keeps an app accounted for.                                        *)

OnlyPass(p) == \A q \in Scanners \ {p} : ps'[q] = ps[q]
SameFile(a) == file'[a] = file[a] /\ hist'.tried[a] = hist.tried[a]

\* A stored hash stays, or is empty, or nothing is owed.
RowSafe(a) ==
  HasRow(a)' => \/ HasRow(a) /\ row'[a].hash = row[a].hash
                \/ row'[a].hash = NoHash
                \/ ~Owed(a)

\* What a goroutine that will store a hash for a must have seen.
SawNewest(r, a) == IF r.pc = "upEnd" THEN r.seen = file[a] ELSE ~Owed(a)

LEMMA SameOwed ==
  ASSUME NEW a \in Apps, SameFile(a)
  PROVE  Owed(a)' <=> Owed(a)
BY DEF SameFile, Owed, Allowed, Parses, Present

LEMMA OwedHasHash ==
  ASSUME NEW a \in Apps, Owed(a)
  PROVE  hashFile(file[a]) # NoHash
BY DEF Owed, Allowed, Parses, hashFile, NoHash

LEMMA Stays ==
  ASSUME NEW a \in Apps, Accounted(a), SameFile(a), RowSafe(a),
         Owed(a) /\ Due(a) => Due(a)',
         \A t \in Threads : Stores(th'[t], a) => th'[t] = th[t] \/ SawNewest(th'[t], a)
  PROVE  Accounted(a)'
<1>1. Owed(a)' <=> Owed(a) BY SameOwed
<1>2. hashFile(file'[a]) = hashFile(file[a]) BY DEF SameFile
<1>3. HashTells(a)'
  BY <1>1, <1>2, OwedHasHash DEF HashTells, RowSafe, Accounted
<1>4. StoresNewest(a)'
  BY <1>1 DEF StoresNewest, SawNewest, SameFile, Accounted
<1>5. OnTheWay(a)' BY <1>1 DEF OnTheWay, Accounted
<1> QED BY <1>3, <1>4, <1>5 DEF Accounted

LEMMA ThreadAccounted ==
  ASSUME NEW a \in Apps, NEW t \in Threads, Accounted(a), OnlyThread(t),
         SameFile(a), RowSafe(a), dirty' = dirty,
         Stores(th'[t], a) => SawNewest(th'[t], a),
         Owed(a) /\ Reader(th[t], a) => Reader(th'[t], a) \/ Due(a)',
         \A p \in Scanners :
           Finder(ps[p], a, file[a]) => Finder(ps'[p], a, file[a])
  PROVE  Accounted(a)'
<1>1. Owed(a) /\ Due(a) => Due(a)' BY DEF Due, OnlyThread, SameFile
<1>2. \A u \in Threads : Stores(th'[u], a) => th'[u] = th[u] \/ SawNewest(th'[u], a)
  BY DEF OnlyThread
<1> QED BY <1>1, <1>2, Stays

LEMMA PassAccounted ==
  ASSUME NEW a \in Apps, NEW p \in Scanners, Accounted(a), OnlyPass(p),
         UNCHANGED <<th, dirty>>, SameFile(a), RowSafe(a),
         Owed(a) /\ Finder(ps[p], a, file[a])
           => Finder(ps'[p], a, file[a]) \/ Due(a)'
  PROVE  Accounted(a)'
<1>1. Owed(a) /\ Due(a) => Due(a)' BY DEF Due, OnlyPass, SameFile
<1> QED BY <1>1, Stays

\* A compose up that ends has run with the newest file.
LEMMA TriedAccounted ==
  ASSUME Typed, Held, RolesOK, NEW a \in Apps, NEW t \in Threads, Accounted(a),
         th[t].pc = "upEnd", OnlyThread(t), th'[t].pc # "upEnd",
         th'[t].app = th[t].app, Tried(t), UNCHANGED <<file, row, dirty, ps>>
  PROVE  Accounted(a)'
<1>0. th[t].app \in Apps BY ThreadFields DEF Typed
<1>1. CASE th[t].app = a
  <2>1. th[t].op \in DeployOp
    BY DEF RolesOK, Role, RestartPc, OtherPc
  <2>2. th[t].seen = file[a]
    BY <1>1, <2>1 DEF Accounted, StoresNewest, Stores
  <2>3. hist'.tried[a] = file'[a]
    BY <1>1, <2>2 DEF Tried, Typed, FilesOK, History
  <2>4. ~Owed(a)' BY <2>3 DEF Owed
  <2>5. ASSUME NEW u \in Threads, Stores(th[u], a)', th'[u].pc = "upEnd"
        PROVE  FALSE
    <3>1. u # t /\ th'[u] = th[u] BY <2>5 DEF OnlyThread
    <3>2. Runs(u, a) /\ Runs(t, a)
      BY <1>1, <2>5, <3>1 DEF Runs, Stores, TrackedPc
    <3> QED BY <3>1, <3>2 DEF Held
  <2> QED
    BY <2>4, <2>5 DEF Accounted, HashTells, StoresNewest, OnTheWay
<1>2. CASE th[t].app # a
  <2>1. SameFile(a) BY <1>0, <1>2 DEF SameFile, Tried, Typed, FilesOK, History
  <2>2. ~Stores(th'[t], a) /\ ~Reader(th[t], a) BY <1>2 DEF Stores, Reader
  <2>3. RowSafe(a) BY DEF RowSafe, HasRow
  <2> QED BY <2>1, <2>2, <2>3, ThreadAccounted
<1> QED BY <1>1, <1>2

\* A file that changed unseen by a deploy raises an event.
LEMMA WriteAccounted ==
  ASSUME Typed, NEW a \in Apps, NEW b \in Apps, NEW f \in File, WriteFile(b, f),
         Accounted(a), ~Disturbed(a)', UNCHANGED row,
         \A t \in Threads : Stores(th'[t], a) => th'[t] = th[t]
  PROVE  Accounted(a)'
<1>0. hist \in History /\ file \in [Apps -> File] BY DEF Typed, FilesOK
<1>1. Due(a)' BY DEF Due, WriteFile
<1>2. hist'.tried = hist.tried BY <1>0 DEF WriteFile, History
<1>3. CASE file'[a] = file[a]
  <2>1. SameFile(a) BY <1>2, <1>3 DEF SameFile
  <2>2. RowSafe(a) BY DEF RowSafe, HasRow
  <2> QED BY <1>1, <2>1, <2>2, Stays
<1>4. CASE file'[a] # file[a]
  <2>1. b = a /\ f # file[a] /\ file'[a] = f BY <1>0, <1>4 DEF WriteFile
  <2>2. a \notin hist'.raced /\ a \notin hist'.reverted BY DEF Disturbed
  <2>3. ~\E t \in Threads : Storing(t, a)
    BY <1>0, <2>1, <2>2 DEF WriteFile, History
  <2>4. \A t \in Threads : ~Stores(th'[t], a)
    BY <2>3 DEF Storing, Stores, DeployOp
  <2>5. ~(Present(f) /\ f # hist.tried[a] /\ hashFile(f) = StoredHash(a))
    BY <1>0, <2>1, <2>2 DEF WriteFile, History
  <2>6. HashTells(a)'
    BY <1>2, <2>1, <2>5
    DEF HashTells, Owed, Allowed, Parses, StoredHash, HasRow
  <2> QED BY <1>1, <2>4, <2>6 DEF Accounted, StoresNewest, OnTheWay
<1> QED BY <1>3, <1>4

----------------------------------------------------------------------------
(* What the operations of the store leave of the stored hashes.            *)

RowsKept ==
  \A c \in Apps : HasRow(c)' => /\ HasRow(c) /\ row'[c].hash = row[c].hash
                                /\ row'[c].path = row[c].path

LEMMA RowsAlike ==
  ASSUME \/ UNCHANGED row
         \/ \E a \in Apps : \/ WriteTombstone(a) \/ DeleteTombstone(a)
                          \/ \E id, c : CreateComposeVersion(a, id, c)
  PROVE  RowsKept
BY DEF RowsKept, HasRow, CreateComposeVersion, WriteTombstone, DeleteTombstone

LEMMA StatusRows ==
  ASSUME Typed, NEW a \in Apps, NEW s, UpdateAppStatus(a, s)
  PROVE  RowsKept
<1>1. row \in [Apps -> Row \cup {NoRow}] BY DEF Typed, StoreType
<1> QED BY <1>1, NoRowAssumption DEF UpdateAppStatus, RowsKept, HasRow, Row

LEMMA MarkRows ==
  ASSUME Typed, NEW a \in Apps, MarkAppArchived(a)
  PROVE  RowsKept
<1>1. row \in [Apps -> Row \cup {NoRow}] BY DEF Typed, StoreType
<1> QED BY <1>1, NoRowAssumption DEF MarkAppArchived, RowsKept, HasRow, Row

LEMMA PurgeRows ==
  ASSUME Typed, NEW a \in Apps, PurgeApp(a)
  PROVE  RowsKept
<1>1. row \in [Apps -> Row \cup {NoRow}] BY DEF Typed, StoreType
<1> QED BY <1>1 DEF PurgeApp, RowsKept, HasRow

LEMMA UpsertRows ==
  ASSUME Typed, NEW b \in Apps, NEW h \in Hash, NEW s \in Status,
         UpsertApp(b, h, s, "ok")
  PROVE  /\ row'[b].hash = h /\ row'[b].path = "ok"
         /\ \A c \in Apps \ {b} : row'[c] = row[c]
<1>1. row \in [Apps -> Row \cup {NoRow}] BY DEF Typed, StoreType
<1>2. CASE HasRow(b)
  <2>1. row[b] \in Row BY <1>1, <1>2 DEF HasRow
  <2> QED BY <1>1, <1>2, <2>1 DEF UpsertApp, Row
<1>3. CASE ~HasRow(b)
  BY <1>1, <1>3 DEF UpsertApp
<1> QED BY <1>2, <1>3

\* A stored hash that says nothing of what is owed.
LEMMA UpsertSafe ==
  ASSUME Typed, RowsBare, NEW b \in Apps, NEW h \in Hash, NEW s \in Status,
         UpsertApp(b, h, s, "ok"), h = NoHash \/ ~Owed(b)
  PROVE  RowsBare' /\ \A a \in Apps : RowSafe(a)
<1>1. /\ row'[b].hash = h /\ row'[b].path = "ok"
      /\ \A c \in Apps \ {b} : row'[c] = row[c]
  BY UpsertRows
<1>2. RowsBare' BY <1>1 DEF RowsBare, Bare
<1>3. \A a \in Apps : RowSafe(a) BY <1>1 DEF RowSafe, HasRow
<1> QED BY <1>2, <1>3

LEMMA KeptRows ==
  ASSUME RowsBare, RowsKept
  PROVE  RowsBare' /\ \A a \in Apps : RowSafe(a)
<1>1. RowsBare' BY DEF RowsBare, RowsKept, Bare, HasRow
<1>2. \A a \in Apps : RowSafe(a) BY DEF RowsKept, RowSafe
<1> QED BY <1>1, <1>2

----------------------------------------------------------------------------
(* What each step keeps: the threads of the server.                        *)

LoopKept ==
  /\ RolesOK' /\ RowsBare' /\ PassesFit'
  /\ \A a \in Apps : Accounted(a) /\ ~Disturbed(a)' => Accounted(a)'

LEMMA RoleMoves ==
  ASSUME RolesOK, NEW t \in Threads, OnlyThread(t), Role(th'[t])
  PROVE  RolesOK'
<1>1. \A u \in Threads : Role(th'[u]) BY DEF RolesOK, OnlyThread
<1> QED BY <1>1 DEF RolesOK, Role

LEMMA GotoShape ==
  ASSUME Typed, NEW t \in Threads, NEW pc, Goto(t, pc)
  PROVE  /\ OnlyThread(t) /\ th'[t].pc = pc /\ th'[t].op = th[t].op
         /\ th'[t].app = th[t].app /\ th'[t].seen = th[t].seen
BY DEF Typed, ThreadsOK, GoodThread, Thread, Goto, OnlyThread

LEMMA EndShape ==
  ASSUME Typed, NEW t \in Threads, EndThread(t)
  PROVE  /\ OnlyThread(t) /\ Role(th'[t])
         /\ \A a \in Apps : ~Stores(th'[t], a) /\ ~Reader(th'[t], a)
<1>1. OnlyThread(t) /\ th'[t] = IdleThread
  BY DEF Typed, ThreadsOK, EndThread, OnlyThread
<1> QED
  BY <1>1 DEF IdleThread, Role, DeployOp, OtherPc, Stores, Reader

LEMMA ReturnShape ==
  ASSUME Typed, NEW t \in Threads, NEW res, Return(t, res)
  PROVE  /\ OnlyThread(t) /\ th'[t].pc = Continue(t) /\ th'[t].op = th[t].op
         /\ th'[t].app = th[t].app
BY DEF Typed, ThreadsOK, GoodThread, Thread, Return, OnlyThread

LEMMA StartShape ==
  ASSUME Typed, NEW t \in Threads, NEW op, NEW pc, NEW a, StartThread(t, op, pc, a)
  PROVE  /\ OnlyThread(t) /\ th'[t].pc = pc /\ th'[t].op = op /\ th'[t].app = a
BY DEF Typed, ThreadsOK, StartThread, IdleThread, OnlyThread

\* A goroutine moves, and no stored hash changes.
LEMMA RowThread ==
  ASSUME Typed, Loop, NEW t \in Threads, OnlyThread(t), Role(th'[t]),
         RowsKept, UNCHANGED <<fileVars, hist, ps>>,
         \A a \in Apps : Accounted(a) =>
           /\ Stores(th'[t], a) => SawNewest(th'[t], a)
           /\ Owed(a) /\ Reader(th[t], a) => Reader(th'[t], a)
  PROVE  LoopKept
<1>1. RolesOK' BY RoleMoves DEF Loop
<1>2. RowsBare' /\ \A a \in Apps : RowSafe(a) BY KeptRows DEF Loop
<1>3. PassesFit' BY DEF Loop, PassesFit, Bare
<1>4. ASSUME NEW a \in Apps, Accounted(a) PROVE Accounted(a)'
  <2>1. SameFile(a) /\ dirty' = dirty BY DEF SameFile, fileVars
  <2> QED BY <1>2, <1>4, <2>1, ThreadAccounted
<1> QED BY <1>1, <1>2, <1>3, <1>4 DEF LoopKept

\* A goroutine moves and nothing else that counts changes.
LEMMA QuietThread ==
  ASSUME Typed, Loop, NEW t \in Threads, OnlyThread(t), Role(th'[t]),
         UNCHANGED <<row, fileVars, hist, ps>>,
         \A a \in Apps : Accounted(a) =>
           /\ Stores(th'[t], a) => SawNewest(th'[t], a)
           /\ Owed(a) /\ Reader(th[t], a) => Reader(th'[t], a)
  PROVE  LoopKept
BY RowsAlike, RowThread

LEMMA TrackedLoop ==
  ASSUME Typed, Held, Loop, NEW t \in Threads, TrackedStep(t), UNCHANGED ps
  PROVE  LoopKept
<1>0. Role(th[t]) BY DEF Loop, RolesOK
<1>1. CASE Track(t)
  <2>1. /\ OnlyThread(t) /\ th'[t].op = th[t].op /\ th'[t].app = th[t].app
        /\ th'[t].pc = IF th[t].op = "restart" THEN "restart" ELSE "check"
    BY <1>1, GotoShape DEF Track
  <2>2. th[t].op \in DeployOp \cup {"restart"} /\ th[t].pc = "track"
    BY <1>0, <1>1 DEF Track, Role, OtherPc
  <2>3. Role(th'[t]) BY <2>1, <2>2 DEF Role, DeployOp, DeployPc, RestartPc
  <2>4. \A a \in Apps : /\ ~Stores(th'[t], a)
                        /\ Reader(th[t], a) => Reader(th'[t], a)
    BY <2>1, <2>2 DEF Stores, Reader, DeployOp
  <2> QED BY <1>1, <2>1, <2>3, <2>4, QuietThread DEF Track, storeVars
<1>2. CASE CheckOk(t)
  <2>1. th[t].op \in DeployOp /\ th[t].pc = "check"
    BY <1>0, <1>2 DEF CheckOk, Role, RestartPc, OtherPc
  <2>2. /\ OnlyThread(t) /\ th'[t].op = th[t].op /\ th'[t].app = th[t].app
        /\ th'[t].pc = "up"
    BY <1>2, <2>1, GotoShape DEF CheckOk, DeployOp
  <2>3. Role(th'[t]) BY <2>1, <2>2 DEF Role, DeployPc
  <2>4. \A a \in Apps : /\ ~Stores(th'[t], a)
                        /\ Reader(th[t], a) => Reader(th'[t], a)
    BY <2>1, <2>2 DEF Stores, Reader
  <2> QED BY <1>2, <2>2, <2>3, <2>4, QuietThread DEF CheckOk, storeVars
<1>3. CASE Refuse(t)
  <2>1. th[t].op \in DeployOp /\ th[t].pc = "check"
    BY <1>0, <1>3 DEF Refuse, Role, RestartPc, OtherPc
  <2>2. /\ OnlyThread(t) /\ th'[t].op = th[t].op /\ th'[t].app = th[t].app
        /\ th'[t].pc = "hash"
    BY <1>3, <2>1, ReturnShape DEF Refuse, Continue, DeployOp
  <2>3. Role(th'[t]) BY <2>1, <2>2 DEF Role, DeployPc
  <2>4. ~Owed(th[t].app) BY <1>3 DEF Refuse, Owed
  <2>5. \A a \in Apps : /\ Stores(th'[t], a) => SawNewest(th'[t], a)
                        /\ Owed(a) => ~Reader(th[t], a)
    BY <2>2, <2>4 DEF Stores, Reader, SawNewest
  <2> QED BY <1>3, <2>2, <2>3, <2>5, QuietThread DEF Refuse, storeVars
<1>4. CASE PullImages(t) \/ PullFails(t)
  BY <1>0, <1>4 DEF PullImages, PullFails, Role, DeployPc, RestartPc, OtherPc
<1>5. CASE UpRead(t)
  <2>1. th[t].op \in DeployOp /\ th[t].pc = "up"
    BY <1>0, <1>5 DEF UpRead, Role, DeployPc, RestartPc, OtherPc
  <2>2. /\ OnlyThread(t) /\ th'[t].op = th[t].op /\ th'[t].app = th[t].app
        /\ th'[t].pc = "upEnd" /\ th'[t].seen = file[th[t].app]
    BY <1>5, <2>1 DEF UpRead, Typed, ThreadsOK, GoodThread, Thread, OnlyThread
  <2>3. Role(th'[t]) BY <2>1, <2>2 DEF Role, DeployPc
  <2>4. \A a \in Apps : /\ Stores(th'[t], a) => SawNewest(th'[t], a)
                        /\ Reader(th[t], a) => Reader(th'[t], a)
    BY <2>1, <2>2 DEF Stores, Reader, SawNewest
  <2> QED BY <1>5, <2>2, <2>3, <2>4, QuietThread DEF UpRead, storeVars
<1>6. CASE UpOk(t) \/ UpFails(t)
  <2>1. th[t].op \in DeployOp /\ th[t].pc = "upEnd"
    BY <1>0, <1>6 DEF UpOk, UpFails, Role, RestartPc, OtherPc
  <2>2. /\ OnlyThread(t) /\ th'[t].op = th[t].op /\ th'[t].app = th[t].app
        /\ th'[t].pc \in {"stab", "hash"}
    BY <1>6, <2>1, GotoShape, ReturnShape DEF UpOk, UpFails, Continue, DeployOp
  <2>3. Role(th'[t]) BY <2>1, <2>2 DEF Role, DeployPc
  <2>4. Tried(t) /\ UNCHANGED <<file, row, dirty, ps>>
    BY <1>6 DEF UpOk, UpFails, storeVars, fileVars
  <2>5. RolesOK' BY <2>2, <2>3, RoleMoves DEF Loop
  <2>6. RowsBare' /\ PassesFit' BY <2>4 DEF Loop, RowsBare, PassesFit, Bare
  <2>7. \A a \in Apps : Accounted(a) => Accounted(a)'
    BY <2>1, <2>2, <2>4, TriedAccounted DEF Loop
  <2> QED BY <2>5, <2>6, <2>7 DEF LoopKept
<1>7. CASE RestartOk(t) \/ RestartFails(t)
  <2>1. th[t].op = "restart"
    BY <1>0, <1>7 DEF RestartOk, RestartFails, Role, DeployPc, OtherPc
  <2>2. /\ OnlyThread(t) /\ th'[t].op = th[t].op
        /\ th'[t].pc \in {"stab", "setStatus"}
    BY <1>7, <2>1, GotoShape, ReturnShape
    DEF RestartOk, RestartFails, Continue
  <2>3. Role(th'[t]) BY <2>1, <2>2 DEF Role, RestartPc
  <2>4. \A a \in Apps : ~Stores(th'[t], a) /\ ~Reader(th[t], a)
    BY <2>1, <2>2 DEF Stores, Reader, DeployOp
  <2>5. UNCHANGED <<row, fileVars, hist>>
    BY <1>7 DEF RestartOk, RestartFails, storeVars
  <2> QED BY <2>2, <2>3, <2>4, <2>5, QuietThread
<1>8. CASE Stabilize(t)
  <2>1. th[t].pc = "stab" /\ th[t].op \in DeployOp \cup {"restart"}
    BY <1>0, <1>8 DEF Stabilize, Role, OtherPc
  <2>2. /\ OnlyThread(t) /\ th'[t].op = th[t].op /\ th'[t].app = th[t].app
        /\ th'[t].pc = IF th[t].op \in DeployOp THEN "hash" ELSE "setStatus"
    BY <1>8, ReturnShape DEF Stabilize, Continue, DeployOp
  <2>3. Role(th'[t])
    BY <2>1, <2>2 DEF Role, DeployPc, DeployOp, RestartPc
  <2>4. ASSUME NEW a \in Apps, Accounted(a)
        PROVE  /\ Stores(th'[t], a) => SawNewest(th'[t], a)
               /\ ~Reader(th[t], a)
    BY <2>1, <2>2, <2>4 DEF Stores, Reader, SawNewest, Accounted, StoresNewest
  <2> QED BY <1>8, <2>2, <2>3, <2>4, QuietThread DEF Stabilize, storeVars
<1> QED
  BY <1>1, <1>2, <1>3, <1>4, <1>5, <1>6, <1>7, <1>8 DEF TrackedStep

LEMMA UntrackedLoop ==
  ASSUME Typed, Loop, NEW t \in Threads, UntrackedStep(t), UNCHANGED ps
  PROVE  LoopKept
<1>0. Role(th[t]) BY DEF Loop, RolesOK
<1>1. ~CancelCheck(t) /\ ~CancelUpEnd(t)
  BY <1>0 DEF CancelCheck, CancelUpEnd, Role, DeployPc, RestartPc, OtherPc
<1>2. th[t].pc \in {"stop", "start", "scale"} /\ UNCHANGED <<row, fileVars, hist>>
  BY <1>1 DEF UntrackedStep, Stop, Start, Scale, storeVars
<1>3. th[t].op \notin DeployOp \cup {"restart"}
  BY <1>0, <1>2 DEF Role, DeployPc, RestartPc
<1>4. Goto(t, "setStatus") \/ EndThread(t)
  BY <1>1 DEF UntrackedStep, Stop, Start, Scale
<1>5. CASE Goto(t, "setStatus")
  <2>1. OnlyThread(t) /\ th'[t].op = th[t].op /\ th'[t].pc = "setStatus"
    BY <1>5, GotoShape
  <2>2. Role(th'[t]) BY <1>3, <2>1 DEF Role, OtherPc
  <2>3. \A a \in Apps : ~Stores(th'[t], a) /\ ~Reader(th[t], a)
    BY <1>3, <2>1 DEF Stores, Reader
  <2> QED BY <1>2, <2>1, <2>2, <2>3, QuietThread
<1>6. CASE EndThread(t)
  <2>1. \A a \in Apps : ~Reader(th[t], a) BY <1>3 DEF Reader
  <2> QED BY <1>2, <1>6, <2>1, EndShape, QuietThread
<1> QED BY <1>4, <1>5, <1>6

LEMMA NewPassLists ==
  ASSUME Typed, PassesFit, NEW p \in Scanners, NEW kind \in {"reconcile", "routes"},
         kind = "routes" \/ p \in Passes,
         ps' = [ps EXCEPT ![p] = NewPass(kind)]
  PROVE  /\ PassesFit' /\ OnlyPass(p) /\ ps'[p] = NewPass(kind)
         /\ ps'[p].pc = "scan" /\ ps'[p].kind = kind /\ ps'[p].todo = Apps
<1>1. ps'[p] = NewPass(kind) /\ OnlyPass(p)
  BY DEF Typed, PassesOK, OnlyPass
<1>2. /\ ps'[p].pc = "scan" /\ ps'[p].kind = kind /\ ps'[p].todo = Apps
      /\ \A a \in Apps : ps'[p].list[a] = NoRow
  <2>1. IdlePass \in Pass /\ \A a \in Apps : IdlePass.list[a] = NoRow
    BY IdlePassType DEF IdlePass
  <2>2. /\ NewPass(kind).pc = "scan" /\ NewPass(kind).kind = kind
        /\ NewPass(kind).todo = Apps /\ NewPass(kind).list = IdlePass.list
    BY <2>1 DEF NewPass, Pass
  <2> QED BY <1>1, <2>1, <2>2
<1>3. PassesFit' BY <1>1, <1>2 DEF PassesFit, OnlyPass, Bare
<1> QED BY <1>1, <1>2, <1>3

\* reconcileAfterDeploy only makes an idle pass wait.
LEMMA QueuePasses ==
  ASSUME NEW q \in [Scanners -> GoodPass], NEW b \in Apps, ps' = QueueRetry(q, b),
         q[b].pc = ps[b].pc
  PROVE  \A p \in Scanners :
           /\ ps'[p].kind = q[p].kind /\ ps'[p].list = q[p].list
           /\ \/ ps'[p].pc = q[p].pc
              \/ ps'[p].pc = "poll" /\ q[p].pc = "idle" /\ p \in Passes
           /\ \A a \in Apps : \A f : Finder(q[p], a, f) => Finder(ps'[p], a, f)
<1>1. b \in Scanners /\ b \in Passes BY ScannerSets DEF Passes
<1>2. CASE Retrying(b) BY <1>2 DEF QueueRetry
<1>3. CASE ~Retrying(b)
  <2>1. ps' = [q EXCEPT ![b].pc = "poll"] /\ q[b].pc = "idle"
    BY <1>3 DEF QueueRetry, Retrying, PassIdle
  <2>2. /\ ps'[b].pc = "poll" /\ ps'[b].kind = q[b].kind
        /\ ps'[b].list = q[b].list /\ \A p \in Scanners \ {b} : ps'[p] = q[p]
    BY <1>1, <2>1 DEF GoodPass, Pass
  <2> QED BY <1>1, <2>1, <2>2 DEF Finder
<1> QED BY <1>2, <1>3

\* A deploy that is skipped leaves another that reads the file, or a retry that
\* will, unless a restart and a running retry keep it from both.
LEMMA BlockedDue ==
  ASSUME Typed, Loop, NEW a \in Apps, Accounted(a), ~Disturbed(a)', Owed(a),
         NEW u \in Threads, Runs(u, a), th'[u] = th[u], file' = file,
         NEW q \in [Scanners -> GoodPass], q[a].pc = ps[a].pc, ps' = QueueRetry(q, a),
         Starves(a)
  PROVE  Due(a)'
<1>0. Role(th[u]) /\ th[u].pc \in TrackedPc /\ th[u].app = a
  BY DEF Loop, RolesOK, Runs
<1>1. CASE th[u].op \in DeployOp
  <2>1. th[u].pc # "stab"
    BY <1>0, <1>1 DEF Accounted, StoresNewest, Stores
  <2>2. Reader(th[u], a)
    BY <1>0, <1>1, <2>1 DEF Role, DeployOp, DeployPc, TrackedPc, Reader
  <2> QED BY <2>2 DEF Due
<1>2. CASE th[u].op = "restart"
  <2>1. a \in Scanners BY ScannerSets
  <2>2. ~Retrying(a) \/ ps[a].pc = "poll"
    BY <1>0, <1>2 DEF Starves, Disturbed, Runs, Typed, FilesOK, History
  <2>3. ps'[a].pc = "poll"
    BY <2>1, <2>2 DEF QueueRetry, Retrying, PassIdle, GoodPass, Pass
  <2> QED BY <2>1, <2>3 DEF Due, Finder
<1> QED BY <1>0, <1>1, <1>2 DEF Role, OtherPc, TrackedPc

LEMMA SkippedLoop ==
  ASSUME Typed, Held, Loop, NEW t \in Threads, Skipped(t)
  PROVE  LoopKept
<1>0. Role(th[t]) BY DEF Loop, RolesOK
<1> PICK b \in Apps : b = th[t].app BY ThreadFields DEF Skipped, Typed
<1>1. th[t].pc = "track" /\ logs[b] # Nobody /\ UNCHANGED <<storeVars, fileVars>>
  BY DEF Skipped, Busy
<1>2. OnlyThread(t) /\ Role(th'[t]) /\ \A a \in Apps : ~Stores(th'[t], a)
  <2>1. CASE th[t].op = "rollback"
    <3>1. Goto(t, "restore") BY <2>1 DEF Skipped
    <3>2. OnlyThread(t) /\ th'[t].pc = "restore" /\ th'[t].op = "rollback"
      BY <2>1, <3>1, GotoShape
    <3> QED BY <3>2 DEF Role, DeployOp, DeployPc, Stores
  <2>2. CASE th[t].op # "rollback"
    BY <2>2, EndShape DEF Skipped
  <2> QED BY <2>1, <2>2
<1>3. RolesOK' BY <1>2, RoleMoves DEF Loop
<1>4. RowsBare' /\ \A a \in Apps : RowSafe(a)
  BY <1>1, RowsAlike, KeptRows DEF Loop, storeVars
<1>5. ps \in [Scanners -> GoodPass] /\ (ps' = ps \/ ps' = QueueRetry(ps, b))
  BY DEF Skipped, Typed, PassesOK
<1>6. \A p \in Scanners : /\ ps'[p].kind = ps[p].kind /\ ps'[p].list = ps[p].list
                          /\ \/ ps'[p].pc = ps[p].pc
                             \/ ps'[p].pc = "poll" /\ p \in Passes
                          /\ \A a \in Apps : \A f : Finder(ps[p], a, f)
                                                  => Finder(ps'[p], a, f)
  BY <1>5, QueuePasses
<1>7. PassesFit' BY <1>6 DEF Loop, PassesFit, Bare
<1>8. ASSUME NEW a \in Apps, Accounted(a), ~Disturbed(a)' PROVE Accounted(a)'
  <2>1. SameFile(a) /\ dirty' = dirty /\ file' = file
    BY <1>1 DEF Skipped, Starves, SameFile, fileVars, Typed, FilesOK, History
  <2>2. ASSUME Owed(a), Reader(th[t], a) PROVE Reader(th'[t], a) \/ Due(a)'
    <3>1. a = b /\ th[t].op \in DeployOp BY <2>2 DEF Reader
    <3>2. CASE th[t].op = "rollback"
      <4>1. Goto(t, "restore") BY <3>2 DEF Skipped
      <4> QED BY <3>1, <4>1, GotoShape DEF Reader
    <3>3. CASE th[t].op = "deploy"
      <4>1. ps' = QueueRetry(ps, a) /\ Starves(a)
        BY <3>1, <3>3 DEF Skipped
      <4>2. PICK u \in Threads : u = logs[a]
        BY <1>1, <3>1 DEF Typed, TrackerType
      <4>3. Runs(u, a) BY <4>2 DEF Held
      <4>4. u # t BY <1>1, <4>3 DEF Runs, TrackedPc
      <4>5. th'[u] = th[u] BY <1>2, <4>4 DEF OnlyThread
      <4> QED
        BY <1>5, <1>8, <2>1, <2>2, <4>1, <4>3, <4>5, BlockedDue
    <3> QED BY <3>1, <3>2, <3>3 DEF DeployOp
  <2> QED BY <1>2, <1>4, <1>6, <1>8, <2>1, <2>2, ThreadAccounted
<1> QED BY <1>3, <1>4, <1>7, <1>8 DEF LoopKept

\* A goroutine writes a file and does not go on to store a hash at once.
LEMMA WriteThread ==
  ASSUME Typed, Loop, NEW t \in Threads, OnlyThread(t), Role(th'[t]),
         \A a \in Apps : ~Stores(th'[t], a), UNCHANGED <<row, ps>>,
         NEW b \in Apps, NEW f \in File, WriteFile(b, f)
  PROVE  LoopKept
<1>1. RolesOK' BY RoleMoves DEF Loop
<1>2. RowsBare' /\ PassesFit' BY DEF Loop, RowsBare, PassesFit, Bare
<1>3. \A a \in Apps : \A u \in Threads : Stores(th'[u], a) => th'[u] = th[u]
  BY DEF OnlyThread
<1>4. \A a \in Apps : Accounted(a) /\ ~Disturbed(a)' => Accounted(a)'
  BY <1>3, WriteAccounted
<1> QED BY <1>1, <1>2, <1>4 DEF LoopKept

LEMMA StoresLoop ==
  ASSUME Typed, Loop, NEW t \in Threads,
         ReadHash(t) \/ StoreApp(t) \/ StoreVersion(t)
  PROVE  LoopKept
<1>0. Role(th[t]) BY DEF Loop, RolesOK
<1>a. th[t].pc \in {"hash", "upsert", "version"}
  BY DEF ReadHash, StoreApp, StoreVersion
<1>b. th[t].op \in DeployOp BY <1>0, <1>a DEF Role, RestartPc, OtherPc
<1>c. \A a \in Apps : ~Reader(th[t], a) BY <1>a DEF Reader
<1> PICK b \in Apps : b = th[t].app BY <1>a, ThreadFields DEF Typed
<1>1. CASE ReadHash(t)
  <2>1. /\ OnlyThread(t) /\ th'[t].pc = "upsert" /\ th'[t].op = th[t].op
        /\ th'[t].app = th[t].app
    BY <1>1 DEF ReadHash, Typed, ThreadsOK, GoodThread, Thread, OnlyThread
  <2>2. Role(th'[t]) BY <1>b, <2>1 DEF Role, DeployPc
  <2>3. \A a \in Apps : Accounted(a) /\ Stores(th'[t], a) => SawNewest(th'[t], a)
    BY <1>1, <1>b, <2>1
    DEF ReadHash, Accounted, StoresNewest, Stores, SawNewest
  <2> QED BY <1>1, <1>c, <2>1, <2>2, <2>3, QuietThread DEF ReadHash, storeVars
<1>2. CASE StoreApp(t)
  <2>1. OnlyThread(t) /\ Role(th'[t]) /\ \A a \in Apps : ~Stores(th'[t], a)
    <3>1. CASE th[t].op = "deploy"
      <4>1. OnlyThread(t) /\ th'[t].pc = "version" /\ th'[t].op = "deploy"
        BY <1>2, <3>1
        DEF StoreApp, Typed, ThreadsOK, GoodThread, Thread, OnlyThread
      <4> QED BY <4>1 DEF Role, DeployOp, DeployPc, Stores
    <3>2. CASE th[t].op # "deploy" BY <1>2, <3>2, EndShape DEF StoreApp
    <3> QED BY <3>1, <3>2
  <2>2. UpsertApp(b, th[t].hash, StatusOf(t), "ok") /\ th[t].pc = "upsert"
    BY <1>2 DEF StoreApp
  <2>3. th[t].hash \in Hash /\ StatusOf(t) \in Status
    BY ThreadFields, StatusOfType DEF Typed
  <2>4. RowsBare' BY <2>2, <2>3, UpsertRows DEF Loop, RowsBare, Bare
  <2>5. \A a \in Apps : Accounted(a) => RowSafe(a)
    <3> TAKE a \in Apps
    <3>1. CASE a = b
      BY <1>b, <2>2, <3>1 DEF Accounted, StoresNewest, Stores, RowSafe
    <3>2. CASE a # b BY <2>2, <2>3, <3>2, UpsertRows DEF RowSafe, HasRow
    <3> QED BY <3>1, <3>2
  <2>6. UNCHANGED <<fileVars, hist, ps>> BY <1>2 DEF StoreApp
  <2>7. ASSUME NEW a \in Apps, Accounted(a) PROVE Accounted(a)'
    <3>1. SameFile(a) /\ dirty' = dirty BY <2>6 DEF SameFile, fileVars
    <3> QED BY <1>c, <2>1, <2>5, <2>6, <2>7, <3>1, ThreadAccounted
  <2>8. RolesOK' BY <2>1, RoleMoves DEF Loop
  <2>9. PassesFit' BY <2>6 DEF Loop, PassesFit, Bare
  <2> QED BY <2>4, <2>7, <2>8, <2>9 DEF LoopKept
<1>3. CASE StoreVersion(t)
  <2>1. UNCHANGED <<fileVars, hist>> BY <1>3 DEF StoreVersion
  <2>2. RowsKept BY <1>3, RowsAlike DEF StoreVersion, storeVars
  <2>3. RowsBare' /\ \A a \in Apps : RowSafe(a) BY <2>2, KeptRows DEF Loop
  <2>4. OnlyThread(t) /\ Role(th'[t]) /\ \A a \in Apps : ~Stores(th'[t], a)
    BY <1>3, EndShape DEF StoreVersion
  <2>5. RolesOK' BY <2>4, RoleMoves DEF Loop
  <2>6. /\ PassesFit'
        /\ \A a \in Apps, p \in Scanners :
             Finder(ps[p], a, file[a]) => Finder(ps'[p], a, file[a])
    <3>1. CASE UNCHANGED ps BY <3>1 DEF Loop, PassesFit, Bare
    <3>2. CASE PassIdle(t) /\ ps' = [ps EXCEPT ![t] = NewPass("routes")]
      <4>1. t \in Scanners BY ScannerSets
      <4>2. PassesFit' /\ OnlyPass(t) BY <3>2, <4>1, NewPassLists DEF Loop
      <4> QED BY <3>2, <4>2 DEF PassIdle, Finder, OnlyPass
    <3> QED BY <1>3, <3>1, <3>2 DEF StoreVersion
  <2>7. ASSUME NEW a \in Apps, Accounted(a) PROVE Accounted(a)'
    <3>1. SameFile(a) /\ dirty' = dirty BY <2>1 DEF SameFile, fileVars
    <3> QED BY <1>c, <2>3, <2>4, <2>6, <2>7, <3>1, ThreadAccounted
  <2> QED BY <2>3, <2>5, <2>6, <2>7 DEF LoopKept
<1> QED BY <1>1, <1>2, <1>3

LEMMA RollbacksLoop ==
  ASSUME Typed, Loop, NEW t \in Threads,
         LoadConfig(t) \/ RollbackCheck(t) \/ RollbackWrite(t) \/ RollbackRestore(t)
  PROVE  LoopKept
<1>0. Role(th[t]) BY DEF Loop, RolesOK
<1>a. th[t].pc # "idle"
  BY DEF LoadConfig, RollbackCheck, RollbackWrite, RollbackRestore
<1> PICK b \in Apps : b = th[t].app BY <1>a, ThreadFields DEF Typed
<1>b. th[t].buf \in File BY ThreadFields DEF Typed
<1>1. CASE LoadConfig(t)
  <2>1. th[t].op \in DeployOp \cup {"restart"} /\ th[t].pc = "parse"
    BY <1>0, <1>1 DEF LoadConfig, Role, OtherPc
  <2>2. CASE Parses(file[b])
    <3>1. /\ OnlyThread(t) /\ th'[t].pc = "track" /\ th'[t].op = th[t].op
          /\ th'[t].app = th[t].app
      BY <1>1, <2>2, GotoShape DEF LoadConfig
    <3>2. Role(th'[t]) BY <2>1, <3>1 DEF Role, DeployPc, RestartPc
    <3>3. \A a \in Apps : /\ ~Stores(th'[t], a)
                          /\ Reader(th[t], a) => Reader(th'[t], a)
      BY <3>1 DEF Stores, Reader
    <3> QED BY <1>1, <3>1, <3>2, <3>3, QuietThread DEF LoadConfig, storeVars
  <2>3. CASE ~Parses(file[b])
    <3>1. EndThread(t) BY <1>1, <2>3 DEF LoadConfig
    <3>2. \A a \in Apps : Owed(a) => ~Reader(th[t], a)
      BY <2>3 DEF Owed, Allowed, Reader
    <3> QED BY <1>1, <3>1, <3>2, EndShape, QuietThread DEF LoadConfig, storeVars
  <2> QED BY <2>2, <2>3
<1>2. CASE RollbackCheck(t)
  <2>1. th[t].op \in DeployOp /\ th[t].pc = "rbCheck"
    BY <1>0, <1>2 DEF RollbackCheck, Role, RestartPc, OtherPc
  <2>2. \A a \in Apps : ~Reader(th[t], a) BY <2>1 DEF Reader
  <2>3. OnlyThread(t) /\ Role(th'[t]) /\ \A a \in Apps : ~Stores(th'[t], a)
    <3>1. CASE Goto(t, "rbWrite")
      <4>1. OnlyThread(t) /\ th'[t].pc = "rbWrite" /\ th'[t].op = th[t].op
        BY <3>1, GotoShape
      <4> QED BY <2>1, <4>1 DEF Role, DeployPc, Stores
    <3>2. CASE EndThread(t) BY <3>2, EndShape
    <3> QED BY <1>2, <3>1, <3>2 DEF RollbackCheck
  <2> QED BY <1>2, <2>2, <2>3, QuietThread DEF RollbackCheck, storeVars
<1>3. CASE RollbackWrite(t)
  <2>1. th[t].op \in DeployOp /\ th[t].pc = "rbWrite"
    BY <1>0, <1>3 DEF RollbackWrite, Role, RestartPc, OtherPc
  <2>2. CASE Present(file[b])
    <3>1. OnlyThread(t) /\ th'[t].pc = "parse" /\ th'[t].op = th[t].op
      BY <1>3, <2>2
      DEF RollbackWrite, Typed, ThreadsOK, GoodThread, Thread, OnlyThread
    <3>2. Role(th'[t]) /\ \A a \in Apps : ~Stores(th'[t], a)
      BY <2>1, <3>1 DEF Role, DeployPc, Stores
    <3>3. WriteFile(b, th[t].buf) /\ UNCHANGED <<row, ps>>
      BY <1>3, <2>2 DEF RollbackWrite, storeVars
    <3> QED BY <1>b, <3>1, <3>2, <3>3, WriteThread
  <2>3. CASE ~Present(file[b])
    <3>1. EndThread(t) /\ UNCHANGED <<row, fileVars, hist, ps>>
      BY <1>3, <2>3 DEF RollbackWrite, storeVars
    <3>2. \A a \in Apps : ~Reader(th[t], a) BY <2>1 DEF Reader
    <3> QED BY <3>1, <3>2, EndShape, QuietThread
  <2> QED BY <2>2, <2>3
<1>4. CASE RollbackRestore(t)
  <2>1. EndThread(t) /\ UNCHANGED <<row, ps>>
    BY <1>4 DEF RollbackRestore, storeVars
  <2>2. CASE Present(file[b])
    <3>1. WriteFile(b, th[t].buf) BY <1>4, <2>2 DEF RollbackRestore
    <3> QED BY <1>b, <2>1, <3>1, EndShape, WriteThread
  <2>3. CASE ~Present(file[b])
    <3>1. UNCHANGED <<fileVars, hist>> BY <1>4, <2>3 DEF RollbackRestore
    <3>2. \A a \in Apps : Owed(a) => ~Reader(th[t], a)
      BY <2>3 DEF Owed, Allowed, Parses, Reader
    <3> QED BY <2>1, <3>1, <3>2, EndShape, QuietThread
  <2> QED BY <2>2, <2>3
<1> QED BY <1>1, <1>2, <1>3, <1>4

LEMMA OthersLoop ==
  ASSUME Typed, Loop, NEW t \in Threads,
         \/ SetStatus(t) \/ RemoveTeardown(t) \/ RemovePurge(t) \/ RemoveFiles(t)
         \/ RemoveRow(t) \/ PurgeTombstone(t) \/ StatusQuery(t) \/ StatusUpdate(t)
  PROVE  LoopKept
<1>0. Role(th[t]) BY DEF Loop, RolesOK
<1>a. th[t].pc \in OtherPc /\ th[t].pc # "idle"
  BY DEF SetStatus, RemoveTeardown, RemovePurge, RemoveFiles, RemoveRow,
         PurgeTombstone, StatusQuery, StatusUpdate, OtherPc
<1>b. th[t].op \notin DeployOp BY <1>0, <1>a DEF Role, DeployOp, DeployPc, OtherPc
<1>c. \A a \in Apps : ~Reader(th[t], a) BY <1>b DEF Reader
<1> PICK b \in Apps : b = th[t].app BY <1>a, ThreadFields DEF Typed
<1>1. CASE SetStatus(t) \/ StatusUpdate(t)
  <2>1. EndThread(t) /\ UNCHANGED <<fileVars, hist, ps>>
    BY <1>1 DEF SetStatus, StatusUpdate
  <2>2. RowsKept BY <1>1, StatusRows DEF SetStatus, StatusUpdate
  <2> QED BY <1>c, <2>1, <2>2, EndShape, RowThread
<1>2. CASE RemoveRow(t) \/ PurgeTombstone(t)
  <2>1. EndThread(t) /\ UNCHANGED <<fileVars, hist, ps>>
    BY <1>2 DEF RemoveRow, PurgeTombstone
  <2>2. RowsKept BY <1>2, PurgeRows, RowsAlike DEF RemoveRow, PurgeTombstone
  <2> QED BY <1>c, <2>1, <2>2, EndShape, RowThread
<1>3. CASE RemoveTeardown(t) \/ RemovePurge(t)
  <2>1. UNCHANGED <<fileVars, hist, ps>> BY <1>3 DEF RemoveTeardown, RemovePurge
  <2>2. RowsKept
    BY <1>3, PurgeRows, RowsAlike DEF RemoveTeardown, RemovePurge, storeVars
  <2>3. th[t].op # "restart"
    BY <1>0, <1>3 DEF RemoveTeardown, RemovePurge, Role, RestartPc, DeployOp
  <2>4. OnlyThread(t) /\ Role(th'[t]) /\ \A a \in Apps : ~Stores(th'[t], a)
    <3>1. CASE EndThread(t) BY <3>1, EndShape
    <3>2. CASE ~EndThread(t)
      <4>1. /\ OnlyThread(t) /\ th'[t].pc \in {"rmPurge", "rmFiles"}
            /\ th'[t].op = th[t].op
        BY <1>3, <3>2, GotoShape DEF RemoveTeardown, RemovePurge
      <4> QED BY <1>b, <2>3, <4>1 DEF Role, OtherPc, Stores
    <3> QED BY <3>1, <3>2
  <2> QED BY <1>c, <2>1, <2>2, <2>4, RowThread
<1>4. CASE RemoveFiles(t)
  <2>1. WriteFile(b, NoFile) /\ UNCHANGED <<row, ps>> /\ NoFile \in File
    BY <1>4 DEF RemoveFiles, DeleteTombstone, File
  <2>2. OnlyThread(t) /\ th'[t].pc = "rmRow" /\ th'[t].op = th[t].op
    BY <1>4, GotoShape DEF RemoveFiles
  <2>3. th[t].op # "restart"
    BY <1>0, <1>4 DEF RemoveFiles, Role, RestartPc, DeployOp
  <2>4. Role(th'[t]) /\ \A a \in Apps : ~Stores(th'[t], a)
    BY <1>b, <2>2, <2>3 DEF Role, OtherPc, Stores
  <2> QED BY <2>1, <2>2, <2>4, WriteThread
<1>5. CASE StatusQuery(t)
  <2>1. UNCHANGED <<row, fileVars, hist, ps>> BY <1>5 DEF StatusQuery, storeVars
  <2>2. th[t].op # "restart"
    BY <1>0, <1>5 DEF StatusQuery, Role, RestartPc, DeployOp
  <2>3. OnlyThread(t) /\ Role(th'[t]) /\ \A a \in Apps : ~Stores(th'[t], a)
    <3>1. CASE EndThread(t) BY <3>1, EndShape
    <3>2. CASE ~EndThread(t)
      <4>1. OnlyThread(t) /\ th'[t].pc = "rsUpdate" /\ th'[t].op = th[t].op
        BY <1>5, <3>2
        DEF StatusQuery, Typed, ThreadsOK, GoodThread, Thread, OnlyThread
      <4> QED BY <1>b, <2>2, <4>1 DEF Role, OtherPc, Stores
    <3> QED BY <3>1, <3>2
  <2> QED BY <1>c, <2>1, <2>3, QuietThread
<1> QED BY <1>1, <1>2, <1>3, <1>4, <1>5

LEMMA ThreadLoop ==
  ASSUME Typed, Held, Loop, NEW t \in Threads, ThreadStep(t)
  PROVE  LoopKept
BY TrackedLoop, UntrackedLoop, SkippedLoop, StoresLoop, RollbacksLoop, OthersLoop
DEF ThreadStep, ReconcilerStep

----------------------------------------------------------------------------
(* What each step keeps: Reconcile passes.                                 *)

\* A pass moves on, and its listing with it.
FitMove(p) ==
  /\ OnlyPass(p) /\ ps'[p].kind = ps[p].kind /\ ps[p].pc # "idle"
  /\ ps'[p].pc # "hashes"
  /\ ps'[p].pc = "deploy" => ps[p].pc = "deploy"
  /\ \A a \in Apps : Bare(ps'[p].list[a])

LEMMA FitMoves ==
  ASSUME PassesFit, NEW p \in Scanners, FitMove(p)
  PROVE  PassesFit'
BY DEF PassesFit, FitMove, OnlyPass, Bare

LEMMA QuietPass ==
  ASSUME Typed, Loop, NEW p \in Scanners, OnlyPass(p), PassesFit', RowsKept,
         UNCHANGED <<th, fileVars, hist>>,
         \A a \in Apps : Accounted(a) /\ Owed(a) /\ Finder(ps[p], a, file[a])
                           => Finder(ps'[p], a, file[a])
  PROVE  LoopKept
<1>1. RolesOK' BY DEF Loop, RolesOK, Role
<1>2. RowsBare' /\ \A a \in Apps : RowSafe(a) BY KeptRows DEF Loop
<1>3. ASSUME NEW a \in Apps, Accounted(a) PROVE Accounted(a)'
  <2>1. SameFile(a) /\ dirty' = dirty BY DEF SameFile, fileVars
  <2> QED BY <1>2, <1>3, <2>1, PassAccounted
<1> QED BY <1>1, <1>2, <1>3 DEF LoopKept

LEMMA ScansLoop ==
  ASSUME Typed, Loop, NEW p \in Scanners, NEW b,
         ScanApp(p, b) \/ InjectNetwork(p) \/ ScanDone(p)
  PROVE  LoopKept
<1>0. /\ ps \in [Scanners -> GoodPass] /\ ps[p] \in Pass /\ PassesFit
      /\ ps[p].scan \in [Apps -> File] /\ ps[p].buf \in File
      /\ ps[p].pc = "inject" => ps[p].cur \in Apps
      /\ \A a \in Apps : Bare(ps[p].list[a])
  BY PassFields DEF Typed, PassesOK, CurPc, Loop, PassesFit
<1>1. CASE ScanApp(p, b)
  <2>0. b \in Apps BY <1>0, <1>1 DEF ScanApp, Pass
  <2>1. /\ OnlyPass(p) /\ ps'[p].kind = ps[p].kind /\ ps'[p].list = ps[p].list
        /\ \/ ps'[p].pc = "inject" /\ ps'[p].todo = ps[p].todo
              /\ ps'[p].scan = ps[p].scan
           \/ /\ ps'[p].pc = "scan" /\ ps'[p].todo = ps[p].todo \ {b}
              /\ ps'[p].scan = [ps[p].scan EXCEPT ![b] = file[b]]
    BY <1>0, <1>1, <2>0 DEF ScanApp, Pass, OnlyPass
  <2>2. PassesFit' BY <1>0, <1>1, <2>1, FitMoves DEF ScanApp, FitMove
  <2>3. \A a \in Apps : Finder(ps[p], a, file[a]) => Finder(ps'[p], a, file[a])
    BY <1>0, <1>1, <2>0, <2>1 DEF ScanApp, Finder
  <2>4. RowsKept BY <1>1, RowsAlike DEF ScanApp, storeVars
  <2> QED BY <1>1, <2>1, <2>2, <2>3, <2>4, QuietPass DEF ScanApp
<1>2. CASE InjectNetwork(p)
  <2> PICK c \in Apps : c = ps[p].cur BY <1>0, <1>2 DEF InjectNetwork
  <2>1. /\ OnlyPass(p) /\ ps'[p].kind = ps[p].kind /\ ps'[p].list = ps[p].list
        /\ ps'[p].pc = "scan" /\ ps'[p].todo = ps[p].todo \ {c}
        /\ \A a \in Apps \ {c} : ps'[p].scan[a] = ps[p].scan[a]
    BY <1>0, <1>2 DEF InjectNetwork, Pass, OnlyPass
  <2>2. PassesFit' BY <1>0, <1>2, <2>1, FitMoves DEF InjectNetwork, FitMove
  <2>3. UNCHANGED <<th, row>> BY <1>2 DEF InjectNetwork, storeVars
  <2>4. CASE Present(file[c])
    <3>1. WriteFile(c, ps[p].buf) BY <1>2, <2>4 DEF InjectNetwork
    <3>2. \A a \in Apps : Accounted(a) /\ ~Disturbed(a)' => Accounted(a)'
      BY <1>0, <2>3, <3>1, WriteAccounted
    <3>3. RolesOK' /\ RowsBare' BY <2>3 DEF Loop, RolesOK, Role, RowsBare, Bare
    <3> QED BY <2>2, <3>2, <3>3 DEF LoopKept
  <2>5. CASE ~Present(file[c])
    <3>1. UNCHANGED <<fileVars, hist>> BY <1>2, <2>5 DEF InjectNetwork
    <3>2. \A a \in Apps : Owed(a) /\ Finder(ps[p], a, file[a])
                            => Finder(ps'[p], a, file[a])
      BY <1>2, <2>1, <2>5 DEF InjectNetwork, Finder, Owed, Allowed, Parses
    <3>3. RowsKept BY <2>3, RowsAlike
    <3> QED BY <2>1, <2>2, <2>3, <3>1, <3>2, <3>3, QuietPass
  <2> QED BY <2>4, <2>5
<1>3. CASE ScanDone(p)
  <2>1. ps[p].pc = "scan" /\ ps[p].todo = {} /\ ps[p].kind \in {"reconcile", "routes"}
    BY <1>0, <1>3 DEF ScanDone, PassesFit, Pass, PassKind
  <2>2. UNCHANGED <<th, fileVars, hist>> /\ RowsKept
    BY <1>3, RowsAlike DEF ScanDone, storeVars
  <2>3. CASE ps[p].kind = "routes"
    <3>1. /\ OnlyPass(p) /\ ps'[p].kind = "routes" /\ ps'[p].pc = "routes"
          /\ ps'[p].list = ps[p].list
      BY <1>0, <1>3, <2>3 DEF ScanDone, Pass, OnlyPass
    <3>2. PassesFit' BY <1>0, <2>1, <2>3, <3>1, FitMoves DEF FitMove
    <3>3. \A a \in Apps : ~Finder(ps[p], a, file[a])
      BY <2>1, <2>3 DEF Finder
    <3> QED BY <2>2, <3>1, <3>2, <3>3, QuietPass
  <2>4. CASE ps[p].kind = "reconcile"
    <3>1. /\ OnlyPass(p) /\ ps'[p].kind = "reconcile" /\ ps'[p].pc = "deploy"
          /\ ps'[p].list = ListApps /\ ps'[p].todo = Apps
          /\ ps'[p].scan = ps[p].scan
      BY <1>0, <1>3, <2>4 DEF ScanDone, Pass, OnlyPass
    <3>2. \A a \in Apps : ps'[p].list[a] = IF Listed(a) THEN row[a] ELSE NoRow
      BY <3>1 DEF ListApps
    <3>3. \A a \in Apps : Bare(ps'[p].list[a])
      BY <3>2 DEF Loop, RowsBare, Bare
    <3>4. p \in Passes BY <1>0, <2>1, <2>4 DEF PassesFit
    <3>5. PassesFit' BY <1>0, <3>1, <3>3, <3>4 DEF PassesFit, OnlyPass, Bare
    <3>6. ASSUME NEW a \in Apps, Accounted(a), Owed(a), Finder(ps[p], a, file[a])
          PROVE  Finder(ps'[p], a, file[a])
      <4>1. ps[p].scan[a] = file[a] BY <2>1, <3>6 DEF Finder
      <4>2. HasRow(a) => row[a].hash # hashFile(file[a])
        BY <3>6 DEF Accounted, HashTells
      <4> QED BY <3>1, <3>2, <4>1, <4>2 DEF Finder, Listed
    <3> QED BY <2>2, <3>1, <3>5, <3>6, QuietPass
  <2> QED BY <2>1, <2>3, <2>4
<1> QED BY <1>1, <1>2, <1>3

LEMMA ArchivesLoop ==
  ASSUME Typed, Loop, NEW p \in Scanners, NEW b,
         \/ WaitDeploys(p) \/ ArchiveLoop(p, b) \/ ArchiveTeardown(p)
         \/ ArchiveSidecar(p) \/ ArchiveTombstone(p) \/ ArchiveMark(p)
         \/ ArchiveDone(p) \/ SetRoutes(p)
  PROVE  LoopKept
<1>0. /\ ps \in [Scanners -> GoodPass] /\ ps[p] \in Pass /\ PassesFit
      /\ ps[p].pc \in CurPc => ps[p].cur \in Apps
      /\ \A a \in Apps : Bare(ps[p].list[a])
  BY PassFields DEF Typed, PassesOK, Loop, PassesFit
<1>1. UNCHANGED <<th, fileVars, hist>>
  BY DEF WaitDeploys, ArchiveLoop, ArchiveTeardown, ArchiveSidecar,
         ArchiveTombstone, ArchiveMark, ArchiveDone, SetRoutes
<1>2. RowsKept
  <2>1. CASE ArchiveTombstone(p) \/ ArchiveMark(p)
    <3>1. ps[p].cur \in Apps
      BY <1>0, <2>1 DEF ArchiveTombstone, ArchiveMark, CurPc
    <3> QED BY <2>1, <3>1, MarkRows, RowsAlike DEF ArchiveTombstone, ArchiveMark
  <2>2. CASE \/ WaitDeploys(p) \/ ArchiveLoop(p, b) \/ ArchiveTeardown(p)
             \/ ArchiveSidecar(p) \/ ArchiveDone(p) \/ SetRoutes(p)
    BY <2>2, RowsAlike
    DEF WaitDeploys, ArchiveLoop, ArchiveTeardown, ArchiveSidecar, ArchiveDone,
        SetRoutes, storeVars
  <2> QED BY <2>1, <2>2
<1>3. \A a \in Apps : ~Finder(ps[p], a, file[a])
  BY DEF WaitDeploys, ArchiveLoop, ArchiveTeardown, ArchiveSidecar,
         ArchiveTombstone, ArchiveMark, ArchiveDone, SetRoutes, Finder
<1>4. CASE SetRoutes(p)
  <2>1. OnlyPass(p) /\ ps'[p] = IdlePass
    BY <1>0, <1>4 DEF SetRoutes, OnlyPass
  <2>2. PassesFit' BY <1>0, <2>1 DEF PassesFit, IdlePass, OnlyPass, Bare
  <2> QED BY <1>1, <1>2, <1>3, <2>1, <2>2, QuietPass
<1>5. CASE \/ WaitDeploys(p) \/ ArchiveTeardown(p) \/ ArchiveSidecar(p)
           \/ ArchiveTombstone(p) \/ ArchiveMark(p) \/ ArchiveDone(p)
  <2>1. /\ OnlyPass(p) /\ ps'[p].kind = ps[p].kind /\ ps'[p].list = ps[p].list
        /\ ps[p].pc # "idle"
        /\ ps'[p].pc \in {"archive", "sidecar", "tomb", "mark", "routes"}
    BY <1>0, <1>5 DEF WaitDeploys, ArchiveTeardown, ArchiveSidecar,
                      ArchiveTombstone, ArchiveMark, ArchiveDone, Pass, OnlyPass
  <2>2. PassesFit' BY <1>0, <2>1, FitMoves DEF FitMove
  <2> QED BY <1>1, <1>2, <1>3, <2>1, <2>2, QuietPass
<1>6. CASE ArchiveLoop(p, b)
  <2>1. /\ OnlyPass(p) /\ ps'[p].kind = ps[p].kind /\ ps'[p].list = ps[p].list
        /\ ps[p].pc = "archive" /\ ps'[p].pc \in {"archive", "teardown"}
    BY <1>0, <1>6 DEF ArchiveLoop, Pass, OnlyPass
  <2>2. PassesFit' BY <1>0, <2>1, FitMoves DEF FitMove
  <2> QED BY <1>1, <1>2, <1>3, <2>1, <2>2, QuietPass
<1> QED BY <1>4, <1>5, <1>6

\* A retry that starts scans every app.
LEMMA RetryLoop ==
  ASSUME Typed, Loop, NEW b \in Apps, RetryStarts(b) \/ RetryTimesOut(b)
  PROVE  LoopKept
<1>0. b \in Scanners /\ b \in Passes BY ScannerSets DEF Passes
<1>1. /\ ps[b].pc = "poll" /\ ps' = [ps EXCEPT ![b] = NewPass("reconcile")]
      /\ UNCHANGED <<th, fileVars, hist>> /\ RowsKept
  BY RowsAlike DEF RetryStarts, RetryTimesOut, storeVars
<1>2. /\ PassesFit' /\ OnlyPass(b) /\ ps'[b].pc = "scan"
      /\ ps'[b].kind = "reconcile" /\ ps'[b].todo = Apps
  BY <1>0, <1>1, NewPassLists DEF Loop
<1>3. \A a \in Apps : Finder(ps'[b], a, file[a]) BY <1>2 DEF Finder
<1> QED BY <1>0, <1>1, <1>2, <1>3, QuietPass

\* The path correction of the deploy loop stores no hash.
LEMMA NormalizedRows ==
  ASSUME Typed, Loop, NEW p \in Scanners, NEW b \in Apps, NormalizePath(p, b)
  PROVE  RowsBare' /\ \A a \in Apps : RowSafe(a)
<1>0. Bare(ps[p].list[b]) /\ ps[p].list[b] \in Row \cup {NoRow}
  BY PassFields DEF Loop, PassesFit, Typed, PassesOK, Pass
<1>1. CASE UNCHANGED storeVars
  BY <1>1, RowsAlike, KeptRows DEF Loop, storeVars
<1>2. CASE ~UNCHANGED storeVars
  <2>1. /\ Listing(p, b) # NoRow /\ Listing(p, b).path # "ok"
        /\ UpsertApp(b, Listing(p, b).hash, Listing(p, b).status, "ok")
    BY <1>2 DEF NormalizePath
  <2>2. Listing(p, b).hash = NoHash BY <1>0, <2>1 DEF Listing, Bare
  <2>3. Listing(p, b).hash \in Hash /\ Listing(p, b).status \in Status
    BY <1>0, <2>1 DEF Listing, Row
  <2> QED BY <2>1, <2>2, <2>3, UpsertSafe DEF Loop
<1> QED BY <1>1, <1>2

\* The deploy loop takes an app off its list only after it started a deploy, or
\* found one running, or found the file unchanged.
LEMMA VisitsLoop ==
  ASSUME Typed, Held, Together, Loop, NEW p \in Scanners, NEW b \in Apps,
         DeployLoop(p, b)
  PROVE  LoopKept
<1> DEFINE q == [ps EXCEPT ![p].todo = @ \ {b}]
<1>0. ps \in [Scanners -> GoodPass] /\ PassesFit /\ hist \in History
  BY DEF Typed, PassesOK, Loop, FilesOK
<1>1. ps[p].pc = "deploy" /\ p \in Passes /\ UNCHANGED <<fileVars, flights, logs>>
  BY <1>0 DEF DeployLoop, PassesFit, trackerVars
<1>2. /\ q \in [Scanners -> GoodPass] /\ q[p].todo = ps[p].todo \ {b}
      /\ q[p].scan = ps[p].scan /\ \A r \in Scanners \ {p} : q[r] = ps[r]
  BY <1>0 DEF GoodPass, Pass
<1>3. \A r \in Scanners : /\ q[r].pc = ps[r].pc /\ q[r].kind = ps[r].kind
                          /\ q[r].list = ps[r].list
  BY <1>0 DEF GoodPass, Pass
<1>4. \A a \in Apps, r \in Scanners : Finder(ps[r], a, file[a])
        => Finder(q[r], a, file[a]) \/ (r = p /\ a = b)
  BY <1>1, <1>2, <1>3 DEF Finder
<1>5. Owed(b) /\ Finder(ps[p], b, file[b]) => NeedsDeploy(p, b)
  BY <1>1 DEF Owed, Finder, NeedsDeploy, Desired, Listing, Allowed, Parses
<1>6. RowsBare' /\ \A a \in Apps : RowSafe(a)
  BY NormalizedRows DEF DeployLoop
<1>7. CASE VisitUnchanged(p, b)
  <2>1. ps' = q /\ UNCHANGED <<th, hist>> BY <1>7 DEF VisitUnchanged
  <2>2. PassesFit' BY <1>0, <1>3, <2>1 DEF PassesFit, Bare
  <2>3. RolesOK' BY <2>1 DEF Loop, RolesOK, Role
  <2>4. ASSUME NEW a \in Apps, Accounted(a) PROVE Accounted(a)'
    <3>1. SameFile(a) /\ dirty' = dirty /\ file' = file
      BY <1>1, <2>1 DEF SameFile, fileVars
    <3>2. Owed(a) /\ Due(a) => Due(a)'
      BY <1>4, <1>5, <1>7, <2>1, <3>1 DEF Due, VisitUnchanged
    <3> QED BY <1>6, <2>1, <2>4, <3>1, <3>2, Stays
  <2> QED BY <1>6, <2>2, <2>3, <2>4 DEF LoopKept
<1>8. CASE VisitDeploying(p, b)
  <2>1. /\ ps' = QueueRetry(q, b) /\ Starves(b) /\ th' = th /\ IsDeploying(b)
    BY <1>8 DEF VisitDeploying
  <2>2. b \in Scanners BY ScannerSets
  <2>3. \A r \in Scanners :
           /\ ps'[r].kind = q[r].kind /\ ps'[r].list = q[r].list
           /\ \/ ps'[r].pc = q[r].pc
              \/ ps'[r].pc = "poll" /\ r \in Passes
           /\ \A a \in Apps : \A f : Finder(q[r], a, f) => Finder(ps'[r], a, f)
    BY <1>2, <1>3, <2>1, <2>2, QueuePasses
  <2>4. PassesFit' BY <1>0, <1>3, <2>3 DEF PassesFit, Bare
  <2>5. RolesOK' BY <2>1 DEF Loop, RolesOK, Role
  <2>6. ASSUME NEW a \in Apps, Accounted(a), ~Disturbed(a)' PROVE Accounted(a)'
    <3>1. SameFile(a) /\ dirty' = dirty /\ file' = file
      BY <1>0, <1>1, <2>1 DEF SameFile, fileVars, Starves, History
    <3>2. ASSUME Owed(a), Due(a) PROVE Due(a)'
      <4>1. CASE a = b
        <5>1. PICK u \in Threads : u = logs[b]
          BY <2>1 DEF IsDeploying, Together, Typed, TrackerType
        <5>2. Runs(u, b) BY <5>1 DEF Held
        <5>3. q[b].pc = ps[b].pc /\ th'[u] = th[u] BY <1>3, <2>1, <2>2
        <5> QED
          BY <1>2, <2>1, <2>6, <3>1, <3>2, <4>1, <5>2, <5>3, BlockedDue
      <4>2. CASE a # b
        BY <1>4, <2>1, <2>3, <3>1, <3>2, <4>2 DEF Due
      <4> QED BY <4>1, <4>2
    <3> QED BY <1>6, <2>1, <2>6, <3>1, <3>2, Stays
  <2> QED BY <1>6, <2>4, <2>5, <2>6 DEF LoopKept
<1>9. CASE VisitChanged(p, b)
  <2> DEFINE t == <<p, b>>
  <2>0. t \in Threads BY <1>1 DEF Threads
  <2>1. ps' = q /\ UNCHANGED hist /\ th[t].pc = "idle"
        /\ StartThread(t, "deploy", "track", b)
    BY <1>9 DEF VisitChanged, Idle
  <2>2. /\ OnlyThread(t) /\ th'[t].pc = "track" /\ th'[t].op = "deploy"
        /\ th'[t].app = b
    BY <2>0, <2>1, StartShape
  <2>3. PassesFit' BY <1>0, <1>3, <2>1 DEF PassesFit, Bare
  <2>4. RolesOK' BY <2>0, <2>2, RoleMoves DEF Loop, Role, DeployOp, DeployPc
  <2>5. ASSUME NEW a \in Apps, Accounted(a) PROVE Accounted(a)'
    <3>1. SameFile(a) /\ dirty' = dirty /\ file' = file
      BY <1>1, <2>1 DEF SameFile, fileVars
    <3>2. \A u \in Threads : Reader(th[u], a) => Reader(th'[u], a)
      BY <2>1, <2>2 DEF OnlyThread, Reader
    <3>3. Reader(th'[t], b) BY <2>2 DEF Reader, DeployOp
    <3>4. Due(a) => Due(a)'
      BY <1>4, <2>0, <2>1, <3>1, <3>2, <3>3 DEF Due
    <3>5. \A u \in Threads : Stores(th'[u], a) => th'[u] = th[u]
      BY <2>2 DEF OnlyThread, Stores
    <3> QED BY <1>6, <2>5, <3>1, <3>4, <3>5, Stays
  <2> QED BY <1>6, <2>3, <2>4, <2>5 DEF LoopKept
<1> QED BY <1>7, <1>8, <1>9 DEF DeployLoop

LEMMA PassLoop ==
  ASSUME Typed, Held, Together, Loop, NEW p \in Scanners, PassStep(p)
  PROVE  LoopKept
<1>1. ps[p].pc # "hashes" BY DEF Loop, PassesFit
<1>2. ASSUME NEW b \in Apps,
             \/ ScanApp(p, b) \/ ArchiveLoop(p, b) \/ DeployLoop(p, b) \/ RetryStarts(b)
      PROVE  LoopKept
  BY <1>2, ScansLoop, ArchivesLoop, VisitsLoop, RetryLoop
<1>3. CASE InjectNetwork(p) \/ ScanDone(p) BY <1>3, ScansLoop
<1>4. CASE \/ WaitDeploys(p) \/ ArchiveTeardown(p) \/ ArchiveSidecar(p)
           \/ ArchiveTombstone(p) \/ ArchiveMark(p) \/ ArchiveDone(p) \/ SetRoutes(p)
  BY <1>4, ArchivesLoop
<1>5. ~HashesDone(p) /\ \A b \in Apps : ~RefreshHash(p, b)
  BY <1>1 DEF RefreshHash, HashesDone
<1> QED BY <1>2, <1>3, <1>4, <1>5 DEF PassStep

\* The initial Reconcile and every event scan all apps.
LEMMA WatcherLoop ==
  ASSUME Typed, Loop, NEW w \in Watchers, WatcherFires(w)
  PROVE  LoopKept
<1>0. w \in Scanners /\ w \in Passes BY DEF Scanners, Passes
<1>1. /\ ps' = [ps EXCEPT ![w] = NewPass("reconcile")]
      /\ UNCHANGED <<th, row, file, hist>>
  BY DEF WatcherFires, storeVars
<1>2. /\ PassesFit' /\ OnlyPass(w) /\ ps'[w].pc = "scan"
      /\ ps'[w].kind = "reconcile" /\ ps'[w].todo = Apps
  BY <1>0, <1>1, NewPassLists DEF Loop
<1>3. RowsBare' /\ \A a \in Apps : RowSafe(a) BY <1>1, RowsAlike, KeptRows DEF Loop
<1>4. RolesOK' BY <1>1 DEF Loop, RolesOK, Role
<1>5. ASSUME NEW a \in Apps, Accounted(a) PROVE Accounted(a)'
  <2>1. SameFile(a) BY <1>1 DEF SameFile
  <2>2. Finder(ps'[w], a, file'[a]) BY <1>2 DEF Finder
  <2>3. Due(a)' BY <1>0, <2>2 DEF Due
  <2> QED BY <1>1, <1>3, <1>5, <2>1, <2>3, Stays
<1> QED BY <1>2, <1>3, <1>4, <1>5 DEF LoopKept

----------------------------------------------------------------------------
(* What each step keeps: requests and the world outside.                   *)

LEMMA WriteLoop ==
  ASSUME Typed, Loop, UNCHANGED <<th, row, ps>>, NEW b \in Apps, NEW f \in File,
         WriteFile(b, f)
  PROVE  LoopKept
<1>1. RolesOK' /\ RowsBare' /\ PassesFit'
  BY DEF Loop, RolesOK, Role, RowsBare, PassesFit, Bare
<1>2. \A a \in Apps : Accounted(a) /\ ~Disturbed(a)' => Accounted(a)'
  BY WriteAccounted
<1> QED BY <1>1, <1>2 DEF LoopKept

\* A request that leaves the files alone starts a goroutine.
LEMMA JobLoop ==
  ASSUME Typed, Loop, NEW j \in Threads, Idle(j), OnlyThread(j), Role(th'[j]),
         th'[j].pc \notin {"upEnd", "stab", "hash", "upsert"},
         RowsKept, UNCHANGED <<fileVars, hist, ps>>
  PROVE  LoopKept
<1>1. \A a \in Apps : ~Stores(th'[j], a) /\ ~Reader(th[j], a)
  BY DEF Stores, Reader, Idle
<1> QED BY <1>1, RowThread

LEMMA ApiLoop ==
  ASSUME LoopOnly, Typed, Loop, ApiRequest
  PROVE  LoopKept
<1> SUFFICES ASSUME NEW j \in Jobs, NEW a \in Apps,
      \/ ApiRestart(j, a) \/ ApiPull(j, a) \/ ApiCancel(j, a) \/ ApiStop(j, a)
      \/ ApiStart(j, a) \/ ApiScale(j, a) \/ ApiRemove(j, a) \/ ApiPurge(j, a)
      \/ RefreshStatuses(j, a)
      \/ \E id \in Ids : ApiDeploy(j, a, id) \/ ApiRelabel(j, a, id)
      \/ \E i \in 1..KeepVersions : ApiRollback(j, a, i)
    PROVE LoopKept
  BY DEF ApiRequest
<1>0. j \in Threads BY JobInThreads
<1>1. ~ApiPull(j, a) /\ ~ApiCancel(j, a) /\ \A id \in Ids : ~ApiRelabel(j, a, id)
  BY DEF LoopOnly, Request, ApiPull, ApiCancel, ApiRelabel
<1>2. CASE \/ ApiRestart(j, a) \/ ApiStop(j, a) \/ ApiStart(j, a) \/ ApiScale(j, a)
           \/ ApiPurge(j, a)
  <2>1. Idle(j) /\ UNCHANGED <<fileVars, hist, ps>>
    BY <1>2 DEF ApiRestart, ApiStop, ApiStart, ApiScale, ApiPurge
  <2>2. RowsKept
    BY <1>2, RowsAlike, PurgeRows
    DEF ApiRestart, ApiStop, ApiStart, ApiScale, ApiPurge, storeVars
  <2>3. /\ OnlyThread(j)
        /\ \/ th'[j].op = "restart" /\ th'[j].pc = "parse"
           \/ th'[j].op \in {"stop", "start", "scale", "purge"}
              /\ th'[j].pc \in {"stop", "start", "scale", "pgTomb"}
    BY <1>0, <1>2, StartShape
    DEF ApiRestart, ApiStop, ApiStart, ApiScale, ApiPurge
  <2>4. Role(th'[j]) BY <2>3 DEF Role, RestartPc, OtherPc, DeployOp
  <2> QED BY <1>0, <2>1, <2>2, <2>3, <2>4, JobLoop
<1>3. CASE RefreshStatuses(j, a)
  <2>1. /\ OnlyThread(j) /\ Idle(j) /\ th'[j].pc = "rsQuery"
        /\ th'[j].op = "statuses" /\ UNCHANGED <<storeVars, fileVars, hist, ps>>
    BY <1>0, <1>3
    DEF RefreshStatuses, IdleThread, Typed, ThreadsOK, OnlyThread
  <2>2. Role(th'[j]) BY <2>1 DEF Role, OtherPc, DeployOp
  <2> QED BY <1>0, <2>1, <2>2, RowsAlike, JobLoop DEF storeVars
<1>4. ASSUME NEW i \in 1..KeepVersions, ApiRollback(j, a, i) PROVE LoopKept
  <2>1. /\ OnlyThread(j) /\ Idle(j) /\ th'[j].pc = "rbCheck"
        /\ th'[j].op = "rollback" /\ UNCHANGED <<storeVars, fileVars, hist, ps>>
    BY <1>0, <1>4 DEF ApiRollback, IdleThread, Typed, ThreadsOK, OnlyThread
  <2>2. Role(th'[j]) BY <2>1 DEF Role, DeployOp, DeployPc
  <2> QED BY <1>0, <2>1, <2>2, RowsAlike, JobLoop DEF storeVars
<1>5. ASSUME NEW id \in Ids, ApiDeploy(j, a, id) PROVE LoopKept
  <2>1. OnlyThread(j) /\ th'[j].pc = "parse" /\ th'[j].op = "deploy"
    BY <1>0, <1>5, StartShape DEF ApiDeploy
  <2>2. Role(th'[j]) /\ \A c \in Apps : ~Stores(th'[j], c)
    BY <2>1 DEF Role, DeployOp, DeployPc, Stores
  <2>3. UNCHANGED <<row, ps>> /\ WriteFile(a, [id |-> id, net |-> TRUE])
    BY <1>5 DEF ApiDeploy, storeVars
  <2> QED BY <1>0, <2>1, <2>2, <2>3, ContentType, WriteThread
<1>6. CASE ApiRemove(j, a)
  <2>1. Idle(j) /\ UNCHANGED <<ps, row>>
    BY <1>6 DEF ApiRemove, storeVars, DeleteTombstone
  <2>2. CASE StartThread(j, "remove", "rmDown", a) /\ UNCHANGED <<fileVars, hist>>
    <3>1. OnlyThread(j) /\ th'[j].pc = "rmDown" /\ th'[j].op = "remove"
      BY <1>0, <2>2, StartShape
    <3>2. Role(th'[j]) BY <3>1 DEF Role, OtherPc, DeployOp
    <3> QED BY <1>0, <2>1, <2>2, <3>1, <3>2, RowsAlike, JobLoop
  <2>3. CASE WriteFile(a, NoFile) /\ UNCHANGED th
    BY <2>1, <2>3, WriteLoop DEF File
  <2> QED BY <1>6, <2>2, <2>3 DEF ApiRemove
<1> QED BY <1>1, <1>2, <1>3, <1>4, <1>5, <1>6

\* A boot scans every app, and marks archived or lists without a hash those
\* with a tombstone.
LEMMA CrashLoop ==
  ASSUME Typed, Loop, Crash
  PROVE  LoopKept
<1>0. row \in [Apps -> Row \cup {NoRow}] BY DEF Typed, StoreType
<1>1. \A a \in Apps :
        \/ row'[a] = row[a]
        \/ /\ HasRow(a) /\ row'[a].hash = row[a].hash /\ row'[a].path = row[a].path
        \/ row'[a].hash = NoHash
  <2> TAKE a \in Apps
  <2>1. CASE a \notin tombs BY <2>1 DEF Crash
  <2>2. CASE a \in tombs /\ HasRow(a)
    <3>1. row'[a] = [row[a] EXCEPT !.archived = TRUE] BY <2>2 DEF Crash
    <3> QED BY <1>0, <2>2, <3>1 DEF HasRow, Row
  <2>3. CASE a \in tombs /\ ~HasRow(a) BY <2>3 DEF Crash
  <2> QED BY <2>1, <2>2, <2>3
<1>2. RowsBare' BY <1>1 DEF Loop, RowsBare, Bare, HasRow
<1>3. \A a \in Apps : RowSafe(a) BY <1>1 DEF RowSafe, HasRow
<1>4. \A t \in Threads : th'[t] = IdleThread BY DEF Crash
<1>5. RolesOK' BY <1>4 DEF RolesOK, Role, IdleThread, DeployOp, OtherPc
<1>6. PassesFit' BY DEF Crash, PassesFit, IdlePass, Bare
<1>7. ASSUME NEW a \in Apps, Accounted(a) PROVE Accounted(a)'
  <2>1. SameFile(a) /\ Due(a)' BY DEF Crash, SameFile, Due
  <2>2. \A t \in Threads : ~Stores(th'[t], a) BY <1>4 DEF Stores, IdleThread
  <2> QED BY <1>3, <1>7, <2>1, <2>2, Stays
<1> QED BY <1>2, <1>5, <1>6, <1>7 DEF LoopKept

LEMMA OutsideLoop ==
  ASSUME Typed, Loop, Outside
  PROVE  LoopKept
<1>1. ASSUME NEW a \in Apps, DeleteDir(a) PROVE LoopKept
  BY <1>1, WriteLoop DEF DeleteDir, storeVars, File
<1>2. ASSUME NEW a \in Apps, NEW id \in Ids, NEW net \in EditNet, Edit(a, id, net)
      PROVE  LoopKept
  <2>1. [id |-> id, net |-> net] \in File
    BY ContentType, LifecycleAssumption
  <2> QED BY <1>2, <2>1, WriteLoop DEF Edit, storeVars
<1>3. ASSUME NEW a \in Apps, HealthFlip(a) PROVE LoopKept
  <2>1. UNCHANGED <<th, row, file, dirty, hist, ps>>
    BY <1>3 DEF HealthFlip, storeVars, fileVars
  <2>2. RolesOK' /\ RowsBare' /\ PassesFit'
    BY <2>1 DEF Loop, RolesOK, Role, RowsBare, PassesFit, Bare
  <2>3. ASSUME NEW b \in Apps, Accounted(b) PROVE Accounted(b)'
    BY <2>1, <2>3, Stays DEF SameFile, RowSafe, HasRow, Due
  <2> QED BY <2>2, <2>3 DEF LoopKept
<1> QED BY <1>1, <1>2, <1>3, RetryLoop, CrashLoop DEF Outside

----------------------------------------------------------------------------
(* An app once disturbed stays so.                                         *)

MoreHist ==
  /\ hist.raced \subseteq hist'.raced
  /\ hist.reverted \subseteq hist'.reverted
  /\ hist.starved \subseteq hist'.starved

LEMMA HistSteps ==
  ASSUME Typed,
         \/ hist' = hist
         \/ \E a, f : WriteFile(a, f)
         \/ \E t : Tried(t)
         \/ \E a : Starves(a)
         \/ \E a : hist' = [hist EXCEPT !.relabelled = @ \cup {a}]
  PROVE  MoreHist
<1>1. hist \in History BY DEF Typed, FilesOK
<1>2. CASE hist' = hist BY <1>2 DEF MoreHist
<1>3. ASSUME NEW a, NEW f, WriteFile(a, f) PROVE MoreHist
  BY <1>1, <1>3 DEF MoreHist, WriteFile, History
<1>4. ASSUME NEW t, Tried(t) PROVE MoreHist
  BY <1>1, <1>4 DEF MoreHist, Tried, History
<1>5. ASSUME NEW a, Starves(a) PROVE MoreHist
  BY <1>1, <1>5 DEF MoreHist, Starves, History
<1>6. ASSUME NEW a, hist' = [hist EXCEPT !.relabelled = @ \cup {a}] PROVE MoreHist
  BY <1>1, <1>6 DEF MoreHist, History
<1> QED BY <1>2, <1>3, <1>4, <1>5, <1>6

LEMMA NextMoreHist == Typed /\ [Next]_vars => MoreHist
<1> SUFFICES ASSUME Typed, [Next]_vars PROVE MoreHist OBVIOUS
<1>1. CASE UNCHANGED vars BY <1>1, HistSteps DEF vars
<1>2. CASE ApiRequest
  <2>1. ASSUME NEW j \in Jobs, NEW a \in Apps,
               \/ ApiRestart(j, a) \/ ApiPull(j, a) \/ ApiCancel(j, a)
               \/ ApiStop(j, a) \/ ApiStart(j, a) \/ ApiScale(j, a)
               \/ ApiRemove(j, a) \/ ApiPurge(j, a) \/ RefreshStatuses(j, a)
               \/ \E i \in 1..KeepVersions : ApiRollback(j, a, i)
        PROVE  MoreHist
    BY <2>1, HistSteps
    DEF ApiRestart, ApiPull, ApiCancel, ApiStop, ApiStart, ApiScale, ApiRemove,
        ApiPurge, RefreshStatuses, ApiRollback
  <2>2. ASSUME NEW j \in Jobs, NEW a \in Apps, NEW id \in Ids, ApiDeploy(j, a, id)
        PROVE  MoreHist
    BY <2>2, HistSteps DEF ApiDeploy
  <2>3. ASSUME NEW j \in Jobs, NEW a \in Apps, NEW id \in Ids, ApiRelabel(j, a, id)
        PROVE  MoreHist
    BY <2>3, HistSteps DEF ApiRelabel
  <2> QED BY <1>2, <2>1, <2>2, <2>3 DEF ApiRequest
<1>3. CASE Outside
  BY <1>3, HistSteps
  DEF Outside, DeleteDir, HealthFlip, RetryTimesOut, Edit, Crash
<1>4. ASSUME NEW w \in Watchers, WatcherFires(w) PROVE MoreHist
  BY <1>4, HistSteps DEF WatcherFires
<1>5. ASSUME NEW t \in Threads, ThreadStep(t) PROVE MoreHist
  <2>1. CASE TrackedStep(t)
    BY <2>1, HistSteps
    DEF TrackedStep, Track, CheckOk, Refuse, PullImages, PullFails, UpRead, UpOk,
        UpFails, RestartOk, RestartFails, Stabilize
  <2>2. CASE UntrackedStep(t)
    BY <2>2, HistSteps
    DEF UntrackedStep, CancelCheck, CancelUpEnd, Stop, Start, Scale
  <2>3. CASE ReconcilerStep(t)
    BY <2>3, HistSteps
    DEF ReconcilerStep, LoadConfig, Skipped, ReadHash, StoreApp, StoreVersion,
        SetStatus, RollbackCheck, RollbackWrite, RollbackRestore, RemoveTeardown,
        RemovePurge, RemoveFiles, RemoveRow, PurgeTombstone, StatusQuery,
        StatusUpdate
  <2> QED BY <1>5, <2>1, <2>2, <2>3 DEF ThreadStep
<1>6. ASSUME NEW p \in Scanners, PassStep(p) PROVE MoreHist
  <2>1. CASE \/ InjectNetwork(p) \/ ScanDone(p) \/ WaitDeploys(p) \/ ArchiveTeardown(p)
             \/ ArchiveSidecar(p) \/ ArchiveTombstone(p) \/ ArchiveMark(p)
             \/ ArchiveDone(p) \/ HashesDone(p) \/ SetRoutes(p)
    BY <2>1, HistSteps
    DEF InjectNetwork, ScanDone, WaitDeploys, ArchiveTeardown, ArchiveSidecar,
        ArchiveTombstone, ArchiveMark, ArchiveDone, HashesDone, SetRoutes
  <2>2. ASSUME NEW a \in Apps,
               \/ ScanApp(p, a) \/ DeployLoop(p, a) \/ ArchiveLoop(p, a)
               \/ RefreshHash(p, a) \/ RetryStarts(a)
        PROVE  MoreHist
    BY <2>2, HistSteps
    DEF ScanApp, DeployLoop, VisitUnchanged, VisitDeploying, VisitChanged,
        ArchiveLoop, RefreshHash, RetryStarts
  <2> QED BY <1>6, <2>1, <2>2 DEF PassStep
<1> QED BY <1>1, <1>2, <1>3, <1>4, <1>5, <1>6 DEF Next, System, ScannerStep

----------------------------------------------------------------------------
(* The theorem.                                                            *)

LEMMA LoopStep ==
  ASSUME LoopOnly, Typed, Held, Together, Loop, [Next]_vars
  PROVE  Loop'
<1>1. CASE UNCHANGED vars
  <2>1. UNCHANGED <<th, row, file, dirty, hist, ps>>
    BY <1>1 DEF vars, storeVars, fileVars
  <2>2. RolesOK' /\ RowsBare' /\ PassesFit'
    BY <2>1 DEF Loop, RolesOK, Role, RowsBare, PassesFit, Bare
  <2>3. ASSUME NEW a \in Apps PROVE (Disturbed(a) \/ Accounted(a))'
    <3>1. CASE Disturbed(a) BY <2>1, <3>1 DEF Disturbed
    <3>2. CASE Accounted(a)
      BY <2>1, <3>2, Stays DEF SameFile, RowSafe, HasRow, Due
    <3> QED BY <3>1, <3>2 DEF Loop
  <2> QED BY <2>2, <2>3 DEF Loop
<1>2. CASE Next
  <2>1. LoopKept
    BY <1>2, ThreadLoop, PassLoop, WatcherLoop, ApiLoop, OutsideLoop
    DEF Next, System, ScannerStep
  <2>2. ASSUME NEW a \in Apps PROVE (Disturbed(a) \/ Accounted(a))'
    <3>1. Disturbed(a) => Disturbed(a)'
      BY NextMoreHist DEF MoreHist, Disturbed
    <3>2. Accounted(a) => (Disturbed(a) \/ Accounted(a))' BY <2>1 DEF LoopKept
    <3> QED BY <3>1, <3>2 DEF Loop
  <2> QED BY <2>1, <2>2 DEF Loop, LoopKept
<1> QED BY <1>1, <1>2

LEMMA LoopInit ==
  ASSUME LoopOnly, Init
  PROVE  Loop
<1>0. PICK st \in [Apps -> InitStates], c \in [Apps -> InitIds] :
      LET F(a) == [id |-> c[a], net |-> st[a] # "new"]
          Ran(a) == st[a] \in {"deployed", "imported"}
      IN
      /\ file = [a \in Apps |-> IF st[a] = "empty" THEN NoFile ELSE F(a)]
      /\ row = [a \in Apps |-> IF Ran(a)
                  THEN [id |-> 1, hash |-> hashFile(F(a)), status |-> "running",
                        archived |-> FALSE,
                        path |-> IF st[a] = "deployed" THEN "ok" ELSE "old"]
                  ELSE NoRow]
      /\ hist = [gone |-> {a \in Apps : st[a] = "empty"}, raced |-> {},
                 reverted |-> {}, starved |-> {}, relabelled |-> {},
                 tried |-> [a \in Apps |-> IF Ran(a) THEN F(a) ELSE NoFile]]
      /\ dirty = TRUE
      /\ th = [t \in Threads |-> IdleThread]
      /\ ps = [p \in Scanners |-> IdlePass]
  BY DEF Init
<1>1. RolesOK BY <1>0 DEF RolesOK, Role, IdleThread, DeployOp, OtherPc
<1>2. PassesFit BY <1>0 DEF PassesFit, IdlePass, Bare
<1>3. \A a \in Apps : st[a] # "imported" BY <1>0 DEF LoopOnly
<1>4. \A a \in Apps : HasRow(a) => row[a].path = "ok" /\ hist.tried[a] = file[a]
  BY <1>0, <1>3 DEF HasRow
<1>5. RowsBare BY <1>4 DEF RowsBare, Bare, HasRow
<1>6. \A a \in Apps : Accounted(a)
  BY <1>0, <1>4 DEF Accounted, HashTells, StoresNewest, OnTheWay, Owed, Due, Stores,
              IdleThread
<1> QED BY <1>1, <1>2, <1>5, <1>6 DEF Loop

LEMMA LoopInvariant == ASSUME LoopOnly PROVE Spec => []Loop
<1>0. Uncancelled BY DEF LoopOnly, Uncancelled
<1>1. Init => Loop BY LoopInit
<1>2. Typed /\ Held /\ Together /\ Loop /\ [Next]_vars => Loop' BY LoopStep
<1>3. Spec => []Together BY <1>0, FlightsAreLogs
<1> QED BY <1>1, <1>2, <1>3, HeldInvariant, PTL DEF Spec

\* Reconcile, deployApp, RollbackOne and reconcileAfterDeploy: where nobody
\* pulls, cancels or edits labels and no row came from another layout, no edit
\* is lost.  However deploys, rollbacks, restarts, removals, retries, events and
\* crashes meet, whenever the server is at rest the newest allowed file of every
\* app has been through docker compose, but for apps whose file changed under a
\* running deploy, went back to the stored hash, or that a restart kept from a
\* Reconcile while their retry was running.
THEOREM EditsAreTried == ASSUME LoopOnly PROVE Spec => []EditsTried
<1>1. Loop => EditsTried
  <2> SUFFICES ASSUME Loop, Quiet, NEW a \in Apps, ~Disturbed(a) PROVE Settled(a)
    BY DEF EditsTried
  <2>1. OnTheWay(a) BY DEF Loop, Accounted
  <2>2. ~Due(a)
    BY DEF Quiet, Idle, PassIdle, Due, Reader, Finder
  <2> QED BY <2>1, <2>2 DEF OnTheWay, Owed, Settled
<1>2. Spec => []Loop BY LoopInvariant
<1> QED BY <1>1, <1>2, PTL
=============================================================================
