---------------------------- MODULE BackupProofs ----------------------------
(***************************************************************************)
(* What backups promise, for any number of configs, jobs, restores and     *)
(* runs, whatever fails and wherever the server dies.                      *)
(*                                                                         *)
(* Restores and hooks (BackupInv).  What a restore has spooled is nothing  *)
(* or the bytes of the run it was asked for, and while the service is down *)
(* a run holds it down and will start it again.                            *)
(*                                                                         *)
(* Retention (RetainInv).  A listed run is doomed: at least as many newer  *)
(* runs of its config succeeded as the tightest retention asks for.  It    *)
(* stays doomed when another job prunes one of those newer runs, because   *)
(* that one is doomed itself and the runs newer than it are newer than     *)
(* both.  A file that only one run wrote is removed by nobody but a job    *)
(* that listed that run.                                                   *)
(***************************************************************************)
EXTENDS Backup, FiniteSetTheorems, TLAPS

\* A job and a restore are records of their locals. What a restore has spooled is
\* nothing yet, or the bytes of the run it was asked for.
IsJob(r) ==
    \/ r.pc = "idle"
    \/ r \in [pc : {r.pc}, cfg : {r.cfg}, row : {r.row}, run : {r.run}, file : {r.file},
              old : {r.old}, del : {r.del}]
IsRestore(r) ==
    \/ r.pc \in {"idle", "upload"}
    \/ r \in [pc : {r.pc}, run : {r.run}, file : {r.file}, hooks : {r.hooks},
              spool : {{}, {r.run}}]
RunShapes ==
    /\ job = [j \in Jobs |-> job[j]] /\ \A j \in Jobs : IsJob(job[j])
    /\ restore = [x \in Restores |-> restore[x]] /\ \A x \in Restores : IsRestore(restore[x])

\* Between its stop hook and its start hook a run keeps the service down.
JobHolds(r) == r.pc \in {"dump", "upload", "post", "undo"} /\ r.row.hooks
RestoreHolds(r) == r.pc \in {"apply", "post"} /\ r.hooks
DownWhileHeld ==
    /\ svcUp \in BOOLEAN /\ hookFailed \in BOOLEAN
    /\ svcUp \/ hookFailed \/ stuck # {}
       \/ (\E j \in Jobs : JobHolds(job[j])) \/ (\E x \in Restores : RestoreHolds(restore[x]))

BackupInv == RunShapes /\ DownWhileHeld /\ RestoreVerbatim

\* How a step of a run that kept the service down (held) and does so after it
\* (holds) may change the service.
ServiceMoves(held, holds) ==
    \/ svcUp' = TRUE /\ hookFailed' = hookFailed
    \/ svcUp' = svcUp /\ hookFailed' = TRUE
    \/ svcUp' = svcUp /\ hookFailed' = hookFailed /\ (held => holds)
    \/ svcUp' \in {svcUp, FALSE} /\ hookFailed' = hookFailed /\ holds

\* At the start nothing runs.
LEMMA BackupInit == BInit => BackupInv
<1> SUFFICES ASSUME BInit PROVE BackupInv
  OBVIOUS
<1>1. RunShapes
  BY DEF BInit, RunShapes, IsJob, IsRestore, IdleJob
<1>2. DownWhileHeld /\ RestoreVerbatim
  BY DEF BInit, DownWhileHeld, RestoreVerbatim
<1> QED BY <1>1, <1>2 DEF BackupInv

\* One job moves on.
LEMMA JobMoves ==
  ASSUME BackupInv, NEW j \in Jobs, NEW r, job' = [job EXCEPT ![j] = r], IsJob(r),
         UNCHANGED <<restore, stuck, restored>>, ServiceMoves(JobHolds(job[j]), JobHolds(r))
  PROVE  BackupInv'
<1>1. job'[j] = r /\ \A i \in Jobs \ {j} : job'[i] = job[i]
  BY DEF BackupInv, RunShapes
<1>2. job' = [i \in Jobs |-> job'[i]]
  BY DEF BackupInv, RunShapes
<1>3. RunShapes'
  BY <1>1, <1>2 DEF BackupInv, RunShapes
<1>4. svcUp' \in BOOLEAN /\ hookFailed' \in BOOLEAN
  BY DEF ServiceMoves, BackupInv, DownWhileHeld
<1>5. svcUp' \/ hookFailed' \/ stuck' # {}
      \/ (\E i \in Jobs : JobHolds(job'[i])) \/ (\E x \in Restores : RestoreHolds(restore'[x]))
  <2>1. CASE JobHolds(r)
    BY <1>1, <2>1
  <2>2. CASE ~JobHolds(r)
    <3>1. svcUp' \/ hookFailed' \/ (svcUp' = svcUp /\ hookFailed' = hookFailed /\ ~JobHolds(job[j]))
      BY <2>2 DEF ServiceMoves
    <3>2. svcUp \/ hookFailed \/ stuck # {}
          \/ (\E i \in Jobs : JobHolds(job[i])) \/ (\E x \in Restores : RestoreHolds(restore[x]))
      BY DEF BackupInv, DownWhileHeld
    <3>3. ASSUME ~JobHolds(job[j]), \E i \in Jobs : JobHolds(job[i])
          PROVE  \E i \in Jobs : JobHolds(job'[i])
      BY <1>1, <3>3
    <3> QED BY <3>1, <3>2, <3>3
  <2> QED BY <2>1, <2>2
<1> QED BY <1>3, <1>4, <1>5 DEF BackupInv, DownWhileHeld, RestoreVerbatim

\* One restore moves on.
LEMMA RestoreMoves ==
  ASSUME BackupInv, NEW x \in Restores, NEW r, restore' = [restore EXCEPT ![x] = r],
         IsRestore(r), UNCHANGED <<job, stuck>>, RestoreVerbatim',
         ServiceMoves(RestoreHolds(restore[x]), RestoreHolds(r))
  PROVE  BackupInv'
<1>1. restore'[x] = r /\ \A i \in Restores \ {x} : restore'[i] = restore[i]
  BY DEF BackupInv, RunShapes
<1>2. restore' = [i \in Restores |-> restore'[i]]
  BY DEF BackupInv, RunShapes
<1>3. RunShapes'
  BY <1>1, <1>2 DEF BackupInv, RunShapes
<1>4. svcUp' \in BOOLEAN /\ hookFailed' \in BOOLEAN
  BY DEF ServiceMoves, BackupInv, DownWhileHeld
<1>5. svcUp' \/ hookFailed' \/ stuck' # {}
      \/ (\E i \in Jobs : JobHolds(job'[i])) \/ (\E i \in Restores : RestoreHolds(restore'[i]))
  <2>1. CASE RestoreHolds(r)
    BY <1>1, <2>1
  <2>2. CASE ~RestoreHolds(r)
    <3>1. svcUp' \/ hookFailed' \/ (svcUp' = svcUp /\ hookFailed' = hookFailed /\ ~RestoreHolds(restore[x]))
      BY <2>2 DEF ServiceMoves
    <3>2. svcUp \/ hookFailed \/ stuck # {}
          \/ (\E i \in Jobs : JobHolds(job[i])) \/ (\E i \in Restores : RestoreHolds(restore[i]))
      BY DEF BackupInv, DownWhileHeld
    <3>3. ASSUME ~RestoreHolds(restore[x]), \E i \in Restores : RestoreHolds(restore[i])
          PROVE  \E i \in Restores : RestoreHolds(restore'[i])
      BY <1>1, <3>3
    <3> QED BY <3>1, <3>2, <3>3
  <2> QED BY <2>1, <2>2
<1> QED BY <1>3, <1>4, <1>5 DEF BackupInv, DownWhileHeld

\* A job's step moves it from one place of its code to another; only the steps
\* with hooks touch the service.
LEMMA JobStep ==
  ASSUME BackupInv, NEW j \in Jobs, JobNext(j)
  PROVE  BackupInv'
<1> DEFINE q == job[j]
           steps(r) == /\ job' = [job EXCEPT ![j] = r] /\ IsJob(r)
                       /\ ServiceMoves(JobHolds(q), JobHolds(r))
<1>1. IsJob(q) /\ IsJob(IdleJob)
  BY DEF BackupInv, RunShapes, IsJob, IdleJob
<1>2. ASSUME NEW p, Step(j, p), q.pc # "idle"
      PROVE  /\ job' = [job EXCEPT ![j] = [q EXCEPT !.pc = p]] /\ IsJob([q EXCEPT !.pc = p])
             /\ [q EXCEPT !.pc = p].pc = p /\ [q EXCEPT !.pc = p].row = q.row
  BY <1>1, <1>2 DEF Step, IsJob
<1>3. UNCHANGED <<restore, stuck, restored>>
  BY DEF JobNext, PlanBackup, PreBackup, DumpBackup, UploadBackup, PostBackup, UndoBackup,
         RecordBackup, ListOld, PruneFile, PruneRow, EndBackup
<1>4. CASE PlanBackup(j) \/ EndBackup(j) \/ RecordBackup(j)
  <2>1. q.pc \in {"plan", "prune", "record"} /\ UNCHANGED <<svcUp, hookFailed>>
    BY <1>4 DEF PlanBackup, EndBackup, RecordBackup
  <2>2. Finish(j) \/ Step(j, "pre") \/ Step(j, "list")
    BY <1>4 DEF PlanBackup, EndBackup, RecordBackup
  <2>3. steps(IdleJob) \/ steps([q EXCEPT !.pc = "pre"]) \/ steps([q EXCEPT !.pc = "list"])
    BY <1>1, <1>2, <2>1, <2>2 DEF Finish, ServiceMoves, JobHolds
  <2> QED BY <1>3, <2>3, JobMoves
<1>5. CASE PreBackup(j)
  <2>1. steps([q EXCEPT !.pc = "dump"]) \/ steps([q EXCEPT !.pc = "undo"])
    BY <1>2, <1>5 DEF PreBackup, PreHooks, ServiceMoves, JobHolds
  <2> QED BY <1>3, <2>1, JobMoves
<1>6. CASE DumpBackup(j)
  <2> DEFINE f == <<q.row.container, now>>
             r == [q EXCEPT !.pc = "upload", !.file = f]
  <2>1. steps(r) \/ steps([q EXCEPT !.pc = "undo"])
    <3>1. q.pc = "dump" /\ UNCHANGED <<svcUp, hookFailed>>
      BY <1>6 DEF DumpBackup
    <3>2. Step(j, "undo") \/ job' = [job EXCEPT ![j] = r]
      BY <1>6 DEF DumpBackup
    <3>3. IsJob(r) /\ r.pc = "upload" /\ r.row = q.row
      BY <1>1, <3>1 DEF IsJob
    <3> HIDE DEF r
    <3> QED BY <1>2, <3>1, <3>2, <3>3 DEF ServiceMoves, JobHolds
  <2> QED BY <1>3, <2>1, JobMoves
<1>7. CASE UploadBackup(j)
  <2>1. steps([q EXCEPT !.pc = "post"]) \/ steps([q EXCEPT !.pc = "undo"])
    BY <1>2, <1>7 DEF UploadBackup, ServiceMoves, JobHolds
  <2> QED BY <1>3, <2>1, JobMoves
<1>8. CASE PostBackup(j)
  <2>1. steps([q EXCEPT !.pc = "record"])
    BY <1>2, <1>8 DEF PostBackup, PostHooks, ServiceMoves, JobHolds
  <2> QED BY <1>3, <2>1, JobMoves
<1>9. CASE UndoBackup(j)
  <2>1. steps(IdleJob)
    BY <1>1, <1>9 DEF UndoBackup, Finish, PostHooks, ServiceMoves, JobHolds
  <2> QED BY <1>3, <2>1, JobMoves
<1>10. CASE ListOld(j) \/ PruneFile(j) \/ PruneRow(j)
  <2>1. q.pc \in {"list", "prune"} /\ UNCHANGED <<svcUp, hookFailed>>
    BY <1>10 DEF ListOld, PruneFile, PruneRow
  <2>2. q \in [pc : {q.pc}, cfg : {q.cfg}, row : {q.row}, run : {q.run}, file : {q.file},
                old : {q.old}, del : {q.del}]
    BY <1>1, <2>1 DEF IsJob
  <2>3. ASSUME NEW r, job' = [job EXCEPT ![j] = r], IsJob(r), r.pc = "prune"
        PROVE  BackupInv'
    <3>1. ServiceMoves(JobHolds(q), JobHolds(r))
      BY <2>1, <2>3 DEF ServiceMoves, JobHolds
    <3> QED BY <1>3, <2>3, <3>1, JobMoves
  <2>4. CASE ListOld(j)
    <3> DEFINE old == {<<r, brun[r].file>> : r \in Prunable(q.cfg, q.row.keep)}
               n == [q EXCEPT !.pc = "prune", !.old = old]
    <3>1. job' = [job EXCEPT ![j] = n]
      BY <2>4 DEF ListOld
    <3> HIDE DEF old
    <3>2. IsJob(n) /\ n.pc = "prune"
      BY <2>2 DEF IsJob
    <3> QED BY <2>3, <3>1, <3>2
  <2>5. CASE PruneFile(j)
    <3>1. PICK o \in q.old :
             \/ job' = [job EXCEPT ![j].del = o[1], ![j].old = @ \ {o}]
             \/ job' = [job EXCEPT ![j].old = @ \ {o}]
      BY <2>5 DEF PruneFile
    <3> DEFINE n == [q EXCEPT !.del = o[1], !.old = q.old \ {o}]
               m == [q EXCEPT !.old = q.old \ {o}]
    <3>2. job' = [job EXCEPT ![j] = n] \/ job' = [job EXCEPT ![j] = m]
      BY <3>1
    <3>3. q.pc = "prune"
      BY <2>5 DEF PruneFile
    <3>4. IsJob(n) /\ n.pc = "prune" /\ IsJob(m) /\ m.pc = "prune"
      BY <2>2, <3>3 DEF IsJob
    <3> QED BY <2>3, <3>2, <3>4
  <2>6. CASE PruneRow(j)
    <3> DEFINE n == [q EXCEPT !.del = 0]
    <3>1. job' = [job EXCEPT ![j] = n] /\ q.pc = "prune"
      BY <2>6 DEF PruneRow
    <3>2. IsJob(n) /\ n.pc = "prune"
      BY <2>2, <3>1 DEF IsJob
    <3> QED BY <2>3, <3>1, <3>2
  <2> QED BY <1>10, <2>4, <2>5, <2>6
<1> QED BY <1>4, <1>5, <1>6, <1>7, <1>8, <1>9, <1>10 DEF JobNext

\* The steps of a restore: what it spools was checked against the checksum of the
\* run it was asked for, and nothing else is put back.
LEMMA RestoreStep ==
  ASSUME BackupInv, NEW x \in Restores, RestoreNext(x) \/ \E r \in Runs : BeginRestore(x, r)
  PROVE  BackupInv'
<1> DEFINE q == restore[x]
           steps(r) == /\ restore' = [restore EXCEPT ![x] = r] /\ IsRestore(r)
                       /\ ServiceMoves(RestoreHolds(q), RestoreHolds(r))
<1>1. IsRestore(q) /\ IsRestore(IdleJob)
  BY DEF BackupInv, RunShapes, IsRestore, IdleJob
<1>2. ASSUME NEW p, StepR(x, p), q.pc \notin {"idle", "upload"}
      PROVE  /\ restore' = [restore EXCEPT ![x] = [q EXCEPT !.pc = p]]
             /\ IsRestore([q EXCEPT !.pc = p])
             /\ [q EXCEPT !.pc = p].pc = p /\ [q EXCEPT !.pc = p].hooks = q.hooks
  BY <1>1, <1>2 DEF StepR, IsRestore
<1>3. UNCHANGED <<job, stuck>>
  BY DEF RestoreNext, BeginRestore, PlanRestore, Download, PreRestore, ApplyRestore,
         PostRestore, UploadRestore, EndUpload
<1>4. ASSUME NEW r, steps(r), RestoreVerbatim' PROVE BackupInv'
  BY <1>3, <1>4, RestoreMoves
<1>5. ASSUME UNCHANGED restored PROVE RestoreVerbatim'
  BY <1>5 DEF BackupInv, RestoreVerbatim
<1> HIDE DEF q
<1>6. CASE \E r \in Runs : BeginRestore(x, r)
  <2>1. PICK r \in Runs : BeginRestore(x, r)
    BY <1>6
  <2> DEFINE n == [pc |-> "plan", run |-> r, file |-> NoFile, hooks |-> FALSE, spool |-> {}]
  <2>2. steps(n) /\ UNCHANGED restored
    BY <2>1 DEF BeginRestore, IsRestore, ServiceMoves, RestoreHolds, q
  <2> QED BY <1>4, <1>5, <2>2
<1>7. CASE PlanRestore(x)
  <2> DEFINE n == [q EXCEPT !.pc = "download", !.file = brun[q.run].file,
                            !.hooks = bcfg[brun[q.run].cfg].hooks]
  <2>1. q.pc = "plan" /\ UNCHANGED <<svcUp, hookFailed, restored>>
    BY <1>7 DEF PlanRestore, q
  <2>2. IsRestore(n) /\ n.pc = "download"
    BY <1>1, <2>1 DEF IsRestore
  <2>3. restore' = [restore EXCEPT ![x] = n] \/ restore' = [restore EXCEPT ![x] = IdleJob]
    BY <1>7 DEF PlanRestore, FinishR, q
  <2> HIDE DEF n
  <2>4. steps(n) \/ steps(IdleJob)
    BY <1>1, <2>1, <2>2, <2>3 DEF ServiceMoves, RestoreHolds
  <2> QED BY <1>4, <1>5, <2>1, <2>4
<1>8. CASE Download(x)
  <2> DEFINE n == [q EXCEPT !.pc = "pre", !.spool = {q.run}]
             m == [q EXCEPT !.pc = "pre"]
  <2>1. q.pc = "download" /\ UNCHANGED <<svcUp, hookFailed, restored>>
    BY <1>8 DEF Download, q
  <2>2. IsRestore(n) /\ n.pc = "pre"
    BY <1>1, <2>1 DEF IsRestore
  <2>3. \/ restore' = [restore EXCEPT ![x] = n] \/ StepR(x, "pre") \/ FinishR(x)
    <3>1. ASSUME ChecksumOK(q.run, q.file) PROVE bfile[q.file].by = {q.run}
      BY <3>1 DEF ChecksumOK
    <3>2. \/ StepR(x, "pre") \/ FinishR(x)
          \/ /\ ChecksumOK(q.run, q.file)
             /\ restore' = [restore EXCEPT ![x] = [q EXCEPT !.pc = "pre", !.spool = bfile[q.file].by]]
      BY <1>8 DEF Download, q
    <3> QED BY <3>1, <3>2
  <2>4. steps(n) \/ steps(m) \/ steps(IdleJob)
    <3> HIDE DEF n
    <3> QED BY <1>1, <1>2, <2>1, <2>2, <2>3 DEF FinishR, ServiceMoves, RestoreHolds
  <2> QED BY <1>4, <1>5, <2>1, <2>4
<1>9. CASE PreRestore(x)
  <2>1. q.pc = "pre" /\ UNCHANGED restored
    BY <1>9 DEF PreRestore, q
  <2>2. steps([q EXCEPT !.pc = "apply"]) \/ steps([q EXCEPT !.pc = "post"])
    <3>1. PreHooks([hooks |-> q.hooks], StepR(x, "apply"), StepR(x, "post")) /\ hookFailed' = hookFailed
      BY <1>9 DEF PreRestore, q
    <3>2. \/ StepR(x, "apply") /\ (q.hooks => svcUp' = FALSE) /\ (~q.hooks => svcUp' = svcUp)
          \/ StepR(x, "post") /\ q.hooks /\ svcUp' \in {svcUp, FALSE}
      BY <3>1 DEF PreHooks
    <3> QED BY <1>2, <2>1, <3>1, <3>2 DEF ServiceMoves, RestoreHolds
  <2> QED BY <1>4, <1>5, <2>1, <2>2
<1>10. CASE ApplyRestore(x)
  <2>1. q.pc = "apply" /\ UNCHANGED <<svcUp, hookFailed>> /\ StepR(x, "post")
    BY <1>10 DEF ApplyRestore, q
  <2>2. steps([q EXCEPT !.pc = "post"])
    BY <1>2, <2>1 DEF ServiceMoves, RestoreHolds
  <2>3. q.spool \in {{}, {q.run}}
    BY <1>1, <2>1 DEF IsRestore
  <2>4. restored' = restored \/ restored' = restored \cup {<<q.run, {q.run}>>}
    BY <1>10, <2>3 DEF ApplyRestore, q
  <2>5. RestoreVerbatim'
    BY <2>4 DEF BackupInv, RestoreVerbatim
  <2> QED BY <1>4, <2>2, <2>5
<1>11. CASE PostRestore(x)
  <2>1. q.pc = "post" /\ UNCHANGED restored
    BY <1>11 DEF PostRestore, q
  <2>2. steps(IdleJob)
    BY <1>1, <1>11 DEF PostRestore, FinishR, PostHooks, ServiceMoves, RestoreHolds, q
  <2> QED BY <1>4, <1>5, <2>1, <2>2
<1>12. CASE UploadRestore(x) \/ EndUpload(x)
  <2> DEFINE n == [pc |-> "upload"]
  <2>1. q.pc \in {"idle", "upload"} /\ UNCHANGED <<svcUp, hookFailed, restored>>
    BY <1>12 DEF UploadRestore, EndUpload, q
  <2>2. steps(n) \/ steps(IdleJob)
    BY <1>1, <1>12, <2>1 DEF UploadRestore, EndUpload, FinishR, IsRestore, ServiceMoves, RestoreHolds
  <2> QED BY <1>4, <1>5, <2>1, <2>2
<1> QED BY <1>6, <1>7, <1>8, <1>9, <1>10, <1>11, <1>12 DEF RestoreNext

\* Every step keeps the invariant; a crash marks the runs that it cut off.
LEMMA BackupStep == BackupInv /\ [BNext]_bvars => BackupInv'
<1> SUFFICES ASSUME BackupInv, [BNext]_bvars PROVE BackupInv'
  OBVIOUS
<1>1. CASE UNCHANGED <<job, restore, svcUp, hookFailed, stuck, restored>>
  BY <1>1 DEF BackupInv, RunShapes, DownWhileHeld, RestoreVerbatim
<1>2. CASE \E j \in Jobs : JobNext(j)
  BY <1>2, JobStep
<1>3. CASE \E j \in Jobs, c \in BackupConfigs : BeginBackup(j, c)
  <2>1. PICK j \in Jobs, c \in BackupConfigs : BeginBackup(j, c)
    BY <1>3
  <2> DEFINE n == [pc |-> "plan", cfg |-> c, row |-> bcfg[c], run |-> nextRun,
                   file |-> NoFile, old |-> {}, del |-> 0]
  <2>2. /\ job' = [job EXCEPT ![j] = n] /\ job[j].pc = "idle"
        /\ UNCHANGED <<restore, stuck, restored, svcUp, hookFailed>>
    BY <2>1 DEF BeginBackup
  <2>3. IsJob(n) /\ n.pc = "plan"
    BY DEF IsJob
  <2> HIDE DEF n
  <2> QED BY <2>2, <2>3, JobMoves DEF ServiceMoves, JobHolds
<1>4. CASE \E x \in Restores : RestoreNext(x) \/ \E r \in Runs : BeginRestore(x, r)
  BY <1>4, RestoreStep
<1>5. CASE Restart
  <2>1. stuck' # {} /\ UNCHANGED <<svcUp, hookFailed, restored>>
    BY <1>5 DEF Restart
  <2>2. RunShapes'
    BY <1>5 DEF Restart, RunShapes, IsJob, IsRestore, IdleJob
  <2> QED BY <2>1, <2>2 DEF BackupInv, DownWhileHeld, RestoreVerbatim
<1> QED
  BY <1>1, <1>2, <1>3, <1>4, <1>5, ZenonT(30)
     DEF BNext, bvars, ScheduleConfig, DeleteConfig, UnscheduleConfig, CreateConfig,
         UpdateConfig, RemoveApp, ApplySidecar, Tick

\* Scheduler.RunRestore puts back exactly the bytes of the run it was asked for.
THEOREM RestoresAreVerbatim == BSpec => []RestoreVerbatim
<1>1. BackupInv => RestoreVerbatim
  BY DEF BackupInv
<1> QED BY <1>1, BackupInit, BackupStep, PTL DEF BSpec

\* The pre hook's stop is undone by every way out of a backup and of a restore.
THEOREM ServiceComesBack == BSpec => []ServiceRestarted
<1>1. BackupInv => ServiceRestarted
  BY DEF BackupInv, DownWhileHeld, ServiceRestarted, JobHolds, RestoreHolds
<1> QED BY <1>1, BackupInit, BackupStep, PTL DEF BSpec

-----------------------------------------------------------------------------
(* Retention                                                               *)

\* A run that succeeded, and the successful runs of its config newer than it.
Succeeded(r) == r \in DOMAIN brun /\ brun[r].status = "success"
NewerRuns(r) == {s \in SuccessRuns(brun[r].cfg) : Newer(s, r)}

\* A run that retention drops: so many newer ones succeeded as were ever asked for.
Doomed(r) ==
    Succeeded(r) =>
        /\ tightest[brun[r].cfg] > 0
        /\ Cardinality(NewerRuns(r)) >= tightest[brun[r].cfg]

\* A retention that was in force was counted among the tightest.
Counted(c, keep) == keep > 0 => tightest[c] \in 1..keep

RowsFit ==
    /\ nextRun \in Nat \ {0} /\ now \in Nat
    /\ brun = [r \in DOMAIN brun |-> brun[r]]
    /\ \A r \in DOMAIN brun :
         /\ r \in 1..(nextRun - 1)
         /\ brun[r] \in [cfg : DOMAIN bcfg, status : {"running", "failed", "success"},
                         start : Nat, file : {brun[r].file}]
         /\ brun[r].status = "success" <=> brun[r].file # NoFile
ConfigsFit ==
    /\ bcfg = [c \in DOMAIN bcfg |-> bcfg[c]] /\ DOMAIN bcfg \subseteq BackupConfigs
    /\ \A c \in DOMAIN bcfg : bcfg[c] \in CfgRows /\ Counted(c, bcfg[c].keep)
    /\ tightest \in [BackupConfigs -> Nat]

\* A row that stays as it was.
SameRun(r) ==
    /\ r \in DOMAIN brun' /\ brun'[r].cfg = brun[r].cfg /\ brun'[r].status = brun[r].status
    /\ brun'[r].start = brun[r].start /\ brun'[r].file = brun[r].file

\* The runs newer than a given one are finitely many.
LEMMA NewerAreFew ==
  ASSUME RowsFit, NEW r
  PROVE  IsFiniteSet(NewerRuns(r)) /\ Cardinality(NewerRuns(r)) \in Nat
<1>1. NewerRuns(r) \subseteq 1..(nextRun - 1)
  BY DEF NewerRuns, SuccessRuns, RowsFit
<1>2. IsFiniteSet(1..(nextRun - 1))
  <2>1. 1 \in Int /\ nextRun - 1 \in Int
    BY DEF RowsFit
  <2> QED BY <2>1, FS_Interval
<1>3. IsFiniteSet(NewerRuns(r))
  BY <1>1, <1>2, FS_Subset
<1> QED BY <1>3, FS_CardinalityType

\* A run stays droppable: the runs newer than it stay, but for one that is dropped
\* because of those newer than itself.
LEMMA DoomedStays ==
  ASSUME RowsFit, RowsFit', ConfigsFit, ConfigsFit', NEW r, NEW gone, Doomed(r), Doomed(gone),
         \A c \in BackupConfigs : tightest[c] > 0 => tightest'[c] \in 1..tightest[c],
         Succeeded(r)' => Succeeded(r) /\ SameRun(r),
         \A s : Succeeded(s) /\ s # gone /\ Succeeded(r)' /\ brun[s].cfg = brun[r].cfg => SameRun(s)
  PROVE  Doomed(r)'
<1> SUFFICES ASSUME Succeeded(r)'
             PROVE  /\ tightest'[brun'[r].cfg] > 0
                    /\ Cardinality(NewerRuns(r)') >= tightest'[brun'[r].cfg]
  BY DEF Doomed
<1> DEFINE c == brun[r].cfg
<1>1. Succeeded(r) /\ SameRun(r) /\ c \in BackupConfigs /\ brun'[r].cfg = c
  BY DEF Succeeded, RowsFit, ConfigsFit, SameRun
<1>2. tightest[c] \in Nat \ {0} /\ tightest'[c] \in 1..tightest[c] /\ Cardinality(NewerRuns(r)) >= tightest[c]
  BY <1>1 DEF Doomed, ConfigsFit
<1>3. /\ IsFiniteSet(NewerRuns(r)') /\ Cardinality(NewerRuns(r)') \in Nat
      /\ Cardinality(NewerRuns(r)) \in Nat /\ Cardinality(NewerRuns(gone)) \in Nat
  <2>1. IsFiniteSet(NewerRuns(r)) /\ Cardinality(NewerRuns(r)) \in Nat
        /\ IsFiniteSet(NewerRuns(gone)) /\ Cardinality(NewerRuns(gone)) \in Nat
    BY NewerAreFew
  <2>2. (IsFiniteSet(NewerRuns(r)) /\ Cardinality(NewerRuns(r)) \in Nat)'
    BY NewerAreFew, PTL
  <2> QED BY <2>1, <2>2
<1>4. CASE gone \notin NewerRuns(r)
  <2>1. NewerRuns(r) \subseteq NewerRuns(r)'
    BY <1>1, <1>4 DEF NewerRuns, SuccessRuns, Newer, Succeeded, SameRun
  <2>2. Cardinality(NewerRuns(r)) <= Cardinality(NewerRuns(r)')
    BY <1>3, <2>1, FS_Subset
  <2> QED BY <1>1, <1>2, <1>3, <2>2
<1>5. CASE gone \in NewerRuns(r)
  <2>1. Succeeded(gone) /\ brun[gone].cfg = c /\ Newer(gone, r)
    BY <1>5 DEF NewerRuns, SuccessRuns, Succeeded
  <2>2. /\ \A s \in DOMAIN brun : s \in Nat /\ brun[s].start \in Nat
        /\ r \in DOMAIN brun /\ gone \in DOMAIN brun
    BY <1>1, <2>1 DEF RowsFit, Succeeded
  <2>3. \A s \in DOMAIN brun : Newer(s, gone) => s # gone /\ Newer(s, r)
    BY <2>1, <2>2 DEF Newer
  <2>4. NewerRuns(gone) \subseteq NewerRuns(r)'
    BY <1>1, <2>1, <2>3 DEF NewerRuns, SuccessRuns, Newer, Succeeded, SameRun
  <2>5. Cardinality(NewerRuns(gone)) <= Cardinality(NewerRuns(r)')
    BY <1>3, <2>4, FS_Subset
  <2>6. Cardinality(NewerRuns(gone)) >= tightest[c]
    BY <2>1 DEF Doomed
  <2> QED BY <1>1, <1>2, <1>3, <2>5, <2>6
<1> QED BY <1>4, <1>5

Holds(f, r, w) ==
    f \in DOMAIN bfile /\ bfile[f] \in [by : {{r}}, whole : BOOLEAN] /\ (bfile[f].whole <=> w)
Unrecorded == {"plan", "pre", "dump", "upload", "post", "undo", "record"}
Writing == {"upload", "post", "record"}

\* A job's run did not succeed before its row says so; the file it wrote is its
\* own, unless another run wrote it too; and what it is to prune may go.
JobFits(q) ==
    \/ q.pc = "idle"
    \/ /\ q \in [pc : Unrecorded \cup {"list", "prune"}, cfg : BackupConfigs, row : CfgRows,
                 run : 1..(nextRun - 1), file : {q.file}, old : {q.old}, del : 0..(nextRun - 1)]
       /\ Counted(q.cfg, q.row.keep)
       /\ q.pc # "prune" => q.old = {} /\ q.del = 0
       /\ q.pc \in Unrecorded => ~Succeeded(q.run)
       /\ q.pc \in Writing => q.file # NoFile
       /\ q.pc \in Writing /\ q.file \notin clash => Holds(q.file, q.run, q.pc # "upload")
       /\ Doomed(q.del)
       /\ \A o \in q.old : /\ o = <<o[1], o[2]>> /\ o[1] \in 1..(nextRun - 1)
                           /\ o[2] # NoFile /\ Doomed(o[1])
JobsFit == job = [j \in Jobs |-> job[j]] /\ \A j \in Jobs : JobFits(job[j])

\* No two jobs have the same run, and none prunes the run of another.
Prunes(q) == {q.del} \cup {o[1] : o \in q.old}
Active == {j \in Jobs : job[j].pc # "idle"}
Apart ==
    \A i, j \in Active :
        /\ i # j => job[i].run # job[j].run
        /\ job[i].pc \in Unrecorded => job[i].run \notin Prunes(job[j])

\* A file has one run, unless two wrote it.
Claims == {<<job[j].run, job[j].file>> : j \in Active}
          \cup {<<r, brun[r].file>> : r \in DOMAIN brun}
          \cup UNION {job[j].old : j \in Active}
OneClaim ==
    \A c, d \in Claims : c[2] = d[2] /\ c[2] # NoFile /\ c[2] \notin clash => c[1] = d[1]

MissingDoomed ==
    \A r \in DOMAIN brun :
        brun[r].file \notin clash /\ ~Holds(brun[r].file, r, TRUE) => Doomed(r)

RetainInv == RowsFit /\ ConfigsFit /\ JobsFit /\ Apart /\ OneClaim /\ MissingDoomed

\* Without a run and without a file there is nothing to keep.
LEMMA RetainInit == BInit => RetainInv
<1> SUFFICES ASSUME BInit PROVE RetainInv
  OBVIOUS
<1>1. RowsFit
  BY DEF BInit, RowsFit
<1>2. ConfigsFit
  BY BackupAssumption DEF BInit, ConfigsFit, CfgRows, Counted
<1>3. JobsFit /\ Active = {}
  BY DEF BInit, JobsFit, JobFits, IdleJob, Active
<1>4. Claims = {}
  BY <1>3 DEF BInit, Claims
<1> QED BY <1>1, <1>2, <1>3, <1>4 DEF BInit, RetainInv, Apart, OneClaim, MissingDoomed

\* What a step may change without a job that sleeps through it noticing.
LEMMA SleepsOn ==
  ASSUME RowsFit, RowsFit', ConfigsFit, NEW q, JobFits(q), nextRun <= nextRun', clash \subseteq clash',
         \A c \in BackupConfigs : tightest[c] > 0 => tightest'[c] \in 1..tightest[c],
         q.pc \in Unrecorded => ~Succeeded(q.run)',
         q.pc \in Writing /\ q.file \notin clash' =>
            \A w \in BOOLEAN : Holds(q.file, q.run, w) => Holds(q.file, q.run, w)',
         q.pc # "idle" => \A d \in Prunes(q) : Doomed(d) => Doomed(d)'
  PROVE  JobFits(q)'
<1>1. CASE q.pc = "idle"
  BY <1>1 DEF JobFits
<1>2. CASE q.pc # "idle"
  <2>1. /\ q \in [pc : Unrecorded \cup {"list", "prune"}, cfg : BackupConfigs, row : CfgRows,
                 run : 1..(nextRun - 1), file : {q.file}, old : {q.old}, del : 0..(nextRun - 1)]
        /\ Counted(q.cfg, q.row.keep)
        /\ q.pc # "prune" => q.old = {} /\ q.del = 0
        /\ q.pc \in Writing => q.file # NoFile
        /\ q.pc \in Writing /\ q.file \notin clash => Holds(q.file, q.run, q.pc # "upload")
        /\ Doomed(q.del)
        /\ \A o \in q.old : /\ o = <<o[1], o[2]>> /\ o[1] \in 1..(nextRun - 1)
                            /\ o[2] # NoFile /\ Doomed(o[1])
    BY <1>2 DEF JobFits
  <2>2. nextRun \in Nat /\ nextRun' \in Nat
    BY DEF RowsFit
  <2>3. q \in [pc : Unrecorded \cup {"list", "prune"}, cfg : BackupConfigs, row : CfgRows,
               run : 1..(nextRun' - 1), file : {q.file}, old : {q.old}, del : 0..(nextRun' - 1)]
    BY <2>1, <2>2
  <2>4. Counted(q.cfg, q.row.keep)'
    <3>1. q.cfg \in BackupConfigs /\ q.row.keep \in Nat /\ Counted(q.cfg, q.row.keep)
      BY <2>1, BackupAssumption DEF CfgRows
    <3> QED BY <3>1 DEF Counted, ConfigsFit
  <2>5. q.pc \in Writing /\ q.file \notin clash' => Holds(q.file, q.run, q.pc # "upload")'
    <3>1. (q.pc # "upload") \in BOOLEAN
      OBVIOUS
    <3> QED BY <2>1, <3>1
  <2>6. Doomed(q.del)' /\ \A o \in q.old : Doomed(o[1])'
    BY <1>2, <2>1 DEF Prunes
  <2>7. \A o \in q.old : o[1] \in 1..(nextRun' - 1)
    BY <2>1, <2>2
  <2> QED BY <2>1, <2>3, <2>4, <2>5, <2>6, <2>7 DEF JobFits
<1> QED BY <1>1, <1>2

\* A step of a job that leaves the rows alone: it may change a file that no run but
\* k has, and claim a file that nobody has, or that counts as written twice.
LEMMA FilesMove ==
  ASSUME RetainInv, NEW j \in Jobs, NEW r, NEW k,
         job' = [job EXCEPT ![j] = r], UNCHANGED <<brun, nextRun, bcfg, tightest, now>>,
         clash \subseteq clash', JobFits(r)',
         r.pc # "idle" =>
            /\ job[j].pc # "idle" /\ r.run = job[j].run
            /\ r.pc \in Unrecorded => job[j].pc \in Unrecorded
            /\ \A d \in Prunes(r) : d \in Prunes(job[j]) \/ d = 0 \/ Succeeded(d)
            /\ r.old \subseteq Claims
            /\ \/ <<r.run, r.file>> \in Claims \/ r.file = NoFile
               \/ \A c \in Claims : c[2] = r.file => r.file \in clash',
         \A f, n, w : f \notin clash' /\ n # k /\ <<n, f>> \in Claims /\ Holds(f, n, w)
                         => Holds(f, n, w)',
         Doomed(k), \A i \in Jobs \ {j} : job[i].pc \in Unrecorded => job[i].run # k
  PROVE  RetainInv'
<1>1. /\ RowsFit /\ RowsFit' /\ ConfigsFit /\ ConfigsFit'
      /\ \A c \in BackupConfigs : tightest[c] > 0 => tightest'[c] \in 1..tightest[c]
  BY DEF RetainInv, RowsFit, ConfigsFit, Counted
<1>2. \A n : (Doomed(n)' <=> Doomed(n)) /\ (Succeeded(n)' <=> Succeeded(n))
  BY DEF Doomed, Succeeded, NewerRuns, SuccessRuns, Newer
<1>3. /\ job'[j] = r /\ \A i \in Jobs \ {j} : job'[i] = job[i]
      /\ job' = [i \in Jobs |-> job'[i]] /\ \A i \in Jobs : JobFits(job[i])
  BY DEF RetainInv, JobsFit
<1>4. JobsFit'
  <2>1. ASSUME NEW i \in Jobs \ {j} PROVE JobFits(job[i])'
    <3>1. PICK q : q = job[i]
      OBVIOUS
    <3>2. JobFits(q) /\ job'[i] = q
      BY <1>3, <3>1
    <3>3. q.pc \in Unrecorded => ~Succeeded(q.run)'
      BY <1>2, <3>2 DEF JobFits, Unrecorded
    <3>4. q.pc # "idle" => \A d \in Prunes(q) : Doomed(d) => Doomed(d)'
      BY <1>2
    <3>5. q.pc \in Writing /\ q.file \notin clash' =>
            \A w \in BOOLEAN : Holds(q.file, q.run, w) => Holds(q.file, q.run, w)'
      <4>1. q.pc \in Writing => q.run # k /\ <<q.run, q.file>> \in Claims
        BY <3>1 DEF Writing, Unrecorded, Claims, Active
      <4> QED BY <4>1
    <3>6. nextRun <= nextRun'
      BY <1>1 DEF RowsFit
    <3>7. JobFits(q)'
      BY <1>1, <3>2, <3>3, <3>4, <3>5, <3>6, SleepsOn
    <3> QED BY <3>2, <3>7
  <2>2. JobFits(r)'
    OBVIOUS
  <2>3. ASSUME NEW i \in Jobs PROVE JobFits(job[i])'
    <3>1. CASE i = j
      BY <1>3, <2>2, <3>1
    <3>2. CASE i # j
      BY <2>1, <3>2
    <3> QED BY <3>1, <3>2
  <2> QED BY <1>3, <2>3 DEF JobsFit
<1>5. Apart'
  <2>1. \A i \in Active' : i \in Active /\ job'[i].run = job[i].run
                          /\ (job'[i].pc \in Unrecorded => job[i].pc \in Unrecorded)
    BY <1>3 DEF Active
  <2>2. ASSUME NEW i \in Active', NEW d \in Prunes(job'[i])
        PROVE  d \in Prunes(job[i]) \/ d = 0 \/ Succeeded(d)
    <3>1. CASE i = j
      BY <1>3, <2>2, <3>1 DEF Active
    <3>2. CASE i # j
      BY <1>3, <2>2, <3>2 DEF Active
    <3> QED BY <3>1, <3>2
  <2>3. \A i \in Active : job[i].pc \in Unrecorded => job[i].run \in Nat \ {0} /\ ~Succeeded(job[i].run)
    BY <1>1, <1>3 DEF JobFits, Active, RowsFit
  <2>4. ASSUME NEW h \in Active', NEW i \in Active', job'[h].pc \in Unrecorded
        PROVE  job'[h].run \notin Prunes(job'[i])
    <3>1. job[h].run \notin Prunes(job[i]) /\ job[h].run # 0 /\ ~Succeeded(job[h].run)
      BY <2>1, <2>3, <2>4 DEF RetainInv, Apart
    <3> QED BY <2>1, <2>2, <3>1
  <2>5. \A h, i \in Active' : h # i => job'[h].run # job'[i].run
    BY <2>1 DEF RetainInv, Apart
  <2> QED BY <2>4, <2>5 DEF Apart
<1>6. OneClaim'
  <2> DEFINE mine == <<r.run, r.file>>
             fresh == r.file = NoFile \/ \A c \in Claims : c[2] = r.file => r.file \in clash'
  <2>1. ASSUME NEW c \in Claims' PROVE c \in Claims \/ (c = mine /\ fresh)
    <3>1. CASE \E i \in Active' : c = <<job'[i].run, job'[i].file>> \/ c \in job'[i].old
      <4>1. PICK i \in Active' : c = <<job'[i].run, job'[i].file>> \/ c \in job'[i].old
        BY <3>1
      <4>2. CASE i = j
        BY <1>3, <4>1, <4>2 DEF Active
      <4>3. CASE i # j
        <5>1. i \in Active /\ job'[i] = job[i]
          BY <1>3, <4>3 DEF Active
        <5> QED BY <4>1, <5>1 DEF Claims
      <4> QED BY <4>2, <4>3
    <3>2. CASE \E n \in DOMAIN brun : c = <<n, brun[n].file>>
      BY <3>2 DEF Claims
    <3> QED BY <2>1, <3>1, <3>2 DEF Claims
  <2> SUFFICES ASSUME NEW c \in Claims', NEW d \in Claims', c[2] = d[2], c[2] # NoFile,
                      c[2] \notin clash'
               PROVE  c[1] = d[1]
    BY DEF OneClaim
  <2>2. CASE c \in Claims /\ d \in Claims
    BY <2>2 DEF RetainInv, OneClaim
  <2>3. CASE ~(c \in Claims /\ d \in Claims)
    <3>1. fresh /\ (c = mine \/ d = mine)
      BY <2>1, <2>3
    <3>2. mine[2] = r.file /\ c[2] = r.file /\ d[2] = r.file
      BY <3>1
    <3>3. c \notin Claims /\ d \notin Claims
      BY <3>1, <3>2
    <3> QED BY <2>1, <3>3
  <2> QED BY <2>2, <2>3
<1>7. MissingDoomed'
  <2> SUFFICES ASSUME NEW n \in DOMAIN brun, brun[n].file \notin clash',
                      ~Holds(brun[n].file, n, TRUE)'
               PROVE  Doomed(n)
    BY <1>2 DEF MissingDoomed, Holds
  <2>1. <<n, brun[n].file>> \in Claims
    BY DEF Claims
  <2>2. n = k \/ ~Holds(brun[n].file, n, TRUE)
    BY <2>1
  <2> QED BY <2>2 DEF RetainInv, MissingDoomed
<1> QED BY <1>1, <1>4, <1>5, <1>6, <1>7 DEF RetainInv

\* Jobs that go on with what they had stay apart.
LEMMA StayApart ==
  ASSUME RetainInv,
         \A i \in Active' :
            /\ i \in Active /\ job'[i].run = job[i].run
            /\ job'[i].pc \in Unrecorded => job[i].pc \in Unrecorded
            /\ Prunes(job'[i]) \subseteq Prunes(job[i]) \cup {0}
  PROVE  Apart'
<1>1. \A i \in Active : job[i].run # 0
  BY DEF RetainInv, RowsFit, JobsFit, JobFits, Active
<1>2. ASSUME NEW h \in Active', NEW i \in Active', job'[h].pc \in Unrecorded
      PROVE  job'[h].run \notin Prunes(job'[i])
  <2>1. job[h].run \notin Prunes(job[i]) /\ job[h].run # 0
    BY <1>1, <1>2 DEF RetainInv, Apart
  <2> QED BY <1>2, <2>1
<1>3. \A h, i \in Active' : h # i => job'[h].run # job'[i].run
  BY DEF RetainInv, Apart
<1> QED BY <1>2, <1>3 DEF Apart

\* A step that changes the rows: one new run may succeed, whose file is in place,
\* one that may go, and those of a config go together.
LEMMA RowsMove ==
  ASSUME RetainInv, NEW gone, NEW new, UNCHANGED <<bfile, clash>>, RowsFit', ConfigsFit',
         nextRun <= nextRun', Doomed(gone),
         \A c \in BackupConfigs : tightest[c] > 0 => tightest'[c] \in 1..tightest[c],
         \A n : Succeeded(n)' /\ n # new => Succeeded(n) /\ SameRun(n),
         \A n, s : /\ Succeeded(s) /\ s # gone /\ Succeeded(n)' /\ n # new
                   /\ brun[s].cfg = brun[n].cfg
                   => SameRun(s),
         Succeeded(new)' /\ brun'[new].file \notin clash => Holds(brun'[new].file, new, TRUE),
         job' = [i \in Jobs |-> job'[i]],
         \A i \in Jobs : \/ JobFits(job[i])'
                         \/ /\ job'[i] = job[i]
                            /\ i \in Active => new \notin Prunes(job[i])
                            /\ job[i].pc \in Unrecorded => job[i].run # new,
         Apart', \A c \in Claims' : c \in Claims \/ c[2] = NoFile
  PROVE  RetainInv'
<1>1. RowsFit /\ ConfigsFit
  BY DEF RetainInv
<1>2. ASSUME NEW n, n # new, Doomed(n) PROVE Doomed(n)'
  <2>1. Succeeded(n)' => Succeeded(n) /\ SameRun(n)
    BY <1>2
  <2>2. \A s : /\ Succeeded(s) /\ s # gone /\ Succeeded(n)' /\ brun[s].cfg = brun[n].cfg
               => SameRun(s)
    BY <1>2
  <2> QED BY <1>1, <1>2, <2>1, <2>2, DoomedStays
<1>3. JobsFit'
  <2>1. ASSUME NEW i \in Jobs, job'[i] = job[i], i \in Active => new \notin Prunes(job[i]),
               job[i].pc \in Unrecorded => job[i].run # new
        PROVE  JobFits(job[i])'
    <3>1. PICK q : q = job[i]
      OBVIOUS
    <3>2. JobFits(q) /\ job'[i] = q
      BY <2>1, <3>1 DEF RetainInv, JobsFit
    <3>3. q.pc \in Unrecorded => ~Succeeded(q.run)'
      BY <2>1, <3>1, <3>2 DEF JobFits, Unrecorded
    <3>4. q.pc # "idle" => \A d \in Prunes(q) : Doomed(d) => Doomed(d)'
      <4>1. q.pc # "idle" => new \notin Prunes(q)
        BY <2>1, <3>1 DEF Active
      <4> QED BY <1>2, <4>1
    <3>5. \A w \in BOOLEAN : Holds(q.file, q.run, w) => Holds(q.file, q.run, w)'
      BY DEF Holds
    <3>6. clash \subseteq clash'
      OBVIOUS
    <3>7. JobFits(q)'
      BY <1>1, <3>2, <3>3, <3>4, <3>5, <3>6, SleepsOn
    <3> QED BY <3>2, <3>7
  <2>2. \A i \in Jobs : JobFits(job[i])'
    BY <2>1
  <2> QED BY <2>2 DEF JobsFit
<1>4. OneClaim'
  BY DEF RetainInv, OneClaim
<1>5. MissingDoomed'
  <2> SUFFICES ASSUME NEW n \in DOMAIN brun', brun'[n].file \notin clash,
                      ~Holds(brun'[n].file, n, TRUE)
               PROVE  Doomed(n)'
    BY DEF MissingDoomed, Holds
  <2>1. CASE ~Succeeded(n)'
    BY <2>1 DEF Doomed
  <2>2. CASE Succeeded(n)'
    <3>1. n # new /\ Succeeded(n) /\ SameRun(n)
      BY <2>2
    <3>2. Doomed(n)
      BY <3>1 DEF RetainInv, MissingDoomed, Succeeded, SameRun
    <3> QED BY <1>2, <3>1, <3>2
  <2> QED BY <2>1, <2>2
<1> QED BY <1>3, <1>4, <1>5 DEF RetainInv

\* What the invariant says of a job under way, and of the run 0, which is nobody's.
LEMMA JobFacts ==
  ASSUME RetainInv, NEW j \in Jobs
  PROVE  /\ job = [i \in Jobs |-> job[i]] /\ JobFits(job[j]) /\ ~Succeeded(0) /\ Doomed(0)
         /\ nextRun \in Nat \ {0}
         /\ \A r : ([job EXCEPT ![j] = r])[j] = r
         /\ \A i \in Jobs : job[i].pc \in Unrecorded => job[i].run # 0
         /\ job[j].pc # "idle" => <<job[j].run, job[j].file>> \in Claims /\ job[j].old \subseteq Claims
BY DEF RetainInv, RowsFit, JobsFit, JobFits, Succeeded, Doomed, Unrecorded, Claims, Active

\* Only the place in the code changes.
LEMMA PcMove ==
  ASSUME RetainInv, NEW j \in Jobs, NEW p, Step(j, p),
         UNCHANGED <<brun, nextRun, bcfg, tightest, now, bfile, clash>>,
         <<job[j].pc, p>> \in {<<"plan", "pre">>, <<"pre", "dump">>, <<"pre", "undo">>,
                              <<"dump", "undo">>, <<"upload", "undo">>, <<"post", "record">>}
  PROVE  RetainInv'
<1>1. PICK q : q = job[j]
  OBVIOUS
<1> DEFINE r == [q EXCEPT !.pc = p]
<1>2. JobFits(q) /\ q.pc \in Unrecorded /\ p \in Unrecorded /\ (p \in Writing => q.pc = "post" /\ p = "record")
  BY <1>1, JobFacts DEF Unrecorded, Writing
<1>3. JobFits(r)
  <2>1. r \in [pc : {p}, cfg : {q.cfg}, row : {q.row}, run : {q.run}, file : {q.file}, old : {q.old}, del : {q.del}]
    BY <1>2 DEF JobFits, Unrecorded
  <2> HIDE DEF r
  <2> QED BY <1>2, <2>1 DEF JobFits, Unrecorded, Writing
<1>4. /\ r.pc = p /\ r.run = q.run /\ r.file = q.file /\ r.old = {} /\ r.del = 0
  BY <1>2 DEF JobFits, Unrecorded
<1>5. job' = [job EXCEPT ![j] = r]
  BY <1>1 DEF Step
<1>6. JobFits(r)'
  <2>1. PICK x : x = r
    OBVIOUS
  <2>2. JobFits(x)'
    BY <1>3, <2>1 DEF JobFits, Succeeded, Doomed, NewerRuns, SuccessRuns, Newer, Holds, Counted
  <2> QED BY <2>1, <2>2
<1> HIDE DEF r
<1>7. Prunes(r) = {0}
  BY <1>4 DEF Prunes
<1>8. \A f, n, w : f \notin clash' /\ n # 0 /\ <<n, f>> \in Claims /\ Holds(f, n, w)
                     => Holds(f, n, w)'
  BY DEF Holds
<1>9. /\ job[j].pc # "idle" /\ r.run = job[j].run /\ (r.pc \in Unrecorded => job[j].pc \in Unrecorded)
      /\ \A d \in Prunes(r) : d \in Prunes(job[j]) \/ d = 0 \/ Succeeded(d)
      /\ r.old \subseteq Claims /\ <<r.run, r.file>> \in Claims
  BY <1>1, <1>2, <1>4, <1>7, JobFacts DEF Unrecorded
<1>10. Doomed(0) /\ (\A i \in Jobs \ {j} : job[i].pc \in Unrecorded => job[i].run # 0)
       /\ clash \subseteq clash'
  BY JobFacts
<1> QED
  BY <1>5, <1>6, <1>8, <1>9, <1>10, FilesMove

\* Strategy.Backup and Upload: the file belongs to the run, or counts as written by
\* two when anyone else had the name.
LEMMA DumpKeeps ==
  ASSUME RetainInv, NEW j \in Jobs, DumpBackup(j)
  PROVE  RetainInv'
<1>1. PICK q : q = job[j]
  OBVIOUS
<1>2. JobFits(q) /\ q.pc = "dump"
  BY <1>1, JobFacts DEF DumpBackup
<1>3. UNCHANGED <<brun, nextRun, bcfg, tightest, now>>
  BY DEF DumpBackup, cfgVars
<1>4. CASE Step(j, "undo") /\ UNCHANGED <<bfile, clash>>
  BY <1>1, <1>2, <1>3, <1>4, PcMove
<1>5. CASE ~(Step(j, "undo") /\ UNCHANGED <<bfile, clash>>)
  <2>1. PICK f : f = <<q.row.container, now>>
    OBVIOUS
  <2> DEFINE r == [q EXCEPT !.pc = "upload", !.file = f]
  <2>2. /\ bfile' = With(bfile, f, [by |-> {q.run} \cup {job[i].run : i \in UploadsTo(f)},
                                   whole |-> FALSE])
        /\ clash' = IF NameTaken(f) THEN clash \cup {f} ELSE clash
        /\ job' = [job EXCEPT ![j] = r]
    BY <1>1, <1>5, <2>1 DEF DumpBackup
  <2>3. /\ r \in [pc : {"upload"}, cfg : {q.cfg}, row : {q.row}, run : {q.run}, file : {f},
                 old : {{}}, del : {0}]
        /\ q.cfg \in BackupConfigs /\ q.row \in CfgRows /\ q.run \in 1..(nextRun - 1)
        /\ Counted(q.cfg, q.row.keep) /\ ~Succeeded(q.run)
    BY <1>2 DEF JobFits, Unrecorded
  <2> HIDE DEF r
  <2>4. \A n : <<n, f>> \in Claims => NameTaken(f)
    BY DEF Claims, Active, NameTaken
  <2>5. NameTaken(f) => f \in clash'
    BY <2>2
  <2>6. ~NameTaken(f) => Holds(f, q.run, FALSE)'
    <3>1. ~NameTaken(f) => UploadsTo(f) = {}
      BY DEF NameTaken, UploadsTo
    <3> QED BY <2>2, <3>1 DEF Holds, With
  <2>7. JobFits(r)'
    <3>1. f # NoFile
      BY <2>1 DEF NoFile
    <3>2. PICK x : x = r
      OBVIOUS
    <3>3. JobFits(x)'
      <4>1. x.pc = "upload" /\ x.file = f /\ x.run = q.run /\ x.old = {} /\ x.del = 0
        BY <2>3, <3>2
      <4>2. x \in [pc : Unrecorded \cup {"list", "prune"}, cfg : BackupConfigs, row : CfgRows,
                   run : 1..(nextRun' - 1), file : {x.file}, old : {x.old}, del : 0..(nextRun' - 1)]
        <5>1. nextRun' = nextRun /\ nextRun \in Nat \ {0}
          BY <1>3, JobFacts
        <5> QED BY <2>3, <3>2, <5>1 DEF Unrecorded
      <4>3. Counted(x.cfg, x.row.keep)'
        BY <1>3, <2>3, <3>2 DEF Counted
      <4>4. ~Succeeded(x.run)' /\ Doomed(x.del)'
        BY <1>3, <2>3, <4>1, JobFacts DEF Succeeded, Doomed
      <4>5. x.file \notin clash' => Holds(x.file, x.run, x.pc # "upload")'
        BY <2>5, <2>6, <4>1
      <4> QED BY <3>1, <4>1, <4>2, <4>3, <4>4, <4>5 DEF JobFits
    <3> QED BY <3>2, <3>3
  <2>8. \A g, n, w : g \notin clash' /\ n # q.run /\ <<n, g>> \in Claims /\ Holds(g, n, w)
                       => Holds(g, n, w)'
    BY <2>2, <2>4, <2>5 DEF Holds, With
  <2>9. /\ r.pc # "idle" /\ job[j].pc # "idle" /\ r.run = job[j].run
        /\ (r.pc \in Unrecorded => job[j].pc \in Unrecorded)
        /\ \A d \in Prunes(r) : d \in Prunes(job[j]) \/ d = 0 \/ Succeeded(d)
        /\ r.old \subseteq Claims
        /\ \A c \in Claims : c[2] = r.file => r.file \in clash'
    <3>1. r.pc = "upload" /\ r.run = q.run /\ r.file = f /\ Prunes(r) = {0} /\ r.old = {}
      BY <2>3 DEF Prunes
    <3>2. \A c \in Claims : c = <<c[1], c[2]>>
      BY DEF RetainInv, JobsFit, JobFits, Claims, Active
    <3>3. \A c \in Claims : c[2] = f => f \in clash'
      BY <2>4, <2>5, <3>2
    <3> QED BY <1>1, <1>2, <3>1, <3>3 DEF Unrecorded
  <2>10. /\ Doomed(q.run) /\ clash \subseteq clash'
         /\ \A i \in Jobs \ {j} : job[i].pc \in Unrecorded => job[i].run # q.run
    BY <1>1, <1>2, <2>2, <2>3 DEF Doomed, RetainInv, Apart, Active, Unrecorded
  <2> QED BY <1>3, <2>2, <2>7, <2>8, <2>9, <2>10, FilesMove
<1> QED BY <1>4, <1>5

\* LocalTarget.Upload reaches the end of the file.
LEMMA UploadKeeps ==
  ASSUME RetainInv, NEW j \in Jobs, UploadBackup(j)
  PROVE  RetainInv'
<1>1. PICK q : q = job[j]
  OBVIOUS
<1>2. JobFits(q) /\ q.pc = "upload"
  BY <1>1, JobFacts DEF UploadBackup
<1>3. UNCHANGED <<brun, nextRun, bcfg, tightest, now, clash>>
  BY DEF UploadBackup, cfgVars
<1>4. CASE Step(j, "undo") /\ UNCHANGED bfile
  BY <1>1, <1>2, <1>3, <1>4, PcMove
<1>5. CASE ~(Step(j, "undo") /\ UNCHANGED bfile)
  <2> DEFINE r == [q EXCEPT !.pc = "post"]
  <2>1. /\ bfile' = IF q.file \in DOMAIN bfile THEN [bfile EXCEPT ![q.file].whole = TRUE] ELSE bfile
        /\ job' = [job EXCEPT ![j] = r]
    BY <1>1, <1>5 DEF UploadBackup, Step
  <2>2. /\ r \in [pc : {"post"}, cfg : {q.cfg}, row : {q.row}, run : {q.run}, file : {q.file},
                 old : {{}}, del : {0}]
        /\ q.cfg \in BackupConfigs /\ q.row \in CfgRows /\ q.run \in 1..(nextRun - 1)
        /\ Counted(q.cfg, q.row.keep) /\ ~Succeeded(q.run) /\ q.file # NoFile
        /\ q.file \notin clash => Holds(q.file, q.run, FALSE)
    BY <1>2 DEF JobFits, Unrecorded, Writing
  <2> HIDE DEF r
  <2>3. ASSUME Holds(q.file, q.run, FALSE) PROVE Holds(q.file, q.run, TRUE)'
    <3>1. PICK e : e = bfile[q.file]
      OBVIOUS
    <3>2. q.file \in DOMAIN bfile /\ e \in [by : {{q.run}}, whole : BOOLEAN]
      BY <2>3, <3>1 DEF Holds
    <3>3. bfile' = [bfile EXCEPT ![q.file] = [e EXCEPT !.whole = TRUE]]
      BY <2>1, <3>1, <3>2
    <3>4. [e EXCEPT !.whole = TRUE] \in [by : {{q.run}}, whole : BOOLEAN]
      BY <3>2, Zenon
    <3>5. [e EXCEPT !.whole = TRUE].whole
      BY <3>2
    <3> QED BY <3>2, <3>3, <3>4, <3>5 DEF Holds
  <2>4. JobFits(r)'
    <3>1. PICK x : x = r
      OBVIOUS
    <3>2. x.pc = "post" /\ x.file = q.file /\ x.run = q.run /\ x.old = {} /\ x.del = 0
      BY <2>2, <3>1
    <3>3. x \in [pc : Unrecorded \cup {"list", "prune"}, cfg : BackupConfigs, row : CfgRows,
                 run : 1..(nextRun' - 1), file : {x.file}, old : {x.old}, del : 0..(nextRun' - 1)]
      <4>1. nextRun' = nextRun /\ nextRun \in Nat \ {0}
        BY <1>3, JobFacts
      <4> QED BY <2>2, <3>1, <4>1 DEF Unrecorded
    <3>4. Counted(x.cfg, x.row.keep)'
      BY <1>3, <2>2, <3>1 DEF Counted
    <3>5. ~Succeeded(x.run)' /\ Doomed(x.del)'
      BY <1>3, <2>2, <3>2, JobFacts DEF Succeeded, Doomed
    <3>6. x.file \notin clash' => Holds(x.file, x.run, x.pc # "upload")'
      BY <1>3, <2>2, <2>3, <3>2
    <3>7. JobFits(x)'
      BY <2>2, <3>2, <3>3, <3>4, <3>5, <3>6 DEF JobFits
    <3> QED BY <3>1, <3>7
  <2>5. ASSUME NEW g, NEW n, NEW w, g \notin clash', n # q.run, <<n, g>> \in Claims, Holds(g, n, w)
        PROVE  Holds(g, n, w)'
    <3>1. g # q.file
      <4>1. <<q.run, q.file>> \in Claims
        BY <1>1, <1>2, JobFacts
      <4> QED BY <1>3, <2>2, <2>5, <4>1 DEF RetainInv, OneClaim
    <3> QED BY <2>1, <2>5, <3>1 DEF Holds
  <2>6. /\ job[j].pc # "idle" /\ r.run = job[j].run
        /\ (r.pc \in Unrecorded => job[j].pc \in Unrecorded)
        /\ \A d \in Prunes(r) : d \in Prunes(job[j]) \/ d = 0 \/ Succeeded(d)
        /\ r.old \subseteq Claims /\ <<r.run, r.file>> \in Claims
    BY <1>1, <1>2, <2>2, JobFacts DEF Unrecorded, Prunes
  <2>7. /\ Doomed(q.run) /\ clash \subseteq clash'
        /\ \A i \in Jobs \ {j} : job[i].pc \in Unrecorded => job[i].run # q.run
    BY <1>1, <1>2, <1>3, <2>2 DEF Doomed, RetainInv, Apart, Active, Unrecorded
  <2> QED BY <1>3, <2>1, <2>4, <2>5, <2>6, <2>7, FilesMove
<1> QED BY <1>4, <1>5

\* pruneOldRuns lists what the retention of its config drops.
LEMMA ListKeeps ==
  ASSUME RetainInv, NEW j \in Jobs, ListOld(j)
  PROVE  RetainInv'
<1>1. PICK q : q = job[j]
  OBVIOUS
<1>2. JobFits(q) /\ q.pc = "list"
  BY <1>1, JobFacts DEF ListOld
<1>3. UNCHANGED <<brun, nextRun, bcfg, tightest, now, clash, bfile>>
  BY DEF ListOld, cfgVars
<1>4. PICK old : old = {<<n, brun[n].file>> : n \in Prunable(q.cfg, q.row.keep)}
  OBVIOUS
<1> DEFINE r == [q EXCEPT !.pc = "prune", !.old = old]
<1>5. job' = [job EXCEPT ![j] = r]
  BY <1>1, <1>4 DEF ListOld
<1>6. /\ r \in [pc : {"prune"}, cfg : {q.cfg}, row : {q.row}, run : {q.run}, file : {q.file},
               old : {old}, del : {0}]
      /\ q.cfg \in BackupConfigs /\ q.row \in CfgRows /\ q.run \in 1..(nextRun - 1)
      /\ Counted(q.cfg, q.row.keep)
  BY <1>2 DEF JobFits, Unrecorded
<1> HIDE DEF r
<1>7. ASSUME NEW n \in Prunable(q.cfg, q.row.keep)
      PROVE  /\ Succeeded(n) /\ Doomed(n) /\ n \in 1..(nextRun - 1) /\ brun[n].file # NoFile
             /\ <<n, brun[n].file>> \in Claims
  <2>1. q.row.keep \in Nat /\ q.row.keep > 0 /\ n \in ListOldBackupRuns(q.cfg, q.row.keep)
    BY <1>6, <1>7, BackupAssumption DEF Prunable, CfgRows
  <2>2. Succeeded(n) /\ brun[n].cfg = q.cfg /\ Cardinality(NewerRuns(n)) >= q.row.keep
    BY <2>1 DEF ListOldBackupRuns, SuccessRuns, NewerRuns, Succeeded
  <2>3. tightest[q.cfg] \in 1..q.row.keep
    BY <1>6, <2>1 DEF Counted
  <2>4. Cardinality(NewerRuns(n)) \in Nat
    BY NewerAreFew DEF RetainInv
  <2> QED BY <2>1, <2>2, <2>3, <2>4 DEF Doomed, RetainInv, RowsFit, Succeeded, Claims
<1>8. JobFits(r)'
  <2>1. PICK x : x = r
    OBVIOUS
  <2>2. x.pc = "prune" /\ x.run = q.run /\ x.old = old /\ x.del = 0
    BY <1>6, <2>1
  <2>3. x \in [pc : Unrecorded \cup {"list", "prune"}, cfg : BackupConfigs, row : CfgRows,
               run : 1..(nextRun' - 1), file : {x.file}, old : {x.old}, del : 0..(nextRun' - 1)]
    <3>1. nextRun' = nextRun /\ nextRun \in Nat \ {0}
      BY <1>3, JobFacts
    <3> QED BY <1>6, <2>1, <3>1 DEF Unrecorded
  <2>4. Counted(x.cfg, x.row.keep)' /\ Doomed(x.del)'
    BY <1>3, <1>6, <2>1, <2>2, JobFacts DEF Counted, Succeeded, Doomed
  <2>5. ASSUME NEW o \in x.old
        PROVE  o = <<o[1], o[2]>> /\ o[1] \in 1..(nextRun' - 1) /\ o[2] # NoFile /\ Doomed(o[1])'
    <3>1. PICK n \in Prunable(q.cfg, q.row.keep) : o = <<n, brun[n].file>>
      BY <1>4, <2>2
    <3>2. Doomed(n)'
      BY <1>3, <1>7 DEF Doomed, Succeeded, NewerRuns, SuccessRuns, Newer
    <3>3. o[1] = n /\ o[2] = brun[n].file
      BY <3>1
    <3> QED BY <1>3, <1>7, <3>1, <3>2, <3>3
  <2>6. JobFits(x)'
    BY <2>2, <2>3, <2>4, <2>5 DEF JobFits, Unrecorded, Writing
  <2> QED BY <2>1, <2>6
<1>9. \A f, n, w : f \notin clash' /\ n # 0 /\ <<n, f>> \in Claims /\ Holds(f, n, w)
                     => Holds(f, n, w)'
  BY <1>3 DEF Holds
<1>10. /\ job[j].pc # "idle" /\ r.run = job[j].run /\ (r.pc \in Unrecorded => job[j].pc \in Unrecorded)
       /\ \A d \in Prunes(r) : d \in Prunes(job[j]) \/ d = 0 \/ Succeeded(d)
       /\ r.old \subseteq Claims /\ <<r.run, r.file>> \in Claims
  <2>1. r.pc = "prune" /\ r.run = q.run /\ r.file = q.file /\ r.old = old /\ r.del = 0
    BY <1>6
  <2>2. \A o \in old : Succeeded(o[1]) /\ o \in Claims
    BY <1>4, <1>7
  <2> QED BY <1>1, <1>2, <2>1, <2>2, JobFacts DEF Prunes, Unrecorded
<1>11. Doomed(0) /\ (\A i \in Jobs \ {j} : job[i].pc \in Unrecorded => job[i].run # 0)
       /\ clash \subseteq clash'
  BY <1>3, JobFacts
<1> QED BY <1>3, <1>5, <1>8, <1>9, <1>10, <1>11, FilesMove

\* The file of a listed run goes, or its delete fails.
LEMMA PruneFileKeeps ==
  ASSUME RetainInv, NEW j \in Jobs, PruneFile(j)
  PROVE  RetainInv'
<1>1. PICK q : q = job[j]
  OBVIOUS
<1>2. JobFits(q) /\ q.pc = "prune" /\ q.del = 0
  BY <1>1, JobFacts DEF PruneFile
<1>3. UNCHANGED <<brun, nextRun, bcfg, tightest, now, clash>>
  BY DEF PruneFile, cfgVars
<1>4. PICK o \in q.old :
         \/ /\ bfile' = Without(bfile, {o[2]})
            /\ job' = [job EXCEPT ![j].del = o[1], ![j].old = @ \ {o}]
         \/ bfile' = bfile /\ job' = [job EXCEPT ![j].old = @ \ {o}]
  BY <1>1 DEF PruneFile
<1>5. /\ q \in [pc : {"prune"}, cfg : BackupConfigs, row : CfgRows, run : 1..(nextRun - 1),
               file : {q.file}, old : {q.old}, del : {0}]
      /\ Counted(q.cfg, q.row.keep)
      /\ \A x \in q.old : /\ x = <<x[1], x[2]>> /\ x[1] \in 1..(nextRun - 1)
                          /\ x[2] # NoFile /\ Doomed(x[1])
  BY <1>2 DEF JobFits
<1>6. ASSUME NEW d \in {0, o[1]}, NEW r, r = [q EXCEPT !.del = d, !.old = q.old \ {o}],
             job' = [job EXCEPT ![j] = r],
             bfile' = bfile \/ bfile' = Without(bfile, {o[2]})
      PROVE  RetainInv'
  <2>1. r \in [pc : {"prune"}, cfg : {q.cfg}, row : {q.row}, run : {q.run}, file : {q.file},
               old : {q.old \ {o}}, del : {d}]
    BY <1>5, <1>6
  <2>2. /\ r.pc = "prune" /\ r.old = q.old \ {o} /\ r.del = d /\ r.run = q.run /\ r.file = q.file
        /\ r.cfg = q.cfg /\ r.row = q.row
    BY <2>1
  <2>3. JobFits(r)'
    <3>1. r \in [pc : Unrecorded \cup {"list", "prune"}, cfg : BackupConfigs, row : CfgRows,
               run : 1..(nextRun' - 1), file : {r.file}, old : {r.old}, del : 0..(nextRun' - 1)]
      <4>1. nextRun' = nextRun /\ nextRun \in Nat \ {0}
        BY <1>3, JobFacts
      <4>2. d \in 0..(nextRun - 1)
        BY <1>5, <1>6, <4>1
      <4> QED BY <1>5, <2>1, <4>1, <4>2 DEF Unrecorded
    <3>2. Counted(r.cfg, r.row.keep)'
      BY <1>3, <1>5, <2>2 DEF Counted
    <3>3. ASSUME NEW n, Doomed(n) PROVE Doomed(n)'
      BY <1>3, <3>3 DEF Doomed, Succeeded, NewerRuns, SuccessRuns, Newer
    <3>4. Doomed(d) /\ \A x \in r.old : x \in q.old
      BY <1>5, <1>6, <2>2, JobFacts
    <3> QED BY <1>3, <1>5, <2>2, <3>1, <3>2, <3>3, <3>4 DEF JobFits, Unrecorded, Writing
  <2>4. ASSUME NEW f, NEW n, NEW w, f \notin clash', n # o[1], <<n, f>> \in Claims, Holds(f, n, w)
        PROVE  Holds(f, n, w)'
    <3>1. o \in Claims /\ o = <<o[1], o[2]>> /\ o[2] # NoFile
      BY <1>1, <1>2, <1>5, JobFacts
    <3>2. f # o[2]
      BY <1>3, <2>4, <3>1 DEF RetainInv, OneClaim
    <3> QED BY <1>6, <2>4, <3>2 DEF Holds, Without
  <2>5. /\ job[j].pc # "idle" /\ r.run = job[j].run
        /\ (r.pc \in Unrecorded => job[j].pc \in Unrecorded)
        /\ \A x \in Prunes(r) : x \in Prunes(job[j]) \/ x = 0 \/ Succeeded(x)
        /\ r.old \subseteq Claims /\ <<r.run, r.file>> \in Claims
    BY <1>1, <1>2, <1>4, <2>2, <1>6, JobFacts DEF Prunes, Unrecorded
  <2>6. /\ Doomed(o[1]) /\ clash \subseteq clash'
        /\ \A i \in Jobs \ {j} : job[i].pc \in Unrecorded => job[i].run # o[1]
    <3>1. o[1] \in Prunes(job[j]) /\ j \in Active
      BY <1>1, <1>2, <1>4 DEF Prunes, Active
    <3> QED BY <1>3, <1>5, <3>1 DEF RetainInv, Apart, Active, Unrecorded
  <2> QED BY <1>3, <1>6, <2>3, <2>4, <2>5, <2>6, FilesMove
<1>7. CASE /\ bfile' = Without(bfile, {o[2]})
           /\ job' = [job EXCEPT ![j].del = o[1], ![j].old = @ \ {o}]
  <2>1. job' = [job EXCEPT ![j] = [q EXCEPT !.del = o[1], !.old = q.old \ {o}]]
    BY <1>1, <1>7
  <2> QED BY <1>6, <1>7, <2>1
<1>8. CASE bfile' = bfile /\ job' = [job EXCEPT ![j].old = @ \ {o}]
  <2>1. [q EXCEPT !.old = q.old \ {o}] = [q EXCEPT !.del = 0, !.old = q.old \ {o}]
    BY <1>5
  <2>2. job' = [job EXCEPT ![j] = [q EXCEPT !.old = q.old \ {o}]]
    BY <1>1, <1>8
  <2> QED BY <1>6, <1>8, <2>1, <2>2
<1> QED BY <1>4, <1>7, <1>8

\* The same for a step in which no run succeeds.
LEMMA RowsLeave ==
  ASSUME RetainInv, NEW gone, UNCHANGED <<bfile, clash>>, RowsFit', ConfigsFit',
         nextRun <= nextRun', Doomed(gone),
         \A c \in BackupConfigs : tightest[c] > 0 => tightest'[c] \in 1..tightest[c],
         \A n : Succeeded(n)' => Succeeded(n) /\ SameRun(n),
         \A n, s : Succeeded(s) /\ s # gone /\ Succeeded(n)' /\ brun[s].cfg = brun[n].cfg => SameRun(s),
         job' = [i \in Jobs |-> job'[i]],
         \A i \in Jobs : JobFits(job[i])' \/ job'[i] = job[i],
         Apart', \A c \in Claims' : c \in Claims \/ c[2] = NoFile
  PROVE  RetainInv'
<1>1. PICK none : none = -1
  OBVIOUS
<1>2. \A i \in Active : none \notin Prunes(job[i]) /\ job[i].run # none
  BY <1>1 DEF RetainInv, RowsFit, JobsFit, JobFits, Active, Prunes
<1>3. ~Succeeded(none)'
  BY <1>1 DEF RowsFit, Succeeded
<1>4. \A i \in Jobs : \/ JobFits(job[i])'
                      \/ /\ job'[i] = job[i]
                         /\ i \in Active => none \notin Prunes(job[i])
                         /\ job[i].pc \in Unrecorded => job[i].run # none
  BY <1>2 DEF Active, Unrecorded
<1>5. /\ \A n : Succeeded(n)' /\ n # none => Succeeded(n) /\ SameRun(n)
      /\ \A n, s : /\ Succeeded(s) /\ s # gone /\ Succeeded(n)' /\ n # none
                   /\ brun[s].cfg = brun[n].cfg
                   => SameRun(s)
      /\ Succeeded(none)' /\ brun'[none].file \notin clash => Holds(brun'[none].file, none, TRUE)
  BY <1>3
<1> QED BY <1>4, <1>5, RowsMove

\* The settings did not change.
LEMMA SameConfigs ==
  ASSUME RetainInv, UNCHANGED <<bcfg, tightest>>
  PROVE  /\ ConfigsFit' /\ Doomed(0) /\ (nextRun' = nextRun => nextRun <= nextRun')
         /\ \A c \in BackupConfigs : tightest[c] > 0 => tightest'[c] \in 1..tightest[c]
<1>1. ConfigsFit'
  BY DEF RetainInv, ConfigsFit, Counted
<1>2. \A c \in BackupConfigs : tightest[c] \in Nat /\ tightest'[c] = tightest[c]
  BY DEF RetainInv, ConfigsFit
<1>3. Doomed(0) /\ (nextRun' = nextRun => nextRun <= nextRun')
  BY DEF RetainInv, RowsFit, Doomed, Succeeded
<1> QED BY <1>1, <1>2, <1>3

\* A job ends; Scheduler.failRun may mark its run as failed.
LEMMA EndKeeps ==
  ASSUME RetainInv, NEW j \in Jobs, Finish(j), UNCHANGED <<nextRun, bcfg, tightest, now, bfile, clash>>,
         brun' = brun \/ (job[j].pc \in Unrecorded /\ FailRun(job[j].run))
  PROVE  RetainInv'
<1>1. PICK k : k = job[j].run
  OBVIOUS
<1>2. job' = [i \in Jobs |-> job'[i]] /\ job'[j] = IdleJob /\ \A i \in Jobs \ {j} : job'[i] = job[i]
  BY JobFacts DEF Finish
<1>3. \/ brun' = brun
      \/ /\ k \in DOMAIN brun /\ ~Succeeded(k) /\ brun' = [brun EXCEPT ![k].status = "failed"]
  BY <1>1, JobFacts DEF FailRun, JobFits, Unrecorded
<1>4. RowsFit' /\ \A n : Succeeded(n)' <=> Succeeded(n)
  <2>1. CASE brun' = brun
    BY <2>1 DEF RetainInv, RowsFit, Succeeded
  <2>2. CASE k \in DOMAIN brun /\ ~Succeeded(k) /\ brun' = [brun EXCEPT ![k].status = "failed"]
    <3>1. PICK e : e = brun[k]
      OBVIOUS
    <3>2. e \in [cfg : DOMAIN bcfg, status : {"running", "failed", "success"}, start : Nat, file : {NoFile}]
          /\ e.status # "success"
      BY <2>2, <3>1 DEF RetainInv, RowsFit, Succeeded
    <3>3. /\ DOMAIN brun' = DOMAIN brun /\ brun' = [n \in DOMAIN brun |-> brun'[n]]
          /\ brun'[k] = [e EXCEPT !.status = "failed"]
          /\ \A n \in DOMAIN brun \ {k} : brun'[n] = brun[n]
      BY <2>2, <3>1 DEF RetainInv, RowsFit
    <3>4. brun'[k] \in [cfg : DOMAIN bcfg, status : {"failed"}, start : Nat, file : {NoFile}]
      BY <3>2, <3>3
    <3> QED BY <2>2, <3>2, <3>3, <3>4 DEF RetainInv, RowsFit, Succeeded
  <2> QED BY <1>3, <2>1, <2>2
<1>5. \A n : Succeeded(n) => SameRun(n)
  BY <1>3 DEF Succeeded, SameRun
<1>6. DOMAIN brun' = DOMAIN brun /\ \A n \in DOMAIN brun : brun'[n].file = brun[n].file
  BY <1>3 DEF RetainInv, RowsFit
<1>7. \A i \in Active' : i \in Active /\ i # j /\ job'[i] = job[i]
  BY <1>2 DEF Active, IdleJob
<1>8. \A c \in Claims' : c \in Claims
  BY <1>6, <1>7 DEF Claims
<1>9. Apart'
  BY <1>7, StayApart
<1>10. \A i \in Jobs : JobFits(job[i])' \/ job'[i] = job[i]
  BY <1>2 DEF JobFits, IdleJob
<1>11. /\ ConfigsFit' /\ nextRun <= nextRun' /\ Doomed(0)
       /\ \A c \in BackupConfigs : tightest[c] > 0 => tightest'[c] \in 1..tightest[c]
  BY SameConfigs
<1>12. /\ \A n : Succeeded(n)' => Succeeded(n) /\ SameRun(n)
       /\ \A n, s : Succeeded(s) /\ s # 0 /\ Succeeded(n)' /\ brun[s].cfg = brun[n].cfg => SameRun(s)
  BY <1>4, <1>5
<1> QED BY <1>2, <1>4, <1>8, <1>9, <1>10, <1>11, <1>12, RowsLeave

\* UpdateBackupRunSuccess: the row of a run says success once its file is whole.
LEMMA RecordKeeps ==
  ASSUME RetainInv, NEW j \in Jobs, RecordBackup(j)
  PROVE  RetainInv'
<1>1. PICK q : q = job[j]
  OBVIOUS
<1>2. JobFits(q) /\ q.pc = "record"
  BY <1>1, JobFacts DEF RecordBackup
<1>3. UNCHANGED <<nextRun, bcfg, tightest, now, clash, bfile>>
  BY DEF RecordBackup, cfgVars
<1>4. CASE q.run \notin DOMAIN brun
  BY <1>1, <1>2, <1>3, <1>4, EndKeeps DEF RecordBackup
<1>5. CASE q.run \in DOMAIN brun
  <2> DEFINE r == [q EXCEPT !.pc = "list"]
  <2>1. /\ brun' = [brun EXCEPT ![q.run].status = "success", ![q.run].file = q.file]
        /\ job' = [job EXCEPT ![j] = r]
    BY <1>1, <1>5 DEF RecordBackup, Step
  <2>2. /\ r \in [pc : {"list"}, cfg : {q.cfg}, row : {q.row}, run : {q.run}, file : {q.file},
                 old : {{}}, del : {0}]
        /\ q.cfg \in BackupConfigs /\ q.row \in CfgRows /\ q.run \in 1..(nextRun - 1)
        /\ Counted(q.cfg, q.row.keep) /\ ~Succeeded(q.run) /\ q.file # NoFile
        /\ q.file \notin clash => Holds(q.file, q.run, TRUE)
    BY <1>2 DEF JobFits, Unrecorded, Writing
  <2> HIDE DEF r
  <2>3. PICK e : e = brun[q.run]
    OBVIOUS
  <2>4. e \in [cfg : DOMAIN bcfg, status : {"running", "failed", "success"}, start : Nat, file : {e.file}]
    BY <1>5, <2>3 DEF RetainInv, RowsFit
  <2>5. /\ DOMAIN brun' = DOMAIN brun /\ brun' = [n \in DOMAIN brun |-> brun'[n]]
        /\ brun'[q.run] = [e EXCEPT !.status = "success", !.file = q.file]
        /\ \A n \in DOMAIN brun \ {q.run} : brun'[n] = brun[n]
    BY <1>5, <2>1, <2>3 DEF RetainInv, RowsFit
  <2>6. brun'[q.run] \in [cfg : DOMAIN bcfg, status : {"success"}, start : Nat, file : {q.file}]
    BY <2>4, <2>5
  <2>7. RowsFit'
    <3>1. ASSUME NEW n \in DOMAIN brun
          PROVE  /\ n \in 1..(nextRun - 1)
                 /\ brun'[n] \in [cfg : DOMAIN bcfg, status : {"running", "failed", "success"},
                                  start : Nat, file : {brun'[n].file}]
                 /\ brun'[n].status = "success" <=> brun'[n].file # NoFile
      <4>1. CASE n = q.run
        BY <2>2, <2>6, <4>1
      <4>2. CASE n # q.run
        BY <2>5, <4>2 DEF RetainInv, RowsFit
      <4> QED BY <4>1, <4>2
    <3> QED BY <1>3, <2>5, <3>1 DEF RetainInv, RowsFit
  <2>8. job' = [i \in Jobs |-> job'[i]] /\ job'[j] = r /\ \A i \in Jobs \ {j} : job'[i] = job[i]
    BY <2>1, JobFacts
  <2>9. /\ \A n : Succeeded(n)' /\ n # q.run => Succeeded(n) /\ SameRun(n)
        /\ \A n, s : /\ Succeeded(s) /\ s # 0 /\ Succeeded(n)' /\ n # q.run
                     /\ brun[s].cfg = brun[n].cfg
                     => SameRun(s)
    BY <2>2, <2>5 DEF Succeeded, SameRun
  <2>10. Succeeded(q.run)' /\ brun'[q.run].file \notin clash => Holds(brun'[q.run].file, q.run, TRUE)
    BY <2>2, <2>6
  <2>11. JobFits(r)'
    <3>1. PICK x : x = r
      OBVIOUS
    <3>2. x.pc = "list" /\ x.old = {} /\ x.del = 0
      BY <2>2, <3>1
    <3>3. x \in [pc : Unrecorded \cup {"list", "prune"}, cfg : BackupConfigs, row : CfgRows,
                 run : 1..(nextRun' - 1), file : {x.file}, old : {x.old}, del : 0..(nextRun' - 1)]
      <4>1. nextRun' = nextRun /\ nextRun \in Nat \ {0}
        BY <1>3, JobFacts
      <4> QED BY <2>2, <3>1, <4>1 DEF Unrecorded
    <3>4. Counted(x.cfg, x.row.keep)' /\ Doomed(x.del)'
      BY <1>3, <2>2, <2>7, <3>1, <3>2 DEF Counted, Doomed, Succeeded, RowsFit
    <3>5. JobFits(x)'
      BY <3>2, <3>3, <3>4 DEF JobFits, Unrecorded, Writing
    <3> QED BY <3>1, <3>5
  <2>12. \A i \in Jobs : \/ JobFits(job[i])'
                         \/ /\ job'[i] = job[i]
                            /\ i \in Active => q.run \notin Prunes(job[i])
                            /\ job[i].pc \in Unrecorded => job[i].run # q.run
    <3>1. JobFits(job[j])'
      BY <2>8, <2>11
    <3>2. \A i \in Jobs \ {j} : /\ i \in Active => q.run \notin Prunes(job[i])
                                /\ job[i].pc \in Unrecorded => job[i].run # q.run
      BY <1>1, <1>2 DEF RetainInv, Apart, Active, Unrecorded
    <3> QED BY <2>8, <3>1, <3>2
  <2>13. \A i \in Active' : /\ i \in Active /\ job'[i].run = job[i].run /\ job'[i].file = job[i].file
                            /\ job'[i].pc \in Unrecorded => job[i].pc \in Unrecorded
                            /\ Prunes(job'[i]) \subseteq Prunes(job[i]) \cup {0}
                            /\ job'[i].old \subseteq job[i].old
    <3>1. r.pc = "list" /\ r.run = q.run /\ r.file = q.file /\ r.old = {} /\ Prunes(r) = {0}
      BY <2>2 DEF Prunes
    <3> QED BY <1>1, <1>2, <2>8, <3>1 DEF Active, Unrecorded
  <2>14. Apart'
    BY <2>13, StayApart
  <2>15. \A c \in Claims' : c \in Claims \/ c[2] = NoFile
    <3>1. <<q.run, q.file>> \in Claims
      BY <1>1, <1>2, JobFacts
    <3>2. \A n \in DOMAIN brun' : <<n, brun'[n].file>> \in Claims
      BY <2>5, <2>6, <3>1 DEF Claims
    <3> QED BY <2>13, <3>2 DEF Claims
  <2> QED
    BY <1>3, <2>7, <2>8, <2>9, <2>10, <2>12, <2>14, <2>15, SameConfigs, RowsMove
<1> QED BY <1>4, <1>5

\* The row of a pruned run goes after its file.
LEMMA PruneRowKeeps ==
  ASSUME RetainInv, NEW j \in Jobs, PruneRow(j)
  PROVE  RetainInv'
<1>1. PICK q : q = job[j]
  OBVIOUS
<1>2. JobFits(q) /\ q.pc = "prune"
  BY <1>1, JobFacts DEF PruneRow
<1>3. UNCHANGED <<nextRun, bcfg, tightest, now, clash, bfile>>
  BY DEF PruneRow, cfgVars
<1> DEFINE r == [q EXCEPT !.del = 0]
<1>4. brun' = Without(brun, {q.del}) /\ job' = [job EXCEPT ![j] = r]
  BY <1>1 DEF PruneRow
<1>5. /\ r \in [pc : {"prune"}, cfg : {q.cfg}, row : {q.row}, run : {q.run}, file : {q.file},
               old : {q.old}, del : {0}]
      /\ q.cfg \in BackupConfigs /\ q.row \in CfgRows /\ q.run \in 1..(nextRun - 1)
      /\ Counted(q.cfg, q.row.keep) /\ Doomed(q.del)
      /\ \A o \in q.old : /\ o = <<o[1], o[2]>> /\ o[1] \in 1..(nextRun - 1)
                          /\ o[2] # NoFile /\ Doomed(o[1])
  BY <1>2 DEF JobFits
<1> HIDE DEF r
<1>6. DOMAIN brun' = DOMAIN brun \ {q.del} /\ \A n \in DOMAIN brun' : brun'[n] = brun[n]
  BY <1>4 DEF Without
<1>7. RowsFit'
  BY <1>3, <1>4, <1>6 DEF RetainInv, RowsFit, Without
<1>8. job' = [i \in Jobs |-> job'[i]] /\ job'[j] = r /\ \A i \in Jobs \ {j} : job'[i] = job[i]
  BY <1>4, JobFacts
<1>9. /\ \A n : Succeeded(n)' => Succeeded(n) /\ SameRun(n)
      /\ \A n, s : Succeeded(s) /\ s # q.del /\ Succeeded(n)' /\ brun[s].cfg = brun[n].cfg => SameRun(s)
  BY <1>6 DEF Succeeded, SameRun
<1>10. JobFits(r)'
  <2>1. PICK x : x = r
    OBVIOUS
  <2>2. x.pc = "prune" /\ x.old = q.old /\ x.del = 0
    BY <1>5, <2>1
  <2>3. x \in [pc : Unrecorded \cup {"list", "prune"}, cfg : BackupConfigs, row : CfgRows,
               run : 1..(nextRun' - 1), file : {x.file}, old : {x.old}, del : 0..(nextRun' - 1)]
    <3>1. nextRun' = nextRun /\ nextRun \in Nat \ {0}
      BY <1>3, JobFacts
    <3> QED BY <1>5, <2>1, <3>1 DEF Unrecorded
  <2>4. Counted(x.cfg, x.row.keep)' /\ Doomed(x.del)'
    BY <1>3, <1>5, <1>7, <2>1, <2>2 DEF Counted, Doomed, Succeeded, RowsFit
  <2>5. ASSUME NEW n, Doomed(n) PROVE Doomed(n)'
    <3>1. RowsFit /\ ConfigsFit /\ ConfigsFit'
      BY <1>3, SameConfigs DEF RetainInv
    <3>2. \A c \in BackupConfigs : tightest[c] > 0 => tightest'[c] \in 1..tightest[c]
      BY <1>3, SameConfigs
    <3>3. /\ Succeeded(n)' => Succeeded(n) /\ SameRun(n)
          /\ \A s : Succeeded(s) /\ s # q.del /\ Succeeded(n)' /\ brun[s].cfg = brun[n].cfg => SameRun(s)
      BY <1>9
    <3> QED BY <1>5, <1>7, <2>5, <3>1, <3>2, <3>3, DoomedStays
  <2>6. JobFits(x)'
    BY <1>3, <1>5, <2>2, <2>3, <2>4, <2>5 DEF JobFits, Unrecorded, Writing
  <2> QED BY <2>1, <2>6
<1>11. \A i \in Jobs : JobFits(job[i])' \/ job'[i] = job[i]
  <2>1. JobFits(job[j])'
    BY <1>8, <1>10
  <2> QED BY <1>8, <2>1
<1>12. \A i \in Active' : /\ i \in Active /\ job'[i].run = job[i].run /\ job'[i].file = job[i].file
                          /\ job'[i].pc \in Unrecorded => job[i].pc \in Unrecorded
                          /\ Prunes(job'[i]) \subseteq Prunes(job[i]) \cup {0}
                          /\ job'[i].old \subseteq job[i].old
  <2>1. /\ r.pc = "prune" /\ r.run = q.run /\ r.file = q.file /\ r.old = q.old
        /\ Prunes(r) \subseteq Prunes(q) \cup {0}
    BY <1>5 DEF Prunes
  <2> QED BY <1>1, <1>2, <1>8, <2>1 DEF Active, Unrecorded
<1>13. Apart'
  BY <1>12, StayApart
<1>14. \A c \in Claims' : c \in Claims
  BY <1>6, <1>12 DEF Claims
<1> QED BY <1>3, <1>5, <1>7, <1>8, <1>9, <1>11, <1>13, <1>14, SameConfigs, RowsLeave

\* Scheduler.RunBackup creates a row of its own and reads the config's settings.
LEMMA BeginKeeps ==
  ASSUME RetainInv, NEW j \in Jobs, NEW c \in BackupConfigs, BeginBackup(j, c)
  PROVE  RetainInv'
<1>0. PICK k : k = nextRun
  OBVIOUS
<1> DEFINE e == [cfg |-> c, status |-> "running", start |-> now, file |-> NoFile]
           r == [pc |-> "plan", cfg |-> c, row |-> bcfg[c], run |-> k,
                 file |-> NoFile, old |-> {}, del |-> 0]
<1>1. /\ UNCHANGED <<bcfg, tightest, now, clash, bfile>>
      /\ job[j].pc = "idle" /\ c \in DOMAIN bcfg
      /\ brun' = With(brun, k, e) /\ nextRun' = k + 1
      /\ job' = [job EXCEPT ![j] = r]
  BY <1>0 DEF BeginBackup, cfgVars
<1>2. /\ k \in Nat \ {0} /\ now \in Nat /\ k \notin DOMAIN brun
      /\ bcfg[c] \in CfgRows /\ Counted(c, bcfg[c].keep)
  BY <1>0, <1>1 DEF RetainInv, RowsFit, ConfigsFit
<1>3. /\ DOMAIN brun' = DOMAIN brun \cup {k} /\ brun' = [n \in DOMAIN brun' |-> brun'[n]]
      /\ brun'[k] = e /\ \A n \in DOMAIN brun : brun'[n] = brun[n]
  BY <1>1, <1>2 DEF With
<1>4. RowsFit'
  <2>1. e.status # "success" /\ e.file = NoFile
        /\ e \in [cfg : DOMAIN bcfg, status : {"running", "failed", "success"}, start : Nat, file : {e.file}]
    BY <1>1, <1>2
  <2> HIDE DEF e
  <2>2. ASSUME NEW n \in DOMAIN brun'
        PROVE  /\ n \in 1..(nextRun' - 1)
               /\ brun'[n] \in [cfg : DOMAIN bcfg, status : {"running", "failed", "success"},
                                start : Nat, file : {brun'[n].file}]
               /\ brun'[n].status = "success" <=> brun'[n].file # NoFile
    <3>1. CASE n = k
      BY <1>1, <1>2, <1>3, <2>1, <3>1
    <3>2. CASE n # k
      BY <1>0, <1>1, <1>2, <1>3, <2>2, <3>2 DEF RetainInv, RowsFit
    <3> QED BY <3>1, <3>2
  <2> QED BY <1>1, <1>2, <1>3, <2>2 DEF RetainInv, RowsFit
<1>5. /\ ~Succeeded(k)'
      /\ \A n : Succeeded(n)' => Succeeded(n) /\ SameRun(n)
      /\ \A n, s : Succeeded(s) /\ s # 0 /\ Succeeded(n)' /\ brun[s].cfg = brun[n].cfg => SameRun(s)
  BY <1>3 DEF Succeeded, SameRun
<1> HIDE DEF e
<1>6. job' = [i \in Jobs |-> job'[i]] /\ job'[j] = r /\ \A i \in Jobs \ {j} : job'[i] = job[i]
  BY <1>1, JobFacts
<1>7. /\ r \in [pc : {"plan"}, cfg : {c}, row : {bcfg[c]}, run : {k}, file : {NoFile},
               old : {{}}, del : {0}]
      /\ r.old = {} /\ r.file = NoFile /\ r.run = k /\ Prunes(r) = {0} /\ r.pc = "plan"
  BY DEF Prunes
<1>8. JobFits(job[j])'
  <2>1. PICK x : x = r
    OBVIOUS
  <2> HIDE DEF r
  <2>2. /\ x.pc = "plan" /\ x.old = {} /\ x.del = 0 /\ x.run = k /\ x.cfg = c
        /\ x.row = bcfg[c]
    BY <1>7, <2>1
  <2>3. x \in [pc : Unrecorded \cup {"list", "prune"}, cfg : BackupConfigs, row : CfgRows,
               run : 1..(nextRun' - 1), file : {x.file}, old : {x.old}, del : 0..(nextRun' - 1)]
    <3>1. k \in 1..(nextRun' - 1) /\ 0 \in 0..(nextRun' - 1)
      BY <1>1, <1>2
    <3> QED BY <1>2, <1>7, <2>1, <3>1 DEF Unrecorded
  <2>4. Counted(x.cfg, x.row.keep)'
    BY <1>1, <1>2, <2>2 DEF Counted
  <2>5. ~Succeeded(x.run)' /\ Doomed(x.del)'
    <3>1. ~Succeeded(0)'
      BY <1>4 DEF Succeeded, RowsFit
    <3> QED BY <1>5, <2>2, <3>1 DEF Doomed
  <2>6. JobFits(x)'
    BY <2>2, <2>3, <2>4, <2>5 DEF JobFits, Writing
  <2> QED BY <1>6, <2>1, <2>6
<1> HIDE DEF r
<1>9. \A i \in Jobs : JobFits(job[i])' \/ job'[i] = job[i]
  BY <1>6, <1>8
<1>10. \A i \in Active : /\ i # j /\ job[i].run # k /\ k \notin Prunes(job[i])
                         /\ job[i].run # 0 /\ job[i].run \in Nat
  BY <1>0, <1>1, <1>2 DEF RetainInv, JobsFit, JobFits, Active, Prunes
<1>11. \A i \in Active' : i = j \/ (i \in Active /\ job'[i] = job[i])
  BY <1>6 DEF Active
<1>12. Apart'
  BY <1>2, <1>6, <1>7, <1>10, <1>11 DEF RetainInv, Apart
<1>13. \A x \in Claims' : x \in Claims \/ x[2] = NoFile
  <2>1. \A n \in DOMAIN brun' : <<n, brun'[n].file>> \in Claims \/ brun'[n].file = NoFile
    BY <1>3 DEF Claims, e
  <2>2. \A i \in Active' : /\ <<job'[i].run, job'[i].file>> \in Claims \/ job'[i].file = NoFile
                           /\ job'[i].old \subseteq Claims
    <3>1. ASSUME NEW i \in Active', i # j
          PROVE  <<job'[i].run, job'[i].file>> \in Claims /\ job'[i].old \subseteq Claims
      <4>1. i \in Active /\ job'[i] = job[i]
        BY <1>11, <3>1
      <4> QED BY <4>1 DEF Claims
    <3>2. job'[j].file = NoFile /\ job'[j].old = {}
      BY <1>6, <1>7
    <3> QED BY <3>1, <3>2
  <2> SUFFICES ASSUME NEW x \in Claims' PROVE x \in Claims \/ x[2] = NoFile
    OBVIOUS
  <2>3. CASE \E n \in DOMAIN brun' : x = <<n, brun'[n].file>>
    <3>1. PICK n \in DOMAIN brun' : x = <<n, brun'[n].file>>
      BY <2>3
    <3>2. x[2] = brun'[n].file
      BY <3>1
    <3> QED BY <2>1, <3>1, <3>2
  <2>4. CASE \E i \in Active' : x = <<job'[i].run, job'[i].file>> \/ x \in job'[i].old
    <3>1. PICK i \in Active' : x = <<job'[i].run, job'[i].file>> \/ x \in job'[i].old
      BY <2>4
    <3>2. x = <<job'[i].run, job'[i].file>> => x[2] = job'[i].file
      OBVIOUS
    <3> QED BY <2>2, <3>1, <3>2
  <2> QED BY <2>3, <2>4 DEF Claims
<1>14. nextRun <= nextRun'
  BY <1>0, <1>1, <1>2
<1>15. /\ ConfigsFit' /\ Doomed(0)
       /\ \A x \in BackupConfigs : tightest[x] > 0 => tightest'[x] \in 1..tightest[x]
  BY <1>1, SameConfigs
<1> QED BY <1>1, <1>4, <1>5, <1>6, <1>9, <1>12, <1>13, <1>14, <1>15, RowsLeave

\* The smaller of two retentions.
LEMMA SmallerOfTwo ==
  ASSUME NEW a \in Nat, NEW b \in Nat
  PROVE  Min({a, b}) \in {a, b} /\ Min({a, b}) <= a /\ Min({a, b}) <= b
<1>1. \E x \in {a, b} : \A y \in {a, b} : x <= y
  <2>1. CASE a <= b
    BY <2>1
  <2>2. CASE b <= a
    BY <2>2
  <2> QED BY <2>1, <2>2
<1>2. Min({a, b}) \in {a, b} /\ \A y \in {a, b} : Min({a, b}) <= y
  BY <1>1 DEF Min
<1> QED BY <1>2

\* Saved settings: the tightest retention only shrinks, from 0, which keeps all.
LEMMA KeepCounts ==
  ASSUME ConfigsFit, NEW c \in BackupConfigs, NEW row \in CfgRows, Keep(c, row)
  PROVE  /\ tightest' \in [BackupConfigs -> Nat]
         /\ \A x \in BackupConfigs : tightest[x] > 0 => tightest'[x] \in 1..tightest[x]
         /\ \A x \in BackupConfigs, k \in Nat : Counted(x, k) => Counted(x, k)'
         /\ Counted(c, row.keep)'
<1>1. PICK k : k = row.keep
  OBVIOUS
<1>2. PICK t : t = tightest[c]
  OBVIOUS
<1>3. PICK m : m = IF k = 0 THEN t ELSE IF t = 0 THEN k ELSE Min({t, k})
  OBVIOUS
<1>4. k \in Nat /\ t \in Nat /\ tightest \in [BackupConfigs -> Nat]
  BY <1>1, <1>2, BackupAssumption DEF CfgRows, ConfigsFit
<1>5. m \in Nat /\ (t > 0 => m \in 1..t) /\ (k > 0 => m \in 1..k)
  BY <1>3, <1>4, SmallerOfTwo
<1>6. tightest' = [tightest EXCEPT ![c] = m]
  BY <1>1, <1>2, <1>3 DEF Keep
<1>7. /\ tightest' \in [BackupConfigs -> Nat]
      /\ \A x \in BackupConfigs : tightest[x] > 0 => tightest'[x] \in 1..tightest[x]
  BY <1>2, <1>4, <1>5, <1>6
<1>8. \A x \in BackupConfigs, n \in Nat : Counted(x, n) => Counted(x, n)'
  BY <1>4, <1>7 DEF Counted
<1>9. Counted(c, row.keep)'
  BY <1>1, <1>4, <1>5, <1>6 DEF Counted
<1> QED BY <1>7, <1>8, <1>9

\* A step that leaves the runs, their jobs and their files alone.
LEMMA SettingsKeep ==
  ASSUME RetainInv, UNCHANGED <<brun, nextRun, bfile, clash>>, now' \in Nat, ConfigsFit',
         DOMAIN bcfg \subseteq DOMAIN bcfg',
         job' = job \/ job' = [j \in Jobs |-> IdleJob],
         \A c \in BackupConfigs : tightest[c] > 0 => tightest'[c] \in 1..tightest[c]
  PROVE  RetainInv'
<1>1. RowsFit'
  BY DEF RetainInv, RowsFit
<1>2. job' = [i \in Jobs |-> job'[i]] /\ \A i \in Jobs : job'[i] = IdleJob \/ job'[i] = job[i]
  BY DEF RetainInv, JobsFit
<1>3. ASSUME NEW i \in Jobs, job'[i] = IdleJob PROVE JobFits(job[i])'
  BY <1>3 DEF JobFits, IdleJob
<1>4. \A i \in Active' : i \in Active /\ job'[i] = job[i]
  BY <1>2 DEF Active, IdleJob
<1>5. Apart'
  BY <1>4, StayApart
<1>6. \A c \in Claims' : c \in Claims
  BY <1>4 DEF Claims
<1>7. /\ \A n : Succeeded(n)' => Succeeded(n) /\ SameRun(n)
      /\ \A n, s : Succeeded(s) /\ s # 0 /\ Succeeded(n)' /\ brun[s].cfg = brun[n].cfg => SameRun(s)
  BY DEF Succeeded, SameRun
<1>8. nextRun <= nextRun' /\ Doomed(0)
  BY DEF RetainInv, RowsFit, Doomed, Succeeded
<1>9. \A i \in Jobs : JobFits(job[i])' \/ job'[i] = job[i]
  BY <1>2, <1>3
<1> QED BY <1>1, <1>2, <1>5, <1>6, <1>7, <1>8, <1>9, RowsLeave

\* The rows of deleted configs go with their runs, all at once.
LEMMA RemoveKeeps ==
  ASSUME RetainInv, NEW S, RemoveRows(S), UNCHANGED <<tightest, nextRun, bfile, clash, job, now>>
  PROVE  RetainInv'
<1> DEFINE D == {r \in DOMAIN brun : brun[r].cfg \in S}
<1>1. /\ DOMAIN brun' = DOMAIN brun \ D /\ \A n \in DOMAIN brun' : brun'[n] = brun[n]
      /\ brun' = [n \in DOMAIN brun' |-> brun'[n]]
  BY DEF RemoveRows, Without
<1>2. /\ DOMAIN bcfg' = DOMAIN bcfg \ S /\ \A c \in DOMAIN bcfg' : bcfg'[c] = bcfg[c]
      /\ bcfg' = [c \in DOMAIN bcfg' |-> bcfg'[c]]
  BY DEF RemoveRows, Without
<1>3. RowsFit'
  BY <1>1, <1>2 DEF RetainInv, RowsFit
<1>4. ConfigsFit'
  BY <1>2 DEF RetainInv, ConfigsFit, Counted
<1>5. /\ \A n : Succeeded(n)' => Succeeded(n) /\ SameRun(n)
      /\ \A n, s : Succeeded(s) /\ s # 0 /\ Succeeded(n)' /\ brun[s].cfg = brun[n].cfg => SameRun(s)
  BY <1>1 DEF Succeeded, SameRun
<1>6. /\ nextRun <= nextRun' /\ Doomed(0)
      /\ \A c \in BackupConfigs : tightest[c] > 0 => tightest'[c] \in 1..tightest[c]
  BY DEF RetainInv, RowsFit, ConfigsFit, Doomed, Succeeded
<1>7. job' = [i \in Jobs |-> job'[i]] /\ \A i \in Jobs : JobFits(job[i])' \/ job'[i] = job[i]
  BY DEF RetainInv, JobsFit
<1>8. Apart' /\ \A c \in Claims' : c \in Claims
  BY <1>1, StayApart DEF Active, Claims
<1> QED BY <1>3, <1>4, <1>5, <1>6, <1>7, <1>8, RowsLeave

\* The API and the sidecar save a row.
LEMMA SaveKeeps ==
  ASSUME RetainInv, NEW q \in Requests, NEW c \in BackupConfigs, NEW row \in NewRows,
         CreateConfig(q, c, row) \/ UpdateConfig(q, c, row)
  PROVE  RetainInv'
<1>1. row \in CfgRows
  BY BackupAssumption
<1>2. /\ UNCHANGED <<brun, nextRun, bfile, clash, job, now>> /\ Keep(c, row)
      /\ bcfg' = With(bcfg, c, row) \/ (c \in DOMAIN bcfg /\ bcfg' = [bcfg EXCEPT ![c] = row])
  BY DEF CreateConfig, UpdateConfig
<1>3. /\ DOMAIN bcfg' = DOMAIN bcfg \cup {c} /\ bcfg' = [x \in DOMAIN bcfg' |-> bcfg'[x]]
      /\ bcfg'[c] = row /\ \A x \in DOMAIN bcfg \ {c} : bcfg'[x] = bcfg[x]
  BY <1>2 DEF With, RetainInv, ConfigsFit
<1>4. /\ tightest' \in [BackupConfigs -> Nat]
      /\ \A x \in BackupConfigs : tightest[x] > 0 => tightest'[x] \in 1..tightest[x]
      /\ \A x \in BackupConfigs, k \in Nat : Counted(x, k) => Counted(x, k)'
      /\ Counted(c, row.keep)'
  BY <1>1, <1>2, KeepCounts DEF RetainInv
<1>5. ASSUME NEW x \in DOMAIN bcfg' PROVE bcfg'[x] \in CfgRows /\ Counted(x, bcfg[x].keep)'
  <2>1. CASE x = c
    BY <1>1, <1>3, <1>4, <2>1 DEF Counted
  <2>2. CASE x # c
    <3>1. PICK k : k = bcfg[x].keep
      OBVIOUS
    <3>2. bcfg'[x] = bcfg[x] /\ bcfg[x] \in CfgRows /\ Counted(x, k) /\ x \in BackupConfigs
      BY <1>3, <1>5, <2>2, <3>1 DEF RetainInv, ConfigsFit
    <3>3. k \in Nat
      BY <3>1, <3>2, BackupAssumption DEF CfgRows
    <3>4. Counted(x, k)'
      BY <1>4, <3>2, <3>3
    <3> QED BY <3>1, <3>2, <3>4 DEF Counted
  <2> QED BY <2>1, <2>2
<1>6. ConfigsFit'
  BY <1>3, <1>4, <1>5 DEF RetainInv, ConfigsFit
<1> QED BY <1>2, <1>3, <1>4, <1>6, SettingsKeep DEF RetainInv, RowsFit

\* ApplyAppSidecar changes the schedule, not the retention.
LEMMA SidecarKeeps ==
  ASSUME RetainInv, NEW c \in BackupConfigs, NEW cron \in Crons \cup {NoCron}, ApplySidecar(c, cron)
  PROVE  RetainInv'
<1>1. /\ UNCHANGED <<brun, nextRun, bfile, clash, job, now, tightest>>
      /\ c \in DOMAIN bcfg /\ bcfg' = [bcfg EXCEPT ![c].cron = cron]
  BY DEF ApplySidecar
<1>2. PICK row : row = bcfg[c]
  OBVIOUS
<1>3. row \in CfgRows /\ Counted(c, row.keep)
  BY <1>1, <1>2 DEF RetainInv, ConfigsFit
<1>4. [row EXCEPT !.cron = cron] \in CfgRows /\ [row EXCEPT !.cron = cron].keep = row.keep
  BY <1>3 DEF CfgRows
<1>5. bcfg' = [bcfg EXCEPT ![c] = [row EXCEPT !.cron = cron]]
  BY <1>1, <1>2
<1>6. ConfigsFit'
  BY <1>1, <1>3, <1>4, <1>5 DEF RetainInv, ConfigsFit, Counted
<1>7. \A x \in BackupConfigs : tightest[x] > 0 => tightest'[x] \in 1..tightest[x]
  BY <1>1 DEF RetainInv, ConfigsFit
<1> QED BY <1>1, <1>6, <1>7, SettingsKeep DEF RetainInv, RowsFit, ConfigsFit

\* Every step keeps what retention rests on.
LEMMA RetainStep == RetainInv /\ [BNext]_bvars => RetainInv'
<1> SUFFICES ASSUME RetainInv, [BNext]_bvars PROVE RetainInv'
  OBVIOUS
<1>1. \A c \in BackupConfigs : tightest[c] > 0 => tightest[c] \in 1..tightest[c]
  BY DEF RetainInv, ConfigsFit
<1>2. CASE UNCHANGED <<brun, nextRun, bcfg, tightest, bfile, clash, job>> /\ now' \in {now, now + 1}
  <2>1. now' \in Nat /\ ConfigsFit'
    BY <1>2, SameConfigs DEF RetainInv, RowsFit
  <2> QED BY <1>1, <1>2, <2>1, SettingsKeep
<1>3. CASE Restart
  <2>1. /\ UNCHANGED <<brun, nextRun, bcfg, tightest, bfile, clash, now>>
        /\ job' = [j \in Jobs |-> IdleJob]
    BY <1>3 DEF Restart
  <2>2. now' \in Nat /\ ConfigsFit'
    BY <2>1, SameConfigs DEF RetainInv, RowsFit
  <2> QED BY <1>1, <2>1, <2>2, SettingsKeep
<1>4. ASSUME NEW j \in Jobs, JobNext(j) PROVE RetainInv'
  <2>1. CASE PlanBackup(j)
    <3>1. job[j].pc = "plan" /\ UNCHANGED <<nextRun, bcfg, tightest, now, bfile, clash>>
      BY <2>1 DEF PlanBackup, cfgVars
    <3>2. CASE Step(j, "pre") /\ UNCHANGED brun
      BY <3>1, <3>2, PcMove
    <3>3. CASE FailRun(job[j].run) /\ Finish(j)
      BY <3>1, <3>3, EndKeeps DEF Unrecorded
    <3> QED BY <2>1, <3>2, <3>3 DEF PlanBackup
  <2>2. CASE PreBackup(j)
    <3>1. /\ job[j].pc = "pre" /\ UNCHANGED <<brun, nextRun, bcfg, tightest, now, bfile, clash>>
          /\ Step(j, "dump") \/ Step(j, "undo")
      BY <2>2 DEF PreBackup, PreHooks, cfgVars
    <3> QED BY <3>1, PcMove
  <2>3. CASE PostBackup(j)
    <3>1. /\ job[j].pc = "post" /\ UNCHANGED <<brun, nextRun, bcfg, tightest, now, bfile, clash>>
          /\ Step(j, "record")
      BY <2>3 DEF PostBackup, cfgVars
    <3> QED BY <3>1, PcMove
  <2>4. CASE UndoBackup(j) \/ EndBackup(j)
    <3>1. /\ UNCHANGED <<nextRun, bcfg, tightest, now, bfile, clash>> /\ Finish(j)
          /\ brun' = brun \/ (job[j].pc \in Unrecorded /\ FailRun(job[j].run))
      BY <2>4 DEF UndoBackup, EndBackup, cfgVars, Unrecorded
    <3> QED BY <3>1, EndKeeps
  <2> QED
    BY <1>4, <2>1, <2>2, <2>3, <2>4, DumpKeeps, UploadKeeps, RecordKeeps, ListKeeps,
       PruneFileKeeps, PruneRowKeeps DEF JobNext
<1>5. CASE RemoveApp \/ \E q \in Requests : DeleteConfig(q)
  <2>1. UNCHANGED <<tightest, nextRun, bfile, clash, job, now>> /\ \E S : RemoveRows(S)
    BY <1>5 DEF RemoveApp, DeleteConfig
  <2> QED BY <2>1, RemoveKeeps
<1>6. ASSUME NEW x \in Restores, RestoreNext(x) \/ \E r \in Runs : BeginRestore(x, r)
      PROVE  UNCHANGED <<brun, nextRun, bcfg, tightest, bfile, clash, job, now>>
  BY <1>6 DEF RestoreNext, BeginRestore, PlanRestore, Download, PreRestore, ApplyRestore,
              PostRestore, UploadRestore, EndUpload, cfgVars
<1>7. CASE \/ \E x \in Restores : RestoreNext(x) \/ \E r \in Runs : BeginRestore(x, r)
           \/ \E q \in Requests :
                ScheduleConfig(q) \/ \E c \in BackupConfigs : UnscheduleConfig(q, c)
           \/ Tick \/ UNCHANGED bvars
  <2>1. UNCHANGED <<brun, nextRun, bcfg, tightest, bfile, clash, job>> /\ now' \in {now, now + 1}
    BY <1>6, <1>7 DEF ScheduleConfig, UnscheduleConfig, Tick, bvars, cfgVars
  <2> QED BY <1>2, <2>1
<1> QED
  BY <1>3, <1>4, <1>5, <1>7, BeginKeeps, SaveKeeps, SidecarKeeps DEF BNext

\* pruneOldRuns: whatever crashed or failed, a successful run without its file is
\* one that retention drops.
THEOREM MissingRunsGo == BSpec => []MissingIsPrunable
<1>1. RetainInv => MissingIsPrunable
  <2> SUFFICES ASSUME RetainInv, NEW r \in DOMAIN brun, brun[r].status = "success",
                      ~(brun[r].file \in DOMAIN bfile /\ ChecksumOK(r, brun[r].file)),
                      brun[r].file \notin clash
               PROVE  r \in Prunable(brun[r].cfg, tightest[brun[r].cfg])
    BY DEF MissingIsPrunable
  <2>1. ~Holds(brun[r].file, r, TRUE)
    <3>1. ASSUME NEW e \in [by : {{r}}, whole : BOOLEAN], e.whole
          PROVE  e = [by |-> {r}, whole |-> TRUE]
      BY <3>1
    <3> QED BY <3>1 DEF Holds, ChecksumOK
  <2>2. Doomed(r) /\ Succeeded(r)
    BY <2>1 DEF RetainInv, MissingDoomed, Succeeded
  <2> QED
    BY <2>2 DEF Doomed, Prunable, ListOldBackupRuns, NewerRuns, SuccessRuns
<1> QED BY <1>1, RetainInit, RetainStep, PTL DEF BSpec

\* pruneOldRuns keeps the most recent successful run of every config.
THEOREM NewestRunStays == BSpec => NewestKept
<1>1. ASSUME RetainInv, BNext, NEW r \in DOMAIN brun, brun[r].cfg \in DOMAIN bcfg', r \notin DOMAIN brun'
      PROVE  \E j \in Jobs : PruneRow(j) /\ r = job[j].del
  <2>1. ASSUME NEW j \in Jobs, JobNext(j), ~PruneRow(j) PROVE r \in DOMAIN brun'
    BY <2>1 DEF JobNext, PlanBackup, PreBackup, DumpBackup, UploadBackup, PostBackup, UndoBackup,
                RecordBackup, ListOld, PruneFile, EndBackup, FailRun
  <2>2. ASSUME NEW x \in Restores, RestoreNext(x) \/ \E n \in Runs : BeginRestore(x, n)
        PROVE  UNCHANGED brun
    BY <2>2 DEF RestoreNext, BeginRestore, PlanRestore, Download, PreRestore, ApplyRestore,
                PostRestore, UploadRestore, EndUpload
  <2>3. ASSUME NEW S, RemoveRows(S) PROVE r \in DOMAIN brun'
    BY <1>1, <2>3 DEF RemoveRows, Without
  <2>4. ASSUME NEW j \in Jobs, PruneRow(j) PROVE r = job[j].del
    BY <1>1, <2>4 DEF PruneRow, Without
  <2>5. ASSUME NEW j \in Jobs, NEW c \in BackupConfigs, BeginBackup(j, c) PROVE r \in DOMAIN brun'
    BY <2>5 DEF BeginBackup, With
  <2> QED
    BY <1>1, <2>1, <2>2, <2>3, <2>4, <2>5, ZenonT(30)
       DEF BNext, ScheduleConfig, DeleteConfig, UnscheduleConfig, CreateConfig, UpdateConfig,
           RemoveApp, ApplySidecar, Tick, Restart
<1>2. ASSUME RetainInv, NEW r, Succeeded(r), Doomed(r)
      PROVE  \E s \in SuccessRuns(brun[r].cfg) \ {r} : ~Newer(r, s)
  <2>1. Cardinality(NewerRuns(r)) # 0
    BY <1>2 DEF Doomed, RetainInv, RowsFit, ConfigsFit, Succeeded
  <2>2. NewerRuns(r) # {}
    BY <2>1, FS_EmptySet
  <2>3. PICK s : s \in SuccessRuns(brun[r].cfg) /\ Newer(s, r)
    BY <2>2 DEF NewerRuns
  <2>4. /\ r \in Nat /\ s \in Nat /\ brun[r].start \in Nat /\ brun[s].start \in Nat
    BY <1>2, <2>3 DEF RetainInv, RowsFit, Succeeded, SuccessRuns
  <2> QED BY <2>3, <2>4 DEF Newer
<1>3. ASSUME RetainInv, [BNext]_bvars, NEW r \in DOMAIN brun, brun[r].status = "success",
             brun[r].cfg \in DOMAIN bcfg', r \notin DOMAIN brun'
      PROVE  \E s \in SuccessRuns(brun[r].cfg) \ {r} : ~Newer(r, s)
  <2>1. BNext
    BY <1>3 DEF bvars
  <2>2. PICK j \in Jobs : PruneRow(j) /\ r = job[j].del
    BY <1>1, <1>3, <2>1
  <2>3. Doomed(r) /\ Succeeded(r)
    BY <1>3, <2>2, JobFacts DEF PruneRow, JobFits, Succeeded
  <2> QED BY <1>2, <1>3, <2>3
<1>4. RetainInv /\ [BNext]_bvars =>
        [\A r \in DOMAIN brun :
            (/\ brun[r].status = "success" /\ brun[r].cfg \in DOMAIN bcfg'
             /\ \A s \in SuccessRuns(brun[r].cfg) \ {r} : Newer(r, s))
            => r \in DOMAIN brun']_bvars
  BY <1>3
<1> QED BY <1>4, RetainInit, RetainStep, PTL DEF BSpec, NewestKept
=============================================================================
