------------------------------- MODULE Backup -------------------------------
(***************************************************************************)
(* Backups of one app: the scheduler (internal/backup/scheduler.go), the   *)
(* pipeline it runs (pipeline.go, hooks.go, hookexec.go, local.go), the    *)
(* rows it keeps (internal/store/backups.go) and the API handlers that     *)
(* create, change, delete, trigger and restore (internal/api/backups.go).  *)
(* A dump's bytes are represented by the id of the run that took them, so  *)
(* a checksum is the run id; a file is named after the container and the   *)
(* second in which the dump started.                                       *)
(***************************************************************************)
EXTENDS Integers, FiniteSets, FiniteSetsExt

CONSTANTS
    BackupConfigs,   \* ids of backup_configs rows; AUTOINCREMENT, so never reused
    Containers,      \* containers the strategies may detect
    Jobs,            \* goroutines that may run Scheduler.RunBackup
    Restores,        \* goroutines that may run a restore
    Requests,        \* API requests that may be changing a config
    Crons,           \* cron expressions
    Keeps,           \* retention counts an operator may choose (0 keeps all)
    Slots,           \* capacity of Server.restoreSem
    MaxRuns,         \* bound on backup_runs rows ever created
    MaxClock,        \* bound on the clock, in seconds
    InitRows,        \* the backup_configs rows at the start
    NewRows,         \* the rows an operator may save
    MaxOps,          \* bound on faults and changes to configs
    BFaults,         \* steps that may fail
    BOps             \* operations that may happen

Runs == 1 .. MaxRuns
NoCron == "none"
CfgRows == [container : Containers, cron : Crons \cup {NoCron},
            keep : Keeps, hooks : BOOLEAN]
Files == Containers \X (0 .. MaxClock)
NoFile == <<>>

\* What the settings allow: a retention is a count, and the rows have their types.
ASSUME BackupAssumption ==
    /\ Keeps \subseteq Nat /\ NewRows \subseteq CfgRows
    /\ InitRows \in [DOMAIN InitRows -> CfgRows] /\ DOMAIN InitRows \subseteq BackupConfigs

VARIABLES
    now,        \* the clock, in seconds
    bcfg,       \* backup_configs rows: id -> row
    goneCfg,    \* ids of deleted configs
    brun,       \* backup_runs rows: id -> row
    nextRun,    \* the next run id
    bfile,      \* files of the local target: name -> who wrote it, and whether to the end
    entries,    \* Scheduler.entries: config id -> cron expression
    job,        \* the RunBackup calls in progress
    restore,    \* the restores in progress
    request,    \* the API requests in progress
    svcUp,      \* is the service that the hooks stop and start running?
    hookFailed, \* history: a post hook failed
    stuck,      \* history: runs that were in progress when the server died
    tightest,   \* history: the smallest retention each config ever had
    restored,   \* history: <<run asked for, bytes restored>>
    clash,      \* history: files that two runs wrote
    ops         \* how many more faults and changes to configs there will be

cfgVars == <<bcfg, goneCfg, entries, request, tightest>>
bvars == <<now, bcfg, goneCfg, brun, nextRun, bfile, entries, job, restore,
           request, svcUp, hookFailed, stuck, tightest, restored, clash, ops>>

IdleJob == [pc |-> "idle"]
IdleReq == [pc |-> "idle"]

\* The map m without the keys in S.
Without(m, S) == [k \in DOMAIN m \ S |-> m[k]]
\* The map m with k mapped to v.
With(m, k, v) == [x \in DOMAIN m \cup {k} |-> IF x = k THEN v ELSE m[x]]

\* Scheduler.Start: a cron entry for every row that has an expression.
Scheduled(rows) == [c \in {x \in DOMAIN rows : rows[x].cron # NoCron} |-> rows[c].cron]

BInit ==
    /\ now = 0 /\ bcfg = InitRows /\ goneCfg = {} /\ brun = <<>> /\ nextRun = 1
    /\ bfile = <<>> /\ clash = {} /\ ops = MaxOps
    /\ entries = Scheduled(InitRows)
    /\ job = [j \in Jobs |-> IdleJob] /\ restore = [r \in Restores |-> IdleJob]
    /\ request = [q \in Requests |-> IdleReq]
    /\ svcUp = TRUE /\ hookFailed = FALSE /\ stuck = {}
    /\ tightest = [c \in BackupConfigs |-> IF c \in DOMAIN InitRows THEN InitRows[c].keep ELSE 0]
    /\ restored = {}
-----------------------------------------------------------------------------
(* backup_runs                                                             *)

SuccessRuns(c) == {r \in DOMAIN brun : brun[r].cfg = c /\ brun[r].status = "success"}

\* ORDER BY started_at DESC; rows of the same second in id order.
Newer(r, s) == brun[r].start > brun[s].start \/ (brun[r].start = brun[s].start /\ r > s)

\* Mutant: one run too few is kept.
MutKeepOneLess(c, keep) ==
    {r \in SuccessRuns(c) : Cardinality({s \in SuccessRuns(c) : Newer(s, r)}) >= keep - 1}

\* ListOldBackupRuns: the successful runs after the first keep of them.
ListOldBackupRuns(c, keep) ==
    {r \in SuccessRuns(c) : Cardinality({s \in SuccessRuns(c) : Newer(s, r)}) >= keep}

\* The runs pruneOldRuns selects: none when the retention is not positive.
Prunable(c, keep) == IF keep > 0 THEN ListOldBackupRuns(c, keep) ELSE {}

\* Scheduler.failRun: the row may be gone with its config.
FailRun(r) == brun' = IF r \in DOMAIN brun THEN [brun EXCEPT ![r].status = "failed"] ELSE brun
-----------------------------------------------------------------------------
(* RunBackup                                                               *)

\* The step named f may fail here.
Fault(f) == f \in BFaults /\ ops > 0 /\ ops' = ops - 1
NoFault == UNCHANGED ops

Step(j, pc) == job' = [job EXCEPT ![j].pc = pc]
Finish(j) == job' = [job EXCEPT ![j] = IdleJob]

\* A config that is scheduled (cron), or that a trigger names. Without its row
\* nothing happens; with it a row of the run is created.
BeginBackup(j, c) ==
    /\ job[j].pc = "idle" /\ nextRun \in Runs
    /\ c \in DOMAIN bcfg
    /\ brun' = With(brun, nextRun, [cfg |-> c, status |-> "running", start |-> now, file |-> NoFile])
    /\ nextRun' = nextRun + 1
    /\ job' = [job EXCEPT ![j] = [pc |-> "plan", cfg |-> c, row |-> bcfg[c], run |-> nextRun,
                                  file |-> NoFile, old |-> {}, del |-> 0]]
    /\ UNCHANGED <<now, cfgVars, bfile, restore, svcUp, hookFailed, stuck, restored, clash,
                   ops>>

\* Strategy, target, app and planRun: on an error the run is marked failed.
PlanBackup(j) ==
    /\ job[j].pc = "plan"
    /\ \/ Step(j, "pre") /\ UNCHANGED brun /\ NoFault
       \/ Fault("plan") /\ FailRun(job[j].run) /\ Finish(j)
    /\ UNCHANGED <<now, cfgVars, nextRun, bfile, restore, svcUp, hookFailed, stuck,
                   restored, clash>>

\* HookRunner.RunPre: the stop hook. On an error the post hooks run.
PreHooks(row, next, failed) ==
    \/ ~row.hooks /\ UNCHANGED svcUp /\ next /\ NoFault
    \/ row.hooks /\ svcUp' = FALSE /\ next /\ NoFault
    \/ row.hooks /\ Fault("pre") /\ svcUp' \in {svcUp, FALSE} /\ failed

\* Mutant: post hooks are skipped.
MutNoPost(row) == UNCHANGED <<svcUp, hookFailed>> /\ NoFault

\* runPostHooks: the start hook, best effort.
PostHooks(row) ==
    \/ ~row.hooks /\ UNCHANGED <<svcUp, hookFailed>> /\ NoFault
    \/ row.hooks /\ svcUp' = TRUE /\ UNCHANGED hookFailed /\ NoFault
    \/ row.hooks /\ Fault("post") /\ UNCHANGED svcUp /\ hookFailed' = TRUE

PreBackup(j) ==
    /\ job[j].pc = "pre"
    /\ PreHooks(job[j].row, Step(j, "dump"), Step(j, "undo"))
    /\ UNCHANGED <<now, cfgVars, brun, nextRun, bfile, restore, hookFailed, stuck,
                   restored, clash>>

NameTaken(f) ==
    \/ f \in DOMAIN bfile
    \/ \E r \in DOMAIN brun : brun[r].file = f
    \/ \E i \in Jobs : job[i].pc # "idle" /\ (job[i].file = f \/ \E o \in job[i].old : o[2] = f)
UploadsTo(f) == {i \in Jobs : job[i].pc = "upload" /\ job[i].file = f}

\* Strategy.Backup names the file; LocalTarget.Upload truncates and fills it.
DumpBackup(j) ==
    /\ job[j].pc = "dump"
    /\ \/ LET f == <<job[j].row.container, now>> IN
          /\ bfile' = With(bfile, f, [by |-> {job[j].run} \cup {job[i].run : i \in UploadsTo(f)},
                                      whole |-> FALSE])
          /\ clash' = IF NameTaken(f) THEN clash \cup {f} ELSE clash
          /\ job' = [job EXCEPT ![j].pc = "upload", ![j].file = f]
          /\ NoFault
       \/ Fault("dump") /\ Step(j, "undo") /\ UNCHANGED <<bfile, clash>>
    /\ UNCHANGED <<now, cfgVars, brun, nextRun, restore, svcUp, hookFailed, stuck, restored>>

\* Mutant: an upload cut short is taken for complete.
MutShortUpload(j) ==
    /\ job[j].pc = "upload"
    /\ Step(j, "post") /\ UNCHANGED bfile
    /\ NoFault \/ Fault("upload")
    /\ UNCHANGED <<now, cfgVars, brun, nextRun, restore, svcUp, hookFailed, stuck,
                   restored, clash>>

\* A failed upload leaves what it wrote.
UploadBackup(j) ==
    /\ job[j].pc = "upload"
    /\ \/ /\ bfile' = IF job[j].file \in DOMAIN bfile
                      THEN [bfile EXCEPT ![job[j].file].whole = TRUE] ELSE bfile
          /\ Step(j, "post") /\ NoFault
       \/ Fault("upload") /\ Step(j, "undo") /\ UNCHANGED bfile
    /\ UNCHANGED <<now, cfgVars, brun, nextRun, restore, svcUp, hookFailed, stuck,
                   restored, clash>>

PostBackup(j) ==
    /\ job[j].pc = "post" /\ PostHooks(job[j].row) /\ Step(j, "record")
    /\ UNCHANGED <<now, cfgVars, brun, nextRun, bfile, restore, stuck, restored, clash>>

\* The error paths of Pipeline.RunBackup: post hooks, then failRun.
UndoBackup(j) ==
    /\ job[j].pc = "undo" /\ PostHooks(job[j].row) /\ FailRun(job[j].run) /\ Finish(j)
    /\ UNCHANGED <<now, cfgVars, nextRun, bfile, restore, stuck, restored, clash>>

\* UpdateBackupRunSuccess: an error when the row went with its config.
RecordBackup(j) ==
    LET r == job[j].run IN
    /\ job[j].pc = "record"
    /\ IF r \in DOMAIN brun
       THEN /\ brun' = [brun EXCEPT ![r].status = "success", ![r].file = job[j].file]
            /\ Step(j, "list")
       ELSE Finish(j) /\ UNCHANGED brun
    /\ UNCHANGED <<now, cfgVars, nextRun, bfile, restore, svcUp, hookFailed, stuck,
                   restored, clash, ops>>

\* pruneOldRuns lists with the config as it was read when the run began.
ListOld(j) ==
    /\ job[j].pc = "list"
    /\ job' = [job EXCEPT ![j].pc = "prune",
                          ![j].old = {<<r, brun[r].file>> : r \in Prunable(job[j].cfg, job[j].row.keep)}]
    /\ UNCHANGED <<now, cfgVars, brun, nextRun, bfile, restore, svcUp, hookFailed, stuck,
                   restored, clash, ops>>

\* One listed run, newest first: its file goes before its row (one already gone
\* is fine); a failed delete keeps the row.
PruneFile(j) ==
    /\ job[j].pc = "prune" /\ job[j].del = 0
    /\ \E o \in job[j].old :
         /\ \A y \in job[j].old : o[1] >= y[1]
         /\ \/ /\ bfile' = Without(bfile, {o[2]})
               /\ job' = [job EXCEPT ![j].del = o[1], ![j].old = @ \ {o}] /\ NoFault
            \/ Fault("delete") /\ job' = [job EXCEPT ![j].old = @ \ {o}] /\ UNCHANGED bfile
    /\ UNCHANGED <<now, cfgVars, brun, nextRun, restore, svcUp, hookFailed, stuck,
                   restored, clash>>

PruneRow(j) ==
    /\ job[j].pc = "prune" /\ job[j].del # 0
    /\ brun' = Without(brun, {job[j].del})
    /\ job' = [job EXCEPT ![j].del = 0]
    /\ UNCHANGED <<now, cfgVars, nextRun, bfile, restore, svcUp, hookFailed, stuck,
                   restored, clash, ops>>

EndBackup(j) ==
    /\ job[j].pc = "prune" /\ job[j].del = 0 /\ job[j].old = {}
    /\ Finish(j)
    /\ UNCHANGED <<now, cfgVars, brun, nextRun, bfile, restore, svcUp, hookFailed, stuck,
                   restored, clash, ops>>
-----------------------------------------------------------------------------
(* RunRestore                                                              *)

StepR(x, pc) == restore' = [restore EXCEPT ![x].pc = pc]
FinishR(x) == restore' = [restore EXCEPT ![x] = IdleJob]
BusySlots == Cardinality({x \in Restores : restore[x].pc # "idle"})

\* handleRestore: the rows exist and a restore slot is free.
BeginRestore(x, r) ==
    /\ "restore" \in BOps /\ restore[x].pc = "idle"
    /\ r \in DOMAIN brun /\ BusySlots < Slots
    /\ restore' = [restore EXCEPT ![x] = [pc |-> "plan", run |-> r, file |-> NoFile,
                                          hooks |-> FALSE, spool |-> {}]]
    /\ UNCHANGED <<now, cfgVars, brun, nextRun, bfile, job, svcUp, hookFailed, stuck,
                   restored, clash, ops>>

\* Scheduler.RunRestore reads the rows again; both may be gone by now.
PlanRestore(x) ==
    LET r == restore[x].run IN
    /\ restore[x].pc = "plan"
    /\ \/ /\ r \in DOMAIN brun
          /\ restore' = [restore EXCEPT ![x].pc = "download", ![x].file = brun[r].file,
                                        ![x].hooks = bcfg[brun[r].cfg].hooks] /\ NoFault
       \/ ((r \notin DOMAIN brun /\ NoFault) \/ Fault("plan")) /\ FinishR(x)
    /\ UNCHANGED <<now, cfgVars, brun, nextRun, bfile, job, svcUp, hookFailed, stuck,
                   restored, clash>>

\* Mutant: whatever the file holds is restored.
MutNoChecksum(r, f) == TRUE

\* The bytes in file f are those the checksum of run r was computed from.
ChecksumOK(r, f) == bfile[f] = [by |-> {r}, whole |-> TRUE]

\* Download and verification into the spool file. A run with no recorded checksum
\* is not verified: its empty path opens the backup directory itself.
Download(x) ==
    LET f == restore[x].file IN
    /\ restore[x].pc = "download"
    /\ \/ f = NoFile /\ StepR(x, "pre")
       \/ /\ f \in DOMAIN bfile /\ ChecksumOK(restore[x].run, f)
          /\ restore' = [restore EXCEPT ![x].pc = "pre", ![x].spool = bfile[f].by]
       \/ /\ f # NoFile /\ (f \in DOMAIN bfile => ~ChecksumOK(restore[x].run, f))
          /\ FinishR(x)
    /\ UNCHANGED <<now, cfgVars, brun, nextRun, bfile, job, svcUp, hookFailed, stuck,
                   restored, clash, ops>>

PreRestore(x) ==
    /\ restore[x].pc = "pre"
    /\ PreHooks([hooks |-> restore[x].hooks], StepR(x, "apply"), StepR(x, "post"))
    /\ UNCHANGED <<now, cfgVars, brun, nextRun, bfile, job, hookFailed, stuck, restored,
                   clash>>

\* Strategy.Restore from the verified spool file.
ApplyRestore(x) ==
    /\ restore[x].pc = "apply"
    /\ \/ /\ restore[x].spool # {}
          /\ restored' = restored \cup {<<restore[x].run, restore[x].spool>>} /\ NoFault
       \/ ((restore[x].spool = {} /\ NoFault) \/ Fault("apply")) /\ UNCHANGED restored
    /\ StepR(x, "post")
    /\ UNCHANGED <<now, cfgVars, brun, nextRun, bfile, job, svcUp, hookFailed, stuck, clash>>

PostRestore(x) ==
    /\ restore[x].pc = "post" /\ PostHooks([hooks |-> restore[x].hooks]) /\ FinishR(x)
    /\ UNCHANGED <<now, cfgVars, brun, nextRun, bfile, job, stuck, restored, clash>>

\* handleUploadRestore: a file sent by the operator is restored into a container
\* of the app, under a restore slot but without hooks, run or checksum ...
UploadRestore(x) ==
    /\ "upload" \in BOps /\ restore[x].pc = "idle" /\ BusySlots < Slots
    /\ restore' = [restore EXCEPT ![x] = [pc |-> "upload"]]
    /\ UNCHANGED <<now, cfgVars, brun, nextRun, bfile, job, svcUp, hookFailed, stuck,
                   restored, clash, ops>>

\* ... and the slot is given back however it ends.
EndUpload(x) ==
    /\ restore[x].pc = "upload" /\ FinishR(x)
    /\ UNCHANGED <<now, cfgVars, brun, nextRun, bfile, job, svcUp, hookFailed, stuck,
                   restored, clash, ops>>
-----------------------------------------------------------------------------
(* Configs: the API, the sidecar and the app's removal                      *)

Keep(c, row) == tightest' = [tightest EXCEPT ![c] =
    IF row.keep = 0 THEN @ ELSE IF @ = 0 THEN row.keep ELSE Min({@, row.keep})]

\* handleCreateBackupConfig: the row, then its cron entry.
CreateConfig(q, c, row) ==
    /\ "create" \in BOps /\ ops > 0 /\ ops' = ops - 1 /\ request[q].pc = "idle"
    /\ c \notin DOMAIN bcfg \cup goneCfg
    /\ bcfg' = With(bcfg, c, row) /\ Keep(c, row)
    /\ request' = [request EXCEPT ![q] = [pc |-> "schedule", cfg |-> c, cron |-> row.cron]]
    /\ UNCHANGED <<now, goneCfg, brun, nextRun, bfile, entries, job, restore, svcUp,
                   hookFailed, stuck, restored, clash>>

\* handleUpdateBackupConfig: the row, then unschedule and schedule.
UpdateConfig(q, c, row) ==
    /\ "update" \in BOps /\ ops > 0 /\ ops' = ops - 1 /\ request[q].pc = "idle"
    /\ c \in DOMAIN bcfg /\ row.container = bcfg[c].container
    /\ bcfg' = [bcfg EXCEPT ![c] = row] /\ Keep(c, row)
    /\ request' = [request EXCEPT ![q] = [pc |-> "schedule", cfg |-> c, cron |-> row.cron]]
    /\ UNCHANGED <<now, goneCfg, brun, nextRun, bfile, entries, job, restore, svcUp,
                   hookFailed, stuck, restored, clash>>

\* Scheduler.UnscheduleConfig and ScheduleConfig, under Scheduler.mu.
ScheduleConfig(q) ==
    LET c == request[q].cfg  cron == request[q].cron IN
    /\ request[q].pc = "schedule"
    /\ entries' = IF cron = NoCron THEN Without(entries, {c}) ELSE With(entries, c, cron)
    /\ request' = [request EXCEPT ![q] = IdleReq]
    /\ UNCHANGED <<now, bcfg, goneCfg, tightest, brun, nextRun, bfile, job, restore, svcUp,
                   hookFailed, stuck, restored, clash, ops>>

\* handleDeleteBackupConfig: unschedule, then the row; its runs cascade.
UnscheduleConfig(q, c) ==
    /\ "remove" \in BOps /\ ops > 0 /\ ops' = ops - 1 /\ request[q].pc = "idle" /\ c \in DOMAIN bcfg
    /\ entries' = Without(entries, {c})
    /\ request' = [request EXCEPT ![q] = [pc |-> "remove", cfg |-> c, cron |-> NoCron]]
    /\ UNCHANGED <<now, bcfg, goneCfg, tightest, brun, nextRun, bfile, job, restore, svcUp,
                   hookFailed, stuck, restored, clash>>

RemoveRows(S) ==
    /\ bcfg' = Without(bcfg, S) /\ goneCfg' = goneCfg \cup S
    /\ brun' = Without(brun, {r \in DOMAIN brun : brun[r].cfg \in S})

DeleteConfig(q) ==
    /\ request[q].pc = "remove"
    /\ RemoveRows({request[q].cfg} \cap DOMAIN bcfg)
    /\ request' = [request EXCEPT ![q] = IdleReq]
    /\ UNCHANGED <<now, entries, tightest, nextRun, bfile, job, restore, svcUp,
                   hookFailed, stuck, restored, clash, ops>>

\* DeleteApp removes the app's row; configs and runs cascade, cron entries stay.
RemoveApp ==
    /\ "purge" \in BOps /\ ops > 0 /\ ops' = ops - 1 /\ DOMAIN bcfg # {}
    /\ RemoveRows(DOMAIN bcfg)
    /\ UNCHANGED <<now, entries, request, tightest, nextRun, bfile, job, restore, svcUp,
                   hookFailed, stuck, restored, clash>>

\* ApplyAppSidecar updates the row in place; nobody tells the scheduler.
ApplySidecar(c, cron) ==
    /\ "sidecar" \in BOps /\ ops > 0 /\ ops' = ops - 1 /\ c \in DOMAIN bcfg
    /\ bcfg' = [bcfg EXCEPT ![c].cron = cron]
    /\ UNCHANGED <<now, goneCfg, entries, request, tightest, brun, nextRun, bfile, job,
                   restore, svcUp, hookFailed, stuck, restored, clash>>
-----------------------------------------------------------------------------
(* The environment                                                         *)

Tick ==
    /\ now < MaxClock /\ now' = now + 1
    /\ UNCHANGED <<cfgVars, brun, nextRun, bfile, job, restore, svcUp, hookFailed, stuck,
                   restored, clash, ops>>

\* The server dies and starts again: Scheduler.Start schedules every row that
\* has a cron expression; no run row is repaired and no hook is undone.
Restart ==
    /\ "crash" \in BOps /\ \E j \in Jobs : job[j].pc # "idle"
    /\ stuck = {}
    /\ stuck' = {job[j].run : j \in {i \in Jobs : job[i].pc # "idle"}}
    /\ job' = [j \in Jobs |-> IdleJob] /\ restore' = [x \in Restores |-> IdleJob]
    /\ request' = [q \in Requests |-> IdleReq]
    /\ entries' = Scheduled(bcfg)
    /\ UNCHANGED <<now, bcfg, goneCfg, tightest, brun, nextRun, bfile, svcUp, hookFailed,
                   restored, clash, ops>>

JobNext(j) ==
    \/ PlanBackup(j) \/ PreBackup(j) \/ DumpBackup(j) \/ UploadBackup(j) \/ PostBackup(j)
    \/ UndoBackup(j) \/ RecordBackup(j) \/ ListOld(j) \/ PruneFile(j) \/ PruneRow(j)
    \/ EndBackup(j)

RestoreNext(x) ==
    \/ PlanRestore(x) \/ Download(x) \/ PreRestore(x) \/ ApplyRestore(x) \/ PostRestore(x)
    \/ UploadRestore(x) \/ EndUpload(x)

BNext ==
    \/ \E j \in Jobs : JobNext(j) \/ \E c \in BackupConfigs : BeginBackup(j, c)
    \/ \E x \in Restores : RestoreNext(x) \/ \E r \in Runs : BeginRestore(x, r)
    \/ \E q \in Requests :
         \/ ScheduleConfig(q) \/ DeleteConfig(q)
         \/ \E c \in BackupConfigs :
              \/ UnscheduleConfig(q, c)
              \/ \E row \in NewRows : CreateConfig(q, c, row) \/ UpdateConfig(q, c, row)
    \/ RemoveApp
    \/ \E c \in BackupConfigs, cron \in Crons \cup {NoCron} : ApplySidecar(c, cron)
    \/ Tick \/ Restart

BSpec == BInit /\ [][BNext]_bvars
-----------------------------------------------------------------------------
(* Properties                                                              *)

\* The state has its types and no more restores run than there are slots.
BTypeOK ==
    /\ now \in 0 .. MaxClock /\ nextRun \in 1 .. MaxRuns + 1
    /\ DOMAIN bcfg \subseteq BackupConfigs \ goneCfg
    /\ \A c \in DOMAIN bcfg : bcfg[c] \in CfgRows
    /\ \A r \in DOMAIN brun : /\ brun[r].cfg \in DOMAIN bcfg
                             /\ (brun[r].status = "success") = (brun[r].file # NoFile)
    /\ DOMAIN bfile \subseteq Files /\ BusySlots <= Slots

\* A restore puts back exactly the bytes that the chosen run uploaded, whatever
\* other runs, prunes and restarts did to the files meanwhile (RunRestore).
RestoreVerbatim == \A p \in restored : p[2] = {p[1]}

\* Once no backup and no restore is running, the service that the pre hooks stop
\* is up again, unless a start hook failed or the server died half way.
ServiceRestarted ==
    (/\ \A j \in Jobs : job[j].pc = "idle"
     /\ \A x \in Restores : restore[x].pc = "idle"
     /\ stuck = {} /\ ~hookFailed) => svcUp

\* A successful run whose file, not shared with another run, is missing or damaged
\* is one that retention drops: pruning deletes the file before the row, and a
\* crash between the two only ever exposes a run that the next prune removes.
MissingIsPrunable ==
    \A r \in DOMAIN brun :
        LET f == brun[r].file  c == brun[r].cfg IN
        (/\ brun[r].status = "success"
         /\ ~(f \in DOMAIN bfile /\ ChecksumOK(r, f))
         /\ f \notin clash)
        => r \in Prunable(c, tightest[c])

\* Retention never drops the most recent successful run of a config.
NewestKept ==
    [][\A r \in DOMAIN brun :
        (/\ brun[r].status = "success" /\ brun[r].cfg \in DOMAIN bcfg'
         /\ \A s \in SuccessRuns(brun[r].cfg) \ {r} : Newer(r, s))
        => r \in DOMAIN brun']_bvars

\* A run that is kept has its file (scheduler.go: "Keep the run (its file still
\* exists)"): a successful run outside of any prune can be restored.
KeptHasFile ==
    \A r \in DOMAIN brun :
        (/\ brun[r].status = "success" /\ stuck = {}
         /\ \A j \in Jobs : job[j].pc # "prune")
        => brun[r].file \in DOMAIN bfile /\ ChecksumOK(r, brun[r].file)

\* The scheduler runs what the rows say: once no request is in progress, the cron
\* entries are those of the rows.
ScheduleFollowsRows ==
    (\A q \in Requests : request[q].pc = "idle") =>
        entries = Scheduled(bcfg)
=============================================================================
