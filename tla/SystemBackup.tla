---------------------------- MODULE SystemBackup ----------------------------
(***************************************************************************)
(* The server's backups of its own database (runDBBackup and its schedule  *)
(* in internal/api/server.go, handleSetDBBackupConfig in api/system.go,    *)
(* internal/store/db_backup.go): the settings are rows saved one by one,   *)
(* one cron runs them, and every run writes a file, then a row, and drops  *)
(* the oldest rows with their files.                                       *)
(*                                                                         *)
(* A time is a second in which a cron may fire; a file is named after the  *)
(* directory and the second of its run.                                    *)
(***************************************************************************)
EXTENDS Integers, FiniteSets

CONSTANTS
    SysSavers,     \* requests to PUT /api/system/db-backup/config
    SysDirs,       \* destinations an operator may choose
    SysKeeps,      \* retentions an operator may choose
    SysMaxTime,    \* bound on the clock
    SysMaxSaves,   \* bound on the requests made and on rows that config.yml changes
    SysFaults,     \* bound on failed steps and crashes
    NoSysCron

Settings == [dir : SysDirs, keep : SysKeeps, on : BOOLEAN]
SettingKeys == {"dir", "keep", "on"}

VARIABLES
    sysRow,     \* db_backup_config
    sysCron,    \* Server.dbBackupCron: the number of a cron, or NoSysCron
    crons,      \* crons that have not been stopped: number -> settings and last firing
    sysJob,     \* runDBBackup calls in progress: <<cron, second>> -> its settings and step
    sysFiles,   \* files in the destinations
    runRow,     \* db_backup_runs: [file, ok, at]
    put,        \* requests in progress: the settings, the keys not yet saved, the step
    sysNow, nSave, nFail

sysVars == <<sysRow, sysCron, crons, sysJob, sysFiles, runRow, put, sysNow, nSave, nFail>>

PutIdle == [pc |-> "idle"]
Dropped(f, k) == [x \in DOMAIN f \ {k} |-> f[x]]
Added(f, k, v) == [x \in DOMAIN f \cup {k} |-> IF x = k THEN v ELSE f[x]]
SysFault == nFail < SysFaults /\ nFail' = nFail + 1

\* The cron with this number starts now; it fires from the next second on.
NewCron(set) == [dir |-> set.dir, keep |-> set.keep, fired |-> sysNow]

SystemInit ==
    /\ sysRow \in {s \in Settings : ~s.on}
    /\ sysCron = NoSysCron /\ crons = <<>> /\ sysJob = <<>>
    /\ sysFiles = {} /\ runRow = {} /\ put = [s \in SysSavers |-> PutIdle]
    /\ sysNow = 0 /\ nSave = 0 /\ nFail = 0
-----------------------------------------------------------------------------
(* handleSetDBBackupConfig                                                 *)

BeginPut(s) ==
    /\ put[s] = PutIdle /\ nSave < SysMaxSaves /\ nSave' = nSave + 1
    /\ \E set \in Settings :
         put' = [put EXCEPT ![s] = [pc |-> "save", set |-> set, left |-> SettingKeys, id |-> nSave']]
    /\ UNCHANGED <<sysRow, sysCron, crons, sysJob, sysFiles, runRow, sysNow, nFail>>

\* The loop over the pairs, in any order; a failed write ends the request.
SetDBBackupConfig(s) ==
    /\ put[s].pc = "save"
    /\ \/ \E k \in put[s].left :
             /\ sysRow' = [sysRow EXCEPT ![k] = put[s].set[k]]
             /\ put' = [put EXCEPT ![s].left = @ \ {k},
                                   ![s].pc = IF put[s].left = {k} THEN "stop" ELSE "save"]
             /\ UNCHANGED nFail
       \/ SysFault /\ put' = [put EXCEPT ![s] = PutIdle] /\ UNCHANGED sysRow
    /\ UNCHANGED <<sysCron, crons, sysJob, sysFiles, runRow, sysNow, nSave>>

\* The old cron stops; runs it has begun go on.
StopSchedule(s) ==
    /\ put[s].pc = "stop"
    /\ crons' = Dropped(crons, sysCron)
    /\ put' = [put EXCEPT ![s].pc = "start"]
    /\ UNCHANGED <<sysRow, sysCron, sysJob, sysFiles, runRow, sysNow, nSave, nFail>>

\* scheduleDBBackup starts a new one, or the schedule is off.
StartSchedule(s) ==
    /\ put[s].pc = "start" /\ put' = [put EXCEPT ![s] = PutIdle]
    /\ IF put[s].set.on
          THEN sysCron' = put[s].id /\ crons' = Added(crons, sysCron', NewCron(put[s].set))
          ELSE sysCron' = NoSysCron /\ UNCHANGED crons
    /\ UNCHANGED <<sysRow, sysJob, sysFiles, runRow, sysNow, nSave, nFail>>
-----------------------------------------------------------------------------
(* runDBBackup                                                             *)

\* MUTANT: the name has no seconds.
MutFileName(dir, t) == <<dir, t \div 2>>

FileName(dir, t) == <<dir, t>>

FireCron(c) ==
    /\ c \in DOMAIN crons /\ crons[c].fired < sysNow
    /\ crons' = [crons EXCEPT ![c].fired = sysNow]
    /\ sysJob' = Added(sysJob, <<c, sysNow>>,
         [pc |-> "copy", keep |-> crons[c].keep, file |-> FileName(crons[c].dir, sysNow),
          old |-> {}])
    /\ UNCHANGED <<sysRow, sysCron, sysFiles, runRow, put, sysNow, nSave, nFail>>

CreateRun(f, ok) == runRow' = runRow \cup {[file |-> f, ok |-> ok, at |-> sysNow]}

\* VACUUM INTO refuses a file that exists.
VacuumInto(j) ==
    LET f == sysJob[j].file IN
    /\ sysJob[j].pc = "copy"
    /\ \/ /\ f \notin sysFiles /\ sysFiles' = sysFiles \cup {f}
          /\ sysJob' = [sysJob EXCEPT ![j].pc = "record"] /\ UNCHANGED <<runRow, nFail>>
       \/ /\ (f \in sysFiles /\ UNCHANGED nFail) \/ SysFault
          /\ CreateRun(f, FALSE) /\ sysJob' = Dropped(sysJob, j) /\ UNCHANGED sysFiles
    /\ UNCHANGED <<sysRow, sysCron, crons, put, sysNow, nSave>>

\* The row; a copy that cannot be stripped of its metrics is removed instead.
CreateDBBackupRun(j) ==
    LET f == sysJob[j].file IN
    /\ sysJob[j].pc = "record"
    /\ \/ CreateRun(f, TRUE) /\ sysJob' = [sysJob EXCEPT ![j].pc = "prune"]
          /\ UNCHANGED <<sysFiles, nFail>>
       \/ SysFault /\ CreateRun(f, FALSE) /\ sysJob' = Dropped(sysJob, j)
          /\ sysFiles' = sysFiles \ {f}
    /\ UNCHANGED <<sysRow, sysCron, crons, put, sysNow, nSave>>

\* The rows after the newest `keep`, failed ones among them; rows of one second
\* come in any order.
Excess(S, keep) ==
    /\ S \subseteq runRow
    /\ \A r \in S, q \in runRow \ S : r.at <= q.at
    /\ Cardinality(runRow \ S) = IF Cardinality(runRow) < keep THEN Cardinality(runRow) ELSE keep

\* PruneDBBackupRuns deletes the rows, then their files are removed.
PruneDBBackupRuns(j) ==
    /\ sysJob[j].pc = "prune"
    /\ \E S \in SUBSET runRow :
         /\ Excess(S, sysJob[j].keep)
         /\ runRow' = runRow \ S
         /\ sysJob' = [sysJob EXCEPT ![j].pc = "remove", ![j].old = {r.file : r \in S}]
    /\ UNCHANGED <<sysRow, sysCron, crons, sysFiles, put, sysNow, nSave, nFail>>

RemoveOld(j) ==
    /\ sysJob[j].pc = "remove"
    /\ sysFiles' = sysFiles \ sysJob[j].old /\ sysJob' = Dropped(sysJob, j)
    /\ UNCHANGED <<sysRow, sysCron, crons, runRow, put, sysNow, nSave, nFail>>
-----------------------------------------------------------------------------
\* The clock runs while the crons keep up with it.
SysTick ==
    /\ sysNow < SysMaxTime /\ sysNow' = sysNow + 1
    /\ \A c \in DOMAIN crons : crons[c].fired = sysNow
    /\ UNCHANGED <<sysRow, sysCron, crons, sysJob, sysFiles, runRow, put, nSave, nFail>>

\* ApplyGlobalSidecar, when an operator changed config.yml: the watcher writes the
\* settings of the file over the rows, one by one, and leaves the cron alone.
ApplyDBBackupConfig ==
    /\ nSave < SysMaxSaves /\ nSave' = nSave + 1
    /\ \E k \in SettingKeys, set \in Settings :
         set[k] # sysRow[k] /\ sysRow' = [sysRow EXCEPT ![k] = set[k]]
    /\ UNCHANGED <<sysCron, crons, sysJob, sysFiles, runRow, put, sysNow, nFail>>

\* The boot imports or applies config.yml, which may hold other settings than the
\* rows, and InitDBBackupSchedule starts a cron from the rows as they are then; a
\* run cut off by the crash may leave its file, which no row lists.
RestartServer ==
    /\ SysFault /\ put' = [s \in SysSavers |-> PutIdle] /\ sysJob' = <<>>
    /\ sysRow' \in Settings
    /\ IF sysRow'.on THEN sysCron' = 0 /\ crons' = Added(<<>>, 0, NewCron(sysRow'))
                     ELSE sysCron' = NoSysCron /\ crons' = <<>>
    /\ UNCHANGED <<sysFiles, runRow, sysNow, nSave>>

SystemNext ==
    \/ \E s \in SysSavers : \/ BeginPut(s) \/ SetDBBackupConfig(s)
                            \/ StopSchedule(s) \/ StartSchedule(s)
    \/ \E c \in DOMAIN crons : FireCron(c)
    \/ \E j \in DOMAIN sysJob : \/ VacuumInto(j) \/ CreateDBBackupRun(j)
                                \/ PruneDBBackupRuns(j) \/ RemoveOld(j)
    \/ SysTick \/ ApplyDBBackupConfig \/ RestartServer

SystemSpec == SystemInit /\ [][SystemNext]_sysVars
-----------------------------------------------------------------------------
(* Properties                                                              *)

\* A run listed as ok can be restored: its file is in place, whatever failed
\* runs, changes of the settings, overlapping runs and restarts came before.
ListedHasFile == \A r \in runRow : r.ok => r.file \in sysFiles

\* At most one schedule runs, and it is the one that the server can stop.
OneSchedule == \A c \in DOMAIN crons : c = sysCron
=============================================================================
