----------------------------- MODULE ConfigSync -----------------------------
(***************************************************************************)
(* The config sidecar of one app (internal/configsync): the rows in the    *)
(* database, the file simpledeploy.yml rendered from them, the debounced   *)
(* writes that follow every mutation, and the watcher of                   *)
(* internal/reconciler/watcher.go that applies edits of the file.          *)
(*                                                                         *)
(* A sidecar holds the app's settings (alert rules and backup configs) and *)
(* its access list. Each is a number that says who set it: n > 0 for the   *)
(* n-th change made on the server, n < 0 for the n-th change made in the   *)
(* git remote, 0 at the start. A file written by hand need not have the    *)
(* bytes that the server would render from the same settings: raw.         *)
(***************************************************************************)
EXTENDS Integers, Sequences, FiniteSets

CONSTANTS
    Writers,              \* goroutines that may run WriteAppSidecar
    MaxEdits,             \* bound on changes to settings made on the server
    MaxGrants,            \* bound on changes to the access list made in the dashboard
    HandEdits,            \* may an operator edit the file by hand?
    AccessFromDashboard   \* Syncer.accessFromDashboard: on while git sync runs

VARIABLES
    db,       \* the rows: [cfg, acc]
    side,     \* the file: [cfg, acc, raw]
    timer,    \* a debounced write is scheduled (Syncer.timers, Syncer.pending)
    writer,   \* the WriteAppSidecar calls in progress
    mark,     \* the file was written by the server less than five seconds ago
    event,    \* the watcher has an event for the file to read
    flush,    \* the watcher's debounce is running for the file
    nEdit,    \* how many changes to settings were made on the server
    nGrant,   \* how many changes to the access list were made
    audit     \* sync_status of the audit row of each change of settings

rows == <<db, nEdit, nGrant, audit>>
fileVars == <<side, event>>
watchVars == <<mark, flush>>
csVars == <<rows, fileVars, watchVars, timer, writer>>

IdleWriter == [pc |-> "idle"]

\* buildAppSidecar and encodeYAML.
Render(d) == [cfg |-> d.cfg, acc |-> d.acc, raw |-> FALSE]

CSInit ==
    /\ db = [cfg |-> 0, acc |-> 0] /\ side = Render(db)
    /\ timer = FALSE /\ writer = [w \in Writers |-> IdleWriter]
    /\ mark = FALSE /\ event = FALSE /\ flush = FALSE
    /\ nEdit = 0 /\ nGrant = 0 /\ audit = <<>>
-----------------------------------------------------------------------------
(* Changes on the server                                                   *)

\* A handler changes rows and records it; the store's mutation hook calls
\* ScheduleAppWrite, which restarts the timer.
EditConfig ==
    /\ nEdit < MaxEdits
    /\ nEdit' = nEdit + 1 /\ db' = [db EXCEPT !.cfg = nEdit + 1]
    /\ audit' = Append(audit, "pending")
    /\ timer' = TRUE
    /\ UNCHANGED <<nGrant, fileVars, watchVars, writer>>

\* A grant or a revocation, made in the dashboard.
Grant ==
    /\ nGrant < MaxGrants
    /\ nGrant' = nGrant + 1 /\ db' = [db EXCEPT !.acc = nGrant + 1]
    /\ timer' = TRUE
    /\ UNCHANGED <<nEdit, audit, fileVars, watchVars, writer>>

\* An operator edits the file; no row records it.
HandEdit ==
    /\ HandEdits /\ nEdit < MaxEdits
    /\ nEdit' = nEdit + 1 /\ side' = [cfg |-> nEdit + 1, acc |-> side.acc, raw |-> TRUE]
    /\ audit' = Append(audit, "none") /\ event' = TRUE
    /\ UNCHANGED <<db, nGrant, watchVars, timer, writer>>
-----------------------------------------------------------------------------
(* WriteAppSidecar                                                         *)

\* The timer fires; buildAppSidecarPair reads the rows.
BuildSidecar(w) ==
    /\ timer /\ writer[w].pc = "idle"
    /\ timer' = FALSE
    /\ writer' = [writer EXCEPT ![w] = [pc |-> "write", content |-> Render(db)]]
    /\ UNCHANGED <<rows, fileVars, watchVars>>

\* MarkSelfWrite, then the atomic rename.
WriteSidecar(w) ==
    /\ writer[w].pc = "write"
    /\ side' = writer[w].content /\ event' = TRUE /\ mark' = TRUE
    /\ writer' = [writer EXCEPT ![w] = [pc |-> "hook"]]
    /\ UNCHANGED <<rows, flush, timer>>

\* callHook: the writer is done once the hook returns.
EndWrite(w) ==
    /\ writer[w].pc = "hook"
    /\ writer' = [writer EXCEPT ![w] = IdleWriter]
    /\ UNCHANGED <<rows, fileVars, watchVars, timer>>
-----------------------------------------------------------------------------
(* The watcher                                                             *)

\* An event within five seconds of a self-write is skipped; any other one
\* starts the debounce.
HandleEvent ==
    /\ event /\ event' = FALSE
    /\ flush' = (flush \/ ~mark)
    /\ UNCHANGED <<rows, side, mark, timer, writer>>

\* IsSelfWrite forgets a mark after five seconds; events are read by then.
ExpireMark ==
    /\ mark /\ ~event /\ mark' = FALSE
    /\ UNCHANGED <<rows, fileVars, flush, timer, writer>>

\* LoadAppFromFS and ApplyAppSidecar; the store's hook schedules a write.
ApplyFile(d, f) == [cfg |-> f.cfg, acc |-> IF AccessFromDashboard THEN d.acc ELSE f.acc]

FlushSidecars ==
    /\ flush /\ flush' = FALSE
    /\ db' = ApplyFile(db, side) /\ timer' = TRUE
    /\ UNCHANGED <<nEdit, nGrant, audit, fileVars, mark, writer>>

CSNext ==
    \/ EditConfig \/ Grant \/ HandEdit \/ HandleEvent \/ ExpireMark \/ FlushSidecars
    \/ \E w \in Writers : BuildSidecar(w) \/ WriteSidecar(w) \/ EndWrite(w)

CSFairness ==
    /\ WF_csVars(HandleEvent) /\ WF_csVars(FlushSidecars)
    /\ \A w \in Writers : WF_csVars(BuildSidecar(w)) /\ WF_csVars(WriteSidecar(w)) /\ WF_csVars(EndWrite(w))

CSSpec == CSInit /\ [][CSNext]_csVars /\ CSFairness
-----------------------------------------------------------------------------
(* Properties                                                              *)

\* Nothing that could still change the file or the rows is under way.
CSQuiet ==
    /\ ~timer /\ ~event /\ ~flush
    /\ \A w \in Writers : writer[w].pc = "idle"

\* "DB success => FS reflects soon" (configboot.go): once nothing is under way
\* the file holds what the rows hold, whatever edits, writes and applies raced.
FileReflectsRows == CSQuiet => side.cfg = db.cfg /\ side.acc = db.acc
=============================================================================
