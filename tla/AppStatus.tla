------------------------------ MODULE AppStatus ------------------------------
(***************************************************************************)
(* Who writes an app's status column: Stop, Start and deploys              *)
(* (src/internal/reconciler), RefreshStatuses every so often, and the      *)
(* metrics collector after every collection (Collector.syncStatus in       *)
(* src/internal/metrics).  Each of them reads the column and docker, and   *)
(* writes later, unconditionally.                                          *)
(***************************************************************************)
EXTENDS Integers, FiniteSets

CONSTANTS
  Services,     \* the app's containers
  Operators,    \* API requests in flight
  MaxRequests,  \* bound on the API requests
  MaxFaults     \* bound on container failures and recoveries

VARIABLES
  status,    \* the apps row's status
  cont,      \* docker: "up", "restarting" or "down", of each container
  col,       \* the collector: [pc, seen, running]
  rs,        \* RefreshStatuses: [pc, seen, bad]
  op,        \* each request: [pc, result]
  flying,    \* a deploy is in the Tracker
  nReq, nFault,
  wanted     \* the last request that finished: "stopped" or "running"

statusVars == <<status, cont, col, rs, op, flying, nReq, nFault, wanted>>

Statuses == {"running", "unstable", "degraded", "error", "stopped"}
ColIdle == [pc |-> "idle", seen |-> "none", running |-> 0]
RsIdle == [pc |-> "idle", seen |-> "none", bad |-> FALSE]
OpIdle == [pc |-> "idle", result |-> "none"]

\* A restarting container is still listed as running.
Running == Cardinality({s \in Services : cont[s] # "down"})
Shaky == \E s \in Services : cont[s] = "restarting"

StatusInit ==
  /\ status = "running"
  /\ cont = [s \in Services |-> "up"]
  /\ col = ColIdle
  /\ rs = RsIdle
  /\ op = [o \in Operators |-> OpIdle]
  /\ flying = FALSE
  /\ nReq = 0
  /\ nFault = 0
  /\ wanted = "running"

----------------------------------------------------------------------------
(* The metrics collector's syncStatus                                      *)

MutAllDegraded(running) ==
  CASE running = 0 -> "error"
    [] running <= Cardinality(Services) -> "degraded"
    [] OTHER -> "running"

\* What syncStatus wants the column to say.
Want(running) ==
  CASE running = 0 -> "error"
    [] running < Cardinality(Services) -> "degraded"
    [] OTHER -> "running"

ListForSync ==
  /\ col.pc = "idle"
  /\ col' = [ColIdle EXCEPT !.pc = "count", !.seen = status]
  /\ UNCHANGED <<status, cont, rs, op, flying, nReq, nFault, wanted>>

CountRunning ==
  /\ col.pc = "count"
  /\ col' = [col EXCEPT !.pc = "write", !.running = Running]
  /\ UNCHANGED <<status, cont, rs, op, flying, nReq, nFault, wanted>>

\* The app is skipped if it was stopped when it was listed.
SyncStatus ==
  /\ col.pc = "write"
  /\ status' = IF col.seen # "stopped" /\ col.seen # Want(col.running)
               THEN Want(col.running) ELSE status
  /\ col' = ColIdle
  /\ UNCHANGED <<cont, rs, op, flying, nReq, nFault, wanted>>

----------------------------------------------------------------------------
(* RefreshStatuses                                                         *)

\* Only running and unstable apps without a deploy are looked at.
ListForRefresh ==
  /\ rs.pc = "idle"
  /\ status \in {"running", "unstable"}
  /\ ~flying
  /\ rs' = [RsIdle EXCEPT !.pc = "ps", !.seen = status]
  /\ UNCHANGED <<status, cont, col, op, flying, nReq, nFault, wanted>>

\* docker compose ps, which lists no container that is down.
ComposePs ==
  /\ rs.pc = "ps"
  /\ rs' = IF Running = 0 THEN RsIdle ELSE [rs EXCEPT !.pc = "write", !.bad = Shaky]
  /\ UNCHANGED <<status, cont, col, op, flying, nReq, nFault, wanted>>

FlipStatus ==
  /\ rs.pc = "write"
  /\ status' = CASE rs.bad /\ rs.seen = "running" -> "unstable"
                 [] ~rs.bad /\ rs.seen = "unstable" -> "running"
                 [] OTHER -> status
  /\ rs' = RsIdle
  /\ UNCHANGED <<cont, col, op, flying, nReq, nFault, wanted>>

----------------------------------------------------------------------------
(* API requests: StopOne, StartOne and a deploy                            *)

Request == nReq < MaxRequests /\ nReq' = nReq + 1
Reply(o, st) == op' = [op EXCEPT ![o] = [pc |-> "status", result |-> st]]

\* docker compose stop or start; when it fails no status is written.
ComposeStop(o) ==
  /\ op[o].pc = "idle"
  /\ Request
  /\ cont' = [s \in Services |-> "down"]
  /\ Reply(o, "stopped")
  /\ UNCHANGED <<status, col, rs, flying, nFault, wanted>>

ComposeStart(o) ==
  /\ op[o].pc = "idle"
  /\ Request
  /\ cont' = [s \in Services |-> "up"]
  /\ Reply(o, "running")
  /\ UNCHANGED <<status, col, rs, flying, nFault, wanted>>

ComposeFails(o) ==
  /\ op[o].pc = "idle"
  /\ Request
  /\ \E hit \in SUBSET Services, st \in {"up", "down"} :
       cont' = [s \in Services |-> IF s \in hit THEN st ELSE cont[s]]
  /\ UNCHANGED <<status, col, rs, op, flying, nFault, wanted>>

\* A deploy: compose up, then the status the stabilisation check found.
ComposeUp(o) ==
  /\ op[o].pc = "idle"
  /\ ~flying
  /\ Request
  /\ flying' = TRUE
  /\ \E c \in [Services -> {"up", "restarting", "down"}] :
       /\ cont' = c
       /\ \E st \in {"running", "unstable", "error"} :
            /\ st = "running" => \A s \in Services : c[s] = "up"
            /\ op' = [op EXCEPT ![o] = [pc |-> "untrack", result |-> st]]
  /\ UNCHANGED <<status, col, rs, nFault, wanted>>

Untrack(o) ==
  /\ op[o].pc = "untrack"
  /\ flying' = FALSE
  /\ Reply(o, op[o].result)
  /\ UNCHANGED <<status, cont, col, rs, nReq, nFault, wanted>>

UpdateAppStatus(o) ==
  /\ op[o].pc = "status"
  /\ status' = op[o].result
  /\ wanted' = IF op[o].result = "stopped" THEN "stopped" ELSE "running"
  /\ op' = [op EXCEPT ![o] = OpIdle]
  /\ UNCHANGED <<cont, col, rs, flying, nReq, nFault>>

\* A container fails, loops or recovers by its restart policy.
ContainerFault(s) ==
  /\ nFault < MaxFaults
  /\ nFault' = nFault + 1
  /\ cont[s] # "down"
  /\ \E st \in {"up", "restarting", "down"} \ {cont[s]} :
       cont' = [cont EXCEPT ![s] = st]
  /\ UNCHANGED <<status, col, rs, op, flying, nReq, wanted>>

Collect == ListForSync \/ CountRunning \/ SyncStatus
RefreshStatuses == ListForRefresh \/ ComposePs \/ FlipStatus
Finish(o) == Untrack(o) \/ UpdateAppStatus(o)

StatusNext ==
  \/ Collect
  \/ RefreshStatuses
  \/ \E o \in Operators :
       \/ ComposeStop(o) \/ ComposeStart(o) \/ ComposeFails(o)
       \/ ComposeUp(o) \/ Finish(o)
  \/ \E s \in Services : ContainerFault(s)

\* Both loops are tickers, and a request that was accepted runs to its end.
StatusFairness ==
  /\ WF_statusVars(Collect)
  /\ WF_statusVars(RefreshStatuses)
  /\ \A o \in Operators : WF_statusVars(Finish(o))

StatusSpec == StatusInit /\ [][StatusNext]_statusVars /\ StatusFairness

----------------------------------------------------------------------------
(* Properties                                                              *)

\* Whatever order the two loops and the requests write in, the status ends up
\* saying what the containers do, once no container restarts any more: the
\* stale writes of one loop are corrected by the other (syncStatus,
\* RefreshStatuses).  Only "stopped" is taken on trust.
StatusSettles ==
  <>[](\/ Shaky
       \/ status = "stopped"
       \/ status = "error" /\ Running = 0
       \/ status = "degraded" /\ Running \in 1..(Cardinality(Services) - 1)
       \/ status = "running" /\ Running = Cardinality(Services))

----------------------------------------------------------------------------
(* Statement of a document that the code breaks                            *)

\* apps-and-services.md: `stopped`: "App is intentionally stopped via the Stop
\* action".  An app whose last request was Stop ends up stopped.
StoppedStays == <>[](wanted = "stopped" => status = "stopped")
=============================================================================
