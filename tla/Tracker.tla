------------------------------ MODULE Tracker ------------------------------
(***************************************************************************)
(* deployer.Tracker: which deploy is in flight per app.  flights holds the *)
(* cancel function of a deploy, logs its DeployLog; each is named by the   *)
(* thread that registered it.  cancelled is the set of threads whose       *)
(* context was cancelled.  Every operation runs under Tracker.mu.          *)
(***************************************************************************)
EXTENDS ComposeFiles

VARIABLES flights, logs, cancelled

trackerVars == <<flights, logs, cancelled>>

TrackerInit ==
  /\ flights = [a \in Apps |-> Nobody]
  /\ logs = [a \in Apps |-> Nobody]
  /\ cancelled = {}

TrackerType ==
  /\ flights \in [Apps -> Threads \cup {Nobody}]
  /\ logs \in [Apps -> Threads \cup {Nobody}]
  /\ cancelled \subseteq Threads

IsDeploying(a) == flights[a] # Nobody

\* Mutant: test the flight, which Cancel removes, instead of the log.
MutBusy(a) == flights[a] # Nobody

\* The guard of TrackWithLog.
Busy(a) == logs[a] # Nobody

\* TrackWithLog when no deploy of a is in flight.
TrackWithLog(a, t) ==
  /\ ~Busy(a)
  /\ flights' = [flights EXCEPT ![a] = t]
  /\ logs' = [logs EXCEPT ![a] = t]
  /\ cancelled' = cancelled \ {t}

\* Mutant: the deploy ends without deleting its log.
MutDone(a) ==
  /\ flights' = [flights EXCEPT ![a] = Nobody]
  /\ UNCHANGED <<logs, cancelled>>

\* DoneWithLogStatus: the deploy of a is over.
DoneWithLogStatus(a) ==
  /\ flights' = [flights EXCEPT ![a] = Nobody]
  /\ logs' = [logs EXCEPT ![a] = Nobody]
  /\ UNCHANGED cancelled

\* Cancel: run the cancel function and forget it; the log stays.
CancelFlight(a) ==
  /\ IsDeploying(a)
  /\ cancelled' = cancelled \cup {flights[a]}
  /\ flights' = [flights EXCEPT ![a] = Nobody]
  /\ UNCHANGED logs
=============================================================================
