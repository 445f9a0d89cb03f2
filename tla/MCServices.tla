------------------------------ MODULE MCServices ------------------------------
(***************************************************************************)
(* The services that watch, tell and let in: the event bus, alerts, logins *)
(* and sockets, app statuses, deploy logs, and the restart of git sync.    *)
(* They share no state, so they are checked in one run: a behaviour is a   *)
(* behaviour of one of them, chosen at the start; the others stay as they  *)
(* began.                                                                  *)
(***************************************************************************)
EXTENDS EventBus, Alerts, Access, AppStatus, LogStreams,
  GitReload, TLC

CONSTANT Parts
VARIABLE part

servicesVars ==
  <<part, vars, alertVars, accessVars, statusVars, logVars, reloadVars>>

ServicesInit ==
  /\ part \in Parts
  /\ Init
  /\ AlertsInit
  /\ AccessInit
  /\ part # "access" => accounts = <<>>
  /\ StatusInit
  /\ LogInit
  /\ ReloadInit
  /\ part # "reload" => polling = FALSE

ServicesNext ==
  /\ IF part = "bus" THEN Next ELSE UNCHANGED vars
  /\ IF part = "alerts" THEN AlertsNext ELSE UNCHANGED alertVars
  /\ IF part = "access" THEN AccessNext ELSE UNCHANGED accessVars
  /\ IF part = "status" THEN StatusNext ELSE UNCHANGED statusVars
  /\ IF part = "logs" THEN LogNext ELSE UNCHANGED logVars
  /\ IF part = "reload" THEN ReloadNext ELSE UNCHANGED reloadVars
  /\ UNCHANGED part

\* The fairness of each service, while it is the one that runs.
ServicesFairness ==
  /\ \A p \in Pubs : WF_vars(part = "bus" /\ Publishing(p))
                   /\ SF_vars(part = "bus" /\ Filter(p))
  /\ \A s \in Subs : WF_vars(part = "bus" /\ WriteReturns(s))
  /\ WF_alertVars(part = "alerts" /\ Evaluate)
  /\ WF_alertVars(part = "alerts" /\ FinishEdit)
  /\ WF_statusVars(part = "status" /\ Collect)
  /\ WF_statusVars(part = "status" /\ RefreshStatuses)
  /\ \A o \in Operators : WF_statusVars(part = "status" /\ Finish(o))
  /\ \A d \in Deploys : WF_logVars(part = "logs" /\ EndDeploy(d))
  /\ \A f \in Followers : WF_logVars(part = "logs" /\ Follow(f))
  /\ WF_reloadVars(part = "reload" /\ Progress)

ServicesSpec == ServicesInit /\ [][ServicesNext]_servicesVars /\ ServicesFairness

----------------------------------------------------------------------------
(* Values of the constants                                                 *)

MCRule(cmp, hook, on) ==
  [metric |-> "cpu", op |-> cmp, threshold |-> 1, hook |-> hook, on |-> on]
MCInitRules == 1 :> MCRule("above", "w1", TRUE)
MCNewRules ==
  {MCRule("below", "w2", TRUE), MCRule("above", "w1", FALSE),
   [MCRule("below", "w1", TRUE) EXCEPT !.metric = "backup"]}

MCAccount(name, role) == [name |-> name, role |-> role, pw |-> "p1", tv |-> 1]
MCStarts == {<<>>, 1 :> MCAccount("ann", "super_admin")}
MCTwoAdmins ==
  {1 :> MCAccount("ann", "super_admin") @@ 2 :> MCAccount("bob", "super_admin")}
MCUser(role) == [role |-> role, pw |-> "p1"]
MCWanted ==
  {[secrets |-> FALSE, keys |-> {},
    users |-> "ann" :> MCUser("super_admin") @@ "bob" :> MCUser("viewer")],
   [secrets |-> TRUE, keys |-> {[user |-> "ann", name |-> "k", hash |-> "h2"]},
    users |-> "ann" :> MCUser("super_admin")]}
=============================================================================
