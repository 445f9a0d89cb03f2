----------------------------- MODULE MCResources -----------------------------
(***************************************************************************)
(* The services that keep something: backup runs and files, domains and    *)
(* certificates, rate-limit buckets, rows of request statistics, entries   *)
(* of the log ring, the global rows and their files, backups of the        *)
(* database.  They share no state, so they are checked in one run: a       *)
(* behaviour is a behaviour of one of them, chosen at the start; the       *)
(* others stay as they began.                                              *)
(***************************************************************************)
EXTENDS Backup, Proxy, RateLimit, RequestStats, LogRing,
  GlobalSync, SystemBackup, TLC

CONSTANT Parts
VARIABLE part

resourcesVars == <<part, bvars, proxyVars, rateVars, statsVars, ringVars,
  globalVars, sysVars>>

ResourcesInit ==
  /\ part \in Parts
  /\ BInit /\ ProxyInit /\ RateInit /\ StatsInit /\ RingInit
  /\ GlobalInit /\ SystemInit
  /\ part # "system" => sysRow.keep = 1

\* Overlapping runs are checked without restores ("backup"), and restores beside
\* one run at a time ("restore").
OneJob == Cardinality({j \in Jobs : job[j].pc # "idle"}) <= 1

ResourcesNext ==
  /\ CASE part = "backup" -> BNext /\ UNCHANGED restore
       [] part = "restore" -> BNext /\ OneJob'
       [] OTHER -> UNCHANGED bvars
  /\ IF part = "proxy" THEN ProxyNext ELSE UNCHANGED proxyVars
  /\ IF part = "rate" THEN RateNext ELSE UNCHANGED rateVars
  /\ IF part = "stats" THEN StatsNext ELSE UNCHANGED statsVars
  /\ IF part = "ring" THEN RingNext ELSE UNCHANGED ringVars
  /\ IF part = "global" THEN GlobalNext ELSE UNCHANGED globalVars
  /\ IF part = "system" THEN SystemNext ELSE UNCHANGED sysVars
  /\ UNCHANGED part

ResourcesSpec == ResourcesInit /\ [][ResourcesNext]_resourcesVars

----------------------------------------------------------------------------
(* Values of the constants                                                 *)

\* A schedule that keeps one backup and stops the app's service meanwhile.
MCInitRows == "b1" :> [container |-> "db", cron |-> "daily", keep |-> 1, hooks |-> TRUE]

\* An operator may ask for two backups to be kept, without a schedule.
MCNewRows == {[container |-> "db", cron |-> NoCron, keep |-> 2, hooks |-> FALSE]}

\* Runs of the backup scheduler are interchangeable.
JobSymmetry == Permutations(Jobs)

MCCut == <<2, 4>>
MCBucket == <<1, 2, 4>>
MCKeep == <<4, 6, 8>>
=============================================================================
