------------------------------ MODULE Deployer ------------------------------
(***************************************************************************)
(* deployer.Deployer: what a goroutine does to an app's compose project.   *)
(*                                                                         *)
(* Deploy, RollbackDeploy, Restart and Pull register with the Tracker and  *)
(* run docker compose until DoneWithLogStatus; Stop, Start, Scale, Cancel  *)
(* and Teardown run docker compose without registering.  docker compose    *)
(* itself is external: `up` reads the file when it starts and recreates    *)
(* the containers when it ends.                                            *)
(***************************************************************************)
EXTENDS Tracker, AppStore

CONSTANTS
  Health,   \* states containers may come up in: subset of {"up", "bad"}
  Faults    \* what may fail: subset of {"up", "pull", "down", "other"}

ASSUME HealthAssumption == Health \subseteq {"up", "bad"}

VARIABLES
  file,    \* [Apps -> File]: docker-compose.yml in the app's directory
  dirty,   \* a file event is waiting in the watcher's debounce timer
  docker,  \* [Apps -> Project]: the containers of the app's project
  th,      \* [Threads -> Thread]: the goroutines
  hist     \* history of the run, read by properties only

fileVars == <<file, dirty>>

TrackedPc == {"check", "pull", "up", "upEnd", "restart", "stab"}
PlainPc == {"idle", "parse", "track", "hash", "upsert", "version", "setStatus",
            "rbCheck", "rbWrite", "restore", "cCheck", "cUp", "cUpEnd",
            "stop", "start", "scale", "rmDown", "rmPurge", "rmFiles",
            "rmRow", "pgTomb", "rsQuery", "rsUpdate"}
OpName == {"none", "deploy", "rollback", "restart", "pull", "cancel", "stop",
           "start", "scale", "remove", "purge", "statuses"}
Result == {"none", "success", "unstable", "failed", "refused"} \cup Status

Project == [img : File, st : {"none", "up", "bad", "down"}]

(***************************************************************************)
(* seen: what compose up read;  buf: the version a rollback writes, then   *)
(* the file it replaced;  res, hash, id: results carried to the store.     *)
(***************************************************************************)
Thread == [pc : TrackedPc \cup PlainPc, op : OpName, app : Apps \cup {Nobody},
           seen : File, buf : File, res : Result, hash : Hash, id : Nat]

IdleThread == [pc |-> "idle", op |-> "none", app |-> Nobody, seen |-> NoFile,
               buf |-> NoFile, res |-> "none", hash |-> NoHash, id |-> 0]

(***************************************************************************)
(* gone: directories that were ever missing;  raced: apps whose file       *)
(* changed after a deploy read it and before that deploy stored a hash;    *)
(* reverted: apps whose file returned to the stored hash while another     *)
(* file was the last one composed up;  starved: apps that a restart, which *)
(* reads no file, kept from a Reconcile while their retry was running;     *)
(* relabelled: apps whose labels were edited in place;  tried: the last    *)
(* file a compose up ran with to its end.                                  *)
(***************************************************************************)
History == [gone : SUBSET Apps, raced : SUBSET Apps, reverted : SUBSET Apps,
            starved : SUBSET Apps, relabelled : SUBSET Apps,
            tried : [Apps -> File]]

DeployerType ==
  /\ file \in [Apps -> File]
  /\ dirty \in BOOLEAN
  /\ docker \in [Apps -> Project]
  /\ th \in [Threads -> Thread]
  /\ hist \in History

\* Thread t runs a compose command registered with the Tracker for app a.
Runs(t, a) == th[t].pc \in TrackedPc /\ th[t].app = a

Idle(t) == th[t].pc = "idle"
StartThread(t, op, pc, a) ==
  th' = [th EXCEPT ![t] = [IdleThread EXCEPT !.op = op, !.pc = pc, !.app = a]]
Goto(t, pc) == th' = [th EXCEPT ![t].pc = pc]
EndThread(t) == th' = [th EXCEPT ![t] = IdleThread]

\* Where the caller in the reconciler continues once the Tracker entry is gone.
Continue(t) ==
  IF th[t].op \in {"deploy", "rollback"} THEN "hash" ELSE "setStatus"

\* DoneWithLogStatus followed by the return of a DeployResult.
Return(t, res) ==
  /\ DoneWithLogStatus(th[t].app)
  /\ th' = [th EXCEPT ![t].pc = Continue(t), ![t].res = res]

Storing(t, a) ==
  /\ th[t].app = a
  /\ th[t].op \in {"deploy", "rollback"}
  /\ th[t].pc \in {"upEnd", "stab", "hash", "upsert"}

\* Every write to an app directory raises an fsnotify event.
WriteFile(a, f) ==
  /\ file' = [file EXCEPT ![a] = f]
  /\ dirty' = TRUE
  /\ hist' = [hist EXCEPT
       !.gone = IF Present(f) THEN @ ELSE @ \cup {a},
       !.raced = IF f # file[a] /\ \E t \in Threads : Storing(t, a)
                 THEN @ \cup {a} ELSE @,
       !.reverted = IF f # file[a] /\ Present(f) /\ f # hist.tried[a]
                       /\ hashFile(f) = StoredHash(a)
                    THEN @ \cup {a} ELSE @]

----------------------------------------------------------------------------
(* Tracked commands.                                                       *)

\* TrackWithLog succeeds.  Restart does not check the file.
Track(t) ==
  /\ th[t].pc = "track"
  /\ TrackWithLog(th[t].app, t)
  /\ Goto(t, IF th[t].op = "restart" THEN "restart" ELSE "check")
  /\ UNCHANGED <<storeVars, fileVars, docker, hist>>

\* checkComposeFile passes.
CheckOk(t) ==
  /\ th[t].pc = "check"
  /\ Allowed(file[th[t].app])
  /\ Goto(t, IF th[t].op = "pull" THEN "pull" ELSE "up")
  /\ UNCHANGED <<trackerVars, storeVars, fileVars, docker, hist>>

\* checkComposeFile fails and refuse ends the deploy.  Only a violation
\* counts as "refused by the deployer"; a file that does not parse does not.
Refuse(t) ==
  /\ th[t].pc = "check"
  /\ ~Allowed(file[th[t].app])
  /\ Return(t, IF IsRefused(file[th[t].app]) THEN "refused" ELSE "failed")
  /\ UNCHANGED <<storeVars, fileVars, docker, hist>>

PullImages(t) ==
  /\ th[t].pc = "pull"
  /\ Goto(t, "up")
  /\ UNCHANGED <<trackerVars, storeVars, fileVars, docker, hist>>

PullFails(t) ==
  /\ th[t].pc = "pull"
  /\ "pull" \in Faults \/ t \in cancelled
  /\ Return(t, "failed")
  /\ UNCHANGED <<storeVars, fileVars, docker, hist>>

\* docker compose up opens the file.
UpRead(t) ==
  /\ th[t].pc \in {"up", "cUp"}
  /\ th' = [th EXCEPT ![t].seen = file[th[t].app],
                      ![t].pc = IF @ = "up" THEN "upEnd" ELSE "cUpEnd"]
  /\ UNCHANGED <<trackerVars, storeVars, fileVars, docker, hist>>

Tried(t) == hist' = [hist EXCEPT !.tried[th[t].app] = th[t].seen]

\* What is left of the project by an `up` that fails or is killed midway.
PartialUp(a, f) ==
  \/ UNCHANGED docker
  \/ /\ Parses(f)
     /\ docker' = [docker EXCEPT ![a] = [img |-> f, st |-> "bad"]]

UpOk(t) ==
  /\ th[t].pc = "upEnd"
  /\ Parses(th[t].seen)
  /\ \E h \in Health :
       docker' = [docker EXCEPT ![th[t].app] = [img |-> th[t].seen, st |-> h]]
  /\ Goto(t, "stab")
  /\ Tried(t)
  /\ UNCHANGED <<trackerVars, storeVars, fileVars>>

UpMayFail(t) == "up" \in Faults \/ t \in cancelled \/ ~Parses(th[t].seen)

\* compose up fails: finishDeploy closes the log without a stabilization.
UpFails(t) ==
  /\ th[t].pc = "upEnd"
  /\ UpMayFail(t)
  /\ PartialUp(th[t].app, th[t].seen)
  /\ Return(t, "failed")
  /\ Tried(t)
  /\ UNCHANGED <<storeVars, fileVars>>

\* compose restart of the existing containers.
RestartOk(t) ==
  /\ th[t].pc = "restart"
  /\ docker[th[t].app].st # "none"
  /\ \E h \in Health : docker' = [docker EXCEPT ![th[t].app].st = h]
  /\ Goto(t, "stab")
  /\ UNCHANGED <<trackerVars, storeVars, fileVars, hist>>

RestartFails(t) ==
  /\ th[t].pc = "restart"
  /\ docker[th[t].app].st = "none" \/ "up" \in Faults \/ t \in cancelled
  /\ Return(t, "failed")
  /\ UNCHANGED <<storeVars, fileVars, docker, hist>>

\* stabilize: no container in a bad state is a success (also when there is
\* none, and when the query of a cancelled deploy fails).
Stabilize(t) ==
  LET st == docker[th[t].app].st IN
  /\ th[t].pc = "stab"
  /\ \/ st \in {"none", "up"} /\ Return(t, "success")
     \/ st \in {"bad", "down"} /\ Return(t, "unstable")
     \/ t \in cancelled /\ Return(t, "success")
  /\ UNCHANGED <<storeVars, fileVars, docker, hist>>

TrackedStep(t) ==
  \/ Track(t) \/ CheckOk(t) \/ Refuse(t) \/ PullImages(t) \/ PullFails(t)
  \/ UpRead(t) \/ UpOk(t) \/ UpFails(t) \/ RestartOk(t) \/ RestartFails(t)
  \/ Stabilize(t)

----------------------------------------------------------------------------
(* Untracked commands.                                                     *)

\* Cancel, after the flight is gone: check the file and bring the project up.
CancelCheck(t) ==
  /\ th[t].pc = "cCheck"
  /\ IF Allowed(file[th[t].app]) THEN Goto(t, "cUp") ELSE EndThread(t)
  /\ UNCHANGED <<trackerVars, storeVars, fileVars, docker, hist>>

CancelUpEnd(t) ==
  /\ th[t].pc = "cUpEnd"
  /\ \/ /\ Parses(th[t].seen)
        /\ \E h \in Health : docker' =
             [docker EXCEPT ![th[t].app] = [img |-> th[t].seen, st |-> h]]
     \/ UpMayFail(t) /\ PartialUp(th[t].app, th[t].seen)
  /\ Tried(t)
  /\ EndThread(t)
  /\ UNCHANGED <<trackerVars, storeVars, fileVars>>

\* Stop, then StopOne stores the status; a failed stop returns early.
Stop(t) ==
  /\ th[t].pc = "stop"
  /\ \/ /\ docker' = [docker EXCEPT ![th[t].app].st =
                        IF @ = "none" THEN "none" ELSE "down"]
        /\ Goto(t, "setStatus")
     \/ "other" \in Faults /\ EndThread(t) /\ UNCHANGED docker
  /\ UNCHANGED <<trackerVars, storeVars, fileVars, hist>>

Start(t) ==
  /\ th[t].pc = "start"
  /\ \/ /\ docker[th[t].app].st # "none"
        /\ \E h \in Health : docker' = [docker EXCEPT ![th[t].app].st = h]
        /\ Goto(t, "setStatus")
     \/ /\ docker[th[t].app].st = "none" \/ "other" \in Faults
        /\ EndThread(t)
        /\ UNCHANGED docker
  /\ UNCHANGED <<trackerVars, storeVars, fileVars, hist>>

\* Scale: `up --no-recreate` creates what is missing, changes nothing else.
Scale(t) ==
  LET a == th[t].app IN
  /\ th[t].pc = "scale"
  /\ \/ /\ Allowed(file[a])
        /\ \E h \in Health : docker' = [docker EXCEPT ![a] =
             [img |-> IF @.st = "none" THEN file[a] ELSE @.img, st |-> h]]
     \/ (~Allowed(file[a]) \/ "other" \in Faults) /\ UNCHANGED docker
  /\ EndThread(t)
  /\ UNCHANGED <<trackerVars, storeVars, fileVars, hist>>

UntrackedStep(t) ==
  CancelCheck(t) \/ CancelUpEnd(t) \/ Stop(t) \/ Start(t) \/ Scale(t)

\* Teardown: compose down.
TeardownOk(a) ==
  docker' = [docker EXCEPT ![a] = [img |-> NoFile, st |-> "none"]]
=============================================================================
