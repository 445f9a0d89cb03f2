------------------------------ MODULE GitReload ------------------------------
(***************************************************************************)
(* Changing the git-sync settings of a running server                      *)
(* (internal/api/gitsync_config_handler.go): every save stops the running  *)
(* syncer of internal/gitsync and starts one with the saved settings,      *)
(* while requests use the syncer under a read lock on gsMu.  What a sync   *)
(* does to the repository is the subject of GitSync; here a sync is a job  *)
(* of the worker that somebody waits for.                                  *)
(*                                                                         *)
(* Saved settings are named after the request that saved them.  NoRow: the *)
(* table gitsync_config is empty and git sync off.                         *)
(***************************************************************************)
EXTENDS Integers, Sequences, FiniteSets

CONSTANTS
    Savers,      \* requests to PUT /api/git/config and POST /api/git/disable
    Clients,     \* requests to POST /api/git/sync-now and apply-pending
    Polling,     \* the values of poll_enabled to look at
    SyncChan,    \* capacity of Syncer.syncCh
    MaxStarts,   \* bound on the requests made
    NoRow, NoSyncer, Nobody

ASSUME NobodyAssumption == Nobody \notin Savers

VARIABLES
    saved,       \* the table gitsync_config
    running,     \* the settings Server.gs was started with, or NoSyncer
    failed,      \* the last reload returned an error
    owner,       \* who holds gsMu for writing
    saver,       \* where each saving request is
    client,      \* where each syncing request is
    stopping,    \* the context of the syncer is cancelled
    worker,      \* Syncer.worker: "idle", "gone" or whom it works for
    poll,        \* Syncer.pollLoop: "ticking", "asked" or "gone"
    syncCh,      \* the requests for the worker
    polling,     \* poll_enabled, the same in all settings that are saved
    starts

syncer == <<stopping, worker, poll, syncCh, polling>>
reloadVars == <<saved, running, failed, owner, saver, client, syncer, starts>>

Poller == "poll"
Readers == {c \in Clients : client[c] \in {"asking", "waiting"}}
Queued == {s \in Savers : saver[s] = "lock"}

ReloadInit ==
    /\ saved = NoRow /\ running = NoSyncer /\ failed = FALSE
    /\ owner = Nobody
    /\ saver = [s \in Savers |-> "idle"] /\ client = [c \in Clients |-> "idle"]
    /\ stopping = FALSE /\ worker = "gone" /\ poll = "gone" /\ syncCh = <<>>
    /\ polling \in Polling /\ starts = 0
-----------------------------------------------------------------------------
(* Saving: handlePutGitConfig, handleDisableGitSync                        *)

NewRequest == starts < MaxStarts /\ starts' = starts + 1
MoveTo(s, pc) == saver' = [saver EXCEPT ![s] = pc]

\* handlePutGitConfig reads the saved secrets, then asks the remote.
ReadSettings(s) ==
    /\ NewRequest /\ saver[s] = "idle" /\ MoveTo(s, "check")
    /\ UNCHANGED <<saved, running, failed, owner, client, syncer>>

\* A remote that cannot be reached, or lacks the branch: 400, nothing saved.
CheckRemote(s) ==
    /\ saver[s] = "check"
    /\ MoveTo(s, "save") \/ MoveTo(s, "idle")
    /\ UNCHANGED <<saved, running, failed, owner, client, syncer, starts>>

\* One transaction writes all settings.
SaveSettings(s) ==
    /\ saver[s] = "save" /\ MoveTo(s, "lock") /\ saved' = s
    /\ UNCHANGED <<running, failed, owner, client, syncer, starts>>

\* handleDisableGitSync empties the table.
DeleteSettings(s) ==
    /\ NewRequest /\ saver[s] = "idle" /\ MoveTo(s, "lock") /\ saved' = NoRow
    /\ UNCHANGED <<running, failed, owner, client, syncer>>

\* ReloadGitSync takes gsMu and, if a syncer runs, cancels it.
LockReload(s) ==
    /\ saver[s] = "lock" /\ owner = Nobody /\ Readers = {}
    /\ owner' = s
    /\ MoveTo(s, IF running = NoSyncer THEN "start" ELSE "join")
    /\ stopping' = (running # NoSyncer)
    /\ UNCHANGED <<saved, running, failed, client, worker, poll, syncCh, polling, starts>>

\* Syncer.Stop waits for both goroutines.
JoinSyncer(s) ==
    /\ saver[s] = "join" /\ worker = "gone" /\ poll = "gone"
    /\ running' = NoSyncer /\ MoveTo(s, "start")
    /\ UNCHANGED <<saved, failed, owner, client, syncer, starts>>

EndReload(s, conf, err) ==
    /\ saver[s] = "start" /\ MoveTo(s, "idle") /\ owner' = Nobody
    /\ running' = conf /\ failed' = err
    /\ stopping' = FALSE /\ syncCh' = <<>>
    /\ worker' = IF conf = NoSyncer THEN "gone" ELSE "idle"
    /\ poll' = IF conf = NoSyncer \/ ~polling THEN "gone" ELSE "ticking"
    /\ UNCHANGED <<saved, client, polling, starts>>

\* MUTANT: the reload starts the settings of its own request.
MutOwnSettings(s) ==
    \/ saved # NoRow /\ EndReload(s, s, FALSE)
    \/ saved = NoRow /\ EndReload(s, NoSyncer, FALSE)
    \/ EndReload(s, NoSyncer, TRUE)

\* ResolveConfig, New and Start; any of them may fail.
StartSyncer(s) ==
    \/ saved # NoRow /\ EndReload(s, saved, FALSE)
    \/ saved = NoRow /\ EndReload(s, NoSyncer, FALSE)
    \/ EndReload(s, NoSyncer, TRUE)
-----------------------------------------------------------------------------
(* Syncing: handleGitSyncNow, handleGitApplyPending                        *)

\* RLock: a waiting Lock keeps new readers out. Without a syncer: 503.
AskForSync(c) ==
    /\ NewRequest /\ client[c] = "idle" /\ owner = Nobody /\ Queued = {}
    /\ client' = [client EXCEPT ![c] = IF running = NoSyncer THEN "idle" ELSE "asking"]
    /\ UNCHANGED <<saved, running, failed, owner, saver, syncer>>

\* The request enters the channel; SyncNow returns at once if it is full,
\* ApplyPending waits for room.
SendRequest(c) ==
    /\ client[c] = "asking"
    /\ \/ /\ Len(syncCh) < SyncChan /\ syncCh' = Append(syncCh, c)
          /\ client' = [client EXCEPT ![c] = "waiting"]
       \/ /\ Len(syncCh) = SyncChan /\ UNCHANGED syncCh
          /\ client' = [client EXCEPT ![c] = "idle"]
    /\ UNCHANGED <<saved, running, failed, owner, saver, stopping, worker, poll, polling, starts>>

\* The client goes away; its request stays in the channel.
Abandon(c) ==
    /\ client[c] \in {"asking", "waiting"}
    /\ client' = [client EXCEPT ![c] = "idle"]
    /\ UNCHANGED <<saved, running, failed, owner, saver, syncer, starts>>
-----------------------------------------------------------------------------
(* The goroutines of the syncer                                            *)

TakeRequest ==
    /\ worker = "idle" /\ syncCh # <<>>
    /\ worker' = Head(syncCh) /\ syncCh' = Tail(syncCh)
    /\ UNCHANGED <<saved, running, failed, owner, saver, client, stopping, poll, polling, starts>>

\* MUTANT: a request that nobody waits for any more gets no reply.
MutAnswerWaiting ==
    /\ worker \notin {"idle", "gone"}
    /\ worker \in Clients => client[worker] = "waiting"
    /\ worker' = "idle"
    /\ IF worker = Poller THEN poll' = "ticking" /\ UNCHANGED client
       ELSE client' = [client EXCEPT ![worker] = "idle"] /\ UNCHANGED poll
    /\ UNCHANGED <<saved, running, failed, owner, saver, stopping, syncCh, polling, starts>>

\* A reply goes to a buffered channel, whether or not somebody waits.
\* The worker tells requests of one client apart; the model need not.
Answer ==
    /\ worker \notin {"idle", "gone"} /\ worker' = "idle"
    /\ IF worker = Poller
          THEN poll' = "ticking" /\ UNCHANGED client
          ELSE /\ client' = [client EXCEPT ![worker] = IF @ = "waiting" THEN "idle" ELSE @]
               /\ UNCHANGED poll
    /\ UNCHANGED <<saved, running, failed, owner, saver, stopping, syncCh, polling, starts>>

\* select picks among a cancelled context and a waiting request at random.
\* The worker commits what is queued and returns; requests for a sync that
\* are still in syncCh are never answered.
WorkerExits ==
    /\ worker = "idle" /\ stopping /\ worker' = "gone"
    /\ UNCHANGED <<saved, running, failed, owner, saver, client, stopping, poll, syncCh, polling, starts>>

Tick ==
    /\ poll = "ticking" /\ Len(syncCh) < SyncChan
    /\ syncCh' = Append(syncCh, Poller) /\ poll' = "asked"
    /\ UNCHANGED <<saved, running, failed, owner, saver, client, stopping, worker, polling, starts>>

\* pollLoop looks at the context only between two polls.
PollExits ==
    /\ poll = "ticking" /\ stopping /\ poll' = "gone"
    /\ UNCHANGED <<saved, running, failed, owner, saver, client, stopping, worker, syncCh, polling, starts>>
-----------------------------------------------------------------------------
Serve(s) == LockReload(s) \/ JoinSyncer(s) \/ StartSyncer(s)

Progress ==
    \/ \E s \in Savers : Serve(s)
    \/ \E c \in Clients : SendRequest(c)
    \/ TakeRequest \/ Answer \/ WorkerExits \/ PollExits

ReloadNext ==
    \/ \E s \in Savers : \/ ReadSettings(s) \/ CheckRemote(s) \/ SaveSettings(s)
                         \/ DeleteSettings(s) \/ Serve(s)
    \/ \E c \in Clients : AskForSync(c) \/ SendRequest(c) \/ Abandon(c)
    \/ TakeRequest \/ Answer \/ WorkerExits \/ Tick \/ PollExits

\* Goroutines run, a network operation of the worker ends, gsMu is handed to
\* every waiter in turn and a cancelled context is noticed. Ticks and clients
\* going away are not promised.
ReloadFairness ==
    /\ \A s \in Savers : SF_reloadVars(LockReload(s)) /\ WF_reloadVars(JoinSyncer(s) \/ StartSyncer(s))
    /\ \A c \in Clients : WF_reloadVars(SendRequest(c))
    /\ WF_reloadVars(TakeRequest \/ Answer)
    /\ SF_reloadVars(WorkerExits) /\ SF_reloadVars(PollExits)

ReloadSpec == ReloadInit /\ [][ReloadNext]_reloadVars /\ ReloadFairness
-----------------------------------------------------------------------------
(* Properties                                                              *)

\* Between reloads the running syncer has the settings in the database, in
\* whatever order the saves and the reloads of several requests went; or the
\* last reload failed and none runs.
RunningIsSaved ==
    (\A s \in Savers : saver[s] = "idle") =>
        running = saved \/ (running = NoSyncer /\ (saved = NoRow \/ failed))

\* gsMu excludes: one request reloads at a time, and while it does no request
\* uses the syncer that it stops.
ReloadExcludes ==
    \A s \in Savers : saver[s] \in {"join", "start"} =>
        /\ Readers = {}
        /\ \A t \in Savers \ {s} : saver[t] \notin {"join", "start"}

\* Syncer.Stop "flushes pending commits with a short deadline and joins
\* goroutines" (gitsync.go:288): a request that saves settings is answered,
\* and gsMu does not stay locked.
ReloadReturns == \A s \in Savers : saver[s] = "lock" ~> saver[s] = "idle"

\* The same where no poll is asking the worker: requests to sync, answered,
\* abandoned or left in the channel, hold up no reload.
UnpolledReturns == \A s \in Savers : saver[s] = "lock" ~> saver[s] = "idle" \/ polling
=============================================================================
