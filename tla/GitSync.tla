------------------------------- MODULE GitSync -------------------------------
(***************************************************************************)
(* Git sync (internal/gitsync) of the sidecar of one app: the single       *)
(* worker that commits, pushes and pulls, the rebase in which the server   *)
(* wins, the access lists that a pull may not change, and the bookkeeping  *)
(* that tells a re-render of a pulled file from an edit.                   *)
(*                                                                         *)
(* The remote branch is its number of commits and the file at its tip. The *)
(* local branch is the remote commit it contains (base) and the commits    *)
(* made since (ahead); a commit is what it leaves in the file and whether  *)
(* it is an edit, or a follow-up of a pull (access restored, or the file   *)
(* rewritten by the server).                                               *)
(***************************************************************************)
EXTENDS ConfigSync, SequencesExt

CONSTANTS
    Modes,                 \* AutoPushEnabled and AutoApplyEnabled
    QueueCap,              \* capacity of commitCh
    MaxRemote,             \* bound on edits made in the remote
    RemoteKinds,           \* what such an edit does: <<changes the access list, by hand>>
    MaxChanges,            \* bound on all edits together
    MaxFaults,             \* bound on failed calls to the remote and restarts
    Restarts               \* may the server die?

ASSUME GitAssumption ==
    /\ {MaxEdits, MaxGrants, MaxRemote, QueueCap} \subseteq Nat
    /\ Modes \subseteq [push : BOOLEAN, apply : BOOLEAN]
    /\ RemoteKinds \subseteq BOOLEAN \X BOOLEAN
    /\ AccessFromDashboard    \* set as long as git sync runs

VARIABLES
    mode,      \* the settings; saving new ones starts a new Syncer
    rem,       \* the remote branch: [ver, val]
    nRem,      \* how many edits were made in the remote
    orig,      \* origin/<branch> as last fetched
    base,      \* the remote commit that HEAD contains
    ahead,     \* local commits since: sequence of [val, edit]
    queue,     \* requests for this file in commitCh
    suppress,  \* Syncer.suppress
    held,      \* Syncer.held is not empty
    hash,      \* rewriteHash of the file: what the server renders from the last import
    rewrite,   \* is the file in pullRewrites?
    worker,    \* the worker goroutine
    leftover,  \* a rebase was left stopped by a crash
    pushedN,   \* history: the last change made on the server that the remote got
    pulled,    \* history: remote commits entered HEAD without leave to apply them
    died,      \* history: the server died
    hurried,   \* history: a pull began while an earlier change was still on its way to the file
    faults     \* how many more faults there will be

gitVars == <<mode, rem, nRem, orig, base, ahead>>
reqVars == <<queue, suppress, held, hash, rewrite>>
histVars == <<pushedN, pulled, died, hurried>>
gvars == <<csVars, gitVars, reqVars, worker, leftover, histVars, faults>>

None == [raw |-> "none"]
IdleWorker == [pc |-> "idle", ctx |-> "none", ret |-> "none", ids |-> {}, staged |-> None,
               snap |-> 0, was |-> None, echo |-> FALSE]
\* What the rebase and the checks after it needed is forgotten.
Clean == [ctx |-> "none", snap |-> 0, was |-> None, echo |-> FALSE]
Local == [base |-> base, ahead |-> ahead]
HeadOf(b, a) == IF a = <<>> THEN b.val ELSE Last(a).val
Head0 == HeadOf(base, ahead)
Commit(v, edit) == [val |-> v, edit |-> edit]

GInit ==
    /\ CSInit /\ mode \in Modes
    /\ rem = [ver |-> 0, val |-> side] /\ orig = rem /\ base = rem /\ ahead = <<>>
    /\ nRem = 0 /\ queue = 0 /\ suppress = FALSE /\ held = FALSE
    /\ hash = None /\ rewrite = FALSE /\ worker = IdleWorker /\ leftover = FALSE
    /\ pushedN = 0 /\ pulled = FALSE /\ died = FALSE /\ hurried = FALSE
    /\ faults = MaxFaults

Fault == faults > 0 /\ faults' = faults - 1
Updated(x, r) == [f \in DOMAIN x |-> IF f \in DOMAIN r THEN r[f] ELSE x[f]]
Go(r) == worker' = Updated(worker, r)
GoClean(r) == worker' = Updated(Updated(worker, Clean), r)
-----------------------------------------------------------------------------
(* Requests for commits                                                    *)

\* matchesPullRender: the file holds exactly the render of what was imported.
MatchesPullRender(f) == hash # None /\ hash = f

\* EnqueueCommit once no import is running, with skipPullRewrites: a render of
\* the pulled file is noted, anything else is an edit. A full channel drops.
Enqueue ==
    IF MatchesPullRender(side)
    THEN rewrite' = TRUE /\ UNCHANGED <<queue, hash>>
    ELSE /\ rewrite' = FALSE /\ hash' = None
         /\ queue' = IF queue < QueueCap THEN queue + 1 ELSE queue

\* The sidecar write hook; requests made during an import are held.
WriteHook(w) ==
    /\ EndWrite(w)
    /\ IF suppress THEN held' = TRUE /\ UNCHANGED <<queue, rewrite, hash>>
                   ELSE Enqueue /\ UNCHANGED held
    /\ UNCHANGED <<gitVars, suppress, worker, leftover, histVars, faults>>
-----------------------------------------------------------------------------
(* doCommit                                                                *)

\* The worker takes a request and stages the file.
TakeCommit ==
    /\ worker.pc = "idle" /\ queue > 0 /\ queue' = queue - 1
    /\ IF side = Head0 THEN UNCHANGED worker
                       ELSE Go([pc |-> "commit", staged |-> side])
    /\ UNCHANGED <<csVars, gitVars, suppress, held, hash, rewrite, leftover, histVars, faults>>

\* The ids of the pending audit rows, then the commit. A commit made while a
\* rebase is stopped lands on a detached HEAD, outside of the branch.
DoCommit ==
    /\ worker.pc = "commit"
    /\ ahead' = IF leftover THEN ahead ELSE Append(ahead, Commit(worker.staged, TRUE))
    /\ IF mode.push
       THEN Go([pc |-> "push", ret |-> "mark", staged |-> None,
                ids |-> {k \in 1 .. Len(audit) : audit[k] = "pending"}])
       ELSE worker' = IdleWorker
    /\ UNCHANGED <<csVars, mode, rem, nRem, orig, base, reqVars, leftover, histVars, faults>>
-----------------------------------------------------------------------------
(* doPushWithRetry                                                         *)

\* What follows a push that worked, or did not.
Pushed ==
    \/ worker.ret = "mark" /\ Go([pc |-> "mark"])
    \/ worker.ret = "after" /\ GoClean([pc |-> "unpushed"])
    \/ worker.ret = "all" /\ Go([pc |-> "markall"])
NotPushed ==
    \/ worker.ret = "mark" /\ Go([pc |-> "failed"])
    \/ worker.ret = "after" /\ GoClean([pc |-> "unpushed"])
    \/ worker.ret = "all" /\ worker' = IdleWorker

\* The branch is pushed when the remote has nothing that it lacks.
Push ==
    /\ worker.pc \in {"push", "push2"} /\ base.ver = rem.ver
    /\ IF ahead = <<>> THEN UNCHANGED <<rem, orig, base, ahead, pushedN>>
       ELSE /\ rem' = [ver |-> rem.ver + 1, val |-> Head0]
            /\ orig' = rem' /\ base' = rem' /\ ahead' = <<>>
            /\ pushedN' = IF Head0.cfg > pushedN THEN Head0.cfg ELSE pushedN
    /\ Pushed
    /\ UNCHANGED <<csVars, mode, nRem, reqVars, leftover, pulled, died, hurried, faults>>

\* Refused or unreachable: fetch and rebase, once.
PushFails ==
    /\ worker.pc \in {"push", "push2"}
    /\ (base.ver # rem.ver /\ UNCHANGED faults) \/ Fault
    /\ IF worker.pc = "push" THEN Go([pc |-> "refetch"]) ELSE NotPushed
    /\ UNCHANGED <<csVars, gitVars, reqVars, leftover, histVars>>

Refetch ==
    /\ worker.pc = "refetch"
    /\ \/ orig' = rem /\ Go([pc |-> "pending", ctx |-> "retry", echo |-> FALSE]) /\ UNCHANGED faults
       \/ Fault /\ NotPushed /\ UNCHANGED orig
    /\ UNCHANGED <<csVars, mode, rem, nRem, base, ahead, reqVars, leftover, histVars>>

\* MarkSyncSynced or MarkSyncFailed for the rows counted at the commit, or
\* (pushUnpushed) MarkSyncSynced for every row not synced by now.
Mark ==
    LET Stamp(S, s) == audit' = [k \in DOMAIN audit |-> IF k \in S THEN s ELSE audit[k]]
    IN
    /\ \/ worker.pc = "mark" /\ Stamp(worker.ids, "synced")
       \/ worker.pc = "failed" /\ Stamp(worker.ids, "failed")
       \/ worker.pc = "markall" /\ Stamp({k \in DOMAIN audit : audit[k] # "none"}, "synced")
    /\ worker' = IdleWorker
    /\ UNCHANGED <<db, nEdit, nGrant, fileVars, watchVars, timer, writer, gitVars, reqVars,
                   leftover, histVars, faults>>
-----------------------------------------------------------------------------
(* doPull                                                                  *)

\* A poll tick, a webhook or "Sync now"; or "Apply now", which applies in any mode.
StartPull(ctx) ==
    /\ worker.pc = "idle" /\ (ctx = "manual" => ~mode.apply)
    /\ rem.ver # base.ver \/ (mode.push /\ ahead # <<>>)    \* another pull would do nothing
    /\ Go([pc |-> "fetch", ctx |-> ctx]) /\ hurried' = (hurried \/ ~CSQuiet)
    /\ UNCHANGED <<csVars, gitVars, reqVars, leftover, pushedN, pulled, died, faults>>

\* fetchAndInspect.
FetchAndInspect ==
    /\ worker.pc = "fetch"
    /\ \/ /\ orig' = rem /\ UNCHANGED faults
          /\ IF worker.ctx = "manual" \/ (base.ver # rem.ver /\ mode.apply)
             THEN Go([pc |-> "pending", ctx |-> "apply", echo |-> FALSE])
             ELSE IF base.ver # rem.ver THEN worker' = IdleWorker
                                        ELSE GoClean([pc |-> "unpushed"])
       \/ Fault /\ worker' = IdleWorker /\ UNCHANGED orig
    /\ UNCHANGED <<csVars, mode, rem, nRem, base, ahead, reqVars, leftover, histVars>>

\* Mutant: whatever is uncommitted counts as an edit.
MutAllEdits == TRUE

\* Uncommitted bytes are an edit unless the file is a noted rewrite.
PendingIsEdit == ~rewrite

\* commitPending: a stopped rebase is aborted, which resets the file; then what
\* is uncommitted is committed, a noted rewrite as a follow-up. The head and the
\* access list are remembered for what follows the rebase.
CommitPending ==
    /\ worker.pc = "pending"
    /\ LET f == IF leftover THEN Head0 ELSE side
           a == IF f = Head0 THEN ahead ELSE Append(ahead, Commit(f, PendingIsEdit))
       IN /\ side' = f /\ event' = (event \/ leftover)
          /\ ahead' = a
          /\ Go([pc |-> "rebase", snap |-> db.acc, was |-> [base |-> base, ahead |-> a],
                 echo |-> f # Head0 /\ PendingIsEdit])
    /\ leftover' = FALSE /\ rewrite' = FALSE
    /\ UNCHANGED <<rows, watchVars, timer, writer, mode, rem, nRem, orig, base, queue, suppress,
                   held, hash, histVars, faults>>

\* Mutant: an edit loses to the remote.
MutRemoteWins(c, cur) == cur
\* How a conflict is resolved: the local side for an edit (takeLocalSide), the
\* remote side for a follow-up (replayingPullFollowUp, takeUpstreamSide).
Resolve(c, cur) == IF c.edit THEN c.val ELSE cur

\* git replays commit c, made on top of p, onto cur: changes to different parts
\* of the file may merge cleanly.
Changed(p, v) == {x \in {"cfg", "acc"} : p[x] # v[x]}
Merged(p, c, cur) ==
    IF cur = p THEN {c.val}
    ELSE {Resolve(c, cur)} \cup
         (IF Changed(p, c.val) \cap Changed(p, cur) = {} /\ ~c.val.raw /\ ~p.raw /\ ~cur.raw
          THEN {[cfg |-> IF "cfg" \in Changed(p, c.val) THEN c.val.cfg ELSE cur.cfg,
                 acc |-> IF "acc" \in Changed(p, c.val) THEN c.val.acc ELSE cur.acc,
                 raw |-> FALSE]}
          ELSE {})

\* The ways to replay the first n local commits onto v; one left empty is skipped.
Replay(n, v) ==
    LET Parent(i) == IF i = 1 THEN base.val ELSE ahead[i - 1].val
        R[i \in 0 .. n] ==
          IF i = 0 THEN {<<>>}
          ELSE UNION {LET cur == IF s = <<>> THEN v ELSE Last(s).val IN
                      {IF m = cur THEN s ELSE Append(s, Commit(m, ahead[i].edit)) :
                          m \in Merged(Parent(i), ahead[i], cur)} : s \in R[i - 1]}
    IN R[n]

\* At the end of a pull: commits that it made are pushed.
PushOwn == IF worker.echo /\ mode.push THEN GoClean([pc |-> "push", ret |-> "after"])
                                      ELSE GoClean([pc |-> "unpushed"])

\* rebaseServerWins. git refuses while the file has uncommitted changes. A pull
\* that brings nothing new ends here; otherwise the pulled tree is secured, and
\* in a pull (not in a push that is retried) commit requests are held.
Rebase ==
    /\ worker.pc = "rebase"
    /\ \/ /\ side # Head0
          /\ IF worker.ctx = "apply" THEN worker' = IdleWorker ELSE NotPushed
          /\ UNCHANGED <<side, event, base, ahead, suppress, pulled>>
       \/ /\ side = Head0
          /\ \E a \in Replay(Len(ahead), orig.val) :
                /\ base' = orig /\ ahead' = a /\ side' = HeadOf(orig, a)
                /\ event' = (event \/ side' # side)
                /\ pulled' = (pulled \/ (base # orig /\ worker.ctx = "retry" /\ ~mode.apply))
                /\ IF [base |-> orig, ahead |-> a] # worker.was
                   THEN Go([pc |-> "secure"]) /\ suppress' = (worker.ctx = "apply")
                   ELSE /\ UNCHANGED suppress
                        /\ IF worker.ctx = "retry" THEN GoClean([pc |-> "push2"]) ELSE PushOwn
    /\ UNCHANGED <<rows, watchVars, timer, writer, mode, rem, nRem, orig, queue, held, hash, rewrite,
                   leftover, pushedN, died, hurried, faults>>

\* Did the rebase change the file?
FileChanged == HeadOf(worker.was.base, worker.was.ahead) # Head0

\* restoreDBAccess: the grants go back to what they were before the rebase.
RestoreDBAccess ==
    /\ worker.pc = "secure"
    /\ IF FileChanged /\ db.acc # worker.snap
       THEN db' = [db EXCEPT !.acc = worker.snap] /\ timer' = TRUE
       ELSE UNCHANGED <<db, timer>>
    /\ \/ FileChanged /\ Go([pc |-> "secure2", was |-> None])
       \/ ~FileChanged /\ worker.ctx = "retry" /\ GoClean([pc |-> "push2"])
       \/ ~FileChanged /\ worker.ctx = "apply" /\ Go([pc |-> "finish", was |-> None, snap |-> 0])
    /\ UNCHANGED <<nEdit, nGrant, audit, fileVars, watchVars, writer, gitVars, reqVars,
                   leftover, histVars, faults>>

\* Mutant: the pulled access list stays in the file.
MutKeepAccess ==
    /\ worker.pc = "secure2"
    /\ Go([pc |-> IF worker.ctx = "retry" THEN "push2" ELSE "import"])
    /\ UNCHANGED <<csVars, gitVars, reqVars, leftover, histVars, faults>>

\* RestoreSidecarAccessTo and commitLocal: the file's access list is rewritten
\* and committed as a follow-up.
RestoreSidecarAccess ==
    /\ worker.pc = "secure2"
    /\ IF side.acc # worker.snap
       THEN /\ side' = [cfg |-> side.cfg, acc |-> worker.snap, raw |-> FALSE] /\ event' = TRUE
            /\ ahead' = Append(ahead, Commit(side', FALSE))
       ELSE UNCHANGED <<side, event, ahead>>
    /\ IF worker.ctx = "retry" THEN GoClean([pc |-> "push2"])
       ELSE Go([pc |-> "import", snap |-> 0, echo |-> worker.echo \/ side.acc # worker.snap])
    /\ UNCHANGED <<rows, watchVars, timer, writer, mode, rem, nRem, orig, base, reqVars, leftover,
                   histVars, faults>>

\* ImportAppSidecarWithOptions with SkipAccess.
Import(d, f) == [d EXCEPT !.cfg = f.cfg]

\* The changed sidecar is imported; the store's hook schedules a write.
ImportPulled ==
    /\ worker.pc = "import"
    /\ db' = Import(db, side) /\ timer' = TRUE
    /\ Go([pc |-> "render"])
    /\ UNCHANGED <<nEdit, nGrant, audit, fileVars, watchVars, writer, gitVars, reqVars,
                   leftover, histVars, faults>>

\* finishImport: recordPullRenders, end of the import, releaseHeld; then the
\* local commits are pushed.
FinishImport ==
    LET h == IF worker.pc = "render" THEN Render(db) ELSE hash
        same == h # None /\ h = side
    IN
    /\ worker.pc \in {"render", "finish"}
    /\ suppress' = FALSE /\ held' = FALSE
    /\ hash' = IF held /\ ~same THEN None ELSE h
    /\ rewrite' = IF held THEN same ELSE rewrite
    /\ queue' = IF held /\ ~same /\ queue < QueueCap THEN queue + 1 ELSE queue
    /\ PushOwn
    /\ UNCHANGED <<csVars, gitVars, leftover, histVars, faults>>

\* Mutant: a pull never pushes what an earlier push left behind.
MutNoPushUnpushed ==
    /\ worker.pc = "unpushed" /\ worker' = IdleWorker
    /\ UNCHANGED <<csVars, gitVars, reqVars, leftover, histVars, faults>>

\* pushUnpushed.
PushUnpushed ==
    /\ worker.pc = "unpushed"
    /\ IF mode.push /\ ahead # <<>> THEN Go([pc |-> "push", ret |-> "all"])
                                   ELSE worker' = IdleWorker
    /\ UNCHANGED <<csVars, gitVars, reqVars, leftover, histVars, faults>>
-----------------------------------------------------------------------------
(* The environment                                                         *)

Budget == nEdit + nGrant + nRem < MaxChanges

\* Someone pushes to the remote: settings change, and perhaps the access list.
RemoteEdit(acc, raw) ==
    /\ nRem < MaxRemote /\ nRem' = nRem + 1 /\ Budget
    /\ rem' = [ver |-> rem.ver + 1,
               val |-> [cfg |-> -nRem', acc |-> IF acc THEN -nRem' ELSE rem.val.acc, raw |-> raw]]
    /\ UNCHANGED <<csVars, mode, orig, base, ahead, reqVars, worker, leftover, histVars, faults>>

\* The server dies and starts: what is only in memory is lost, a rebase may be
\* left stopped with the remote's file checked out, and ReconcileDBFromFS applies
\* the file (not one with conflict marks in it).
Restart ==
    /\ Restarts /\ Fault
    /\ leftover' \in {leftover, worker.pc = "rebase" /\ side = Head0 /\ ahead # <<>> /\ base # orig}
    /\ side' = IF leftover' /\ ~leftover THEN orig.val ELSE side
    /\ db' = IF leftover' THEN db ELSE ApplyFile(db, side)
    /\ timer' = ~leftover'
    /\ writer' = [w \in Writers |-> IdleWriter] /\ mark' = FALSE /\ event' = FALSE /\ flush' = FALSE
    /\ queue' = 0 /\ suppress' = FALSE /\ held' = FALSE /\ hash' = None /\ rewrite' = FALSE
    /\ worker' = IdleWorker
    /\ died' = TRUE
    /\ UNCHANGED <<nEdit, nGrant, audit, gitVars, pushedN, pulled, hurried>>

\* Steps of configsync that git sync does not see.
Landing ==
    \/ HandleEvent \/ (FlushSidecars /\ ~leftover)
    \/ \E w \in Writers : BuildSidecar(w) \/ WriteSidecar(w)

SidecarStep ==
    /\ \/ Budget /\ (EditConfig \/ Grant \/ HandEdit)
       \/ Landing \/ ExpireMark
    /\ UNCHANGED <<gitVars, reqVars, worker, leftover, histVars, faults>>

Worker ==
    \/ TakeCommit \/ DoCommit \/ Push \/ PushFails \/ Refetch \/ Mark \/ FetchAndInspect
    \/ CommitPending \/ Rebase \/ RestoreDBAccess \/ RestoreSidecarAccess \/ ImportPulled
    \/ FinishImport \/ PushUnpushed

GNext ==
    \/ Worker \/ SidecarStep \/ Restart
    \/ \E ctx \in {"poll", "manual"} : StartPull(ctx)
    \/ \E w \in Writers : WriteHook(w)
    \/ \E k \in RemoteKinds : RemoteEdit(k[1], k[2])

\* Goroutines run, timers fire and the poll loop ticks.
GFairness ==
    /\ WF_gvars(Worker) /\ WF_gvars(StartPull("poll"))
    /\ WF_gvars(Landing /\ UNCHANGED <<gitVars, reqVars, worker, leftover, histVars, faults>>)
    /\ WF_gvars(\E w \in Writers : WriteHook(w))

GSpec == GInit /\ [][GNext]_gvars /\ GFairness
-----------------------------------------------------------------------------
(* Properties                                                              *)

Content == [cfg : -MaxRemote .. MaxEdits, acc : -MaxRemote .. MaxGrants, raw : BOOLEAN]

\* The state has its types: commits are queued within the channel's capacity and
\* requests are held only while an import runs.
GTypeOK ==
    /\ side \in Content /\ rem.val \in Content /\ base.val \in Content
    /\ \A i \in DOMAIN ahead : ahead[i].val \in Content /\ ahead[i].edit \in BOOLEAN
    /\ base.ver <= orig.ver /\ orig.ver <= rem.ver
    /\ queue \in 0 .. QueueCap /\ (held => suppress)
    /\ hash = None \/ hash \in Content

\* Access lists in the remote reach neither the grants nor, once a pull is
\* secured, the file that a recovery would import (securePulledTree, SkipAccess).
AccessNeverPulled ==
    /\ db.acc >= 0
    /\ worker.pc \in {"idle", "import", "render", "unpushed", "push2"} /\ ~died => side.acc >= 0

\* "Local state wins on conflict": settings that a local commit of an edit put in
\* the file, and no later local commit changed, are there after a rebase, whatever
\* the remote did to them.
LocalCommitKept ==
    [][\A i \in DOMAIN ahead :
        (/\ Rebase /\ base' # base /\ ahead[i].edit
         /\ ahead[i].val.cfg # (IF i = 1 THEN base.val.cfg ELSE ahead[i - 1].val.cfg)
         /\ \A k \in i .. Len(ahead) : ahead[k].val.cfg = Head0.cfg)
        => HeadOf(base', ahead').cfg = Head0.cfg]_gvars

NoServerEdits == nEdit = 0 /\ nGrant = 0

\* "Two kinds of local bot commits never override remote edits ... so remote
\* changes such as alert thresholds still apply" (docs/operations/git-sync.md): in
\* pull-only mode, while nobody changes anything on the server, the rows and the
\* file are those of the remote once a pull has ended and its writes have landed.
RemoteEditsApply ==
    (~mode.push /\ ~died /\ NoServerEdits /\ CSQuiet /\ worker.pc = "idle" /\ base = rem) =>
        db.cfg = -nRem /\ side.cfg = -nRem

\* The same as long as every pull began after the rows and the file that the one
\* before it changed were written and read (nothing in gitsync.go waits for that;
\* RemoteEditsApply is broken where a pull does not): whatever the server rewrote
\* after earlier pulls is taken for a rewrite and yields to the remote.
PullOnlyFollows == ~hurried => RemoteEditsApply

\* The same in the usual mode: what the server pushes never undoes a remote edit.
FollowUpsNeverOverride == NoServerEdits => rem.val.cfg = -nRem

\* "the commit stays in apps_dir and is pushed on the next successful sync":
\* whatever races, failed pushes, refused rebases and dropped requests there were,
\* once edits stop, every commit is in the remote and the remote's are in HEAD.
BranchesConverge == mode.push /\ mode.apply => <>[](base = rem /\ ahead = <<>>)

\* A file that was pulled is applied ("Per-app sidecars apply alert rules and
\* backup configs"): once nothing is under way, the rows are those of the file.
PulledIsApplied == CSQuiet /\ worker.pc = "idle" /\ ~leftover /\ nEdit = 0 => db.cfg = side.cfg

\* "never change who can access an app": the grants are those that the dashboard
\* set last.
GrantKept == db.acc = nGrant

\* Fetch-only mode "does not apply those commits" until someone clicks Apply.
FetchOnly == ~pulled

\* A row marked synced stands for a change that was pushed: "rows written
\* concurrently during the push window are not stamped with this commit's SHA".
SyncedIsPushed == \A k \in DOMAIN audit : audit[k] = "synced" => pushedN >= k

\* "The remote change is not applied" over a local one: settings saved in the
\* dashboard are not replaced by pulled ones.
LocalWins == [][ImportPulled /\ db.cfg > 0 => db'.cfg > 0]_gvars
=============================================================================
