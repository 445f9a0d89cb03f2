---------------------------- MODULE GitSyncProofs ----------------------------
(***************************************************************************)
(* What git sync promises for any number of edits, remote commits, pulls,  *)
(* failed pushes and restarts.                                             *)
(*                                                                         *)
(* Access.  The list of the remote is in the file from the rebase until    *)
(* securePulledTree is done with it, so that the property is not           *)
(* inductive.  FileIsOurs follows the file through these steps: the tip    *)
(* that the worker remembers was the file before the rebase, and a file    *)
(* that is not the server's then is the tip after it.                      *)
(*                                                                         *)
(* Rebase.  Replay is a recursion over the local commits.  Its table is    *)
(* shown to exist and to follow its recursion (ReplayIsLast), by induction *)
(* in the form of NumbersFromZero, so that what each commit keeps, the     *)
(* rebase keeps (ReplayKeeps).                                             *)
(*                                                                         *)
(* Pull-only mode.  Nothing that the server rewrites may become an edit.   *)
(* Follows says why: whatever is not committed is a render of the rows as  *)
(* imported, and is noted as such or still to be noted by a write hook.    *)
(***************************************************************************)
EXTENDS GitSync, SequenceTheorems, WellFoundedInduction, TLAPS

----------------------------------------------------------------------------
(* Induction                                                               *)

Below == {ss \in Nat \X Nat : ss[1] < ss[2]}

\* A set of numbers with 0 and the successor of each of its members has them all.
LEMMA NumbersFromZero ==
  ASSUME NEW S, 0 \in S, \A n \in Nat : n \in S => n + 1 \in S
  PROVE  Nat \subseteq S
<1> SUFFICES ASSUME Nat \ S # {} PROVE FALSE
  OBVIOUS
<1>1. IsWellFoundedOn(Below, Nat)
  BY NatLessThanWellFounded DEF OpToRel, Below
<1>2. PICK m \in Nat \ S : \A k \in Nat \ S : <<k, m>> \notin Below
  BY <1>1, WFMin
<1>3. m - 1 \in Nat /\ m - 1 \in S
  <2>1. m - 1 \in Nat
    OBVIOUS
  <2>2. <<m - 1, m>> \in Below
    BY <2>1 DEF Below
  <2> QED BY <2>1, <2>2, <1>2
<1>4. m - 1 + 1 \in S
  BY <1>3
<1> QED BY <1>4

Parent(i) == IF i = 1 THEN base.val ELSE ahead[i - 1].val
Tip(s, v) == IF s = <<>> THEN v ELSE Last(s).val
Landed(i, s, v) ==
    {IF m = Tip(s, v) THEN s ELSE Append(s, Commit(m, ahead[i].edit)) :
        m \in Merged(Parent(i), ahead[i], Tip(s, v))}
AllLanded(i, S, v) == UNION {Landed(i, s, v) : s \in S}
Replays(R, n, v) ==
    R = [i \in 0 .. n |-> IF i = 0 THEN {<<>>} ELSE AllLanded(i, R[i - 1], v)]

\* The recursion of Replay has a solution.
LEMMA ReplaysExist == ASSUME NEW v, NEW n \in Nat PROVE \E R : Replays(R, n, v)
<1> DEFINE S == {k \in Nat : \E R : Replays(R, k, v)}
<1>1. 0 \in S
  <2> DEFINE R == [i \in 0 .. 0 |-> {<<>>}]
  <2>1. Replays(R, 0, v)
    BY DEF Replays
  <2> QED BY <2>1
<1>2. ASSUME NEW k \in Nat, k \in S PROVE k + 1 \in S
  <2>1. PICK R : Replays(R, k, v)
    BY <1>2
  <2> DEFINE Q == [i \in 0 .. k + 1 |-> IF i = k + 1 THEN AllLanded(i, R[k], v) ELSE R[i]]
  <2>2. \A i \in 0 .. k : R[i] = IF i = 0 THEN {<<>>} ELSE AllLanded(i, R[i - 1], v)
    BY <2>1 DEF Replays
  <2>3. \A i \in 0 .. k + 1 : Q[i] = IF i = 0 THEN {<<>>} ELSE AllLanded(i, Q[i - 1], v)
    <3> TAKE i \in 0 .. k + 1
    <3>1. CASE i = 0
      <4>1. Q[i] = R[i] /\ R[i] = {<<>>}
        BY <3>1, <2>2
      <4> QED BY <4>1, <3>1
    <3>2. CASE i # 0
      <4>1. i - 1 \in 0 .. k /\ Q[i - 1] = R[i - 1]
        BY <3>2
      <4>2. Q[i] = AllLanded(i, R[i - 1], v)
        BY <3>2, <2>2
      <4> QED BY <4>1, <4>2, <3>2
    <3> QED BY <3>1, <3>2
  <2>4. Replays(Q, k + 1, v)
    BY <2>3 DEF Replays
  <2> QED BY <2>4
<1>3. Nat \subseteq S
  <2> HIDE DEF S
  <2> QED BY <1>1, <1>2, NumbersFromZero
<1> QED BY <1>3

\* Replay follows its recursion.
LEMMA ReplayIsLast ==
  ASSUME NEW v, NEW n \in Nat
  PROVE  \E R : Replays(R, n, v) /\ Replay(n, v) = R[n]
<1> DEFINE R == CHOOSE Q : Replays(Q, n, v)
<1>1. Replays(R, n, v)
  BY ReplaysExist
<1>2. Replay(n, v) = R[n]
  BY DEF Replay, Replays, AllLanded, Parent, Landed, Tip
<1> QED BY <1>1, <1>2
\* What the replay of each commit keeps, the replay of all keeps.
LEMMA ReplayKeeps ==
  ASSUME NEW n \in Nat, NEW v, NEW I, <<>> \in I[0],
         \A i \in 1 .. n : \A s \in I[i - 1] : Landed(i, s, v) \subseteq I[i]
  PROVE  Replay(n, v) \subseteq I[n]
<1>1. PICK R : Replays(R, n, v) /\ Replay(n, v) = R[n]
  BY ReplayIsLast
<1>2. \A i \in 0 .. n : R[i] = IF i = 0 THEN {<<>>} ELSE AllLanded(i, R[i - 1], v)
  BY <1>1 DEF Replays
<1> DEFINE S == {k \in Nat : k <= n => R[k] \subseteq I[k]}
<1>3. 0 \in S
  BY <1>2
<1>4. ASSUME NEW k \in Nat, k \in S PROVE k + 1 \in S
  <2> SUFFICES ASSUME k + 1 <= n PROVE R[k + 1] \subseteq I[k + 1]
    OBVIOUS
  <2>1. k + 1 \in 1 .. n /\ k + 1 - 1 = k /\ R[k] \subseteq I[k]
    BY <1>4
  <2>2. R[k + 1] = AllLanded(k + 1, R[k], v)
    BY <2>1, <1>2
  <2>3. \A s \in R[k] : Landed(k + 1, s, v) \subseteq I[k + 1]
    BY <2>1
  <2> QED BY <2>2, <2>3 DEF AllLanded
<1>5. Nat \subseteq S
  <2> HIDE DEF S
  <2> QED BY <1>3, <1>4, NumbersFromZero
<1> QED BY <1>1, <1>5

----------------------------------------------------------------------------
(* Shapes                                                                  *)

Versions == [ver : Nat, val : Content]
Commits == [val : Content, edit : BOOLEAN]
Branches == [base : Versions, ahead : Seq(Commits)]
Fields == {"pc", "ctx", "ret", "ids", "staged", "snap", "was", "echo"}
Securing == {"secure", "secure2", "import", "render", "finish"}
Pulling == {"pending", "rebase", "secure", "secure2"}

\* The rows and the files that configsync is about to write are the dashboard's.
IsWriter(x) ==
    \/ x = IdleWriter
    \/ x = [pc |-> "hook"]
    \/ /\ x = [pc |-> "write", content |-> x.content]
       /\ x.content \in Content /\ x.content.acc >= 0
RowsFit ==
    /\ nEdit \in 0 .. MaxEdits /\ nGrant \in 0 .. MaxGrants /\ nRem \in 0 .. MaxRemote
    /\ db \in [cfg : -MaxRemote .. MaxEdits, acc : 0 .. MaxGrants]
    /\ side \in Content
    /\ writer = [w \in Writers |-> writer[w]] /\ \A w \in Writers : IsWriter(writer[w])

BranchesFit ==
    /\ {rem, orig, base} \subseteq Versions /\ base.ver <= orig.ver /\ orig.ver <= rem.ver
    /\ ahead \in Seq(Commits)
    /\ mode \in [push : BOOLEAN, apply : BOOLEAN]

RequestsFit ==
    /\ queue \in 0 .. QueueCap /\ hash \in Content \cup {None}
    /\ held => suppress
    /\ suppress => worker.pc \in Securing /\ worker.ctx = "apply"

\* What the worker has in its hands at each of its steps.
WorkerFits ==
    /\ worker = [f \in Fields |-> worker[f]]
    /\ worker.snap \in 0 .. MaxGrants
    /\ worker.pc = "commit" => worker.staged \in Content
    /\ worker.pc \in {"rebase", "secure"} => worker.was \in Branches
    /\ worker.pc \in Pulling => worker.ctx \in {"apply", "retry"}
    /\ worker.pc \in {"import", "render", "finish"} => worker.ctx = "apply"
    /\ worker.pc \in {"push", "push2", "refetch"} \/ (worker.pc \in Pulling /\ worker.ctx = "retry")
         => worker.ret \in {"mark", "after", "all"}

GitTyped == RowsFit /\ BranchesFit /\ RequestsFit /\ WorkerFits

\* While nothing died, only a worker that secures a pull has another's access list
\* in the file, and then it is the one at the tip.
FileIsOurs ==
    /\ leftover => died
    /\ ~died =>
         /\ worker.pc \notin {"secure", "secure2"} => side.acc >= 0
         /\ worker.pc \in {"rebase", "secure"} => HeadOf(worker.was.base, worker.was.ahead).acc >= 0
         /\ worker.pc = "secure" => side.acc >= 0 \/ side.acc = Head0.acc

AccessInv == GitTyped /\ FileIsOurs

\* Numbers of changes, and contents, of the server.
LEMMA Numbers ==
  /\ MaxEdits \in Nat /\ MaxGrants \in Nat /\ MaxRemote \in Nat /\ QueueCap \in Nat
  /\ AccessFromDashboard
  /\ \A c \in Content : c.cfg \in Int /\ c.acc \in Int
  /\ None \notin Content
<1>1. DOMAIN None = {"raw"}
  BY DEF None
<1>2. \A c \in Content : DOMAIN c = {"cfg", "acc", "raw"}
  BY DEF Content
<1>3. None \notin Content
  BY <1>1, <1>2
<1> QED BY <1>3, GitAssumption DEF Content

\* The tip of a branch.
LEMMA TipFits ==
  ASSUME NEW b \in Versions, NEW a \in Seq(Commits)
  PROVE  HeadOf(b, a) \in Content
<1>1. CASE a = <<>>
  BY <1>1 DEF HeadOf, Versions
<1>2. CASE a # <<>>
  <2>1. Len(a) \in 1 .. Len(a)
    BY <1>2
  <2>2. a[Len(a)] \in Commits
    BY <2>1
  <2> QED BY <1>2, <2>2 DEF HeadOf, Last, Commits
<1> QED BY <1>1, <1>2

\* A sequence and one more.
LEMMA AppendFits ==
  ASSUME NEW S, NEW s \in Seq(S), NEW x \in S
  PROVE  /\ DOMAIN Append(s, x) = 1 .. Len(s) + 1 /\ Append(s, x)[Len(s) + 1] = x
         /\ \A i \in 1 .. Len(s) : Append(s, x)[i] = s[i]
  OBVIOUS

\* A commit on top of a branch is its tip.
LEMMA CommitFits ==
  ASSUME NEW b, NEW a \in Seq(Commits), NEW v \in Content, NEW e \in BOOLEAN
  PROVE  /\ Append(a, Commit(v, e)) \in Seq(Commits)
         /\ HeadOf(b, Append(a, Commit(v, e))) = v
<1>1. Commit(v, e) \in Commits
  BY DEF Commit, Commits
<1>2. /\ Append(a, Commit(v, e)) \in Seq(Commits) /\ Append(a, Commit(v, e)) # <<>>
      /\ Len(Append(a, Commit(v, e))) = Len(a) + 1
      /\ Append(a, Commit(v, e))[Len(a) + 1] = Commit(v, e)
  BY <1>1
<1> QED BY <1>2 DEF HeadOf, Last, Commit

\* Merging a commit on top of a file: a file; settings that the commit of an edit
\* changed stay, and so do settings that all agree on; a follow-up that changed none
\* changes none.
LEMMA MergeFits ==
  ASSUME NEW p \in Content, NEW c \in Commits, NEW cur \in Content,
         NEW m \in Merged(p, c, cur)
  PROVE  /\ m \in Content
         /\ c.edit /\ p.cfg # c.val.cfg => m.cfg = c.val.cfg
         /\ p.cfg = c.val.cfg /\ cur.cfg = c.val.cfg => m.cfg = c.val.cfg
         /\ p.cfg = c.val.cfg /\ ~c.edit => m.cfg = cur.cfg
<1>1. c.val \in Content /\ c.edit \in BOOLEAN
  BY DEF Commits
<1>2. CASE m = c.val /\ (cur = p \/ m = Resolve(c, cur))
  BY <1>1, <1>2 DEF Resolve
<1>3. CASE cur # p /\ m = Resolve(c, cur)
  BY <1>1, <1>3 DEF Resolve
<1>4. CASE m = [cfg |-> IF "cfg" \in Changed(p, c.val) THEN c.val.cfg ELSE cur.cfg,
                acc |-> IF "acc" \in Changed(p, c.val) THEN c.val.acc ELSE cur.acc,
                raw |-> FALSE]
  <2>1. m.cfg = IF "cfg" \in Changed(p, c.val) THEN c.val.cfg ELSE cur.cfg
    BY <1>4
  <2>2. "cfg" \in Changed(p, c.val) <=> p.cfg # c.val.cfg
    BY DEF Changed
  <2>3. m \in Content
    BY <1>1, <1>4 DEF Content
  <2> QED BY <2>1, <2>2, <2>3
<1> QED BY <1>2, <1>3, <1>4 DEF Merged

\* Where the replay of one commit lands: its tip is the merged file.
LEMMA LandedFits ==
  ASSUME BranchesFit, NEW v \in Content, NEW i \in 1 .. Len(ahead), NEW s \in Seq(Commits),
         NEW t \in Landed(i, s, v)
  PROVE  /\ t \in Seq(Commits) /\ Parent(i) \in Content /\ ahead[i] \in Commits
         /\ Tip(s, v) \in Content /\ Tip(t, v) \in Merged(Parent(i), ahead[i], Tip(s, v))
<1>1. ahead[i] \in Commits /\ ahead[i].edit \in BOOLEAN /\ base.val \in Content
  <2>1. ahead[i] \in Commits /\ base \in Versions
    BY DEF BranchesFit
  <2> QED BY <2>1 DEF Commits, Versions
<1>2. Parent(i) \in Content
  <2>1. CASE i = 1
    BY <1>1, <2>1 DEF Parent
  <2>2. CASE i # 1
    <3>1. i - 1 \in 1 .. Len(ahead)
      BY <2>2
    <3>2. ahead[i - 1] \in Commits
      BY <3>1 DEF BranchesFit
    <3> QED BY <2>2, <3>2 DEF Parent, Commits
  <2> QED BY <2>1, <2>2
<1>3. Tip(s, v) \in Content
  <2>1. [ver |-> 0, val |-> v] \in Versions /\ HeadOf([ver |-> 0, val |-> v], s) = Tip(s, v)
    BY DEF Versions, HeadOf, Tip
  <2> QED BY <2>1, TipFits
<1>4. PICK m \in Merged(Parent(i), ahead[i], Tip(s, v)) :
        t = IF m = Tip(s, v) THEN s ELSE Append(s, Commit(m, ahead[i].edit))
  BY DEF Landed
<1>5. m \in Content
  BY <1>1, <1>2, <1>3, MergeFits
<1>6. t \in Seq(Commits) /\ Tip(t, v) = m
  <2>1. CASE m = Tip(s, v)
    BY <1>4, <2>1
  <2>2. CASE m # Tip(s, v)
    <3> DEFINE b == [ver |-> 0, val |-> v]
    <3>1. t = Append(s, Commit(m, ahead[i].edit))
      BY <1>4, <2>2
    <3>2. t \in Seq(Commits) /\ HeadOf(b, t) = m
      BY <1>1, <1>5, <3>1, CommitFits
    <3> QED BY <3>2 DEF HeadOf, Tip
  <2> QED BY <2>1, <2>2
<1> QED BY <1>1, <1>2, <1>3, <1>6

\* What a rebase makes of the local commits.
LEMMA ReplayFits ==
  ASSUME BranchesFit
  PROVE  Replay(Len(ahead), orig.val) \subseteq Seq(Commits)
<1> DEFINE I == [i \in 0 .. Len(ahead) |-> Seq(Commits)]
<1>1. Len(ahead) \in Nat /\ orig.val \in Content
  BY DEF BranchesFit, Versions
<1>2. <<>> \in I[0] /\ \A i \in 1 .. Len(ahead) : \A s \in I[i - 1] : Landed(i, s, orig.val) \subseteq I[i]
  BY <1>1, LandedFits
<1>3. I[Len(ahead)] = Seq(Commits)
  BY <1>1
<1> HIDE DEF I
<1> QED BY <1>1, <1>2, <1>3, ReplayKeeps


----------------------------------------------------------------------------
(* The worker                                                              *)

\* The worker goes on: what the step names changes, and the rest stays.
LEMMA Going ==
  ASSUME NEW r, worker = [f \in Fields |-> worker[f]], Go(r)
  PROVE  /\ worker' = [f \in Fields |-> worker'[f]]
         /\ \A f \in Fields : worker'[f] = IF f \in DOMAIN r THEN r[f] ELSE worker[f]
<1>1. DOMAIN worker = Fields
  OBVIOUS
<1> QED BY <1>1 DEF Go, Updated

\* The same when it forgets the rebase.
LEMMA GoingClean ==
  ASSUME NEW r, DOMAIN r \subseteq {"pc", "ret"}, worker = [f \in Fields |-> worker[f]], GoClean(r)
  PROVE  /\ worker' = [f \in Fields |-> worker'[f]]
         /\ worker'.ctx = "none" /\ worker'.snap = 0 /\ worker'.was = None
         /\ worker'.staged = worker.staged
         /\ "pc" \in DOMAIN r => worker'.pc = r.pc
         /\ worker'.ret = IF "ret" \in DOMAIN r THEN r.ret ELSE worker.ret
<1> DEFINE mid == Updated(worker, Clean)
<1>1. DOMAIN worker = Fields
  OBVIOUS
<1>2. mid = [f \in Fields |-> mid[f]]
  BY <1>1 DEF Updated
<1>3. \A f \in Fields : mid[f] = IF f \in DOMAIN Clean THEN Clean[f] ELSE worker[f]
  BY <1>1 DEF Updated
<1>4. DOMAIN Clean = {"ctx", "snap", "was", "echo"}
  BY DEF Clean
<1>5. mid.ctx = "none" /\ mid.snap = 0 /\ mid.was = None /\ mid.pc = worker.pc /\ mid.ret = worker.ret /\ mid.staged = worker.staged
  BY <1>3, <1>4 DEF Clean, Fields
<1> HIDE DEF mid
<1>6. worker' = [f \in Fields |-> IF f \in DOMAIN r THEN r[f] ELSE mid[f]]
  BY <1>2 DEF GoClean, Updated, mid
<1>7. \A f \in Fields : worker'[f] = IF f \in DOMAIN r THEN r[f] ELSE mid[f]
  BY <1>6
<1> QED BY <1>5, <1>6, <1>7 DEF Fields

\* A step that leaves the worker, the repository and git sync's bookkeeping alone.
LEMMA OutsideFits ==
  ASSUME GitTyped, RowsFit', UNCHANGED <<gitVars, reqVars, worker>>
  PROVE  GitTyped'
  BY DEF GitTyped, BranchesFit, RequestsFit, WorkerFits, gitVars, reqVars

\* At the start file, branches and rows agree.
LEMMA AccessInitInv == GInit => AccessInv
<1> SUFFICES ASSUME GInit PROVE AccessInv
  OBVIOUS
<1>1. RowsFit /\ side \in Content
  BY Numbers DEF GInit, CSInit, Render, RowsFit, IsWriter, IdleWriter, Content
<1>2. BranchesFit
  <2>1. [ver |-> 0, val |-> side] \in Versions
    BY <1>1 DEF Versions
  <2>2. rem \in Versions /\ rem.ver = 0
    BY <2>1 DEF GInit
  <2> QED BY <2>2, GitAssumption DEF GInit, BranchesFit
<1>3. worker = [f \in Fields |-> worker[f]]
  BY DEF GInit, IdleWorker, Fields
<1>4. WorkerFits
  <2>1. worker.pc = "idle" /\ worker.snap = 0
    BY DEF GInit, IdleWorker
  <2> QED BY <1>3, <2>1, Numbers DEF WorkerFits, Pulling
<1>5. RequestsFit
  BY Numbers DEF GInit, RequestsFit
<1>6. FileIsOurs
  <2>1. worker.pc = "idle" /\ side.acc = 0 /\ ~leftover
    BY DEF GInit, IdleWorker, CSInit, Render
  <2> QED BY <2>1 DEF FileIsOurs
<1> QED BY <1>1, <1>2, <1>4, <1>5, <1>6 DEF AccessInv, GitTyped

\* Changes, writes and the watcher: what is written are rows, and what is applied
\* leaves the access list alone (SetAccessFromDashboardOnly).
LEMMA SidecarFits ==
  ASSUME RowsFit, UNCHANGED nRem,
         \/ EditConfig \/ Grant \/ HandEdit \/ HandleEvent \/ FlushSidecars \/ ExpireMark
         \/ \E w \in Writers : BuildSidecar(w) \/ WriteSidecar(w) \/ EndWrite(w)
  PROVE  RowsFit' /\ (side'.acc = side.acc \/ side'.acc >= 0)
<1> USE Numbers
<1>1. CASE EditConfig
  BY <1>1, SMTT(30) DEF EditConfig, RowsFit, fileVars, watchVars
<1>2. CASE Grant
  BY <1>2 DEF Grant, RowsFit, fileVars, watchVars
<1>3. CASE HandEdit
  <2>1. side' \in Content /\ side'.acc = side.acc
    BY <1>3 DEF HandEdit, RowsFit, Content
  <2> QED BY <1>3, <2>1 DEF HandEdit, RowsFit
<1>4. CASE HandleEvent \/ ExpireMark
  BY <1>4 DEF HandleEvent, ExpireMark, RowsFit, rows, fileVars
<1>5. CASE FlushSidecars
  <2>1. db' \in [cfg : -MaxRemote .. MaxEdits, acc : 0 .. MaxGrants]
    BY <1>5 DEF FlushSidecars, ApplyFile, RowsFit, Content
  <2> QED BY <1>5, <2>1 DEF FlushSidecars, RowsFit, fileVars
<1>6. CASE \E w \in Writers : BuildSidecar(w) \/ EndWrite(w)
  <2>1. PICK w \in Writers : BuildSidecar(w) \/ EndWrite(w)
    BY <1>6
  <2>2. PICK x : writer' = [writer EXCEPT ![w] = x] /\ IsWriter(x)
    <3>1. Render(db) \in Content /\ Render(db).acc >= 0
      BY DEF Render, Content, RowsFit
    <3> QED BY <2>1, <3>1 DEF BuildSidecar, EndWrite, IsWriter
  <2> QED BY <2>1, <2>2 DEF BuildSidecar, EndWrite, RowsFit, rows, fileVars
<1>7. CASE \E w \in Writers : WriteSidecar(w)
  <2>1. PICK w \in Writers : WriteSidecar(w)
    BY <1>7
  <2>2. writer[w].content \in Content /\ writer[w].content.acc >= 0
    BY <2>1 DEF WriteSidecar, RowsFit, IsWriter, IdleWriter
  <2>3. side' \in Content /\ side'.acc >= 0
    BY <2>1, <2>2 DEF WriteSidecar
  <2>4. IsWriter([pc |-> "hook"])
    BY DEF IsWriter
  <2> QED BY <2>1, <2>3, <2>4 DEF WriteSidecar, RowsFit, rows
<1> QED BY <1>1, <1>2, <1>3, <1>4, <1>5, <1>6, <1>7

\* A file that changes to the dashboard's access list, or keeps its own, while the
\* worker does nothing.
LEMMA FileStaysOurs ==
  ASSUME FileIsOurs, side'.acc = side.acc \/ side'.acc >= 0,
         UNCHANGED <<base, ahead, worker, leftover, died>>
  PROVE  FileIsOurs'
  BY DEF FileIsOurs, Head0

\* The steps of configsync.
LEMMA SidecarStepKeeps == AccessInv /\ SidecarStep => AccessInv'
<1> SUFFICES ASSUME AccessInv, SidecarStep PROVE AccessInv'
  OBVIOUS
<1>1. RowsFit' /\ (side'.acc = side.acc \/ side'.acc >= 0)
  BY SidecarFits DEF AccessInv, GitTyped, SidecarStep, Landing, gitVars
<1>2. UNCHANGED <<gitVars, reqVars, worker, leftover, died>>
  BY DEF SidecarStep, histVars
<1> QED BY <1>1, <1>2, OutsideFits, FileStaysOurs DEF AccessInv, gitVars

\* The write hook and EnqueueCommit.
LEMMA WriteHookKeeps == AccessInv /\ (\E w \in Writers : WriteHook(w)) => AccessInv'
<1> SUFFICES ASSUME AccessInv, NEW w \in Writers, WriteHook(w) PROVE AccessInv'
  OBVIOUS
<1>1. EndWrite(w) /\ UNCHANGED <<gitVars, worker, suppress, leftover, died, nRem>>
  BY DEF WriteHook, histVars, gitVars
<1>2. RowsFit' /\ (side'.acc = side.acc \/ side'.acc >= 0)
  BY <1>1, SidecarFits DEF AccessInv, GitTyped
<1>3. RequestsFit'
  BY <1>1, Numbers DEF WriteHook, Enqueue, RequestsFit, AccessInv, GitTyped
<1>4. BranchesFit' /\ WorkerFits'
  BY <1>1 DEF AccessInv, GitTyped, BranchesFit, WorkerFits, gitVars
<1> QED BY <1>1, <1>2, <1>3, <1>4, FileStaysOurs DEF AccessInv, GitTyped, gitVars

\* A worker that is between two jobs, or about to stamp audit rows.
Easy ==
    /\ worker = [f \in Fields |-> worker[f]] /\ worker.snap \in 0 .. MaxGrants
    /\ worker.pc \in {"idle", "mark", "failed", "markall", "unpushed", "fetch"}

\* A worker that is done is at ease.
LEMMA IdleIsEasy == worker' = IdleWorker => Easy'
<1> SUFFICES ASSUME worker' = IdleWorker PROVE Easy'
  OBVIOUS
<1>1. worker'.pc = "idle" /\ worker'.snap = 0
  BY DEF IdleWorker
<1>2. worker' = [f \in Fields |-> worker'[f]]
  BY DEF IdleWorker, Fields
<1> QED BY <1>1, <1>2, Numbers DEF Easy

\* What follows a push, whether it worked or not.
LEMMA AfterPush ==
  ASSUME WorkerFits, worker.ret \in {"mark", "after", "all"}, Pushed \/ NotPushed
  PROVE  Easy'
<1>1. CASE worker' = IdleWorker
  BY <1>1, IdleIsEasy
<1>2. CASE GoClean([pc |-> "unpushed"])
  BY <1>2, GoingClean, Numbers DEF Easy, WorkerFits
<1>3. ASSUME NEW p \in {"mark", "failed", "markall"}, Go([pc |-> p]) PROVE Easy'
  BY <1>3, Going DEF Easy, WorkerFits, Fields
<1> QED BY <1>1, <1>2, <1>3 DEF Pushed, NotPushed

\* A worker at ease keeps the invariant if branches and rows fit and the file is
\* ours; unless it was securing a pull, the file was ours before.
LEMMA EasyKeeps ==
  ASSUME AccessInv, Easy', BranchesFit', worker.pc \notin Securing,
         UNCHANGED <<db, nEdit, nGrant, side, writer, nRem, hash, held, suppress, leftover, died>>,
         queue' \in 0 .. QueueCap
  PROVE  AccessInv'
<1>1. RowsFit'
  BY DEF AccessInv, GitTyped, RowsFit
<1>2. WorkerFits'
  BY DEF Easy, WorkerFits, Pulling
<1>3. ~suppress /\ RequestsFit'
  BY DEF AccessInv, GitTyped, RequestsFit
<1>4. FileIsOurs'
  BY DEF AccessInv, FileIsOurs, Easy, Securing
<1> QED BY <1>1, <1>2, <1>3, <1>4 DEF AccessInv, GitTyped

\* The worker takes a request and stages the file.
LEMMA TakeCommitKeeps == AccessInv /\ TakeCommit => AccessInv'
<1> SUFFICES ASSUME AccessInv, TakeCommit PROVE AccessInv'
  OBVIOUS
<1>1. UNCHANGED <<rows, side, writer, nRem, hash, held, suppress, leftover, died, base, ahead>>
  BY DEF TakeCommit, csVars, fileVars, gitVars, histVars
<1>2. RowsFit' /\ BranchesFit'
  BY <1>1 DEF TakeCommit, AccessInv, GitTyped, RowsFit, BranchesFit, rows, gitVars
<1>3. WorkerFits' /\ worker'.pc \in {"idle", "commit"}
  <2>1. CASE UNCHANGED worker
    BY <2>1 DEF TakeCommit, AccessInv, GitTyped, WorkerFits
  <2>2. CASE Go([pc |-> "commit", staged |-> side])
    <3>1. /\ worker' = [f \in Fields |-> worker'[f]] /\ worker'.pc = "commit"
          /\ worker'.staged = side /\ worker'.snap = worker.snap
      BY <2>2, Going DEF AccessInv, GitTyped, WorkerFits, Fields
    <3> QED BY <3>1 DEF AccessInv, GitTyped, WorkerFits, RowsFit, Pulling
  <2> QED BY <2>1, <2>2 DEF TakeCommit
<1>4. RequestsFit'
  BY <1>1, Numbers DEF TakeCommit, AccessInv, GitTyped, RequestsFit, Securing
<1>5. FileIsOurs'
  BY <1>1, <1>3 DEF TakeCommit, AccessInv, FileIsOurs
<1> QED BY <1>2, <1>3, <1>4, <1>5 DEF AccessInv, GitTyped

\* doCommit.
LEMMA DoCommitKeeps == AccessInv /\ DoCommit => AccessInv'
<1> SUFFICES ASSUME AccessInv, DoCommit PROVE AccessInv'
  OBVIOUS
<1>1. UNCHANGED <<rows, side, writer, nRem, hash, held, suppress, queue, leftover, died>>
  BY DEF DoCommit, csVars, fileVars, reqVars, histVars
<1>2. BranchesFit'
  <2>1. ahead' \in Seq(Commits)
    BY CommitFits DEF DoCommit, AccessInv, GitTyped, BranchesFit, WorkerFits
  <2> QED BY <2>1 DEF DoCommit, AccessInv, GitTyped, BranchesFit
<1>3. CASE worker' = IdleWorker
  BY <1>1, <1>2, <1>3, IdleIsEasy, EasyKeeps DEF DoCommit, Securing, AccessInv, GitTyped, RequestsFit, rows
<1>4. ASSUME NEW S, Go([pc |-> "push", ret |-> "mark", staged |-> None, ids |-> S]) PROVE AccessInv'
  <2>1. /\ worker' = [f \in Fields |-> worker'[f]] /\ worker'.pc = "push" /\ worker'.ret = "mark"
        /\ worker'.snap = worker.snap
    BY <1>4, Going DEF AccessInv, GitTyped, WorkerFits, Fields
  <2>2. WorkerFits'
    BY <2>1 DEF AccessInv, GitTyped, WorkerFits, Pulling
  <2>3. RequestsFit' /\ RowsFit'
    BY <1>1 DEF DoCommit, AccessInv, GitTyped, RequestsFit, RowsFit, Securing, rows
  <2>4. FileIsOurs'
    BY <1>1, <2>1 DEF DoCommit, AccessInv, FileIsOurs
  <2> QED BY <1>2, <2>2, <2>3, <2>4 DEF AccessInv, GitTyped
<1> QED BY <1>3, <1>4 DEF DoCommit

\* A worker that goes on to a step that secures nothing.
LEMMA MoveKeeps ==
  ASSUME AccessInv, BranchesFit', WorkerFits', worker.pc \notin Securing,
         worker'.pc \notin {"rebase", "secure", "secure2"},
         UNCHANGED <<db, nEdit, nGrant, side, writer, nRem, hash, held, suppress, queue, leftover, died>>
  PROVE  AccessInv'
<1>1. RowsFit'
  BY DEF AccessInv, GitTyped, RowsFit
<1>2. ~suppress /\ RequestsFit'
  BY DEF AccessInv, GitTyped, RequestsFit
<1>3. FileIsOurs'
  BY DEF AccessInv, FileIsOurs, Securing
<1> QED BY <1>1, <1>2, <1>3 DEF AccessInv, GitTyped

\* A push leaves the branch in the remote.
LEMMA PushKeeps == AccessInv /\ Push => AccessInv'
<1> SUFFICES ASSUME AccessInv, Push PROVE AccessInv'
  OBVIOUS
<1>1. /\ UNCHANGED <<db, nEdit, nGrant, side, writer, nRem, hash, held, suppress, queue, leftover, died>>
      /\ worker.pc \in {"push", "push2"}
  BY DEF Push, csVars, rows, fileVars, reqVars
<1>2. Head0 \in Content
  BY TipFits DEF AccessInv, GitTyped, BranchesFit, Head0
<1>3. BranchesFit'
  <2>1. CASE ahead = <<>>
    BY <2>1 DEF Push, AccessInv, GitTyped, BranchesFit
  <2>2. CASE ahead # <<>>
    <3>1. rem.ver \in Nat
      BY DEF AccessInv, GitTyped, BranchesFit, Versions
    <3>2. [ver |-> rem.ver + 1, val |-> Head0] \in Versions
      BY <1>2, <3>1 DEF Versions
    <3>3. rem' \in Versions /\ orig' = rem' /\ base' = rem' /\ ahead' = <<>>
      BY <2>2, <3>2 DEF Push
    <3>4. rem'.ver \in Nat /\ mode' = mode
      BY <3>3 DEF Versions, Push
    <3> QED BY <3>3, <3>4 DEF AccessInv, GitTyped, BranchesFit
  <2> QED BY <2>1, <2>2
<1>4. Easy'
  BY <1>1, AfterPush DEF Push, AccessInv, GitTyped, WorkerFits
<1>5. queue' \in 0 .. QueueCap /\ worker.pc \notin Securing
  BY <1>1 DEF AccessInv, GitTyped, RequestsFit, Securing
<1> QED BY <1>1, <1>3, <1>4, <1>5, EasyKeeps

\* A push that fails is tried again once.
LEMMA PushFailsKeeps == AccessInv /\ PushFails => AccessInv'
<1> SUFFICES ASSUME AccessInv, PushFails PROVE AccessInv'
  OBVIOUS
<1>1. /\ UNCHANGED <<db, nEdit, nGrant, side, writer, nRem, hash, held, suppress, queue, leftover, died>>
      /\ worker.pc \in {"push", "push2"}
  BY DEF PushFails, csVars, rows, fileVars, reqVars, gitVars, histVars
<1>2. BranchesFit'
  BY DEF PushFails, AccessInv, GitTyped, BranchesFit, gitVars
<1>3. queue' \in 0 .. QueueCap /\ worker.pc \notin Securing
  BY <1>1 DEF AccessInv, GitTyped, RequestsFit, Securing
<1>4. CASE NotPushed
  <2>1. Easy'
    BY <1>1, <1>4, AfterPush DEF AccessInv, GitTyped, WorkerFits
  <2> QED BY <1>1, <1>2, <1>3, <2>1, EasyKeeps
<1>5. CASE Go([pc |-> "refetch"])
  <2>1. /\ worker' = [f \in Fields |-> worker'[f]] /\ worker'.pc = "refetch"
        /\ worker'.ret = worker.ret /\ worker'.snap = worker.snap
    BY <1>5, Going DEF AccessInv, GitTyped, WorkerFits, Fields
  <2>2. WorkerFits'
    BY <1>1, <2>1 DEF AccessInv, GitTyped, WorkerFits, Pulling
  <2> QED BY <1>1, <1>2, <1>3, <2>1, <2>2, MoveKeeps
<1> QED BY <1>4, <1>5 DEF PushFails

\* The fetch before that second try.
LEMMA RefetchKeeps == AccessInv /\ Refetch => AccessInv'
<1> SUFFICES ASSUME AccessInv, Refetch PROVE AccessInv'
  OBVIOUS
<1>1. /\ UNCHANGED <<db, nEdit, nGrant, side, writer, nRem, hash, held, suppress, queue, leftover, died>>
      /\ worker.pc = "refetch"
  BY DEF Refetch, csVars, rows, fileVars, reqVars, histVars
<1>2. BranchesFit'
  BY DEF Refetch, AccessInv, GitTyped, BranchesFit, Versions
<1>3. queue' \in 0 .. QueueCap /\ worker.pc \notin Securing
  BY <1>1 DEF AccessInv, GitTyped, RequestsFit, Securing
<1>4. CASE NotPushed
  <2>1. Easy'
    BY <1>1, <1>4, AfterPush DEF AccessInv, GitTyped, WorkerFits
  <2> QED BY <1>1, <1>2, <1>3, <2>1, EasyKeeps
<1>5. CASE Go([pc |-> "pending", ctx |-> "retry", echo |-> FALSE])
  <2>1. /\ worker' = [f \in Fields |-> worker'[f]] /\ worker'.pc = "pending"
        /\ worker'.ctx = "retry" /\ worker'.ret = worker.ret /\ worker'.snap = worker.snap
    BY <1>5, Going DEF AccessInv, GitTyped, WorkerFits, Fields
  <2>2. WorkerFits'
    BY <1>1, <2>1 DEF AccessInv, GitTyped, WorkerFits, Pulling
  <2> QED BY <1>1, <1>2, <1>3, <2>1, <2>2, MoveKeeps
<1> QED BY <1>4, <1>5 DEF Refetch

\* Audit rows are stamped.
LEMMA MarkKeeps == AccessInv /\ Mark => AccessInv'
<1> SUFFICES ASSUME AccessInv, Mark PROVE AccessInv'
  OBVIOUS
<1>1. /\ UNCHANGED <<db, nEdit, nGrant, side, writer, nRem, hash, held, suppress, queue, leftover, died>>
      /\ worker.pc \in {"mark", "failed", "markall"} /\ worker' = IdleWorker
  BY DEF Mark, fileVars, gitVars, reqVars, histVars
<1>2. BranchesFit'
  BY DEF Mark, AccessInv, GitTyped, BranchesFit, gitVars
<1>3. queue' \in 0 .. QueueCap /\ worker.pc \notin Securing
  BY <1>1 DEF AccessInv, GitTyped, RequestsFit, Securing
<1> QED BY <1>1, <1>2, <1>3, IdleIsEasy, EasyKeeps

\* A pull starts.
LEMMA StartPullKeeps == ASSUME NEW ctx PROVE AccessInv /\ StartPull(ctx) => AccessInv'
<1> SUFFICES ASSUME AccessInv, StartPull(ctx) PROVE AccessInv'
  OBVIOUS
<1>1. /\ UNCHANGED <<db, nEdit, nGrant, side, writer, nRem, hash, held, suppress, queue, leftover, died>>
      /\ worker.pc = "idle" /\ Go([pc |-> "fetch", ctx |-> ctx])
  BY DEF StartPull, csVars, rows, fileVars, reqVars, gitVars, histVars
<1>2. BranchesFit'
  BY DEF StartPull, AccessInv, GitTyped, BranchesFit, gitVars
<1>3. queue' \in 0 .. QueueCap /\ worker.pc \notin Securing
  BY <1>1 DEF AccessInv, GitTyped, RequestsFit, Securing
<1>4. Easy'
  BY <1>1, Going DEF Easy, AccessInv, GitTyped, WorkerFits, Fields
<1> QED BY <1>1, <1>2, <1>3, <1>4, EasyKeeps

\* What the fetch finds decides what the pull does.
LEMMA FetchKeeps == AccessInv /\ FetchAndInspect => AccessInv'
<1> SUFFICES ASSUME AccessInv, FetchAndInspect PROVE AccessInv'
  OBVIOUS
<1>1. /\ UNCHANGED <<db, nEdit, nGrant, side, writer, nRem, hash, held, suppress, queue, leftover, died>>
      /\ worker.pc = "fetch"
  BY DEF FetchAndInspect, csVars, rows, fileVars, reqVars, histVars
<1>2. BranchesFit'
  BY DEF FetchAndInspect, AccessInv, GitTyped, BranchesFit, Versions
<1>3. queue' \in 0 .. QueueCap /\ worker.pc \notin Securing
  BY <1>1 DEF AccessInv, GitTyped, RequestsFit, Securing
<1>4. CASE Easy'
  BY <1>1, <1>2, <1>3, <1>4, EasyKeeps
<1>5. CASE Go([pc |-> "pending", ctx |-> "apply", echo |-> FALSE])
  <2>1. /\ worker' = [f \in Fields |-> worker'[f]] /\ worker'.pc = "pending"
        /\ worker'.ctx = "apply" /\ worker'.snap = worker.snap
    BY <1>5, Going DEF AccessInv, GitTyped, WorkerFits, Fields
  <2>2. WorkerFits'
    BY <1>1, <2>1 DEF AccessInv, GitTyped, WorkerFits, Pulling
  <2> QED BY <1>1, <1>2, <1>3, <2>1, <2>2, MoveKeeps
<1>6. CASE worker' = IdleWorker
  BY <1>4, <1>6, IdleIsEasy
<1>7. CASE GoClean([pc |-> "unpushed"])
  BY <1>4, <1>7, GoingClean, Numbers DEF Easy, AccessInv, GitTyped, WorkerFits
<1> QED BY <1>5, <1>6, <1>7 DEF FetchAndInspect

\* pushUnpushed.
LEMMA PushUnpushedKeeps == AccessInv /\ PushUnpushed => AccessInv'
<1> SUFFICES ASSUME AccessInv, PushUnpushed PROVE AccessInv'
  OBVIOUS
<1>1. /\ UNCHANGED <<db, nEdit, nGrant, side, writer, nRem, hash, held, suppress, queue, leftover, died>>
      /\ worker.pc = "unpushed"
  BY DEF PushUnpushed, csVars, rows, fileVars, reqVars, gitVars, histVars
<1>2. BranchesFit'
  BY DEF PushUnpushed, AccessInv, GitTyped, BranchesFit, gitVars
<1>3. queue' \in 0 .. QueueCap /\ worker.pc \notin Securing
  BY <1>1 DEF AccessInv, GitTyped, RequestsFit, Securing
<1>4. CASE worker' = IdleWorker
  BY <1>1, <1>2, <1>3, <1>4, IdleIsEasy, EasyKeeps
<1>5. CASE Go([pc |-> "push", ret |-> "all"])
  <2>1. /\ worker' = [f \in Fields |-> worker'[f]] /\ worker'.pc = "push"
        /\ worker'.ret = "all" /\ worker'.snap = worker.snap
    BY <1>5, Going DEF AccessInv, GitTyped, WorkerFits, Fields
  <2>2. WorkerFits'
    BY <1>1, <2>1 DEF AccessInv, GitTyped, WorkerFits, Pulling
  <2> QED BY <1>1, <1>2, <1>3, <2>1, <2>2, MoveKeeps
<1> QED BY <1>4, <1>5 DEF PushUnpushed

\* commitPending: what it remembers as the tip is the file.
LEMMA CommitPendingKeeps == AccessInv /\ CommitPending => AccessInv'
<1> SUFFICES ASSUME AccessInv, CommitPending PROVE AccessInv'
  OBVIOUS
<1> DEFINE f == IF leftover THEN Head0 ELSE side
           e == f # Head0 /\ PendingIsEdit
           a == IF f = Head0 THEN ahead ELSE Append(ahead, Commit(f, PendingIsEdit))
<1>1. /\ UNCHANGED <<db, nEdit, nGrant, writer, nRem, held, suppress, queue, hash, died, mode, rem, orig, base>>
      /\ worker.pc = "pending" /\ side' = f /\ ahead' = a /\ leftover' = FALSE
      /\ Go([pc |-> "rebase", snap |-> db.acc, was |-> [base |-> base, ahead |-> a], echo |-> e])
  BY DEF CommitPending, rows, histVars
<1>2. Head0 \in Content /\ side \in Content /\ f \in Content
  BY TipFits DEF AccessInv, GitTyped, BranchesFit, RowsFit, Head0
<1>3. PendingIsEdit \in BOOLEAN
  BY DEF PendingIsEdit
<1>4. a \in Seq(Commits) /\ HeadOf(base, a) = f
  <2>1. CASE f = Head0
    BY <2>1 DEF Head0, AccessInv, GitTyped, BranchesFit
  <2>2. CASE f # Head0
    BY <1>2, <1>3, <2>2, CommitFits DEF AccessInv, GitTyped, BranchesFit
  <2> QED BY <2>1, <2>2
<1> HIDE DEF f, e, a
<1>5. /\ worker' = [x \in Fields |-> worker'[x]] /\ worker'.pc = "rebase" /\ worker'.snap = db.acc
      /\ worker'.was = [base |-> base, ahead |-> a] /\ worker'.ctx = worker.ctx /\ worker'.ret = worker.ret
  BY <1>1, Going DEF AccessInv, GitTyped, WorkerFits, Fields
<1>6. worker'.was \in Branches
  BY <1>4, <1>5 DEF Branches, AccessInv, GitTyped, BranchesFit
<1>7. RowsFit' /\ BranchesFit'
  BY <1>1, <1>2, <1>4 DEF AccessInv, GitTyped, RowsFit, BranchesFit
<1>8. WorkerFits'
  <2>1. worker'.snap \in 0 .. MaxGrants
    BY <1>5 DEF AccessInv, GitTyped, RowsFit
  <2> QED BY <1>1, <1>5, <1>6, <2>1 DEF AccessInv, GitTyped, WorkerFits, Pulling
<1>9. RequestsFit'
  BY <1>1 DEF AccessInv, GitTyped, RequestsFit, Securing
<1>10. FileIsOurs'
  <2> SUFFICES ASSUME ~died PROVE f.acc >= 0
    BY <1>1, <1>4, <1>5 DEF FileIsOurs
  <2>1. ~leftover /\ side.acc >= 0
    BY <1>1 DEF AccessInv, FileIsOurs
  <2> QED BY <2>1 DEF f
<1> QED BY <1>7, <1>8, <1>9, <1>10 DEF AccessInv, GitTyped

\* rebaseServerWins refused: the file has uncommitted changes.
LEMMA RefusedKeeps ==
  ASSUME AccessInv, Rebase, UNCHANGED <<side, base, ahead, suppress>>,
         worker' = IdleWorker \/ (worker.ctx # "apply" /\ NotPushed)
  PROVE  AccessInv'
<1>1. /\ UNCHANGED <<db, nEdit, nGrant, side, writer, nRem, hash, held, suppress, queue, leftover, died>>
      /\ worker.pc = "rebase"
  BY DEF Rebase, rows
<1>2. BranchesFit'
  BY DEF Rebase, AccessInv, GitTyped, BranchesFit
<1>3. queue' \in 0 .. QueueCap /\ worker.pc \notin Securing
  BY <1>1 DEF AccessInv, GitTyped, RequestsFit, Securing
<1>4. CASE worker' = IdleWorker
  BY <1>1, <1>2, <1>3, <1>4, IdleIsEasy, EasyKeeps
<1>5. CASE worker.ctx # "apply" /\ NotPushed
  <2>1. worker.ret \in {"mark", "after", "all"}
    BY <1>1, <1>5 DEF AccessInv, GitTyped, WorkerFits, Pulling
  <2>2. Easy'
    BY <1>5, <2>1, AfterPush DEF AccessInv, GitTyped
  <2> QED BY <1>1, <1>2, <1>3, <2>2, EasyKeeps
<1> QED BY <1>4, <1>5

\* A step to a push, or to pushUnpushed, that forgets the rebase.
LEMMA LeaveFits ==
  ASSUME WorkerFits, worker.ret \in {"mark", "after", "all"} \/ worker.ctx # "retry",
         \/ worker.ctx = "retry" /\ GoClean([pc |-> "push2"])
         \/ GoClean([pc |-> "push", ret |-> "after"])
         \/ GoClean([pc |-> "unpushed"])
  PROVE  WorkerFits' /\ worker'.pc \in {"push2", "push", "unpushed"}
<1>1. CASE worker.ctx = "retry" /\ GoClean([pc |-> "push2"])
  <2>1. /\ worker' = [x \in Fields |-> worker'[x]] /\ worker'.snap = 0 /\ worker'.pc = "push2"
        /\ worker'.ret = worker.ret
    BY <1>1, GoingClean DEF WorkerFits
  <2> QED BY <1>1, <2>1, Numbers DEF WorkerFits, Pulling
<1>2. CASE GoClean([pc |-> "push", ret |-> "after"])
  <2>1. /\ worker' = [x \in Fields |-> worker'[x]] /\ worker'.snap = 0 /\ worker'.pc = "push"
        /\ worker'.ret = "after"
    BY <1>2, GoingClean DEF WorkerFits
  <2> QED BY <2>1, Numbers DEF WorkerFits, Pulling
<1>3. CASE GoClean([pc |-> "unpushed"])
  <2>1. /\ worker' = [x \in Fields |-> worker'[x]] /\ worker'.snap = 0 /\ worker'.pc = "unpushed"
    BY <1>3, GoingClean DEF WorkerFits
  <2> QED BY <2>1, Numbers DEF WorkerFits, Pulling
<1> QED BY <1>1, <1>2, <1>3

\* What the rebase leaves in the file is its tip, and the tip before it was ours.
LEMMA RebasedKeeps ==
  ASSUME AccessInv, Rebase, NEW a \in Replay(Len(ahead), orig.val),
         base' = orig, ahead' = a, side' = HeadOf(orig, a),
         \/ Go([pc |-> "secure"]) /\ suppress' = (worker.ctx = "apply")
         \/ /\ [base |-> orig, ahead |-> a] = worker.was /\ UNCHANGED suppress
            /\ \/ worker.ctx = "retry" /\ GoClean([pc |-> "push2"])
               \/ GoClean([pc |-> "push", ret |-> "after"])
               \/ GoClean([pc |-> "unpushed"])
  PROVE  AccessInv'
<1>1. /\ UNCHANGED <<db, nEdit, nGrant, writer, nRem, hash, held, queue, leftover, died, mode, rem, orig>>
      /\ worker.pc = "rebase"
  BY DEF Rebase, rows
<1>2. a \in Seq(Commits)
  BY ReplayFits DEF AccessInv, GitTyped
<1>3. BranchesFit'
  <2>1. orig \in Versions /\ orig.ver \in Nat /\ orig.ver <= rem.ver /\ rem \in Versions
    BY DEF AccessInv, GitTyped, BranchesFit, Versions
  <2> QED BY <1>1, <1>2, <2>1 DEF AccessInv, GitTyped, BranchesFit
<1>4. side' \in Content /\ Head0' = side'
  BY <1>2, TipFits DEF AccessInv, GitTyped, BranchesFit, Head0
<1>5. RowsFit'
  BY <1>1, <1>4 DEF AccessInv, GitTyped, RowsFit
<1>6. ~suppress /\ ~held /\ queue' \in 0 .. QueueCap /\ hash' \in Content \cup {None}
  BY <1>1 DEF AccessInv, GitTyped, RequestsFit, Securing
<1>7. /\ worker.was \in Branches /\ worker.ctx \in {"apply", "retry"}
      /\ worker.ret \in {"mark", "after", "all"} \/ worker.ctx # "retry"
  BY <1>1 DEF AccessInv, GitTyped, WorkerFits, Pulling
<1>8. ~died => HeadOf(worker.was.base, worker.was.ahead).acc >= 0
  BY <1>1 DEF AccessInv, FileIsOurs
<1>9. CASE Go([pc |-> "secure"]) /\ suppress' = (worker.ctx = "apply")
  <2>1. /\ worker' = [x \in Fields |-> worker'[x]] /\ worker'.pc = "secure" /\ worker'.snap = worker.snap
        /\ worker'.was = worker.was /\ worker'.ctx = worker.ctx /\ worker'.ret = worker.ret
    BY <1>9, Going DEF AccessInv, GitTyped, WorkerFits, Fields
  <2>2. WorkerFits'
    BY <1>1, <1>7, <2>1 DEF AccessInv, GitTyped, WorkerFits, Pulling
  <2>3. RequestsFit'
    BY <1>1, <1>6, <1>9, <2>1 DEF RequestsFit, Securing
  <2>4. FileIsOurs'
    BY <1>1, <1>4, <1>8, <2>1 DEF AccessInv, FileIsOurs
  <2> QED BY <1>3, <1>5, <2>2, <2>3, <2>4 DEF AccessInv, GitTyped
<1>10. ASSUME [base |-> orig, ahead |-> a] = worker.was, UNCHANGED suppress,
              \/ worker.ctx = "retry" /\ GoClean([pc |-> "push2"])
              \/ GoClean([pc |-> "push", ret |-> "after"])
              \/ GoClean([pc |-> "unpushed"])
       PROVE  AccessInv'
  <2>1. WorkerFits' /\ worker'.pc \in {"push2", "push", "unpushed"}
    BY <1>7, <1>10, LeaveFits DEF AccessInv, GitTyped
  <2>2. RequestsFit'
    BY <1>1, <1>6, <1>10 DEF RequestsFit
  <2>3. worker.was.base = orig /\ worker.was.ahead = a
    BY <1>10
  <2>4. FileIsOurs'
    BY <1>1, <1>8, <2>1, <2>3 DEF AccessInv, FileIsOurs
  <2> QED BY <1>3, <1>5, <2>1, <2>2, <2>4 DEF AccessInv, GitTyped
<1> QED BY <1>9, <1>10

\* The rebase.
LEMMA RebaseKeeps == AccessInv /\ Rebase => AccessInv'
<1> SUFFICES ASSUME AccessInv, Rebase PROVE AccessInv'
  OBVIOUS
<1>1. CASE UNCHANGED <<side, base, ahead, suppress>> /\ (worker' = IdleWorker \/ (worker.ctx # "apply" /\ NotPushed))
  BY <1>1, RefusedKeeps
<1>2. ASSUME NEW a \in Replay(Len(ahead), orig.val),
             base' = orig, ahead' = a, side' = HeadOf(orig, a),
             IF [base |-> orig, ahead |-> a] # worker.was
             THEN Go([pc |-> "secure"]) /\ suppress' = (worker.ctx = "apply")
             ELSE /\ UNCHANGED suppress
                  /\ IF worker.ctx = "retry" THEN GoClean([pc |-> "push2"]) ELSE PushOwn
      PROVE  AccessInv'
  <2>1. CASE [base |-> orig, ahead |-> a] # worker.was
    BY <1>2, <2>1, RebasedKeeps
  <2>2. CASE [base |-> orig, ahead |-> a] = worker.was
    <3>1. UNCHANGED suppress
      BY <1>2, <2>2
    <3>2. \/ worker.ctx = "retry" /\ GoClean([pc |-> "push2"])
          \/ GoClean([pc |-> "push", ret |-> "after"])
          \/ GoClean([pc |-> "unpushed"])
      BY <1>2, <2>2 DEF PushOwn
    <3> QED BY <1>2, <2>2, <3>1, <3>2, RebasedKeeps
  <2> QED BY <2>1, <2>2
<1> QED BY <1>1, <1>2 DEF Rebase

\* restoreDBAccess: a file that the rebase left as it was is ours.
LEMMA RestoreDBAccessKeeps == AccessInv /\ RestoreDBAccess => AccessInv'
<1> SUFFICES ASSUME AccessInv, RestoreDBAccess PROVE AccessInv'
  OBVIOUS
<1>1. /\ UNCHANGED <<nEdit, nGrant, side, writer, nRem, hash, held, suppress, queue, leftover, died,
                     mode, rem, orig, base, ahead>>
      /\ worker.pc = "secure" /\ (db' = db \/ db' = [db EXCEPT !.acc = worker.snap])
  BY DEF RestoreDBAccess, fileVars, gitVars, reqVars, histVars
<1>2. worker.snap \in 0 .. MaxGrants /\ worker.ctx \in {"apply", "retry"}
  BY <1>1 DEF AccessInv, GitTyped, WorkerFits, Pulling
<1>3. RowsFit'
  BY <1>1, <1>2 DEF AccessInv, GitTyped, RowsFit
<1>4. BranchesFit'
  BY <1>1 DEF AccessInv, GitTyped, BranchesFit
<1>5. CASE Go([pc |-> "secure2", was |-> None])
  <2>1. /\ worker' = [x \in Fields |-> worker'[x]] /\ worker'.pc = "secure2" /\ worker'.snap = worker.snap
        /\ worker'.ctx = worker.ctx /\ worker'.ret = worker.ret
    BY <1>5, Going DEF AccessInv, GitTyped, WorkerFits, Fields
  <2>2. WorkerFits'
    BY <1>1, <2>1 DEF AccessInv, GitTyped, WorkerFits, Pulling
  <2>3. RequestsFit' /\ FileIsOurs'
    BY <1>1, <2>1 DEF AccessInv, GitTyped, RequestsFit, FileIsOurs, Securing
  <2> QED BY <1>3, <1>4, <2>2, <2>3 DEF AccessInv, GitTyped
<1>6. ~FileChanged => (~died => side'.acc >= 0)
  BY <1>1 DEF FileChanged, AccessInv, FileIsOurs
<1>7. CASE ~FileChanged /\ worker.ctx = "retry" /\ GoClean([pc |-> "push2"])
  <2>1. WorkerFits' /\ worker'.pc \in {"push2", "push", "unpushed"}
    BY <1>1, <1>7, LeaveFits DEF AccessInv, GitTyped, WorkerFits, Pulling
  <2>2. RequestsFit' /\ FileIsOurs'
    BY <1>1, <1>6, <1>7, <2>1 DEF AccessInv, GitTyped, RequestsFit, FileIsOurs
  <2> QED BY <1>3, <1>4, <2>1, <2>2 DEF AccessInv, GitTyped
<1>8. CASE ~FileChanged /\ worker.ctx = "apply" /\ Go([pc |-> "finish", was |-> None, snap |-> 0])
  <2>1. /\ worker' = [x \in Fields |-> worker'[x]] /\ worker'.pc = "finish" /\ worker'.snap = 0
        /\ worker'.ctx = "apply"
    BY <1>8, Going DEF AccessInv, GitTyped, WorkerFits, Fields
  <2>2. WorkerFits'
    BY <2>1, Numbers DEF WorkerFits, Pulling
  <2>3. RequestsFit' /\ FileIsOurs'
    BY <1>1, <1>6, <1>8, <2>1 DEF AccessInv, GitTyped, RequestsFit, FileIsOurs, Securing
  <2> QED BY <1>3, <1>4, <2>2, <2>3 DEF AccessInv, GitTyped
<1> QED BY <1>5, <1>7, <1>8 DEF RestoreDBAccess

\* RestoreSidecarAccessTo: the list in the file is the one of the snapshot.
LEMMA RestoreSidecarAccessKeeps == AccessInv /\ RestoreSidecarAccess => AccessInv'
<1> SUFFICES ASSUME AccessInv, RestoreSidecarAccess PROVE AccessInv'
  OBVIOUS
<1>1. /\ UNCHANGED <<db, nEdit, nGrant, writer, nRem, hash, held, suppress, queue, leftover, died,
                     mode, rem, orig, base>>
      /\ worker.pc = "secure2"
  BY DEF RestoreSidecarAccess, rows, reqVars, histVars
<1>2. /\ worker.snap \in 0 .. MaxGrants /\ worker.ctx \in {"apply", "retry"}
      /\ worker.ret \in {"mark", "after", "all"} \/ worker.ctx # "retry"
  BY <1>1 DEF AccessInv, GitTyped, WorkerFits, Pulling
<1>3. side' \in Content /\ ahead' \in Seq(Commits) /\ side'.acc >= 0
  <2>1. side \in Content /\ ahead \in Seq(Commits)
    BY DEF AccessInv, GitTyped, RowsFit, BranchesFit
  <2>2. CASE side.acc # worker.snap
    <3>1. side' = [cfg |-> side.cfg, acc |-> worker.snap, raw |-> FALSE]
      BY <2>2 DEF RestoreSidecarAccess
    <3>2. side' \in Content /\ side'.acc >= 0
      BY <1>2, <2>1, <3>1, Numbers DEF Content
    <3>3. ahead' \in Seq(Commits)
      BY <2>1, <2>2, <3>2, CommitFits DEF RestoreSidecarAccess
    <3> QED BY <3>2, <3>3
  <2>3. CASE side.acc = worker.snap
    BY <1>2, <2>1, <2>3 DEF RestoreSidecarAccess
  <2> QED BY <2>2, <2>3
<1>4. RowsFit' /\ BranchesFit'
  BY <1>1, <1>3 DEF AccessInv, GitTyped, RowsFit, BranchesFit
<1>5. WorkerFits' /\ worker'.pc \in {"push2", "push", "unpushed", "import"}
      /\ (suppress => worker'.pc = "import" /\ worker'.ctx = "apply")
  <2>1. CASE worker.ctx = "retry"
    <3>1. WorkerFits' /\ worker'.pc \in {"push2", "push", "unpushed"}
      BY <1>2, <2>1, LeaveFits DEF RestoreSidecarAccess, AccessInv, GitTyped
    <3> QED BY <2>1, <3>1 DEF AccessInv, GitTyped, RequestsFit
  <2>2. ASSUME worker.ctx # "retry", NEW e, Go([pc |-> "import", snap |-> 0, echo |-> e])
        PROVE  WorkerFits' /\ worker'.pc = "import" /\ worker'.ctx = "apply"
    <3>1. /\ worker' = [x \in Fields |-> worker'[x]] /\ worker'.pc = "import" /\ worker'.snap = 0
          /\ worker'.ctx = worker.ctx
      BY <2>2, Going DEF AccessInv, GitTyped, WorkerFits, Fields
    <3> QED BY <1>2, <2>2, <3>1, Numbers DEF WorkerFits, Pulling
  <2> QED BY <2>1, <2>2 DEF RestoreSidecarAccess
<1>6. RequestsFit' /\ FileIsOurs'
  BY <1>1, <1>3, <1>5 DEF AccessInv, GitTyped, RequestsFit, FileIsOurs, Securing
<1> QED BY <1>4, <1>5, <1>6 DEF AccessInv, GitTyped

\* ImportAppSidecarWithOptions with SkipAccess.
LEMMA ImportPulledKeeps == AccessInv /\ ImportPulled => AccessInv'
<1> SUFFICES ASSUME AccessInv, ImportPulled PROVE AccessInv'
  OBVIOUS
<1>1. /\ UNCHANGED <<nEdit, nGrant, side, writer, nRem, hash, held, suppress, queue, leftover, died,
                     mode, rem, orig, base, ahead>>
      /\ worker.pc = "import" /\ db' = [db EXCEPT !.cfg = side.cfg] /\ Go([pc |-> "render"])
  BY DEF ImportPulled, Import, fileVars, gitVars, reqVars, histVars
<1>2. RowsFit'
  BY <1>1, Numbers DEF AccessInv, GitTyped, RowsFit, Content
<1>3. BranchesFit'
  BY <1>1 DEF AccessInv, GitTyped, BranchesFit
<1>4. /\ worker' = [x \in Fields |-> worker'[x]] /\ worker'.pc = "render" /\ worker'.snap = worker.snap
      /\ worker'.ctx = worker.ctx
  BY <1>1, Going DEF AccessInv, GitTyped, WorkerFits, Fields
<1>5. WorkerFits'
  BY <1>1, <1>4 DEF AccessInv, GitTyped, WorkerFits, Pulling
<1>6. RequestsFit' /\ FileIsOurs'
  BY <1>1, <1>4 DEF AccessInv, GitTyped, RequestsFit, FileIsOurs, Securing
<1> QED BY <1>2, <1>3, <1>5, <1>6 DEF AccessInv, GitTyped

\* finishImport and releaseHeld.
LEMMA FinishImportKeeps == AccessInv /\ FinishImport => AccessInv'
<1> SUFFICES ASSUME AccessInv, FinishImport PROVE AccessInv'
  OBVIOUS
<1>1. /\ UNCHANGED <<db, nEdit, nGrant, side, writer, nRem, leftover, died, mode, rem, orig, base, ahead>>
      /\ worker.pc \in {"render", "finish"} /\ PushOwn /\ suppress' = FALSE /\ held' = FALSE
  BY DEF FinishImport, csVars, rows, fileVars, gitVars, histVars
<1>2. RowsFit' /\ BranchesFit'
  BY <1>1 DEF AccessInv, GitTyped, RowsFit, BranchesFit
<1>3. WorkerFits' /\ worker'.pc \in {"push2", "push", "unpushed"}
  <2>1. worker.ctx # "retry"
    BY <1>1 DEF AccessInv, GitTyped, WorkerFits
  <2> QED BY <1>1, <2>1, LeaveFits DEF AccessInv, GitTyped, PushOwn
<1>4. hash' \in Content \cup {None} /\ queue' \in 0 .. QueueCap
  <2>1. Render(db) \in Content
    BY Numbers DEF Render, Content, AccessInv, GitTyped, RowsFit
  <2>2. hash \in Content \cup {None} /\ queue \in 0 .. QueueCap
    BY DEF AccessInv, GitTyped, RequestsFit
  <2> QED BY <2>1, <2>2, Numbers DEF FinishImport
<1>5. RequestsFit' /\ FileIsOurs'
  BY <1>1, <1>3, <1>4 DEF AccessInv, FileIsOurs, RequestsFit
<1> QED BY <1>2, <1>3, <1>5 DEF AccessInv, GitTyped

\* A commit that someone pushes to the remote.
LEMMA RemoteEditKeeps ==
  ASSUME NEW acc \in BOOLEAN, NEW raw \in BOOLEAN
  PROVE  AccessInv /\ RemoteEdit(acc, raw) => AccessInv'
<1> SUFFICES ASSUME AccessInv, RemoteEdit(acc, raw) PROVE AccessInv'
  OBVIOUS
<1>1. UNCHANGED <<db, nEdit, nGrant, side, writer, queue, hash, held, suppress, worker, leftover, died,
                  mode, orig, base, ahead>>
  BY DEF RemoteEdit, csVars, rows, fileVars, reqVars, histVars
<1>2. nRem' \in 1 .. MaxRemote
  BY Numbers DEF RemoteEdit, AccessInv, GitTyped, RowsFit
<1>3. rem' \in Versions /\ rem'.ver = rem.ver + 1
  <2>1. rem.ver \in Nat /\ rem.val \in Content
    BY DEF AccessInv, GitTyped, BranchesFit, Versions
  <2>2. [cfg |-> -nRem', acc |-> IF acc THEN -nRem' ELSE rem.val.acc, raw |-> raw] \in Content
    <3>1. PICK n : n = nRem'
      OBVIOUS
    <3>2. n \in 1 .. MaxRemote
      BY <1>2, <3>1
    <3>3. -n \in -MaxRemote .. MaxEdits /\ -n \in -MaxRemote .. MaxGrants
      BY <3>2, Numbers
    <3>4. [cfg |-> -n, acc |-> IF acc THEN -n ELSE rem.val.acc, raw |-> raw] \in Content
      BY <2>1, <3>3 DEF Content
    <3> QED BY <3>1, <3>4
  <2> QED BY <2>1, <2>2 DEF RemoteEdit, Versions
<1>4. RowsFit'
  BY <1>1, <1>2, Numbers DEF AccessInv, GitTyped, RowsFit
<1>5. BranchesFit'
  <2>1. rem.ver \in Nat /\ orig.ver \in Nat
    BY DEF AccessInv, GitTyped, BranchesFit, Versions
  <2> QED BY <1>1, <1>3, <2>1 DEF AccessInv, GitTyped, BranchesFit
<1>6. RequestsFit' /\ WorkerFits' /\ FileIsOurs'
  BY <1>1 DEF AccessInv, GitTyped, RequestsFit, WorkerFits, FileIsOurs, Head0
<1> QED BY <1>4, <1>5, <1>6 DEF AccessInv, GitTyped

\* The server dies and starts.
LEMMA RestartKeeps == AccessInv /\ Restart => AccessInv'
<1> SUFFICES ASSUME AccessInv, Restart PROVE AccessInv'
  OBVIOUS
<1>1. /\ UNCHANGED <<nEdit, nGrant, nRem, mode, rem, orig, base, ahead>>
      /\ writer' = [w \in Writers |-> IdleWriter] /\ worker' = IdleWorker /\ died' = TRUE
      /\ queue' = 0 /\ ~suppress' /\ ~held' /\ hash' = None
  BY DEF Restart, gitVars
<1>2. side' \in Content /\ db' \in [cfg : -MaxRemote .. MaxEdits, acc : 0 .. MaxGrants]
  <2>1. /\ side \in Content /\ orig.val \in Content
        /\ db \in [cfg : -MaxRemote .. MaxEdits, acc : 0 .. MaxGrants]
    BY DEF AccessInv, GitTyped, RowsFit, BranchesFit, Versions
  <2>2. ApplyFile(db, side) \in [cfg : -MaxRemote .. MaxEdits, acc : 0 .. MaxGrants]
    BY <2>1, Numbers DEF ApplyFile, Content
  <2> QED BY <2>1, <2>2 DEF Restart
<1>3. RowsFit' /\ BranchesFit'
  BY <1>1, <1>2 DEF AccessInv, GitTyped, RowsFit, BranchesFit, IsWriter
<1>4. WorkerFits' /\ RequestsFit' /\ FileIsOurs'
  <2>1. Easy'
    BY <1>1, IdleIsEasy
  <2> QED BY <1>1, <2>1, Numbers DEF Easy, WorkerFits, RequestsFit, FileIsOurs, Pulling
<1> QED BY <1>3, <1>4 DEF AccessInv, GitTyped

\* Every step keeps the invariant.
LEMMA AccessNextInv == AccessInv /\ [GNext]_gvars => AccessInv'
<1> SUFFICES ASSUME AccessInv, [GNext]_gvars PROVE AccessInv'
  OBVIOUS
<1>1. CASE UNCHANGED gvars
  <2>1. UNCHANGED <<db, nEdit, nGrant, side, writer, nRem, queue, hash, held, suppress, worker, leftover,
                    died, mode, rem, orig, base, ahead>>
    BY <1>1 DEF gvars, csVars, rows, fileVars, gitVars, reqVars, histVars
  <2> QED BY <2>1 DEF AccessInv, GitTyped, RowsFit, BranchesFit, RequestsFit, WorkerFits, FileIsOurs, Head0
<1>2. CASE Worker
  BY <1>2, TakeCommitKeeps, DoCommitKeeps, PushKeeps, PushFailsKeeps, RefetchKeeps, MarkKeeps, FetchKeeps,
     CommitPendingKeeps, RebaseKeeps, RestoreDBAccessKeeps, RestoreSidecarAccessKeeps,
     ImportPulledKeeps, FinishImportKeeps, PushUnpushedKeeps DEF Worker
<1>3. CASE \E k \in RemoteKinds : RemoteEdit(k[1], k[2])
  BY <1>3, RemoteEditKeeps, GitAssumption
<1> QED BY <1>1, <1>2, <1>3, SidecarStepKeeps, RestartKeeps, StartPullKeeps, WriteHookKeeps DEF GNext

\* The invariant holds from the start on.
LEMMA AccessInvariant == GSpec => []AccessInv
BY AccessInitInv, AccessNextInv, PTL DEF GSpec

\* The types of GTypeOK, for any number of edits, pulls, faults and restarts: requests
\* fit in commitCh, and are held only while an import runs.
THEOREM GitTypes == GSpec => []GTypeOK
<1>1. AccessInv => GTypeOK
  <2> SUFFICES ASSUME AccessInv PROVE GTypeOK
    OBVIOUS
  <2>1. \A i \in DOMAIN ahead : ahead[i] \in Commits
    BY DEF AccessInv, GitTyped, BranchesFit
  <2> QED BY <2>1 DEF AccessInv, GitTyped, RowsFit, BranchesFit, RequestsFit, Versions, Commits, GTypeOK
<1> QED BY <1>1, AccessInvariant, PTL

\* "never change who can access an app": no access list of the remote reaches the
\* grants, nor the file once a pull is secured, whatever is pulled, retried, refused
\* or interrupted.
THEOREM AccessStaysOurs == GSpec => []AccessNeverPulled
<1>1. AccessInv => AccessNeverPulled
  BY DEF AccessInv, GitTyped, RowsFit, FileIsOurs, AccessNeverPulled
<1> QED BY <1>1, AccessInvariant, PTL

----------------------------------------------------------------------------
(* Local state wins                                                        *)

\* Settings that the commit of an edit put in the file, and no commit after it
\* changed, are at the tip of every way to replay the commits.
LEMMA EditSurvives ==
  ASSUME BranchesFit, NEW v \in Content, NEW i \in 1 .. Len(ahead), NEW x,
         ahead[i].edit, Parent(i).cfg # x, \A k \in i .. Len(ahead) : ahead[k].val.cfg = x
  PROVE  \A s \in Replay(Len(ahead), v) : Tip(s, v).cfg = x
<1> DEFINE I == [k \in 0 .. Len(ahead) |-> {s \in Seq(Commits) : i <= k => Tip(s, v).cfg = x}]
<1>1. Len(ahead) \in Nat /\ i \in Nat /\ 1 <= i /\ i <= Len(ahead)
  BY DEF BranchesFit
<1>2. <<>> \in I[0]
  BY <1>1
<1>3. ASSUME NEW k \in 1 .. Len(ahead), NEW s \in I[k - 1], NEW t \in Landed(k, s, v)
      PROVE  t \in I[k]
  <2>1. s \in Seq(Commits) /\ (i <= k - 1 => Tip(s, v).cfg = x)
    BY <1>1
  <2>2. /\ t \in Seq(Commits) /\ Parent(k) \in Content /\ ahead[k] \in Commits
        /\ Tip(s, v) \in Content /\ Tip(t, v) \in Merged(Parent(k), ahead[k], Tip(s, v))
    BY <2>1, LandedFits
  <2>3. CASE k = i
    <3>1. Tip(t, v).cfg = x
      BY <1>1, <2>2, <2>3, MergeFits
    <3> QED BY <2>2, <3>1
  <2>4. CASE i <= k - 1
    <3>1. k - 1 \in i .. Len(ahead) /\ k \in i .. Len(ahead) /\ k # 1
      BY <1>1, <2>4
    <3>2. Parent(k).cfg = x /\ ahead[k].val.cfg = x
      BY <3>1 DEF Parent
    <3>3. Tip(t, v).cfg = x
      BY <2>1, <2>2, <2>4, <3>2, MergeFits
    <3> QED BY <2>2, <3>3
  <2>5. CASE k < i
    BY <1>1, <2>2, <2>5
  <2> QED BY <1>1, <2>3, <2>4, <2>5
<1>4. Replay(Len(ahead), v) \subseteq I[Len(ahead)]
  <2> HIDE DEF I
  <2> QED BY <1>1, <1>2, <1>3, ReplayKeeps
<1> QED BY <1>1, <1>4

\* "Local state wins on conflict": what a commit of an edit put in the file is there
\* after every rebase, for any number of local commits before and after it.
THEOREM LocalEditsKept == GSpec => LocalCommitKept
<1> DEFINE Kept ==
      \A i \in DOMAIN ahead :
        (/\ Rebase /\ base' # base /\ ahead[i].edit
         /\ ahead[i].val.cfg # (IF i = 1 THEN base.val.cfg ELSE ahead[i - 1].val.cfg)
         /\ \A k \in i .. Len(ahead) : ahead[k].val.cfg = Head0.cfg)
        => HeadOf(base', ahead').cfg = Head0.cfg
<1>1. AccessInv /\ [GNext]_gvars => [Kept]_gvars
  <2> SUFFICES ASSUME AccessInv, NEW i \in DOMAIN ahead, Rebase, base' # base, ahead[i].edit,
                      ahead[i].val.cfg # (IF i = 1 THEN base.val.cfg ELSE ahead[i - 1].val.cfg),
                      \A k \in i .. Len(ahead) : ahead[k].val.cfg = Head0.cfg
               PROVE  HeadOf(base', ahead').cfg = Head0.cfg
    OBVIOUS
  <2>1. PICK a \in Replay(Len(ahead), orig.val) : base' = orig /\ ahead' = a
    BY DEF Rebase
  <2>2. BranchesFit /\ i \in 1 .. Len(ahead) /\ i \in i .. Len(ahead) /\ orig.val \in Content
    BY DEF AccessInv, GitTyped, BranchesFit, Versions
  <2>3. ahead[i].val.cfg = Head0.cfg
    BY <2>2
  <2>4. Parent(i).cfg # Head0.cfg
    BY <2>3 DEF Parent
  <2>5. Tip(a, orig.val).cfg = Head0.cfg
    BY <2>1, <2>2, <2>4, EditSurvives
  <2> QED BY <2>1, <2>5 DEF HeadOf, Tip
<1>2. LocalCommitKept <=> [][Kept]_gvars
  BY PTL DEF LocalCommitKept
<1> HIDE DEF Kept
<1> QED BY <1>1, <1>2, AccessInvariant, PTL DEF GSpec

----------------------------------------------------------------------------
(* Pull-only mode                                                          *)

\* Nobody changes anything on the server, git sync does not push, and every pull so
\* far began after what the one before it changed was written.
PullOnly == ~mode.push /\ ~hurried /\ ~died /\ NoServerEdits
Writing == timer \/ \E w \in Writers : writer[w].pc # "idle"
Hooks == {w \in Writers : writer[w].pc = "hook"}

Follow(s, x) == \A i \in DOMAIN s : ~s[i].edit /\ s[i].val.cfg = x

\* Every local commit is a follow-up, and it and the file have the settings of the
\* remote commit that HEAD contains.
FollowsBase ==
    /\ rem.val.cfg = -nRem /\ side.cfg = base.val.cfg
    /\ Follow(ahead, base.val.cfg)

\* The rows follow the file, but for what is being imported.
RowsFollow ==
    /\ db.acc = 0
    /\ worker.pc \notin {"secure", "secure2", "import"} => db.cfg = side.cfg
    /\ Writing => db.cfg = side.cfg
    /\ \A w \in Writers : writer[w].pc = "write" => writer[w].content = Render(db)
    /\ Hooks # {} \/ held => side = Render(db)

\* What is not committed is a render of what was imported.
RendersNoted ==
    /\ queue = 0
    /\ ~suppress /\ ~CSQuiet => hash = Render(db)
    /\ side # Head0 => rewrite \/ held \/ Hooks # {}

\* The worker pulls and never pushes; it starts when nothing else is under way.
OnlyPulls ==
    /\ worker.pc \in {"idle", "fetch", "pending", "rebase", "unpushed"} \cup Securing
    /\ worker.pc \in Securing => suppress
    /\ worker.pc \in {"fetch", "pending", "rebase", "finish"} => CSQuiet /\ ~held
    /\ worker.pc = "rebase" => worker.was = Local /\ side = Head0
    /\ worker.pc \in Pulling \ {"pending"} => worker.snap = 0
    /\ worker.pc \in Pulling => worker.ctx = "apply"
    /\ worker.pc = "secure" /\ ~FileChanged => CSQuiet /\ ~held /\ db.cfg = side.cfg

Follows == FollowsBase /\ RowsFollow /\ RendersNoted /\ OnlyPulls

\* The step before was in that mode, too.
LEMMA PullOnlyBefore ==
  ASSUME AccessInv, [GNext]_gvars, PullOnly'
  PROVE  /\ PullOnly /\ UNCHANGED mode /\ ~Restart /\ ~EditConfig /\ ~Grant /\ ~HandEdit
         /\ (\E ctx \in {"poll", "manual"} : StartPull(ctx)) => CSQuiet
<1>1. nEdit \in Nat /\ nGrant \in Nat /\ nEdit' = 0 /\ nGrant' = 0 /\ ~died'
  BY Numbers DEF AccessInv, GitTyped, RowsFit, PullOnly, NoServerEdits
<1>2. ~Restart
  BY <1>1 DEF Restart
<1>3. ~EditConfig /\ ~Grant /\ ~HandEdit
  BY <1>1 DEF EditConfig, Grant, HandEdit
<1>4. UNCHANGED <<nEdit, nGrant, mode, died>> /\ (~hurried' => ~hurried)
  <2>1. CASE UNCHANGED gvars
    BY <2>1 DEF gvars, csVars, rows, gitVars, histVars
  <2>2. CASE Worker
    <3>1. CASE TakeCommit \/ DoCommit
      <4>1. UNCHANGED <<rows, mode, histVars>>
        BY <3>1 DEF TakeCommit, DoCommit, csVars, gitVars
      <4> QED BY <4>1 DEF rows, histVars
    <3>2. CASE Mark \/ FetchAndInspect
      BY <3>2 DEF Mark, FetchAndInspect, csVars, rows, gitVars, histVars
    <3>3. CASE CommitPending
      BY <3>3 DEF CommitPending, csVars, rows, gitVars, histVars
    <3>4. CASE Push
      BY <3>4 DEF Push, csVars, rows, gitVars, histVars
    <3>5. CASE PushFails
      BY <3>5 DEF PushFails, csVars, rows, gitVars, histVars
    <3>6. CASE Refetch \/ PushUnpushed
      BY <3>6 DEF Refetch, PushUnpushed, csVars, rows, gitVars, histVars
    <3>7. CASE Rebase
      BY <3>7 DEF Rebase, csVars, rows, gitVars, histVars
    <3>8. CASE RestoreDBAccess
      BY <3>8 DEF RestoreDBAccess, csVars, rows, gitVars, histVars
    <3>9. CASE RestoreSidecarAccess
      BY <3>9 DEF RestoreSidecarAccess, csVars, rows, gitVars, histVars
    <3>10. CASE ImportPulled \/ FinishImport
      BY <3>10 DEF ImportPulled, FinishImport, csVars, rows, gitVars, histVars
    <3> QED BY <2>2, <3>1, <3>2, <3>3, <3>4, <3>5, <3>6, <3>7, <3>8, <3>9, <3>10 DEF Worker
  <2>3. CASE SidecarStep
    <3>1. HandleEvent \/ FlushSidecars \/ ExpireMark \/ \E w \in Writers : BuildSidecar(w) \/ WriteSidecar(w)
      BY <1>3, <2>3 DEF SidecarStep, Landing
    <3>2. UNCHANGED <<nEdit, nGrant>>
      BY <3>1 DEF HandleEvent, FlushSidecars, ExpireMark, BuildSidecar, WriteSidecar, rows
    <3> QED BY <2>3, <3>2 DEF SidecarStep, gitVars, histVars
  <2>4. CASE \E ctx \in {"poll", "manual"} : StartPull(ctx)
    BY <2>4 DEF StartPull, csVars, rows, gitVars, histVars
  <2>5. CASE \E w \in Writers : WriteHook(w)
    BY <2>5 DEF WriteHook, EndWrite, rows, gitVars, histVars
  <2>6. CASE \E k \in RemoteKinds : RemoteEdit(k[1], k[2])
    BY <2>6 DEF RemoteEdit, csVars, rows, histVars
  <2> QED BY <1>2, <2>1, <2>2, <2>3, <2>4, <2>5, <2>6 DEF GNext
<1>5. (\E ctx \in {"poll", "manual"} : StartPull(ctx)) => CSQuiet
  BY DEF StartPull, PullOnly
<1> QED BY <1>1, <1>2, <1>3, <1>4, <1>5 DEF PullOnly, NoServerEdits

\* At the start file, rows and branches agree.
LEMMA FollowsInit == GInit => Follows
<1> SUFFICES ASSUME GInit PROVE Follows
  OBVIOUS
<1>1. /\ side = Render(db) /\ db = [cfg |-> 0, acc |-> 0] /\ rem.val = side /\ base = rem /\ ahead = <<>>
      /\ nRem = 0 /\ queue = 0 /\ ~held /\ ~timer /\ ~event /\ ~flush /\ worker.pc = "idle"
      /\ \A w \in Writers : writer[w].pc = "idle"
  BY DEF GInit, CSInit, IdleWriter, IdleWorker
<1>2. side.cfg = 0 /\ db.cfg = 0 /\ db.acc = 0 /\ -nRem = 0
  <2>1. -nRem = 0
    <3>1. \A n \in Int : -n = 0 - n
      OBVIOUS
    <3>2. nRem \in Int /\ 0 - nRem = 0
      BY <1>1
    <3>3. -nRem = 0 - nRem
      BY <3>1, <3>2
    <3> QED BY <3>2, <3>3
  <2>2. db.cfg = 0 /\ db.acc = 0
    BY <1>1
  <2> QED BY <1>1, <2>1, <2>2 DEF Render
<1>3. CSQuiet /\ ~Writing /\ Hooks = {}
  BY <1>1 DEF CSQuiet, Writing, Hooks
<1>4. side = Head0
  BY <1>1 DEF Head0, HeadOf
<1>5. FollowsBase
  BY <1>1, <1>2 DEF FollowsBase, Follow
<1>6. RowsFollow
  BY <1>1, <1>2, <1>3 DEF RowsFollow
<1>7. RendersNoted
  BY <1>1, <1>3, <1>4 DEF RendersNoted
<1>8. OnlyPulls
  BY <1>1 DEF OnlyPulls, Securing, Pulling
<1> QED BY <1>5, <1>6, <1>7, <1>8 DEF Follows

\* What a sidecar write and an apply leave: the rows do not change, and the file
\* gets the settings that it has.
LEMMA LandingFollows ==
  ASSUME AccessInv, PullOnly, Follows, SidecarStep, ~EditConfig, ~Grant, ~HandEdit
  PROVE  Follows'
<1>1. UNCHANGED <<rem, nRem, base, ahead, queue, held, suppress, hash, rewrite, worker>>
  BY DEF SidecarStep, gitVars, reqVars
<1>2. /\ side \in Content /\ db = [cfg |-> db.cfg, acc |-> db.acc] /\ db.acc = 0
      /\ writer = [w \in Writers |-> writer[w]]
  BY DEF AccessInv, GitTyped, RowsFit, Follows, RowsFollow
<1>3. Head0' = Head0
  BY <1>1 DEF Head0
<1>4. CASE HandleEvent \/ ExpireMark
  <2>1. UNCHANGED <<db, side, timer, writer>> /\ (CSQuiet => CSQuiet')
    BY <1>4 DEF HandleEvent, ExpireMark, rows, fileVars, CSQuiet
  <2>2. UNCHANGED <<Writing, Hooks, FileChanged, Render(db), Local>>
    BY <1>1, <1>3, <2>1 DEF Writing, Hooks, FileChanged, Render, Local
  <2>3. FollowsBase' /\ RowsFollow'
    BY <1>1, <2>1, <2>2 DEF Follows, FollowsBase, RowsFollow
  <2>4. RendersNoted'
    <3>1. ~CSQuiet' => ~CSQuiet
      BY <2>1
    <3> QED BY <1>1, <1>3, <2>1, <2>2, <3>1 DEF Follows, RendersNoted
  <2>5. OnlyPulls'
    BY <1>1, <1>3, <2>1, <2>2 DEF Follows, OnlyPulls
  <2> QED BY <2>3, <2>4, <2>5 DEF Follows
<1>5. CASE FlushSidecars
  <2>1. /\ ~CSQuiet /\ db' = [cfg |-> side.cfg, acc |-> db.acc] /\ timer'
        /\ UNCHANGED <<side, writer, event>>
    BY <1>5, Numbers DEF FlushSidecars, CSQuiet, ApplyFile, fileVars
  <2>2. db.cfg = side.cfg => db' = db
    BY <1>2, <2>1
  <2>3. UNCHANGED <<Hooks, FileChanged, Local>> /\ db'.cfg = side.cfg /\ db'.acc = 0
    BY <1>1, <1>2, <1>3, <2>1 DEF Hooks, FileChanged, Local
  <2>4. side = Render(db) => db.cfg = side.cfg
    BY DEF Render
  <2>5. RowsFollow'
    <3>1. \A w \in Writers : writer[w].pc = "write" => db' = db
      BY <2>2 DEF Follows, RowsFollow, Writing
    <3>2. Hooks # {} \/ held => db' = db
      BY <2>2, <2>4 DEF Follows, RowsFollow
    <3>3. \A w \in Writers : writer[w].pc = "write" => writer[w].content = Render(db')
      BY <3>1 DEF Follows, RowsFollow
    <3>4. Hooks # {} \/ held => side = Render(db')
      BY <3>2 DEF Follows, RowsFollow
    <3>5. Render(db)' = Render(db')
      BY DEF Render
    <3> QED BY <1>1, <2>1, <2>3, <3>3, <3>4, <3>5 DEF RowsFollow
  <2>6. RendersNoted'
    <3>1. ~suppress => db' = db
      BY <2>2 DEF Follows, OnlyPulls, RowsFollow, Securing
    <3>2. ~suppress => hash = Render(db) /\ Render(db)' = Render(db)
      BY <2>1, <3>1 DEF Follows, RendersNoted, Render
    <3> QED BY <1>1, <1>3, <2>1, <2>3, <3>2 DEF Follows, RendersNoted
  <2>7. OnlyPulls' /\ FollowsBase'
    BY <1>1, <1>3, <2>1, <2>3 DEF Follows, OnlyPulls, FollowsBase
  <2> QED BY <2>5, <2>6, <2>7 DEF Follows
<1>6. CASE \E w \in Writers : BuildSidecar(w)
  <2>1. PICK w \in Writers : BuildSidecar(w)
    BY <1>6
  <2>2. /\ timer /\ ~CSQuiet /\ UNCHANGED <<db, side>> /\ writer[w].pc = "idle"
        /\ writer' = [writer EXCEPT ![w] = [pc |-> "write", content |-> Render(db)]]
    BY <2>1 DEF BuildSidecar, rows, fileVars, CSQuiet
  <2>3. writer'[w] = [pc |-> "write", content |-> Render(db)] /\ \A x \in Writers \ {w} : writer'[x] = writer[x]
    BY <1>2, <2>2
  <2>4. Hooks' = Hooks
    BY <2>2, <2>3 DEF Hooks
  <2>5. db.cfg = side.cfg
    BY <2>2 DEF Follows, RowsFollow, Writing
  <2>6. UNCHANGED <<FileChanged, Local, Render(db)>>
    BY <1>1, <1>3, <2>2 DEF FileChanged, Local, Render
  <2>7. FollowsBase' /\ RowsFollow'
    BY <1>1, <2>2, <2>3, <2>4, <2>5, <2>6 DEF Follows, FollowsBase, RowsFollow
  <2>8. RendersNoted' /\ OnlyPulls'
    BY <1>1, <1>3, <2>2, <2>4, <2>6 DEF Follows, RendersNoted, OnlyPulls
  <2> QED BY <2>7, <2>8 DEF Follows
<1>7. CASE \E w \in Writers : WriteSidecar(w)
  <2>1. PICK w \in Writers : WriteSidecar(w)
    BY <1>7
  <2>2. /\ writer[w].pc = "write" /\ ~CSQuiet /\ UNCHANGED db /\ side' = Render(db)
        /\ writer' = [writer EXCEPT ![w] = [pc |-> "hook"]] /\ db.cfg = side.cfg
    BY <2>1 DEF WriteSidecar, rows, CSQuiet, Follows, RowsFollow, Writing
  <2>3. writer'[w] = [pc |-> "hook"] /\ \A x \in Writers \ {w} : writer'[x] = writer[x]
    BY <1>2, <2>2
  <2>4. Hooks' # {}
    BY <2>3 DEF Hooks
  <2>5. side'.cfg = side.cfg
    BY <2>2 DEF Render
  <2>6. UNCHANGED <<FileChanged, Local, Render(db)>>
    BY <1>1, <1>3, <2>2 DEF FileChanged, Local, Render
  <2>7. FollowsBase' /\ RowsFollow'
    BY <1>1, <2>2, <2>3, <2>5, <2>6 DEF Follows, FollowsBase, RowsFollow
  <2>8. RendersNoted' /\ OnlyPulls'
    BY <1>1, <2>2, <2>4, <2>6 DEF Follows, RendersNoted, OnlyPulls
  <2> QED BY <2>7, <2>8 DEF Follows
<1> QED BY <1>4, <1>5, <1>6, <1>7 DEF SidecarStep, Landing

\* One more follow-up with the same settings.
LEMMA FollowUpAdded ==
  ASSUME NEW s \in Seq(Commits), NEW v \in Content, Follow(s, v.cfg)
  PROVE  Follow(Append(s, Commit(v, FALSE)), v.cfg)
<1> DEFINE c == Commit(v, FALSE)
<1>1. c \in Commits /\ ~c.edit /\ c.val.cfg = v.cfg
  BY DEF Commit, Commits
<1> HIDE DEF c
<1>2. /\ DOMAIN Append(s, c) = 1 .. Len(s) + 1 /\ Append(s, c)[Len(s) + 1] = c
      /\ \A i \in 1 .. Len(s) : Append(s, c)[i] = s[i]
  BY <1>1, AppendFits
<1>3. Len(s) \in Nat /\ DOMAIN s = 1 .. Len(s)
  OBVIOUS
<1>4. ASSUME NEW i \in 1 .. Len(s) + 1
      PROVE  ~Append(s, c)[i].edit /\ Append(s, c)[i].val.cfg = v.cfg
  <2>1. CASE i = Len(s) + 1
    BY <1>1, <1>2, <2>1
  <2>2. CASE i # Len(s) + 1
    <3>1. i \in 1 .. Len(s)
      BY <1>3, <1>4, <2>2
    <3> QED BY <1>2, <1>3, <3>1 DEF Follow
  <2> QED BY <2>1, <2>2
<1>5. Follow(Append(s, c), v.cfg)
  BY <1>2, <1>4 DEF Follow
<1> QED BY <1>5 DEF c

\* The write hook meets a render of what was imported, and requests no commit.
LEMMA WriteHookFollows ==
  ASSUME AccessInv, PullOnly, Follows, NEW w \in Writers, WriteHook(w)
  PROVE  Follows'
<1>1. /\ UNCHANGED <<rem, nRem, base, ahead, suppress, worker, db, side, timer, event, flush>>
      /\ writer[w].pc = "hook" /\ writer' = [writer EXCEPT ![w] = IdleWriter]
  BY DEF WriteHook, EndWrite, gitVars, rows, fileVars, watchVars
<1>2. writer = [x \in Writers |-> writer[x]] /\ side \in Content
  BY DEF AccessInv, GitTyped, RowsFit
<1>3. ~CSQuiet /\ w \in Hooks /\ side = Render(db) /\ Writing
  BY <1>1 DEF CSQuiet, Hooks, Follows, RowsFollow, Writing
<1>4. writer'[w] = IdleWriter /\ \A x \in Writers \ {w} : writer'[x] = writer[x]
  BY <1>1, <1>2
<1>5. /\ UNCHANGED <<Head0, FileChanged, Local, Render(db)>>
      /\ \A x \in Writers : writer'[x].pc # "idle" => writer'[x] = writer[x]
  BY <1>1, <1>4 DEF Head0, FileChanged, Local, Render, IdleWriter
<1>6. CASE suppress
  <2>1. held' /\ UNCHANGED <<queue, rewrite, hash>>
    BY <1>6 DEF WriteHook
  <2>2. OnlyPulls'
    BY <1>1, <1>3, <1>5, <2>1 DEF Follows, OnlyPulls
  <2>3. RendersNoted'
    BY <1>1, <1>6, <2>1 DEF Follows, RendersNoted
  <2>4. RowsFollow'
    BY <1>1, <1>3, <1>5, <2>1 DEF Follows, RowsFollow, Writing
  <2>5. FollowsBase'
    BY <1>1 DEF Follows, FollowsBase
  <2> QED BY <2>2, <2>3, <2>4, <2>5 DEF Follows
<1>7. CASE ~suppress
  <2>1. hash = Render(db) /\ MatchesPullRender(side)
    BY <1>2, <1>3, <1>7, Numbers DEF Follows, RendersNoted, MatchesPullRender
  <2>2. rewrite' /\ UNCHANGED <<queue, hash, held>>
    BY <1>7, <2>1 DEF WriteHook, Enqueue
  <2>3. OnlyPulls'
    BY <1>1, <1>3, <1>5, <2>2 DEF Follows, OnlyPulls
  <2>4. RendersNoted'
    BY <1>1, <1>5, <2>1, <2>2 DEF Follows, RendersNoted
  <2>5. RowsFollow'
    BY <1>1, <1>3, <1>5, <2>2 DEF Follows, RowsFollow, Writing
  <2>6. FollowsBase'
    BY <1>1 DEF Follows, FollowsBase
  <2> QED BY <2>3, <2>4, <2>5, <2>6 DEF Follows
<1> QED BY <1>6, <1>7

\* A step of the worker that moves on and leaves all but the fetched branch alone.
LEMMA MoveFollows ==
  ASSUME Follows, OnlyPulls', worker.pc \notin {"secure", "secure2", "import"},
         UNCHANGED <<rem, nRem, base, ahead, csVars, reqVars>>
  PROVE  Follows'
<1>1. UNCHANGED <<Head0, CSQuiet, Hooks, Writing, Render(db)>>
  BY DEF Head0, CSQuiet, Hooks, Writing, csVars, rows, fileVars, watchVars, Render
<1>2. FollowsBase' /\ RowsFollow' /\ RendersNoted'
  BY <1>1 DEF Follows, FollowsBase, RowsFollow, RendersNoted, csVars, rows, fileVars, watchVars, reqVars
<1> QED BY <1>2 DEF Follows

\* A pull starts, and its fetch is inspected.
LEMMA FetchFollows ==
  ASSUME AccessInv, PullOnly, Follows,
         ((\E ctx \in {"poll", "manual"} : StartPull(ctx)) /\ CSQuiet) \/ FetchAndInspect
  PROVE  Follows'
<1>1. /\ UNCHANGED <<rem, nRem, base, ahead, csVars, reqVars>> /\ CSQuiet /\ ~held
      /\ worker.pc \in {"idle", "fetch"}
  BY DEF StartPull, FetchAndInspect, gitVars, PullOnly, Follows, OnlyPulls, AccessInv, GitTyped, RequestsFit,
     Securing
<1>2. CSQuiet' /\ ~held'
  BY <1>1 DEF CSQuiet, csVars, rows, fileVars, watchVars, reqVars
<1>3. \/ worker'.pc \in {"idle", "fetch", "unpushed"}
      \/ worker'.pc = "pending" /\ worker'.ctx = "apply"
  <2>1. worker = [f \in Fields |-> worker[f]]
    BY DEF AccessInv, GitTyped, WorkerFits
  <2>2. ASSUME NEW ctx, Go([pc |-> "fetch", ctx |-> ctx]) PROVE worker'.pc = "fetch"
    BY <2>1, <2>2, Going DEF Fields
  <2>3. ASSUME Go([pc |-> "pending", ctx |-> "apply", echo |-> FALSE])
        PROVE  worker'.pc = "pending" /\ worker'.ctx = "apply"
    BY <2>1, <2>3, Going DEF Fields
  <2>4. ASSUME GoClean([pc |-> "unpushed"]) PROVE worker'.pc = "unpushed"
    BY <2>1, <2>4, GoingClean
  <2>5. ASSUME worker' = IdleWorker PROVE worker'.pc = "idle"
    BY <2>5 DEF IdleWorker
  <2>6. CASE \E ctx \in {"poll", "manual"} : StartPull(ctx)
    BY <2>2, <2>6 DEF StartPull
  <2>7. CASE FetchAndInspect
    BY <2>3, <2>4, <2>5, <2>7 DEF FetchAndInspect
  <2> QED BY <2>6, <2>7
<1>4. OnlyPulls'
  BY <1>2, <1>3 DEF OnlyPulls, Securing, Pulling
<1> QED BY <1>1, <1>4, MoveFollows

\* commitPending: what is uncommitted becomes a follow-up.
LEMMA CommitPendingFollows ==
  ASSUME AccessInv, PullOnly, Follows, CommitPending
  PROVE  Follows'
<1> DEFINE a == IF side = Head0 THEN ahead ELSE Append(ahead, Commit(side, FALSE))
<1>1. /\ UNCHANGED <<db, nRem, rem, base, writer, timer, flush, held, suppress, queue, hash>>
      /\ worker.pc = "pending" /\ ~leftover /\ CSQuiet /\ ~held /\ Hooks = {}
  BY DEF CommitPending, rows, watchVars, PullOnly, AccessInv, FileIsOurs, Follows, OnlyPulls, CSQuiet, Hooks
<1>2. side # Head0 => PendingIsEdit = FALSE
  BY <1>1 DEF Follows, RendersNoted, PendingIsEdit
<1>3. ahead' = a /\ side' = side /\ ~event'
  <2>1. side' = side /\ ~event'
    BY <1>1 DEF CommitPending, CSQuiet
  <2>2. ahead' = IF side = Head0 THEN ahead ELSE Append(ahead, Commit(side, PendingIsEdit))
    BY <1>1 DEF CommitPending
  <2> QED BY <1>2, <2>1, <2>2
<1>4. side \in Content /\ ahead \in Seq(Commits) /\ base \in Versions
  BY DEF AccessInv, GitTyped, RowsFit, BranchesFit
<1>5. a \in Seq(Commits) /\ HeadOf(base, a) = side
  BY <1>4, CommitFits DEF Head0
<1>6. Follow(a, base.val.cfg)
  BY <1>4, FollowUpAdded DEF Follows, FollowsBase
<1> HIDE DEF a
<1>7. /\ worker'.pc = "rebase" /\ worker'.snap = 0 /\ worker'.ctx = "apply"
      /\ worker'.was = [base |-> base, ahead |-> a]
  <2>1. \E e : Go([pc |-> "rebase", snap |-> db.acc, was |-> [base |-> base, ahead |-> a], echo |-> e])
    <3>1. PICK e, x : /\ Go([pc |-> "rebase", snap |-> db.acc, was |-> [base |-> base, ahead |-> x], echo |-> e])
                      /\ ahead' = x
      BY DEF CommitPending
    <3> QED BY <1>3, <3>1
  <2>2. worker = [f \in Fields |-> worker[f]] /\ worker.ctx = "apply" /\ db.acc = 0
    BY <1>1 DEF AccessInv, GitTyped, WorkerFits, Follows, OnlyPulls, RowsFollow, Pulling
  <2>3. PICK e : Go([pc |-> "rebase", snap |-> db.acc, was |-> [base |-> base, ahead |-> a], echo |-> e])
    BY <2>1
  <2> DEFINE r == [pc |-> "rebase", snap |-> db.acc, was |-> [base |-> base, ahead |-> a], echo |-> e]
  <2>4. \A f \in Fields : worker'[f] = IF f \in DOMAIN r THEN r[f] ELSE worker[f]
    BY <2>2, <2>3, Going
  <2> QED BY <2>2, <2>4 DEF Fields
<1>8. side' = Head0' /\ CSQuiet' /\ UNCHANGED <<Writing, Hooks, Render(db)>> /\ worker'.was = Local'
  BY <1>1, <1>3, <1>5, <1>7 DEF Head0, CSQuiet, Writing, Hooks, Render, Local
<1>9. FollowsBase'
  BY <1>1, <1>3, <1>6 DEF Follows, FollowsBase
<1>10. RowsFollow'
  BY <1>1, <1>3, <1>7, <1>8 DEF Follows, RowsFollow
<1>11. RendersNoted'
  BY <1>1, <1>8 DEF Follows, RendersNoted
<1>12. OnlyPulls'
  BY <1>1, <1>7, <1>8 DEF OnlyPulls, Securing, Pulling
<1> QED BY <1>9, <1>10, <1>11, <1>12 DEF Follows

\* A rebase of follow-ups: they take the settings of what they land on.
LEMMA FollowUpsLand ==
  ASSUME BranchesFit, NEW v \in Content, Follow(ahead, base.val.cfg)
  PROVE  \A s \in Replay(Len(ahead), v) : Follow(s, v.cfg)
<1> DEFINE I == [k \in 0 .. Len(ahead) |-> {s \in Seq(Commits) : Follow(s, v.cfg) /\ Tip(s, v).cfg = v.cfg}]
<1>1. Len(ahead) \in Nat /\ ahead \in Seq(Commits)
  BY DEF BranchesFit
<1>2. <<>> \in I[0]
  BY <1>1 DEF Tip, Follow
<1>3. ASSUME NEW k \in 1 .. Len(ahead), NEW s \in I[k - 1], NEW t \in Landed(k, s, v)
      PROVE  t \in I[k]
  <2>1. s \in Seq(Commits) /\ Follow(s, v.cfg) /\ Tip(s, v).cfg = v.cfg
    BY <1>1
  <2>2. /\ t \in Seq(Commits) /\ Parent(k) \in Content /\ ahead[k] \in Commits
        /\ Tip(s, v) \in Content /\ Tip(t, v) \in Merged(Parent(k), ahead[k], Tip(s, v))
    BY <2>1, LandedFits
  <2>3. ~ahead[k].edit /\ ahead[k].val.cfg = base.val.cfg
    BY <1>1 DEF Follow
  <2>4. Parent(k).cfg = base.val.cfg
    <3>1. k # 1 => k - 1 \in DOMAIN ahead
      BY <1>1
    <3> QED BY <3>1 DEF Parent, Follow
  <2>5. Tip(t, v).cfg = v.cfg
    BY <2>1, <2>2, <2>3, <2>4, MergeFits
  <2>6. Follow(t, v.cfg)
    <3>1. PICK m \in Merged(Parent(k), ahead[k], Tip(s, v)) :
            t = IF m = Tip(s, v) THEN s ELSE Append(s, Commit(m, ahead[k].edit))
      BY DEF Landed
    <3>2. m \in Content /\ m.cfg = v.cfg
      BY <2>1, <2>2, <2>3, <2>4, MergeFits
    <3>3. ahead[k].edit = FALSE
      BY <2>2, <2>3 DEF Commits
    <3>4. Follow(Append(s, Commit(m, FALSE)), v.cfg)
      BY <2>1, <3>2, FollowUpAdded
    <3> QED BY <2>1, <3>1, <3>3, <3>4
  <2> QED BY <1>1, <2>2, <2>5, <2>6
<1>4. Replay(Len(ahead), v) \subseteq I[Len(ahead)]
  <2> HIDE DEF I
  <2> QED BY <1>1, <1>2, <1>3, ReplayKeeps
<1> QED BY <1>1, <1>4

\* The tip of follow-ups has their settings.
LEMMA FollowTip ==
  ASSUME NEW b \in Versions, NEW a \in Seq(Commits), Follow(a, b.val.cfg)
  PROVE  HeadOf(b, a).cfg = b.val.cfg
<1>1. a # <<>> => Len(a) \in DOMAIN a
  OBVIOUS
<1> QED BY <1>1 DEF HeadOf, Last, Follow

\* The rebase brings the settings of the remote into the file.
LEMMA RebaseFollows ==
  ASSUME AccessInv, PullOnly, Follows, Rebase
  PROVE  Follows'
<1>1. /\ UNCHANGED <<db, nRem, rem, orig, writer, timer, flush, held, queue, hash, rewrite>>
      /\ worker.pc = "rebase" /\ CSQuiet /\ ~held /\ Hooks = {} /\ ~Writing /\ side = Head0
      /\ worker.was = Local /\ worker.ctx = "apply" /\ worker.snap = 0 /\ db.cfg = side.cfg
  BY DEF Rebase, rows, watchVars, Follows, OnlyPulls, CSQuiet, Hooks, Writing, Pulling, RowsFollow
<1>2. PICK a \in Replay(Len(ahead), orig.val) :
         /\ base' = orig /\ ahead' = a /\ side' = HeadOf(orig, a) /\ event' = (event \/ side' # side)
         /\ IF [base |-> orig, ahead |-> a] # worker.was
            THEN Go([pc |-> "secure"]) /\ suppress' = (worker.ctx = "apply")
            ELSE /\ UNCHANGED suppress
                 /\ IF worker.ctx = "retry" THEN GoClean([pc |-> "push2"]) ELSE PushOwn
  BY <1>1 DEF Rebase
<1>3. orig \in Versions /\ orig.val \in Content /\ a \in Seq(Commits)
  BY ReplayFits DEF AccessInv, GitTyped, BranchesFit, Versions
<1>4. Follow(a, orig.val.cfg) /\ side'.cfg = orig.val.cfg
  BY <1>2, <1>3, FollowUpsLand, FollowTip DEF Follows, FollowsBase, AccessInv, GitTyped
<1>5. FollowsBase'
  BY <1>1, <1>2, <1>4 DEF Follows, FollowsBase
<1>6. side' = Head0' /\ Hooks' = {} /\ ~Writing' /\ ~held'
  BY <1>1, <1>2 DEF Head0, Hooks, Writing
<1>7. side' = side => CSQuiet'
  BY <1>1, <1>2 DEF CSQuiet
<1>8. worker = [f \in Fields |-> worker[f]]
  BY DEF AccessInv, GitTyped, WorkerFits
<1>9. \A w \in Writers : writer'[w].pc # "write"
  BY <1>6 DEF Writing
<1>10. CASE Go([pc |-> "secure"]) /\ suppress' = (worker.ctx = "apply")
  <2>1. worker'.pc = "secure" /\ worker'.was = worker.was /\ worker'.ctx = "apply" /\ worker'.snap = 0
    BY <1>1, <1>8, <1>10, Going DEF Fields
  <2>2. worker'.was = Local /\ HeadOf(base, ahead) = side
    BY <1>1, <2>1 DEF Head0
  <2>3. ~FileChanged' => side' = side
    BY <1>6, <2>2 DEF FileChanged, Local
  <2>4. OnlyPulls'
    BY <1>1, <1>6, <1>7, <1>10, <2>1, <2>3 DEF OnlyPulls, Securing, Pulling
  <2>5. RowsFollow'
    BY <1>1, <1>6, <1>9, <2>1 DEF Follows, RowsFollow
  <2>6. RendersNoted'
    BY <1>1, <1>6, <1>10 DEF Follows, RendersNoted
  <2> QED BY <1>5, <2>4, <2>5, <2>6 DEF Follows
<1>11. CASE [base |-> orig, ahead |-> a] = worker.was /\ PushOwn /\ UNCHANGED suppress
  <2>1. worker'.pc = "unpushed"
    BY <1>8, <1>11, GoingClean DEF PushOwn, PullOnly
  <2>2. orig = base /\ a = ahead
    BY <1>1, <1>11 DEF Local
  <2>3. side' = side
    BY <1>1, <1>2, <2>2 DEF Head0
  <2>4. OnlyPulls'
    BY <2>1 DEF OnlyPulls, Securing, Pulling
  <2>5. RowsFollow'
    BY <1>1, <1>6, <1>9, <2>1, <2>3 DEF Follows, RowsFollow
  <2>6. RendersNoted'
    BY <1>1, <1>6, <1>7, <2>3 DEF Follows, RendersNoted
  <2> QED BY <1>5, <2>4, <2>5, <2>6 DEF Follows
<1> QED BY <1>1, <1>2, <1>10, <1>11

\* Grants are those from before the pull, so that nothing is restored in the rows.
LEMMA RestoreDBAccessFollows ==
  ASSUME AccessInv, PullOnly, Follows, RestoreDBAccess
  PROVE  Follows'
<1>1. /\ worker.pc = "secure" /\ worker.ctx = "apply" /\ db.acc = worker.snap
      /\ worker = [f \in Fields |-> worker[f]]
  BY DEF RestoreDBAccess, Follows, OnlyPulls, RowsFollow, Pulling, AccessInv, GitTyped, WorkerFits
<1>2. UNCHANGED <<rem, nRem, base, ahead, csVars, reqVars>>
  BY <1>1 DEF RestoreDBAccess, gitVars, csVars, rows
<1>3. UNCHANGED <<Head0, CSQuiet, Hooks, Writing, Render(db)>>
  BY <1>2 DEF Head0, CSQuiet, Hooks, Writing, csVars, rows, fileVars, watchVars, Render
<1>4. \/ worker'.pc = "secure2" /\ worker'.ctx = "apply" /\ worker'.snap = 0
      \/ worker'.pc = "finish" /\ ~FileChanged
  <2>1. ASSUME Go([pc |-> "secure2", was |-> None])
        PROVE  worker'.pc = "secure2" /\ worker'.ctx = worker.ctx /\ worker'.snap = worker.snap
    BY <1>1, <2>1, Going DEF Fields
  <2>2. ASSUME Go([pc |-> "finish", was |-> None, snap |-> 0]) PROVE worker'.pc = "finish"
    BY <1>1, <2>2, Going DEF Fields
  <2> QED BY <1>1, <2>1, <2>2 DEF RestoreDBAccess, Follows, RowsFollow
<1>5. worker'.pc = "finish" => CSQuiet /\ ~held /\ db.cfg = side.cfg
  BY <1>1, <1>4 DEF Follows, OnlyPulls
<1>6. OnlyPulls'
  BY <1>1, <1>2, <1>3, <1>4, <1>5 DEF Follows, OnlyPulls, Securing, Pulling, reqVars
<1>7. FollowsBase' /\ RowsFollow' /\ RendersNoted'
  BY <1>2, <1>3, <1>4, <1>5
     DEF Follows, FollowsBase, RowsFollow, RendersNoted, csVars, rows, fileVars, watchVars, reqVars
<1> QED BY <1>6, <1>7 DEF Follows

\* The access list goes back into the file; the settings stay.
LEMMA RestoreSidecarFollows ==
  ASSUME AccessInv, PullOnly, Follows, RestoreSidecarAccess
  PROVE  Follows'
<1>1. /\ UNCHANGED <<db, nRem, rem, base, writer, timer, flush, held, queue, hash, rewrite, suppress>>
      /\ worker.pc = "secure2" /\ worker.ctx = "apply" /\ worker.snap = 0 /\ suppress
      /\ worker = [f \in Fields |-> worker[f]]
  BY DEF RestoreSidecarAccess, rows, watchVars, reqVars, Follows, OnlyPulls, Pulling, Securing,
     AccessInv, GitTyped, WorkerFits
<1>2. worker'.pc = "import"
  <2>1. ASSUME NEW e, Go([pc |-> "import", snap |-> 0, echo |-> e]) PROVE worker'.pc = "import"
    BY <1>1, <2>1, Going DEF Fields
  <2> QED BY <1>1, <2>1 DEF RestoreSidecarAccess
<1>3. UNCHANGED <<Hooks, Writing, Render(db)>>
  BY <1>1 DEF Hooks, Writing, Render
<1>4. OnlyPulls'
  BY <1>1, <1>2 DEF OnlyPulls, Securing, Pulling
<1>5. CASE side.acc = 0
  <2>1. UNCHANGED <<side, ahead>>
    BY <1>1, <1>5 DEF RestoreSidecarAccess
  <2>2. UNCHANGED Head0
    BY <1>1, <2>1 DEF Head0
  <2> QED BY <1>1, <1>2, <1>3, <1>4, <2>1, <2>2 DEF Follows, FollowsBase, RowsFollow, RendersNoted
<1>6. CASE side.acc # 0
  <2>1. side' = [cfg |-> side.cfg, acc |-> 0, raw |-> FALSE] /\ ahead' = Append(ahead, Commit(side', FALSE))
    BY <1>1, <1>6 DEF RestoreSidecarAccess
  <2>2. side' \in Content /\ side'.cfg = side.cfg /\ ahead \in Seq(Commits) /\ base \in Versions
    <3>1. side \in Content /\ ahead \in Seq(Commits) /\ base \in Versions
      BY DEF AccessInv, GitTyped, RowsFit, BranchesFit
    <3> QED BY <2>1, <3>1, Numbers DEF Content
  <2>3. PICK v \in Content : v = side' /\ v.cfg = base.val.cfg
    BY <2>2 DEF Follows, FollowsBase
  <2>4. Follow(Append(ahead, Commit(v, FALSE)), v.cfg) /\ HeadOf(base, Append(ahead, Commit(v, FALSE))) = v
    BY <2>2, <2>3, FollowUpAdded, CommitFits DEF Follows, FollowsBase
  <2>5. FollowsBase' /\ side' = Head0'
    BY <1>1, <2>1, <2>2, <2>3, <2>4 DEF Follows, FollowsBase, Head0
  <2>6. Hooks = {} /\ ~held
    BY <1>6 DEF Render, Follows, RowsFollow
  <2>7. RowsFollow'
    BY <1>1, <1>2, <1>3, <2>2, <2>6 DEF Follows, RowsFollow
  <2>8. RendersNoted'
    BY <1>1, <2>5 DEF Follows, RendersNoted
  <2> QED BY <1>4, <2>5, <2>7, <2>8 DEF Follows
<1> QED BY <1>5, <1>6

\* The import sets the rows to the file.
LEMMA ImportFollows ==
  ASSUME AccessInv, PullOnly, Follows, ImportPulled
  PROVE  Follows'
<1>1. /\ UNCHANGED <<rem, nRem, base, ahead, side, writer, flush, event, queue, suppress, held, hash, rewrite>>
      /\ worker.pc = "import" /\ suppress /\ db' = [db EXCEPT !.cfg = side.cfg]
      /\ worker = [f \in Fields |-> worker[f]] /\ Go([pc |-> "render"])
  BY DEF ImportPulled, Import, gitVars, reqVars, fileVars, watchVars, Follows, OnlyPulls, Securing,
     AccessInv, GitTyped, WorkerFits
<1>2. worker'.pc = "render"
  BY <1>1, Going DEF Fields
<1>3. db' = [cfg |-> side.cfg, acc |-> 0] /\ (db.cfg = side.cfg => db' = db)
  <2>1. db = [cfg |-> db.cfg, acc |-> 0]
    BY DEF AccessInv, GitTyped, RowsFit, Follows, RowsFollow
  <2> QED BY <1>1, <2>1
<1>4. UNCHANGED <<Head0, Hooks>>
  BY <1>1 DEF Head0, Hooks
<1>5. side = Render(db) => db.cfg = side.cfg
  BY DEF Render
<1>6. RowsFollow'
  <2>1. \A w \in Writers : writer[w].pc = "write" => writer[w].content = Render(db) /\ db' = db
    BY <1>3 DEF Follows, RowsFollow, Writing
  <2>2. Hooks # {} \/ held => side = Render(db) /\ db' = db
    BY <1>3, <1>5 DEF Follows, RowsFollow
  <2>3. Render(db)' = Render(db') /\ db'.acc = 0 /\ db'.cfg = side.cfg
    BY <1>3 DEF Render
  <2> QED BY <1>1, <1>4, <2>1, <2>2, <2>3 DEF RowsFollow
<1>7. FollowsBase' /\ RendersNoted' /\ OnlyPulls'
  BY <1>1, <1>2, <1>4 DEF Follows, FollowsBase, RendersNoted, OnlyPulls, Securing, Pulling
<1> QED BY <1>6, <1>7 DEF Follows

\* finishImport notes the render, and no held request becomes a commit.
LEMMA FinishFollows ==
  ASSUME AccessInv, PullOnly, Follows, FinishImport
  PROVE  Follows'
<1>1. /\ UNCHANGED <<rem, nRem, base, ahead, csVars>> /\ worker.pc \in {"render", "finish"}
      /\ suppress' = FALSE /\ held' = FALSE /\ PushOwn
      /\ worker = [f \in Fields |-> worker[f]] /\ side \in Content
  BY DEF FinishImport, gitVars, AccessInv, GitTyped, WorkerFits, RowsFit
<1>2. worker'.pc = "unpushed"
  BY <1>1, GoingClean DEF PushOwn, PullOnly
<1>3. UNCHANGED <<Head0, CSQuiet, Hooks, Writing, Render(db)>>
  BY <1>1 DEF Head0, CSQuiet, Hooks, Writing, csVars, rows, fileVars, watchVars, Render
<1>4. OnlyPulls'
  BY <1>2 DEF OnlyPulls, Securing, Pulling
<1>5. db.cfg = side.cfg
  BY <1>1 DEF Follows, RowsFollow
<1>6. FollowsBase' /\ RowsFollow'
  BY <1>1, <1>2, <1>3, <1>5 DEF Follows, FollowsBase, RowsFollow, csVars, rows, fileVars
<1>7. RendersNoted'
  <2>1. CASE worker.pc = "render" /\ held
    <3>1. side = Render(db) /\ side # None
      BY <1>1, <2>1, Numbers DEF Follows, RowsFollow
    <3>2. hash' = Render(db) /\ rewrite' /\ queue' = queue
      BY <2>1, <3>1 DEF FinishImport
    <3> QED BY <1>3, <3>2 DEF Follows, RendersNoted
  <2>2. CASE worker.pc = "render" /\ ~held
    <3>1. hash' = Render(db) /\ rewrite' = rewrite /\ queue' = queue
      BY <2>2 DEF FinishImport
    <3> QED BY <1>1, <1>3, <2>2, <3>1 DEF Follows, RendersNoted, csVars, fileVars
  <2>3. CASE worker.pc = "finish"
    <3>1. CSQuiet /\ ~held
      BY <2>3 DEF Follows, OnlyPulls
    <3>2. rewrite' = rewrite /\ queue' = queue
      BY <2>3, <3>1 DEF FinishImport
    <3> QED BY <1>1, <1>3, <3>1, <3>2 DEF Follows, RendersNoted, csVars, fileVars
  <2> QED BY <1>1, <2>1, <2>2, <2>3
<1> QED BY <1>4, <1>6, <1>7 DEF Follows

\* In pull-only mode pushUnpushed pushes nothing.
LEMMA UnpushedFollows ==
  ASSUME AccessInv, PullOnly, Follows, PushUnpushed
  PROVE  Follows'
<1>1. /\ UNCHANGED <<rem, nRem, base, ahead, csVars, reqVars>> /\ worker.pc = "unpushed" /\ worker' = IdleWorker
  BY DEF PushUnpushed, gitVars, PullOnly
<1>2. OnlyPulls'
  BY <1>1 DEF OnlyPulls, IdleWorker, Securing, Pulling
<1> QED BY <1>1, <1>2, MoveFollows

\* Someone pushes to the remote.
LEMMA RemoteEditFollows ==
  ASSUME AccessInv, PullOnly, Follows, NEW acc \in BOOLEAN, NEW raw \in BOOLEAN, RemoteEdit(acc, raw)
  PROVE  Follows'
<1>1. UNCHANGED <<base, ahead, csVars, reqVars, worker>> /\ rem'.val.cfg = -nRem'
  BY DEF RemoteEdit
<1>2. UNCHANGED <<Head0, FileChanged, Local, CSQuiet, Hooks, Writing, Render(db)>>
  BY <1>1 DEF Head0, FileChanged, Local, CSQuiet, Hooks, Writing, csVars, rows, fileVars, watchVars, Render
<1>3. FollowsBase' /\ RowsFollow' /\ RendersNoted' /\ OnlyPulls'
  BY <1>1, <1>2 DEF Follows, FollowsBase, RowsFollow, RendersNoted, OnlyPulls, csVars, rows, fileVars, reqVars
<1> QED BY <1>3 DEF Follows

\* Every step in that mode keeps the invariant.
LEMMA FollowsNext ==
  ASSUME AccessInv, PullOnly, Follows, [GNext]_gvars, UNCHANGED mode, ~Restart, ~EditConfig, ~Grant, ~HandEdit,
         (\E ctx \in {"poll", "manual"} : StartPull(ctx)) => CSQuiet
  PROVE  Follows'
<1>1. CASE UNCHANGED gvars
  <2>1. UNCHANGED <<rem, nRem, base, ahead, csVars, reqVars, worker>>
    BY <1>1 DEF gvars, gitVars
  <2>2. UNCHANGED <<Head0, FileChanged, Local, CSQuiet, Hooks, Writing, Render(db)>>
    BY <2>1 DEF Head0, FileChanged, Local, CSQuiet, Hooks, Writing, csVars, rows, fileVars, watchVars, Render
  <2>3. FollowsBase' /\ RowsFollow' /\ RendersNoted' /\ OnlyPulls'
    BY <2>1, <2>2 DEF Follows, FollowsBase, RowsFollow, RendersNoted, OnlyPulls, csVars, rows, fileVars, reqVars
  <2> QED BY <2>3 DEF Follows
<1>2. CASE Worker
  <2>1. ~(TakeCommit \/ DoCommit \/ Push \/ PushFails \/ Refetch \/ Mark)
    <3>1. queue = 0 /\ worker.pc \notin {"commit", "push", "push2", "refetch", "mark", "failed", "markall"}
      BY DEF Follows, RendersNoted, OnlyPulls, Securing
    <3>2. ~TakeCommit
      BY <3>1 DEF TakeCommit
    <3>3. Mark => worker.pc \in {"mark", "failed", "markall"}
      BY DEF Mark
    <3> QED BY <3>1, <3>2, <3>3 DEF DoCommit, Push, PushFails, Refetch
  <2> QED BY <1>2, <2>1, FetchFollows, CommitPendingFollows, RebaseFollows, RestoreDBAccessFollows,
             RestoreSidecarFollows, ImportFollows, FinishFollows, UnpushedFollows DEF Worker
<1>3. CASE \E k \in RemoteKinds : RemoteEdit(k[1], k[2])
  BY <1>3, RemoteEditFollows, GitAssumption
<1>4. CASE SidecarStep
  BY <1>4, LandingFollows
<1> QED BY <1>1, <1>2, <1>3, <1>4, FetchFollows, WriteHookFollows DEF GNext

\* In pull-only mode, while nobody changes anything on the server and as long as
\* every pull began after the writes of the one before it had landed (which nothing
\* in the code waits for), rows and file follow the remote, for any number of remote
\* commits and pulls: what the server rewrote after earlier pulls is noted as such
\* and never becomes an edit.
THEOREM RemoteIsFollowed == GSpec => []PullOnlyFollows
<1> DEFINE Inv == AccessInv /\ (PullOnly => Follows)
<1>1. GInit => Inv
  BY AccessInitInv, FollowsInit
<1>2. Inv /\ [GNext]_gvars => Inv'
  BY AccessNextInv, PullOnlyBefore, FollowsNext
<1>3. Inv => PullOnlyFollows
  BY DEF PullOnly, Follows, FollowsBase, RowsFollow, PullOnlyFollows, RemoteEditsApply
<1> HIDE DEF Inv
<1> QED BY <1>1, <1>2, <1>3, PTL DEF GSpec
=============================================================================
