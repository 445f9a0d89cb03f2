-------------------------- MODULE AppArchiveProofs --------------------------
(***************************************************************************)
(* An app is archived only after its directory was really gone, and        *)
(* compose history never outlives the row it belongs to.  Both are proved  *)
(* with one invariant, Kept, whose parts each need the others.  Apps that  *)
(* run from a file which today's rules refuse stay routed: the second part *)
(* proves that with the invariant Steady, by what each step keeps.         *)
(***************************************************************************)
EXTENDS AppTypeProofs

ArchivePc == {"teardown", "sidecar", "tomb", "mark"}

Kept ==
  /\ \A a \in Apps : file[a] = NoFile => a \in hist.gone
  /\ \A p \in Scanners : ps[p].pc \in ArchivePc => ps[p].cur \in hist.gone
  /\ tombs \subseteq hist.gone
  /\ ArchivedWasGone
  /\ VersionsHaveRow

\* What a step may do to the store, to the files and to the passes.
StoreKept ==
  /\ \A a \in Apps : HasRow(a)' /\ row'[a].archived
                       => (HasRow(a) /\ row[a].archived) \/ a \in hist.gone
  /\ tombs' \subseteq tombs \cup hist.gone
  /\ VersionsHaveRow'

FilesKept ==
  /\ hist.gone \subseteq hist'.gone
  /\ \A a \in Apps : file'[a] = NoFile => a \in hist'.gone

PassesKept ==
  \A p \in Scanners : ps'[p].pc \in ArchivePc => ps'[p].cur \in hist.gone

StepKept == StoreKept /\ FilesKept /\ PassesKept

----------------------------------------------------------------------------
(* Operations of the store.                                                *)

LEMMA KeepStore == Kept /\ UNCHANGED storeVars => StoreKept
BY DEF Kept, storeVars, StoreKept, VersionsHaveRow, HasRow

LEMMA KeepFiles == Kept /\ UNCHANGED <<file, hist>> => FilesKept
BY DEF Kept, FilesKept

LEMMA StarvesKept ==
  ASSUME Typed, Kept, NEW a, Starves(a), UNCHANGED file
  PROVE  FilesKept
BY DEF Typed, FilesOK, History, Kept, Starves, FilesKept

LEMMA KeepPasses == Kept /\ UNCHANGED ps => PassesKept
BY DEF Kept, PassesKept

\* UpsertApp never changes archived_at.
LEMMA UpsertKept ==
  ASSUME Typed, Kept, NEW a \in Apps, NEW h \in Hash, NEW s \in Status,
         NEW p \in {"ok", "old"}, UpsertApp(a, h, s, p)
  PROVE  StoreKept
<1>1. row \in [Apps -> Row \cup {NoRow}] /\ NoRow \notin Row
  BY NoRowAssumption DEF Typed, StoreType
<1>2. CASE HasRow(a)
  <2>1. row[a] \in Row BY <1>1, <1>2 DEF HasRow
  <2>2. /\ row' = [row EXCEPT ![a].hash = h, ![a].status = s, ![a].path = p]
        /\ UNCHANGED <<versions, tombs>>
    BY <1>2 DEF UpsertApp
  <2>3. /\ row'[a] \in Row /\ row'[a].archived = row[a].archived
        /\ \A b \in Apps \ {a} : row'[b] = row[b]
    BY <1>1, <2>1, <2>2 DEF Row
  <2>4. \A b \in Apps : ~HasRow(b)' => ~HasRow(b)
    BY <1>2, <2>3, NoRowAssumption DEF HasRow
  <2>5. \A b \in Apps : HasRow(b)' => HasRow(b)
    BY <1>2, <2>3, NoRowAssumption DEF HasRow
  <2>6. \A b \in Apps : row'[b].archived => row[b].archived
    BY <2>3
  <2>7. VersionsHaveRow' BY <2>2, <2>4 DEF Kept, VersionsHaveRow
  <2> QED BY <2>2, <2>5, <2>6, <2>7 DEF StoreKept
<1>3. CASE ~HasRow(a)
  <2> DEFINE r == [id |-> nextId, hash |-> h, status |-> s,
                   archived |-> FALSE, path |-> p]
  <2>1. row' = [row EXCEPT ![a] = r] /\ UNCHANGED <<versions, tombs>>
    BY <1>3 DEF UpsertApp
  <2>2. ~row'[a].archived /\ \A b \in Apps \ {a} : row'[b] = row[b]
    BY <1>1, <2>1
  <2>3. \A b \in Apps : ~HasRow(b)' => ~HasRow(b)
    BY <1>3, <2>2 DEF HasRow
  <2> HIDE DEF r
  <2> QED
    BY <2>1, <2>2, <2>3 DEF StoreKept, Kept, VersionsHaveRow, HasRow
<1> QED BY <1>2, <1>3

LEMMA UpdateStatusKept ==
  ASSUME Typed, Kept, NEW a \in Apps, NEW s \in Status, UpdateAppStatus(a, s)
  PROVE  StoreKept
<1>1. row \in [Apps -> Row \cup {NoRow}] BY DEF Typed, StoreType
<1>2. CASE ~HasRow(a)
  BY <1>2, KeepStore DEF UpdateAppStatus, storeVars
<1>3. CASE HasRow(a)
  <2>1. row[a] \in Row BY <1>1, <1>3 DEF HasRow
  <2>2. row' = [row EXCEPT ![a].status = s] /\ UNCHANGED <<versions, tombs>>
    BY <1>3 DEF UpdateAppStatus
  <2>3. /\ row'[a] \in Row /\ row'[a].archived = row[a].archived
        /\ \A b \in Apps \ {a} : row'[b] = row[b]
    BY <1>1, <2>1, <2>2 DEF Row
  <2>4. \A b \in Apps : ~HasRow(b)' => ~HasRow(b)
    BY <1>3, <2>3, NoRowAssumption DEF HasRow
  <2>5. \A b \in Apps : HasRow(b)' => HasRow(b)
    BY <1>3, <2>3, NoRowAssumption DEF HasRow
  <2>6. \A b \in Apps : row'[b].archived => row[b].archived
    BY <2>3
  <2>7. VersionsHaveRow' BY <2>2, <2>4 DEF Kept, VersionsHaveRow
  <2> QED BY <2>2, <2>5, <2>6, <2>7 DEF StoreKept
<1> QED BY <1>2, <1>3

\* MarkAppArchived is called for an app whose directory was gone.
LEMMA MarkKept ==
  ASSUME Typed, Kept, NEW a \in Apps, a \in hist.gone, MarkAppArchived(a)
  PROVE  StoreKept
<1>1. row \in [Apps -> Row \cup {NoRow}] BY DEF Typed, StoreType
<1>2. CASE ~HasRow(a)
  BY <1>2, KeepStore DEF MarkAppArchived, storeVars
<1>3. CASE HasRow(a)
  <2>1. row[a] \in Row BY <1>1, <1>3 DEF HasRow
  <2>2. row' = [row EXCEPT ![a].archived = TRUE] /\ UNCHANGED <<versions, tombs>>
    BY <1>3 DEF MarkAppArchived
  <2>3. row'[a] \in Row /\ \A b \in Apps \ {a} : row'[b] = row[b]
    BY <1>1, <2>1, <2>2 DEF Row
  <2>4. \A b \in Apps : ~HasRow(b)' => ~HasRow(b)
    BY <2>3, NoRowAssumption DEF HasRow
  <2>5. \A b \in Apps \ {a} : HasRow(b)' /\ row'[b].archived
                                => HasRow(b) /\ row[b].archived
    BY <2>3 DEF HasRow
  <2>6. VersionsHaveRow' BY <2>2, <2>4 DEF Kept, VersionsHaveRow
  <2> QED BY <2>2, <2>5, <2>6 DEF StoreKept
<1> QED BY <1>2, <1>3

LEMMA PurgeKept ==
  ASSUME Typed, Kept, NEW a \in Apps, PurgeApp(a)
  PROVE  StoreKept
BY DEF Typed, StoreType, PurgeApp, StoreKept, Kept, VersionsHaveRow, HasRow

LEMMA CreateVersionKept ==
  ASSUME Typed, Kept, NEW a \in Apps, NEW id, NEW c, CreateComposeVersion(a, id, c)
  PROVE  StoreKept
<1>1. versions \in [Apps -> Seq(Content)] BY DEF Typed, StoreType
<1>2. \A b \in Apps : ~HasRow(b) => versions'[b] = versions[b]
  BY <1>1 DEF CreateComposeVersion
<1>3. row' = row /\ tombs' = tombs BY DEF CreateComposeVersion
<1> QED BY <1>2, <1>3 DEF StoreKept, Kept, VersionsHaveRow, HasRow

LEMMA TombstoneKept ==
  ASSUME Kept, NEW a \in Apps,
         (WriteTombstone(a) /\ a \in hist.gone) \/ DeleteTombstone(a)
  PROVE  StoreKept
BY DEF WriteTombstone, DeleteTombstone, StoreKept, Kept, VersionsHaveRow, HasRow

\* A directory that goes away is recorded, and one that returns stays recorded.
LEMMA WriteFileKept ==
  ASSUME Typed, Kept, NEW a \in Apps, NEW f, WriteFile(a, f)
  PROVE  FilesKept
<1>1. hist \in History /\ file \in [Apps -> File] BY DEF Typed, FilesOK
<1>2. hist'.gone = IF Present(f) THEN hist.gone ELSE hist.gone \cup {a}
  BY <1>1 DEF WriteFile, History
<1>3. file' = [file EXCEPT ![a] = f] BY DEF WriteFile
<1> QED BY <1>1, <1>2, <1>3 DEF FilesKept, Kept, Present

LEMMA TriedKept ==
  ASSUME Typed, Kept, NEW t, Tried(t), UNCHANGED file
  PROVE  FilesKept
<1>1. hist'.gone = hist.gone BY DEF Typed, FilesOK, Tried, History
<1> QED BY <1>1 DEF FilesKept, Kept

\* A pass changes at one place, which is not in archiveApp.
LEMMA PassKept ==
  ASSUME Kept, NEW p \in Scanners, ps'[p].pc \notin ArchivePc,
         \A q \in Scanners \ {p} : ps'[q] = ps[q]
  PROVE  PassesKept
BY DEF Kept, PassesKept

LEMMA QueueRetryKept ==
  ASSUME Typed, Kept, NEW q \in [Scanners -> GoodPass], NEW a \in Apps,
         \A p \in Scanners : q[p].pc \in ArchivePc => q[p].cur \in hist.gone,
         ps' = QueueRetry(q, a)
  PROVE  PassesKept
<1>1. a \in Scanners BY ScannerSets
<1>2. CASE Retrying(a) BY <1>2 DEF QueueRetry, PassesKept
<1>3. CASE ~Retrying(a)
  <2>1. ps' = [q EXCEPT ![a].pc = "poll"] BY <1>3 DEF QueueRetry
  <2>2. ps'[a].pc = "poll" /\ \A p \in Scanners \ {a} : ps'[p] = q[p]
    BY <1>1, <2>1 DEF GoodPass, Pass
  <2> QED BY <2>2 DEF PassesKept, ArchivePc
<1> QED BY <1>2, <1>3

----------------------------------------------------------------------------
(* Every step keeps the three parts.                                       *)

LEMMA DeployerKept ==
  ASSUME Typed, Kept, NEW t \in Threads, TrackedStep(t) \/ UntrackedStep(t),
         UNCHANGED ps
  PROVE  StepKept
<1>1. PassesKept BY KeepPasses
<1>2. CASE UpOk(t) \/ UpFails(t) \/ CancelUpEnd(t)
  <2>1. StoreKept BY <1>2, KeepStore DEF UpOk, UpFails, CancelUpEnd
  <2>2. FilesKept
    BY <1>2, TriedKept DEF UpOk, UpFails, CancelUpEnd, fileVars
  <2> QED BY <1>1, <2>1, <2>2 DEF StepKept
<1>3. CASE Track(t) \/ CheckOk(t) \/ Refuse(t) \/ PullImages(t) \/ PullFails(t)
           \/ UpRead(t) \/ RestartOk(t) \/ RestartFails(t) \/ Stabilize(t)
  <2>1. UNCHANGED <<storeVars, fileVars, hist>>
    BY <1>3 DEF Track, CheckOk, Refuse, PullImages, PullFails, UpRead,
                RestartOk, RestartFails, Stabilize
  <2> QED BY <1>1, <2>1, KeepStore, KeepFiles DEF StepKept, fileVars
<1>4. CASE CancelCheck(t) \/ Stop(t) \/ Start(t) \/ Scale(t)
  <2>1. UNCHANGED <<storeVars, fileVars, hist>>
    BY <1>4 DEF CancelCheck, Stop, Start, Scale
  <2> QED BY <1>1, <2>1, KeepStore, KeepFiles DEF StepKept, fileVars
<1> QED BY <1>2, <1>3, <1>4 DEF TrackedStep, UntrackedStep

LEMMA ReconcilerKept ==
  ASSUME Typed, Kept, NEW t \in Threads, ReconcilerStep(t)
  PROVE  StepKept
<1> DEFINE a == th[t].app
<1>0. th[t].pc # "idle" => a \in Apps BY ThreadFields DEF Typed
<1>1. CASE LoadConfig(t) \/ ReadHash(t) \/ RollbackCheck(t) \/ StatusQuery(t)
           \/ RemoveTeardown(t)
  <2>1. UNCHANGED <<storeVars, fileVars, hist, ps>>
    BY <1>1 DEF LoadConfig, ReadHash, RollbackCheck, StatusQuery, RemoveTeardown
  <2> QED BY <2>1, KeepStore, KeepFiles, KeepPasses DEF StepKept, fileVars
<1>2. CASE Skipped(t)
  <2>1. a \in Apps BY <1>0, <1>2 DEF Skipped
  <2>2. PassesKept
    BY <1>2, <2>1, QueueRetryKept, KeepPasses DEF Skipped, Typed, PassesOK, Kept
  <2>3. FilesKept BY <1>2, StarvesKept, KeepFiles DEF Skipped, fileVars
  <2> QED BY <1>2, <2>2, <2>3, KeepStore DEF Skipped, StepKept
<1>3. CASE StoreApp(t)
  <2>1. a \in Apps /\ th[t].hash \in Hash
    BY <1>0, <1>3, ThreadFields DEF StoreApp, Typed
  <2>2. StoreKept BY <1>3, <2>1, UpsertKept, StatusOfType DEF StoreApp
  <2> QED BY <1>3, <2>2, KeepFiles, KeepPasses DEF StoreApp, StepKept, fileVars
<1>4. CASE StoreVersion(t)
  <2>1. a \in Apps BY <1>0, <1>4 DEF StoreVersion
  <2>2. StoreKept BY <1>4, <2>1, CreateVersionKept, KeepStore DEF StoreVersion
  <2>3. PassesKept
    <3>1. CASE UNCHANGED ps BY <3>1, KeepPasses
    <3>2. CASE ps' = [ps EXCEPT ![t] = NewPass("routes")]
      BY <3>2, PassKept, ScannerSets
      DEF NewPass, IdlePass, ArchivePc, Typed, PassesOK
    <3> QED BY <1>4, <3>1, <3>2 DEF StoreVersion
  <2> QED BY <1>4, <2>2, <2>3, KeepFiles DEF StoreVersion, StepKept, fileVars
<1>5. CASE SetStatus(t) \/ StatusUpdate(t)
  <2>1. a \in Apps BY <1>0, <1>5 DEF SetStatus, StatusUpdate
  <2>2. StoreKept
    BY <1>5, <2>1, UpdateStatusKept, StatusOfType, ThreadFields
    DEF SetStatus, StatusUpdate, Typed
  <2> QED
    BY <1>5, <2>2, KeepFiles, KeepPasses
    DEF SetStatus, StatusUpdate, StepKept, fileVars
<1>6. CASE RollbackWrite(t) \/ RollbackRestore(t)
  <2>1. a \in Apps BY <1>0, <1>6 DEF RollbackWrite, RollbackRestore
  <2>2. FilesKept
    BY <1>6, <2>1, WriteFileKept, KeepFiles
    DEF RollbackWrite, RollbackRestore, fileVars
  <2> QED
    BY <1>6, <2>2, KeepStore, KeepPasses
    DEF RollbackWrite, RollbackRestore, StepKept
<1>7. CASE RemovePurge(t) \/ RemoveRow(t)
  <2>1. a \in Apps BY <1>0, <1>7 DEF RemovePurge, RemoveRow
  <2>2. StoreKept
    BY <1>7, <2>1, PurgeKept, KeepStore DEF RemovePurge, RemoveRow
  <2> QED
    BY <1>7, <2>2, KeepFiles, KeepPasses
    DEF RemovePurge, RemoveRow, StepKept, fileVars
<1>8. CASE RemoveFiles(t)
  <2>1. a \in Apps BY <1>0, <1>8 DEF RemoveFiles
  <2>2. StoreKept BY <1>8, <2>1, TombstoneKept DEF RemoveFiles
  <2>3. FilesKept BY <1>8, <2>1, WriteFileKept DEF RemoveFiles
  <2> QED BY <1>8, <2>2, <2>3, KeepPasses DEF RemoveFiles, StepKept
<1>9. CASE PurgeTombstone(t)
  <2>1. a \in Apps BY <1>0, <1>9 DEF PurgeTombstone
  <2>2. StoreKept BY <1>9, <2>1, TombstoneKept DEF PurgeTombstone
  <2> QED
    BY <1>9, <2>2, KeepFiles, KeepPasses DEF PurgeTombstone, StepKept, fileVars
<1> QED
  BY <1>1, <1>2, <1>3, <1>4, <1>5, <1>6, <1>7, <1>8, <1>9 DEF ReconcilerStep

LEMMA PassStepKept ==
  ASSUME Typed, Kept, NEW p \in Scanners, PassStep(p)
  PROVE  StepKept
<1>0. /\ ps \in [Scanners -> GoodPass] /\ ps[p] \in Pass
      /\ ps[p].pc \in CurPc => ps[p].cur \in Apps
      /\ ps[p].pc \in ArchivePc => ps[p].cur \in hist.gone
  BY PassFields DEF Typed, PassesOK, Kept
<1>1. CASE InjectNetwork(p)
  <2>1. ps[p].cur \in Apps BY <1>0, <1>1 DEF InjectNetwork, CurPc
  <2>2. FilesKept
    BY <1>1, <2>1, WriteFileKept, KeepFiles DEF InjectNetwork, fileVars
  <2>3. ps'[p].pc = "scan" /\ \A q \in Scanners \ {p} : ps'[q] = ps[q]
    BY <1>0, <1>1 DEF InjectNetwork, Pass
  <2>4. PassesKept BY <2>3, PassKept DEF ArchivePc
  <2> QED BY <1>1, <2>2, <2>4, KeepStore DEF InjectNetwork, StepKept
<1>2. CASE ScanDone(p)
  <2>1. /\ ps'[p].pc \in {"deploy", "hashes", "routes"}
        /\ \A q \in Scanners \ {p} : ps'[q] = ps[q]
    BY <1>0, <1>2 DEF ScanDone, Pass, PassKind
  <2>2. PassesKept BY <2>1, PassKept DEF ArchivePc
  <2> QED BY <1>2, <2>2, KeepStore, KeepFiles DEF ScanDone, StepKept, fileVars
<1>3. CASE WaitDeploys(p) \/ ArchiveDone(p) \/ HashesDone(p) \/ SetRoutes(p)
  <2>1. /\ ps'[p].pc \in {"archive", "routes", "idle"}
        /\ \A q \in Scanners \ {p} : ps'[q] = ps[q]
    BY <1>0, <1>3 DEF WaitDeploys, ArchiveDone, HashesDone, SetRoutes, Pass,
                      IdlePass
  <2>2. PassesKept BY <2>1, PassKept DEF ArchivePc
  <2>3. UNCHANGED <<storeVars, fileVars, hist>>
    BY <1>3 DEF WaitDeploys, ArchiveDone, HashesDone, SetRoutes
  <2> QED BY <2>2, <2>3, KeepStore, KeepFiles DEF StepKept, fileVars
<1>4. CASE ArchiveTeardown(p) \/ ArchiveSidecar(p) \/ ArchiveTombstone(p)
  <2>1. ps[p].cur \in Apps /\ ps[p].cur \in hist.gone
    BY <1>0, <1>4 DEF ArchiveTeardown, ArchiveSidecar, ArchiveTombstone, CurPc,
                      ArchivePc
  <2>2. ps'[p].cur = ps[p].cur /\ \A q \in Scanners \ {p} : ps'[q] = ps[q]
    BY <1>0, <1>4 DEF ArchiveTeardown, ArchiveSidecar, ArchiveTombstone, Pass
  <2>3. PassesKept BY <2>1, <2>2 DEF Kept, PassesKept
  <2>4. StoreKept
    BY <1>4, <2>1, KeepStore, TombstoneKept
    DEF ArchiveTeardown, ArchiveSidecar, ArchiveTombstone
  <2>5. UNCHANGED <<fileVars, hist>>
    BY <1>4 DEF ArchiveTeardown, ArchiveSidecar, ArchiveTombstone
  <2> QED BY <2>3, <2>4, <2>5, KeepFiles DEF StepKept, fileVars
<1>5. CASE ArchiveMark(p)
  <2>1. ps[p].cur \in Apps /\ ps[p].cur \in hist.gone
    BY <1>0, <1>5 DEF ArchiveMark, CurPc, ArchivePc
  <2>2. ps'[p].pc = "archive" /\ \A q \in Scanners \ {p} : ps'[q] = ps[q]
    BY <1>0, <1>5 DEF ArchiveMark, Pass
  <2>3. PassesKept BY <2>2, PassKept DEF ArchivePc
  <2>4. StoreKept BY <1>5, <2>1, MarkKept DEF ArchiveMark
  <2> QED BY <1>5, <2>3, <2>4, KeepFiles DEF ArchiveMark, StepKept, fileVars
<1>6. ASSUME NEW a \in Apps, ScanApp(p, a) PROVE StepKept
  <2>1. ps'[p].pc \in {"inject", "scan"} /\ \A q \in Scanners \ {p} : ps'[q] = ps[q]
    BY <1>0, <1>6 DEF ScanApp, Pass
  <2>2. PassesKept BY <2>1, PassKept DEF ArchivePc
  <2> QED BY <1>6, <2>2, KeepStore, KeepFiles DEF ScanApp, StepKept, fileVars
<1>7. ASSUME NEW a \in Apps, DeployLoop(p, a) PROVE StepKept
  <2>1. StoreKept
    <3>1. CASE Desired(p, a) /\ Listing(p, a) # NoRow /\ Listing(p, a).path # "ok"
      <4>1. Listing(p, a) \in Row
        BY <3>1, PassFields DEF Listing, Typed
      <4>2. Listing(p, a).hash \in Hash /\ Listing(p, a).status \in Status
        BY <4>1 DEF Row
      <4> QED BY <1>7, <3>1, <4>2, UpsertKept DEF DeployLoop, NormalizePath
    <3>2. CASE ~(/\ Desired(p, a) /\ Listing(p, a) # NoRow
                 /\ Listing(p, a).path # "ok")
      BY <1>7, <3>2, KeepStore DEF DeployLoop, NormalizePath
    <3> QED BY <3>1, <3>2
  <2> DEFINE q == [ps EXCEPT ![p].todo = @ \ {a}]
  <2>2. /\ q \in [Scanners -> GoodPass]
        /\ q[p].pc = "deploy" /\ \A o \in Scanners \ {p} : q[o] = ps[o]
    <3>1. [ps[p] EXCEPT !.todo = @ \ {a}] \in GoodPass
      BY <1>0, <1>7 DEF DeployLoop, GoodPass, Pass, CurPc
    <3> QED BY <1>0, <1>7, <3>1 DEF DeployLoop, Pass
  <2>3. \A o \in Scanners : q[o].pc \in ArchivePc => q[o].cur \in hist.gone
    BY <2>2 DEF Kept, ArchivePc
  <2>4. ps' = q \/ ps' = QueueRetry(q, a)
    BY <1>7 DEF DeployLoop, VisitUnchanged, VisitDeploying, VisitChanged
  <2> HIDE DEF q
  <2>5. PassesKept
    BY <2>2, <2>3, <2>4, QueueRetryKept DEF PassesKept
  <2>6. FilesKept
    BY <1>7, StarvesKept, KeepFiles
    DEF DeployLoop, VisitUnchanged, VisitDeploying, VisitChanged, fileVars
  <2> QED BY <2>1, <2>5, <2>6 DEF StepKept
<1>8. ASSUME NEW a \in Apps, ArchiveLoop(p, a) PROVE StepKept
  <2>1. /\ ps'[p].cur = IF MustArchive(p, a) THEN a ELSE Nobody
        /\ ps'[p].pc = IF MustArchive(p, a) THEN "teardown" ELSE "archive"
        /\ \A q \in Scanners \ {p} : ps'[q] = ps[q]
    BY <1>0, <1>8 DEF ArchiveLoop, Pass
  <2>2. MustArchive(p, a) => a \in hist.gone
    BY DEF MustArchive, Present, Kept
  <2>3. PassesKept BY <2>1, <2>2 DEF PassesKept, Kept, ArchivePc
  <2> QED BY <1>8, <2>3, KeepStore, KeepFiles DEF ArchiveLoop, StepKept, fileVars
<1>9. ASSUME NEW a \in Apps, RefreshHash(p, a) PROVE StepKept
  <2>1. ps'[p].pc = "hashes" /\ \A q \in Scanners \ {p} : ps'[q] = ps[q]
    BY <1>0, <1>9 DEF RefreshHash, Pass
  <2>2. PassesKept BY <2>1, PassKept DEF ArchivePc
  <2>3. hashFile(file[a]) \in Hash BY HashType DEF Typed, FilesOK
  <2>4. HasRow(a) => row[a].status \in Status
    BY DEF HasRow, Typed, StoreType, Row
  <2>5. StoreKept BY <1>9, <2>3, <2>4, UpsertKept, KeepStore DEF RefreshHash
  <2> QED BY <1>9, <2>2, <2>5, KeepFiles DEF RefreshHash, StepKept, fileVars
<1>10. ASSUME NEW a \in Apps, RetryStarts(a) PROVE StepKept
  <2>1. ps'[a].pc = "scan" /\ \A q \in Scanners \ {a} : ps'[q] = ps[q]
    BY <1>0, <1>10, ScannerSets DEF RetryStarts, NewPass, IdlePass
  <2>2. PassesKept BY <2>1, PassKept, ScannerSets DEF ArchivePc
  <2> QED BY <1>10, <2>2, KeepStore, KeepFiles DEF RetryStarts, StepKept, fileVars
<1> QED
  BY <1>1, <1>2, <1>3, <1>4, <1>5, <1>6, <1>7, <1>8, <1>9, <1>10 DEF PassStep

LEMMA ApiRequestKept == Typed /\ Kept /\ ApiRequest => StepKept
<1> SUFFICES ASSUME Typed, Kept, NEW j \in Jobs, NEW a \in Apps,
      \/ ApiRestart(j, a) \/ ApiPull(j, a) \/ ApiCancel(j, a) \/ ApiStop(j, a)
      \/ ApiStart(j, a) \/ ApiScale(j, a) \/ ApiRemove(j, a) \/ ApiPurge(j, a)
      \/ RefreshStatuses(j, a)
      \/ \E id \in Ids : ApiDeploy(j, a, id) \/ ApiRelabel(j, a, id)
      \/ \E i \in 1..KeepVersions : ApiRollback(j, a, i)
    PROVE StepKept
  BY DEF ApiRequest
<1>1. ASSUME UNCHANGED <<storeVars, fileVars, hist, ps>> PROVE StepKept
  BY <1>1, KeepStore, KeepFiles, KeepPasses DEF StepKept, fileVars
<1>2. CASE ApiRestart(j, a) \/ ApiPull(j, a) \/ ApiCancel(j, a) \/ ApiStop(j, a)
           \/ ApiStart(j, a) \/ ApiScale(j, a) \/ RefreshStatuses(j, a)
  BY <1>1, <1>2 DEF ApiRestart, ApiPull, ApiCancel, ApiStop, ApiStart, ApiScale,
                    RefreshStatuses
<1>3. ASSUME NEW i \in 1..KeepVersions, ApiRollback(j, a, i) PROVE StepKept
  BY <1>1, <1>3 DEF ApiRollback
<1>4. CASE ApiRemove(j, a)
  <2>1. StoreKept BY <1>4, KeepStore, TombstoneKept DEF ApiRemove
  <2>2. FilesKept BY <1>4, KeepFiles, WriteFileKept DEF ApiRemove, fileVars
  <2> QED BY <1>4, <2>1, <2>2, KeepPasses DEF ApiRemove, StepKept
<1>5. CASE ApiPurge(j, a)
  <2>1. StoreKept BY <1>5, PurgeKept DEF ApiPurge
  <2> QED BY <1>5, <2>1, KeepFiles, KeepPasses DEF ApiPurge, StepKept, fileVars
<1>6. ASSUME NEW id \in Ids, ApiDeploy(j, a, id) PROVE StepKept
  <2>1. FilesKept BY <1>6, WriteFileKept DEF ApiDeploy
  <2> QED BY <1>6, <2>1, KeepStore, KeepPasses DEF ApiDeploy, StepKept
<1>7. ASSUME NEW id \in Ids, ApiRelabel(j, a, id) PROVE StepKept
  <2>1. hist'.gone = hist.gone
    BY <1>7 DEF ApiRelabel, Typed, FilesOK, History
  <2>2. Allowed(file'[a]) /\ \A b \in Apps \ {a} : file'[b] = file[b]
    BY <1>7 DEF ApiRelabel, Typed, FilesOK
  <2>3. FilesKept
    BY <2>1, <2>2 DEF FilesKept, Kept, Allowed, Parses, Present
  <2>4. ps'[j].pc = "scan" /\ \A q \in Scanners \ {j} : ps'[q] = ps[q]
    BY <1>7, JobInThreads, ScannerSets
    DEF ApiRelabel, NewPass, IdlePass, Typed, PassesOK
  <2>5. PassesKept BY <2>4, PassKept, JobInThreads, ScannerSets DEF ArchivePc
  <2> QED BY <1>7, <2>3, <2>5, KeepStore DEF ApiRelabel, StepKept
<1> QED BY <1>2, <1>3, <1>4, <1>5, <1>6, <1>7

\* A boot archives the apps that have a tombstone.
LEMMA CrashKept == Typed /\ Kept /\ Crash => StepKept
<1> SUFFICES ASSUME Typed, Kept, Crash PROVE StepKept OBVIOUS
<1>1. FilesKept BY KeepFiles DEF Crash
<1>2. PassesKept BY DEF Crash, PassesKept, IdlePass, ArchivePc
<1>3. StoreKept
  <2>1. \A a \in Apps : a \notin tombs => row'[a] = row[a]
    BY DEF Crash
  <2>2. \A a \in Apps : a \in tombs => a \in hist.gone BY DEF Kept
  <2>3. \A a \in Apps : HasRow(a) => HasRow(a)'
    <3> SUFFICES ASSUME NEW a \in Apps, HasRow(a) PROVE HasRow(a)' OBVIOUS
    <3>1. CASE a \notin tombs BY <2>1, <3>1 DEF HasRow
    <3>2. CASE a \in tombs
      <4>1. row'[a] = [row[a] EXCEPT !.archived = TRUE] BY <3>2 DEF Crash
      <4>2. row[a] \in Row BY DEF HasRow, Typed, StoreType
      <4>3. row'[a] \in Row BY <4>1, <4>2 DEF Row
      <4> QED BY <4>3, NoRowAssumption DEF HasRow
    <3> QED BY <3>1, <3>2
  <2>4. UNCHANGED versions /\ UNCHANGED tombs BY DEF Crash
  <2>5. VersionsHaveRow' BY <2>3, <2>4 DEF Kept, VersionsHaveRow
  <2>6. \A a \in Apps : HasRow(a)' /\ row'[a].archived
                          => (HasRow(a) /\ row[a].archived) \/ a \in hist.gone
    BY <2>1, <2>2 DEF HasRow
  <2> QED BY <2>4, <2>5, <2>6 DEF StoreKept
<1> QED BY <1>1, <1>2, <1>3 DEF StepKept

LEMMA OutsideKept == Typed /\ Kept /\ Outside => StepKept
<1> SUFFICES ASSUME Typed, Kept, Outside PROVE StepKept OBVIOUS
<1>1. ASSUME NEW a \in Apps, DeleteDir(a) PROVE StepKept
  BY <1>1, WriteFileKept, KeepStore, KeepPasses DEF DeleteDir, StepKept
<1>2. ASSUME NEW a \in Apps, HealthFlip(a) PROVE StepKept
  BY <1>2, KeepStore, KeepFiles, KeepPasses DEF HealthFlip, StepKept, fileVars
<1>3. ASSUME NEW a \in Apps, RetryTimesOut(a) PROVE StepKept
  <2>1. ps'[a].pc = "scan" /\ \A q \in Scanners \ {a} : ps'[q] = ps[q]
    BY <1>3, ScannerSets DEF RetryTimesOut, NewPass, IdlePass, Typed, PassesOK
  <2>2. PassesKept BY <2>1, PassKept, ScannerSets DEF ArchivePc
  <2> QED BY <1>3, <2>2, KeepStore, KeepFiles DEF RetryTimesOut, StepKept, fileVars
<1>4. ASSUME NEW a \in Apps, NEW id \in Ids, NEW net \in EditNet,
             Edit(a, id, net)
      PROVE  StepKept
  BY <1>4, WriteFileKept, KeepStore, KeepPasses DEF Edit, StepKept
<1> QED BY <1>1, <1>2, <1>3, <1>4, CrashKept DEF Outside

LEMMA SystemKept == Typed /\ Kept /\ System => StepKept
<1> SUFFICES ASSUME Typed, Kept, System PROVE StepKept OBVIOUS
<1>1. ASSUME NEW w \in Watchers, WatcherFires(w) PROVE StepKept
  <2>1. w \in Scanners BY DEF Scanners, Passes
  <2>2. ps'[w].pc = "scan" /\ \A q \in Scanners \ {w} : ps'[q] = ps[q]
    BY <1>1, <2>1 DEF WatcherFires, NewPass, IdlePass, Typed, PassesOK
  <2>3. PassesKept BY <2>1, <2>2, PassKept DEF ArchivePc
  <2> QED BY <1>1, <2>3, KeepStore, KeepFiles DEF WatcherFires, StepKept
<1>2. ASSUME NEW t \in Threads, ThreadStep(t) PROVE StepKept
  BY <1>2, DeployerKept, ReconcilerKept DEF ThreadStep
<1>3. ASSUME NEW p \in Scanners, ScannerStep(p) PROVE StepKept
  BY <1>3, PassStepKept DEF ScannerStep
<1> QED BY <1>1, <1>2, <1>3 DEF System

LEMMA StutterKept == Typed /\ Kept /\ UNCHANGED vars => StepKept
BY KeepStore, KeepFiles, KeepPasses DEF vars, fileVars, StepKept

LEMMA KeptInductive == Typed /\ Kept /\ [Next]_vars => Kept'
<1> SUFFICES ASSUME Typed, Kept, [Next]_vars PROVE Kept' OBVIOUS
<1>1. StoreKept /\ FilesKept /\ PassesKept
  BY ApiRequestKept, OutsideKept, SystemKept, StutterKept DEF Next, StepKept
<1>2. hist.gone \subseteq hist'.gone BY <1>1 DEF FilesKept
<1>3. tombs' \subseteq hist'.gone BY <1>1, <1>2 DEF StoreKept, Kept
<1>4. ArchivedWasGone'
  BY <1>1, <1>2 DEF StoreKept, Kept, ArchivedWasGone
<1>5. \A p \in Scanners : ps'[p].pc \in ArchivePc => ps'[p].cur \in hist'.gone
  BY <1>1, <1>2 DEF PassesKept
<1> QED BY <1>1, <1>3, <1>4, <1>5 DEF StoreKept, FilesKept, Kept

LEMMA KeptInit == Init => Kept
<1> SUFFICES ASSUME Init PROVE Kept OBVIOUS
<1>0. Typed BY InitType
<1>s. PICK st \in [Apps -> InitStates], c \in [Apps -> InitIds] :
        LET F(a) == [id |-> c[a], net |-> st[a] # "new"]
            Ran(a) == st[a] \in {"deployed", "imported"}
        IN
        /\ file = [a \in Apps |-> IF st[a] = "empty" THEN NoFile ELSE F(a)]
        /\ row = [a \in Apps |-> IF Ran(a)
             THEN [id |-> 1, hash |-> hashFile(F(a)), status |-> "running",
                   archived |-> FALSE,
                   path |-> IF st[a] = "deployed" THEN "ok" ELSE "old"]
             ELSE NoRow]
        /\ versions = [a \in Apps |-> IF Ran(a) THEN <<F(a)>> ELSE <<>>]
        /\ hist = [gone |-> {a \in Apps : st[a] = "empty"}, raced |-> {},
               reverted |-> {}, starved |-> {}, relabelled |-> {},
               tried |-> [a \in Apps |-> IF Ran(a) THEN F(a) ELSE NoFile]]
        /\ tombs = {}
        /\ ps = [p \in Scanners |-> IdlePass]
  BY DEF Init
<1> USE <1>0, <1>s
<1> DEFINE F(a) == [id |-> c[a], net |-> st[a] # "new"]
           Ran(a) == st[a] \in {"deployed", "imported"}
<1>1. \A a \in Apps : F(a) \in Content BY LifecycleAssumption DEF Content
<1>2. \A a \in Apps : file[a] = NoFile => a \in hist.gone
  <2> SUFFICES ASSUME NEW a \in Apps, st[a] # "empty" PROVE file[a] # NoFile
    OBVIOUS
  <2>1. file[a] = F(a) OBVIOUS
  <2> QED BY <1>1, <2>1, NoFileAssumption
<1>3. \A p \in Scanners : ps[p].pc \notin ArchivePc BY DEF IdlePass, ArchivePc
<1>4. \A a \in Apps : HasRow(a) => Ran(a) /\ row[a].archived = FALSE
  BY DEF HasRow
<1>5. \A a \in Apps : Ran(a) => HasRow(a)
  <2> SUFFICES ASSUME NEW a \in Apps, Ran(a) PROVE HasRow(a) OBVIOUS
  <2>1. hashFile(F(a)) \in Hash BY <1>1, HashType DEF File
  <2>2. row[a] \in Row BY <2>1 DEF Row, Status
  <2> QED BY <2>2, NoRowAssumption DEF HasRow
<1>6. ArchivedWasGone BY <1>4 DEF ArchivedWasGone
<1>7. VersionsHaveRow BY <1>5 DEF VersionsHaveRow
<1> QED BY <1>2, <1>3, <1>6, <1>7 DEF Kept

LEMMA KeptInvariant == Spec => []Kept
BY KeptInit, KeptInductive, TypedInvariant, PTL DEF Spec

\* An app is archived only if its directory was really missing at some point:
\* Reconcile's second look at the disk (the re-stat) and the tombstones read at
\* boot never archive an app because its file is refused or does not parse.
THEOREM OnlyMissingAppsArchived == Spec => []ArchivedWasGone
<1>1. Kept => ArchivedWasGone BY DEF Kept
<1> QED BY <1>1, KeptInvariant, PTL

\* Compose history never outlives its row: DELETE, Purge and a deploy that ends
\* late cannot leave a version that belongs to no app.
THEOREM HistoryGoesWithRow == Spec => []VersionsHaveRow
<1>1. Kept => VersionsHaveRow BY DEF Kept
<1> QED BY <1>1, KeptInvariant, PTL

----------------------------------------------------------------------------
(* Apps that run from a file which today's rules refuse.                   *)

\* Refused files come from the past: no edit on disk brings one in and every
\* directory was deployed before.  And no crash can take a removal apart between
\* the row and the directory.
FilesStay ==
  /\ Proxy
  /\ "edit" \notin Ops
  /\ ~({"remove", "crash"} \subseteq Ops)
  /\ "new" \notin InitStates

RollbackPc == {"rbCheck", "rbWrite", "restore"}
StorePc == {"hash", "upsert", "version"}
RemovePc == {"rmDown", "rmPurge", "rmFiles", "rmRow"}
ScannedPc == {"deploy", "archive", "hashes", "routes"} \cup ArchivePc

\* A DELETE has purged the row of a and is about to remove its directory.
Leaving(a) == \E t \in Threads : th[t].pc = "rmFiles" /\ th[t].app = a

\* The row says that a runs from the file on disk.
Rooted(a) == Listed(a) /\ row[a].hash = hashFile(file[a])

\* A file that a rollback may write: the version, or the one it keeps.
Fine(f) == ~IsRefused(f) /\ (Present(f) => f.net)

\* Goroutine r with files f: nothing is stored for a refused app.
Calm(r, f) ==
  /\ r.op = "rollback" => Fine(r.buf)
  /\ r.pc \in RollbackPc => r.op = "rollback"
  /\ r.pc \in StorePc => r.op \in {"deploy", "rollback"}
  /\ r.pc \in RemovePc => "remove" \in Ops
  /\ r.app \in Apps /\ IsRefused(f[r.app]) =>
       r.op \notin {"deploy", "rollback"} /\ r.pc # "rmRow"

\* Pass r with files f: it knows a refused file once it has scanned it.
Aware(r, f) ==
  /\ r.pc # "inject"
  /\ \A a \in Apps : IsRefused(f[a]) =>
       /\ r.pc = "scan" => a \in r.todo \/ r.scan[a] = f[a]
       /\ r.pc \in ScannedPc => r.scan[a] = f[a]
       /\ r.pc \in ArchivePc => r.cur # a

FilesSteady == \A a \in Apps : Present(file[a]) => file[a].net
RowsSteady == \A a \in Apps : IsRefused(file[a]) =>
                (Rooted(a) \/ Leaving(a)) /\ a \notin tombs

\* No version may take the place of a refused file.
Harmless(a, v) == v.net /\ (IsRefused(file[a]) => ~Allowed(v))
HistorySteady == \A a \in Apps : \A i \in 1..Len(versions[a]) :
                   Harmless(a, versions[a][i])

ThreadsSteady == \A t \in Threads : Calm(th[t], file)
PassesSteady == \A p \in Scanners : Aware(ps[p], file)

\* The routes are right, or a pass that makes them right is on its way.
Routed(a) == IsRefused(file[a]) => routes[a] = file[a] \/ Leaving(a)
RoutesDue ==
  \/ dirty
  \/ \E p \in Scanners : ~PassIdle(p)
  \/ \A a \in Apps : Routed(a)

Steady ==
  /\ FilesSteady /\ RowsSteady /\ HistorySteady /\ ThreadsSteady
  /\ PassesSteady /\ RoutesDue

\* What a step may do to files, rows, history, goroutines, passes and routes.
KeepsFiles ==
  \A a \in Apps : /\ Present(file'[a]) => file'[a].net
                  /\ IsRefused(file'[a]) => file'[a] = file[a]

KeepsRows ==
  \A a \in Apps : IsRefused(file[a]) =>
    /\ a \notin tombs'
    /\ Listed(a) => \/ Listed(a)' /\ row'[a].hash = row[a].hash
                    \/ Leaving(a)'

KeepsHistory == \A a \in Apps : \A i \in 1..Len(versions'[a]) :
                  Harmless(a, versions'[a][i])

KeepsStore == KeepsRows /\ KeepsHistory

KeepsThreads ==
  /\ \A t \in Threads : Calm(th'[t], file')
  /\ \A a \in Apps : IsRefused(file'[a]) /\ Leaving(a) => Leaving(a)'

KeepsPasses == \A p \in Scanners : Aware(ps'[p], file)

KeepsRoutes ==
  \/ UNCHANGED <<routes, ps>> /\ dirty' = dirty
  \/ dirty'
  \/ \E p \in Scanners : ~PassIdle(p)'
  \/ \A a \in Apps : IsRefused(file[a]) => routes'[a] = file[a] \/ Leaving(a)

KeepsSteady ==
  KeepsFiles /\ KeepsStore /\ KeepsThreads /\ KeepsPasses /\ KeepsRoutes

----------------------------------------------------------------------------
(* What is left alone stays steady.                                        *)

LEMMA FilesAlone == Steady /\ UNCHANGED file => KeepsFiles
BY DEF Steady, FilesSteady, KeepsFiles

LEMMA HistoryAlone == Steady /\ UNCHANGED versions => KeepsHistory
BY DEF Steady, HistorySteady, KeepsHistory

LEMMA RowsAlone == Steady /\ UNCHANGED storeVars => KeepsStore
BY HistoryAlone
DEF Steady, RowsSteady, KeepsRows, KeepsStore, storeVars, Listed, HasRow

LEMMA PassesAlone == Steady /\ UNCHANGED ps => KeepsPasses
BY DEF Steady, PassesSteady, KeepsPasses

\* A file that is refused after a step was the same refused file before it.
LEMMA CalmStays ==
  ASSUME KeepsFiles, NEW r, Calm(r, file)
  PROVE  Calm(r, file')
BY DEF KeepsFiles, Calm

LEMMA AwareStays ==
  ASSUME KeepsFiles, NEW r, Aware(r, file)
  PROVE  Aware(r, file')
BY DEF KeepsFiles, Aware

LEMMA ThreadsAlone == Steady /\ KeepsFiles /\ UNCHANGED th => KeepsThreads
BY CalmStays DEF Steady, ThreadsSteady, KeepsThreads, Leaving

\* One goroutine moves, and it was not about to remove a directory.
LEMMA ThreadMoves ==
  ASSUME Steady, KeepsFiles, NEW t \in Threads, th[t].pc # "rmFiles",
         Calm(th'[t], file'), \A u \in Threads \ {t} : th'[u] = th[u]
  PROVE  KeepsThreads
<1>1. \A u \in Threads : Calm(th'[u], file')
  BY CalmStays DEF Steady, ThreadsSteady
<1>2. \A a \in Apps : Leaving(a) => Leaving(a)' BY DEF Leaving
<1> QED BY <1>1, <1>2 DEF KeepsThreads

\* One pass moves, and it goes on.
LEMMA PassMoves ==
  ASSUME Steady, NEW p \in Scanners, Aware(ps'[p], file),
         \A q \in Scanners \ {p} : ps'[q] = ps[q]
  PROVE  KeepsPasses
BY DEF Steady, PassesSteady, KeepsPasses

\* Steps that touch neither passes nor routes.
LEMMA RoutesAlone ==
  UNCHANGED <<ps, routes>> /\ (dirty' = dirty \/ dirty') => KeepsRoutes
BY DEF KeepsRoutes

\* A step that only moves goroutine t, to a calm place.
LEMMA OnlyThreadMoves ==
  ASSUME Steady, NEW t \in Threads, th[t].pc # "rmFiles", Calm(th'[t], file),
         \A u \in Threads \ {t} : th'[u] = th[u], KeepsStore,
         UNCHANGED <<fileVars, ps, routes>>
  PROVE  KeepsSteady
<1>1. KeepsFiles BY FilesAlone DEF fileVars
<1>2. KeepsThreads BY <1>1, ThreadMoves, CalmStays
<1> QED
  BY <1>1, <1>2, PassesAlone, RoutesAlone DEF KeepsSteady, fileVars

----------------------------------------------------------------------------
(* Operations of the store and on files, and moves of goroutines.          *)

\* One row changes, and not the one of a refused app.
LEMMA OtherRow ==
  ASSUME Steady, NEW a \in Apps, ~IsRefused(file[a]),
         \A b \in Apps \ {a} : row'[b] = row[b], tombs' \subseteq tombs \cup {a},
         versions' = versions
  PROVE  KeepsStore
BY HistoryAlone DEF Steady, RowsSteady, KeepsRows, KeepsStore, Listed, HasRow

LEMMA UpsertSteady ==
  ASSUME Typed, Steady, NEW a \in Apps, ~IsRefused(file[a]), NEW h, NEW s, NEW p,
         UpsertApp(a, h, s, p)
  PROVE  KeepsStore
<1>1. \A b \in Apps \ {a} : row'[b] = row[b]
  BY DEF UpsertApp, Typed, StoreType
<1>2. tombs' = tombs /\ versions' = versions BY DEF UpsertApp
<1> QED BY <1>1, <1>2, OtherRow

\* The status column says nothing about hash or archive.
LEMMA UpdateStatusSteady ==
  ASSUME Typed, Steady, NEW a \in Apps, NEW s \in Status, UpdateAppStatus(a, s)
  PROVE  KeepsStore
<1>1. row \in [Apps -> Row \cup {NoRow}] BY DEF Typed, StoreType
<1>2. CASE ~HasRow(a)
  BY <1>2, RowsAlone DEF UpdateAppStatus, storeVars
<1>3. CASE HasRow(a)
  <2>1. row[a] \in Row BY <1>1, <1>3 DEF HasRow
  <2>2. /\ row' = [row EXCEPT ![a].status = s]
        /\ tombs' = tombs /\ versions' = versions
    BY <1>3 DEF UpdateAppStatus
  <2>3. /\ row'[a] \in Row /\ row'[a].archived = row[a].archived
        /\ row'[a].hash = row[a].hash
        /\ \A b \in Apps \ {a} : row'[b] = row[b]
    BY <1>1, <2>1, <2>2 DEF Row
  <2>4. \A b \in Apps : Listed(b) => Listed(b)' /\ row'[b].hash = row[b].hash
    BY <2>3, NoRowAssumption DEF Listed, HasRow
  <2> QED
    BY <2>2, <2>4, HistoryAlone DEF KeepsRows, KeepsStore, Steady, RowsSteady
<1> QED BY <1>2, <1>3

LEMMA MarkSteady ==
  ASSUME Typed, Steady, NEW a \in Apps, ~IsRefused(file[a]), MarkAppArchived(a)
  PROVE  KeepsStore
<1>1. \A b \in Apps \ {a} : row'[b] = row[b]
  BY DEF MarkAppArchived, Typed, StoreType
<1>2. tombs' = tombs /\ versions' = versions BY DEF MarkAppArchived
<1> QED BY <1>1, <1>2, OtherRow

LEMMA PurgeSteady ==
  ASSUME Typed, Steady, NEW a \in Apps, PurgeApp(a),
         IsRefused(file[a]) => ~Listed(a) \/ Leaving(a)'
  PROVE  KeepsStore
<1>1. \A b \in Apps \ {a} : row'[b] = row[b]
  BY DEF PurgeApp, Typed, StoreType
<1>2. tombs' = tombs BY DEF PurgeApp
<1>3. KeepsHistory
  <2>1. Len(<<>>) = 0 OBVIOUS
  <2>2. \A b \in Apps : versions'[b] = <<>> \/ versions'[b] = versions[b]
    BY DEF PurgeApp, Typed, StoreType
  <2> QED BY <2>1, <2>2 DEF KeepsHistory, Steady, HistorySteady
<1> QED
  BY <1>1, <1>2, <1>3 DEF Steady, RowsSteady, KeepsRows, KeepsStore, Listed, HasRow

\* What is left of a history after the prune was in it or is the new version.
LEMMA NewestFrom ==
  ASSUME NEW s \in Seq(Content), NEW c \in Content,
         NEW i \in 1..Len(Newest(Append(s, c)))
  PROVE  \/ Newest(Append(s, c))[i] = c
         \/ \E j \in 1..Len(s) : Newest(Append(s, c))[i] = s[j]
<1> DEFINE u == Append(s, c)
<1>1. u \in Seq(Content) /\ Len(u) = Len(s) + 1 OBVIOUS
<1>2. \A k \in 1..Len(u) : u[k] = c \/ \E j \in 1..Len(s) : u[k] = s[j] OBVIOUS
<1> HIDE DEF u
<1>3. CASE Newest(u) = u BY <1>2, <1>3 DEF u
<1>4. CASE Newest(u) = Tail(u)
  <2>1. i \in 1..Len(Tail(u)) BY <1>4 DEF u
  <2>2. Len(Tail(u)) = Len(u) - 1 /\ Tail(u)[i] = u[i + 1] BY <1>1, <2>1
  <2>3. i + 1 \in 1..Len(u) BY <1>1, <2>1, <2>2
  <2> QED BY <1>2, <1>4, <2>2, <2>3 DEF u
<1> QED BY <1>3, <1>4 DEF Newest

LEMMA CreateVersionSteady ==
  ASSUME Typed, Steady, NEW a \in Apps, NEW id, NEW c \in Content,
         Harmless(a, c), CreateComposeVersion(a, id, c)
  PROVE  KeepsStore
<1>1. versions \in [Apps -> Seq(Content)] BY DEF Typed, StoreType
<1>2. KeepsRows
  BY DEF CreateComposeVersion, Steady, RowsSteady, KeepsRows, Listed, HasRow
<1>3. KeepsHistory
  <2>1. CASE versions' = versions BY <2>1, HistoryAlone
  <2>2. CASE versions' = [versions EXCEPT ![a] = Newest(Append(versions[a], c))]
    <3> SUFFICES ASSUME NEW b \in Apps, NEW i \in 1..Len(versions'[b])
                 PROVE  Harmless(b, versions'[b][i])
      BY DEF KeepsHistory
    <3>1. CASE b # a
      BY <1>1, <2>2, <3>1 DEF Steady, HistorySteady
    <3>2. CASE b = a
      <4>1. versions'[b] = Newest(Append(versions[a], c)) BY <1>1, <2>2, <3>2
      <4>2. versions[a] \in Seq(Content) BY <1>1
      <4>3. \/ versions'[b][i] = c
            \/ \E j \in 1..Len(versions[a]) : versions'[b][i] = versions[a][j]
        BY <4>1, <4>2, NewestFrom
      <4> QED BY <3>2, <4>3 DEF Steady, HistorySteady
    <3> QED BY <3>1, <3>2
  <2> QED BY <2>1, <2>2 DEF CreateComposeVersion
<1> QED BY <1>2, <1>3 DEF KeepsStore

LEMMA TombstoneSteady ==
  ASSUME Steady, NEW a \in Apps,
         (WriteTombstone(a) /\ ~IsRefused(file[a])) \/ DeleteTombstone(a)
  PROVE  KeepsStore
BY HistoryAlone
DEF WriteTombstone, DeleteTombstone, Steady, RowsSteady, KeepsRows, KeepsStore,
    Listed, HasRow

\* What is written is fine: an allowed file with the shared network, a removal,
\* or what a rollback kept.
LEMMA WriteSteady ==
  ASSUME Typed, Steady, NEW a \in Apps, NEW f, file' = [file EXCEPT ![a] = f], Fine(f)
  PROVE  KeepsFiles
<1>1. file \in [Apps -> File] BY DEF Typed, FilesOK
<1> QED BY <1>1 DEF KeepsFiles, Steady, FilesSteady, Fine

LEMMA RemovalFine == Fine(NoFile)
BY DEF Fine, IsRefused, Present

LEMMA EndCalm ==
  ASSUME Typed, NEW t \in Threads, EndThread(t), NEW f
  PROVE  Calm(th'[t], f) /\ \A u \in Threads \ {t} : th'[u] = th[u]
BY ThreadsAssumption
DEF Typed, ThreadsOK, EndThread, IdleThread, Calm, RollbackPc, StorePc, RemovePc

LEMMA GotoCalm ==
  ASSUME Typed, Steady, NEW t \in Threads, NEW pc, Goto(t, pc),
         pc \in RollbackPc => th[t].op = "rollback", pc # "rmRow",
         pc \in StorePc => th[t].op = "deploy",
         pc \in RemovePc => "remove" \in Ops
  PROVE  Calm(th'[t], file) /\ \A u \in Threads \ {t} : th'[u] = th[u]
<1>1. /\ th'[t].pc = pc /\ th'[t].op = th[t].op /\ th'[t].app = th[t].app
      /\ th'[t].buf = th[t].buf
      /\ \A u \in Threads \ {t} : th'[u] = th[u]
  BY DEF Typed, ThreadsOK, GoodThread, Thread, Goto
<1> QED BY <1>1 DEF Calm, Steady, ThreadsSteady

LEMMA StartCalm ==
  ASSUME Typed, NEW t \in Threads, NEW op, NEW pc, NEW a, StartThread(t, op, pc, a),
         NEW f, op # "rollback", pc \notin RollbackPc \cup StorePc, pc # "rmRow",
         pc \in RemovePc => "remove" \in Ops,
         op = "deploy" => ~IsRefused(f[a])
  PROVE  Calm(th'[t], f) /\ \A u \in Threads \ {t} : th'[u] = th[u]
<1>1. /\ th'[t].pc = pc /\ th'[t].op = op /\ th'[t].app = a
      /\ \A u \in Threads \ {t} : th'[u] = th[u]
  BY DEF Typed, ThreadsOK, StartThread, IdleThread
<1> QED BY <1>1 DEF Calm

LEMMA ReturnCalm ==
  ASSUME Typed, Steady, NEW t \in Threads, NEW res, Return(t, res)
  PROVE  Calm(th'[t], file) /\ \A u \in Threads \ {t} : th'[u] = th[u]
<1>1. /\ th'[t].pc = Continue(t) /\ th'[t].op = th[t].op
      /\ th'[t].app = th[t].app /\ th'[t].buf = th[t].buf
      /\ \A u \in Threads \ {t} : th'[u] = th[u]
  BY DEF Typed, ThreadsOK, GoodThread, Thread, Return
<1>2. Calm(th[t], file) BY DEF Steady, ThreadsSteady
<1> QED BY <1>1, <1>2 DEF Calm, Continue, RollbackPc, StorePc, RemovePc

----------------------------------------------------------------------------
(* Every step keeps the five parts.                                        *)

LEMMA DeployerSteady ==
  ASSUME Typed, Steady, NEW t \in Threads, TrackedStep(t) \/ UntrackedStep(t),
         UNCHANGED <<ps, routes>>
  PROVE  KeepsSteady
<1>1. UNCHANGED <<storeVars, fileVars>> /\ th[t].pc # "rmFiles"
  <2>1. CASE TrackedStep(t)
    BY <2>1 DEF TrackedStep, Track, CheckOk, Refuse, PullImages, PullFails,
                UpRead, UpOk, UpFails, RestartOk, RestartFails, Stabilize
  <2>2. CASE UntrackedStep(t)
    BY <2>2 DEF UntrackedStep, CancelCheck, CancelUpEnd, Stop, Start, Scale
  <2> QED BY <2>1, <2>2
<1>2. Calm(th'[t], file) /\ \A u \in Threads \ {t} : th'[u] = th[u]
  <2>1. CASE UpRead(t)
    <3>1. /\ th'[t].op = th[t].op /\ th'[t].app = th[t].app
          /\ th'[t].pc \in {"upEnd", "cUpEnd"} /\ th'[t].buf = th[t].buf
          /\ \A u \in Threads \ {t} : th'[u] = th[u]
      BY <2>1 DEF UpRead, Typed, ThreadsOK, GoodThread, Thread
    <3>2. Calm(th[t], file) BY DEF Steady, ThreadsSteady
    <3> QED BY <3>1, <3>2 DEF Calm, RollbackPc, StorePc, RemovePc
  <2>2. CASE Refuse(t) \/ PullFails(t) \/ UpFails(t) \/ RestartFails(t)
             \/ Stabilize(t)
    BY <2>2, ReturnCalm DEF Refuse, PullFails, UpFails, RestartFails, Stabilize
  <2>3. CASE Track(t) \/ CheckOk(t) \/ PullImages(t) \/ UpOk(t) \/ RestartOk(t)
    <3>1. \E pc \in TrackedPc : Goto(t, pc)
      BY <2>3 DEF Track, CheckOk, PullImages, UpOk, RestartOk, TrackedPc
    <3> QED BY <3>1, GotoCalm DEF TrackedPc, RollbackPc, StorePc, RemovePc
  <2>4. CASE UntrackedStep(t)
    <3>1. EndThread(t) \/ \E pc \in {"cUp", "setStatus"} : Goto(t, pc)
      BY <2>4 DEF UntrackedStep, CancelCheck, CancelUpEnd, Stop, Start, Scale
    <3> QED BY <3>1, EndCalm, GotoCalm DEF RollbackPc, StorePc, RemovePc
  <2> QED BY <2>1, <2>2, <2>3, <2>4 DEF TrackedStep
<1> QED BY <1>1, <1>2, RowsAlone, OnlyThreadMoves

\* One goroutine writes a fine file, and it was not about to remove a directory.
LEMMA WriterSteady ==
  ASSUME Typed, Steady, NEW t \in Threads, NEW a \in Apps, NEW f, Fine(f),
         file' = [file EXCEPT ![a] = f], dirty', th[t].pc # "rmFiles",
         Calm(th'[t], file'), \A u \in Threads \ {t} : th'[u] = th[u],
         KeepsStore, UNCHANGED ps
  PROVE  KeepsSteady
<1>1. KeepsFiles BY WriteSteady
<1>2. KeepsThreads BY <1>1, ThreadMoves
<1> QED BY <1>1, <1>2, PassesAlone DEF KeepsSteady, KeepsRoutes

\* A rollback meets no refused file: neither the version it writes nor the file
\* it keeps, and puts back when its deploy was skipped, is refused.
LEMMA RollbacksSteady ==
  ASSUME Typed, Steady, NEW t \in Threads,
         RollbackCheck(t) \/ RollbackWrite(t) \/ RollbackRestore(t)
  PROVE  KeepsSteady
<1>1. PICK a \in Apps : a = th[t].app
  BY ThreadFields DEF Typed, RollbackCheck, RollbackWrite, RollbackRestore
<1>2. /\ th[t].pc \in RollbackPc /\ UNCHANGED <<storeVars, ps, routes>>
      /\ KeepsStore
  BY RowsAlone DEF RollbackCheck, RollbackWrite, RollbackRestore, RollbackPc
<1>3. /\ Calm(th[t], file) /\ th[t].op = "rollback" /\ Fine(th[t].buf)
      /\ ~IsRefused(file[a])
  BY <1>1, <1>2 DEF Steady, ThreadsSteady, Calm
<1>4. th[t].pc # "rmFiles" BY <1>2 DEF RollbackPc
<1>5. Fine(file[a]) BY <1>3 DEF Fine, Steady, FilesSteady
<1>6. CASE RollbackCheck(t)
  <2>1. EndThread(t) \/ Goto(t, "rbWrite") BY <1>6 DEF RollbackCheck
  <2>2. Calm(th'[t], file) /\ \A u \in Threads \ {t} : th'[u] = th[u]
    BY <1>3, <2>1, EndCalm, GotoCalm DEF RollbackPc, StorePc, RemovePc
  <2> QED BY <1>2, <1>4, <1>6, <2>2, OnlyThreadMoves DEF RollbackCheck
<1>7. CASE EndThread(t) /\ UNCHANGED fileVars
  BY <1>2, <1>4, <1>7, EndCalm, OnlyThreadMoves
<1>8. CASE RollbackWrite(t) /\ Present(file[a])
  <2>1. /\ file' = [file EXCEPT ![a] = th[t].buf] /\ dirty'
        /\ th' = [th EXCEPT ![t].pc = "parse", ![t].buf = file[a]]
    BY <1>1, <1>8 DEF RollbackWrite, WriteFile
  <2>2. /\ th'[t].pc = "parse" /\ th'[t].buf = file[a] /\ th'[t].app = a
        /\ th'[t].op = "rollback" /\ \A u \in Threads \ {t} : th'[u] = th[u]
    BY <1>1, <1>3, <2>1 DEF Typed, ThreadsOK, GoodThread, Thread
  <2>3. ~IsRefused(file'[a]) BY <1>3, <2>1 DEF Typed, FilesOK, Fine
  <2>4. Calm(th'[t], file')
    BY <1>5, <2>2, <2>3 DEF Calm, RollbackPc, StorePc, RemovePc
  <2> QED BY <1>2, <1>3, <1>4, <2>1, <2>2, <2>4, WriterSteady
<1>9. CASE RollbackRestore(t) /\ Present(file[a])
  <2>1. file' = [file EXCEPT ![a] = th[t].buf] /\ dirty' /\ EndThread(t)
    BY <1>1, <1>9 DEF RollbackRestore, WriteFile
  <2>2. Calm(th'[t], file') /\ \A u \in Threads \ {t} : th'[u] = th[u]
    BY <2>1, EndCalm
  <2> QED BY <1>2, <1>3, <1>4, <2>1, <2>2, WriterSteady
<1> QED
  BY <1>1, <1>6, <1>7, <1>8, <1>9 DEF RollbackWrite, RollbackRestore

\* A retry that is queued waits: a pass that is not idle.
LEMMA QueueRetrySteady ==
  ASSUME NEW q \in [Scanners -> GoodPass], NEW a \in Apps,
         \A p \in Scanners : Aware(q[p], file), ps' = QueueRetry(q, a)
  PROVE  /\ KeepsPasses
         /\ ps' = q \/ \E p \in Scanners : ~PassIdle(p)'
<1>1. a \in Scanners BY ScannerSets
<1>2. CASE Retrying(a) BY <1>2 DEF QueueRetry, KeepsPasses
<1>3. CASE ~Retrying(a)
  <2>1. ps' = [q EXCEPT ![a].pc = "poll"] BY <1>3 DEF QueueRetry
  <2>2. ps'[a].pc = "poll" /\ \A p \in Scanners \ {a} : ps'[p] = q[p]
    BY <1>1, <2>1 DEF GoodPass, Pass
  <2>3. Aware(ps'[a], file) BY <2>2 DEF Aware, ScannedPc, ArchivePc
  <2> QED BY <1>1, <2>2, <2>3 DEF KeepsPasses, PassIdle
<1> QED BY <1>2, <1>3

LEMMA NewPassAware ==
  ASSUME NEW k, NEW f
  PROVE  Aware(NewPass(k), f) /\ NewPass(k).pc # "idle"
BY DEF Aware, NewPass, IdlePass, ScannedPc, ArchivePc

\* A pass starts.
LEMMA StartSteady ==
  ASSUME Typed, Steady, NEW p \in Scanners, NEW k, ps' = [ps EXCEPT ![p] = NewPass(k)]
  PROVE  KeepsPasses /\ KeepsRoutes
<1>1. ps'[p] = NewPass(k) /\ \A q \in Scanners \ {p} : ps'[q] = ps[q]
  BY DEF Typed, PassesOK
<1> QED BY <1>1, NewPassAware, PassMoves DEF KeepsRoutes, PassIdle

LEMMA StoresSteady ==
  ASSUME Typed, Steady, NEW t \in Threads,
         \/ LoadConfig(t) \/ Skipped(t) \/ ReadHash(t) \/ StoreApp(t)
         \/ StoreVersion(t) \/ SetStatus(t) \/ StatusQuery(t) \/ StatusUpdate(t)
  PROVE  KeepsSteady
<1> DEFINE a == th[t].app
<1>0. /\ Calm(th[t], file)
      /\ th[t].pc # "idle" => a \in Apps
  BY ThreadFields DEF Typed, Steady, ThreadsSteady
<1>1. CASE LoadConfig(t)
  <2>1. EndThread(t) \/ Goto(t, "track") BY <1>1 DEF LoadConfig
  <2>2. Calm(th'[t], file) /\ \A u \in Threads \ {t} : th'[u] = th[u]
    BY <2>1, EndCalm, GotoCalm DEF RollbackPc, StorePc, RemovePc
  <2> QED BY <1>1, <2>2, RowsAlone, OnlyThreadMoves DEF LoadConfig
<1>2. CASE Skipped(t)
  <2>1. a \in Apps /\ th[t].pc # "rmFiles" BY <1>0, <1>2 DEF Skipped
  <2>2. /\ UNCHANGED <<storeVars, fileVars, routes>>
        /\ EndThread(t) \/ (Goto(t, "restore") /\ th[t].op = "rollback")
    BY <1>2 DEF Skipped
  <2>s. Calm(th'[t], file) /\ \A u \in Threads \ {t} : th'[u] = th[u]
    BY <2>2, EndCalm, GotoCalm DEF StorePc, RemovePc
  <2>3. KeepsFiles BY <2>2, FilesAlone DEF fileVars
  <2>4. KeepsThreads
    BY <2>1, <2>2, <2>3, <2>s, ThreadMoves DEF fileVars
  <2>5. ps' = ps \/ ps' = QueueRetry(ps, a) BY <1>2 DEF Skipped
  <2>6. /\ KeepsPasses
        /\ ps' = ps \/ \E p \in Scanners : ~PassIdle(p)'
    BY <2>1, <2>5, QueueRetrySteady, PassesAlone
    DEF Typed, PassesOK, Steady, PassesSteady
  <2>7. KeepsRoutes BY <2>2, <2>6 DEF KeepsRoutes, fileVars
  <2> QED BY <2>2, <2>3, <2>4, <2>6, <2>7, RowsAlone DEF KeepsSteady
<1>3. CASE ReadHash(t)
  <2>1. /\ th'[t].pc = "upsert" /\ th'[t].op = th[t].op
        /\ th'[t].app = th[t].app /\ th'[t].buf = th[t].buf
        /\ \A u \in Threads \ {t} : th'[u] = th[u]
    BY <1>3 DEF ReadHash, Typed, ThreadsOK, GoodThread, Thread
  <2>2. th[t].pc = "hash" BY <1>3 DEF ReadHash
  <2>3. Calm(th'[t], file)
    BY <1>0, <2>1, <2>2 DEF Calm, RollbackPc, StorePc, RemovePc
  <2> QED BY <1>3, <2>1, <2>2, <2>3, RowsAlone, OnlyThreadMoves DEF ReadHash
<1>4. CASE StoreApp(t)
  <2>1. th[t].pc = "upsert" BY <1>4 DEF StoreApp
  <2>2. a \in Apps /\ ~IsRefused(file[a]) BY <1>0, <2>1 DEF Calm, StorePc
  <2>3. KeepsStore BY <1>4, <2>2, UpsertSteady DEF StoreApp
  <2>4. Calm(th'[t], file) /\ \A u \in Threads \ {t} : th'[u] = th[u]
    <3>1. CASE EndThread(t) BY <3>1, EndCalm
    <3>2. CASE th[t].op = "deploy"
      <4>1. /\ th'[t].pc = "version" /\ th'[t].op = "deploy"
            /\ th'[t].app = th[t].app /\ \A u \in Threads \ {t} : th'[u] = th[u]
        BY <1>4, <3>2 DEF StoreApp, Typed, ThreadsOK, GoodThread, Thread
      <4> QED BY <2>2, <4>1 DEF Calm, RollbackPc, StorePc, RemovePc
    <3> QED BY <1>4, <3>1, <3>2 DEF StoreApp
  <2>5. UNCHANGED <<fileVars, ps, routes>> BY <1>4 DEF StoreApp
  <2> QED BY <1>4, <2>1, <2>3, <2>4, <2>5, OnlyThreadMoves DEF StoreApp
<1>5. CASE StoreVersion(t)
  <2>1. EndThread(t) /\ UNCHANGED <<fileVars, routes>> BY <1>5 DEF StoreVersion
  <2>2. KeepsFiles BY <2>1, FilesAlone DEF fileVars
  <2>3. KeepsThreads
    BY <1>5, <2>1, <2>2, EndCalm, ThreadMoves DEF StoreVersion
  <2>4. KeepsStore
    <3>1. PICK b \in Apps : b = th[t].app BY <1>0, <1>5 DEF StoreVersion
    <3>2. ~IsRefused(file[b]) /\ file[b] \in File
      BY <1>0, <1>5, <3>1 DEF StoreVersion, Calm, StorePc, Typed, FilesOK
    <3>3. CASE Present(file[b]) /\ CreateComposeVersion(b, th[t].id, file[b])
      <4>1. file[b] \in Content BY <3>2, <3>3 DEF File, Present
      <4>2. Harmless(b, file[b]) BY <3>2, <3>3 DEF Harmless, Steady, FilesSteady
      <4> QED BY <3>3, <4>1, <4>2, CreateVersionSteady
    <3> QED BY <1>5, <3>1, <3>3, RowsAlone DEF StoreVersion
  <2>5. ps' = ps \/ ps' = [ps EXCEPT ![t] = NewPass("routes")]
    BY <1>5 DEF StoreVersion
  <2>6. KeepsPasses /\ KeepsRoutes
    BY <2>1, <2>5, StartSteady, ScannerSets, PassesAlone, RoutesAlone DEF fileVars
  <2> QED BY <2>2, <2>3, <2>4, <2>6 DEF KeepsSteady
<1>6. CASE SetStatus(t) \/ StatusUpdate(t)
  <2>1. a \in Apps BY <1>0, <1>6 DEF SetStatus, StatusUpdate
  <2>2. KeepsStore
    BY <1>6, <2>1, UpdateStatusSteady, StatusOfType, ThreadFields
    DEF SetStatus, StatusUpdate, Typed
  <2> QED
    BY <1>6, <2>2, EndCalm, OnlyThreadMoves DEF SetStatus, StatusUpdate
<1>7. CASE StatusQuery(t)
  <2>1. CASE EndThread(t)
    BY <1>7, <2>1, EndCalm, RowsAlone, OnlyThreadMoves DEF StatusQuery
  <2>2. CASE ~EndThread(t)
    <3>1. PICK s : th' = [th EXCEPT ![t].pc = "rsUpdate", ![t].res = s]
      BY <1>7, <2>2 DEF StatusQuery
    <3>2. /\ th'[t].pc = "rsUpdate" /\ th'[t].op = th[t].op
          /\ th'[t].app = th[t].app /\ th'[t].buf = th[t].buf
          /\ \A u \in Threads \ {t} : th'[u] = th[u]
      BY <3>1 DEF Typed, ThreadsOK, GoodThread, Thread
    <3>3. Calm(th'[t], file)
      BY <1>0, <3>2 DEF Calm, RollbackPc, StorePc, RemovePc
    <3> QED BY <1>7, <3>2, <3>3, RowsAlone, OnlyThreadMoves DEF StatusQuery
  <2> QED BY <2>1, <2>2
<1> QED BY <1>1, <1>2, <1>3, <1>4, <1>5, <1>6, <1>7

\* A removal that has purged the row is Leaving until the directory is gone.
LEMMA RemovesSteady ==
  ASSUME Typed, Steady, NEW t \in Threads,
         \/ RemoveTeardown(t) \/ RemovePurge(t) \/ RemoveFiles(t)
         \/ RemoveRow(t) \/ PurgeTombstone(t)
  PROVE  KeepsSteady
<1> DEFINE a == th[t].app
<1>0. /\ Calm(th[t], file)
      /\ th[t].pc # "idle" => a \in Apps
  BY ThreadFields DEF Typed, Steady, ThreadsSteady
<1>1. CASE RemoveTeardown(t)
  <2>1. "remove" \in Ops BY <1>0, <1>1 DEF RemoveTeardown, Calm, RemovePc
  <2>2. EndThread(t) \/ Goto(t, "rmPurge") BY <1>1 DEF RemoveTeardown
  <2>3. Calm(th'[t], file) /\ \A u \in Threads \ {t} : th'[u] = th[u]
    BY <2>1, <2>2, EndCalm, GotoCalm DEF RollbackPc, StorePc
  <2> QED BY <1>1, <2>3, RowsAlone, OnlyThreadMoves DEF RemoveTeardown
<1>2. CASE RemovePurge(t)
  <2>1. PICK b \in Apps : b = th[t].app BY <1>0, <1>2 DEF RemovePurge
  <2>2. "remove" \in Ops BY <1>0, <1>2 DEF RemovePurge, Calm, RemovePc
  <2>3. CASE HasRow(b)
    <3>1. PurgeApp(b) /\ Goto(t, "rmFiles") BY <1>2, <2>1, <2>3 DEF RemovePurge
    <3>2. th'[t].pc = "rmFiles" /\ th'[t].app = b
      BY <2>1, <3>1 DEF Goto, Typed, ThreadsOK, GoodThread, Thread
    <3>3. Leaving(b)' BY <3>2 DEF Leaving
    <3>4. KeepsStore BY <3>1, <3>3, PurgeSteady
    <3>5. Calm(th'[t], file) /\ \A u \in Threads \ {t} : th'[u] = th[u]
      BY <2>2, <3>1, GotoCalm DEF RollbackPc, StorePc
    <3> QED BY <1>2, <3>4, <3>5, OnlyThreadMoves DEF RemovePurge
  <2>4. CASE ~HasRow(b)
    BY <1>2, <2>1, <2>4, EndCalm, RowsAlone, OnlyThreadMoves DEF RemovePurge
  <2> QED BY <2>3, <2>4
<1>3. CASE RemoveFiles(t)
  <2>1. a \in Apps /\ "remove" \in Ops
    BY <1>0, <1>3 DEF RemoveFiles, Calm, RemovePc
  <2>2. /\ DeleteTombstone(a) /\ Goto(t, "rmRow") /\ UNCHANGED <<ps, routes>>
        /\ file' = [file EXCEPT ![a] = NoFile] /\ dirty'
    BY <1>3 DEF RemoveFiles, WriteFile
  <2>3. KeepsFiles BY <2>1, <2>2, WriteSteady, RemovalFine
  <2>4. ~IsRefused(file'[a])
    BY <2>1, <2>2 DEF Typed, FilesOK, IsRefused, Present
  <2>5. /\ th'[t].pc = "rmRow" /\ th'[t].op = th[t].op /\ th'[t].app = a
        /\ th'[t].buf = th[t].buf
        /\ \A u \in Threads \ {t} : th'[u] = th[u]
    BY <2>2 DEF Goto, Typed, ThreadsOK, GoodThread, Thread
  <2>6. Calm(th'[t], file')
    <3>1. th[t].op = "rollback" => Fine(th[t].buf) BY <1>0 DEF Calm
    <3> QED BY <2>1, <2>4, <2>5, <3>1 DEF Calm, RollbackPc, StorePc
  <2>7. \A u \in Threads : Calm(th'[u], file')
    BY <2>3, <2>5, <2>6, CalmStays DEF Steady, ThreadsSteady
  <2>8. \A b \in Apps : IsRefused(file'[b]) /\ Leaving(b) => Leaving(b)'
    BY <2>4, <2>5 DEF Leaving
  <2> QED
    BY <2>1, <2>2, <2>3, <2>7, <2>8, TombstoneSteady, PassesAlone
    DEF KeepsSteady, KeepsThreads, KeepsRoutes
<1>4. CASE RemoveRow(t)
  <2>1. a \in Apps /\ ~IsRefused(file[a]) BY <1>0, <1>4 DEF RemoveRow, Calm
  <2>2. KeepsStore BY <1>4, <2>1, PurgeSteady DEF RemoveRow
  <2> QED BY <1>4, <2>2, EndCalm, OnlyThreadMoves DEF RemoveRow
<1>5. CASE PurgeTombstone(t)
  <2>1. a \in Apps BY <1>0, <1>5 DEF PurgeTombstone
  <2>2. KeepsStore BY <1>5, <2>1, TombstoneSteady DEF PurgeTombstone
  <2> QED BY <1>5, <2>2, EndCalm, OnlyThreadMoves DEF PurgeTombstone
<1> QED BY <1>1, <1>2, <1>3, <1>4, <1>5

\* A pass moves on; nothing else changes but, perhaps, the rows.
LEMMA OnlyPassMoves ==
  ASSUME Steady, NEW p \in Scanners, Aware(ps'[p], file), ps'[p].pc # "idle",
         \A q \in Scanners \ {p} : ps'[q] = ps[q], KeepsStore,
         UNCHANGED <<file, th>>
  PROVE  KeepsSteady
<1>1. KeepsFiles BY FilesAlone
<1>2. KeepsThreads BY <1>1, ThreadsAlone
<1>3. KeepsPasses BY PassMoves
<1>4. KeepsRoutes BY DEF KeepsRoutes, PassIdle
<1> QED BY <1>1, <1>2, <1>3, <1>4 DEF KeepsSteady

\* The loops of a pass never deploy, touch or archive a refused app.
LEMMA ScansSteady ==
  ASSUME Typed, Steady, NEW p \in Scanners,
         \/ InjectNetwork(p) \/ ScanDone(p) \/ WaitDeploys(p) \/ ArchiveDone(p)
         \/ HashesDone(p) \/ \E a \in Apps : ScanApp(p, a)
  PROVE  KeepsSteady
<1>0. /\ ps \in [Scanners -> GoodPass] /\ ps[p] \in Pass
      /\ ps[p].scan \in [Apps -> File] /\ Aware(ps[p], file)
  BY PassFields DEF Typed, PassesOK, Steady, PassesSteady
<1>1. ~InjectNetwork(p) BY <1>0 DEF InjectNetwork, Aware
<1>2. CASE ScanDone(p)
  <2>1. /\ ps[p].pc = "scan" /\ ps[p].todo = {}
        /\ ps'[p].pc \in {"deploy", "hashes", "routes"}
        /\ ps'[p].scan = ps[p].scan
        /\ \A q \in Scanners \ {p} : ps'[q] = ps[q]
    BY <1>0, <1>2 DEF ScanDone, Pass, PassKind
  <2>2. Aware(ps'[p], file) BY <1>0, <2>1 DEF Aware, ScannedPc, ArchivePc
  <2> QED BY <1>2, <2>1, <2>2, RowsAlone, OnlyPassMoves DEF ScanDone, fileVars
<1>3. CASE WaitDeploys(p) \/ ArchiveDone(p) \/ HashesDone(p)
  <2>1. /\ ps[p].pc \in {"deploy", "archive", "hashes"}
        /\ ps'[p].pc \in {"archive", "routes"}
        /\ ps'[p].scan = ps[p].scan
        /\ \A q \in Scanners \ {p} : ps'[q] = ps[q]
    BY <1>0, <1>3 DEF WaitDeploys, ArchiveDone, HashesDone, Pass
  <2>2. Aware(ps'[p], file) BY <1>0, <2>1 DEF Aware, ScannedPc, ArchivePc
  <2>3. UNCHANGED <<storeVars, fileVars, th>>
    BY <1>3 DEF WaitDeploys, ArchiveDone, HashesDone
  <2> QED BY <2>1, <2>2, <2>3, RowsAlone, OnlyPassMoves DEF fileVars
<1>4. ASSUME NEW a \in Apps, ScanApp(p, a) PROVE KeepsSteady
  <2>1. ~NeedsNetwork(file[a])
    BY DEF NeedsNetwork, Parses, Steady, FilesSteady
  <2>2. ps' = [ps EXCEPT ![p].todo = @ \ {a}, ![p].scan[a] = file[a]]
    BY <1>4, <2>1 DEF ScanApp
  <2>3. /\ ps[p].pc = "scan" /\ ps'[p].pc = "scan"
        /\ ps'[p].todo = ps[p].todo \ {a}
        /\ ps'[p].scan = [ps[p].scan EXCEPT ![a] = file[a]]
        /\ \A q \in Scanners \ {p} : ps'[q] = ps[q]
    BY <1>0, <1>4, <2>2 DEF ScanApp, Pass
  <2>4. Aware(ps'[p], file)
    BY <1>0, <2>3 DEF Aware, ScannedPc, ArchivePc
  <2> QED BY <1>4, <2>3, <2>4, RowsAlone, OnlyPassMoves DEF ScanApp, fileVars
<1> QED BY <1>1, <1>2, <1>3, <1>4

LEMMA ArchivesSteady ==
  ASSUME Typed, Steady, NEW p \in Scanners,
         \/ ArchiveTeardown(p) \/ ArchiveSidecar(p) \/ ArchiveTombstone(p)
         \/ ArchiveMark(p) \/ \E a \in Apps : ArchiveLoop(p, a)
  PROVE  KeepsSteady
<1>0. /\ ps \in [Scanners -> GoodPass] /\ ps[p] \in Pass /\ Aware(ps[p], file)
      /\ ps[p].pc \in CurPc => ps[p].cur \in Apps
  BY PassFields DEF Typed, PassesOK, Steady, PassesSteady
<1>1. CASE ArchiveTeardown(p) \/ ArchiveSidecar(p) \/ ArchiveTombstone(p)
           \/ ArchiveMark(p)
  <2>1. ps[p].pc \in ArchivePc /\ ps[p].cur \in Apps
    BY <1>0, <1>1 DEF ArchiveTeardown, ArchiveSidecar, ArchiveTombstone,
                      ArchiveMark, ArchivePc, CurPc
  <2>2. ~IsRefused(file[ps[p].cur]) BY <1>0, <2>1 DEF Aware
  <2>3. KeepsStore
    BY <1>1, <2>1, <2>2, RowsAlone, TombstoneSteady, MarkSteady
    DEF ArchiveTeardown, ArchiveSidecar, ArchiveTombstone, ArchiveMark
  <2>4. /\ ps'[p].pc \in {"sidecar", "tomb", "mark", "archive"}
        /\ ps'[p].pc \in ArchivePc => ps'[p].cur = ps[p].cur
        /\ ps'[p].scan = ps[p].scan
        /\ \A q \in Scanners \ {p} : ps'[q] = ps[q]
    BY <1>0, <1>1 DEF ArchiveTeardown, ArchiveSidecar, ArchiveTombstone,
                      ArchiveMark, ArchivePc, Pass
  <2>5. Aware(ps'[p], file)
    BY <1>0, <2>1, <2>4 DEF Aware, ScannedPc, ArchivePc
  <2>6. UNCHANGED <<fileVars, th>>
    BY <1>1 DEF ArchiveTeardown, ArchiveSidecar, ArchiveTombstone, ArchiveMark
  <2> QED BY <2>3, <2>4, <2>5, <2>6, OnlyPassMoves DEF fileVars
<1>2. ASSUME NEW a \in Apps, ArchiveLoop(p, a) PROVE KeepsSteady
  <2>1. /\ ps[p].pc = "archive"
        /\ ps'[p].pc = IF MustArchive(p, a) THEN "teardown" ELSE "archive"
        /\ ps'[p].cur = IF MustArchive(p, a) THEN a ELSE Nobody
        /\ ps'[p].scan = ps[p].scan
        /\ \A q \in Scanners \ {p} : ps'[q] = ps[q]
    BY <1>0, <1>2 DEF ArchiveLoop, Pass
  <2>2. MustArchive(p, a) => ~IsRefused(file[a])
    BY DEF MustArchive, IsRefused
  <2>3. Aware(ps'[p], file)
    BY <1>0, <2>1, <2>2 DEF Aware, ScannedPc, ArchivePc
  <2>4. ps'[p].pc # "idle" BY <2>1
  <2> QED
    BY <1>2, <2>1, <2>3, <2>4, RowsAlone, OnlyPassMoves DEF ArchiveLoop, fileVars
<1> QED BY <1>1, <1>2

LEMMA DeployLoopSteady ==
  ASSUME Typed, Steady, NEW p \in Scanners, NEW a \in Apps, DeployLoop(p, a)
  PROVE  KeepsSteady
<1>0. /\ ps \in [Scanners -> GoodPass] /\ ps[p] \in Pass /\ Aware(ps[p], file)
  BY PassFields DEF Typed, PassesOK, Steady, PassesSteady
<1>1. ps[p].pc = "deploy" BY DEF DeployLoop
<1>2. Desired(p, a) => ~IsRefused(file[a])
  BY <1>0, <1>1 DEF Desired, Aware, ScannedPc, Allowed, Parses, IsRefused
<1>3. KeepsStore
  BY <1>2, UpsertSteady, RowsAlone DEF DeployLoop, NormalizePath
<1>4. KeepsFiles BY FilesAlone DEF DeployLoop, fileVars
<1>5. KeepsThreads
  <2>1. CASE VisitUnchanged(p, a) \/ VisitDeploying(p, a)
    BY <1>4, <2>1, ThreadsAlone DEF VisitUnchanged, VisitDeploying
  <2>2. CASE VisitChanged(p, a)
    <3>1. /\ StartThread(<<p, a>>, "deploy", "track", a) /\ th[<<p, a>>].pc = "idle"
          /\ ~IsRefused(file[a])
      BY <1>2, <2>2 DEF VisitChanged, NeedsDeploy, Idle
    <3>2. CASE <<p, a>> \in Threads
      <4>1. /\ Calm(th'[<<p, a>>], file)
            /\ \A u \in Threads \ {<<p, a>>} : th'[u] = th[u]
        BY <3>1, <3>2, StartCalm DEF RollbackPc, StorePc, RemovePc
      <4> QED BY <1>4, <3>1, <3>2, <4>1, CalmStays, ThreadMoves
    <3>3. CASE <<p, a>> \notin Threads
      <4>1. th' = th BY <3>1, <3>3 DEF StartThread, Typed, ThreadsOK
      <4> QED BY <1>4, <4>1, ThreadsAlone
    <3> QED BY <3>2, <3>3
  <2> QED BY <2>1, <2>2 DEF DeployLoop
<1> DEFINE q == [ps EXCEPT ![p].todo = @ \ {a}]
<1>6. /\ q \in [Scanners -> GoodPass] /\ q[p].pc = "deploy"
      /\ q[p].scan = ps[p].scan /\ \A o \in Scanners \ {p} : q[o] = ps[o]
  <2>1. [ps[p] EXCEPT !.todo = @ \ {a}] \in GoodPass
    BY <1>0, <1>1 DEF GoodPass, Pass, CurPc
  <2> QED BY <1>0, <1>1, <2>1 DEF Pass
<1>7. ps' = q \/ ps' = QueueRetry(q, a)
  BY DEF DeployLoop, VisitUnchanged, VisitDeploying, VisitChanged
<1> HIDE DEF q
<1>8. \A o \in Scanners : Aware(q[o], file)
  BY <1>0, <1>1, <1>6 DEF Aware, ScannedPc, ArchivePc, Steady, PassesSteady
<1>9. /\ KeepsPasses
      /\ ps' = q \/ \E o \in Scanners : ~PassIdle(o)'
  BY <1>6, <1>7, <1>8, QueueRetrySteady DEF KeepsPasses
<1>10. KeepsRoutes BY <1>6, <1>9 DEF KeepsRoutes, PassIdle
<1> QED BY <1>3, <1>4, <1>5, <1>9, <1>10 DEF KeepsSteady

LEMMA RefreshHashSteady ==
  ASSUME Typed, Steady, NEW p \in Scanners, NEW a \in Apps, RefreshHash(p, a)
  PROVE  KeepsSteady
<1>0. /\ ps \in [Scanners -> GoodPass] /\ ps[p] \in Pass /\ Aware(ps[p], file)
  BY PassFields DEF Typed, PassesOK, Steady, PassesSteady
<1>1. /\ ps[p].pc = "hashes" /\ ps'[p].pc = "hashes"
      /\ ps'[p].scan = ps[p].scan /\ \A q \in Scanners \ {p} : ps'[q] = ps[q]
  BY <1>0 DEF RefreshHash, Pass
<1>2. Aware(ps'[p], file) BY <1>0, <1>1 DEF Aware, ScannedPc, ArchivePc
<1>3. Desired(p, a) => ~IsRefused(file[a])
  BY <1>0, <1>1 DEF Desired, Aware, ScannedPc, Allowed, Parses, IsRefused
<1>4. KeepsStore BY <1>3, UpsertSteady, RowsAlone DEF RefreshHash
<1> QED BY <1>1, <1>2, <1>4, OnlyPassMoves DEF RefreshHash, fileVars

\* updateProxyRoutes routes every refused app that its row roots.
LEMMA SetRoutesSteady ==
  ASSUME Typed, Steady, Proxy, NEW p \in Scanners, SetRoutes(p)
  PROVE  KeepsSteady
<1>0. /\ ps \in [Scanners -> GoodPass] /\ Aware(ps[p], file)
      /\ ps[p].pc = "routes"
  BY DEF Typed, PassesOK, Steady, PassesSteady, SetRoutes
<1>1. UNCHANGED <<storeVars, fileVars, th>> BY DEF SetRoutes
<1>2. KeepsFiles BY <1>1, FilesAlone DEF fileVars
<1>3. KeepsThreads BY <1>1, <1>2, ThreadsAlone
<1>4. ps'[p] = IdlePass /\ \A q \in Scanners \ {p} : ps'[q] = ps[q]
  BY <1>0 DEF SetRoutes
<1>5. Aware(IdlePass, file) BY DEF Aware, IdlePass, ScannedPc, ArchivePc
<1>6. KeepsPasses BY <1>4, <1>5, PassMoves
<1>7. ASSUME NEW a \in Apps, IsRefused(file[a])
      PROVE  routes'[a] = file[a] \/ Leaving(a)
  <2>1. ps[p].scan[a] = file[a] BY <1>0, <1>7 DEF Aware, ScannedPc
  <2>2. hashFile(file[a]) # NoHash BY <1>7 DEF hashFile, IsRefused, NoHash
  <2>3. Rooted(a) => RouteOnly(p, a)
    BY <1>7, <2>1, <2>2 DEF Rooted, RouteOnly
  <2>4. RouteOnly(p, a) => routes'[a] = file[a] BY <2>1 DEF SetRoutes
  <2> QED BY <1>7, <2>3, <2>4 DEF Steady, RowsSteady
<1>8. KeepsRoutes BY <1>7 DEF KeepsRoutes
<1> QED BY <1>1, <1>2, <1>3, <1>6, <1>8, RowsAlone DEF KeepsSteady

LEMMA PassStepSteady ==
  ASSUME Typed, Steady, Proxy, NEW p \in Scanners, PassStep(p)
  PROVE  KeepsSteady
<1>1. ASSUME NEW a \in Apps, p = a, RetryStarts(a) PROVE KeepsSteady
  <2>1. ps' = [ps EXCEPT ![p] = NewPass("reconcile")] BY <1>1 DEF RetryStarts
  <2>2. UNCHANGED <<storeVars, fileVars, th>> BY <1>1 DEF RetryStarts
  <2>3. KeepsFiles BY <2>2, FilesAlone DEF fileVars
  <2> QED
    BY <2>1, <2>2, <2>3, StartSteady, RowsAlone, ThreadsAlone DEF KeepsSteady
<1> QED
  BY <1>1, ScansSteady, ArchivesSteady, DeployLoopSteady, RefreshHashSteady,
     SetRoutesSteady
  DEF PassStep

LEMMA ApiStartsSteady ==
  ASSUME Typed, Steady, NEW j \in Jobs, NEW a \in Apps,
         \/ ApiRestart(j, a) \/ ApiPull(j, a) \/ ApiCancel(j, a) \/ ApiStop(j, a)
         \/ ApiStart(j, a) \/ ApiScale(j, a) \/ RefreshStatuses(j, a)
  PROVE  KeepsSteady
<1>0. j \in Threads BY JobInThreads
<1>1. /\ th[j].pc = "idle"
      /\ UNCHANGED <<storeVars, fileVars, ps, routes>>
  BY DEF ApiRestart, ApiPull, ApiCancel, ApiStop, ApiStart, ApiScale,
         RefreshStatuses, Idle
<1>2. Calm(th'[j], file) /\ \A u \in Threads \ {j} : th'[u] = th[u]
  <2>1. CASE RefreshStatuses(j, a)
    <3>1. /\ th'[j].pc = "rsQuery" /\ th'[j].op = "statuses"
          /\ \A u \in Threads \ {j} : th'[u] = th[u]
      BY <1>0, <2>1 DEF RefreshStatuses, Typed, ThreadsOK, IdleThread
    <3> QED BY <3>1 DEF Calm, RollbackPc, StorePc, RemovePc
  <2>2. CASE ~RefreshStatuses(j, a)
    <3>1. \E op \in {"restart", "pull", "cancel", "stop", "start", "scale"},
             pc \in {"parse", "cCheck", "stop", "start", "scale"} :
            StartThread(j, op, pc, a)
      BY <2>2 DEF ApiRestart, ApiPull, ApiCancel, ApiStop, ApiStart, ApiScale
    <3> QED BY <1>0, <3>1, StartCalm DEF RollbackPc, StorePc, RemovePc
  <2> QED BY <2>1, <2>2
<1> QED BY <1>0, <1>1, <1>2, RowsAlone, OnlyThreadMoves

LEMMA ApiRemovesSteady ==
  ASSUME Typed, Steady, NEW j \in Jobs, NEW a \in Apps,
         ApiRemove(j, a) \/ ApiPurge(j, a)
  PROVE  KeepsSteady
<1>0. j \in Threads BY JobInThreads
<1>1. CASE ApiRemove(j, a) /\ Listed(a)
  <2>1. /\ "remove" \in Ops /\ th[j].pc = "idle"
        /\ StartThread(j, "remove", "rmDown", a)
        /\ UNCHANGED <<storeVars, fileVars, ps, routes>>
    BY <1>1 DEF ApiRemove, Request, Idle, Listed, fileVars, WriteFile
  <2>2. Calm(th'[j], file) /\ \A u \in Threads \ {j} : th'[u] = th[u]
    BY <1>0, <2>1, StartCalm DEF RollbackPc, StorePc
  <2> QED BY <1>0, <2>1, <2>2, RowsAlone, OnlyThreadMoves
<1>2. CASE ApiRemove(j, a) /\ ~Listed(a)
  <2>1. /\ DeleteTombstone(a) /\ dirty' /\ UNCHANGED <<th, ps, routes>>
        /\ file' = [file EXCEPT ![a] = NoFile]
    BY <1>2 DEF ApiRemove, WriteFile
  <2>2. KeepsFiles BY <2>1, WriteSteady, RemovalFine
  <2> QED
    BY <2>1, <2>2, TombstoneSteady, ThreadsAlone, PassesAlone
    DEF KeepsSteady, KeepsRoutes
<1>3. CASE ApiPurge(j, a)
  <2>1. /\ ~Listed(a) /\ PurgeApp(a) /\ th[j].pc = "idle"
        /\ StartThread(j, "purge", "pgTomb", a)
        /\ UNCHANGED <<fileVars, ps, routes>>
    BY <1>3 DEF ApiPurge, Listed, Idle
  <2>2. KeepsStore BY <2>1, PurgeSteady
  <2>3. Calm(th'[j], file) /\ \A u \in Threads \ {j} : th'[u] = th[u]
    BY <1>0, <2>1, StartCalm DEF RollbackPc, StorePc, RemovePc
  <2> QED BY <1>0, <2>1, <2>2, <2>3, OnlyThreadMoves
<1> QED BY <1>1, <1>2, <1>3

\* handleDeploy writes a file it has checked.
LEMMA ApiDeploySteady ==
  ASSUME Typed, Steady, NEW j \in Jobs, NEW a \in Apps, NEW id \in Ids,
         ApiDeploy(j, a, id)
  PROVE  KeepsSteady
<1> DEFINE f == [id |-> id, net |-> TRUE]
<1>0. j \in Threads BY JobInThreads
<1>1. /\ Allowed(f) /\ file' = [file EXCEPT ![a] = f] /\ dirty'
      /\ StartThread(j, "deploy", "parse", a) /\ th[j].pc = "idle"
      /\ UNCHANGED <<storeVars, ps, routes>>
  BY DEF ApiDeploy, WriteFile, Idle
<1>2. f.net OBVIOUS
<1>3. file'[a] = f BY <1>1 DEF Typed, FilesOK
<1> HIDE DEF f
<1>4. KeepsFiles
  <2>1. Fine(f) BY <1>1, <1>2 DEF Fine, Allowed, Parses, IsRefused
  <2> QED BY <1>1, <2>1, WriteSteady
<1>5. ~IsRefused(file'[a]) BY <1>1, <1>3 DEF Allowed, Parses, IsRefused
<1>6. Calm(th'[j], file') /\ \A u \in Threads \ {j} : th'[u] = th[u]
  <2>1. /\ th'[j].pc = "parse" /\ th'[j].op = "deploy" /\ th'[j].app = a
        /\ \A u \in Threads \ {j} : th'[u] = th[u]
    BY <1>0, <1>1 DEF StartThread, IdleThread, Typed, ThreadsOK
  <2> QED BY <1>5, <2>1 DEF Calm, RollbackPc, StorePc, RemovePc
<1>7. KeepsThreads BY <1>0, <1>1, <1>4, <1>6, ThreadMoves
<1> QED
  BY <1>1, <1>4, <1>7, RowsAlone, PassesAlone DEF KeepsSteady, KeepsRoutes

\* A label edit is refused if the file it would leave is refused.
LEMMA ApiRelabelSteady ==
  ASSUME Typed, Steady, NEW j \in Jobs, NEW a \in Apps, NEW id \in Ids,
         ApiRelabel(j, a, id)
  PROVE  KeepsSteady
<1> DEFINE f == [file[a] EXCEPT !.id = id]
<1>1. /\ Allowed(f) /\ Present(file[a]) /\ file' = [file EXCEPT ![a] = f]
      /\ ps' = [ps EXCEPT ![j] = NewPass("refresh")]
      /\ UNCHANGED <<storeVars, th>>
  BY DEF ApiRelabel, Parses
<1>2. file[a] \in Content BY <1>1 DEF Typed, FilesOK, File, Present
<1>3. f.net BY <1>1, <1>2 DEF Content, Steady, FilesSteady
<1> HIDE DEF f
<1>4. KeepsFiles
  <2>1. Fine(f) BY <1>1, <1>3 DEF Fine, Allowed, Parses, IsRefused
  <2> QED BY <1>1, <2>1, WriteSteady
<1>5. KeepsPasses /\ KeepsRoutes
  BY <1>1, StartSteady, JobInThreads, ScannerSets
<1> QED BY <1>1, <1>4, <1>5, RowsAlone, ThreadsAlone DEF KeepsSteady

\* An app with a refused file has no version that may be rolled back to.
LEMMA ApiRollbackSteady ==
  ASSUME Typed, Steady, NEW j \in Jobs, NEW a \in Apps, NEW i \in 1..KeepVersions,
         ApiRollback(j, a, i)
  PROVE  KeepsSteady
<1>0. j \in Threads BY JobInThreads
<1>1. /\ i \in 1..Len(versions[a]) /\ Allowed(versions[a][i])
      /\ th[j].pc = "idle" /\ UNCHANGED <<storeVars, fileVars, ps, routes>>
  BY DEF ApiRollback, MayRollBack, Idle
<1>2. versions[a][i].net /\ ~IsRefused(file[a])
  BY <1>1 DEF Steady, HistorySteady, Harmless
<1>3. Fine(versions[a][i])
  BY <1>1, <1>2 DEF Fine, Allowed, Parses, IsRefused
<1>4. /\ th'[j].pc = "rbCheck" /\ th'[j].op = "rollback" /\ th'[j].app = a
      /\ th'[j].buf = versions[a][i] /\ \A u \in Threads \ {j} : th'[u] = th[u]
  BY <1>0 DEF ApiRollback, Typed, ThreadsOK, IdleThread
<1>5. Calm(th'[j], file)
  BY <1>2, <1>3, <1>4 DEF Calm, RollbackPc, StorePc, RemovePc
<1> QED BY <1>0, <1>1, <1>4, <1>5, RowsAlone, OnlyThreadMoves

LEMMA ApiRequestSteady == FilesStay /\ Typed /\ Steady /\ ApiRequest => KeepsSteady
<1> SUFFICES ASSUME FilesStay, Typed, Steady, NEW j \in Jobs, NEW a \in Apps,
      \/ ApiRestart(j, a) \/ ApiPull(j, a) \/ ApiCancel(j, a) \/ ApiStop(j, a)
      \/ ApiStart(j, a) \/ ApiScale(j, a) \/ ApiRemove(j, a) \/ ApiPurge(j, a)
      \/ RefreshStatuses(j, a)
      \/ \E id \in Ids : ApiDeploy(j, a, id) \/ ApiRelabel(j, a, id)
      \/ \E i \in 1..KeepVersions : ApiRollback(j, a, i)
    PROVE KeepsSteady
  BY DEF ApiRequest
<1> QED
  BY ApiStartsSteady, ApiRemovesSteady, ApiDeploySteady, ApiRelabelSteady,
     ApiRollbackSteady

\* A boot archives no refused app, because none has a tombstone, and starts a
\* Reconcile.
LEMMA CrashSteady == FilesStay /\ Typed /\ Steady /\ Crash => KeepsSteady
<1> SUFFICES ASSUME FilesStay, Typed, Steady, Crash PROVE KeepsSteady OBVIOUS
<1>1. dirty' /\ UNCHANGED <<file, tombs>> BY DEF Crash
<1>2. KeepsFiles BY <1>1, FilesAlone
<1>3. KeepsStore
  <2>1. \A a \in Apps : IsRefused(file[a]) => a \notin tombs /\ row'[a] = row[a]
    BY DEF Crash, Steady, RowsSteady
  <2>2. KeepsHistory BY HistoryAlone DEF Crash
  <2> QED BY <1>1, <2>1, <2>2 DEF KeepsRows, KeepsStore, Listed, HasRow
<1>4. KeepsThreads
  <2>1. \A t \in Threads : Calm(th'[t], file')
    BY DEF Crash, Calm, IdleThread, RollbackPc, StorePc, RemovePc
  <2>2. "remove" \notin Ops BY DEF Crash, Request, FilesStay
  <2>3. \A a \in Apps : ~Leaving(a)
    BY <2>2 DEF Leaving, Steady, ThreadsSteady, Calm, RemovePc
  <2> QED BY <2>1, <2>3 DEF KeepsThreads
<1>5. KeepsPasses
  BY DEF Crash, KeepsPasses, Aware, IdlePass, ScannedPc, ArchivePc
<1> QED BY <1>1, <1>2, <1>3, <1>4, <1>5 DEF KeepsSteady, KeepsRoutes

LEMMA OutsideSteady == FilesStay /\ Typed /\ Steady /\ Outside => KeepsSteady
<1> SUFFICES ASSUME FilesStay, Typed, Steady, Outside PROVE KeepsSteady OBVIOUS
<1>1. ASSUME NEW a \in Apps, DeleteDir(a) PROVE KeepsSteady
  <2>1. /\ file' = [file EXCEPT ![a] = NoFile] /\ dirty'
        /\ UNCHANGED <<storeVars, th, ps>>
    BY <1>1 DEF DeleteDir, WriteFile
  <2>2. KeepsFiles BY <2>1, WriteSteady, RemovalFine
  <2> QED
    BY <2>1, <2>2, RowsAlone, ThreadsAlone, PassesAlone
    DEF KeepsSteady, KeepsRoutes
<1>2. ASSUME NEW a \in Apps, HealthFlip(a) PROVE KeepsSteady
  BY <1>2, FilesAlone, RowsAlone, ThreadsAlone, PassesAlone, RoutesAlone
  DEF HealthFlip, KeepsSteady, fileVars
<1>3. ASSUME NEW a \in Apps, RetryTimesOut(a) PROVE KeepsSteady
  <2>1. /\ ps' = [ps EXCEPT ![a] = NewPass("reconcile")]
        /\ UNCHANGED <<storeVars, fileVars, th>>
    BY <1>3 DEF RetryTimesOut
  <2>2. KeepsFiles BY <2>1, FilesAlone DEF fileVars
  <2> QED
    BY <2>1, <2>2, StartSteady, ScannerSets, RowsAlone, ThreadsAlone
    DEF KeepsSteady
<1>4. \A a, id, net : ~Edit(a, id, net) BY DEF Edit, Request, FilesStay
<1> QED BY <1>1, <1>2, <1>3, <1>4, CrashSteady DEF Outside

LEMMA SystemSteady == FilesStay /\ Typed /\ Steady /\ System => KeepsSteady
<1> SUFFICES ASSUME FilesStay, Typed, Steady, System PROVE KeepsSteady OBVIOUS
<1>1. ASSUME NEW w \in Watchers, WatcherFires(w) PROVE KeepsSteady
  <2>1. w \in Scanners BY DEF Scanners, Passes
  <2>2. /\ ps' = [ps EXCEPT ![w] = NewPass("reconcile")]
        /\ UNCHANGED <<storeVars, file, th>>
    BY <1>1 DEF WatcherFires
  <2>3. KeepsFiles BY <2>2, FilesAlone
  <2> QED
    BY <2>1, <2>2, <2>3, StartSteady, RowsAlone, ThreadsAlone DEF KeepsSteady
<1>2. ASSUME NEW t \in Threads, ThreadStep(t) PROVE KeepsSteady
  BY <1>2, DeployerSteady, StoresSteady, RemovesSteady, RollbacksSteady
  DEF ThreadStep, ReconcilerStep
<1>3. ASSUME NEW p \in Scanners, ScannerStep(p) PROVE KeepsSteady
  BY <1>3, PassStepSteady DEF ScannerStep, FilesStay
<1> QED BY <1>1, <1>2, <1>3 DEF System

LEMMA StutterSteady == Steady /\ UNCHANGED vars => KeepsSteady
BY FilesAlone, RowsAlone, ThreadsAlone, PassesAlone, RoutesAlone
DEF vars, fileVars, KeepsSteady

LEMMA SteadyInductive == FilesStay /\ Typed /\ Steady /\ [Next]_vars => Steady'
<1> SUFFICES ASSUME FilesStay, Typed, Steady, [Next]_vars PROVE Steady' OBVIOUS
<1>1. /\ KeepsFiles /\ KeepsRows /\ KeepsHistory /\ KeepsThreads /\ KeepsPasses /\ KeepsRoutes
  BY ApiRequestSteady, OutsideSteady, SystemSteady, StutterSteady
  DEF Next, KeepsSteady, KeepsStore
<1>2. FilesSteady' BY <1>1 DEF KeepsFiles, FilesSteady
<1>3. RowsSteady'
  <2> SUFFICES ASSUME NEW a \in Apps, IsRefused(file'[a])
               PROVE  (Rooted(a)' \/ Leaving(a)') /\ a \notin tombs'
    BY DEF RowsSteady
  <2>1. file'[a] = file[a] BY <1>1 DEF KeepsFiles
  <2>2. (Rooted(a) \/ Leaving(a)) /\ a \notin tombs'
    BY <1>1, <2>1 DEF Steady, RowsSteady, KeepsRows
  <2>3. Leaving(a) => Leaving(a)' BY <1>1 DEF KeepsThreads
  <2>4. Rooted(a) => Rooted(a)' \/ Leaving(a)'
    BY <1>1, <2>1 DEF Rooted, KeepsRows
  <2> QED BY <2>2, <2>3, <2>4
<1>4. ThreadsSteady' BY <1>1 DEF KeepsThreads, ThreadsSteady
<1>5. PassesSteady' BY <1>1, AwareStays DEF KeepsPasses, PassesSteady
<1>6. RoutesDue'
  <2>1. CASE \A a \in Apps : IsRefused(file[a]) => routes'[a] = file[a] \/ Leaving(a)
    <3>1. \A a \in Apps : Routed(a)'
      BY <1>1, <2>1 DEF KeepsFiles, KeepsThreads, Routed
    <3> QED BY <3>1 DEF RoutesDue
  <2>2. CASE dirty' \/ \E p \in Scanners : ~PassIdle(p)'
    BY <2>2 DEF RoutesDue
  <2>3. CASE UNCHANGED <<routes, ps>> /\ dirty' = dirty
    <3>1. CASE dirty \/ \E p \in Scanners : ~PassIdle(p)
      BY <2>3, <3>1 DEF RoutesDue, PassIdle
    <3>2. CASE \A a \in Apps : Routed(a) BY <2>1, <2>3, <3>2 DEF Routed
    <3> QED BY <3>1, <3>2 DEF Steady, RoutesDue
  <2> QED BY <1>1, <2>1, <2>2, <2>3 DEF KeepsRoutes
<1>7. HistorySteady'
  BY <1>1 DEF KeepsFiles, KeepsHistory, HistorySteady, Harmless
<1> QED BY <1>2, <1>3, <1>4, <1>5, <1>6, <1>7 DEF Steady

LEMMA SteadyInit == FilesStay /\ Init => Steady
<1> SUFFICES ASSUME FilesStay, Init PROVE Steady OBVIOUS
<1>s. PICK st \in [Apps -> InitStates], c \in [Apps -> InitIds] :
        LET F(a) == [id |-> c[a], net |-> st[a] # "new"]
            Ran(a) == st[a] \in {"deployed", "imported"}
        IN
        /\ file = [a \in Apps |-> IF st[a] = "empty" THEN NoFile ELSE F(a)]
        /\ row = [a \in Apps |-> IF Ran(a)
             THEN [id |-> 1, hash |-> hashFile(F(a)), status |-> "running",
                   archived |-> FALSE,
                   path |-> IF st[a] = "deployed" THEN "ok" ELSE "old"]
             ELSE NoRow]
        /\ versions = [a \in Apps |-> IF Ran(a) THEN <<F(a)>> ELSE <<>>]
        /\ tombs = {} /\ dirty
        /\ th = [t \in Threads |-> IdleThread]
        /\ ps = [p \in Scanners |-> IdlePass]
  BY DEF Init
<1> USE <1>s
<1> DEFINE F(a) == [id |-> c[a], net |-> st[a] # "new"]
           Ran(a) == st[a] \in {"deployed", "imported"}
<1>1. \A a \in Apps : st[a] = "empty" \/ Ran(a)
  BY LifecycleAssumption DEF StartStates, FilesStay
<1>2. \A a \in Apps : F(a) \in Content /\ F(a).net = (st[a] # "new")
  BY LifecycleAssumption DEF Content
<1>3. \A a \in Apps : Present(file[a]) => Ran(a) /\ file[a] = F(a)
  BY <1>1 DEF Present
<1>4. FilesSteady BY <1>2, <1>3 DEF FilesSteady
<1>5. RowsSteady
  <2> SUFFICES ASSUME NEW a \in Apps, IsRefused(file[a])
               PROVE  Rooted(a) /\ a \notin tombs
    BY DEF RowsSteady
  <2>1. Ran(a) /\ file[a] = F(a) BY <1>3 DEF IsRefused
  <2>2. /\ row[a].hash = hashFile(F(a)) /\ row[a].archived = FALSE
        /\ row[a] = [id |-> 1, hash |-> hashFile(F(a)), status |-> "running",
                   archived |-> FALSE,
                   path |-> IF st[a] = "deployed" THEN "ok" ELSE "old"]
    BY <2>1
  <2>3. hashFile(F(a)) \in Hash BY <1>2, HashType DEF File
  <2>4. row[a] \in Row BY <2>1, <2>3 DEF Row, Status
  <2> QED BY <2>1, <2>2, <2>4, NoRowAssumption DEF Rooted, Listed, HasRow
<1>6. ThreadsSteady
  BY ThreadsAssumption
  DEF ThreadsSteady, Calm, IdleThread, RollbackPc, StorePc, RemovePc
<1>7. PassesSteady
  BY DEF PassesSteady, Aware, IdlePass, ScannedPc, ArchivePc
<1>8. RoutesDue BY DEF RoutesDue
<1>9. HistorySteady
  <2> SUFFICES ASSUME NEW a \in Apps, NEW i \in 1..Len(versions[a])
               PROVE  Harmless(a, versions[a][i])
    BY DEF HistorySteady
  <2>1. Ran(a) /\ versions[a] = <<F(a)>>
    <3>1. Len(<<>>) = 0 OBVIOUS
    <3> QED BY <3>1
  <2>2. versions[a][i] = F(a) /\ file[a] = F(a) /\ st[a] # "new" BY <2>1
  <2> QED BY <1>2, <2>2 DEF Harmless, IsRefused, Allowed
<1> QED BY <1>4, <1>5, <1>6, <1>7, <1>8, <1>9 DEF Steady

LEMMA SteadyInvariant == ASSUME FilesStay PROVE Spec => []Steady
<1>1. Init => Steady BY SteadyInit
<1>2. Typed /\ Steady /\ [Next]_vars => Steady' BY SteadyInductive
<1> QED BY <1>1, <1>2, TypedInvariant, PTL DEF Spec

\* Once nothing is under way, an app that runs from a file which today's rules
\* refuse is routed (withRouteOnlyApps), whatever deploys, rollbacks, pulls,
\* restarts, cancels, label edits, lost directories, removals or reboots came
\* before, as long as FilesStay: refused files come from the past, not from new
\* edits, and a removal is not cut off by a crash.
THEOREM RefusedAppsStayRouted ==
  ASSUME FilesStay PROVE Spec => []RefusedStaysRouted
<1>1. Typed /\ Steady => RefusedStaysRouted
  <2> SUFFICES ASSUME Steady, Quiet, NEW a \in Apps, IsRefused(file[a])
               PROVE  routes[a] = file[a]
    BY DEF RefusedStaysRouted
  <2>1. \A b \in Apps : Routed(b)
    BY DEF Steady, RoutesDue, Quiet
  <2>2. ~Leaving(a) BY DEF Leaving, Quiet, Idle
  <2> QED BY <2>1, <2>2 DEF Routed
<1> QED BY <1>1, TypedInvariant, SteadyInvariant, PTL
=============================================================================
