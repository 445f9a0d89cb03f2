--------------------------- MODULE BusReloadProofs ---------------------------
(***************************************************************************)
(* The event bus and the reload of git sync, for any number of publishers, *)
(* connections and requests.                                               *)
(*                                                                         *)
(* Event bus.  No loss is forgotten.  LossIsMarked is inductive next to    *)
(* the types: the publisher that drops an event keeps the connection as    *)
(* its cur until it has set the flag, and only the handler clears it, on   *)
(* its way to a resync.  The types need one more fact, that a publisher    *)
(* between filter and flag visits someone.                                 *)
(*                                                                         *)
(* Reload.  gsMu excludes, and between reloads the running syncer has the  *)
(* saved settings.  Neither is inductive: the first needs to know who      *)
(* holds gsMu, the second that every save is followed by a reload.         *)
(***************************************************************************)
EXTENDS EventBus, GitReload, TLAPS

----------------------------------------------------------------------------
(* The event bus                                                           *)


Visiting ==
  \A p \in Pubs : pub[p].pc \notin {"idle", "next"} => pub[p].cur \in Subs

BusTyped == BusTypeOK /\ Visiting

\* The invariant of the proof.
Marked == BusTyped /\ LossIsMarked

\* The bus starts well typed.
LEMMA TypedInit == Init => BusTyped
  BY BusAssumption DEF Init, BusTyped, BusTypeOK, Visiting, IdlePub, Pub, PubPc,
                       ConPc

\* A publisher that leaves "next" has picked a subscriber.
LEMMA VisitingStep == BusTyped /\ [Next]_vars => Visiting'
<1> SUFFICES ASSUME BusTyped, [Next]_vars PROVE Visiting'
  OBVIOUS
<1> USE DEF BusTyped, BusTypeOK, Visiting, connVars, busVars, Pub
<1>1. ASSUME NEW p \in Pubs, PubStart(p) \/ Publishing(p) \/ Recover(p)
      PROVE  Visiting'
  <2>1. CASE PubStart(p) \/ PubReturn(p) \/ Recover(p)
    BY <2>1 DEF PubStart, PubReturn, Recover, IdlePub
  <2>2. CASE PubNext(p)
    BY <2>2 DEF PubNext
  <2>3. CASE Filter(p) \/ Send(p) \/ Drop(p) \/ Resend(p) \/ Mark(p)
    BY <2>3, SMTT(30) DEF Filter, Send, Drop, Resend, Mark, PubGoto, At
  <2> QED
    BY <1>1, <2>1, <2>2, <2>3 DEF Publishing
<1>2. ASSUME UNCHANGED pub PROVE Visiting'
  BY <1>2
<1>3. ASSUME NEW s \in Subs,
             \/ WriteReturns(s) \/ Handling(s)
             \/ Connect(s) \/ Leave(s) \/ Ping(s) \/ Cancel(s) \/ Close(s)
             \/ PumpWrites(s)
      PROVE  UNCHANGED pub
  BY <1>3 DEF WriteReturns, Pinged, Written, EndWrite, Resynced, PumpWritten,
              Handling, Receive, Write, CheckStale, Reset, WriteResync,
              BeginWrite, Connect, Leave, Ping, Cancel, Close, PumpWrites
<1> QED
  BY <1>1, <1>2, <1>3 DEF Next, vars

\* Every step keeps the types.
LEMMA TypedStep == BusTyped /\ [Next]_vars => BusTypeOK'
<1> SUFFICES ASSUME BusTypeOK, Visiting, [Next]_vars PROVE BusTypeOK'
  BY DEF BusTyped
<1> USE BusAssumption DEF BusTypeOK, connVars, busVars
<1>1. CASE UNCHANGED vars
  BY <1>1 DEF vars
<1>2. ASSUME NEW p \in Pubs, PubStart(p) PROVE BusTypeOK'
  <2>1. n' \in 0..Limit
    BY <1>2 DEF PubStart
  <2>2. pub' \in [Pubs -> Pub]
    BY <1>2, ZenonT(30) DEF PubStart, Pub, PubPc
  <2> QED
    BY <1>2, <2>1, <2>2 DEF PubStart
<1>3. ASSUME NEW p \in Pubs, Publishing(p) PROVE BusTypeOK'
  <2>1. CASE PubNext(p)
    BY <2>1 DEF PubNext, At, Pub, PubPc
  <2>2. CASE PubReturn(p)
    BY <2>2 DEF PubReturn, At, Pub, PubPc, IdlePub
  <2>3. CASE Filter(p)
    BY <2>3 DEF Filter, PubGoto, At, Pub, PubPc
  <2>4. CASE Send(p)
    BY <2>4 DEF Send, PubGoto, At, Pub, PubPc, Room
  <2>5. CASE Drop(p)
    <3>1. pub' \in [Pubs -> Pub]
      BY <2>5 DEF Drop, PubGoto, Pub, PubPc
    <3>2. buf' \in [Subs -> 0..Cap]
      BY <2>5 DEF Drop
    <3>3. owed' \subseteq Subs
      BY <2>5 DEF Drop, Visiting, At
    <3> QED
      BY <2>5, <3>1, <3>2, <3>3 DEF Drop
  <2>6. CASE Resend(p)
    <3>1. pub' \in [Pubs -> Pub]
      BY <2>6 DEF Resend, PubGoto, Pub, PubPc
    <3>2. buf' \in [Subs -> 0..Cap]
      BY <2>6 DEF Resend, Room
    <3>3. owed' \subseteq Subs
      BY <2>6 DEF Resend, Visiting, At
    <3> QED
      BY <2>6, <3>1, <3>2, <3>3 DEF Resend
  <2>7. CASE Mark(p)
    BY <2>7, ZenonT(30) DEF Mark, PubGoto, At, Pub, PubPc
  <2> QED
    BY <1>3, <2>1, <2>2, <2>3, <2>4, <2>5, <2>6, <2>7 DEF Publishing
<1>4. ASSUME NEW p \in Pubs, Recover(p) PROVE BusTypeOK'
  BY <1>4 DEF Recover, At, Pub, PubPc, IdlePub
<1>5. ASSUME NEW s \in Subs, WriteReturns(s) PROVE BusTypeOK'
  BY <1>5 DEF WriteReturns, Pinged, Written, EndWrite, Resynced, PumpWritten,
              ConStep, ConPc
<1>6. ASSUME NEW s \in Subs, Handling(s) PROVE BusTypeOK'
  <2>1. con' \in [Subs -> ConPc]
    BY <1>6 DEF Handling, Receive, Write, CheckStale, Reset, WriteResync,
                BeginWrite, ConStep, ConPc
  <2>2. buf' \in [Subs -> 0..Cap]
    BY <1>6 DEF Handling, Receive, Write, CheckStale, Reset, WriteResync,
                BeginWrite
  <2> QED
    BY <1>6, <2>1, <2>2 DEF Handling, Receive, Write, CheckStale, Reset,
                            WriteResync, BeginWrite
<1>7. ASSUME NEW s \in Subs,
             \/ Connect(s) \/ Leave(s) \/ Ping(s) \/ Cancel(s) \/ Close(s)
             \/ PumpWrites(s)
      PROVE  BusTypeOK'
  BY <1>7 DEF Connect, Leave, Ping, BeginWrite, Cancel, Close, PumpWrites,
              ConStep, ConPc
<1> QED
  BY <1>1, <1>2, <1>3, <1>4, <1>5, <1>6, <1>7 DEF Next

\* Every step keeps LossIsMarked.
LEMMA MarkedStep == Marked /\ [Next]_vars => LossIsMarked'
<1> SUFFICES ASSUME Marked, [Next]_vars PROVE LossIsMarked'
  OBVIOUS
<1> USE DEF Marked, BusTyped, BusTypeOK, LossIsMarked, connVars, busVars
<1>1. CASE UNCHANGED vars
  BY <1>1 DEF vars
<1>2. ASSUME NEW p \in Pubs, PubStart(p) \/ Recover(p) PROVE LossIsMarked'
  BY <1>2 DEF PubStart, Recover, At, Pub, IdlePub
<1>3. ASSUME NEW p \in Pubs, Publishing(p) PROVE LossIsMarked'
  <2>1. CASE PubNext(p) \/ PubReturn(p) \/ Filter(p) \/ Send(p)
    <3>1. UNCHANGED <<stale, con, owed, closed>>
      BY <2>1 DEF PubNext, PubReturn, Filter, Send
    <3>2. \A q \in Pubs : pub[q].pc \in {"resend", "mark"} => pub'[q] = pub[q]
      BY <2>1, ZenonT(30) DEF PubNext, PubReturn, Filter, Send, PubGoto, At
    <3> QED
      BY <3>1, <3>2
  <2>2. CASE Drop(p)
    BY <2>2 DEF Drop, PubGoto, At, Pub
  <2>3. CASE Resend(p)
    BY <2>3 DEF Resend, PubGoto, At, Pub
  <2>4. CASE Mark(p)
    BY <2>4 DEF Mark, PubGoto, At, Pub
  <2> QED
    BY <1>3, <2>1, <2>2, <2>3, <2>4 DEF Publishing
<1>4. ASSUME NEW s \in Subs, WriteReturns(s) PROVE LossIsMarked'
  BY <1>4 DEF WriteReturns, Pinged, Written, EndWrite, Resynced, PumpWritten,
              ConStep
<1>5. ASSUME NEW s \in Subs, Handling(s) PROVE LossIsMarked'
  BY <1>5 DEF Handling, Receive, Write, CheckStale, Reset, WriteResync,
              BeginWrite, ConStep
<1>6. ASSUME NEW s \in Subs,
             \/ Connect(s) \/ Leave(s) \/ Ping(s) \/ Cancel(s) \/ Close(s)
             \/ PumpWrites(s)
      PROVE  LossIsMarked'
  BY <1>6 DEF Connect, Leave, Ping, BeginWrite, Cancel, Close, PumpWrites,
              ConStep
<1> QED
  BY <1>1, <1>2, <1>3, <1>4, <1>5, <1>6 DEF Next

\* Type correctness of the bus, a buffer never above its capacity included.
THEOREM BusTypeCorrect == Spec => []BusTypeOK
<1>1. BusTyped /\ [Next]_vars => BusTyped'
  BY VisitingStep, TypedStep DEF BusTyped
<1>2. BusTyped => BusTypeOK
  BY DEF BusTyped
<1> QED
  BY TypedInit, <1>1, <1>2, PTL DEF Spec

\* A connection that lost an event is marked stale, or about to be, or being
\* resynced.
THEOREM LossesAreMarked == Spec => []LossIsMarked
<1>1. Init => Marked
  BY TypedInit DEF Init, Marked, LossIsMarked
<1>2. Marked /\ [Next]_vars => Marked'
  BY VisitingStep, TypedStep, MarkedStep DEF Marked, BusTyped
<1>3. Marked => LossIsMarked
  BY DEF Marked
<1> QED
  BY <1>1, <1>2, <1>3, PTL DEF Spec

----------------------------------------------------------------------------
(* The reload of git sync                                                  *)


ReloadType ==
    /\ saver \in [Savers -> {"idle", "check", "save", "lock", "join", "start"}]
    /\ client \in [Clients -> {"idle", "asking", "waiting"}]

\* Who stops or starts a syncer holds gsMu, which keeps new readers out.
HoldsMutex ==
    \A s \in Savers : saver[s] \in {"join", "start"} => owner = s /\ Readers = {}

Applied == running = saved \/ (running = NoSyncer /\ (saved = NoRow \/ failed))

\* Settings that do not run yet have their reload ahead of them.
AppliedOrAhead ==
    Applied \/ \E s \in Savers : saver[s] \in {"lock", "join", "start"}

ReloadInv == ReloadType /\ HoldsMutex /\ AppliedOrAhead

----------------------------------------------------------------------------
\* A server that has just read its configuration reloads nothing yet.
LEMMA InitReloadInv == ReloadInit => ReloadInv
  BY DEF ReloadInit, ReloadInv, ReloadType, HoldsMutex, AppliedOrAhead, Applied

\* A request on its way to the mutex changes neither the syncer nor the lock.
LEMMA SaveStep ==
  ASSUME ReloadInv, NEW s \in Savers,
         ReadSettings(s) \/ CheckRemote(s) \/ SaveSettings(s) \/ DeleteSettings(s)
  PROVE  ReloadInv'
<1>1. /\ saver[s] \in {"idle", "check", "save"}
      /\ \E pc \in {"idle", "check", "save", "lock"} :
            saver' = [saver EXCEPT ![s] = pc] /\ (pc # "lock" => saved' = saved)
      /\ UNCHANGED <<running, failed, owner, client>>
  BY DEF ReadSettings, CheckRemote, SaveSettings, DeleteSettings, MoveTo, NewRequest
<1>2. PICK pc \in {"idle", "check", "save", "lock"} :
            saver' = [saver EXCEPT ![s] = pc] /\ (pc # "lock" => saved' = saved)
  BY <1>1
<1>3. ReloadType'
  BY <1>1, <1>2 DEF ReloadInv, ReloadType
<1>4. HoldsMutex'
  BY <1>1, <1>2 DEF ReloadInv, ReloadType, HoldsMutex, Readers
<1>5. AppliedOrAhead'
  <2>1. CASE pc = "lock"
    BY <1>2, <2>1 DEF ReloadInv, ReloadType, AppliedOrAhead
  <2>2. CASE pc # "lock" /\ Applied
    BY <1>1, <1>2, <2>2 DEF AppliedOrAhead, Applied
  <2>3. CASE pc # "lock" /\ \E t \in Savers : saver[t] \in {"lock", "join", "start"}
    BY <1>1, <1>2, <2>3 DEF ReloadInv, ReloadType, AppliedOrAhead
  <2> QED BY <2>1, <2>2, <2>3 DEF ReloadInv, AppliedOrAhead
<1> QED BY <1>3, <1>4, <1>5 DEF ReloadInv

\* The request that gets the mutex finds nobody with it.
LEMMA LockStep ==
  ASSUME ReloadInv, NEW s \in Savers, LockReload(s) \/ JoinSyncer(s)
  PROVE  ReloadInv'
<1>1. PICK pc \in {"join", "start"} : saver' = [saver EXCEPT ![s] = pc]
  BY DEF LockReload, JoinSyncer, MoveTo
<1>2. ReloadType'
  BY <1>1 DEF ReloadInv, ReloadType, LockReload, JoinSyncer
<1>3. HoldsMutex'
  <2>1. CASE LockReload(s)
    <3>1. \A t \in Savers : saver[t] \notin {"join", "start"}
      BY <2>1, NobodyAssumption DEF LockReload, ReloadInv, HoldsMutex
    <3> QED BY <1>1, <2>1, <3>1 DEF LockReload, ReloadInv, ReloadType, HoldsMutex, Readers
  <2>2. CASE JoinSyncer(s)
    BY <1>1, <2>2 DEF JoinSyncer, ReloadInv, ReloadType, HoldsMutex, Readers
  <2> QED BY <2>1, <2>2
<1>4. AppliedOrAhead'
  BY <1>1 DEF ReloadInv, ReloadType, AppliedOrAhead
<1> QED BY <1>2, <1>3, <1>4 DEF ReloadInv

\* The end of a reload: what runs is what is saved now, or nothing.
LEMMA StartStep ==
  ASSUME ReloadInv, NEW s \in Savers, StartSyncer(s)
  PROVE  ReloadInv'
<1>1. PICK conf, err : EndReload(s, conf, err) /\ (conf = saved \/ (conf = NoSyncer /\ (saved = NoRow \/ err)))
  BY DEF StartSyncer
<1>2. ReloadType'
  BY <1>1 DEF EndReload, MoveTo, ReloadInv, ReloadType
<1>3. HoldsMutex'
  <2>1. \A t \in Savers \ {s} : saver[t] \notin {"join", "start"}
    BY <1>1 DEF EndReload, ReloadInv, HoldsMutex
  <2> QED BY <1>1, <2>1 DEF EndReload, MoveTo, ReloadInv, ReloadType, HoldsMutex
<1>4. AppliedOrAhead'
  BY <1>1 DEF EndReload, AppliedOrAhead, Applied
<1> QED BY <1>2, <1>3, <1>4 DEF ReloadInv

\* Requests for a sync come in only while nobody has the mutex, and may leave
\* at any time.
LEMMA ClientStep ==
  ASSUME ReloadInv, NEW c \in Clients,
         AskForSync(c) \/ SendRequest(c) \/ Abandon(c)
  PROVE  ReloadInv'
<1>1. /\ UNCHANGED <<saver, saved, running, failed, owner>>
      /\ \E pc \in {"idle", "asking", "waiting"} : client' = [client EXCEPT ![c] = pc]
  BY DEF AskForSync, SendRequest, Abandon
<1>2. ReloadType'
  BY <1>1 DEF ReloadInv, ReloadType
<1>3. HoldsMutex'
  <2>1. CASE AskForSync(c)
    BY <1>1, <2>1, NobodyAssumption DEF AskForSync, ReloadInv, HoldsMutex
  <2>2. CASE SendRequest(c) \/ Abandon(c)
    BY <1>1, <2>2 DEF SendRequest, Abandon, ReloadInv, HoldsMutex, Readers
  <2> QED BY <2>1, <2>2
<1>4. AppliedOrAhead'
  BY <1>1 DEF ReloadInv, AppliedOrAhead, Applied
<1> QED BY <1>2, <1>3, <1>4 DEF ReloadInv

\* The goroutines of the syncer touch neither; an answer only ends a request.
LEMMA SyncerStep ==
  ASSUME ReloadInv, TakeRequest \/ Answer \/ WorkerExits \/ Tick \/ PollExits
  PROVE  ReloadInv'
<1>1. UNCHANGED <<saver, saved, running, failed, owner>>
  BY DEF TakeRequest, Answer, WorkerExits, Tick, PollExits
<1>2. ReloadType' /\ Readers' \subseteq Readers
  <2>1. CASE Answer
    BY <2>1 DEF Answer, ReloadInv, ReloadType, Readers
  <2>2. CASE TakeRequest \/ WorkerExits \/ Tick \/ PollExits
    BY <2>2, <1>1 DEF TakeRequest, WorkerExits, Tick, PollExits, ReloadInv, ReloadType, Readers
  <2> QED BY <2>1, <2>2
<1>3. HoldsMutex'
  BY <1>1, <1>2 DEF ReloadInv, HoldsMutex
<1>4. AppliedOrAhead'
  BY <1>1 DEF ReloadInv, AppliedOrAhead, Applied
<1> QED BY <1>2, <1>3, <1>4 DEF ReloadInv

\* The inductive invariant: every step of every handler and of the syncer's
\* goroutines keeps it.
THEOREM ReloadInvariant == ReloadSpec => []ReloadInv
<1>1. ReloadInit => ReloadInv
  BY InitReloadInv
<1>2. ReloadInv /\ [ReloadNext]_reloadVars => ReloadInv'
  <2> SUFFICES ASSUME ReloadInv, [ReloadNext]_reloadVars PROVE ReloadInv'
    OBVIOUS
  <2>1. CASE ReloadNext
    <3>1. ASSUME NEW s \in Savers,
                 ReadSettings(s) \/ CheckRemote(s) \/ SaveSettings(s) \/ DeleteSettings(s)
          PROVE  ReloadInv'
      BY <3>1, SaveStep
    <3>2. ASSUME NEW s \in Savers, Serve(s) PROVE ReloadInv'
      BY <3>2, LockStep, StartStep DEF Serve
    <3>3. ASSUME NEW c \in Clients, AskForSync(c) \/ SendRequest(c) \/ Abandon(c)
          PROVE  ReloadInv'
      BY <3>3, ClientStep
    <3>4. CASE TakeRequest \/ Answer \/ WorkerExits \/ Tick \/ PollExits
      BY <3>4, SyncerStep
    <3> QED BY <2>1, <3>1, <3>2, <3>3, <3>4 DEF ReloadNext
  <2>2. CASE UNCHANGED reloadVars
    BY <2>2 DEF reloadVars, ReloadInv, ReloadType, HoldsMutex, Readers, AppliedOrAhead, Applied
  <2> QED BY <2>1, <2>2
<1> QED BY <1>1, <1>2, PTL DEF ReloadSpec

\* Between reloads the running syncer has the settings in the database
\* (ReloadGitSync), however many requests save settings at once.
THEOREM SettingsApplied == ReloadSpec => []RunningIsSaved
<1>1. ReloadInv => RunningIsSaved
  BY DEF ReloadInv, AppliedOrAhead, Applied, RunningIsSaved
<1> QED BY <1>1, ReloadInvariant, PTL

\* One request reloads at a time and none uses the syncer meanwhile (gsMu).
THEOREM MutexExcludes == ReloadSpec => []ReloadExcludes
<1>1. ReloadInv => ReloadExcludes
  BY DEF ReloadInv, HoldsMutex, ReloadExcludes
<1> QED BY <1>1, ReloadInvariant, PTL
=============================================================================
