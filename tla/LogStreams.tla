----------------------------- MODULE LogStreams ------------------------------
(***************************************************************************)
(* Live output: the log of a deploy and the clients that follow it over a  *)
(* WebSocket (DeployLog and Tracker in src/internal/deployer/tracker.go,   *)
(* handleDeployLogs in src/internal/api).  The deploy never waits: a line  *)
(* that does not fit into a follower's channel is dropped for it.          *)
(***************************************************************************)
EXTENDS Integers, Sequences, SequencesExt

CONSTANTS
  Followers,    \* WebSocket clients
  ChanSize,     \* capacity of a follower's channel
  HistSize,     \* lines of history a log keeps
  PollTries,    \* times a client looks for a deploy that is starting
  MaxLines,     \* bound on the lines of one deploy
  MaxDeploys    \* bound on deploys

VARIABLES
  dlog,      \* each deploy's log: [state, hist]
  tracked,   \* the log Tracker holds for the app, or 0
  fol        \* followers: [pc, log, chan, shut, got, tries]

logVars == <<dlog, tracked, fol>>

DoneLine == 0
Deploys == 1..MaxDeploys
FolIdle == [pc |-> "idle", log |-> 0, chan |-> <<>>, shut |-> FALSE,
            got |-> <<>>, tries |-> 0]
AtFol(f, pc) == fol[f].pc = pc
Subscribed(f, d) == AtFol(f, "follow") /\ fol[f].log = d
FirstN(s, n) == SubSeq(s, 1, IF Len(s) < n THEN Len(s) ELSE n)
LastN(s, n) == SubSeq(s, IF Len(s) < n THEN 1 ELSE Len(s) - n + 1, Len(s))

LogInit ==
  /\ dlog = [d \in Deploys |-> [state |-> "none", hist |-> <<>>]]
  /\ tracked = 0
  /\ fol = [f \in Followers |-> FolIdle]

----------------------------------------------------------------------------
(* The deploy's side                                                       *)

\* A send that never blocks.
Offer(chan, line) == IF Len(chan) < ChanSize THEN Append(chan, line) ELSE chan

TrackWithLog(d) ==
  /\ tracked = 0
  /\ dlog[d].state = "none"
  /\ \A e \in Deploys : e < d => dlog[e].state # "none"
  /\ dlog' = [dlog EXCEPT ![d].state = "open"]
  /\ tracked' = d
  /\ UNCHANGED fol

NextLine(d) == IF dlog[d].hist = <<>> THEN 1 ELSE Last(dlog[d].hist) + 1

\* DeployLog.Send
SendLine(d) ==
  /\ tracked = d
  /\ NextLine(d) <= MaxLines
  /\ dlog' = [dlog EXCEPT ![d].hist = LastN(Append(@, NextLine(d)), HistSize)]
  /\ fol' = [f \in Followers |->
               IF Subscribed(f, d)
               THEN [fol[f] EXCEPT !.chan = Offer(@, NextLine(d))] ELSE fol[f]]
  /\ UNCHANGED tracked

\* DoneWithLogStatus forgets the log and then closes it; a new deploy may be
\* tracked in between.
ForgetLog(d) ==
  /\ tracked = d
  /\ tracked' = 0
  /\ dlog' = [dlog EXCEPT ![d].state = "forgotten"]
  /\ UNCHANGED fol

MutNoClose(d) ==
  /\ dlog[d].state = "forgotten"
  /\ dlog' = [dlog EXCEPT ![d] = [state |-> "closed", hist |-> Append(@.hist, DoneLine)]]
  /\ fol' = [f \in Followers |->
               IF Subscribed(f, d)
               THEN [fol[f] EXCEPT !.chan = Offer(@, DoneLine)] ELSE fol[f]]
  /\ UNCHANGED tracked

\* CloseWith offers the Done line and closes every channel.
CloseWith(d) ==
  /\ dlog[d].state = "forgotten"
  /\ dlog' = [dlog EXCEPT ![d] = [state |-> "closed", hist |-> Append(@.hist, DoneLine)]]
  /\ fol' = [f \in Followers |->
               IF Subscribed(f, d)
               THEN [fol[f] EXCEPT !.chan = Offer(@, DoneLine), !.shut = TRUE]
               ELSE fol[f]]
  /\ UNCHANGED tracked

----------------------------------------------------------------------------
(* The client's side: handleDeployLogs                                     *)

OpenLogs(f) ==
  /\ AtFol(f, "idle")
  /\ fol' = [fol EXCEPT ![f] = [FolIdle EXCEPT !.pc = "poll"]]
  /\ UNCHANGED <<dlog, tracked>>

\* Subscribe replays the history, as much of it as the channel takes.
Replayed(h) == FirstN(h, ChanSize)

\* The client looks for a deploy a bounded number of times.
SubscribeDeployLog(f) ==
  /\ AtFol(f, "poll")
  /\ fol' = [fol EXCEPT ![f] =
       IF tracked # 0
       THEN [@ EXCEPT !.pc = "follow", !.log = tracked,
                      !.chan = Replayed(dlog[tracked].hist)]
       ELSE [@ EXCEPT !.tries = @ + 1,
                      !.pc = IF fol[f].tries + 1 = PollTries THEN "ended" ELSE @]]
  /\ UNCHANGED <<dlog, tracked>>

\* A line is written to the socket; the Done line, a closed channel or a client
\* that went away ends the handler.
ReadLine(f) ==
  /\ AtFol(f, "follow")
  /\ fol[f].chan # <<>>
  /\ fol' = [fol EXCEPT ![f] = [@ EXCEPT
       !.chan = Tail(@), !.got = Append(@, Head(fol[f].chan)),
       !.pc = IF Head(fol[f].chan) = DoneLine THEN "ended" ELSE @]]
  /\ UNCHANGED <<dlog, tracked>>

ChannelClosed(f) ==
  /\ AtFol(f, "follow")
  /\ fol[f].chan = <<>> /\ fol[f].shut
  /\ fol' = [fol EXCEPT ![f].pc = "ended"]
  /\ UNCHANGED <<dlog, tracked>>

LeaveLogs(f) ==
  /\ AtFol(f, "follow")
  /\ fol' = [fol EXCEPT ![f].pc = "ended"]
  /\ UNCHANGED <<dlog, tracked>>

EndDeploy(d) == ForgetLog(d) \/ CloseWith(d)
Follow(f) == SubscribeDeployLog(f) \/ ReadLine(f) \/ ChannelClosed(f)

LogNext ==
  \/ \E d \in Deploys : TrackWithLog(d) \/ SendLine(d) \/ ForgetLog(d) \/ CloseWith(d)
  \/ \E f \in Followers : OpenLogs(f) \/ Follow(f) \/ LeaveLogs(f)

\* A deploy ends, and a handler goes on reading its channel.
LogFairness ==
  /\ \A d \in Deploys : WF_logVars(EndDeploy(d))
  /\ \A f \in Followers : WF_logVars(Follow(f))

LogSpec == LogInit /\ [][LogNext]_logVars /\ LogFairness

----------------------------------------------------------------------------
(* Properties                                                              *)

\* Every follower's handler ends, also when the channel was full and the Done
\* line was dropped for it: the channel is closed all the same.
FollowersEnd == \A f \in Followers : [](AtFol(f, "poll") => <>AtFol(f, "ended"))
=============================================================================
