------------------------------ MODULE EventBus ------------------------------
(***************************************************************************)
(* events.Bus and its consumers, the /api/events WebSocket handlers.       *)
(*                                                                         *)
(* Events carry no state, clients refetch: an event is a unit in a buffer. *)
(* What matters is that a client whose buffer overflowed is told to        *)
(* refetch everything (a resync frame), and that publishers never hang.    *)
(* Topics and their authorization only decide what a filter accepts, which *)
(* is left open.  Subscribers are visited in any order.                    *)
(***************************************************************************)
EXTENDS Naturals

CONSTANTS
  Pubs,   \* goroutines that publish (audit, status ticker, backups)
  Subs,   \* WebSocket connections; a client that reconnects is a new one
  Cap,    \* subBuffer (64)
  Limit,  \* bound: events published
  None

ASSUME BusAssumption ==
  /\ Cap \in Nat \ {0}
  /\ Limit \in Nat
  /\ None \notin Subs

VARIABLES
  subs,    \* Bus.subs
  buf,     \* events in each subscriber's channel
  closed,  \* channels that were closed
  stale,   \* subscriber.stale
  mu,      \* who holds the connection's mutex: nobody, its handler, its pump
  con,     \* where each WebSocket handler is
  pub,     \* where each Publish is, whom it has left to visit
  n,       \* events published
  owed     \* history: connections that lost an event since their last resync

vars == <<subs, buf, closed, stale, mu, con, pub, n, owed>>
busVars == <<subs, closed, pub, n>>
connVars == <<subs, closed, stale, mu, con>>

ConPc == {"off", "wait", "ping", "write", "writing", "check", "reset",
          "resync", "resyncing", "cancel", "close", "gone"}
PubPc == {"idle", "next", "filter", "send", "drop", "resend", "mark", "panic"}
Pub == [pc : PubPc, todo : SUBSET Subs, cur : Subs \cup {None}]
IdlePub == [pc |-> "idle", todo |-> {}, cur |-> None]

BusTypeOK ==
  /\ subs \subseteq Subs
  /\ buf \in [Subs -> 0..Cap]
  /\ closed \subseteq Subs
  /\ stale \in [Subs -> BOOLEAN]
  /\ mu \in [Subs -> {"free", "handler", "pump"}]
  /\ con \in [Subs -> ConPc]
  /\ pub \in [Pubs -> Pub]
  /\ n \in 0..Limit
  /\ owed \subseteq Subs

Init ==
  /\ subs = {} /\ closed = {} /\ owed = {} /\ n = 0
  /\ buf = [s \in Subs |-> 0]
  /\ stale = [s \in Subs |-> FALSE]
  /\ mu = [s \in Subs |-> "free"]
  /\ con = [s \in Subs |-> "off"]
  /\ pub = [p \in Pubs |-> IdlePub]

----------------------------------------------------------------------------
(* Publish.                                                                *)

At(p, pc) == pub[p].pc = pc
PubGoto(p, pc) == pub' = [pub EXCEPT ![p].pc = pc]

\* Copy the subscriber list under the read lock, then walk the copy.
PubStart(p) ==
  /\ At(p, "idle") /\ n < Limit
  /\ n' = n + 1
  /\ pub' = [pub EXCEPT ![p].pc = "next", ![p].todo = subs]
  /\ UNCHANGED <<connVars, buf, owed>>

PubNext(p) ==
  /\ At(p, "next")
  /\ \E s \in pub[p].todo :
       pub' = [pub EXCEPT ![p].pc = "filter", ![p].cur = s, ![p].todo = @ \ {s}]
  /\ UNCHANGED <<connVars, buf, n, owed>>

PubReturn(p) ==
  /\ At(p, "next") /\ pub[p].todo = {}
  /\ pub' = [pub EXCEPT ![p] = IdlePub]
  /\ UNCHANGED <<connVars, buf, n, owed>>

\* The filter looks at the connection's topics under the connection's mutex.
Filter(p) ==
  /\ At(p, "filter") /\ mu[pub[p].cur] = "free"
  /\ PubGoto(p, "send") \/ PubGoto(p, "next")
  /\ UNCHANGED <<connVars, buf, n, owed>>

Room(s) == buf[s] < Cap

\* A send on a closed channel panics, in a select too.
Send(p) ==
  LET s == pub[p].cur IN
  /\ At(p, "send")
  /\ CASE s \in closed -> PubGoto(p, "panic") /\ UNCHANGED buf
       [] s \notin closed /\ Room(s) ->
            PubGoto(p, "next") /\ buf' = [buf EXCEPT ![s] = @ + 1]
       [] OTHER -> PubGoto(p, "drop") /\ UNCHANGED buf
  /\ UNCHANGED <<connVars, n, owed>>

\* Discard the oldest event, unless the consumer emptied the buffer meanwhile.
Drop(p) ==
  LET s == pub[p].cur IN
  /\ At(p, "drop")
  /\ PubGoto(p, "resend")
  /\ IF buf[s] > 0
     THEN buf' = [buf EXCEPT ![s] = @ - 1] /\ owed' = owed \cup {s}
     ELSE UNCHANGED <<buf, owed>>
  /\ UNCHANGED <<connVars, n>>

\* Mutant: wait for room.
MutResendWaits(p) ==
  LET s == pub[p].cur IN
  /\ At(p, "resend")
  /\ Room(s) \/ s \in closed
  /\ IF s \in closed
     THEN PubGoto(p, "panic") /\ UNCHANGED buf
     ELSE PubGoto(p, "mark") /\ buf' = [buf EXCEPT ![s] = @ + 1]
  /\ UNCHANGED <<connVars, n, owed>>

\* Mutant: the flag is set only when the new event found no room either.
MutResendMarks(p) ==
  LET s == pub[p].cur IN
  /\ At(p, "resend")
  /\ CASE s \in closed -> PubGoto(p, "panic") /\ UNCHANGED <<buf, owed>>
       [] s \notin closed /\ Room(s) ->
            PubGoto(p, "next") /\ buf' = [buf EXCEPT ![s] = @ + 1]
                               /\ UNCHANGED owed
       [] OTHER -> PubGoto(p, "mark") /\ owed' = owed \cup {s} /\ UNCHANGED buf
  /\ UNCHANGED <<connVars, n>>

\* Push the event; another publisher may have taken the room: then it is lost.
Resend(p) ==
  LET s == pub[p].cur IN
  /\ At(p, "resend")
  /\ CASE s \in closed -> PubGoto(p, "panic") /\ UNCHANGED <<buf, owed>>
       [] s \notin closed /\ Room(s) ->
            PubGoto(p, "mark") /\ buf' = [buf EXCEPT ![s] = @ + 1]
                               /\ UNCHANGED owed
       [] OTHER -> PubGoto(p, "mark") /\ owed' = owed \cup {s} /\ UNCHANGED buf
  /\ UNCHANGED <<connVars, n>>

Mark(p) ==
  /\ At(p, "mark")
  /\ stale' = [stale EXCEPT ![pub[p].cur] = TRUE]
  /\ PubGoto(p, "next")
  /\ UNCHANGED <<subs, closed, mu, con, buf, n, owed>>

\* audit.Recorder recovers from a panic and gives up the event; the other
\* publishers do not, and the process ends there.
Recover(p) ==
  /\ At(p, "panic")
  /\ pub' = [pub EXCEPT ![p] = IdlePub]
  /\ UNCHANGED <<connVars, buf, n, owed>>

----------------------------------------------------------------------------
(* handleEventsWS.                                                         *)

ConStep(s, from, to) == con[s] = from /\ con' = [con EXCEPT ![s] = to]

\* Subscribe.
Connect(s) ==
  /\ ConStep(s, "off", "wait")
  /\ subs' = subs \cup {s}
  /\ UNCHANGED <<buf, closed, stale, mu, pub, n, owed>>

Receive(s) ==
  /\ ConStep(s, "wait", "write")
  /\ buf[s] > 0
  /\ buf' = [buf EXCEPT ![s] = @ - 1]
  /\ UNCHANGED <<busVars, stale, mu, owed>>

\* The client hung up, the request ended or its authorization is gone.
Leave(s) ==
  /\ ConStep(s, "wait", "cancel")
  /\ UNCHANGED <<busVars, buf, stale, mu, owed>>

\* Frames are written with the mutex held: pings and "forbidden" notices, the
\* event received, the resync.
BeginWrite(s, from, to) ==
  /\ ConStep(s, from, to)
  /\ mu[s] = "free"
  /\ mu' = [mu EXCEPT ![s] = "handler"]
  /\ UNCHANGED <<busVars, buf, stale, owed>>

Ping(s) == BeginWrite(s, "wait", "ping")
Write(s) == BeginWrite(s, "write", "writing")
WriteResync(s) == BeginWrite(s, "resync", "resyncing")

\* A failed write (wsWriteWait bounds each) ends the handler; so does, after a
\* good one, an event that changes this user's own account.
EndWrite(s, from, to) ==
  /\ ConStep(s, from, to) \/ ConStep(s, from, "cancel")
  /\ mu' = [mu EXCEPT ![s] = "free"]
  /\ UNCHANGED <<busVars, buf, stale, owed>>

Pinged(s) == EndWrite(s, "ping", "wait")
Written(s) == EndWrite(s, "writing", "check")

CheckStale(s) ==
  /\ ConStep(s, "check", IF stale[s] THEN "reset" ELSE "wait")
  /\ UNCHANGED <<busVars, buf, stale, mu, owed>>

Reset(s) ==
  /\ ConStep(s, "reset", "resync")
  /\ stale' = [stale EXCEPT ![s] = FALSE]
  /\ UNCHANGED <<busVars, buf, mu, owed>>

\* The client refetches after this frame: it makes up for every earlier loss.
\* Its error is ignored; a client that reconnects refetches everything too.
Resynced(s) ==
  /\ ConStep(s, "resyncing", "wait")
  /\ mu' = [mu EXCEPT ![s] = "free"]
  /\ owed' = owed \ {s}
  /\ UNCHANGED <<busVars, buf, stale>>

\* The deferred cancel: unsubscribe under the bus lock ...
Cancel(s) ==
  /\ ConStep(s, "cancel", "close")
  /\ subs' = subs \ {s}
  /\ UNCHANGED <<buf, closed, stale, mu, pub, n, owed>>

\* ... and close the channel after it.
Close(s) ==
  /\ ConStep(s, "close", "gone")
  /\ closed' = closed \cup {s}
  /\ UNCHANGED <<subs, buf, stale, mu, pub, n, owed>>

\* The read pump answers a frame (pong, forbidden) under the same mutex.
PumpWrites(s) ==
  /\ con[s] \notin {"off", "gone"}
  /\ mu[s] = "free"
  /\ mu' = [mu EXCEPT ![s] = "pump"]
  /\ UNCHANGED <<busVars, buf, stale, con, owed>>

PumpWritten(s) ==
  /\ mu[s] = "pump"
  /\ mu' = [mu EXCEPT ![s] = "free"]
  /\ UNCHANGED <<busVars, buf, stale, con, owed>>

----------------------------------------------------------------------------
Publishing(p) ==
  \/ PubNext(p) \/ PubReturn(p) \/ Filter(p) \/ Send(p) \/ Drop(p)
  \/ Resend(p) \/ Mark(p)

WriteReturns(s) == Pinged(s) \/ Written(s) \/ Resynced(s) \/ PumpWritten(s)

Handling(s) ==
  \/ Receive(s) \/ Write(s) \/ CheckStale(s) \/ Reset(s) \/ WriteResync(s)

Next ==
  \/ \E p \in Pubs : PubStart(p) \/ Publishing(p) \/ Recover(p)
  \/ \E s \in Subs :
       \/ WriteReturns(s) \/ Handling(s)
       \/ Connect(s) \/ Leave(s) \/ Ping(s) \/ Cancel(s) \/ Close(s)
       \/ PumpWrites(s)

Spec == Init /\ [][Next]_vars

(***************************************************************************)
(* A running Publish takes its next step; a write ends, at the latest at   *)
(* its deadline; and a waiter gets a mutex that keeps being released (Go's *)
(* mutex hands over to a starving waiter).  Clients promise nothing.       *)
(***************************************************************************)
FairSpec ==
  /\ Spec
  /\ \A p \in Pubs : WF_vars(Publishing(p)) /\ SF_vars(Filter(p))
  /\ \A s \in Subs : WF_vars(WriteReturns(s))

----------------------------------------------------------------------------
\* A connection that lost an event is marked stale, or is about to be by the
\* publisher that dropped it, or is being resynced: no loss is forgotten,
\* whatever publishers and Reset do in between.
LossIsMarked ==
  \A s \in owed \ closed :
    \/ stale[s]
    \/ con[s] \in {"resync", "resyncing"}
    \/ \E p \in Pubs : pub[p].cur = s /\ pub[p].pc \in {"resend", "mark"}

\* Publish returns (or panics) whatever clients do: a client that reads
\* nothing cannot hold up a publisher for good.
PublishReturns ==
  \A p \in Pubs : ~At(p, "idle") ~> (At(p, "idle") \/ At(p, "panic"))

\* bus.go: "Safe for concurrent use" and "calling it more than once is safe":
\* publishing while a subscriber cancels does not panic.
NoSendOnClosed == \A p \in Pubs : ~At(p, "panic")
=============================================================================
