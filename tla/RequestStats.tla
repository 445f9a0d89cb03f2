---------------------------- MODULE RequestStats -----------------------------
(***************************************************************************)
(* Request statistics of one app: the proxy's handler queues an event for  *)
(* every request (src/internal/proxy/reqmetrics.go), a writer counts them  *)
(* and inserts a row at every flush, and the rollup manager moves rows to  *)
(* coarser tiers and prunes them (src/internal/metrics, src/internal/store *)
(* reqmetrics.go and metrics.go).  Container metrics take the same path    *)
(* with averages in place of counts.                                       *)
(*                                                                         *)
(* Time is counted in ticks.  rows[tier][ts] is the number of requests in  *)
(* the rows of a tier with that timestamp.                                 *)
(***************************************************************************)
EXTENDS Integers, FiniteSetsExt

CONSTANTS
  TierCut,       \* age at which a tier's rows move to the next one, by tier
  TierBucket,    \* length of a tier's buckets
  TierKeep,      \* retention of each tier (config.MetricsTier)
  QueueSize,     \* capacity of the request statistics channel
  FlushTicks,    \* the writer flushes at least this often
  MaxNow,        \* bound on time
  MaxServed      \* bound on requests

Tiers == DOMAIN TierKeep       \* 1 is raw, the last one is the coarsest
LastTier == Max(Tiers)
Times == 0..MaxNow

ASSUME StatsAssumption ==
  /\ LastTier \in Nat \ {0, 1} /\ Tiers = 1..LastTier
  /\ MaxNow \in Nat
  /\ \A t \in Tiers : TierBucket[t] \in Nat \ {0} /\ TierKeep[t] \in Nat
  /\ \A t \in Tiers \ {LastTier} : TierCut[t] \in Nat
  \* The windows of RunOnce: an hour, six, a day, 30 days.
  /\ \A t, u \in Tiers \ {LastTier} : t < u => TierCut[t] < TierCut[u]

VARIABLES
  time,
  queue,     \* events in the channel
  pend,      \* the writer's bucket: [ts, n]
  rows,
  roll,      \* the rollup manager: [pc, tier, time]
  appRow,    \* the app exists
  nServed,
  stored,    \* requests counted in a row so far
  pruned     \* of these, the ones pruned since

statsVars == <<time, queue, pend, rows, roll, appRow, nServed, stored, pruned>>

NoPend == [ts |-> 0, n |-> 0]
NoRows == [t \in Tiers |-> [x \in Times |-> 0]]
RollIdle == [pc |-> "idle", tier |-> 1, time |-> 0]
CountOf(t, ts) ==
  MapThenSumSet(LAMBDA x : rows[t][x], {x \in ts : rows[t][x] > 0})

StatsInit ==
  /\ time = 0
  /\ queue = 0
  /\ pend = NoPend
  /\ rows = NoRows
  /\ roll = RollIdle
  /\ appRow = TRUE
  /\ nServed = 0
  /\ stored = 0
  /\ pruned = 0

\* RequestMetrics.ServeHTTP: the event is dropped when the channel is full.
ServeRequest ==
  /\ nServed < MaxServed
  /\ nServed' = nServed + 1
  /\ queue' = IF queue < QueueSize THEN queue + 1 ELSE queue
  /\ UNCHANGED <<time, pend, rows, roll, appRow, stored, pruned>>

\* The writer takes an event; the bucket has the time of its first event.
CountRequest ==
  /\ queue > 0
  /\ queue' = queue - 1
  /\ pend' = IF pend.n = 0 THEN [ts |-> time, n |-> 1] ELSE [pend EXCEPT !.n = @ + 1]
  /\ UNCHANGED <<time, rows, roll, appRow, nServed, stored, pruned>>

\* flush: one transaction; the rows of an app that is gone are skipped, and a
\* batch whose insert fails is forgotten.
InsertRequestMetrics ==
  /\ pend.n > 0
  /\ pend' = NoPend
  /\ \/ /\ appRow
        /\ rows' = [rows EXCEPT ![1][pend.ts] = @ + pend.n]
        /\ stored' = stored + pend.n
     \/ UNCHANGED <<rows, stored>>
  /\ UNCHANGED <<time, queue, roll, appRow, nServed, pruned>>

----------------------------------------------------------------------------
(* ReqMetricsRollupManager.RunOnce                                         *)

StartRollup ==
  /\ roll.pc = "idle"
  /\ roll' = [pc |-> "roll", tier |-> 1, time |-> time]
  /\ UNCHANGED <<time, queue, pend, rows, appRow, nServed, stored, pruned>>

Older(cutoff) == {x \in Times : x < cutoff}
Bucket(t, x) == (x \div TierBucket[t]) * TierBucket[t]

MutLoseBoundary(t, cutoff) ==
  [rows EXCEPT
     ![t] = [x \in Times |-> IF x <= cutoff THEN 0 ELSE rows[t][x]],
     ![t + 1] = [b \in Times |-> @[b] +
        CountOf(t, {x \in Older(cutoff) : Bucket(t + 1, x) = b})]]

\* The rows of a tier that are older than the cutoff, grouped into the buckets
\* of the next tier.
Aggregated(t, cutoff) ==
  [rows EXCEPT
     ![t] = [x \in Times |-> IF x < cutoff THEN 0 ELSE rows[t][x]],
     ![t + 1] = [b \in Times |-> @[b] +
        CountOf(t, {x \in Older(cutoff) : Bucket(t + 1, x) = b})]]

\* AggregateRequestMetrics, insert and delete in one transaction.
AggregateRequestMetrics ==
  /\ roll.pc = "roll"
  /\ rows' = Aggregated(roll.tier, roll.time - TierCut[roll.tier])
  /\ roll' = IF roll.tier + 1 = LastTier
             THEN [pc |-> "prune", tier |-> 1, time |-> roll.time]
             ELSE [roll EXCEPT !.tier = @ + 1]
  /\ UNCHANGED <<time, queue, pend, appRow, nServed, stored, pruned>>

\* An error ends the round: nothing is pruned that was not rolled up.
RollupFails ==
  /\ roll.pc # "idle"
  /\ roll' = RollIdle
  /\ UNCHANGED <<time, queue, pend, rows, appRow, nServed, stored, pruned>>

Prune(t, cutoff) ==
  /\ rows' = [rows EXCEPT ![t] = [x \in Times |-> IF x < cutoff THEN 0 ELSE @[x]]]
  /\ pruned' = pruned + CountOf(t, Older(cutoff))

\* PruneRequestMetrics, tier by tier.
PruneRequestMetrics ==
  /\ roll.pc = "prune"
  /\ Prune(roll.tier, roll.time - TierKeep[roll.tier])
  /\ roll' = IF roll.tier = LastTier THEN RollIdle ELSE [roll EXCEPT !.tier = @ + 1]
  /\ UNCHANGED <<time, queue, pend, appRow, nServed, stored>>

\* handlePruneRequestMetrics: the operator prunes one tier.
OperatorPrune ==
  \E t \in Tiers, cutoff \in 1..time :
    /\ CountOf(t, Older(cutoff)) > 0
    /\ Prune(t, cutoff)
    /\ UNCHANGED <<time, queue, pend, roll, appRow, nServed, stored>>

----------------------------------------------------------------------------
(* The surroundings                                                        *)

\* PurgeApp: the rows go with the app.
PurgeStats ==
  /\ appRow
  /\ appRow' = FALSE
  /\ rows' = NoRows
  /\ stored' = 0
  /\ pruned' = 0
  /\ UNCHANGED <<time, queue, pend, roll, nServed>>

\* The process ends: the writer flushes its bucket (or cannot), what is still
\* in the channel is lost, and a round of the rollup stops where it is.
RestartStats ==
  /\ queue' = 0
  /\ pend.n = 0
  /\ roll' = RollIdle
  /\ <<queue, roll>> # <<0, RollIdle>>
  /\ UNCHANGED <<time, pend, rows, appRow, nServed, stored, pruned>>

\* The clock; the flush ticker does not let a bucket grow old.
PassTime ==
  /\ time < MaxNow
  /\ pend.n > 0 => time - pend.ts < FlushTicks
  /\ time' = time + 1
  /\ UNCHANGED <<queue, pend, rows, roll, appRow, nServed, stored, pruned>>

\* SelectTiers: the view whose window ends where a tier's rows move on reads
\* that tier and the finer ones.
MutOneTier(v) == {v}
SelectTiers(v) == 1..v
InWindow(v) == {x \in Times : x >= time - TierCut[v]}
QueryRequestMetrics(v) ==
  MapThenSumSet(LAMBDA t : CountOf(t, InWindow(v)), SelectTiers(v))

StatsNext ==
  \/ ServeRequest \/ CountRequest \/ InsertRequestMetrics
  \/ StartRollup \/ AggregateRequestMetrics \/ RollupFails \/ PruneRequestMetrics
  \/ OperatorPrune
  \/ PurgeStats \/ RestartStats \/ PassTime

StatsSpec == StatsInit /\ [][StatsNext]_statsVars

----------------------------------------------------------------------------
(* Properties                                                              *)

\* Every request that reached a row is in exactly one row until it is pruned:
\* no rollup, interrupted or repeated, counts it twice or loses it.
CountedOnce ==
  MapThenSumSet(LAMBDA t : CountOf(t, Times), Tiers) + pruned = stored

\* A view shows every row of its window: none is in a tier the view does not
\* read, also after a rollup that started before the view was asked for
\* (SelectTiers against the cutoffs of RunOnce).
ViewIsComplete ==
  \A v \in Tiers \ {LastTier} :
    QueryRequestMetrics(v)
      = MapThenSumSet(LAMBDA t : CountOf(t, InWindow(v)), Tiers)
=============================================================================
