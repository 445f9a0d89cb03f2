------------------------------ MODULE RateLimit ------------------------------
(***************************************************************************)
(* One domain's rate limiter (src/internal/proxy/ratelimit.go): a bucket   *)
(* for each client key, filled with Quota tokens per window, a burst    *)
(* allowance that comes back only after a window within the limit, and a   *)
(* bound on the number of buckets with least-recently-used eviction.       *)
(***************************************************************************)
EXTENDS Integers, Sequences, FiniteSets

CONSTANTS
  Keys,         \* client keys: addresses, header values or paths
  Watched,      \* the key whose requests are remembered
  Quota,     \* requests per window
  Burst,        \* requests on top of them
  Window,       \* length of a window in ticks of the clock
  MaxBuckets,   \* maxRateLimitBuckets
  MaxTicks,     \* bound on the clock
  MaxCalls      \* bound on the watched requests

ASSUME RateAssumption ==
  /\ Watched \in Keys
  /\ {Quota, Window, MaxBuckets} \subseteq Nat \ {0}
  /\ Burst \in Nat

VARIABLES
  clock,
  buckets,   \* key -> [tokens, spare, over, reset, used]
  calls,     \* the requests of Watched: [t, ok], oldest first
  evicted    \* the limiter was full and Watched lost its bucket

rateVars == <<clock, buckets, calls, evicted>>

RateInit ==
  /\ clock = 0
  /\ buckets = <<>>
  /\ calls = <<>>
  /\ evicted = FALSE

Forget(bs, ks) == [k \in DOMAIN bs \ ks |-> bs[k]]

\* evictIdle: the buckets last used before the cutoff.
IdleSince(bs, cutoff) == {k \in DOMAIN bs : bs[k].used < cutoff}

\* Room for one more: the idle ones first, then the least recently used one.
MakeRoom(bs) ==
  IF Cardinality(DOMAIN bs) < MaxBuckets THEN {}
  ELSE LET idle == IdleSince(bs, clock - Window)
       IN IF idle # {} THEN idle
          ELSE {CHOOSE k \in DOMAIN bs : \A j \in DOMAIN bs : bs[k].used <= bs[j].used}

MutRefillBurst(b) ==
  IF clock - b.reset >= Window
  THEN [tokens |-> Quota, spare |-> Burst, over |-> FALSE, reset |-> clock, used |-> clock]
  ELSE [b EXCEPT !.used = clock]

\* A window has passed since the bucket was filled: the burst comes back only
\* if the client stayed within the limit, or was away for two windows.
Refill(b) ==
  IF clock - b.reset >= Window
  THEN [tokens |-> Quota,
        spare  |-> IF ~b.over \/ clock - b.reset >= 2 * Window THEN Burst ELSE b.spare,
        over   |-> FALSE, reset |-> clock, used |-> clock]
  ELSE [b EXCEPT !.used = clock]

\* The token, then the spare one, then none.
Take(b) ==
  IF b.tokens > 0 THEN [b EXCEPT !.tokens = @ - 1]
  ELSE [tokens |-> 0, spare |-> IF b.spare > 0 THEN b.spare - 1 ELSE 0,
        over |-> TRUE, reset |-> b.reset, used |-> b.used]
Passes(b) == b.tokens > 0 \/ b.spare > 0

Fresh == [tokens |-> Quota, spare |-> Burst, over |-> FALSE,
          reset |-> clock, used |-> clock]

\* domainLimiter.allow
Allow(k) ==
  LET live == Forget(buckets, IdleSince(buckets, clock - 2 * Window))
      gone == IF k \in DOMAIN live THEN {} ELSE MakeRoom(live)
      kept == Forget(live, gone)
      b == Refill(IF k \in DOMAIN kept THEN kept[k] ELSE Fresh)
  IN /\ k = Watched => Len(calls) < MaxCalls
     /\ buckets' = [j \in DOMAIN kept \cup {k} |->
                      IF j = k THEN Take(b) ELSE kept[j]]
     /\ calls' = IF k = Watched THEN Append(calls, [t |-> clock, ok |-> Passes(b)]) ELSE calls
     /\ evicted' = (evicted \/ Watched \in gone)
     /\ UNCHANGED clock

TickClock ==
  /\ clock < MaxTicks
  /\ clock' = clock + 1
  /\ UNCHANGED <<buckets, calls, evicted>>

RateNext == TickClock \/ \E k \in Keys : Allow(k)

RateSpec == RateInit /\ [][RateNext]_rateVars

----------------------------------------------------------------------------
(* Properties                                                              *)

\* The requests let through from the i-th to the j-th.
LetThrough(i, j) == Cardinality({n \in i..j : calls[n].ok})

\* Windows a stretch of requests can touch: they start at least Window apart.
Windows(i, j) == ((calls[j].t - calls[i].t) \div Window) + 2

\* No window passes without a refusal from the i-th request to the j-th.
KeepsGoingOver(i, j) ==
  \A s \in calls[i].t..(calls[j].t - Window) :
    \E m \in i..j : ~calls[m].ok /\ calls[m].t \in s..(s + Window - 1)

\* ratelimit.go: "a client that keeps going over is held to the steady rate".
\* In any stretch of its requests it is given the burst once, not once in
\* every window, unless the limiter was full and its bucket was evicted.
SteadyRate ==
  ~evicted =>
    \A j \in DOMAIN calls : \A i \in 1..j :
      KeepsGoingOver(i, j) => LetThrough(i, j) <= Windows(i, j) * Quota + Burst
=============================================================================
