------------------------------- MODULE LogRing -------------------------------
(***************************************************************************)
(* The ring buffer that keeps the server's own output                      *)
(* (src/internal/logbuf/logbuf.go), against the plain list of the lines    *)
(* written since it was cleared.                                           *)
(***************************************************************************)
EXTENDS Integers, Sequences

CONSTANTS
  RingSize,     \* maxSize
  MaxWrites     \* bound on writes

ASSUME RingAssumption == RingSize \in Nat \ {0}

VARIABLES
  ring,      \* Buffer: [entries, pos, full]
  written    \* what was written since the buffer was cleared

ringVars == <<ring, written>>

EmptyRing == [entries |-> [i \in 0..(RingSize - 1) |-> 0], pos |-> 0, full |-> FALSE]

RingInit == ring = EmptyRing /\ written = <<>>

\* Buffer.Write
WriteEntry ==
  /\ Len(written) < MaxWrites
  /\ written' = Append(written, Len(written) + 1)
  /\ ring' = [entries |-> [ring.entries EXCEPT ![ring.pos] = Len(written) + 1],
              pos |-> IF ring.pos + 1 >= RingSize THEN 0 ELSE ring.pos + 1,
              full |-> ring.full \/ ring.pos + 1 >= RingSize]

\* Buffer.Clear
ClearRing ==
  /\ written # <<>>
  /\ ring' = EmptyRing
  /\ written' = <<>>

MutNoWrap(i, n) == IF ring.pos - n + i < 0 THEN 0 ELSE ring.pos - n + i

\* Where Buffer.Recent finds the i-th of the last n entries, counted from 0.
RingIndex(i, n) ==
  IF ring.pos - n + i < 0 THEN ring.pos - n + i + RingSize ELSE ring.pos - n + i

\* Buffer.Recent
Recent(limit) ==
  LET count == IF ring.full THEN RingSize ELSE ring.pos
      n == IF limit > count THEN count ELSE limit
  IN [i \in 1..n |-> ring.entries[RingIndex(i - 1, n)]]

RingNext == WriteEntry \/ ClearRing

RingSpec == RingInit /\ [][RingNext]_ringVars

----------------------------------------------------------------------------
(* Properties                                                              *)

Least(m, n) == IF m < n THEN m ELSE n

\* Recent returns the newest entries in the order they were written, for every
\* limit, before and after the buffer wraps round and after it was cleared.
RecentIsSuffix ==
  \A limit \in 0..RingSize + 1 :
    LET n == Least(limit, Least(RingSize, Len(written)))
    IN Recent(limit) = SubSeq(written, Len(written) - n + 1, Len(written))
=============================================================================
