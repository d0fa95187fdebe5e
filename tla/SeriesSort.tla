----------------------------- MODULE SeriesSort -----------------------------
(***************************************************************************)
(* The rolling series of package seriessort: values are added at absolute  *)
(* positions in any order and taken off the front in order.  A series is   *)
(* the Go struct: the values still held, one per position from `start` on, *)
(* with Nil in the positions that nothing has been added at yet.           *)
(***************************************************************************)
EXTENDS Integers, Sequences

CONSTANT Nil

Series(V) == [values : Seq(V \cup {Nil}), start : Nat]

EmptySeries == [values |-> <<>>, start |-> 0]

\* Series.Add panics below the first position still held.
CanAdd(s, i) == i >= s.start

Add(s, i, val) ==
  LET p   == i - s.start + 1
      len == IF p > Len(s.values) THEN p ELSE Len(s.values)
      new == [q \in 1 .. len |-> IF q = p THEN val
                                 ELSE IF q <= Len(s.values) THEN s.values[q]
                                 ELSE Nil]
  IN  [values |-> new, start |-> s.start]

\* Series.Drop: count is clamped to what the series holds.
Drop(s, count) ==
  LET k == IF count < 0 THEN 0
           ELSE IF count > Len(s.values) THEN Len(s.values) ELSE count
  IN  [values |-> SubSeq(s.values, k + 1, Len(s.values)), start |-> s.start + k]

\* How many leading elements of seq belong to S: where a loop that walks seq
\* from the front and stops at the first element outside S stops.
PrefixLen(seq, S) ==
  CHOOSE k \in 0 .. Len(seq) : /\ \A i \in 1 .. k : seq[i] \in S
                               /\ k < Len(seq) => seq[k + 1] \notin S

\* Mutation: unset positions are skipped instead of ending the run.
SortedPastGaps(s) == SelectSeq(s.values, LAMBDA v : v # Nil)

\* The values up to the first unset position.
Sorted(s) ==
  LET held == {s.values[i] : i \in 1 .. Len(s.values)} \ {Nil}
  IN  SubSeq(s.values, 1, PrefixLen(s.values, held))

SeriesLen(s) == Len(s.values)
=============================================================================
