-------------------------- MODULE SeriesSortProofs --------------------------
(***************************************************************************)
(* Lemmas about the rolling series: what Add, Drop and Sorted return, for  *)
(* every series.                                                           *)
(***************************************************************************)
EXTENDS SeriesSort, FiniteSetTheorems, SequenceTheorems, WellFoundedInduction, TLAPS

(* A set of naturals has a least element.  The library's least-number      *)
(* principle takes an operator; this form takes a set.                     *)
LEMMA LeastNat ==
  ASSUME NEW T \in SUBSET Nat, T # {}
  PROVE  \E x \in T : \A y \in T : x <= y
<1> DEFINE Below(n) == T \cap 0 .. n
           F == {Below(n) : n \in T}
<1>1. F \subseteq FiniteSubsetsOf(Nat)
  <2>1. ASSUME NEW n \in T PROVE Below(n) \in FiniteSubsetsOf(Nat)
    <3>1. IsFiniteSet(0 .. n) /\ Below(n) \in SUBSET (0 .. n)
      BY FS_Interval
    <3>2. IsFiniteSet(Below(n))
      BY <3>1, FS_Subset
    <3> QED
      BY <3>2 DEF FiniteSubsetsOf
  <2> QED
    BY <2>1
<1>2. F # {}
  OBVIOUS
<1>3. IsWellFoundedOn(StrictSubsetOrdering(Nat), FiniteSubsetsOf(Nat))
  BY FS_StrictSubsetOrderingWellFounded
<1>4. PICK X \in F : \A Y \in F : ~ (<<Y, X>> \in StrictSubsetOrdering(Nat))
  BY <1>1, <1>2, <1>3, WFMin
<1>5. PICK x \in T : X = Below(x)
  BY <1>4
<1>6. ASSUME NEW y \in T, y < x PROVE FALSE
  <2>1. Below(y) \in SUBSET Nat /\ X \in SUBSET Nat
    BY <1>5
  <2>2. Below(y) \subseteq X /\ Below(y) # X
    BY <1>5, <1>6
  <2>3. <<Below(y), X>> \in StrictSubsetOrdering(Nat)
    BY <2>1, <2>2 DEF StrictSubsetOrdering
  <2> QED
    BY <2>3, <1>4
<1> QED
  BY <1>6

LEMMA FcnIsSeq ==
  ASSUME NEW S, NEW n \in Nat, NEW f \in [1 .. n -> S]
  PROVE  f \in Seq(S) /\ Len(f) = n
OBVIOUS

\* The walk over a sequence stops at the first element outside S and nowhere
\* before (the loops of Series.Sorted and indexProc.flush).
LEMMA PrefixLenStops ==
  ASSUME NEW seq, Len(seq) \in Nat, NEW S
  PROVE  LET k == PrefixLen(seq, S)
         IN  /\ k \in 0 .. Len(seq)
             /\ \A i \in 1 .. k : seq[i] \in S
             /\ k < Len(seq) => seq[k + 1] \notin S
<1> DEFINE Stop == {i \in 1 .. Len(seq) + 1 : i <= Len(seq) => seq[i] \notin S}
<1>1. Stop \in SUBSET Nat /\ Len(seq) + 1 \in Stop
  OBVIOUS
<1>2. PICK x \in Stop : \A y \in Stop : x <= y
  BY <1>1, LeastNat
<1>3. /\ x - 1 \in 0 .. Len(seq)
      /\ \A i \in 1 .. x - 1 : seq[i] \in S
      /\ x - 1 < Len(seq) => seq[x - 1 + 1] \notin S
  BY <1>2
<1> QED
  BY <1>3 DEF PrefixLen

\* Add sets the one position it is given, keeps the others and fills the gap
\* it may open with unset positions (Series.Add).
LEMMA AddSets ==
  ASSUME NEW V, NEW s \in Series(V), NEW i \in Nat, NEW v \in V, CanAdd(s, i)
  PROVE  LET r == Add(s, i, v)
             p == i - s.start + 1
         IN  /\ r \in Series(V)
             /\ r.start = s.start
             /\ Len(r.values) = IF p > Len(s.values) THEN p ELSE Len(s.values)
             /\ \A q \in 1 .. Len(r.values) :
                  r.values[q] = IF q = p THEN v
                                ELSE IF q <= Len(s.values) THEN s.values[q]
                                ELSE Nil
<1> DEFINE p == i - s.start + 1
           len == IF p > Len(s.values) THEN p ELSE Len(s.values)
           new == [q \in 1 .. len |-> IF q = p THEN v
                                      ELSE IF q <= Len(s.values) THEN s.values[q]
                                      ELSE Nil]
<1>1. s.values \in Seq(V \cup {Nil}) /\ s.start \in Nat /\ p \in Nat \ {0}
  BY DEF Series, CanAdd
<1>2. len \in Nat
  BY <1>1
<1>3. \A q \in 1 .. len : new[q] \in V \cup {Nil}
  BY <1>1, <1>2
<1>8. new \in [1 .. len -> V \cup {Nil}]
  BY <1>3
<1> HIDE DEF new, len
<1>4. new \in Seq(V \cup {Nil}) /\ Len(new) = len
  BY <1>2, <1>8, FcnIsSeq
<1> USE DEF new, len
<1>5. Add(s, i, v) = [values |-> new, start |-> s.start]
  BY DEF Add
<1>6. Add(s, i, v).values = new /\ Add(s, i, v).start = s.start
  BY <1>5
<1>7. Add(s, i, v) \in Series(V)
  BY <1>4, <1>5, <1>1 DEF Series
<1> HIDE DEF new
<1> QED
  BY <1>4, <1>6, <1>7, <1>2 DEF new

\* Drop takes positions off the front and moves start past them; the values
\* that stay keep their absolute positions (Series.Drop).
LEMMA DropShifts ==
  ASSUME NEW V, NEW s \in Series(V), NEW k \in 0 .. Len(s.values)
  PROVE  /\ Drop(s, k) \in Series(V)
         /\ Drop(s, k).start = s.start + k
         /\ Len(Drop(s, k).values) = Len(s.values) - k
         /\ \A q \in 1 .. Len(Drop(s, k).values) : Drop(s, k).values[q] = s.values[q + k]
<1>1. /\ s.values \in Seq(V \cup {Nil}) /\ s.start \in Nat
      /\ Len(s.values) \in Nat /\ k \in Nat /\ ~(k < 0) /\ ~(k > Len(s.values))
  BY DEF Series
<1>2. Drop(s, k) = [values |-> SubSeq(s.values, k + 1, Len(s.values)),
                    start |-> s.start + k]
  BY <1>1 DEF Drop
<1>3. /\ SubSeq(s.values, k + 1, Len(s.values)) \in Seq(V \cup {Nil})
      /\ Len(SubSeq(s.values, k + 1, Len(s.values))) = Len(s.values) - k
      /\ \A q \in 1 .. Len(s.values) - k :
           SubSeq(s.values, k + 1, Len(s.values))[q] = s.values[q + k]
  BY <1>1, SubSeqProperties
<1> QED
  BY <1>1, <1>2, <1>3 DEF Series

\* Sorted is the run of set values at the front, and all of it (Series.Sorted).
LEMMA SortedRun ==
  ASSUME NEW V, Nil \notin V, NEW s \in Series(V)
  PROVE  LET vs == Sorted(s)
         IN  /\ vs \in Seq(V)
             /\ Len(vs) <= Len(s.values)
             /\ \A i \in 1 .. Len(vs) : vs[i] = s.values[i] /\ vs[i] # Nil
             /\ Len(vs) < Len(s.values) => s.values[Len(vs) + 1] = Nil
<1> DEFINE held == {s.values[i] : i \in 1 .. Len(s.values)} \ {Nil}
           k == PrefixLen(s.values, held)
<1>1. s.values \in Seq(V \cup {Nil}) /\ Len(s.values) \in Nat
  BY DEF Series
<1>3. held \subseteq V
  BY <1>1
<1>4. Sorted(s) = SubSeq(s.values, 1, k)
  BY DEF Sorted
<1>9. \A i \in 1 .. Len(s.values) : s.values[i] \notin held => s.values[i] = Nil
  OBVIOUS
<1> HIDE DEF held
<1>2. /\ k \in 0 .. Len(s.values)
      /\ \A i \in 1 .. k : s.values[i] \in held
      /\ k < Len(s.values) => s.values[k + 1] \notin held
  BY <1>1, PrefixLenStops
<1> HIDE DEF k
<1>5. \A i \in 1 .. k : s.values[i] \in V
  BY <1>2, <1>3
<1>6. /\ SubSeq(s.values, 1, k) \in Seq(V)
      /\ Len(SubSeq(s.values, 1, k)) = k
      /\ \A i \in 1 .. k : SubSeq(s.values, 1, k)[i] = s.values[i]
  BY <1>2, <1>5, SubSeqProperties
<1>7. k < Len(s.values) => s.values[k + 1] = Nil
  BY <1>1, <1>2, <1>9
<1>8. \A i \in 1 .. k : s.values[i] # Nil
  BY <1>5
<1> QED
  BY <1>1, <1>2, <1>4, <1>6, <1>7, <1>8
=============================================================================
