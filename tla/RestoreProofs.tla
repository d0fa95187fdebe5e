---------------------------- MODULE RestoreProofs ----------------------------
(***************************************************************************)
(* For every number of lines, group size, number of slots and choice of    *)
(* faults: what a restore writes is in order, join never panics, an error  *)
(* has a reason, and without one the output is whole.                      *)
(***************************************************************************)
EXTENDS Restore, SeriesSortProofs

USE RestoreAssumption

(* Heads are naturals (chunk numbers divided by the size of a group). *)
LEMMA HeadsAreNat == /\ Heads \subseteq Nat
                     /\ Nil \notin Heads
                     /\ \A n \in Num : HeadOf(n) \in Heads
<1>1. \A n \in Num : n \in Nat /\ n \div NShards \in Nat
  BY DEF Num
<1> QED
  BY <1>1 DEF Heads, HeadOf

(* Division by the size of a group: quotient and rest are unique. *)
LEMMA Division ==
  ASSUME NEW x \in Nat
  PROVE  /\ x \div NShards \in Nat /\ x % NShards \in 0 .. NShards - 1
         /\ x = NShards * (x \div NShards) + (x % NShards)
OBVIOUS

LEMMA Monotone ==
  ASSUME NEW a \in Int, NEW b \in Int, a <= b
  PROVE  NShards * a <= NShards * b
<1>1. b - a \in Nat /\ NShards \in Nat
  OBVIOUS
<1>2. NShards * (b - a) \in Nat
  BY <1>1
<1>3. NShards * (b - a) = NShards * b - NShards * a
  OBVIOUS
<1> QED
  BY <1>2, <1>3

LEMMA Quotient ==
  ASSUME NEW q \in Nat, NEW r \in 0 .. NShards - 1, NEW x \in Nat, x = NShards * q + r
  PROVE  x \div NShards = q
<1> DEFINE d == x \div NShards
           e == x % NShards
<1>1. d \in Nat /\ e \in 0 .. NShards - 1 /\ x = NShards * d + e
  BY Division
<1> HIDE DEF d, e
<1>2. CASE d + 1 <= q
  <2>1. NShards * (d + 1) <= NShards * q
    BY <1>1, <1>2, Monotone
  <2>2. NShards * (d + 1) = NShards * d + NShards
    BY <1>1
  <2> QED
    BY <2>1, <2>2, <1>1
<1>3. CASE q + 1 <= d
  <2>1. NShards * (q + 1) <= NShards * d
    BY <1>1, <1>3, Monotone
  <2>2. NShards * (q + 1) = NShards * q + NShards
    BY <1>1
  <2> QED
    BY <2>1, <2>2, <1>1
<1>4. d = q
  BY <1>1, <1>2, <1>3
<1> QED
  BY <1>4 DEF d

(* The shards of a group are numbered without a gap. *)
LEMMA ShardsInterval ==
  ASSUME NEW h \in Nat
  PROVE  Shards(h) = Num \cap (NShards * h .. NShards * h + NShards - 1)
<1>1. ASSUME NEW n \in Num, n \div NShards = h
      PROVE  n \in NShards * h .. NShards * h + NShards - 1
  <2> DEFINE lo == NShards * h
             r == n % NShards
  <2>1. n \in Nat /\ lo \in Nat
    BY DEF Num
  <2>2. n = NShards * (n \div NShards) + r /\ r \in 0 .. NShards - 1
    BY <2>1, Division
  <2>3. n = lo + r
    BY <2>2, <1>1
  <2> HIDE DEF lo, r
  <2> SUFFICES n \in lo .. lo + NShards - 1
    BY DEF lo
  <2> QED
    BY <2>1, <2>2, <2>3
<1>2. ASSUME NEW n \in Num, n \in NShards * h .. NShards * h + NShards - 1
      PROVE  n \div NShards = h
  <2>1. n \in Nat /\ n - NShards * h \in 0 .. NShards - 1
        /\ n = NShards * h + (n - NShards * h)
    BY <1>2 DEF Num
  <2> QED
    BY <2>1, Quotient
<1> QED
  BY <1>1, <1>2 DEF Shards, HeadOf

LEMMA GroupInterval ==
  ASSUME NEW h \in Nat
  PROVE  /\ IsFiniteSet(NShards * h .. NShards * h + NShards - 1)
         /\ Cardinality(NShards * h .. NShards * h + NShards - 1) = NShards
<1> DEFINE lo == NShards * h
           hi == lo + NShards - 1
<1>1. lo \in Int /\ hi \in Int /\ NShards \in Nat /\ NShards > 0
  OBVIOUS
<1> HIDE DEF lo
<1>2. IsFiniteSet(lo .. hi)
      /\ Cardinality(lo .. hi) = IF lo > hi THEN 0 ELSE hi - lo + 1
  BY <1>1, FS_Interval
<1> QED
  BY <1>1, <1>2 DEF lo

(* A group has no more than NShards shards, so that one of NShards has all, the *)
(* last one included.                                                           *)
LEMMA FullGroup ==
  ASSUME NEW h \in Heads, NEW g \in SUBSET Shards(h), Cardinality(g) = NShards
  PROVE  g = Shards(h) /\ NShards * h + NShards - 1 \in g
<1> DEFINE I == NShards * h .. NShards * h + NShards - 1
<1>1. h \in Nat
  BY HeadsAreNat
<1>2. Shards(h) \subseteq I
  BY <1>1, ShardsInterval
<1>3. IsFiniteSet(I) /\ Cardinality(I) = NShards
  BY <1>1, GroupInterval
<1>4. NShards * h + NShards - 1 \in I
  BY <1>1
<1> HIDE DEF I
<1>5. g = I
  BY <1>2, <1>3, FS_Subset
<1> QED
  BY <1>2, <1>4, <1>5

(* Which groups are whole in an index. *)
LEMMA LinesAreNat ==
  ASSUME TypeOK
  PROVE  /\ lines \in Nat /\ lines <= MaxLines /\ Blocks \in Nat
         /\ lines = NShards * Blocks + (lines % NShards)
         /\ lines % NShards \in 0 .. NShards - 1
<1>1. lines \in Nat /\ lines <= MaxLines
  BY DEF TypeOK
<1> QED
  BY <1>1, Division DEF Blocks

LEMMA WholeGroups ==
  ASSUME TypeOK, NEW h \in Nat, h < Blocks
  PROVE  /\ h \in Heads /\ Cardinality(Shards(h)) = NShards /\ IsFiniteSet(Shards(h))
         /\ \A n \in Shards(h) : n \in Num /\ n < lines
<1> DEFINE lo == NShards * h
           hi == lo + NShards - 1
<1>1. lo \in Nat /\ NShards \in Nat /\ NShards > 0
  OBVIOUS
<1>2. hi < lines
  <2>1. NShards * (h + 1) <= NShards * Blocks
    BY LinesAreNat, Monotone
  <2>2. NShards * (h + 1) = lo + NShards
    OBVIOUS
  <2>3. NShards * Blocks \in Int /\ NShards * Blocks <= lines
    BY LinesAreNat
  <2> HIDE DEF lo
  <2> QED
    BY <2>1, <2>2, <2>3, <1>1, LinesAreNat
<1>3. lo .. hi \subseteq Num /\ \A n \in lo .. hi : n < lines
  <2> HIDE DEF lo
  <2> QED
    BY <1>1, <1>2, LinesAreNat DEF Num
<1>4. Shards(h) = lo .. hi
  BY <1>3, ShardsInterval
<1>5. lo \in Shards(h) /\ lo \in Num
  BY <1>1, <1>3, <1>4
<1>6. h \in Heads
  BY <1>5 DEF Shards, Heads
<1> QED
  BY <1>3, <1>4, <1>6, GroupInterval

LEMMA LastShardMakesWhole ==
  ASSUME TypeOK, NEW h \in Nat, NShards * h + NShards - 1 < lines
  PROVE  h < Blocks
<1> SUFFICES ASSUME Blocks <= h PROVE FALSE
  BY LinesAreNat
<1>1. NShards * Blocks <= NShards * h
  BY LinesAreNat, Monotone
<1> QED
  BY <1>1, LinesAreNat

LEMMA NoCutGroup ==
  ASSUME TypeOK, lines % NShards = 0, NEW n \in Num, n < lines
  PROVE  HeadOf(n) < Blocks
<1>1. n \in Nat /\ HeadOf(n) \in Nat
      /\ n = NShards * HeadOf(n) + (n % NShards) /\ n % NShards \in 0 .. NShards - 1
  BY Division DEF Num, HeadOf
<1> SUFFICES ASSUME Blocks <= HeadOf(n) PROVE FALSE
  BY <1>1, LinesAreNat
<1>2. NShards * Blocks <= NShards * HeadOf(n)
  BY <1>1, LinesAreNat, Monotone
<1> QED
  BY <1>1, <1>2, LinesAreNat

LEMMA CutGroup ==
  ASSUME TypeOK, lines % NShards # 0
  PROVE  lines - 1 \in Num /\ HeadOf(lines - 1) = Blocks
<1>1. /\ lines \in Nat /\ lines <= MaxLines /\ Blocks \in Nat
      /\ lines = NShards * Blocks + (lines % NShards)
      /\ lines % NShards \in 1 .. NShards - 1
  BY LinesAreNat
<1>2. NShards * Blocks \in Nat
  BY <1>1
<1>3. /\ lines - 1 \in Nat /\ (lines % NShards) - 1 \in 0 .. NShards - 1
      /\ lines - 1 = NShards * Blocks + ((lines % NShards) - 1)
  BY <1>1, <1>2
<1>4. (lines - 1) \div NShards = Blocks
  BY <1>1, <1>3, Quotient
<1> QED
  BY <1>1, <1>3, <1>4 DEF Num, HeadOf

(***************************************************************************)
(* Initial states.                                                         *)
(***************************************************************************)
LEMMA InitInv == Init => OrderInv
<1> SUFFICES ASSUME Init PROVE OrderInv
  OBVIOUS
<1>1. TypeOK
  <2>1. series \in Series(Heads)
    BY DEF Init, EmptySeries, Series
  <2>2. pc \in [Num -> Stages] /\ got \in [Num -> {"none", "data", "lost", "error"}]
    BY DEF Init, Stages
  <2>3. growing \in [Heads -> SUBSET Num] /\ pending \in [Num -> Seq(Heads)]
        /\ written \in Seq(Heads)
    BY DEF Init
  <2>4. lines \in Counts /\ malformed \in BOOLEAN /\ broken \in BOOLEAN
    BY DEF Init
  <2> QED
    BY <2>1, <2>2, <2>3, <2>4 DEF Init, TypeOK
<1>2. JoinInv
  BY DEF Init, JoinInv
<1>3. series.start = 0 /\ Len(series.values) = 0
  BY DEF Init, EmptySeries
<1>4. GroupInv
  <2>1. \A h \in Nat : ~(h < series.start) /\ ~(h < series.start + Len(series.values))
    BY <1>3
  <2>2. \A n \in Num : ~Added(HeadOf(n))
    BY <2>1, HeadsAreNat DEF Added
  <2> QED
    BY <2>2, HeadsAreNat DEF Init, GroupInv
<1>5. SeriesInv
  BY <1>3 DEF SeriesInv
<1>6. WriteInv
  BY <1>3 DEF Init, WriteInv, InOrder
<1> QED
  BY <1>1, <1>2, <1>4, <1>5, <1>6 DEF OrderInv

(***************************************************************************)
(* Steps.  First what most of them have in common.                         *)
(***************************************************************************)
(* What does not come near join leaves its part of the invariant alone. *)
LEMMA AwayFromJoin ==
  ASSUME OrderInv, UNCHANGED <<joining, pending, series, written, broken>>,
         \A n \in Num : /\ pc'[n] = "joining" <=> pc[n] = "joining"
                        /\ pc'[n] = "writing" <=> pc[n] = "writing"
  PROVE  JoinInv' /\ SeriesInv' /\ WriteInv'
<1>1. JoinInv'
  BY DEF OrderInv, JoinInv
<1>2. SeriesInv'
  BY DEF OrderInv, SeriesInv
<1>3. WriteInv'
  BY DEF OrderInv, WriteInv, InOrder
<1> QED
  BY <1>1, <1>2, <1>3

(* An instance moves on, but does not take a group over. *)
LEMMA MovesOn ==
  ASSUME TypeOK, GroupInv, NEW n \in Num, NEW s,
         pc' = [pc EXCEPT ![n] = s], UNCHANGED <<growing, series>>,
         pc[n] # "closed", pc[n] = "writing" => s = "closed",
         s \in {"grouped", "joined", "joining"} =>
           pc[n] \in {"grouped", "joined", "joining"}
  PROVE  GroupInv'
<1>1. pc'[n] = s /\ \A m \in Num : m # n => pc'[m] = pc[m]
  BY DEF TypeOK
<1>2. \A h \in Heads : \A m \in growing[h] : m \in Num
  BY DEF TypeOK
<1>3. \A h \in Heads : \A m \in growing'[h] : HeadOf(m) = h /\ pc'[m] = "closed"
  BY <1>1, <1>2 DEF GroupInv
<1>4. ASSUME NEW k \in Num, pc'[k] \in {"grouped", "joined", "joining"},
             NEW m \in Shards(HeadOf(k)) \ {k}
      PROVE  pc'[m] = "closed"
  <2>1. pc[k] \in {"grouped", "joined", "joining"}
    BY <1>1, <1>4
  <2>2. pc[m] = "closed" /\ m \in Num
    BY <2>1 DEF GroupInv, Shards
  <2> QED
    BY <2>2, <1>1
<1>5. ASSUME NEW k \in Num, Added(HeadOf(k))'
      PROVE  pc'[k] \in {"writing", "closed"}
  <2>1. Added(HeadOf(k))
    BY <1>5 DEF Added
  <2>2. pc[k] \in {"writing", "closed"}
    BY <2>1 DEF GroupInv
  <2> QED
    BY <2>2, <1>1
<1> QED
  BY <1>3, <1>4, <1>5 DEF GroupInv

(* The stages before a group and after the last block, and the slots. *)
LEMMA PlainSteps ==
  ASSUME OrderInv, NEW n \in Num,
         Start(n) \/ Fetch(n) \/ Read(n) \/ ReleaseInner(n) \/ ReleaseOuter(n)
  PROVE  OrderInv'
<1>0. TypeOK /\ GroupInv
  BY DEF OrderInv
<1>1. UNCHANGED <<lines, malformed, joining, pending, series, written, broken,
                  growing, errs, ret>>
  BY DEF Start, Fetch, Read, ReleaseInner, ReleaseOuter
<1>2. \/ pc' = pc
      \/ \E s \in Early : pc' = [pc EXCEPT ![n] = s] /\ pc[n] \in Early
  BY DEF Start, Fetch, Read, ReleaseInner, ReleaseOuter, To, Early
<1>3. JoinInv' /\ SeriesInv' /\ WriteInv'
  <2>1. \A m \in Num : /\ pc'[m] = "joining" <=> pc[m] = "joining"
                       /\ pc'[m] = "writing" <=> pc[m] = "writing"
    BY <1>0, <1>2 DEF TypeOK, Early
  <2> QED
    BY <2>1, <1>1, AwayFromJoin
<1>4. GroupInv'
  <2>1. CASE pc' = pc
    BY <2>1, <1>0, <1>1 DEF GroupInv, Added
  <2>2. ASSUME NEW s \in Early, pc' = [pc EXCEPT ![n] = s], pc[n] \in Early
        PROVE  GroupInv'
    <3>1. /\ pc[n] # "closed" /\ pc[n] # "writing"
          /\ s \notin {"grouped", "joined", "joining"}
      BY <2>2 DEF Early
    <3> QED
      BY <2>2, <3>1, <1>0, <1>1, MovesOn
  <2> QED
    BY <1>2, <2>1, <2>2
<1>5. TypeOK'
  <2>1. pc' \in [Num -> Stages]
    BY <1>0, <1>2 DEF TypeOK, Early, Stages
  <2>2. got' \in [Num -> {"none", "data", "lost", "error"}]
    BY <1>0 DEF TypeOK, Start, Fetch, Read, ReleaseInner, ReleaseOuter
  <2>3. outer' \subseteq Num /\ inner' \subseteq Num
    BY <1>0 DEF TypeOK, Start, Fetch, Read, ReleaseInner, ReleaseOuter
  <2> QED
    BY <1>0, <1>1, <2>1, <2>2, <2>3 DEF TypeOK
<1> QED
  BY <1>3, <1>4, <1>5 DEF OrderInv

LEMMA GroupStep ==
  ASSUME OrderInv, NEW n \in Num, Group(n)
  PROVE  OrderInv'
<1> DEFINE h == HeadOf(n)
           g == growing[h] \cup {n}
<1>0. TypeOK /\ GroupInv /\ h \in Heads /\ pc[n] = "read"
  BY HeadsAreNat DEF OrderInv, Group
<1>1. UNCHANGED <<lines, malformed, got, outer, inner, joining, series, pending,
                  written, broken, errs, ret>>
  BY DEF Group
<1>2. \/ growing' = [growing EXCEPT ![h] = g] /\ pc' = [pc EXCEPT ![n] = "closed"]
      \/ /\ Cardinality(g) = NShards /\ growing' = [growing EXCEPT ![h] = {}]
         /\ pc' = [pc EXCEPT ![n] = "grouped"]
  BY DEF Group, To
<1>3. /\ pc'[n] \in {"closed", "grouped"}
      /\ \A m \in Num : m # n => pc'[m] = pc[m]
  BY <1>0, <1>2 DEF TypeOK
<1>4. growing[h] \in SUBSET Num /\ \A x \in Heads : x # h => growing'[x] = growing[x]
  BY <1>0, <1>2 DEF TypeOK
<1>5. growing'[h] = g \/ growing'[h] = {}
  BY <1>0, <1>2 DEF TypeOK
<1>6. JoinInv' /\ SeriesInv' /\ WriteInv'
  <2>1. \A m \in Num : /\ pc'[m] = "joining" <=> pc[m] = "joining"
                       /\ pc'[m] = "writing" <=> pc[m] = "writing"
    BY <1>0, <1>3
  <2> QED
    BY <2>1, <1>1, AwayFromJoin
<1>7. \A x \in Heads : \A m \in growing[x] : m \in Num /\ HeadOf(m) = x /\ pc[m] = "closed"
  BY <1>0 DEF GroupInv, TypeOK
<1>8. \A x \in Heads : \A m \in growing'[x] : HeadOf(m) = x /\ pc'[m] = "closed"
  <2>1. \A x \in Heads \ {h} : \A m \in growing'[x] : HeadOf(m) = x /\ pc'[m] = "closed"
    BY <1>0, <1>3, <1>4, <1>7
  <2>2. ASSUME NEW m \in growing'[h] PROVE HeadOf(m) = h /\ pc'[m] = "closed"
    <3>1. CASE m = n
      <4>1. growing'[h] # {} /\ pc'[n] = "closed"
        BY <3>1, <1>0, <1>2 DEF TypeOK
      <4> QED
        BY <4>1, <3>1
    <3>2. CASE m # n
      <4>1. m \in growing[h]
        BY <3>2, <1>5
      <4> QED
        BY <4>1, <3>2, <1>0, <1>3, <1>7
    <3> QED
      BY <3>1, <3>2
  <2> QED
    BY <2>1, <2>2
<1>9. ASSUME NEW k \in Num, pc'[k] \in {"grouped", "joined", "joining"},
             NEW m \in Shards(HeadOf(k)) \ {k}
      PROVE  pc'[m] = "closed"
  <2>0. m \in Num /\ HeadOf(m) = HeadOf(k)
    BY DEF Shards
  <2>1. CASE k = n
    <3>1. Cardinality(g) = NShards
      BY <2>1, <1>0, <1>2, <1>9 DEF TypeOK
    <3>2. g \in SUBSET Shards(h)
      BY <1>0, <1>7 DEF Shards
    <3>3. m \in growing[h]
      BY <3>1, <3>2, <1>0, <2>1, FullGroup
    <3> QED
      BY <3>3, <2>1, <2>0, <1>0, <1>3, <1>7
  <2>2. CASE k # n
    <3>1. pc[m] = "closed"
      BY <2>2, <1>0, <1>3, <1>9 DEF GroupInv
    <3> QED
      BY <3>1, <2>0, <1>0, <1>3
  <2> QED
    BY <2>1, <2>2
<1>10. ASSUME NEW k \in Num, Added(HeadOf(k))' PROVE pc'[k] \in {"writing", "closed"}
  <2>1. pc[k] \in {"writing", "closed"}
    BY <1>10, <1>0, <1>1 DEF GroupInv, Added
  <2> QED
    BY <2>1, <1>0, <1>3
<1>11. TypeOK'
  <2>1. pc' \in [Num -> Stages]
    BY <1>0, <1>2 DEF TypeOK, Stages
  <2>2. growing' \in [Heads -> SUBSET Num]
    <3>1. g \in SUBSET Num /\ growing \in [Heads -> SUBSET Num]
      BY <1>0, <1>4 DEF TypeOK
    <3> HIDE DEF g, h
    <3> QED
      BY <3>1, <1>0, <1>2
  <2> QED
    BY <1>0, <1>1, <2>1, <2>2 DEF TypeOK
<1> QED
  BY <1>6, <1>8, <1>9, <1>10, <1>11 DEF OrderInv, GroupInv

LEMMA ParityStep ==
  ASSUME OrderInv, NEW n \in Num, Parity(n)
  PROVE  OrderInv'
<1>0. TypeOK /\ GroupInv /\ pc[n] = "grouped"
  BY DEF OrderInv, Parity
<1>1. UNCHANGED <<lines, malformed, got, outer, inner, growing, joining, series,
                  pending, written, broken, ret>>
  BY DEF Parity
<1>2. PICK s \in {"joined", "closed"} : pc' = [pc EXCEPT ![n] = s]
  BY DEF Parity, To
<1>3. JoinInv' /\ SeriesInv' /\ WriteInv'
  <2>1. \A m \in Num : /\ pc'[m] = "joining" <=> pc[m] = "joining"
                       /\ pc'[m] = "writing" <=> pc[m] = "writing"
    BY <1>0, <1>2 DEF TypeOK
  <2> QED
    BY <2>1, <1>1, AwayFromJoin
<1>4. GroupInv'
  BY <1>0, <1>1, <1>2, MovesOn
<1>5. TypeOK'
  <2>1. pc' \in [Num -> Stages]
    BY <1>0, <1>2 DEF TypeOK, Stages
  <2>2. errs' \subseteq 0 .. MaxLines
    <3>1. n \in 0 .. MaxLines
      BY DEF Num
    <3> QED
      BY <3>1, <1>0 DEF TypeOK, Parity
  <2> QED
    BY <1>0, <1>1, <2>1, <2>2 DEF TypeOK
<1> QED
  BY <1>3, <1>4, <1>5 DEF OrderInv

LEMMA JoinStep ==
  ASSUME OrderInv, NEW n \in Num, Join(n)
  PROVE  OrderInv'
<1>0. TypeOK /\ GroupInv /\ JoinInv /\ WriteInv /\ pc[n] = "joined" /\ joining = {}
  BY DEF OrderInv, Join
<1>1. UNCHANGED <<lines, malformed, got, outer, inner, growing, series, pending,
                  written, broken, errs, ret>> /\ joining' = {n}
  BY DEF Join
<1>2. pc' = [pc EXCEPT ![n] = "joining"]
  BY DEF Join, To
<1>3. pc'[n] = "joining" /\ \A m \in Num : m # n => pc'[m] = pc[m]
  BY <1>0, <1>2 DEF TypeOK
<1>4. JoinInv'
  BY <1>0, <1>1, <1>3 DEF JoinInv
<1>5. SeriesInv'
  BY <1>1 DEF OrderInv, SeriesInv
<1>6. WriteInv'
  <2>1. \A m \in Num : pc'[m] = "writing" <=> pc[m] = "writing"
    BY <1>0, <1>3
  <2> QED
    BY <2>1, <1>0, <1>1 DEF WriteInv, InOrder
<1>7. GroupInv'
  BY <1>0, <1>1, <1>2, MovesOn
<1>8. TypeOK'
  <2>1. pc' \in [Num -> Stages]
    BY <1>0, <1>2 DEF TypeOK, Stages
  <2> QED
    BY <1>0, <1>1, <2>1 DEF TypeOK
<1> QED
  BY <1>4, <1>5, <1>6, <1>7, <1>8 DEF OrderInv

(* Who comes to the series is expected: its block is new. *)
LEMMA NotLate ==
  ASSUME OrderInv, NEW n \in Num, pc[n] = "joining"
  PROVE  CanAdd(series, HeadOf(n)) /\ ~Added(HeadOf(n))
<1>1. ~Added(HeadOf(n))
  BY DEF OrderInv, GroupInv
<1>2. series.start \in Nat /\ HeadOf(n) \in Nat
  BY HeadsAreNat DEF OrderInv, TypeOK, Series
<1> QED
  BY <1>1, <1>2 DEF Added, CanAdd

(* Position p of a series is position p + k of the one k were dropped from. *)
LEMMA Shifted ==
  ASSUME NEW x \in Nat, NEW i \in Nat, NEW k \in Nat, NEW len \in Nat,
         x - (i + k) + 1 \in 1 .. len
  PROVE  x - (i + k) + 1 + k = x - i + 1 /\ x - i + 1 \in 1 .. len + k
OBVIOUS

(* What is taken off the series, and what is left in it, position by position. *)
LEMMA SortTakes ==
  ASSUME OrderInv, NEW n \in Num, Sort(n)
  PROVE  \E s \in Series(Heads), vs \in Seq(Heads) :
           LET h == HeadOf(n)
               p == h - series.start + 1
               L == Len(series.values)
               k == Len(vs)
           IN  /\ s.start = series.start
               /\ Len(s.values) = IF p > L THEN p ELSE L
               /\ \A q \in 1 .. Len(s.values) :
                    s.values[q] = IF q = p THEN h
                                  ELSE IF q <= L THEN series.values[q] ELSE Nil
               /\ k \in 0 .. Len(s.values)
               /\ \A i \in 1 .. k : vs[i] = s.values[i] /\ vs[i] # Nil
               /\ k < Len(s.values) => s.values[k + 1] = Nil
               /\ pending' = [pending EXCEPT ![n] = vs]
               /\ series' \in Series(Heads) /\ series'.start = series.start + k
               /\ Len(series'.values) = Len(s.values) - k
               /\ \A q \in 1 .. Len(series'.values) :
                    series'.values[q] = s.values[q + k]
<1> DEFINE h  == HeadOf(n)
           s  == Add(series, h, h)
           vs == Sorted(s)
           k  == Len(vs)
           a  == series.start
           L  == Len(series.values)
<1>0. TypeOK /\ h \in Heads /\ h \in Nat /\ CanAdd(series, h)
  BY HeadsAreNat, NotLate DEF OrderInv, Sort
<1>1. pending' = [pending EXCEPT ![n] = vs] /\ series' = Drop(s, k)
  BY DEF Sort
<1>2. series \in Series(Heads) /\ a \in Nat /\ L \in Nat /\ h >= a
  BY <1>0 DEF TypeOK, Series, CanAdd
<1>3. /\ s \in Series(Heads) /\ s.start = a
      /\ Len(s.values) = IF h - a + 1 > L THEN h - a + 1 ELSE L
      /\ \A q \in 1 .. Len(s.values) :
           s.values[q] = IF q = h - a + 1 THEN h
                         ELSE IF q <= L THEN series.values[q] ELSE Nil
  BY <1>0, <1>2, AddSets
<1> HIDE DEF s
<1>4. /\ vs \in Seq(Heads) /\ k <= Len(s.values)
      /\ \A i \in 1 .. k : vs[i] = s.values[i] /\ vs[i] # Nil
      /\ k < Len(s.values) => s.values[k + 1] = Nil
  BY <1>3, HeadsAreNat, SortedRun
<1> HIDE DEF vs
<1>5. k \in 0 .. Len(s.values)
  <2>1. k \in Nat /\ Len(s.values) \in Nat
    BY <1>4, <1>3, <1>2, <1>0
  <2> QED
    BY <2>1, <1>4
<1> HIDE DEF k
<1>6. /\ series' \in Series(Heads) /\ series'.start = a + k
      /\ Len(series'.values) = Len(s.values) - k
      /\ \A q \in 1 .. Len(series'.values) : series'.values[q] = s.values[q + k]
  <2>1. \A t \in Series(Heads) : \A j \in 0 .. Len(t.values) :
          /\ Drop(t, j) \in Series(Heads) /\ Drop(t, j).start = t.start + j
          /\ Len(Drop(t, j).values) = Len(t.values) - j
          /\ \A q \in 1 .. Len(Drop(t, j).values) :
               Drop(t, j).values[q] = t.values[q + j]
    BY DropShifts
  <2>2. s \in Series(Heads) /\ k \in 0 .. Len(s.values)
    BY <1>3, <1>5
  <2>3. /\ Drop(s, k) \in Series(Heads) /\ Drop(s, k).start = s.start + k
        /\ Len(Drop(s, k).values) = Len(s.values) - k
        /\ \A q \in 1 .. Len(Drop(s, k).values) : Drop(s, k).values[q] = s.values[q + k]
    BY <2>1, <2>2, Zenon
  <2> QED
    BY <1>1, <2>3, <1>3
<1>7. s \in Series(Heads) /\ vs \in Seq(Heads)
  BY <1>3, <1>4
<1> USE DEF k
<1> QED
  BY <1>1, <1>3, <1>4, <1>5, <1>6, <1>7

(* The invariant holds of what Sort leaves. *)
LEMMA SortStep ==
  ASSUME OrderInv, NEW n \in Num, Sort(n)
  PROVE  OrderInv'
<1> DEFINE h  == HeadOf(n)
           a  == series.start
           L  == Len(series.values)
<1>0. TypeOK /\ GroupInv /\ JoinInv /\ SeriesInv /\ WriteInv /\ pc[n] = "joining"
      /\ h \in Heads /\ h \in Nat /\ CanAdd(series, h) /\ ~Added(h)
  BY HeadsAreNat, NotLate DEF OrderInv, Sort
<1>1. UNCHANGED <<lines, malformed, got, outer, inner, growing, joining, written,
                  broken, errs, ret>>
  BY DEF Sort
<1>pick. PICK s \in Series(Heads), vs \in Seq(Heads) :
        /\ s.start = a
        /\ Len(s.values) = IF h - a + 1 > L THEN h - a + 1 ELSE L
        /\ \A q \in 1 .. Len(s.values) :
             s.values[q] = IF q = h - a + 1 THEN h
                           ELSE IF q <= L THEN series.values[q] ELSE Nil
        /\ Len(vs) \in 0 .. Len(s.values)
        /\ \A i \in 1 .. Len(vs) : vs[i] = s.values[i] /\ vs[i] # Nil
        /\ Len(vs) < Len(s.values) => s.values[Len(vs) + 1] = Nil
        /\ pending' = [pending EXCEPT ![n] = vs]
        /\ series' \in Series(Heads) /\ series'.start = a + Len(vs)
        /\ Len(series'.values) = Len(s.values) - Len(vs)
        /\ \A q \in 1 .. Len(series'.values) :
             series'.values[q] = s.values[q + Len(vs)]
  BY SortTakes
<1> DEFINE k == Len(vs)
<1>2. pending' = [pending EXCEPT ![n] = vs] /\ pc' = [pc EXCEPT ![n] = "writing"]
  BY <1>pick DEF Sort, To
<1>3. pc'[n] = "writing" /\ \A m \in Num : m # n => pc'[m] = pc[m]
  BY <1>0, <1>2 DEF TypeOK
<1>4. a \in Nat /\ L \in Nat /\ h >= a
  BY <1>0 DEF TypeOK, Series, CanAdd
<1>5. /\ Len(s.values) = IF h - a + 1 > L THEN h - a + 1 ELSE L
      /\ \A q \in 1 .. Len(s.values) :
           s.values[q] = IF q = h - a + 1 THEN h
                         ELSE IF q <= L THEN series.values[q] ELSE Nil
  BY <1>pick
<1>6. /\ vs \in Seq(Heads)
      /\ \A i \in 1 .. k : vs[i] = s.values[i] /\ vs[i] # Nil
      /\ k < Len(s.values) => s.values[k + 1] = Nil
  BY <1>pick
<1>7. k \in Nat /\ Len(s.values) \in Nat /\ k \in 0 .. Len(s.values)
  <2>1. Len(s.values) \in Nat
    BY <1>5, <1>4, <1>0
  <2> QED
    BY <2>1, <1>pick
<1>8. /\ series' \in Series(Heads) /\ series'.start = a + k
      /\ Len(series'.values) = Len(s.values) - k
      /\ \A q \in 1 .. Len(series'.values) : series'.values[q] = s.values[q + k]
  BY <1>pick
<1> HIDE DEF k
<1>9. \A q \in 1 .. Len(s.values) : s.values[q] \in {Nil, a + q - 1}
  <2> SUFFICES ASSUME NEW q \in 1 .. Len(s.values) PROVE s.values[q] \in {Nil, a + q - 1}
    OBVIOUS
  <2>1. CASE q = h - a + 1
    <3>1. s.values[q] = h
      BY <2>1, <1>5
    <3>2. h = a + q - 1
      BY <2>1, <1>0, <1>4
    <3> QED
      BY <3>1, <3>2
  <2>2. CASE q # h - a + 1 /\ q <= L
    <3>1. s.values[q] = series.values[q] /\ q \in 1 .. L
      BY <2>2, <1>5, <1>4, <1>7
    <3> QED
      BY <3>1, <1>0 DEF SeriesInv
  <2>3. CASE q # h - a + 1 /\ ~(q <= L)
    BY <2>3, <1>5
  <2> QED
    BY <2>1, <2>2, <2>3
<1>10. SeriesInv'
  <2>1. ASSUME NEW q \in 1 .. Len(series'.values)
        PROVE  series'.values[q] \in {Nil, series'.start + q - 1}
    <3>1. q + k \in 1 .. Len(s.values) /\ series'.values[q] = s.values[q + k]
          /\ a + (q + k) - 1 = series'.start + q - 1
      BY <1>4, <1>7, <1>8
    <3> QED
      BY <3>1, <1>9
  <2>2. ASSUME Len(series'.values) > 0 PROVE series'.values[1] = Nil
    <3>1. k < Len(s.values) /\ 1 \in 1 .. Len(series'.values) /\ 1 + k = k + 1
      BY <2>2, <1>7, <1>8
    <3> QED
      BY <3>1, <1>6, <1>8
  <2> QED
    BY <2>1, <2>2 DEF SeriesInv
<1>11. ASSUME NEW x \in Nat, Added(x)', x # h PROVE Added(x)
  <2>1. CASE x < a
    BY <2>1 DEF Added
  <2>2. CASE x >= a
    <3> DEFINE q == x - a + 1
    <3>1. q \in 1 .. Len(s.values) /\ s.values[q] # Nil
      <4>1. CASE x < series'.start
        <5>1. q \in 1 .. k
          BY <4>1, <2>2, <1>4, <1>7, <1>8
        <5>2. q \in 1 .. Len(s.values) /\ vs[q] = s.values[q] /\ vs[q] # Nil
          BY <5>1, <1>6, <1>7
        <5> QED
          BY <5>2
      <4>2. CASE ~(x < series'.start)
        <5>1. x < series'.start + Len(series'.values)
              /\ series'.values[x - series'.start + 1] # Nil
          BY <4>2, <1>11 DEF Added
        <5>2. /\ series'.start \in Nat /\ Len(series'.values) \in Nat
              /\ series'.start = a + k /\ Len(series'.values) + k = Len(s.values)
          BY <1>4, <1>7, <1>8
        <5>3. x - series'.start + 1 \in 1 .. Len(series'.values)
          BY <4>2, <5>1, <5>2
        <5>4. x - series'.start + 1 + k = q /\ q \in 1 .. Len(s.values)
          <6>1. x - (a + k) + 1 \in 1 .. Len(series'.values)
            BY <5>2, <5>3
          <6>2. x - (a + k) + 1 + k = x - a + 1
                /\ x - a + 1 \in 1 .. Len(series'.values) + k
            BY <6>1, <5>2, <1>4, <1>7, Shifted
          <6> QED
            BY <6>2, <5>2
        <5>5. s.values[q] # Nil
          BY <5>1, <5>3, <5>4, <1>8
        <5> QED
          BY <5>4, <5>5
      <4> QED
        BY <4>1, <4>2
    <3>2. q # h - a + 1
      BY <1>11, <1>0, <1>4
    <3>3. q <= L /\ s.values[q] = series.values[q]
      BY <3>1, <3>2, <1>5
    <3>4. x < a + L
      BY <3>3, <1>4
    <3> QED
      BY <3>1, <3>3, <3>4 DEF Added
  <2> QED
    BY <2>1, <2>2, <1>4
<1>12. GroupInv'
  <2>1. \A x \in Heads : \A m \in growing'[x] : HeadOf(m) = x /\ pc'[m] = "closed"
    <3>1. \A x \in Heads : \A m \in growing[x] :
            m \in Num /\ HeadOf(m) = x /\ pc[m] = "closed"
      BY <1>0 DEF GroupInv, TypeOK
    <3> QED
      BY <3>1, <1>0, <1>1, <1>3
  <2>2. ASSUME NEW i \in Num, pc'[i] \in {"grouped", "joined", "joining"},
               NEW m \in Shards(HeadOf(i)) \ {i}
        PROVE  pc'[m] = "closed"
    <3>1. i # n /\ pc[m] = "closed" /\ m \in Num
      BY <2>2, <1>0, <1>3 DEF GroupInv, Shards
    <3> QED
      BY <3>1, <1>0, <1>3
  <2>3. ASSUME NEW i \in Num, Added(HeadOf(i))' PROVE pc'[i] \in {"writing", "closed"}
    <3>1. CASE HeadOf(i) = h
      <4>1. i = n \/ pc[i] = "closed"
        BY <3>1, <1>0 DEF GroupInv, Shards
      <4> QED
        BY <4>1, <1>3
    <3>2. CASE HeadOf(i) # h
      <4>1. Added(HeadOf(i))
        BY <3>2, <2>3, <1>11, HeadsAreNat
      <4>2. pc[i] \in {"writing", "closed"}
        BY <4>1, <1>0 DEF GroupInv
      <4> QED
        BY <4>2, <1>0, <1>3
    <3> QED
      BY <3>1, <3>2
  <2> QED
    BY <2>1, <2>2, <2>3 DEF GroupInv
<1>13. pending'[n] = vs /\ \A m \in Num : m # n => pending'[m] = pending[m]
  BY <1>0, <1>2 DEF TypeOK
<1>14. \A m \in Num : m # n => pc[m] \notin {"joining", "writing"}
  BY <1>0 DEF JoinInv
<1>15. JoinInv'
  BY <1>0, <1>1, <1>3, <1>13 DEF JoinInv
<1>16. WriteInv'
  <2> SUFFICES ASSUME ~broken
               PROVE  /\ InOrder(written)
                      /\ Len(written) + k = a + k
                      /\ \A i \in 1 .. k : vs[i] = Len(written) + i - 1
    BY <1>1, <1>3, <1>8, <1>13, <1>14 DEF WriteInv, InOrder, k
  <2>1. InOrder(written) /\ Len(written) = a
    BY <1>0, <1>14 DEF WriteInv
  <2>2. ASSUME NEW i \in 1 .. k PROVE vs[i] = a + i - 1
    <3>1. i \in 1 .. Len(s.values) /\ vs[i] = s.values[i] /\ vs[i] # Nil
      BY <1>6, <1>7
    <3> QED
      BY <3>1, <1>9
  <2> QED
    BY <2>1, <2>2
<1>17. TypeOK'
  <2>1. pc' \in [Num -> Stages]
    BY <1>0, <1>2 DEF TypeOK, Stages
  <2>2. pending' \in [Num -> Seq(Heads)]
    BY <1>0, <1>2, <1>6 DEF TypeOK
  <2> QED
    BY <1>0, <1>1, <1>8, <2>1, <2>2 DEF TypeOK
<1> QED
  BY <1>10, <1>12, <1>15, <1>16, <1>17 DEF OrderInv

(* Writing a block, or failing to: join's slot keeps others out. *)
LEMMA WriteSteps ==
  ASSUME OrderInv, NEW n \in Num, Write(n) \/ WriteError(n)
  PROVE  OrderInv'
<1>0. TypeOK /\ GroupInv /\ JoinInv /\ SeriesInv /\ WriteInv
      /\ pc[n] = "writing" /\ pending[n] # <<>> /\ pending[n] \in Seq(Heads)
  BY DEF OrderInv, Write, WriteError, TypeOK
<1>1. UNCHANGED <<lines, malformed, pc, got, outer, inner, growing, joining,
                  series, ret>>
      /\ pending' = [pending EXCEPT ![n] = Tail(@)]
  BY DEF Write, WriteError
<1>2. pending'[n] = Tail(pending[n]) /\ \A m \in Num : m # n => pending'[m] = pending[m]
  BY <1>0, <1>1 DEF TypeOK
<1>3. \A m \in Num : m # n => pc[m] # "writing"
  BY <1>0 DEF JoinInv
<1>4. JoinInv'
  BY <1>0, <1>1, <1>2 DEF JoinInv
<1>5. GroupInv' /\ SeriesInv'
  BY <1>0, <1>1 DEF GroupInv, SeriesInv, Added
<1>6. /\ Head(pending[n]) = pending[n][1] /\ Head(pending[n]) \in Heads
      /\ Tail(pending[n]) \in Seq(Heads) /\ Len(Tail(pending[n])) = Len(pending[n]) - 1
      /\ \A i \in 1 .. Len(pending[n]) - 1 : Tail(pending[n])[i] = pending[n][i + 1]
      /\ Len(pending[n]) \in Nat /\ Len(pending[n]) > 0
  BY <1>0
<1>7. CASE WriteError(n)
  <2>1. WriteInv'
    BY <1>7 DEF WriteError, WriteInv
  <2>2. pending' \in [Num -> Seq(Heads)]
    BY <1>0, <1>1, <1>6 DEF TypeOK
  <2>3. errs' \subseteq 0 .. MaxLines /\ broken' \in BOOLEAN /\ written' = written
    BY <1>7, <1>0 DEF WriteError, TypeOK, Num
  <2>4. TypeOK'
    BY <1>0, <1>1, <2>2, <2>3 DEF TypeOK
  <2> QED
    BY <1>4, <1>5, <2>1, <2>4 DEF OrderInv
<1>8. CASE Write(n)
  <2>1. UNCHANGED <<broken, errs>> /\ written' = Append(written, Head(pending[n]))
    BY <1>8 DEF Write
  <2>2. /\ written \in Seq(Heads) /\ Len(written) \in Nat /\ Len(written') = Len(written) + 1
        /\ written'[Len(written) + 1] = Head(pending[n])
        /\ \A i \in 1 .. Len(written) : written'[i] = written[i]
    BY <1>0, <1>6, <2>1 DEF TypeOK
  <2>3. WriteInv'
    <3> SUFFICES ASSUME ~broken
                 PROVE  /\ InOrder(written')
                        /\ Len(written') + Len(pending'[n]) = series.start
                        /\ \A i \in 1 .. Len(pending'[n]) :
                             pending'[n][i] = Len(written') + i - 1
      BY <1>0, <1>1, <1>3, <2>1 DEF WriteInv, InOrder
    <3>1. /\ InOrder(written)
          /\ Len(written) + Len(pending[n]) = series.start
          /\ \A i \in 1 .. Len(pending[n]) : pending[n][i] = Len(written) + i - 1
      BY <1>0 DEF WriteInv
    <3>2. Head(pending[n]) = Len(written)
      BY <3>1, <1>6, <2>2
    <3>3. InOrder(written')
      BY <3>1, <3>2, <2>2 DEF InOrder
    <3>4. Len(written') + Len(pending'[n]) = series.start
      <4>1. Len(pending'[n]) = Len(pending[n]) - 1
        BY <1>2, <1>6
      <4>2. Len(written) + Len(pending[n]) = series.start
        BY <3>1
      <4>3. Len(pending[n]) \in Nat /\ Len(written) \in Nat /\ Len(written') = Len(written) + 1
        BY <1>6, <2>2
      <4>4. series.start \in Int
        BY <1>0 DEF TypeOK, Series
      <4> DEFINE x == Len(written)
                 y == Len(pending[n])
                 z == series.start
      <4>5. x \in Int /\ y \in Int /\ z \in Int /\ x + y = z
        BY <4>2, <4>3, <4>4
      <4>6. (x + 1) + (y - 1) = z
        <5> HIDE DEF x, y, z
        <5> QED
          BY <4>5
      <4> QED
        BY <4>1, <4>3, <4>6, Zenon
    <3>5. ASSUME NEW i \in 1 .. Len(pending'[n])
          PROVE  pending'[n][i] = Len(written') + i - 1
      <4>1. i + 1 \in 1 .. Len(pending[n]) /\ pending'[n][i] = pending[n][i + 1]
        BY <1>2, <1>6
      <4>2. pending[n][i + 1] = Len(written) + (i + 1) - 1
        BY <4>1, <3>1
      <4> QED
        BY <4>1, <4>2, <2>2
    <3> QED
      BY <3>3, <3>4, <3>5
  <2>4. pending' \in [Num -> Seq(Heads)] /\ written' \in Seq(Heads)
    BY <1>0, <1>1, <1>6, <2>1 DEF TypeOK
  <2>5. TypeOK'
    BY <1>0, <1>1, <2>1, <2>4 DEF TypeOK
  <2> QED
    BY <1>4, <1>5, <2>3, <2>5 DEF OrderInv
<1> QED
  BY <1>7, <1>8

LEMMA CloseStep ==
  ASSUME OrderInv, NEW n \in Num, Close(n)
  PROVE  OrderInv'
<1>0. TypeOK /\ GroupInv /\ JoinInv /\ SeriesInv /\ WriteInv
      /\ pc[n] = "writing" /\ pending[n] = <<>>
  BY DEF OrderInv, Close
<1>1. UNCHANGED <<lines, malformed, got, outer, inner, growing, joining, series,
                  pending, written, broken, errs, ret>>
      /\ pc' = [pc EXCEPT ![n] = "closed"]
  BY DEF Close, To
<1>2. pc'[n] = "closed" /\ \A m \in Num : m # n => pc'[m] = pc[m]
  BY <1>0, <1>1 DEF TypeOK
<1>3. \A m \in Num : m # n => pc[m] # "writing"
  BY <1>0 DEF JoinInv
<1>4. JoinInv'
  BY <1>0, <1>1, <1>2 DEF JoinInv
<1>5. GroupInv'
  BY <1>0, <1>1, MovesOn
<1>6. SeriesInv'
  BY <1>0, <1>1 DEF SeriesInv
<1>7. WriteInv'
  <2> SUFFICES ASSUME ~broken PROVE InOrder(written) /\ Len(written) = series.start
    BY <1>1, <1>2, <1>3 DEF WriteInv, InOrder
  <2>1. Len(written) + 0 = series.start /\ InOrder(written)
    BY <1>0 DEF WriteInv
  <2> QED
    BY <2>1, <1>0 DEF TypeOK
<1>8. TypeOK'
  <2>1. pc' \in [Num -> Stages]
    BY <1>0, <1>1 DEF TypeOK, Stages
  <2> QED
    BY <1>0, <1>1, <2>1 DEF TypeOK
<1> QED
  BY <1>4, <1>5, <1>6, <1>7, <1>8 DEF OrderInv

LEMMA ReleaseJoinStep ==
  ASSUME OrderInv, NEW n \in Num, ReleaseJoin(n)
  PROVE  OrderInv'
<1>0. TypeOK /\ GroupInv /\ JoinInv /\ SeriesInv /\ WriteInv /\ pc[n] = "closed"
  BY DEF OrderInv, ReleaseJoin
<1>1. UNCHANGED <<lines, malformed, pc, got, outer, inner, growing, series,
                  pending, written, broken, errs, ret>> /\ joining' = joining \ {n}
  BY DEF ReleaseJoin
<1>2. JoinInv'
  BY <1>0, <1>1 DEF JoinInv
<1>3. GroupInv' /\ SeriesInv'
  BY <1>0, <1>1 DEF GroupInv, SeriesInv, Added
<1>4. WriteInv'
  BY <1>0, <1>1 DEF WriteInv, InOrder
<1>5. TypeOK'
  BY <1>0, <1>1 DEF TypeOK
<1> QED
  BY <1>2, <1>3, <1>4, <1>5 DEF OrderInv

(* The end of the index and of the program touch nothing of this. *)
LEMMA MainSteps ==
  ASSUME OrderInv, Main \/ UNCHANGED vars
  PROVE  OrderInv'
<1>0. TypeOK /\ GroupInv /\ JoinInv /\ SeriesInv /\ WriteInv
  BY DEF OrderInv
<1>1. UNCHANGED <<lines, malformed, pc, got, outer, inner, growing, joining,
                  series, pending, written, broken>>
  BY DEF Main, IndexError, ReceiveError, Finish, vars
<1>2. JoinInv' /\ SeriesInv' /\ WriteInv'
  BY <1>1, AwayFromJoin
<1>3. GroupInv'
  BY <1>0, <1>1 DEF GroupInv, Added
<1>4. errs' \subseteq 0 .. MaxLines
  <2>1. lines \in 0 .. MaxLines
    BY <1>0 DEF TypeOK
  <2> QED
    BY <2>1, <1>0 DEF TypeOK, Main, IndexError, ReceiveError, Finish, vars
<1>5. ret' \in {"none", "nil", "error", "short", "unreturned"}
  BY <1>0 DEF TypeOK, Main, IndexError, ReceiveError, Finish, FinishErrors, vars
<1>6. TypeOK'
  BY <1>0, <1>1, <1>4, <1>5 DEF TypeOK
<1> QED
  BY <1>2, <1>3, <1>6 DEF OrderInv

(***************************************************************************)
(* Nothing is lost track of: the rest of the invariant.                    *)
(***************************************************************************)
LEMMA InitAccount == Init => AccountInv
<1> SUFFICES ASSUME Init PROVE AccountInv
  OBVIOUS
<1>1. TypeOK /\ series.start = 0 /\ Len(series.values) = 0
  BY InitInv DEF OrderInv, Init, EmptySeries
<1>2. \A n \in Num : pc[n] = "index"
  BY DEF Init
<1>3. GrowInv
  <2>1. \A h \in Heads : growing[h] = {} /\ \A m \in Shards(h) : pc[m] = "index"
    BY <1>2 DEF Init, Shards
  <2>2. Cardinality({}) < NShards
    BY FS_EmptySet
  <2> QED
    BY <2>1, <2>2 DEF GrowInv, Early
<1>4. WholeInv
  <2>1. \A n \in Num : pc[n] \notin Taken \cup {"writing"}
    BY <1>2 DEF Taken
  <2>2. Blocks \in Nat
    BY <1>1, LinesAreNat
  <2>3. series.start + Len(series.values) <= Blocks
    BY <1>1, <2>2
  <2> QED
    BY <1>2, <2>1, <2>3 DEF WholeInv
<1>5. TrackInv
  BY <1>2 DEF TrackInv
<1>6. ErrInv /\ RetInv
  BY DEF Init, ErrInv, RetInv
<1> QED
  BY <1>3, <1>4, <1>5, <1>6 DEF AccountInv

(* A step of an instance comes before procs.Process has returned. *)
LEMMA NotReturned ==
  ASSUME ret = "none", UNCHANGED ret
  PROVE  RetInv'
BY DEF RetInv

(* An error keeps its reason, whatever becomes of the shards of other groups. *)
LEMMA ReasonsStay ==
  ASSUME TypeOK, ErrInv, UNCHANGED <<lines, malformed, got>>, broken => broken',
         errs' = errs, broken' => broken,
         \A m \in Num : pc[m] \notin Early => pc'[m] \notin Early
  PROVE  ErrInv'
<1>1. \A h \in Heads : \A m \in Shards(h) : m \in Num
  BY DEF Shards
<1>2. \A h \in Heads : Joinable(h)' = Joinable(h)
  BY DEF Joinable
<1>3. Blocks' = Blocks
  BY DEF Blocks
<1> QED
  BY <1>1, <1>2, <1>3 DEF ErrInv

(* The stages before a group, and the slots. *)
LEMMA PlainAccount ==
  ASSUME IndInv, ret = "none", NEW n \in Num,
         \/ Start(n) \/ Fetch(n) \/ Read(n)
         \/ ReleaseInner(n) \/ ReleaseOuter(n) \/ ReleaseJoin(n)
  PROVE  AccountInv'
<1>0. TypeOK /\ GrowInv /\ WholeInv /\ TrackInv /\ ErrInv
  BY DEF IndInv, OrderInv, AccountInv
<1>1. UNCHANGED <<lines, malformed, pending, series, written, broken, growing,
                  errs, ret>>
  BY DEF Start, Fetch, Read, ReleaseInner, ReleaseOuter, ReleaseJoin
<1>2. \/ pc' = pc
      \/ \E s \in Early : pc' = [pc EXCEPT ![n] = s] /\ pc[n] \in Early
  BY DEF Start, Fetch, Read, ReleaseInner, ReleaseOuter, ReleaseJoin, To, Early
<1>3. \A m \in Num : /\ pc'[m] \in Early <=> pc[m] \in Early
                     /\ pc[m] \notin Early => pc'[m] = pc[m]
  BY <1>0, <1>2 DEF TypeOK
<1>4. \A m \in Num : pc'[m] # "index" => pc[m] # "index" \/ m < lines
  BY <1>0, <1>2 DEF TypeOK, Start, Fetch, Read, ReleaseInner, ReleaseOuter,
                    ReleaseJoin, To
<1>5. \A h \in Heads : \A m \in Shards(h) : m \in Num
  BY DEF Shards
<1>6. GrowInv'
  BY <1>0, <1>1, <1>3, <1>5 DEF GrowInv
<1>7. Blocks' = Blocks /\ \A h \in Nat : Added(h)' <=> Added(h)
  BY <1>1 DEF Blocks, Added
<1>8. WholeInv'
  <2>1. \A m \in Num : pc'[m] \in Taken \cup {"writing"} => pc[m] \in Taken \cup {"writing"}
    BY <1>3 DEF Early, Taken
  <2> QED
    BY <2>1, <1>0, <1>1, <1>4, <1>7 DEF WholeInv
<1>9. TrackInv'
  <2>1. ASSUME NEW m \in Num PROVE HeadOf(m) \in Nat /\ Shards(HeadOf(m)) \subseteq Num
    BY HeadsAreNat DEF Shards
  <2>2. \A m \in Num : /\ pc'[m] \in Taken <=> pc[m] \in Taken
                       /\ pc'[m] = "writing" <=> pc[m] = "writing"
                       /\ pc'[m] = "closed" <=> pc[m] = "closed"
    BY <1>3 DEF Early, Taken
  <2> QED
    BY <2>1, <2>2, <1>0, <1>1, <1>7 DEF TrackInv
<1>10. ErrInv'
  <2>1. CASE UNCHANGED got
    BY <2>1, <1>0, <1>1, <1>3, ReasonsStay
  <2>2. CASE Read(n)
    <3>1. pc[n] \in Early /\ \A m \in Num : m # n => got'[m] = got[m]
      BY <2>2, <1>0 DEF Read, Early, TypeOK
    <3>2. ASSUME NEW h \in Heads, \A m \in Shards(h) : pc[m] \notin Early
          PROVE  Joinable(h)' = Joinable(h)
      <4>1. \A m \in Shards(h) : got'[m] = got[m]
        BY <3>1, <3>2, <1>5
      <4>2. {m \in Shards(h) : got'[m] = "lost"} = {m \in Shards(h) : got[m] = "lost"}
        BY <4>1
      <4> QED
        BY <4>1, <4>2 DEF Joinable
    <3> QED
      BY <3>2, <1>0, <1>1, <1>3, <1>5, <1>7 DEF ErrInv
  <2> QED
    BY <2>1, <2>2 DEF Start, Fetch, ReleaseInner, ReleaseOuter, ReleaseJoin
<1> QED
  BY <1>6, <1>8, <1>9, <1>10, <1>1, NotReturned DEF AccountInv

(* A shard comes to its group: it grows, or the instance carries it on. *)
LEMMA GroupAccount ==
  ASSUME IndInv, ret = "none", NEW n \in Num, Group(n)
  PROVE  AccountInv'
<1> DEFINE h == HeadOf(n)
           g == growing[h] \cup {n}
<1>0. TypeOK /\ GroupInv /\ GrowInv /\ WholeInv /\ TrackInv /\ ErrInv
      /\ h \in Heads /\ h \in Nat /\ pc[n] = "read" /\ pc[n] \in Early /\ n \in Shards(h)
  BY HeadsAreNat DEF IndInv, OrderInv, AccountInv, Group, Early, Shards
<1>1. UNCHANGED <<lines, malformed, got, series, pending, written, broken, errs, ret>>
  BY DEF Group
<1>2. \/ /\ Cardinality(g) < NShards
         /\ growing' = [growing EXCEPT ![h] = g] /\ pc' = [pc EXCEPT ![n] = "closed"]
      \/ /\ Cardinality(g) = NShards
         /\ growing' = [growing EXCEPT ![h] = {}] /\ pc' = [pc EXCEPT ![n] = "grouped"]
  BY DEF Group, To
<1>3. /\ pc'[n] \in {"closed", "grouped"}
      /\ \A m \in Num : m # n => pc'[m] = pc[m]
  BY <1>0, <1>2 DEF TypeOK
<1>4. \A x \in Heads : x # h => growing'[x] = growing[x]
  BY <1>0, <1>2 DEF TypeOK
<1>5. \A x \in Heads : \A m \in Shards(x) : m \in Num /\ HeadOf(m) = x
  BY DEF Shards
<1>6. growing[h] \subseteq Shards(h) /\ g \subseteq Shards(h)
  <2>1. \A m \in growing[h] : m \in Num /\ HeadOf(m) = h
    BY <1>0 DEF TypeOK, GroupInv
  <2> QED
    BY <2>1, <1>0 DEF Shards
<1>7. \A m \in Shards(h) \ growing[h] : pc[m] \in Early
  BY <1>0 DEF GrowInv
<1>8. ErrInv' /\ RetInv'
  <2>1. \A m \in Num : pc[m] \notin Early => pc'[m] \notin Early
    BY <1>3 DEF Early
  <2> QED
    BY <2>1, <1>0, <1>1, ReasonsStay, NotReturned
<1>9. CASE /\ Cardinality(g) < NShards
           /\ growing' = [growing EXCEPT ![h] = g] /\ pc' = [pc EXCEPT ![n] = "closed"]
  <2>1. growing'[h] = g /\ pc'[n] = "closed"
    BY <1>0, <1>9 DEF TypeOK
  <2>2. GrowInv'
    <3>1. ASSUME NEW x \in Heads, x # h,
                 growing'[x] # {} \/ \E m \in Shards(x) : pc'[m] \in Early
          PROVE  /\ Cardinality(growing'[x]) < NShards
                 /\ \A m \in Shards(x) \ growing'[x] : pc'[m] \in Early
      <4>1. \A m \in Shards(x) : pc'[m] = pc[m]
        BY <3>1, <1>3, <1>5
      <4> QED
        BY <3>1, <4>1, <1>0, <1>4 DEF GrowInv
    <3>2. \A m \in Shards(h) \ growing'[h] : pc'[m] \in Early
      BY <2>1, <1>3, <1>5, <1>7, <1>0
    <3> QED
      BY <3>1, <3>2, <2>1, <1>9 DEF GrowInv
  <2>3. TrackInv'
    <3>1. ASSUME NEW m \in Num, pc'[m] = "writing" PROVE Added(HeadOf(m))'
      BY <3>1, <2>1, <1>0, <1>1, <1>3 DEF TrackInv, Added
    <3>2. ASSUME NEW m \in Num, pc'[m] = "closed"
          PROVE  \/ m \in growing'[HeadOf(m)] \/ Added(HeadOf(m))'
                 \/ \E k \in Shards(HeadOf(m)) : pc'[k] \in Taken \/ k \in errs'
      <4>1. CASE m = n
        BY <4>1, <2>1
      <4>2. CASE m # n
        <5>1. \/ m \in growing[HeadOf(m)] \/ Added(HeadOf(m))
              \/ \E k \in Shards(HeadOf(m)) : pc[k] \in Taken \/ k \in errs
          BY <3>2, <4>2, <1>0, <1>3 DEF TrackInv
        <5>2. HeadOf(m) \in Heads
          BY HeadsAreNat
        <5>3. m \in growing[HeadOf(m)] => m \in growing'[HeadOf(m)]
          BY <5>2, <2>1, <1>4
        <5>4. \A k \in Shards(HeadOf(m)) : pc[k] \in Taken => pc'[k] \in Taken
          BY <5>2, <1>0, <1>3, <1>5 DEF Early, Taken
        <5> QED
          BY <5>1, <5>3, <5>4, <1>1 DEF Added
      <4> QED
        BY <4>1, <4>2
    <3> QED
      BY <3>1, <3>2 DEF TrackInv
  <2>4. WholeInv'
    <3>1. \A m \in Num : /\ pc'[m] # "index" => pc[m] # "index"
                         /\ pc'[m] \in Taken \cup {"writing"} => pc'[m] = pc[m]
      BY <2>1, <1>0, <1>3 DEF Taken
    <3> QED
      BY <3>1, <1>0, <1>1 DEF WholeInv, Blocks
  <2> QED
    BY <2>2, <2>3, <2>4, <1>8 DEF AccountInv
<1>10. CASE /\ Cardinality(g) = NShards
           /\ growing' = [growing EXCEPT ![h] = {}] /\ pc' = [pc EXCEPT ![n] = "grouped"]
  <2>1. growing'[h] = {} /\ pc'[n] = "grouped"
    BY <1>0, <1>10 DEF TypeOK
  <2>2. g = Shards(h) /\ NShards * h + NShards - 1 \in g
    BY <1>0, <1>6, <1>10, FullGroup
  <2>3. \A m \in g : pc[m] # "index" /\ m \in Num
    BY <1>0, <1>5, <1>6 DEF GroupInv
  <2>4. h < Blocks
    <3>1. NShards * h + NShards - 1 < lines
      BY <2>2, <2>3, <1>0 DEF WholeInv
    <3> QED
      BY <3>1, <1>0, LastShardMakesWhole
  <2>5. GrowInv'
    <3>1. ASSUME NEW x \in Heads, x # h,
                 growing'[x] # {} \/ \E m \in Shards(x) : pc'[m] \in Early
          PROVE  /\ Cardinality(growing'[x]) < NShards
                 /\ \A m \in Shards(x) \ growing'[x] : pc'[m] \in Early
      <4>1. \A m \in Shards(x) : pc'[m] = pc[m]
        BY <3>1, <1>3, <1>5
      <4> QED
        BY <3>1, <4>1, <1>0, <1>4 DEF GrowInv
    <3>2. \A m \in Shards(h) : pc'[m] \notin Early
      <4>1. ASSUME NEW m \in Shards(h), m # n PROVE pc'[m] = "closed"
        BY <4>1, <2>2, <1>0, <1>3, <1>5 DEF GroupInv
      <4> QED
        BY <4>1, <2>1 DEF Early
    <3> QED
      BY <3>1, <3>2, <2>1 DEF GrowInv
  <2>6. TrackInv'
    <3>1. ASSUME NEW m \in Num, pc'[m] = "writing" PROVE Added(HeadOf(m))'
      BY <3>1, <2>1, <1>0, <1>1, <1>3 DEF TrackInv, Added
    <3>2. ASSUME NEW m \in Num, pc'[m] = "closed"
          PROVE  \/ m \in growing'[HeadOf(m)] \/ Added(HeadOf(m))'
                 \/ \E k \in Shards(HeadOf(m)) : pc'[k] \in Taken \/ k \in errs'
      <4>0. m # n /\ HeadOf(m) \in Heads
        BY <3>2, <2>1, HeadsAreNat
      <4>1. CASE HeadOf(m) = h
        BY <4>1, <2>1, <1>0 DEF Taken
      <4>2. CASE HeadOf(m) # h
        <5>1. \/ m \in growing[HeadOf(m)] \/ Added(HeadOf(m))
              \/ \E k \in Shards(HeadOf(m)) : pc[k] \in Taken \/ k \in errs
          BY <3>2, <4>0, <1>0, <1>3 DEF TrackInv
        <5>2. growing'[HeadOf(m)] = growing[HeadOf(m)]
          BY <4>0, <4>2, <1>4
        <5>3. \A k \in Shards(HeadOf(m)) : pc'[k] = pc[k]
          BY <4>0, <4>2, <1>3, <1>5
        <5> QED
          BY <5>1, <5>2, <5>3, <1>1 DEF Added
      <4> QED
        BY <4>1, <4>2
    <3> QED
      BY <3>1, <3>2 DEF TrackInv
  <2>7. WholeInv'
    <3>1. \A m \in Num : /\ pc'[m] # "index" => pc[m] # "index"
                         /\ m # n => pc'[m] = pc[m]
      BY <1>0, <1>3
    <3> QED
      BY <3>1, <2>4, <1>0, <1>1 DEF WholeInv, Blocks
  <2> QED
    BY <2>5, <2>6, <2>7, <1>8 DEF AccountInv
<1> QED
  BY <1>2, <1>9, <1>10

(* Parity lets the group go on, or ends it with an error that redundancy does *)
(* not cover.                                                                 *)
LEMMA ParityAccount ==
  ASSUME IndInv, ret = "none", NEW n \in Num, Parity(n)
  PROVE  AccountInv'
<1> DEFINE h == HeadOf(n)
<1>0. TypeOK /\ GroupInv /\ GrowInv /\ WholeInv /\ TrackInv /\ ErrInv
      /\ h \in Heads /\ pc[n] = "grouped" /\ n \in Shards(h)
  BY HeadsAreNat DEF IndInv, OrderInv, AccountInv, Parity, Shards
<1>1. UNCHANGED <<lines, malformed, got, growing, series, broken, ret>>
  BY DEF Parity
<1>2. \/ /\ pc' = [pc EXCEPT ![n] = "joined"] /\ errs' = errs
      \/ /\ pc' = [pc EXCEPT ![n] = "closed"] /\ errs' = errs \cup {n} /\ ~Joinable(h)
  BY DEF Parity, To
<1>3. /\ pc'[n] \in {"joined", "closed"}
      /\ \A m \in Num : m # n => pc'[m] = pc[m]
  BY <1>0, <1>2 DEF TypeOK
<1>4. \A x \in Heads : \A m \in Shards(x) : m \in Num /\ HeadOf(m) = x
  BY DEF Shards
<1>5. \A m \in Num : pc'[m] \in Early <=> pc[m] \in Early
  BY <1>0, <1>3 DEF Early
<1>6. GrowInv'
  BY <1>0, <1>1, <1>4, <1>5 DEF GrowInv
<1>7. WholeInv'
  <2>1. \A m \in Num : /\ pc'[m] # "index" => pc[m] # "index"
                       /\ pc'[m] \in Taken \cup {"writing"} =>
                            pc[m] \in Taken \cup {"writing"}
    BY <1>0, <1>3 DEF Taken
  <2> QED
    BY <2>1, <1>0, <1>1 DEF WholeInv, Blocks
<1>8. TrackInv'
  <2>1. ASSUME NEW m \in Num, pc'[m] = "writing" PROVE Added(HeadOf(m))'
    BY <2>1, <1>0, <1>1, <1>3 DEF TrackInv, Added
  <2>2. ASSUME NEW m \in Num, pc'[m] = "closed"
        PROVE  \/ m \in growing'[HeadOf(m)] \/ Added(HeadOf(m))'
               \/ \E k \in Shards(HeadOf(m)) : pc'[k] \in Taken \/ k \in errs'
    <3>0. HeadOf(m) \in Heads
      BY HeadsAreNat
    <3>1. CASE HeadOf(m) = h
      <4>1. pc'[n] \in Taken \/ n \in errs'
        BY <1>0, <1>2 DEF TypeOK, Taken
      <4> QED
        BY <4>1, <3>1, <1>0
    <3>2. CASE HeadOf(m) # h
      <4>1. pc[m] = "closed"
        BY <2>2, <3>2, <1>3
      <4>2. \/ m \in growing[HeadOf(m)] \/ Added(HeadOf(m))
            \/ \E k \in Shards(HeadOf(m)) : pc[k] \in Taken \/ k \in errs
        BY <4>1, <1>0 DEF TrackInv
      <4>3. \A k \in Shards(HeadOf(m)) : pc'[k] = pc[k]
        BY <3>0, <3>2, <1>3, <1>4
      <4>4. errs \subseteq errs'
        BY <1>2
      <4> QED
        BY <4>2, <4>3, <4>4, <1>1 DEF Added
    <3> QED
      BY <3>1, <3>2
  <2> QED
    BY <2>1, <2>2 DEF TrackInv
<1>9. ErrInv'
  <2>1. CASE errs' = errs
    BY <2>1, <1>0, <1>1, <1>5, ReasonsStay
  <2>2. CASE ~Joinable(h) /\ errs' = errs \cup {n}
    <3>1. h < Blocks
      BY <1>0 DEF WholeInv, Taken
    <3>2. \A m \in Shards(h) : pc'[m] \notin Early
      <4>1. \A m \in Shards(h) : pc[m] \notin Early
        BY <1>0 DEF GroupInv, Early
      <4> QED
        BY <4>1, <1>0, <1>4, <1>5
    <3>3. ~Joinable(h)' /\ Blocks' = Blocks
      BY <2>2, <1>1 DEF Joinable, Blocks
    <3> QED
      BY <3>1, <3>2, <3>3, <2>2, <1>0 DEF ErrInv
  <2> QED
    BY <1>2, <2>1, <2>2
<1> QED
  BY <1>6, <1>7, <1>8, <1>9, <1>1, NotReturned DEF AccountInv

(* An instance takes the slot of join. *)
LEMMA JoinAccount ==
  ASSUME IndInv, ret = "none", NEW n \in Num, Join(n)
  PROVE  AccountInv'
<1>0. TypeOK /\ GrowInv /\ WholeInv /\ TrackInv /\ ErrInv /\ pc[n] = "joined"
  BY DEF IndInv, OrderInv, AccountInv, Join
<1>1. UNCHANGED <<lines, malformed, got, growing, series, broken, errs, ret>>
      /\ pc' = [pc EXCEPT ![n] = "joining"]
  BY DEF Join, To
<1>2. pc'[n] = "joining" /\ \A m \in Num : m # n => pc'[m] = pc[m]
  BY <1>0, <1>1 DEF TypeOK
<1>3. \A m \in Num : /\ pc'[m] \in Early <=> pc[m] \in Early
                     /\ pc'[m] \in Taken <=> pc[m] \in Taken
                     /\ pc'[m] = "writing" <=> pc[m] = "writing"
                     /\ pc'[m] = "closed" <=> pc[m] = "closed"
                     /\ pc'[m] = "index" <=> pc[m] = "index"
  BY <1>0, <1>2 DEF Early, Taken
<1>4. \A x \in Heads : \A m \in Shards(x) : m \in Num
  BY DEF Shards
<1>5. GrowInv'
  BY <1>0, <1>1, <1>3, <1>4 DEF GrowInv
<1>6. WholeInv'
  BY <1>0, <1>1, <1>3 DEF WholeInv, Blocks
<1>7. TrackInv'
  <2>1. \A m \in Num : Shards(HeadOf(m)) \subseteq Num
    BY <1>4, HeadsAreNat
  <2> QED
    BY <2>1, <1>0, <1>1, <1>3 DEF TrackInv, Added
<1>8. ErrInv'
  BY <1>0, <1>1, <1>3, ReasonsStay
<1> QED
  BY <1>5, <1>6, <1>7, <1>8, <1>1, NotReturned DEF AccountInv

(* Sort: the block is in the series, or has left it, and so is all that was. *)
LEMMA SortAdds ==
  ASSUME OrderInv, NEW n \in Num, Sort(n)
  PROVE  /\ Added(HeadOf(n))'
         /\ \A x \in Nat : Added(x) => Added(x)'
         /\ \/ series'.start + Len(series'.values) = series.start + Len(series.values)
            \/ series'.start + Len(series'.values) = HeadOf(n) + 1
<1> DEFINE h  == HeadOf(n)
           a  == series.start
           L  == Len(series.values)
<1>0. TypeOK /\ h \in Nat /\ CanAdd(series, h)
  BY HeadsAreNat, NotLate DEF OrderInv, Sort
<1>1. PICK s \in Series(Heads), vs \in Seq(Heads) :
        /\ Len(s.values) = IF h - a + 1 > L THEN h - a + 1 ELSE L
        /\ \A q \in 1 .. Len(s.values) :
             s.values[q] = IF q = h - a + 1 THEN h
                           ELSE IF q <= L THEN series.values[q] ELSE Nil
        /\ Len(vs) \in 0 .. Len(s.values)
        /\ series'.start = a + Len(vs)
        /\ Len(series'.values) = Len(s.values) - Len(vs)
        /\ \A q \in 1 .. Len(series'.values) :
             series'.values[q] = s.values[q + Len(vs)]
  BY SortTakes
<1> DEFINE k == Len(vs)
           M == Len(s.values)
<1>2. a \in Nat /\ L \in Nat /\ h >= a
  BY <1>0 DEF TypeOK, Series, CanAdd
<1>3. M \in Nat /\ k \in 0 .. M /\ h - a + 1 \in 1 .. M /\ L <= M
  BY <1>0, <1>1, <1>2
<1>4. series'.start = a + k /\ Len(series'.values) = M - k
  BY <1>1
\* What is set in the longer series is set or gone in the shorter one.
<1>5. ASSUME NEW x \in Nat, x < a \/ (x < a + M /\ s.values[x - a + 1] # Nil)
      PROVE  Added(x)'
  <2>1. CASE x < a + k
    BY <2>1, <1>4 DEF Added
  <2>2. CASE x >= a + k
    <3>1. x < a + M /\ s.values[x - a + 1] # Nil
      <4>1. ~(x < a)
        BY <2>2, <1>2, <1>3
      <4> QED
        BY <4>1, <1>5
    <3>2. x - (a + k) + 1 \in 1 .. (M - k) /\ x - (a + k) + 1 + k = x - a + 1
      <4>1. a \in Nat /\ k \in Nat /\ M \in Nat /\ x >= a + k /\ x < a + M
        BY <2>2, <3>1, <1>2, <1>3
      <4> HIDE DEF a, k, M
      <4> QED
        BY <4>1
    <3>3. series'.values[x - (a + k) + 1] = s.values[x - (a + k) + 1 + k]
      BY <3>2, <1>1, <1>4
    <3>4. series'.values[x - series'.start + 1] # Nil
      BY <3>1, <3>2, <3>3, <1>4
    <3>5. x < series'.start + Len(series'.values)
      BY <3>1, <1>2, <1>3, <1>4
    <3> QED
      BY <3>4, <3>5 DEF Added
  <2> QED
    BY <2>1, <2>2, <1>2, <1>3
<1>6. Added(h)'
  <2>1. s.values[h - a + 1] = h /\ h # Nil
    BY <1>0, <1>1, <1>3, HeadsAreNat
  <2>2. h < a + M
    BY <1>0, <1>2, <1>3
  <2> QED
    BY <2>1, <2>2, <1>0, <1>5
<1>7. ASSUME NEW x \in Nat, Added(x) PROVE Added(x)'
  <2>1. CASE x < a
    BY <2>1, <1>5
  <2>2. CASE x >= a
    <3>1. x < a + L /\ series.values[x - a + 1] # Nil /\ x - a + 1 \in 1 .. L
      BY <2>2, <1>7, <1>2 DEF Added
    <3>2. x < a + M /\ x - a + 1 \in 1 .. M /\ x - a + 1 <= L
      BY <3>1, <1>2, <1>3
    <3>3. s.values[x - a + 1] # Nil
      BY <3>1, <3>2, <1>0, <1>1, HeadsAreNat
    <3> QED
      BY <3>2, <3>3, <1>5
  <2> QED
    BY <2>1, <2>2, <1>2
<1>8. a + k + (M - k) = a + L \/ a + k + (M - k) = h + 1
  BY <1>0, <1>1, <1>2, <1>3
<1> QED
  BY <1>4, <1>6, <1>7, <1>8

LEMMA SortAccount ==
  ASSUME IndInv, ret = "none", NEW n \in Num, Sort(n)
  PROVE  AccountInv'
<1>0. TypeOK /\ GrowInv /\ WholeInv /\ TrackInv /\ ErrInv /\ OrderInv
      /\ pc[n] = "joining" /\ HeadOf(n) \in Nat
  BY HeadsAreNat DEF IndInv, OrderInv, AccountInv, Sort
<1>1. UNCHANGED <<lines, malformed, got, growing, broken, errs, ret>>
      /\ pc' = [pc EXCEPT ![n] = "writing"]
  BY DEF Sort, To
<1>2. pc'[n] = "writing" /\ \A m \in Num : m # n => pc'[m] = pc[m]
  BY <1>0, <1>1 DEF TypeOK
<1>3. \A m \in Num : /\ pc'[m] \in Early <=> pc[m] \in Early
                     /\ pc'[m] \in Taken \cup {"writing"} <=>
                          pc[m] \in Taken \cup {"writing"}
                     /\ pc'[m] = "closed" <=> pc[m] = "closed"
                     /\ pc'[m] = "index" <=> pc[m] = "index"
  BY <1>0, <1>2 DEF Early, Taken
<1>4. \A x \in Heads : \A m \in Shards(x) : m \in Num /\ HeadOf(m) = x
  BY DEF Shards
<1>5. GrowInv'
  BY <1>0, <1>1, <1>3, <1>4 DEF GrowInv
<1>6. WholeInv'
  <2>1. HeadOf(n) < Blocks /\ Blocks \in Nat
    BY <1>0, LinesAreNat DEF WholeInv, Taken
  <2>2. series'.start + Len(series'.values) <= Blocks
    BY <2>1, <1>0, SortAdds DEF WholeInv
  <2> QED
    BY <2>2, <1>0, <1>1, <1>3 DEF WholeInv, Blocks
<1>7. TrackInv'
  <2>1. Added(HeadOf(n))' /\ \A m \in Num : Added(HeadOf(m)) => Added(HeadOf(m))'
    BY <1>0, SortAdds, HeadsAreNat
  <2>2. ASSUME NEW m \in Num, pc'[m] = "writing" PROVE Added(HeadOf(m))'
    BY <2>1, <2>2, <1>0, <1>2 DEF TrackInv
  <2>3. ASSUME NEW m \in Num, pc'[m] = "closed"
        PROVE  \/ m \in growing'[HeadOf(m)] \/ Added(HeadOf(m))'
               \/ \E k \in Shards(HeadOf(m)) : pc'[k] \in Taken \/ k \in errs'
    <3>0. HeadOf(m) \in Heads
      BY HeadsAreNat
    <3>1. CASE HeadOf(m) = HeadOf(n)
      BY <3>1, <2>1
    <3>2. CASE HeadOf(m) # HeadOf(n)
      <4>1. \/ m \in growing[HeadOf(m)] \/ Added(HeadOf(m))
            \/ \E k \in Shards(HeadOf(m)) : pc[k] \in Taken \/ k \in errs
        BY <2>3, <1>0, <1>3 DEF TrackInv
      <4>2. \A k \in Shards(HeadOf(m)) : pc'[k] = pc[k]
        BY <3>0, <3>2, <1>2, <1>4
      <4> QED
        BY <4>1, <4>2, <2>1, <1>1
    <3> QED
      BY <3>1, <3>2
  <2> QED
    BY <2>2, <2>3 DEF TrackInv
<1>8. ErrInv'
  BY <1>0, <1>1, <1>3, ReasonsStay
<1> QED
  BY <1>5, <1>6, <1>7, <1>8, <1>1, NotReturned DEF AccountInv

(* Blocks are written, or a write fails; in the end the output is closed. *)
LEMMA WriteAccount ==
  ASSUME IndInv, ret = "none", NEW n \in Num, Write(n) \/ WriteError(n)
  PROVE  AccountInv'
<1>0. TypeOK /\ GrowInv /\ WholeInv /\ TrackInv /\ ErrInv
  BY DEF IndInv, OrderInv, AccountInv
<1>1. UNCHANGED <<lines, malformed, pc, got, growing, series, ret>>
  BY DEF Write, WriteError
<1>2. errs \subseteq errs'
  BY DEF Write, WriteError
<1>3. GrowInv' /\ WholeInv'
  BY <1>0, <1>1 DEF GrowInv, WholeInv, Blocks
<1>4. TrackInv'
  BY <1>0, <1>1, <1>2 DEF TrackInv, Added
<1>5. ErrInv'
  <2>1. CASE Write(n)
    BY <2>1, <1>0, <1>1, ReasonsStay DEF Write
  <2>2. CASE WriteError(n)
    BY <2>2 DEF WriteError, ErrInv
  <2> QED
    BY <2>1, <2>2
<1> QED
  BY <1>3, <1>4, <1>5, <1>1, NotReturned DEF AccountInv

LEMMA CloseAccount ==
  ASSUME IndInv, ret = "none", NEW n \in Num, Close(n)
  PROVE  AccountInv'
<1>0. TypeOK /\ GrowInv /\ WholeInv /\ TrackInv /\ ErrInv /\ pc[n] = "writing"
  BY DEF IndInv, OrderInv, AccountInv, Close
<1>1. UNCHANGED <<lines, malformed, got, growing, series, broken, errs, ret>>
      /\ pc' = [pc EXCEPT ![n] = "closed"]
  BY DEF Close, To
<1>2. pc'[n] = "closed" /\ \A m \in Num : m # n => pc'[m] = pc[m]
  BY <1>0, <1>1 DEF TypeOK
<1>3. \A m \in Num : /\ pc'[m] \in Early <=> pc[m] \in Early
                     /\ pc'[m] \in Taken <=> pc[m] \in Taken
                     /\ pc'[m] = "writing" => pc[m] = "writing"
                     /\ pc'[m] = "index" <=> pc[m] = "index"
  BY <1>0, <1>2 DEF Early, Taken
<1>4. \A x \in Heads : \A m \in Shards(x) : m \in Num
  BY DEF Shards
<1>5. GrowInv'
  BY <1>0, <1>1, <1>3, <1>4 DEF GrowInv
<1>6. WholeInv'
  BY <1>0, <1>1, <1>3 DEF WholeInv, Blocks
<1>7. TrackInv'
  <2>1. \A m \in Num : Shards(HeadOf(m)) \subseteq Num
    BY <1>4, HeadsAreNat
  <2>2. Added(HeadOf(n)) /\ \A m \in Num : Added(HeadOf(m))' <=> Added(HeadOf(m))
    BY <1>0, <1>1 DEF TrackInv, Added
  <2>3. ASSUME NEW m \in Num, pc'[m] = "writing" PROVE Added(HeadOf(m))'
    BY <2>2, <2>3, <1>0, <1>3 DEF TrackInv
  <2>4. ASSUME NEW m \in Num, pc'[m] = "closed"
        PROVE  \/ m \in growing'[HeadOf(m)] \/ Added(HeadOf(m))'
               \/ \E k \in Shards(HeadOf(m)) : pc'[k] \in Taken \/ k \in errs'
    <3>1. CASE m = n
      BY <3>1, <2>2
    <3>2. CASE m # n
      <4>1. \/ m \in growing[HeadOf(m)] \/ Added(HeadOf(m))
            \/ \E k \in Shards(HeadOf(m)) : pc[k] \in Taken \/ k \in errs
        BY <3>2, <2>4, <1>0, <1>2 DEF TrackInv
      <4> QED
        BY <4>1, <2>1, <2>2, <1>1, <1>3
    <3> QED
      BY <3>1, <3>2
  <2> QED
    BY <2>3, <2>4 DEF TrackInv
<1>8. ErrInv'
  BY <1>0, <1>1, <1>3, ReasonsStay
<1> QED
  BY <1>5, <1>6, <1>7, <1>8, <1>1, NotReturned DEF AccountInv

(* The end of the index, and what procs.Process returns. *)
LEMMA MainAccount ==
  ASSUME IndInv, ret = "none", Main
  PROVE  AccountInv'
<1>0. TypeOK /\ GrowInv /\ WholeInv /\ TrackInv /\ ErrInv
  BY DEF IndInv, OrderInv, AccountInv
<1>1. UNCHANGED <<lines, malformed, pc, got, growing, series, broken>> /\ errs \subseteq errs'
  BY DEF Main, IndexError, ReceiveError, Finish
<1>2. GrowInv' /\ WholeInv'
  BY <1>0, <1>1 DEF GrowInv, WholeInv, Blocks
<1>3. TrackInv'
  BY <1>0, <1>1 DEF TrackInv, Added
<1>4. CASE IndexError
  <2>1. ErrInv'
    BY <1>4, <1>1 DEF IndexError, ErrInv
  <2>2. UNCHANGED ret
    BY <1>4 DEF IndexError
  <2> QED
    BY <2>1, <2>2, <1>2, <1>3, NotReturned DEF AccountInv
<1>5. CASE ReceiveError \/ Finish
  <2>1. UNCHANGED <<errs, inner, outer, joining>>
    BY <1>5 DEF ReceiveError, Finish
  <2>2. ErrInv'
    BY <2>1, <1>0, <1>1, ReasonsStay
  <2>3. RetInv'
    <3>1. CASE ReceiveError
      BY <3>1 DEF ReceiveError, RetInv
    <3>2. CASE Finish
      <4>1. Drained /\ Drained' /\ Short' = Short
        BY <3>2, <2>1, <1>1 DEF Finish, Drained, Short, Line
      <4>2. ret' \in {"nil", "short", "unreturned"}
            /\ (ret' = "nil" => ~Short) /\ (ret' = "short" => Short)
        BY <3>2 DEF Finish, FinishErrors
      <4> QED
        BY <4>1, <4>2 DEF RetInv
    <3> QED
      BY <3>1, <3>2, <1>5
  <2> QED
    BY <2>2, <2>3, <1>2, <1>3 DEF AccountInv
<1> QED
  BY <1>4, <1>5 DEF Main

(***************************************************************************)
(* What the invariant says of a restore that has met no error.             *)
(***************************************************************************)
LEMMA AtEnd ==
  ASSUME IndInv, Drained
  PROVE  /\ ~broken /\ ~malformed /\ Len(written) = Blocks
         /\ SeriesLen(series) = 0
         /\ lines % NShards = 0 <=> \A h \in Heads : growing[h] = {}
<1>0. /\ TypeOK /\ GroupInv /\ SeriesInv /\ WriteInv
      /\ GrowInv /\ WholeInv /\ TrackInv /\ ErrInv
      /\ ~malformed /\ errs = {}
  BY DEF IndInv, OrderInv, AccountInv, Drained
<1>1. ~broken
  BY <1>0 DEF ErrInv
<1>2. \A n \in Num : pc[n] = IF n < lines THEN "closed" ELSE "index"
  <2> SUFFICES ASSUME NEW n \in Num PROVE pc[n] = IF n < lines THEN "closed" ELSE "index"
    OBVIOUS
  <2>1. n < lines => n \in Line
    BY <1>0, LinesAreNat DEF Num, Line
  <2> QED
    BY <2>1, <1>0 DEF Drained, WholeInv
<1>3. /\ lines \in Nat /\ lines <= MaxLines /\ Blocks \in Nat
      /\ series.start \in Nat /\ Len(series.values) \in Nat
  BY <1>0, LinesAreNat DEF TypeOK, Series
<1>4. \A n \in Num : pc[n] \notin Taken /\ pc[n] # "writing"
  BY <1>2 DEF Taken
<1>5. \A x \in Heads : \A m \in Shards(x) : m \in Num /\ HeadOf(m) = x
  BY DEF Shards
<1>6. ASSUME NEW n \in Num, n < lines
      PROVE  n \in growing[HeadOf(n)] \/ Added(HeadOf(n))
  <2>1. pc[n] = "closed" /\ Shards(HeadOf(n)) \subseteq Num
    BY <1>2, <1>6, <1>5, HeadsAreNat
  <2> QED
    BY <2>1, <1>0, <1>4 DEF TrackInv
\* A group that is whole in the index does not grow any more: its other
\* shards would have to come.
<1>7. ASSUME NEW h \in Nat, h < Blocks PROVE growing[h] = {} /\ Added(h)
  <2>1. /\ h \in Heads /\ Cardinality(Shards(h)) = NShards
        /\ \A n \in Shards(h) : n \in Num /\ n < lines
    BY <1>7, <1>0, WholeGroups
  <2>2. \A n \in Shards(h) : pc[n] \notin Early
    BY <2>1, <1>2 DEF Early
  <2>3. growing[h] \subseteq Shards(h)
    BY <2>1, <1>0 DEF GroupInv, TypeOK, Shards
  <2>4. growing[h] = {}
    <3> SUFFICES ASSUME growing[h] # {} PROVE FALSE
      OBVIOUS
    <3>1. Cardinality(growing[h]) < NShards /\ Shards(h) \ growing[h] = {}
      BY <2>1, <2>2, <1>0 DEF GrowInv
    <3>2. growing[h] = Shards(h)
      BY <3>1, <2>3
    <3> QED
      BY <3>1, <3>2, <2>1
  <2>5. PICK n : n \in Shards(h)
    BY <2>1, FS_EmptySet
  <2> QED
    BY <2>1, <2>4, <2>5, <1>5, <1>6
<1>8. series.start = Blocks /\ Len(series.values) = 0
  <2>1. series.start + Len(series.values) <= Blocks
    BY <1>0 DEF WholeInv
  <2>2. CASE series.start < Blocks
    <3>1. Added(series.start)
      BY <2>2, <1>3, <1>7
    <3>2. 0 < Len(series.values) /\ series.values[1] # Nil
      BY <3>1, <1>3 DEF Added
    <3> QED
      BY <3>2, <1>0 DEF SeriesInv
  <2> QED
    BY <2>1, <2>2, <1>3
<1>9. Len(written) = Blocks
  BY <1>0, <1>1, <1>4, <1>8 DEF WriteInv
<1>10. ASSUME lines % NShards = 0, NEW h \in Heads PROVE growing[h] = {}
  <2> SUFFICES ASSUME NEW n \in growing[h] PROVE FALSE
    OBVIOUS
  <2>1. n \in Num /\ HeadOf(n) = h /\ pc[n] = "closed"
    BY <1>0 DEF GroupInv, TypeOK
  <2>2. h < Blocks /\ h \in Nat
    BY <2>1, <1>0, <1>2, <1>10, NoCutGroup, HeadsAreNat
  <2> QED
    BY <2>2, <1>7
<1>11. ASSUME lines % NShards # 0 PROVE \E h \in Heads : growing[h] # {}
  <2>1. lines - 1 \in Num /\ HeadOf(lines - 1) = Blocks /\ lines - 1 < lines
    BY <1>11, <1>0, <1>3, CutGroup
  <2>2. ~Added(Blocks)
    BY <1>3, <1>8 DEF Added
  <2>3. lines - 1 \in growing[Blocks] /\ Blocks \in Heads
    BY <2>1, <2>2, <1>6, HeadsAreNat
  <2> QED
    BY <2>3
<1> QED
  BY <1>0, <1>1, <1>8, <1>9, <1>10, <1>11 DEF SeriesLen

LEMMA EndIsWhole == IndInv => NoErrorMeansWhole
<1> SUFFICES ASSUME IndInv, ret \in {"nil", "short", "unreturned"}
             PROVE  /\ ~broken /\ ~malformed /\ Len(written) = Blocks
                    /\ ret = "nil" => lines % NShards = 0
  BY DEF NoErrorMeansWhole
<1>1. Drained /\ (ret = "nil" => ~Short)
  BY DEF IndInv, AccountInv, RetInv
<1> QED
  BY <1>1, AtEnd DEF Short

LEMMA ErrorHasReason == IndInv => ErrorJustified
<1> SUFFICES ASSUME IndInv PROVE ErrorJustified
  OBVIOUS
<1>0. TypeOK /\ ErrInv /\ RetInv
  BY DEF IndInv, OrderInv, AccountInv
<1>1. ASSUME ret = "error"
      PROVE  \/ broken \/ malformed
             \/ \E h \in Heads : Shards(h) \subseteq Line /\ ~Joinable(h)
  <2>1. \/ broken \/ malformed
        \/ \E h \in Heads : h < Blocks /\ ~Joinable(h)
    BY <1>0, <1>1 DEF RetInv, ErrInv
  <2>2. ASSUME NEW h \in Heads, h < Blocks PROVE Shards(h) \subseteq Line
    <3>1. h \in Nat /\ \A n \in Shards(h) : n \in Num /\ n < lines
      BY <2>2, <1>0, WholeGroups, HeadsAreNat
    <3> QED
      BY <3>1, <1>0, LinesAreNat DEF Num, Line
  <2> QED
    BY <2>1, <2>2
<1>2. ASSUME ret = "short" PROVE lines % NShards # 0
  <2>1. Drained /\ Short
    BY <1>0, <1>2 DEF RetInv
  <2> QED
    BY <2>1, AtEnd DEF Short, SeriesLen
<1> QED
  BY <1>1, <1>2 DEF ErrorJustified

(***************************************************************************)
(* The slots, and what is there to write.                                  *)
(***************************************************************************)

LEMMA InitSlots == Init => SlotInv /\ PendingInv
<1> SUFFICES ASSUME Init PROVE SlotInv /\ PendingInv
  OBVIOUS
<1>1. \A n \in Num : Len(pending[n]) = 0
  BY DEF Init
<1>2. outer = {} /\ inner = {} /\ joining = {}
  BY DEF Init
<1> QED
  BY <1>1, <1>2 DEF SlotInv, PendingInv

\* An instance takes a slot when it gets to the stage, and gives it back later.
LEMMA SlotStep ==
  ASSUME TypeOK, SlotInv, NEW n \in Num, Step(n)
  PROVE  SlotInv'
<1>1. pc \in [Num -> Stages] /\ outer \subseteq Num /\ inner \subseteq Num /\ joining \subseteq Num
  BY DEF TypeOK
<1>2. \/ /\ pc[n] = "index" /\ To(n, "started") /\ outer' = outer \cup {n}
         /\ UNCHANGED <<inner, joining>>
      \/ /\ pc[n] = "started" /\ To(n, "reading") /\ inner' = inner \cup {n}
         /\ UNCHANGED <<outer, joining>>
      \/ /\ pc[n] = "joined" /\ To(n, "joining") /\ joining' = {n}
         /\ UNCHANGED <<outer, inner>>
      \/ /\ pc[n] \in {"reading", "read", "grouped"}
         /\ To(n, "read") \/ To(n, "grouped") \/ To(n, "joined") \/ To(n, "closed")
         /\ UNCHANGED <<outer, inner, joining>>
      \/ /\ pc[n] \in {"joining", "writing"}
         /\ To(n, "writing") \/ To(n, "closed")
         /\ UNCHANGED <<outer, inner, joining>>
      \/ /\ UNCHANGED pc
         /\ outer' \subseteq outer /\ inner' \subseteq inner /\ joining' \subseteq joining
  <2>1. CASE Start(n)
    BY <2>1 DEF Start
  <2>2. CASE Fetch(n)
    BY <2>2 DEF Fetch
  <2>3. CASE Read(n)
    BY <2>3 DEF Read
  <2>4. CASE Group(n)
    BY <2>4 DEF Group
  <2>5. CASE Parity(n)
    BY <2>5 DEF Parity
  <2>6. CASE Join(n)
    BY <2>6 DEF Join
  <2>7. CASE Sort(n)
    BY <2>7 DEF Sort
  <2>8. CASE Write(n) \/ WriteError(n)
    BY <2>8 DEF Write, WriteError
  <2>9. CASE Close(n)
    BY <2>9 DEF Close
  <2>10. CASE ReleaseInner(n) \/ ReleaseJoin(n) \/ ReleaseOuter(n)
    BY <2>10 DEF ReleaseInner, ReleaseJoin, ReleaseOuter
  <2> QED
    BY <2>1, <2>2, <2>3, <2>4, <2>5, <2>6, <2>7, <2>8, <2>9, <2>10 DEF Step
<1> QED
  BY <1>1, <1>2 DEF SlotInv, To

\* Sort takes consecutive blocks off the series, Write the first one of them.
LEMMA PendingStep ==
  ASSUME OrderInv, PendingInv, NEW n \in Num, Step(n)
  PROVE  PendingInv'
<1>1. /\ pending \in [Num -> Seq(Heads)] /\ series \in Series(Heads)
      /\ series.start \in Nat /\ Len(series.values) \in Nat
  BY DEF OrderInv, TypeOK, Series
<1>2. CASE UNCHANGED <<pending, series>>
  BY <1>2 DEF PendingInv
<1>3. CASE Sort(n)
  <2> DEFINE h == HeadOf(n)
             a == series.start
             L == Len(series.values)
  <2>1. PICK s \in Series(Heads), vs \in Seq(Heads) :
          /\ s.start = a
          /\ Len(s.values) = IF h - a + 1 > L THEN h - a + 1 ELSE L
          /\ \A q \in 1 .. Len(s.values) :
               s.values[q] = IF q = h - a + 1 THEN h
                             ELSE IF q <= L THEN series.values[q] ELSE Nil
          /\ Len(vs) \in 0 .. Len(s.values)
          /\ \A i \in 1 .. Len(vs) : vs[i] = s.values[i] /\ vs[i] # Nil
          /\ Len(vs) < Len(s.values) => s.values[Len(vs) + 1] = Nil
          /\ pending' = [pending EXCEPT ![n] = vs]
          /\ series' \in Series(Heads) /\ series'.start = a + Len(vs)
          /\ Len(series'.values) = Len(s.values) - Len(vs)
          /\ \A q \in 1 .. Len(series'.values) :
               series'.values[q] = s.values[q + Len(vs)]
    BY <1>3, SortTakes
  <2>2. h \in Nat /\ Len(s.values) \in Nat /\ Len(vs) \in Nat
    BY <1>1, <2>1, HeadsAreNat
  <2>3. ASSUME NEW i \in 1 .. Len(vs) PROVE vs[i] = a + i - 1
    <3>1. i \in 1 .. Len(s.values) /\ vs[i] = s.values[i] /\ vs[i] # Nil
      BY <2>1, <2>2
    <3>5. s.values[i] = IF i = h - a + 1 THEN h
                        ELSE IF i <= L THEN series.values[i] ELSE Nil
      BY <2>1, <3>1
    <3>6. a \in Nat /\ h \in Nat /\ i \in Nat
      BY <1>1, <2>2
    <3> HIDE DEF a, h
    <3>2. CASE i = h - a + 1
      BY <3>1, <3>2, <3>5, <3>6
    <3>3. CASE i # h - a + 1 /\ i <= L
      <4>1. series.values[i] \in {Nil, a + i - 1}
        BY <1>1, <3>1, <3>3 DEF OrderInv, SeriesInv, a
      <4> QED
        BY <3>1, <3>3, <3>5, <4>1
    <3>4. CASE i # h - a + 1 /\ ~(i <= L)
      BY <3>1, <3>4, <3>5
    <3> QED
      BY <3>2, <3>3, <3>4
  <2>4. pc[n] = "joining"
    BY <1>3 DEF Sort
  <2>5. ASSUME NEW m \in Num, m # n PROVE pending[m] = <<>>
    BY <2>4, <2>5 DEF OrderInv, JoinInv
  <2>6. pending'[n] = vs /\ \A m \in Num \ {n} : Len(pending'[m]) = 0
    BY <1>1, <2>1, <2>5
  <2>7. \A i \in 1 .. Len(vs) : vs[i] = series'.start - Len(vs) + i - 1
    BY <1>1, <2>1, <2>2, <2>3
  <2> QED
    BY <2>6, <2>7 DEF PendingInv
<1>4. CASE Write(n) \/ WriteError(n)
  <2>1. pending[n] # <<>> /\ pending' = [pending EXCEPT ![n] = Tail(@)] /\ series' = series
    BY <1>4 DEF Write, WriteError
  <2>2. pending[n] \in Seq(Heads) /\ pending'[n] = Tail(pending[n])
    BY <1>1, <2>1
  <2>3. Len(pending'[n]) = Len(pending[n]) - 1 /\ Len(pending[n]) \in Nat /\ Len(pending[n]) > 0
    <3>1. \A q \in Seq(Heads) : q # <<>> =>
            Len(Tail(q)) = Len(q) - 1 /\ Len(q) \in Nat /\ Len(q) > 0
      OBVIOUS
    <3> QED
      BY <2>1, <2>2, <3>1, Zenon
  <2>4. \A i \in 1 .. Len(pending'[n]) : /\ pending'[n][i] = pending[n][i + 1]
                                         /\ i + 1 \in 1 .. Len(pending[n])
    BY <2>2, <2>3
  <2>5. \A i \in 1 .. Len(pending'[n]) :
          pending'[n][i] = series'.start - Len(pending'[n]) + i - 1
    <3> SUFFICES ASSUME NEW i \in 1 .. Len(pending'[n])
                 PROVE  pending'[n][i] = series'.start - Len(pending'[n]) + i - 1
      OBVIOUS
    <3>1. pending[n][i + 1] = series.start - Len(pending[n]) + (i + 1) - 1
      BY <2>4 DEF PendingInv
    <3> QED
      BY <1>1, <2>1, <2>3, <2>4, <3>1
  <2>6. \A m \in Num \ {n} : pending'[m] = pending[m]
    BY <1>1, <2>1
  <2> QED
    BY <2>1, <2>5, <2>6 DEF PendingInv
<1>5. ~(Sort(n) \/ Write(n) \/ WriteError(n)) => UNCHANGED <<pending, series>>
  BY DEF Step, Start, Fetch, Read, Group, Parity, Join, Close, ReleaseInner, ReleaseJoin,
         ReleaseOuter
<1> QED
  BY <1>2, <1>3, <1>4, <1>5

\* What procs.Process does leaves them alone.
LEMMA MainSlots ==
  ASSUME SlotInv, PendingInv, Main \/ UNCHANGED vars
  PROVE  SlotInv' /\ PendingInv'
<1>1. UNCHANGED <<pc, outer, inner, joining, pending, series>>
  BY DEF Main, IndexError, ReceiveError, Finish, vars
<1> QED
  BY <1>1 DEF SlotInv, PendingInv

(***************************************************************************)
(* The theorems.                                                           *)
(***************************************************************************)
(* The invariant of Restore: each block comes to the series of join once,  *)
(* and what has left the series is written, or about to be, in order; and no *)
(* shard is lost track of between the procs.                                 *)
THEOREM Invariance == Spec => []IndInv
<1>1. Init => IndInv
  BY InitInv, InitAccount, InitSlots DEF IndInv
<1>2. ASSUME IndInv, [Next]_vars PROVE IndInv'
  <2>0. OrderInv
    BY <1>2 DEF IndInv
  <2>1. \/ ret = "none" /\ \E n \in Num : Step(n)
        \/ ret = "none" /\ Main
        \/ UNCHANGED vars
    BY <1>2 DEF Next, Idle
  <2>2. ASSUME ret = "none", NEW n \in Num, Step(n) PROVE IndInv'
    <3>1. OrderInv'
      BY <2>0, <2>2, PlainSteps, GroupStep, ParityStep, JoinStep, SortStep,
         WriteSteps, CloseStep, ReleaseJoinStep DEF Step
    <3>2. AccountInv'
      BY <1>2, <2>2, PlainAccount, GroupAccount, ParityAccount, JoinAccount,
         SortAccount, WriteAccount, CloseAccount DEF Step
    <3>3. SlotInv' /\ PendingInv'
      BY <1>2, <2>0, <2>2, SlotStep, PendingStep DEF IndInv, OrderInv
    <3> QED
      BY <3>1, <3>2, <3>3 DEF IndInv
  <2>3. CASE ret = "none" /\ Main
    BY <2>0, <2>3, <1>2, MainSteps, MainAccount, MainSlots DEF IndInv
  <2>4. CASE UNCHANGED vars
    <3>1. OrderInv'
      BY <2>0, <2>4, MainSteps
    <3>2. GrowInv' /\ WholeInv'
      BY <2>4, <1>2 DEF IndInv, AccountInv, GrowInv, WholeInv, Blocks, vars
    <3>3. TrackInv'
      BY <2>4, <1>2 DEF IndInv, AccountInv, TrackInv, Added, vars
    <3>4. ErrInv'
      BY <2>0, <2>4, <1>2, ReasonsStay DEF IndInv, OrderInv, AccountInv, vars
    <3>5. RetInv'
      BY <2>4, <1>2 DEF IndInv, AccountInv, RetInv, Drained, Short, Line, vars
    <3>6. SlotInv' /\ PendingInv'
      BY <2>4, <1>2, MainSlots DEF IndInv
    <3> QED
      BY <3>1, <3>2, <3>3, <3>4, <3>5, <3>6 DEF IndInv, AccountInv
  <2> QED
    BY <2>1, <2>2, <2>3, <2>4
<1> QED
  BY <1>1, <1>2, PTL DEF Spec

(* Type correctness of the model of procs.Chain in a restore. *)
THEOREM TypeCorrect == Spec => []TypeOK
<1>1. IndInv => TypeOK
  BY DEF IndInv, OrderInv
<1> QED
  BY <1>1, Invariance, PTL

(* Join: as long as no write fails the output is the beginning of the seed,  *)
(* in whatever order shards are read and groups completed.                   *)
THEOREM OrderKept == Spec => []OutputInOrder
<1>1. IndInv => OutputInOrder
  BY DEF IndInv, OrderInv, WriteInv, OutputInOrder
<1> QED
  BY <1>1, Invariance, PTL

(* Series.Add, called by Sort.Process, never panics. *)
THEOREM NoPanic == Spec => []SortNeverPanics
<1>1. IndInv => SortNeverPanics
  BY NotLate DEF IndInv, SortNeverPanics
<1> QED
  BY <1>1, Invariance, PTL

(* procs.Process: without an error of a proc all blocks of whole groups are  *)
(* written, and Finish tells an index that is cut in a group.                *)
THEOREM EndsWhole == Spec => []NoErrorMeansWhole
BY Invariance, EndIsWhole, PTL

(* A restore fails only for what redundancy does not cover. *)
THEOREM FailsForAReason == Spec => []ErrorJustified
BY Invariance, ErrorHasReason, PTL

(* A restore implements OrderedOutput: it writes the next block of the seed,  *)
(* does something that shows only after a failed write, or ends.              *)
THEOREM Refines == Spec => ImplementsOrderedOutput
<1>1. Init => Promise!OutInit
  <2> SUFFICES ASSUME Init PROVE Promise!OutInit
    OBVIOUS
  <2>1. Blocks \in Nat
    BY InitInv, LinesAreNat DEF OrderInv
  <2>2. broken = FALSE /\ written = <<>> /\ ret = "none"
    BY DEF Init
  <2> QED
    BY <2>1, <2>2 DEF Promise!OutInit
<1>2. ASSUME IndInv, IndInv', [Next]_vars
      PROVE  [Promise!WriteNext \/ Promise!Spoil \/ Promise!End]_(Promise!outVars)
  <2>0. TypeOK /\ WriteInv /\ WholeInv
    BY <1>2 DEF IndInv, OrderInv, AccountInv
  <2>1. Blocks' = Blocks
    BY <1>2 DEF Next, Step, Main, Start, Fetch, Read, Group, Parity, Join, Sort,
       Write, WriteError, Close, ReleaseInner, ReleaseJoin, ReleaseOuter,
       IndexError, ReceiveError, Finish, Idle, vars, Blocks
  <2>2. ASSUME NEW n \in Num, Write(n)
        PROVE  Promise!WriteNext \/ Promise!Spoil
    <3>1. /\ UNCHANGED <<ret, broken>> /\ pc[n] = "writing" /\ pending[n] # <<>>
          /\ written' = Append(written, Head(pending[n]))
      BY <2>2 DEF Write
    <3>2. CASE broken
      BY <3>1, <3>2, <2>1 DEF Promise!Spoil
    <3>3. CASE ~broken
      <4>1. /\ Len(written) + Len(pending[n]) = series.start
            /\ \A i \in 1 .. Len(pending[n]) : pending[n][i] = Len(written) + i - 1
        BY <3>1, <3>3, <2>0 DEF WriteInv
      <4>2. /\ pending[n] \in Seq(Heads) /\ Len(written) \in Nat
            /\ series.start \in Nat /\ Len(series.values) \in Nat
            /\ series.start + Len(series.values) <= Blocks /\ Blocks \in Nat
        BY <2>0, LinesAreNat DEF TypeOK, Series, WholeInv
      <4>3. /\ Len(pending[n]) \in Nat /\ 1 \in 1 .. Len(pending[n])
            /\ Head(pending[n]) = pending[n][1]
        BY <3>1, <4>2
      <4>4. Head(pending[n]) = Len(written)
        BY <4>1, <4>2, <4>3
      <4>5. Len(written) < Blocks
        BY <4>1, <4>2, <4>3
      <4> QED
        BY <4>4, <4>5, <3>1, <3>3, <2>1 DEF Promise!WriteNext
    <3> QED
      BY <3>2, <3>3
  <2>3. ASSUME NEW n \in Num, WriteError(n) PROVE Promise!Spoil
    <3>1. broken' = TRUE /\ UNCHANGED ret
      BY <2>3 DEF WriteError
    <3> QED
      BY <3>1, <2>1 DEF Promise!Spoil
  <2>4. ASSUME ReceiveError PROVE Promise!End
    <3>1. ret = "none" /\ ret' = "error" /\ UNCHANGED <<written, broken>>
      BY <2>4 DEF ReceiveError
    <3> QED
      BY <3>1, <2>1 DEF Promise!End
  <2>5. ASSUME Finish PROVE Promise!End
    <3>1. /\ ret = "none" /\ ret' \in {"nil", "short", "unreturned"}
          /\ UNCHANGED <<written, broken>> /\ Drained
      BY <2>5 DEF Finish, FinishErrors
    <3>2. ~broken /\ Len(written) = Blocks
      BY <3>1, <1>2, AtEnd
    <3> QED
      BY <3>1, <3>2, <2>1 DEF Promise!End
  <2>6. CASE UNCHANGED <<written, broken, ret>>
    BY <2>6, <2>1 DEF Promise!outVars
  <2>7. \/ \E n \in Num : Write(n) \/ WriteError(n)
        \/ ReceiveError \/ Finish \/ UNCHANGED <<written, broken, ret>>
    BY <1>2 DEF Next, Step, Main, Start, Fetch, Read, Group, Parity, Join, Sort,
       Close, ReleaseInner, ReleaseJoin, ReleaseOuter, IndexError, Idle, vars
  <2> QED
    BY <2>2, <2>3, <2>4, <2>5, <2>6, <2>7
<1> QED
  BY <1>1, <1>2, Invariance, PTL DEF Spec, ImplementsOrderedOutput, Promise!OutSpec

(***************************************************************************)
(* A restore ends: there is always a step to take, until it has returned,  *)
(* and only so many of them.                                               *)
(***************************************************************************)

LEMMA SomeoneMoves ==
  ASSUME IndInv, ret = "none", errs = {}, ~Drained,
         ~(malformed /\ lines \notin errs /\ \A n \in Line : pc[n] # "index")
  PROVE  \E n \in Num : CanMove(n)
<1> SUFFICES ASSUME \A n \in Num : ~CanMove(n) PROVE FALSE
  OBVIOUS
<1>1. /\ pc \in [Num -> Stages] /\ lines \in Nat /\ lines <= MaxLines
      /\ outer \subseteq Num /\ inner \subseteq Num /\ joining \subseteq Num /\ SlotInv
  BY LinesAreNat DEF IndInv, OrderInv, TypeOK
<1>2. Cardinality({}) = 0
  BY FS_EmptySet
\* Nobody is busy, so the inner slots and join's are free, and nobody waits for them.
<1>3. \A n \in Num : pc[n] \notin {"reading", "read", "grouped", "joining", "writing"}
  BY DEF CanMove
<1>4. inner = {}
  BY <1>1, <1>3 DEF CanMove
<1>5. \A n \in Num : pc[n] # "started"
  <2>1. Cardinality(inner) < Inner
    <3>1. Cardinality(inner) = 0
      BY <1>2, <1>4, Zenon
    <3> QED
      BY <3>1
  <2> QED
    BY <2>1 DEF CanMove
<1>6. joining = {}
  BY <1>1, <1>3 DEF CanMove, SlotInv
<1>7. \A n \in Num : pc[n] # "joined"
  BY <1>6 DEF CanMove
\* What is left holds no slot of the outer backlog.
<1>8. \A n \in Num : pc[n] \in {"index", "closed"}
  BY <1>1, <1>3, <1>5, <1>7 DEF Stages
<1>9. outer = {}
  BY <1>1, <1>8 DEF CanMove, SlotInv
\* The first line not started can be, and if there is none the run is at its end.
<1>10. \A n \in Line : n \in Num /\ n \in Nat /\ n < lines
  BY <1>1 DEF Line, Num
<1>11. CASE \E n \in Line : pc[n] = "index"
  <2> DEFINE T == {n \in Line : pc[n] = "index"}
  <2>1. T \in SUBSET Nat /\ T # {}
    BY <1>10, <1>11
  <2>2. PICK n \in T : \A m \in T : n <= m
    BY <2>1, LeastNat
  <2>3. n \in Line /\ pc[n] = "index" /\ n \in Num /\ n \in Nat /\ n < lines
    BY <1>10, <2>2
  <2>4. ASSUME NEW m \in 0 .. n - 1 PROVE pc[m] # "index"
    <3>1. m \in Line /\ ~(n <= m)
      BY <1>1, <2>3 DEF Line
    <3> QED
      BY <2>2, <3>1
  <2>5. Cardinality(outer) < Outer
    <3>1. Cardinality(outer) = 0
      BY <1>2, <1>9, Zenon
    <3> QED
      BY <3>1
  <2> QED
    BY <2>3, <2>4, <2>5 DEF CanMove
<1>12. CASE \A n \in Line : pc[n] # "index"
  <2>1. \A n \in Line : pc[n] = "closed"
    BY <1>8, <1>10, <1>12
  <2>2. malformed
    BY <2>1 DEF Drained
  <2> QED
    BY <1>12, <2>2
<1> QED
  BY <1>11, <1>12

LEMMA MovesOrReturns == IndInv => NeverStuck
<1> SUFFICES ASSUME IndInv, ret = "none", ~MainCanMove PROVE \E n \in Num : CanMove(n)
  BY DEF NeverStuck
<1> QED
  BY SomeoneMoves DEF MainCanMove

\* How far each stage is.
LEMMA Ranks == /\ DOMAIN Rank = Stages /\ \A s \in Stages : Rank[s] \in 0 .. 8
               /\ Rank["index"] = 0 /\ Rank["started"] = 1 /\ Rank["reading"] = 2
               /\ Rank["read"] = 3 /\ Rank["grouped"] = 4 /\ Rank["joined"] = 5
               /\ Rank["joining"] = 6 /\ Rank["writing"] = 7 /\ Rank["closed"] = 8
BY DEF Rank, Stages

\* An instance that gets further has a stage less to go.
LEMMA StageLess ==
  ASSUME TypeOK, NEW n \in Num, NEW s \in Stages, To(n, s), Rank[s] > Rank[pc[n]]
  PROVE  StagesLeft' \subseteq StagesLeft /\ StagesLeft' # StagesLeft
<1>1. /\ pc' \in [Num -> Stages] /\ pc'[n] = s /\ \A m \in Num \ {n} : pc'[m] = pc[m]
      /\ pc[n] \in Stages
  BY DEF TypeOK, To
<1>2. Rank[s] \in 0 .. 8 /\ Rank[pc[n]] \in 0 .. 8
  BY <1>1, Ranks
<1>3. StagesLeft' \subseteq StagesLeft
  <2> SUFFICES ASSUME NEW m \in Num, NEW k \in 1 .. 8, k > Rank[pc'[m]]
               PROVE  k > Rank[pc[m]]
    BY DEF StagesLeft
  <2>1. CASE m = n
    BY <1>1, <1>2, <2>1
  <2>2. CASE m # n
    BY <1>1, <2>2
  <2> QED
    BY <2>1, <2>2
<1>4. <<n, Rank[s]>> \in StagesLeft
  BY <1>2 DEF StagesLeft
<1>5. <<n, Rank[s]>> \notin StagesLeft'
  BY <1>1, <1>2 DEF StagesLeft
<1> QED
  BY <1>3, <1>4, <1>5

\* It is enough to have less of one thing and no more of the others.
LEMMA LessLeft ==
  ASSUME StagesLeft' \subseteq StagesLeft, OuterLeft' \subseteq OuterLeft,
         InnerLeft' \subseteq InnerLeft, JoiningLeft' \subseteq JoiningLeft,
         BlocksLeft' \subseteq BlocksLeft, ReturnsLeft' \subseteq ReturnsLeft,
         \/ StagesLeft' # StagesLeft \/ OuterLeft' # OuterLeft \/ InnerLeft' # InnerLeft
         \/ JoiningLeft' # JoiningLeft \/ BlocksLeft' # BlocksLeft
         \/ ReturnsLeft' # ReturnsLeft
  PROVE  Shrinks
<1>1. \A k \in 1 .. 6 : k = 1 \/ k = 2 \/ k = 3 \/ k = 4 \/ k = 5 \/ k = 6
  OBVIOUS
<1> QED
  BY <1>1 DEF Shrinks, Left

LEMMA SameReturns ==
  ASSUME UNCHANGED <<lines, malformed, ret>>, errs \subseteq errs'
  PROVE  ReturnsLeft' \subseteq ReturnsLeft
BY DEF ReturnsLeft

LEMMA SameBlocks ==
  ASSUME UNCHANGED <<series, pending>>
  PROVE  BlocksLeft' = BlocksLeft
BY DEF BlocksLeft

\* A step to a later stage, with the slot taken on there.
LEMMA LaterStage ==
  ASSUME TypeOK, NEW n \in Num, NEW s \in Stages, To(n, s), Rank[s] > Rank[pc[n]],
         outer' \subseteq outer \cup (IF pc[n] = "index" THEN {n} ELSE {}),
         inner' \subseteq inner \cup (IF pc[n] = "started" THEN {n} ELSE {}),
         joining' \subseteq joining \cup (IF pc[n] = "joined" THEN {n} ELSE {}),
         BlocksLeft' \subseteq BlocksLeft,
         UNCHANGED <<lines, malformed, ret>>, errs \subseteq errs'
  PROVE  Shrinks
<1>1. /\ pc' \in [Num -> Stages] /\ pc'[n] = s /\ \A m \in Num \ {n} : pc'[m] = pc[m]
      /\ pc[n] \in Stages
  BY DEF TypeOK, To
<1>2. /\ s # "index"
      /\ s = "started" => pc[n] = "index"
      /\ s \in Early \cup {"grouped", "joined"} => pc[n] \in Early \cup {"grouped", "joined"}
  BY <1>1, Ranks DEF Early, Stages
<1>3. OuterLeft' \subseteq OuterLeft
  BY <1>1, <1>2 DEF OuterLeft
<1>4. InnerLeft' \subseteq InnerLeft
  BY <1>1, <1>2 DEF InnerLeft
<1>5. JoiningLeft' \subseteq JoiningLeft
  BY <1>1, <1>2 DEF JoiningLeft
<1>6. ReturnsLeft' \subseteq ReturnsLeft
  BY SameReturns
<1> QED
  BY <1>3, <1>4, <1>5, <1>6, StageLess, LessLeft

LEMMA StageShrinks ==
  ASSUME TypeOK, NEW n \in Num,
         \/ Start(n) \/ Fetch(n) \/ Read(n) \/ Group(n) \/ Parity(n) \/ Join(n) \/ Close(n)
  PROVE  Shrinks
<1>1. BlocksLeft' \subseteq BlocksLeft
  <2>1. UNCHANGED <<series, pending>>
    BY DEF Start, Fetch, Read, Group, Parity, Join, Close
  <2> QED
    BY <2>1, SameBlocks
<1>2. UNCHANGED <<lines, malformed, ret>> /\ errs \subseteq errs'
  BY DEF Start, Fetch, Read, Group, Parity, Join, Close
<1>3. \E s \in Stages :
        /\ To(n, s) /\ Rank[s] > Rank[pc[n]]
        /\ outer' \subseteq outer \cup (IF pc[n] = "index" THEN {n} ELSE {})
        /\ inner' \subseteq inner \cup (IF pc[n] = "started" THEN {n} ELSE {})
        /\ joining' \subseteq joining \cup (IF pc[n] = "joined" THEN {n} ELSE {})
  <2>1. CASE Start(n)
    <3>1. To(n, "started") /\ pc[n] = "index" /\ "started" \in Stages
      BY <2>1 DEF Start, Stages
    <3> QED
      BY <2>1, <3>1, Ranks DEF Start
  <2>2. CASE Fetch(n)
    <3>1. To(n, "reading") /\ pc[n] = "started" /\ "reading" \in Stages
      BY <2>2 DEF Fetch, Stages
    <3> QED
      BY <2>2, <3>1, Ranks DEF Fetch
  <2>3. CASE Read(n)
    <3>1. To(n, "read") /\ pc[n] = "reading" /\ "read" \in Stages
      BY <2>3 DEF Read, Stages
    <3> QED
      BY <2>3, <3>1, Ranks DEF Read
  <2>4. CASE Group(n)
    <3>1. /\ To(n, "closed") \/ To(n, "grouped")
          /\ pc[n] = "read" /\ "closed" \in Stages /\ "grouped" \in Stages
      BY <2>4 DEF Group, Stages
    <3> QED
      BY <2>4, <3>1, Ranks DEF Group
  <2>5. CASE Parity(n)
    <3>1. /\ To(n, "closed") \/ To(n, "joined")
          /\ pc[n] = "grouped" /\ "closed" \in Stages /\ "joined" \in Stages
      BY <2>5 DEF Parity, Stages
    <3> QED
      BY <2>5, <3>1, Ranks DEF Parity
  <2>6. CASE Join(n)
    <3>1. To(n, "joining") /\ pc[n] = "joined" /\ "joining" \in Stages
      BY <2>6 DEF Join, Stages
    <3> QED
      BY <2>6, <3>1, Ranks DEF Join
  <2>7. CASE Close(n)
    <3>1. To(n, "closed") /\ pc[n] = "writing" /\ "closed" \in Stages
      BY <2>7 DEF Close, Stages
    <3> QED
      BY <2>7, <3>1, Ranks DEF Close
  <2> QED
    BY <2>1, <2>2, <2>3, <2>4, <2>5, <2>6, <2>7
<1> QED
  BY <1>1, <1>2, <1>3, LaterStage

\* Sort turns blocks to come into blocks to write.
LEMMA SortShrinks ==
  ASSUME IndInv, NEW n \in Num, Sort(n)
  PROVE  Shrinks
<1>1. OrderInv /\ TypeOK /\ PendingInv' /\ TypeOK'
  <2>1. OrderInv /\ PendingInv /\ Step(n)
    BY DEF IndInv, Step
  <2>2. OrderInv' /\ PendingInv'
    BY <2>1, SortStep, PendingStep
  <2> QED
    BY <2>1, <2>2 DEF OrderInv
<1>2. /\ To(n, "writing") /\ pc[n] = "joining" /\ "writing" \in Stages
      /\ UNCHANGED <<outer, inner, joining, lines, malformed, ret, errs>>
  BY DEF Sort, Stages
<1>3. BlocksLeft' \subseteq BlocksLeft
  <2>1. /\ pending' \in [Num -> Seq(Heads)] /\ pending \in [Num -> Seq(Heads)]
        /\ series.start \in Nat /\ series'.start \in Nat
    BY <1>1 DEF TypeOK, Series
  <2>2. series'.start >= series.start /\ Len(pending'[n]) = series'.start - series.start
        /\ \A m \in Num \ {n} : pending'[m] = pending[m]
    BY <1>1, <2>1, SortTakes
  <2>3. ASSUME NEW h \in Heads, NEW m \in Num, NEW i \in 1 .. Len(pending'[m]),
               pending'[m][i] = h
        PROVE  h \in BlocksLeft
    <3>1. CASE m = n
      <4>1. h = series'.start - Len(pending'[n]) + i - 1
        BY <1>1, <2>3, <3>1 DEF PendingInv
      <4>2. Len(pending'[n]) \in Nat /\ i >= 1 /\ i \in Nat
        BY <2>1, <2>3, <3>1
      <4>3. h >= series.start
        BY <2>1, <2>2, <4>1, <4>2
      <4> QED
        BY <4>3 DEF BlocksLeft
    <3>2. CASE m # n
      BY <2>2, <2>3, <3>2 DEF BlocksLeft
    <3> QED
      BY <3>1, <3>2
  <2>4. ASSUME NEW h \in Heads, h >= series'.start PROVE h \in BlocksLeft
    <3>1. h \in Nat
      BY HeadsAreNat
    <3>2. h >= series.start
      BY <2>1, <2>2, <2>4, <3>1
    <3> QED
      BY <3>2 DEF BlocksLeft
  <2> QED
    BY <2>3, <2>4 DEF BlocksLeft
<1> QED
  BY <1>1, <1>2, <1>3, Ranks, LaterStage

\* A block written is not written again.
LEMMA WriteShrinks ==
  ASSUME IndInv, NEW n \in Num, Write(n) \/ WriteError(n)
  PROVE  Shrinks
<1>1. OrderInv /\ TypeOK /\ PendingInv /\ JoinInv
  BY DEF IndInv, OrderInv
<1>2. /\ pc[n] = "writing" /\ pending[n] # <<>> /\ pending' = [pending EXCEPT ![n] = Tail(@)]
      /\ UNCHANGED <<pc, outer, inner, joining, lines, malformed, ret, series>>
      /\ errs \subseteq errs'
  BY DEF Write, WriteError
<1>3. /\ StagesLeft' = StagesLeft /\ OuterLeft' = OuterLeft /\ InnerLeft' = InnerLeft
      /\ JoiningLeft' = JoiningLeft /\ ReturnsLeft' \subseteq ReturnsLeft
  BY <1>2, SameReturns DEF StagesLeft, OuterLeft, InnerLeft, JoiningLeft
<1>4. /\ pending \in [Num -> Seq(Heads)] /\ pending[n] \in Seq(Heads)
      /\ pending'[n] = Tail(pending[n]) /\ \A m \in Num \ {n} : pending'[m] = pending[m]
      /\ series.start \in Nat
  BY <1>1, <1>2 DEF TypeOK, Series
<1>5. /\ Len(pending[n]) \in Nat /\ Len(pending[n]) > 0
      /\ Len(pending'[n]) = Len(pending[n]) - 1
      /\ \A i \in 1 .. Len(pending'[n]) : pending'[n][i] = pending[n][i + 1]
  <2>1. \A q \in Seq(Heads) : q # <<>> =>
          /\ Len(q) \in Nat /\ Len(q) > 0 /\ Len(Tail(q)) = Len(q) - 1
          /\ \A i \in 1 .. Len(Tail(q)) : Tail(q)[i] = q[i + 1]
    OBVIOUS
  <2> QED
    BY <1>2, <1>4, <2>1, Zenon
<1>6. BlocksLeft' \subseteq BlocksLeft
  <2>1. ASSUME NEW h \in Heads, NEW m \in Num, NEW i \in 1 .. Len(pending'[m]),
               pending'[m][i] = h
        PROVE  h \in BlocksLeft
    <3>1. CASE m = n
      <4>1. i + 1 \in 1 .. Len(pending[n]) /\ pending[n][i + 1] = h
        BY <1>5, <2>1, <3>1
      <4> QED
        BY <4>1 DEF BlocksLeft
    <3>2. CASE m # n
      BY <1>4, <2>1, <3>2 DEF BlocksLeft
    <3> QED
      BY <3>1, <3>2
  <2> QED
    BY <1>2, <2>1 DEF BlocksLeft
<1> DEFINE b == pending[n][1]
<1>7. b \in BlocksLeft
  <2>1. 1 \in 1 .. Len(pending[n]) /\ b \in Heads
    BY <1>4, <1>5
  <2> QED
    BY <2>1 DEF BlocksLeft
<1>8. b \notin BlocksLeft'
  <2>1. b = series.start - Len(pending[n])
    <3>1. 1 \in 1 .. Len(pending[n])
      BY <1>5
    <3>2. b = series.start - Len(pending[n]) + 1 - 1
      BY <1>1, <3>1 DEF PendingInv
    <3> HIDE DEF b
    <3> QED
      BY <1>4, <1>5, <3>2
  <2>2. ~(b >= series'.start)
    <3> HIDE DEF b
    <3> QED
      BY <1>2, <1>4, <1>5, <2>1
  <2>3. ASSUME NEW m \in Num, NEW i \in 1 .. Len(pending'[m]) PROVE pending'[m][i] # b
    <3>1. CASE m = n
      <4>1. i + 1 \in 1 .. Len(pending[n]) /\ pending'[n][i] = pending[n][i + 1] /\ i \in Nat /\ i >= 1
        BY <1>5, <2>3, <3>1
      <4>2. pending[n][i + 1] = series.start - Len(pending[n]) + (i + 1) - 1
        BY <1>1, <4>1 DEF PendingInv
      <4> DEFINE len == Len(pending[n])
                 v   == pending[n][i + 1]
      <4>3. v = series.start - len + (i + 1) - 1 /\ b = series.start - len
            /\ len \in Nat /\ series.start \in Nat
        BY <1>4, <1>5, <2>1, <4>2
      <4> HIDE DEF b, len, v
      <4>4. v # b
        BY <4>1, <4>3
      <4> QED
        BY <3>1, <4>1, <4>4 DEF v
    <3>2. CASE m # n
      <4>1. pending[m] = <<>>
        BY <1>1, <1>2, <3>2 DEF JoinInv
      <4>2. Len(pending'[m]) = 0
        BY <1>4, <3>2, <4>1
      <4> QED
        BY <4>2
    <3> QED
      BY <3>1, <3>2
  <2> QED
    BY <2>2, <2>3 DEF BlocksLeft
<1> QED
  BY <1>3, <1>6, <1>7, <1>8, LessLeft

\* A slot given back is not taken again.
LEMMA ReleaseShrinks ==
  ASSUME IndInv, NEW n \in Num, ReleaseInner(n) \/ ReleaseJoin(n) \/ ReleaseOuter(n)
  PROVE  Shrinks
<1>1. /\ UNCHANGED <<pc, series, pending, lines, malformed, ret, errs>> /\ SlotInv /\ TypeOK
  BY DEF ReleaseInner, ReleaseJoin, ReleaseOuter, IndInv, OrderInv
<1>2. /\ StagesLeft' = StagesLeft /\ BlocksLeft' = BlocksLeft
      /\ ReturnsLeft' \subseteq ReturnsLeft
  BY <1>1, SameBlocks, SameReturns DEF StagesLeft
<1>3. CASE ReleaseInner(n)
  <2>1. n \in inner /\ inner' = inner \ {n} /\ UNCHANGED <<outer, joining>>
    BY <1>3 DEF ReleaseInner
  <2>2. OuterLeft' = OuterLeft /\ JoiningLeft' = JoiningLeft /\ InnerLeft' \subseteq InnerLeft
    BY <1>1, <2>1 DEF OuterLeft, JoiningLeft, InnerLeft
  <2>3. n \in InnerLeft /\ n \notin InnerLeft'
    BY <1>1, <2>1 DEF InnerLeft, SlotInv
  <2> QED
    BY <1>2, <2>2, <2>3, LessLeft
<1>4. CASE ReleaseJoin(n)
  <2>1. n \in joining /\ joining' = joining \ {n} /\ UNCHANGED <<outer, inner>>
        /\ pc[n] = "closed"
    BY <1>4 DEF ReleaseJoin
  <2>2. OuterLeft' = OuterLeft /\ InnerLeft' = InnerLeft /\ JoiningLeft' \subseteq JoiningLeft
    BY <1>1, <2>1 DEF OuterLeft, JoiningLeft, InnerLeft
  <2>3. n \in JoiningLeft /\ n \notin JoiningLeft'
    BY <1>1, <2>1 DEF JoiningLeft, Early
  <2> QED
    BY <1>2, <2>2, <2>3, LessLeft
<1>5. CASE ReleaseOuter(n)
  <2>1. n \in outer /\ outer' = outer \ {n} /\ UNCHANGED <<inner, joining>>
        /\ pc[n] = "closed"
    BY <1>5 DEF ReleaseOuter
  <2>2. JoiningLeft' = JoiningLeft /\ InnerLeft' = InnerLeft /\ OuterLeft' \subseteq OuterLeft
    BY <1>1, <2>1 DEF OuterLeft, JoiningLeft, InnerLeft
  <2>3. n \in OuterLeft /\ n \notin OuterLeft'
    BY <1>1, <2>1 DEF OuterLeft
  <2> QED
    BY <1>2, <2>2, <2>3, LessLeft
<1> QED
  BY <1>3, <1>4, <1>5

\* The error of the index is given once, and procs.Process returns once.
LEMMA MainShrinks ==
  ASSUME IndInv, ret = "none", Main
  PROVE  Shrinks
<1>1. /\ UNCHANGED <<pc, outer, inner, joining, series, pending, lines, malformed>>
      /\ errs \subseteq errs'
  BY DEF Main, IndexError, ReceiveError, Finish
<1>2. /\ StagesLeft' = StagesLeft /\ BlocksLeft' = BlocksLeft /\ OuterLeft' = OuterLeft
      /\ InnerLeft' = InnerLeft /\ JoiningLeft' = JoiningLeft
  BY <1>1, SameBlocks DEF StagesLeft, OuterLeft, InnerLeft, JoiningLeft
<1>3. CASE IndexError
  <2>1. malformed /\ lines \notin errs /\ lines \in errs' /\ ret' = ret
    BY <1>3 DEF IndexError
  <2>2. "index" \in ReturnsLeft /\ "index" \notin ReturnsLeft'
    BY <1>1, <2>1 DEF ReturnsLeft
  <2> QED
    BY <1>1, <1>2, <2>1, <2>2, SameReturns, LessLeft
<1>4. CASE ReceiveError \/ Finish
  <2>1. ret' # "none" /\ errs' = errs
    BY <1>4 DEF ReceiveError, Finish, FinishErrors
  <2>2. "main" \in ReturnsLeft /\ "main" \notin ReturnsLeft'
    BY <2>1 DEF ReturnsLeft
  <2>3. ReturnsLeft' \subseteq ReturnsLeft
    BY <1>1, <2>1, <2>2 DEF ReturnsLeft
  <2> QED
    BY <1>2, <2>2, <2>3, LessLeft
<1> QED
  BY <1>3, <1>4 DEF Main

LEMMA LeftIsFinite ==
  ASSUME TypeOK
  PROVE  \A k \in 1 .. 6 : IsFiniteSet(Left[k])
<1>1. IsFiniteSet(Num) /\ IsFiniteSet(1 .. 8)
  <2>1. 0 \in Int /\ MaxLines - 1 \in Int /\ 1 \in Int /\ 8 \in Int
    OBVIOUS
  <2> QED
    BY <2>1, FS_Interval DEF Num
<1>2. IsFiniteSet(Heads)
  <2> DEFINE f == [n \in Num |-> HeadOf(n)]
  <2>1. f \in Surjection(Num, Heads)
    BY DEF Surjection, Heads
  <2> QED
    BY <1>1, <2>1, FS_Surjection
<1>3. IsFiniteSet({"index", "main"})
  <2>1. IsFiniteSet({"index"})
    BY FS_Singleton
  <2>2. IsFiniteSet({"index"} \cup {"main"})
    BY <2>1, FS_AddElement
  <2>3. {"index"} \cup {"main"} = {"index", "main"}
    OBVIOUS
  <2> QED
    BY <2>2, <2>3, Zenon
<1>4. IsFiniteSet(StagesLeft)
  <2> DEFINE A == Num
             B == 1 .. 8
  <2>1. IsFiniteSet(A) /\ IsFiniteSet(B)
    BY <1>1
  <2>2. StagesLeft \in SUBSET (A \X B)
    BY DEF StagesLeft
  <2> HIDE DEF A, B
  <2>3. IsFiniteSet(A \X B)
    BY <2>1, FS_Product
  <2> QED
    BY <2>2, <2>3, FS_Subset
<1>5. /\ OuterLeft \in SUBSET Num /\ InnerLeft \in SUBSET Num /\ JoiningLeft \in SUBSET Num
      /\ BlocksLeft \in SUBSET Heads /\ ReturnsLeft \in SUBSET {"index", "main"}
  BY DEF OuterLeft, InnerLeft, JoiningLeft, BlocksLeft, ReturnsLeft
<1>6. /\ IsFiniteSet(OuterLeft) /\ IsFiniteSet(InnerLeft) /\ IsFiniteSet(JoiningLeft)
      /\ IsFiniteSet(BlocksLeft) /\ IsFiniteSet(ReturnsLeft)
  BY <1>1, <1>2, <1>3, <1>5, FS_Subset
<1>7. \A k \in 1 .. 6 : k = 1 \/ k = 2 \/ k = 3 \/ k = 4 \/ k = 5 \/ k = 6
  OBVIOUS
<1> QED
  BY <1>4, <1>6, <1>7 DEF Left

\* Every step of a restore shrinks what is left.
LEMMA StepShrinks ==
  ASSUME IndInv, [Next]_vars, ~UNCHANGED vars
  PROVE  Shrinks
<1>1. \/ ret = "none" /\ \E n \in Num : Step(n)
      \/ ret = "none" /\ Main
  BY DEF Next, Idle
<1>2. TypeOK
  BY DEF IndInv, OrderInv
<1>3. ASSUME NEW n \in Num, Step(n) PROVE Shrinks
  BY <1>2, <1>3, StageShrinks, SortShrinks, WriteShrinks, ReleaseShrinks DEF Step
<1> QED
  BY <1>1, <1>3, MainShrinks

\* No choice of slots, lines and faults blocks a restore: as long as
\* procs.Process has not returned, it or an instance of the chain can go on.
THEOREM NoDeadlock == Spec => []NeverStuck
<1>1. IndInv => NeverStuck
  BY MovesOrReturns
<1> QED
  BY <1>1, Invariance, PTL

\* No restore goes on for ever: each step takes something off what is left, which
\* is finite, and nothing puts it back.
THEOREM OnlySoManySteps == Spec => [][Shrinks]_vars
<1>1. IndInv /\ [Next]_vars => [Shrinks]_vars
  BY StepShrinks
<1> QED
  BY <1>1, Invariance, PTL DEF Spec

THEOREM LeftFinite == Spec => [](\A k \in 1 .. 6 : IsFiniteSet(Left[k]))
<1>1. TypeOK => \A k \in 1 .. 6 : IsFiniteSet(Left[k])
  BY LeftIsFinite
<1> QED
  BY <1>1, TypeCorrect, PTL
=============================================================================
