--------------------------- MODULE IndexProcProofs ---------------------------
(***************************************************************************)
(* Proofs about IndexProc for every number of chunks, every assignment of  *)
(* contents to them, every number of finals, with or without faults.       *)
(***************************************************************************)
EXTENDS IndexProc, SeriesSortProofs

-----------------------------------------------------------------------------
(* The lines of a block.                                                   *)

LEMMA ToSetFinite ==
  ASSUME NEW es \in Seq(Nat)
  PROVE  IsFiniteSet(ToSet(es)) /\ ToSet(es) \subseteq Nat
<1>1. es \in [1 .. Len(es) -> ToSet(es)] /\ ToSet(es) \subseteq Nat
  BY DEF ToSet
<1>2. es \in Surjection(1 .. Len(es), ToSet(es))
  BY <1>1 DEF Surjection, ToSet
<1>3. IsFiniteSet(1 .. Len(es))
  BY FS_Interval
<1> QED
  BY <1>1, <1>2, <1>3, FS_Surjection

LEMMA ToSetAppend ==
  ASSUME NEW es \in Seq(Nat), NEW k \in Nat
  PROVE  ToSet(Append(es, k)) = ToSet(es) \cup {k}
<1> DEFINE as == Append(es, k)
           L  == Len(es)
<1>1. /\ L \in Nat /\ DOMAIN es = 1 .. L /\ DOMAIN as = 1 .. L + 1
      /\ as[L + 1] = k
      /\ \A i \in 1 .. L : as[i] = es[i]
  OBVIOUS
<1> HIDE DEF as, L
<1>2. /\ \A i \in 1 .. L : i \in 1 .. L + 1
      /\ L + 1 \in 1 .. L + 1
      /\ \A i \in 1 .. L + 1 : i = L + 1 \/ i \in 1 .. L
  BY <1>1
<1>3. ASSUME NEW x PROVE x \in ToSet(as) <=> x \in ToSet(es) \cup {k}
  <2>1. x \in ToSet(as) <=> \E i \in 1 .. L + 1 : x = as[i]
    BY <1>1 DEF ToSet
  <2>2. x \in ToSet(es) <=> \E i \in 1 .. L : x = es[i]
    BY <1>1 DEF ToSet
  <2>3. (\E i \in 1 .. L + 1 : x = as[i]) <=> x = k \/ \E i \in 1 .. L : x = es[i]
    BY <1>1, <1>2
  <2> QED
    BY <2>1, <2>2, <2>3
<1> QED
  BY <1>3 DEF as

\* Ranks tell the members of a set apart, so every rank is taken: the sorted
\* entries of a block are all there.
LEMMA RankTaken ==
  ASSUME NEW S \in SUBSET Nat, IsFiniteSet(S), NEW i \in 1 .. Cardinality(S)
  PROVE  \E e \in S : Rank(S, e) = i
<1> DEFINE Upto(e) == {d \in S : d <= e}
           f == [e \in S |-> Rank(S, e)]
           T == 1 .. Cardinality(S)
<1>1. Cardinality(S) \in Nat
  BY FS_CardinalityType
<1>2. ASSUME NEW e \in S
      PROVE  IsFiniteSet(Upto(e)) /\ Rank(S, e) \in T
  <2>1. IsFiniteSet(Upto(e)) /\ Cardinality(Upto(e)) <= Cardinality(S)
    BY FS_Subset
  <2>2. e \in Upto(e)
    OBVIOUS
  <2>3. Cardinality(Upto(e)) \in Nat /\ Cardinality(Upto(e)) # 0
    BY <2>1, <2>2, FS_CardinalityType, FS_EmptySet
  <2> QED
    BY <1>1, <2>1, <2>3 DEF Rank
<1>3. ASSUME NEW d \in S, NEW e \in S, d < e
      PROVE  Rank(S, d) # Rank(S, e)
  <2>1. d \in Nat /\ e \in Nat /\ \A x \in S : x \in Nat
    OBVIOUS
  <2>2. Upto(d) \subseteq Upto(e)
    <3>1. ASSUME NEW x \in S, x <= d PROVE x <= e
      BY <2>1, <1>3, <3>1
    <3> QED
      BY <3>1
  <2>3. e \in Upto(e) /\ e \notin Upto(d)
    BY <2>1, <1>3
  <2> QED
    BY <2>2, <2>3, <1>2, FS_Subset DEF Rank
<1>4. f \in Injection(S, T)
  <2>1. \A d, e \in S : d # e => d < e \/ e < d
    OBVIOUS
  <2>2. \A d, e \in S : Rank(S, d) = Rank(S, e) => d = e
    BY <2>1, <1>3
  <2>3. f \in [S -> T]
    BY <1>2
  <2> QED
    BY <2>2, <2>3 DEF Injection, IsInjective
<1>5. IsFiniteSet(T) /\ Cardinality(T) = Cardinality(S)
  BY <1>1, FS_Interval
<1>6. f \in Surjection(S, T)
  BY <1>4, <1>5, FS_Injection
<1> QED
  BY <1>6 DEF Surjection

LEMMA WriteLinesType ==
  ASSUME NEW h \in Hash, NEW es \in Seq(Nat)
  PROVE  WriteLines(h, es) \in Seq(Hash \X Nat)
<1> DEFINE S == ToSet(es)
           lines == [i \in 1 .. Cardinality(S) |-> <<h, ByNum(es)[i]>>]
<1>1. IsFiniteSet(S) /\ S \in SUBSET Nat /\ Cardinality(S) \in Nat
  BY ToSetFinite, FS_CardinalityType
<1>2. ASSUME NEW i \in 1 .. Cardinality(S) PROVE ByNum(es)[i] \in Nat
  <2>1. \E e \in S : Rank(S, e) = i
    BY <1>1, RankTaken
  <2> QED
    BY <2>1, <1>1 DEF ByNum
<1>3. lines \in [1 .. Cardinality(S) -> Hash \X Nat]
  BY <1>2
<1> QED
  BY <1>1, <1>3, FcnIsSeq DEF WriteLines

\* Only which finals came matters, not the order they came in.
LEMMA WriteLinesSame ==
  ASSUME NEW h, NEW es, NEW fs, ToSet(es) = ToSet(fs)
  PROVE  WriteLines(h, es) = WriteLines(h, fs)
BY DEF WriteLines, ByNum

-----------------------------------------------------------------------------
(* Where flush stops.                                                      *)

LEMMA FlushRun ==
  ASSUME IndexAssumption, TypeOK
  PROVE  LET vs == Sorted(order)
             i  == PrefixLen(vs, CompleteHashes)
         IN  /\ vs \in Seq(Hash)
             /\ i \in 0 .. Len(vs) /\ Len(vs) <= Len(order.values)
             /\ \A j \in 1 .. i : vs[j] = order.values[j] /\ vs[j] \in CompleteHashes
             /\ i < Len(order.values) => order.values[i + 1] \notin CompleteHashes
<1> DEFINE vs == Sorted(order)
           i  == PrefixLen(vs, CompleteHashes)
<1>1. order \in Series(Hash) /\ Nil \notin Hash /\ Len(order.values) \in Nat
  BY DEF TypeOK, Series, IndexAssumption
<1>2. /\ vs \in Seq(Hash)
      /\ Len(vs) <= Len(order.values)
      /\ \A j \in 1 .. Len(vs) : vs[j] = order.values[j] /\ vs[j] # Nil
      /\ Len(vs) < Len(order.values) => order.values[Len(vs) + 1] = Nil
  BY <1>1, SortedRun
<1> HIDE DEF vs
<1>3. Len(vs) \in Nat
  BY <1>2
<1>4. /\ i \in 0 .. Len(vs)
      /\ \A j \in 1 .. i : vs[j] \in CompleteHashes
      /\ i < Len(vs) => vs[i + 1] \notin CompleteHashes
  BY <1>3, PrefixLenStops
<1> HIDE DEF i
<1>5. Nil \notin CompleteHashes
  BY <1>1 DEF CompleteHashes
<1>6. ASSUME i < Len(order.values) PROVE order.values[i + 1] \notin CompleteHashes
  <2>1. CASE i < Len(vs)
    BY <2>1, <1>2, <1>3, <1>4
  <2>2. CASE i = Len(vs)
    BY <2>2, <1>2, <1>5, <1>6
  <2> QED
    BY <2>1, <2>2, <1>3, <1>4
<1> USE DEF i, vs
<1> QED
  BY <1>2, <1>3, <1>4, <1>6

-----------------------------------------------------------------------------
(* The inductive invariant.                                                *)

LEMMA InitInd == ASSUME IndexAssumption, Init PROVE IndInv
<1> USE DEF Init, EmptySeries
<1>1. TypeOK
  <2>1. order \in Series(Hash)
    BY DEF Series
  <2>2. /\ todo \in [Num -> SUBSET Nat]
        /\ finals \in [Hash -> Finals \cup {Nil}]
        /\ log \in Seq(Seq(Hash \X Nat))
    OBVIOUS
  <2> QED
    BY <2>1, <2>2 DEF TypeOK
<1>2. OrderInv
  BY DEF OrderInv, IndexAssumption, Num
<1>3. FinalsInv /\ ChunkInv /\ HeadInv
  BY DEF FinalsInv, ChunkInv, HeadInv
<1>4. LogIsPrefix
  BY DEF LogIsPrefix, IndexAssumption
<1> QED
  BY <1>1, <1>2, <1>3, <1>4 DEF IndInv

\* The invariant, read at the positions of the chunks.
LEMMA OrderFacts ==
  ASSUME IndexAssumption, TypeOK, OrderInv
  PROVE  /\ order \in Series(Hash) /\ order.start \in Nat
         /\ order.values \in Seq(Hash \cup {Nil}) /\ Len(order.values) \in Nat
         /\ \A i \in 1 .. Len(order.values) : order.start + i - 1 \in Num
         /\ \A i \in 1 .. Len(order.values) :
              order.values[i] # Nil => /\ order.values[i] = content[order.start + i - 1]
                                       /\ pc[order.start + i - 1] # "new"
         /\ ~failed => \A i \in 1 .. Len(order.values) :
                         order.values[i] = Nil => pc[order.start + i - 1] = "new"
         /\ ~failed => \A m \in Num :
                         pc[m] # "new" => m < order.start + Len(order.values)
<1>1. order \in Series(Hash)
  BY DEF TypeOK
<1>2. /\ order.start \in Nat /\ order.values \in Seq(Hash \cup {Nil})
      /\ Len(order.values) \in Nat
  BY <1>1 DEF Series
<1>3. \A i \in 1 .. Len(order.values) : order.start + i - 1 \in Num
  BY <1>2 DEF OrderInv, Num, IndexAssumption
<1> QED
  BY <1>1, <1>2, <1>3 DEF OrderInv

LEMMA FinalsType ==
  ASSUME IndexAssumption, TypeOK, NEW h \in Hash, finals[h] # Nil
  PROVE  /\ finals[h] \in Finals /\ finals[h].num \in Num
         /\ finals[h].entries \in Seq(Nat) /\ finals[h].complete \in BOOLEAN
BY DEF TypeOK, Finals

LEMMA SetOrderInd ==
  ASSUME IndexAssumption, IndInv, NEW n \in Num, SetOrder(n)
  PROVE  IndInv'
<1> DEFINE p == n - order.start + 1
           L == Len(order.values)
           r == Add(order, n, content[n])
<1>0. /\ TypeOK /\ OrderInv /\ FinalsInv /\ ChunkInv /\ LogIsPrefix
      /\ pc[n] = "new"
      /\ order' = r
      /\ pc' \in [Num -> {"new", "ordered", "open", "dup", "flushing", "ended"}]
      /\ \A m \in Num : pc'[m] = IF m = n THEN "ordered" ELSE pc[m]
      /\ UNCHANGED <<content, todo, finals, log, failed>>
  BY DEF SetOrder, TypeOK, IndInv
<1>1. /\ n \in Nat /\ n < N /\ N \in Nat
      /\ content[n] \in Hash /\ content[n] # Nil
  BY <1>0 DEF TypeOK, Num, IndexAssumption
<1>2. /\ order \in Series(Hash) /\ order.start \in Nat /\ L \in Nat
      /\ \A i \in 1 .. L : order.start + i - 1 \in Num
      /\ \A i \in 1 .. L : order.values[i] # Nil =>
           /\ order.values[i] = content[order.start + i - 1]
           /\ pc[order.start + i - 1] # "new"
      /\ ~failed => \A i \in 1 .. L : order.values[i] = Nil => pc[order.start + i - 1] = "new"
      /\ ~failed => \A m \in Num : pc[m] # "new" => m < order.start + L
  BY <1>0, OrderFacts
<1>3. CanAdd(order, n) /\ p \in Nat \ {0} /\ order.start + p - 1 = n
  BY <1>0, <1>1, <1>2 DEF OrderInv, CanAdd
<1>4. /\ r \in Series(Hash)
      /\ r.start = order.start
      /\ Len(r.values) = IF p > L THEN p ELSE L
      /\ \A q \in 1 .. Len(r.values) :
           r.values[q] = IF q = p THEN content[n]
                         ELSE IF q <= L THEN order.values[q]
                         ELSE Nil
  BY <1>1, <1>2, <1>3, AddSets
<1> HIDE DEF r, L, p
<1>5. TypeOK'
  BY <1>0, <1>4 DEF TypeOK
<1>6. OrderInv'
  <2>1. r.start + Len(r.values) <= N
    <3>1. order.start + L <= N
      BY <1>0 DEF OrderInv, L
    <3> QED
      BY <3>1, <1>1, <1>2, <1>3, <1>4
  <2>2. \A m \in Num : m < r.start => pc'[m] # "new"
    BY <1>0, <1>4 DEF OrderInv
  <2>3. \A i \in 1 .. Len(r.values) : r.start + i - 1 \in Num
    BY <2>1, <1>1, <1>2, <1>3, <1>4 DEF Num
  <2>4. ASSUME NEW i \in 1 .. Len(r.values), r.values[i] # Nil
        PROVE  /\ r.values[i] = content[r.start + i - 1]
               /\ pc'[r.start + i - 1] # "new"
    <3>1. CASE i = p
      BY <3>1, <1>0, <1>1, <1>3, <1>4
    <3>2. CASE i # p
      <4>1. i \in 1 .. L /\ r.values[i] = order.values[i]
        BY <3>2, <2>4, <1>2, <1>4
      <4> QED
        BY <4>1, <2>4, <1>0, <1>2, <1>4
    <3> QED
      BY <3>1, <3>2
  <2>5. ASSUME ~failed, NEW m \in Num, pc'[m] # "new"
        PROVE  m < r.start + Len(r.values)
    <3>1. m \in Nat
      BY DEF Num
    <3>2. CASE m = n
      BY <3>2, <1>1, <1>2, <1>3, <1>4
    <3>3. CASE m # n
      <4>1. m < order.start + L
        BY <3>3, <2>5, <1>0, <1>2
      <4> QED
        BY <4>1, <3>1, <1>2, <1>3, <1>4
    <3> QED
      BY <3>2, <3>3
  <2>6. ASSUME ~failed, NEW i \in 1 .. Len(r.values), r.values[i] = Nil
        PROVE  pc'[r.start + i - 1] = "new"
    <3>1. i # p
      BY <2>6, <1>1, <1>4
    <3>2. r.start + i - 1 # n
      BY <3>1, <1>1, <1>2, <1>3, <1>4
    <3>3. CASE i <= L
      <4>1. order.values[i] = Nil
        BY <2>6, <3>1, <3>3, <1>4
      <4>2. i \in 1 .. L /\ ~failed
        BY <2>6, <3>3, <1>2
      <4>3. pc[order.start + i - 1] = "new" /\ order.start + i - 1 \in Num
        BY <4>1, <4>2, <1>2
      <4> QED
        BY <4>3, <3>2, <1>0, <1>4
    <3>4. CASE i > L
      <4>1. ~(order.start + i - 1 < order.start + L)
        BY <3>4, <1>2
      <4>2. pc[order.start + i - 1] = "new"
        BY <4>1, <2>3, <2>6, <1>2, <1>4
      <4> QED
        BY <4>2, <2>3, <3>2, <1>0, <1>4
    <3> QED
      BY <3>3, <3>4, <1>2, <1>4
  <2>7. ~failed => r.start = Len(log)
    BY <1>0, <1>4 DEF OrderInv
  <2> QED
    BY <2>1, <2>2, <2>4, <2>5, <2>6, <2>7, <1>0 DEF OrderInv
<1>7. FinalsInv'
  <2>1. ASSUME NEW h \in Hash, finals[h] # Nil
        PROVE  finals[h].num \in Num /\ finals[h].num # n
    BY <2>1, <1>0, FinalsType DEF FinalsInv
  <2> QED
    BY <2>1, <1>0 DEF FinalsInv
<1>8. ChunkInv'
  BY <1>0 DEF ChunkInv
<1>9. HeadInv'
  BY <1>0 DEF HeadInv
<1>10. LogIsPrefix'
  BY <1>0 DEF LogIsPrefix
<1> QED
  BY <1>5, <1>6, <1>7, <1>8, <1>9, <1>10 DEF IndInv

\* The steps that touch neither the series nor the log.
LEMMA OrderKept ==
  ASSUME IndexAssumption, TypeOK, OrderInv, LogIsPrefix,
         UNCHANGED <<content, order, log>>, failed' \in BOOLEAN, failed => failed',
         \A m \in Num : pc[m] # "new" => pc'[m] # "new",
         ~failed' => \A m \in Num : pc[m] = "new" => pc'[m] = "new"
  PROVE  OrderInv' /\ LogIsPrefix'
<1>1. \A i \in 1 .. Len(order.values) : order.start + i - 1 \in Num
  BY OrderFacts
<1>2. OrderInv'
  BY <1>1 DEF OrderInv
<1>3. LogIsPrefix'
  BY DEF LogIsPrefix
<1> QED
  BY <1>2, <1>3

LEMMA RegisterInd ==
  ASSUME IndexAssumption, IndInv, NEW n \in Num, Register(n)
  PROVE  IndInv'
<1> DEFINE h == content[n]
<1>0. /\ TypeOK /\ OrderInv /\ FinalsInv /\ ChunkInv /\ LogIsPrefix
      /\ pc[n] = "ordered"
      /\ UNCHANGED <<content, order, log, failed>>
  BY DEF Register, IndInv
<1>1. h \in Hash /\ todo[n] = {} /\ failed \in BOOLEAN
  BY <1>0 DEF TypeOK, ChunkInv
<1>2. CASE finals[h] = Nil
  <2> DEFINE new == [num |-> n, entries |-> <<>>, complete |-> FALSE]
  <2>1. /\ finals' = [finals EXCEPT ![h] = new]
        /\ pc' = [pc EXCEPT ![n] = "open"]
        /\ todo' = [todo EXCEPT ![n] = FinalsOf(h)]
    BY <1>2 DEF Register
  <2>2. new \in Finals /\ new # Nil /\ ToSet(new.entries) = {}
    <3>1. new \in Finals
      BY DEF Finals
    <3>2. new # Nil
      BY <3>1 DEF IndexAssumption
    <3> QED
      BY <3>1, <3>2 DEF ToSet
  <2>3. FinalsOf(h) \subseteq Nat
    BY <1>1 DEF FinalsOf, IndexAssumption
  <2>4. TypeOK'
    BY <1>0, <1>1, <2>1, <2>2, <2>3 DEF TypeOK
  <2>5. /\ \A m \in Num : pc'[m] = IF m = n THEN "open" ELSE pc[m]
        /\ \A m \in Num : todo'[m] = IF m = n THEN FinalsOf(h) ELSE todo[m]
        /\ \A g \in Hash : finals'[g] = IF g = h THEN new ELSE finals[g]
    BY <2>1, <1>0 DEF TypeOK
  <2>6. OrderInv' /\ LogIsPrefix'
    BY <1>0, <1>1, <2>5, OrderKept
  <2>7. FinalsInv'
    <3>1. ASSUME NEW g \in Hash, g # h, finals[g] # Nil
          PROVE  finals[g].num \in Num /\ finals[g].num # n
      BY <3>1, <1>0, FinalsType DEF FinalsInv
    <3> HIDE DEF new
    <3>2. /\ new.num = n /\ new.complete = FALSE
      BY DEF new
    <3> QED
      BY <3>1, <3>2, <2>2, <2>5, <1>0 DEF FinalsInv
  <2>8. ChunkInv'
    <3>1. ASSUME NEW m \in Num, pc[m] \in {"open", "dup", "flushing"} \/ (pc[m] = "ended" /\ ~failed)
          PROVE  content[m] # h
      BY <3>1, <1>0, <1>2 DEF ChunkInv
    <3> HIDE DEF new
    <3>2. new.num = n
      BY DEF new
    <3>3. \A m \in Num : content[m] \in Hash
      BY <1>0 DEF TypeOK
    <3> QED
      BY <3>1, <3>2, <3>3, <2>2, <2>5, <1>0 DEF ChunkInv
  <2>9. HeadInv'
    BY <2>5 DEF HeadInv
  <2> QED
    BY <2>4, <2>6, <2>7, <2>8, <2>9 DEF IndInv
<1>3. CASE finals[h] # Nil
  <2>1. pc' = [pc EXCEPT ![n] = "dup"] /\ UNCHANGED <<finals, todo>>
    BY <1>3 DEF Register
  <2>2. TypeOK'
    BY <1>0, <2>1 DEF TypeOK
  <2>3. \A m \in Num : pc'[m] = IF m = n THEN "dup" ELSE pc[m]
    BY <2>1, <1>0 DEF TypeOK
  <2>4. OrderInv' /\ LogIsPrefix'
    BY <1>0, <1>1, <2>3, OrderKept
  <2>5. ASSUME NEW g \in Hash, finals[g] # Nil
        PROVE  finals[g].num \in Num /\ finals[g].num # n
    BY <2>5, <1>0, FinalsType DEF FinalsInv
  <2>6. FinalsInv'
    BY <2>1, <2>3, <2>5, <1>0 DEF FinalsInv
  <2>7. ChunkInv'
    BY <2>1, <2>3, <2>5, <1>0, <1>1, <1>3 DEF ChunkInv
  <2>8. HeadInv'
    BY <2>3 DEF HeadInv
  <2> QED
    BY <2>2, <2>4, <2>6, <2>7, <2>8 DEF IndInv
<1> QED
  BY <1>2, <1>3

LEMMA FailBeforeInd ==
  ASSUME IndexAssumption, IndInv, NEW n \in Num, FailBefore(n)
  PROVE  IndInv'
<1>0. /\ TypeOK /\ OrderInv /\ FinalsInv /\ ChunkInv /\ LogIsPrefix
      /\ pc[n] = "new" /\ failed'
      /\ pc' = [pc EXCEPT ![n] = "ended"]
      /\ UNCHANGED <<content, todo, order, finals, log>>
      /\ failed' \in BOOLEAN
  BY DEF FailBefore, IndInv
<1>1. \A m \in Num : pc'[m] = IF m = n THEN "ended" ELSE pc[m]
  BY <1>0 DEF TypeOK
<1>2. TypeOK'
  BY <1>0 DEF TypeOK
<1>3. OrderInv' /\ LogIsPrefix'
  BY <1>0, <1>1, OrderKept
<1>4. ASSUME NEW g \in Hash, finals[g] # Nil
      PROVE  finals[g].num \in Num /\ finals[g].num # n
  BY <1>4, <1>0, FinalsType DEF FinalsInv
<1>5. FinalsInv'
  BY <1>0, <1>1, <1>4 DEF FinalsInv
<1>6. ChunkInv'
  BY <1>0, <1>1 DEF ChunkInv
<1> QED
  BY <1>0, <1>2, <1>3, <1>5, <1>6 DEF IndInv

LEMMA ProcessFinalInd ==
  ASSUME IndexAssumption, IndInv, NEW n \in Num, NEW k \in todo[n], ProcessFinal(n, k)
  PROVE  IndInv'
<1> DEFINE h == content[n]
           f == finals[h]
           g == [f EXCEPT !.entries = Append(@, k)]
<1>0. /\ TypeOK /\ OrderInv /\ FinalsInv /\ ChunkInv /\ LogIsPrefix
      /\ failed \/ HeadInv
      /\ pc[n] = "open"
      /\ todo' = [todo EXCEPT ![n] = @ \ {k}]
      /\ UNCHANGED <<content, pc, order, log>>
  BY DEF ProcessFinal, IndInv
<1>1. /\ h \in Hash /\ k \in Nat /\ f # Nil /\ f \in Finals
      /\ f.num = n /\ f.complete = FALSE /\ f.entries \in Seq(Nat)
  <2>1. h \in Hash /\ k \in Nat
    BY <1>0 DEF TypeOK
  <2>2. f # Nil /\ f.num = n
    BY <1>0 DEF ChunkInv
  <2>3. f \in Finals /\ f.entries \in Seq(Nat) /\ f.complete \in BOOLEAN
    BY <2>1, <2>2, <1>0, FinalsType
  <2>4. f.complete <=> pc[f.num] # "open"
    BY <2>1, <2>2, <1>0 DEF FinalsInv
  <2> QED
    BY <2>1, <2>2, <2>3, <2>4, <1>0
<1>2. AcceptsFinal(n)
  BY <1>1 DEF AcceptsFinal
<1>3. finals' = [finals EXCEPT ![h] = g] /\ UNCHANGED failed
  BY <1>0, <1>1, <1>2 DEF ProcessFinal, TypeOK
<1>4. /\ g \in Finals /\ g # Nil /\ g.num = n /\ g.complete = FALSE
      /\ g.entries = Append(f.entries, k)
  <2>1. Append(f.entries, k) \in Seq(Nat)
    BY <1>1
  <2>2. g \in Finals
    BY <2>1, <1>1 DEF Finals
  <2> QED
    BY <2>2, <1>1 DEF Finals, IndexAssumption
<1>5. ToSet(g.entries) = ToSet(f.entries) \cup {k}
  BY <1>1, <1>4, ToSetAppend
<1> HIDE DEF g
<1>6. /\ \A m \in Num : todo'[m] = IF m = n THEN todo[n] \ {k} ELSE todo[m]
      /\ \A x \in Hash : finals'[x] = IF x = h THEN g ELSE finals[x]
  BY <1>0, <1>3 DEF TypeOK
<1>7. TypeOK'
  BY <1>0, <1>1, <1>3, <1>4 DEF TypeOK
<1>8. OrderInv' /\ LogIsPrefix'
  <2>1. failed' \in BOOLEAN
    BY <1>7 DEF TypeOK
  <2> QED
    BY <2>1, <1>0, <1>3, OrderKept
<1>9. FinalsInv'
  <2>1. ASSUME NEW x \in Hash, x # h, finals[x] # Nil
        PROVE  finals[x].num \in Num /\ finals[x].num # n
    BY <2>1, <1>0, FinalsType DEF FinalsInv
  <2>2. ~failed => FinalsOf(h) = ToSet(g.entries) \cup todo'[n]
    <3>1. ~failed => FinalsOf(h) = ToSet(f.entries) \cup todo[n]
      BY <1>0, <1>1 DEF FinalsInv
    <3> QED
      BY <3>1, <1>5, <1>6
  <2>3. content[n] = h /\ pc[n] \in {"open", "flushing", "ended"} /\ n \in Num
    BY <1>0
  <2> HIDE DEF h
  <2>4. ASSUME NEW x \in Hash, finals'[x] # Nil
        PROVE  /\ content[finals'[x].num] = x
               /\ pc[finals'[x].num] \in {"open", "flushing", "ended"}
               /\ finals'[x].complete <=> pc[finals'[x].num] # "open"
               /\ ~failed => FinalsOf(x) = ToSet(finals'[x].entries) \cup todo'[finals'[x].num]
    <3>1. CASE x = h
      BY <3>1, <2>2, <2>3, <1>0, <1>4, <1>6
    <3>2. CASE x # h
      BY <3>2, <2>1, <2>4, <1>0, <1>6 DEF FinalsInv
    <3> QED
      BY <3>1, <3>2
  <2> QED
    BY <2>4, <1>0, <1>3 DEF FinalsInv
<1>10. ChunkInv'
  <2>1. \A m \in Num : content[m] \in Hash
    BY <1>0 DEF TypeOK
  <2> QED
    BY <2>1, <1>0, <1>1, <1>3, <1>4, <1>6 DEF ChunkInv
<1>11. HeadInv'
  BY <1>0 DEF HeadInv
<1> QED
  BY <1>7, <1>8, <1>9, <1>10, <1>11 DEF IndInv

LEMMA FailFinalInd ==
  ASSUME IndexAssumption, IndInv, NEW n \in Num, NEW k \in todo[n], FailFinal(n, k)
  PROVE  IndInv'
<1>0. /\ TypeOK /\ OrderInv /\ FinalsInv /\ ChunkInv /\ LogIsPrefix
      /\ pc[n] = "open" /\ failed' /\ failed' \in BOOLEAN
      /\ todo' = [todo EXCEPT ![n] = @ \ {k}]
      /\ UNCHANGED <<content, pc, order, finals, log>>
  BY DEF FailFinal, IndInv
<1>1. \A m \in Num : m # n => todo'[m] = todo[m]
  BY <1>0 DEF TypeOK
<1>2. TypeOK'
  BY <1>0 DEF TypeOK
<1>3. OrderInv' /\ LogIsPrefix'
  BY <1>0, OrderKept
<1>4. FinalsInv'
  BY <1>0 DEF FinalsInv
<1>5. ChunkInv'
  BY <1>0, <1>1 DEF ChunkInv
<1> QED
  BY <1>0, <1>2, <1>3, <1>4, <1>5 DEF IndInv

LEMMA SetFinalsCompleteInd ==
  ASSUME IndexAssumption, IndInv, NEW n \in Num, SetFinalsComplete(n)
  PROVE  IndInv'
<1> DEFINE h == content[n]
           f == finals[h]
           g == [f EXCEPT !.complete = TRUE]
<1>0. /\ TypeOK /\ OrderInv /\ FinalsInv /\ ChunkInv /\ LogIsPrefix
      /\ pc[n] \in {"open", "dup"} /\ todo[n] = {} /\ failed \in BOOLEAN
      /\ pc' = [pc EXCEPT ![n] = "flushing"]
      /\ UNCHANGED <<content, todo, order, log, failed>>
  BY DEF SetFinalsComplete, IndInv, TypeOK
<1>1. /\ h \in Hash /\ f # Nil /\ f \in Finals
      /\ pc[n] = "open" <=> f.num = n
  BY <1>0, FinalsType DEF ChunkInv, TypeOK
<1>2. \A m \in Num : pc'[m] = IF m = n THEN "flushing" ELSE pc[m]
  BY <1>0 DEF TypeOK
<1>3. OrderInv' /\ LogIsPrefix'
  BY <1>0, <1>2, OrderKept
<1>4. HeadInv'
  BY <1>2 DEF HeadInv
<1>5. CASE f.num = n
  <2>1. finals' = [finals EXCEPT ![h] = g]
    BY <1>0, <1>1, <1>5 DEF SetFinalsComplete, TypeOK
  <2>2. /\ g \in Finals /\ g # Nil /\ g.num = n /\ g.complete = TRUE
        /\ g.entries = f.entries
    BY <1>1, <1>5 DEF Finals, IndexAssumption
  <2> HIDE DEF g
  <2>3. \A x \in Hash : finals'[x] = IF x = h THEN g ELSE finals[x]
    BY <2>1, <1>0 DEF TypeOK
  <2>4. TypeOK'
    BY <2>1, <2>2, <1>0, <1>1 DEF TypeOK
  <2>5. FinalsInv'
    <3>1. ASSUME NEW x \in Hash, x # h, finals[x] # Nil
          PROVE  finals[x].num \in Num /\ finals[x].num # n
      BY <3>1, <1>0, FinalsType DEF FinalsInv
    <3> QED
      BY <3>1, <2>2, <2>3, <1>0, <1>1, <1>2, <1>5 DEF FinalsInv
  <2>6. ChunkInv'
    <3>1. \A m \in Num : content[m] \in Hash
      BY <1>0 DEF TypeOK
    <3> QED
      BY <3>1, <2>2, <2>3, <1>0, <1>1, <1>2, <1>5 DEF ChunkInv
  <2> QED
    BY <2>4, <2>5, <2>6, <1>3, <1>4 DEF IndInv
<1>6. CASE f.num # n
  <2>1. UNCHANGED finals
    BY <1>6 DEF SetFinalsComplete
  <2>2. TypeOK'
    BY <2>1, <1>0 DEF TypeOK
  <2>3. pc[n] = "dup"
    BY <1>0, <1>1, <1>6
  <2>4. ASSUME NEW x \in Hash, finals[x] # Nil
        PROVE  finals[x].num \in Num /\ finals[x].num # n
    BY <2>3, <2>4, <1>0, FinalsType DEF FinalsInv
  <2>5. FinalsInv'
    BY <2>1, <2>4, <1>0, <1>2 DEF FinalsInv
  <2>6. ChunkInv'
    BY <2>1, <1>0, <1>1, <1>2 DEF ChunkInv
  <2> QED
    BY <2>2, <2>5, <2>6, <1>3, <1>4 DEF IndInv
<1> QED
  BY <1>5, <1>6

-----------------------------------------------------------------------------
(* The flush.                                                              *)

\* Dropping set positions off the front keeps the series in step.
LEMMA DropInd ==
  ASSUME IndexAssumption, TypeOK, OrderInv,
         NEW j \in 0 .. Len(order.values),
         \A q \in 1 .. j : order.values[q] # Nil,
         order' = Drop(order, j), UNCHANGED content,
         \A m \in Num : pc[m] = "new" <=> pc'[m] = "new",
         failed => failed',
         ~failed' => Len(log') = Len(log) + j
  PROVE  /\ OrderInv' /\ order' \in Series(Hash)
         /\ Len(order'.values) = Len(order.values) - j
         /\ \A q \in 1 .. Len(order'.values) : order'.values[q] = order.values[q + j]
<1> DEFINE L == Len(order.values)
           r == Drop(order, j)
<1>1. /\ order \in Series(Hash) /\ order.start \in Nat /\ L \in Nat /\ j \in Nat /\ j <= L
      /\ \A i \in 1 .. L : order.start + i - 1 \in Num
      /\ \A i \in 1 .. L : order.values[i] # Nil =>
           /\ order.values[i] = content[order.start + i - 1]
           /\ pc[order.start + i - 1] # "new"
      /\ ~failed => \A i \in 1 .. L : order.values[i] = Nil => pc[order.start + i - 1] = "new"
      /\ ~failed => \A m \in Num : pc[m] # "new" => m < order.start + L
  BY OrderFacts
<1>2. /\ r \in Series(Hash) /\ r.start = order.start + j /\ Len(r.values) = L - j
      /\ \A q \in 1 .. Len(r.values) : r.values[q] = order.values[q + j]
  <2>1. order \in Series(Hash)
    BY <1>1
  <2>2. j \in 0 .. Len(order.values)
    OBVIOUS
  <2>3. \A s \in Series(Hash) : \A k \in 0 .. Len(s.values) :
          /\ Drop(s, k) \in Series(Hash) /\ Drop(s, k).start = s.start + k
          /\ Len(Drop(s, k).values) = Len(s.values) - k
          /\ \A q \in 1 .. Len(Drop(s, k).values) : Drop(s, k).values[q] = s.values[q + k]
    BY DropShifts
  <2> HIDE DEF L
  <2>4. /\ Drop(order, j) \in Series(Hash) /\ Drop(order, j).start = order.start + j
        /\ Len(Drop(order, j).values) = Len(order.values) - j
        /\ \A q \in 1 .. Len(Drop(order, j).values) :
             Drop(order, j).values[q] = order.values[q + j]
    BY <2>1, <2>2, <2>3, Zenon
  <2> QED
    BY <2>4 DEF L
<1> HIDE DEF r
<1>3. r.start + Len(r.values) <= N /\ r.start + Len(r.values) = order.start + L
  <2>1. order.start + L <= N /\ N \in Nat
    BY DEF OrderInv, IndexAssumption
  <2> QED
    BY <2>1, <1>1, <1>2
<1>4. ASSUME NEW m \in Num, m < r.start PROVE pc'[m] # "new"
  <2>1. m \in Nat
    BY DEF Num
  <2>2. CASE m < order.start
    BY <2>2 DEF OrderInv
  <2>3. CASE ~(m < order.start)
    <3> DEFINE q == m - order.start + 1
    <3>1. q \in 1 .. j /\ q \in 1 .. L /\ order.start + q - 1 = m
      BY <2>1, <2>3, <1>1, <1>2, <1>4
    <3>2. pc[order.start + q - 1] # "new"
      BY <3>1, <1>1
    <3> QED
      BY <3>1, <3>2
  <2> QED
    BY <2>2, <2>3
<1>5. \A q \in 1 .. Len(r.values) :
        /\ q + j \in 1 .. L
        /\ r.start + q - 1 = order.start + (q + j) - 1
        /\ r.start + q - 1 \in Num
        /\ r.values[q] = order.values[q + j]
  <2>1. \A q \in 1 .. Len(r.values) : q + j \in 1 .. L /\ r.start + q - 1 = order.start + (q + j) - 1
    BY <1>1, <1>2
  <2> QED
    BY <2>1, <1>1, <1>2
<1>6. ASSUME NEW q \in 1 .. Len(r.values), r.values[q] # Nil
      PROVE  r.values[q] = content[r.start + q - 1] /\ pc'[r.start + q - 1] # "new"
  <2> DEFINE w == q + j
  <2>1. w \in 1 .. L /\ r.start + q - 1 = order.start + w - 1 /\ r.values[q] = order.values[w]
    BY <1>5
  <2> HIDE DEF w
  <2>2. order.values[w] = content[order.start + w - 1] /\ pc[order.start + w - 1] # "new"
    BY <2>1, <1>1, <1>6
  <2> QED
    BY <2>1, <2>2, <1>5
<1>7. ASSUME ~failed'
      PROVE  /\ r.start = Len(log')
             /\ \A m \in Num : pc'[m] # "new" => m < r.start + Len(r.values)
             /\ \A q \in 1 .. Len(r.values) : r.values[q] = Nil => pc'[r.start + q - 1] = "new"
  <2>1. r.start = Len(log')
    BY <1>7, <1>2 DEF OrderInv
  <2>2. \A m \in Num : pc'[m] # "new" => m < r.start + Len(r.values)
    BY <1>1, <1>3, <1>7
  <2>3. ASSUME NEW q \in 1 .. Len(r.values), r.values[q] = Nil
        PROVE  pc'[r.start + q - 1] = "new"
    <3> DEFINE w == q + j
    <3>1. w \in 1 .. L /\ r.start + q - 1 = order.start + w - 1 /\ r.values[q] = order.values[w]
      BY <1>5
    <3> HIDE DEF w
    <3>2. pc[order.start + w - 1] = "new"
      BY <3>1, <2>3, <1>1, <1>7
    <3> QED
      BY <3>1, <3>2, <1>5
  <2> QED
    BY <2>1, <2>2, <2>3
<1>8. order' = r
  BY DEF r
<1>9. OrderInv'
  BY <1>3, <1>4, <1>6, <1>7, <1>8 DEF OrderInv
<1> QED
  BY <1>2, <1>8, <1>9

\* The blocks a flush writes, and that they are the ones owed.
LEMMA BlockOwed ==
  ASSUME IndexAssumption, TypeOK, FinalsInv, ChunkInv, NEW h \in CompleteHashes
  PROVE  /\ Block(h) \in Seq(Hash \X Nat)
         /\ ~failed => Block(h) = OwedLines(h)
<1> DEFINE f == finals[h]
           all == [k \in FinalsOf(h) |-> k]
<1>1. h \in Hash /\ f # Nil /\ f.complete
  BY DEF CompleteHashes
<1>2. f.num \in Num /\ f.entries \in Seq(Nat)
  BY <1>1, FinalsType
<1>3. todo[f.num] = {}
  BY <1>1, <1>2 DEF FinalsInv, ChunkInv
<1>4. ASSUME ~failed PROVE FinalsOf(h) = ToSet(f.entries)
  <2>1. FinalsOf(h) = ToSet(f.entries) \cup todo[f.num]
    BY <1>1, <1>4 DEF FinalsInv
  <2> HIDE DEF f
  <2> QED
    BY <2>1, <1>3
<1>5. ToSet(all) = FinalsOf(h)
  BY DEF ToSet
<1>6. Block(h) \in Seq(Hash \X Nat)
  BY <1>1, <1>2, WriteLinesType DEF Block
<1>7. ~failed => Block(h) = OwedLines(h)
  BY <1>4, <1>5, WriteLinesSame DEF Block, OwedLines
<1> QED
  BY <1>6, <1>7

LEMMA FlushInd ==
  ASSUME IndexAssumption, IndInv, NEW n \in Num, Flush(n)
  PROVE  IndInv'
<1> DEFINE vs == Sorted(order)
           i  == PrefixLen(vs, CompleteHashes)
           blocks == [j \in 1 .. i |-> Block(vs[j])]
           L == Len(order.values)
<1>0. /\ TypeOK /\ OrderInv /\ FinalsInv /\ ChunkInv /\ LogIsPrefix
      /\ pc[n] = "flushing" /\ failed \in BOOLEAN
      /\ log' = log \o blocks
      /\ order' = Drop(order, i)
      /\ pc' = [pc EXCEPT ![n] = "ended"]
      /\ UNCHANGED <<content, todo, finals, failed>>
  BY DEF Flush, IndInv, TypeOK
<1>1. /\ vs \in Seq(Hash)
      /\ i \in 0 .. Len(vs) /\ Len(vs) <= L
      /\ \A j \in 1 .. i : vs[j] = order.values[j] /\ vs[j] \in CompleteHashes
      /\ i < L => order.values[i + 1] \notin CompleteHashes
  BY <1>0, FlushRun
<1> HIDE DEF vs, i
<1>2. /\ i \in Nat /\ L \in Nat /\ i <= L /\ Len(log) \in Nat
      /\ order.start \in Nat /\ log \in Seq(Seq(Hash \X Nat))
      /\ \A q \in 1 .. L : order.start + q - 1 \in Num
      /\ \A q \in 1 .. L : order.values[q] # Nil =>
           order.values[q] = content[order.start + q - 1]
  <2>1. L \in Nat
    BY <1>0, OrderFacts
  <2>2. Len(vs) \in Nat
    BY <1>1
  <2>3. log \in Seq(Seq(Hash \X Nat)) /\ Len(log) \in Nat
    BY <1>0 DEF TypeOK
  <2> QED
    BY <2>1, <2>2, <2>3, <1>0, <1>1, OrderFacts
<1>3. \A m \in Num : pc'[m] = IF m = n THEN "ended" ELSE pc[m]
  BY <1>0 DEF TypeOK
<1>4. \A j \in 1 .. i : order.values[j] # Nil
  BY <1>1 DEF CompleteHashes, IndexAssumption
<1>5. \A j \in 1 .. i : Block(vs[j]) \in Seq(Hash \X Nat)
  BY <1>0, <1>1, BlockOwed
<1>6. blocks \in Seq(Seq(Hash \X Nat)) /\ Len(blocks) = i
  <2>1. blocks \in [1 .. i -> Seq(Hash \X Nat)]
    BY <1>5
  <2> QED
    BY <2>1, <1>2, FcnIsSeq
<1>7. \A j \in 1 .. i : blocks[j] = Block(vs[j])
  OBVIOUS
<1> HIDE DEF blocks
<1>8. /\ log' \in Seq(Seq(Hash \X Nat))
      /\ Len(log') = Len(log) + i
      /\ \A q \in 1 .. Len(log) + i :
           log'[q] = IF q <= Len(log) THEN log[q] ELSE blocks[q - Len(log)]
  <2> DEFINE S == Seq(Hash \X Nat)
  <2>1. log \in Seq(S) /\ blocks \in Seq(S) /\ Len(blocks) = i
    BY <1>2, <1>6
  <2> HIDE DEF S
  <2>2. /\ log \o blocks \in Seq(S)
        /\ Len(log \o blocks) = Len(log) + Len(blocks)
        /\ \A q \in 1 .. Len(log) + Len(blocks) :
             (log \o blocks)[q] = IF q <= Len(log) THEN log[q] ELSE blocks[q - Len(log)]
    BY <2>1, ConcatProperties
  <2> QED
    BY <2>1, <2>2, <1>0 DEF S
<1>9. i \in 0 .. L
  BY <1>2
<1>10. /\ OrderInv' /\ order' \in Series(Hash)
       /\ Len(order'.values) = L - i
       /\ \A q \in 1 .. Len(order'.values) : order'.values[q] = order.values[q + i]
  <2>1. /\ TypeOK /\ OrderInv /\ order' = Drop(order, i) /\ UNCHANGED content
        /\ \A j \in 1 .. i : order.values[j] # Nil
        /\ \A m \in Num : pc[m] = "new" <=> pc'[m] = "new"
        /\ failed => failed'
        /\ ~failed' => Len(log') = Len(log) + i
    BY <1>0, <1>3, <1>4, <1>8
  <2>2. i \in 0 .. Len(order.values)
    BY <1>9
  <2> HIDE DEF L
  <2> QED
    BY <2>1, <2>2, DropInd DEF L
<1>11. TypeOK'
  BY <1>0, <1>8, <1>10 DEF TypeOK
<1>12. FinalsInv'
  BY <1>0, <1>3, FinalsType DEF FinalsInv
<1>13. ChunkInv'
  BY <1>0, <1>3 DEF ChunkInv
<1>14. HeadInv'
  <2>1. CompleteHashes' = CompleteHashes
    BY <1>0 DEF CompleteHashes
  <2>2. ASSUME Len(order'.values) > 0 PROVE order'.values[1] \notin CompleteHashes
    <3>1. 1 \in 1 .. Len(order'.values) /\ i < L /\ 1 + i = i + 1
      BY <2>2, <1>2, <1>10
    <3> QED
      BY <3>1, <1>1, <1>10
  <2> QED
    BY <2>1, <2>2 DEF HeadInv
<1>15. LogIsPrefix'
  <2> SUFFICES ASSUME ~failed
               PROVE  /\ Len(log') <= N
                      /\ \A q \in 1 .. Len(log') : log'[q] = OwedLines(content[q - 1])
    BY <1>0 DEF LogIsPrefix
  <2>1. order.start = Len(log) /\ order.start + L <= N /\ N \in Nat
    BY <1>0 DEF OrderInv, IndexAssumption
  <2>2. Len(log') <= N
    BY <2>1, <1>2, <1>8
  <2>3. ASSUME NEW q \in 1 .. Len(log') PROVE log'[q] = OwedLines(content[q - 1])
    <3>1. CASE q <= Len(log)
      <4>1. q \in 1 .. Len(log) /\ log'[q] = log[q]
        BY <3>1, <1>2, <1>8
      <4> QED
        BY <4>1, <1>0 DEF LogIsPrefix
    <3>2. CASE ~(q <= Len(log))
      <4> DEFINE j == q - Len(log)
      <4>1. j \in 1 .. i /\ j \in 1 .. L /\ log'[q] = blocks[j] /\ order.start + j - 1 = q - 1
        BY <3>2, <2>1, <1>2, <1>8
      <4>2. log'[q] = Block(vs[j]) /\ vs[j] \in CompleteHashes
        BY <4>1, <1>1, <1>7
      <4>3. vs[j] = content[q - 1]
        BY <4>1, <1>1, <1>2, <1>4
      <4>4. Block(vs[j]) = OwedLines(vs[j])
        BY <4>2, <1>0, BlockOwed
      <4> QED
        BY <4>2, <4>3, <4>4
    <3> QED
      BY <3>1, <3>2
  <2> QED
    BY <2>2, <2>3
<1> QED
  BY <1>10, <1>11, <1>12, <1>13, <1>14, <1>15 DEF IndInv

LEMMA FlushErrorInd ==
  ASSUME IndexAssumption, IndInv, NEW n \in Num, FlushError(n)
  PROVE  IndInv'
<1> DEFINE vs == Sorted(order)
           stop == PrefixLen(vs, CompleteHashes)
           L == Len(order.values)
           S == Seq(Hash \X Nat)
<1>0. /\ TypeOK /\ OrderInv /\ FinalsInv /\ ChunkInv
      /\ pc[n] = "flushing" /\ failed' = TRUE
      /\ pc' = [pc EXCEPT ![n] = "ended"]
      /\ UNCHANGED <<content, todo, finals>>
  BY DEF FlushError, IndInv
<1>1. /\ vs \in Seq(Hash)
      /\ stop \in 0 .. Len(vs) /\ Len(vs) <= L
      /\ \A j \in 1 .. stop : vs[j] = order.values[j] /\ vs[j] \in CompleteHashes
  BY <1>0, FlushRun
<1>20. PICK i \in 0 .. stop - 1 : \E lines \in 0 .. Len(Block(vs[i + 1])) - 1 :
        /\ log' = log \o [j \in 1 .. i |-> Block(vs[j])]
                      \o <<SubSeq(Block(vs[i + 1]), 1, lines)>>
        /\ order' = Drop(order, i)
  BY DEF FlushError
<1>2. PICK lines \in 0 .. Len(Block(vs[i + 1])) - 1 :
        /\ log' = log \o [j \in 1 .. i |-> Block(vs[j])]
                      \o <<SubSeq(Block(vs[i + 1]), 1, lines)>>
        /\ order' = Drop(order, i)
  BY <1>20
<1> DEFINE blocks == [j \in 1 .. i |-> Block(vs[j])]
           last == SubSeq(Block(vs[i + 1]), 1, lines)
<1>3. L \in Nat /\ Len(vs) \in Nat /\ log \in Seq(S)
  BY <1>0, <1>1, OrderFacts DEF TypeOK
<1> HIDE DEF vs, stop, L, S
<1>4. /\ i \in Nat /\ i \in 0 .. L /\ i + 1 \in 1 .. stop
      /\ \A j \in 1 .. i : j \in 1 .. stop
  BY <1>1, <1>3
<1>5. \A m \in Num : pc'[m] = IF m = n THEN "ended" ELSE pc[m]
  BY <1>0 DEF TypeOK
<1>6. \A j \in 1 .. stop : Block(vs[j]) \in S
  BY <1>0, <1>1, BlockOwed DEF S
<1>7. blocks \in Seq(S)
  <2>1. blocks \in [1 .. i -> S]
    BY <1>4, <1>6
  <2> QED
    BY <2>1, <1>4, FcnIsSeq
<1>8. last \in S
  <2> DEFINE b == Block(vs[i + 1])
  <2>1. b \in Seq(Hash \X Nat)
    BY <1>4, <1>6 DEF S
  <2> HIDE DEF b
  <2>2. lines \in 0 .. Len(b) - 1 /\ Len(b) \in Nat
    BY <2>1 DEF b
  <2>3. \A q \in 1 .. lines : b[q] \in Hash \X Nat
    BY <2>1, <2>2
  <2>4. SubSeq(b, 1, lines) \in Seq(Hash \X Nat)
    BY <2>2, <2>3, SubSeqProperties
  <2> QED
    BY <2>4 DEF b, S
<1> HIDE DEF blocks, last
<1>9. log' \in Seq(S)
  <2>1. log' = (log \o blocks) \o <<last>>
    BY <1>2 DEF blocks, last
  <2>2. log \o blocks \in Seq(S) /\ <<last>> \in Seq(S)
    BY <1>3, <1>7, <1>8
  <2> QED
    BY <2>1, <2>2
<1>10. OrderInv' /\ order' \in Series(Hash)
  <2>1. \A j \in 1 .. i : order.values[j] # Nil
    BY <1>1, <1>4 DEF CompleteHashes, IndexAssumption
  <2>2. \A m \in Num : pc[m] = "new" <=> pc'[m] = "new"
    BY <1>0, <1>5
  <2>3. i \in 0 .. Len(order.values)
    BY <1>4 DEF L
  <2> QED
    BY <2>1, <2>2, <2>3, <1>0, <1>2, DropInd
<1>11. TypeOK'
  BY <1>0, <1>9, <1>10 DEF TypeOK, S
<1>12. FinalsInv'
  BY <1>0, <1>5, FinalsType DEF FinalsInv
<1>13. ChunkInv'
  BY <1>0, <1>5 DEF ChunkInv
<1> QED
  BY <1>0, <1>10, <1>11, <1>12, <1>13 DEF IndInv, LogIsPrefix

-----------------------------------------------------------------------------
(* The theorems.                                                           *)

LEMMA NextInd == ASSUME IndexAssumption, IndInv, [Next]_vars PROVE IndInv'
<1>1. CASE UNCHANGED vars
  BY <1>1 DEF vars, IndInv, TypeOK, OrderInv, FinalsInv, ChunkInv, HeadInv,
              LogIsPrefix, CompleteHashes
<1>2. ASSUME NEW n \in Num, Step(n) PROVE IndInv'
  <2>1. CASE SetOrder(n)
    BY <2>1, SetOrderInd
  <2>2. CASE Register(n)
    BY <2>2, RegisterInd
  <2>3. CASE FailBefore(n)
    BY <2>3, FailBeforeInd
  <2>4. CASE \E k \in todo[n] : ProcessFinal(n, k)
    BY <2>4, ProcessFinalInd
  <2>5. CASE \E k \in todo[n] : FailFinal(n, k)
    BY <2>5, FailFinalInd
  <2>6. CASE SetFinalsComplete(n)
    BY <2>6, SetFinalsCompleteInd
  <2>7. CASE Flush(n)
    BY <2>7, FlushInd
  <2>8. CASE FlushError(n)
    BY <2>8, FlushErrorInd
  <2> QED
    BY <2>1, <2>2, <2>3, <2>4, <2>5, <2>6, <2>7, <2>8, <1>2 DEF Step
<1> QED
  BY <1>1, <1>2 DEF Next, Returned

THEOREM Invariance == Spec => []IndInv
<1>1. Init => IndInv
  BY InitInd, IndexAssumption
<1>2. IndInv /\ [Next]_vars => IndInv'
  BY NextInd, IndexAssumption
<1> QED
  BY <1>1, <1>2, PTL DEF Spec

\* The state of the index proc always has its type.
THEOREM TypeCorrect == Spec => []TypeOK
<1>1. IndInv => TypeOK
  BY DEF IndInv
<1> QED
  BY <1>1, Invariance, PTL

\* For any seed, the index written so far is the head of the index the seed
\* calls for unless an error was reported (indexProc.flush).
THEOREM LogCorrect == Spec => []LogIsPrefix
<1>1. IndInv => LogIsPrefix
  BY DEF IndInv
<1> QED
  BY <1>1, Invariance, PTL

\* Series.Add never panics in the index proc.
THEOREM AddNeverPanics == Spec => []NeverLate
<1>1. IndInv => NeverLate
  <2> SUFFICES ASSUME IndInv, NEW n \in Num, pc[n] = "new" PROVE CanAdd(order, n)
    BY DEF NeverLate
  <2>1. n \in Nat /\ order.start \in Nat /\ ~(n < order.start)
    BY DEF IndInv, OrderInv, TypeOK, Series, Num
  <2> QED
    BY <2>1 DEF CanAdd
<1> QED
  BY <1>1, Invariance, PTL

\* ProcessFinal never refuses a final that a Chain brings it.
THEOREM FinalsAccepted == Spec => []NoRefusal
<1>1. IndInv => NoRefusal
  <2> SUFFICES ASSUME IndInv, NEW n \in Num, pc[n] = "open" PROVE AcceptsFinal(n)
    BY DEF NoRefusal
  <2>1. content[n] \in Hash
    BY DEF IndInv, TypeOK
  <2>2. finals[content[n]] # Nil /\ finals[content[n]].num = n
    BY DEF IndInv, ChunkInv
  <2>3. finals[content[n]].complete <=> pc[finals[content[n]].num] # "open"
    BY <2>1, <2>2 DEF IndInv, FinalsInv
  <2> QED
    BY <2>2, <2>3 DEF AcceptsFinal
<1> QED
  BY <1>1, Invariance, PTL

\* A run without errors ends with the whole index written, and Finish says so.
THEOREM CleanRunCorrect == Spec => []CleanRunIsWhole
<1>1. IndInv => CleanRunIsWhole
  <2> SUFFICES ASSUME IndInv, AllEnded, ~failed
               PROVE  Len(log) = N /\ ~FinishErrShort
    BY DEF CleanRunIsWhole
  <2> DEFINE L == Len(order.values)
  <2>1. TypeOK /\ OrderInv /\ FinalsInv /\ ChunkInv /\ HeadInv
    BY DEF IndInv
  <2>2. \A m \in Num : pc[m] = "ended"
    BY DEF AllEnded
  <2>3. L \in Nat /\ (L > 0 => order.start + 1 - 1 \in Num /\ order.values[1] # Nil
                             /\ order.values[1] = content[order.start + 1 - 1])
    <3>1. /\ L \in Nat
          /\ \A i \in 1 .. L : order.start + i - 1 \in Num
          /\ \A i \in 1 .. L : order.values[i] # Nil =>
               order.values[i] = content[order.start + i - 1]
          /\ \A i \in 1 .. L : order.values[i] = Nil => pc[order.start + i - 1] = "new"
      BY <2>1, OrderFacts, IndexAssumption
    <3>2. L > 0 => 1 \in 1 .. L
      BY <3>1
    <3> QED
      BY <3>1, <3>2, <2>2
  <2>4. ASSUME L > 0 PROVE FALSE
    <3> DEFINE m == order.start + 1 - 1
               h == content[m]
    <3>1. m \in Num /\ order.values[1] = h /\ h \in Hash
      BY <2>1, <2>3, <2>4 DEF TypeOK
    <3>2. finals[h] # Nil
      BY <3>1, <2>1, <2>2 DEF ChunkInv
    <3>3. finals[h].num \in Num
      BY <3>1, <3>2, <2>1, FinalsType, IndexAssumption
    <3>4. finals[h].complete
      BY <3>1, <3>2, <3>3, <2>1, <2>2 DEF FinalsInv
    <3>5. h \in CompleteHashes
      BY <3>1, <3>2, <3>4 DEF CompleteHashes
    <3> HIDE DEF h
    <3> QED
      BY <3>1, <3>5, <2>1, <2>2, <2>4 DEF HeadInv
  <2>5. L = 0
    BY <2>3, <2>4
  <2>6. /\ Len(log) \in Nat /\ N \in Nat /\ Len(log) + L <= N
        /\ \A m \in Num : m < Len(log) + L
    <3>1. N \in Nat
      BY IndexAssumption DEF IndexAssumption
    <3>2. log \in Seq(Seq(Hash \X Nat))
      BY <2>1 DEF TypeOK
    <3>3. Len(log) \in Nat
      BY <3>2
    <3>4. /\ order.start + L <= N
          /\ order.start = Len(log)
          /\ \A m \in Num : pc[m] # "new" => m < order.start + L
      BY <2>1, <2>2 DEF OrderInv
    <3> HIDE DEF L
    <3> QED
      BY <3>1, <3>3, <3>4, <2>2
  <2>7. Len(log) = N
    <3>1. CASE N = 0
      BY <3>1, <2>5, <2>6
    <3>2. CASE N > 0
      <4>1. N - 1 \in Num
        BY <3>2, <2>6 DEF Num
      <4> QED
        BY <4>1, <2>5, <2>6
    <3> QED
      BY <3>1, <3>2, <2>6
  <2> QED
    BY <2>5, <2>7 DEF FinishErrShort, SeriesLen
<1> QED
  BY <1>1, Invariance, PTL

-----------------------------------------------------------------------------
(* Refinement.                                                             *)

\* Whatever the step, the seed stays, errors stay, and the log only grows.
LEMMA LogGrows ==
  ASSUME IndexAssumption, IndInv, Next
  PROVE  /\ content' = content
         /\ failed => failed'
         /\ Len(log) <= Len(log')
         /\ \A j \in 1 .. Len(log) : log'[j] = log[j]
<1> DEFINE Goal == /\ content' = content /\ (failed => failed')
                   /\ Len(log) <= Len(log')
                   /\ \A j \in 1 .. Len(log) : log'[j] = log[j]
           T == Seq(Hash \X Nat)
<1>1. TypeOK /\ FinalsInv /\ ChunkInv /\ log \in Seq(T)
  BY DEF IndInv, TypeOK
<1>2. ASSUME NEW more \in Seq(T), log' = log \o more,
             content' = content, failed => failed'
      PROVE  Goal
  BY <1>1, <1>2
<1>3. ASSUME log' = log, content' = content, failed => failed' PROVE Goal
  BY <1>1, <1>3
<1>4. ASSUME NEW n \in Num, Step(n) PROVE Goal
  <2>1. CASE SetOrder(n)
    BY <2>1, <1>3 DEF SetOrder
  <2>2. CASE Register(n)
    BY <2>2, <1>3 DEF Register
  <2>3. CASE FailBefore(n)
    BY <2>3, <1>3 DEF FailBefore
  <2>4. ASSUME NEW k \in todo[n], ProcessFinal(n, k) PROVE Goal
    BY <2>4, <1>3 DEF ProcessFinal
  <2>5. ASSUME NEW k \in todo[n], FailFinal(n, k) PROVE Goal
    BY <2>5, <1>3 DEF FailFinal
  <2>6. CASE SetFinalsComplete(n)
    BY <2>6, <1>3 DEF SetFinalsComplete
  <2> DEFINE vs == Sorted(order)
             stop == PrefixLen(vs, CompleteHashes)
  <2>7. stop \in Nat /\ \A j \in 1 .. stop : vs[j] \in CompleteHashes
    BY <1>1, FlushRun
  <2>8. \A j \in 1 .. stop : Block(vs[j]) \in T
    BY <1>1, <2>7, BlockOwed
  <2>9. CASE Flush(n)
    <3>1. /\ log' = log \o [j \in 1 .. stop |-> Block(vs[j])]
          /\ UNCHANGED <<content, failed>>
      BY <2>9 DEF Flush
    <3> HIDE DEF vs, stop, T
    <3>2. [j \in 1 .. stop |-> Block(vs[j])] \in Seq(T)
      BY <2>7, <2>8
    <3> QED
      BY <3>1, <3>2, <1>2
  <2>10. CASE FlushError(n)
    <3>1. PICK i \in 0 .. stop - 1 : \E l \in 0 .. Len(Block(vs[i + 1])) - 1 :
            log' = log \o [j \in 1 .. i |-> Block(vs[j])]
                       \o <<SubSeq(Block(vs[i + 1]), 1, l)>>
      BY <2>10 DEF FlushError
    <3>2. PICK l \in 0 .. Len(Block(vs[i + 1])) - 1 :
            log' = log \o [j \in 1 .. i |-> Block(vs[j])]
                       \o <<SubSeq(Block(vs[i + 1]), 1, l)>>
      BY <3>1
    <3>3. content' = content /\ failed'
      BY <2>10 DEF FlushError
    <3> DEFINE head == [j \in 1 .. i |-> Block(vs[j])]
               bad  == Block(vs[i + 1])
               tail == <<SubSeq(bad, 1, l)>>
    <3>4. bad \in T
      <4>1. i + 1 \in 1 .. stop
        BY <2>7
      <4> QED
        BY <4>1, <2>8
    <3>5. log' = (log \o head) \o tail
      BY <3>2
    <3>10. l \in 0 .. Len(bad) - 1
      OBVIOUS
    <3> HIDE DEF vs, stop, bad
    <3>6. head \in Seq(T)
      <4>1. \A j \in 1 .. i : j \in 1 .. stop
        BY <2>7
      <4> QED
        BY <4>1, <2>8, <2>7
    <3> HIDE DEF head
    <3>7. SubSeq(bad, 1, l) \in T
      <4>1. l <= Len(bad) /\ 0 <= l
        <5>1. Len(bad) \in Nat
          BY <3>4
        <5> QED
          BY <3>10, <5>1
      <4> QED
        BY <3>4, <4>1
    <3>8. tail \in Seq(T)
      BY <3>7
    <3> HIDE DEF tail, T
    <3>9. (log \o head) \o tail = log \o (head \o tail) /\ head \o tail \in Seq(T)
      <4>1. log \in Seq(T) /\ head \in Seq(T) /\ tail \in Seq(T)
        BY <1>1, <3>6, <3>8
      <4>2. head \o tail \in Seq(T)
        BY <4>1
      <4>3. (log \o head) \o tail = log \o (head \o tail)
        BY <4>1, SMTT(60)
      <4> QED
        BY <4>2, <4>3
    <3> QED
      BY <3>3, <3>5, <3>9, <1>2
  <2> QED
    BY <1>4, <2>1, <2>2, <2>3, <2>4, <2>5, <2>6, <2>9, <2>10 DEF Step
<1> QED
  <2>1. CASE \E n \in Num : Step(n)
    BY <1>4, <2>1
  <2>2. CASE Returned
    BY <2>2, <1>3 DEF Returned, vars
  <2> QED
    BY <2>1, <2>2 DEF Next

\* The index proc implements IndexLog: for any seed, any number of chunks,
\* contents and finals and with errors anywhere, a step either leaves the log
\* alone, writes the blocks of the next chunks of the seed, or is a failure
\* that at most appends.
THEOREM Refines == Spec => ImplementsIndexLog
<1>1. Init => Abstract!LogInit
  BY DEF Init, Abstract!LogInit, Num
<1>2. ASSUME IndInv, IndInv', [Next]_vars
      PROVE  [Abstract!LogNext]_(Abstract!logVars)
  <2>1. CASE UNCHANGED vars
    BY <2>1 DEF vars, Abstract!logVars
  <2>2. CASE Next
    <3>1. /\ content' = content
          /\ failed => failed'
          /\ Len(log) <= Len(log')
          /\ \A j \in 1 .. Len(log) : log'[j] = log[j]
      BY <1>2, <2>2, LogGrows, IndexAssumption
    <3>2. CASE failed'
      BY <3>1, <3>2 DEF Abstract!LogNext, Abstract!Fail, Abstract!Grows
    <3>3. CASE ~failed'
      <4> DEFINE T == Seq(Hash \X Nat)
      <4>1. log \in Seq(T) /\ log' \in Seq(T) /\ failed \in BOOLEAN /\ failed' \in BOOLEAN
        BY <1>2 DEF IndInv, TypeOK
      <4>2. /\ Len(log') <= N
            /\ \A j \in 1 .. Len(log') : log'[j] = OwedLines(content[j - 1])
        <5>1. LogIsPrefix'
          BY <1>2 DEF IndInv
        <5> QED
          BY <5>1, <3>1, <3>3 DEF LogIsPrefix
      <4> DEFINE L == Len(log)
                 M == Len(log')
      <4>3. L \in Nat /\ M \in Nat /\ L <= M /\ N \in Nat
        BY <4>1, <3>1, IndexAssumption DEF IndexAssumption
      <4>4. CASE M = L
        <5>1. log' = log
          <6>1. /\ log = [j \in 1 .. L |-> log[j]]
                /\ log' = [j \in 1 .. M |-> log'[j]]
            BY <4>1
          <6>2. \A j \in 1 .. L : log'[j] = log[j]
            BY <3>1
          <6> HIDE DEF L, M
          <6> QED
            BY <6>1, <6>2, <4>4
        <5> QED
          BY <5>1, <3>1, <3>3, <4>1 DEF Abstract!logVars
      <4>5. CASE M # L
        <5>1. M \in L + 1 .. N
          BY <4>2, <4>3, <4>5
        <5>2. log' = [j \in 1 .. M |-> OwedLines(content[j - 1])]
          BY <4>1, <4>2
        <5>3. ~failed /\ failed' = failed
          BY <3>1, <3>3, <4>1
        <5> HIDE DEF M, L
        <5>4. \E m \in Len(log) + 1 .. N :
                log' = [j \in 1 .. m |-> OwedLines(content[j - 1])]
          BY <5>1, <5>2 DEF L
        <5> QED
          BY <5>3, <5>4, <3>1 DEF Abstract!LogNext, Abstract!Publish
      <4> QED
        BY <4>4, <4>5
    <3> QED
      BY <3>2, <3>3
  <2> QED
    BY <1>2, <2>1, <2>2
<1> QED
  BY <1>1, <1>2, Invariance, PTL DEF Spec, ImplementsIndexLog, Abstract!LogSpec
-----------------------------------------------------------------------------
(* Runs end.                                                               *)

\* The finals that are to arrive for a chunk are of its content.
TodoInv == \A n \in Num : todo[n] \subseteq FinalsOf(content[n])

\* How a step of chunk n leaves the others, and how it goes on itself.
LEMMA StepMoves ==
  ASSUME TypeOK, NEW n \in Num, Step(n)
  PROVE  /\ UNCHANGED content
         /\ \A m \in Num : m # n => pc'[m] = pc[m] /\ todo'[m] = todo[m]
         /\ \/ pc[n] = "new" /\ pc'[n] = "ordered" /\ todo'[n] = todo[n]
            \/ /\ pc[n] = "ordered" /\ pc'[n] = "open"
               /\ todo'[n] = FinalsOf(content[n])
            \/ pc[n] = "ordered" /\ pc'[n] = "dup" /\ todo'[n] = todo[n]
            \/ /\ pc[n] = "open" /\ pc'[n] = "open"
               /\ \E k \in todo[n] : todo'[n] = todo[n] \ {k}
            \/ pc[n] \in {"open", "dup"} /\ pc'[n] = "flushing" /\ todo'[n] = todo[n]
            \/ pc[n] \in {"new", "flushing"} /\ pc'[n] = "ended" /\ todo'[n] = todo[n]
<1>1. /\ pc \in [Num -> {"new", "ordered", "open", "dup", "flushing", "ended"}]
      /\ todo \in [Num -> SUBSET Nat]
  BY DEF TypeOK
<1>2. CASE SetOrder(n)
  BY <1>1, <1>2 DEF SetOrder
<1>3. CASE Register(n)
  <2>1. CASE finals[content[n]] = Nil
    BY <1>1, <1>3, <2>1 DEF Register
  <2>2. CASE finals[content[n]] # Nil
    BY <1>1, <1>3, <2>2 DEF Register
  <2> QED
    BY <2>1, <2>2
<1>4. CASE FailBefore(n)
  BY <1>1, <1>4 DEF FailBefore
<1>5. ASSUME NEW k \in todo[n], ProcessFinal(n, k) \/ FailFinal(n, k)
      PROVE  /\ UNCHANGED content
             /\ \A m \in Num : m # n => pc'[m] = pc[m] /\ todo'[m] = todo[m]
             /\ pc[n] = "open" /\ pc'[n] = "open" /\ todo'[n] = todo[n] \ {k}
  <2>1. /\ todo' = [todo EXCEPT ![n] = todo[n] \ {k}] /\ UNCHANGED <<content, pc>>
        /\ pc[n] = "open"
    BY <1>5 DEF ProcessFinal, FailFinal
  <2> QED
    BY <1>1, <2>1
<1>6. CASE SetFinalsComplete(n)
  BY <1>1, <1>6 DEF SetFinalsComplete
<1>7. CASE Flush(n) \/ FlushError(n)
  BY <1>1, <1>7 DEF Flush, FlushError
<1> QED
  BY <1>2, <1>3, <1>4, <1>5, <1>6, <1>7 DEF Step

LEMMA TodoInd == ASSUME TypeOK, TodoInv, [Next]_vars PROVE TodoInv'
<1>1. CASE UNCHANGED vars \/ Returned
  BY <1>1 DEF TodoInv, Returned, vars
<1>2. ASSUME NEW n \in Num, Step(n) PROVE TodoInv'
  <2>1. UNCHANGED content /\ \A m \in Num : m # n => todo'[m] = todo[m]
    BY <1>2, StepMoves
  <2>2. todo'[n] \subseteq todo[n] \/ todo'[n] = FinalsOf(content[n])
    BY <1>2, StepMoves
  <2> QED
    BY <2>1, <2>2 DEF TodoInv
<1> QED
  BY <1>1, <1>2 DEF Next

LEMMA StepShrinks ==
  ASSUME IndexAssumption, TypeOK, TodoInv, NEW n \in Num, Step(n)
  PROVE  Shrinks
<1> DEFINE A == UNION {{m} \X FinalsOf(content[m]) : m \in Num}
<1>1. /\ UNCHANGED content
      /\ \A m \in Num : m # n => pc'[m] = pc[m] /\ todo'[m] = todo[m]
  BY StepMoves
<1>2. \A m \in Num : m # n => Stage(m)' = Stage(m)
  BY <1>1 DEF Stage
<1>3. ASSUME NEW x \in FinalsLeft' PROVE x \in A /\ x[1] \in Num
  <2>1. x \in UNION {{m} \X FinalsOf(content[m]) : m \in Num}
    BY <1>1, <1>3 DEF FinalsLeft
  <2>2. PICK m \in Num : x \in {m} \X FinalsOf(content[m])
    BY <2>1
  <2>3. x[1] = m
    BY <2>2
  <2> QED
    BY <2>1, <2>2, <2>3
<1>4. \A x \in A : x[1] \in Num /\ x[2] \in FinalsOf(content[x[1]])
  <2> SUFFICES ASSUME NEW x \in A PROVE x[1] \in Num /\ x[2] \in FinalsOf(content[x[1]])
    OBVIOUS
  <2>1. PICK m \in Num : x \in {m} \X FinalsOf(content[m])
    OBVIOUS
  <2>2. x[1] = m
    BY <2>1
  <2>3. x[2] \in FinalsOf(content[m])
    BY <2>1
  <2> QED
    BY <2>2, <2>3
<1>5. \A k \in FinalsOf(content[n]) : <<n, k>> \in A
  OBVIOUS
<1>6. FinalsLeft = {x \in A : pc[x[1]] \in {"new", "ordered"} \/ x[2] \in todo[x[1]]}
  BY DEF FinalsLeft
<1> HIDE DEF A
<1>7. FinalsLeft' \subseteq FinalsLeft
  <2> SUFFICES ASSUME NEW x \in FinalsLeft' PROVE x \in FinalsLeft
    OBVIOUS
  <2>1. /\ x \in A /\ x[1] \in Num /\ x[2] \in FinalsOf(content[x[1]])
        /\ pc'[x[1]] \in {"new", "ordered"} \/ x[2] \in todo'[x[1]]
    BY <1>3, <1>4 DEF FinalsLeft
  <2>2. pc[x[1]] \in {"new", "ordered"} \/ x[2] \in todo[x[1]]
    <3>1. CASE x[1] # n
      BY <1>1, <2>1, <3>1
    <3>2. CASE x[1] = n
      <4>1. pc'[n] \in {"new", "ordered"} \/ x[2] \in todo'[n]
        BY <2>1, <3>2
      <4>2. \/ pc[n] \in {"new", "ordered"}
            \/ pc'[n] \notin {"new", "ordered"} /\ todo'[n] \subseteq todo[n]
        BY StepMoves
      <4> QED
        BY <3>2, <4>1, <4>2
    <3> QED
      BY <3>1, <3>2
  <2> QED
    BY <1>6, <2>1, <2>2
<1>8. CASE \E k \in todo[n] : /\ pc[n] = "open" /\ pc'[n] = "open"
                              /\ todo'[n] = todo[n] \ {k}
  <2>1. PICK k \in todo[n] : pc[n] = "open" /\ pc'[n] = "open" /\ todo'[n] = todo[n] \ {k}
    BY <1>8
  <2>2. Stage(n)' = Stage(n)
    BY <2>1 DEF Stage
  <2>3. \A m \in Num : Stage(m)' = Stage(m)
    BY <1>2, <2>2
  <2>4. StagesLeft' = StagesLeft
    <3>1. \A x \in Num \X (1 .. 4) : x[1] \in Num
      OBVIOUS
    <3>2. \A x \in Num \X (1 .. 4) : Stage(x[1])' = Stage(x[1])
      BY <2>3, <3>1
    <3> QED
      BY <3>2 DEF StagesLeft
  <2> DEFINE x == <<n, k>>
  <2>5. x \in A /\ x[1] = n /\ x[2] = k
    BY <1>5, <2>1 DEF TodoInv
  <2> HIDE DEF x
  <2>6. x \in FinalsLeft
    BY <1>6, <2>1, <2>5
  <2>7. x \notin FinalsLeft'
    BY <2>1, <2>5 DEF FinalsLeft
  <2> QED
    BY <1>7, <2>4, <2>6, <2>7 DEF Shrinks
<1>9. CASE ~ \E k \in todo[n] : /\ pc[n] = "open" /\ pc'[n] = "open"
                                /\ todo'[n] = todo[n] \ {k}
  <2>1. /\ Stage(n) \in 0 .. 4 /\ Stage(n)' \in 0 .. 4 /\ Stage(n)' < Stage(n)
    <3>1. \/ pc[n] = "new" /\ pc'[n] = "ordered"
          \/ pc[n] = "ordered" /\ pc'[n] \in {"open", "dup"}
          \/ pc[n] \in {"open", "dup"} /\ pc'[n] = "flushing"
          \/ pc[n] \in {"new", "flushing"} /\ pc'[n] = "ended"
      BY <1>9, StepMoves
    <3> QED
      BY <3>1 DEF Stage
  <2>2. PICK r \in 0 .. 4 : r = Stage(n)
    BY <2>1
  <2> DEFINE x == <<n, r>>
  <2>3. x \in Num \X (1 .. 4) /\ x[1] = n /\ x[2] = r
    BY <2>1, <2>2
  <2> HIDE DEF x
  <2>4. x \in StagesLeft
    BY <2>2, <2>3 DEF StagesLeft
  <2>5. x \notin StagesLeft'
    <3> SUFFICES ASSUME x \in StagesLeft' PROVE FALSE
      OBVIOUS
    <3>1. x[2] <= Stage(x[1])'
      BY DEF StagesLeft
    <3>2. Stage(x[1])' = Stage(n)'
      BY <2>3
    <3> QED
      BY <2>1, <2>2, <2>3, <3>1, <3>2
  <2>6. StagesLeft' \subseteq StagesLeft
    <3> SUFFICES ASSUME NEW y \in StagesLeft' PROVE y \in StagesLeft
      OBVIOUS
    <3>1. y \in Num \X (1 .. 4) /\ y[1] \in Num /\ y[2] \in 1 .. 4
      BY DEF StagesLeft
    <3>2. PICK m \in Num, j \in 1 .. 4 : m = y[1] /\ j = y[2]
      BY <3>1
    <3>3. j <= Stage(m)'
      <4>1. y[2] <= Stage(y[1])'
        BY DEF StagesLeft
      <4>2. Stage(y[1])' = Stage(m)'
        BY <3>2
      <4> QED
        BY <3>2, <4>1, <4>2
    <3>4. j <= Stage(m)
      <4>1. CASE m = n
        <5>1. Stage(m)' = Stage(n)' /\ Stage(m) = Stage(n)
          BY <4>1
        <5> QED
          BY <2>1, <3>3, <5>1
      <4>2. CASE m # n
        BY <1>2, <3>3, <4>2
      <4> QED
        BY <4>1, <4>2
    <3> QED
      BY <3>1, <3>2, <3>4 DEF StagesLeft
  <2> QED
    BY <1>7, <2>4, <2>5, <2>6 DEF Shrinks
<1> QED
  BY <1>8, <1>9

\* No chunk's way through the chain goes on for ever, whatever fails and however
\* many finals come.
THEOREM OnlySoManySteps == Spec => [][Shrinks]_vars
<1>1. Init => TodoInv
  BY DEF Init, TodoInv
<1>2. TypeOK /\ TodoInv /\ [Next]_vars => TodoInv'
  BY TodoInd
<1>3. TypeOK /\ TodoInv /\ [Next]_vars => [Shrinks]_vars
  BY StepShrinks, IndexAssumption DEF Next, Returned
<1> QED
  BY <1>1, <1>2, <1>3, TypeCorrect, PTL DEF Spec

LEMMA LeftIsFinite ==
  ASSUME IndexAssumption, TypeOK
  PROVE  IsFiniteSet(StagesLeft) /\ IsFiniteSet(FinalsLeft)
<1> DEFINE F == [n \in Num |-> {n} \X FinalsOf(content[n])]
           T == {{n} \X FinalsOf(content[n]) : n \in Num}
<1>1. IsFiniteSet(Num)
  <2>1. 0 \in Int /\ N - 1 \in Int
    BY DEF IndexAssumption
  <2> QED
    BY <2>1, FS_Interval DEF Num
<1>2. IsFiniteSet(T)
  <2>1. F \in Surjection(Num, T)
    BY DEF Surjection
  <2> HIDE DEF F, T
  <2> QED
    BY <1>1, <2>1, FS_Surjection
<1>3. ASSUME NEW n \in Num PROVE IsFiniteSet({n} \X FinalsOf(content[n]))
  <2>1. 1 \in Int /\ NFinals[content[n]] \in Int
    BY DEF IndexAssumption, TypeOK
  <2>2. IsFiniteSet(FinalsOf(content[n]))
    BY <2>1, FS_Interval DEF FinalsOf
  <2>3. IsFiniteSet({n})
    BY FS_Singleton
  <2> QED
    BY <2>2, <2>3, FS_Product
<1>4. \A S \in T : IsFiniteSet(S)
  BY <1>3
<1>5. FinalsLeft \in SUBSET UNION T
  BY DEF FinalsLeft
<1> HIDE DEF T
<1>6. IsFiniteSet(UNION T)
  BY <1>2, <1>4, FS_UNION
<1>7. IsFiniteSet(Num \X (1 .. 4))
  <2>1. 1 \in Int /\ 4 \in Int
    OBVIOUS
  <2>2. IsFiniteSet(1 .. 4)
    BY <2>1, FS_Interval
  <2> QED
    BY <1>1, <2>2, FS_Product
<1>8. StagesLeft \in SUBSET (Num \X (1 .. 4))
  BY DEF StagesLeft
<1> QED
  BY <1>5, <1>6, <1>7, <1>8, FS_Subset

\* What is left of them is finite.
THEOREM LeftFinite == Spec => [](IsFiniteSet(StagesLeft) /\ IsFiniteSet(FinalsLeft))
<1>1. TypeOK => IsFiniteSet(StagesLeft) /\ IsFiniteSet(FinalsLeft)
  BY LeftIsFinite, IndexAssumption
<1> QED
  BY <1>1, TypeCorrect, PTL
=============================================================================
