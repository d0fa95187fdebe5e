----------------------------- MODULE StripeProofs -----------------------------
(***************************************************************************)
(* What S.Stripe guarantees, for any number of chunks and stores, any      *)
(* copies made before and any min and excl.                                *)
(***************************************************************************)
EXTENDS Stripe, FiniteSetTheorems, TLAPS

LEMMA LocFinite ==
  ASSUME StripeAssumption, NEW S \in SUBSET Loc
  PROVE  IsFiniteSet(S) /\ Cardinality(S) \in Nat
<1>1. 0 \in Int /\ L - 1 \in Int
  BY DEF StripeAssumption
<1>2. IsFiniteSet(Loc)
  BY <1>1, FS_Interval DEF Loc
<1> QED
  BY <1>2, FS_Subset, FS_CardinalityType

LEMMA ItemFinite ==
  ASSUME StripeAssumption, NEW S \in SUBSET Item
  PROVE  IsFiniteSet(S) /\ Cardinality(S) \in Nat /\ Cardinality(S) <= K
<1>1. 1 \in Int /\ K \in Int /\ K \in Nat /\ K > 0
  BY DEF StripeAssumption
<1>2. IsFiniteSet(Item) /\ Cardinality(Item) = K
  BY <1>1, FS_Interval DEF Item
<1> QED
  BY <1>2, FS_Subset, FS_CardinalityType

LEMMA ExclusivesType ==
  ASSUME StripeAssumption, NEW r \in Seq(SUBSET Loc), Len(r) <= K
  PROVE  Exclusive(r) \subseteq Item /\ Exclusives(r) \in Nat
<1>1. DOMAIN r \subseteq Item
  BY DEF Item, StripeAssumption
<1>2. Exclusive(r) \subseteq Item
  BY <1>1 DEF Exclusive
<1> QED
  BY <1>2, ItemFinite DEF Exclusives

LEMMA InitInd == ASSUME StripeAssumption, Init PROVE IndInv
<1> USE DEF Init
<1>1. TypeOK
  <2>1. 0 \in Loc /\ 1 \in Item
    BY DEF Loc, Item, StripeAssumption
  <2>2. \A l \in DOMAIN prios : prios[l] \in Nat
    <3>1. \A l : Holders(l) \subseteq Item
      BY DEF Holders
    <3> QED
      BY <3>1, ItemFinite
  <2>3. << {} >> \in Seq(SUBSET Loc)
    OBVIOUS
  <2> QED
    BY <2>1, <2>2, <2>3 DEF TypeOK
<1>2. /\ Len(res) = 1 /\ res[1] = {} /\ Cardinality(res[1]) = 0 /\ it = 1 /\ pass = 0
      /\ min \in Nat
  BY FS_EmptySet DEF StripeAssumption
<1>3. ResInv
  BY <1>2 DEF ResInv
<1>4. ExclInv
  BY <1>2 DEF ExclInv
<1>5. OldInv
  BY <1>2 DEF OldInv
<1> QED
  BY <1>1, <1>3, <1>4, <1>5 DEF IndInv, Enough, LossBound, NothingNeedless

\* The result once what the items had is taken off.
LEMMA FinalResult ==
  ASSUME StripeAssumption, IndInv, status = "running", pass = 1, it = K,
         Cardinality(res[K]) = min,
         res' = [i \in Item |-> res[i] \ got[i]],
         UNCHANGED args
  PROVE  Enough' /\ LossBound' /\ NothingNeedless'
<1> DEFINE C(i) == res'[i] \cup (got[i] \cap dests)
<1>1. /\ TypeOK /\ ResInv /\ ExclInv /\ OldInv
      /\ K \in Nat /\ K > 0 /\ min \in Nat /\ excl \in Nat
      /\ UNCHANGED <<got, dests, min, excl>>
  BY DEF IndInv, TypeOK, args, StripeAssumption
<1>2. /\ Len(res) = K /\ res \in Seq(SUBSET Loc)
      /\ \A i \in Item : /\ res[i] \subseteq dests /\ res[i] \in SUBSET Loc
                         /\ res'[i] = res[i] \ got[i]
                         /\ Cardinality(res[i]) = min
                         /\ got[i] \in SUBSET Loc /\ C(i) \in SUBSET Loc
                         /\ res[i] \subseteq C(i)
  <2>1. Len(res) = K /\ res \in Seq(SUBSET Loc)
    BY <1>1 DEF ResInv, TypeOK
  <2>2. dests \in SUBSET Loc /\ got \in [Item -> SUBSET Loc]
    BY <1>1 DEF TypeOK
  <2>3. ASSUME NEW i \in Item PROVE res[i] \subseteq dests /\ res[i] \in SUBSET Loc
    <3>1. i \in 1 .. Len(res)
      BY <2>1 DEF Item
    <3> QED
      BY <1>1, <2>1, <3>1 DEF ResInv
  <2>4. ASSUME NEW i \in Item PROVE Cardinality(res[i]) = min
    <3>1. CASE i = K
      BY <3>1
    <3>2. CASE i # K
      <4>1. i \in 1 .. it - 1
        BY <1>1, <3>2 DEF Item
      <4> QED
        BY <4>1, <1>1 DEF ResInv
    <3> QED
      BY <3>1, <3>2
  <2>5. \A i \in Item : res'[i] = res[i] \ got[i]
    OBVIOUS
  <2> QED
    BY <2>1, <2>2, <2>3, <2>4, <2>5
<1>3. Enough'
  <2>1. ASSUME NEW i \in Item
        PROVE  Cardinality(C(i)) >= min /\ res'[i] \subseteq dests \ got[i]
    <3>1. IsFiniteSet(C(i)) /\ Cardinality(C(i)) \in Nat
      BY <1>2, LocFinite
    <3>2. Cardinality(res[i]) <= Cardinality(C(i))
      BY <1>2, <3>1, FS_Subset
    <3> QED
      BY <1>1, <1>2, <3>1, <3>2
  <2> QED
    BY <2>1, <1>1 DEF Enough, Copies
<1>4. LossBound'
  <2> SUFFICES ASSUME min > 0, NEW l \in Loc
               PROVE  LET lost == Cardinality({i \in Item : C(i) \subseteq {l}})
                      IN  lost <= 1 \/ lost <= K - excl
    BY <1>1 DEF LossBound, Copies
  <2> DEFINE Lost == {i \in Item : C(i) \subseteq {l}}
             E    == Exclusive(res)
  <2>1. ASSUME NEW i \in Lost PROVE res[i] = {l}
    <3>1. Cardinality(res[i]) # 0
      BY <1>1, <1>2
    <3>2. res[i] # {}
      BY <3>1, FS_EmptySet
    <3>3. res[i] \subseteq {l}
      BY <1>2
    <3> QED
      BY <3>2, <3>3
  <2>2. /\ IsFiniteSet(Lost) /\ Cardinality(Lost) \in Nat /\ Cardinality(Lost) <= K
        /\ E \subseteq Item /\ Cardinality(E) \in Nat /\ Cardinality(E) <= K
    BY <1>2, <1>1, ItemFinite, ExclusivesType
  <2>3. CASE \A i, j \in Lost : i = j
    <3>1. CASE Lost = {}
      <4>1. Cardinality(Lost) = 0
        BY <3>1, FS_EmptySet
      <4> QED
        BY <4>1
    <3>2. CASE Lost # {}
      <4>1. PICK i \in Lost : TRUE
        BY <3>2
      <4>2. Lost = {i}
        BY <4>1, <2>3
      <4>3. Cardinality(Lost) = 1
        BY <4>2, FS_Singleton
      <4> QED
        BY <4>3
    <3> QED
      BY <3>1, <3>2
  <2>4. ASSUME NEW i \in Lost, NEW j \in Lost, i # j
        PROVE  Cardinality(Lost) <= K - excl
    <3>1. DOMAIN res = Item
      BY <1>2 DEF Item
    <3>2. Lost \cap E = {}
      BY <3>1, <2>1, <2>4 DEF Exclusive
    <3>3. Cardinality(E) >= Wanted(res)
      <4>1. K \in Item
        BY <1>1 DEF Item
      <4>2. res[K] # {}
        <5>1. Cardinality(res[K]) # 0
          BY <4>1, <1>1, <1>2
        <5> QED
          BY <5>1, FS_EmptySet
      <4> QED
        BY <1>1, <1>2, <4>2 DEF ExclInv, Exclusives
    <3>4. /\ Lost \cup E \subseteq Item /\ IsFiniteSet(E)
          /\ Cardinality(Lost \cup E) \in Nat /\ Cardinality(Lost \cup E) <= K
      BY <2>2, ItemFinite
    <3>5. Cardinality(Lost \cup E) = Cardinality(Lost) + Cardinality(E)
      <4>1. Cardinality(Lost \cup E)
              = Cardinality(Lost) + Cardinality(E) - Cardinality(Lost \cap E)
        BY <2>2, <3>4, FS_Union
      <4>2. Cardinality(Lost \cap E) = 0
        BY <3>2, FS_EmptySet
      <4> HIDE DEF Lost, E
      <4> QED
        BY <4>1, <4>2, <2>2
    <3>6. Cardinality(Lost) > 0
      <4>1. Cardinality(Lost) # 0
        BY <2>2, <2>4, FS_EmptySet
      <4> HIDE DEF Lost
      <4> QED
        BY <4>1, <2>2
    <3>7. Wanted(res) = IF excl > K THEN K ELSE excl
      BY <1>2 DEF Wanted
    <3> HIDE DEF Lost, E
    <3> QED
      BY <1>1, <2>2, <3>3, <3>4, <3>5, <3>6, <3>7
  <2> QED
    BY <2>3, <2>4
<1>5. NothingNeedless'
  <2> SUFFICES ASSUME excl = 0, NEW i \in Item
               PROVE  LET have == Cardinality(got[i] \cap dests)
                      IN  Cardinality(res'[i]) = IF have >= min THEN 0 ELSE min - have
    BY <1>1 DEF NothingNeedless
  <2> DEFINE G == got[i] \cap dests
             R == res[i]
  <2>1. /\ R \in SUBSET Loc /\ R \subseteq dests /\ Cardinality(R) = min
        /\ res'[i] = R \ got[i] /\ G \in SUBSET Loc
    BY <1>2
  <2>2. /\ IsFiniteSet(G) /\ Cardinality(G) \in Nat
        /\ IsFiniteSet(R) /\ Cardinality(R) \in Nat
        /\ R \ G = R \ got[i]
    BY <2>1, LocFinite
  <2>3. CASE R \subseteq G
    <3>1. R \ got[i] = {}
      BY <2>3
    <3>2. Cardinality(res'[i]) = 0
      BY <2>1, <3>1, FS_EmptySet
    <3>3. min <= Cardinality(G)
      BY <2>1, <2>2, <2>3, FS_Subset
    <3> HIDE DEF G, R
    <3> QED
      BY <3>2, <3>3, <2>2 DEF G
  <2>4. CASE ~(R \subseteq G)
    <3>1. G \subseteq R
      <4>1. i \in 1 .. Len(res) /\ res[i] \ got[i] # {}
        BY <1>2, <2>2, <2>4 DEF Item
      <4> QED
        BY <4>1, <1>1 DEF OldInv
    <3>2. Cardinality(R \ G) = Cardinality(R) - Cardinality(R \cap G)
      BY <2>2, FS_Difference
    <3>3. R \cap G = G
      BY <3>1
    <3>4. Cardinality(G) < Cardinality(R)
      BY <2>2, <2>4, <3>1, FS_Subset
    <3>5. Cardinality(res'[i]) = min - Cardinality(G)
      BY <2>1, <2>2, <3>2, <3>3
    <3> HIDE DEF R
    <3> QED
      BY <3>4, <3>5, <2>1, <2>2, <1>1
  <2> QED
    BY <2>3, <2>4
<1> QED
  BY <1>3, <1>4, <1>5

-----------------------------------------------------------------------------
(* The steps of the loops.                                                 *)

\* What every step but Returned keeps of the types.
StepTypes == /\ UNCHANGED args
             /\ cur' \in Loc
             /\ DOMAIN prios' \subseteq dests
             /\ \A l \in DOMAIN prios' : prios'[l] \in Nat

\* The facts of a running call that the proofs of its steps start from.
LEMMA Running ==
  ASSUME StripeAssumption, IndInv, status = "running"
  PROVE  /\ K \in Nat /\ K > 0 /\ it \in 1 .. K /\ min \in Nat /\ excl \in Nat
         /\ res \in Seq(SUBSET Loc) /\ Len(res) \in Nat /\ it <= Len(res) /\ Len(res) <= K
         /\ pass \in {0, 1} /\ Len(res) = (IF pass = 0 THEN it ELSE K)
         /\ got \in [Item -> SUBSET Loc] /\ dests \in SUBSET Loc
         /\ \A i \in 1 .. Len(res) : /\ res[i] \in SUBSET Loc /\ res[i] \subseteq dests
                                     /\ Cardinality(res[i]) <= min
<1>1. /\ TypeOK /\ ResInv
      /\ K \in Nat /\ K > 0 /\ Mins \subseteq Nat /\ Excls \subseteq Nat
  BY DEF IndInv, StripeAssumption
<1>2. /\ it \in 1 .. K /\ min \in Nat /\ excl \in Nat /\ res \in Seq(SUBSET Loc)
      /\ pass \in {0, 1} /\ got \in [Item -> SUBSET Loc] /\ dests \in SUBSET Loc
  BY <1>1 DEF TypeOK, Item
<1>3. /\ Len(res) = (IF pass = 0 THEN it ELSE K)
      /\ \A i \in 1 .. Len(res) : /\ res[i] \subseteq dests
                                  /\ Cardinality(res[i]) <= min
  BY <1>1 DEF ResInv
<1> QED
  BY <1>1, <1>2, <1>3

LEMMA AdvanceInd ==
  ASSUME StripeAssumption, IndInv, status = "running",
         pass = 1 => Cardinality(res[it]) = min,
         Advance(res), StepTypes
  PROVE  IndInv'
<1>1. /\ TypeOK /\ ResInv /\ ExclInv /\ OldInv /\ old \subseteq got[it]
      /\ UNCHANGED <<got, dests, min, excl>>
  BY DEF IndInv, StepTypes, args
<1>2. /\ K \in Nat /\ K > 0 /\ it \in 1 .. K /\ min \in Nat /\ excl \in Nat
      /\ res \in Seq(SUBSET Loc) /\ Len(res) \in Nat /\ it <= Len(res) /\ Len(res) <= K
      /\ pass \in {0, 1} /\ Len(res) = (IF pass = 0 THEN it ELSE K)
      /\ got \in [Item -> SUBSET Loc] /\ dests \in SUBSET Loc
      /\ \A i \in 1 .. Len(res) : /\ res[i] \in SUBSET Loc /\ res[i] \subseteq dests
                                  /\ Cardinality(res[i]) <= min
  BY Running
<1>3. /\ DOMAIN prios' \subseteq dests' /\ \A l \in DOMAIN prios' : prios'[l] \in Nat
      /\ cur' \in Loc /\ min' \in Mins /\ excl' \in Excls
  BY <1>1 DEF StepTypes, TypeOK
<1>4. pass = 1 => \A i \in 1 .. it : Cardinality(res[i]) = min
  <2>1. pass = 1 => \A i \in 1 .. it - 1 : Cardinality(res[i]) = min
    BY <1>1 DEF ResInv
  <2>2. \A i \in 1 .. it : i = it \/ i \in 1 .. it - 1
    BY <1>2
  <2> QED
    BY <2>1, <2>2
<1>5. CASE /\ it < K /\ it' = it + 1
           /\ res' = IF pass = 0 THEN Append(res, {}) ELSE res
           /\ old' = got[it + 1] /\ seen' = {}
           /\ UNCHANGED <<pass, status>>
  <2>1. /\ it' \in 1 .. K /\ it' \in Item
        /\ old' \in SUBSET Loc /\ old' = got'[it']
    BY <1>1, <1>2, <1>5 DEF Item
  <2>2. CASE pass = 0
    <3>1. /\ res' \in Seq(SUBSET Loc) /\ Len(res') = it'
          /\ \A i \in 1 .. it : res'[i] = res[i]
          /\ res'[it'] = {}
      BY <1>2, <1>5, <2>2
    <3>2. \A i \in 1 .. it' : i \in 1 .. it \/ i = it'
      BY <1>2, <1>5
    <3>3. Cardinality(res'[it']) = 0
      BY <3>1, FS_EmptySet
    <3>4. TypeOK'
      BY <1>1, <1>2, <1>3, <1>5, <2>1, <2>2, <3>1 DEF TypeOK
    <3>5. ResInv'
      <4>1. \A i \in 1 .. Len(res') : /\ res'[i] \subseteq dests
                                      /\ Cardinality(res'[i]) <= min
        <5>1. ASSUME NEW i \in 1 .. it'
              PROVE  res'[i] \subseteq dests /\ Cardinality(res'[i]) <= min
          <6>1. CASE i \in 1 .. it
            BY <1>2, <2>2, <3>1, <6>1
          <6>2. CASE i = it'
            <7>1. res'[i] = {} /\ Cardinality(res'[i]) = 0
              BY <3>1, <3>3, <6>2, Zenon
            <7>2. min \in Nat
              BY <1>2
            <7> QED
              BY <7>1, <7>2
          <6> QED
            BY <3>2, <6>1, <6>2
        <5> QED
          BY <3>1, <5>1
      <4> QED
        BY <1>1, <1>5, <2>2, <3>1, <4>1 DEF ResInv
    <3>6. ExclInv'
      BY <3>1 DEF ExclInv
    <3>7. OldInv'
      <4>1. excl = 0 => \A i \in 1 .. it :
                          res[i] \ got[i] # {} => got[i] \cap dests \subseteq res[i]
        BY <1>1, <1>2, <2>2 DEF OldInv
      <4> QED
        BY <1>1, <2>1, <3>1, <3>2, <4>1 DEF OldInv
    <3> QED
      BY <1>5, <2>1, <3>4, <3>5, <3>6, <3>7
         DEF IndInv, Enough, LossBound, NothingNeedless
  <2>3. CASE pass = 1
    <3>1. res' = res /\ pass' = 1 /\ status' = "running"
      BY <1>5, <2>3
    <3>4. TypeOK'
      BY <1>1, <1>2, <1>3, <1>5, <2>1, <3>1 DEF TypeOK
    <3>5. ResInv'
      <4>1. \A i \in 1 .. it' - 1 : i \in 1 .. it
        BY <1>2, <1>5
      <4> QED
        BY <1>1, <1>2, <1>4, <1>5, <2>3, <3>1, <4>1 DEF ResInv
    <3>6. ExclInv'
      BY <1>1, <3>1 DEF ExclInv, Exclusives, Exclusive, Wanted
    <3>7. OldInv'
      BY <1>1, <2>1, <3>1 DEF OldInv
    <3> QED
      BY <2>1, <3>1, <3>4, <3>5, <3>6, <3>7
         DEF IndInv, Enough, LossBound, NothingNeedless
  <2> QED
    BY <1>2, <2>2, <2>3
<1>6. CASE /\ it = K /\ pass = 0
           /\ pass' = 1 /\ it' = 1
           /\ res' = res
           /\ old' = got[1] /\ seen' = {}
           /\ UNCHANGED status
  <2>1. /\ it' \in Item /\ old' \in SUBSET Loc /\ old' = got'[it']
        /\ Len(res) = K
    BY <1>1, <1>2, <1>6 DEF Item
  <2>2. TypeOK'
    BY <1>1, <1>2, <1>3, <1>6, <2>1 DEF TypeOK
  <2>3. ResInv'
    BY <1>1, <1>2, <1>6, <2>1 DEF ResInv
  <2>4. ExclInv'
    BY <1>1, <1>6 DEF ExclInv, Exclusives, Exclusive, Wanted
  <2>5. OldInv'
    BY <1>1, <1>6, <2>1 DEF OldInv
  <2> QED
    BY <1>6, <2>1, <2>2, <2>3, <2>4, <2>5 DEF IndInv, Enough, LossBound, NothingNeedless
<1>7. CASE /\ it = K /\ pass = 1
           /\ res' = [i \in Item |-> res[i] \ got[i]]
           /\ status' = "ok"
           /\ UNCHANGED <<pass, it, old, seen>>
  <2>1. Enough' /\ LossBound' /\ NothingNeedless'
    BY <1>7, <1>4, <1>2, FinalResult DEF StepTypes
  <2>2. res' \in Seq(SUBSET Loc)
    <3>1. \A i \in Item : res[i] \ got[i] \in SUBSET Loc
      BY <1>2, <1>7 DEF Item
    <3>2. Item = 1 .. K
      BY DEF Item
    <3> QED
      BY <1>2, <1>7, <3>1, <3>2
  <2>3. TypeOK'
    BY <1>1, <1>3, <1>7, <2>2 DEF TypeOK
  <2> QED
    BY <1>7, <2>1, <2>3 DEF IndInv
<1> QED
  BY <1>5, <1>6, <1>7 DEF Advance

\* A step that tries something and adds nothing.
LEMMA StayInd ==
  ASSUME StripeAssumption, IndInv, status = "running", StepTypes,
         res' = res, old' \in SUBSET old, seen' \in SUBSET Loc,
         UNCHANGED <<pass, it>>, status' \in {"running", "short"},
         excl = 0 => got[it] \cap dests \subseteq res[it] \cup old'
  PROVE  IndInv'
<1>1. /\ TypeOK /\ ResInv /\ ExclInv /\ OldInv /\ old \subseteq got[it]
      /\ UNCHANGED <<got, dests, min, excl>>
  BY DEF IndInv, StepTypes, args
<1>2. TypeOK'
  BY <1>1 DEF TypeOK, StepTypes
<1>3. ResInv' /\ ExclInv'
  BY <1>1 DEF ResInv, ExclInv, Exclusives, Exclusive, Wanted
<1>4. OldInv'
  BY <1>1 DEF OldInv
<1> QED
  BY <1>1, <1>2, <1>3, <1>4 DEF IndInv, Enough, LossBound, NothingNeedless

\* A step that adds location l to the item.
LEMMA AddInd ==
  ASSUME StripeAssumption, IndInv, status = "running", StepTypes,
         Cardinality(res[it]) < min,
         NEW l \in dests, l \in got[it] \/ old = {},
         res' = [res EXCEPT ![it] = @ \cup {l}],
         Exclusives([res EXCEPT ![it] = @ \cup {l}]) >= Wanted(res),
         old' \in SUBSET old, old \subseteq old' \cup {l}, seen' \in SUBSET Loc,
         UNCHANGED <<pass, it, status>>
  PROVE  IndInv'
<1>1. /\ TypeOK /\ ResInv /\ ExclInv /\ OldInv /\ old \subseteq got[it]
      /\ UNCHANGED <<got, dests, min, excl>>
  BY DEF IndInv, StepTypes, args
<1>2. /\ K \in Nat /\ K > 0 /\ it \in 1 .. K /\ min \in Nat /\ excl \in Nat
      /\ res \in Seq(SUBSET Loc) /\ Len(res) \in Nat /\ it <= Len(res) /\ Len(res) <= K
      /\ pass \in {0, 1} /\ Len(res) = (IF pass = 0 THEN it ELSE K)
      /\ got \in [Item -> SUBSET Loc] /\ dests \in SUBSET Loc
      /\ \A i \in 1 .. Len(res) : /\ res[i] \in SUBSET Loc /\ res[i] \subseteq dests
                                  /\ Cardinality(res[i]) <= min
  BY Running
<1>3. /\ res' \in Seq(SUBSET Loc) /\ Len(res') = Len(res)
      /\ \A i \in 1 .. Len(res) : res'[i] = IF i = it THEN res[i] \cup {l} ELSE res[i]
  <2>1. it \in 1 .. Len(res) /\ l \in Loc /\ res[it] \in SUBSET Loc
    BY <1>2
  <2>2. res \in [1 .. Len(res) -> SUBSET Loc]
    BY <1>2
  <2>3. res' \in [1 .. Len(res) -> SUBSET Loc]
    BY <2>1, <2>2
  <2>4. \A i \in 1 .. Len(res) : res'[i] = IF i = it THEN res[i] \cup {l} ELSE res[i]
    BY <2>2
  <2>5. res' \in Seq(SUBSET Loc) /\ Len(res') = Len(res)
    BY <1>2, <2>3
  <2> QED
    BY <2>4, <2>5
<1>4. it \in 1 .. Len(res) /\ res[it] \in SUBSET Loc /\ l \in Loc
  BY <1>2
<1>5. res'[it] \subseteq dests /\ Cardinality(res'[it]) <= min
  <2>1. IsFiniteSet(res[it]) /\ Cardinality(res[it]) \in Nat
    BY <1>4, LocFinite
  <2>2. Cardinality(res[it] \cup {l}) <= Cardinality(res[it]) + 1
    <3>1. CASE l \in res[it]
      <4>1. res[it] \cup {l} = res[it]
        BY <3>1
      <4>2. Cardinality(res[it] \cup {l}) = Cardinality(res[it])
        BY <4>1, Zenon
      <4> QED
        BY <4>2, <2>1
    <3>2. CASE l \notin res[it]
      <4>1. Cardinality(res[it] \cup {l}) = Cardinality(res[it]) + 1
        BY <2>1, <3>2, FS_AddElement
      <4> QED
        BY <4>1, <2>1
    <3> QED
      BY <3>1, <3>2
  <2>3. IsFiniteSet(res[it] \cup {l}) /\ Cardinality(res[it] \cup {l}) \in Nat
    BY <1>4, LocFinite
  <2>4. res'[it] = res[it] \cup {l}
    BY <1>3, <1>4
  <2>5. res[it] \subseteq dests /\ min \in Nat
    BY <1>2, <1>4
  <2> QED
    BY <2>1, <2>2, <2>3, <2>4, <2>5
<1>6. TypeOK'
  BY <1>1, <1>3 DEF TypeOK, StepTypes
<1>7. ResInv'
  <2>1. \A i \in 1 .. Len(res') : /\ res'[i] \subseteq dests
                                  /\ Cardinality(res'[i]) <= min
    BY <1>2, <1>3, <1>5
  <2>2. pass = 1 => \A i \in 1 .. it - 1 : Cardinality(res'[i]) = min
    <3>1. \A i \in 1 .. it - 1 : i \in 1 .. Len(res) /\ i # it
      BY <1>2
    <3>2. pass = 1 => \A i \in 1 .. it - 1 : Cardinality(res[i]) = min
      BY <1>1 DEF ResInv
    <3> QED
      BY <1>3, <3>1, <3>2
  <2> QED
    BY <1>1, <1>2, <1>3, <2>1, <2>2 DEF ResInv
<1>8. ExclInv'
  BY <1>1, <1>3 DEF ExclInv, Exclusives, Exclusive, Wanted
<1>9. OldInv'
  <2> SUFFICES ASSUME excl = 0
               PROVE  /\ got[it] \cap dests \subseteq res'[it] \cup old'
                      /\ \A i \in 1 .. Len(res) :
                           res'[i] \ got[i] # {} => got[i] \cap dests \subseteq res'[i]
    BY <1>1, <1>3 DEF OldInv
  <2>1. /\ got[it] \cap dests \subseteq res[it] \cup old
        /\ \A i \in 1 .. Len(res) :
             res[i] \ got[i] # {} => got[i] \cap dests \subseteq res[i]
    BY <1>1 DEF OldInv
  <2>2. res'[it] = res[it] \cup {l}
    BY <1>3, <1>4
  <2>3. res'[it] \ got[it] # {} => got[it] \cap dests \subseteq res'[it]
    BY <1>4, <2>1, <2>2
  <2> QED
    BY <1>3, <2>1, <2>2, <2>3
<1> QED
  BY <1>1, <1>6, <1>7, <1>8, <1>9 DEF IndInv, Enough, LossBound, NothingNeedless

LEMMA PlaceInd ==
  ASSUME StripeAssumption, IndInv, status = "running", StepTypes,
         Cardinality(res[it]) < min,
         NEW l \in Loc, NEW o \in SUBSET old, NEW s \in SUBSET Loc,
         l \in got[it] \/ old = {}, old \subseteq o \cup {l},
         Place(l, o, s)
  PROVE  IndInv'
<1> DEFINE r == [res EXCEPT ![it] = @ \cup {l}]
<1>1. /\ OldInv /\ min \in Nat /\ excl \in Nat /\ it <= Len(res) /\ Len(res) <= K
      /\ Len(res) \in Nat /\ it \in 1 .. K /\ res \in Seq(SUBSET Loc)
      /\ res[it] \in SUBSET Loc
  BY Running DEF IndInv
<1>2. excl = 0 => got[it] \cap dests \subseteq res[it] \cup old
  BY <1>1 DEF OldInv
<1>3. CASE l \in res[it] \/ l \notin dests
  <2>1. Keep(res, o, s)
    BY <1>3 DEF Place
  <2> QED
    BY <1>2, <1>3, <2>1, StayInd DEF Keep
<1>4. CASE l \notin res[it] /\ l \in dests /\ Exclusives(r) >= Wanted(res)
  <2>1. Keep(r, o, s)
    BY <1>4 DEF Place
  <2> QED
    BY <1>4, <2>1, AddInd DEF Keep
<1>5. CASE l \notin res[it] /\ l \in dests /\ ~(Exclusives(r) >= Wanted(res))
  <2>1. excl # 0
    <3>1. r \in Seq(SUBSET Loc) /\ Len(r) = Len(res)
      BY <1>1
    <3>2. Exclusives(r) \in Nat
      BY <1>1, <3>1, ExclusivesType
    <3>3. excl = 0 => Wanted(res) = 0
      BY <1>1 DEF Wanted
    <3> QED
      BY <1>5, <3>2, <3>3
  <2>2. CASE pass = 0
    <3>1. Advance(res)
      BY <1>5, <2>2 DEF Place
    <3> QED
      BY <2>2, <3>1, AdvanceInd
  <2>3. CASE pass # 0
    <3>1. Keep(res, o, s)
      BY <1>5, <2>3 DEF Place
    <3> QED
      BY <2>1, <3>1, StayInd DEF Keep
  <2> QED
    BY <2>2, <2>3
<1> QED
  BY <1>3, <1>4, <1>5

LEMMA DrawTypes ==
  ASSUME StripeAssumption, TypeOK, UNCHANGED args, cur' = (cur + 1) % L,
         \/ UNCHANGED prios
         \/ prios' = Without(prios, cur)
         \/ cur \in DOMAIN prios /\ prios[cur] > 0 /\ prios' = [prios EXCEPT ![cur] = @ - 1]
  PROVE  StepTypes
<1>1. (cur + 1) % L \in Loc
  BY DEF TypeOK, Loc, StripeAssumption
<1>2. DOMAIN prios' \subseteq dests /\ \A l \in DOMAIN prios' : prios'[l] \in Nat
  <2>1. DOMAIN prios \subseteq dests /\ \A l \in DOMAIN prios : prios[l] \in Nat
    BY DEF TypeOK
  <2>2. CASE UNCHANGED prios
    BY <2>1, <2>2
  <2>3. CASE prios' = Without(prios, cur)
    BY <2>1, <2>3 DEF Without, Restrict
  <2>4. CASE /\ cur \in DOMAIN prios /\ prios[cur] > 0
             /\ prios' = [prios EXCEPT ![cur] = @ - 1]
    <3>1. prios[cur] - 1 \in Nat
      BY <2>1, <2>4
    <3> QED
      BY <2>1, <2>4, <3>1
  <2> QED
    BY <2>2, <2>3, <2>4
<1> QED
  BY <1>1, <1>2 DEF StepTypes

LEMMA NextInd == ASSUME StripeAssumption, IndInv, [Next]_vars PROVE IndInv'
<1>1. CASE UNCHANGED vars
  <2> USE <1>1 DEF vars, args
  <2>1. TypeOK'
    BY DEF IndInv, TypeOK
  <2>2. Enough' /\ LossBound' /\ NothingNeedless'
    BY DEF IndInv, Enough, LossBound, NothingNeedless, Copies
  <2>3. status = "running" => old' \subseteq got'[it'] /\ ResInv' /\ OldInv'
    BY DEF IndInv, ResInv, OldInv
  <2>4. status = "running" => ExclInv'
    BY DEF IndInv, ExclInv, Exclusives, Exclusive, Wanted
  <2> QED
    BY <2>1, <2>2, <2>3, <2>4 DEF IndInv
<1>2. TypeOK /\ cur \in Loc /\ seen \in SUBSET Loc
  BY DEF IndInv, TypeOK
<1>3. CASE Full
  <2>1. Cardinality(res[it]) = min
    <3>1. /\ min \in Nat /\ res[it] \in SUBSET Loc /\ Cardinality(res[it]) <= min
      BY <1>3, Running DEF Full
    <3>2. Cardinality(res[it]) \in Nat
      BY <3>1, LocFinite
    <3> QED
      BY <1>3, <3>1, <3>2 DEF Full
  <2>2. StepTypes
    BY <1>2, <1>3 DEF Full, StepTypes, TypeOK
  <2> QED
    BY <1>3, <2>1, <2>2, AdvanceInd DEF Full
<1>4. CASE Reuse
  <2>1. PICK l \in old : Place(l, old \ {l}, seen)
    BY <1>4 DEF Reuse
  <2>2. l \in got[it] /\ l \in Loc
    BY <1>4, <2>1 DEF Reuse, IndInv, TypeOK
  <2>3. StepTypes
    BY <1>2, <1>4 DEF Reuse, StepTypes, TypeOK
  <2> QED
    BY <1>2, <1>4, <2>1, <2>2, <2>3, PlaceInd DEF Reuse
<1>5. CASE Draw
  <2>1. /\ status = "running" /\ Cardinality(res[it]) < min /\ old = {}
        /\ seen \cup {cur} \in SUBSET Loc
    BY <1>2, <1>5 DEF Draw
  <2>2. CASE cur \in got[it] \/ cur \notin DOMAIN prios
    <3>1. Place(cur, {}, seen \cup {cur}) /\ UNCHANGED prios
      BY <1>5, <2>2 DEF Draw
    <3>2. StepTypes
      BY <1>2, <1>5, <3>1, DrawTypes DEF Draw
    <3> QED
      BY <1>2, <2>1, <3>1, <3>2, PlaceInd
  <2>3. CASE ~(cur \in got[it] \/ cur \notin DOMAIN prios) /\ prios[cur] > 0
    <3>1. Keep(res, {}, seen) /\ prios' = [prios EXCEPT ![cur] = @ - 1]
      BY <1>5, <2>3 DEF Draw
    <3>2. StepTypes
      BY <1>2, <1>5, <2>3, <3>1, DrawTypes DEF Draw
    <3>3. excl = 0 => got[it] \cap dests \subseteq res[it] \cup {}
      BY <2>1 DEF IndInv, OldInv
    <3> QED
      BY <1>2, <2>1, <3>1, <3>2, <3>3, StayInd DEF Keep
  <2>4. CASE ~(cur \in got[it] \/ cur \notin DOMAIN prios) /\ ~(prios[cur] > 0)
    <3>1. Place(cur, {}, seen \cup {cur}) /\ prios' = Without(prios, cur)
      BY <1>5, <2>4 DEF Draw
    <3>2. StepTypes
      BY <1>2, <1>5, <3>1, DrawTypes DEF Draw
    <3> QED
      BY <1>2, <2>1, <3>1, <3>2, PlaceInd
  <2> QED
    BY <2>2, <2>3, <2>4
<1>6. CASE Exhausted
  <2>1. StepTypes
    BY <1>2, <1>6, DrawTypes DEF Exhausted
  <2>2. excl = 0 => got[it] \cap dests \subseteq res[it] \cup old
    BY <1>6 DEF Exhausted, IndInv, OldInv
  <2> QED
    BY <1>2, <1>6, <2>1, <2>2, StayInd DEF Exhausted
<1>7. CASE Returned
  BY <1>1, <1>7 DEF Returned
<1> QED
  BY <1>1, <1>3, <1>4, <1>5, <1>6, <1>7 DEF Next

-----------------------------------------------------------------------------
(* When next() gives up.                                                   *)

\* One location more has been passed, the one under the cursor.
LEMMA DrawPasses ==
  ASSUME StripeAssumption, cur \in Loc, cur' = (cur + 1) % L,
         NEW x \in Loc, NEW y \in Loc, Passed(x, y)'
  PROVE  y = cur \/ (x # cur /\ Passed(x, y))
<1>1. L \in Nat /\ cur \in 0 .. L - 1 /\ x \in 0 .. L - 1 /\ y \in 0 .. L - 1
  BY DEF StripeAssumption, Loc
<1>2. cur' = IF cur = L - 1 THEN 0 ELSE cur + 1
  BY <1>1
<1>3. IF x < cur' THEN x <= y /\ y < cur' ELSE x <= y \/ y < cur'
  BY DEF Passed
<1> QED
  BY <1>1, <1>2, <1>3 DEF Passed

\* All locations have been passed between two returns of the same one.
LEMMA AllPassed ==
  ASSUME StripeAssumption, cur \in Loc, NEW y \in Loc
  PROVE  Passed(cur, y)
BY DEF Passed, Loc, StripeAssumption

\* Without exclusivity every addition is kept.
LEMMA PlaceKeeps ==
  ASSUME StripeAssumption, IndInv, status = "running",
         NEW l \in Loc, NEW o, NEW s, Place(l, o, s)
  PROVE  \/ seen' = {}
         \/ /\ seen' = s /\ it' = it /\ status' = status /\ res[it] \subseteq res'[it]
            /\ excl = 0 => l \notin dests \/ l \in res'[it]
<1> DEFINE r == [res EXCEPT ![it] = @ \cup {l}]
<1>1. /\ it \in 1 .. Len(res) /\ res \in Seq(SUBSET Loc) /\ Len(res) \in Nat
      /\ Len(res) <= K /\ excl \in Nat
  BY Running
<1>2. r[it] = res[it] \cup {l} /\ r \in Seq(SUBSET Loc) /\ Len(r) = Len(res)
  BY <1>1
<1>3. excl = 0 => Exclusives(r) >= Wanted(res)
  <2>1. Exclusives(r) \in Nat
    BY <1>1, <1>2, ExclusivesType
  <2>2. excl = 0 => Wanted(res) = 0
    BY <1>1 DEF Wanted
  <2> HIDE DEF r
  <2> QED
    BY <2>1, <2>2
<1>4. CASE l \in res[it] \/ l \notin dests
  BY <1>4 DEF Place, Keep
<1>5. CASE ~(l \in res[it] \/ l \notin dests) /\ Exclusives(r) >= Wanted(res)
  <2>1. Keep(r, o, s)
    BY <1>5 DEF Place
  <2> QED
    BY <2>1, <1>2 DEF Keep
<1>6. CASE ~(l \in res[it] \/ l \notin dests) /\ ~(Exclusives(r) >= Wanted(res))
  <2>1. Advance(res) \/ Keep(res, o, s)
    BY <1>6 DEF Place
  <2>2. excl # 0
    BY <1>3, <1>6
  <2>3. CASE Keep(res, o, s)
    BY <2>2, <2>3 DEF Keep
  <2>4. CASE Advance(res)
    BY <2>4, <1>6 DEF Advance, Place, Keep
  <2> QED
    BY <2>1, <2>3, <2>4
<1> QED
  BY <1>4, <1>5, <1>6

LEMMA InitSeen == Init => SeenInv /\ ShortOnlyIfFew
BY DEF Init, SeenInv, ShortOnlyIfFew

\* Starting afresh with an item keeps the invariant, and so does ending.
LEMMA AfreshSeen == seen' = {} => SeenInv'
BY DEF SeenInv

LEMMA SeenInd ==
  ASSUME StripeAssumption, IndInv, SeenInv, ShortOnlyIfFew, [Next]_vars
  PROVE  SeenInv' /\ ShortOnlyIfFew'
<1>1. TypeOK /\ cur \in Loc /\ seen \in SUBSET Loc
  BY DEF IndInv, TypeOK
<1>2. CASE UNCHANGED vars
  BY <1>2 DEF SeenInv, ShortOnlyIfFew, Passed, vars, args
\* A step that leaves the call running, with the cursor where it was, ...
<1>3. ASSUME status = "running", UNCHANGED <<args, cur, prios>>,
             \/ seen' = {}
             \/ seen' = seen /\ it' = it /\ res[it] \subseteq res'[it]
      PROVE  SeenInv'
  BY <1>3, AfreshSeen DEF SeenInv, Passed, args
<1>4. CASE Full
  <2>1. status = "running" /\ Advance(res) /\ UNCHANGED <<args, cur, prios>>
    BY <1>4 DEF Full
  <2>2. seen' = {} \/ status' = "ok"
    BY <2>1 DEF Advance
  <2>3. status' # "short"
    BY <2>1 DEF Advance
  <2> QED
    BY <2>2, <2>3, AfreshSeen DEF SeenInv, ShortOnlyIfFew
<1>5. CASE Reuse
  <2>1. PICK l \in old : Place(l, old \ {l}, seen)
    BY <1>5 DEF Reuse
  <2>2. l \in Loc /\ status = "running" /\ UNCHANGED <<args, cur, prios>>
    BY <1>5, <2>1 DEF Reuse, IndInv, TypeOK
  <2>3. seen' = {} \/ (seen' = seen /\ it' = it /\ res[it] \subseteq res'[it])
    BY <2>1, <2>2, PlaceKeeps
  <2>4. status' # "short"
    BY <2>1, <2>2 DEF Place, Keep, Advance
  <2> QED
    BY <2>2, <2>3, <2>4, <1>3 DEF ShortOnlyIfFew
\* ... and one that draws.
<1>6. ASSUME status = "running", UNCHANGED args, cur' = (cur + 1) % L,
             DOMAIN prios \ {cur} \subseteq DOMAIN prios',
             it' = it, res[it] \subseteq res'[it],
             \/ seen' = seen \cup {cur} /\ (excl = 0 => cur \notin dests \/ cur \in res'[it])
             \/ seen' = seen /\ cur \notin seen /\ cur \in DOMAIN prios'
             \/ seen' = seen /\ cur \in seen
      PROVE  SeenInv'
  <2>1. ASSUME NEW x \in seen', NEW y \in Loc, Passed(x, y)'
        PROVE  y \in seen' \cup DOMAIN prios'
    <3>0. x \in Loc
      BY <1>1, <1>6
    <3>1. y = cur \/ (x # cur /\ Passed(x, y))
      BY <2>1, <3>0, <1>1, <1>6, DrawPasses
    <3>2. CASE y = cur
      BY <3>2, <1>6
    <3>3. CASE y # cur /\ x # cur /\ Passed(x, y)
      <4>1. x \in seen
        BY <3>3, <1>6
      <4>2. y \in seen \cup DOMAIN prios
        BY <4>1, <3>3, <1>6 DEF SeenInv
      <4> QED
        BY <4>2, <3>3, <1>6
    <3> QED
      BY <3>1, <3>2, <3>3
  <2>2. excl = 0 => seen' \cap dests \subseteq res'[it]
    BY <1>6 DEF SeenInv
  <2>3. excl' = excl /\ dests' = dests
    BY <1>6 DEF args
  <2> QED
    BY <2>1, <2>2, <2>3, <1>6 DEF SeenInv
<1>7. CASE Draw
  <2>1. /\ status = "running" /\ UNCHANGED args /\ cur' = (cur + 1) % L /\ cur \notin seen
    BY <1>7 DEF Draw
  <2>2. \/ /\ Place(cur, {}, seen \cup {cur})
           /\ UNCHANGED prios \/ prios' = Without(prios, cur)
        \/ /\ Keep(res, {}, seen) /\ cur \in DOMAIN prios
           /\ prios' = [prios EXCEPT ![cur] = @ - 1]
    BY <1>7 DEF Draw
  <2>3. DOMAIN prios \ {cur} \subseteq DOMAIN prios'
    BY <2>2 DEF Without, Restrict
  <2>4. CASE Keep(res, {}, seen) /\ cur \in DOMAIN prios /\ prios' = [prios EXCEPT ![cur] = @ - 1]
    <3>1. SeenInv'
      BY <2>1, <2>3, <2>4, <1>6 DEF Keep
    <3>2. status' = "running"
      BY <2>1, <2>4 DEF Keep
    <3> QED
      BY <3>1, <3>2 DEF ShortOnlyIfFew
  <2>5. CASE Place(cur, {}, seen \cup {cur})
    <3>1. \/ seen' = {}
          \/ /\ seen' = seen \cup {cur} /\ it' = it /\ res[it] \subseteq res'[it]
             /\ excl = 0 => cur \notin dests \/ cur \in res'[it]
      BY <2>1, <2>5, <1>1, PlaceKeeps
    <3>2. SeenInv'
      BY <3>1, <2>1, <2>3, <1>6, AfreshSeen
    <3>3. status' # "short"
      BY <2>1, <2>5 DEF Place, Keep, Advance
    <3> QED
      BY <3>2, <3>3 DEF ShortOnlyIfFew
  <2> QED
    BY <2>2, <2>4, <2>5
<1>8. CASE Exhausted
  <2>1. /\ status = "running" /\ UNCHANGED <<args, res, it, seen>> /\ cur' = (cur + 1) % L
        /\ cur \in seen /\ Cardinality(res[it]) < min /\ prios' = Without(prios, cur)
        /\ status' = IF DOMAIN prios \subseteq {cur} THEN "short" ELSE "running"
    BY <1>8 DEF Exhausted
  <2>2. SeenInv'
    <3>1. DOMAIN prios \ {cur} \subseteq DOMAIN prios'
      BY <2>1 DEF Without, Restrict
    <3> QED
      BY <2>1, <3>1, <1>6
  <2>3. ASSUME DOMAIN prios \subseteq {cur}, excl = 0 PROVE Cardinality(dests) < min
    <3>1. \A y \in Loc : y \in seen
      BY <2>1, <2>3, <1>1, AllPassed DEF SeenInv
    <3>2. dests \subseteq Loc /\ res[it] \subseteq dests /\ dests \subseteq res[it]
      <4>1. it \in 1 .. Len(res) /\ dests \in SUBSET Loc /\ res[it] \subseteq dests
        BY <2>1, Running
      <4> QED
        BY <4>1, <3>1, <2>1, <2>3 DEF SeenInv
    <3>3. res[it] = dests
      BY <3>2
    <3> QED
      BY <2>1, <3>3
  <2> QED
    BY <2>1, <2>2, <2>3 DEF ShortOnlyIfFew, args
<1>9. CASE Returned
  BY <1>2, <1>9 DEF Returned
<1> QED
  BY <1>2, <1>4, <1>5, <1>7, <1>8, <1>9 DEF Next

-----------------------------------------------------------------------------
(* When one copy of each chunk is asked for.                               *)

\* A set of one element at most.
LEMMA AtMostOne ==
  ASSUME StripeAssumption, NEW S \in SUBSET Loc, Cardinality(S) <= 1
  PROVE  \E a : S \subseteq {a}
<1>1. CASE S = {}
  BY <1>1
<1>2. CASE S # {}
  <2>1. PICK a \in S : TRUE
    BY <1>2
  <2>2. IsFiniteSet(S) /\ Cardinality(S) \in Nat
    BY LocFinite
  <2>3. IsFiniteSet(S \ {a}) /\ Cardinality(S \ {a}) = Cardinality(S) - 1
    BY <2>1, <2>2, FS_RemoveElement
  <2>4. Cardinality(S \ {a}) \in Nat
    BY <2>3, FS_CardinalityType
  <2>5. Cardinality(S \ {a}) = 0
    BY <2>2, <2>3, <2>4
  <2>6. S \ {a} = {}
    BY <2>3, <2>5, FS_EmptySet
  <2> QED
    BY <2>6
<1> QED
  BY <1>1, <1>2

\* If all items but one have locations of their own, all have.
LEMMA AllApart ==
  ASSUME StripeAssumption, NEW r \in Seq(SUBSET Loc), Len(r) <= K,
         Exclusives(r) >= Len(r) - 1,
         NEW i \in 1 .. Len(r), NEW j \in 1 .. Len(r), i # j
  PROVE  r[i] # r[j]
<1> SUFFICES ASSUME r[i] = r[j] PROVE FALSE
  OBVIOUS
<1>1. Len(r) \in Nat /\ DOMAIN r = 1 .. Len(r) /\ K \in Nat
  BY DEF StripeAssumption
<1> DEFINE D == 1 .. Len(r)
           E == Exclusive(r)
<1>2. D \subseteq Item /\ IsFiniteSet(D) /\ Cardinality(D) = Len(r)
  <2>1. D \subseteq Item
    BY <1>1 DEF Item
  <2>2. 1 \in Int /\ Len(r) \in Int
    BY <1>1
  <2>3. IsFiniteSet(1 .. Len(r)) /\ Cardinality(1 .. Len(r)) = IF 1 > Len(r) THEN 0 ELSE Len(r) - 1 + 1
    BY <2>2, FS_Interval
  <2> QED
    BY <2>1, <2>3, <1>1
<1>3. E \subseteq (D \ {i}) \ {j}
  BY <1>1 DEF Exclusive
<1>4. i \in D /\ j \in D \ {i}
  OBVIOUS
<1> HIDE DEF D, E
<1>5. IsFiniteSet(D \ {i}) /\ Cardinality(D \ {i}) = Len(r) - 1
  BY <1>2, <1>4, FS_RemoveElement
<1>6. IsFiniteSet((D \ {i}) \ {j}) /\ Cardinality((D \ {i}) \ {j}) = Len(r) - 1 - 1
  <2> DEFINE D1 == D \ {i}
  <2>1. IsFiniteSet(D1) /\ Cardinality(D1) = Len(r) - 1 /\ j \in D1
    BY <1>4, <1>5
  <2> HIDE DEF D1
  <2>2. IsFiniteSet(D1 \ {j}) /\ Cardinality(D1 \ {j}) = Cardinality(D1) - 1
    BY <2>1, FS_RemoveElement
  <2> QED
    BY <2>1, <2>2 DEF D1
<1>7. Cardinality(E) \in Nat /\ Cardinality(E) <= Len(r) - 2
  <2>1. IsFiniteSet(E) /\ Cardinality(E) <= Cardinality((D \ {i}) \ {j})
    BY <1>3, <1>6, FS_Subset
  <2>2. Cardinality(E) \in Nat
    BY <2>1, FS_CardinalityType
  <2> QED
    BY <2>1, <2>2, <1>6, <1>1
<1>8. Cardinality(E) >= Len(r) - 1
  BY DEF E, Exclusives
<1> QED
  BY <1>1, <1>7, <1>8

\* As many exclusive items as are named.
LEMMA SomeExclusive ==
  ASSUME StripeAssumption, NEW r \in Seq(SUBSET Loc), Len(r) <= K,
         NEW S \in SUBSET Exclusive(r)
  PROVE  Cardinality(S) \in Nat /\ Cardinality(S) <= Exclusives(r)
<1>1. Exclusive(r) \subseteq Item
  BY ExclusivesType
<1>2. IsFiniteSet(Exclusive(r))
  BY <1>1, ItemFinite
<1> QED
  BY <1>2, FS_Subset, FS_CardinalityType DEF Exclusives

\* The result of a step that places l, item by item.
LEMMA Placed ==
  ASSUME StripeAssumption, IndInv, status = "running", NEW l \in Loc
  PROVE  LET r == [res EXCEPT ![it] = @ \cup {l}]
         IN  /\ r \in Seq(SUBSET Loc) /\ Len(r) = Len(res)
             /\ \A i \in 1 .. Len(res) : r[i] = IF i = it THEN res[i] \cup {l} ELSE res[i]
             /\ res[it] = {} => r = [res EXCEPT ![it] = {l}]
<1>1. /\ it \in 1 .. Len(res) /\ res \in Seq(SUBSET Loc) /\ Len(res) \in Nat
      /\ res[it] \in SUBSET Loc
  BY Running
<1> DEFINE r == [res EXCEPT ![it] = @ \cup {l}]
<1>2. res \in [1 .. Len(res) -> SUBSET Loc]
  BY <1>1
<1>3. r \in [1 .. Len(res) -> SUBSET Loc]
  BY <1>1, <1>2
<1>4. \A i \in 1 .. Len(res) : r[i] = IF i = it THEN res[i] \cup {l} ELSE res[i]
  BY <1>2
<1>5. r \in Seq(SUBSET Loc) /\ Len(r) = Len(res)
  BY <1>1, <1>3
<1>6. res[it] = {} => r = [res EXCEPT ![it] = {l}]
  OBVIOUS
<1> QED
  BY <1>4, <1>5, <1>6

\* On to another item, unless the first one is left without a location.
LEMMA FewAdvance ==
  ASSUME StripeAssumption, IndInv, FewInv, status = "running", UNCHANGED args,
         Advance(res), Len(res) > 1 \/ res[it] # {} \/ excl = 0 \/ min # 1
  PROVE  FewInv'
<1> SUFFICES ASSUME status' = "running", min = 1, excl > 0
             PROVE  FirstServed' /\ RefusedAll' /\ NoneShared'
  BY DEF FewInv, args
<1>1. FirstServed /\ RefusedAll /\ NoneShared /\ excl' = excl /\ excl \in Nat
  BY Running DEF FewInv, args
<1>2. /\ K \in Nat /\ K > 0 /\ it \in 1 .. K /\ it \in 1 .. Len(res)
      /\ res \in Seq(SUBSET Loc) /\ Len(res) \in Nat /\ Len(res) <= K
      /\ pass \in {0, 1} /\ Len(res) = (IF pass = 0 THEN it ELSE K)
  BY Running
<1>3. res[1] # {}
  BY <1>1, <1>2 DEF FirstServed
<1>4. /\ seen' = {}
      /\ it' \in 1 .. K /\ pass' \in {0, 1}
      /\ res' = res \/ res' = Append(res, {})
  BY <1>2 DEF Advance
<1>5. FirstServed'
  <2>1. res'[1] = res[1]
    BY <1>2, <1>4
  <2> QED
    BY <1>3, <2>1 DEF FirstServed
<1>6. RefusedAll'
  BY <1>4 DEF RefusedAll
<1>7. NoneShared'
  <2>1. CASE res' = res
    BY <1>1, <2>1 DEF NoneShared
  <2>2. CASE res' = Append(res, {})
    <3>1. Len(res') = Len(res) + 1
      BY <1>2, <2>2
    <3>2. /\ \A i \in 1 .. Len(res) : res'[i] = res[i]
          /\ res'[Len(res) + 1] = {}
      BY <1>2, <2>2
    <3>3. \A i \in 1 .. Len(res') : i \in 1 .. Len(res) \/ i = Len(res) + 1
      BY <1>2, <3>1
    <3> QED
      BY <1>1, <3>2, <3>3 DEF NoneShared
  <2> QED
    BY <1>4, <2>1, <2>2
<1> QED
  BY <1>5, <1>6, <1>7

\* Going on with the item: what is drawn and not taken was refused.
LEMMA FewKeep ==
  ASSUME StripeAssumption, IndInv, FewInv, status = "running", UNCHANGED args,
         UNCHANGED <<res, it, pass>>,
         NEW l \in Loc, seen' = seen \/ seen' = seen \cup {l},
         \/ l \in res[it] \/ l \notin dests \/ seen' = seen
         \/ pass = 1 /\ Exclusives([res EXCEPT ![it] = @ \cup {l}]) < Wanted(res)
  PROVE  FewInv'
<1> SUFFICES ASSUME status' = "running", min = 1, excl > 0
             PROVE  FirstServed' /\ RefusedAll' /\ NoneShared'
  BY DEF FewInv, args
<1>1. FirstServed /\ RefusedAll /\ NoneShared /\ excl' = excl /\ dests' = dests
  BY DEF FewInv, args
<1>2. FirstServed' /\ NoneShared'
  BY <1>1 DEF FirstServed, NoneShared
<1>3. RefusedAll'
  <2> SUFFICES ASSUME res[it] = {}, NEW x \in seen' \cap dests
               PROVE  pass = 1 /\ Exclusives([res EXCEPT ![it] = {x}]) < Wanted(res)
    <3>1. Wanted(res)' = Wanted(res)
      BY <1>1 DEF Wanted
    <3>2. \A x : Exclusives([res EXCEPT ![it] = {x}])' = Exclusives([res EXCEPT ![it] = {x}])
      BY DEF Exclusives, Exclusive
    <3> QED
      BY <1>1, <3>1, <3>2 DEF RefusedAll
  <2>1. CASE x \in seen
    BY <1>1, <2>1 DEF RefusedAll
  <2>2. CASE x \notin seen
    <3>1. x = l /\ pass = 1 /\ Exclusives([res EXCEPT ![it] = @ \cup {l}]) < Wanted(res)
      BY <2>2
    <3>2. [res EXCEPT ![it] = @ \cup {l}] = [res EXCEPT ![it] = {l}]
      BY Placed
    <3> QED
      BY <3>1, <3>2
  <2> QED
    BY <2>1, <2>2
<1> QED
  BY <1>2, <1>3

\* A location is added.
LEMMA FewAdd ==
  ASSUME StripeAssumption, IndInv, FewInv, status = "running", UNCHANGED args,
         UNCHANGED <<it, pass>>, NEW l \in Loc,
         res' = [res EXCEPT ![it] = @ \cup {l}],
         Exclusives([res EXCEPT ![it] = @ \cup {l}]) >= Wanted(res)
  PROVE  FewInv'
<1> SUFFICES ASSUME status' = "running", min = 1, excl > 0
             PROVE  FirstServed' /\ RefusedAll' /\ NoneShared'
  BY DEF FewInv, args
<1>1. FirstServed /\ excl' = excl /\ excl \in Nat /\ K \in Nat /\ it \in 1 .. Len(res)
      /\ Len(res) \in Nat /\ Len(res) <= K
  BY Running DEF FewInv, args
<1>2. /\ res' \in Seq(SUBSET Loc) /\ Len(res') = Len(res)
      /\ \A i \in 1 .. Len(res) : res'[i] = IF i = it THEN res[i] \cup {l} ELSE res[i]
  BY Placed
<1>3. 1 \in 1 .. Len(res) /\ res'[it] # {}
  BY <1>1, <1>2
<1>4. FirstServed'
  BY <1>1, <1>2, <1>3 DEF FirstServed
<1>5. RefusedAll'
  BY <1>3 DEF RefusedAll
<1>6. NoneShared'
  <2> SUFFICES ASSUME K <= 3, excl >= 2,
                      NEW i \in 1 .. Len(res'), NEW j \in 1 .. Len(res'), i # j
               PROVE  res'[i] # res'[j]
    BY <1>1 DEF NoneShared
  <2>1. Wanted(res) >= Len(res') - 1
    BY <1>1, <1>2 DEF Wanted
  <2>2. Exclusives(res') \in Nat /\ Exclusives(res') >= Wanted(res)
    BY <1>1, <1>2, ExclusivesType
  <2>3. Wanted(res) \in Nat
    BY <1>1 DEF Wanted
  <2>4. Exclusives(res') >= Len(res') - 1 /\ Len(res') <= K
    BY <1>1, <1>2, <2>1, <2>2, <2>3
  <2> QED
    BY <1>2, <2>4, AllApart
<1> QED
  BY <1>4, <1>5, <1>6

LEMMA FewPlace ==
  ASSUME StripeAssumption, IndInv, FewInv, status = "running", UNCHANGED args,
         NEW l \in Loc, NEW o, NEW s, s = seen \/ s = seen \cup {l}, Place(l, o, s)
  PROVE  FewInv'
<1> DEFINE r == [res EXCEPT ![it] = @ \cup {l}]
<1>1. CASE l \in res[it] \/ l \notin dests
  <2>1. Keep(res, o, s)
    BY <1>1 DEF Place
  <2> QED
    BY <1>1, <2>1, FewKeep DEF Keep
<1>2. CASE ~(l \in res[it] \/ l \notin dests) /\ Exclusives(r) >= Wanted(res)
  <2>1. Keep(r, o, s)
    BY <1>2 DEF Place
  <2> QED
    BY <1>2, <2>1, FewAdd DEF Keep
<1>3. CASE ~(l \in res[it] \/ l \notin dests) /\ ~(Exclusives(r) >= Wanted(res))
  <2>1. /\ r \in Seq(SUBSET Loc) /\ Len(r) = Len(res)
        /\ \A i \in 1 .. Len(res) : r[i] = IF i = it THEN res[i] \cup {l} ELSE res[i]
    BY Placed
  <2>2. Len(res) \in Nat /\ Len(res) <= K /\ excl \in Nat /\ it \in 1 .. Len(res)
        /\ pass \in {0, 1}
    BY Running
  <2>3. Exclusives(r) \in Nat /\ Wanted(res) \in Nat
    BY <2>1, <2>2, ExclusivesType DEF Wanted
  <2>4. Exclusives(r) < Wanted(res)
    BY <2>3, <1>3
  <2>5. CASE pass = 0
    <3>1. Advance(res)
      BY <1>3, <2>5 DEF Place
    <3>2. ASSUME Len(res) <= 1 PROVE FALSE
      <4>1. 1 \in DOMAIN r /\ DOMAIN r = 1 .. 1
        BY <2>1, <2>2, <3>2
      <4>2. 1 \in Exclusive(r)
        BY <4>1 DEF Exclusive
      <4>3. Cardinality({1}) <= Exclusives(r) /\ Cardinality({1}) = 1
        <5> HIDE DEF r
        <5> QED
          BY <2>1, <2>2, <4>2, SomeExclusive, FS_Singleton
      <4>4. Wanted(res) <= 1
        BY <2>2, <3>2 DEF Wanted
      <4> QED
        BY <2>3, <2>4, <4>3, <4>4
    <3> QED
      BY <2>2, <3>1, <3>2, FewAdvance
  <2>6. CASE pass = 1
    <3>1. Keep(res, o, s)
      BY <1>3, <2>6 DEF Place
    <3> QED
      BY <2>4, <2>6, <3>1, FewKeep DEF Keep
  <2> QED
    BY <2>2, <2>5, <2>6
<1> QED
  BY <1>1, <1>2, <1>3

LEMMA InitFew == ASSUME StripeAssumption, Init PROVE FewInv
BY DEF Init, FewInv, FirstServed, RefusedAll, NoneShared

LEMMA FewInd == ASSUME StripeAssumption, IndInv, FewInv, [Next]_vars PROVE FewInv'
<1>1. CASE UNCHANGED vars
  <2>1. UNCHANGED <<args, res, pass, it, seen, status>> /\ cur \in Loc
    BY <1>1 DEF vars, IndInv, TypeOK
  <2>2. CASE status = "running"
    BY <2>1, <2>2, FewKeep
  <2>3. CASE status # "running"
    BY <2>1, <2>3 DEF FewInv
  <2> QED
    BY <2>2, <2>3
<1>2. CASE Full
  <2>1. /\ status = "running" /\ Advance(res) /\ UNCHANGED args
        /\ Cardinality(res[it]) >= min
    BY <1>2 DEF Full
  <2>2. min = 1 => res[it] # {}
    BY <2>1, FS_EmptySet
  <2> QED
    BY <2>1, <2>2, FewAdvance
<1>3. CASE Reuse
  <2>1. PICK l \in old : Place(l, old \ {l}, seen)
    BY <1>3 DEF Reuse
  <2>2. l \in Loc /\ status = "running" /\ UNCHANGED args
    BY <1>3, <2>1 DEF Reuse, IndInv, TypeOK
  <2> QED
    BY <2>1, <2>2, FewPlace
<1>4. CASE Draw
  <2>1. cur \in Loc /\ status = "running" /\ UNCHANGED args
    BY <1>4 DEF Draw, IndInv, TypeOK
  <2>2. Place(cur, {}, seen \cup {cur}) \/ Keep(res, {}, seen)
    BY <1>4 DEF Draw
  <2>3. CASE Place(cur, {}, seen \cup {cur})
    BY <2>1, <2>3, FewPlace
  <2>4. CASE Keep(res, {}, seen)
    BY <2>1, <2>4, FewKeep DEF Keep
  <2> QED
    BY <2>2, <2>3, <2>4
<1>5. CASE Exhausted
  <2>1. cur \in Loc /\ status = "running" /\ UNCHANGED <<args, res, it, pass, seen>>
    BY <1>5 DEF Exhausted, IndInv, TypeOK
  <2> QED
    BY <2>1, FewKeep
<1>6. CASE Returned
  BY <1>1, <1>6 DEF Returned
<1> QED
  BY <1>1, <1>2, <1>3, <1>4, <1>5, <1>6 DEF Next

\* A set of more stores than those named has another one.
LEMMA AnotherOne ==
  ASSUME StripeAssumption, NEW D \in SUBSET Loc
  PROVE  /\ Cardinality(D) >= 1 => D # {}
         /\ Cardinality(D) >= 2 => \A a : ~(D \subseteq {a})
         /\ Cardinality(D) >= 3 => \A a, b : ~(D \subseteq {a} \cup {b})
<1>1. IsFiniteSet(D) /\ Cardinality(D) \in Nat
  BY LocFinite
<1>2. Cardinality(D) >= 1 => D # {}
  BY <1>1, FS_EmptySet
<1>3. \A x : IsFiniteSet({x}) /\ Cardinality({x}) = 1
  BY FS_Singleton
<1>4. ASSUME Cardinality(D) >= 2, NEW a PROVE ~(D \subseteq {a})
  <2> SUFFICES ASSUME D \subseteq {a} PROVE FALSE
    OBVIOUS
  <2>1. IsFiniteSet({a}) /\ Cardinality({a}) = 1
    BY <1>3
  <2>2. Cardinality(D) <= Cardinality({a})
    BY <2>1, FS_Subset
  <2> QED
    BY <1>1, <1>4, <2>1, <2>2
<1>5. ASSUME Cardinality(D) >= 3, NEW a, NEW b PROVE ~(D \subseteq {a} \cup {b})
  <2> SUFFICES ASSUME D \subseteq {a} \cup {b} PROVE FALSE
    OBVIOUS
  <2>1. IsFiniteSet({a} \cup {b}) /\ Cardinality({a} \cup {b}) <= 2
    <3>1. CASE b \in {a}
      <4>1. {a} \cup {b} = {a}
        BY <3>1
      <4>2. Cardinality({a} \cup {b}) = 1 /\ IsFiniteSet({a} \cup {b})
        BY <1>3, <4>1, Zenon
      <4> QED
        BY <4>2
    <3>2. CASE b \notin {a}
      <4>1. IsFiniteSet({a} \cup {b}) /\ Cardinality({a} \cup {b}) = Cardinality({a}) + 1
        BY <1>3, <3>2, FS_AddElement
      <4>2. Cardinality({a}) = 1
        BY <1>3
      <4> QED
        BY <4>1, <4>2
    <3> QED
      BY <3>1, <3>2
  <2>2. Cardinality(D) <= Cardinality({a} \cup {b})
    BY <2>1, FS_Subset
  <2>3. Cardinality({a} \cup {b}) \in Nat
    BY <2>1, FS_CardinalityType
  <2> QED
    BY <1>1, <1>5, <2>1, <2>2, <2>3
<1> QED
  BY <1>2, <1>4, <1>5

\* A result all of whose items are exclusive is refused to nobody.
LEMMA ApartIsTaken ==
  ASSUME StripeAssumption, excl \in Nat,
         NEW r \in Seq(SUBSET Loc), Len(r) \in Nat, Len(r) <= K,
         \A i, j \in 1 .. Len(r) : i # j => r[i] # r[j]
  PROVE  Exclusives(r) >= Wanted(r)
<1>1. DOMAIN r = 1 .. Len(r)
  OBVIOUS
<1>2. Exclusive(r) = 1 .. Len(r)
  BY <1>1 DEF Exclusive
<1>3. Cardinality(1 .. Len(r)) = Len(r)
  <2>1. 1 \in Int /\ Len(r) \in Int
    OBVIOUS
  <2>2. Cardinality(1 .. Len(r)) = IF 1 > Len(r) THEN 0 ELSE Len(r) - 1 + 1
    BY <2>1, FS_Interval
  <2> QED
    BY <2>2
<1>4. Exclusives(r) = Len(r)
  BY <1>2, <1>3 DEF Exclusives
<1> QED
  BY <1>4 DEF Wanted

\* With enough stores for a group of three or less there is one that is not
\* refused, for an item that has none in the second pass.
LEMMA OneIsTaken ==
  ASSUME StripeAssumption, IndInv, FewInv, status = "running", min = 1, excl > 0, K <= 3,
         pass = 1, res[it] = {},
         Cardinality(dests) >= (IF excl < K THEN excl + 1 ELSE K)
  PROVE  \E l \in dests : Exclusives([res EXCEPT ![it] = {l}]) >= Wanted(res)
<1>1. /\ K \in Nat /\ excl \in Nat /\ it \in 1 .. K /\ res \in Seq(SUBSET Loc)
      /\ Len(res) = K /\ dests \in SUBSET Loc
      /\ \A i \in 1 .. K : res[i] \in SUBSET Loc /\ Cardinality(res[i]) <= 1
  BY Running
<1>2. FirstServed /\ NoneShared /\ Cardinality(dests) \in Nat
  BY <1>1, LocFinite DEF FewInv
<1>3. 1 \in 1 .. K /\ res[1] # {} /\ it # 1
  BY <1>1, <1>2 DEF FirstServed
<1>9. (K = 2 \/ K = 3) /\ (excl = 1 \/ excl >= 2)
  <2>1. K # 1
    BY <1>1, <1>3
  <2> QED
    BY <1>1, <2>1
<1>10. /\ Cardinality(dests) >= 2 => \A x : ~(dests \subseteq {x})
       /\ Cardinality(dests) >= 3 => \A x, y : ~(dests \subseteq {x} \cup {y})
  <2>1. dests \in SUBSET Loc
    BY <1>1
  <2> QED
    BY <2>1, AnotherOne, Zenon
<1>4. PICK a : res[1] \subseteq {a}
  BY <1>1, <1>3, AtMostOne
<1> DEFINE r(l) == [res EXCEPT ![it] = {l}]
<1>5. ASSUME NEW l \in dests
      PROVE  /\ r(l) \in Seq(SUBSET Loc) /\ Len(r(l)) = K
             /\ \A i \in 1 .. K : r(l)[i] = IF i = it THEN {l} ELSE res[i]
  <2>1. l \in Loc
    BY <1>1
  <2>2. r(l) = [res EXCEPT ![it] = @ \cup {l}]
    BY <2>1, Placed
  <2> QED
    BY <1>1, <2>1, <2>2, Placed
\* Where all items are kept apart, no location is refused.
<1>6. ASSUME NEW l \in dests, \A i, j \in 1 .. K : i # j => r(l)[i] # r(l)[j]
      PROVE  Exclusives(r(l)) >= Wanted(res)
  <2>1. Exclusives(r(l)) >= Wanted(r(l))
    <3> DEFINE rl == r(l)
    <3>1. rl \in Seq(SUBSET Loc) /\ Len(rl) = K /\ \A i, j \in 1 .. Len(rl) : i # j => rl[i] # rl[j]
      BY <1>5, <1>6
    <3> HIDE DEF rl
    <3>2. Exclusives(rl) >= Wanted(rl)
      BY <1>1, <3>1, ApartIsTaken
    <3> QED
      BY <3>2 DEF rl
  <2>2. Wanted(r(l)) = Wanted(res)
    BY <1>1, <1>5 DEF Wanted
  <2> QED
    BY <2>1, <2>2
<1>7. CASE K = 2
  <2>1. Cardinality(dests) >= 2
    BY <1>1, <1>2, <1>7
  <2>2. PICK l \in dests : l # a
    <3>1. ~(dests \subseteq {a})
      BY <1>10, <2>1, Zenon
    <3> QED
      BY <3>1
  <2>3. it = 2 /\ r(l)[1] = res[1] /\ r(l)[2] = {l}
    BY <1>1, <1>3, <1>5, <1>7
  <2>4. r(l)[1] # r(l)[2]
    BY <1>4, <2>2, <2>3
  <2>5. \A i, j \in 1 .. K : i # j => r(l)[i] # r(l)[j]
    <3> HIDE DEF r
    <3> QED
      BY <1>7, <2>4
  <2> QED
    BY <1>6, <2>5
<1>8. CASE K = 3
  <2>1. PICK o \in 1 .. K : o # 1 /\ o # it /\ \A i \in 1 .. K : i = 1 \/ i = it \/ i = o
    <3>1. it = 2 \/ it = 3
      BY <1>1, <1>3, <1>8
    <3>2. CASE it = 2
      BY <1>8, <3>2
    <3>3. CASE it = 3
      BY <1>8, <3>3
    <3> QED
      BY <3>1, <3>2, <3>3
  <2>2. PICK b : res[o] \subseteq {b}
    BY <1>1, AtMostOne
  <2>3. CASE excl = 1
    <3>1. Cardinality(dests) >= 2
      BY <1>8, <2>3
    <3>2. PICK l \in dests : l # a
      <4>1. ~(dests \subseteq {a})
        BY <1>10, <3>1, Zenon
      <4> QED
        BY <4>1
    <3>3. r(l)[1] = res[1] /\ r(l)[o] = res[o] /\ r(l)[it] = {l}
      BY <1>1, <1>3, <1>5, <2>1
    <3>4. r(l)[1] # r(l)[it]
      BY <1>4, <3>2, <3>3
    <3>5. DOMAIN r(l) = 1 .. K
      <4>1. DOMAIN res = 1 .. K
        BY <1>1
      <4> QED
        BY <4>1
    <3>6. ASSUME NEW x \in Exclusive(r(l)) PROVE Exclusives(r(l)) >= 1
      <4> DEFINE rl == r(l)
      <4>1. rl \in Seq(SUBSET Loc) /\ Len(rl) <= K
        BY <1>1, <1>5
      <4> HIDE DEF rl
      <4>2. {x} \in SUBSET Exclusive(rl)
        BY DEF rl
      <4>3. Cardinality({x}) <= Exclusives(rl) /\ Cardinality({x}) = 1
        BY <4>1, <4>2, SomeExclusive, FS_Singleton
      <4> QED
        BY <4>3 DEF rl
    <3>7. \E x : x \in Exclusive(r(l))
      <4>1. CASE res[o] = res[1]
        <5>1. it \in Exclusive(r(l))
          <6> HIDE DEF r
          <6> QED
            BY <1>1, <2>1, <3>3, <3>4, <3>5, <4>1 DEF Exclusive
        <5> QED
          BY <5>1
      <4>2. CASE res[o] # res[1]
        <5>1. 1 \in Exclusive(r(l))
          <6> HIDE DEF r
          <6> QED
            BY <1>3, <2>1, <3>3, <3>4, <3>5, <4>2 DEF Exclusive
        <5> QED
          BY <5>1
      <4> QED
        BY <4>1, <4>2
    <3>8. Wanted(res) = 1
      BY <1>1, <1>8, <2>3 DEF Wanted
    <3> QED
      BY <3>6, <3>7, <3>8
  <2>4. CASE excl >= 2
    <3>1. Cardinality(dests) >= 3
      BY <1>1, <1>2, <1>8, <2>4
    <3>2. PICK l \in dests : l # a /\ l # b
      <4>1. ~(dests \subseteq {a} \cup {b})
        BY <1>10, <3>1, Zenon
      <4> QED
        BY <4>1
    <3>3. r(l)[1] = res[1] /\ r(l)[o] = res[o] /\ r(l)[it] = {l}
      BY <1>1, <1>3, <1>5, <2>1
    <3>4. res[1] # res[o]
      BY <1>1, <1>2, <1>3, <1>8, <2>1, <2>4 DEF NoneShared
    <3>5. r(l)[1] # r(l)[it] /\ r(l)[o] # r(l)[it] /\ r(l)[1] # r(l)[o]
      BY <1>4, <2>2, <3>2, <3>3, <3>4
    <3>6. \A i, j \in 1 .. K : i # j => r(l)[i] # r(l)[j]
      <4> HIDE DEF r
      <4> QED
        BY <2>1, <3>5
    <3> QED
      BY <1>6, <3>6
  <2> QED
    BY <1>9, <2>3, <2>4, Zenon
<1> QED
  BY <1>9, <1>7, <1>8, Zenon

\* ErrShort with one copy of each chunk of groups of three.
FewJustified ==
  status = "short" /\ min = 1 /\ K <= 3 =>
    Cardinality(dests) < (IF excl < K THEN excl + 1 ELSE K)

\* Where next() gives up, every store has been refused.
LEMMA ShortFew ==
  ASSUME StripeAssumption, IndInv, SeenInv, FewInv, FewJustified, [Next]_vars,
         ShortOnlyIfFew'
  PROVE  FewJustified'
<1>1. CASE status # "running"
  <2>1. UNCHANGED vars
    BY <1>1 DEF Next, Full, Reuse, Draw, Exhausted, Returned
  <2> QED
    BY <2>1 DEF FewJustified, vars, args
<1>2. CASE status = "running" /\ status' # "short"
  BY <1>2 DEF FewJustified
<1>3. CASE status = "running" /\ status' = "short"
  <2> SUFFICES ASSUME min' = 1, K <= 3
               PROVE  Cardinality(dests') < (IF excl' < K THEN excl' + 1 ELSE K)
    BY DEF FewJustified
  <2>1. Exhausted
    BY <1>3 DEF Next, Full, Reuse, Draw, Exhausted, Returned, Place, Keep, Advance, vars
  <2>2. /\ UNCHANGED <<dests, min, excl>> /\ Cardinality(res[it]) < min
        /\ cur \in seen /\ DOMAIN prios \subseteq {cur}
    BY <1>3, <2>1 DEF Exhausted, args
  <2>3. K \in Nat /\ K > 0 /\ excl \in Nat /\ dests \in SUBSET Loc /\ pass \in {0, 1}
        /\ it \in 1 .. Len(res) /\ res[it] \in SUBSET Loc
    BY <1>3, Running
  <2>4. Cardinality(dests) \in Nat /\ Cardinality(res[it]) \in Nat /\ IsFiniteSet(res[it])
    BY <2>3, LocFinite
  <2>5. CASE excl = 0
    BY <1>3, <2>2, <2>3, <2>4, <2>5 DEF ShortOnlyIfFew
  <2>6. CASE excl # 0
    <3> SUFFICES ASSUME ~(Cardinality(dests) < (IF excl < K THEN excl + 1 ELSE K))
                 PROVE  FALSE
      BY <2>2
    <3>1. Cardinality(dests) >= (IF excl < K THEN excl + 1 ELSE K)
      BY <2>3, <2>4
    <3>2. res[it] = {}
      <4>1. Cardinality(res[it]) = 0
        BY <2>2, <2>4
      <4> QED
        BY <2>4, <4>1, FS_EmptySet
    <3>3. dests \subseteq seen
      <4>1. cur \in Loc
        BY DEF IndInv, TypeOK
      <4>2. \A y \in Loc : y \in seen
        BY <1>3, <2>2, <4>1, AllPassed DEF SeenInv
      <4> QED
        BY <2>3, <4>2
    <3>4. RefusedAll
      BY <1>3, <2>2, <2>3, <2>6 DEF FewInv
    <3>5. \A l \in dests : pass = 1 /\ Exclusives([res EXCEPT ![it] = {l}]) < Wanted(res)
      BY <3>2, <3>3, <3>4 DEF RefusedAll
    <3>6. dests # {}
      <4>1. Cardinality(dests) >= 1
        BY <2>3, <2>4, <3>1
      <4> QED
        BY <2>3, <4>1, AnotherOne
    <3>7. PICK l \in dests : Exclusives([res EXCEPT ![it] = {l}]) >= Wanted(res)
      <4>1. pass = 1
        BY <3>5, <3>6
      <4>2. min = 1 /\ excl > 0 /\ status = "running"
        BY <1>3, <2>2, <2>3, <2>6
      <4> QED
        BY <3>1, <3>2, <4>1, <4>2, OneIsTaken, Zenon
    <3>8. Exclusives([res EXCEPT ![it] = {l}]) \in Nat /\ Wanted(res) \in Nat
      <4>1. l \in Loc /\ Len(res) \in Nat /\ Len(res) <= K
        BY <1>3, <2>3, Running
      <4>2. [res EXCEPT ![it] = {l}] = [res EXCEPT ![it] = @ \cup {l}]
        BY <1>3, <3>2, <4>1, Placed
      <4>3. [res EXCEPT ![it] = {l}] \in Seq(SUBSET Loc) /\ Len([res EXCEPT ![it] = {l}]) <= K
        BY <1>3, <4>1, <4>2, Placed
      <4> QED
        BY <2>3, <4>1, <4>3, ExclusivesType DEF Wanted
    <3> QED
      BY <3>5, <3>7, <3>8
  <2> QED
    BY <2>5, <2>6
<1> QED
  BY <1>1, <1>2, <1>3

-----------------------------------------------------------------------------
(* First backups.                                                          *)

LEMMA UpToFinite ==
  ASSUME NEW n \in Nat
  PROVE  IsFiniteSet(1 .. n) /\ Cardinality(1 .. n) = n
<1>1. 1 \in Int /\ n \in Int
  OBVIOUS
<1>2. IsFiniteSet(1 .. n) /\ Cardinality(1 .. n) = IF 1 > n THEN 0 ELSE n - 1 + 1
  BY <1>1, FS_Interval
<1> QED
  BY <1>2

\* Stores that number as many as the copies of all items, each with a copy, leave no
\* item without any of its own.
LEMMA AllServed ==
  ASSUME StripeAssumption, NEW r \in Seq(SUBSET Loc), Len(r) <= K, min \in Nat, min > 0,
         \A i \in 1 .. Len(r) : Cardinality(r[i]) <= min,
         NEW D \in SUBSET Loc, K * min <= Cardinality(D),
         \A l \in D : \E i \in 1 .. Len(r) : l \in r[i]
  PROVE  Len(r) = K /\ \A i \in Item : Cardinality(r[i]) >= min
<1> DEFINE T == (1 .. K) \X (1 .. min)
           n(i) == Cardinality(r[i])
           at == [l \in D |-> CHOOSE i \in 1 .. Len(r) : l \in r[i]]
           num == [i \in 1 .. Len(r) |-> CHOOSE f : f \in Bijection(r[i], 1 .. n(i))]
           spot == [l \in D |-> << at[l], num[at[l]][l] >>]
<1>1. K \in Nat /\ K > 0 /\ Len(r) \in Nat /\ DOMAIN r = 1 .. Len(r)
  BY DEF StripeAssumption
<1>2. \A l \in D : at[l] \in 1 .. Len(r) /\ l \in r[at[l]]
  OBVIOUS
<1>3. ASSUME NEW i \in 1 .. Len(r)
      PROVE  /\ n(i) \in Nat /\ n(i) <= min
             /\ num[i] \in Bijection(r[i], 1 .. n(i))
  <2>1. r[i] \in SUBSET Loc
    BY <1>1
  <2>2. IsFiniteSet(r[i]) /\ n(i) \in Nat
    BY <2>1, LocFinite
  <2>4. IsFiniteSet(1 .. n(i)) /\ Cardinality(1 .. n(i)) = n(i)
    BY <2>2, UpToFinite
  <2>5. ExistsBijection(r[i], 1 .. n(i))
    BY <2>2, <2>4, FS_SameCardinalityBij
  <2> DEFINE B == Bijection(r[i], 1 .. n(i))
  <2>6. PICK f : f \in B
    BY <2>5 DEF ExistsBijection
  <2>7. num[i] = CHOOSE g : g \in B
    OBVIOUS
  <2> HIDE DEF num, B
  <2>8. num[i] \in B
    BY <2>6, <2>7
  <2> QED
    BY <2>2, <2>8 DEF B
<1> HIDE DEF at, num
<1>4. ASSUME NEW i \in 1 .. Len(r), NEW l \in r[i]
      PROVE  num[i][l] \in 1 .. n(i) /\ num[i][l] \in 1 .. min
  <2>1. num[i] \in [r[i] -> 1 .. n(i)] /\ n(i) \in Nat /\ n(i) <= min
    BY <1>3 DEF Bijection, Injection
  <2> QED
    BY <2>1
<1>5. \A i \in 1 .. Len(r) : i \in 1 .. K
  BY <1>1
<1>6. spot \in Injection(D, T)
  <2>1. spot \in [D -> T]
    BY <1>2, <1>4, <1>5
  <2>2. ASSUME NEW a \in D, NEW b \in D, spot[a] = spot[b] PROVE a = b
    <3>1. at[a] = at[b] /\ num[at[a]][a] = num[at[a]][b]
      BY <2>2
    <3>2. a \in r[at[a]] /\ b \in r[at[a]] /\ at[a] \in 1 .. Len(r)
      BY <1>2, <3>1
    <3>3. num[at[a]] \in Injection(r[at[a]], 1 .. n(at[a]))
      BY <1>3, <3>2 DEF Bijection
    <3> QED
      BY <3>1, <3>2, <3>3 DEF Injection, IsInjective
  <2> QED
    BY <2>1, <2>2 DEF Injection, IsInjective
<1>7. IsFiniteSet(T) /\ Cardinality(T) = K * min
  <2>2. /\ IsFiniteSet(1 .. K) /\ Cardinality(1 .. K) = K
        /\ IsFiniteSet(1 .. min) /\ Cardinality(1 .. min) = min
    BY <1>1, UpToFinite
  <2> QED
    BY <2>2, FS_Product
<1> HIDE DEF T, spot
<1>8. spot \in Surjection(D, T)
  <2>1. Cardinality(D) \in Nat
    BY LocFinite
  <2>2. Cardinality(D) <= Cardinality(T)
    BY <1>6, <1>7, FS_Injection
  <2>3. K * min \in Nat
    BY <1>1
  <2>4. Cardinality(D) = Cardinality(T)
    BY <2>1, <2>2, <2>3, <1>7
  <2> QED
    BY <1>6, <1>7, <2>4, FS_Injection
<1>9. \A t \in T : \E l \in D : spot[l] = t
  BY <1>8 DEF Surjection
<1>10. Len(r) = K
  <2>1. << K, 1 >> \in T
    BY <1>1 DEF T
  <2>2. PICK l \in D : spot[l] = << K, 1 >>
    BY <1>9, <2>1
  <2>3. at[l] = K
    BY <2>2 DEF spot
  <2> QED
    BY <1>1, <1>2, <2>3
<1>11. ASSUME NEW i \in Item PROVE n(i) >= min
  <2>1. << i, min >> \in T
    BY <1>1 DEF T, Item
  <2>2. PICK l \in D : spot[l] = << i, min >>
    BY <1>9, <2>1
  <2>3. at[l] = i /\ num[i][l] = min
    BY <2>2 DEF spot
  <2>4. i \in 1 .. Len(r) /\ l \in r[i]
    BY <1>2, <2>3
  <2>5. min \in 1 .. n(i) /\ n(i) \in Nat
    BY <1>3, <1>4, <2>3, <2>4
  <2> QED
    BY <2>5
<1> QED
  BY <1>10, <1>11

\* Where what all items have is apart and none is empty, all are exclusive.
LEMMA ApartExclusive ==
  ASSUME StripeAssumption, NEW r \in Seq(SUBSET Loc), Len(r) <= K,
         \A i \in 1 .. Len(r) : r[i] # {},
         \A i, j \in 1 .. Len(r) : i # j => r[i] \cap r[j] = {}
  PROVE  Exclusives(r) = Len(r)
<1>1. Len(r) \in Nat /\ DOMAIN r = 1 .. Len(r)
  OBVIOUS
<1>2. Exclusive(r) = 1 .. Len(r)
  BY <1>1 DEF Exclusive
<1>3. Cardinality(1 .. Len(r)) = Len(r)
  BY <1>1, UpToFinite
<1> QED
  BY <1>2, <1>3 DEF Exclusives

\* What a call has come to.
Apart(r) == \A i, j \in 1 .. Len(r) : i # j => r[i] \cap r[j] = {}

Served == Len(res) = K /\ \A i \in Item : Cardinality(res[i]) >= min

\* The stores that r has placed copies on are those up to c.
FirstRound(r, c) == \A l \in Loc : l \in dests /\ l < c <=> \E i \in 1 .. Len(r) : l \in r[i]

LEMMA FreshParts ==
  ASSUME StripeAssumption, IndInv, status = "running", FreshInv, FreshServed, Fresh
  PROVE  /\ DOMAIN prios = {} /\ old = {} /\ Apart(res)
         /\ \/ Served
            \/ /\ pass = 0 /\ (\A l \in seen : l < cur) /\ FirstRound(res, cur)
               /\ \A i \in 1 .. it - 1 : Cardinality(res[i]) >= min
<1>1. Len(res) = (IF pass = 0 THEN it ELSE K)
  BY Running
<1>2. pass = 0 => Len(res) = it
  BY <1>1
<1> QED
  BY <1>2 DEF FreshInv, FreshServed, Fresh, Apart, Served, FirstRound

\* The round robin has gone round once, and all stores with room have a copy.
LEMMA RoundDone ==
  ASSUME StripeAssumption, NEW r \in Seq(SUBSET Loc), Len(r) <= K, min \in Nat, min > 0,
         \A i \in 1 .. Len(r) : Cardinality(r[i]) <= min,
         dests \in SUBSET Loc, Fresh, FirstRound(r, L)
  PROVE  Len(r) = K /\ \A i \in Item : Cardinality(r[i]) >= min
<1>1. \A l \in dests : \E i \in 1 .. Len(r) : l \in r[i]
  BY DEF FirstRound, Loc, StripeAssumption
<1>2. K * min <= Cardinality(dests)
  <2>1. Cardinality(dests) \in Nat /\ K * min \in Nat
    BY LocFinite DEF StripeAssumption
  <2> QED
    BY <2>1 DEF Fresh
<1> QED
  BY <1>1, <1>2, AllServed

\* An item that is served is left for the next one.
LEMMA FreshFull ==
  ASSUME StripeAssumption, IndInv, FreshInv, FreshServed, Full, Fresh
  PROVE  FreshInv' /\ FreshServed'
<1>0. /\ status = "running" /\ Cardinality(res[it]) >= min /\ Advance(res)
      /\ UNCHANGED <<args, cur, prios>>
  BY DEF Full
<1>1. /\ K \in Nat /\ K > 0 /\ it \in 1 .. K /\ min \in Nat
      /\ res \in Seq(SUBSET Loc) /\ Len(res) \in Nat /\ it <= Len(res)
      /\ pass \in {0, 1} /\ Len(res) = (IF pass = 0 THEN it ELSE K)
      /\ UNCHANGED <<got, dests, min, cur, prios>>
  BY <1>0, Running DEF args
<1>2. /\ DOMAIN prios = {} /\ old = {} /\ Apart(res) /\ \A i \in Item : got[i] = {}
      /\ \/ Served
         \/ /\ pass = 0 /\ FirstRound(res, cur)
            /\ \A i \in 1 .. it - 1 : Cardinality(res[i]) >= min
  BY <1>0, FreshParts DEF Fresh
<1>3. CASE it < K /\ pass = 0
  <2>1. /\ it' = it + 1 /\ res' = Append(res, {}) /\ old' = got[it + 1] /\ seen' = {}
        /\ pass' = 0 /\ status' = "running"
    BY <1>0, <1>1, <1>3 DEF Advance
  <2>2. /\ Len(res) = it /\ Len(res') = it + 1 /\ res'[it + 1] = {}
        /\ \A i \in 1 .. it : res'[i] = res[i]
    BY <1>1, <1>3, <2>1
  <2>3. \A i \in 1 .. it + 1 : i \in 1 .. it \/ i = it + 1
    BY <1>1
  <2>4. FirstRound(res, cur) /\ \A i \in 1 .. it - 1 : Cardinality(res[i]) >= min
    BY <1>1, <1>2, <1>3, <2>2 DEF Served
  <2>5. \A i \in 1 .. it : Cardinality(res'[i]) >= min
    <3>1. \A i \in 1 .. it : i = it \/ i \in 1 .. it - 1
      BY <1>1
    <3> QED
      BY <1>0, <2>2, <2>4, <3>1
  <2>6. \A l \in Loc : l \in dests /\ l < cur <=> \E i \in 1 .. it + 1 : l \in res'[i]
    <3>1. \A i \in 1 .. it : i \in 1 .. it + 1
      BY <1>1
    <3> QED
      BY <2>2, <2>3, <2>4, <3>1 DEF FirstRound
  <2>7. \A i, j \in 1 .. it + 1 : i # j => res'[i] \cap res'[j] = {}
    BY <1>2, <2>2, <2>3 DEF Apart
  <2>8. old' = {}
    BY <1>1, <1>2, <1>3, <2>1 DEF Item
  <2>9. it' - 1 = it /\ it' = it + 1 /\ Len(res') = it'
    BY <1>1, <2>1, <2>2
  <2> QED
    BY <1>1, <1>2, <2>1, <2>5, <2>6, <2>7, <2>8, <2>9 DEF FreshInv, FreshServed
<1>4. CASE it = K \/ pass = 1
  <2>1. Served
    <3>1. CASE Served
      BY <3>1
    <3>2. CASE ~Served
      <4>1. pass = 0 /\ it = K /\ \A i \in 1 .. K - 1 : Cardinality(res[i]) >= min
        BY <1>1, <1>2, <1>4, <3>2
      <4>2. \A i \in Item : i = K \/ i \in 1 .. K - 1
        BY <1>1 DEF Item
      <4> QED
        BY <1>0, <1>1, <4>1, <4>2 DEF Served
    <3> QED
      BY <3>1, <3>2
  <2>2. CASE ~(it = K /\ pass = 1)
    <3>1. res' = res /\ status' = "running" /\ it' \in Item /\ old' = got[it']
      BY <1>0, <1>1, <1>4, <2>2 DEF Advance, Item
    <3> QED
      BY <1>1, <1>2, <2>1, <3>1 DEF FreshInv, FreshServed, Served, Apart
  <2>3. CASE it = K /\ pass = 1
    <3>1. res' = [i \in Item |-> res[i] \ got[i]] /\ status' = "ok" /\ old' = old
      BY <1>0, <1>1, <2>3 DEF Advance
    <3>2. Len(res) = K /\ Item = 1 .. K
      BY <1>1, <2>3 DEF Item
    <3>3. res' = [i \in 1 .. K |-> res[i]]
      BY <1>2, <3>1, <3>2
    <3>4. Len(res') = K /\ \A i \in 1 .. K : res'[i] = res[i]
      BY <1>1, <3>3
    <3> QED
      BY <1>1, <1>2, <3>1, <3>2, <3>4 DEF FreshInv, FreshServed, Apart
  <2> QED
    BY <2>2, <2>3
<1> QED
  BY <1>1, <1>3, <1>4

\* A store that is drawn comes for the first time, and its copy is kept.
LEMMA FreshDraw ==
  ASSUME StripeAssumption, IndInv, IndInv', FreshInv, FreshServed, Draw, Fresh
  PROVE  FreshInv' /\ FreshServed'
<1>1. /\ status = "running" /\ Cardinality(res[it]) < min /\ cur' = (cur + 1) % L
      /\ UNCHANGED <<got, dests, min, excl>> /\ Fresh'
      /\ cur \in Loc
  BY DEF Draw, args, Fresh, IndInv, TypeOK
<1>2. /\ K \in Nat /\ K > 0 /\ it \in 1 .. K /\ min \in Nat /\ excl \in Nat
      /\ res \in Seq(SUBSET Loc) /\ Len(res) \in Nat /\ it <= Len(res) /\ Len(res) <= K
      /\ pass \in {0, 1} /\ Len(res) = (IF pass = 0 THEN it ELSE K)
      /\ dests \in SUBSET Loc
      /\ \A i \in 1 .. Len(res) : Cardinality(res[i]) <= min
  BY <1>1, Running
<1>3. min > 0 /\ ~(Cardinality(res[it]) >= min)
  <2>1. res[it] \in SUBSET Loc
    BY <1>2
  <2>2. Cardinality(res[it]) \in Nat
    BY <2>1, LocFinite
  <2> QED
    BY <1>1, <1>2, <2>2
<1>4. ~Served
  BY <1>2, <1>3 DEF Served, Item
<1>5. /\ DOMAIN prios = {} /\ old = {} /\ Apart(res) /\ pass = 0
      /\ (\A l \in seen : l < cur) /\ FirstRound(res, cur)
      /\ \A i \in 1 .. it - 1 : Cardinality(res[i]) >= min
  BY <1>1, <1>4, FreshParts
<1>6. Len(res) = it
  BY <1>2, <1>5
<1>7. Place(cur, {}, seen \cup {cur}) /\ UNCHANGED prios
  BY <1>5 DEF Draw
<1> DEFINE r == [res EXCEPT ![it] = @ \cup {cur}]
<1>8. /\ r \in Seq(SUBSET Loc) /\ Len(r) = it
      /\ \A i \in 1 .. it : r[i] = IF i = it THEN res[i] \cup {cur} ELSE res[i]
  BY <1>1, <1>6, Placed
<1>9. \A i \in 1 .. it : cur \notin res[i]
  BY <1>1, <1>5, <1>6 DEF FirstRound, Loc, StripeAssumption
<1>10. Apart(r)
  BY <1>5, <1>6, <1>8, <1>9 DEF Apart
<1>11. cur \in dests => Exclusives(r) >= Wanted(res)
  <2>1. ASSUME NEW i \in 1 .. it PROVE r[i] # {}
    <3>1. CASE i = it
      BY <1>8, <3>1
    <3>2. CASE i # it
      <4>1. i \in 1 .. it - 1 /\ r[i] = res[i]
        BY <1>2, <1>8, <3>2
      <4>2. Cardinality(res[i]) >= min
        BY <1>5, <4>1
      <4>3. res[i] = {} => Cardinality(res[i]) = 0
        BY FS_EmptySet, Zenon
      <4> QED
        BY <1>2, <1>3, <4>1, <4>2, <4>3
    <3> QED
      BY <3>1, <3>2
  <2> HIDE DEF r
  <2>2. Len(r) <= K /\ \A i, j \in 1 .. Len(r) : i # j => r[i] \cap r[j] = {}
    BY <1>2, <1>8, <1>10 DEF Apart
  <2>3. Exclusives(r) = Len(r)
    BY <1>8, <2>1, <2>2, ApartExclusive
  <2> QED
    BY <1>2, <1>6, <1>8, <2>3 DEF Wanted
<1>12. /\ res' = IF cur \in dests THEN r ELSE res
       /\ old' = {} /\ seen' = seen \cup {cur} /\ UNCHANGED <<pass, it, status>>
  <2>1. it \in 1 .. it
    BY <1>2
  <2>2. cur \notin res[it]
    BY <1>9, <2>1
  <2>3. CASE cur \notin dests
    <3>1. Keep(res, {}, seen \cup {cur})
      BY <1>7, <2>3 DEF Place
    <3> QED
      BY <3>1, <2>3 DEF Keep
  <2>4. CASE cur \in dests
    <3>1. Keep(r, {}, seen \cup {cur})
      BY <1>7, <1>11, <2>2, <2>4 DEF Place
    <3> QED
      BY <3>1, <2>4 DEF Keep
  <2> QED
    BY <2>3, <2>4
<1> HIDE DEF r
<1>13. /\ Apart(res') /\ Len(res') = it /\ res' \in Seq(SUBSET Loc)
       /\ \A i \in 1 .. it - 1 : Cardinality(res'[i]) >= min
  <2>1. \A i \in 1 .. it - 1 : r[i] = res[i]
    BY <1>2, <1>8
  <2> QED
    BY <1>2, <1>5, <1>6, <1>8, <1>10, <1>12, <2>1
<1>14. FirstRound(res', cur + 1)
  <2>1. FirstRound(r, cur + 1) \/ cur \notin dests
    <3> SUFFICES ASSUME cur \in dests, NEW l \in Loc
                 PROVE  l \in dests /\ l < cur + 1 <=> \E i \in 1 .. it : l \in r[i]
      BY <1>8 DEF FirstRound
    <3>1. l < cur + 1 <=> l < cur \/ l = cur
      BY <1>1 DEF Loc, StripeAssumption
    <3>2. l \in dests /\ l < cur <=> \E i \in 1 .. it : l \in res[i]
      BY <1>5, <1>6 DEF FirstRound
    <3>3. (\E i \in 1 .. it : l \in r[i]) <=> (\E i \in 1 .. it : l \in res[i]) \/ l = cur
      BY <1>2, <1>8
    <3> QED
      BY <3>1, <3>2, <3>3
  <2>2. cur \notin dests => FirstRound(res, cur + 1)
    <3> SUFFICES ASSUME cur \notin dests, NEW l \in Loc
                 PROVE  l \in dests /\ l < cur + 1 <=> \E i \in 1 .. it : l \in res[i]
      BY <1>6 DEF FirstRound
    <3>1. l < cur + 1 <=> l < cur \/ l = cur
      BY <1>1 DEF Loc, StripeAssumption
    <3> QED
      BY <3>1, <1>5, <1>6 DEF FirstRound
  <2> QED
    BY <1>12, <2>1, <2>2
<1>15. CASE cur < L - 1
  <2>1. cur' = cur + 1
    BY <1>1, <1>15 DEF Loc, StripeAssumption
  <2>2. \A l \in seen' : l < cur'
    BY <1>1, <1>5, <1>12, <2>1 DEF Loc, StripeAssumption, IndInv, TypeOK
  <2>3. \A l \in Loc : l \in dests' /\ l < cur' <=> \E i \in 1 .. it' : l \in res'[i]
    BY <1>1, <1>12, <1>13, <1>14, <2>1 DEF FirstRound
  <2> QED
    BY <1>1, <1>5, <1>7, <1>12, <1>13, <2>2, <2>3 DEF FreshInv, FreshServed, Apart
<1>16. CASE cur = L - 1
  <2>1. FirstRound(res', L)
    BY <1>1, <1>14, <1>16 DEF Loc, StripeAssumption
  <2>2. \A i \in 1 .. Len(res') : Cardinality(res'[i]) <= min
    BY <1>1, <1>12 DEF IndInv, ResInv
  <2>3. Len(res') = K /\ \A i \in Item : Cardinality(res'[i]) >= min
    BY <1>2, <1>3, <1>13, <2>1, <2>2, RoundDone
  <2> QED
    BY <1>1, <1>5, <1>7, <1>12, <1>13, <2>3 DEF FreshInv, FreshServed, Apart
<1> QED
  BY <1>1, <1>15, <1>16 DEF Loc, StripeAssumption

LEMMA FreshInd ==
  ASSUME StripeAssumption, IndInv, IndInv', FreshInv, FreshServed, [Next]_vars
  PROVE  FreshInv' /\ FreshServed'
<1>1. CASE UNCHANGED vars
  BY <1>1 DEF Fresh, FreshInv, FreshServed, vars, args
<1>2. ASSUME Next, ~Fresh PROVE FreshInv' /\ FreshServed'
  <2>1. UNCHANGED <<got, dests, min>>
    BY <1>2 DEF Next, Full, Reuse, Draw, Exhausted, Returned, vars, args
  <2> QED
    BY <1>2, <2>1 DEF Fresh, FreshInv, FreshServed
<1>3. ASSUME Fresh, Reuse PROVE FALSE
  BY <1>3 DEF Fresh, FreshInv, Reuse
<1>4. ASSUME Fresh, Exhausted PROVE FALSE
  <2>1. /\ status = "running" /\ Cardinality(res[it]) < min /\ cur \in seen /\ cur \in Loc
    BY <1>4 DEF Exhausted, IndInv, TypeOK
  <2>2. ~Served
    <3>1. it \in 1 .. K /\ min \in Nat /\ res[it] \in SUBSET Loc
      BY <2>1, Running
    <3>2. Cardinality(res[it]) \in Nat
      BY <3>1, LocFinite
    <3> QED
      BY <2>1, <3>1, <3>2 DEF Served, Item
  <2>3. cur < cur
    BY <1>4, <2>1, <2>2, FreshParts
  <2> QED
    BY <2>1, <2>3 DEF Loc, StripeAssumption
<1>5. CASE Returned
  BY <1>1, <1>5 DEF Returned
<1> QED
  BY <1>1, <1>2, <1>3, <1>4, <1>5, FreshFull, FreshDraw DEF Next

-----------------------------------------------------------------------------
\* The invariant that carries the others, for all numbers of chunks and stores.
THEOREM Invariance == Spec => []IndInv
<1>1. Init => IndInv
  BY InitInd, StripeAssumption
<1>2. IndInv /\ [Next]_vars => IndInv'
  BY NextInd, StripeAssumption
<1> QED
  BY <1>1, <1>2, PTL DEF Spec

\* Every variable keeps its type; no count of holders goes below zero.
THEOREM TypeCorrect == Spec => []TypeOK
<1>1. IndInv => TypeOK
  BY DEF IndInv
<1> QED
  BY <1>1, Invariance, PTL

\* A successful Stripe gives every chunk min copies on stores that can take
\* them, and never asks for a copy that exists.
THEOREM EnoughCopies == Spec => []Enough
<1>1. IndInv => Enough
  BY DEF IndInv
<1> QED
  BY <1>1, Invariance, PTL

\* After a successful stripe(min excl) any one store can be lost with at most
\* one chunk of the group, or K - excl of them.
THEOREM LossBounded == Spec => []LossBound
<1>1. IndInv => LossBound
  BY DEF IndInv
<1> QED
  BY <1>1, Invariance, PTL

\* mincopies makes exactly the copies that are missing.
THEOREM NeverNeedless == Spec => []NothingNeedless
<1>1. IndInv => NothingNeedless
  BY DEF IndInv
<1> QED
  BY <1>1, Invariance, PTL

\* mincopies is short of stores only when there are fewer than copies to make:
\* the passing over of busy stores loses none of them.
THEOREM ShortIsShort == Spec => []ShortOnlyIfFew
<1>1. Init => SeenInv /\ ShortOnlyIfFew
  BY InitSeen
<1>2. IndInv /\ SeenInv /\ ShortOnlyIfFew /\ [Next]_vars => SeenInv' /\ ShortOnlyIfFew'
  BY SeenInd, StripeAssumption
<1> QED
  BY <1>1, <1>2, Invariance, PTL DEF Spec

\* A first backup is never short where there are as many stores as copies to make,
\* and makes no two of them on one store.
THEOREM FirstBackupServed == Spec => []FreshServed
<1>1. ASSUME Init PROVE FreshInv /\ FreshServed
  <2>1. /\ got \in [Item -> SUBSET Loc] /\ res = << {} >> /\ cur = 0 /\ seen = {}
        /\ pass = 0 /\ it = 1 /\ old = got[1] /\ status = "running"
        /\ prios = [l \in {d \in dests : Holders(d) # {}} |-> Cardinality(Holders(l))]
    BY <1>1 DEF Init
  <2>2. 1 \in Item
    BY StripeAssumption DEF Item, StripeAssumption
  <2>3. (\A i \in Item : got[i] = {}) => DOMAIN prios = {} /\ old = {}
    BY <2>1, <2>2 DEF Holders
  <2>4. \A l \in Loc : ~(l < cur)
    BY <2>1, StripeAssumption DEF Loc, StripeAssumption
  <2>5. Len(res) = 1 /\ res[1] = {} /\ it - 1 = 0
    BY <2>1
  <2> QED
    BY <2>1, <2>3, <2>4, <2>5 DEF Fresh, FreshInv, FreshServed
<1>2. IndInv /\ IndInv' /\ FreshInv /\ FreshServed /\ [Next]_vars => FreshInv' /\ FreshServed'
  BY FreshInd, StripeAssumption
<1> QED
  BY <1>1, <1>2, Invariance, PTL DEF Spec

\* For one copy of each chunk of a group of three or less ErrShort is returned
\* only when there are too few stores for the exclusive chunks and the others; and
\* never to a first backup with a store for each copy.
THEOREM ShortIsJustified == Spec => []ShortJustified
<1>1. Init => SeenInv /\ ShortOnlyIfFew
  BY InitSeen
<1>2. IndInv /\ SeenInv /\ ShortOnlyIfFew /\ [Next]_vars => SeenInv' /\ ShortOnlyIfFew'
  BY SeenInd, StripeAssumption
<1>3. Init => FewInv /\ FewJustified
  BY InitFew, StripeAssumption DEF Init, FewJustified
<1>4. IndInv /\ FewInv /\ [Next]_vars => FewInv'
  BY FewInd, StripeAssumption
<1>5. IndInv /\ SeenInv /\ FewInv /\ FewJustified /\ [Next]_vars /\ ShortOnlyIfFew' => FewJustified'
  BY ShortFew, StripeAssumption
<1>6. ShortOnlyIfFew /\ FewJustified /\ FreshServed => ShortJustified
  BY DEF ShortJustified, FewJustified, FreshServed
<1> QED
  BY <1>1, <1>2, <1>3, <1>4, <1>5, <1>6, Invariance, FirstBackupServed, PTL DEF Spec
-----------------------------------------------------------------------------
(* The loops end.                                                          *)

LEMMA PriosStart == ASSUME StripeAssumption, Init PROVE PriosInv
<1>1. \A l : Holders(l) \subseteq Item
  BY DEF Holders
<1>2. \A l \in DOMAIN prios : prios[l] = Cardinality(Holders(l))
  BY DEF Init
<1> QED
  BY <1>1, <1>2, ItemFinite DEF PriosInv

\* No location is to be passed over more often than it has holders.
LEMMA PriosFall ==
  ASSUME StripeAssumption, TypeOK, PriosInv, [Next]_vars
  PROVE  PriosInv'
<1>1. K \in Nat /\ \A l \in DOMAIN prios : prios[l] \in Nat
  BY DEF TypeOK, StripeAssumption
<1>2. \/ UNCHANGED prios
      \/ prios' = Without(prios, cur)
      \/ cur \in DOMAIN prios /\ prios' = [prios EXCEPT ![cur] = @ - 1]
  BY DEF Next, Full, Reuse, Draw, Exhausted, Returned, vars
<1>3. CASE UNCHANGED prios
  BY <1>3 DEF PriosInv
<1>4. CASE prios' = Without(prios, cur)
  BY <1>4 DEF PriosInv, Without, Restrict
<1>5. CASE cur \in DOMAIN prios /\ prios' = [prios EXCEPT ![cur] = @ - 1]
  BY <1>1, <1>5 DEF PriosInv
<1> QED
  BY <1>2, <1>3, <1>4, <1>5

\* On to the next item, or to the end.
LEMMA AdvanceShrinks ==
  ASSUME StripeAssumption, TypeOK, status = "running", NEW r, Advance(r)
  PROVE  Shrinks
<1>1. K \in Nat /\ it \in 1 .. K /\ pass \in {0, 1}
  BY DEF TypeOK, Item, StripeAssumption
<1>2. ItemsLeft' \subseteq ItemsLeft
  BY <1>1 DEF ItemsLeft, Advance, Item
<1>3. <<pass, it>> \in ItemsLeft
  BY <1>1 DEF ItemsLeft, Item
<1>4. <<pass, it>> \notin ItemsLeft'
  BY <1>1 DEF ItemsLeft, Advance
<1> QED
  BY <1>2, <1>3, <1>4 DEF Shrinks

\* The tokens of the locations to be passed over.
PriosLeft == {x \in Loc \X (0 .. K) : x[1] \in DOMAIN prios /\ x[2] <= prios[x[1]]}

\* Staying with the item, with less to draw.
LEMMA DrawsShrink ==
  ASSUME UNCHANGED <<pass, it, status>>,
         old' \subseteq old, Loc \ seen' \subseteq Loc \ seen, PriosLeft' \subseteq PriosLeft,
         old' # old \/ Loc \ seen' # Loc \ seen \/ PriosLeft' # PriosLeft
  PROVE  Shrinks
<1>1. ItemsLeft' = ItemsLeft
  BY DEF ItemsLeft
<1>2. DrawsLeft = <<old, Loc \ seen, PriosLeft>> /\ DrawsLeft' = <<old', Loc \ seen', PriosLeft'>>
  BY DEF DrawsLeft, PriosLeft
<1>3. \A k \in 1 .. 3 : k = 1 \/ k = 2 \/ k = 3
  OBVIOUS
<1> QED
  BY <1>1, <1>2, <1>3 DEF Shrinks

LEMMA WithoutLess ==
  ASSUME prios' = Without(prios, cur)
  PROVE  PriosLeft' \subseteq PriosLeft
BY DEF PriosLeft, Without, Restrict

LEMMA ReuseShrinks ==
  ASSUME StripeAssumption, TypeOK, Reuse
  PROVE  Shrinks
<1>1. PICK l \in old : Place(l, old \ {l}, seen)
  BY DEF Reuse
<1>2. status = "running" /\ UNCHANGED prios
  BY DEF Reuse
<1>3. PriosLeft' = PriosLeft
  BY <1>2 DEF PriosLeft
<1>4. Advance(res) \/ \E r : Keep(r, old \ {l}, seen)
  BY <1>1 DEF Place
<1>5. CASE Advance(res)
  BY <1>2, <1>5, AdvanceShrinks
<1>6. CASE \E r : Keep(r, old \ {l}, seen)
  <2>1. UNCHANGED <<pass, it, status, seen>> /\ old' = old \ {l}
    BY <1>6 DEF Keep
  <2> QED
    BY <1>3, <2>1, DrawsShrink
<1> QED
  BY <1>4, <1>5, <1>6

LEMMA DrawShrinks ==
  ASSUME StripeAssumption, TypeOK, PriosInv, Draw
  PROVE  Shrinks
<1>1. /\ status = "running" /\ cur \in Loc /\ old = {} /\ cur \notin seen /\ K \in Nat
      /\ \A l \in DOMAIN prios : prios[l] \in Nat
  BY DEF Draw, TypeOK, StripeAssumption
<1>2. \/ /\ Place(cur, {}, seen \cup {cur})
         /\ UNCHANGED prios \/ prios' = Without(prios, cur)
      \/ /\ Keep(res, {}, seen) /\ cur \in DOMAIN prios /\ prios[cur] > 0
         /\ prios' = [prios EXCEPT ![cur] = @ - 1]
  BY DEF Draw
<1>3. CASE Place(cur, {}, seen \cup {cur}) /\ (UNCHANGED prios \/ prios' = Without(prios, cur))
  <2>1. PriosLeft' \subseteq PriosLeft
    BY <1>3, WithoutLess DEF PriosLeft
  <2>2. Advance(res) \/ \E r : Keep(r, {}, seen \cup {cur})
    BY <1>3 DEF Place
  <2>3. CASE Advance(res)
    BY <1>1, <2>3, AdvanceShrinks
  <2>4. CASE \E r : Keep(r, {}, seen \cup {cur})
    <3>1. UNCHANGED <<pass, it, status, old>> /\ seen' = seen \cup {cur}
      BY <1>1, <2>4 DEF Keep
    <3> QED
      BY <1>1, <2>1, <3>1, DrawsShrink
  <2> QED
    BY <2>2, <2>3, <2>4
<1>4. CASE /\ Keep(res, {}, seen) /\ cur \in DOMAIN prios /\ prios[cur] > 0
           /\ prios' = [prios EXCEPT ![cur] = @ - 1]
  <2>1. UNCHANGED <<pass, it, status, old, seen>>
    BY <1>1, <1>4 DEF Keep
  <2>2. /\ DOMAIN prios' = DOMAIN prios /\ prios'[cur] = prios[cur] - 1
        /\ \A l \in DOMAIN prios \ {cur} : prios'[l] = prios[l]
    BY <1>4
  <2>3. PriosLeft' \subseteq PriosLeft
    <3> SUFFICES ASSUME NEW l \in Loc, NEW k \in 0 .. K, l \in DOMAIN prios, k <= prios'[l]
                 PROVE  k <= prios[l]
      BY <2>2 DEF PriosLeft
    <3> QED
      BY <1>1, <2>2
  <2> DEFINE k == prios[cur]
  <2>6. k \in 0 .. K /\ k <= prios[cur] /\ ~(k <= prios'[cur])
    BY <1>1, <1>4, <2>2 DEF PriosInv
  <2> HIDE DEF k
  <2>7. <<cur, k>> \in Loc \X (0 .. K) /\ <<cur, k>>[1] = cur /\ <<cur, k>>[2] = k
    BY <1>1, <2>6
  <2> DEFINE x == <<cur, k>>
  <2>8. x \in Loc \X (0 .. K) /\ x[1] = cur /\ x[2] = k
    BY <2>7
  <2> HIDE DEF x
  <2>4. x \in PriosLeft
    BY <1>4, <2>6, <2>8 DEF PriosLeft
  <2>5. x \notin PriosLeft'
    BY <2>6, <2>8 DEF PriosLeft
  <2> QED
    BY <2>1, <2>3, <2>4, <2>5, DrawsShrink
<1> QED
  BY <1>2, <1>3, <1>4

\* The cursor gets nearer to a location that is waited for.
LEMMA CursorMoves ==
  ASSUME StripeAssumption, TypeOK, cur' = (cur + 1) % L,
         cur \in seen \ DOMAIN prios, UNCHANGED <<seen, dests>>, DOMAIN prios' = DOMAIN prios,
         NEW p \in DOMAIN prios
  PROVE  Ahead' \subseteq Ahead /\ Ahead' # Ahead
<1>1. /\ L \in Nat /\ cur \in 0 .. L - 1 /\ p \in 0 .. L - 1 /\ p # cur
      /\ Loc = 0 .. L - 1
  BY DEF StripeAssumption, TypeOK, Loc
<1>2. cur' = IF cur = L - 1 THEN 0 ELSE cur + 1
  BY <1>1
<1>3. cur \in Ahead
  BY <1>1 DEF Ahead, UpTo
<1>4. cur \notin Ahead'
  <2>1. PICK c \in 0 .. L - 1 : c = cur
    BY <1>1
  <2>2. UpTo(c, p)'
    BY <1>1, <1>2, <2>1 DEF UpTo
  <2>3. c \notin Ahead'
    BY <1>1, <2>2 DEF Ahead
  <2> QED
    BY <2>1, <2>3
<1>5. ASSUME NEW x \in Ahead' PROVE x \in Ahead
  <2>1. x \in 0 .. L - 1 /\ x # cur
    BY <1>1, <1>4, <1>5 DEF Ahead
  <2>2. ASSUME NEW y \in Loc, UpTo(x, y) PROVE y \in seen \ DOMAIN prios
    <3>1. y = cur \/ UpTo(x, y)'
      BY <1>1, <1>2, <2>1, <2>2 DEF UpTo
    <3> QED
      BY <1>5, <2>2, <3>1 DEF Ahead
  <2> QED
    BY <1>1, <2>1, <2>2 DEF Ahead
<1> QED
  BY <1>3, <1>4, <1>5

LEMMA ExhaustedShrinks ==
  ASSUME StripeAssumption, TypeOK, Exhausted
  PROVE  Shrinks
<1>1. /\ status = "running" /\ cur \in Loc /\ cur \in seen /\ K \in Nat
      /\ cur' = (cur + 1) % L /\ prios' = Without(prios, cur)
      /\ UNCHANGED <<dests, pass, it, old, seen>>
      /\ \A l \in DOMAIN prios : prios[l] \in Nat
      /\ it \in 1 .. K /\ pass \in {0, 1}
  BY DEF Exhausted, args, TypeOK, Item, StripeAssumption
<1>2. CASE DOMAIN prios \subseteq {cur}
  <2>1. status' = "short"
    BY <1>2 DEF Exhausted
  <2>2. ItemsLeft' = {}
    BY <2>1 DEF ItemsLeft
  <2>3. <<pass, it>> \in ItemsLeft
    BY <1>1 DEF ItemsLeft, Item
  <2> QED
    BY <2>2, <2>3 DEF Shrinks
<1>3. CASE ~(DOMAIN prios \subseteq {cur})
  <2>1. UNCHANGED status
    BY <1>1, <1>3 DEF Exhausted
  <2>2. CASE cur \in DOMAIN prios
    <3>1. PriosLeft' \subseteq PriosLeft
      BY <1>1, WithoutLess
    <3>2. <<cur, 0>> \in PriosLeft
      BY <1>1, <2>2 DEF PriosLeft
    <3>3. <<cur, 0>> \notin PriosLeft'
      BY <1>1 DEF PriosLeft, Without, Restrict
    <3> QED
      BY <1>1, <2>1, <3>1, <3>2, <3>3, DrawsShrink
  <2>3. CASE cur \notin DOMAIN prios
    <3>1. DOMAIN prios' = DOMAIN prios /\ \A l \in DOMAIN prios : prios'[l] = prios[l]
      BY <1>1, <2>3 DEF Without, Restrict
    <3>2. ItemsLeft' = ItemsLeft /\ DrawsLeft' = DrawsLeft
      BY <1>1, <2>1, <3>1 DEF ItemsLeft, DrawsLeft
    <3>3. PICK p \in DOMAIN prios : TRUE
      BY <1>3
    <3>4. Ahead' \subseteq Ahead /\ Ahead' # Ahead
      BY <1>1, <2>3, <3>1, <3>3, CursorMoves
    <3> QED
      BY <3>2, <3>4 DEF Shrinks
  <2> QED
    BY <2>2, <2>3
<1> QED
  BY <1>2, <1>3

\* Sets of what is left that only shrink are finite.
LEMMA LeftIsFinite ==
  ASSUME StripeAssumption, TypeOK
  PROVE  /\ IsFiniteSet(ItemsLeft) /\ IsFiniteSet(Ahead)
         /\ \A k \in 1 .. 3 : IsFiniteSet(DrawsLeft[k])
<1>1. IsFiniteSet(Item) /\ IsFiniteSet(Loc)
  BY ItemFinite, LocFinite
<1>2. IsFiniteSet({0, 1}) /\ IsFiniteSet(0 .. K)
  <2>1. 0 \in Int /\ 1 \in Int /\ K \in Int
    BY DEF StripeAssumption
  <2>2. IsFiniteSet(0 .. 1) /\ IsFiniteSet(0 .. K)
    BY <2>1, FS_Interval
  <2>3. 0 .. 1 = {0, 1}
    OBVIOUS
  <2> QED
    BY <2>2, <2>3, Zenon
<1> DEFINE P == {0, 1}
           N == 0 .. K
<1>3. ItemsLeft \in SUBSET (P \X Item) /\ PriosLeft \in SUBSET (Loc \X N)
  BY DEF ItemsLeft, PriosLeft
<1>4. IsFiniteSet(P) /\ IsFiniteSet(N)
  BY <1>2
<1> HIDE DEF P, N
<1>5. IsFiniteSet(P \X Item) /\ IsFiniteSet(Loc \X N)
  BY <1>1, <1>4, FS_Product
<1>6. IsFiniteSet(ItemsLeft) /\ IsFiniteSet(PriosLeft)
  BY <1>3, <1>5, FS_Subset
<1>7. old \in SUBSET Loc /\ Loc \ seen \in SUBSET Loc /\ Ahead \in SUBSET Loc
  BY DEF TypeOK, Ahead
<1>8. IsFiniteSet(old) /\ IsFiniteSet(Loc \ seen) /\ IsFiniteSet(Ahead)
  BY <1>7, LocFinite
<1>9. DrawsLeft = <<old, Loc \ seen, PriosLeft>>
  BY DEF DrawsLeft, PriosLeft
<1>10. \A k \in 1 .. 3 : k = 1 \/ k = 2 \/ k = 3
  OBVIOUS
<1> QED
  BY <1>6, <1>8, <1>9, <1>10

LEMMA StepShrinks ==
  ASSUME StripeAssumption, TypeOK, PriosInv, Next, ~UNCHANGED vars
  PROVE  Shrinks
<1>1. CASE Full
  BY <1>1, AdvanceShrinks DEF Full
<1>2. CASE Reuse \/ Draw \/ Exhausted
  BY <1>2, ReuseShrinks, DrawShrinks, ExhaustedShrinks
<1> QED
  BY <1>1, <1>2 DEF Next, Returned

\* S.Stripe returns: the passing over of busy stores, draws of stores seen before
\* included, cannot go on for ever.
THEOREM OnlySoManySteps == Spec => [][Shrinks]_vars
<1>1. Init => PriosInv
  BY PriosStart, StripeAssumption
<1>2. TypeOK /\ PriosInv /\ [Next]_vars => PriosInv'
  BY PriosFall, StripeAssumption
<1>3. TypeOK /\ PriosInv /\ [Next]_vars => [Shrinks]_vars
  BY StepShrinks, StripeAssumption
<1> QED
  BY <1>1, <1>2, <1>3, TypeCorrect, PTL DEF Spec

THEOREM LeftFinite == Spec => [](/\ IsFiniteSet(ItemsLeft) /\ IsFiniteSet(Ahead)
                                 /\ \A k \in 1 .. 3 : IsFiniteSet(DrawsLeft[k]))
<1>1. TypeOK => /\ IsFiniteSet(ItemsLeft) /\ IsFiniteSet(Ahead)
                /\ \A k \in 1 .. 3 : IsFiniteSet(DrawsLeft[k])
  BY LeftIsFinite, StripeAssumption
<1> QED
  BY <1>1, TypeCorrect, PTL
-----------------------------------------------------------------------------
(* What those who ask for copies and those who read them rely on.          *)

\* A result has a set of new locations for each item.
AllMet == status = "ok" => DOMAIN res = Item

LEMMA AllMetInd == ASSUME AllMet, [Next]_vars PROVE AllMet'
<1>1. CASE UNCHANGED vars \/ Returned
  BY <1>1 DEF AllMet, Returned, vars
<1>2. ASSUME NEW r, Advance(r), status = "running" PROVE AllMet'
  BY <1>2 DEF Advance, AllMet
<1>3. ASSUME NEW r, NEW o, NEW s, Keep(r, o, s), status = "running" PROVE AllMet'
  BY <1>3 DEF Keep, AllMet
<1>4. ASSUME NEW l, NEW o, NEW s, Place(l, o, s), status = "running" PROVE AllMet'
  BY <1>2, <1>3, <1>4 DEF Place
<1>5. CASE Full
  BY <1>2, <1>5 DEF Full
<1>6. CASE Reuse
  BY <1>4, <1>6 DEF Reuse
<1>7. CASE Draw
  BY <1>3, <1>4, <1>7 DEF Draw
<1>8. CASE Exhausted
  BY <1>8 DEF Exhausted, AllMet
<1> QED
  BY <1>1, <1>5, <1>6, <1>7, <1>8 DEF Next

LEMMA PlanMade ==
  ASSUME StripeAssumption, IndInv, ShortOnlyIfFew, AllMet
  PROVE  MakesCopyPlan
<1>1. TypeOK /\ Enough /\ NothingNeedless
  BY DEF IndInv
<1>2. ASSUME excl = 0, status = "ok"
      PROVE  res \in CopyPlans(Item, got, dests, min) /\ Cardinality(dests) >= min
  <2>1. \A i \in Item : /\ Cardinality(Copies(i)) >= min
                        /\ res[i] \subseteq dests \ got[i]
                        /\ Cardinality(res[i]) = Lacking(got[i], dests, min)
    BY <1>1, <1>2 DEF Enough, NothingNeedless, Lacking
  <2>2. res \in [Item -> SUBSET dests]
    <3>1. res \in Seq(SUBSET Loc) /\ DOMAIN res = Item
      BY <1>1, <1>2 DEF TypeOK, AllMet
    <3>2. res = [i \in Item |-> res[i]]
      BY <3>1
    <3> QED
      BY <2>1, <3>2
  <2>3. res \in CopyPlans(Item, got, dests, min)
    BY <2>1, <2>2 DEF CopyPlans
  <2>4. 1 \in Item
    BY DEF Item, StripeAssumption
  <2>5. Copies(1) \in SUBSET dests
    BY <2>1, <2>4 DEF Copies
  <2>6. IsFiniteSet(dests) /\ Cardinality(dests) \in Nat
    BY <1>1, LocFinite DEF TypeOK
  <2>7. Cardinality(Copies(1)) <= Cardinality(dests) /\ IsFiniteSet(Copies(1))
    BY <2>5, <2>6, FS_Subset
  <2>8. Cardinality(Copies(1)) \in Nat /\ min \in Nat
    BY <1>1, <2>7, FS_CardinalityType DEF TypeOK, StripeAssumption
  <2> QED
    BY <2>1, <2>3, <2>4, <2>6, <2>7, <2>8
<1> QED
  BY <1>2 DEF MakesCopyPlan, ShortOnlyIfFew

\* mincopies gives stripeP.Procs a plan, or ErrShort, just when there is one or
\* not: Plan and PlanShort of StoreStripe and Resume are what S.Stripe does.
THEOREM CopyPlanMade == Spec => []MakesCopyPlan
<1>1. Init => AllMet
  BY DEF Init, AllMet
<1>2. AllMet /\ [Next]_vars => AllMet'
  BY AllMetInd
<1>3. IndInv /\ ShortOnlyIfFew /\ AllMet => MakesCopyPlan
  BY PlanMade, StripeAssumption
<1> QED
  BY <1>1, <1>2, <1>3, Invariance, ShortIsShort, PTL DEF Spec

\* What MultiReader assumes of the stores' listings, stripe(min excl ...) ensures
\* for a group: whichever store fails, parity makes up for what it alone has.
THEOREM ParityCovers ==
  ASSUME NEW NParity \in Nat \ {0}
  PROVE  Spec => []LossCovered(NParity)
<1>1. ASSUME IndInv PROVE LossCovered(NParity)
  <2> SUFFICES ASSUME status = "ok", min > 0, K - excl <= NParity,
                      NEW f \in [Item -> SUBSET Loc],
                      \A i \in Item : Copies(i) \subseteq f[i],
                      NEW l \in Loc
               PROVE  Cardinality(OnlyOn(f, Item, l)) <= NParity
    BY DEF LossCovered
  <2> DEFINE lost == {i \in Item : Copies(i) \subseteq {l}}
  <2>1. Cardinality(lost) <= 1 \/ Cardinality(lost) <= K - excl
    BY <1>1 DEF IndInv, LossBound
  <2>2. OnlyOn(f, Item, l) \in SUBSET lost
    BY DEF OnlyOn
  <2>3. IsFiniteSet(lost) /\ Cardinality(lost) \in Nat
    BY StripeAssumption, ItemFinite
  <2>4. /\ Cardinality(OnlyOn(f, Item, l)) \in Nat
        /\ Cardinality(OnlyOn(f, Item, l)) <= Cardinality(lost)
    BY <2>2, <2>3, FS_Subset, FS_CardinalityType
  <2>5. K \in Int /\ excl \in Int
    BY <1>1, StripeAssumption DEF IndInv, TypeOK, StripeAssumption
  <2> HIDE DEF lost
  <2> QED
    BY <2>1, <2>3, <2>4, <2>5
<1> QED
  BY <1>1, Invariance, PTL
=============================================================================
