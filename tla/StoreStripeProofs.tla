-------------------------- MODULE StoreStripeProofs --------------------------
(***************************************************************************)
(* Copies of chunks, for any groups, stores, quotas and number of slots.   *)
(***************************************************************************)
EXTENDS StoreStripe, FiniteSetTheorems, TLAPS

\* The copies of a chunk in the eyes of a group are on stores it was striped
\* over, hence finite.
LEMMA ExpectedFinite ==
  ASSUME StoreStripeAssumption, TypeOK, NEW g \in Group, NEW h \in Hash
  PROVE  /\ Expected(g, h) \subseteq Store
         /\ IsFiniteSet(Expected(g, h)) /\ Cardinality(Expected(g, h)) \in Nat
<1>1. Expected(g, h) \in SUBSET Store
  BY DEF Expected, TypeOK
<1>2. IsFiniteSet(Expected(g, h))
  BY <1>1, FS_Subset DEF StoreStripeAssumption
<1> QED
  BY <1>1, <1>2, FS_CardinalityType

\* A step that plans nothing keeps CopiesInv if no group without an error
\* loses an expected copy, and none that has copies to make gains one.
LEMMA CopiesKept ==
  ASSUME StoreStripeAssumption, TypeOK, TypeOK', CopiesInv,
         \A g \in Group :
           /\ pc'[g] \in {"copying", "ended"} => pc[g] \in {"copying", "ended"}
           /\ err[g] => err'[g],
         \A g \in Group, h \in Hash :
           /\ ~err'[g] => Expected(g, h) \subseteq Expected(g, h)'
           /\ Pending(g, h)' # {} =>
                Pending(g, h) # {} /\ Expected(g, h)' \subseteq Expected(g, h)
  PROVE  CopiesInv'
<1> SUFFICES ASSUME NEW g \in Group, pc'[g] \in {"copying", "ended"},
                    NEW h \in Members[g]
             PROVE  /\ ~err'[g] => Cardinality(Expected(g, h)') >= Min
                    /\ Pending(g, h)' # {} => Cardinality(Expected(g, h)') <= Min
  BY DEF CopiesInv
<1>1. h \in Hash /\ Min \in Nat
  BY DEF StoreStripeAssumption
<1>2. /\ ~err[g] => Cardinality(Expected(g, h)) >= Min
      /\ Pending(g, h) # {} => Cardinality(Expected(g, h)) <= Min
  BY DEF CopiesInv
<1>3. /\ IsFiniteSet(Expected(g, h)) /\ Cardinality(Expected(g, h)) \in Nat
  BY <1>1, ExpectedFinite
<1>4. /\ Expected(g, h)' \in SUBSET Store
  BY <1>1 DEF Expected, TypeOK
<1>5. IsFiniteSet(Expected(g, h)')
  BY <1>4, FS_Subset DEF StoreStripeAssumption
<1>6. Cardinality(Expected(g, h)') \in Nat
  BY <1>5, FS_CardinalityType
<1>7. ASSUME ~err'[g] PROVE Cardinality(Expected(g, h)') >= Min
  <2>1. Expected(g, h) \in SUBSET (Expected(g, h)')
    BY <1>1, <1>7
  <2>2. Cardinality(Expected(g, h)) <= Cardinality(Expected(g, h)')
    BY <1>5, <2>1, FS_Subset
  <2>3. ~err[g]
    BY <1>7
  <2> QED
    BY <1>1, <1>2, <1>3, <1>6, <2>2, <2>3
<1>8. ASSUME Pending(g, h)' # {} PROVE Cardinality(Expected(g, h)') <= Min
  <2>1. Pending(g, h) # {} /\ Expected(g, h)' \in SUBSET Expected(g, h)
    BY <1>1, <1>8
  <2>2. Cardinality(Expected(g, h)') <= Cardinality(Expected(g, h))
    BY <1>3, <2>1, FS_Subset
  <2> QED
    BY <1>1, <1>2, <1>3, <1>6, <2>1, <2>2
<1> QED
  BY <1>7, <1>8

LEMMA HeldNat ==
  ASSUME StoreStripeAssumption, NEW own, NEW s
  PROVE  Held(own, s) \in Nat
<1>1. {h \in Hash : s \in own[h]} \in SUBSET Hash
  OBVIOUS
<1>2. IsFiniteSet({h \in Hash : s \in own[h]})
  BY <1>1, FS_Subset DEF StoreStripeAssumption
<1> QED
  BY <1>2, FS_CardinalityType DEF Held

LEMMA InitInd == ASSUME StoreStripeAssumption, Init PROVE IndInv
<1>1. TypeOK
  <2>1. use \in [Store -> Nat]
    BY HeldNat DEF Init
  <2> QED
    BY <2>1 DEF Init, TypeOK, StoreStripeAssumption
<1>2. LockInv
  BY DEF Init, LockInv
<1>3. JobInv
  BY DEF Init, JobInv
<1>4. CopiesInv
  BY DEF Init, CopiesInv
<1> QED
  BY <1>1, <1>2, <1>3, <1>4 DEF IndInv

\* Beginning, and ending with an error before anything is locked or planned.
LEMMA BeginInd ==
  ASSUME StoreStripeAssumption, IndInv, NEW g \in Group,
         Begin(g) \/ Refuse(g) \/ PlanShort(g)
  PROVE  IndInv'
<1>1. /\ TypeOK /\ LockInv /\ JobInv /\ CopiesInv
      /\ UNCHANGED <<todo, mu, owners, use, alive, dests, jobs, made, err>>
  BY DEF IndInv, Begin, Refuse, PlanShort
<1>2. \E p \in {"locking", "failed"} :
        /\ pc' = [pc EXCEPT ![g] = p]
        /\ p = "locking" => todo[g] = Members[g]
  BY <1>1 DEF Begin, Refuse, PlanShort, LockInv
<1>3. pc[g] \in {"waiting", "locking"}
  BY DEF Begin, Refuse, PlanShort
<1>4. TypeOK'
  BY <1>1, <1>2 DEF TypeOK
<1>5. \A o \in Group : o # g => pc'[o] = pc[o]
  BY <1>1, <1>2 DEF TypeOK
<1>6. /\ pc'[g] \in {"locking", "failed"}
      /\ pc'[g] = "locking" => todo[g] = Members[g]
  BY <1>1, <1>2 DEF TypeOK
<1>7. LockInv'
  BY <1>1, <1>5, <1>6 DEF LockInv
<1>8. JobInv'
  BY <1>1, <1>3, <1>5 DEF JobInv
<1>9. CopiesInv'
  <2>1. \A o \in Group, h \in Hash : Expected(o, h)' = Expected(o, h) /\ Pending(o, h)' = Pending(o, h)
    BY <1>1 DEF Expected, Pending
  <2>2. \A o \in Group : pc'[o] \in {"copying", "ended"} => pc[o] \in {"copying", "ended"}
    BY <1>5, <1>6
  <2> QED
    BY <1>1, <1>4, <2>1, <2>2, CopiesKept
<1> QED
  BY <1>4, <1>7, <1>8, <1>9 DEF IndInv

LEMMA LockInd ==
  ASSUME StoreStripeAssumption, IndInv, NEW g \in Group, NEW h \in Hash, Lock(g, h)
  PROVE  IndInv'
<1>1. /\ TypeOK /\ LockInv /\ JobInv /\ CopiesInv
      /\ pc[g] = "locking" /\ mu[h] = Nil /\ Nil \notin Group
      /\ mu' = [mu EXCEPT ![h] = g]
      /\ todo' = [todo EXCEPT ![g] = @ \ {h}]
      /\ UNCHANGED <<pc, owners, use, alive, dests, jobs, made, err>>
  BY DEF IndInv, Lock, StoreStripeAssumption
<1>2. TypeOK'
  BY <1>1 DEF TypeOK
<1>3. /\ \A o \in Group : todo'[o] = IF o = g THEN todo[g] \ {h} ELSE todo[o]
      /\ \A k \in Hash : mu'[k] = IF k = h THEN g ELSE mu[k]
  BY <1>1 DEF TypeOK
<1>4. LockInv'
  <2> SUFFICES ASSUME NEW o \in Group
               PROVE  /\ todo'[o] \subseteq Members[o]
                      /\ pc'[o] = "waiting" => todo'[o] = Members[o]
                      /\ pc'[o] = "locking" => \A k \in Members[o] \ todo'[o] : mu'[k] = o
    BY DEF LockInv
  <2>1. /\ todo[o] \subseteq Members[o]
        /\ pc[o] = "waiting" => todo[o] = Members[o]
        /\ pc[o] = "locking" => \A k \in Members[o] \ todo[o] : mu[k] = o
    BY <1>1 DEF LockInv
  <2>2. Members[o] \subseteq Hash
    BY DEF StoreStripeAssumption
  <2>3. ASSUME pc'[o] = "locking", NEW k \in Members[o] \ todo'[o]
        PROVE  mu'[k] = o
    <3>1. CASE k = h /\ o = g
      BY <1>3, <3>1
    <3>2. CASE k = h /\ o # g
      BY <1>1, <1>3, <2>1, <2>3, <3>2
    <3>3. CASE k # h
      BY <1>1, <1>3, <2>1, <2>2, <2>3, <3>3
    <3> QED
      BY <3>1, <3>2, <3>3
  <2> QED
    BY <1>1, <1>3, <2>1, <2>3
<1>5. JobInv'
  BY <1>1, <1>3 DEF JobInv
<1>6. CopiesInv'
  <2>1. \A o \in Group, k \in Hash : Expected(o, k)' = Expected(o, k) /\ Pending(o, k)' = Pending(o, k)
    BY <1>1 DEF Expected, Pending
  <2> QED
    BY <1>1, <1>2, <2>1, CopiesKept
<1> QED
  BY <1>2, <1>4, <1>5, <1>6 DEF IndInv

LEMMA UnlockInd ==
  ASSUME StoreStripeAssumption, IndInv, NEW g \in Group, NEW h \in Hash, Unlock(g, h)
  PROVE  IndInv'
<1>1. /\ TypeOK /\ LockInv /\ JobInv /\ CopiesInv
      /\ pc[g] \in {"copying", "ended"} /\ mu[h] = g /\ Pending(g, h) = {}
      /\ mu' = [mu EXCEPT ![h] = Nil]
      /\ UNCHANGED <<pc, todo, owners, use, alive, dests, jobs, made, err>>
  BY DEF IndInv, Unlock
<1>2. TypeOK'
  BY <1>1 DEF TypeOK
<1>3. \A k \in Hash : mu'[k] = IF k = h THEN Nil ELSE mu[k]
  BY <1>1 DEF TypeOK
<1>4. LockInv'
  <2> SUFFICES ASSUME NEW o \in Group, pc[o] = "locking", NEW k \in Members[o] \ todo[o]
               PROVE  mu'[k] = o
    BY <1>1 DEF LockInv
  <2>1. mu[k] = o /\ k \in Hash
    BY <1>1 DEF LockInv, StoreStripeAssumption
  <2> QED
    BY <1>1, <1>3, <2>1
<1>5. JobInv'
  <2>1. \A o \in Group, s \in Store : <<o, h, s>> \notin jobs
    BY <1>1 DEF JobInv, Pending
  <2> QED
    BY <1>1, <1>3, <2>1 DEF JobInv
<1>6. CopiesInv'
  <2>1. \A o \in Group, k \in Hash : Expected(o, k)' = Expected(o, k) /\ Pending(o, k)' = Pending(o, k)
    BY <1>1 DEF Expected, Pending
  <2> QED
    BY <1>1, <1>2, <2>1, CopiesKept
<1> QED
  BY <1>2, <1>4, <1>5, <1>6 DEF IndInv

LEMMA EndInd ==
  ASSUME StoreStripeAssumption, IndInv, NEW g \in Group, End(g)
  PROVE  IndInv'
<1>1. /\ TypeOK /\ LockInv /\ JobInv /\ CopiesInv
      /\ pc[g] = "copying" /\ \A h \in Members[g] : Pending(g, h) = {}
      /\ pc' = [pc EXCEPT ![g] = "ended"]
      /\ UNCHANGED <<todo, mu, owners, use, alive, dests, jobs, made, err>>
  BY DEF IndInv, End
<1>2. TypeOK'
  BY <1>1 DEF TypeOK
<1>3. \A o \in Group : pc'[o] = IF o = g THEN "ended" ELSE pc[o]
  BY <1>1 DEF TypeOK
<1>4. LockInv'
  BY <1>1, <1>3 DEF LockInv
<1>5. JobInv'
  <2>1. \A h \in Hash, s \in Store : <<g, h, s>> \notin jobs
    BY <1>1 DEF JobInv, Pending
  <2> QED
    BY <1>1, <1>3, <2>1 DEF JobInv
<1>6. CopiesInv'
  <2>1. \A o \in Group, k \in Hash : Expected(o, k)' = Expected(o, k) /\ Pending(o, k)' = Pending(o, k)
    BY <1>1 DEF Expected, Pending
  <2>2. \A o \in Group : pc'[o] \in {"copying", "ended"} => pc[o] \in {"copying", "ended"}
    BY <1>1, <1>3
  <2> QED
    BY <1>1, <1>2, <2>1, <2>2, CopiesKept
<1> QED
  BY <1>2, <1>4, <1>5, <1>6 DEF IndInv

\* A copy is made under the lock of its chunk: nobody else has copies of the
\* chunk to make.
LEMMA CopyInd ==
  ASSUME StoreStripeAssumption, IndInv,
         NEW g \in Group, NEW h \in Hash, NEW s \in Store, Copy(g, h, s)
  PROVE  IndInv'
<1>1. /\ TypeOK /\ LockInv /\ JobInv /\ CopiesInv
      /\ <<g, h, s>> \in jobs /\ <<g, h, s>> \notin made
      /\ owners' = [owners EXCEPT ![h] = @ \cup {s}]
      /\ made' = made \cup {<<g, h, s>>}
      /\ UNCHANGED <<pc, todo, mu, use, alive, dests, jobs, err>>
  BY DEF IndInv, Copy
<1>2. TypeOK'
  BY <1>1 DEF TypeOK
<1>3. \A k \in Hash : owners'[k] = IF k = h THEN owners[h] \cup {s} ELSE owners[k]
  BY <1>1 DEF TypeOK
<1>4. pc[g] = "copying" /\ h \in Members[g] /\ mu[h] = g /\ s \in dests[g]
  BY <1>1 DEF JobInv
<1>5. \A o \in Group, t \in Store : <<o, h, t>> \in jobs => o = g
  BY <1>1, <1>4 DEF JobInv
<1>6. LockInv'
  BY <1>1 DEF LockInv
<1>7. JobInv'
  <2> SUFFICES ASSUME NEW o \in Group, NEW k \in Hash, NEW t \in Store, <<o, k, t>> \in jobs
               PROVE  /\ pc[o] = "copying" /\ k \in Members[o] /\ mu[k] = o /\ t \in dests[o]
                      /\ t \in owners'[k] <=> <<o, k, t>> \in made'
    BY <1>1 DEF JobInv
  <2>1. /\ pc[o] = "copying" /\ k \in Members[o] /\ mu[k] = o /\ t \in dests[o]
        /\ t \in owners[k] <=> <<o, k, t>> \in made
    BY <1>1 DEF JobInv
  <2>2. t \in owners'[k] <=> t \in owners[k] \/ (k = h /\ t = s)
    BY <1>3
  <2>3. <<o, k, t>> \in made' <=> <<o, k, t>> \in made \/ (o = g /\ k = h /\ t = s)
    BY <1>1
  <2>4. k = h => o = g
    BY <1>5
  <2> QED
    BY <2>1, <2>2, <2>3, <2>4
<1>8. CopiesInv'
  <2>1. \A o \in Group, k \in Hash : Pending(o, k)' = Pending(o, k)
    BY <1>1 DEF Pending
  <2>2. \A o \in Group, k \in Hash : Expected(o, k) \subseteq Expected(o, k)'
    BY <1>1, <1>3, <2>1 DEF Expected
  <2>3. ASSUME NEW o \in Group, NEW k \in Hash, Pending(o, k) # {}
        PROVE  Expected(o, k)' \subseteq Expected(o, k)
    <3>1. CASE k = h
      <4>1. o = g
        BY <1>5, <2>3, <3>1 DEF Pending
      <4>2. s \in Pending(g, h)
        BY <1>1 DEF Pending
      <4> QED
        BY <1>1, <1>3, <2>1, <3>1, <4>1, <4>2 DEF Expected
    <3>2. CASE k # h
      BY <1>1, <1>3, <2>1, <3>2 DEF Expected
    <3> QED
      BY <3>1, <3>2
  <2> QED
    BY <1>1, <1>2, <2>1, <2>2, <2>3, CopiesKept
<1> QED
  BY <1>2, <1>6, <1>7, <1>8 DEF IndInv

LEMMA AccountInd ==
  ASSUME StoreStripeAssumption, IndInv,
         NEW g \in Group, NEW h \in Hash, NEW s \in Store, Account(g, h, s)
  PROVE  IndInv'
<1>1. /\ TypeOK /\ LockInv /\ JobInv /\ CopiesInv
      /\ <<g, h, s>> \in made /\ <<g, h, s>> \in jobs
      /\ jobs' = jobs \ {<<g, h, s>>} /\ made' = made \ {<<g, h, s>>}
      /\ UNCHANGED <<pc, todo, mu, owners, dests, err>>
  BY DEF IndInv, Account, TypeOK
<1>2. TypeOK'
  <2>1. use' \in [Store -> Nat] /\ alive' \in SUBSET Store
    <3>1. CASE s \in alive
      <4>1. use' = [use EXCEPT ![s] = @ + 1] /\ alive' \in {alive, alive \ {s}}
        BY <3>1 DEF Account
      <4> QED
        BY <1>1, <4>1 DEF TypeOK
    <3>2. CASE s \notin alive
      BY <1>1, <3>2 DEF Account, TypeOK
    <3> QED
      BY <3>1, <3>2
  <2> QED
    BY <1>1, <2>1 DEF TypeOK
<1>3. LockInv'
  BY <1>1 DEF LockInv
<1>4. JobInv'
  BY <1>1 DEF JobInv
<1>5. CopiesInv'
  <2>1. s \in owners[h]
    BY <1>1 DEF JobInv
  <2>2. \A o \in Group, k \in Hash, t \in Store :
          <<o, k, t>> \in jobs' <=> <<o, k, t>> \in jobs /\ ~(o = g /\ k = h /\ t = s)
    BY <1>1
  <2>3. \A o \in Group, k \in Hash : /\ Pending(o, k)' \subseteq Pending(o, k)
                                     /\ Pending(o, k) \subseteq Pending(o, k)' \cup owners[k]
    BY <2>1, <2>2 DEF Pending
  <2>4. \A o \in Group, k \in Hash : Expected(o, k)' = Expected(o, k)
    BY <1>1, <2>3 DEF Expected
  <2> QED
    BY <1>1, <1>2, <2>3, <2>4, CopiesKept
<1> QED
  BY <1>2, <1>3, <1>4, <1>5 DEF IndInv

LEMMA CopyErrorInd ==
  ASSUME StoreStripeAssumption, IndInv,
         NEW g \in Group, NEW h \in Hash, NEW s \in Store, CopyError(g, h, s)
  PROVE  IndInv'
<1>1. /\ TypeOK /\ LockInv /\ JobInv /\ CopiesInv
      /\ <<g, h, s>> \in jobs /\ <<g, h, s>> \notin made
      /\ jobs' = jobs \ {<<g, h, s>>}
      /\ err' = [err EXCEPT ![g] = TRUE]
      /\ alive' = alive \ {s}
      /\ UNCHANGED <<pc, todo, mu, owners, use, dests, made>>
  BY DEF IndInv, CopyError
<1>2. TypeOK'
  BY <1>1 DEF TypeOK
<1>3. LockInv'
  BY <1>1 DEF LockInv
<1>4. JobInv'
  BY <1>1 DEF JobInv
<1>5. CopiesInv'
  <2>1. \A o \in Group : err'[o] = IF o = g THEN TRUE ELSE err[o]
    BY <1>1 DEF TypeOK
  <2>2. \A o \in Group, k \in Hash, t \in Store :
          <<o, k, t>> \in jobs' <=> <<o, k, t>> \in jobs /\ ~(o = g /\ k = h /\ t = s)
    BY <1>1
  <2>3. \A o \in Group, k \in Hash : /\ Pending(o, k)' \subseteq Pending(o, k)
                                     /\ o # g => Pending(o, k)' = Pending(o, k)
    BY <2>2 DEF Pending
  <2>4. \A o \in Group, k \in Hash : /\ Expected(o, k)' \subseteq Expected(o, k)
                                     /\ o # g => Expected(o, k)' = Expected(o, k)
    BY <1>1, <2>3 DEF Expected
  <2> QED
    BY <1>1, <1>2, <2>1, <2>3, <2>4, CopiesKept
<1> QED
  BY <1>2, <1>3, <1>4, <1>5 DEF IndInv

\* What is planned for a chunk, with the copies it has, comes to Min copies or
\* to those it had if these are more.
LEMMA PlanCopies ==
  ASSUME StoreStripeAssumption, TypeOK, NEW g \in Group, NEW h \in Members[g],
         NEW D \in SUBSET Store, NEW f \in Plans(g, D)
  PROVE  LET E == (owners[h] \cup f[h]) \cap D
         IN  Cardinality(E) >= Min /\ (f[h] # {} => Cardinality(E) <= Min)
<1> DEFINE O == owners[h] \cap D
           E == (owners[h] \cup f[h]) \cap D
<1>1. /\ f[h] \in SUBSET D /\ f[h] \cap owners[h] = {}
      /\ Cardinality(f[h]) = Lacking(owners[h], D, Min)
  BY DEF Plans, CopyPlans
<1>2. E = O \cup f[h] /\ O \cap f[h] = {}
  BY <1>1
<1>3. IsFiniteSet(O) /\ IsFiniteSet(f[h])
  <2>1. O \in SUBSET Store /\ f[h] \in SUBSET Store
    BY <1>1
  <2> QED
    BY <2>1, FS_Subset DEF StoreStripeAssumption
<1>4. Cardinality(O) \in Nat /\ Cardinality(f[h]) \in Nat
  BY <1>3, FS_CardinalityType
<1>5. Cardinality(E) = Cardinality(O) + Cardinality(f[h])
  <2>1. Cardinality(O \cap f[h]) = 0
    BY <1>2, FS_EmptySet
  <2>2. Cardinality(O \cup f[h]) = Cardinality(O) + Cardinality(f[h]) - Cardinality(O \cap f[h])
    BY <1>3, FS_Union
  <2>3. Cardinality(O \cup f[h]) = Cardinality(O) + Cardinality(f[h])
    BY <1>4, <2>1, <2>2
  <2>4. Cardinality(E) = Cardinality(O \cup f[h])
    BY <1>2, Zenon
  <2> QED
    BY <2>3, <2>4
<1>6. Cardinality(f[h]) = IF Cardinality(O) >= Min THEN 0 ELSE Min - Cardinality(O)
  BY <1>1 DEF Lacking
<1>7. Cardinality(f[h]) = 0 => f[h] = {}
  BY <1>3, FS_EmptySet
<1>8. Min \in Nat
  BY DEF StoreStripeAssumption
<1> HIDE DEF O, E
<1>9. Cardinality(E) >= Min /\ (f[h] # {} => Cardinality(E) <= Min)
  BY <1>4, <1>5, <1>6, <1>7, <1>8
<1> QED
  BY <1>9 DEF E

LEMMA PlanInd ==
  ASSUME StoreStripeAssumption, IndInv, NEW g \in Group, Plan(g)
  PROVE  IndInv'
<1>1. /\ TypeOK /\ LockInv /\ JobInv /\ CopiesInv
      /\ pc[g] = "locking" /\ todo[g] = {}
      /\ pc' = [pc EXCEPT ![g] = "copying"]
      /\ UNCHANGED <<todo, mu, owners, use, alive, made, err>>
      /\ Members[g] \subseteq Hash
  BY DEF IndInv, Plan, StoreStripeAssumption
<1> DEFINE D == Resources(Cardinality(Members[g]))
<1>0. D \in SUBSET Store
  BY <1>1 DEF Resources, TypeOK
<1>2. PICK f \in Plans(g, D) :
        /\ dests' = [dests EXCEPT ![g] = D]
        /\ jobs' = jobs \cup {j \in Jobs : j[1] = g /\ j[2] \in Members[g] /\ j[3] \in f[j[2]]}
  BY DEF Plan
<1> HIDE DEF D
<1>3. \A h \in Members[g] : f[h] \subseteq D /\ f[h] \cap owners[h] = {}
  BY DEF Plans, CopyPlans
<1>4. /\ \A o \in Group : pc'[o] = IF o = g THEN "copying" ELSE pc[o]
      /\ \A o \in Group : dests'[o] = IF o = g THEN D ELSE dests[o]
  BY <1>1, <1>2 DEF TypeOK
<1>5. \A o \in Group, h \in Hash, s \in Store :
        <<o, h, s>> \in jobs' <=> \/ <<o, h, s>> \in jobs
                                  \/ o = g /\ h \in Members[g] /\ s \in f[h]
  BY <1>2 DEF Jobs
<1>6. \A h \in Hash, s \in Store : <<g, h, s>> \notin jobs
  BY <1>1 DEF JobInv
<1>7. \A h \in Hash, s \in Store : <<g, h, s>> \notin made
  BY <1>1, <1>6 DEF TypeOK
<1>8. \A h \in Members[g] : mu[h] = g
  BY <1>1 DEF LockInv
<1>9. TypeOK'
  <2>1. jobs' \in SUBSET Jobs /\ made' \in SUBSET jobs'
    BY <1>1, <1>2 DEF TypeOK
  <2>2. pc' \in [Group -> {"waiting", "locking", "copying", "ended", "failed"}]
    BY <1>1 DEF TypeOK
  <2>3. dests' \in [Group -> SUBSET Store]
    BY <1>0, <1>1, <1>2 DEF TypeOK
  <2> QED
    BY <1>1, <2>1, <2>2, <2>3 DEF TypeOK
<1>10. LockInv'
  BY <1>1, <1>4 DEF LockInv
<1>11. JobInv'
  <2> SUFFICES ASSUME NEW o \in Group, NEW h \in Hash, NEW s \in Store, <<o, h, s>> \in jobs'
               PROVE  /\ pc'[o] = "copying" /\ h \in Members[o] /\ mu[h] = o /\ s \in dests'[o]
                      /\ s \in owners[h] <=> <<o, h, s>> \in made
    BY <1>1 DEF JobInv
  <2>1. CASE <<o, h, s>> \in jobs
    <3>1. o # g
      BY <1>6, <2>1
    <3> QED
      BY <1>1, <1>4, <2>1, <3>1 DEF JobInv
  <2>2. CASE o = g /\ h \in Members[g] /\ s \in f[h]
    BY <1>3, <1>4, <1>7, <1>8, <2>2
  <2> QED
    BY <1>5, <2>1, <2>2
<1>12. CopiesInv'
  <2> SUFFICES ASSUME NEW o \in Group, pc'[o] \in {"copying", "ended"}, NEW h \in Members[o]
               PROVE  /\ ~err[o] => Cardinality(Expected(o, h)') >= Min
                      /\ Pending(o, h)' # {} => Cardinality(Expected(o, h)') <= Min
    BY <1>1 DEF CopiesInv
  <2>0. h \in Hash
    BY DEF StoreStripeAssumption
  <2>1. CASE o = g
    <3>1. f[h] \subseteq Store
      BY <1>0, <1>3, <2>1
    <3>2. Pending(o, h)' = f[h]
      BY <1>5, <1>6, <2>0, <2>1, <3>1 DEF Pending
    <3>3. Expected(o, h)' = (owners[h] \cup f[h]) \cap D
      BY <1>1, <1>4, <2>1, <3>2 DEF Expected
    <3>4. /\ Cardinality((owners[h] \cup f[h]) \cap D) >= Min
          /\ f[h] # {} => Cardinality((owners[h] \cup f[h]) \cap D) <= Min
      BY <1>0, <1>1, <2>1, PlanCopies
    <3>5. Cardinality(Expected(o, h)') = Cardinality((owners[h] \cup f[h]) \cap D)
      BY <3>3, Zenon
    <3> QED
      BY <3>2, <3>4, <3>5
  <2>2. CASE o # g
    <3>1. Pending(o, h)' = Pending(o, h)
      BY <1>5, <2>0, <2>2 DEF Pending
    <3>2. Expected(o, h)' = Expected(o, h)
      BY <1>1, <1>4, <2>2, <3>1 DEF Expected
    <3>3. Cardinality(Expected(o, h)') = Cardinality(Expected(o, h))
      BY <3>2, Zenon
    <3>4. pc[o] \in {"copying", "ended"}
      BY <1>4, <2>2
    <3>5. /\ ~err[o] => Cardinality(Expected(o, h)) >= Min
          /\ Pending(o, h) # {} => Cardinality(Expected(o, h)) <= Min
      BY <1>1, <3>4 DEF CopiesInv
    <3> QED
      BY <3>1, <3>3, <3>5
  <2> QED
    BY <2>1, <2>2
<1> QED
  BY <1>9, <1>10, <1>11, <1>12 DEF IndInv

LEMMA NextInd == ASSUME StoreStripeAssumption, IndInv, [Next]_vars PROVE IndInv'
<1>1. ASSUME NEW g \in Group, Call(g) PROVE IndInv'
  BY <1>1, BeginInd, PlanInd, EndInd, LockInd DEF Call
<1>2. ASSUME NEW g \in Group, NEW h \in Hash, NEW s \in Store, CopyProc(g, h, s)
      PROVE  IndInv'
  BY <1>2, CopyInd, AccountInd, CopyErrorInd DEF CopyProc
<1>3. CASE UNCHANGED vars
  <2>1. /\ TypeOK /\ LockInv /\ JobInv /\ CopiesInv
        /\ UNCHANGED <<pc, todo, mu, owners, use, alive, dests, jobs, made, err>>
    BY <1>3 DEF IndInv, vars
  <2>2. TypeOK'
    BY <2>1 DEF TypeOK
  <2>3. LockInv'
    BY <2>1 DEF LockInv
  <2>4. JobInv'
    BY <2>1 DEF JobInv
  <2>5. \A o \in Group, h \in Hash : Expected(o, h)' = Expected(o, h) /\ Pending(o, h)' = Pending(o, h)
    BY <2>1 DEF Expected, Pending
  <2>6. CopiesInv'
    BY <2>1, <2>2, <2>5, CopiesKept
  <2> QED
    BY <2>2, <2>3, <2>4, <2>6 DEF IndInv
<1> QED
  BY <1>1, <1>2, <1>3, UnlockInd DEF Next, Returned

\* The invariant that the rest follows from: a group's plan for a chunk is kept
\* right by the chunk's lock, from the reading of its owners to its last copy
\* (stores/stripe/stripe.go:79 to 121).
THEOREM Invariance == Spec => []IndInv
<1>1. Init => IndInv
  BY StoreStripeAssumption, InitInd
<1>2. IndInv /\ [Next]_vars => IndInv'
  BY StoreStripeAssumption, NextInd
<1> QED
  BY <1>1, <1>2, PTL DEF Spec

\* No copy is made that exists already, and none that its chunk has no need of,
\* whatever groups have the chunk in common (stores/stripe/stripe.go:92 to 140).
THEOREM CopiesNeeded == Spec => []NoNeedlessCopy
<1>1. IndInv => NoNeedlessCopy
  <2> SUFFICES ASSUME IndInv, NEW g \in Group, NEW h \in Members[g], Pending(g, h) # {}
               PROVE  /\ \A s \in Pending(g, h) : <<g, h, s>> \notin made => s \notin owners[h]
                      /\ Cardinality(Expected(g, h)) <= Min
    BY DEF NoNeedlessCopy
  <2>1. h \in Hash
    BY StoreStripeAssumption DEF StoreStripeAssumption
  <2>2. \A s \in Pending(g, h) : /\ pc[g] = "copying"
                                 /\ <<g, h, s>> \notin made => s \notin owners[h]
    BY <2>1 DEF IndInv, JobInv, Pending
  <2> QED
    BY <2>2 DEF IndInv, CopiesInv
<1> QED
  BY <1>1, Invariance, PTL

\* A group that ends without an error has the copies asked for of each chunk
\* (stores/stripe/stripe.go:132 to 140, stores/copies/copies.go:49).
THEOREM GroupsCopied == Spec => []EndedIsCopied
<1>1. IndInv => EndedIsCopied
  <2> SUFFICES ASSUME IndInv, NEW g \in Group, pc[g] = "ended", ~err[g], NEW h \in Members[g]
               PROVE  Cardinality(owners[h] \cap dests[g]) >= Min
    BY DEF EndedIsCopied
  <2>1. h \in Hash
    BY StoreStripeAssumption DEF StoreStripeAssumption
  <2>2. Pending(g, h) = {}
    BY <2>1 DEF IndInv, JobInv, Pending
  <2>3. Expected(g, h) = owners[h] \cap dests[g]
    BY <2>2 DEF Expected
  <2>4. Cardinality(Expected(g, h)) = Cardinality(owners[h] \cap dests[g])
    BY <2>3, Zenon
  <2> QED
    BY <2>4 DEF IndInv, CopiesInv
<1> QED
  BY <1>1, Invariance, PTL

-----------------------------------------------------------------------------
(* By how much a quota may be overshot.                                     *)

JobsAt(s) == {j \in jobs : j[3] = s}
MadeAt(s) == {j \in made : j[3] = s}

\* Slots bound the groups under way.
UnderInv == IsFiniteSet(UnderWay) /\ Cardinality(UnderWay) <= Slots

\* What a store that can be used holds has been accounted for, but for the
\* copies just made.
UseInv == \A s \in alive : Held(owners, s) <= use[s] + Cardinality(MadeAt(s))

\* A group makes copies where all of it would fit.
FitInv == \A g \in Group, h \in Hash, s \in Store :
            <<g, h, s>> \in jobs => Cardinality(Members[g]) <= Quota[s]

\* QuotaKept, with any bound of what is unseen in the place of the largest.
BoundInv ==
  \A s \in Store, n \in Nat :
    Unmade(s) # {} /\ (\A k \in Unseen(s) : k <= n) =>
      Held(owners, s) + Cardinality(Unmade(s)) <= Quota[s] + (Slots - 1) * n

CountInv == UnderInv /\ UseInv /\ FitInv /\ BoundInv

\* Numbers that are bounded have a largest.
LEMMA LargestExists ==
  ASSUME NEW S \in SUBSET Nat, S # {}, NEW m \in Nat, \A k \in S : k <= m
  PROVE  \E n \in S : \A k \in S : k <= n
<1> DEFINE R == StrictSubsetOrdering(1..m)
           T == {k+1..m : k \in S}
<1>1. IsFiniteSet(1..m)
  BY FS_Interval
<1>2. T \subseteq SUBSET (1..m)
  OBVIOUS
<1>3. \A t \in T : IsFiniteSet(t)
  BY <1>1, <1>2, FS_Subset
<1>4. T \subseteq FiniteSubsetsOf(1..m)
  BY <1>2, <1>3 DEF FiniteSubsetsOf
<1>5. T # {}
  OBVIOUS
<1>6. IsWellFoundedOn(R, FiniteSubsetsOf(1..m))
  BY FS_StrictSubsetOrderingWellFounded
<1>7. PICK t \in T : \A u \in T : <<u, t>> \notin R
  <2> HIDE DEF R, T
  <2> QED
    BY <1>4, <1>5, <1>6, WFMin
<1>8. PICK n \in S : t = n+1..m
  OBVIOUS
<1>9. ASSUME NEW k \in S, k > n PROVE FALSE
  <2>1. k+1..m \in T /\ k+1..m \in SUBSET (1..m) /\ t \in SUBSET (1..m)
    BY <1>2
  <2>2. k+1..m \subseteq t
    BY <1>8, <1>9
  <2>3. k \in t /\ k \notin k+1..m
    BY <1>8, <1>9
  <2>4. <<k+1..m, t>> \in R
    BY <2>1, <2>2, <2>3 DEF StrictSubsetOrdering
  <2> QED
    BY <1>7, <2>1, <2>4
<1> QED
  BY <1>9

\* Pairs of one of few things and one of n are few times n.
LEMMA PairsBounded ==
  ASSUME NEW S, NEW U, IsFiniteSet(U), NEW n \in Nat, NEW m \in Nat, Cardinality(U) <= m,
         NEW F \in [S -> U \X (1..n)], \A x, y \in S : F[x] = F[y] => x = y
  PROVE  IsFiniteSet(S) /\ Cardinality(S) <= m * n
<1>1. IsFiniteSet(1..n) /\ Cardinality(1..n) = n
  BY FS_Interval
<1>2. IsFiniteSet(U \X (1..n)) /\ Cardinality(U \X (1..n)) = Cardinality(U) * n
  <2> DEFINE T == 1..n
  <2>1. IsFiniteSet(T) /\ Cardinality(T) = n
    BY <1>1
  <2> HIDE DEF T
  <2>2. IsFiniteSet(U \X T) /\ Cardinality(U \X T) = Cardinality(U) * Cardinality(T)
    BY <2>1, FS_Product
  <2>3. IsFiniteSet(U \X T) /\ Cardinality(U \X T) = Cardinality(U) * n
    BY <2>1, <2>2
  <2> QED
    BY <2>3 DEF T
<1>3. F \in Injection(S, U \X (1..n))
  BY DEF Injection, IsInjective
<1>4. IsFiniteSet(S) /\ Cardinality(S) <= Cardinality(U) * n
  BY <1>2, <1>3, FS_Injection
<1>5. Cardinality(U) \in Nat /\ Cardinality(S) \in Nat
  BY <1>4, FS_CardinalityType
<1>6. \A a, b \in Nat : a <= b => a * n <= b * n
  OBVIOUS
<1>7. Cardinality(U) * n <= m * n
  BY <1>5, <1>6
<1>8. Cardinality(U) * n \in Nat /\ m * n \in Nat
  BY <1>5
<1> QED
  BY <1>4, <1>5, <1>7, <1>8

\* A set of no more than n elements can be counted off with 1..n.
LEMMA Countable ==
  ASSUME NEW S, IsFiniteSet(S), NEW n \in Nat, Cardinality(S) <= n
  PROVE  \E b \in [S -> 1..n] : \A x, y \in S : b[x] = b[y] => x = y
<1> DEFINE c == Cardinality(S)
<1>1. c \in Nat
  BY FS_CardinalityType
<1>2. IsFiniteSet(1..c) /\ Cardinality(1..c) = c
  BY <1>1, FS_Interval
<1>3. ExistsBijection(S, 1..c)
  BY <1>2, FS_SameCardinalityBij
<1>4. PICK b \in Bijection(S, 1..c) : TRUE
  BY <1>3 DEF ExistsBijection
<1>5. b \in [S -> 1..c] /\ \A x, y \in S : b[x] = b[y] => x = y
  BY <1>4 DEF Bijection, Injection, IsInjective
<1>6. 1..c \subseteq 1..n
  BY <1>1
<1>7. b \in [S -> 1..n]
  BY <1>5, <1>6
<1> QED
  BY <1>5, <1>7

\* Copies are finitely many.
LEMMA JobsFinite ==
  ASSUME StoreStripeAssumption, TypeOK, JobInv, UnderInv
  PROVE  /\ IsFiniteSet(jobs) /\ IsFiniteSet(made)
         /\ \A s \in Store : /\ IsFiniteSet(JobsAt(s)) /\ Cardinality(JobsAt(s)) \in Nat
                             /\ IsFiniteSet(MadeAt(s)) /\ Cardinality(MadeAt(s)) \in Nat
                             /\ IsFiniteSet(Unmade(s)) /\ Cardinality(Unmade(s)) \in Nat
                             /\ Cardinality(JobsAt(s)) = Cardinality(MadeAt(s)) + Cardinality(Unmade(s))
<1>1. IsFiniteSet(UnderWay) /\ IsFiniteSet(Hash) /\ IsFiniteSet(Store)
  BY DEF UnderInv, StoreStripeAssumption
<1>2. IsFiniteSet(Hash \X Store)
  BY <1>1, FS_Product
<1> DEFINE B == UnderWay \X (Hash \X Store)
<1>3. IsFiniteSet(B)
  BY <1>1, <1>2, FS_Product
<1>4. \A j \in jobs : /\ j \in Group \X Hash \X Store /\ j = <<j[1], j[2], j[3]>>
                      /\ j[1] \in UnderWay
  <2> SUFFICES ASSUME NEW j \in jobs
               PROVE  /\ j \in Group \X Hash \X Store /\ j = <<j[1], j[2], j[3]>>
                      /\ j[1] \in UnderWay
    OBVIOUS
  <2>1. j \in Group \X Hash \X Store
    BY DEF TypeOK, Jobs
  <2>2. j = <<j[1], j[2], j[3]>> /\ j[1] \in Group /\ j[2] \in Hash /\ j[3] \in Store
    BY <2>1
  <2>3. pc[j[1]] = "copying"
    BY <2>2 DEF JobInv
  <2> QED
    BY <2>1, <2>2, <2>3 DEF UnderWay
<1> DEFINE F == [j \in jobs |-> <<j[1], <<j[2], j[3]>>>>]
<1>5. F \in Injection(jobs, B)
  <2>1. F \in [jobs -> B]
    BY <1>4
  <2>2. \A x, y \in jobs : F[x] = F[y] => x = y
    BY <1>4
  <2> QED
    BY <2>1, <2>2 DEF Injection, IsInjective
<1>6. IsFiniteSet(jobs)
  <2> HIDE DEF F, B
  <2> QED
    BY <1>3, <1>5, FS_Injection
<1>7. made \in SUBSET jobs
  BY DEF TypeOK
<1>8. IsFiniteSet(made)
  BY <1>6, <1>7, FS_Subset
<1>9. ASSUME NEW s \in Store
      PROVE  /\ IsFiniteSet(JobsAt(s)) /\ Cardinality(JobsAt(s)) \in Nat
             /\ IsFiniteSet(MadeAt(s)) /\ Cardinality(MadeAt(s)) \in Nat
             /\ IsFiniteSet(Unmade(s)) /\ Cardinality(Unmade(s)) \in Nat
             /\ Cardinality(JobsAt(s)) = Cardinality(MadeAt(s)) + Cardinality(Unmade(s))
  <2>1. JobsAt(s) \in SUBSET jobs /\ MadeAt(s) \in SUBSET jobs /\ Unmade(s) \in SUBSET jobs
    BY <1>7 DEF JobsAt, MadeAt, Unmade
  <2>2. IsFiniteSet(JobsAt(s)) /\ IsFiniteSet(MadeAt(s)) /\ IsFiniteSet(Unmade(s))
    BY <1>6, <2>1, FS_Subset
  <2>3. JobsAt(s) = MadeAt(s) \cup Unmade(s) /\ MadeAt(s) \cap Unmade(s) = {}
    BY <1>7 DEF JobsAt, MadeAt, Unmade
  <2>4. Cardinality(MadeAt(s) \cap Unmade(s)) = 0
    BY <2>3, FS_EmptySet
  <2>5. Cardinality(JobsAt(s)) =
          Cardinality(MadeAt(s)) + Cardinality(Unmade(s)) - Cardinality(MadeAt(s) \cap Unmade(s))
    BY <2>2, <2>3, FS_Union
  <2>6. /\ Cardinality(JobsAt(s)) \in Nat /\ Cardinality(MadeAt(s)) \in Nat
        /\ Cardinality(Unmade(s)) \in Nat
    BY <2>2, FS_CardinalityType
  <2> QED
    BY <2>2, <2>4, <2>5, <2>6
<1> QED
  BY <1>6, <1>8, <1>9

LEMMA CountInit == ASSUME StoreStripeAssumption, Init PROVE CountInv
<1>1. jobs = {} /\ made = {} /\ \A g \in Group : pc[g] = "waiting"
  BY DEF Init
<1>2. UnderInv
  <2>1. UnderWay = {}
    BY <1>1 DEF UnderWay
  <2>2. IsFiniteSet(UnderWay) /\ Cardinality(UnderWay) = 0
    BY <2>1, FS_EmptySet
  <2> QED
    BY <2>2 DEF UnderInv, StoreStripeAssumption
<1>3. UseInv
  <2> SUFFICES ASSUME NEW s \in alive
               PROVE  Held(owners, s) <= use[s] + Cardinality(MadeAt(s))
    BY DEF UseInv
  <2>1. s \in Store /\ use[s] = Held(owners, s)
    BY DEF Init
  <2>2. Held(owners, s) \in Nat
    BY HeldNat
  <2>3. MadeAt(s) = {}
    BY <1>1 DEF MadeAt
  <2>4. Cardinality(MadeAt(s)) = 0
    BY <2>3, FS_EmptySet
  <2> QED
    BY <2>1, <2>2, <2>4
<1>4. FitInv
  BY <1>1 DEF FitInv
<1>5. BoundInv
  BY <1>1 DEF BoundInv, Unmade
<1> QED
  BY <1>2, <1>3, <1>4, <1>5 DEF CountInv

\* The number of groups under way is kept by what begins none.
LEMMA UnderKept ==
  ASSUME UnderInv, UnderWay' \in SUBSET UnderWay, StoreStripeAssumption
  PROVE  UnderInv'
<1>1. IsFiniteSet(UnderWay) /\ Cardinality(UnderWay) <= Slots /\ Slots \in Nat
  BY DEF UnderInv, StoreStripeAssumption
<1>2. IsFiniteSet(UnderWay') /\ Cardinality(UnderWay') <= Cardinality(UnderWay)
  BY <1>1, FS_Subset
<1>3. Cardinality(UnderWay) \in Nat /\ Cardinality(UnderWay') \in Nat
  BY <1>1, <1>2, FS_CardinalityType
<1> QED
  BY <1>1, <1>2, <1>3 DEF UnderInv

\* What is unseen is no matter of state.
LEMMA UnseenSame ==
  ASSUME NEW s PROVE Unseen(s)' = Unseen(s) /\ Held(owners, s)' = Held(owners', s)
  BY DEF Unseen, Held

\* Any group that fits leaves to each what they do not have in common.
LEMMA UnseenHas ==
  ASSUME NEW s \in Store, NEW g \in Group, NEW f \in Group, Cardinality(Members[g]) <= Quota[s]
  PROVE  Cardinality(Members[g] \ Members[f]) \in Unseen(s)
<1> DEFINE p == <<g, f>>
<1>1. p \in {e \in Group : Cardinality(Members[e]) <= Quota[s]} \X Group
  OBVIOUS
<1>2. Cardinality(Members[p[1]] \ Members[p[2]]) = Cardinality(Members[g] \ Members[f])
  OBVIOUS
<1>3. Cardinality(Members[p[1]] \ Members[p[2]]) \in Unseen(s)
  <2> HIDE DEF p
  <2> QED
    BY <1>1 DEF Unseen
<1> QED
  BY <1>2, <1>3

\* BoundInv at one store, where no more than before is held or to be made.
LEMMA BoundKept ==
  ASSUME StoreStripeAssumption, BoundInv, NEW s \in Store, NEW n \in Nat,
         \A k \in Unseen(s) : k <= n,
         NEW a \in Nat, NEW b \in Nat, NEW c \in Nat, NEW d \in Nat,
         c = Held(owners, s), d = Cardinality(Unmade(s)), a + b <= c + d, Unmade(s) # {}
  PROVE  a + b <= Quota[s] + (Slots - 1) * n
<1>1. c + d <= Quota[s] + (Slots - 1) * n
  BY DEF BoundInv
<1>2. Quota[s] \in Nat /\ Slots \in Nat
  BY DEF StoreStripeAssumption
<1>3. (Slots - 1) * n \in Int
  BY <1>2
<1> HIDE DEF StoreStripeAssumption
<1> QED
  BY <1>1, <1>2, <1>3

\* Steps of Procs that plan nothing, and unlocking.
LEMMA StillCount ==
  ASSUME StoreStripeAssumption, IndInv, CountInv,
         UNCHANGED <<owners, use, alive, jobs, made>>, UnderInv'
  PROVE  CountInv'
<1>1. UseInv' /\ FitInv'
  BY DEF CountInv, UseInv, FitInv, MadeAt, Held
<1>2. \A s \in Store : /\ Unmade(s)' = Unmade(s) /\ Unseen(s)' = Unseen(s)
                      /\ Held(owners, s)' = Held(owners, s)
  BY DEF Unmade, Unseen, Held
<1>3. BoundInv'
  BY <1>2 DEF CountInv, BoundInv
<1> QED
  BY <1>1, <1>3 DEF CountInv

LEMMA CallCount ==
  ASSUME StoreStripeAssumption, IndInv, CountInv, NEW g \in Group,
         \/ Begin(g) \/ Refuse(g) \/ PlanShort(g) \/ End(g)
         \/ \E h \in Hash : Lock(g, h) \/ Unlock(g, h)
  PROVE  CountInv'
<1>1. UnderInv /\ pc \in [Group -> {"waiting", "locking", "copying", "ended", "failed"}]
  BY DEF CountInv, IndInv, TypeOK
<1>2. UNCHANGED <<owners, use, alive, jobs, made>>
  BY DEF Begin, Refuse, PlanShort, End, Lock, Unlock
<1>3. CASE Begin(g)
  <2>1. pc' = [pc EXCEPT ![g] = "locking"] /\ pc[g] = "waiting" /\ Cardinality(UnderWay) < Slots
    BY <1>3 DEF Begin
  <2>2. UnderWay' = UnderWay \cup {g} /\ g \notin UnderWay
    BY <1>1, <2>1 DEF UnderWay
  <2>3. IsFiniteSet(UnderWay)
    BY <1>1 DEF UnderInv
  <2>4. /\ IsFiniteSet(UnderWay \cup {g})
        /\ Cardinality(UnderWay \cup {g}) = Cardinality(UnderWay) + 1
        /\ Cardinality(UnderWay) \in Nat
    BY <2>2, <2>3, FS_AddElement, FS_CardinalityType
  <2>5. IsFiniteSet(UnderWay') /\ Cardinality(UnderWay') = Cardinality(UnderWay) + 1
    BY <2>2, <2>4
  <2>6. UnderInv'
    BY <2>1, <2>4, <2>5 DEF UnderInv, StoreStripeAssumption
  <2> QED
    BY <1>2, <2>6, StillCount
<1>4. CASE Refuse(g) \/ PlanShort(g) \/ End(g) \/ \E h \in Hash : Lock(g, h) \/ Unlock(g, h)
  <2>1. \/ pc' = pc \/ \E p \in {"failed", "ended"} : pc' = [pc EXCEPT ![g] = p]
    BY <1>4 DEF Refuse, PlanShort, End, Lock, Unlock
  <2>2. UnderWay' \in SUBSET UnderWay
    BY <1>1, <2>1 DEF UnderWay
  <2>3. UnderInv'
    BY <1>1, <2>2, UnderKept
  <2> QED
    BY <1>2, <2>3, StillCount
<1> QED
  BY <1>3, <1>4

\* A copy is made: it is held where it was to be made.
LEMMA CopyCount ==
  ASSUME StoreStripeAssumption, IndInv, CountInv, NEW g \in Group, NEW h \in Hash, NEW s \in Store,
         Copy(g, h, s)
  PROVE  CountInv'
<1> DEFINE j == <<g, h, s>>
<1>1. /\ TypeOK /\ JobInv /\ UnderInv /\ UseInv /\ FitInv /\ BoundInv
      /\ j \in jobs /\ j \notin made /\ j[3] = s
      /\ owners' = [owners EXCEPT ![h] = owners[h] \cup {s}]
      /\ made' = made \cup {j}
      /\ UNCHANGED <<pc, use, alive, jobs>>
  BY DEF IndInv, CountInv, Copy
<1>2. UnderInv' /\ FitInv'
  <2>1. UnderWay' = UnderWay
    BY <1>1 DEF UnderWay
  <2> QED
    BY <1>1, <2>1 DEF UnderInv, FitInv
<1>3. \A k \in Hash : owners'[k] = IF k = h THEN owners[h] \cup {s} ELSE owners[k]
  BY <1>1 DEF TypeOK
<1>4. \A t \in Store : t # s => /\ Held(owners', t) = Held(owners, t)
                                /\ MadeAt(t)' = MadeAt(t) /\ Unmade(t)' = Unmade(t)
  <2> SUFFICES ASSUME NEW t \in Store, t # s
               PROVE  /\ Held(owners', t) = Held(owners, t)
                      /\ MadeAt(t)' = MadeAt(t) /\ Unmade(t)' = Unmade(t)
    OBVIOUS
  <2>1. {k \in Hash : t \in owners'[k]} = {k \in Hash : t \in owners[k]}
    BY <1>3
  <2> QED
    BY <1>1, <2>1 DEF Held, MadeAt, Unmade
<1>5. Held(owners', s) <= Held(owners, s) + 1
  <2> DEFINE H == {k \in Hash : s \in owners[k]}
             N == {k \in Hash : s \in owners'[k]}
  <2>1. H \in SUBSET Hash /\ N = H \cup {h}
    BY <1>3
  <2>2. IsFiniteSet(H)
    BY <2>1, FS_Subset DEF StoreStripeAssumption
  <2>3. Cardinality(H \cup {h}) <= Cardinality(H) + 1
    <3>1. /\ Cardinality(H) \in Nat
          /\ Cardinality(H \cup {h}) = IF h \in H THEN Cardinality(H) ELSE Cardinality(H) + 1
      <4> HIDE DEF H
      <4> QED
        BY <2>2, FS_AddElement, FS_CardinalityType
    <3> QED
      BY <3>1
  <2> QED
    BY <2>1, <2>3 DEF Held
<1>6. /\ Cardinality(MadeAt(s)') = Cardinality(MadeAt(s)) + 1
      /\ Unmade(s) # {} /\ Cardinality(Unmade(s)') = Cardinality(Unmade(s)) - 1
  <2>1. /\ MadeAt(s)' = MadeAt(s) \cup {j} /\ j \notin MadeAt(s)
        /\ Unmade(s)' = Unmade(s) \ {j} /\ j \in Unmade(s)
    BY <1>1 DEF MadeAt, Unmade
  <2>2. IsFiniteSet(MadeAt(s)) /\ IsFiniteSet(Unmade(s))
    BY <1>1, JobsFinite
  <2>3. Cardinality(MadeAt(s) \cup {j}) = Cardinality(MadeAt(s)) + 1
    <3> HIDE DEF j
    <3> QED
      BY <2>1, <2>2, FS_AddElement
  <2>4. Cardinality(Unmade(s) \ {j}) = Cardinality(Unmade(s)) - 1
    <3> HIDE DEF j
    <3> QED
      BY <2>1, <2>2, FS_RemoveElement
  <2> QED
    BY <2>1, <2>3, <2>4
<1>7. /\ Held(owners, s) \in Nat /\ Held(owners', s) \in Nat
      /\ Cardinality(MadeAt(s)) \in Nat /\ Cardinality(Unmade(s)) \in Nat
      /\ Cardinality(Unmade(s)') \in Nat
  <2>1. Cardinality(MadeAt(s)) \in Nat /\ Cardinality(Unmade(s)) \in Nat
    BY <1>1, JobsFinite
  <2>2. IsFiniteSet(Unmade(s)) /\ Unmade(s)' \in SUBSET Unmade(s)
    BY <1>1, JobsFinite DEF Unmade
  <2>3. Cardinality(Unmade(s)') \in Nat
    BY <2>2, FS_Subset, FS_CardinalityType
  <2> QED
    BY <2>1, <2>3, HeldNat
<1>8. UseInv'
  <2> SUFFICES ASSUME NEW t \in alive
               PROVE  Held(owners', t) <= use[t] + Cardinality(MadeAt(t)')
    BY <1>1 DEF UseInv
  <2>1. t \in Store /\ use[t] \in Nat
    BY <1>1 DEF TypeOK
  <2>2. Held(owners, t) <= use[t] + Cardinality(MadeAt(t))
    BY <1>1 DEF UseInv
  <2>3. CASE t = s
    BY <1>5, <1>6, <1>7, <2>1, <2>2, <2>3
  <2>4. CASE t # s
    BY <1>4, <2>1, <2>2, <2>4
  <2> QED
    BY <2>3, <2>4
<1>9. BoundInv'
  <2> SUFFICES ASSUME NEW t \in Store, NEW n \in Nat, Unmade(t)' # {}, \A k \in Unseen(t) : k <= n
               PROVE  Held(owners', t) + Cardinality(Unmade(t)') <= Quota[t] + (Slots - 1) * n
    BY UnseenSame DEF BoundInv
  <2>1. CASE t = s
    <3>1. Held(owners', s) + Cardinality(Unmade(s)') <= Held(owners, s) + Cardinality(Unmade(s))
      BY <1>5, <1>6, <1>7
    <3>2. /\ Held(owners, s) \in Nat /\ Held(owners', s) \in Nat
          /\ Cardinality(Unmade(s)) \in Nat /\ Cardinality(Unmade(s)') \in Nat /\ Unmade(s) # {}
      BY <1>6, <1>7
    <3>3. \A k \in Unseen(s) : k <= n
      BY <2>1
    <3>4. Held(owners', s) + Cardinality(Unmade(s)') <= Quota[s] + (Slots - 1) * n
      BY <1>1, <3>1, <3>2, <3>3, BoundKept
    <3> QED
      BY <2>1, <3>4
  <2>2. CASE t # s
    BY <1>1, <1>4, <2>2 DEF BoundInv
  <2> QED
    BY <2>1, <2>2
<1> QED
  BY <1>2, <1>8, <1>9 DEF CountInv

\* A copy is accounted for, on a store that can still be used.
LEMMA AccountCount ==
  ASSUME StoreStripeAssumption, IndInv, CountInv, NEW g \in Group, NEW h \in Hash, NEW s \in Store,
         Account(g, h, s)
  PROVE  CountInv'
<1> DEFINE j == <<g, h, s>>
<1>1. /\ TypeOK /\ JobInv /\ UnderInv /\ UseInv /\ FitInv /\ BoundInv
      /\ j \in made /\ j[3] = s
      /\ jobs' = jobs \ {j} /\ made' = made \ {j}
      /\ UNCHANGED <<pc, owners>>
      /\ alive' \subseteq alive
  BY DEF IndInv, CountInv, Account
<1>2. UnderInv' /\ FitInv'
  <2>1. UnderWay' = UnderWay
    BY <1>1 DEF UnderWay
  <2> QED
    BY <1>1, <2>1 DEF UnderInv, FitInv
<1>3. \A t \in Store : Unmade(t)' = Unmade(t)
  BY <1>1 DEF Unmade
<1>4. BoundInv'
  <2>1. \A t \in Store : Unseen(t)' = Unseen(t) /\ Held(owners, t)' = Held(owners, t)
    BY <1>1, UnseenSame
  <2> QED
    BY <1>1, <1>3, <2>1 DEF BoundInv
<1>5. UseInv'
  <2> SUFFICES ASSUME NEW t \in alive'
               PROVE  Held(owners, t) <= use'[t] + Cardinality(MadeAt(t)')
    BY <1>1 DEF UseInv
  <2>1. t \in alive /\ t \in Store /\ use \in [Store -> Nat]
    BY <1>1 DEF TypeOK
  <2>2. Held(owners, t) <= use[t] + Cardinality(MadeAt(t))
    BY <1>1, <2>1 DEF UseInv
  <2>3. CASE t = s
    <3>1. use'[s] = use[s] + 1
      BY <2>1, <2>3 DEF Account
    <3>2. MadeAt(s)' = MadeAt(s) \ {j} /\ j \in MadeAt(s)
      BY <1>1 DEF MadeAt
    <3>3. IsFiniteSet(MadeAt(s)) /\ Cardinality(MadeAt(s)) \in Nat
      BY <1>1, JobsFinite
    <3>4. Cardinality(MadeAt(s) \ {j}) = Cardinality(MadeAt(s)) - 1
      BY <3>2, <3>3, FS_RemoveElement
    <3>5. use[s] \in Nat /\ Held(owners, s) \in Nat
      BY <2>1, HeldNat
    <3> QED
      BY <2>2, <2>3, <3>1, <3>2, <3>3, <3>4, <3>5
  <2>4. CASE t # s
    <3>1. use'[t] = use[t]
      BY <2>1, <2>4 DEF Account
    <3>2. MadeAt(t)' = MadeAt(t)
      BY <1>1, <2>4 DEF MadeAt
    <3> QED
      BY <2>2, <3>1, <3>2
  <2> QED
    BY <2>3, <2>4
<1> QED
  BY <1>2, <1>4, <1>5 DEF CountInv

LEMMA CopyErrorCount ==
  ASSUME StoreStripeAssumption, IndInv, CountInv, NEW g \in Group, NEW h \in Hash, NEW s \in Store,
         CopyError(g, h, s)
  PROVE  CountInv'
<1> DEFINE j == <<g, h, s>>
<1>1. /\ TypeOK /\ JobInv /\ UnderInv /\ UseInv /\ FitInv /\ BoundInv
      /\ j \in jobs /\ j \notin made /\ j[3] = s
      /\ jobs' = jobs \ {j} /\ alive' = alive \ {s}
      /\ UNCHANGED <<pc, owners, use, made>>
  BY DEF IndInv, CountInv, CopyError
<1>2. UnderInv' /\ FitInv'
  <2>1. UnderWay' = UnderWay
    BY <1>1 DEF UnderWay
  <2> QED
    BY <1>1, <2>1 DEF UnderInv, FitInv
<1>3. UseInv'
  BY <1>1 DEF UseInv, MadeAt
<1>4. BoundInv'
  <2> SUFFICES ASSUME NEW t \in Store, NEW n \in Nat, Unmade(t)' # {}, \A k \in Unseen(t) : k <= n
               PROVE  Held(owners', t) + Cardinality(Unmade(t)') <= Quota[t] + (Slots - 1) * n
    BY UnseenSame DEF BoundInv
  <2>1. Unmade(t)' \in SUBSET Unmade(t) /\ Unmade(t) # {}
    BY <1>1 DEF Unmade
  <2>2. IsFiniteSet(Unmade(t)) /\ Cardinality(Unmade(t)) \in Nat
    BY <1>1, JobsFinite
  <2>3. /\ IsFiniteSet(Unmade(t)') /\ Cardinality(Unmade(t)') \in Nat
        /\ Cardinality(Unmade(t)') <= Cardinality(Unmade(t))
    BY <2>1, <2>2, FS_Subset, FS_CardinalityType
  <2>4. Held(owners, t) \in Nat
    BY HeldNat
  <2>5. Held(owners, t) + Cardinality(Unmade(t)') <= Held(owners, t) + Cardinality(Unmade(t))
    BY <2>2, <2>3, <2>4
  <2>6. Held(owners, t) + Cardinality(Unmade(t)') <= Quota[t] + (Slots - 1) * n
    BY <1>1, <2>1, <2>2, <2>3, <2>4, <2>5, BoundKept
  <2> QED
    BY <1>1, <2>6
<1> QED
  BY <1>2, <1>3, <1>4 DEF CountInv

\* What a group that is about to plan does not see: copies that others under way
\* are to make, of chunks that are not its own.
LEMMA OthersBounded ==
  ASSUME StoreStripeAssumption, IndInv, CountInv, NEW g \in Group, NEW s \in Store, NEW n \in Nat,
         pc[g] = "locking", todo[g] = {}, \A k \in Unseen(s) : k <= n
  PROVE  Cardinality(JobsAt(s)) <= (Slots - 1) * n
<1>1. /\ TypeOK /\ LockInv /\ JobInv /\ UnderInv /\ FitInv
      /\ Members \in [Group -> SUBSET Hash] /\ IsFiniteSet(Hash) /\ Quota \in [Store -> Nat]
      /\ Slots \in Nat
  BY DEF IndInv, CountInv, StoreStripeAssumption
<1> DEFINE Diff(o) == Members[o] \ Members[g]
           U == {o \in UnderWay \ {g} : Cardinality(Members[o]) <= Quota[s]}
<1>2. \A h \in Members[g] : mu[h] = g
  BY <1>1 DEF LockInv
<1>3. ASSUME NEW j \in JobsAt(s)
      PROVE  /\ j[1] \in U /\ j[2] \in Diff(j[1]) /\ j = <<j[1], j[2], s>>
  <2>1. j \in jobs /\ j[3] = s /\ j \in Group \X Hash \X Store
    BY <1>1 DEF JobsAt, TypeOK, Jobs
  <2>2. /\ j = <<j[1], j[2], s>> /\ j[1] \in Group /\ j[2] \in Hash
        /\ <<j[1], j[2], s>> \in jobs
    BY <2>1
  <2>3. pc[j[1]] = "copying" /\ j[2] \in Members[j[1]] /\ mu[j[2]] = j[1]
    BY <1>1, <2>2 DEF JobInv
  <2>4. j[1] # g
    BY <2>3
  <2>5. Cardinality(Members[j[1]]) <= Quota[s]
    BY <1>1, <2>2 DEF FitInv
  <2>6. j[2] \notin Members[g]
    BY <1>2, <2>3, <2>4
  <2> QED
    BY <2>2, <2>3, <2>4, <2>5, <2>6 DEF UnderWay
<1>4. ASSUME NEW o \in U
      PROVE  \E b \in [Diff(o) -> 1..n] : \A x, y \in Diff(o) : b[x] = b[y] => x = y
  <2>1. o \in Group /\ Cardinality(Members[o]) <= Quota[s]
    BY DEF UnderWay
  <2>2. Cardinality(Diff(o)) \in Unseen(s)
    BY <2>1, UnseenHas
  <2>3. Cardinality(Diff(o)) <= n
    BY <2>2
  <2>4. Diff(o) \in SUBSET Hash
    BY <1>1, <2>1
  <2>5. IsFiniteSet(Diff(o))
    BY <1>1, <2>4, FS_Subset
  <2> HIDE DEF Diff
  <2> QED
    BY <2>3, <2>5, Countable
<1> DEFINE Counts(o) == {b \in [Diff(o) -> 1..n] : \A x, y \in Diff(o) : b[x] = b[y] => x = y}
           B == [o \in U |-> CHOOSE b \in Counts(o) : TRUE]
<1>5. \A o \in U : B[o] \in Counts(o)
  <2> SUFFICES ASSUME NEW o \in U PROVE B[o] \in Counts(o)
    OBVIOUS
  <2>1. \E b \in Counts(o) : TRUE
    BY <1>4
  <2>2. B[o] = CHOOSE b \in Counts(o) : TRUE
    OBVIOUS
  <2> HIDE DEF B, Counts
  <2> QED
    BY <2>1, <2>2
<1> DEFINE F == [j \in JobsAt(s) |-> <<j[1], B[j[1]][j[2]]>>]
<1>6. F \in [JobsAt(s) -> U \X (1..n)]
  <2> SUFFICES ASSUME NEW j \in JobsAt(s) PROVE <<j[1], B[j[1]][j[2]]>> \in U \X (1..n)
    OBVIOUS
  <2>1. j[1] \in U /\ j[2] \in Diff(j[1])
    BY <1>3
  <2>2. B[j[1]] \in [Diff(j[1]) -> 1..n]
    BY <1>5, <2>1
  <2> HIDE DEF B, U, Diff
  <2> QED
    BY <2>1, <2>2
<1>7. \A x, y \in JobsAt(s) : F[x] = F[y] => x = y
  <2> SUFFICES ASSUME NEW x \in JobsAt(s), NEW y \in JobsAt(s), F[x] = F[y]
               PROVE  x = y
    OBVIOUS
  <2>1. x[1] = y[1] /\ B[x[1]][x[2]] = B[y[1]][y[2]]
    <3> HIDE DEF B
    <3> QED
      OBVIOUS
  <2>2. x[1] \in U /\ x[2] \in Diff(x[1]) /\ y[2] \in Diff(x[1])
    BY <1>3, <2>1
  <2>3. x[2] = y[2]
    <3>1. B[x[1]] \in Counts(x[1])
      BY <1>5, <2>2
    <3>2. B[x[1]][x[2]] = B[x[1]][y[2]]
      BY <2>1
    <3> HIDE DEF B, Diff, U
    <3> QED
      BY <2>2, <3>1, <3>2
  <2>4. x = <<x[1], x[2], s>> /\ y = <<y[1], y[2], s>>
    BY <1>3
  <2> QED
    BY <2>1, <2>3, <2>4
<1>8. IsFiniteSet(U) /\ Cardinality(U) <= Slots - 1 /\ Slots - 1 \in Nat
  <2>1. g \in UnderWay /\ IsFiniteSet(UnderWay) /\ Cardinality(UnderWay) <= Slots
    BY <1>1 DEF UnderWay, UnderInv
  <2>2. /\ Cardinality(UnderWay) \in Nat
        /\ IsFiniteSet(UnderWay \ {g}) /\ Cardinality(UnderWay \ {g}) = Cardinality(UnderWay) - 1
    BY <2>1, FS_RemoveElement, FS_CardinalityType
  <2>3. U \in SUBSET (UnderWay \ {g}) /\ Cardinality(UnderWay \ {g}) \in Nat
    BY <2>2, FS_CardinalityType
  <2>4. IsFiniteSet(U) /\ Cardinality(U) <= Cardinality(UnderWay \ {g}) /\ Cardinality(U) \in Nat
    <3> HIDE DEF U
    <3> QED
      BY <2>2, <2>3, FS_Subset, FS_CardinalityType
  <2> HIDE DEF U
  <2> QED
    BY <1>1, <2>1, <2>2, <2>3, <2>4
<1> QED
  <2> HIDE DEF F, U
  <2> QED
    BY <1>6, <1>7, <1>8, PairsBounded

LEMMA PlanCount ==
  ASSUME StoreStripeAssumption, IndInv, CountInv, NEW g \in Group, Plan(g)
  PROVE  CountInv'
<1> DEFINE D == Resources(Cardinality(Members[g]))
           m == Cardinality(Members[g])
<1>1. /\ TypeOK /\ JobInv /\ UnderInv /\ UseInv /\ FitInv /\ BoundInv
      /\ pc[g] = "locking" /\ todo[g] = {} /\ pc' = [pc EXCEPT ![g] = "copying"]
      /\ UNCHANGED <<owners, use, alive, made>>
  BY DEF IndInv, CountInv, Plan
<1>2. PICK f \in Plans(g, D) :
        jobs' = jobs \cup {j \in Jobs : j[1] = g /\ j[2] \in Members[g] /\ j[3] \in f[j[2]]}
  BY DEF Plan
<1> DEFINE New == {j \in Jobs : j[1] = g /\ j[2] \in Members[g] /\ j[3] \in f[j[2]]}
<1>3. f \in [Members[g] -> SUBSET D] /\ Members[g] \subseteq Hash
  BY DEF Plans, CopyPlans, StoreStripeAssumption
<1>4. IsFiniteSet(Members[g]) /\ m \in Nat
  BY <1>3, FS_Subset, FS_CardinalityType DEF StoreStripeAssumption
<1>5. \A s \in D : /\ s \in alive /\ s \in Store /\ use[s] \in Nat /\ Quota[s] \in Nat
                   /\ use[s] + m <= Quota[s]
  BY <1>1 DEF Resources, TypeOK, StoreStripeAssumption
<1>6. \A j \in New : j[1] = g /\ j[2] \in Members[g] /\ j[3] \in D /\ j = <<g, j[2], j[3]>>
  BY <1>3 DEF Jobs
<1>7. UnderInv'
  <2>1. UnderWay' = UnderWay
    BY <1>1 DEF UnderWay, TypeOK
  <2> QED
    BY <1>1, <2>1 DEF UnderInv
<1>8. UseInv'
  BY <1>1 DEF UseInv, MadeAt, Held
<1>9. FitInv'
  <2> SUFFICES ASSUME NEW o \in Group, NEW h \in Hash, NEW s \in Store, <<o, h, s>> \in jobs'
               PROVE  Cardinality(Members[o]) <= Quota[s]
    BY DEF FitInv
  <2>1. CASE <<o, h, s>> \in jobs
    BY <1>1, <2>1 DEF FitInv
  <2>2. CASE <<o, h, s>> \in New
    <3>1. o = g /\ s \in D
      BY <1>6, <2>2
    <3> QED
      BY <1>4, <1>5, <3>1
  <2> QED
    BY <1>2, <2>1, <2>2
<1>10. BoundInv'
  <2> SUFFICES ASSUME NEW s \in Store, NEW n \in Nat, Unmade(s)' # {}, \A k \in Unseen(s) : k <= n
               PROVE  Held(owners, s) + Cardinality(Unmade(s)') <= Quota[s] + (Slots - 1) * n
    BY <1>1, UnseenSame DEF BoundInv
  <2> DEFINE N == {j \in New : j[3] = s}
  <2>1. Unmade(s)' = Unmade(s) \cup (N \ made)
    BY <1>1, <1>2 DEF Unmade
  <2>2. CASE N = {}
    BY <1>1, <2>1, <2>2 DEF BoundInv
  <2>3. CASE N # {}
    <3>1. s \in D
      BY <1>6, <2>3
    <3>2. IsFiniteSet(N) /\ Cardinality(N) <= m
      <4> DEFINE G == [j \in N |-> j[2]]
      <4>1. G \in Injection(N, Members[g])
        <5>1. G \in [N -> Members[g]]
          BY <1>6
        <5>2. \A x, y \in N : G[x] = G[y] => x = y
          BY <1>6
        <5> QED
          BY <5>1, <5>2 DEF Injection, IsInjective
      <4> HIDE DEF G, N
      <4> QED
        BY <1>4, <4>1, FS_Injection
    <3>3. /\ IsFiniteSet(Unmade(s)) /\ Cardinality(Unmade(s)) \in Nat
          /\ Cardinality(MadeAt(s)) \in Nat /\ Cardinality(JobsAt(s)) \in Nat
          /\ Cardinality(JobsAt(s)) = Cardinality(MadeAt(s)) + Cardinality(Unmade(s))
      BY <1>1, JobsFinite
    <3>4. Cardinality(Unmade(s)') <= Cardinality(Unmade(s)) + m /\ Cardinality(Unmade(s)') \in Nat
      <4>1. N \ made \in SUBSET N
        OBVIOUS
      <4>2. /\ IsFiniteSet(N \ made) /\ Cardinality(N \ made) <= Cardinality(N)
            /\ Cardinality(N \ made) \in Nat /\ Cardinality(N) \in Nat
        <5> HIDE DEF N
        <5> QED
          BY <3>2, <4>1, FS_Subset, FS_CardinalityType
      <4> DEFINE A == N \ made
      <4>3. /\ IsFiniteSet(Unmade(s) \cup A)
            /\ Cardinality(Unmade(s) \cup A) =
                 Cardinality(Unmade(s)) + Cardinality(A) - Cardinality(Unmade(s) \cap A)
            /\ IsFiniteSet(Unmade(s) \cap A)
        <5> HIDE DEF A
        <5>1. IsFiniteSet(A)
          BY <4>2 DEF A
        <5> QED
          BY <3>3, <5>1, FS_Union, FS_Intersection
      <4>4. Cardinality(Unmade(s) \cap A) \in Nat /\ Cardinality(Unmade(s) \cup A) \in Nat
        <5> HIDE DEF A
        <5> QED
          BY <4>3, FS_CardinalityType
      <4>5. Unmade(s)' = Unmade(s) \cup A
        BY <2>1
      <4>6. Cardinality(A) \in Nat /\ Cardinality(A) <= m
        <5> HIDE DEF N
        <5> QED
          BY <1>4, <3>2, <4>2
      <4> HIDE DEF A
      <4> QED
        BY <1>4, <3>3, <4>3, <4>4, <4>5, <4>6
    <3>5. Cardinality(JobsAt(s)) <= (Slots - 1) * n
      BY <1>1, OthersBounded
    <3>6. Held(owners, s) <= use[s] + Cardinality(MadeAt(s)) /\ Held(owners, s) \in Nat
      BY <1>1, <1>5, <3>1, HeldNat DEF UseInv
    <3>7. use[s] \in Nat /\ Quota[s] \in Nat /\ use[s] + m <= Quota[s]
      BY <1>5, <3>1
    <3>8. (Slots - 1) * n \in Int
      BY DEF StoreStripeAssumption
    <3> DEFINE p == (Slots - 1) * n
    <3>9. Cardinality(JobsAt(s)) <= p /\ p \in Int
      BY <3>5, <3>8
    <3> HIDE DEF p, m, N
    <3>10. Held(owners, s) + Cardinality(Unmade(s)') <= Quota[s] + p
      BY <1>4, <3>3, <3>4, <3>6, <3>7, <3>9
    <3> QED
      BY <3>10 DEF p
  <2> QED
    BY <2>2, <2>3
<1> QED
  BY <1>7, <1>8, <1>9, <1>10 DEF CountInv

LEMMA NextCount ==
  ASSUME StoreStripeAssumption, IndInv, CountInv, [Next]_vars
  PROVE  CountInv'
<1>1. ASSUME NEW g \in Group, Call(g) PROVE CountInv'
  BY <1>1, CallCount, PlanCount DEF Call
<1>2. ASSUME NEW g \in Group, NEW h \in Hash, Unlock(g, h) PROVE CountInv'
  BY <1>2, CallCount
<1>3. ASSUME NEW g \in Group, NEW h \in Hash, NEW s \in Store, CopyProc(g, h, s) PROVE CountInv'
  BY <1>3, CopyCount, AccountCount, CopyErrorCount DEF CopyProc
<1>4. CASE UNCHANGED vars
  <2>1. UnderInv'
    BY <1>4 DEF vars, CountInv, UnderInv, UnderWay
  <2>2. UNCHANGED <<owners, use, alive, jobs, made>>
    BY <1>4 DEF vars
  <2> QED
    BY <2>1, <2>2, StillCount
<1> QED
  BY <1>1, <1>2, <1>3, <1>4 DEF Next, Returned

\* A quota is overshot by no more than what the groups under way beside the
\* planner are to copy of chunks it does not hold (stores/stripe/stripe.go:87,
\* stores/quota/quota.go:73).
THEOREM QuotasKept == Spec => []QuotaKept
<1>1. Init => CountInv
  BY StoreStripeAssumption, CountInit
<1>2. IndInv /\ CountInv /\ [Next]_vars => CountInv'
  BY StoreStripeAssumption, NextCount
<1>3. IndInv /\ CountInv => QuotaKept
  <2> SUFFICES ASSUME IndInv, CountInv, NEW s \in Store, Unmade(s) # {}
               PROVE  \E n \in Unseen(s) :
                        /\ \A k \in Unseen(s) : k <= n
                        /\ Held(owners, s) + Cardinality(Unmade(s)) <= Quota[s] + (Slots - 1) * n
    BY DEF QuotaKept
  <2> DEFINE U == Unseen(s)
             m == Cardinality(Hash)
  <2>1. IsFiniteSet(Hash) /\ m \in Nat
    BY StoreStripeAssumption, FS_CardinalityType DEF StoreStripeAssumption
  <2>2. \A k \in U : k \in Nat /\ k <= m
    <3> SUFFICES ASSUME NEW k \in U PROVE k \in Nat /\ k <= m
      OBVIOUS
    <3>1. PICK p \in Group \X Group : k = Cardinality(Members[p[1]] \ Members[p[2]])
      BY DEF Unseen
    <3>2. Members[p[1]] \ Members[p[2]] \in SUBSET Hash
      BY StoreStripeAssumption DEF StoreStripeAssumption
    <3> QED
      BY <2>1, <3>1, <3>2, FS_Subset, FS_CardinalityType
  <2>3. U # {}
    <3>1. PICK j \in Unmade(s) : TRUE
      OBVIOUS
    <3>2. j \in jobs /\ j[3] = s /\ j \in Group \X Hash \X Store
      BY DEF Unmade, IndInv, TypeOK, Jobs
    <3>3. j[1] \in Group /\ j[2] \in Hash /\ <<j[1], j[2], s>> \in jobs
      BY <3>2
    <3>4. Cardinality(Members[j[1]]) <= Quota[s]
      BY <3>3 DEF CountInv, FitInv
    <3> QED
      BY <3>3, <3>4, UnseenHas
  <2>4. PICK n \in U : \A k \in U : k <= n
    <3> HIDE DEF U, m
    <3>1. U \in SUBSET Nat
      BY <2>2
    <3> QED
      BY <2>1, <2>2, <2>3, <3>1, LargestExists
  <2>5. Held(owners, s) + Cardinality(Unmade(s)) <= Quota[s] + (Slots - 1) * n
    BY <2>2, <2>4 DEF CountInv, BoundInv
  <2> QED
    BY <2>4, <2>5
<1> QED
  BY <1>1, <1>2, <1>3, Invariance, PTL DEF Spec
-----------------------------------------------------------------------------
(* Groups that wait for each other.                                        *)

LEMMA HolderStart == ASSUME StoreStripeAssumption, Init PROVE HolderInv
BY DEF Init, HolderInv

LEMMA HolderKept ==
  ASSUME StoreStripeAssumption, IndInv, HolderInv, [Next]_vars
  PROVE  HolderInv'
<1>1. TypeOK /\ LockInv /\ Nil \notin Group
  BY DEF IndInv, StoreStripeAssumption
<1>2. \A h \in Hash : mu[h] # Nil =>
        /\ mu[h] \in Group /\ pc[mu[h]] # "waiting" /\ h \in Members[mu[h]] \ todo[mu[h]]
  BY <1>1 DEF HolderInv, TypeOK
<1>3. ASSUME UNCHANGED <<todo, mu>>, \A g \in Group : pc'[g] = "waiting" => pc[g] = "waiting"
      PROVE  HolderInv'
  BY <1>2, <1>3 DEF HolderInv
<1>4. ASSUME NEW g \in Group, NEW p \in {"locking", "copying", "ended", "failed"},
             pc' = [pc EXCEPT ![g] = p], UNCHANGED <<todo, mu>>
      PROVE  HolderInv'
  BY <1>1, <1>3, <1>4 DEF TypeOK
<1>5. ASSUME NEW g \in Group, NEW h \in Hash, Lock(g, h) PROVE HolderInv'
  <2>1. /\ pc[g] = "locking" /\ h \in todo[g] /\ mu[h] = Nil
        /\ mu' = [mu EXCEPT ![h] = g]
        /\ todo' = [todo EXCEPT ![g] = todo[g] \ {h}] /\ pc' = pc
    BY <1>5 DEF Lock
  <2>2. h \in Members[g]
    BY <1>1, <2>1 DEF LockInv
  <2>3. /\ \A k \in Hash : mu'[k] = IF k = h THEN g ELSE mu[k]
        /\ \A f \in Group : todo'[f] \subseteq todo[f] /\ h \notin todo'[g]
    BY <1>1, <2>1 DEF TypeOK
  <2> QED
    BY <1>2, <2>1, <2>2, <2>3 DEF HolderInv
<1>6. ASSUME NEW g \in Group, NEW h \in Hash, Unlock(g, h) PROVE HolderInv'
  <2>1. mu' = [mu EXCEPT ![h] = Nil] /\ UNCHANGED <<todo, pc>>
    BY <1>6 DEF Unlock
  <2>2. \A k \in Hash : mu'[k] = IF k = h THEN Nil ELSE mu[k]
    BY <1>1, <2>1 DEF TypeOK
  <2> QED
    BY <1>2, <2>1, <2>2 DEF HolderInv
<1>7. ASSUME NEW g \in Group, Call(g) PROVE HolderInv'
  <2>1. CASE Begin(g)
    BY <1>4, <2>1 DEF Begin
  <2>2. CASE Refuse(g)
    BY <1>4, <2>2 DEF Refuse
  <2>3. CASE Plan(g)
    BY <1>4, <2>3 DEF Plan
  <2>4. CASE PlanShort(g)
    BY <1>4, <2>4 DEF PlanShort
  <2>5. CASE End(g)
    BY <1>4, <2>5 DEF End
  <2> QED
    BY <1>5, <1>7, <2>1, <2>2, <2>3, <2>4, <2>5 DEF Call
<1>8. ASSUME NEW g \in Group, NEW h \in Hash, NEW s \in Store, CopyProc(g, h, s)
      PROVE  HolderInv'
  <2>1. UNCHANGED <<pc, todo, mu>>
    BY <1>8 DEF CopyProc, Copy, Account, CopyError
  <2> QED
    BY <1>3, <2>1
<1>9. CASE UNCHANGED vars
  BY <1>3, <1>9 DEF vars
<1> QED
  BY <1>6, <1>7, <1>8, <1>9 DEF Next, Returned

\* A finite set has subsets of each size up to its own.
LEMMA SubsetOfSize ==
  ASSUME NEW S, IsFiniteSet(S), NEW n \in Nat, n <= Cardinality(S)
  PROVE  \E T \in SUBSET S : Cardinality(T) = n
<1> DEFINE c == Cardinality(S)
<1>1. c \in Nat
  BY FS_CardinalityType
<1>2. IsFiniteSet(1 .. c) /\ Cardinality(1 .. c) = c
  BY <1>1, FS_Interval
<1>3. PICK b \in Bijection(1 .. c, S) : TRUE
  BY <1>2, FS_SameCardinalityBij DEF ExistsBijection
<1>4. /\ b \in [1 .. c -> S]
      /\ \A i, j \in 1 .. c : b[i] = b[j] => i = j
  BY <1>3 DEF Bijection, Injection, IsInjective
<1> DEFINE T == {b[i] : i \in 1 .. n}
           f == [i \in 1 .. n |-> b[i]]
<1>5. T \in SUBSET S /\ 1 .. n \subseteq 1 .. c
  BY <1>1, <1>4
<1>6. f \in Bijection(1 .. n, T)
  BY <1>4, <1>5 DEF Bijection, Injection, Surjection, IsInjective
<1>7. IsFiniteSet(1 .. n) /\ Cardinality(1 .. n) = n
  BY FS_Interval
<1>8. Cardinality(T) = n
  <2> HIDE DEF T, f
  <2>1. ExistsBijection(1 .. n, T)
    BY <1>6 DEF ExistsBijection
  <2> QED
    BY <1>7, <2>1, FS_Bijection
<1> QED
  BY <1>5, <1>8

\* With room on Min stores there is a plan: what S.Stripe makes always exists.
LEMMA PlanExists ==
  ASSUME StoreStripeAssumption, TypeOK, NEW g \in Group,
         NEW D \in SUBSET Store, Cardinality(D) >= Min
  PROVE  Plans(g, D) # {}
<1>1. Min \in Nat /\ IsFiniteSet(D) /\ Members[g] \subseteq Hash
  BY FS_Subset DEF StoreStripeAssumption
<1>2. ASSUME NEW h \in Members[g]
      PROVE  \E T \in SUBSET (D \ owners[h]) : Cardinality(T) = Lacking(owners[h], D, Min)
  <2> DEFINE O == owners[h]
  <2>1. Lacking(owners[h], D, Min) = IF Cardinality(O \cap D) >= Min THEN 0 ELSE Min - Cardinality(O \cap D)
    BY DEF Lacking
  <2> HIDE DEF O
  <2>2. /\ IsFiniteSet(O \cap D) /\ IsFiniteSet(D \ O)
        /\ Cardinality(O \cap D) \in Nat /\ Cardinality(D \ O) \in Nat /\ Cardinality(D) \in Nat
    <3>1. O \cap D \in SUBSET D /\ D \ O \in SUBSET D
      OBVIOUS
    <3> QED
      BY <1>1, <3>1, FS_Subset, FS_CardinalityType
  <2>3. Cardinality(D) = Cardinality(O \cap D) + Cardinality(D \ O)
    <3>1. D = (O \cap D) \cup (D \ O) /\ (O \cap D) \cap (D \ O) = {}
      OBVIOUS
    <3>2. Cardinality((O \cap D) \cap (D \ O)) = 0
      BY <3>1, FS_EmptySet, Zenon
    <3>3. Cardinality((O \cap D) \cup (D \ O)) = Cardinality(O \cap D) + Cardinality(D \ O) - 0
      BY <2>2, <3>2, FS_Union
    <3>4. Cardinality(D) = Cardinality(O \cap D) + Cardinality(D \ O) - 0
      BY <3>1, <3>3, Zenon
    <3> QED
      BY <2>2, <3>4
  <2>4. Lacking(owners[h], D, Min) \in Nat /\ Lacking(owners[h], D, Min) <= Cardinality(D \ O)
    BY <1>1, <2>1, <2>2, <2>3
  <2>5. \E T \in SUBSET (D \ O) : Cardinality(T) = Lacking(owners[h], D, Min)
    BY <2>2, <2>4, SubsetOfSize
  <2> QED
    BY <2>5 DEF O
<1> DEFINE f == [h \in Members[g] |->
                   CHOOSE T \in SUBSET (D \ owners[h]) : Cardinality(T) = Lacking(owners[h], D, Min)]
<1>3. ASSUME NEW h \in Members[g]
      PROVE  f[h] \in SUBSET (D \ owners[h]) /\ Cardinality(f[h]) = Lacking(owners[h], D, Min)
  BY <1>2
<1>4. f \in [Members[g] -> SUBSET D]
  BY <1>3
<1>5. f \in Plans(g, D)
  <2> HIDE DEF f
  <2>1. \A h \in Members[g] : f[h] \cap owners[h] = {} /\ Cardinality(f[h]) = Lacking(owners[h], D, Min)
    BY <1>3
  <2> QED
    BY <1>4, <2>1 DEF Plans, CopyPlans
<1> QED
  BY <1>5

\* Without a ring of groups some group gets on.
LEMMA SomeMoves ==
  ASSUME StoreStripeAssumption, IndInv, UnderInv, HolderInv, NoRing, Slots > 0
  PROVE  NeverStuck
<1> SUFFICES ASSUME ~Over, \A g \in Group : ~CanMove(g) PROVE FALSE
  BY DEF NeverStuck
<1>1. TypeOK /\ LockInv /\ Slots \in Nat /\ Nil \notin Group
  BY DEF IndInv, StoreStripeAssumption
<1>2. \A g \in Group : pc[g] \in {"waiting", "locking", "ended"}
  BY <1>1 DEF CanMove, Over, TypeOK
<1>3. PICK k \in Group : pc[k] # "ended"
  BY DEF Over
<1> DEFINE G == {g \in Group : pc[g] = "locking"}
<1>4. UnderWay = G
  BY <1>2 DEF UnderWay
<1>5. G \in SUBSET Group /\ IsFiniteSet(G) /\ Cardinality(G) <= Slots
  BY <1>4 DEF UnderInv
<1>6. G # {}
  <2>1. SUFFICES ASSUME G = {} PROVE FALSE
    OBVIOUS
  <2>2. Cardinality(UnderWay) = 0
    BY <1>4, <2>1, FS_EmptySet
  <2>3. pc[k] = "waiting"
    BY <1>2, <1>3, <2>1
  <2> QED
    BY <1>1, <2>2, <2>3 DEF CanMove
<1>7. ASSUME NEW g \in G PROVE \E h \in Hash : h \in todo[g] /\ mu[h] # Nil
  <2>1. g \in Group /\ pc[g] = "locking"
    OBVIOUS
  <2>2. Resources(Cardinality(Members[g])) \in SUBSET Store
    BY <1>1 DEF Resources, TypeOK
  <2>3. todo[g] # {}
    BY <1>1, <2>1, <2>2, PlanExists DEF CanMove
  <2> QED
    BY <1>1, <2>1, <2>3 DEF CanMove, TypeOK
<1> DEFINE want == [g \in G |-> CHOOSE h \in Hash : h \in todo[g] /\ mu[h] # Nil]
           next == [g \in G |-> mu[want[g]]]
<1>8. ASSUME NEW g \in G
      PROVE  /\ want[g] \in Hash /\ want[g] \in todo[g] /\ want[g] \in Members[g]
             /\ next[g] \in G /\ want[g] \in Members[next[g]] \ todo[next[g]]
  <2>1. want[g] \in Hash /\ want[g] \in todo[g] /\ mu[want[g]] # Nil /\ next[g] = mu[want[g]]
    BY <1>7
  <2> HIDE DEF want, next
  <2>2. want[g] \in Members[g]
    BY <1>1, <2>1 DEF LockInv
  <2>3. next[g] \in Group /\ pc[next[g]] # "waiting" /\ want[g] \in Members[next[g]] \ todo[next[g]]
    BY <1>1, <2>1 DEF HolderInv, TypeOK
  <2>4. pc[next[g]] # "ended"
    BY <2>1, <2>3 DEF CanMove
  <2> QED
    BY <1>2, <2>1, <2>2, <2>3, <2>4
<1>9. want \in [G -> Hash] /\ next \in [G -> G]
  BY <1>8
<1> HIDE DEF want, next, G
<1>10. Ring(G)
  <2>1. ASSUME NEW g \in G
        PROVE  /\ next[g] # g
               /\ want[g] \in Members[g] \cap Members[next[g]]
               /\ want[next[g]] # want[g]
    <3>1. next[g] \in G
      BY <1>8
    <3> QED
      BY <1>8, <3>1
  <2> QED
    BY <1>9, <2>1 DEF Ring
<1> QED
  BY <1>5, <1>6, <1>10 DEF NoRing

\* No deadlock, for any groups that no ring can be made of: the locks that
\* stripeP.Procs takes one after the other (stores/stripe/stripe.go:79), and keeps
\* until its copies are made, are no danger to them.
THEOREM NoDeadlock == ASSUME NoRing, Slots > 0 PROVE Spec => []NeverStuck
<1>1. Init => HolderInv
  BY StoreStripeAssumption, HolderStart
<1>2. IndInv /\ HolderInv /\ [Next]_vars => HolderInv'
  BY StoreStripeAssumption, HolderKept
<1>3. Init => CountInv
  BY StoreStripeAssumption, CountInit
<1>4. IndInv /\ CountInv /\ [Next]_vars => CountInv'
  BY StoreStripeAssumption, NextCount
<1>5. IndInv /\ CountInv /\ HolderInv => NeverStuck
  BY StoreStripeAssumption, SomeMoves DEF CountInv
<1> QED
  BY <1>1, <1>2, <1>3, <1>4, <1>5, Invariance, PTL DEF Spec

\* Groups that are taken one at a time, that have no chunk in common, or of which
\* two may be under way that have at most one in common, make no ring.
THEOREM SafeGroups ==
  ASSUME \/ Slots = 1
         \/ \A g, f \in Group : g # f => Members[g] \cap Members[f] = {}
         \/ /\ Slots = 2
            /\ \A g, f \in Group : g # f =>
                 \A h, k \in Members[g] \cap Members[f] : h = k
  PROVE  NoRing
<1> SUFFICES ASSUME NEW G \in SUBSET Group, G # {}, IsFiniteSet(G), Cardinality(G) <= Slots,
                    NEW next \in [G -> G], NEW want \in [G -> Hash],
                    \A g \in G : /\ next[g] # g
                                 /\ want[g] \in Members[g] \cap Members[next[g]]
                                 /\ want[next[g]] # want[g]
             PROVE  FALSE
  BY DEF NoRing, Ring
<1>1. PICK g \in G : TRUE
  OBVIOUS
<1>2. PICK f \in G : f = next[g]
  OBVIOUS
<1>3. /\ f # g /\ want[g] \in Members[g] \cap Members[f]
      /\ want[f] # want[g] /\ want[f] \in Members[f] \cap Members[next[f]]
      /\ next[f] \in G /\ next[f] # f
  BY <1>2
<1>4. Cardinality({g, f}) = 2 /\ {g, f} \in SUBSET G
  <2>1. IsFiniteSet({g}) /\ Cardinality({g}) = 1
    BY FS_Singleton
  <2>2. f \notin {g}
    BY <1>3
  <2>3. Cardinality({g} \cup {f}) = Cardinality({g}) + 1
    BY <2>1, <2>2, FS_AddElement
  <2>4. Cardinality({g}) + 1 = 2
    BY <2>1
  <2>5. {g} \cup {f} = {g, f}
    OBVIOUS
  <2> QED
    BY <2>3, <2>4, <2>5, Zenon
<1>5. 2 <= Cardinality(G) /\ Cardinality(G) \in Nat
  BY <1>4, FS_Subset, FS_CardinalityType
<1>6. CASE Slots = 1
  BY <1>5, <1>6
<1>7. CASE \A a, b \in Group : a # b => Members[a] \cap Members[b] = {}
  BY <1>3, <1>7
<1>8. CASE /\ Slots = 2
           /\ \A a, b \in Group : a # b => \A h, k \in Members[a] \cap Members[b] : h = k
  <2>1. G = {g, f}
    <3>1. Cardinality(G) = Cardinality({g, f})
      BY <1>4, <1>5, <1>8
    <3> QED
      BY <1>4, <3>1, FS_Subset
  <2>2. next[f] = g
    BY <1>3, <2>1
  <2> QED
    BY <1>3, <1>8, <2>2
<1> QED
  BY <1>6, <1>7, <1>8
-----------------------------------------------------------------------------
(* Calls come to an end.                                                   *)

\* Left' and Left, set by set.
LEMMA LeftBySet ==
  ASSUME StagesLeft' \subseteq StagesLeft, TodoLeft' \subseteq TodoLeft,
         LocksLeft' \subseteq LocksLeft, JobsLeft' \subseteq JobsLeft,
         UnmadeLeft' \subseteq UnmadeLeft,
         \/ StagesLeft' # StagesLeft \/ TodoLeft' # TodoLeft \/ LocksLeft' # LocksLeft
         \/ JobsLeft' # JobsLeft \/ UnmadeLeft' # UnmadeLeft
  PROVE  Shrinks
<1>1. /\ Left' = <<StagesLeft', TodoLeft', LocksLeft', JobsLeft', UnmadeLeft'>>
      /\ Left = <<StagesLeft, TodoLeft, LocksLeft, JobsLeft, UnmadeLeft>>
  BY DEF Left
<1>2. \A k \in 1 .. 5 : k = 1 \/ k = 2 \/ k = 3 \/ k = 4 \/ k = 5
  OBVIOUS
<1>3. \A k \in 1 .. 5 : Left'[k] \subseteq Left[k]
  BY <1>1, <1>2
<1>4. Left' # Left
  BY <1>1
<1> QED
  BY <1>3, <1>4 DEF Shrinks

\* A call goes from one stage to the next, or fails.
LEMMA StageShrinks ==
  ASSUME StoreStripeAssumption, TypeOK, NEW g \in Group,
         NEW p \in {"locking", "copying", "ended", "failed"},
         Stage[pc[g]] < Stage[p], pc' = [pc EXCEPT ![g] = p],
         UNCHANGED <<todo, mu, made>>,
         jobs \subseteq jobs',
         \A j \in jobs' : j \in Jobs /\ (j \in jobs \/ (j[1] = g /\ pc[g] = "locking"))
  PROVE  Shrinks
<1>1. /\ pc \in [Group -> {"waiting", "locking", "copying", "ended", "failed"}]
      /\ \A f \in Group : pc'[f] = IF f = g THEN p ELSE pc[f]
  BY DEF TypeOK
<1>2. /\ Stage["waiting"] = 0 /\ Stage["locking"] = 1 /\ Stage["copying"] = 2
      /\ Stage["ended"] = 3 /\ Stage["failed"] = 3
  BY DEF Stage
<1>3. StagesLeft' \subseteq StagesLeft /\ StagesLeft' # StagesLeft
  <2> DEFINE x == <<g, Stage[p]>>
  <2>1. x \in Group \X (1 .. 3) /\ x[1] = g /\ x[2] = Stage[p]
    BY <1>1, <1>2
  <2> HIDE DEF x
  <2>2. x \in StagesLeft /\ x \notin StagesLeft'
    BY <1>1, <1>2, <2>1 DEF StagesLeft
  <2>3. ASSUME NEW y \in StagesLeft' PROVE y \in StagesLeft
    <3>1. /\ y \in Group \X (1 .. 3) /\ y[2] > Stage[pc'[y[1]]]
          /\ y[1] \in Group /\ y[2] \in 1 .. 3
      BY <2>3 DEF StagesLeft
    <3>2. y[2] > Stage[pc[y[1]]]
      <4>1. CASE y[1] = g
        BY <1>1, <1>2, <3>1, <4>1
      <4>2. CASE y[1] # g
        BY <1>1, <3>1, <4>2
      <4> QED
        BY <4>1, <4>2
    <3> QED
      BY <3>1, <3>2 DEF StagesLeft
  <2> QED
    BY <2>2, <2>3
<1>4. TodoLeft' = TodoLeft /\ LocksLeft' = LocksLeft
  BY DEF TodoLeft, LocksLeft
<1>5. pc[g] \in {"waiting", "locking", "copying"} /\ (p = "locking" => pc[g] = "waiting")
  BY <1>1, <1>2
<1>6. \A f \in Group : pc'[f] \in {"waiting", "locking"} => pc[f] \in {"waiting", "locking"}
  BY <1>1, <1>5
<1>7. \A j \in Jobs : j[1] \in Group
  BY DEF Jobs
<1>8. JobsLeft' \subseteq JobsLeft /\ UnmadeLeft' \subseteq UnmadeLeft
  BY <1>6, <1>7 DEF JobsLeft, UnmadeLeft
<1> QED
  BY <1>3, <1>4, <1>8, LeftBySet

\* Steps within a stage.
LEMMA WithinShrinks ==
  ASSUME StoreStripeAssumption, TypeOK, JobInv, NEW g \in Group, NEW h \in Hash,
         \/ Lock(g, h) \/ Unlock(g, h) \/ \E s \in Store : CopyProc(g, h, s),
         HolderInv
  PROVE  Shrinks
<1>1. UNCHANGED pc
  BY DEF Lock, Unlock, CopyProc, Copy, Account, CopyError
<1>2. StagesLeft' = StagesLeft
  BY <1>1 DEF StagesLeft
<1> DEFINE x == <<g, h>>
<1>3. x \in Group \X Hash /\ x[1] = g /\ x[2] = h
  OBVIOUS
<1>4. \A y \in Group \X Hash : y[1] \in Group /\ y[2] \in Hash /\ (y[1] = g /\ y[2] = h => y = x)
  OBVIOUS
<1> HIDE DEF x
<1>5. CASE Lock(g, h)
  <2>1. /\ h \in todo[g] /\ mu' = [mu EXCEPT ![h] = g]
        /\ todo' = [todo EXCEPT ![g] = todo[g] \ {h}] /\ UNCHANGED <<jobs, made>>
    BY <1>5 DEF Lock
  <2>2. /\ \A k \in Hash : mu'[k] = IF k = h THEN g ELSE mu[k]
        /\ \A f \in Group : todo'[f] = IF f = g THEN todo[g] \ {h} ELSE todo[f]
    BY <2>1 DEF TypeOK
  <2>3. x \in TodoLeft /\ x \notin TodoLeft' /\ TodoLeft' \subseteq TodoLeft
    BY <1>3, <1>4, <2>1, <2>2 DEF TodoLeft
  <2>4. LocksLeft' \subseteq LocksLeft
    BY <1>4, <2>1, <2>2 DEF LocksLeft
  <2>5. JobsLeft' = JobsLeft /\ UnmadeLeft' = UnmadeLeft
    BY <1>1, <2>1 DEF JobsLeft, UnmadeLeft
  <2> QED
    BY <1>2, <2>3, <2>4, <2>5, LeftBySet
<1>6. CASE Unlock(g, h)
  <2>1. /\ mu[h] = g /\ mu' = [mu EXCEPT ![h] = Nil] /\ UNCHANGED <<todo, jobs, made>>
    BY <1>6 DEF Unlock
  <2>2. \A k \in Hash : mu'[k] = IF k = h THEN Nil ELSE mu[k]
    BY <2>1 DEF TypeOK
  <2>3. h \notin todo[g] /\ g # Nil
    BY <2>1 DEF HolderInv, StoreStripeAssumption
  <2>4. x \in LocksLeft /\ x \notin LocksLeft'
    BY <1>3, <2>1, <2>2, <2>3 DEF LocksLeft
  <2>5. \A f \in Group : f # Nil
    BY DEF StoreStripeAssumption
  <2>6. LocksLeft' \subseteq LocksLeft
    BY <1>4, <2>1, <2>2, <2>5 DEF LocksLeft
  <2>7. TodoLeft' = TodoLeft /\ JobsLeft' = JobsLeft /\ UnmadeLeft' = UnmadeLeft
    BY <1>1, <2>1 DEF TodoLeft, JobsLeft, UnmadeLeft
  <2> QED
    BY <1>2, <2>4, <2>6, <2>7, LeftBySet
<1>7. ASSUME NEW s \in Store, CopyProc(g, h, s) PROVE Shrinks
  <2> DEFINE j == <<g, h, s>>
  <2>1. j \in Jobs /\ j[1] = g
    BY DEF Jobs
  <2> HIDE DEF j
  <2>2. UNCHANGED <<todo, mu>>
    BY <1>7 DEF CopyProc, Copy, Account, CopyError
  <2>3. TodoLeft' = TodoLeft /\ LocksLeft' = LocksLeft
    BY <2>2 DEF TodoLeft, LocksLeft
  <2>4. j \in jobs
    BY <1>7 DEF CopyProc, Copy, Account, CopyError, TypeOK, j
  <2>5. pc[g] = "copying"
    BY <2>4 DEF JobInv, j
  <2>6. CASE Copy(g, h, s)
    <3>1. j \notin made /\ made' = made \cup {j} /\ jobs' = jobs
      BY <2>6 DEF Copy, j
    <3>2. j \in UnmadeLeft /\ j \notin UnmadeLeft' /\ UnmadeLeft' \subseteq UnmadeLeft
      BY <1>1, <2>1, <2>4, <2>5, <3>1 DEF UnmadeLeft
    <3>3. JobsLeft' = JobsLeft
      BY <1>1, <3>1 DEF JobsLeft
    <3> QED
      BY <1>2, <2>3, <3>2, <3>3, LeftBySet
  <2>7. CASE Account(g, h, s) \/ CopyError(g, h, s)
    <3>1. /\ jobs' = jobs \ {j} /\ jobs' \ made' \subseteq jobs \ made
      BY <2>7 DEF Account, CopyError, j
    <3>2. j \in JobsLeft /\ j \notin JobsLeft' /\ JobsLeft' \subseteq JobsLeft
      BY <1>1, <2>1, <2>4, <2>5, <3>1 DEF JobsLeft
    <3>3. UnmadeLeft' \subseteq UnmadeLeft
      BY <1>1, <3>1 DEF UnmadeLeft
    <3> QED
      BY <1>2, <2>3, <3>2, <3>3, LeftBySet
  <2> QED
    BY <1>7, <2>6, <2>7 DEF CopyProc
<1> QED
  BY <1>5, <1>6, <1>7

LEMMA StepShrinks ==
  ASSUME StoreStripeAssumption, IndInv, HolderInv, Next, ~UNCHANGED vars
  PROVE  Shrinks
<1>1. TypeOK /\ JobInv
  BY DEF IndInv
<1>2. /\ Stage["waiting"] = 0 /\ Stage["locking"] = 1 /\ Stage["copying"] = 2
      /\ Stage["ended"] = 3 /\ Stage["failed"] = 3
  BY DEF Stage
<1>3. ASSUME NEW g \in Group, Call(g) PROVE Shrinks
  <2>1. CASE Plan(g)
    <3>1. /\ pc[g] = "locking" /\ pc' = [pc EXCEPT ![g] = "copying"]
          /\ UNCHANGED <<todo, mu, made>>
      BY <2>1 DEF Plan
    <3>2. PICK J : jobs' = jobs \cup J /\ \A j \in J : j \in Jobs /\ j[1] = g
      BY <2>1 DEF Plan
    <3>3. \A j \in jobs : j \in Jobs
      BY <1>1 DEF TypeOK
    <3>4. Stage[pc[g]] < Stage["copying"]
      BY <1>2, <3>1
    <3>5. /\ jobs \subseteq jobs'
          /\ \A j \in jobs' : j \in Jobs /\ (j \in jobs \/ (j[1] = g /\ pc[g] = "locking"))
      BY <3>1, <3>2, <3>3
    <3>6. "copying" \in {"locking", "copying", "ended", "failed"}
      OBVIOUS
    <3> QED
      BY <1>1, <3>1, <3>4, <3>5, <3>6, StageShrinks
  <2>2. CASE Begin(g) \/ Refuse(g) \/ PlanShort(g) \/ End(g)
    <3>1. UNCHANGED <<todo, mu, jobs, made>>
      BY <2>2 DEF Begin, Refuse, PlanShort, End
    <3>2. PICK p \in {"locking", "copying", "ended", "failed"} :
            /\ pc' = [pc EXCEPT ![g] = p]
            /\ \/ pc[g] = "waiting"
               \/ pc[g] = "locking" /\ p = "failed"
               \/ pc[g] = "copying" /\ p = "ended"
      <4>1. \/ pc[g] = "waiting" /\ pc' = [pc EXCEPT ![g] = "locking"]
            \/ pc[g] = "waiting" /\ pc' = [pc EXCEPT ![g] = "failed"]
            \/ pc[g] = "locking" /\ pc' = [pc EXCEPT ![g] = "failed"]
            \/ pc[g] = "copying" /\ pc' = [pc EXCEPT ![g] = "ended"]
        BY <2>2 DEF Begin, Refuse, PlanShort, End
      <4> QED
        BY <4>1
    <3>3. Stage[pc[g]] < Stage[p]
      BY <1>2, <3>2
    <3>4. \A j \in jobs : j \in Jobs
      BY <1>1 DEF TypeOK
    <3> QED
      BY <1>1, <3>1, <3>2, <3>3, <3>4, StageShrinks
  <2>3. CASE \E h \in Hash : Lock(g, h)
    BY <1>1, <2>3, WithinShrinks
  <2> QED
    BY <1>3, <2>1, <2>2, <2>3 DEF Call
<1>4. ASSUME NEW g \in Group, NEW h \in Hash, Unlock(g, h) \/ \E s \in Store : CopyProc(g, h, s)
      PROVE  Shrinks
  BY <1>1, <1>4, WithinShrinks
<1> QED
  BY <1>3, <1>4 DEF Next, Returned

\* Procs, its copies and its unlocking goroutines make no step that does not take
\* something off what is left ...
THEOREM OnlySoManySteps == Spec => [][Shrinks]_vars
<1>1. Init => HolderInv
  BY StoreStripeAssumption, HolderStart
<1>2. IndInv /\ HolderInv /\ [Next]_vars => HolderInv'
  BY StoreStripeAssumption, HolderKept
<1>3. IndInv /\ HolderInv /\ [Next]_vars => [Shrinks]_vars
  BY StoreStripeAssumption, StepShrinks
<1> QED
  BY <1>1, <1>2, <1>3, Invariance, PTL DEF Spec

\* ... which is finite for finitely many groups.
THEOREM LeftFinite ==
  ASSUME IsFiniteSet(Group) PROVE \A k \in 1 .. 5 : IsFiniteSet(Left[k])
<1>1. IsFiniteSet(Hash) /\ IsFiniteSet(Store)
  BY StoreStripeAssumption DEF StoreStripeAssumption
<1>2. IsFiniteSet(1 .. 3)
  <2>1. 1 \in Int /\ 3 \in Int
    OBVIOUS
  <2> QED
    BY <2>1, FS_Interval
<1> DEFINE N == 1 .. 3
<1> HIDE DEF N
<1>3. IsFiniteSet(Group \X N) /\ IsFiniteSet(Group \X Hash)
  BY <1>1, <1>2, FS_Product DEF N
<1>4. IsFiniteSet(Jobs)
  <2>1. IsFiniteSet(Group \X Hash) /\ IsFiniteSet(Store)
    BY <1>1, <1>3
  <2> DEFINE F == [x \in (Group \X Hash) \X Store |-> <<x[1][1], x[1][2], x[2]>>]
  <2>2. IsFiniteSet((Group \X Hash) \X Store)
    BY <2>1, FS_Product
  <2>3. F \in [(Group \X Hash) \X Store -> Jobs]
    BY DEF Jobs
  <2>4. ASSUME NEW j \in Jobs PROVE \E x \in (Group \X Hash) \X Store : F[x] = j
    <3>1. j[1] \in Group /\ j[2] \in Hash /\ j[3] \in Store /\ j = <<j[1], j[2], j[3]>>
      BY DEF Jobs
    <3> DEFINE x == <<<<j[1], j[2]>>, j[3]>>
    <3>2. x \in (Group \X Hash) \X Store /\ F[x] = j
      BY <3>1
    <3> QED
      BY <3>2
  <2>5. F \in Surjection((Group \X Hash) \X Store, Jobs)
    BY <2>3, <2>4 DEF Surjection
  <2> HIDE DEF F
  <2> QED
    BY <2>2, <2>5, FS_Surjection
<1>5. /\ StagesLeft \in SUBSET (Group \X N)
      /\ TodoLeft \in SUBSET (Group \X Hash) /\ LocksLeft \in SUBSET (Group \X Hash)
      /\ JobsLeft \in SUBSET Jobs /\ UnmadeLeft \in SUBSET Jobs
  BY DEF StagesLeft, TodoLeft, LocksLeft, JobsLeft, UnmadeLeft, N
<1>6. /\ IsFiniteSet(StagesLeft) /\ IsFiniteSet(TodoLeft) /\ IsFiniteSet(LocksLeft)
      /\ IsFiniteSet(JobsLeft) /\ IsFiniteSet(UnmadeLeft)
  BY <1>3, <1>4, <1>5, FS_Subset
<1>7. Left = <<StagesLeft, TodoLeft, LocksLeft, JobsLeft, UnmadeLeft>>
  BY DEF Left
<1>8. \A k \in 1 .. 5 : k = 1 \/ k = 2 \/ k = 3 \/ k = 4 \/ k = 5
  OBVIOUS
<1> QED
  BY <1>6, <1>7, <1>8
=============================================================================
